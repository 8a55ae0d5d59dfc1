# Verification of ESP-Reverse_Tunneling_Libssh2

TLA+ models, TLC runs and TLAPS proofs for the library in `src/`: a reverse SSH
tunnel for ESP32 that forwards ports of an SSH server to endpoints on the
device's own network, and the example firmware built on it, which stores the
configuration, makes the device's SSH identity and talks to a control centre.
`PROJECT.json` maps every definition to the lines it
models and lists the runs, mutants, findings, hazards and theorems.

## The system

The library runs in one task: the application calls `SSHTunnel::loop()` over and
over, and connects, disconnects or asks for a reconnect between two calls. All
socket and libssh2 calls are non-blocking once the session is up. libssh2 is
shared with other tasks through one recursive mutex that is always taken with a
timeout, so "the lock was not free" is an outcome of every attempt.

| part | state | operations | hard about it |
|---|---|---|---|
| `DataRingBuffer`, `PrependBuffer` | FreeRTOS byte ring, prepend storage with fill and read offset | `write`, `read`, `writeToFront`, `restoreUnsent` (in the pump), destruction | partial sends and EAGAIN put bytes back in front of newer ones |
| `CircuitBreaker` | table of (port, consecutive failures, deadline) | `isBackedOff`, `recordFailure`, `recordSuccess` | clock wrap, sentinel 0, full table |
| `ChannelManager` | slots: channel, socket, two rings, timers, flags | `allocateSlot`, `bindChannel`, `beginClose`, `finalizeClose`, `abandonSlot` | close and free answer EAGAIN and are retried; one of several allocations fails |
| `TransportPump` | round-robin offset, close events, `sessionDegraded_` | `pumpAll`: read SSH, write local, write SSH and read local, check closes | half-close, backpressure in both directions, drain deadlines, EOF order |
| `SSHTunnel` | state, pending queue, deferred-close queue, reconnect counters | `loop`, `connectSSH`, `disconnect`, `requestReconnect` | queues at their limit, ownership of channel pointers across error paths, pairs of events |
| `SSHSession` | libssh2 session, socket, listeners, failure counters | `connect` (TCP, handshake, host key, authentication, listeners), `checkConnection`, `sendKeepalive`, `acceptChannel`, `cleanupSession` | a failure at any step of connect; a session libssh2 refuses to free; noticing a dead transport |
| `SSHConfiguration`, validators | credentials, mappings, limits | setters, getters, file loading | getters that hand out references while another task sets |
| `wifi_provisioning`, `ssh_key_provisioning` (example) | configuration file with temporary and backup, two key files with temporaries, request markers; the configuration in RAM | `begin`, WiFi and device portal, `writeConfig`, `saveKeys`, `ensure`, managed update, edit, WiFi and factory reset | a power failure or a failing file operation anywhere in a sequence of them |
| BOOT button (example) | press and click stamps, click count, pending action | sampler task, `pollConfigResetButton` | the main task resets the sampler's fields without a lock |
| `minis_registration`, `minis_public_key_upload` (example) | one-place queue of a fetched cfg.txt, alert queue, notice and genesis markers | heartbeat task, `queueAlert`, `applyPendingMinisConfig`, genesis upload | lost answers, restarts, a marker that two tasks write and remove |
| logger, socket options, lock guards, accept diagnostics | – | – | no decision depends on them |

`loop()` calls the session for health, keepalive and accept; hands accepted
channels to the channel manager (which asks and feeds the circuit breaker) or
into the queues; calls `pumpAll`; takes the close events the pump recorded;
replaces the session if the pump had to abandon a slot; and then serves the
queues. Events reach the application through callbacks. The example's main task
starts the heartbeat task and the button task; it gets fetched configurations
through a queue, stores them and restarts. At a start it hands the stored
credentials to `globalSSHConfig`, from where the session takes them.

What makes each part correct: bytes reach the peer in order and none disappears
uncounted (buffers, pump); a channel always gets closed, and its slot freed
(pump); a channel pointer has one holder and never outlives its session
(tunnel); the application's view agrees with the slots (tunnel); the tunnel comes
back (tunnel, session); connect is all or nothing, and pinned keys are honoured
(session); a dead endpoint is backed off, others are not affected (breaker); a
boot finds the old or the new configuration, a registered key is kept until the
operator replaces it and forgotten by a factory reset (store); the device settles
on the published configuration and reports it (agent); no reset happens that
nobody asked for (button).

## Modules

| module | models | runs |
|---|---|---|
| `ByteFifo` | abstract promise of one direction of a channel: a FIFO queue of numbered bytes | – |
| `DataRingBuffer` | `ring_buffer.h`, `prepend_buffer.h`, `restoreUnsent` and one chunk of the pump's drain loops | `ring_buffer` |
| `CircuitBreaker` | `circuit_breaker.h` | `circuit_breaker` |
| `ChannelSlot` | abstract promise of a channel slot: its life cycle, as the tunnel and the pump both rely on it | – |
| `ChannelPump` | one slot under `ssh_transport.cpp` and `ssh_channel.cpp` | `pump`, `pump_*` |
| `SshTunnel` | `ssh_tunnel.cpp`, ownership in `ssh_channel.cpp` | `tunnel`, `tunnel_*` |
| `SshSession` | `ssh_session.cpp`, `forward_accept_error.h`, the checks of `loop()` | `session` |
| `ConfigStore` | `wifi_provisioning.cpp`, `ssh_key_provisioning.cpp`, start-up and managed update of `main.cpp` | `config_store` |
| `MinisAgent` | `minis_registration.cpp`, the genesis part of `minis_public_key_upload.cpp`, `applyPendingMinisConfig` | `minis_agent` |
| `ConfigButton` | `sampleConfigButton`, `pollConfigResetButton` | `config_button` |
| `DataRingBufferProofs` (with `ByteFifo`), `CircuitBreakerProofs`, `ChannelPumpProofs`, `SshTunnelProofs`, `SshSessionProofs`, `MinisAgentProofs`, `ConfigStoreProofs`, `ConfigButtonProofs` | proofs about the module of that name | – |

Definitions introduced as *faulty variant* are not used by any specification.
Each is a plausible mistake in the definition that follows it; putting it in
that definition's place must break one property (the `mutants` of
`PROJECT.json`).

**DataRingBuffer.** A byte is its position in the accepted stream, so order and
identity can be told apart. The prepend buffer is modelled at the level of its
storage array, fill level and offset, as `memmove` and `memcpy` change them. A
read of the FreeRTOS ring may return fewer bytes than there are (where they wrap
around the end of the storage). `DrainChunk` is one iteration of either drain
loop: read, offer to the peer, restore the rest.

**CircuitBreaker.** `up` is the true uptime, the code sees `up % ClockRange`.
History variables remember the true deadline and the failures in a row. A channel
that waited in the pending queue is bound without asking the breaker again, so
failures also arrive while the breaker is open.

**ChannelPump.** The phases of `pumpAll` are actions in a fixed order (`phase`).
Rings are byte counts split into the part in the prepend buffer and the rest; a
timestamp is its age, which stops just above the largest limit it is compared
with. Libssh2, the sockets and the mutex choose their answer at each call: bytes
taken, EAGAIN, EOF, error, or no lock. `OpenChecks` is step 1 of `checkCloses`,
`CloseWait`/`SendEof`/`finalizeClose`/`abandonSlot` the outcomes of step 2. Either
ring may be one whose storage could not be allocated (`toLocalOk`, `toRemoteOk`).
The history is a balance per direction, `inbound` and `outbound`: bytes taken from
one side less bytes the other side took. The bounds (`Room`) limit what is in hand
at a time, not what passes through, so that the peers may send for ever.

**SshTunnel.** `live` is the set of channels allocated inside the libssh2
session, `slot`, `pending`, `todo` and `deferred` are the places that hold a
pointer to one, `forgotten` are those the code has given up on. `pc` follows
`loop()`. `cleanExpiredPending` and `drainPendingQueue` visit the queue entry by
entry (`todo` is what is still to be visited, `pending` what is kept). The pump
is abstracted to which slots begin to drain, are finalized or abandoned.

**SshSession.** `connect()` is a sequence of steps with one failure action each.
`session` is null or the blocking mode (only a non-blocking session can refuse to
be freed). `openFds` and `sessions` count what the operating system and libssh2
have allocated, `run` the failures in a row that belong to the present session.

**ConfigStore.** A handler is the list `todo` of the file operations it makes,
each with what the code undoes when it fails; `FileOp` executes the next one,
`FileOpFails` and `ShortWrite` are its failures, `PowerLoss` and the restarts
clear everything but `files`. The content of a file is the settings it carries, a
key its pair number and whether it is of the kind `ensure()` accepts. The history
variables say what a boot may rightly find (`committed`, `identity`) and where
the code itself gives its guarantee up (`cfgRisk`, `keyRisk`): a short write that
is not noticed, a backup that could not be restored, an exchange of the key files
that was cut. A bad input, a network that cannot be joined and a refused form
change nothing and are not steps.

**MinisAgent.** A cfg.txt is its version number. `mainAt` and `beatAt` are where
the two tasks stand; between two steps of one the other may run and the power may
fail. `notified` is the notification count of the heartbeat task, which decides
when a queued alert is looked at. `PostFails` covers both a request that never
arrived and an answer that was lost.

**ConfigButton.** Time is counted in samples and a stamp is kept as its age. The
give-up path of `pollConfigResetButton` (a marker file that cannot be opened) is
six steps, one per assignment, between which the sampler may run. `finger` is what
the finger did as far as the device watched it, kept without any counter or stamp
of the code.

## Runs

All bounds are in the `.cfg` files; each run takes seconds to about two minutes.

| run | shows | bounds and why they are enough |
|---|---|---|
| `ring_buffer` | bounds, implements `ByteFifo` (and so delivers in order) | ring 4, prepend 3, work buffer 3, 6 bytes: a restored remainder in front of a full ring, several partial sends in a row |
| `circuit_breaker` | a port is backed off only after the threshold and within its window, the windows of others are not touched and none is shortened | 3 ports in a table of 2; clock range 8, uptime 13: the clock wraps and deadlines lie on both sides of the wrap |
| `pump` | accounting, no loss without a cause, EOF after the last byte | ring of 4 with marks at 3 and 1; every timeout 1 to 3 ticks, in the order of the real ones; up to 4 bytes of one direction in hand (a full ring), or 2 of both together, for ever; several channels one after the other, bound with either ring or both not allocated. 7.2 million states |
| `pump_live` | a drain ends, EOF leads to a close, a pause ends | 4 bytes of one direction or 5 of both in hand, for ever: local reads are paused and bytes still come in and clear `firstEagainMs`; the timeouts as short as their order allows. Without the premises on the peers (see Fairness) TLC finds each of the four parts violated, so the cases they exclude are within the bounds |
| `tunnel` | queues, ownership, events, counts | 2 slots, 4 channels, both queues of length 1: slots and both queues full at the same time |
| `tunnel_live` | recovery after errors, no endless wait | 2 attempts, then the cooldown, over and over; 1 slot, 2 waiting channels |
| `session` | nothing leaks, all or nothing, pinned key, own failures, a dead transport is noticed | 3 mappings of which 2 are wanted, 2 server keys, thresholds of 3 as in the code, keepalive configured or (no lock) not |
| `config_store` | the boot finds the old or the new configuration, the key pair matches, the identity is kept, a complete set-up survives WiFi changes, a factory reset forgets | 2 tunnel configurations, 3 key pairs (first identity, a submitted one, a renewed one), 3 requests, 1 failing operation, 2 power failures: a save interrupted, repaired by the next boot and interrupted again. Devices start blank, with a password, or with a key of either kind with or without public key. The same properties hold with 2 failing operations |
| `minis_agent` | the notice of a change is kept until delivered, the device settles, alerts drain | 2 versions (the second is published while the first is being applied), alert queue of 2 with 2 alerts besides notice and genesis: the queue runs full; 1 power failure |
| `config_button` | no action without the presses it stands for | click from 2 samples on, window 15: five clicks with pauses just fit, and windows expire between them; hold 22, well above the window as in the code, so that a WiFi reset can be given up within the first hold time after boot; 1 refused marker |

Deadlock is checked except where the explored stretch of time, bytes or requests
ends by a bound (`CircuitBreaker`, `DataRingBuffer`, `ConfigStore`) and where a
boot that could not start the heartbeat task has nothing left to do
(`MinisAgent`).

### Where the code and its documentation differ

| run | what happens |
|---|---|
| `pump_half_close_drops` | `shutdown(SHUT_WR)` on remote EOF does not wait for `toLocal`; with healthy peers the rest is dropped. The integration test expects zero drops. |
| `tunnel_eagain_leak` | `closeAcceptedChannel` ignores EAGAIN; the channel stays allocated without a holder until the session ends. |

Smaller observations, without a run.

In the library:

* A breaker deadline more than 2^31 ms (24.8 days) old reads as being in the
  future, and only a success clears it (`circuit_breaker.h:52`); a deadline that
  wraps to 0 means "none", yet the call reports a trip (`:76`).
* The test for a failed ring allocation (`capacityBytes() == 0`,
  `ssh_channel.cpp:219`) is never true: the constructor keeps the nominal capacity
  (`ring_buffer.h:62-91`). The channel is bound; `ChannelPump` explores that
  for either ring. Without `toLocal` nothing the server sends is delivered, and
  bytes that the reads after EOF bring are not counted: the exception in
  `BytesAccounted` and one of the causes in `LossHasCause`.
* `EAGAIN_STALL_TIMEOUT_MS` is "Max SSH-write EAGAIN duration before close"
  (`ssh_transport.h:116-117`), yet every SSH read clears `firstEagainMs`
  (`ssh_transport.cpp:540`, `:589`): while the server sends, a closed window pauses
  the local reads without limit.
* At most 32 close events are recorded in one `pumpAll` (`MAX_CLOSE_EVENTS`,
  `ssh_transport.cpp:1018`, `:1096`). With more than 32 channels closing at once the
  application misses some; `SshTunnel` and `EventsMatch` are about up to 32 slots.
* The comment at `ssh_transport.cpp:954` speaks of 500 ms where the timeout is
  5 s; `consecutiveErrors > 5` in `checkCloses` is never decisive; bytes read in
  step 2a are not in `totalBytesReceived`.
* An EAGAIN from one listener resets the count of fatal accept errors of another;
  connect() blocks without a libssh2 timeout.
* `SSHConfiguration::validateConfiguration` is never called, and
  `SSHTunnel::removeReverseTunnel` looks an index up before the lock under which
  the mapping at that index is removed.

In the example firmware (the exceptions in `ConfigStore`'s properties):

* `writeConfig` does not notice a short write, unlike `writeKeyFile`, and replaces
  a good file by the truncated one. A backup that could not be restored is
  deleted by the next `writeConfig`. Both are excepted from `OldOrNew` (`cfgRisk`).
* A cut between the exchange of the private and of the public key leaves a pair
  that does not match (`keyRisk`, excepted from `PairMatches`), and saving the stored keys again keeps it that way. The
  temporaries are never recovered, so that even re-saving unchanged keys exposes
  the identity to a power failure.
* A switch to a password removes the key files before `writeConfig`; if that
  fails the device is left with a key set-up and no key. A backup from before the
  switch that could not be removed comes back when a later factory reset is cut
  after its first removal: a complete set-up again, with a key that is gone.
* The portal accepts any public key of the right form (`validPublicKey`), also one
  of another pair. `Submissions` leaves that out: `PairMatches` is about what the
  firmware does with halves that belong together.
* `ensure()` replaces an imported key that is not an EC key, or has no public
  key, when the set-up is incomplete. A WiFi reset of a device whose key cannot be
  read rewrites its file as incomplete. A storage that cannot be mounted is
  formatted.
* `setup()` that could not reach the WiFi ("tunnel startup is paused") never
  starts the tunnel later; the heartbeat service is tried once per boot.
* A notice delivered between `markConfigAppliedNotice` and the restart removes
  the marker of the later change (`overlap` in `MinisAgent`): that change is not
  announced, although CHANGELOG.md:19-21 says the marker is cleared only after
  delivery.
* After a deferred alert the notifications of the others are dropped; they wait
  for the next heartbeat. Genesis is reported at least once, not exactly once.
* The cache of the heartbeat interval has a backup that is never read, and a write
  of it that races with a factory reset leaves the file behind.
* A press between the resets of `buttonWasPressed` and `buttonPressedAt` in the
  give-up path counts as held since power-up and may raise an edit request, a
  stale count a WiFi reset (`interrupted` in `ConfigButton`). If the device has been
  up for less than the hold time, a bounce there is taken for a click, so that four
  clicks raise a factory reset. Fewer never do.

## Fairness

* The application keeps calling `loop()`, so its steps are weakly fair; time
  passes (`Tick`, `PendingExpires`; strongly fair in `SshTunnel`, where they
  happen only between two calls of `loop()`).
* The mutex is held by others only briefly: a phase that asks for it again and
  again gets it. This is a premise of the properties that need it (`MutexFair` in
  `ChannelPump` and `SshTunnel`, strong fairness of the steps made under the
  lock) and part of `FairSpec` in `SshSession`. `DrainEnds` does without it.
* `DeadNoticed` is about a transport that is dead for libssh2, whose accept calls
  then fail; a half-open connection that answers EAGAIN for ever is not noticed by
  them. The keepalive may go through all the same, or fail in a way that resets its
  counter (`sendKeepalive`).
* Of the peers `DrainEnds` assumes nothing. `EofLeadsToClose` assumes that, after
  one end sent EOF, the other falls silent in the end (`LocalFallsSilent`,
  `RemoteFallsSilent`), `PausesEnd` that the remote end does. The code guarantees no
  more: bytes that still move refresh `lastActivity`, so that the half-close timer
  "only fires on truly silent channels" (`ssh_transport.h:112-115`), inbound bytes
  clear the stall timer of the SSH writes and refill a ring that is being drained.
* `Reconnects` assumes that a server that is tried again and again is
  reached in the end (`ServerReachable`). The application is one that leaves retries to `loop()`, as
  `ssh_tunnel.h:53-54` asks for (`PatientNext`): calling `connectSSH` in the error
  state over and over restarts the retry timer each time.
* `MinisAgent`: both tasks run (weak fairness), and what may fail does not fail for
  ever: the retries are unbounded, so that a request or a write that is tried
  again and again goes through (strong fairness of `SaveConfig`, `GetConfig`,
  `PostAlert`). `Settles` further assumes that from some time on a boot can start
  the service, since the code tries that once per boot.

## Proofs

For all values of the constants that satisfy the named assumptions:

* **The buffers are FIFO queues** (`RingIsFifo`, with `RingTypeCorrect`,
  `RingSafe`, `RingStreamIntact`). Assumption `SizesAssumption`: the work buffer
  is no larger than the prepend buffer, which `SSHTunnel::init` enforces. The
  inductive invariant (`RingInv`) adds to the types and bounds that the offset of
  an empty prepend buffer is 0 and that the fallback was never taken. The key
  fact is that `read` empties the prepend buffer before it touches the ring:
  what comes back is a prefix of prepend buffer plus ring, at most one work buffer
  long, and is put back where it came from (`SplitHead`, `SplitTail`, `PutBack`
  in `DataRingBufferProofs`). Every step maps to a `Put`, `Deliver` or `Discard` of
  `ByteFifo`, whose own invariant (`FifoInvariant`) then gives order and
  conservation.
* **The session** (`SessionInvariant` and its corollaries `SessionLeaksNothing`,
  `SessionComplete`, `SessionPinned`, `SessionOwnFailures`). Assumption
  `SessionAssumption` only types the constants. The stated properties are not
  inductive by themselves: `SessionInv` adds what holds between the steps of
  connect() (`Stages`: which of socket, session, login and listeners exist at
  which step, with which blocking mode) and that the counters are zero while
  there is no session (`Quiet`). Without the blocking mode the proof fails where
  a failed step cleans up: the session could refuse to be freed and the next
  connect would find it.

* **The circuit breaker** (`BreakerSafety`; `BreakerTypeCorrect`,
  `BreakerWindow`, `BreakerIsolated`, `BreakerNeverShortened`). Assumption
  `BreakerAssumption`: the clock's range is more than twice the longest back-off,
  the counter can reach the threshold, ports are not 0. `BreakerInv` adds what an
  entry says about the history of its port (`Speaks`): its deadline is the clock
  reading of the true end of the back-off, it is set exactly from the threshold
  on, and it is never further ahead than the delay of the failures counted so far.
  The window then follows from the signed comparison of remainders (`ClockVerdict`,
  over `ModDiff`), and that a back-off is never shortened from
  the delay growing with the failures (`DelayFacts`, over `PowerFacts`: 2^n counts
  the subsets of 1..n). Isolation needs only that `findOrAlloc` returns an entry of
  the port itself or an unused one (`StoreFacts`).
* **The pump** (`PumpSafety`; `PumpTypeCorrect`, `PumpBytesAccounted`,
  `PumpLossHasCause`, `PumpEofIsLast`). Assumption `PumpAssumption` orders the
  timeouts and thresholds as the code's constants are. `PumpInv` adds `SlotOK`
  (a free slot holds no bytes; a ring behind its prepend buffer fits its capacity)
  and `Phases` (what each of the four phases of `pumpAll` may rely on, such as both
  rings being empty when EOF is sent). Each action is reduced to what it moves:
  bytes from a peer into a ring, out of a ring, or into the drop counter
  (`ActiveStep`), so that the balance is argued once.
* **The tunnel** (`TunnelSafety`; `TunnelTypeCorrect`, `TunnelNoDangling`,
  `TunnelOneHolder`, `TunnelActiveCount`, `TunnelEventsMatch`,
  `TunnelNothingElseLost`). Assumption `TunnelAssumption` types the constants.
  `NoDangling` and `OneHolder` depend on each other: a pointer is valid because
  nobody else frees the channel, and nobody else holds it because a new channel is
  one that was not live. `TunnelInv` states both, `OneHolder` without counting
  (`Unshared`), and, for the steps inside `loop()` at which the stated properties
  do not hold yet, what holds instead (`Told`, `Accounted`, `Phases`).
* **One life cycle of a slot** (`PumpIsSlot`, `TunnelKeepsSlot`). `SshTunnel`
  treats the pump as a choice of which slots drain, are finalized or abandoned, and
  `ChannelPump` treats the tunnel as something that binds a free slot and takes its
  events. `ChannelSlot` is what each relies on, and both are shown to implement it,
  the tunnel for each of its slots. Three of its guards carry the weight. A slot is
  bound only when its last close event was taken (`closeEvents` and
  `pendingCloseCount_` are empty outside one step of `loop()`); only a slot that was
  already draining is abandoned (a close that begins in `checkCloses` has age 0,
  which `AbandonsOnlyDraining` derives from `OpenChecks`); and an abandoned slot is
  not used again before its session was replaced (`Replacing`). `PumpIsSlot` assumes
  a cooldown above 0; the code's is 50 ms. TLC finds no violation of either
  refinement on the constants of the runs `pump` and `tunnel`. The two theorems show
  that the models agree on the slot, not that every behaviour of the pump is one that
  `SshTunnel` allows.
* **The control plane** (`MinisSafety`; `MinisTypeCorrect`, `MinisNoticeKept`).
  Assumption `MinisAssumption` types the constants. That an acknowledged notice may
  remove the marker depends on the notice speaking for the change that is owed:
  `MinisInv` follows the versions from the server to the flash (`Versioned`), ties
  what is owed to what is stored and running (`Owing`), a queued notice to what is
  owed (`Noticed`), and says when the marker may go (`Clearing`).

* **The configuration store** (`StoreTypeCorrect`, `StoreOldOrNew`,
  `StorePairMatches`, `StoreResetForgets`, `StoreIdentityKept`,
  `StoreSetupSurvives`), for any number of networks, configurations, keys,
  requests, failing operations and power failures.
  Assumptions: `StoreAssumption` types the constants (at least one key pair can be
  made), `AbsentAssumption` says that no content of a file is the value for a
  missing file. A handler is data here, a list of file operations, so the
  invariants say what the rest of the list means for the files as they are:
  * `TypeInv`: an operation writes to a file only content of its kind, and undoes
    only what the code may undo; `PhaseInv` says what RAM holds in which phase,
    `SavesWell` what a handler may save.
  * `CfgInv` for `OldOrNew`: what is left of `writeConfig` is one of nine
    lists (with or without an earlier file), each with what `/esp32tun.cfg`, its
    temporary and its backup hold then (`Writing`); likewise for the tidying after a failure and
    the repair at boot. The step that matters is the one between the two renames,
    when only the backup exists (`OnlyBackup`).
  * `PairInv` for `PairMatches`: the same for `saveKeys` and `persistKeyPair`
    (`Submitted`, `Made`). The two key files never hold halves of two pairs but
    while `Exchanging`, and a failure or power cut there is what sets `keyRisk`.
  * `ForgetInv` for `ResetForgets`: a key file is gone or its removal is still in
    the list (`Wiping`), and no operation in a list writes a forgotten key back
    (`FreshOps`). Without the second part a handler that was prepared before the
    reset could restore one.
  * `IdentityInv` for `IdentityKept`: while the device has an identity, flash, RAM
    and the handler each keep it (`FlashKeeps`, `RamKeeps`, `HandlerKeeps`); the
    three depend on each other, since a handler saves what RAM holds and a boot
    loads what flash holds. Its step uses `CfgInv` and `PairInv`.
  * `MirrorInv` for the action property `SetupSurvives`: while the WiFi portal can
    save, RAM has the tunnel part of the file on flash and the portal is open for a
    WiFi reset (`Mirrors`), and the file that is being written is taken from there
    (`Taken`). It uses all of the above but `ForgetInv`.

  Two things came out of the proofs. `Stores` had a `CASE` with overlapping arms,
  whose value TLA+ leaves open where TLC takes the first; it is an `IF` now. And
  `SetupSurvives`, in an earlier wording that took any file that names a key for
  a complete set-up, is false with five requests (the run has three): the backup
  that comes back, see above. It now speaks of a set-up with a key once its save
  came through.

* **The button** (`ButtonTypeCorrect`, and the action property
  `ButtonActionsEarned`). Assumption `ButtonAssumption`: a bounce is shorter than
  the click window and the window shorter than a hold, as the code's 40 ms, 3 s and
  4 s are. `ButtonInv` relates the fields of the sampler to what the finger did:
  stamps are no older than the uptime (`Stamps`), what a raised action leaves in
  them (`Pending`), and, as long as no reset was interrupted, press and clicks
  are known exactly (`Tracked`). `Earned` is what survives an interrupted reset:
  while its window is open, a count of n has n clicks of the finger behind it
  (`CountBacked`), or n - 1 and one bounce, and in the second case no further press
  with a wrong stamp is open. That is why one bounce is the most that can be
  counted. The arithmetic is in `WithinFacts` (which gaps stay within one window)
  and `BackedClick` (one more click).

  The proof corrected the property. It used to say that a factory reset always
  takes five clicks. That is false when the hold time is well above the window: after
  a WiFi reset was given up early, a press registered between the resets of
  `buttonWasPressed` and `buttonPressedAt` is measured from power-up, which is long
  enough for a click and still short of a hold. The run had a hold time one sample
  above the window, which leaves no room for it; its constants were changed too.

Each inductive invariant was first checked with TLC on the constants of the
component's run, except `CfgInv` and `PairInv`: they say that the list splits
into parts, which quantifies over all sequences.

Only model-checked: the liveness properties and `DeadNoticed` (fairness and
`ENABLED` are out of the prover's reach).

## Not modelled

* Configuration setters other than those that hand over credentials: they store
  what they are given. The getters return references; a torn read by another task
  is undefined behaviour of the string class, and the firmware sets everything
  before the tunnel starts.
* The heap guards (of a channel and of TLS): a refusal is one of the outcomes of
  the step they guard.
* Fingerprint normalisation (key equality in `SshSession`), URL encoding, HTML,
  the grammar of cfg.txt, the encoding of keys: pure text, represented by whether
  the result is usable.
* Fairness between slots (round-robin), statistics, logging, diagnostic builds,
  socket options, status LED, MAC vendor profiles: no property depends on them.
* The cached heartbeat interval and the bootstrap request: they change when the
  agent acts, not what it does.
* A factory reset also removes the cache of the agent and its notice marker
  (`wifi_provisioning.cpp:894-897`). `ConfigStore` has only the files it reads, and
  `MinisAgent` no factory reset.
* `MinisAgent` compares versions where `applyPendingMinisConfig` compares fields:
  that a value which was accepted, stored and loaded again equals itself is by
  reading (`encode` and `decode` are inverse), not by the model.

## Plan

1. Done: buffers with their refinement and proofs; breaker; pump; tunnel; session
   with its proofs; configuration store, control-plane agent and button of the
   example firmware.
2. Proved: the safety properties of the buffers, the breaker, the pump, the tunnel,
   the session, the control-plane agent, the configuration store and the button.
3. Composed: the slot, by the common life cycle `ChannelSlot`. Of the session the
   tunnel relies on two facts, which `SshSession` proves as they stand: a session in
   use is complete, and no session is allocated but the one `session_` points to,
   which may be one that libssh2 refused to free (`CompleteOrGone`, `NothingLeaks`).
