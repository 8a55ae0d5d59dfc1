---------------------------- MODULE ChannelPump -----------------------------
(***************************************************************************)
(* The life of one channel slot under TransportPump::pumpAll               *)
(* (ssh_transport.cpp) and ChannelManager (ssh_channel.cpp): bound, Open,  *)
(* Draining, finalized or abandoned, and bound again.  The four phases of  *)
(* pumpAll are four actions that run in order; time, the SSH peer and the  *)
(* local endpoint act between and within them.  Rings are byte counts (the *)
(* order of bytes is DataRingBuffer's business) and a timestamp is its     *)
(* age, saturating just above the largest limit it is compared with.       *)
(***************************************************************************)
EXTENDS Integers

CONSTANTS RingCap,      \* capacity of each ring
          BufSize,      \* bufSize_
          SmallRead,    \* the 64 byte read of a paused channel
          EofPump,      \* bytes of the reads that follow libssh2_channel_send_eof
          MAX_WRITE_PER_CHANNEL,
          ErrorLimit,   \* consecutiveErrors above this close the channel (3)
          EOF_GRACE_MS, EAGAIN_STALL_TIMEOUT_MS, HALF_CLOSE_TIMEOUT_MS,
          LOCAL_SEND_STALL_TIMEOUT_MS, DRAIN_TIMEOUT_MS,
          HARD_ABANDON_TIMEOUT_MS, FINALIZE_COOLDOWN_MS,
          ChannelTimeout,  \* channelTimeoutMs_, 0 = disabled
          PeersFail,       \* whether sockets and libssh2 may report hard errors
          AllocFails,      \* whether a ring allocation may fail
          MaxIn, MaxOut,   \* bounds: bytes of one direction in hand while there are
          MaxBoth          \* none of the other, and in both together

ASSUME PumpAssumption ==
  /\ RingCap \in Nat /\ RingCap >= 4   \* so that 25% of it is at least 1
  /\ BufSize \in Nat \ {0}
  /\ SmallRead \in Nat \ {0}
  /\ EofPump \in 0..RingCap            \* 4 * 512 bytes; init() makes it 8192
  /\ MAX_WRITE_PER_CHANNEL \in Nat \ {0}
  /\ ErrorLimit \in Nat
  /\ {EOF_GRACE_MS, EAGAIN_STALL_TIMEOUT_MS, HALF_CLOSE_TIMEOUT_MS,
      LOCAL_SEND_STALL_TIMEOUT_MS, FINALIZE_COOLDOWN_MS, ChannelTimeout} \subseteq Nat
  /\ DRAIN_TIMEOUT_MS \in Nat
  /\ HARD_ABANDON_TIMEOUT_MS \in Nat
  /\ DRAIN_TIMEOUT_MS < HARD_ABANDON_TIMEOUT_MS
  /\ PeersFail \in BOOLEAN /\ AllocFails \in BOOLEAN
  /\ {MaxIn, MaxOut, MaxBoth} \subseteq Nat

VARIABLES phase,         \* where the tunnel task is in loop()
          ch,            \* the ChannelSlot
          lastFinalize,  \* lastFinalizeMs: survives resetSlot
          degraded,      \* sessionDegraded_
          events,        \* pendingCloseCount_
          archived,      \* this channel's share of completedBytesDropped_
          inbound,       \* history: bytes read from the SSH channel, less those
                         \* the local socket took
          outbound,      \* history: bytes received from the local socket, less
                         \* those libssh2 took
          lossy          \* history: an error or a deadline cut the channel,
                         \* or it was bound without a toLocal ring

history == <<inbound, outbound>>
outcome == <<lastFinalize, degraded, events, archived>>
vars == <<phase, ch, outcome, history, lossy>>

Unset == -1
Min2(a, b) == IF a <= b THEN a ELSE b
Max2(a, b) == IF a >= b THEN a ELSE b

High == (RingCap * 75) \div 100   \* BACKPRESSURE_HIGH_PCT
Low  == (RingCap * 25) \div 100   \* BACKPRESSURE_LOW_PCT

\* A DataRingBuffer: n bytes in all, `front` of them in its prepend buffer.
EmptyRing == [n |-> 0, front |-> 0]
\* One whose storage could not be allocated takes nothing.
Free(ok, r) == IF ok THEN RingCap - (r.n - r.front) ELSE 0
FreeLocal == Free(ch.toLocalOk, ch.toLocal)
FreeRemote == Free(ch.toRemoteOk, ch.toRemote)
Filled(r, k) == [r EXCEPT !.n = @ + k]

\* Faulty variant: the prepend buffer is charged for bytes of the ring behind it.
SentUnclamped(r, taken) == [n |-> r.n - taken, front |-> r.front - taken]

\* What is left after `taken` bytes went to the peer, none restored.
Sent(r, taken) == [n |-> r.n - taken, front |-> Max2(r.front - taken, 0)]

\* The sizes the prepend buffer may have after the peer took `taken` bytes
\* and the rest of the last chunk (all of an earlier remainder) was restored.
RestoredSizes(r, taken) ==
  Max2(r.front - taken, 1)..Min2(r.n - taken, BufSize)

ClosedSlot ==
  [active |-> FALSE, state |-> "Closed",
   toLocalOk |-> TRUE, toRemoteOk |-> TRUE,
   remoteEof |-> FALSE, localEof |-> FALSE, localShutdownSent |-> FALSE,
   sshReadPaused |-> FALSE, localReadPaused |-> FALSE, errors |-> 0,
   toLocal |-> EmptyRing, toRemote |-> EmptyRing, dropped |-> 0,
   closeComplete |-> FALSE, lastActivity |-> 0, closeStart |-> Unset,
   eofSent |-> Unset, firstEagain |-> Unset, firstLocalSendEagain |-> Unset]

\* Faulty variant: a channel that drains already starts its deadline anew.
beginCloseAgain(c) ==
  IF ~c.active THEN c ELSE [c EXCEPT !.state = "Draining", !.closeStart = 0]

\* ChannelManager::beginClose
beginClose(c) ==
  IF ~c.active \/ c.state # "Open" THEN c
  ELSE [c EXCEPT !.state = "Draining", !.closeStart = 0]

\* One more libssh2 error; more than ErrorLimit of them close an open channel.
CountError(c) ==
  LET e == [c EXCEPT !.errors = Min2(@ + 1, ErrorLimit + 3)]
  IN  IF e.errors > ErrorLimit THEN beginClose(e) ELSE e

\* channel_timeout::expired
Expired(c) == ChannelTimeout > 0 /\ c.lastActivity > ChannelTimeout

-----------------------------------------------------------------------------
Init ==
  /\ phase = "accept"
  /\ ch = ClosedSlot
  /\ lastFinalize = Unset
  /\ degraded = FALSE
  /\ events = 0
  /\ archived = 0
  /\ inbound = 0 /\ outbound = 0
  /\ lossy = FALSE

\* Time passes.  The ages of an inactive slot no longer matter.
Older(age, limit) == IF age = Unset THEN Unset ELSE Min2(age + 1, limit + 1)

Tick ==
  /\ lastFinalize' = IF lastFinalize = Unset THEN Unset
                     ELSE Min2(lastFinalize + 1, FINALIZE_COOLDOWN_MS)
  /\ ch' = IF ~ch.active THEN ch ELSE
           [ch EXCEPT
              !.lastActivity = Older(@, Max2(HALF_CLOSE_TIMEOUT_MS, ChannelTimeout)),
              !.closeStart = Older(@, HARD_ABANDON_TIMEOUT_MS),
              !.eofSent = Older(@, EOF_GRACE_MS),
              !.firstEagain = Older(@, EAGAIN_STALL_TIMEOUT_MS),
              !.firstLocalSendEagain = Older(@, LOCAL_SEND_STALL_TIMEOUT_MS)]
  /\ UNCHANGED <<phase, degraded, events, archived, history, lossy>>

-----------------------------------------------------------------------------
(* SSHTunnel::loop before pumpAll: channels are accepted and bound. *)

\* allocateSlot finds the slot free and out of its cooldown; bindChannel
\* connects the local endpoint and creates the rings.  Either may fail alone,
\* and then still reports its nominal capacity and is accepted.
bindChannel(toLocalOk, toRemoteOk) ==
  /\ phase = "accept"
  /\ ~ch.active
  /\ lastFinalize = Unset \/ lastFinalize >= FINALIZE_COOLDOWN_MS
  /\ (toLocalOk /\ toRemoteOk) \/ AllocFails
  /\ ch' = [ClosedSlot EXCEPT !.active = TRUE, !.state = "Open",
                              !.toLocalOk = toLocalOk,
                              !.toRemoteOk = toRemoteOk]
  /\ inbound' = 0 /\ outbound' = 0
  /\ archived' = 0 /\ lossy' = ~toLocalOk
  /\ UNCHANGED <<phase, lastFinalize, degraded, events>>

\* allocateSlot finds no free slot and begins to close a stale one.
RecycleStale ==
  /\ phase = "accept"
  /\ ch.active /\ Expired(ch)
  /\ ch' = beginClose(ch)
  /\ UNCHANGED <<phase, outcome, history, lossy>>

StartPump ==
  /\ phase = "accept"
  /\ phase' = "sshRead"
  /\ UNCHANGED <<ch, outcome, history, lossy>>

-----------------------------------------------------------------------------
(* Phase 1, pumpSshTransport: SSH channel -> toLocal. *)

\* No slot in use, no session lock, nothing to read, or a channel at remote
\* EOF, which is read only to keep the transport going.
SshIdle ==
  /\ phase = "sshRead"
  /\ phase' = "toLocal"
  /\ UNCHANGED <<ch, outcome, history, lossy>>

SshPaused == ch.sshReadPaused /\ ch.toLocal.n >= Low

\* The slot after n more bytes were read from SSH into toLocal.
AfterSshRead(n) ==
  IF n = 0 THEN ch
  ELSE [ch EXCEPT !.toLocal = Filled(@, n), !.lastActivity = 0,
                  !.errors = 0, !.firstEagain = Unset]

\* Up to four reads; they stop above the high-water mark, at EAGAIN, at EOF
\* (also noticed by libssh2_channel_eof) and at an error.
SshRead(n, eof, err) ==
  /\ phase = "sshRead"
  /\ ch.active /\ ~ch.remoteEof /\ ~SshPaused
  /\ n <= FreeLocal
  /\ n <= Min2(4 * BufSize, Max2(High - ch.toLocal.n, 0) + BufSize)
  /\ LET full == FreeLocal = 0 \/ (n > 0 /\ ch.toLocal.n + n > High)
         c == [AfterSshRead(n) EXCEPT !.sshReadPaused = full]
     IN  /\ err => PeersFail /\ ~full /\ n <= 3 * BufSize
         /\ ch' = [IF err THEN CountError(c) ELSE c EXCEPT !.remoteEof = eof]
  /\ inbound' = inbound + n
  /\ phase' = "toLocal"
  /\ UNCHANGED <<outcome, outbound, lossy>>

\* A paused channel gets one small read, into the room above the mark.
SshPausedRead(n, eof, err) ==
  /\ phase = "sshRead"
  /\ ch.active /\ ~ch.remoteEof /\ SshPaused
  /\ FreeLocal > 0
  /\ n <= Min2(FreeLocal, SmallRead)
  /\ n > 0 => ~eof /\ ~err
  /\ eof => ~err
  /\ err => PeersFail
  /\ ch' = [IF err THEN CountError(ch) ELSE AfterSshRead(n)
              EXCEPT !.remoteEof = eof]
  /\ inbound' = inbound + n
  /\ phase' = "toLocal"
  /\ UNCHANGED <<outcome, outbound, lossy>>

-----------------------------------------------------------------------------
(* Phase 2, drainSshToLocal: toLocal -> local socket. *)

\* A socket that has refused data for too long while there is data for it.
LocalStallCheck(c) ==
  IF c.firstLocalSendEagain > LOCAL_SEND_STALL_TIMEOUT_MS /\ c.toLocal.n > 0
  THEN [beginClose(c) EXCEPT !.firstLocalSendEagain = 0]
  ELSE c

\* The slot after the socket took `taken` bytes and left ring r.
AfterLocalSend(taken, r) ==
  IF taken = 0 THEN [ch EXCEPT !.toLocal = r]
  ELSE [ch EXCEPT !.toLocal = r, !.lastActivity = 0,
                  !.firstLocalSendEagain = Unset]

\* send() fails on a socket whose write side the pump has shut down.
LocalSend(taken) ==
  /\ phase = "toLocal"
  /\ ch.active
  /\ taken <= Min2(ch.toLocal.n, 4 * BufSize)
  /\ taken > 0 => ~ch.localShutdownSent
  /\ inbound' = inbound - taken
  /\ phase' = "toRemote"
  /\ UNCHANGED <<outcome, outbound>>

\* The ring is drained, or four whole chunks were sent.
LocalSendAll(taken) ==
  /\ LocalSend(taken)
  /\ taken = ch.toLocal.n \/ taken >= 4
  /\ ch' = LocalStallCheck(AfterLocalSend(taken, Sent(ch.toLocal, taken)))
  /\ UNCHANGED lossy

\* A partial send, or EAGAIN, which starts the stall timer: what was read but
\* not sent goes back to the front.
LocalSendBlocked(taken, front, eagain) ==
  /\ LocalSend(taken)
  /\ ~ch.localShutdownSent
  /\ taken > 0 \/ eagain
  /\ front \in RestoredSizes(ch.toLocal, taken)
  /\ LET c == AfterLocalSend(taken, [n |-> ch.toLocal.n - taken, front |-> front])
     IN  ch' = LocalStallCheck(
                 IF eagain /\ c.firstLocalSendEagain = Unset
                 THEN [c EXCEPT !.firstLocalSendEagain = 0] ELSE c)
  /\ UNCHANGED lossy

\* A hard error drops the chunk in hand and counts as local EOF.
LocalSendError(taken, lost) ==
  /\ LocalSend(taken)
  /\ PeersFail \/ ch.localShutdownSent
  /\ lost \in RestoredSizes(ch.toLocal, taken)
  /\ LET r == [n |-> ch.toLocal.n - taken - lost, front |-> 0]
         c == AfterLocalSend(taken, r)
     IN  ch' = LocalStallCheck([c EXCEPT !.dropped = @ + lost, !.localEof = TRUE])
  /\ lossy' = TRUE

LocalSendIdle ==
  /\ phase = "toLocal"
  /\ ~ch.active
  /\ phase' = "toRemote"
  /\ UNCHANGED <<ch, outcome, history, lossy>>

-----------------------------------------------------------------------------
(* Phase 3, drainLocalToSsh: toRemote -> SSH, then local socket -> toRemote. *)

\* Once EOF was sent the slot is skipped altogether; without data or without
\* the session lock only the write is.
SshWriteIdle ==
  /\ phase = "toRemote"
  /\ phase' = IF ch.active /\ ch.eofSent = Unset THEN "localRead" ELSE "close"
  /\ UNCHANGED <<ch, outcome, history, lossy>>

\* Faulty variant: the stall of SSH writes is not noticed.
SshStallIgnored(c) == c

\* libssh2 has answered EAGAIN for too long.
SshStallCheck(c) ==
  IF c.firstEagain > EAGAIN_STALL_TIMEOUT_MS
  THEN [beginClose(c) EXCEPT !.firstEagain = 0]
  ELSE c

AfterSshWrite(taken, r) ==
  IF taken = 0 THEN [ch EXCEPT !.toRemote = r]
  ELSE [ch EXCEPT !.toRemote = r, !.lastActivity = 0,
                  !.errors = 0, !.firstEagain = Unset]

\* libssh2_channel_write fails on a channel that was closed but not yet freed.
SshWrite(taken) ==
  /\ phase = "toRemote"
  /\ ch.active /\ ch.eofSent = Unset
  /\ ch.toRemote.n > 0
  /\ taken <= Min2(ch.toRemote.n, MAX_WRITE_PER_CHANNEL)
  /\ taken > 0 => ~ch.closeComplete
  /\ outbound' = outbound - taken
  /\ phase' = "localRead"
  /\ UNCHANGED <<outcome, inbound, lossy>>

\* The ring is drained or the budget of the round is used up.
SshWriteAll(taken) ==
  /\ SshWrite(taken)
  /\ taken = ch.toRemote.n \/ taken = MAX_WRITE_PER_CHANNEL
  /\ ch' = SshStallCheck(AfterSshWrite(taken, Sent(ch.toRemote, taken)))

SshWriteBlocked(taken, front, eagain) ==
  /\ SshWrite(taken)
  /\ ~ch.closeComplete
  /\ taken > 0 \/ eagain
  /\ front \in RestoredSizes(ch.toRemote, taken)
  /\ LET c == AfterSshWrite(taken, [n |-> ch.toRemote.n - taken, front |-> front])
     IN  ch' = SshStallCheck(
                 IF eagain /\ c.firstEagain = Unset
                 THEN [c EXCEPT !.firstEagain = 0] ELSE c)

\* An error restores the chunk: the bytes stay until the channel is closed.
SshWriteError(taken, front) ==
  /\ SshWrite(taken)
  /\ PeersFail \/ ch.closeComplete
  /\ front \in RestoredSizes(ch.toRemote, taken)
  /\ ch' = SshStallCheck(CountError(
             AfterSshWrite(taken, [n |-> ch.toRemote.n - taken, front |-> front])))

\* Backpressure: pause above the high mark, resume below the low one.
LocalPaused ==
  IF ch.localReadPaused THEN ch.toRemote.n >= Low ELSE ch.toRemote.n > High

\* Up to three recv() calls, unless local EOF was seen or reading is paused;
\* a full ring pauses, EOF and errors both set localEof.
LocalRead(n, eof, full) ==
  /\ phase = "localRead"
  /\ n <= Min2(FreeRemote, 3 * BufSize)
  /\ eof => n < FreeRemote
  /\ full => n = FreeRemote
  /\ n = FreeRemote /\ n < 3 => full
  /\ ~ch.localEof /\ ~LocalPaused
  /\ LET c == [ch EXCEPT !.localReadPaused = full, !.localEof = eof]
     IN  ch' = IF n = 0 THEN c
               ELSE [c EXCEPT !.toRemote = Filled(@, n), !.lastActivity = 0]
  /\ outbound' = outbound + n
  /\ phase' = "close"
  /\ UNCHANGED <<outcome, inbound, lossy>>

LocalReadSkip ==
  /\ phase = "localRead"
  /\ ch.localEof \/ LocalPaused
  /\ ch' = [ch EXCEPT !.localReadPaused = LocalPaused]
  /\ phase' = "close"
  /\ UNCHANGED <<outcome, history, lossy>>

-----------------------------------------------------------------------------
(* Phase 4, checkCloses. *)

\* Faulty variant: without the half-close timeout.
OpenChecksNoHalfClose(c) ==
  IF c.active /\ c.state = "Open" /\ c.localEof
     /\ (c.remoteEof \/ c.toRemote.n = 0)
  THEN beginClose(c) ELSE c

\* Step 1, on an Open channel: both ends or the local end are done, too many
\* errors; else the remote EOF is forwarded to the local socket as soon as
\* toRemote is empty, and an idle half-open or an idle channel is closed.
OpenChecks(c) ==
  LET done == \/ c.localEof /\ (c.remoteEof \/ c.toRemote.n = 0)
              \/ c.errors > ErrorLimit + 2
      forwards == c.remoteEof /\ ~c.localShutdownSent /\ c.toRemote.n = 0
      s == [c EXCEPT !.localShutdownSent = @ \/ forwards]
      idle == \/ /\ c.remoteEof /\ c.toRemote.n = 0
                 /\ c.lastActivity > HALF_CLOSE_TIMEOUT_MS
              \/ Expired(c)
  IN  IF ~c.active \/ c.state # "Open" THEN c
      ELSE IF done THEN beginClose(c)
      ELSE IF idle THEN beginClose(s) ELSE s

\* Step 2, what is due for a Draining channel.
AbandonDue(c) == c.state = "Draining" /\ c.closeStart > HARD_ABANDON_TIMEOUT_MS
CutDue(c) == c.closeStart > DRAIN_TIMEOUT_MS \/ c.errors > ErrorLimit
\* Faulty variant: only the ring towards the local endpoint is looked at.
RingsEmptyLocalOnly(c) == c.toLocal.n = 0

RingsEmpty(c) == c.toLocal.n = 0 /\ c.toRemote.n = 0
\* Faulty variant: the grace period is over although a read after EOF brought
\* bytes that are still to be delivered.
FinalizeDueAfterGrace(c) ==
  /\ c.state = "Draining"
  /\ CutDue(c) \/ c.eofSent >= EOF_GRACE_MS

FinalizeDue(c) ==
  /\ c.state = "Draining"
  /\ CutDue(c) \/ (RingsEmpty(c) /\ c.eofSent >= EOF_GRACE_MS)
EofDue(c) ==
  c.state = "Draining" /\ ~CutDue(c) /\ RingsEmpty(c) /\ c.eofSent = Unset

\* Nothing is due, or the session lock was not free, or libssh2 said EAGAIN.
CloseWait ==
  /\ phase = "close"
  /\ ~AbandonDue(OpenChecks(ch))
  /\ ch' = OpenChecks(ch)
  /\ phase' = "events"
  /\ UNCHANGED <<outcome, history, lossy>>

\* Step 2a: EOF goes out; up to four reads that follow it may bring n bytes.
SendEof(n) ==
  LET c == OpenChecks(ch) IN
  /\ phase = "close"
  /\ EofDue(c) /\ ~AbandonDue(c)
  /\ n > 0 => ~c.remoteEof
  /\ inbound' = inbound + n
  /\ ch' = [c EXCEPT !.eofSent = 0,
                     !.toLocal = Filled(@, Min2(n, FreeLocal))]
  /\ phase' = "events"
  /\ UNCHANGED <<outcome, outbound, lossy>>

\* Step 2b, finalizeClose: libssh2_channel_close went through, the free said
\* EAGAIN; the next attempt must not close again.
FinalizeHalf ==
  LET c == OpenChecks(ch) IN
  /\ phase = "close"
  /\ FinalizeDue(c) /\ ~AbandonDue(c)
  /\ ch' = [c EXCEPT !.closeComplete = TRUE]
  /\ phase' = "events"
  /\ UNCHANGED <<outcome, history, lossy>>

\* Faulty variant: bytes waiting for the local endpoint are not counted.
UndeliveredOneWay(c) == c.toRemote.n

\* toLocalOk is that of the last channel bound.  What the rings still hold is
\* counted as dropped.  The flags and timers that
\* finalizeClose leaves behind are dead: bindChannel starts with resetSlot.
Undelivered(c) == c.toLocal.n + c.toRemote.n

finalizeClose ==
  LET c == OpenChecks(ch) IN
  /\ phase = "close"
  /\ FinalizeDue(c) /\ ~AbandonDue(c)
  /\ ch' = [ClosedSlot EXCEPT !.toLocalOk = ch.toLocalOk]
  /\ archived' = archived + c.dropped + Undelivered(c)
  /\ lastFinalize' = 0
  /\ events' = events + 1
  /\ lossy' = (lossy \/ CutDue(c))
  /\ phase' = "events"
  /\ UNCHANGED <<degraded, history>>

\* The hard deadline: forget the libssh2 channel and give up the session.
abandonSlot ==
  LET c == OpenChecks(ch) IN
  /\ phase = "close"
  /\ AbandonDue(c)
  /\ ch' = [ClosedSlot EXCEPT !.toLocalOk = ch.toLocalOk]
  /\ archived' = archived + c.dropped + Undelivered(c)
  /\ degraded' = TRUE
  /\ events' = events + 1
  /\ lossy' = TRUE
  /\ phase' = "events"
  /\ UNCHANGED <<lastFinalize, history>>

\* The rest of SSHTunnel::loop takes the close events and, after a hard
\* abandon, replaces the session.
EndLoop ==
  /\ phase = "events"
  /\ events' = 0
  /\ degraded' = FALSE
  /\ phase' = "accept"
  /\ UNCHANGED <<ch, lastFinalize, archived, history, lossy>>

-----------------------------------------------------------------------------
\* How many more bytes a peer may send: what it sent and was passed on makes
\* room for more, so that traffic may go on for ever.
Room(mine, other, max) ==
  Max2(IF other = 0 THEN max - mine ELSE MaxBoth - mine - other, 0)
InRoom == Room(inbound, outbound, MaxIn)
OutRoom == Room(outbound, inbound, MaxOut)

Chunks(r) == {x \in (0..r.n) \X (1..BufSize) : x[2] \in RestoredSizes(r, x[1])}

LockedRead ==
  /\ phase = "sshRead"
  /\ \E n \in 0..InRoom, eof, err \in BOOLEAN :
       SshRead(n, eof, err) \/ SshPausedRead(n, eof, err)

LockedWrite ==
  /\ phase = "toRemote"
  /\ \/ \E n \in 0..ch.toRemote.n : SshWriteAll(n)
     \/ \E x \in Chunks(ch.toRemote), eagain \in BOOLEAN :
          SshWriteBlocked(x[1], x[2], eagain)
     \/ \E x \in Chunks(ch.toRemote) : SshWriteError(x[1], x[2])

\* One step of the tunnel task inside pumpAll, and the end of its loop.
PumpStep ==
  \/ StartPump
  \/ SshIdle
  \/ LockedRead
  \/ LocalSendIdle
  \/ \E n \in 0..ch.toLocal.n : LocalSendAll(n)
  \/ \E x \in Chunks(ch.toLocal), eagain \in BOOLEAN :
       LocalSendBlocked(x[1], x[2], eagain)
  \/ \E x \in Chunks(ch.toLocal) : LocalSendError(x[1], x[2])
  \/ SshWriteIdle
  \/ LockedWrite
  \/ \E n \in 0..OutRoom, eof, full \in BOOLEAN :
       LocalRead(n, eof, full)
  \/ LocalReadSkip
  \/ CloseWait
  \/ \E n \in 0..Min2(EofPump, InRoom) : SendEof(n)
  \/ FinalizeHalf
  \/ finalizeClose
  \/ abandonSlot
  \/ EndLoop

Next ==
  \/ Tick
  \/ \E toLocalOk, toRemoteOk \in BOOLEAN : bindChannel(toLocalOk, toRemoteOk)
  \/ RecycleStale
  \/ PumpStep

Spec == Init /\ [][Next]_vars

\* The application keeps calling loop() and time goes on.
FairSpec == Spec /\ WF_vars(PumpStep) /\ WF_vars(Tick)

\* Other tasks hold the session mutex only briefly: a phase that asks for it
\* again and again gets it.
MutexFair == SF_vars(LockedRead) /\ SF_vars(LockedWrite)

-----------------------------------------------------------------------------
AgeTo(limit) == Unset..(limit + 1)
Ring == [n : 0..(RingCap + BufSize), front : 0..BufSize]

TypeOK ==
  /\ phase \in {"accept", "sshRead", "toLocal", "toRemote", "localRead",
                "close", "events"}
  /\ ch \in [active : BOOLEAN, state : {"Closed", "Open", "Draining"},
             toLocalOk : BOOLEAN, toRemoteOk : BOOLEAN,
             remoteEof : BOOLEAN, localEof : BOOLEAN,
             localShutdownSent : BOOLEAN,
             sshReadPaused : BOOLEAN, localReadPaused : BOOLEAN,
             errors : 0..(ErrorLimit + 3), toLocal : Ring, toRemote : Ring,
             dropped : Nat, closeComplete : BOOLEAN,
             lastActivity : AgeTo(Max2(HALF_CLOSE_TIMEOUT_MS, ChannelTimeout)),
             closeStart : AgeTo(HARD_ABANDON_TIMEOUT_MS),
             eofSent : AgeTo(EOF_GRACE_MS),
             firstEagain : AgeTo(EAGAIN_STALL_TIMEOUT_MS),
             firstLocalSendEagain : AgeTo(LOCAL_SEND_STALL_TIMEOUT_MS)]
  /\ lastFinalize \in Unset..FINALIZE_COOLDOWN_MS
  /\ degraded \in BOOLEAN
  /\ events \in 0..1
  /\ {archived, inbound, outbound} \subseteq Nat
  /\ lossy \in BOOLEAN

\* Every byte read from either peer was passed on, is buffered, or is counted
\* in totalBytesDropped; after the close, in the manager's totals.  Only a
\* channel bound without a toLocal ring loses bytes uncounted, in the reads
\* after EOF, whose result of write() is ignored.
BytesAccounted ==
  /\ ch.active => outbound = ch.toRemote.n
  /\ ch.toLocalOk => IF ch.active THEN inbound = ch.toLocal.n + ch.dropped
                     ELSE inbound + outbound = archived

\* A byte is lost only to an error on the local socket, to a deadline or
\* repeated errors that cut the drain short, or to a toLocal ring that could
\* not be allocated, which bindChannel does not notice: an orderly close waits until
\* both rings are empty, also for what the reads after EOF brought in.
LossHasCause == ~lossy => ch.dropped = 0 /\ archived = 0

\* SSH EOF follows the last byte: when it is sent, everything the local
\* endpoint sent was written, and nothing is taken from it afterwards.
EofIsLast == ch.active /\ ch.eofSent # Unset => ch.toRemote.n = 0

\* A slot that drains is freed, whatever the peers and libssh2 do and even if
\* the session mutex is never available: the hard deadline needs no lock.
DrainEnds == ch.state = "Draining" ~> ~ch.active

\* A peer that sends no more bytes from some point on.
RemoteFallsSilent == <>[][inbound' <= inbound]_vars
LocalFallsSilent == <>[][outbound' <= outbound]_vars

\* A channel of which one end has sent EOF does not stay open for ever,
\* provided that the other end falls silent: bytes from it keep lastActivity
\* fresh, or clear the stall timer, for as long as they come.
EofLeadsToClose ==
  MutexFair =>
    /\ LocalFallsSilent => (ch.active /\ ch.remoteEof ~> ~ch.active)
    /\ RemoteFallsSilent => (ch.active /\ ch.localEof ~> ~ch.active)

\* Backpressure does not wedge a channel.  A channel whose SSH reads are
\* paused because the local endpoint is slow, or whose local reads are paused
\* because the SSH window stays closed, gets below the low-water mark or is
\* closed by the stall timer of that direction, once the remote end falls
\* silent: until then its bytes refill the ring, or clear firstEagainMs.
PausesEnd ==
  MutexFair /\ RemoteFallsSilent =>
    /\ ch.active /\ SshPaused ~> ~(ch.active /\ SshPaused)
    /\ ch.active /\ ch.localReadPaused /\ LocalPaused
         ~> ~(ch.active /\ ch.localReadPaused /\ LocalPaused)

\* test_a_data_integrity.py: with healthy peers the device reports zero drops
\* (a half-closing sender included).
ZeroDrops == ch.state = "Open" => ch.dropped = 0

=============================================================================
