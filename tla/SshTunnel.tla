----------------------------- MODULE SshTunnel ------------------------------
(***************************************************************************)
(* The facade SSHTunnel (ssh_tunnel.cpp): its state machine, the two queues*)
(* of accepted channels, the slots of ChannelManager as far as ownership of*)
(* libssh2 channels goes, the events sent to the application, reconnection.*)
(* What happens to the data of a bound channel is ChannelPump's business;  *)
(* here a pump only decides which slots drain, are finalized or abandoned. *)
(* Whether the session mutex is obtained is a choice at every attempt.     *)
(***************************************************************************)
EXTENDS Integers, Sequences, FiniteSets

CONSTANTS Slots,          \* slot indices, 1..maxChannels
          Chans,          \* identities of libssh2 channels
          NoChan,         \* nullptr
          MAX_PENDING, MAX_DEFERRED_CLOSE,
          MaxAttempts,    \* maxReconnectAttempts
          BaseDelay,      \* reconnectDelayMs
          Cooldown        \* 60 s: cap of the delay and pause after MaxAttempts

ASSUME TunnelAssumption ==
  /\ Slots \in SUBSET Nat /\ IsFiniteSet(Slots)
  /\ NoChan \notin Chans
  /\ MAX_PENDING \in Nat /\ MAX_DEFERRED_CLOSE \in Nat
  /\ MaxAttempts \in Nat
  /\ BaseDelay \in Nat /\ Cooldown \in Nat

VARIABLES state,        \* state_
          session,      \* session_'s LIBSSH2_SESSION: none, up, or leftover
          live,         \* channels allocated inside that session
          slot,         \* slots_: channel held, and whether it is Draining
          cooling,      \* slots within FINALIZE_COOLDOWN_MS of finalizeClose
          activeCount,  \* activeCount_
          pending,      \* pendingQueue_: channel, action, past its timeout?
          todo,         \* the part of it drainPendingQueue has yet to visit
          deferred,     \* deferredCloseQueue_
          closeEvents,  \* slots in pendingCloseEvents_
          degraded,     \* sessionDegraded_
          attempts,     \* reconnectAttempts_
          age,          \* time since lastConnectionAttempt_, saturating
          pc,           \* where the task is in loop()
          forgotten,    \* history: live channels the code gave up on
          appOpen,      \* history: slots the application was told are open
          appUp,        \* history: the application was told of a session
          badEvent      \* history: an event that contradicts an earlier one

slotVars == <<slot, cooling, activeCount>>
queues == <<pending, todo, deferred>>
retry == <<attempts, age>>
app == <<appOpen, appUp, badEvent>>
vars == <<state, session, live, slotVars, queues, closeEvents, degraded, retry,
          pc, forgotten, app>>

-----------------------------------------------------------------------------
FreeSlot == [chan |-> NoChan, draining |-> FALSE]
Active(s) == slot[s].chan # NoChan
ActiveSlots == {s \in Slots : Active(s)}

\* channel_alloc::findFreeSlot
Allocatable == {s \in Slots : ~Active(s) /\ s \notin cooling}
FirstOf(S) == CHOOSE s \in S : \A t \in S : s <= t

ChansOf(q) == {q[i].chan : i \in DOMAIN q}
InSlots == {slot[s].chan : s \in ActiveSlots}
Held == InSlots \cup ChansOf(pending) \cup ChansOf(todo) \cup deferred

\* emitChannelOpened / emitChannelClosed for a set of slots.
Opened(s) ==
  /\ appOpen' = appOpen \cup {s}
  /\ badEvent' = (badEvent \/ s \in appOpen)
  /\ UNCHANGED appUp
ClosedAll(S) ==
  /\ appOpen' = appOpen \ S
  /\ badEvent' = (badEvent \/ ~(S \subseteq appOpen))
  /\ UNCHANGED appUp

\* bindChannel on slot s; the channel is taken from the caller.
Bound(s, c) ==
  /\ slot' = [slot EXCEPT ![s] = [chan |-> c, draining |-> FALSE]]
  /\ activeCount' = activeCount + 1
  /\ UNCHANGED cooling

\* allocateSlot found nothing and begins to close the stale slots among S.
Recycled(S) ==
  /\ slot' = [s \in Slots |-> IF s \in S THEN [slot[s] EXCEPT !.draining = TRUE]
                              ELSE slot[s]]
  /\ UNCHANGED <<cooling, activeCount>>
StaleChoices == {{}} \cup {{s} : s \in ActiveSlots}

\* Faulty variant: abandoned slots stay counted.
AbandonedUncounted(count, n) == count

\* abandonSlot counts down, but not below zero; finalizeClose just counts down.
Abandoned(count, n) == IF count >= n THEN count - n ELSE 0

\* closeAcceptedChannel with the lock: close and free, results ignored.  When
\* libssh2 answers EAGAIN the channel stays allocated and is forgotten.
ClosedNow(c) ==
  \/ live' = live \ {c} /\ UNCHANGED forgotten
  \/ live' = live \cup {c} /\ forgotten' = forgotten \cup {c}

\* Faulty variant: the deferred close queue takes one entry too many.
DisposeOverrun(c) ==
  \/ ClosedNow(c) /\ UNCHANGED deferred
  \/ /\ live' = live \cup {c}
     /\ IF Cardinality(deferred) <= MAX_DEFERRED_CLOSE
        THEN deferred' = deferred \cup {c} /\ UNCHANGED forgotten
        ELSE forgotten' = forgotten \cup {c} /\ UNCHANGED deferred

\* Getting rid of an accepted channel that is in no queue: close it now, or
\* queue it for a deferred close, or give up when that queue is full.
Dispose(c) ==
  \/ ClosedNow(c) /\ UNCHANGED deferred
  \/ /\ live' = live \cup {c}
     /\ IF Cardinality(deferred) < MAX_DEFERRED_CLOSE
        THEN deferred' = deferred \cup {c} /\ UNCHANGED forgotten
        ELSE forgotten' = forgotten \cup {c} /\ UNCHANGED deferred

-----------------------------------------------------------------------------
Init ==
  /\ state = "DISCONNECTED"
  /\ session = "none"
  /\ live = {}
  /\ slot = [s \in Slots |-> FreeSlot]
  /\ cooling = {}
  /\ activeCount = 0
  /\ pending = <<>> /\ todo = <<>> /\ deferred = {}
  /\ closeEvents = {}
  /\ degraded = FALSE
  /\ attempts = 0 /\ age = 0
  /\ pc = "top"
  /\ forgotten = {}
  /\ appOpen = {} /\ appUp = FALSE /\ badEvent = FALSE

\* Faulty variant: the deferred close queue survives the session.
EmptiedButDeferred(final) ==
  /\ slot' = [s \in Slots |-> FreeSlot]
  /\ cooling' = cooling \cup final
  /\ activeCount' = Abandoned(activeCount - Cardinality(final),
                              Cardinality(ActiveSlots \ final))
  /\ pending' = <<>> /\ todo' = <<>> /\ UNCHANGED deferred

\* After the session is gone every slot still active is abandoned, and both
\* queues are emptied, without touching libssh2.  `final` are the slots that
\* finalizeClose freed before.
Emptied(final) ==
  /\ slot' = [s \in Slots |-> FreeSlot]
  /\ cooling' = cooling \cup final
  /\ activeCount' = Abandoned(activeCount - Cardinality(final),
                              Cardinality(ActiveSlots \ final))
  /\ pending' = <<>> /\ todo' = <<>> /\ deferred' = {}

\* clearPendingQueue, clearDeferredCloseQueue, SSHSession::disconnect.  libssh2
\* may refuse to free the session (EAGAIN); it is then kept, with those of its
\* channels that were not freed before.
TearDown(final) ==
  /\ session' \in IF session = "none" THEN {"none"} ELSE {"none", "leftover"}
  /\ live' \in IF session' = "none" THEN {{}}
               ELSE SUBSET (live \ {slot[s].chan : s \in final})
  /\ forgotten' = live'
  /\ Emptied(final)

\* Faulty variant: the application is not told of the closed channels.
EnterErrorSilently(final, open) ==
  /\ TearDown(final)
  /\ appOpen' = open
  /\ badEvent' = (badEvent \/ ~appUp)
  /\ appUp' = FALSE
  /\ state' = "ERROR"
  /\ age' = 0
  /\ UNCHANGED attempts

\* enterErrorState: with the session lock every active slot is finalized as
\* far as libssh2 lets it, without it all are abandoned; each gets one event.
EnterErrorState(final, open) ==
  /\ TearDown(final)
  /\ appOpen' = open \ ActiveSlots
  /\ badEvent' = (badEvent \/ ~(ActiveSlots \subseteq open) \/ ~appUp)
  /\ appUp' = FALSE
  /\ state' = "ERROR"
  /\ age' = 0
  /\ UNCHANGED attempts

enterErrorState == \E final \in SUBSET ActiveSlots : EnterErrorState(final, appOpen)

\* session_.connect: it refuses to run over a session it cannot free, and a
\* failure half-way cleans up after itself.
Connected ==
  /\ session' = "up"
  /\ live' = {} /\ forgotten' = {}
  /\ state' = "CONNECTED"
  /\ attempts' = 0
  /\ appUp' = TRUE
  /\ badEvent' = (badEvent \/ appUp)

ConnectFailed ==
  /\ \/ session' = "none" /\ live' = {} /\ forgotten' = {}
     \/ /\ session' = "leftover"
        /\ live' \in SUBSET live /\ forgotten' = live'
  /\ state' = "ERROR"
  /\ UNCHANGED <<appUp, badEvent>>

-----------------------------------------------------------------------------
(* Calls of the application, between two calls of loop(). *)

connectSSH ==
  /\ pc = "top" /\ state # "CONNECTED"
  /\ age' = 0
  /\ Connected \/ (ConnectFailed /\ UNCHANGED attempts)
  /\ UNCHANGED <<slotVars, queues, closeEvents, degraded, pc, appOpen>>

disconnect ==
  /\ pc = "top"
  /\ \E final \in SUBSET ActiveSlots : TearDown(final)
  /\ appOpen' = appOpen \ ActiveSlots
  /\ badEvent' = (badEvent \/ ~(ActiveSlots \subseteq appOpen)
                           \/ (state = "CONNECTED" /\ ~appUp))
  /\ appUp' = (appUp /\ state # "CONNECTED")
  /\ state' = "DISCONNECTED"
  /\ UNCHANGED <<closeEvents, degraded, retry, pc>>

requestReconnect ==
  /\ pc = "top" /\ state = "DISCONNECTED"
  /\ attempts' = 0 /\ age' = 0
  /\ state' = "ERROR"
  /\ UNCHANGED <<session, live, slotVars, queues, closeEvents, degraded, pc,
                 forgotten, app>>

-----------------------------------------------------------------------------
(* loop(), in the order of its steps. *)

\* handleReconnection: the delay before attempt n, doubled from the base and
\* capped; after MaxAttempts the cap is waited for and counting starts over.
Delay(n) ==
  LET d == BaseDelay * 2^n IN IF d > Cooldown THEN Cooldown ELSE d

NextAttempt == (IF attempts >= MaxAttempts THEN 0 ELSE attempts) + 1

\* Faulty variant: no more attempts after MaxAttempts.
RetryNeverAgain == attempts < MaxAttempts /\ age >= Delay(attempts)

RetryDue ==
  IF attempts >= MaxAttempts THEN age >= Cooldown
  ELSE age >= Delay(attempts)

handleReconnection ==
  /\ pc = "top" /\ state = "ERROR"
  /\ RetryDue
  /\ Emptied({})
  /\ age' = 0
  /\ \/ Connected
     \/ ConnectFailed /\ attempts' = NextAttempt
  /\ UNCHANGED <<closeEvents, degraded, pc, appOpen>>

\* The session is gone, the third socket check in a row failed, or keepalive
\* gave up.
LoseSession ==
  /\ pc = "top" /\ state = "CONNECTED"
  /\ enterErrorState
  /\ UNCHANGED <<closeEvents, degraded, pc>>

LoopStart ==
  /\ pc = "top" /\ state = "CONNECTED" /\ session = "up"
  /\ pc' = "deferred"
  /\ UNCHANGED <<state, session, live, slotVars, queues, closeEvents, degraded,
                 retry, forgotten, app>>

\* drainDeferredCloseQueue: an entry stays only if the lock was not free,
\* also when it is past CLOSE_RETRY_TIMEOUT_MS.
drainDeferredCloseQueue ==
  /\ pc \in {"deferred", "late"}
  /\ \E kept \in SUBSET deferred : \E eagain \in SUBSET (deferred \ kept) :
       /\ deferred' = kept
       /\ live' = live \ (deferred \ (kept \cup eagain))
       /\ forgotten' = forgotten \cup eagain
  /\ pc' = IF pc = "deferred" THEN "accept" ELSE "top"
  /\ UNCHANGED <<state, session, slotVars, pending, todo, closeEvents, degraded,
                 retry, app>>

(* handleNewConnection *)

NoneAccepted ==
  /\ pc = "accept"
  /\ pc' = "pump"
  /\ UNCHANGED <<state, session, live, slotVars, queues, closeEvents, degraded,
                 retry, forgotten, app>>

\* Three fatal forward_accept errors; loop() goes on in the error state.
AcceptFatal ==
  /\ pc = "accept"
  /\ enterErrorState
  /\ pc' = "pump"
  /\ UNCHANGED <<closeEvents, degraded>>

Accepting(c) ==
  /\ pc = "accept" /\ session = "up"
  /\ c \in Chans \ live
  /\ UNCHANGED <<state, session, closeEvents, degraded, retry, todo>>

\* The circuit breaker refuses the mapping, or the local endpoint does.
AcceptRejected(c) ==
  /\ Accepting(c)
  /\ Dispose(c)
  /\ pc' = "pump"
  /\ UNCHANGED <<slotVars, pending, app>>

AcceptBound(c) ==
  /\ Accepting(c)
  /\ Allocatable # {}
  /\ Bound(FirstOf(Allocatable), c)
  /\ Opened(FirstOf(Allocatable))
  /\ live' = live \cup {c}
  /\ UNCHANGED <<pending, deferred, forgotten, pc>>

\* No slot (a stale one may begin to close), or no lock to bind with: wait in
\* the pending queue, or be disposed of when that is full.
AcceptQueued(c) ==
  /\ Accepting(c)
  /\ \/ Allocatable # {} /\ UNCHANGED slotVars
     \/ Allocatable = {} /\ \E S \in StaleChoices : Recycled(S)
  /\ IF Len(pending) < MAX_PENDING
     THEN /\ pending' = Append(pending, [chan |-> c, action |-> "Bind", old |-> FALSE])
          /\ live' = live \cup {c}
          /\ UNCHANGED <<deferred, forgotten>>
     ELSE Dispose(c) /\ UNCHANGED pending
  /\ pc' = "pump"
  /\ UNCHANGED app

\* Faulty variant: a hard abandon does not mark the session degraded.
pumpAllQuietly ==
  /\ pc = "pump"
  /\ \E final \in SUBSET ActiveSlots :
     \E abandon \in SUBSET {s \in ActiveSlots \ final : slot[s].draining} :
     \E drain \in SUBSET (ActiveSlots \ (final \cup abandon)) :
       /\ slot' = [s \in Slots |->
                     IF s \in final \cup abandon THEN FreeSlot
                     ELSE IF s \in drain THEN [slot[s] EXCEPT !.draining = TRUE]
                     ELSE slot[s]]
       /\ activeCount' = Abandoned(activeCount - Cardinality(final),
                                   Cardinality(abandon))
       /\ cooling' = cooling \cup final
       /\ live' = live \ {slot[s].chan : s \in final}
       /\ closeEvents' = closeEvents \cup final \cup abandon
  /\ pc' = "events"
  /\ UNCHANGED <<state, session, queues, degraded, retry, forgotten, app>>

\* transport_.pumpAll: slots may begin to drain; of the slots whose close is
\* due some are finalized, those past the hard deadline are abandoned.  Every
\* close is recorded, as it is with up to MAX_CLOSE_EVENTS (32) slots.
pumpAll ==
  /\ pc = "pump"
  /\ \E final \in SUBSET ActiveSlots :
     \E abandon \in SUBSET {s \in ActiveSlots \ final : slot[s].draining} :
     \E drain \in SUBSET (ActiveSlots \ (final \cup abandon)) :
       /\ slot' = [s \in Slots |->
                     IF s \in final \cup abandon THEN FreeSlot
                     ELSE IF s \in drain THEN [slot[s] EXCEPT !.draining = TRUE]
                     ELSE slot[s]]
       /\ activeCount' = Abandoned(activeCount - Cardinality(final),
                                   Cardinality(abandon))
       /\ cooling' = cooling \cup final
       /\ live' = live \ {slot[s].chan : s \in final}
       /\ closeEvents' = closeEvents \cup final \cup abandon
       /\ degraded' = (degraded \/ abandon # {})
  /\ pc' = "events"
  /\ UNCHANGED <<state, session, queues, retry, forgotten, app>>

\* The close events go out; an abandoned slot costs the session.
EmitAndGoOn ==
  /\ pc = "events" /\ ~degraded
  /\ closeEvents' = {}
  /\ ClosedAll(closeEvents)
  /\ pc' = "pending"
  /\ todo' = pending /\ pending' = <<>>
  /\ UNCHANGED <<state, session, live, slotVars, deferred, degraded, retry,
                 forgotten>>

EmitAndFail ==
  /\ pc = "events" /\ degraded
  /\ closeEvents' = {}
  /\ degraded' = FALSE
  /\ \E final \in SUBSET ActiveSlots : EnterErrorState(final, appOpen \ closeEvents)
  /\ pc' = "top"

(* cleanExpiredPending and drainPendingQueue, entry by entry. *)

Visiting ==
  /\ pc = "pending" /\ todo # <<>>
  /\ todo' = Tail(todo)
  /\ UNCHANGED <<state, session, deferred, closeEvents, degraded, retry, pc>>

\* Faulty variant: entries past their timeout are not closed but kept.
PendingCloseOnlyMarked ==
  LET e == Head(todo) IN
  /\ Visiting
  /\ e.action = "Close" \/ e.old
  /\ pending' = Append(pending, [e EXCEPT !.action = "Close"])
  /\ UNCHANGED <<live, forgotten, slotVars, app>>

\* An entry to be closed, or one that waited too long, is closed if the lock
\* is free and is kept, for closing, if it is not.
PendingClose ==
  LET e == Head(todo) IN
  /\ Visiting
  /\ e.action = "Close" \/ e.old
  /\ \/ ClosedNow(e.chan) /\ UNCHANGED pending
     \/ /\ pending' = Append(pending, [e EXCEPT !.action = "Close"])
        /\ UNCHANGED <<live, forgotten>>
  /\ UNCHANGED <<slotVars, app>>

\* Faulty variant: an entry that was bound stays in the queue.
PendingBoundKept ==
  LET e == Head(todo) IN
  /\ Visiting
  /\ e.action = "Bind" /\ ~e.old
  /\ Allocatable # {}
  /\ Bound(FirstOf(Allocatable), e.chan)
  /\ Opened(FirstOf(Allocatable))
  /\ pending' = Append(pending, e)
  /\ UNCHANGED <<live, forgotten>>

PendingBound ==
  LET e == Head(todo) IN
  /\ Visiting
  /\ e.action = "Bind" /\ ~e.old
  /\ Allocatable # {}
  /\ Bound(FirstOf(Allocatable), e.chan)
  /\ Opened(FirstOf(Allocatable))
  /\ UNCHANGED <<live, forgotten, pending>>

\* The local endpoint refused: closed, or kept for closing.
PendingRefused ==
  LET e == Head(todo) IN
  /\ Visiting
  /\ e.action = "Bind" /\ ~e.old
  /\ Allocatable # {}
  /\ \/ ClosedNow(e.chan) /\ UNCHANGED pending
     \/ /\ pending' = Append(pending, [e EXCEPT !.action = "Close"])
        /\ UNCHANGED <<live, forgotten>>
  /\ UNCHANGED <<slotVars, app>>

PendingKept ==
  LET e == Head(todo) IN
  /\ Visiting
  /\ e.action = "Bind" /\ ~e.old
  /\ \/ Allocatable # {} /\ UNCHANGED slotVars
     \/ Allocatable = {} /\ \E S \in StaleChoices : Recycled(S)
  /\ pending' = Append(pending, e)
  /\ UNCHANGED <<live, forgotten, app>>

PendingDone ==
  /\ pc = "pending" /\ todo = <<>>
  /\ pc' = "late"
  /\ UNCHANGED <<state, session, live, slotVars, queues, closeEvents, degraded,
                 retry, forgotten, app>>

-----------------------------------------------------------------------------
(* Time.  The retry timer and the age of queued channels advance between two *)
(* calls of loop(); a cooldown may also end during its lock waits.          *)

Tick ==
  /\ pc = "top"
  /\ age < Cooldown
  /\ age' = age + 1
  /\ UNCHANGED <<state, session, live, slotVars, queues, closeEvents, degraded,
                 attempts, pc, forgotten, app>>

CooldownOver ==
  /\ \E s \in cooling : cooling' = cooling \ {s}
  /\ UNCHANGED <<state, session, live, slot, activeCount, queues, closeEvents,
                 degraded, retry, pc, forgotten, app>>

\* PENDING_TIMEOUT_MS passes for the oldest entries first.
PendingExpires ==
  /\ pc = "top"
  /\ \E i \in DOMAIN pending :
       /\ ~pending[i].old
       /\ \A j \in 1..(i - 1) : pending[j].old
       /\ pending' = [pending EXCEPT ![i].old = TRUE]
  /\ UNCHANGED <<state, session, live, slotVars, todo, deferred, closeEvents,
                 degraded, retry, pc, forgotten, app>>

-----------------------------------------------------------------------------
LoopStep ==
  \/ handleReconnection
  \/ LoseSession
  \/ LoopStart
  \/ drainDeferredCloseQueue
  \/ NoneAccepted
  \/ AcceptFatal
  \/ \E c \in Chans : AcceptRejected(c)
  \/ \E c \in Chans : AcceptBound(c)
  \/ \E c \in Chans : AcceptQueued(c)
  \/ pumpAll
  \/ EmitAndGoOn
  \/ EmitAndFail
  \/ PendingClose
  \/ PendingBound
  \/ PendingRefused
  \/ PendingKept
  \/ PendingDone

Next ==
  \/ LoopStep
  \/ Tick
  \/ CooldownOver
  \/ PendingExpires
  \/ connectSSH
  \/ disconnect
  \/ requestReconnect

Spec == Init /\ [][Next]_vars

\* An application that leaves retries to loop(), "the single owner of retry
\* timing" (ssh_tunnel.h:53-54): it calls connectSSH only when disconnected.
PatientNext ==
  \/ LoopStep
  \/ Tick
  \/ CooldownOver
  \/ PendingExpires
  \/ state = "DISCONNECTED" /\ connectSSH
  \/ disconnect
  \/ requestReconnect

\* The application keeps calling loop() and time goes on meanwhile.
FairSpec ==
  /\ Init /\ [][PatientNext]_vars
  /\ WF_vars(LoopStep) /\ SF_vars(Tick) /\ SF_vars(PendingExpires)

\* A server that is tried again and again is reached in the end.
ServerReachable == SF_vars(handleReconnection /\ state' = "CONNECTED")

\* An expired entry that is visited again and again finds the lock free once.
CloseQueued(c) == PendingClose /\ Head(todo).chan = c /\ pending' = pending
MutexFair == \A c \in Chans : SF_vars(CloseQueued(c))

-----------------------------------------------------------------------------
Entry == [chan : Chans, action : {"Bind", "Close"}, old : BOOLEAN]

\* Types; neither array is ever written past its end: the pending queue, also
\* while drainPendingQueue compacts it in place, and the deferred close queue.
TypeOK ==
  /\ state \in {"DISCONNECTED", "CONNECTED", "ERROR"}
  /\ session \in {"none", "up", "leftover"}
  /\ live \subseteq Chans
  /\ slot \in [Slots -> [chan : Chans \cup {NoChan}, draining : BOOLEAN]]
  /\ cooling \subseteq Slots
  /\ activeCount \in Int
  /\ pending \in Seq(Entry) /\ todo \in Seq(Entry)
  /\ Len(pending) + Len(todo) <= MAX_PENDING
  /\ deferred \subseteq Chans /\ Cardinality(deferred) <= MAX_DEFERRED_CLOSE
  /\ closeEvents \subseteq Slots
  /\ degraded \in BOOLEAN
  /\ attempts \in 0..MaxAttempts + 1
  /\ age \in 0..Cooldown
  /\ pc \in {"top", "deferred", "accept", "pump", "events", "pending", "late"}
  /\ forgotten \subseteq live
  /\ appOpen \subseteq Slots /\ appUp \in BOOLEAN /\ badEvent \in BOOLEAN

\* A channel pointer in a slot or a queue is valid (its libssh2 channel is
\* allocated, in the current session), across every error path and reconnect.
NoDangling ==
  /\ Held \subseteq live
  /\ Held # {} => session = "up"

\* No channel is held twice: by two slots, a slot and a queue, or two queues.
\* Otherwise it would be freed twice.
OneHolder ==
  Cardinality(Held) =
    Cardinality(ActiveSlots) + Len(pending) + Len(todo) + Cardinality(deferred)

\* getActiveChannels() is the number of slots in use.
ActiveCountExact == activeCount = Cardinality(ActiveSlots)

\* The events of a slot alternate, opened first, and so do those of the
\* session; outside loop() they agree with the slots and with the state.
EventsMatch ==
  /\ ~badEvent
  /\ pc = "top" => appOpen = ActiveSlots /\ (appUp <=> state = "CONNECTED")

\* Outside loop() no live channel is without a holder, except those given up
\* with the lock unavailable and all queues full, or when libssh2 answered
\* EAGAIN: an abandoned slot never leaves its channel in a session in use.
NothingElseLost == pc = "top" => live \subseteq Held \cup forgotten

\* After an error the tunnel reconnects by itself, however many attempts fail
\* first, unless the application disconnects.
Reconnects == ServerReachable => (state = "ERROR" ~> state # "ERROR")

\* A channel does not wait in the pending queue for ever.
NoEndlessWait ==
  MutexFair =>
    \A c \in Chans :
      c \in ChansOf(pending) ~> c \notin ChansOf(pending) \cup ChansOf(todo)

\* ssh_tunnel.cpp:465-466 and 503: an accepted channel is not leaked; while
\* its session is in use it stays with a slot or in a queue until it is freed.
NoLeak == state = "CONNECTED" => forgotten = {}
=============================================================================
