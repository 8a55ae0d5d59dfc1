-------------------------- MODULE SshTunnelProofs ---------------------------
(***************************************************************************)
(* The safety of SshTunnel for every number of slots, every set of libssh2 *)
(* channels, every queue size and every retry policy.  That a pointer is   *)
(* valid depends on nobody else freeing the channel, hence on each channel *)
(* having one holder; that depends on a new channel not being live, hence  *)
(* on every held channel being live.  The invariant therefore says all at  *)
(* once, and keeps track of what each step of loop() may rely on.          *)
(***************************************************************************)
EXTENDS SshTunnel, SequenceTheorems, FiniteSetTheorems, TLAPS

\* Every non-empty set of numbers has a least element.
LEMMA LeastExists ==
  ASSUME NEW S \in SUBSET Nat, S # {}
  PROVE  \E s \in S : \A t \in S : s <= t
<1> DEFINE T == {0..s : s \in S}
<1>1. T \subseteq FiniteSubsetsOf(Nat) /\ T # {}
  <2>1. ASSUME NEW s \in S PROVE IsFiniteSet(0..s) /\ (0..s) \subseteq Nat
    BY FS_Interval
  <2> QED BY <2>1 DEF FiniteSubsetsOf
<1>2. PICK x \in T : \A y \in T : ~ (<<y, x>> \in StrictSubsetOrdering(Nat))
  <2> HIDE DEF T
  <2> QED BY <1>1, FS_StrictSubsetOrderingWellFounded, WFMin
<1>3. PICK s \in S : x = 0..s
  OBVIOUS
<1>4. ASSUME NEW t \in S, t < s PROVE FALSE
  <2>1. 0..t \in T
    OBVIOUS
  <2>2. (0..t) \subseteq 0..s /\ 0..t # 0..s
        /\ (0..t) \subseteq Nat /\ (0..s) \subseteq Nat
    BY <1>4
  <2>3. <<0..t, x>> \in StrictSubsetOrdering(Nat)
    BY <1>3, <2>2 DEF StrictSubsetOrdering
  <2> QED BY <1>2, <2>1, <2>3
<1> QED BY <1>4

-----------------------------------------------------------------------------
(* The inductive invariant. *)

DistinctQueue(q) == \A i, j \in DOMAIN q : q[i].chan = q[j].chan => i = j

DistinctSlots == \A s, t \in ActiveSlots : slot[s].chan = slot[t].chan => s = t

Apart ==
  /\ InSlots \cap ChansOf(pending) = {}
  /\ InSlots \cap ChansOf(todo) = {}
  /\ InSlots \cap deferred = {}
  /\ ChansOf(pending) \cap ChansOf(todo) = {}
  /\ ChansOf(pending) \cap deferred = {}
  /\ ChansOf(todo) \cap deferred = {}

\* OneHolder without counting: no two places hold the same channel.
Unshared ==
  /\ DistinctSlots
  /\ DistinctQueue(pending) /\ DistinctQueue(todo)
  /\ Apart

\* What loop() may rely on at each of its steps.
Phases ==
  /\ session = "up" <=> state = "CONNECTED"
  /\ pc \in {"deferred", "accept"} => state = "CONNECTED"
  /\ todo # <<>> => pc = "pending"
  /\ degraded => pc = "events" /\ state = "CONNECTED"
  /\ closeEvents # {} => pc = "events"

\* EventsMatch at every step of loop(): a slot the application believes open
\* is in use, or its close event is waiting.
Told ==
  /\ ~badEvent
  /\ appUp <=> state = "CONNECTED"
  /\ appOpen = ActiveSlots \cup closeEvents
  /\ ActiveSlots \cap closeEvents = {}

\* NothingElseLost at every step of loop(): only an abandoned slot leaves a
\* channel behind, and then the session is about to be torn down.
Accounted ==
  /\ Held \cap forgotten = {}
  /\ ~degraded => live \subseteq Held \cup forgotten

TunnelInv ==
  /\ TypeOK
  /\ IsFiniteSet(deferred)
  /\ NoDangling
  /\ Unshared
  /\ ActiveCountExact
  /\ Phases
  /\ Told
  /\ Accounted

-----------------------------------------------------------------------------
(* Queues of accepted channels. *)

LEMMA QueueEmpty == ChansOf(<<>>) = {} /\ DistinctQueue(<<>>)
  BY DEF ChansOf, DistinctQueue

\* Putting an entry at the end of a queue.
LEMMA QueueAppend ==
  ASSUME NEW q \in Seq(Entry), NEW e \in Entry
  PROVE  /\ Append(q, e) \in Seq(Entry)
         /\ Len(Append(q, e)) = Len(q) + 1
         /\ ChansOf(Append(q, e)) = ChansOf(q) \cup {e.chan}
         /\ DistinctQueue(q) /\ e.chan \notin ChansOf(q) => DistinctQueue(Append(q, e))
<1> DEFINE r == Append(q, e)
<1>1. /\ r \in Seq(Entry) /\ Len(r) = Len(q) + 1
      /\ r[Len(q) + 1] = e /\ \A i \in 1..Len(q) : r[i] = q[i]
  OBVIOUS
<1>2. DOMAIN r = (DOMAIN q) \cup {Len(q) + 1}
  BY <1>1
<1>3. DOMAIN q = 1..Len(q)
  OBVIOUS
<1> HIDE DEF r
<1>4. ChansOf(r) = ChansOf(q) \cup {e.chan}
  BY <1>1, <1>2, <1>3 DEF ChansOf
<1>5. ASSUME DistinctQueue(q), e.chan \notin ChansOf(q) PROVE DistinctQueue(r)
  BY <1>1, <1>2, <1>3, <1>5 DEF ChansOf, DistinctQueue
<1> QED BY <1>1, <1>4, <1>5 DEF r

\* Taking the first entry of a queue.
LEMMA QueueTail ==
  ASSUME NEW q \in Seq(Entry), q # <<>>
  PROVE  /\ Head(q) \in Entry
         /\ Tail(q) \in Seq(Entry)
         /\ Len(Tail(q)) = Len(q) - 1
         /\ ChansOf(q) = {Head(q).chan} \cup ChansOf(Tail(q))
         /\ DistinctQueue(q) =>
              DistinctQueue(Tail(q)) /\ Head(q).chan \notin ChansOf(Tail(q))
<1> DEFINE r == Tail(q)
<1>1. /\ r \in Seq(Entry) /\ Len(r) = Len(q) - 1
      /\ \A i \in 1..Len(r) : r[i] = q[i + 1]
      /\ Head(q) = q[1] /\ Head(q) \in Entry
  OBVIOUS
<1>2. DOMAIN r = 1..Len(r) /\ DOMAIN q = 1..Len(q) /\ Len(q) \in Nat \ {0} /\ Len(r) \in Nat
  BY <1>1
<1> HIDE DEF r
<1>3. ChansOf(q) = {Head(q).chan} \cup ChansOf(r)
  <2>1. ASSUME NEW i \in DOMAIN q PROVE q[i].chan \in {Head(q).chan} \cup ChansOf(r)
    <3>1. CASE i = 1
      BY <3>1, <1>1
    <3>2. CASE i # 1
      <4>1. i - 1 \in DOMAIN r /\ r[i - 1] = q[i]
        BY <3>2, <1>1, <1>2
      <4> QED BY <4>1 DEF ChansOf
    <3> QED BY <3>1, <3>2
  <2>2. ASSUME NEW i \in DOMAIN r PROVE r[i].chan \in ChansOf(q)
    <3>1. i + 1 \in DOMAIN q /\ r[i] = q[i + 1]
      BY <1>1, <1>2
    <3> QED BY <3>1 DEF ChansOf
  <2>3. Head(q).chan \in ChansOf(q)
    BY <1>1, <1>2 DEF ChansOf
  <2> QED BY <2>1, <2>2, <2>3 DEF ChansOf
<1>4. ASSUME DistinctQueue(q) PROVE DistinctQueue(r) /\ Head(q).chan \notin ChansOf(r)
  <2>1. \A i \in DOMAIN r : i + 1 \in DOMAIN q /\ r[i] = q[i + 1] /\ i + 1 # 1
    BY <1>1, <1>2
  <2>2. \A i, j \in DOMAIN r : r[i].chan = r[j].chan => i + 1 = j + 1
    BY <1>4, <2>1 DEF DistinctQueue
  <2>3. \A i \in DOMAIN r : r[i].chan # q[1].chan
    BY <1>2, <1>4, <2>1 DEF DistinctQueue
  <2>4. DistinctQueue(r)
    BY <1>2, <2>2 DEF DistinctQueue
  <2> QED BY <1>1, <2>3, <2>4 DEF ChansOf
<1> QED BY <1>1, <1>3, <1>4 DEF r

\* An entry growing old changes no channel.
LEMMA QueueAged ==
  ASSUME NEW q \in Seq(Entry), NEW i \in DOMAIN q
  PROVE  LET r == [q EXCEPT ![i].old = TRUE] IN
         /\ r \in Seq(Entry) /\ Len(r) = Len(q)
         /\ ChansOf(r) = ChansOf(q)
         /\ DistinctQueue(q) => DistinctQueue(r)
<1> DEFINE r == [q EXCEPT ![i].old = TRUE]
<1>1. r \in Seq(Entry) /\ Len(r) = Len(q) /\ DOMAIN r = DOMAIN q
  <2>1. q \in [1..Len(q) -> Entry] /\ DOMAIN q = 1..Len(q)
    OBVIOUS
  <2>2. [q[i] EXCEPT !.old = TRUE] \in Entry
    BY <2>1 DEF Entry
  <2>3. r = [q EXCEPT ![i] = [q[i] EXCEPT !.old = TRUE]]
    OBVIOUS
  <2>4. r \in [1..Len(q) -> Entry]
    BY <2>1, <2>2, <2>3
  <2> HIDE DEF r
  <2> QED BY <2>1, <2>4
<1>2. \A j \in DOMAIN q : r[j].chan = q[j].chan
  BY DEF Entry
<1> HIDE DEF r
<1>3. ChansOf(r) = ChansOf(q)
  BY <1>1, <1>2 DEF ChansOf
<1>4. DistinctQueue(q) => DistinctQueue(r)
  BY <1>1, <1>2 DEF DistinctQueue
<1> QED BY <1>1, <1>3, <1>4 DEF r

-----------------------------------------------------------------------------
(* Slots. *)

LEMMA SlotsFinite ==
  ASSUME NEW S \in SUBSET Slots
  PROVE  IsFiniteSet(S) /\ Cardinality(S) \in Nat
  BY TunnelAssumption, FS_Subset, FS_CardinalityType

\* A set of slots has a first one.
LEMMA FirstExists ==
  ASSUME NEW S \in SUBSET Slots, S # {}
  PROVE  FirstOf(S) \in S
<1>1. S \in SUBSET Nat
  BY TunnelAssumption
<1>2. \E t \in S : \A u \in S : t <= u
  BY <1>1, LeastExists
<1> QED BY <1>2 DEF FirstOf

LEMMA SlotsSame ==
  ASSUME UNCHANGED slot
  PROVE  ActiveSlots' = ActiveSlots /\ InSlots' = InSlots
         /\ (DistinctSlots => DistinctSlots')
  BY DEF ActiveSlots, Active, InSlots, DistinctSlots

\* bindChannel: one more slot in use.
LEMMA SlotsBound ==
  ASSUME TypeOK, ActiveCountExact, NEW s \in Slots, ~Active(s), NEW c \in Chans,
         Bound(s, c)
  PROVE  /\ slot' \in [Slots -> [chan : Chans \cup {NoChan}, draining : BOOLEAN]]
         /\ ActiveSlots' = ActiveSlots \cup {s} /\ s \notin ActiveSlots
         /\ InSlots' = InSlots \cup {c}
         /\ DistinctSlots /\ c \notin InSlots => DistinctSlots'
         /\ activeCount' \in Int /\ ActiveCountExact'
<1>1. c # NoChan
  BY TunnelAssumption
<1>2. /\ slot' \in [Slots -> [chan : Chans \cup {NoChan}, draining : BOOLEAN]]
      /\ slot'[s].chan = c /\ \A t \in Slots \ {s} : slot'[t] = slot[t]
  BY DEF TypeOK, Bound
<1>3. ActiveSlots' = ActiveSlots \cup {s} /\ s \notin ActiveSlots
  BY <1>1, <1>2 DEF ActiveSlots, Active
<1>4. InSlots' = InSlots \cup {c}
  BY <1>2, <1>3 DEF InSlots, ActiveSlots
<1>5. DistinctSlots /\ c \notin InSlots => DistinctSlots'
  BY <1>2, <1>3 DEF DistinctSlots, InSlots, ActiveSlots
<1>6. IsFiniteSet(ActiveSlots)
  BY SlotsFinite DEF ActiveSlots
<1>7. Cardinality(ActiveSlots \cup {s}) = Cardinality(ActiveSlots) + 1
  BY <1>3, <1>6, FS_AddElement
<1>8. activeCount' \in Int /\ ActiveCountExact'
  BY <1>3, <1>7 DEF Bound, TypeOK, ActiveCountExact
<1> QED BY <1>2, <1>3, <1>4, <1>5, <1>8

\* Recycling stale slots frees none.
LEMMA SlotsRecycled ==
  ASSUME TypeOK, NEW S, Recycled(S)
  PROVE  /\ slot' \in [Slots -> [chan : Chans \cup {NoChan}, draining : BOOLEAN]]
         /\ ActiveSlots' = ActiveSlots /\ InSlots' = InSlots
         /\ DistinctSlots => DistinctSlots'
<1>1. /\ slot' \in [Slots -> [chan : Chans \cup {NoChan}, draining : BOOLEAN]]
      /\ \A t \in Slots : slot'[t].chan = slot[t].chan
  BY DEF TypeOK, Recycled
<1> QED BY <1>1 DEF ActiveSlots, Active, InSlots, DistinctSlots

\* Counting down by the finalized slots, then by the abandoned ones.
LEMMA CountDown ==
  ASSUME NEW A \in SUBSET Slots, NEW final \in SUBSET A,
         NEW abandon \in SUBSET (A \ final)
  PROVE  Abandoned(Cardinality(A) - Cardinality(final), Cardinality(abandon))
           = Cardinality(A \ (final \cup abandon))
<1>1. IsFiniteSet(A) /\ IsFiniteSet(final) /\ IsFiniteSet(abandon)
  BY SlotsFinite
<1>2. Cardinality(final \cup abandon) = Cardinality(final) + Cardinality(abandon)
  <2>1. final \cap abandon = {}
    OBVIOUS
  <2>2. Cardinality(final \cup abandon)
          = Cardinality(final) + Cardinality(abandon) - Cardinality(final \cap abandon)
    BY <1>1, FS_Union
  <2>3. Cardinality(final \cap abandon) = 0
    BY <2>1, FS_EmptySet
  <2>4. Cardinality(final) \in Nat /\ Cardinality(abandon) \in Nat
    BY <1>1, FS_CardinalityType
  <2> QED BY <2>2, <2>3, <2>4
<1>3. Cardinality(A \ (final \cup abandon))
        = Cardinality(A) - Cardinality(final \cup abandon)
  <2>1. A \cap (final \cup abandon) = final \cup abandon
    OBVIOUS
  <2> QED BY <1>1, <2>1, FS_Difference
<1>4. /\ Cardinality(A) \in Nat /\ Cardinality(final) \in Nat
      /\ Cardinality(abandon) \in Nat /\ Cardinality(A \ (final \cup abandon)) \in Nat
  BY SlotsFinite
<1> QED BY <1>2, <1>3, <1>4 DEF Abandoned

-----------------------------------------------------------------------------
(* The ways back to nothing held. *)

SlotType == [Slots -> [chan : Chans \cup {NoChan}, draining : BOOLEAN]]

\* No slot in use and every queue empty.
Vacant ==
  /\ slot \in SlotType /\ ActiveSlots = {}
  /\ activeCount = 0
  /\ cooling \subseteq Slots
  /\ pending = <<>> /\ todo = <<>> /\ deferred = {}

LEMMA EmptiedIsVacant ==
  ASSUME TunnelInv, NEW final \in SUBSET ActiveSlots, Emptied(final)
  PROVE  Vacant'
<1>1. slot' = [s \in Slots |-> FreeSlot]
  BY DEF Emptied
<1>2. slot' \in SlotType /\ ActiveSlots' = {}
  BY <1>1 DEF SlotType, FreeSlot, ActiveSlots, Active
<1>3. cooling' \subseteq Slots
  BY DEF Emptied, TunnelInv, TypeOK, ActiveSlots
<1>4. activeCount' = 0
  <2>1. activeCount = Cardinality(ActiveSlots)
    BY DEF TunnelInv, ActiveCountExact
  <2>2. ActiveSlots \in SUBSET Slots
    BY DEF ActiveSlots
  <2>3. activeCount' = Cardinality(ActiveSlots \ (final \cup (ActiveSlots \ final)))
    BY <2>1, <2>2, CountDown DEF Emptied
  <2>4. ActiveSlots \ (final \cup (ActiveSlots \ final)) = {}
    OBVIOUS
  <2> QED BY <2>3, <2>4, FS_EmptySet
<1> QED BY <1>2, <1>3, <1>4 DEF Vacant, Emptied

\* Without a session nothing is held.
LEMMA DownIsVacant ==
  ASSUME TunnelInv, state # "CONNECTED"
  PROVE  Vacant /\ appOpen = closeEvents
<1>1. Held = {}
  BY DEF TunnelInv, NoDangling, Phases
<1>2. pending = <<>> /\ todo = <<>>
  <2>1. pending \in Seq(Entry) /\ todo \in Seq(Entry)
    BY DEF TunnelInv, TypeOK
  <2>2. ChansOf(pending) = {} /\ ChansOf(todo) = {}
    BY <1>1 DEF Held
  <2> QED BY <2>1, <2>2, QueueTail
<1>3. ActiveSlots = {}
  <2>1. InSlots = {}
    BY <1>1 DEF Held
  <2> QED BY <2>1 DEF InSlots
<1>4. deferred = {}
  BY <1>1 DEF Held
<1>5. activeCount = 0
  BY <1>3, FS_EmptySet DEF TunnelInv, ActiveCountExact
<1> QED
  BY <1>2, <1>3, <1>4, <1>5 DEF Vacant, TunnelInv, TypeOK, SlotType, Told

\* A state in which nothing is held and nothing waits to be told is safe
\* whatever the session left behind.
LEMMA VacantIsSafe ==
  ASSUME Vacant',
         state' \in {"DISCONNECTED", "CONNECTED", "ERROR"},
         session' \in {"none", "up", "leftover"},
         session' = "up" <=> state' = "CONNECTED",
         live' \subseteq Chans, forgotten' = live',
         closeEvents' = {}, degraded' = FALSE,
         attempts' \in 0..MaxAttempts + 1, age' \in 0..Cooldown,
         pc' \in {"top", "pump"},
         appOpen' = {}, badEvent' = FALSE,
         appUp' = (state' = "CONNECTED")
  PROVE  TunnelInv'
<1>1. ChansOf(pending') = {} /\ ChansOf(todo') = {}
      /\ DistinctQueue(pending') /\ DistinctQueue(todo')
  BY QueueEmpty DEF Vacant
<1>2. InSlots' = {} /\ DistinctSlots'
  BY DEF Vacant, InSlots, DistinctSlots
<1>3. Held' = {}
  BY <1>1, <1>2 DEF Vacant, Held
<1>4. IsFiniteSet(deferred') /\ Cardinality(deferred') = 0
  BY FS_EmptySet DEF Vacant
<1>5. TypeOK'
  <2>1. Len(<<>>) = 0 /\ <<>> \in Seq(Entry)
    OBVIOUS
  <2>2. appUp' \in BOOLEAN /\ badEvent' \in BOOLEAN /\ degraded' \in BOOLEAN
    OBVIOUS
  <2> QED BY <1>4, <2>1, <2>2, TunnelAssumption DEF TypeOK, Vacant, SlotType
<1>6. NoDangling' /\ Accounted'
  BY <1>3 DEF NoDangling, Accounted
<1>7. Unshared'
  BY <1>1, <1>2 DEF Unshared, Apart, Vacant
<1>8. ActiveCountExact'
  BY FS_EmptySet DEF ActiveCountExact, Vacant
<1>9. Phases' /\ Told'
  BY DEF Phases, Told, Vacant
<1> QED BY <1>4, <1>5, <1>6, <1>7, <1>8, <1>9 DEF TunnelInv

LEMMA TearDownEffect ==
  ASSUME TunnelInv, NEW final \in SUBSET ActiveSlots, TearDown(final)
  PROVE  /\ Vacant'
         /\ session' \in {"none", "leftover"}
         /\ live' \subseteq Chans /\ forgotten' = live'
<1>1. session' \in {"none", "leftover"}
  BY DEF TearDown
<1>2. live' \subseteq live
  <2>1. CASE session' = "none"
    BY <2>1 DEF TearDown
  <2>2. CASE session' # "none"
    BY <2>2 DEF TearDown
  <2> QED BY <2>1, <2>2
<1> QED
  BY <1>1, <1>2, EmptiedIsVacant DEF TearDown, TunnelInv, TypeOK

\* enterErrorState, once no close event is left waiting.
LEMMA EnterErrorIsSafe ==
  ASSUME TunnelInv, state = "CONNECTED", NEW final \in SUBSET ActiveSlots,
         EnterErrorState(final, appOpen \ closeEvents),
         closeEvents' = {}, degraded' = FALSE, pc' \in {"top", "pump"}
  PROVE  TunnelInv'
<1>1. /\ Vacant' /\ session' \in {"none", "leftover"}
      /\ live' \subseteq Chans /\ forgotten' = live'
  BY TearDownEffect DEF EnterErrorState
<1>2. appOpen \ closeEvents = ActiveSlots /\ ~badEvent /\ appUp = TRUE
  BY DEF TunnelInv, Told, TypeOK
<1>3. appOpen' = {} /\ appUp' = FALSE /\ state' = "ERROR" /\ age' = 0
      /\ attempts' = attempts
  BY <1>2 DEF EnterErrorState
<1>4. badEvent' = FALSE
  BY <1>2 DEF EnterErrorState
<1>5. attempts \in 0..MaxAttempts + 1 /\ 0 \in 0..Cooldown
  BY TunnelAssumption DEF TunnelInv, TypeOK
<1>6. appUp' = (state' = "CONNECTED") /\ (session' = "up" <=> state' = "CONNECTED")
  BY <1>1, <1>3
<1> QED BY <1>1, <1>3, <1>4, <1>5, <1>6, VacantIsSafe

-----------------------------------------------------------------------------
LEMMA InitSafe == Init => TunnelInv
<1> SUFFICES ASSUME Init PROVE TunnelInv
  OBVIOUS
<1>1. slot \in SlotType /\ ActiveSlots = {}
  BY DEF Init, SlotType, FreeSlot, ActiveSlots, Active
<1>2. InSlots = {} /\ DistinctSlots
  BY <1>1 DEF InSlots, DistinctSlots
<1>3. /\ ChansOf(pending) = {} /\ ChansOf(todo) = {}
      /\ DistinctQueue(pending) /\ DistinctQueue(todo)
  BY QueueEmpty DEF Init
<1>4. Held = {}
  BY <1>2, <1>3 DEF Init, Held
<1>5. IsFiniteSet(deferred) /\ Cardinality(deferred) = 0
  BY FS_EmptySet DEF Init
<1>6. TypeOK
  <2>1. Len(<<>>) = 0 /\ <<>> \in Seq(Entry)
    OBVIOUS
  <2>2. 0 \in 0..MaxAttempts + 1 /\ 0 \in 0..Cooldown
    BY TunnelAssumption
  <2>3. Len(pending) + Len(todo) <= MAX_PENDING /\ Cardinality(deferred) <= MAX_DEFERRED_CLOSE
    BY <1>5, <2>1, TunnelAssumption DEF Init
  <2>4. degraded \in BOOLEAN /\ appUp \in BOOLEAN /\ badEvent \in BOOLEAN
    BY DEF Init
  <2>5. /\ state \in {"DISCONNECTED", "CONNECTED", "ERROR"}
        /\ session \in {"none", "up", "leftover"}
        /\ pc \in {"top", "deferred", "accept", "pump", "events", "pending", "late"}
        /\ activeCount \in Int /\ attempts = 0 /\ age = 0
        /\ pending \in Seq(Entry) /\ todo \in Seq(Entry)
    BY <2>1 DEF Init
  <2>6. /\ live = {} /\ forgotten = {} /\ cooling = {} /\ deferred = {}
        /\ closeEvents = {} /\ appOpen = {}
    BY DEF Init
  <2> QED BY <1>1, <2>2, <2>3, <2>4, <2>5, <2>6 DEF TypeOK, SlotType
<1>7. NoDangling /\ Accounted
  BY <1>4 DEF Init, NoDangling, Accounted
<1>8. Unshared
  BY <1>2, <1>3 DEF Init, Unshared, Apart
<1>9. ActiveCountExact
  BY <1>1, FS_EmptySet DEF Init, ActiveCountExact
<1>10. Phases /\ Told
  BY <1>1 DEF Init, Phases, Told
<1> QED BY <1>5, <1>6, <1>7, <1>8, <1>9, <1>10 DEF TunnelInv

-----------------------------------------------------------------------------
(* Calls of the application, and the steps of loop() that end the session or *)
(* begin a new one.                                                          *)

\* session_.connect over nothing held, in the states that allow it.
LEMMA ConnectIsSafe ==
  ASSUME TunnelInv, state # "CONNECTED", pc = "top", Vacant', age' = 0,
         Connected \/ (ConnectFailed /\ attempts' \in 0..MaxAttempts + 1),
         UNCHANGED <<closeEvents, degraded, pc, appOpen>>
  PROVE  TunnelInv'
<1>1. closeEvents = {} /\ ~degraded /\ ~badEvent /\ appUp = FALSE
  BY DEF TunnelInv, Phases, Told, TypeOK
<1>2. appOpen = {} /\ live \subseteq Chans
  BY <1>1, DownIsVacant DEF TunnelInv, TypeOK
<1>3. degraded = FALSE /\ badEvent = FALSE /\ appUp = FALSE
  BY <1>1 DEF TunnelInv, TypeOK
<1>4. 0 \in 0..MaxAttempts + 1 /\ 0 \in 0..Cooldown
  BY TunnelAssumption
<1>5. CASE Connected
  <2>1. /\ state' = "CONNECTED" /\ session' = "up" /\ live' = {} /\ forgotten' = {}
        /\ attempts' = 0 /\ appUp' = TRUE
    BY <1>5 DEF Connected
  <2>2. badEvent' = FALSE
    BY <1>3, <1>5 DEF Connected
  <2>3. appUp' = (state' = "CONNECTED") /\ live' \subseteq Chans
    BY <2>1
  <2> QED BY <1>1, <1>2, <1>3, <1>4, <2>1, <2>2, <2>3, VacantIsSafe
<1>6. CASE ConnectFailed /\ attempts' \in 0..MaxAttempts + 1
  <2>1. /\ state' = "ERROR" /\ session' \in {"none", "leftover"}
        /\ live' \subseteq Chans /\ forgotten' = live'
        /\ appUp' = FALSE /\ badEvent' = FALSE
    BY <1>2, <1>3, <1>6 DEF ConnectFailed
  <2>2. appUp' = (state' = "CONNECTED")
    BY <2>1
  <2> QED BY <1>1, <1>2, <1>3, <1>4, <1>6, <2>1, <2>2, VacantIsSafe
<1> QED BY <1>5, <1>6

LEMMA connectSSHSafe == TunnelInv /\ connectSSH => TunnelInv'
<1> SUFFICES ASSUME TunnelInv, connectSSH PROVE TunnelInv'
  OBVIOUS
<1>1. Vacant'
  <2>1. UNCHANGED <<slot, cooling, activeCount, pending, todo, deferred>>
    BY DEF connectSSH, slotVars, queues
  <2>2. Vacant
    BY DownIsVacant DEF connectSSH
  <2> QED BY <2>1, <2>2 DEF Vacant, ActiveSlots, Active
<1>2. Connected \/ (ConnectFailed /\ attempts' \in 0..MaxAttempts + 1)
  BY DEF connectSSH, TunnelInv, TypeOK
<1> QED BY <1>1, <1>2, ConnectIsSafe DEF connectSSH

LEMMA handleReconnectionSafe == TunnelInv /\ handleReconnection => TunnelInv'
<1> SUFFICES ASSUME TunnelInv, handleReconnection PROVE TunnelInv'
  OBVIOUS
<1>1. Vacant'
  BY EmptiedIsVacant DEF handleReconnection
<1>2. NextAttempt \in 0..MaxAttempts + 1
  BY TunnelAssumption DEF TunnelInv, TypeOK, NextAttempt
<1>3. Connected \/ (ConnectFailed /\ attempts' \in 0..MaxAttempts + 1)
  BY <1>2 DEF handleReconnection
<1> QED BY <1>1, <1>3, ConnectIsSafe DEF handleReconnection

LEMMA disconnectSafe == TunnelInv /\ disconnect => TunnelInv'
<1> SUFFICES ASSUME TunnelInv, disconnect PROVE TunnelInv'
  OBVIOUS
<1>1. PICK final \in SUBSET ActiveSlots : TearDown(final)
  BY DEF disconnect
<1>2. /\ Vacant' /\ session' \in {"none", "leftover"}
      /\ live' \subseteq Chans /\ forgotten' = live'
  BY <1>1, TearDownEffect
<1>3. closeEvents = {} /\ degraded = FALSE /\ appOpen = ActiveSlots
  BY DEF disconnect, TunnelInv, Phases, Told, TypeOK
<1>4. badEvent = FALSE /\ appUp = (state = "CONNECTED")
  BY DEF TunnelInv, Told, TypeOK
<1>5. badEvent' = FALSE /\ appUp' = FALSE
  BY <1>3, <1>4 DEF disconnect
<1>6. /\ appOpen' = {} /\ state' = "DISCONNECTED" /\ pc' = "top"
      /\ attempts' \in 0..MaxAttempts + 1 /\ age' \in 0..Cooldown
      /\ closeEvents' = {} /\ degraded' = FALSE
  BY <1>3 DEF disconnect, retry, TunnelInv, TypeOK
<1>7. appUp' = (state' = "CONNECTED") /\ (session' = "up" <=> state' = "CONNECTED")
  BY <1>2, <1>5, <1>6
<1> QED BY <1>2, <1>5, <1>6, <1>7, VacantIsSafe

LEMMA LoseSessionSafe == TunnelInv /\ LoseSession => TunnelInv'
<1> SUFFICES ASSUME TunnelInv, LoseSession PROVE TunnelInv'
  OBVIOUS
<1>1. closeEvents = {} /\ degraded = FALSE
  BY DEF LoseSession, TunnelInv, Phases, TypeOK
<1>2. PICK final \in SUBSET ActiveSlots : EnterErrorState(final, appOpen \ closeEvents)
  <2>1. appOpen \ closeEvents = appOpen
    BY <1>1
  <2> QED BY <2>1 DEF LoseSession, enterErrorState
<1> QED BY <1>1, <1>2, EnterErrorIsSafe DEF LoseSession

LEMMA AcceptFatalSafe == TunnelInv /\ AcceptFatal => TunnelInv'
<1> SUFFICES ASSUME TunnelInv, AcceptFatal PROVE TunnelInv'
  OBVIOUS
<1>1. closeEvents = {} /\ degraded = FALSE /\ state = "CONNECTED"
  BY DEF AcceptFatal, TunnelInv, Phases, TypeOK
<1>2. PICK final \in SUBSET ActiveSlots : EnterErrorState(final, appOpen \ closeEvents)
  <2>1. appOpen \ closeEvents = appOpen
    BY <1>1
  <2> QED BY <2>1 DEF AcceptFatal, enterErrorState
<1> QED BY <1>1, <1>2, EnterErrorIsSafe DEF AcceptFatal

LEMMA EmitAndFailSafe == TunnelInv /\ EmitAndFail => TunnelInv'
<1> SUFFICES ASSUME TunnelInv, EmitAndFail PROVE TunnelInv'
  OBVIOUS
<1>1. state = "CONNECTED"
  BY DEF EmitAndFail, TunnelInv, Phases
<1>2. PICK final \in SUBSET ActiveSlots : EnterErrorState(final, appOpen \ closeEvents)
  BY DEF EmitAndFail
<1> QED BY <1>1, <1>2, EnterErrorIsSafe DEF EmitAndFail

-----------------------------------------------------------------------------
(* Steps that touch no channel. *)

LEMMA FrameIsSafe ==
  ASSUME TunnelInv,
         UNCHANGED <<session, live, slot, activeCount, queues, closeEvents,
                     degraded, forgotten, app>>,
         state' \in {"DISCONNECTED", "CONNECTED", "ERROR"},
         state' = "CONNECTED" <=> state = "CONNECTED",
         cooling' \subseteq Slots,
         attempts' \in 0..MaxAttempts + 1, age' \in 0..Cooldown,
         pc' \in {"top", "deferred", "accept", "pump", "events", "pending", "late"},
         pc' \in {"deferred", "accept"} => state = "CONNECTED",
         pc' # pc => todo = <<>> /\ closeEvents = {} /\ ~degraded
  PROVE  TunnelInv'
<1>1. /\ session' = session /\ live' = live /\ slot' = slot
      /\ activeCount' = activeCount /\ pending' = pending /\ todo' = todo
      /\ deferred' = deferred /\ closeEvents' = closeEvents /\ degraded' = degraded
      /\ forgotten' = forgotten /\ appOpen' = appOpen /\ appUp' = appUp
      /\ badEvent' = badEvent
  BY DEF queues, app
<1>2. ActiveSlots' = ActiveSlots /\ InSlots' = InSlots /\ (DistinctSlots => DistinctSlots')
  BY <1>1, SlotsSame
<1>3. Held' = Held
  BY <1>1, <1>2 DEF Held
<1>4. TypeOK' /\ IsFiniteSet(deferred')
  BY <1>1 DEF TunnelInv, TypeOK
<1>5. NoDangling' /\ Accounted'
  BY <1>1, <1>3 DEF TunnelInv, NoDangling, Accounted
<1>6. Unshared'
  BY <1>1, <1>2 DEF TunnelInv, Unshared, Apart
<1>7. ActiveCountExact'
  BY <1>1, <1>2 DEF TunnelInv, ActiveCountExact
<1>8. Phases'
  BY <1>1 DEF TunnelInv, Phases
<1>9. Told'
  BY <1>1, <1>2 DEF TunnelInv, Told
<1> QED BY <1>4, <1>5, <1>6, <1>7, <1>8, <1>9 DEF TunnelInv

LEMMA requestReconnectSafe == TunnelInv /\ requestReconnect => TunnelInv'
<1> SUFFICES ASSUME TunnelInv, requestReconnect PROVE TunnelInv'
  OBVIOUS
<1>1. 0 \in 0..MaxAttempts + 1 /\ 0 \in 0..Cooldown
  BY TunnelAssumption
<1>2. cooling' \subseteq Slots /\ pc' = pc /\ pc = "top"
  BY DEF requestReconnect, slotVars, TunnelInv, TypeOK
<1> QED BY <1>1, <1>2, FrameIsSafe DEF requestReconnect, slotVars

LEMMA LoopStartSafe == TunnelInv /\ LoopStart => TunnelInv'
<1> SUFFICES ASSUME TunnelInv, LoopStart PROVE TunnelInv'
  OBVIOUS
<1>1. todo = <<>> /\ closeEvents = {} /\ ~degraded
  BY DEF LoopStart, TunnelInv, Phases
<1>2. /\ cooling' \subseteq Slots /\ attempts' \in 0..MaxAttempts + 1
      /\ age' \in 0..Cooldown
  BY DEF LoopStart, slotVars, retry, TunnelInv, TypeOK
<1> QED BY <1>1, <1>2, FrameIsSafe DEF LoopStart, slotVars

LEMMA NoneAcceptedSafe == TunnelInv /\ NoneAccepted => TunnelInv'
<1> SUFFICES ASSUME TunnelInv, NoneAccepted PROVE TunnelInv'
  OBVIOUS
<1>1. todo = <<>> /\ closeEvents = {} /\ ~degraded
  BY DEF NoneAccepted, TunnelInv, Phases
<1>2. /\ cooling' \subseteq Slots /\ attempts' \in 0..MaxAttempts + 1
      /\ age' \in 0..Cooldown /\ state' = state /\ pc' = "pump"
      /\ state \in {"DISCONNECTED", "CONNECTED", "ERROR"}
  BY DEF NoneAccepted, slotVars, retry, TunnelInv, TypeOK
<1> QED BY <1>1, <1>2, FrameIsSafe DEF NoneAccepted, slotVars

LEMMA PendingDoneSafe == TunnelInv /\ PendingDone => TunnelInv'
<1> SUFFICES ASSUME TunnelInv, PendingDone PROVE TunnelInv'
  OBVIOUS
<1>1. todo = <<>> /\ closeEvents = {} /\ ~degraded
  BY DEF PendingDone, TunnelInv, Phases
<1>2. /\ cooling' \subseteq Slots /\ attempts' \in 0..MaxAttempts + 1
      /\ age' \in 0..Cooldown /\ state' = state /\ pc' = "late"
      /\ state \in {"DISCONNECTED", "CONNECTED", "ERROR"}
  BY DEF PendingDone, slotVars, retry, TunnelInv, TypeOK
<1> QED BY <1>1, <1>2, FrameIsSafe DEF PendingDone, slotVars

LEMMA TickSafe == TunnelInv /\ Tick => TunnelInv'
<1> SUFFICES ASSUME TunnelInv, Tick PROVE TunnelInv'
  OBVIOUS
<1>1. age' \in 0..Cooldown
  BY TunnelAssumption DEF Tick, TunnelInv, TypeOK
<1>2. /\ cooling' \subseteq Slots /\ attempts' \in 0..MaxAttempts + 1
      /\ state' = state /\ pc' = pc /\ pc = "top"
      /\ state \in {"DISCONNECTED", "CONNECTED", "ERROR"}
  BY DEF Tick, slotVars, TunnelInv, TypeOK
<1> QED BY <1>1, <1>2, FrameIsSafe DEF Tick, slotVars

LEMMA CooldownOverSafe == TunnelInv /\ CooldownOver => TunnelInv'
<1> SUFFICES ASSUME TunnelInv, CooldownOver PROVE TunnelInv'
  OBVIOUS
<1>1. /\ cooling' \subseteq Slots /\ attempts' \in 0..MaxAttempts + 1
      /\ age' \in 0..Cooldown /\ state' = state /\ pc' = pc
      /\ state \in {"DISCONNECTED", "CONNECTED", "ERROR"}
      /\ pc \in {"top", "deferred", "accept", "pump", "events", "pending", "late"}
      /\ pc \in {"deferred", "accept"} => state = "CONNECTED"
  BY DEF CooldownOver, retry, TunnelInv, TypeOK, Phases
<1> QED BY <1>1, FrameIsSafe DEF CooldownOver

LEMMA StutterSafe == TunnelInv /\ UNCHANGED vars => TunnelInv'
<1> SUFFICES ASSUME TunnelInv, UNCHANGED vars PROVE TunnelInv'
  OBVIOUS
<1>1. /\ cooling' \subseteq Slots /\ attempts' \in 0..MaxAttempts + 1
      /\ age' \in 0..Cooldown /\ state' = state /\ pc' = pc
      /\ state \in {"DISCONNECTED", "CONNECTED", "ERROR"}
      /\ pc \in {"top", "deferred", "accept", "pump", "events", "pending", "late"}
      /\ pc \in {"deferred", "accept"} => state = "CONNECTED"
  BY DEF vars, slotVars, retry, TunnelInv, TypeOK, Phases
<1>2. UNCHANGED <<session, live, slot, activeCount, queues, closeEvents,
                  degraded, forgotten, app>>
  BY DEF vars, slotVars
<1> QED BY <1>1, <1>2, FrameIsSafe

-----------------------------------------------------------------------------
(* Steps that move channels between holders. *)

\* The deferred queue is disjoint from the other holders, so closing its
\* entries frees nobody else's channel.
LEMMA drainDeferredSafe == TunnelInv /\ drainDeferredCloseQueue => TunnelInv'
<1> SUFFICES ASSUME TunnelInv, drainDeferredCloseQueue PROVE TunnelInv'
  OBVIOUS
<1>1. PICK kept \in SUBSET deferred, eagain \in SUBSET deferred :
        /\ eagain \cap kept = {}
        /\ deferred' = kept
        /\ live' = live \ (deferred \ (kept \cup eagain))
        /\ forgotten' = forgotten \cup eagain
  <2>1. PICK kept \in SUBSET deferred : \E eagain \in SUBSET (deferred \ kept) :
          /\ deferred' = kept
          /\ live' = live \ (deferred \ (kept \cup eagain))
          /\ forgotten' = forgotten \cup eagain
    BY DEF drainDeferredCloseQueue
  <2>2. PICK eagain \in SUBSET (deferred \ kept) :
          /\ deferred' = kept
          /\ live' = live \ (deferred \ (kept \cup eagain))
          /\ forgotten' = forgotten \cup eagain
    BY <2>1
  <2> QED BY <2>2
<1>2. /\ state' = state /\ session' = session /\ slot' = slot /\ cooling' = cooling
      /\ activeCount' = activeCount /\ pending' = pending /\ todo' = todo
      /\ closeEvents' = closeEvents /\ degraded' = degraded
      /\ attempts' = attempts /\ age' = age
      /\ appOpen' = appOpen /\ appUp' = appUp /\ badEvent' = badEvent
  BY DEF drainDeferredCloseQueue, slotVars, retry, app
<1>3. /\ pc \in {"deferred", "late"} /\ pc' \in {"accept", "top"}
      /\ pc' = "accept" => pc = "deferred"
  BY DEF drainDeferredCloseQueue
<1>4. ActiveSlots' = ActiveSlots /\ InSlots' = InSlots /\ (DistinctSlots => DistinctSlots')
  BY <1>2, SlotsSame
<1>5. ~degraded /\ closeEvents = {} /\ todo = <<>>
  BY <1>3 DEF TunnelInv, Phases
<1>6. IsFiniteSet(kept) /\ Cardinality(kept) <= MAX_DEFERRED_CLOSE
  <2>1. IsFiniteSet(deferred) /\ Cardinality(deferred) <= MAX_DEFERRED_CLOSE
    BY DEF TunnelInv, TypeOK
  <2>2. IsFiniteSet(kept) /\ Cardinality(kept) <= Cardinality(deferred)
    BY <2>1, FS_Subset
  <2>3. Cardinality(kept) \in Nat /\ Cardinality(deferred) \in Nat
    BY <2>1, <2>2, FS_CardinalityType
  <2> QED BY <2>1, <2>2, <2>3, TunnelAssumption
<1>7. /\ Held' = InSlots \cup ChansOf(pending) \cup ChansOf(todo) \cup kept
      /\ Held = InSlots \cup ChansOf(pending) \cup ChansOf(todo) \cup deferred
  BY <1>1, <1>2, <1>4 DEF Held
<1>8. /\ Apart /\ Held \subseteq live /\ (Held # {} => session = "up")
      /\ Held \cap forgotten = {} /\ live \subseteq Held \cup forgotten
      /\ forgotten \subseteq live /\ live \subseteq Chans
  BY <1>5 DEF TunnelInv, Unshared, NoDangling, Accounted, TypeOK
<1>9. TypeOK'
  <2>1. forgotten' \subseteq live' /\ live' \subseteq Chans /\ deferred' \subseteq Chans
    BY <1>1, <1>7, <1>8
  <2> QED BY <1>1, <1>2, <1>3, <1>6, <2>1 DEF TunnelInv, TypeOK
<1>10. NoDangling'
  BY <1>1, <1>2, <1>7, <1>8 DEF NoDangling, Apart
<1>11. Accounted'
  BY <1>1, <1>2, <1>7, <1>8 DEF Accounted, Apart
<1>12. Unshared'
  BY <1>1, <1>2, <1>4 DEF TunnelInv, Unshared, Apart
<1>13. ActiveCountExact' /\ Told'
  BY <1>2, <1>4 DEF TunnelInv, ActiveCountExact, Told
<1>14. Phases'
  BY <1>2, <1>3, <1>5 DEF TunnelInv, Phases
<1> QED
  BY <1>1, <1>6, <1>9, <1>10, <1>11, <1>12, <1>13, <1>14 DEF TunnelInv

-----------------------------------------------------------------------------
(* handleNewConnection: a channel nobody holds gets a holder, is freed, or is *)
(* forgotten.                                                                 *)

\* What Accepting relies on: the new channel is known to nobody.
LEMMA AcceptStart ==
  ASSUME TunnelInv, NEW c \in Chans, Accepting(c)
  PROVE  /\ c \notin Held /\ c \notin forgotten /\ c \notin live
         /\ c \notin InSlots /\ c \notin ChansOf(pending) /\ c \notin deferred
         /\ todo = <<>> /\ ChansOf(todo) = {} /\ Len(todo) = 0
         /\ closeEvents = {} /\ ~degraded
         /\ state = "CONNECTED" /\ session = "up" /\ pc = "accept"
         /\ state' = state /\ session' = session /\ closeEvents' = closeEvents
         /\ degraded' = degraded /\ attempts' = attempts /\ age' = age
         /\ todo' = todo
<1>1. pc = "accept" /\ session = "up" /\ c \notin live
  BY DEF Accepting
<1>2. todo = <<>> /\ closeEvents = {} /\ ~degraded /\ state = "CONNECTED"
  BY <1>1 DEF TunnelInv, Phases
<1>3. c \notin Held /\ c \notin forgotten
  BY <1>1 DEF TunnelInv, NoDangling, TypeOK
<1>4. ChansOf(todo) = {} /\ Len(todo) = 0
  BY <1>2, QueueEmpty
<1> QED BY <1>1, <1>2, <1>3, <1>4 DEF Held, Accepting, retry

\* The deferred queue keeps to its size.
LEMMA DisposeEffect ==
  ASSUME TunnelInv, NEW c \in Chans, c \notin live, Dispose(c)
  PROVE  /\ IsFiniteSet(deferred') /\ Cardinality(deferred') <= MAX_DEFERRED_CLOSE
         /\ \/ live' = live /\ forgotten' = forgotten /\ deferred' = deferred
            \/ live' = live \cup {c} /\ forgotten' = forgotten \cup {c}
               /\ deferred' = deferred
            \/ live' = live \cup {c} /\ forgotten' = forgotten
               /\ deferred' = deferred \cup {c}
<1>0. /\ IsFiniteSet(deferred) /\ Cardinality(deferred) <= MAX_DEFERRED_CLOSE
      /\ Cardinality(deferred) \in Nat /\ MAX_DEFERRED_CLOSE \in Nat
  BY FS_CardinalityType, TunnelAssumption DEF TunnelInv, TypeOK
<1>1. CASE ClosedNow(c) /\ UNCHANGED deferred
  BY <1>0, <1>1 DEF ClosedNow
<1>2. CASE /\ live' = live \cup {c}
           /\ Cardinality(deferred) < MAX_DEFERRED_CLOSE
           /\ deferred' = deferred \cup {c} /\ UNCHANGED forgotten
  <2>1. /\ IsFiniteSet(deferred \cup {c})
        /\ Cardinality(deferred \cup {c}) =
             IF c \in deferred THEN Cardinality(deferred) ELSE Cardinality(deferred) + 1
    BY <1>0, FS_AddElement
  <2>2. Cardinality(deferred \cup {c}) \in Nat
    BY <2>1, FS_CardinalityType
  <2>3. Cardinality(deferred \cup {c}) <= MAX_DEFERRED_CLOSE
    BY <1>0, <1>2, <2>1, <2>2
  <2> QED BY <1>2, <2>1, <2>3
<1>3. CASE /\ live' = live \cup {c}
           /\ forgotten' = forgotten \cup {c} /\ UNCHANGED deferred
  BY <1>0, <1>3
<1> QED BY <1>1, <1>2, <1>3 DEF Dispose

\* Disposing of the new channel, while the slots keep their channels.
LEMMA DisposedIsSafe ==
  ASSUME TunnelInv, NEW c \in Chans, Accepting(c), Dispose(c),
         pc' = "pump", UNCHANGED <<cooling, activeCount, pending, app>>,
         slot' \in SlotType, ActiveSlots' = ActiveSlots, InSlots' = InSlots,
         DistinctSlots'
  PROVE  TunnelInv'
<1>1. /\ c \notin Held /\ c \notin forgotten /\ c \notin live
      /\ c \notin InSlots /\ c \notin ChansOf(pending) /\ c \notin deferred
      /\ todo = <<>> /\ ChansOf(todo) = {} /\ Len(todo) = 0
      /\ closeEvents = {} /\ ~degraded
      /\ state = "CONNECTED" /\ session = "up" /\ pc = "accept"
      /\ state' = state /\ session' = session /\ closeEvents' = closeEvents
      /\ degraded' = degraded /\ attempts' = attempts /\ age' = age
      /\ todo' = todo
  BY AcceptStart
<1>2. /\ IsFiniteSet(deferred') /\ Cardinality(deferred') <= MAX_DEFERRED_CLOSE
      /\ \/ live' = live /\ forgotten' = forgotten /\ deferred' = deferred
         \/ live' = live \cup {c} /\ forgotten' = forgotten \cup {c}
            /\ deferred' = deferred
         \/ live' = live \cup {c} /\ forgotten' = forgotten
            /\ deferred' = deferred \cup {c}
  BY <1>1, DisposeEffect
<1>3. /\ cooling' = cooling /\ activeCount' = activeCount /\ pending' = pending
      /\ appOpen' = appOpen /\ appUp' = appUp /\ badEvent' = badEvent
  BY DEF app
<1>4. /\ Held = InSlots \cup ChansOf(pending) \cup deferred
      /\ Held' = InSlots \cup ChansOf(pending) \cup deferred'
  BY <1>1, <1>3 DEF Held
<1>5. /\ Held \subseteq live /\ Held \cap forgotten = {}
      /\ live \subseteq Held \cup forgotten /\ forgotten \subseteq live
      /\ live \subseteq Chans /\ deferred \subseteq Chans
  BY <1>1 DEF TunnelInv, NoDangling, Accounted, TypeOK
<1>6. TypeOK'
  <2>1. live' \subseteq Chans /\ forgotten' \subseteq live' /\ deferred' \subseteq Chans
    BY <1>2, <1>5
  <2> QED BY <1>1, <1>2, <1>3, <2>1 DEF TunnelInv, TypeOK, SlotType
<1>7. NoDangling'
  BY <1>1, <1>2, <1>4, <1>5 DEF NoDangling
<1>8. Accounted'
  BY <1>1, <1>2, <1>4, <1>5 DEF Accounted
<1>9. Unshared'
  <2>1. deferred' \subseteq deferred \cup {c}
    BY <1>2
  <2>2. Apart
    BY DEF TunnelInv, Unshared
  <2>3. Apart'
    BY <1>1, <1>3, <2>1, <2>2 DEF Apart
  <2> QED BY <1>1, <1>3, <2>3 DEF TunnelInv, Unshared
<1>10. ActiveCountExact' /\ Told'
  BY <1>1, <1>3 DEF TunnelInv, ActiveCountExact, Told
<1>11. Phases'
  BY <1>1 DEF TunnelInv, Phases
<1> QED BY <1>2, <1>6, <1>7, <1>8, <1>9, <1>10, <1>11 DEF TunnelInv

LEMMA AcceptRejectedSafe ==
  ASSUME TunnelInv, NEW c \in Chans, AcceptRejected(c)
  PROVE  TunnelInv'
<1>1. Accepting(c) /\ Dispose(c) /\ pc' = "pump"
      /\ UNCHANGED <<slot, cooling, activeCount, pending, app>>
  BY DEF AcceptRejected, slotVars
<1>2. ActiveSlots' = ActiveSlots /\ InSlots' = InSlots /\ DistinctSlots'
  BY <1>1, SlotsSame DEF TunnelInv, Unshared
<1>3. slot' \in SlotType
  BY <1>1 DEF TunnelInv, TypeOK, SlotType
<1> QED BY <1>1, <1>2, <1>3, DisposedIsSafe

\* allocateSlot found no slot, or binding found no lock: the slots keep their
\* channels.
LEMMA NotAllocated ==
  ASSUME TunnelInv,
         \/ Allocatable # {} /\ UNCHANGED slotVars
         \/ Allocatable = {} /\ \E S \in StaleChoices : Recycled(S)
  PROVE  /\ UNCHANGED <<cooling, activeCount>>
         /\ slot' \in SlotType /\ ActiveSlots' = ActiveSlots
         /\ InSlots' = InSlots /\ DistinctSlots'
<1>0. TypeOK /\ DistinctSlots
  BY DEF TunnelInv, Unshared
<1>1. CASE UNCHANGED slotVars
  <2>1. UNCHANGED <<slot, cooling, activeCount>>
    BY <1>1 DEF slotVars
  <2> QED BY <1>0, <2>1, SlotsSame DEF TypeOK, SlotType
<1>2. CASE \E S \in StaleChoices : Recycled(S)
  <2>1. PICK S \in StaleChoices : Recycled(S)
    BY <1>2
  <2>2. UNCHANGED <<cooling, activeCount>>
    BY <2>1 DEF Recycled
  <2> QED BY <1>0, <2>1, <2>2, SlotsRecycled DEF SlotType
<1> QED BY <1>1, <1>2

LEMMA AcceptQueuedSafe ==
  ASSUME TunnelInv, NEW c \in Chans, AcceptQueued(c)
  PROVE  TunnelInv'
<1>0. Accepting(c) /\ pc' = "pump" /\ UNCHANGED app
  BY DEF AcceptQueued
<1>1. /\ c \notin Held /\ c \notin forgotten /\ c \notin live
      /\ c \notin InSlots /\ c \notin ChansOf(pending) /\ c \notin deferred
      /\ todo = <<>> /\ ChansOf(todo) = {} /\ Len(todo) = 0
      /\ closeEvents = {} /\ ~degraded
      /\ state = "CONNECTED" /\ session = "up" /\ pc = "accept"
      /\ state' = state /\ session' = session /\ closeEvents' = closeEvents
      /\ degraded' = degraded /\ attempts' = attempts /\ age' = age
      /\ todo' = todo
  BY <1>0, AcceptStart
<1>2. /\ UNCHANGED <<cooling, activeCount>>
      /\ slot' \in SlotType /\ ActiveSlots' = ActiveSlots
      /\ InSlots' = InSlots /\ DistinctSlots'
  BY NotAllocated DEF AcceptQueued
<1>3. CASE ~(Len(pending) < MAX_PENDING)
  <2>1. Dispose(c) /\ UNCHANGED pending
    BY <1>3 DEF AcceptQueued
  <2> QED BY <1>0, <1>2, <2>1, DisposedIsSafe
<1>4. CASE Len(pending) < MAX_PENDING
  <2> DEFINE e == [chan |-> c, action |-> "Bind", old |-> FALSE]
  <2>1. /\ pending' = Append(pending, e)
        /\ live' = live \cup {c} /\ deferred' = deferred /\ forgotten' = forgotten
        /\ appOpen' = appOpen /\ appUp' = appUp /\ badEvent' = badEvent
    BY <1>0, <1>4 DEF AcceptQueued, app
  <2>2. e \in Entry /\ e.chan = c
    BY DEF Entry
  <2> HIDE DEF e
  <2>3. pending \in Seq(Entry) /\ DistinctQueue(pending) /\ Apart
    BY DEF TunnelInv, TypeOK, Unshared
  <2>4. /\ pending' \in Seq(Entry) /\ Len(pending') = Len(pending) + 1
        /\ ChansOf(pending') = ChansOf(pending) \cup {c} /\ DistinctQueue(pending')
    BY <1>1, <2>1, <2>2, <2>3, QueueAppend
  <2>5. /\ Held = InSlots \cup ChansOf(pending) \cup deferred
        /\ Held' = InSlots \cup ChansOf(pending) \cup {c} \cup deferred
    BY <1>1, <1>2, <2>1, <2>4 DEF Held
  <2>6. /\ Held \subseteq live /\ Held \cap forgotten = {}
        /\ live \subseteq Held \cup forgotten /\ forgotten \subseteq live
        /\ live \subseteq Chans
    BY <1>1 DEF TunnelInv, NoDangling, Accounted, TypeOK
  <2>7. TypeOK'
    <3>1. Len(pending') + Len(todo') <= MAX_PENDING
      BY <1>1, <1>4, <2>3, <2>4, TunnelAssumption
    <3>2. live' \subseteq Chans /\ forgotten' \subseteq live'
      BY <2>1, <2>6
    <3> QED
      BY <1>0, <1>1, <1>2, <2>1, <2>4, <3>1, <3>2 DEF TunnelInv, TypeOK, SlotType
  <2>8. NoDangling'
    BY <1>1, <2>1, <2>5, <2>6 DEF NoDangling
  <2>9. Accounted'
    BY <1>1, <2>1, <2>5, <2>6 DEF Accounted
  <2>10. Unshared'
    <3>1. Apart'
      BY <1>1, <1>2, <2>1, <2>3, <2>4 DEF Apart
    <3> QED BY <1>1, <1>2, <2>4, <3>1 DEF TunnelInv, Unshared
  <2>11. ActiveCountExact' /\ Told'
    BY <1>1, <1>2, <2>1 DEF TunnelInv, ActiveCountExact, Told
  <2>12. Phases' /\ IsFiniteSet(deferred')
    BY <1>0, <1>1, <2>1 DEF TunnelInv, Phases
  <2> QED BY <2>7, <2>8, <2>9, <2>10, <2>11, <2>12 DEF TunnelInv
<1> QED BY <1>3, <1>4

\* findFreeSlot returns a slot that is not in use.
LEMMA FirstIsFree ==
  ASSUME Allocatable # {}
  PROVE  FirstOf(Allocatable) \in Slots /\ ~Active(FirstOf(Allocatable))
<1>1. Allocatable \in SUBSET Slots
  BY DEF Allocatable
<1>2. FirstOf(Allocatable) \in Allocatable
  BY <1>1, FirstExists
<1> QED BY <1>2 DEF Allocatable

\* The event of a slot just bound is the first since its last close.
LEMMA OpenedIsTold ==
  ASSUME TunnelInv, NEW s \in Slots, s \notin ActiveSlots,
         ActiveSlots' = ActiveSlots \cup {s}, Opened(s),
         closeEvents = {}, closeEvents' = {}, state' = state
  PROVE  /\ Told'
         /\ appOpen' \subseteq Slots /\ appUp' \in BOOLEAN /\ badEvent' \in BOOLEAN
<1>1. badEvent = FALSE /\ appOpen = ActiveSlots /\ (appUp <=> state = "CONNECTED")
  BY DEF TunnelInv, Told, TypeOK
<1>2. badEvent' = FALSE /\ appOpen' = ActiveSlots \cup {s} /\ appUp' = appUp
  BY <1>1 DEF Opened
<1>3. Told'
  BY <1>1, <1>2 DEF Told
<1> QED BY <1>2, <1>3 DEF ActiveSlots, TunnelInv, TypeOK

LEMMA AcceptBoundSafe ==
  ASSUME TunnelInv, NEW c \in Chans, AcceptBound(c)
  PROVE  TunnelInv'
<1>0. Accepting(c)
  BY DEF AcceptBound
<1>1. /\ c \notin Held /\ c \notin forgotten /\ c \notin live
      /\ c \notin InSlots /\ c \notin ChansOf(pending) /\ c \notin deferred
      /\ todo = <<>> /\ ChansOf(todo) = {} /\ Len(todo) = 0
      /\ closeEvents = {} /\ ~degraded
      /\ state = "CONNECTED" /\ session = "up" /\ pc = "accept"
      /\ state' = state /\ session' = session /\ closeEvents' = closeEvents
      /\ degraded' = degraded /\ attempts' = attempts /\ age' = age
      /\ todo' = todo
  BY <1>0, AcceptStart
<1> DEFINE s == FirstOf(Allocatable)
<1>2. s \in Slots /\ ~Active(s) /\ Bound(s, c) /\ Opened(s)
  BY FirstIsFree DEF AcceptBound
<1>3. /\ live' = live \cup {c} /\ pending' = pending /\ deferred' = deferred
      /\ forgotten' = forgotten /\ pc' = pc
  BY DEF AcceptBound
<1> HIDE DEF s
<1>4. TypeOK /\ ActiveCountExact /\ DistinctSlots /\ Apart
  BY DEF TunnelInv, Unshared
<1>5. /\ slot' \in SlotType
      /\ ActiveSlots' = ActiveSlots \cup {s} /\ s \notin ActiveSlots
      /\ InSlots' = InSlots \cup {c} /\ DistinctSlots'
      /\ activeCount' \in Int /\ ActiveCountExact' /\ cooling' = cooling
  BY <1>1, <1>2, <1>4, SlotsBound DEF SlotType, Bound
<1>6. /\ Told' /\ appOpen' \subseteq Slots /\ appUp' \in BOOLEAN
      /\ badEvent' \in BOOLEAN
  BY <1>1, <1>2, <1>5, OpenedIsTold
<1>7. /\ Held = InSlots \cup ChansOf(pending) \cup deferred
      /\ Held' = InSlots \cup {c} \cup ChansOf(pending) \cup deferred
  BY <1>1, <1>3, <1>5 DEF Held
<1>8. /\ Held \subseteq live /\ Held \cap forgotten = {}
      /\ live \subseteq Held \cup forgotten /\ forgotten \subseteq live
      /\ live \subseteq Chans
  BY <1>1 DEF TunnelInv, NoDangling, Accounted, TypeOK
<1>9. TypeOK'
  <2>1. live' \subseteq Chans /\ forgotten' \subseteq live'
    BY <1>3, <1>8
  <2> QED BY <1>1, <1>3, <1>4, <1>5, <1>6, <2>1 DEF TypeOK, SlotType
<1>10. NoDangling'
  BY <1>1, <1>3, <1>7, <1>8 DEF NoDangling
<1>11. Accounted'
  BY <1>1, <1>3, <1>7, <1>8 DEF Accounted
<1>12. Unshared'
  <2>1. Apart'
    BY <1>1, <1>3, <1>4, <1>5 DEF Apart
  <2> QED BY <1>1, <1>3, <1>5, <2>1 DEF TunnelInv, Unshared
<1>13. Phases' /\ IsFiniteSet(deferred')
  BY <1>1, <1>3 DEF TunnelInv, Phases
<1> QED
  BY <1>5, <1>6, <1>9, <1>10, <1>11, <1>12, <1>13 DEF TunnelInv

-----------------------------------------------------------------------------
(* pumpAll and the events it causes. *)

\* The slots that stay keep their channels, and no channel that was freed is
\* one of theirs.
ChansIn(S) == {slot[s].chan : s \in S}

Pumped(gone, drain) ==
  [s \in Slots |-> IF s \in gone THEN FreeSlot
                   ELSE IF s \in drain THEN [slot[s] EXCEPT !.draining = TRUE]
                   ELSE slot[s]]

LEMMA SlotsPumped ==
  ASSUME TypeOK, DistinctSlots, NEW gone \in SUBSET ActiveSlots, NEW drain,
         slot' = Pumped(gone, drain)
  PROVE  /\ slot' \in SlotType
         /\ ActiveSlots' = ActiveSlots \ gone
         /\ InSlots' = InSlots \ ChansIn(gone)
         /\ ChansIn(gone) \subseteq InSlots
         /\ DistinctSlots'
<1>1. /\ slot' \in SlotType
      /\ \A s \in gone : slot'[s].chan = NoChan
      /\ \A s \in Slots \ gone : slot'[s].chan = slot[s].chan
  BY DEF TypeOK, SlotType, FreeSlot, ActiveSlots, Pumped
<1>2. ActiveSlots' = ActiveSlots \ gone
  BY <1>1 DEF ActiveSlots, Active
<1>3. ChansIn(gone) \subseteq InSlots
  BY DEF InSlots, ChansIn
<1>4. InSlots' = ChansIn(ActiveSlots \ gone)
  BY <1>1, <1>2 DEF InSlots, ActiveSlots, ChansIn
<1>5. InSlots' = InSlots \ ChansIn(gone)
  BY <1>4 DEF InSlots, DistinctSlots, ChansIn
<1>6. DistinctSlots'
  BY <1>1, <1>2 DEF DistinctSlots, ActiveSlots
<1> QED BY <1>1, <1>2, <1>3, <1>5, <1>6

LEMMA pumpAllSafe == TunnelInv /\ pumpAll => TunnelInv'
<1> SUFFICES ASSUME TunnelInv, pumpAll PROVE TunnelInv'
  OBVIOUS
<1>1. PICK final \in SUBSET ActiveSlots :
        \E abandon \in SUBSET {s \in ActiveSlots \ final : slot[s].draining} :
        \E drain \in SUBSET (ActiveSlots \ (final \cup abandon)) :
          /\ slot' = [s \in Slots |->
                        IF s \in final \cup abandon THEN FreeSlot
                        ELSE IF s \in drain THEN [slot[s] EXCEPT !.draining = TRUE]
                        ELSE slot[s]]
          /\ activeCount' = Abandoned(activeCount - Cardinality(final),
                                      Cardinality(abandon))
          /\ cooling' = cooling \cup final
          /\ live' = live \ {slot[s].chan : s \in final}
          /\ closeEvents' = closeEvents \cup final \cup abandon
          /\ degraded' = (degraded \/ abandon # {})
  BY DEF pumpAll
<1>2. PICK abandon \in SUBSET {s \in ActiveSlots \ final : slot[s].draining} :
        \E drain \in SUBSET (ActiveSlots \ (final \cup abandon)) :
          /\ slot' = [s \in Slots |->
                        IF s \in final \cup abandon THEN FreeSlot
                        ELSE IF s \in drain THEN [slot[s] EXCEPT !.draining = TRUE]
                        ELSE slot[s]]
          /\ activeCount' = Abandoned(activeCount - Cardinality(final),
                                      Cardinality(abandon))
          /\ cooling' = cooling \cup final
          /\ live' = live \ {slot[s].chan : s \in final}
          /\ closeEvents' = closeEvents \cup final \cup abandon
          /\ degraded' = (degraded \/ abandon # {})
  BY <1>1
<1> DEFINE gone == final \cup abandon
           freed == ChansIn(final)
           left == ChansIn(gone)
<1>3. abandon \in SUBSET (ActiveSlots \ final) /\ gone \in SUBSET ActiveSlots
  OBVIOUS
<1>4. /\ pc = "pump" /\ pc' = "events" /\ state' = state /\ session' = session
      /\ pending' = pending /\ todo' = todo /\ deferred' = deferred
      /\ attempts' = attempts /\ age' = age /\ forgotten' = forgotten
      /\ appOpen' = appOpen /\ appUp' = appUp /\ badEvent' = badEvent
  BY DEF pumpAll, queues, retry, app
<1>5. /\ cooling' = cooling \cup final /\ live' = live \ freed
      /\ closeEvents' = closeEvents \cup gone
      /\ degraded' = (degraded \/ abandon # {})
  BY <1>2 DEF ChansIn
<1>6. /\ slot' \in SlotType /\ ActiveSlots' = ActiveSlots \ gone
      /\ InSlots' = InSlots \ left /\ left \subseteq InSlots /\ DistinctSlots'
  <2>1. PICK drain \in SUBSET (ActiveSlots \ gone) : slot' = Pumped(gone, drain)
    BY <1>2 DEF Pumped
  <2>2. TypeOK /\ DistinctSlots
    BY DEF TunnelInv, Unshared
  <2> HIDE DEF gone
  <2> QED BY <1>3, <2>1, <2>2, SlotsPumped
<1>7. /\ freed \subseteq left
      /\ abandon = {} => freed = left
      /\ abandon # {} => InSlots # {}
  BY <1>3 DEF InSlots, ChansIn
<1>8. activeCount' \in Int /\ ActiveCountExact'
  <2>1. activeCount = Cardinality(ActiveSlots)
    BY DEF TunnelInv, ActiveCountExact
  <2>2. ActiveSlots \in SUBSET Slots
    BY DEF ActiveSlots
  <2>3. activeCount' = Cardinality(ActiveSlots \ gone)
    BY <1>2, <1>3, <2>1, <2>2, CountDown
  <2>4. Cardinality(ActiveSlots \ gone) \in Nat
    BY <2>2, SlotsFinite
  <2> QED BY <1>6, <2>3, <2>4 DEF ActiveCountExact
<1> HIDE DEF gone, freed, left
<1>9. closeEvents = {} /\ ~degraded /\ todo = <<>> /\ ChansOf(todo) = {}
  BY <1>4, QueueEmpty DEF TunnelInv, Phases
<1>10. /\ Held = InSlots \cup ChansOf(pending) \cup deferred
       /\ Held' = (InSlots \ left) \cup ChansOf(pending) \cup deferred
  BY <1>4, <1>6, <1>9 DEF Held
<1>11. /\ Held \subseteq live /\ (Held # {} => session = "up")
       /\ Held \cap forgotten = {} /\ live \subseteq Held \cup forgotten
       /\ forgotten \subseteq live /\ live \subseteq Chans /\ Apart
  BY <1>9 DEF TunnelInv, NoDangling, Accounted, TypeOK, Unshared
<1>12. TypeOK'
  <2>1. live' \subseteq Chans /\ forgotten' \subseteq live'
    BY <1>4, <1>5, <1>6, <1>7, <1>10, <1>11
  <2>2. cooling' \subseteq Slots /\ closeEvents' \subseteq Slots
    BY <1>3, <1>5 DEF TunnelInv, TypeOK, ActiveSlots
  <2>3. degraded' \in BOOLEAN
    BY <1>5
  <2> QED BY <1>4, <1>6, <1>8, <2>1, <2>2, <2>3 DEF TunnelInv, TypeOK, SlotType
<1>13. NoDangling'
  BY <1>4, <1>5, <1>6, <1>7, <1>10, <1>11 DEF NoDangling, Apart
<1>14. Accounted'
  <2>1. Held' \cap forgotten' = {}
    BY <1>4, <1>10, <1>11
  <2>2. ASSUME ~degraded' PROVE live' \subseteq Held' \cup forgotten'
    <3>1. freed = left
      BY <1>5, <1>7, <2>2
    <3> QED BY <1>4, <1>5, <1>10, <1>11, <3>1
  <2> QED BY <2>1, <2>2 DEF Accounted
<1>15. Unshared'
  <2>1. Apart'
    BY <1>4, <1>6, <1>11 DEF Apart
  <2> QED BY <1>4, <1>6, <2>1 DEF TunnelInv, Unshared
<1>16. Told'
  <2>1. /\ ~badEvent /\ (appUp <=> state = "CONNECTED") /\ appOpen = ActiveSlots
    BY <1>9 DEF TunnelInv, Told
  <2>2. closeEvents' = gone /\ ActiveSlots' = ActiveSlots \ gone /\ gone \subseteq ActiveSlots
    BY <1>3, <1>5, <1>6, <1>9
  <2> QED BY <1>4, <2>1, <2>2 DEF Told
<1>17. Phases'
  <2>1. abandon # {} => state = "CONNECTED"
    BY <1>7, <1>10, <1>11 DEF TunnelInv, Phases
  <2> QED BY <1>4, <1>5, <1>9, <2>1 DEF TunnelInv, Phases
<1> QED
  BY <1>4, <1>8, <1>12, <1>13, <1>14, <1>15, <1>16, <1>17 DEF TunnelInv

LEMMA EmitAndGoOnSafe == TunnelInv /\ EmitAndGoOn => TunnelInv'
<1> SUFFICES ASSUME TunnelInv, EmitAndGoOn PROVE TunnelInv'
  OBVIOUS
<1>1. /\ pc = "events" /\ pc' = "pending" /\ ~degraded
      /\ closeEvents' = {} /\ todo' = pending /\ pending' = <<>>
      /\ state' = state /\ session' = session /\ live' = live /\ slot' = slot
      /\ cooling' = cooling /\ activeCount' = activeCount /\ deferred' = deferred
      /\ degraded' = degraded /\ attempts' = attempts /\ age' = age
      /\ forgotten' = forgotten /\ appUp' = appUp
      /\ appOpen' = appOpen \ closeEvents
  BY DEF EmitAndGoOn, slotVars, retry, ClosedAll
<1>2. badEvent' = FALSE
  <2>1. badEvent = FALSE /\ closeEvents \subseteq appOpen
    BY DEF TunnelInv, Told, TypeOK
  <2> QED BY <2>1 DEF EmitAndGoOn, ClosedAll
<1>3. ActiveSlots' = ActiveSlots /\ InSlots' = InSlots /\ (DistinctSlots => DistinctSlots')
  BY <1>1, SlotsSame
<1>4. /\ todo = <<>> /\ ChansOf(todo) = {}
      /\ ChansOf(pending') = {} /\ DistinctQueue(pending') /\ ChansOf(todo') = ChansOf(pending)
  <2>1. todo = <<>>
    BY <1>1 DEF TunnelInv, Phases
  <2> QED BY <1>1, <2>1, QueueEmpty
<1>5. Held' = Held
  BY <1>1, <1>3, <1>4 DEF Held
<1>6. TypeOK' /\ IsFiniteSet(deferred')
  <2>1. Len(pending') + Len(todo') = Len(pending) + Len(todo)
    <3>1. Len(<<>>) = 0 /\ Len(pending) \in Nat
      BY DEF TunnelInv, TypeOK
    <3> QED BY <1>1, <1>4, <3>1
  <2>2. pending' \in Seq(Entry) /\ todo' \in Seq(Entry)
    BY <1>1 DEF TunnelInv, TypeOK
  <2>3. appOpen' \subseteq Slots /\ badEvent' \in BOOLEAN
    BY <1>1, <1>2 DEF TunnelInv, TypeOK
  <2> QED BY <1>1, <2>1, <2>2, <2>3 DEF TunnelInv, TypeOK
<1>7. NoDangling' /\ Accounted'
  BY <1>1, <1>5 DEF TunnelInv, NoDangling, Accounted
<1>8. Unshared'
  <2>1. Apart'
    BY <1>1, <1>3, <1>4 DEF TunnelInv, Unshared, Apart
  <2> QED BY <1>1, <1>3, <1>4, <2>1 DEF TunnelInv, Unshared
<1>9. ActiveCountExact'
  BY <1>1, <1>3 DEF TunnelInv, ActiveCountExact
<1>10. Told'
  BY <1>1, <1>2, <1>3 DEF TunnelInv, Told
<1>11. Phases'
  BY <1>1 DEF TunnelInv, Phases
<1> QED BY <1>6, <1>7, <1>8, <1>9, <1>10, <1>11 DEF TunnelInv

-----------------------------------------------------------------------------
(* drainPendingQueue: the head of the queue moves on to another holder, is    *)
(* freed, or is forgotten.                                                    *)

LEMMA VisitStart ==
  ASSUME TunnelInv, Visiting
  PROVE  LET e == Head(todo) IN
         /\ e \in Entry /\ e.chan \in Chans
         /\ todo' \in Seq(Entry) /\ Len(todo') = Len(todo) - 1
         /\ ChansOf(todo) = {e.chan} \cup ChansOf(todo')
         /\ DistinctQueue(todo') /\ e.chan \notin ChansOf(todo')
         /\ e.chan \notin InSlots /\ e.chan \notin ChansOf(pending)
         /\ e.chan \notin deferred
         /\ e.chan \in live /\ e.chan \notin forgotten
         /\ closeEvents = {} /\ ~degraded /\ session = "up" /\ pc = "pending"
         /\ state' = state /\ session' = session /\ deferred' = deferred
         /\ closeEvents' = closeEvents /\ degraded' = degraded
         /\ attempts' = attempts /\ age' = age /\ pc' = pc
<1> DEFINE e == Head(todo)
<1>1. pc = "pending" /\ todo # <<>> /\ todo' = Tail(todo)
  BY DEF Visiting
<1>2. todo \in Seq(Entry) /\ DistinctQueue(todo) /\ Apart
  BY DEF TunnelInv, TypeOK, Unshared
<1>3. /\ e \in Entry
      /\ todo' \in Seq(Entry) /\ Len(todo') = Len(todo) - 1
      /\ ChansOf(todo) = {e.chan} \cup ChansOf(todo')
      /\ DistinctQueue(todo') /\ e.chan \notin ChansOf(todo')
  BY <1>1, <1>2, QueueTail
<1> HIDE DEF e
<1>4. e.chan \in ChansOf(todo) /\ e.chan \in Held
  BY <1>3 DEF Held
<1>5. e.chan \notin InSlots /\ e.chan \notin ChansOf(pending) /\ e.chan \notin deferred
  BY <1>2, <1>4 DEF Apart
<1>6. e.chan \in live /\ e.chan \notin forgotten /\ session = "up"
  BY <1>4 DEF TunnelInv, NoDangling, Accounted
<1>7. closeEvents = {} /\ ~degraded
  BY <1>1 DEF TunnelInv, Phases
<1>8. e.chan \in Chans
  BY <1>3 DEF Entry
<1> QED BY <1>1, <1>3, <1>5, <1>6, <1>7, <1>8 DEF Visiting, retry, e

\* The entry is freed or forgotten.
LEMMA ClosedIsSafe ==
  ASSUME TunnelInv, Visiting, ClosedNow(Head(todo).chan),
         UNCHANGED <<pending, slotVars, app>>
  PROVE  TunnelInv'
<1> DEFINE c == Head(todo).chan
<1>1. /\ c \in Chans
      /\ todo' \in Seq(Entry) /\ Len(todo') = Len(todo) - 1
      /\ ChansOf(todo) = {c} \cup ChansOf(todo')
      /\ DistinctQueue(todo') /\ c \notin ChansOf(todo')
      /\ c \notin InSlots /\ c \notin ChansOf(pending) /\ c \notin deferred
      /\ c \in live /\ c \notin forgotten
      /\ closeEvents = {} /\ ~degraded /\ session = "up" /\ pc = "pending"
      /\ state' = state /\ session' = session /\ deferred' = deferred
      /\ closeEvents' = closeEvents /\ degraded' = degraded
      /\ attempts' = attempts /\ age' = age /\ pc' = pc
  BY VisitStart
<1>2. \/ live' = live \ {c} /\ forgotten' = forgotten
      \/ live' = live \cup {c} /\ forgotten' = forgotten \cup {c}
  BY DEF ClosedNow
<1> HIDE DEF c
<1>3. /\ pending' = pending /\ slot' = slot /\ cooling' = cooling
      /\ activeCount' = activeCount
      /\ appOpen' = appOpen /\ appUp' = appUp /\ badEvent' = badEvent
  BY DEF slotVars, app
<1>4. ActiveSlots' = ActiveSlots /\ InSlots' = InSlots /\ (DistinctSlots => DistinctSlots')
  BY <1>3, SlotsSame
<1>5. /\ Held = InSlots \cup ChansOf(pending) \cup {c} \cup ChansOf(todo') \cup deferred
      /\ Held' = InSlots \cup ChansOf(pending) \cup ChansOf(todo') \cup deferred
  BY <1>1, <1>3, <1>4 DEF Held
<1>6. /\ Held \subseteq live /\ Held \cap forgotten = {}
      /\ live \subseteq Held \cup forgotten /\ forgotten \subseteq live
      /\ live \subseteq Chans /\ Apart
  BY <1>1 DEF TunnelInv, NoDangling, Accounted, TypeOK, Unshared
<1>7. TypeOK' /\ IsFiniteSet(deferred')
  <2>1. live' \subseteq Chans /\ forgotten' \subseteq live'
    BY <1>1, <1>2, <1>6
  <2>2. Len(pending') + Len(todo') <= MAX_PENDING
    BY <1>1, <1>3, TunnelAssumption DEF TunnelInv, TypeOK
  <2> QED BY <1>1, <1>3, <2>1, <2>2 DEF TunnelInv, TypeOK
<1>8. NoDangling'
  BY <1>1, <1>2, <1>5, <1>6 DEF NoDangling
<1>9. Accounted'
  BY <1>1, <1>2, <1>5, <1>6 DEF Accounted
<1>10. Unshared'
  <2>1. Apart'
    BY <1>1, <1>3, <1>4, <1>6 DEF Apart
  <2> QED BY <1>1, <1>3, <1>4, <2>1 DEF TunnelInv, Unshared
<1>11. ActiveCountExact' /\ Told'
  BY <1>1, <1>3, <1>4 DEF TunnelInv, ActiveCountExact, Told
<1>12. Phases'
  BY <1>1 DEF TunnelInv, Phases
<1> QED BY <1>7, <1>8, <1>9, <1>10, <1>11, <1>12 DEF TunnelInv

\* The entry goes back to the queue, possibly with another action, and the
\* slots keep their channels.
LEMMA KeptIsSafe ==
  ASSUME TunnelInv, Visiting, NEW f \in Entry, f.chan = Head(todo).chan,
         pending' = Append(pending, f),
         UNCHANGED <<live, forgotten, cooling, activeCount, app>>,
         slot' \in SlotType, ActiveSlots' = ActiveSlots, InSlots' = InSlots,
         DistinctSlots'
  PROVE  TunnelInv'
<1> DEFINE c == Head(todo).chan
<1>1. /\ c \in Chans
      /\ todo' \in Seq(Entry) /\ Len(todo') = Len(todo) - 1
      /\ ChansOf(todo) = {c} \cup ChansOf(todo')
      /\ DistinctQueue(todo') /\ c \notin ChansOf(todo')
      /\ c \notin InSlots /\ c \notin ChansOf(pending) /\ c \notin deferred
      /\ closeEvents = {} /\ ~degraded /\ session = "up" /\ pc = "pending"
      /\ state' = state /\ session' = session /\ deferred' = deferred
      /\ closeEvents' = closeEvents /\ degraded' = degraded
      /\ attempts' = attempts /\ age' = age /\ pc' = pc
  BY VisitStart
<1>2. pending \in Seq(Entry) /\ DistinctQueue(pending) /\ Apart
  BY DEF TunnelInv, TypeOK, Unshared
<1>3. /\ pending' \in Seq(Entry) /\ Len(pending') = Len(pending) + 1
      /\ ChansOf(pending') = ChansOf(pending) \cup {c} /\ DistinctQueue(pending')
  BY <1>1, <1>2, QueueAppend
<1> HIDE DEF c
<1>4. /\ live' = live /\ forgotten' = forgotten /\ cooling' = cooling
      /\ activeCount' = activeCount
      /\ appOpen' = appOpen /\ appUp' = appUp /\ badEvent' = badEvent
  BY DEF app
<1>5. Held' = Held
  BY <1>1, <1>3 DEF Held
<1>6. TypeOK' /\ IsFiniteSet(deferred')
  <2>1. Len(pending') + Len(todo') <= MAX_PENDING
    BY <1>1, <1>3, TunnelAssumption DEF TunnelInv, TypeOK
  <2> QED BY <1>1, <1>3, <1>4, <2>1 DEF TunnelInv, TypeOK, SlotType
<1>7. NoDangling' /\ Accounted'
  BY <1>1, <1>4, <1>5 DEF TunnelInv, NoDangling, Accounted
<1>8. Unshared'
  <2>1. Apart'
    BY <1>1, <1>2, <1>3 DEF Apart
  <2> QED BY <1>1, <1>3, <2>1 DEF Unshared
<1>9. ActiveCountExact' /\ Told'
  BY <1>1, <1>4 DEF TunnelInv, ActiveCountExact, Told
<1>10. Phases'
  BY <1>1 DEF TunnelInv, Phases
<1> QED BY <1>6, <1>7, <1>8, <1>9, <1>10 DEF TunnelInv

\* The same, with the slots untouched and the entry marked for closing.
LEMMA MarkedIsSafe ==
  ASSUME TunnelInv, Visiting,
         pending' = Append(pending, [Head(todo) EXCEPT !.action = "Close"]),
         UNCHANGED <<live, forgotten, slotVars, app>>
  PROVE  TunnelInv'
<1> DEFINE f == [Head(todo) EXCEPT !.action = "Close"]
<1>1. f \in Entry /\ f.chan = Head(todo).chan
  BY VisitStart DEF Entry
<1>2. UNCHANGED <<slot, cooling, activeCount>>
  BY DEF slotVars
<1>3. ActiveSlots' = ActiveSlots /\ InSlots' = InSlots /\ DistinctSlots'
  BY <1>2, SlotsSame DEF TunnelInv, Unshared
<1>4. slot' \in SlotType
  BY <1>2 DEF TunnelInv, TypeOK, SlotType
<1> HIDE DEF f
<1>5. pending' = Append(pending, f)
  BY DEF f
<1> QED BY <1>1, <1>2, <1>3, <1>4, <1>5, KeptIsSafe

LEMMA PendingCloseSafe == TunnelInv /\ PendingClose => TunnelInv'
<1> SUFFICES ASSUME TunnelInv, PendingClose PROVE TunnelInv'
  OBVIOUS
<1>1. Visiting /\ UNCHANGED <<slotVars, app>>
  BY DEF PendingClose
<1>2. CASE ClosedNow(Head(todo).chan) /\ UNCHANGED pending
  BY <1>1, <1>2, ClosedIsSafe
<1>3. CASE /\ pending' = Append(pending, [Head(todo) EXCEPT !.action = "Close"])
           /\ UNCHANGED <<live, forgotten>>
  BY <1>1, <1>3, MarkedIsSafe
<1> QED BY <1>2, <1>3 DEF PendingClose

LEMMA PendingRefusedSafe == TunnelInv /\ PendingRefused => TunnelInv'
<1> SUFFICES ASSUME TunnelInv, PendingRefused PROVE TunnelInv'
  OBVIOUS
<1>1. Visiting /\ UNCHANGED <<slotVars, app>>
  BY DEF PendingRefused
<1>2. CASE ClosedNow(Head(todo).chan) /\ UNCHANGED pending
  BY <1>1, <1>2, ClosedIsSafe
<1>3. CASE /\ pending' = Append(pending, [Head(todo) EXCEPT !.action = "Close"])
           /\ UNCHANGED <<live, forgotten>>
  BY <1>1, <1>3, MarkedIsSafe
<1> QED BY <1>2, <1>3 DEF PendingRefused

LEMMA PendingKeptSafe == TunnelInv /\ PendingKept => TunnelInv'
<1> SUFFICES ASSUME TunnelInv, PendingKept PROVE TunnelInv'
  OBVIOUS
<1>1. /\ Visiting /\ pending' = Append(pending, Head(todo))
      /\ UNCHANGED <<live, forgotten, app>>
  BY DEF PendingKept
<1>2. /\ UNCHANGED <<cooling, activeCount>>
      /\ slot' \in SlotType /\ ActiveSlots' = ActiveSlots
      /\ InSlots' = InSlots /\ DistinctSlots'
  BY NotAllocated DEF PendingKept
<1>3. Head(todo) \in Entry
  BY <1>1, VisitStart
<1> QED BY <1>1, <1>2, <1>3, KeptIsSafe

LEMMA PendingBoundSafe == TunnelInv /\ PendingBound => TunnelInv'
<1> SUFFICES ASSUME TunnelInv, PendingBound PROVE TunnelInv'
  OBVIOUS
<1> DEFINE c == Head(todo).chan
           s == FirstOf(Allocatable)
<1>1. /\ c \in Chans
      /\ todo' \in Seq(Entry) /\ Len(todo') = Len(todo) - 1
      /\ ChansOf(todo) = {c} \cup ChansOf(todo')
      /\ DistinctQueue(todo') /\ c \notin ChansOf(todo')
      /\ c \notin InSlots /\ c \notin ChansOf(pending) /\ c \notin deferred
      /\ closeEvents = {} /\ ~degraded /\ session = "up" /\ pc = "pending"
      /\ state' = state /\ session' = session /\ deferred' = deferred
      /\ closeEvents' = closeEvents /\ degraded' = degraded
      /\ attempts' = attempts /\ age' = age /\ pc' = pc
  BY VisitStart DEF PendingBound
<1>2. s \in Slots /\ ~Active(s) /\ Bound(s, c) /\ Opened(s)
  BY FirstIsFree DEF PendingBound
<1>3. live' = live /\ forgotten' = forgotten /\ pending' = pending
  BY DEF PendingBound
<1> HIDE DEF c, s
<1>4. TypeOK /\ ActiveCountExact /\ DistinctSlots /\ Apart
  BY DEF TunnelInv, Unshared
<1>5. /\ slot' \in SlotType
      /\ ActiveSlots' = ActiveSlots \cup {s} /\ s \notin ActiveSlots
      /\ InSlots' = InSlots \cup {c} /\ DistinctSlots'
      /\ activeCount' \in Int /\ ActiveCountExact' /\ cooling' = cooling
  BY <1>1, <1>2, <1>4, SlotsBound DEF SlotType, Bound
<1>6. /\ Told' /\ appOpen' \subseteq Slots /\ appUp' \in BOOLEAN
      /\ badEvent' \in BOOLEAN
  BY <1>1, <1>2, <1>5, OpenedIsTold
<1>7. Held' = Held
  BY <1>1, <1>3, <1>5 DEF Held
<1>8. TypeOK' /\ IsFiniteSet(deferred')
  <2>1. Len(pending') + Len(todo') <= MAX_PENDING
    BY <1>1, <1>3, TunnelAssumption DEF TunnelInv, TypeOK
  <2> QED BY <1>1, <1>3, <1>5, <1>6, <2>1 DEF TunnelInv, TypeOK, SlotType
<1>9. NoDangling' /\ Accounted'
  BY <1>1, <1>3, <1>7 DEF TunnelInv, NoDangling, Accounted
<1>10. Unshared'
  <2>1. Apart'
    BY <1>1, <1>3, <1>4, <1>5 DEF Apart
  <2> QED BY <1>1, <1>3, <1>5, <2>1 DEF TunnelInv, Unshared
<1>11. Phases'
  BY <1>1 DEF TunnelInv, Phases
<1> QED BY <1>5, <1>6, <1>8, <1>9, <1>10, <1>11 DEF TunnelInv

LEMMA PendingExpiresSafe == TunnelInv /\ PendingExpires => TunnelInv'
<1> SUFFICES ASSUME TunnelInv, PendingExpires PROVE TunnelInv'
  OBVIOUS
<1>1. PICK i \in DOMAIN pending : pending' = [pending EXCEPT ![i].old = TRUE]
  BY DEF PendingExpires
<1>2. pending \in Seq(Entry) /\ DistinctQueue(pending)
  BY DEF TunnelInv, TypeOK, Unshared
<1>3. /\ pending' \in Seq(Entry) /\ Len(pending') = Len(pending)
      /\ ChansOf(pending') = ChansOf(pending) /\ DistinctQueue(pending')
  BY <1>1, <1>2, QueueAged
<1>4. /\ state' = state /\ session' = session /\ live' = live /\ slot' = slot
      /\ cooling' = cooling /\ activeCount' = activeCount /\ todo' = todo
      /\ deferred' = deferred /\ closeEvents' = closeEvents /\ degraded' = degraded
      /\ attempts' = attempts /\ age' = age /\ pc' = pc /\ forgotten' = forgotten
      /\ appOpen' = appOpen /\ appUp' = appUp /\ badEvent' = badEvent
  BY DEF PendingExpires, slotVars, retry, app
<1>5. ActiveSlots' = ActiveSlots /\ InSlots' = InSlots /\ (DistinctSlots => DistinctSlots')
  BY <1>4, SlotsSame
<1>6. Held' = Held
  BY <1>3, <1>4, <1>5 DEF Held
<1>7. TypeOK' /\ IsFiniteSet(deferred')
  BY <1>3, <1>4 DEF TunnelInv, TypeOK
<1>8. NoDangling' /\ Accounted'
  BY <1>4, <1>6 DEF TunnelInv, NoDangling, Accounted
<1>9. Unshared'
  BY <1>3, <1>4, <1>5 DEF TunnelInv, Unshared, Apart
<1>10. ActiveCountExact' /\ Told'
  BY <1>4, <1>5 DEF TunnelInv, ActiveCountExact, Told
<1>11. Phases'
  BY <1>4 DEF TunnelInv, Phases
<1> QED BY <1>7, <1>8, <1>9, <1>10, <1>11 DEF TunnelInv

-----------------------------------------------------------------------------
LEMMA LoopStepSafe == TunnelInv /\ LoopStep => TunnelInv'
  BY handleReconnectionSafe, LoseSessionSafe, LoopStartSafe, drainDeferredSafe,
     NoneAcceptedSafe, AcceptFatalSafe, AcceptRejectedSafe, AcceptBoundSafe,
     AcceptQueuedSafe, pumpAllSafe, EmitAndGoOnSafe, EmitAndFailSafe,
     PendingCloseSafe, PendingBoundSafe, PendingRefusedSafe, PendingKeptSafe,
     PendingDoneSafe
  DEF LoopStep

LEMMA NextSafe == TunnelInv /\ [Next]_vars => TunnelInv'
  BY LoopStepSafe, TickSafe, CooldownOverSafe, PendingExpiresSafe,
     connectSSHSafe, disconnectSafe, requestReconnectSafe, StutterSafe
  DEF Next

\* The invariant holds in every behaviour of the tunnel.
THEOREM TunnelSafety == Spec => []TunnelInv
<1>1. Init => TunnelInv
  BY InitSafe
<1>2. TunnelInv /\ [Next]_vars => TunnelInv'
  BY NextSafe
<1> QED BY <1>1, <1>2, PTL DEF Spec

-----------------------------------------------------------------------------
(* Counting holders. *)

LEMMA DistinctSlotsCount ==
  ASSUME DistinctSlots
  PROVE  IsFiniteSet(InSlots) /\ Cardinality(InSlots) = Cardinality(ActiveSlots)
<1> DEFINE f == [s \in ActiveSlots |-> slot[s].chan]
<1>1. f \in Surjection(ActiveSlots, InSlots)
  BY DEF Surjection, InSlots
<1>2. f \in Injection(ActiveSlots, InSlots)
  BY DEF Injection, IsInjective, InSlots, DistinctSlots
<1>3. IsFiniteSet(ActiveSlots)
  BY SlotsFinite DEF ActiveSlots
<1> HIDE DEF f
<1> QED BY <1>1, <1>2, <1>3, FS_Surjection

LEMMA DistinctQueueCount ==
  ASSUME NEW q \in Seq(Entry), DistinctQueue(q)
  PROVE  IsFiniteSet(ChansOf(q)) /\ Cardinality(ChansOf(q)) = Len(q)
<1> DEFINE f == [i \in DOMAIN q |-> q[i].chan]
<1>1. f \in Surjection(DOMAIN q, ChansOf(q))
  BY DEF Surjection, ChansOf
<1>2. f \in Injection(DOMAIN q, ChansOf(q))
  BY DEF Injection, IsInjective, ChansOf, DistinctQueue
<1>3. IsFiniteSet(DOMAIN q) /\ Cardinality(DOMAIN q) = Len(q)
  <2>1. DOMAIN q = 1..Len(q) /\ Len(q) \in Nat
    OBVIOUS
  <2>2. IsFiniteSet(1..Len(q)) /\ Cardinality(1..Len(q)) = Len(q)
    BY <2>1, FS_Interval
  <2> QED BY <2>1, <2>2
<1> HIDE DEF f
<1> QED BY <1>1, <1>2, <1>3, FS_Surjection

LEMMA DisjointCount ==
  ASSUME NEW S, NEW T, IsFiniteSet(S), IsFiniteSet(T), S \cap T = {}
  PROVE  /\ IsFiniteSet(S \cup T)
         /\ Cardinality(S \cup T) = Cardinality(S) + Cardinality(T)
<1>1. /\ IsFiniteSet(S \cup T)
      /\ Cardinality(S \cup T) = Cardinality(S) + Cardinality(T) - Cardinality(S \cap T)
  BY FS_Union
<1>2. Cardinality(S \cap T) = 0
  BY FS_EmptySet
<1>3. Cardinality(S) \in Nat /\ Cardinality(T) \in Nat
  BY FS_CardinalityType
<1> QED BY <1>1, <1>2, <1>3

\* Unshared is OneHolder without the counting.
LEMMA UnsharedCounts ==
  ASSUME TunnelInv
  PROVE  OneHolder
<1>1. /\ Unshared /\ IsFiniteSet(deferred)
      /\ pending \in Seq(Entry) /\ todo \in Seq(Entry)
  BY DEF TunnelInv, TypeOK
<1>2. IsFiniteSet(InSlots) /\ Cardinality(InSlots) = Cardinality(ActiveSlots)
  BY <1>1, DistinctSlotsCount DEF Unshared
<1>3. /\ IsFiniteSet(ChansOf(pending)) /\ Cardinality(ChansOf(pending)) = Len(pending)
      /\ IsFiniteSet(ChansOf(todo)) /\ Cardinality(ChansOf(todo)) = Len(todo)
  BY <1>1, DistinctQueueCount DEF Unshared
<1> DEFINE A == InSlots \cup ChansOf(pending)
           B == A \cup ChansOf(todo)
<1>4. /\ InSlots \cap ChansOf(pending) = {} /\ A \cap ChansOf(todo) = {}
      /\ B \cap deferred = {}
  BY <1>1 DEF Unshared, Apart
<1>5. IsFiniteSet(A) /\ Cardinality(A) = Cardinality(ActiveSlots) + Len(pending)
  <2>1. /\ IsFiniteSet(A)
        /\ Cardinality(A) = Cardinality(InSlots) + Cardinality(ChansOf(pending))
    BY <1>2, <1>3, <1>4, DisjointCount
  <2> QED BY <1>2, <1>3, <2>1
<1> HIDE DEF A
<1>6. /\ IsFiniteSet(B)
      /\ Cardinality(B) = Cardinality(ActiveSlots) + Len(pending) + Len(todo)
  <2>1. IsFiniteSet(B) /\ Cardinality(B) = Cardinality(A) + Cardinality(ChansOf(todo))
    BY <1>3, <1>4, <1>5, DisjointCount
  <2> QED BY <1>3, <1>5, <2>1
<1> HIDE DEF B
<1>7. Cardinality(B \cup deferred) =
        Cardinality(ActiveSlots) + Len(pending) + Len(todo) + Cardinality(deferred)
  BY <1>1, <1>4, <1>6, DisjointCount
<1>8. Held = B \cup deferred
  BY DEF Held, A, B
<1> QED BY <1>7, <1>8 DEF OneHolder

-----------------------------------------------------------------------------
(* The properties, for every value of the constants. *)

\* Every variable of the tunnel keeps its type, and neither the array of
\* pending channels nor that of deferred closes is written past its end.
THEOREM TunnelTypeCorrect == Spec => []TypeOK
<1>1. TunnelInv => TypeOK
  BY DEF TunnelInv
<1> QED BY <1>1, TunnelSafety, PTL

\* ssh_tunnel.cpp never keeps a pointer to a libssh2 channel that was freed,
\* in a slot or in a queue, across every error path and reconnection.
THEOREM TunnelNoDangling == Spec => []NoDangling
<1>1. TunnelInv => NoDangling
  BY DEF TunnelInv
<1> QED BY <1>1, TunnelSafety, PTL

\* No channel is held twice, so that none is freed twice.
THEOREM TunnelOneHolder == Spec => []OneHolder
<1>1. TunnelInv => OneHolder
  BY UnsharedCounts
<1> QED BY <1>1, TunnelSafety, PTL

\* getActiveChannels() counts the slots in use, whatever mix of finalized and
\* abandoned slots came before.
THEOREM TunnelActiveCount == Spec => []ActiveCountExact
<1>1. TunnelInv => ActiveCountExact
  BY DEF TunnelInv
<1> QED BY <1>1, TunnelSafety, PTL

\* The application gets opened and closed events in alternation, for every
\* slot and for the session, and between two loops they agree with the state.
THEOREM TunnelEventsMatch == Spec => []EventsMatch
<1>1. TunnelInv => EventsMatch
  BY DEF TunnelInv, EventsMatch, Told, Phases
<1> QED BY <1>1, TunnelSafety, PTL

\* A live channel without a holder is one that the code gave up on in a way
\* ssh_tunnel.cpp documents; an abandoned slot is never such a way.
THEOREM TunnelNothingElseLost == Spec => []NothingElseLost
<1>1. TunnelInv => NothingElseLost
  BY DEF TunnelInv, NothingElseLost, Accounted, Phases
<1> QED BY <1>1, TunnelSafety, PTL

-----------------------------------------------------------------------------
(* Every slot of the tunnel has the life cycle of ChannelSlot. *)

LifeOf(s) == IF slot[s].chan = NoChan THEN "Free"
             ELSE IF slot[s].draining THEN "Draining" ELSE "Open"

SlotOf(s) == INSTANCE ChannelSlot
               WITH life <- LifeOf(s), cooling <- (s \in cooling),
                    owed <- (s \in closeEvents), degraded <- degraded

SlotStep(s) == SlotOf(s)!Next \/ UNCHANGED SlotOf(s)!slotVars

\* A step that keeps the slots and owes nothing new.
LEMMA SlotsKeptStep ==
  ASSUME NEW s \in Slots, UNCHANGED <<slot, cooling, closeEvents, degraded>>
  PROVE  SlotStep(s)
<1>1. LifeOf(s)' = LifeOf(s)
  BY DEF LifeOf
<1> QED BY <1>1 DEF SlotStep, SlotOf!slotVars

\* The steps that leave the slots alone.
LEMMA KeepsSlots ==
  ASSUME NEW s \in Slots,
         \/ requestReconnect \/ connectSSH \/ LoopStart \/ drainDeferredCloseQueue
         \/ NoneAccepted \/ (\E c \in Chans : AcceptRejected(c))
         \/ PendingClose \/ PendingRefused \/ PendingDone
         \/ Tick \/ PendingExpires
  PROVE  SlotStep(s)
<1>1. UNCHANGED <<slot, cooling, closeEvents, degraded>>
  BY DEF requestReconnect, connectSSH, LoopStart, drainDeferredCloseQueue, NoneAccepted,
         AcceptRejected, Accepting, PendingClose, PendingRefused, PendingDone, Visiting,
         Tick, PendingExpires, slotVars
<1> QED BY <1>1, SlotsKeptStep

\* What losing the session does to one slot.
LEMMA EmptiedSlot ==
  ASSUME NEW s \in Slots, NEW final \in SUBSET ActiveSlots, Emptied(final)
  PROVE  SlotOf(s)!Emptied
<1>1. LifeOf(s)' = "Free"
  BY DEF Emptied, LifeOf, FreeSlot
<1>2. s \in final => LifeOf(s) # "Free"
  BY DEF ActiveSlots, Active, LifeOf
<1>3. (s \in cooling)' = (s \in cooling \/ s \in final)
  BY DEF Emptied
<1>4. CASE s \in final
  <2>1. (s \in cooling)' = (s \in cooling \/ LifeOf(s) # "Free")
    BY <1>2, <1>3, <1>4
  <2> QED BY <1>1, <2>1 DEF SlotOf!Emptied
<1>5. CASE s \notin final
  <2>1. (s \in cooling)' = (s \in cooling)
    BY <1>3, <1>5
  <2> QED BY <1>1, <2>1 DEF SlotOf!Emptied
<1> QED BY <1>4, <1>5

\* The session is lost or given up outside the report of the pump's events.
LEMMA EndsSession ==
  ASSUME TunnelInv, NEW s \in Slots,
         LoseSession \/ AcceptFatal \/ disconnect \/ handleReconnection
  PROVE  SlotStep(s)
<1>1. PICK final \in SUBSET ActiveSlots : Emptied(final)
  BY DEF LoseSession, AcceptFatal, disconnect, handleReconnection, enterErrorState,
         EnterErrorState, TearDown
<1>2. pc # "events" /\ closeEvents' = closeEvents /\ degraded' = degraded
  BY DEF LoseSession, AcceptFatal, disconnect, handleReconnection
<1>3. s \notin closeEvents /\ ~degraded
  BY <1>2 DEF TunnelInv, Phases
<1>4. SlotOf(s)!SessionEnds
  BY <1>1, <1>2, <1>3, EmptiedSlot DEF SlotOf!SessionEnds
<1> QED BY <1>4 DEF SlotStep, SlotOf!Next

\* The events of the pump go out.
LEMMA Emits ==
  ASSUME TunnelInv, NEW s \in Slots, EmitAndGoOn \/ EmitAndFail
  PROVE  SlotStep(s)
<1>1. CASE EmitAndGoOn
  <2>1. /\ ~degraded /\ degraded' = degraded /\ s \notin closeEvents'
        /\ slot' = slot /\ cooling' = cooling
    BY <1>1 DEF EmitAndGoOn, slotVars
  <2>2. LifeOf(s)' = LifeOf(s)
    BY <2>1 DEF LifeOf
  <2>3. SlotOf(s)!Report
    BY <2>1, <2>2 DEF SlotOf!Report
  <2> QED BY <2>3 DEF SlotStep, SlotOf!Next
<1>2. CASE EmitAndFail
  <2>1. PICK final \in SUBSET ActiveSlots : Emptied(final)
    BY <1>2 DEF EmitAndFail, EnterErrorState, TearDown
  <2>2. degraded /\ degraded' = FALSE /\ s \notin closeEvents'
    BY <1>2 DEF EmitAndFail
  <2>3. SlotOf(s)!ReportAndFail
    BY <2>1, <2>2, EmptiedSlot DEF SlotOf!ReportAndFail
  <2> QED BY <2>3 DEF SlotStep, SlotOf!Next
<1> QED BY <1>1, <1>2

\* A slot is bound only when it is out of its cooldown and its last close was
\* reported.
LEMMA BindsSlot ==
  ASSUME TunnelInv, NEW s \in Slots,
         (\E c \in Chans : AcceptBound(c)) \/ PendingBound
  PROVE  SlotStep(s)
<1> DEFINE t == FirstOf(Allocatable)
<1>1. PICK c \in Chans : Bound(t, c)
  BY VisitStart DEF AcceptBound, PendingBound
<1>2. /\ Allocatable # {} /\ pc # "events"
      /\ closeEvents' = closeEvents /\ degraded' = degraded
  BY DEF AcceptBound, PendingBound, Accepting, Visiting
<1>3. closeEvents = {} /\ ~degraded
  BY <1>2 DEF TunnelInv, Phases
<1>4. t \in Allocatable
  <2>1. Allocatable \in SUBSET Slots
    BY DEF Allocatable
  <2> QED BY <1>2, <2>1, FirstExists
<1>5. t \in Slots /\ slot[t].chan = NoChan /\ t \notin cooling
  BY <1>4 DEF Allocatable, Active
<1> HIDE DEF t
<1>6. /\ c # NoChan /\ cooling' = cooling
      /\ slot'[t] = [chan |-> c, draining |-> FALSE]
      /\ \A u \in Slots \ {t} : slot'[u] = slot[u]
  BY <1>1, <1>5, TunnelAssumption DEF Bound, TunnelInv, TypeOK
<1>7. CASE s = t
  <2>1. LifeOf(s) = "Free" /\ LifeOf(s)' = "Open"
    BY <1>5, <1>6, <1>7 DEF LifeOf
  <2>2. SlotOf(s)!Bind
    BY <1>2, <1>3, <1>5, <1>6, <1>7, <2>1 DEF SlotOf!Bind
  <2> QED BY <2>2 DEF SlotStep, SlotOf!Next
<1>8. CASE s # t
  <2>1. LifeOf(s)' = LifeOf(s)
    BY <1>6, <1>8 DEF LifeOf
  <2> QED BY <1>2, <1>6, <2>1 DEF SlotStep, SlotOf!slotVars
<1> QED BY <1>7, <1>8

\* A stale slot begins to close.
LEMMA RecyclesSlot ==
  ASSUME TunnelInv, NEW s \in Slots,
         (\E c \in Chans : AcceptQueued(c)) \/ PendingKept
  PROVE  SlotStep(s)
<1>1. closeEvents' = closeEvents /\ degraded' = degraded
  BY DEF AcceptQueued, Accepting, PendingKept, Visiting
<1>2. UNCHANGED slotVars \/ \E S \in StaleChoices : Recycled(S)
  BY DEF AcceptQueued, PendingKept
<1>3. CASE UNCHANGED slotVars
  BY <1>1, <1>3, SlotsKeptStep DEF slotVars
<1>4. ASSUME NEW S \in StaleChoices, Recycled(S) PROVE SlotStep(s)
  <2>1. cooling' = cooling /\ (s \notin S => slot'[s] = slot[s])
    BY <1>4 DEF Recycled
  <2>2. s \in S => slot[s].chan # NoChan
    BY DEF StaleChoices, ActiveSlots, Active
  <2>3. s \in S => slot'[s].chan = slot[s].chan /\ slot'[s].draining = TRUE
    BY <1>4 DEF Recycled, TunnelInv, TypeOK
  <2>4. LifeOf(s)' = LifeOf(s) \/ (LifeOf(s) = "Open" /\ LifeOf(s)' = "Draining")
    BY <2>1, <2>2, <2>3 DEF LifeOf
  <2>5. CASE LifeOf(s)' = LifeOf(s)
    BY <1>1, <2>1, <2>5 DEF SlotStep, SlotOf!slotVars
  <2>6. CASE LifeOf(s) = "Open" /\ LifeOf(s)' = "Draining"
    <3>1. SlotOf(s)!BeginClose
      BY <1>1, <2>1, <2>6 DEF SlotOf!BeginClose, SlotOf!DegradedOrNot
    <3> QED BY <3>1 DEF SlotStep, SlotOf!Next
  <2> QED BY <2>4, <2>5, <2>6
<1> QED BY <1>2, <1>3, <1>4

\* A round of the pump does to each slot what ChannelPump may do.
LEMMA PumpsSlot ==
  ASSUME TunnelInv, NEW s \in Slots, pumpAll
  PROVE  SlotStep(s)
<1>1. PICK final \in SUBSET ActiveSlots, abandon \in SUBSET ActiveSlots,
           drain \in SUBSET ActiveSlots :
       /\ \A u \in abandon : u \notin final /\ slot[u].draining
       /\ slot' = [u \in Slots |->
                     IF u \in final \cup abandon THEN FreeSlot
                     ELSE IF u \in drain THEN [slot[u] EXCEPT !.draining = TRUE]
                     ELSE slot[u]]
       /\ cooling' = cooling \cup final
       /\ closeEvents' = closeEvents \cup final \cup abandon
       /\ degraded' = (degraded \/ abandon # {})
  BY DEF pumpAll
<1>2. s \notin closeEvents /\ degraded = FALSE /\ degraded' \in BOOLEAN
  <2>1. pc = "pump"
    BY DEF pumpAll
  <2> QED BY <1>1, <2>1 DEF TunnelInv, Phases, TypeOK
<1>3. SlotOf(s)!DegradedOrNot
  BY <1>2 DEF SlotOf!DegradedOrNot
<1>4. CASE s \in final
  <2>1. LifeOf(s) \in {"Open", "Draining"} /\ LifeOf(s)' = "Free"
    BY <1>1, <1>4 DEF LifeOf, ActiveSlots, Active, FreeSlot
  <2>2. s \in cooling' /\ s \in closeEvents'
    BY <1>1, <1>4
  <2>3. SlotOf(s)!Finalize
    BY <1>2, <1>3, <2>1, <2>2 DEF SlotOf!Finalize
  <2> QED BY <2>3 DEF SlotStep, SlotOf!Next
<1>5. CASE s \in abandon
  <2>1. s \notin final /\ slot[s].chan # NoChan /\ slot[s].draining
    BY <1>1, <1>5 DEF ActiveSlots, Active
  <2>2. LifeOf(s) = "Draining" /\ LifeOf(s)' = "Free"
    BY <1>1, <1>5, <2>1 DEF LifeOf, FreeSlot
  <2>3. s \in closeEvents' /\ (s \in cooling)' = (s \in cooling)
    BY <1>1, <1>5, <2>1
  <2>4. degraded' = TRUE
    <3>1. degraded' = (degraded \/ abandon # {})
      BY <1>1
    <3>2. abandon # {}
      BY <1>5
    <3> QED BY <3>1, <3>2, Zenon
  <2>5. SlotOf(s)!Abandon
    BY <1>2, <2>2, <2>3, <2>4 DEF SlotOf!Abandon
  <2> QED BY <2>5 DEF SlotStep, SlotOf!Next
<1>6. CASE s \notin final \cup abandon
  <2>1. (s \in cooling)' = (s \in cooling) /\ (s \in closeEvents)' = (s \in closeEvents)
    BY <1>1, <1>6
  <2>2. s \in drain => slot[s].chan # NoChan
    BY DEF ActiveSlots, Active
  <2>3. /\ s \in drain => slot'[s].chan = slot[s].chan /\ slot'[s].draining = TRUE
        /\ s \notin drain => slot'[s] = slot[s]
    BY <1>1, <1>6 DEF TunnelInv, TypeOK
  <2>4. LifeOf(s)' = LifeOf(s) \/ (LifeOf(s) = "Open" /\ LifeOf(s)' = "Draining")
    BY <2>2, <2>3 DEF LifeOf
  <2>5. CASE LifeOf(s)' = LifeOf(s)
    <3>1. degraded' = TRUE \/ degraded' = degraded
      BY <1>2
    <3>2. CASE degraded' = TRUE
      <4>1. SlotOf(s)!Degrade
        BY <2>1, <2>5, <3>2 DEF SlotOf!Degrade
      <4> QED BY <4>1 DEF SlotStep, SlotOf!Next
    <3>3. CASE degraded' = degraded
      BY <2>1, <2>5, <3>3 DEF SlotStep, SlotOf!slotVars
    <3> QED BY <3>1, <3>2, <3>3
  <2>6. CASE LifeOf(s) = "Open" /\ LifeOf(s)' = "Draining"
    <3>1. SlotOf(s)!BeginClose
      BY <1>3, <2>1, <2>6 DEF SlotOf!BeginClose
    <3> QED BY <3>1 DEF SlotStep, SlotOf!Next
  <2> QED BY <2>4, <2>5, <2>6
<1> QED BY <1>4, <1>5, <1>6

LEMMA CoolsSlot ==
  ASSUME NEW s \in Slots, CooldownOver
  PROVE  SlotStep(s)
<1>1. PICK t \in cooling : cooling' = cooling \ {t}
  BY DEF CooldownOver
<1>2. slot' = slot /\ closeEvents' = closeEvents /\ degraded' = degraded
  BY DEF CooldownOver
<1>3. LifeOf(s)' = LifeOf(s)
  BY <1>2 DEF LifeOf
<1>4. CASE s = t
  <2>1. s \in cooling /\ s \notin cooling'
    BY <1>1, <1>4
  <2>2. SlotOf(s)!CooledDown
    BY <1>2, <1>3, <2>1 DEF SlotOf!CooledDown
  <2> QED BY <2>2 DEF SlotStep, SlotOf!Next
<1>5. CASE s # t
  <2>1. (s \in cooling)' = (s \in cooling)
    BY <1>1, <1>5
  <2> QED BY <1>2, <1>3, <2>1 DEF SlotStep, SlotOf!slotVars
<1> QED BY <1>4, <1>5

\* ssh_tunnel.cpp keeps the same life cycle for each of its slots, whatever the
\* others do: it never binds a slot that is in its cooldown, whose close event
\* is still waiting, or while an abandoned slot waits for a new session.
THEOREM TunnelKeepsSlot ==
  ASSUME NEW s \in Slots
  PROVE  Spec => SlotOf(s)!Spec
<1>1. Init => SlotOf(s)!Init
  BY DEF Init, SlotOf!Init, LifeOf, FreeSlot
<1>2. TunnelInv /\ [Next]_vars => [SlotOf(s)!Next]_(SlotOf(s)!slotVars)
  <2> SUFFICES ASSUME TunnelInv, [Next]_vars PROVE SlotStep(s)
    BY DEF SlotStep
  <2>1. CASE UNCHANGED vars
    BY <2>1, SlotsKeptStep DEF vars, slotVars
  <2>2. CASE LoopStep
    BY <2>2, KeepsSlots, EndsSession, Emits, BindsSlot, RecyclesSlot, PumpsSlot
    DEF LoopStep
  <2>3. CASE Next /\ ~LoopStep
    BY <2>3, KeepsSlots, EndsSession, CoolsSlot DEF Next
  <2> QED BY <2>1, <2>2, <2>3
<1> QED BY <1>1, <1>2, TunnelSafety, PTL DEF Spec, SlotOf!Spec
=============================================================================
