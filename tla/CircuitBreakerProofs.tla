------------------------ MODULE CircuitBreakerProofs ------------------------
(***************************************************************************)
(* The circuit breaker for every table size, every set of ports, every     *)
(* clock range and every back-off policy.  Neither the window of a         *)
(* back-off nor that it is never shortened is inductive: both depend on    *)
(* what the entry of a port says about the port's own history.  Deadlines  *)
(* states that relation, across the wrap of millis().                      *)
(***************************************************************************)
EXTENDS CircuitBreaker, FiniteSetTheorems, TLAPS

\* Every non-empty set of numbers has a least element.
LEMMA LeastExists ==
  ASSUME NEW S \in SUBSET Nat, S # {}
  PROVE  \E s \in S : \A t \in S : s <= t
<1> DEFINE T == {0..s : s \in S}
<1>1. T \subseteq FiniteSubsetsOf(Nat) /\ T # {}
  <2>1. ASSUME NEW s \in S PROVE IsFiniteSet(0..s) /\ (0..s) \subseteq Nat
    BY FS_Interval
  <2> QED BY <2>1 DEF FiniteSubsetsOf
<1>2. PICK x \in T : \A y \in T : ~ (<<y, x>> \in StrictSubsetOrdering(Nat))
  <2> HIDE DEF T
  <2> QED BY <1>1, FS_StrictSubsetOrderingWellFounded, WFMin
<1>3. PICK s \in S : x = 0..s
  OBVIOUS
<1>4. ASSUME NEW t \in S, t < s PROVE FALSE
  <2>1. 0..t \in T
    OBVIOUS
  <2>2. (0..t) \subseteq 0..s /\ 0..t # 0..s
        /\ (0..t) \subseteq Nat /\ (0..s) \subseteq Nat
    BY <1>4
  <2>3. <<0..t, x>> \in StrictSubsetOrdering(Nat)
    BY <1>3, <2>2 DEF StrictSubsetOrdering
  <2> QED BY <1>2, <2>1, <2>3
<1> QED BY <1>4

\* Powers of two are positive and grow: 2^n counts the subsets of 1..n.
LEMMA PowerFacts ==
  ASSUME NEW m \in Nat, NEW n \in Nat, m <= n
  PROVE  2^m \in Nat /\ 2^m > 0 /\ 2^m <= 2^n
<1>1. ASSUME NEW k \in Nat
      PROVE  /\ IsFiniteSet(SUBSET (1..k)) /\ Cardinality(SUBSET (1..k)) = 2^k
             /\ Cardinality(SUBSET (1..k)) \in Nat
  <2>1. IsFiniteSet(1..k) /\ Cardinality(1..k) = k
    BY FS_Interval
  <2> QED BY <2>1, FS_SUBSET, FS_CardinalityType
<1>2. SUBSET (1..m) \subseteq SUBSET (1..n)
  OBVIOUS
<1>3. Cardinality(SUBSET (1..m)) <= Cardinality(SUBSET (1..n))
  BY <1>1, <1>2, FS_Subset
<1>4. Cardinality(SUBSET (1..m)) # 0
  <2>1. {} \in SUBSET (1..m)
    OBVIOUS
  <2> QED BY <1>1, <2>1, FS_EmptySet
<1>5. 2^m = Cardinality(SUBSET (1..m)) /\ 2^n = Cardinality(SUBSET (1..n))
  BY <1>1
<1>6. Cardinality(SUBSET (1..m)) \in Nat
  BY <1>1
<1> QED BY <1>3, <1>4, <1>5, <1>6

\* Quotient and remainder.
LEMMA ModFacts ==
  ASSUME NEW a \in Int, NEW c \in Nat \ {0}
  PROVE  /\ a % c \in 0..(c - 1) /\ a \div c \in Int
         /\ a = c * (a \div c) + (a % c)
OBVIOUS

\* The difference of two numbers less than c apart, computed from their
\* remainders.
LEMMA ModDiff ==
  ASSUME NEW a \in Int, NEW b \in Int, NEW c \in Nat \ {0},
         NEW r \in 0..(c - 1), a - b = r \/ a - b = r - c
  PROVE  ((a % c) - (b % c)) % c = r
<1> DEFINE x == a \div c  y == b \div c  u == a % c  v == b % c
           d == u - v  z == d \div c  w == d % c
<1>1. x \in Int /\ y \in Int /\ u \in Int /\ v \in Int
      /\ a = c * x + u /\ b = c * y + v
  BY ModFacts
<1>2. d = u - v /\ d \in Int
  BY <1>1
<1> HIDE DEF x, y, u, v, d
<1>3. z \in Int /\ w \in 0..(c - 1) /\ d = c * z + w
  BY <1>2, ModFacts
<1> HIDE DEF z, w
<1>4. \E k \in Int : a - b = c * k + r
  <2>1. a - b = c * 0 + r \/ a - b = c * (-1) + r
    OBVIOUS
  <2> QED BY <2>1
<1>5. PICK k \in Int : a - b = c * k + r
  BY <1>4
<1> DEFINE n == ((x - y) + z) - k
<1>6. r - w = c * n
  BY <1>1, <1>2, <1>3, <1>5
<1>7. n \in Int /\ r - w < c /\ r - w > -c
  BY <1>1, <1>3
<1> HIDE DEF n
<1>8. (n >= 1 => c * n >= c) /\ (n <= -1 => c * n <= -c)
  BY <1>7
<1>9. n = 0
  BY <1>6, <1>7, <1>8
<1> QED BY <1>6, <1>3, <1>9 DEF d, u, v, w

\* A remainder may be taken before an addition.
LEMMA ModSum ==
  ASSUME NEW a \in Int, NEW b \in Int, NEW c \in Nat \ {0}
  PROVE  ((a % c) + b) % c = (a + b) % c
<1> DEFINE x == a \div c  u == a % c  d == u + b  z == d \div c  w == d % c
           s == a + b     y == s \div c  v == s % c
<1>1. x \in Int /\ u \in Int /\ a = c * x + u
  BY ModFacts
<1>2. d = u + b /\ d \in Int /\ s = a + b /\ s \in Int
  BY <1>1
<1> HIDE DEF x, u, d, s
<1>3. z \in Int /\ w \in 0..(c - 1) /\ d = c * z + w
  BY <1>2, ModFacts
<1>4. y \in Int /\ v \in 0..(c - 1) /\ s = c * y + v
  BY <1>2, ModFacts
<1> HIDE DEF z, w, y, v
<1> DEFINE n == (x + z) - y
<1>5. v - w = c * n
  BY <1>1, <1>2, <1>3, <1>4
<1>6. n \in Int /\ v - w < c /\ v - w > -c
  BY <1>1, <1>3, <1>4
<1> HIDE DEF n
<1>7. (n >= 1 => c * n >= c) /\ (n <= -1 => c * n <= -c)
  BY <1>6
<1>8. n = 0
  BY <1>5, <1>6, <1>7
<1> QED BY <1>3, <1>4, <1>5, <1>8 DEF d, s, u, v, w

\* The entry find() returns for a port that has one.
Entry(p) == health[First(Holding(p))]

\* An entry that no port holds is as the constructor left it.
UnusedClear == \A i \in Entries : health[i].port = 0 => health[i] = Unused

\* A port without an entry has never been backed off.
Untracked == \A p \in Ports : Holding(p) = {} => expiry[p] = 0

\* What entry h of a port says at time t about the end e of the port's
\* back-off and its streak s of failures: the deadline is the reading of the
\* clock at e, a back-off begins with the failure that reaches the threshold,
\* and it lasts no longer than the delay of the failures counted so far.
Speaks(h, e, s, t) ==
  /\ h.until = e % ClockRange
  /\ e # 0 <=> h.fails >= FAIL_THRESHOLD
  /\ e # 0 => e <= t + Delay(h.fails)
  /\ h.fails >= FAIL_THRESHOLD => s = FAIL_THRESHOLD
  /\ h.fails < FAIL_THRESHOLD => h.fails <= s

Deadlines ==
  \A p \in Ports : Holding(p) # {} => Speaks(Entry(p), expiry[p], streak[p], up)

BreakerInv == TypeOK /\ UnusedClear /\ Untracked /\ Deadlines

EntryType == [port : Ports \cup {0}, fails : 0..FailCap, until : 0..(ClockRange - 1)]

-----------------------------------------------------------------------------
(* The table. *)

\* find() returns an entry of the set it searches.
LEMMA FirstIn ==
  ASSUME NEW S \in SUBSET Entries, S # {}
  PROVE  First(S) \in S
<1>1. S \in SUBSET Nat
  BY BreakerAssumption DEF Entries
<1>2. \E i \in S : \A j \in S : i <= j
  BY <1>1, LeastExists
<1> QED BY <1>2 DEF First

LEMMA FirstOfOne ==
  ASSUME NEW i \in Entries
  PROVE  First({i}) = i
<1>1. {i} \in SUBSET Entries /\ {i} # {}
  OBVIOUS
<1>2. First({i}) \in {i}
  BY <1>1, FirstIn
<1> QED BY <1>2

\* findOrAlloc returns an entry of the port or an unused one.
LEMMA CandidateFacts ==
  ASSUME NEW p \in Ports, CandidatesFor(p) # {}
  PROVE  /\ First(CandidatesFor(p)) \in Entries
         /\ \/ /\ Holding(p) # {}
               /\ First(CandidatesFor(p)) = First(Holding(p))
               /\ health[First(CandidatesFor(p))].port = p
            \/ /\ Holding(p) = {}
               /\ health[First(CandidatesFor(p))].port = 0
<1>1. Holding(p) \in SUBSET Entries /\ Holding(0) \in SUBSET Entries
  BY DEF Holding
<1>2. CASE Holding(p) # {}
  <2>1. First(Holding(p)) \in Holding(p)
    BY <1>1, <1>2, FirstIn
  <2> QED BY <1>2, <2>1 DEF CandidatesFor, Holding
<1>3. CASE Holding(p) = {}
  <2>1. CandidatesFor(p) = Holding(0) /\ Holding(0) # {}
    BY <1>3 DEF CandidatesFor
  <2>2. First(Holding(0)) \in Holding(0)
    BY <1>1, <2>1, FirstIn
  <2> QED BY <1>3, <2>1, <2>2 DEF Holding
<1> QED BY <1>2, <1>3

\* Storing an entry of port p at the place findOrAlloc chose leaves the entries
\* of every other port alone, and p finds this entry from then on.
LEMMA StoreFacts ==
  ASSUME TypeOK, NEW p \in Ports, CandidatesFor(p) # {},
         NEW h \in EntryType, h.port = p,
         health' = [health EXCEPT ![First(CandidatesFor(p))] = h]
  PROVE  /\ health' \in [Entries -> EntryType]
         /\ Holding(p)' # {} /\ Entry(p)' = h
         /\ \A q \in Ports \ {p} :
              /\ Holding(q)' = Holding(q)
              /\ Holding(q) # {} => Entry(q)' = Entry(q)
         /\ \A j \in Entries : health'[j].port = 0 => health'[j] = health[j]
<1> DEFINE i == First(CandidatesFor(p))
<1>1. /\ i \in Entries /\ health[i].port \in {p, 0}
      /\ Holding(p) # {} => i = First(Holding(p)) /\ health[i].port = p
      /\ Holding(p) = {} => health[i].port = 0
  BY CandidateFacts
<1> HIDE DEF i
<1>2. /\ health \in [Entries -> EntryType]
      /\ health' = [health EXCEPT ![i] = h]
  BY DEF TypeOK, EntryType, i
<1>3. /\ health' \in [Entries -> EntryType] /\ health'[i] = h
      /\ \A j \in Entries : j # i => health'[j] = health[j]
  BY <1>1, <1>2
<1>4. 0 \notin Ports
  BY BreakerAssumption
<1>5. ASSUME NEW q \in Ports \ {p}
      PROVE  /\ Holding(q)' = Holding(q)
             /\ Holding(q) # {} => Entry(q)' = Entry(q)
  <2>1. ASSUME NEW j \in Entries PROVE health'[j].port = q <=> health[j].port = q
    BY <1>1, <1>3, <1>4, <1>5
  <2>2. Holding(q)' = Holding(q)
    BY <2>1 DEF Holding
  <2>3. ASSUME Holding(q) # {} PROVE Entry(q)' = Entry(q)
    <3>1. Holding(q) \in SUBSET Entries
      BY DEF Holding
    <3>2. First(Holding(q)) \in Holding(q)
      BY <2>3, <3>1, FirstIn
    <3>3. First(Holding(q)) \in Entries /\ First(Holding(q)) # i
      BY <1>1, <1>4, <1>5, <3>2 DEF Holding
    <3>4. health'[First(Holding(q))] = health[First(Holding(q))]
      BY <1>3, <3>3
    <3> QED BY <2>2, <3>4 DEF Entry
  <2> QED BY <2>2, <2>3
<1>6. Holding(p)' # {} /\ Entry(p)' = h
  <2>1. Holding(p)' = Holding(p) \cup {i}
    <3>1. ASSUME NEW j \in Entries
          PROVE  health'[j].port = p <=> health[j].port = p \/ j = i
      BY <1>1, <1>3
    <3> QED BY <1>1, <3>1 DEF Holding
  <2>2. First(Holding(p)') = i
    <3>1. CASE Holding(p) # {}
      <4>1. i \in Holding(p)
        BY <1>1, <3>1 DEF Holding
      <4> QED BY <1>1, <2>1, <3>1, <4>1
    <3>2. CASE Holding(p) = {}
      <4>1. Holding(p)' = {i}
        BY <2>1, <3>2
      <4> QED BY <1>1, <4>1, FirstOfOne
    <3> QED BY <3>1, <3>2
  <2>3. Entry(p)' = health'[First(Holding(p)')]
    BY DEF Entry, First
  <2> QED BY <1>3, <2>1, <2>2, <2>3
<1>7. ASSUME NEW j \in Entries, health'[j].port = 0 PROVE health'[j] = health[j]
  BY <1>3, <1>4, <1>7
<1> QED BY <1>3, <1>5, <1>6, <1>7

-----------------------------------------------------------------------------
(* The delay and the clock. *)

LEMMA LeastFacts ==
  ASSUME NEW a \in Int, NEW b \in Int
  PROVE  /\ Least(a, b) \in {a, b} /\ Least(a, b) <= a /\ Least(a, b) <= b
         /\ \A c \in Int : a <= c => Least(a, b) <= Least(c, b)
  BY DEF Least

\* The delay is positive, at most the cap, and grows with the failures: the
\* shift never exceeds ExpCap and the product never exceeds the cap.
LEMMA DelayFacts ==
  ASSUME NEW f \in Nat, NEW g \in Nat, FAIL_THRESHOLD <= f, f <= g
  PROVE  /\ Delay(f) \in Nat /\ Delay(f) > 0 /\ Delay(f) <= BackoffCap
         /\ Delay(f) <= Delay(g)
<1> DEFINE m == Least(f - FAIL_THRESHOLD, ExpCap)
           n == Least(g - FAIL_THRESHOLD, ExpCap)
           x == 2^m
           y == 2^n
<1>1. m \in Nat /\ n \in Nat /\ m <= n
  BY BreakerAssumption DEF Least
<1> HIDE DEF m, n
<1>2. x \in Nat /\ x > 0 /\ x <= y /\ y \in Nat
  BY <1>1, PowerFacts
<1>3. Delay(f) = Least(BackoffBase * x, BackoffCap)
      /\ Delay(g) = Least(BackoffBase * y, BackoffCap)
  BY DEF Delay, m, n
<1> HIDE DEF x, y
<1>4. /\ BackoffBase * x \in Nat /\ BackoffBase * x > 0
      /\ BackoffBase * y \in Nat /\ BackoffBase * x <= BackoffBase * y
  BY <1>2, BreakerAssumption
<1> DEFINE u == BackoffBase * x
           v == BackoffBase * y
<1> HIDE DEF u, v
<1>5. u \in Nat /\ u > 0 /\ v \in Nat /\ u <= v
  BY <1>4 DEF u, v
<1>6. Delay(f) = Least(u, BackoffCap) /\ Delay(g) = Least(v, BackoffCap)
  BY <1>3 DEF u, v
<1> QED BY <1>5, <1>6, BreakerAssumption DEF Least

LEMMA ClockFacts ==
  /\ ClockRange \in Nat \ {0} /\ Half \in Nat /\ BackoffCap \in Nat \ {0}
  /\ BackoffCap < ClockRange - BackoffCap
  /\ 2 * Half <= ClockRange /\ ClockRange <= 2 * Half + 1
  BY BreakerAssumption DEF Half

\* The signed comparison of two clock readings gives the verdict of the true
\* times, when the deadline is at most the cap ahead and less than half the
\* range ago.
LEMMA ClockVerdict ==
  ASSUME NEW t \in Nat, NEW e \in Nat, e <= t + BackoffCap, t - e < Half
  PROVE  SignedBefore(t % ClockRange, e % ClockRange) <=> t < e
<1> DEFINE d == ((t % ClockRange) - (e % ClockRange)) % ClockRange
<1>1. CASE t < e
  <2> DEFINE r == (t - e) + ClockRange
  <2>1. r \in 0..(ClockRange - 1) /\ r >= Half
    BY <1>1, ClockFacts
  <2>2. t - e = r - ClockRange /\ ClockRange \in Nat \ {0} /\ t \in Int /\ e \in Int
    BY <2>1, ClockFacts
  <2> HIDE DEF r
  <2>3. d = r
    BY <2>1, <2>2, ModDiff
  <2> QED BY <1>1, <2>1, <2>3 DEF SignedBefore
<1>2. CASE ~(t < e)
  <2> DEFINE r == t - e
  <2>1. r \in 0..(ClockRange - 1) /\ ~(r >= Half)
    BY <1>2, ClockFacts
  <2>2. t - e = r /\ ClockRange \in Nat \ {0} /\ t \in Int /\ e \in Int
    BY <2>1, ClockFacts
  <2> HIDE DEF r
  <2>3. d = r
    BY <2>1, <2>2, ModDiff
  <2> QED BY <1>2, <2>1, <2>3 DEF SignedBefore
<1> QED BY <1>1, <1>2

\* A deadline that does not read 0 is open from the failure that set it to its
\* end.
LEMMA OpenFacts ==
  ASSUME BreakerInv, NEW p \in Ports, Holding(p) # {},
         expiry[p] = 0 \/ (expiry[p] % ClockRange # 0 /\ up - expiry[p] < Half)
  PROVE  Open(Entry(p)) <=> up < expiry[p]
<1>1. Speaks(Entry(p), expiry[p], streak[p], up) /\ up \in Nat /\ expiry[p] \in Nat
      /\ Entry(p).fails \in Nat
  <2>1. First(Holding(p)) \in Entries
    BY FirstIn DEF Holding
  <2>2. health[First(Holding(p))] \in EntryType
    BY <2>1 DEF BreakerInv, TypeOK, EntryType
  <2>3. Entry(p).fails \in 0..FailCap
    BY <2>2 DEF Entry, EntryType
  <2> QED BY <2>3, BreakerAssumption DEF BreakerInv, Deadlines, TypeOK
<1>2. CASE expiry[p] = 0
  <2>1. 0 % ClockRange = 0
    BY ClockFacts
  <2> QED BY <1>1, <1>2, <2>1 DEF Open, Speaks
<1>3. CASE expiry[p] # 0
  <2>1. Delay(Entry(p).fails) \in Nat /\ Delay(Entry(p).fails) <= BackoffCap
    BY <1>1, <1>3, DelayFacts, BreakerAssumption DEF Speaks
  <2>2. expiry[p] <= up + BackoffCap
    BY <1>1, <1>3, <2>1, ClockFacts DEF Speaks
  <2>3. SignedBefore(up % ClockRange, expiry[p] % ClockRange) <=> up < expiry[p]
    BY <1>1, <1>3, <2>2, ClockVerdict
  <2> QED BY <1>1, <1>3, <2>3 DEF Open, Speaks, now
<1> QED BY <1>2, <1>3

-----------------------------------------------------------------------------
(* Every step keeps the invariant. *)

LEMMA EntryTyped ==
  ASSUME TypeOK, NEW p \in Ports, Holding(p) # {}
  PROVE  Entry(p) \in EntryType
<1>1. First(Holding(p)) \in Entries
  BY FirstIn DEF Holding
<1> QED BY <1>1 DEF TypeOK, Entry, EntryType

LEMMA InitSafe == Init => BreakerInv
<1> SUFFICES ASSUME Init PROVE BreakerInv
  OBVIOUS
<1>1. \A i \in Entries : health[i] = Unused
  BY DEF Init
<1>2. Unused \in EntryType /\ Unused.port = 0
  BY BreakerAssumption DEF Unused, EntryType
<1>3. TypeOK
  <2>1. health \in [Entries -> EntryType]
    BY <1>2 DEF Init
  <2>2. up \in 0..MaxUp /\ expiry \in [Ports -> Nat]
    BY BreakerAssumption DEF Init
  <2>3. streak \in [Ports -> 0..FAIL_THRESHOLD]
    BY BreakerAssumption DEF Init
  <2>4. tripped \in BOOLEAN
    BY DEF Init
  <2> QED BY <2>1, <2>2, <2>3, <2>4 DEF TypeOK, EntryType
<1>4. ASSUME NEW p \in Ports PROVE Holding(p) = {} /\ expiry[p] = 0
  BY <1>1, <1>2, BreakerAssumption DEF Init, Holding
<1> QED BY <1>1, <1>3, <1>4 DEF BreakerInv, UnusedClear, Untracked, Deadlines

\* A back-off stays within its bound as time passes.
LEMMA SpeaksLater ==
  ASSUME NEW h \in EntryType, NEW e \in Nat, NEW s \in Nat, NEW t \in Nat,
         NEW u \in Nat, t <= u, Speaks(h, e, s, t)
  PROVE  Speaks(h, e, s, u)
<1>1. h.fails \in Nat
  BY BreakerAssumption DEF EntryType
<1>2. ASSUME e # 0 PROVE Delay(h.fails) \in Nat
  BY <1>1, <1>2, DelayFacts, BreakerAssumption DEF Speaks
<1> QED BY <1>1, <1>2 DEF Speaks

LEMMA TickSafe == BreakerInv /\ Tick => BreakerInv'
<1> SUFFICES ASSUME BreakerInv, Tick PROVE BreakerInv'
  OBVIOUS
<1>1. /\ TypeOK' /\ UNCHANGED <<health, streak, expiry>>
      /\ up \in Nat /\ up' \in Nat /\ up <= up'
  <2>1. up \in 0..MaxUp /\ up < MaxUp /\ up' = up + 1 /\ tripped' = FALSE
    BY DEF Tick, BreakerInv, TypeOK
  <2>2. up' \in 0..MaxUp
    BY <2>1, BreakerAssumption
  <2>3. tripped' \in BOOLEAN
    BY <2>1
  <2>4. up \in Nat /\ up' \in Nat /\ up <= up'
    BY <2>1, BreakerAssumption
  <2>5. UNCHANGED <<health, streak, expiry>>
    BY DEF Tick
  <2> QED BY <2>2, <2>3, <2>4, <2>5 DEF BreakerInv, TypeOK
<1>2. ASSUME NEW p \in Ports
      PROVE  Holding(p)' = Holding(p) /\ Entry(p)' = Entry(p)
  BY <1>1 DEF Holding, Entry, First
<1>3. ASSUME NEW p \in Ports, Holding(p) # {}
      PROVE  Speaks(Entry(p), expiry[p], streak[p], up')
  <2>1. /\ Speaks(Entry(p), expiry[p], streak[p], up) /\ Entry(p) \in EntryType
        /\ expiry[p] \in Nat /\ streak[p] \in Nat
    BY <1>3, EntryTyped, BreakerAssumption DEF BreakerInv, Deadlines, TypeOK
  <2> QED BY <1>1, <2>1, SpeaksLater
<1>4. Deadlines'
  BY <1>1, <1>2, <1>3 DEF Deadlines
<1> QED BY <1>1, <1>2, <1>4 DEF BreakerInv, UnusedClear, Untracked

\* The other ports after a step of port p: their entries, their back-offs and
\* what is known of them are the same.
LEMMA StoreSafe ==
  ASSUME BreakerInv, NEW p \in Ports, CandidatesFor(p) # {},
         NEW h \in EntryType, h.port = p,
         health' = [health EXCEPT ![First(CandidatesFor(p))] = h],
         Speaks(h, expiry'[p], streak'[p], up'), up' = up,
         \A q \in Ports \ {p} : expiry'[q] = expiry[q] /\ streak'[q] = streak[q]
  PROVE  UnusedClear' /\ Untracked' /\ Deadlines'
<1>1. TypeOK
  BY DEF BreakerInv
<1>2. /\ Holding(p)' # {} /\ Entry(p)' = h
      /\ \A q \in Ports \ {p} :
           /\ Holding(q)' = Holding(q)
           /\ Holding(q) # {} => Entry(q)' = Entry(q)
      /\ \A j \in Entries : health'[j].port = 0 => health'[j] = health[j]
  BY <1>1, StoreFacts
<1>3. UnusedClear'
  BY <1>2 DEF UnusedClear, BreakerInv
<1>4. Untracked'
  BY <1>2 DEF Untracked, BreakerInv
<1>5. ASSUME NEW q \in Ports, Holding(q)' # {}
      PROVE  Speaks(Entry(q)', expiry'[q], streak'[q], up')
  <2>1. CASE q = p
    BY <1>2, <2>1
  <2>2. CASE q # p
    <3>1. Holding(q) # {} /\ Entry(q)' = Entry(q)
      BY <1>2, <1>5, <2>2
    <3>2. Speaks(Entry(q), expiry[q], streak[q], up)
      BY <3>1 DEF BreakerInv, Deadlines
    <3> QED BY <2>2, <3>1, <3>2
  <2> QED BY <2>1, <2>2
<1>6. Deadlines'
  BY <1>5 DEF Deadlines
<1> QED BY <1>3, <1>4, <1>6

\* The entry findOrAlloc returns says what there is to say of the port: for an
\* unused one that is nothing.
LEMMA CandidateSpeaks ==
  ASSUME BreakerInv, NEW p \in Ports, CandidatesFor(p) # {}
  PROVE  LET h == health[First(CandidatesFor(p))]
         IN  h \in EntryType /\ Speaks(h, expiry[p], streak[p], up)
<1> DEFINE h == health[First(CandidatesFor(p))]
<1>1. TypeOK /\ First(CandidatesFor(p)) \in Entries
  BY CandidateFacts DEF BreakerInv
<1>2. h \in EntryType
  BY <1>1 DEF TypeOK, EntryType
<1>3. CASE Holding(p) # {}
  <2>1. h = Entry(p)
    BY <1>3, CandidateFacts DEF Entry, CandidatesFor
  <2> QED BY <1>2, <1>3, <2>1 DEF BreakerInv, Deadlines
<1>4. CASE Holding(p) = {}
  <2>1. h = Unused
    BY <1>1, <1>4, CandidateFacts DEF BreakerInv, UnusedClear
  <2>2. expiry[p] = 0 /\ streak[p] \in Nat
    BY <1>1, <1>4, BreakerAssumption DEF BreakerInv, Untracked, TypeOK
  <2>3. h.fails = 0 /\ h.until = 0
    BY <2>1 DEF Unused
  <2>4. 0 % ClockRange = 0
    BY ClockFacts
  <2> HIDE DEF h
  <2>5. Speaks(h, 0, streak[p], up)
    BY <2>2, <2>3, <2>4, BreakerAssumption DEF Speaks
  <2> QED BY <1>2, <2>2, <2>5 DEF h
<1> QED BY <1>3, <1>4

LEMMA SuccessSafe ==
  ASSUME BreakerInv, NEW p \in Ports, recordSuccess(p)
  PROVE  BreakerInv'
<1>1. /\ TypeOK /\ tripped' = FALSE /\ up' = up
      /\ streak' = [streak EXCEPT ![p] = 0] /\ expiry' = [expiry EXCEPT ![p] = 0]
      /\ up \in 0..MaxUp /\ streak \in [Ports -> 0..FAIL_THRESHOLD]
      /\ expiry \in [Ports -> Nat] /\ health \in [Entries -> EntryType]
  BY DEF BreakerInv, recordSuccess, TypeOK, EntryType
<1>2. /\ streak' \in [Ports -> 0..FAIL_THRESHOLD] /\ expiry' \in [Ports -> Nat]
      /\ streak'[p] = 0 /\ expiry'[p] = 0
      /\ \A q \in Ports \ {p} : expiry'[q] = expiry[q] /\ streak'[q] = streak[q]
  BY <1>1, BreakerAssumption
<1>3. CASE CandidatesFor(p) = {}
  <2>1. health' = health /\ Holding(p) = {}
    BY <1>3 DEF recordSuccess, CandidatesFor
  <2>2. ASSUME NEW q \in Ports
        PROVE  Holding(q)' = Holding(q) /\ Entry(q)' = Entry(q)
    BY <2>1 DEF Holding, Entry, First
  <2>3. UnusedClear' /\ Untracked'
    BY <1>2, <2>1, <2>2 DEF UnusedClear, Untracked, BreakerInv
  <2>4. ASSUME NEW q \in Ports, Holding(q)' # {}
        PROVE  Speaks(Entry(q)', expiry'[q], streak'[q], up')
    <3>1. q # p /\ Holding(q) # {}
      BY <2>1, <2>2, <2>4
    <3>2. Speaks(Entry(q), expiry[q], streak[q], up)
      BY <3>1 DEF BreakerInv, Deadlines
    <3> QED BY <1>1, <1>2, <2>2, <3>1, <3>2
  <2>5. Deadlines'
    BY <2>4 DEF Deadlines
  <2>6. TypeOK'
    BY <1>1, <1>2, <2>1 DEF TypeOK, EntryType
  <2> QED BY <2>3, <2>5, <2>6 DEF BreakerInv
<1>4. CASE CandidatesFor(p) # {}
  <2> DEFINE i == First(CandidatesFor(p))
             h == AfterSuccess(health[i], p)
  <2>1. health' = [health EXCEPT ![i] = h]
    BY <1>1, <1>4 DEF recordSuccess, AfterSuccess
  <2>2. h.port = p /\ h.fails = 0 /\ h.until = 0 /\ h \in EntryType
    BY BreakerAssumption DEF AfterSuccess, EntryType
  <2> HIDE DEF h
  <2>3. Speaks(h, 0, 0, up')
    <3>1. 0 % ClockRange = 0
      BY ClockFacts
    <3> QED BY <2>2, <3>1, BreakerAssumption DEF Speaks
  <2>4. UnusedClear' /\ Untracked' /\ Deadlines'
    <3>1. Speaks(h, expiry'[p], streak'[p], up')
      BY <1>2, <2>3
    <3> QED BY <1>1, <1>2, <1>4, <2>1, <2>2, <3>1, StoreSafe
  <2>5. health' \in [Entries -> EntryType]
    BY <1>1, <1>4, <2>1, <2>2, StoreFacts
  <2>6. TypeOK'
    BY <1>1, <1>2, <2>5 DEF TypeOK, EntryType
  <2> QED BY <2>4, <2>6 DEF BreakerInv
<1> QED BY <1>3, <1>4

\* What recordFailure makes of an entry: one more failure, up to FailCap, and
\* from the threshold on a deadline of the delay ahead.
LEMMA FailureSpeaks ==
  ASSUME NEW g \in EntryType, NEW p \in Ports, NEW e \in Nat,
         NEW s \in 0..FAIL_THRESHOLD, up \in Nat, Speaks(g, e, s, up)
  PROVE  LET h == AfterFailure(g, p)
             t == IF h.fails >= FAIL_THRESHOLD THEN up + Delay(h.fails) ELSE e
         IN  /\ h \in EntryType /\ h.port = p
             /\ h.fails \in Nat /\ g.fails \in Nat /\ g.fails <= h.fails
             /\ t \in Nat
             /\ Speaks(h, t, Least(s + 1, FAIL_THRESHOLD), up)
<1> DEFINE f == IF g.fails < FailCap THEN g.fails + 1 ELSE g.fails
           h == AfterFailure(g, p)
           t == IF f >= FAIL_THRESHOLD THEN up + Delay(f) ELSE e
           n == Least(s + 1, FAIL_THRESHOLD)
<1>1. /\ g.fails \in 0..FailCap /\ g.until \in 0..(ClockRange - 1)
      /\ h.port = p /\ h.fails = f
      /\ h = [port |-> p, fails |-> f, until |-> h.until]
      /\ h.until = IF f >= FAIL_THRESHOLD THEN (now + Delay(f)) % ClockRange
                   ELSE g.until
  BY DEF AfterFailure, EntryType
<1>2. f \in 0..FailCap /\ g.fails \in Nat /\ f \in Nat /\ g.fails <= f
  BY <1>1, BreakerAssumption
<1>3. /\ f >= FAIL_THRESHOLD => n = FAIL_THRESHOLD
      /\ f < FAIL_THRESHOLD => f <= n
  BY <1>1, BreakerAssumption DEF Least, Speaks
<1> HIDE DEF f, n
<1>4. CASE f >= FAIL_THRESHOLD
  <2>1. Delay(f) \in Nat /\ Delay(f) > 0
    BY <1>2, <1>4, DelayFacts, BreakerAssumption
  <2> DEFINE d == Delay(f)
  <2>2. d \in Int /\ up \in Int /\ up + d \in Int /\ ClockRange \in Nat \ {0}
    BY <2>1, ClockFacts
  <2> HIDE DEF d
  <2>3. (now + d) % ClockRange = (up + d) % ClockRange
    BY <2>2, ModSum DEF now
  <2>4. (up + d) % ClockRange \in 0..(ClockRange - 1)
    BY <2>2, ModFacts
  <2>5. h.until = (up + d) % ClockRange /\ t = up + d
    BY <1>1, <1>4, <2>3 DEF d
  <2>6. h \in EntryType
    BY <1>1, <1>2, <2>4, <2>5 DEF EntryType
  <2>7. Speaks(h, t, n, up)
    BY <1>1, <1>2, <1>3, <1>4, <2>1, <2>5 DEF Speaks, d
  <2>8. t \in Nat
    BY <2>1, <2>5 DEF d
  <2> QED BY <1>1, <1>2, <2>6, <2>7, <2>8 DEF n
<1>5. CASE ~(f >= FAIL_THRESHOLD)
  <2>1. t = e /\ e = 0 /\ h.until = g.until /\ f < FAIL_THRESHOLD
    BY <1>1, <1>2, <1>5, BreakerAssumption DEF Speaks
  <2>2. h \in EntryType
    BY <1>1, <1>2, <2>1 DEF EntryType
  <2>3. Speaks(h, t, n, up)
    BY <1>1, <1>2, <1>3, <2>1, BreakerAssumption DEF Speaks
  <2> QED BY <1>1, <1>2, <2>1, <2>2, <2>3 DEF n
<1> QED BY <1>4, <1>5

\* What recordFailure stores when there is an entry for the port.
LEMMA FailureStores ==
  ASSUME BreakerInv, NEW p \in Ports, recordFailure(p), CandidatesFor(p) # {}
  PROVE  LET g == health[First(CandidatesFor(p))]
             h == AfterFailure(g, p)
             t == IF h.fails >= FAIL_THRESHOLD THEN up + Delay(h.fails)
                  ELSE expiry[p]
         IN  /\ health' = [health EXCEPT ![First(CandidatesFor(p))] = h]
             /\ tripped' = (h.fails >= FAIL_THRESHOLD /\ ~Open(g))
             /\ expiry' = [expiry EXCEPT ![p] = t]
             /\ g \in EntryType /\ Speaks(g, expiry[p], streak[p], up)
             /\ h \in EntryType /\ h.port = p
             /\ h.fails \in Nat /\ g.fails \in Nat /\ g.fails <= h.fails
             /\ t \in Nat
             /\ Speaks(h, t, Least(streak[p] + 1, FAIL_THRESHOLD), up)
<1> DEFINE g == health[First(CandidatesFor(p))]
           h == AfterFailure(g, p)
           t == IF h.fails >= FAIL_THRESHOLD THEN up + Delay(h.fails)
                ELSE expiry[p]
<1>1. g \in EntryType /\ Speaks(g, expiry[p], streak[p], up)
  BY CandidateSpeaks
<1>2. /\ expiry[p] \in Nat /\ streak[p] \in 0..FAIL_THRESHOLD /\ up \in Nat
      /\ expiry \in [Ports -> Nat]
  BY BreakerAssumption DEF BreakerInv, TypeOK
<1>3. /\ health' = [health EXCEPT ![First(CandidatesFor(p))] = h]
      /\ tripped' = (h.fails >= FAIL_THRESHOLD /\ ~Open(g))
      /\ expiry' = IF h.fails >= FAIL_THRESHOLD
                   THEN [expiry EXCEPT ![p] = up + Delay(h.fails)] ELSE expiry
  BY DEF recordFailure
<1> HIDE DEF g
<1>4. /\ h \in EntryType /\ h.port = p
      /\ h.fails \in Nat /\ g.fails \in Nat /\ g.fails <= h.fails
      /\ t \in Nat
      /\ Speaks(h, t, Least(streak[p] + 1, FAIL_THRESHOLD), up)
  BY <1>1, <1>2, FailureSpeaks
<1> HIDE DEF h
<1>5. expiry' = [expiry EXCEPT ![p] = t]
  <2>1. CASE h.fails >= FAIL_THRESHOLD
    BY <1>3, <2>1
  <2>2. CASE ~(h.fails >= FAIL_THRESHOLD)
    BY <1>2, <1>3, <2>2
  <2> QED BY <2>1, <2>2
<1> QED BY <1>1, <1>3, <1>4, <1>5 DEF g, h

LEMMA FailureSafe ==
  ASSUME BreakerInv, NEW p \in Ports, recordFailure(p)
  PROVE  BreakerInv'
<1> DEFINE n == Least(streak[p] + 1, FAIL_THRESHOLD)
<1>1. /\ TypeOK /\ up' = up /\ streak' = [streak EXCEPT ![p] = n]
      /\ up \in 0..MaxUp /\ streak \in [Ports -> 0..FAIL_THRESHOLD]
      /\ expiry \in [Ports -> Nat] /\ health \in [Entries -> EntryType]
  BY DEF BreakerInv, recordFailure, TypeOK, EntryType
<1>2. n \in 0..FAIL_THRESHOLD
  <2>1. streak[p] \in 0..FAIL_THRESHOLD
    BY <1>1
  <2> QED BY <2>1, BreakerAssumption DEF Least
<1>3. /\ streak' \in [Ports -> 0..FAIL_THRESHOLD] /\ streak'[p] = n
      /\ \A q \in Ports \ {p} : streak'[q] = streak[q]
  BY <1>1, <1>2
<1> HIDE DEF n
<1>4. CASE CandidatesFor(p) = {}
  <2>1. health' = health /\ expiry' = expiry /\ Holding(p) = {}
    BY <1>4 DEF recordFailure, CandidatesFor
  <2>2. ASSUME NEW q \in Ports
        PROVE  Holding(q)' = Holding(q) /\ Entry(q)' = Entry(q)
    BY <2>1 DEF Holding, Entry, First
  <2>3. UnusedClear' /\ Untracked'
    BY <2>1, <2>2 DEF UnusedClear, Untracked, BreakerInv
  <2>4. ASSUME NEW q \in Ports, Holding(q)' # {}
        PROVE  Speaks(Entry(q)', expiry'[q], streak'[q], up')
    <3>1. q # p /\ Holding(q) # {}
      BY <2>1, <2>2, <2>4
    <3>2. Speaks(Entry(q), expiry[q], streak[q], up)
      BY <3>1 DEF BreakerInv, Deadlines
    <3> QED BY <1>1, <1>3, <2>1, <2>2, <3>1, <3>2
  <2>5. Deadlines'
    BY <2>4 DEF Deadlines
  <2>6. tripped' \in BOOLEAN
    BY <1>4 DEF recordFailure
  <2>7. TypeOK'
    BY <1>1, <1>3, <2>1, <2>6 DEF TypeOK, EntryType
  <2> QED BY <2>3, <2>5, <2>7 DEF BreakerInv
<1>5. CASE CandidatesFor(p) # {}
  <2> DEFINE g == health[First(CandidatesFor(p))]
             h == AfterFailure(g, p)
             t == IF h.fails >= FAIL_THRESHOLD THEN up + Delay(h.fails)
                  ELSE expiry[p]
  <2>1. /\ health' = [health EXCEPT ![First(CandidatesFor(p))] = h]
        /\ tripped' = (h.fails >= FAIL_THRESHOLD /\ ~Open(g))
        /\ expiry' = [expiry EXCEPT ![p] = t]
        /\ h \in EntryType /\ h.port = p /\ t \in Nat
        /\ Speaks(h, t, n, up)
    BY <1>5, FailureStores DEF n
  <2> HIDE DEF g, h, t
  <2>2. /\ expiry' \in [Ports -> Nat] /\ expiry'[p] = t
        /\ \A q \in Ports \ {p} : expiry'[q] = expiry[q]
    BY <1>1, <2>1
  <2>3. UnusedClear' /\ Untracked' /\ Deadlines'
    <3>1. Speaks(h, expiry'[p], streak'[p], up')
      BY <1>1, <1>3, <2>1, <2>2
    <3> QED BY <1>1, <1>3, <1>5, <2>1, <2>2, <3>1, StoreSafe
  <2>4. health' \in [Entries -> EntryType]
    BY <1>1, <1>5, <2>1, StoreFacts
  <2>5. tripped' \in BOOLEAN
    BY <2>1, Zenon
  <2>6. TypeOK'
    BY <1>1, <1>3, <2>2, <2>4, <2>5 DEF TypeOK, EntryType
  <2> QED BY <2>3, <2>6 DEF BreakerInv
<1> QED BY <1>4, <1>5

-----------------------------------------------------------------------------
\* The invariant of the circuit breaker.
THEOREM BreakerSafety == Spec => []BreakerInv
<1>1. BreakerInv /\ [Next]_vars => BreakerInv'
  <2> SUFFICES ASSUME BreakerInv, [Next]_vars PROVE BreakerInv'
    OBVIOUS
  <2>1. CASE Tick
    BY <2>1, TickSafe
  <2>2. ASSUME NEW p \in Ports, recordFailure(p) PROVE BreakerInv'
    BY <2>2, FailureSafe
  <2>3. ASSUME NEW p \in Ports, recordSuccess(p) PROVE BreakerInv'
    BY <2>3, SuccessSafe
  <2>4. CASE UNCHANGED vars
    <3>1. UNCHANGED <<up, health, tripped, streak, expiry>>
      BY <2>4 DEF vars
    <3>2. TypeOK'
      BY <3>1 DEF BreakerInv, TypeOK
    <3>3. UnusedClear' /\ Untracked' /\ Deadlines'
      BY <3>1 DEF BreakerInv, UnusedClear, Untracked, Deadlines, Holding, Entry
    <3> QED BY <3>2, <3>3 DEF BreakerInv
  <2> QED BY <2>1, <2>2, <2>3, <2>4 DEF Next
<1> QED BY <1>1, InitSafe, PTL DEF Spec

\* Types: the failure counter saturates at FailCap and no deadline leaves the
\* range of the clock.
THEOREM BreakerTypeCorrect == Spec => []TypeOK
BY BreakerSafety, PTL DEF BreakerInv

\* A mapping is backed off exactly from the failure that engages its back-off
\* to its deadline, also across the wrap of millis().
THEOREM BreakerWindow == Spec => []BackOffWindow
<1>1. BreakerInv => BackOffWindow
  <2> SUFFICES ASSUME BreakerInv, NEW p \in Ports, Holding(p) # {},
                 \/ expiry[p] = 0
                 \/ expiry[p] % ClockRange # 0 /\ up - expiry[p] < Half
               PROVE  /\ isBackedOff(p) <=> up < expiry[p]
                      /\ isBackedOff(p) => streak[p] = FAIL_THRESHOLD
    BY DEF BackOffWindow
  <2>1. isBackedOff(p) <=> up < expiry[p]
    BY OpenFacts DEF isBackedOff, Entry
  <2>2. ASSUME up < expiry[p] PROVE streak[p] = FAIL_THRESHOLD
    <3>1. Speaks(Entry(p), expiry[p], streak[p], up) /\ up \in Nat
      BY BreakerAssumption DEF BreakerInv, Deadlines, TypeOK
    <3> QED BY <2>2, <3>1 DEF Speaks
  <2> QED BY <2>1, <2>2
<1> QED BY <1>1, BreakerSafety, PTL

\* A connect of one mapping never changes the verdict on another.
THEOREM BreakerIsolated == Spec => Isolated
<1>1. ASSUME BreakerInv, NEW p \in Ports, NEW q \in Ports \ {p},
             recordFailure(q) \/ recordSuccess(q)
      PROVE  isBackedOff(p)' <=> isBackedOff(p)
  <2>1. up' = up /\ TypeOK
    BY <1>1 DEF recordFailure, recordSuccess, BreakerInv
  <2>2. Holding(p)' = Holding(p) /\ (Holding(p) # {} => Entry(p)' = Entry(p))
    <3>1. CASE health' = health
      BY <3>1 DEF Holding, Entry
    <3>2. ASSUME NEW h \in EntryType, h.port = q, CandidatesFor(q) # {},
                 health' = [health EXCEPT ![First(CandidatesFor(q))] = h]
          PROVE  Holding(p)' = Holding(p) /\ (Holding(p) # {} => Entry(p)' = Entry(p))
      <4>1. p \in Ports \ {q}
        OBVIOUS
      <4> QED BY <2>1, <3>2, <4>1, StoreFacts
    <3>3. CASE CandidatesFor(q) = {}
      BY <1>1, <3>1, <3>3 DEF recordFailure, recordSuccess
    <3>4. CASE CandidatesFor(q) # {} /\ recordFailure(q)
      BY <1>1, <3>2, <3>4, FailureStores
    <3>5. CASE CandidatesFor(q) # {} /\ recordSuccess(q)
      <4> DEFINE h == [port |-> q, fails |-> 0, until |-> 0]
      <4>1. health' = [health EXCEPT ![First(CandidatesFor(q))] = h]
        BY <3>5 DEF recordSuccess, AfterSuccess
      <4>2. h \in EntryType /\ h.port = q
        BY BreakerAssumption DEF EntryType
      <4> QED BY <3>2, <3>5, <4>1, <4>2
    <3> QED BY <1>1, <3>3, <3>4, <3>5
  <2> QED BY <2>1, <2>2 DEF isBackedOff, Entry, Open, now
<1>2. BreakerInv => [\A p \in Ports :
        (\E q \in Ports \ {p} : recordFailure(q) \/ recordSuccess(q))
          => (isBackedOff(p)' <=> isBackedOff(p))]_vars
  BY <1>1
<1> QED BY <1>2, BreakerSafety, PTL DEF Isolated

\* A failure during a back-off never brings its end closer and is not counted
\* as another trip.
THEOREM BreakerNeverShortened == Spec => NeverShortened
<1>1. ASSUME BreakerInv, NEW p \in Ports, recordFailure(p), up < expiry[p]
      PROVE  /\ expiry'[p] >= expiry[p]
             /\ tripped' => expiry[p] % ClockRange = 0
  <2> DEFINE g == health[First(CandidatesFor(p))]
             h == AfterFailure(g, p)
  <2>1. up \in Nat /\ expiry \in [Ports -> Nat] /\ expiry[p] # 0
    BY <1>1, BreakerAssumption DEF BreakerInv, TypeOK
  <2>2. Holding(p) # {} /\ CandidatesFor(p) # {} /\ g = Entry(p)
    BY <1>1, <2>1 DEF BreakerInv, Untracked, CandidatesFor, Entry
  <2>3. /\ tripped' = (h.fails >= FAIL_THRESHOLD /\ ~Open(g))
        /\ expiry' = [expiry EXCEPT ![p] =
             IF h.fails >= FAIL_THRESHOLD THEN up + Delay(h.fails) ELSE expiry[p]]
        /\ h.fails \in Nat /\ g.fails \in Nat /\ g.fails <= h.fails
        /\ Speaks(g, expiry[p], streak[p], up)
    BY <1>1, <2>2, FailureStores
  <2>4. FAIL_THRESHOLD <= g.fails /\ expiry[p] <= up + Delay(g.fails)
    BY <2>1, <2>3, BreakerAssumption DEF Speaks
  <2> HIDE DEF g, h
  <2>5. /\ Delay(g.fails) \in Nat /\ Delay(g.fails) <= Delay(h.fails)
        /\ Delay(h.fails) \in Nat
    BY <2>3, <2>4, DelayFacts, BreakerAssumption
  <2>6. expiry'[p] >= expiry[p]
    <3>1. expiry'[p] = up + Delay(h.fails)
      BY <2>1, <2>3, <2>4, BreakerAssumption
    <3> QED BY <2>1, <2>4, <2>5, <3>1
  <2>7. ASSUME expiry[p] % ClockRange # 0 PROVE ~tripped'
    <3>1. expiry[p] \in Nat /\ up - expiry[p] < Half
      BY <1>1, <2>1, ClockFacts
    <3>2. Open(Entry(p))
      BY <1>1, <2>2, <2>7, <3>1, OpenFacts
    <3> QED BY <2>2, <2>3, <3>2
  <2> QED BY <2>6, <2>7
<1>2. BreakerInv => [\A p \in Ports : recordFailure(p) /\ up < expiry[p] =>
        /\ expiry'[p] >= expiry[p]
        /\ tripped' => expiry[p] % ClockRange = 0]_vars
  BY <1>1
<1> QED BY <1>2, BreakerSafety, PTL DEF NeverShortened
=============================================================================
