--------------------------- MODULE CircuitBreaker ---------------------------
(***************************************************************************)
(* The per-mapping circuit breaker of circuit_breaker.h, as                *)
(* ChannelManager::bindChannel feeds it and SSHTunnel::handleNewConnection *)
(* asks it.  Time is the true uptime `up`; the code sees only millis(),    *)
(* which is up modulo the clock's range.                                   *)
(***************************************************************************)
EXTENDS Integers

CONSTANTS Ports,          \* remote bind ports of the configured mappings
          TableSize,      \* MAX_MAPPING_HEALTH
          FAIL_THRESHOLD,
          FailCap,        \* consecutiveFails stops counting here (100)
          BackoffBase,    \* BACKOFF_BASE_MS
          BackoffCap,     \* BACKOFF_CAP_MS
          ExpCap,         \* largest shift (16)
          ClockRange,     \* 2^32: the range of an unsigned long
          MaxUp           \* bound: length of the uptime that is explored

ASSUME BreakerAssumption ==
  /\ Ports \subseteq Nat \ {0}
  /\ TableSize \in Nat \ {0}
  /\ FAIL_THRESHOLD \in Nat \ {0}
  /\ FailCap \in Nat /\ FailCap >= FAIL_THRESHOLD
  /\ BackoffBase \in Nat \ {0} /\ BackoffCap \in Nat \ {0}
  /\ ExpCap \in Nat
  /\ ClockRange \in Nat /\ ClockRange > 2 * BackoffCap
  /\ MaxUp \in Nat

VARIABLES up,      \* true uptime, in ticks
          health,  \* health_[]: port (0 = unused), consecutiveFails, until
          tripped, \* the last call was a recordFailure that returned true
          streak,  \* history: consecutive failed connects of a port
          expiry   \* history: uptime at which a port's back-off ends, 0 if none

vars == <<up, health, tripped, streak, expiry>>

Entries == 1..TableSize
Unused == [port |-> 0, fails |-> 0, until |-> 0]
Half == ClockRange \div 2
now == up % ClockRange

\* Faulty variant: deadlines are compared as plain numbers.
PlainBefore(a, b) == a < b

\* (long)(a - b) < 0 on unsigned long operands.
SignedBefore(a, b) == (a - b) % ClockRange >= Half

Least(a, b) == IF a <= b THEN a ELSE b

-----------------------------------------------------------------------------
\* The entries find() would stop at, and the unused ones.
Holding(port) == {i \in Entries : health[i].port = port}
First(S) == CHOOSE i \in S : \A j \in S : i <= j

\* Faulty variant: a full table gives up the entry of another port.
CandidatesEvict(port) ==
  IF Holding(port) # {} THEN Holding(port)
  ELSE IF Holding(0) # {} THEN Holding(0) ELSE Entries

\* findOrAlloc: the first entry of the port, else the first unused one.
CandidatesFor(port) ==
  IF Holding(port) # {} THEN Holding(port) ELSE Holding(0)

\* An entry is open while its deadline is set and still ahead.
Open(h) == h.until # 0 /\ SignedBefore(now, h.until)

isBackedOff(port) ==
  /\ Holding(port) # {}
  /\ Open(health[First(Holding(port))])

\* Faulty variant: beyond the cap the delay starts over at the base.
DelayStartsOver(fails) ==
  LET d == BackoffBase * 2^Least(fails - FAIL_THRESHOLD, ExpCap)
  IN  IF d > BackoffCap THEN BackoffBase ELSE d

Delay(fails) ==
  Least(BackoffBase * 2^Least(fails - FAIL_THRESHOLD, ExpCap), BackoffCap)

\* Faulty variant: the failure counter does not saturate.
AfterFailureUncapped(h, port) ==
  [port  |-> port,
   fails |-> h.fails + 1,
   until |-> IF h.fails + 1 >= FAIL_THRESHOLD
             THEN (now + Delay(h.fails + 1)) % ClockRange ELSE h.until]

\* The entry that recordFailure leaves, from the one findOrAlloc returned.
AfterFailure(h, port) ==
  LET fails == IF h.fails < FailCap THEN h.fails + 1 ELSE h.fails
  IN  [port  |-> port,
       fails |-> fails,
       until |-> IF fails >= FAIL_THRESHOLD
                 THEN (now + Delay(fails)) % ClockRange ELSE h.until]

AfterSuccess(h, port) == [port |-> port, fails |-> 0, until |-> 0]

-----------------------------------------------------------------------------
Init ==
  /\ up = 0
  /\ health = [i \in Entries |-> Unused]
  /\ tripped = FALSE
  /\ streak = [p \in Ports |-> 0]
  /\ expiry = [p \in Ports |-> 0]

Tick ==
  /\ up < MaxUp
  /\ up' = up + 1
  /\ tripped' = FALSE
  /\ UNCHANGED <<health, streak, expiry>>

\* bindChannel could not connect to the local endpoint.  An accepted channel
\* that waits in the pending queue is bound without asking the breaker again,
\* so this happens while the port is backed off as well.  Returning true also
\* counts a trip (totalTrips_, a statistic).
recordFailure(port) ==
  /\ streak' = [streak EXCEPT ![port] = Least(@ + 1, FAIL_THRESHOLD)]
  /\ IF CandidatesFor(port) = {}
     THEN tripped' = FALSE /\ UNCHANGED <<health, expiry>>
     ELSE LET i == First(CandidatesFor(port))
              h == AfterFailure(health[i], port)
              engages == h.fails >= FAIL_THRESHOLD
          IN  /\ health' = [health EXCEPT ![i] = h]
              /\ tripped' = (engages /\ ~Open(health[i]))
              /\ expiry' = IF engages
                           THEN [expiry EXCEPT ![port] = up + Delay(h.fails)]
                           ELSE expiry
  /\ UNCHANGED up

\* bindChannel connected: the entry is cleared, or allocated clear.
recordSuccess(port) ==
  /\ streak' = [streak EXCEPT ![port] = 0]
  /\ expiry' = [expiry EXCEPT ![port] = 0]
  /\ IF CandidatesFor(port) = {}
     THEN UNCHANGED health
     ELSE LET i == First(CandidatesFor(port))
          IN  health' = [health EXCEPT ![i] = AfterSuccess(@, port)]
  /\ tripped' = FALSE
  /\ UNCHANGED up

Next ==
  \/ Tick
  \/ \E port \in Ports : recordFailure(port)
  \/ \E port \in Ports : recordSuccess(port)

Spec == Init /\ [][Next]_vars

-----------------------------------------------------------------------------
\* Types; the failure counter saturates and a deadline is a clock reading.
TypeOK ==
  /\ up \in 0..MaxUp
  /\ health \in [Entries -> [port  : Ports \cup {0},
                             fails : 0..FailCap,
                             until : 0..(ClockRange - 1)]]
  /\ tripped \in BOOLEAN
  /\ streak \in [Ports -> 0..FAIL_THRESHOLD]
  /\ expiry \in [Ports -> Nat]

\* A port is backed off only after FAIL_THRESHOLD failed connects of its own in
\* a row, and then exactly from the failure that engaged it to its deadline,
\* across the wrap of millis(), for as long as the deadline is at most half the
\* clock range ago and is not the reading 0.
BackOffWindow ==
  \A p \in Ports :
    /\ Holding(p) # {}
    /\ expiry[p] = 0 \/ (expiry[p] % ClockRange # 0 /\ up - expiry[p] < Half)
    => /\ isBackedOff(p) <=> up < expiry[p]
       /\ isBackedOff(p) => streak[p] = FAIL_THRESHOLD

\* A failed or successful connect of one mapping never changes the verdict
\* on another, also when the table is full.
Isolated ==
  [][ \A p \in Ports :
        (\E q \in Ports \ {p} : recordFailure(q) \/ recordSuccess(q))
          => (isBackedOff(p)' <=> isBackedOff(p)) ]_vars

\* A failure during a back-off never brings its end closer, for the delay
\* grows with every further failure up to the cap and stays there, and it is
\* not reported as a new trip, unless the deadline is the reading 0.
NeverShortened ==
  [][ \A p \in Ports : recordFailure(p) /\ up < expiry[p] =>
        /\ expiry'[p] >= expiry[p]
        /\ tripped' => expiry[p] % ClockRange = 0 ]_vars

=============================================================================
