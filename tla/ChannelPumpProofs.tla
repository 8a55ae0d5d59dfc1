------------------------- MODULE ChannelPumpProofs --------------------------
(***************************************************************************)
(* The safety of ChannelPump for every ring capacity, buffer size, limit   *)
(* and timeout, and for any number of bytes.  That no byte disappears      *)
(* depends on the rings never taking more than fits, on a slot that is not *)
(* in use having nothing buffered, and on what a closed channel dropped    *)
(* being counted once.                                                     *)
(***************************************************************************)
EXTENDS ChannelPump, TLAPS

SlotType ==
  [active : BOOLEAN, state : {"Closed", "Open", "Draining"},
   toLocalOk : BOOLEAN, toRemoteOk : BOOLEAN,
   remoteEof : BOOLEAN, localEof : BOOLEAN,
   localShutdownSent : BOOLEAN,
   sshReadPaused : BOOLEAN, localReadPaused : BOOLEAN,
   errors : 0..(ErrorLimit + 3), toLocal : Ring, toRemote : Ring,
   dropped : Nat, closeComplete : BOOLEAN,
   lastActivity : AgeTo(Max2(HALF_CLOSE_TIMEOUT_MS, ChannelTimeout)),
   closeStart : AgeTo(HARD_ABANDON_TIMEOUT_MS),
   eofSent : AgeTo(EOF_GRACE_MS),
   firstEagain : AgeTo(EAGAIN_STALL_TIMEOUT_MS),
   firstLocalSendEagain : AgeTo(LOCAL_SEND_STALL_TIMEOUT_MS)]

\* The part of a ring behind its prepend buffer fits its capacity.
RingOK(r) == r \in Ring /\ r.front <= r.n /\ r.n - r.front <= RingCap

\* A slot is in use until finalizeClose or abandonSlot frees it, and then
\* nothing is left in its rings.
SlotOK(c) ==
  /\ c \in SlotType
  /\ RingOK(c.toLocal) /\ RingOK(c.toRemote)
  /\ c.active <=> c.state # "Closed"
  /\ ~c.active => RingsEmpty(c)

\* What each phase of pumpAll may rely on.
Phases ==
  /\ phase = "localRead" => ch.active /\ ch.eofSent = Unset
  /\ phase # "events" => events = 0
  /\ ch.active => archived = 0 /\ ch.toLocal.n <= inbound

\* The bytes a slot c in use was given, less those it passed on.
Balance(c, in, out) ==
  /\ out = c.toRemote.n /\ c.toLocal.n <= in
  /\ c.toLocalOk => in = c.toLocal.n + c.dropped

PumpInv ==
  /\ TypeOK
  /\ SlotOK(ch)
  /\ Phases
  /\ BytesAccounted
  /\ LossHasCause
  /\ EofIsLast

-----------------------------------------------------------------------------
(* The operators that change a slot but not its data. *)

SameData(c, d) ==
  /\ d.active = c.active /\ d.toLocalOk = c.toLocalOk
  /\ d.toLocal = c.toLocal /\ d.toRemote = c.toRemote
  /\ d.dropped = c.dropped /\ d.eofSent = c.eofSent
  /\ d.state = "Closed" <=> c.state = "Closed"

LEMMA SameDataTrans ==
  ASSUME NEW c, NEW d, NEW e, SameData(c, d), SameData(d, e)
  PROVE  SameData(c, e)
  BY DEF SameData

LEMMA Ages ==
  /\ ErrorLimit \in Nat
  /\ HALF_CLOSE_TIMEOUT_MS \in Nat /\ ChannelTimeout \in Nat
  /\ HARD_ABANDON_TIMEOUT_MS \in Nat /\ EOF_GRACE_MS \in Nat
  /\ EAGAIN_STALL_TIMEOUT_MS \in Nat /\ LOCAL_SEND_STALL_TIMEOUT_MS \in Nat
  /\ Max2(HALF_CLOSE_TIMEOUT_MS, ChannelTimeout) \in Nat
  BY PumpAssumption DEF Max2

LEMMA AgeZero ==
  ASSUME NEW limit \in Nat
  PROVE  0 \in AgeTo(limit) /\ Unset \in AgeTo(limit)
  BY DEF AgeTo, Unset

LEMMA beginCloseKeeps ==
  ASSUME NEW c \in SlotType
  PROVE  beginClose(c) \in SlotType /\ SameData(c, beginClose(c))
<1>1. 0 \in AgeTo(HARD_ABANDON_TIMEOUT_MS)
  BY Ages, AgeZero
<1>2. CASE ~c.active \/ c.state # "Open"
  BY <1>2 DEF beginClose, SameData
<1>3. CASE ~(~c.active \/ c.state # "Open")
  <2>1. beginClose(c) = [c EXCEPT !.state = "Draining", !.closeStart = 0]
    BY <1>3 DEF beginClose
  <2> QED BY <1>1, <1>3, <2>1 DEF SlotType, SameData
<1> QED BY <1>2, <1>3

LEMMA CountErrorKeeps ==
  ASSUME NEW c \in SlotType
  PROVE  CountError(c) \in SlotType /\ SameData(c, CountError(c))
<1> DEFINE e == [c EXCEPT !.errors = Min2(@ + 1, ErrorLimit + 3)]
<1>1. Min2(c.errors + 1, ErrorLimit + 3) \in 0..(ErrorLimit + 3)
  BY Ages DEF SlotType, Min2
<1>2. e \in SlotType /\ SameData(c, e)
  BY <1>1 DEF SlotType, SameData
<1>3. CountError(c) = IF e.errors > ErrorLimit THEN beginClose(e) ELSE e
  BY DEF CountError
<1> HIDE DEF e
<1> QED BY <1>2, <1>3, beginCloseKeeps, SameDataTrans

LEMMA LocalStallCheckKeeps ==
  ASSUME NEW c \in SlotType
  PROVE  LocalStallCheck(c) \in SlotType /\ SameData(c, LocalStallCheck(c))
<1> DEFINE b == beginClose(c)
           e == [b EXCEPT !.firstLocalSendEagain = 0]
<1>1. b \in SlotType /\ SameData(c, b)
  BY beginCloseKeeps
<1> HIDE DEF b
<1>2. e \in SlotType /\ SameData(b, e)
  BY <1>1, Ages, AgeZero DEF SlotType, SameData
<1>3. LocalStallCheck(c) = e \/ LocalStallCheck(c) = c
  BY DEF LocalStallCheck, b
<1> HIDE DEF e
<1>4. SameData(c, c)
  BY DEF SameData
<1> QED BY <1>1, <1>2, <1>3, <1>4, SameDataTrans

LEMMA SshStallCheckKeeps ==
  ASSUME NEW c \in SlotType
  PROVE  SshStallCheck(c) \in SlotType /\ SameData(c, SshStallCheck(c))
<1> DEFINE b == beginClose(c)
           e == [b EXCEPT !.firstEagain = 0]
<1>1. b \in SlotType /\ SameData(c, b)
  BY beginCloseKeeps
<1> HIDE DEF b
<1>2. e \in SlotType /\ SameData(b, e)
  BY <1>1, Ages, AgeZero DEF SlotType, SameData
<1>3. SshStallCheck(c) = e \/ SshStallCheck(c) = c
  BY DEF SshStallCheck, b
<1> HIDE DEF e
<1>4. SameData(c, c)
  BY DEF SameData
<1> QED BY <1>1, <1>2, <1>3, <1>4, SameDataTrans

LEMMA OpenChecksKeeps ==
  ASSUME NEW c \in SlotType
  PROVE  OpenChecks(c) \in SlotType /\ SameData(c, OpenChecks(c))
<1> DEFINE forwards == c.remoteEof /\ ~c.localShutdownSent /\ c.toRemote.n = 0
           s == [c EXCEPT !.localShutdownSent = @ \/ forwards]
<1>1. s \in SlotType /\ SameData(c, s)
  BY DEF SlotType, SameData
<1>2. \/ OpenChecks(c) = c \/ OpenChecks(c) = beginClose(c)
      \/ OpenChecks(c) = beginClose(s) \/ OpenChecks(c) = s
  BY DEF OpenChecks
<1> HIDE DEF s
<1>3. beginClose(s) \in SlotType /\ SameData(c, beginClose(s))
  BY <1>1, beginCloseKeeps, SameDataTrans
<1>4. SameData(c, c)
  BY DEF SameData
<1> QED BY <1>1, <1>2, <1>3, <1>4, beginCloseKeeps

-----------------------------------------------------------------------------
(* Rings. *)

LEMMA EmptyRingOK == RingOK(EmptyRing)
  BY PumpAssumption DEF RingOK, EmptyRing, Ring

\* A write of what fits.
LEMMA FilledOK ==
  ASSUME NEW r, RingOK(r), NEW ok \in BOOLEAN, NEW k \in Nat, k <= Free(ok, r)
  PROVE  RingOK(Filled(r, k)) /\ Filled(r, k).n = r.n + k
<1>1. RingCap \in Nat /\ BufSize \in Nat
  BY PumpAssumption
<1>2. r.n \in Nat /\ r.front \in 0..BufSize /\ r.front <= r.n /\ r.n - r.front <= RingCap
  BY <1>1 DEF RingOK, Ring
<1>3. k = 0 \/ k <= RingCap - (r.n - r.front)
  BY <1>1, <1>2 DEF Free
<1>4. Filled(r, k) = [r EXCEPT !.n = r.n + k]
  BY DEF Filled
<1>5. r.n + k \in 0..(RingCap + BufSize) /\ (r.n + k) - r.front <= RingCap
  BY <1>1, <1>2, <1>3 DEF RingOK, Ring
<1> QED BY <1>1, <1>2, <1>4, <1>5 DEF RingOK, Ring

\* A read, nothing restored.
LEMMA SentOK ==
  ASSUME NEW r, RingOK(r), NEW k \in Nat, k <= r.n
  PROVE  RingOK(Sent(r, k)) /\ Sent(r, k).n = r.n - k
<1>1. RingCap \in Nat /\ BufSize \in Nat
  BY PumpAssumption
<1>2. r.n \in 0..(RingCap + BufSize) /\ r.front \in 0..BufSize
      /\ r.front <= r.n /\ r.n - r.front <= RingCap
  BY <1>1 DEF RingOK, Ring
<1>3. Max2(r.front - k, 0) \in 0..BufSize /\ Max2(r.front - k, 0) <= r.n - k
      /\ (r.n - k) - Max2(r.front - k, 0) <= RingCap
  BY <1>1, <1>2 DEF Max2
<1>4. Sent(r, k) = [n |-> r.n - k, front |-> Max2(r.front - k, 0)]
  BY DEF Sent
<1>5. r.n - k \in 0..(RingCap + BufSize)
  BY <1>1, <1>2
<1> QED BY <1>1, <1>3, <1>4, <1>5 DEF RingOK, Ring

\* A read whose remainder is restored, or, after an error, dropped.
LEMMA RestoredOK ==
  ASSUME NEW r, RingOK(r), NEW k \in Nat, k <= r.n, NEW f \in RestoredSizes(r, k)
  PROVE  /\ f \in Nat /\ f <= r.n - k
         /\ RingOK([n |-> r.n - k, front |-> f])
         /\ RingOK([n |-> r.n - k - f, front |-> 0])
<1>1. RingCap \in Nat /\ BufSize \in Nat
  BY PumpAssumption
<1>2. r.n \in 0..(RingCap + BufSize) /\ r.front \in 0..BufSize
      /\ r.front <= r.n /\ r.n - r.front <= RingCap
  BY <1>1 DEF RingOK, Ring
<1>3. f \in Int /\ f >= 1 /\ f >= r.front - k /\ f <= r.n - k /\ f <= BufSize
  BY <1>1, <1>2 DEF RestoredSizes, Max2, Min2
<1> QED BY <1>1, <1>2, <1>3 DEF RingOK, Ring

-----------------------------------------------------------------------------
(* What keeps the invariant. *)

AllPhases ==
  {"accept", "sshRead", "toLocal", "toRemote", "localRead", "close", "events"}

LEMMA TypeFromSlot ==
  TypeOK <=> /\ phase \in AllPhases
             /\ ch \in SlotType
             /\ lastFinalize \in Unset..FINALIZE_COOLDOWN_MS
             /\ degraded \in BOOLEAN /\ events \in 0..1
             /\ archived \in Nat /\ inbound \in Nat /\ outbound \in Nat
             /\ lossy \in BOOLEAN
  BY DEF TypeOK, SlotType, AllPhases

\* A step on a slot in use that keeps it in use: bytes move from a peer into a
\* ring, or out of it to the other peer or into the count of dropped ones.
LEMMA ActiveStep ==
  ASSUME PumpInv, ch.active,
         ch' \in SlotType, ch'.active = ch.active, ch'.toLocalOk = ch.toLocalOk,
         ch'.state = "Closed" <=> ch.state = "Closed",
         RingOK(ch'.toLocal), RingOK(ch'.toRemote),
         phase' \in AllPhases, phase' # "events" => events = 0,
         phase' = "localRead" => ch'.eofSent = Unset,
         ch'.eofSent # Unset => ch'.toRemote.n = 0,
         lastFinalize' \in Unset..FINALIZE_COOLDOWN_MS,
         UNCHANGED <<degraded, events, archived>>,
         inbound' \in Nat, outbound' \in Nat,
         lossy' \in BOOLEAN,
         Balance(ch', inbound', outbound'),
         ~lossy' => ~lossy /\ ch'.dropped = 0
  PROVE  PumpInv'
<1>1. TypeOK'
  <2>1. degraded' \in BOOLEAN /\ events' \in 0..1 /\ archived' \in Nat
    BY DEF PumpInv, TypeOK
  <2> QED BY <2>1, TypeFromSlot DEF TypeOK, SlotType, AllPhases
<1>2. SlotOK(ch)'
  BY DEF SlotOK, PumpInv
<1>3. Phases'
  BY DEF Phases, PumpInv, Balance
<1>4. BytesAccounted'
  BY DEF BytesAccounted, Balance
<1>5. LossHasCause' /\ EofIsLast'
  BY DEF LossHasCause, EofIsLast, PumpInv
<1> QED BY <1>1, <1>2, <1>3, <1>4, <1>5 DEF PumpInv

\* A step that leaves the slot and the bytes alone.
LEMMA IdleStep ==
  ASSUME PumpInv, UNCHANGED <<ch, archived, history, lossy>>,
         phase' \in AllPhases, phase' = "localRead" => ch.active /\ ch.eofSent = Unset,
         lastFinalize' \in Unset..FINALIZE_COOLDOWN_MS,
         degraded' \in BOOLEAN, events' \in 0..1, phase' # "events" => events' = 0
  PROVE  PumpInv'
<1>1. /\ ch' = ch /\ archived' = archived /\ lossy' = lossy
      /\ inbound' = inbound /\ outbound' = outbound
  BY DEF history
<1>2. TypeOK'
  BY <1>1 DEF PumpInv, TypeOK, AllPhases
<1>3. SlotOK(ch)' /\ Phases'
  BY <1>1 DEF PumpInv, SlotOK, Phases
<1>4. BytesAccounted' /\ LossHasCause' /\ EofIsLast'
  BY <1>1 DEF PumpInv, BytesAccounted, LossHasCause, EofIsLast
<1> QED BY <1>2, <1>3, <1>4 DEF PumpInv

\* A change of flags and timers only.
LEMMA FlagStep ==
  ASSUME PumpInv, ch' \in SlotType, SameData(ch, ch'),
         phase' \in AllPhases, phase' # "events" => events = 0,
         phase' = "localRead" => ch.active /\ ch.eofSent = Unset,
         lastFinalize' \in Unset..FINALIZE_COOLDOWN_MS,
         UNCHANGED <<degraded, events, archived, history, lossy>>
  PROVE  PumpInv'
<1>1. /\ archived' = archived /\ lossy' = lossy /\ events' = events
      /\ degraded' = degraded
      /\ inbound' = inbound /\ outbound' = outbound
  BY DEF history
<1>2. TypeOK'
  BY <1>1 DEF PumpInv, TypeOK, AllPhases, SlotType
<1>3. SlotOK(ch)' /\ Phases'
  BY <1>1 DEF PumpInv, SlotOK, Phases, SameData, RingsEmpty
<1>4. BytesAccounted' /\ LossHasCause' /\ EofIsLast'
  BY <1>1 DEF PumpInv, BytesAccounted, LossHasCause, EofIsLast, SameData
<1> QED BY <1>2, <1>3, <1>4 DEF PumpInv

\* What an action on a slot in use starts from.
LEMMA ActiveStart ==
  ASSUME PumpInv, ch.active
  PROVE  /\ ch \in SlotType /\ ch.toLocalOk \in BOOLEAN /\ ch.toRemoteOk \in BOOLEAN
         /\ RingOK(ch.toLocal) /\ RingOK(ch.toRemote)
         /\ ch.toLocal.n \in Nat /\ ch.toRemote.n \in Nat /\ ch.dropped \in Nat
         /\ archived = 0 /\ ch.state # "Closed"
         /\ inbound \in Nat /\ outbound \in Nat
         /\ lossy \in BOOLEAN /\ lastFinalize \in Unset..FINALIZE_COOLDOWN_MS
         /\ phase # "events" => events = 0
         /\ ch.eofSent # Unset => ch.toRemote.n = 0
         /\ ~lossy => ch.dropped = 0
         /\ Balance(ch, inbound, outbound)
<1>1. /\ ch \in SlotType /\ RingOK(ch.toLocal) /\ RingOK(ch.toRemote)
      /\ archived = 0 /\ ch.state # "Closed"
  BY DEF PumpInv, SlotOK, Phases
<1>2. ch.toLocal.n \in Nat /\ ch.toRemote.n \in Nat /\ ch.dropped \in Nat
      /\ ch.toLocalOk \in BOOLEAN /\ ch.toRemoteOk \in BOOLEAN
  BY <1>1, PumpAssumption DEF SlotType, Ring
<1>3. /\ inbound \in Nat /\ outbound \in Nat
      /\ lossy \in BOOLEAN /\ lastFinalize \in Unset..FINALIZE_COOLDOWN_MS
  BY DEF PumpInv, TypeOK
<1>4. /\ phase # "events" => events = 0
      /\ ch.eofSent # Unset => ch.toRemote.n = 0
      /\ ~lossy => ch.dropped = 0
  BY DEF PumpInv, Phases, EofIsLast, LossHasCause
<1>5. Balance(ch, inbound, outbound)
  BY <1>2, <1>3 DEF PumpInv, BytesAccounted, Phases, Balance
<1> QED BY <1>1, <1>2, <1>3, <1>4, <1>5

-----------------------------------------------------------------------------
LEMMA InitSafe == Init => PumpInv
<1> SUFFICES ASSUME Init PROVE PumpInv
  OBVIOUS
<1>1. ClosedSlot \in SlotType
  <2>1. EmptyRing \in Ring
    BY EmptyRingOK DEF RingOK
  <2>2. /\ 0 \in 0..(ErrorLimit + 3)
        /\ 0 \in AgeTo(Max2(HALF_CLOSE_TIMEOUT_MS, ChannelTimeout))
        /\ Unset \in AgeTo(HARD_ABANDON_TIMEOUT_MS) /\ Unset \in AgeTo(EOF_GRACE_MS)
        /\ Unset \in AgeTo(EAGAIN_STALL_TIMEOUT_MS)
        /\ Unset \in AgeTo(LOCAL_SEND_STALL_TIMEOUT_MS)
    BY Ages, AgeZero
  <2> QED BY <2>1, <2>2 DEF ClosedSlot, SlotType
<1>2. TypeOK
  <2>1. Unset \in Unset..FINALIZE_COOLDOWN_MS
    BY PumpAssumption DEF Unset
  <2>2. degraded \in BOOLEAN /\ lossy \in BOOLEAN /\ phase \in AllPhases
    BY DEF Init, AllPhases
  <2>3. /\ events \in 0..1 /\ archived \in Nat
        /\ inbound \in Nat /\ outbound \in Nat
    BY DEF Init
  <2>4. ch = ClosedSlot /\ lastFinalize = Unset
    BY DEF Init
  <2> QED BY <1>1, <2>1, <2>2, <2>3, <2>4, TypeFromSlot
<1>3. SlotOK(ch)
  BY <1>1, EmptyRingOK DEF Init, SlotOK, ClosedSlot, RingsEmpty, EmptyRing
<1>4. Phases /\ LossHasCause /\ EofIsLast
  BY DEF Init, Phases, LossHasCause, EofIsLast, ClosedSlot, EmptyRing
<1>5. BytesAccounted
  BY DEF Init, BytesAccounted, ClosedSlot, EmptyRing
<1> QED BY <1>2, <1>3, <1>4, <1>5 DEF PumpInv

LEMMA OlderAge ==
  ASSUME NEW limit \in Nat, NEW age \in AgeTo(limit)
  PROVE  Older(age, limit) \in AgeTo(limit) /\ (Older(age, limit) = Unset <=> age = Unset)
  BY DEF AgeTo, Older, Unset, Min2

LEMMA TickSafe == PumpInv /\ Tick => PumpInv'
<1> SUFFICES ASSUME PumpInv, Tick PROVE PumpInv'
  OBVIOUS
<1>1. lastFinalize' \in Unset..FINALIZE_COOLDOWN_MS
  BY PumpAssumption DEF PumpInv, TypeOK, Tick, Unset, Min2
<1>2. /\ phase' = phase /\ phase \in AllPhases
      /\ UNCHANGED <<degraded, events, archived, history, lossy>>
  BY DEF Tick, PumpInv, TypeOK, AllPhases
<1>3. CASE ~ch.active
  <2>1. ch' = ch
    BY <1>3 DEF Tick
  <2>2. degraded' \in BOOLEAN /\ events' \in 0..1
    BY <1>2 DEF PumpInv, TypeOK
  <2>3. /\ phase' # "events" => events' = 0
        /\ phase' = "localRead" => ch.active /\ ch.eofSent = Unset
    BY <1>2 DEF PumpInv, Phases
  <2> QED BY <1>1, <1>2, <2>1, <2>2, <2>3, IdleStep
<1>4. CASE ch.active
  <2> DEFINE l == Older(ch.lastActivity, Max2(HALF_CLOSE_TIMEOUT_MS, ChannelTimeout))
             s == Older(ch.closeStart, HARD_ABANDON_TIMEOUT_MS)
             e == Older(ch.eofSent, EOF_GRACE_MS)
             f == Older(ch.firstEagain, EAGAIN_STALL_TIMEOUT_MS)
             g == Older(ch.firstLocalSendEagain, LOCAL_SEND_STALL_TIMEOUT_MS)
  <2>1. ch' = [ch EXCEPT !.lastActivity = l, !.closeStart = s, !.eofSent = e,
                         !.firstEagain = f, !.firstLocalSendEagain = g]
    BY <1>4 DEF Tick
  <2>2. /\ ch \in SlotType /\ RingOK(ch.toLocal) /\ RingOK(ch.toRemote)
        /\ ch.toLocal.n \in Nat /\ ch.toRemote.n \in Nat /\ ch.dropped \in Nat
        /\ inbound \in Nat /\ outbound \in Nat
        /\ lossy \in BOOLEAN
        /\ phase # "events" => events = 0
        /\ ch.eofSent # Unset => ch.toRemote.n = 0
        /\ ~lossy => ch.dropped = 0
        /\ Balance(ch, inbound, outbound)
    BY <1>4, ActiveStart
  <2>3. /\ l \in AgeTo(Max2(HALF_CLOSE_TIMEOUT_MS, ChannelTimeout))
        /\ s \in AgeTo(HARD_ABANDON_TIMEOUT_MS)
        /\ e \in AgeTo(EOF_GRACE_MS) /\ (e = Unset <=> ch.eofSent = Unset)
        /\ f \in AgeTo(EAGAIN_STALL_TIMEOUT_MS)
        /\ g \in AgeTo(LOCAL_SEND_STALL_TIMEOUT_MS)
    BY <2>2, Ages, OlderAge DEF SlotType
  <2> HIDE DEF l, s, e, f, g
  <2>4. /\ ch' \in SlotType
        /\ ch'.active = ch.active /\ ch'.toLocalOk = ch.toLocalOk /\ ch'.state = ch.state
        /\ ch'.toLocal = ch.toLocal /\ ch'.toRemote = ch.toRemote
        /\ ch'.dropped = ch.dropped /\ ch'.eofSent = e
    BY <2>1, <2>2, <2>3 DEF SlotType
  <2>5. phase = "localRead" => ch.eofSent = Unset
    BY DEF PumpInv, Phases
  <2>6. /\ inbound' = inbound /\ outbound' = outbound /\ lossy' = lossy
    BY <1>2 DEF history
  <2>7. Balance(ch', inbound', outbound')
    BY <2>2, <2>4, <2>6 DEF Balance
  <2> QED BY <1>1, <1>2, <1>4, <2>2, <2>3, <2>4, <2>5, <2>6, <2>7, ActiveStep
<1> QED BY <1>3, <1>4

LEMMA bindChannelSafe ==
  ASSUME PumpInv, NEW toLocalOk \in BOOLEAN, NEW toRemoteOk \in BOOLEAN,
         bindChannel(toLocalOk, toRemoteOk)
  PROVE  PumpInv'
<1>1. ch' = [ClosedSlot EXCEPT !.active = TRUE, !.state = "Open", 
                               !.toLocalOk = toLocalOk, !.toRemoteOk = toRemoteOk]
  BY DEF bindChannel
<1>2. /\ ch' \in SlotType /\ ch'.active = TRUE /\ ch'.state = "Open"
      /\ ch'.toLocalOk = toLocalOk /\ ch'.toLocal = EmptyRing /\ ch'.toRemote = EmptyRing
      /\ ch'.dropped = 0 /\ ch'.eofSent = Unset
  <2>1. /\ EmptyRing \in Ring /\ 0 \in 0..(ErrorLimit + 3)
        /\ 0 \in AgeTo(Max2(HALF_CLOSE_TIMEOUT_MS, ChannelTimeout))
        /\ Unset \in AgeTo(HARD_ABANDON_TIMEOUT_MS) /\ Unset \in AgeTo(EOF_GRACE_MS)
        /\ Unset \in AgeTo(EAGAIN_STALL_TIMEOUT_MS)
        /\ Unset \in AgeTo(LOCAL_SEND_STALL_TIMEOUT_MS)
    BY Ages, AgeZero, EmptyRingOK DEF RingOK
  <2> QED BY <1>1, <2>1 DEF ClosedSlot, SlotType
<1>3. /\ phase = "accept" /\ phase' = phase /\ lastFinalize' = lastFinalize
      /\ degraded' = degraded /\ events' = events
      /\ archived' = 0 /\ inbound' = 0 /\ outbound' = 0
  BY DEF bindChannel
<1>4. lossy' \in BOOLEAN
  BY DEF bindChannel
<1>5. TypeOK'
  BY <1>2, <1>3, <1>4 DEF PumpInv, TypeOK, SlotType
<1>6. SlotOK(ch)'
  BY <1>2, EmptyRingOK DEF SlotOK
<1>7. Phases' /\ LossHasCause' /\ EofIsLast'
  BY <1>2, <1>3 DEF PumpInv, Phases, LossHasCause, EofIsLast, EmptyRing
<1>8. BytesAccounted'
  BY <1>2, <1>3 DEF BytesAccounted, EmptyRing
<1> QED BY <1>5, <1>6, <1>7, <1>8 DEF PumpInv

LEMMA RecycleStaleSafe == PumpInv /\ RecycleStale => PumpInv'
<1> SUFFICES ASSUME PumpInv, RecycleStale PROVE PumpInv'
  OBVIOUS
<1>1. ch' \in SlotType /\ SameData(ch, ch')
  BY beginCloseKeeps DEF PumpInv, SlotOK, RecycleStale
<1>2. /\ phase = "accept" /\ phase' = "accept" /\ events = 0
      /\ lastFinalize' \in Unset..FINALIZE_COOLDOWN_MS
      /\ UNCHANGED <<degraded, events, archived, history, lossy>>
  BY DEF RecycleStale, outcome, PumpInv, Phases, TypeOK
<1> QED BY <1>1, <1>2, FlagStep DEF AllPhases

\* The steps of the tunnel task that only move on to the next phase.
LEMMA MoveOnSafe ==
  PumpInv /\ (StartPump \/ SshIdle \/ LocalSendIdle \/ SshWriteIdle \/ EndLoop) => PumpInv'
<1> SUFFICES ASSUME PumpInv,
                    StartPump \/ SshIdle \/ LocalSendIdle \/ SshWriteIdle \/ EndLoop
             PROVE  PumpInv'
  OBVIOUS
<1>1. /\ UNCHANGED <<ch, archived, history, lossy>>
      /\ lastFinalize' = lastFinalize /\ lastFinalize \in Unset..FINALIZE_COOLDOWN_MS
  BY DEF StartPump, SshIdle, LocalSendIdle, SshWriteIdle, EndLoop, outcome,
         PumpInv, TypeOK
<1>2. CASE StartPump \/ SshIdle \/ LocalSendIdle \/ SshWriteIdle
  <2>1. /\ degraded' = degraded /\ events' = events /\ events = 0
        /\ phase' \in AllPhases
        /\ phase' = "localRead" => ch.active /\ ch.eofSent = Unset
    <3>1. events = 0
      BY <1>2 DEF StartPump, SshIdle, LocalSendIdle, SshWriteIdle, PumpInv, Phases
    <3>2. UNCHANGED outcome
      BY <1>2 DEF StartPump, SshIdle, LocalSendIdle, SshWriteIdle
    <3>3. CASE StartPump \/ SshIdle \/ LocalSendIdle
      BY <3>1, <3>2, <3>3 DEF StartPump, SshIdle, LocalSendIdle, outcome, AllPhases
    <3>4. CASE SshWriteIdle
      BY <3>1, <3>2, <3>4 DEF SshWriteIdle, outcome, AllPhases
    <3> QED BY <1>2, <3>3, <3>4
  <2>2. degraded' \in BOOLEAN /\ events' \in 0..1
    BY <2>1 DEF PumpInv, TypeOK
  <2> QED BY <1>1, <2>1, <2>2, IdleStep
<1>3. CASE EndLoop
  <2>1. degraded' \in BOOLEAN
    BY <1>3 DEF EndLoop
  <2>2. events' \in 0..1 /\ events' = 0 /\ phase' = "accept" /\ phase' \in AllPhases
    BY <1>3 DEF EndLoop, AllPhases
  <2> QED BY <1>1, <2>1, <2>2, IdleStep
<1> QED BY <1>2, <1>3

LEMMA StutterSafe == PumpInv /\ UNCHANGED vars => PumpInv'
<1> SUFFICES ASSUME PumpInv, UNCHANGED vars PROVE PumpInv'
  OBVIOUS
<1>1. /\ UNCHANGED <<ch, archived, history, lossy>>
      /\ lastFinalize' = lastFinalize /\ lastFinalize \in Unset..FINALIZE_COOLDOWN_MS
      /\ degraded' = degraded /\ events' = events /\ phase' = phase
  BY DEF vars, outcome, PumpInv, TypeOK
<1>2. /\ degraded' \in BOOLEAN /\ events' \in 0..1 /\ phase \in AllPhases
  BY <1>1 DEF PumpInv, TypeOK, AllPhases
<1>3. /\ phase = "localRead" => ch.active /\ ch.eofSent = Unset
      /\ phase # "events" => events = 0
  BY DEF PumpInv, Phases
<1> QED BY <1>1, <1>2, <1>3, IdleStep

-----------------------------------------------------------------------------
(* Phase 1: bytes arrive from SSH. *)

LEMMA AfterSshReadEffect ==
  ASSUME PumpInv, ch.active, NEW n \in Nat, n <= FreeLocal
  PROVE  LET a == AfterSshRead(n) IN
         /\ a \in SlotType
         /\ RingOK(a.toLocal) /\ a.toLocal.n = ch.toLocal.n + n
         /\ a.active = ch.active /\ a.toLocalOk = ch.toLocalOk /\ a.state = ch.state
         /\ a.toRemote = ch.toRemote /\ a.dropped = ch.dropped
         /\ a.eofSent = ch.eofSent
<1>1. /\ ch \in SlotType /\ ch.toLocalOk \in BOOLEAN /\ RingOK(ch.toLocal)
      /\ ch.toLocal.n \in Nat
  BY ActiveStart
<1>2. CASE n = 0
  <2>1. AfterSshRead(n) = ch /\ ch.toLocal.n = ch.toLocal.n + n
    BY <1>1, <1>2 DEF AfterSshRead
  <2> QED BY <1>1, <2>1
<1>3. CASE n # 0
  <2> DEFINE r == Filled(ch.toLocal, n)
  <2>1. RingOK(r) /\ r.n = ch.toLocal.n + n
    BY <1>1, FilledOK DEF FreeLocal
  <2>2. AfterSshRead(n) = [ch EXCEPT !.toLocal = r, !.lastActivity = 0,
                                     !.errors = 0, !.firstEagain = Unset]
    BY <1>3 DEF AfterSshRead
  <2>3. /\ r \in Ring /\ 0 \in 0..(ErrorLimit + 3)
        /\ 0 \in AgeTo(Max2(HALF_CLOSE_TIMEOUT_MS, ChannelTimeout))
        /\ Unset \in AgeTo(EAGAIN_STALL_TIMEOUT_MS)
    BY <2>1, Ages, AgeZero DEF RingOK
  <2> HIDE DEF r
  <2> QED BY <1>1, <2>1, <2>2, <2>3 DEF SlotType
<1> QED BY <1>2, <1>3

\* A read of n bytes that leaves a slot c and an EOF flag.
LEMMA SshReadStep ==
  ASSUME PumpInv, ch.active, NEW n \in Nat, NEW c \in SlotType, NEW eof \in BOOLEAN,
         SameData(AfterSshRead(n), c), n <= FreeLocal,
         ch' = [c EXCEPT !.remoteEof = eof],
         inbound' = inbound + n, phase = "sshRead", phase' = "toLocal",
         UNCHANGED <<outcome, outbound, lossy>>
  PROVE  PumpInv'
<1> DEFINE a == AfterSshRead(n)
<1>1. /\ a \in SlotType
      /\ RingOK(a.toLocal) /\ a.toLocal.n = ch.toLocal.n + n
      /\ a.active = ch.active /\ a.toLocalOk = ch.toLocalOk /\ a.state = ch.state
      /\ a.toRemote = ch.toRemote /\ a.dropped = ch.dropped
      /\ a.eofSent = ch.eofSent
  BY AfterSshReadEffect
<1> HIDE DEF a
<1>2. SameData(a, c)
  BY DEF a
<1>3. /\ ch' \in SlotType
      /\ ch'.active = ch.active /\ ch'.toLocalOk = ch.toLocalOk
      /\ ch'.state = "Closed" <=> ch.state = "Closed"
      /\ RingOK(ch'.toLocal) /\ ch'.toLocal.n = ch.toLocal.n + n
      /\ ch'.toRemote = ch.toRemote /\ ch'.dropped = ch.dropped
      /\ ch'.eofSent = ch.eofSent
  BY <1>1, <1>2 DEF SlotType, SameData
<1>4. /\ RingOK(ch.toRemote)
      /\ ch.toLocal.n \in Nat /\ ch.toRemote.n \in Nat /\ ch.dropped \in Nat
      /\ inbound \in Nat /\ outbound \in Nat
      /\ lossy \in BOOLEAN /\ lastFinalize \in Unset..FINALIZE_COOLDOWN_MS
      /\ phase # "events" => events = 0
      /\ ch.eofSent # Unset => ch.toRemote.n = 0
      /\ ~lossy => ch.dropped = 0
      /\ Balance(ch, inbound, outbound)
  BY ActiveStart
<1>5. UNCHANGED <<degraded, events, archived>> /\ lastFinalize' = lastFinalize
  BY DEF outcome
<1>6. Balance(ch', inbound', outbound')
  BY <1>3, <1>4 DEF Balance
<1>7. inbound' \in Nat /\ outbound' \in Nat
  BY <1>4
<1> QED BY <1>3, <1>4, <1>5, <1>6, <1>7, ActiveStep DEF AllPhases

LEMMA SshReadSafe ==
  ASSUME PumpInv, NEW n \in Nat, NEW eof \in BOOLEAN, NEW err \in BOOLEAN,
         SshRead(n, eof, err)
  PROVE  PumpInv'
<1> DEFINE full == FreeLocal = 0 \/ (n > 0 /\ ch.toLocal.n + n > High)
           a == AfterSshRead(n)
           c == [a EXCEPT !.sshReadPaused = full]
           d == IF err THEN CountError(c) ELSE c
<1>1. ch.active /\ n <= FreeLocal
  BY DEF SshRead
<1>2. a \in SlotType
  BY <1>1, AfterSshReadEffect
<1>3. full \in BOOLEAN
  OBVIOUS
<1> HIDE DEF a, full
<1>4. c \in SlotType /\ SameData(a, c)
  BY <1>2, <1>3 DEF SlotType, SameData
<1> HIDE DEF c
<1>5. d \in SlotType /\ SameData(a, d)
  BY <1>4, CountErrorKeeps, SameDataTrans
<1>6. ch' = [d EXCEPT !.remoteEof = eof]
  BY DEF SshRead, a, full, c
<1> HIDE DEF d
<1>7. /\ SameData(AfterSshRead(n), d)
      /\ inbound' = inbound + n /\ phase = "sshRead" /\ phase' = "toLocal"
      /\ UNCHANGED <<outcome, outbound, lossy>>
  BY <1>5 DEF SshRead, a
<1> QED BY <1>1, <1>5, <1>6, <1>7, SshReadStep

LEMMA SshPausedReadSafe ==
  ASSUME PumpInv, NEW n \in Nat, NEW eof \in BOOLEAN, NEW err \in BOOLEAN,
         SshPausedRead(n, eof, err)
  PROVE  PumpInv'
<1> DEFINE d == IF err THEN CountError(ch) ELSE AfterSshRead(n)
<1>1. ch.active /\ n <= Min2(FreeLocal, SmallRead) /\ (n > 0 => ~err)
  BY DEF SshPausedRead
<1>2. ch \in SlotType /\ ch.toLocal.n \in Nat /\ RingOK(ch.toLocal) /\ ch.toLocalOk \in BOOLEAN
  BY <1>1, ActiveStart
<1>3. n <= FreeLocal
  <2>1. FreeLocal \in Int /\ SmallRead \in Int
    BY <1>2, PumpAssumption DEF FreeLocal, Free, RingOK, Ring
  <2> QED BY <1>1, <2>1 DEF Min2
<1>4. d \in SlotType /\ SameData(AfterSshRead(n), d)
  <2>1. CASE err
    <3>1. n = 0
      BY <1>1, <2>1
    <3>2. AfterSshRead(n) = ch
      BY <3>1 DEF AfterSshRead
    <3> QED BY <1>2, <2>1, <3>2, CountErrorKeeps
  <2>2. CASE ~err
    BY <1>1, <1>3, <2>2, AfterSshReadEffect DEF SameData
  <2> QED BY <2>1, <2>2
<1>5. ch' = [d EXCEPT !.remoteEof = eof]
  BY DEF SshPausedRead
<1> HIDE DEF d
<1>6. /\ inbound' = inbound + n /\ phase = "sshRead" /\ phase' = "toLocal"
      /\ UNCHANGED <<outcome, outbound, lossy>>
  BY DEF SshPausedRead
<1> QED BY <1>1, <1>3, <1>4, <1>5, <1>6, SshReadStep

-----------------------------------------------------------------------------
(* Phase 2: bytes leave for the local socket. *)

LEMMA AfterLocalSendEffect ==
  ASSUME PumpInv, ch.active, NEW k \in Nat, NEW r, RingOK(r)
  PROVE  LET a == AfterLocalSend(k, r) IN
         /\ a \in SlotType /\ a.toLocal = r
         /\ a.active = ch.active /\ a.toLocalOk = ch.toLocalOk /\ a.state = ch.state
         /\ a.toRemote = ch.toRemote /\ a.dropped = ch.dropped
         /\ a.eofSent = ch.eofSent
<1>1. ch \in SlotType
  BY ActiveStart
<1>2. /\ r \in Ring
      /\ 0 \in AgeTo(Max2(HALF_CLOSE_TIMEOUT_MS, ChannelTimeout))
      /\ Unset \in AgeTo(LOCAL_SEND_STALL_TIMEOUT_MS)
  BY Ages, AgeZero DEF RingOK
<1>3. CASE k = 0
  BY <1>1, <1>2, <1>3 DEF AfterLocalSend, SlotType
<1>4. CASE k # 0
  <2>1. AfterLocalSend(k, r) = [ch EXCEPT !.toLocal = r, !.lastActivity = 0,
                                          !.firstLocalSendEagain = Unset]
    BY <1>4 DEF AfterLocalSend
  <2> QED BY <1>1, <1>2, <2>1 DEF SlotType
<1> QED BY <1>3, <1>4

\* A send that took k bytes, left ring r and lost what is missing in it.
LEMMA LocalSendStep ==
  ASSUME PumpInv, NEW k \in Nat, LocalSend(k), NEW r, RingOK(r), NEW lost \in Nat,
         r.n + lost = ch.toLocal.n - k,
         ch' \in SlotType, ch'.toLocal = r,
         ch'.active = ch.active, ch'.toLocalOk = ch.toLocalOk,
         ch'.state = "Closed" <=> ch.state = "Closed",
         ch'.toRemote = ch.toRemote, ch'.dropped = ch.dropped + lost,
         ch'.eofSent = ch.eofSent,
         lossy' \in BOOLEAN, ~lossy' => ~lossy /\ lost = 0
  PROVE  PumpInv'
<1>1. /\ ch.active /\ phase = "toLocal" /\ phase' = "toRemote"
      /\ inbound' = inbound - k /\ outbound' = outbound
      /\ UNCHANGED <<degraded, events, archived>> /\ lastFinalize' = lastFinalize
  BY DEF LocalSend, outcome
<1>2. /\ RingOK(ch.toRemote)
      /\ ch.toLocal.n \in Nat /\ ch.toRemote.n \in Nat /\ ch.dropped \in Nat
      /\ inbound \in Nat /\ outbound \in Nat
      /\ lossy \in BOOLEAN /\ lastFinalize \in Unset..FINALIZE_COOLDOWN_MS
      /\ phase # "events" => events = 0
      /\ ch.eofSent # Unset => ch.toRemote.n = 0
      /\ ~lossy => ch.dropped = 0
      /\ Balance(ch, inbound, outbound)
  BY <1>1, ActiveStart
<1>3. r.n \in Nat
  BY PumpAssumption DEF RingOK, Ring
<1>4. Balance(ch', inbound', outbound')
  BY <1>1, <1>2, <1>3 DEF Balance
<1>5. inbound' \in Nat /\ outbound' \in Nat
  BY <1>1, <1>2, <1>3 DEF Balance
<1>6. ~lossy' => ~lossy /\ ch'.dropped = 0
  BY <1>2
<1> QED BY <1>1, <1>2, <1>4, <1>5, <1>6, ActiveStep DEF AllPhases

LEMMA LocalSendAllSafe ==
  ASSUME PumpInv, NEW k \in Nat, LocalSendAll(k)
  PROVE  PumpInv'
<1> DEFINE r == Sent(ch.toLocal, k)
           a == AfterLocalSend(k, r)
<1>1. LocalSend(k) /\ ch.active /\ k <= Min2(ch.toLocal.n, 4 * BufSize)
      /\ ch' = LocalStallCheck(a) /\ lossy' = lossy
  BY DEF LocalSendAll, LocalSend
<1>2. ch.toLocal.n \in Nat /\ RingOK(ch.toLocal) /\ lossy \in BOOLEAN /\ ch.dropped \in Nat
  BY <1>1, ActiveStart
<1>3. k <= ch.toLocal.n
  BY <1>1, <1>2, PumpAssumption DEF Min2
<1>4. RingOK(r) /\ r.n = ch.toLocal.n - k
  BY <1>2, <1>3, SentOK
<1> HIDE DEF r
<1>5. /\ a \in SlotType /\ a.toLocal = r
      /\ a.active = ch.active /\ a.toLocalOk = ch.toLocalOk /\ a.state = ch.state
      /\ a.toRemote = ch.toRemote /\ a.dropped = ch.dropped
      /\ a.eofSent = ch.eofSent
  BY <1>1, <1>4, AfterLocalSendEffect
<1> HIDE DEF a
<1>6. ch' \in SlotType /\ SameData(a, ch')
  BY <1>1, <1>5, LocalStallCheckKeeps
<1>7. r.n + 0 = ch.toLocal.n - k /\ ch.dropped = ch.dropped + 0
  BY <1>2, <1>4
<1> QED BY <1>1, <1>2, <1>4, <1>5, <1>6, <1>7, LocalSendStep DEF SameData

LEMMA LocalSendBlockedSafe ==
  ASSUME PumpInv, NEW k \in Nat, NEW front, NEW eagain \in BOOLEAN,
         LocalSendBlocked(k, front, eagain)
  PROVE  PumpInv'
<1> DEFINE r == [n |-> ch.toLocal.n - k, front |-> front]
           a == AfterLocalSend(k, r)
           b == IF eagain /\ a.firstLocalSendEagain = Unset
                THEN [a EXCEPT !.firstLocalSendEagain = 0] ELSE a
<1>1. LocalSend(k) /\ ch.active /\ k <= Min2(ch.toLocal.n, 4 * BufSize)
      /\ front \in RestoredSizes(ch.toLocal, k)
      /\ ch' = LocalStallCheck(b) /\ lossy' = lossy
  BY DEF LocalSendBlocked, LocalSend
<1>2. ch.toLocal.n \in Nat /\ RingOK(ch.toLocal) /\ lossy \in BOOLEAN /\ ch.dropped \in Nat
  BY <1>1, ActiveStart
<1>3. k <= ch.toLocal.n
  BY <1>1, <1>2, PumpAssumption DEF Min2
<1>4. RingOK(r) /\ r.n = ch.toLocal.n - k
  BY <1>1, <1>2, <1>3, RestoredOK
<1> HIDE DEF r
<1>5. /\ a \in SlotType /\ a.toLocal = r
      /\ a.active = ch.active /\ a.toLocalOk = ch.toLocalOk /\ a.state = ch.state
      /\ a.toRemote = ch.toRemote /\ a.dropped = ch.dropped
      /\ a.eofSent = ch.eofSent
  BY <1>1, <1>4, AfterLocalSendEffect
<1> HIDE DEF a
<1>6. b \in SlotType /\ SameData(a, b)
  BY <1>5, Ages, AgeZero DEF SlotType, SameData
<1> HIDE DEF b
<1>7. ch' \in SlotType /\ SameData(a, ch')
  BY <1>1, <1>6, LocalStallCheckKeeps, SameDataTrans
<1>8. r.n + 0 = ch.toLocal.n - k /\ ch.dropped = ch.dropped + 0
  BY <1>2, <1>4
<1> QED BY <1>1, <1>2, <1>4, <1>5, <1>7, <1>8, LocalSendStep DEF SameData

LEMMA LocalSendErrorSafe ==
  ASSUME PumpInv, NEW k \in Nat, NEW lost, LocalSendError(k, lost)
  PROVE  PumpInv'
<1> DEFINE r == [n |-> ch.toLocal.n - k - lost, front |-> 0]
           a == AfterLocalSend(k, r)
           b == [a EXCEPT !.dropped = @ + lost, !.localEof = TRUE]
<1>1. LocalSend(k) /\ ch.active /\ k <= Min2(ch.toLocal.n, 4 * BufSize)
      /\ lost \in RestoredSizes(ch.toLocal, k)
      /\ ch' = LocalStallCheck(b) /\ lossy' = TRUE
  BY DEF LocalSendError, LocalSend
<1>2. ch.toLocal.n \in Nat /\ RingOK(ch.toLocal) /\ ch.dropped \in Nat
  BY <1>1, ActiveStart
<1>3. k <= ch.toLocal.n
  BY <1>1, <1>2, PumpAssumption DEF Min2
<1>4. RingOK(r) /\ r.n = ch.toLocal.n - k - lost /\ lost \in Nat
  BY <1>1, <1>2, <1>3, RestoredOK
<1> HIDE DEF r
<1>5. /\ a \in SlotType /\ a.toLocal = r
      /\ a.active = ch.active /\ a.toLocalOk = ch.toLocalOk /\ a.state = ch.state
      /\ a.toRemote = ch.toRemote /\ a.dropped = ch.dropped
      /\ a.eofSent = ch.eofSent
  BY <1>1, <1>4, AfterLocalSendEffect
<1> HIDE DEF a
<1>6. /\ b \in SlotType /\ b.toLocal = r
      /\ b.active = ch.active /\ b.toLocalOk = ch.toLocalOk /\ b.state = ch.state
      /\ b.toRemote = ch.toRemote /\ b.dropped = ch.dropped + lost
      /\ b.eofSent = ch.eofSent
  <2>1. b = [a EXCEPT !.dropped = ch.dropped + lost, !.localEof = TRUE]
    BY <1>5
  <2>2. ch.dropped + lost \in Nat
    BY <1>2, <1>4
  <2> QED BY <1>5, <2>1, <2>2 DEF SlotType
<1> HIDE DEF b
<1>7. ch' \in SlotType /\ SameData(b, ch')
  BY <1>1, <1>6, LocalStallCheckKeeps
<1>8. r.n + lost = ch.toLocal.n - k
  BY <1>2, <1>4
<1> QED BY <1>1, <1>2, <1>4, <1>6, <1>7, <1>8, LocalSendStep DEF SameData

-----------------------------------------------------------------------------
(* Phase 3: bytes leave for SSH, and arrive from the local socket. *)

LEMMA AfterSshWriteEffect ==
  ASSUME PumpInv, ch.active, NEW k \in Nat, NEW r, RingOK(r)
  PROVE  LET a == AfterSshWrite(k, r) IN
         /\ a \in SlotType /\ a.toRemote = r
         /\ a.active = ch.active /\ a.toLocalOk = ch.toLocalOk /\ a.state = ch.state
         /\ a.toLocal = ch.toLocal /\ a.dropped = ch.dropped
         /\ a.eofSent = ch.eofSent
<1>1. ch \in SlotType
  BY ActiveStart
<1>2. /\ r \in Ring /\ 0 \in 0..(ErrorLimit + 3)
      /\ 0 \in AgeTo(Max2(HALF_CLOSE_TIMEOUT_MS, ChannelTimeout))
      /\ Unset \in AgeTo(EAGAIN_STALL_TIMEOUT_MS)
  BY Ages, AgeZero DEF RingOK
<1>3. CASE k = 0
  BY <1>1, <1>2, <1>3 DEF AfterSshWrite, SlotType
<1>4. CASE k # 0
  <2>1. AfterSshWrite(k, r) = [ch EXCEPT !.toRemote = r, !.lastActivity = 0,
                                         !.errors = 0, !.firstEagain = Unset]
    BY <1>4 DEF AfterSshWrite
  <2> QED BY <1>1, <1>2, <2>1 DEF SlotType
<1> QED BY <1>3, <1>4

\* The facts a write starts from.
LEMMA SshWriteStart ==
  ASSUME PumpInv, NEW k \in Nat, SshWrite(k)
  PROVE  ch.active /\ RingOK(ch.toRemote) /\ ch.toRemote.n \in Nat /\ k <= ch.toRemote.n
<1>1. ch.active /\ k <= Min2(ch.toRemote.n, MAX_WRITE_PER_CHANNEL)
  BY DEF SshWrite
<1>2. ch.toRemote.n \in Nat /\ RingOK(ch.toRemote)
  BY <1>1, ActiveStart
<1> QED BY <1>1, <1>2, PumpAssumption DEF Min2

\* A write that libssh2 took k bytes of.
LEMMA SshWriteStep ==
  ASSUME PumpInv, NEW k \in Nat, SshWrite(k), NEW r, RingOK(r),
         r.n = ch.toRemote.n - k, ch' \in SlotType,
         SameData(AfterSshWrite(k, r), ch')
  PROVE  PumpInv'
<1>1. /\ ch.active /\ ch.eofSent = Unset /\ phase = "toRemote" /\ phase' = "localRead"
      /\ outbound' = outbound - k /\ inbound' = inbound /\ lossy' = lossy
      /\ UNCHANGED <<degraded, events, archived>> /\ lastFinalize' = lastFinalize
  BY DEF SshWrite, outcome
<1>2. /\ ch'.active = ch.active /\ ch'.toLocalOk = ch.toLocalOk
      /\ ch'.state = "Closed" <=> ch.state = "Closed"
      /\ ch'.toLocal = ch.toLocal /\ ch'.toRemote = r
      /\ ch'.dropped = ch.dropped /\ ch'.eofSent = ch.eofSent
  BY <1>1, AfterSshWriteEffect DEF SameData
<1>3. /\ RingOK(ch.toLocal)
      /\ ch.toLocal.n \in Nat /\ ch.toRemote.n \in Nat /\ ch.dropped \in Nat
      /\ inbound \in Nat /\ outbound \in Nat
      /\ lossy \in BOOLEAN /\ lastFinalize \in Unset..FINALIZE_COOLDOWN_MS
      /\ phase # "events" => events = 0
      /\ ~lossy => ch.dropped = 0
      /\ Balance(ch, inbound, outbound)
  BY <1>1, ActiveStart
<1>4. Balance(ch', inbound', outbound')
  BY <1>1, <1>2, <1>3 DEF Balance
<1>5. inbound' \in Nat /\ outbound' \in Nat
  BY <1>1, <1>3, SshWriteStart DEF Balance
<1> QED BY <1>1, <1>2, <1>3, <1>4, <1>5, ActiveStep DEF AllPhases

LEMMA SshWriteAllSafe ==
  ASSUME PumpInv, NEW k \in Nat, SshWriteAll(k)
  PROVE  PumpInv'
<1> DEFINE r == Sent(ch.toRemote, k)
           a == AfterSshWrite(k, r)
<1>1. SshWrite(k) /\ ch' = SshStallCheck(a)
  BY DEF SshWriteAll
<1>2. ch.active /\ RingOK(ch.toRemote) /\ ch.toRemote.n \in Nat /\ k <= ch.toRemote.n
  BY <1>1, SshWriteStart
<1>3. RingOK(r) /\ r.n = ch.toRemote.n - k
  BY <1>2, SentOK
<1> HIDE DEF r
<1>4. a \in SlotType
  BY <1>2, <1>3, AfterSshWriteEffect
<1> HIDE DEF a
<1>5. ch' \in SlotType /\ SameData(a, ch')
  BY <1>1, <1>4, SshStallCheckKeeps
<1> QED BY <1>1, <1>3, <1>5, SshWriteStep DEF a

LEMMA SshWriteBlockedSafe ==
  ASSUME PumpInv, NEW k \in Nat, NEW front, NEW eagain \in BOOLEAN,
         SshWriteBlocked(k, front, eagain)
  PROVE  PumpInv'
<1> DEFINE r == [n |-> ch.toRemote.n - k, front |-> front]
           a == AfterSshWrite(k, r)
           b == IF eagain /\ a.firstEagain = Unset
                THEN [a EXCEPT !.firstEagain = 0] ELSE a
<1>1. SshWrite(k) /\ front \in RestoredSizes(ch.toRemote, k) /\ ch' = SshStallCheck(b)
  BY DEF SshWriteBlocked
<1>2. ch.active /\ RingOK(ch.toRemote) /\ ch.toRemote.n \in Nat /\ k <= ch.toRemote.n
  BY <1>1, SshWriteStart
<1>3. RingOK(r) /\ r.n = ch.toRemote.n - k
  BY <1>1, <1>2, RestoredOK
<1> HIDE DEF r
<1>4. a \in SlotType
  BY <1>2, <1>3, AfterSshWriteEffect
<1> HIDE DEF a
<1>5. b \in SlotType /\ SameData(a, b)
  BY <1>4, Ages, AgeZero DEF SlotType, SameData
<1> HIDE DEF b
<1>6. ch' \in SlotType /\ SameData(a, ch')
  BY <1>1, <1>5, SshStallCheckKeeps, SameDataTrans
<1> QED BY <1>1, <1>3, <1>6, SshWriteStep DEF a

LEMMA SshWriteErrorSafe ==
  ASSUME PumpInv, NEW k \in Nat, NEW front, SshWriteError(k, front)
  PROVE  PumpInv'
<1> DEFINE r == [n |-> ch.toRemote.n - k, front |-> front]
           a == AfterSshWrite(k, r)
           b == CountError(a)
<1>1. SshWrite(k) /\ front \in RestoredSizes(ch.toRemote, k) /\ ch' = SshStallCheck(b)
  BY DEF SshWriteError
<1>2. ch.active /\ RingOK(ch.toRemote) /\ ch.toRemote.n \in Nat /\ k <= ch.toRemote.n
  BY <1>1, SshWriteStart
<1>3. RingOK(r) /\ r.n = ch.toRemote.n - k
  BY <1>1, <1>2, RestoredOK
<1> HIDE DEF r
<1>4. a \in SlotType
  BY <1>2, <1>3, AfterSshWriteEffect
<1> HIDE DEF a
<1>5. b \in SlotType /\ SameData(a, b)
  BY <1>4, CountErrorKeeps
<1> HIDE DEF b
<1>6. ch' \in SlotType /\ SameData(a, ch')
  BY <1>1, <1>5, SshStallCheckKeeps, SameDataTrans
<1> QED BY <1>1, <1>3, <1>6, SshWriteStep DEF a

LEMMA LocalReadSafe ==
  ASSUME PumpInv, NEW n \in Nat, NEW eof \in BOOLEAN, NEW full \in BOOLEAN,
         LocalRead(n, eof, full)
  PROVE  PumpInv'
<1>1. /\ phase = "localRead" /\ phase' = "close" /\ outbound' = outbound + n
      /\ inbound' = inbound /\ lossy' = lossy
      /\ UNCHANGED <<degraded, events, archived>> /\ lastFinalize' = lastFinalize
  BY DEF LocalRead, outcome
<1>2. ch.active /\ ch.eofSent = Unset
  BY <1>1 DEF PumpInv, Phases
<1>3. /\ ch \in SlotType /\ ch.toRemoteOk \in BOOLEAN
      /\ RingOK(ch.toLocal) /\ RingOK(ch.toRemote)
      /\ ch.toLocal.n \in Nat /\ ch.toRemote.n \in Nat /\ ch.dropped \in Nat
      /\ inbound \in Nat /\ outbound \in Nat
      /\ lossy \in BOOLEAN /\ lastFinalize \in Unset..FINALIZE_COOLDOWN_MS
      /\ phase # "events" => events = 0
      /\ ~lossy => ch.dropped = 0
      /\ Balance(ch, inbound, outbound)
  BY <1>2, ActiveStart
<1>4. n <= FreeRemote
  <2>1. FreeRemote \in Int /\ BufSize \in Int
    BY <1>3, PumpAssumption DEF FreeRemote, Free, RingOK, Ring
  <2> QED BY <2>1 DEF LocalRead, Min2
<1> DEFINE c == [ch EXCEPT !.localReadPaused = full, !.localEof = eof]
           r == Filled(ch.toRemote, n)
<1>5. RingOK(r) /\ r.n = ch.toRemote.n + n
  BY <1>3, <1>4, FilledOK DEF FreeRemote
<1>6. /\ ch' \in SlotType
      /\ ch'.active = ch.active /\ ch'.toLocalOk = ch.toLocalOk /\ ch'.state = ch.state
      /\ ch'.toLocal = ch.toLocal /\ ch'.dropped = ch.dropped
      /\ ch'.eofSent = ch.eofSent
      /\ RingOK(ch'.toRemote) /\ ch'.toRemote.n = ch.toRemote.n + n
  <2>1. /\ c \in SlotType /\ c.toRemote = ch.toRemote
        /\ c.active = ch.active /\ c.toLocalOk = ch.toLocalOk /\ c.state = ch.state
        /\ c.toLocal = ch.toLocal /\ c.dropped = ch.dropped
        /\ c.eofSent = ch.eofSent
    BY <1>3 DEF SlotType
  <2>2. ch' = IF n = 0 THEN c
              ELSE [c EXCEPT !.toRemote = Filled(@, n), !.lastActivity = 0]
    BY DEF LocalRead
  <2> HIDE DEF c
  <2>3. CASE n = 0
    <3>1. ch.toRemote.n = ch.toRemote.n + n
      BY <1>3, <2>3
    <3> QED BY <1>3, <2>1, <2>2, <2>3, <3>1
  <2>4. CASE n # 0
    <3>1. ch' = [c EXCEPT !.toRemote = r, !.lastActivity = 0]
      BY <2>1, <2>2, <2>4
    <3>2. /\ r \in Ring
          /\ 0 \in AgeTo(Max2(HALF_CLOSE_TIMEOUT_MS, ChannelTimeout))
      BY <1>5, Ages, AgeZero DEF RingOK
    <3> HIDE DEF r
    <3> QED BY <1>5, <2>1, <3>1, <3>2 DEF SlotType
  <2> QED BY <2>3, <2>4
<1>7. Balance(ch', inbound', outbound')
  BY <1>1, <1>3, <1>6 DEF Balance
<1>8. inbound' \in Nat /\ outbound' \in Nat
  BY <1>1, <1>3
<1> HIDE DEF c, r
<1> QED BY <1>1, <1>2, <1>3, <1>6, <1>7, <1>8, ActiveStep DEF AllPhases

LEMMA LocalReadSkipSafe == PumpInv /\ LocalReadSkip => PumpInv'
<1> SUFFICES ASSUME PumpInv, LocalReadSkip PROVE PumpInv'
  OBVIOUS
<1>1. ch \in SlotType /\ LocalPaused \in BOOLEAN
  <2>1. ch \in SlotType
    BY DEF PumpInv, SlotOK
  <2>2. LocalPaused \in BOOLEAN
    <3>1. (ch.toRemote.n >= Low) \in BOOLEAN /\ (ch.toRemote.n > High) \in BOOLEAN
      BY SMT
    <3> QED BY <3>1, Zenon DEF LocalPaused
  <2> QED BY <2>1, <2>2
<1>2. ch' \in SlotType /\ SameData(ch, ch')
  <2>1. ch' = [ch EXCEPT !.localReadPaused = LocalPaused]
    BY DEF LocalReadSkip
  <2> QED BY <1>1, <2>1 DEF SlotType, SameData
<1>3. /\ phase = "localRead" /\ phase' = "close" /\ events = 0
      /\ lastFinalize' \in Unset..FINALIZE_COOLDOWN_MS
      /\ UNCHANGED <<degraded, events, archived, history, lossy>>
  BY DEF LocalReadSkip, outcome, PumpInv, Phases, TypeOK
<1> QED BY <1>2, <1>3, FlagStep DEF AllPhases

-----------------------------------------------------------------------------
(* Phase 4: closing. *)

\* What step 2 of checkCloses finds after step 1.
LEMMA CheckStart ==
  ASSUME PumpInv, phase = "close"
  PROVE  LET c == OpenChecks(ch) IN
         /\ c \in SlotType /\ SameData(ch, c)
         /\ c.state # "Closed" => ch.active
         /\ events = 0
<1>1. OpenChecks(ch) \in SlotType /\ SameData(ch, OpenChecks(ch))
  BY OpenChecksKeeps DEF PumpInv, SlotOK
<1> QED BY <1>1 DEF PumpInv, SlotOK, Phases, SameData

LEMMA CloseWaitSafe == PumpInv /\ CloseWait => PumpInv'
<1> SUFFICES ASSUME PumpInv, CloseWait PROVE PumpInv'
  OBVIOUS
<1>1. ch' \in SlotType /\ SameData(ch, ch')
  BY CheckStart DEF CloseWait
<1>2. /\ phase' = "events" /\ lastFinalize' \in Unset..FINALIZE_COOLDOWN_MS
      /\ UNCHANGED <<degraded, events, archived, history, lossy>>
  BY DEF CloseWait, outcome, PumpInv, TypeOK
<1> QED BY <1>1, <1>2, FlagStep DEF AllPhases

LEMMA FinalizeHalfSafe == PumpInv /\ FinalizeHalf => PumpInv'
<1> SUFFICES ASSUME PumpInv, FinalizeHalf PROVE PumpInv'
  OBVIOUS
<1> DEFINE c == OpenChecks(ch)
<1>1. c \in SlotType /\ SameData(ch, c)
  BY CheckStart DEF FinalizeHalf
<1>2. ch' = [c EXCEPT !.closeComplete = TRUE]
  BY DEF FinalizeHalf
<1> HIDE DEF c
<1>3. ch' \in SlotType /\ SameData(ch, ch')
  BY <1>1, <1>2 DEF SlotType, SameData
<1>4. /\ phase' = "events" /\ lastFinalize' \in Unset..FINALIZE_COOLDOWN_MS
      /\ UNCHANGED <<degraded, events, archived, history, lossy>>
  BY DEF FinalizeHalf, outcome, PumpInv, TypeOK
<1> QED BY <1>3, <1>4, FlagStep DEF AllPhases

\* Both rings are empty when EOF is sent, so what the reads after it bring in
\* fits, and nothing is left to follow the EOF.
LEMMA SendEofSafe ==
  ASSUME PumpInv, NEW n \in Nat, n <= EofPump, SendEof(n)
  PROVE  PumpInv'
<1> DEFINE c == OpenChecks(ch)
           k == Min2(n, FreeLocal)
           r == Filled(c.toLocal, k)
<1>1. /\ phase = "close" /\ phase' = "events" /\ inbound' = inbound + n
      /\ outbound' = outbound /\ lossy' = lossy
      /\ UNCHANGED <<degraded, events, archived>> /\ lastFinalize' = lastFinalize
  BY DEF SendEof, outcome
<1>2. c \in SlotType /\ SameData(ch, c) /\ (c.state # "Closed" => ch.active)
  BY <1>1, CheckStart
<1>3. EofDue(c) /\ ch' = [c EXCEPT !.eofSent = 0, !.toLocal = r]
  BY DEF SendEof
<1> HIDE DEF c
<1>4. ch.active /\ RingsEmpty(ch) /\ c.toLocal = ch.toLocal
  BY <1>2, <1>3 DEF EofDue, RingsEmpty, SameData
<1>5. /\ ch.toLocalOk \in BOOLEAN /\ RingOK(ch.toLocal) /\ RingOK(ch.toRemote)
      /\ ch.toLocal.n \in Nat /\ ch.toRemote.n \in Nat /\ ch.dropped \in Nat
      /\ inbound \in Nat /\ outbound \in Nat
      /\ lossy \in BOOLEAN /\ lastFinalize \in Unset..FINALIZE_COOLDOWN_MS
      /\ ~lossy => ch.dropped = 0
      /\ Balance(ch, inbound, outbound)
  BY <1>4, ActiveStart
<1>6. k \in Nat /\ k <= n /\ k <= FreeLocal /\ (ch.toLocalOk => k = n)
  <2>1. ch.toLocal.n = 0 /\ ch.toLocal.front = 0
    BY <1>4, <1>5, PumpAssumption DEF RingsEmpty, RingOK, Ring
  <2>2. FreeLocal = IF ch.toLocalOk THEN RingCap ELSE 0
    BY <1>4, <2>1, PumpAssumption DEF FreeLocal, Free
  <2>3. RingCap \in Nat /\ n <= RingCap
    BY PumpAssumption
  <2> QED BY <1>4, <1>5, <2>2, <2>3 DEF Min2
<1> HIDE DEF k
<1>7. RingOK(r) /\ r.n = ch.toLocal.n + k
  BY <1>4, <1>5, <1>6, FilledOK DEF FreeLocal
<1> HIDE DEF r
<1>8. /\ ch' \in SlotType
      /\ ch'.active = ch.active /\ ch'.toLocalOk = ch.toLocalOk
      /\ ch'.state = "Closed" <=> ch.state = "Closed"
      /\ ch'.toLocal = r /\ ch'.toRemote = ch.toRemote /\ ch'.dropped = ch.dropped
  <2>1. r \in Ring /\ 0 \in AgeTo(EOF_GRACE_MS)
    BY <1>7, Ages, AgeZero DEF RingOK
  <2> QED BY <1>2, <1>3, <2>1 DEF SlotType, SameData
<1>9. Balance(ch', inbound', outbound')
  BY <1>1, <1>5, <1>6, <1>7, <1>8 DEF Balance
<1>10. inbound' \in Nat /\ outbound' \in Nat
  BY <1>1, <1>5
<1>11. ch'.toRemote.n = 0
  BY <1>4, <1>8 DEF RingsEmpty
<1> QED
  BY <1>1, <1>4, <1>5, <1>7, <1>8, <1>9, <1>10, <1>11, ActiveStep DEF AllPhases

\* The slot is freed; what its rings held is counted as dropped, and the cause
\* of a loss is on record.
LEMMA FreedIsSafe ==
  ASSUME PumpInv, ch.active, phase = "close",
         NEW c, SameData(ch, c),
         ch' = [ClosedSlot EXCEPT !.toLocalOk = ch.toLocalOk],
         archived' = archived + c.dropped + Undelivered(c),
         lastFinalize' \in Unset..FINALIZE_COOLDOWN_MS,
         degraded' \in BOOLEAN, events' = events + 1, lossy' \in BOOLEAN,
         ~lossy' => ~lossy /\ RingsEmpty(c),
         phase' = "events", UNCHANGED history
  PROVE  PumpInv'
<1>1. /\ ch.toLocalOk \in BOOLEAN
      /\ ch.toLocal.n \in Nat /\ ch.toRemote.n \in Nat /\ ch.dropped \in Nat
      /\ archived = 0
      /\ inbound \in Nat /\ outbound \in Nat
      /\ phase # "events" => events = 0
      /\ ~lossy => ch.dropped = 0
      /\ Balance(ch, inbound, outbound)
  BY ActiveStart
<1>2. /\ ch' \in SlotType /\ ch'.active = FALSE /\ ch'.state = "Closed"
      /\ ch'.toLocalOk = ch.toLocalOk /\ ch'.toLocal = EmptyRing /\ ch'.toRemote = EmptyRing
      /\ ch'.dropped = 0
  <2>1. /\ EmptyRing \in Ring /\ 0 \in 0..(ErrorLimit + 3)
        /\ 0 \in AgeTo(Max2(HALF_CLOSE_TIMEOUT_MS, ChannelTimeout))
        /\ Unset \in AgeTo(HARD_ABANDON_TIMEOUT_MS) /\ Unset \in AgeTo(EOF_GRACE_MS)
        /\ Unset \in AgeTo(EAGAIN_STALL_TIMEOUT_MS)
        /\ Unset \in AgeTo(LOCAL_SEND_STALL_TIMEOUT_MS)
    BY Ages, AgeZero, EmptyRingOK DEF RingOK
  <2> QED BY <1>1, <2>1 DEF ClosedSlot, SlotType
<1>3. archived' = ch.dropped + ch.toLocal.n + ch.toRemote.n /\ archived' \in Nat
  BY <1>1 DEF SameData, Undelivered
<1>4. /\ inbound' = inbound /\ outbound' = outbound
  BY DEF history
<1>5. TypeOK'
  <2>1. events' \in 0..1
    BY <1>1
  <2> QED BY <1>1, <1>2, <1>3, <1>4, <2>1 DEF TypeOK, SlotType
<1>6. SlotOK(ch)'
  BY <1>2, EmptyRingOK DEF SlotOK, RingsEmpty, EmptyRing
<1>7. Phases' /\ EofIsLast'
  BY <1>2 DEF Phases, EofIsLast
<1>8. BytesAccounted'
  BY <1>1, <1>2, <1>3, <1>4 DEF BytesAccounted, Balance
<1>9. LossHasCause'
  BY <1>1, <1>2, <1>3 DEF LossHasCause, RingsEmpty, SameData
<1> QED BY <1>5, <1>6, <1>7, <1>8, <1>9 DEF PumpInv

LEMMA finalizeCloseSafe == PumpInv /\ finalizeClose => PumpInv'
<1> SUFFICES ASSUME PumpInv, finalizeClose PROVE PumpInv'
  OBVIOUS
<1> DEFINE c == OpenChecks(ch)
<1>1. phase = "close" /\ FinalizeDue(c)
  BY DEF finalizeClose
<1>2. SameData(ch, c) /\ (c.state # "Closed" => ch.active)
  BY <1>1, CheckStart
<1>3. /\ ch' = [ClosedSlot EXCEPT !.toLocalOk = ch.toLocalOk]
      /\ archived' = archived + c.dropped + Undelivered(c)
      /\ lastFinalize' = 0 /\ degraded' = degraded /\ events' = events + 1
      /\ phase' = "events" /\ UNCHANGED history
  BY DEF finalizeClose
<1>4. lossy' = (lossy \/ CutDue(c))
  BY DEF finalizeClose
<1> HIDE DEF c
<1>5. ch.active
  BY <1>1, <1>2 DEF FinalizeDue
<1>6. lossy' \in BOOLEAN /\ (~lossy' => ~lossy /\ RingsEmpty(c))
  BY <1>1, <1>4 DEF FinalizeDue
<1>7. lastFinalize' \in Unset..FINALIZE_COOLDOWN_MS /\ degraded' \in BOOLEAN
  <2>1. lastFinalize' \in Unset..FINALIZE_COOLDOWN_MS
    BY <1>3, PumpAssumption DEF Unset
  <2>2. degraded' \in BOOLEAN
    BY <1>3 DEF PumpInv, TypeOK
  <2> QED BY <2>1, <2>2
<1> QED BY <1>1, <1>2, <1>3, <1>5, <1>6, <1>7, FreedIsSafe

LEMMA abandonSlotSafe == PumpInv /\ abandonSlot => PumpInv'
<1> SUFFICES ASSUME PumpInv, abandonSlot PROVE PumpInv'
  OBVIOUS
<1> DEFINE c == OpenChecks(ch)
<1>1. phase = "close" /\ AbandonDue(c)
  BY DEF abandonSlot
<1>2. SameData(ch, c) /\ (c.state # "Closed" => ch.active)
  BY <1>1, CheckStart
<1>3. /\ ch' = [ClosedSlot EXCEPT !.toLocalOk = ch.toLocalOk]
      /\ archived' = archived + c.dropped + Undelivered(c)
      /\ lastFinalize' = lastFinalize /\ events' = events + 1
      /\ phase' = "events" /\ UNCHANGED history
  BY DEF abandonSlot
<1>4. lossy' = TRUE /\ degraded' = TRUE
  BY DEF abandonSlot
<1> HIDE DEF c
<1>5. ch.active
  BY <1>1, <1>2 DEF AbandonDue
<1>6. lastFinalize' \in Unset..FINALIZE_COOLDOWN_MS
  BY <1>3 DEF PumpInv, TypeOK
<1>7. degraded' \in BOOLEAN /\ lossy' \in BOOLEAN /\ (~lossy' => ~lossy /\ RingsEmpty(c))
  BY <1>4
<1> QED BY <1>1, <1>2, <1>3, <1>5, <1>6, <1>7, FreedIsSafe

-----------------------------------------------------------------------------
LEMMA LockedReadSafe == PumpInv /\ LockedRead => PumpInv'
<1> SUFFICES ASSUME PumpInv, NEW n \in 0..InRoom, NEW eof \in BOOLEAN, NEW err \in BOOLEAN,
                    SshRead(n, eof, err) \/ SshPausedRead(n, eof, err)
             PROVE  PumpInv'
  BY DEF LockedRead
<1>1. n \in Nat
  OBVIOUS
<1> QED BY <1>1, SshReadSafe, SshPausedReadSafe

LEMMA ChunkParts ==
  ASSUME NEW r, NEW x \in Chunks(r)
  PROVE  x[1] \in Nat
  BY DEF Chunks

LEMMA LockedWriteSafe == PumpInv /\ LockedWrite => PumpInv'
<1> SUFFICES ASSUME PumpInv, LockedWrite PROVE PumpInv'
  OBVIOUS
<1>1. ASSUME NEW n \in 0..ch.toRemote.n, SshWriteAll(n) PROVE PumpInv'
  <2>1. n \in Nat
    OBVIOUS
  <2> QED BY <1>1, <2>1, SshWriteAllSafe
<1>2. ASSUME NEW x \in Chunks(ch.toRemote), NEW eagain \in BOOLEAN,
             SshWriteBlocked(x[1], x[2], eagain)
      PROVE  PumpInv'
  BY <1>2, ChunkParts, SshWriteBlockedSafe
<1>3. ASSUME NEW x \in Chunks(ch.toRemote), SshWriteError(x[1], x[2]) PROVE PumpInv'
  BY <1>3, ChunkParts, SshWriteErrorSafe
<1> QED BY <1>1, <1>2, <1>3 DEF LockedWrite

LEMMA PumpStepSafe == PumpInv /\ PumpStep => PumpInv'
<1> SUFFICES ASSUME PumpInv, PumpStep PROVE PumpInv'
  OBVIOUS
<1>1. CASE StartPump \/ SshIdle \/ LocalSendIdle \/ SshWriteIdle \/ EndLoop
  BY <1>1, MoveOnSafe
<1>2. CASE LockedRead \/ LockedWrite
  BY <1>2, LockedReadSafe, LockedWriteSafe
<1>3. ASSUME NEW n \in 0..ch.toLocal.n, LocalSendAll(n) PROVE PumpInv'
  <2>1. n \in Nat
    OBVIOUS
  <2> QED BY <1>3, <2>1, LocalSendAllSafe
<1>4. ASSUME NEW x \in Chunks(ch.toLocal), NEW eagain \in BOOLEAN,
             LocalSendBlocked(x[1], x[2], eagain)
      PROVE  PumpInv'
  BY <1>4, ChunkParts, LocalSendBlockedSafe
<1>5. ASSUME NEW x \in Chunks(ch.toLocal), LocalSendError(x[1], x[2]) PROVE PumpInv'
  BY <1>5, ChunkParts, LocalSendErrorSafe
<1>6. ASSUME NEW n \in 0..OutRoom, NEW eof \in BOOLEAN, NEW full \in BOOLEAN,
             LocalRead(n, eof, full)
      PROVE  PumpInv'
  <2>1. n \in Nat
    OBVIOUS
  <2> QED BY <1>6, <2>1, LocalReadSafe
<1>7. ASSUME NEW n \in 0..Min2(EofPump, InRoom), SendEof(n) PROVE PumpInv'
  <2>1. n \in Nat /\ n <= EofPump
    <3>1. EofPump \in Nat /\ InRoom \in Int
      <4>1. inbound \in Nat /\ outbound \in Nat
        BY DEF PumpInv, TypeOK
      <4> QED BY <4>1, PumpAssumption DEF InRoom, Room, Max2
    <3> QED BY <3>1 DEF Min2
  <2> QED BY <1>7, <2>1, SendEofSafe
<1>8. CASE LocalReadSkip \/ CloseWait \/ FinalizeHalf \/ finalizeClose \/ abandonSlot
  BY <1>8, LocalReadSkipSafe, CloseWaitSafe, FinalizeHalfSafe, finalizeCloseSafe,
     abandonSlotSafe
<1> QED BY <1>1, <1>2, <1>3, <1>4, <1>5, <1>6, <1>7, <1>8 DEF PumpStep

LEMMA NextSafe == PumpInv /\ [Next]_vars => PumpInv'
  BY TickSafe, bindChannelSafe, RecycleStaleSafe, PumpStepSafe, StutterSafe DEF Next

\* The invariant holds in every behaviour of the pump.
THEOREM PumpSafety == Spec => []PumpInv
<1>1. Init => PumpInv
  BY InitSafe
<1>2. PumpInv /\ [Next]_vars => PumpInv'
  BY NextSafe
<1> QED BY <1>1, <1>2, PTL DEF Spec

\* Every field of the slot keeps its type; no ring, prepend buffer included,
\* holds more than its capacity and one buffer.
THEOREM PumpTypeCorrect == Spec => []TypeOK
<1>1. PumpInv => TypeOK
  BY DEF PumpInv
<1> QED BY <1>1, PumpSafety, PTL

\* ssh_transport.cpp passes on, buffers or counts as dropped every byte it
\* reads, for any number of bytes and any mix of partial sends, stalls and
\* errors, unless the channel was bound without a toLocal ring.
THEOREM PumpBytesAccounted == Spec => []BytesAccounted
<1>1. PumpInv => BytesAccounted
  BY DEF PumpInv
<1> QED BY <1>1, PumpSafety, PTL

\* A close that no error and no deadline forces loses no byte.
THEOREM PumpLossHasCause == Spec => []LossHasCause
<1>1. PumpInv => LossHasCause
  BY DEF PumpInv
<1> QED BY <1>1, PumpSafety, PTL

\* Once libssh2_channel_send_eof was called nothing waits to be written.
THEOREM PumpEofIsLast == Spec => []EofIsLast
<1>1. PumpInv => EofIsLast
  BY DEF PumpInv
<1> QED BY <1>1, PumpSafety, PTL

-----------------------------------------------------------------------------
(* The slot has the life cycle of ChannelSlot.  All operators but the two   *)
(* that free a slot leave it as it is or turn Open into Draining.           *)

\* What an EXCEPT on another field keeps.
Fields(c) == {"active", "state"} \subseteq DOMAIN c

\* d is c, or c after beginClose, apart from data and timers.
Later(c, d) ==
  /\ Fields(d) /\ d.active = c.active
  /\ d.state = c.state \/ (c.active /\ c.state = "Open" /\ d.state = "Draining")

\* Two such changes make one.
LEMMA LaterTrans ==
  ASSUME NEW c, NEW d, NEW e, Later(c, d), Later(d, e)
  PROVE  Later(c, e)
  BY DEF Later

LEMMA LaterSelf == ASSUME NEW c, Fields(c) PROVE Later(c, c)
  BY DEF Later

\* The operators that may begin a close.
LEMMA LaterBegin ==
  ASSUME NEW c, Fields(c)
  PROVE  Later(c, beginClose(c))
<1>1. CASE ~c.active \/ c.state # "Open"
  BY <1>1 DEF beginClose, Later
<1>2. CASE ~(~c.active \/ c.state # "Open")
  <2>1. beginClose(c) = [c EXCEPT !.state = "Draining", !.closeStart = 0]
    BY <1>2 DEF beginClose
  <2> QED BY <1>2, <2>1 DEF Later, Fields
<1> QED BY <1>1, <1>2

LEMMA LaterError ==
  ASSUME NEW c, Fields(c)
  PROVE  Later(c, CountError(c))
<1> DEFINE v == Min2(c.errors + 1, ErrorLimit + 3)
           e == [c EXCEPT !.errors = v]
<1>1. CountError(c) = IF e.errors > ErrorLimit THEN beginClose(e) ELSE e
  BY DEF CountError
<1> HIDE DEF v
<1>2. Later(c, e)
  BY DEF Fields, Later
<1> HIDE DEF e
<1> QED BY <1>1, <1>2, LaterBegin, LaterTrans DEF Later

LEMMA LaterLocalStall ==
  ASSUME NEW c, Fields(c)
  PROVE  Later(c, LocalStallCheck(c))
<1> DEFINE b == beginClose(c)
           e == [b EXCEPT !.firstLocalSendEagain = 0]
<1>1. LocalStallCheck(c) = e \/ LocalStallCheck(c) = c
  BY DEF LocalStallCheck
<1>2. Later(c, b)
  BY LaterBegin
<1> HIDE DEF b
<1>3. Later(b, e)
  BY <1>2 DEF Fields, Later
<1> HIDE DEF e
<1> QED BY <1>1, <1>2, <1>3, LaterTrans, LaterSelf

LEMMA LaterSshStall ==
  ASSUME NEW c, Fields(c)
  PROVE  Later(c, SshStallCheck(c))
<1> DEFINE b == beginClose(c)
           e == [b EXCEPT !.firstEagain = 0]
<1>1. SshStallCheck(c) = e \/ SshStallCheck(c) = c
  BY DEF SshStallCheck
<1>2. Later(c, b)
  BY LaterBegin
<1> HIDE DEF b
<1>3. Later(b, e)
  BY <1>2 DEF Fields, Later
<1> HIDE DEF e
<1> QED BY <1>1, <1>2, <1>3, LaterTrans, LaterSelf

LEMMA LaterChecks ==
  ASSUME NEW c, Fields(c)
  PROVE  Later(c, OpenChecks(c))
<1> DEFINE forwards == c.remoteEof /\ ~c.localShutdownSent /\ c.toRemote.n = 0
           s == [c EXCEPT !.localShutdownSent = @ \/ forwards]
<1>1. \/ OpenChecks(c) = c \/ OpenChecks(c) = beginClose(c)
      \/ OpenChecks(c) = beginClose(s) \/ OpenChecks(c) = s
  BY DEF OpenChecks
<1> HIDE DEF forwards
<1>2. Later(c, s)
  BY DEF Fields, Later
<1> HIDE DEF s
<1>3. Later(c, beginClose(s))
  BY <1>2, LaterBegin, LaterTrans DEF Later
<1> QED BY <1>1, <1>2, <1>3, LaterBegin, LaterSelf

\* A slot as seen from the tunnel.
Life(c) == IF c.active THEN c.state ELSE "Free"
Slot == INSTANCE ChannelSlot
          WITH life <- Life(ch),
               cooling <- (lastFinalize # Unset /\ lastFinalize < FINALIZE_COOLDOWN_MS),
               owed <- (events # 0)

\* An abandoned slot stays free until its session was replaced.
Replacing == degraded => phase = "events" /\ ~ch.active

\* A step of a round that frees nothing.
QuietStep ==
  /\ phase # "events"
  /\ Later(ch, ch')
  /\ UNCHANGED outcome

SlotStep == Slot!Next \/ UNCHANGED Slot!slotVars

\* What the invariant says of the two fields.
LEMMA SlotKnown ==
  ASSUME PumpInv
  PROVE  /\ Fields(ch) /\ ch.active \in BOOLEAN
         /\ ch.state \in {"Closed", "Open", "Draining"}
         /\ ch.active <=> ch.state # "Closed"
<1>1. ch \in SlotType /\ (ch.active <=> ch.state # "Closed")
  BY DEF PumpInv, SlotOK
<1> QED BY <1>1 DEF SlotType, Fields

\* Such a step begins a close or is not seen from the tunnel.
LEMMA QuietIsSlotStep ==
  ASSUME PumpInv, Replacing, QuietStep
  PROVE  Replacing' /\ SlotStep
<1>1. /\ ~degraded /\ lastFinalize' = lastFinalize
      /\ degraded' = degraded /\ events' = events
  BY DEF Replacing, QuietStep, outcome
<1>2. /\ ch'.active = ch.active
      /\ ch'.state = ch.state \/ (ch.active /\ ch.state = "Open" /\ ch'.state = "Draining")
  BY DEF QuietStep, Later
<1>3. CASE ch'.state = ch.state
  <2>1. Life(ch)' = Life(ch)
    BY <1>2, <1>3 DEF Life
  <2> QED BY <1>1, <2>1 DEF Replacing, SlotStep, Slot!slotVars
<1>4. CASE ch.active /\ ch.state = "Open" /\ ch'.state = "Draining"
  <2>1. Life(ch) = "Open" /\ Life(ch)' = "Draining"
    BY <1>2, <1>4 DEF Life
  <2>2. Slot!BeginClose
    BY <1>1, <2>1 DEF Slot!BeginClose, Slot!DegradedOrNot
  <2> QED BY <1>1, <2>2 DEF Replacing, SlotStep, Slot!Next
<1> QED BY <1>2, <1>3, <1>4

\* Steps that leave the slot alone.
LEMMA MoveOnQuiet ==
  ASSUME PumpInv, StartPump \/ SshIdle \/ LocalSendIdle \/ SshWriteIdle
  PROVE  QuietStep
<1>1. Later(ch, ch)
  BY SlotKnown, LaterSelf
<1>2. ch' = ch /\ phase # "events" /\ UNCHANGED outcome
  BY DEF StartPump, SshIdle, LocalSendIdle, SshWriteIdle
<1> QED BY <1>1, <1>2 DEF QuietStep

LEMMA RecycleQuiet == ASSUME PumpInv, RecycleStale PROVE QuietStep
  BY SlotKnown, LaterBegin DEF RecycleStale, QuietStep

\* Phases 1 to 4 as long as they free nothing.
LEMMA SshReadQuiet ==
  ASSUME PumpInv, NEW n, NEW eof, NEW err,
         SshRead(n, eof, err) \/ SshPausedRead(n, eof, err)
  PROVE  QuietStep
<1> DEFINE a == AfterSshRead(n)
<1>1. Later(ch, a)
  <2>1. CASE n = 0
    BY <2>1, SlotKnown, LaterSelf DEF AfterSshRead
  <2>2. CASE n # 0
    <3> DEFINE r == Filled(ch.toLocal, n)
    <3>1. a = [ch EXCEPT !.toLocal = r, !.lastActivity = 0,
                         !.errors = 0, !.firstEagain = Unset]
      BY <2>2 DEF AfterSshRead
    <3> HIDE DEF r
    <3> QED BY <3>1, SlotKnown DEF Later, Fields
  <2> QED BY <2>1, <2>2
<1> HIDE DEF a
<1>2. ASSUME NEW c, Later(ch, c) PROVE Later(ch, [c EXCEPT !.remoteEof = eof])
  BY <1>2 DEF Later, Fields
<1>3. CASE SshRead(n, eof, err)
  <2> DEFINE full == FreeLocal = 0 \/ (n > 0 /\ ch.toLocal.n + n > High)
             c == [a EXCEPT !.sshReadPaused = full]
             d == IF err THEN CountError(c) ELSE c
  <2>1. ch' = [d EXCEPT !.remoteEof = eof] /\ phase = "sshRead" /\ UNCHANGED outcome
    BY <1>3 DEF SshRead, a
  <2> HIDE DEF full
  <2>2. Later(ch, c)
    BY <1>1 DEF Later, Fields
  <2> HIDE DEF c
  <2>3. Later(ch, d)
    BY <2>2, LaterError, LaterTrans DEF Later
  <2> HIDE DEF d
  <2> QED BY <2>1, <2>3, <1>2 DEF QuietStep
<1>4. CASE SshPausedRead(n, eof, err)
  <2> DEFINE d == IF err THEN CountError(ch) ELSE a
  <2>1. ch' = [d EXCEPT !.remoteEof = eof] /\ phase = "sshRead" /\ UNCHANGED outcome
    BY <1>4 DEF SshPausedRead, a
  <2>2. Later(ch, d)
    BY <1>1, SlotKnown, LaterError
  <2> HIDE DEF d
  <2> QED BY <2>1, <2>2, <1>2 DEF QuietStep
<1> QED BY <1>3, <1>4

\* What a send leaves, before the stall check.
LEMMA LaterSend ==
  ASSUME PumpInv, NEW k, NEW r
  PROVE  Later(ch, AfterLocalSend(k, r)) /\ Later(ch, AfterSshWrite(k, r))
<1>1. Later(ch, AfterLocalSend(k, r))
  BY SlotKnown DEF AfterLocalSend, Later, Fields
<1>2. Later(ch, AfterSshWrite(k, r))
  BY SlotKnown DEF AfterSshWrite, Later, Fields
<1> QED BY <1>1, <1>2

LEMMA LocalSendQuiet ==
  ASSUME PumpInv, NEW k, NEW v, NEW eagain,
         LocalSendAll(k) \/ LocalSendBlocked(k, v, eagain) \/ LocalSendError(k, v)
  PROVE  QuietStep
<1>1. phase # "events" /\ UNCHANGED outcome
  BY DEF LocalSendAll, LocalSendBlocked, LocalSendError, LocalSend
<1>2. CASE LocalSendAll(k)
  BY <1>1, <1>2, LaterSend, LaterLocalStall, LaterTrans DEF LocalSendAll, QuietStep, Later
<1>3. CASE LocalSendBlocked(k, v, eagain)
  <2> DEFINE c == AfterLocalSend(k, [n |-> ch.toLocal.n - k, front |-> v])
             d == IF eagain /\ c.firstLocalSendEagain = Unset
                  THEN [c EXCEPT !.firstLocalSendEagain = 0] ELSE c
  <2>1. ch' = LocalStallCheck(d)
    BY <1>3 DEF LocalSendBlocked
  <2>2. Later(ch, c)
    BY LaterSend
  <2> HIDE DEF c
  <2>3. Later(ch, d)
    BY <2>2 DEF Later, Fields
  <2> HIDE DEF d
  <2> QED BY <1>1, <2>1, <2>3, LaterLocalStall, LaterTrans DEF QuietStep, Later
<1>4. CASE LocalSendError(k, v)
  <2> DEFINE c == AfterLocalSend(k, [n |-> ch.toLocal.n - k - v, front |-> 0])
             d == [c EXCEPT !.dropped = @ + v, !.localEof = TRUE]
  <2>1. ch' = LocalStallCheck(d)
    BY <1>4 DEF LocalSendError
  <2>2. Later(ch, c)
    BY LaterSend
  <2> HIDE DEF c
  <2>3. Later(ch, d)
    BY <2>2 DEF Later, Fields
  <2> HIDE DEF d
  <2> QED BY <1>1, <2>1, <2>3, LaterLocalStall, LaterTrans DEF QuietStep, Later
<1> QED BY <1>2, <1>3, <1>4

LEMMA SshWriteQuiet ==
  ASSUME PumpInv, NEW k, NEW v, NEW eagain,
         SshWriteAll(k) \/ SshWriteBlocked(k, v, eagain) \/ SshWriteError(k, v)
  PROVE  QuietStep
<1>1. phase # "events" /\ UNCHANGED outcome
  BY DEF SshWriteAll, SshWriteBlocked, SshWriteError, SshWrite
<1>2. CASE SshWriteAll(k)
  BY <1>1, <1>2, LaterSend, LaterSshStall, LaterTrans DEF SshWriteAll, QuietStep, Later
<1>3. CASE SshWriteBlocked(k, v, eagain)
  <2> DEFINE c == AfterSshWrite(k, [n |-> ch.toRemote.n - k, front |-> v])
             d == IF eagain /\ c.firstEagain = Unset
                  THEN [c EXCEPT !.firstEagain = 0] ELSE c
  <2>1. ch' = SshStallCheck(d)
    BY <1>3 DEF SshWriteBlocked
  <2>2. Later(ch, c)
    BY LaterSend
  <2> HIDE DEF c
  <2>3. Later(ch, d)
    BY <2>2 DEF Later, Fields
  <2> HIDE DEF d
  <2> QED BY <1>1, <2>1, <2>3, LaterSshStall, LaterTrans DEF QuietStep, Later
<1>4. CASE SshWriteError(k, v)
  <2> DEFINE c == AfterSshWrite(k, [n |-> ch.toRemote.n - k, front |-> v])
  <2>1. ch' = SshStallCheck(CountError(c))
    BY <1>4 DEF SshWriteError
  <2>2. Later(ch, c)
    BY LaterSend
  <2> HIDE DEF c
  <2>3. Later(ch, CountError(c))
    BY <2>2, LaterError, LaterTrans DEF Later
  <2> QED BY <1>1, <2>1, <2>3, LaterSshStall, LaterTrans DEF QuietStep, Later
<1> QED BY <1>2, <1>3, <1>4

LEMMA LocalReadQuiet ==
  ASSUME PumpInv, NEW n, NEW eof, NEW full, LocalRead(n, eof, full) \/ LocalReadSkip
  PROVE  QuietStep
<1>1. phase # "events" /\ UNCHANGED outcome
  BY DEF LocalRead, LocalReadSkip
<1>2. CASE LocalReadSkip
  <2> DEFINE p == LocalPaused
  <2>1. ch' = [ch EXCEPT !.localReadPaused = p]
    BY <1>2 DEF LocalReadSkip
  <2> HIDE DEF p
  <2> QED BY <1>1, <2>1, SlotKnown DEF QuietStep, Later, Fields
<1>3. CASE LocalRead(n, eof, full)
  <2> DEFINE c == [ch EXCEPT !.localReadPaused = full, !.localEof = eof]
             r == Filled(c.toRemote, n)
  <2>1. ch' = c \/ ch' = [c EXCEPT !.toRemote = r, !.lastActivity = 0]
    BY <1>3 DEF LocalRead
  <2>2. Later(ch, c)
    BY SlotKnown DEF Later, Fields
  <2> HIDE DEF c, r
  <2> QED BY <1>1, <2>1, <2>2 DEF QuietStep, Later, Fields
<1> QED BY <1>2, <1>3

LEMMA CloseQuiet ==
  ASSUME PumpInv, NEW n, CloseWait \/ FinalizeHalf \/ SendEof(n)
  PROVE  QuietStep
<1> DEFINE c == OpenChecks(ch)
<1>1. phase # "events" /\ UNCHANGED outcome
  BY DEF CloseWait, FinalizeHalf, SendEof
<1>2. Later(ch, c)
  BY SlotKnown, LaterChecks
<1>3. CASE CloseWait
  BY <1>1, <1>2, <1>3 DEF CloseWait, QuietStep
<1>4. CASE FinalizeHalf
  <2>1. ch' = [c EXCEPT !.closeComplete = TRUE]
    BY <1>4 DEF FinalizeHalf
  <2> HIDE DEF c
  <2> QED BY <1>1, <1>2, <2>1 DEF QuietStep, Later, Fields
<1>5. CASE SendEof(n)
  <2> DEFINE r == Filled(c.toLocal, Min2(n, FreeLocal))
  <2>1. ch' = [c EXCEPT !.eofSent = 0, !.toLocal = r]
    BY <1>5 DEF SendEof
  <2> HIDE DEF c, r
  <2> QED BY <1>1, <1>2, <2>1 DEF QuietStep, Later, Fields
<1> QED BY <1>3, <1>4, <1>5

\* A close that begins in checkCloses is not past the hard deadline.
LEMMA AbandonsOnlyDraining ==
  ASSUME PumpInv, AbandonDue(OpenChecks(ch))
  PROVE  ch.active /\ ch.state = "Draining"
<1> DEFINE c == OpenChecks(ch)
           forwards == ch.remoteEof /\ ~ch.localShutdownSent /\ ch.toRemote.n = 0
           s == [ch EXCEPT !.localShutdownSent = @ \/ forwards]
<1>1. c.state = "Draining" /\ c.closeStart > HARD_ABANDON_TIMEOUT_MS
  BY DEF AbandonDue
<1>2. Later(ch, c)
  BY SlotKnown, LaterChecks
<1>3. ASSUME ch.state = "Open" PROVE FALSE
  <2>1. c = ch \/ c = beginClose(ch) \/ c = beginClose(s) \/ c = s
    BY DEF OpenChecks
  <2>2. ch \in SlotType /\ ch.active
    BY <1>3, SlotKnown DEF PumpInv, SlotOK
  <2>3. s \in SlotType /\ s.active /\ s.state = "Open"
    BY <1>3, <2>2 DEF SlotType
  <2> HIDE DEF s
  <2>4. ASSUME NEW d \in SlotType, d.active, d.state = "Open"
        PROVE  beginClose(d).closeStart = 0
    <3>1. beginClose(d) = [d EXCEPT !.state = "Draining", !.closeStart = 0]
      BY <2>4 DEF beginClose
    <3> QED BY <3>1 DEF SlotType
  <2>5. c.closeStart = 0
    BY <1>1, <1>3, <2>1, <2>2, <2>3, <2>4
  <2> QED BY <1>1, <2>5, Ages
<1> QED BY <1>1, <1>2, <1>3, SlotKnown DEF Later

\* The steps that free the slot, bind it, let time pass and end the round.
LEMMA AbandonIsSlotStep ==
  ASSUME PumpInv, Replacing, abandonSlot
  PROVE  Replacing' /\ SlotStep
<1>1. ch.active /\ ch.state = "Draining"
  BY AbandonsOnlyDraining DEF abandonSlot
<1>2. /\ events = 0 /\ events' = 1 /\ degraded' = TRUE /\ lastFinalize' = lastFinalize
      /\ phase' = "events" /\ ch'.active = FALSE
  BY DEF abandonSlot, PumpInv, Phases, ClosedSlot
<1>3. Slot!Abandon
  BY <1>1, <1>2 DEF Slot!Abandon, Life
<1> QED BY <1>2, <1>3 DEF Replacing, SlotStep, Slot!Next

LEMMA FinalizeIsSlotStep ==
  ASSUME PumpInv, Replacing, finalizeClose, FINALIZE_COOLDOWN_MS > 0
  PROVE  Replacing' /\ SlotStep
<1> DEFINE c == OpenChecks(ch)
<1>1. c.state = "Draining"
  BY DEF finalizeClose, FinalizeDue
<1>2. Later(ch, c)
  BY SlotKnown, LaterChecks
<1>3. ch.active /\ ch.state \in {"Open", "Draining"}
  BY <1>1, <1>2, SlotKnown DEF Later
<1>4. /\ events = 0 /\ events' = 1 /\ degraded' = degraded /\ lastFinalize' = 0
      /\ ~degraded /\ ch'.active = FALSE
  BY DEF finalizeClose, PumpInv, Phases, ClosedSlot, Replacing
<1>5. Slot!Finalize
  BY <1>3, <1>4 DEF Slot!Finalize, Slot!DegradedOrNot, Life, Unset
<1> QED BY <1>4, <1>5 DEF Replacing, SlotStep, Slot!Next

LEMMA BindIsSlotStep ==
  ASSUME PumpInv, Replacing, NEW toLocalOk \in BOOLEAN, NEW toRemoteOk \in BOOLEAN,
         bindChannel(toLocalOk, toRemoteOk)
  PROVE  Replacing' /\ SlotStep
<1>1. /\ ~ch.active /\ ch'.active = TRUE /\ ch'.state = "Open"
      /\ lastFinalize = Unset \/ lastFinalize >= FINALIZE_COOLDOWN_MS
      /\ lastFinalize' = lastFinalize /\ degraded' = degraded /\ events' = events
      /\ phase = "accept"
  BY DEF bindChannel, ClosedSlot
<1>2. events = 0 /\ ~degraded
  BY <1>1 DEF PumpInv, Phases, Replacing
<1>3. ~(lastFinalize # Unset /\ lastFinalize < FINALIZE_COOLDOWN_MS)
  <2>1. lastFinalize \in Int /\ FINALIZE_COOLDOWN_MS \in Int
    BY PumpAssumption DEF PumpInv, TypeOK, Unset
  <2> QED BY <1>1, <2>1
<1>4. Slot!Bind
  BY <1>1, <1>2, <1>3 DEF Slot!Bind, Life
<1> QED BY <1>1, <1>2, <1>4 DEF Replacing, SlotStep, Slot!Next

LEMMA TickIsSlotStep ==
  ASSUME PumpInv, Replacing, Tick
  PROVE  Replacing' /\ SlotStep
<1> DEFINE cool == lastFinalize # Unset /\ lastFinalize < FINALIZE_COOLDOWN_MS
<1>1. degraded' = degraded /\ events' = events /\ phase' = phase
  BY DEF Tick
<1>2. Later(ch, ch') /\ ch'.state = ch.state
  <2>1. CASE ~ch.active
    BY <2>1, SlotKnown, LaterSelf DEF Tick
  <2>2. CASE ch.active
    BY <2>2, SlotKnown DEF Tick, Later, Fields
  <2> QED BY <2>1, <2>2, SlotKnown
<1>3. Life(ch') = Life(ch) /\ ch'.active = ch.active
  BY <1>2 DEF Later, Life
<1>4. Replacing'
  BY <1>1, <1>3 DEF Replacing
<1>5. cool' => cool
  <2>1. lastFinalize \in Int /\ FINALIZE_COOLDOWN_MS \in Int
    BY PumpAssumption DEF PumpInv, TypeOK, Unset
  <2>2. lastFinalize' = IF lastFinalize = Unset THEN Unset
                        ELSE Min2(lastFinalize + 1, FINALIZE_COOLDOWN_MS)
    BY DEF Tick
  <2> QED BY <2>1, <2>2 DEF Min2
<1>6. CASE cool /\ ~cool'
  <2>1. Slot!CooledDown
    BY <1>1, <1>3, <1>6 DEF Slot!CooledDown
  <2> QED BY <1>4, <2>1 DEF SlotStep, Slot!Next
<1>7. CASE cool' = cool
  BY <1>1, <1>3, <1>4, <1>7 DEF SlotStep, Slot!slotVars
<1>8. cool' \in BOOLEAN /\ cool \in BOOLEAN
  OBVIOUS
<1> QED BY <1>5, <1>6, <1>7, <1>8

LEMMA EndLoopIsSlotStep ==
  ASSUME PumpInv, Replacing, EndLoop
  PROVE  Replacing' /\ SlotStep
<1>1. /\ events' = 0 /\ degraded' = FALSE /\ ch' = ch /\ lastFinalize' = lastFinalize
  BY DEF EndLoop
<1>2. degraded \in BOOLEAN
  BY DEF PumpInv, TypeOK
<1>3. CASE degraded
  <2>1. Life(ch) = "Free" /\ Life(ch') = "Free"
    BY <1>1, <1>3 DEF Replacing, Life
  <2>2. Slot!ReportAndFail
    BY <1>1, <1>3, <2>1 DEF Slot!ReportAndFail, Slot!Emptied
  <2> QED BY <1>1, <2>2 DEF Replacing, SlotStep, Slot!Next
<1>4. CASE ~degraded
  <2>1. Slot!Report
    BY <1>1, <1>2, <1>4 DEF Slot!Report
  <2> QED BY <1>1, <2>1 DEF Replacing, SlotStep, Slot!Next
<1> QED BY <1>2, <1>3, <1>4

LEMMA PumpStepIsSlotStep ==
  ASSUME PumpInv, Replacing, PumpStep, FINALIZE_COOLDOWN_MS > 0
  PROVE  Replacing' /\ SlotStep
<1>1. CASE StartPump \/ SshIdle \/ LocalSendIdle \/ SshWriteIdle
  BY <1>1, MoveOnQuiet, QuietIsSlotStep
<1>2. CASE LockedRead
  BY <1>2, SshReadQuiet, QuietIsSlotStep DEF LockedRead
<1>3. CASE LockedWrite
  BY <1>3, SshWriteQuiet, QuietIsSlotStep DEF LockedWrite
<1>4. ASSUME NEW n, LocalSendAll(n) PROVE Replacing' /\ SlotStep
  BY <1>4, LocalSendQuiet, QuietIsSlotStep
<1>5. ASSUME NEW x, NEW eagain, LocalSendBlocked(x[1], x[2], eagain)
      PROVE  Replacing' /\ SlotStep
  BY <1>5, LocalSendQuiet, QuietIsSlotStep
<1>6. ASSUME NEW x, LocalSendError(x[1], x[2]) PROVE Replacing' /\ SlotStep
  BY <1>6, LocalSendQuiet, QuietIsSlotStep
<1>7. ASSUME NEW n, NEW eof, NEW full, LocalRead(n, eof, full)
      PROVE  Replacing' /\ SlotStep
  BY <1>7, LocalReadQuiet, QuietIsSlotStep
<1>8. CASE LocalReadSkip
  BY <1>8, LocalReadQuiet, QuietIsSlotStep
<1>9. ASSUME NEW n, CloseWait \/ FinalizeHalf \/ SendEof(n)
      PROVE  Replacing' /\ SlotStep
  BY <1>9, CloseQuiet, QuietIsSlotStep
<1>10. CASE finalizeClose \/ abandonSlot \/ EndLoop
  BY <1>10, FinalizeIsSlotStep, AbandonIsSlotStep, EndLoopIsSlotStep
<1> QED BY <1>1, <1>2, <1>3, <1>4, <1>5, <1>6, <1>7, <1>8, <1>9, <1>10 DEF PumpStep

\* ssh_transport.cpp and ssh_channel.cpp keep the life cycle the tunnel relies
\* on: a slot is bound again only after its close event was taken and its
\* cooldown is over, it is abandoned only while Draining, and an abandoned slot
\* marks the session degraded.  The cooldown is 50 ms in channel_slot_alloc.h.
THEOREM PumpIsSlot ==
  ASSUME FINALIZE_COOLDOWN_MS > 0
  PROVE  Spec => Slot!Spec
<1>1. Init => Replacing /\ Slot!Init
  BY DEF Init, Replacing, Slot!Init, Life, ClosedSlot
<1>2. PumpInv /\ Replacing /\ [Next]_vars => Replacing' /\ [Slot!Next]_Slot!slotVars
  <2> SUFFICES ASSUME PumpInv, Replacing, [Next]_vars
               PROVE  Replacing' /\ SlotStep
    BY DEF SlotStep
  <2>1. CASE Next
    <3>1. CASE RecycleStale
      BY <3>1, RecycleQuiet, QuietIsSlotStep
    <3> QED BY <2>1, <3>1, TickIsSlotStep, BindIsSlotStep, PumpStepIsSlotStep DEF Next
  <2>2. CASE UNCHANGED vars
    BY <2>2 DEF vars, outcome, Replacing, SlotStep, Slot!slotVars, Life
  <2> QED BY <2>1, <2>2
<1> QED BY <1>1, <1>2, PumpSafety, PTL DEF Spec, Slot!Spec
=============================================================================
