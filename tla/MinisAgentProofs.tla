-------------------------- MODULE MinisAgentProofs --------------------------
(***************************************************************************)
(* The notice of an applied cfg.txt survives restarts, power failures and  *)
(* lost answers, for every queue depth and any number of versions, alerts  *)
(* and power failures.  NoticeKept is not inductive: that an acknowledged  *)
(* notice may remove the marker depends on it speaking for the change that *)
(* is owed, hence on the version the boot runs, hence on what was stored   *)
(* and fetched before.                                                     *)
(***************************************************************************)
EXTENDS MinisAgent, SequenceTheorems, TLAPS

HasNotice(q) == \E i \in 1..Len(q) : q[i] = "notice"

\* The versions only grow on their way from the server to the flash: what is
\* stored is not newer than what waits to be stored, nor that than what waits
\* in the queue, nor that than what the server has.
Versioned ==
    /\ stored <= published
    /\ mainAt \notin {"mark", "restart"} => running = stored
    /\ mainAt \in {"mark", "restart"} => stored = taken
    /\ mainAt = "save" => stored <= taken /\ taken <= published
    /\ cfgQueue # <<>> =>
         /\ stored <= Head(cfgQueue) /\ Head(cfgQueue) <= published
         /\ mainAt = "save" => taken <= Head(cfgQueue)

\* A change that is owed has been stored, and a boot that has not stored
\* another one yet runs it.
Owing == owed <= stored /\ (mainAt # "restart" => owed <= running)

\* A queued notice speaks for the change that is owed, unless that was marked
\* after the notice was queued.
Noticed == mainAt # "restart" /\ HasNotice(alerts) => owed <= notice

\* A delivered notice is about to remove its marker: nothing is owed any more,
\* or the change was marked in the meantime.
Clearing == beatAt = "clear" => owed = 0 \/ overlap \/ mainAt = "restart"

\* The alert being posted is still in the queue.
Posting == beatAt = "post" => alerts # <<>>

MinisInv ==
    /\ TypeOK /\ Versioned /\ Owing /\ Noticed /\ Clearing /\ Posting
    /\ NoticeKept

-----------------------------------------------------------------------------
(* The queues. *)

Alerts == {"notice", "genesis", "app"}
AlertQueue == alerts \in Seq(Alerts) /\ Len(alerts) <= AlertDepth

\* Neither the application nor the genesis report queues a notice.
LEMMA QueueAlertFacts ==
    ASSUME TypeOK, NEW a \in {"genesis", "app"}, queueAlert(a)
    PROVE  /\ AlertQueue' /\ notified' \in Nat
           /\ HasNotice(alerts') => HasNotice(alerts)
           /\ alerts # <<>> => alerts' # <<>>
<1>1. alerts \in Seq(Alerts) /\ Len(alerts) <= AlertDepth /\ notified \in Nat
      /\ Len(alerts) \in Nat
  BY LenProperties DEF TypeOK, Alerts
<1>2. CASE CanQueue
  <2>1. alerts' = Append(alerts, a) /\ notified' = notified + 1
        /\ Len(alerts) < AlertDepth
    BY <1>2 DEF queueAlert, CanQueue
  <2>2. /\ alerts' \in Seq(Alerts) /\ Len(alerts') = Len(alerts) + 1
        /\ alerts'[Len(alerts) + 1] = a
        /\ \A i \in 1..Len(alerts) : alerts'[i] = alerts[i]
    BY <1>1, <2>1, AppendProperties DEF Alerts
  <2>3. HasNotice(alerts') => HasNotice(alerts)
    BY <1>1, <2>2 DEF HasNotice
  <2>4. AlertQueue' /\ alerts' # <<>>
    BY <1>1, <2>1, <2>2, MinisAssumption DEF AlertQueue
  <2> QED BY <1>1, <2>1, <2>3, <2>4
<1>3. CASE ~CanQueue
  BY <1>1, <1>3 DEF queueAlert, AlertQueue
<1> QED BY <1>2, <1>3

\* Only the alert that was sent leaves the queue.
LEMMA TailFacts ==
    ASSUME TypeOK, alerts # <<>>, alerts' = Tail(alerts)
    PROVE  /\ AlertQueue'
           /\ HasNotice(alerts') => HasNotice(alerts)
           /\ Head(alerts) = "notice" => HasNotice(alerts)
<1>1. /\ alerts \in Seq(Alerts) /\ Len(alerts) <= AlertDepth
      /\ Len(alerts) \in Nat /\ Len(alerts) > 0
  BY LenProperties, EmptySeq DEF TypeOK, Alerts
<1>2. /\ alerts' \in Seq(Alerts) /\ Len(alerts') = Len(alerts) - 1
      /\ \A i \in 1..Len(alerts') : alerts'[i] = alerts[i + 1]
  BY <1>1, HeadTailProperties
<1>3. Head(alerts) = alerts[1]
  BY <1>1
<1>4. AlertQueue'
  BY <1>1, <1>2, MinisAssumption DEF AlertQueue
<1> QED BY <1>1, <1>2, <1>3, <1>4 DEF HasNotice

LEMMA AfterSendFacts ==
    ASSUME TypeOK, NEW r, NEW left, AfterSend(r, left)
    PROVE  beatAt' = "wait" /\ notified' \in Nat
  BY DEF AfterSend, TypeOK

-----------------------------------------------------------------------------
(* Every step keeps the invariant. *)

LEMMA InitSafe == Init => MinisInv
<1> SUFFICES ASSUME Init PROVE MinisInv
  OBVIOUS
<1>1. 0 \in Versions
  BY MinisAssumption DEF Versions
<1>2. Len(<<>>) = 0 /\ <<>> \in Seq(Versions) /\ <<>> \in Seq(Alerts)
  OBVIOUS
<1>3. TypeOK
  <2>1. {marker, genesisMark, keyAuth, overlap} \subseteq BOOLEAN
    BY DEF Init
  <2>2. powerLosses \in 0..MaxPowerLoss /\ appAlerts \in 0..MaxAppAlerts
    BY MinisAssumption DEF Init
  <2>3. Len(cfgQueue) <= 1 /\ Len(alerts) <= AlertDepth /\ notified \in Nat
    BY <1>2, MinisAssumption DEF Init
  <2> QED BY <1>1, <1>2, <2>1, <2>2, <2>3 DEF Init, TypeOK, Alerts
<1>4. Versioned /\ Owing /\ Noticed /\ Clearing /\ Posting /\ NoticeKept
  BY <1>2 DEF Init, Versioned, Owing, Noticed, Clearing, Posting, NoticeKept,
              HasNotice
<1> QED BY <1>3, <1>4 DEF MinisInv

\* What is known of the numbers and queues.
LEMMA Numbers ==
    ASSUME TypeOK
    PROVE  /\ published \in Nat /\ stored \in Nat /\ running \in Nat
           /\ taken \in Nat /\ owed \in Nat /\ notice \in Nat
           /\ cfgQueue # <<>> => Head(cfgQueue) \in Versions
           /\ cfgQueue # <<>> => Head(cfgQueue) \in Nat
<1>1. Versions \subseteq Nat
  BY MinisAssumption DEF Versions
<1>2. cfgQueue # <<>> => Head(cfgQueue) \in Versions
  BY HeadTailProperties DEF TypeOK
<1> QED BY <1>1, <1>2 DEF TypeOK

LEMMA RebootSafe ==
    ASSUME MinisInv, Reboot, powerLosses' \in 0..MaxPowerLoss
    PROVE  MinisInv'
<1>1. 0 \in Versions /\ Len(<<>>) = 0 /\ <<>> \in Seq(Versions) /\ <<>> \in Seq(Alerts)
  BY MinisAssumption DEF Versions
<1>2. TypeOK'
  BY <1>1, MinisAssumption DEF MinisInv, Reboot, flash, TypeOK, Alerts
<1>3. Versioned' /\ Owing' /\ Clearing' /\ Posting'
  BY DEF MinisInv, Reboot, flash, Versioned, Owing, Clearing, Posting
<1>4. Noticed'
  BY <1>1 DEF Reboot, Noticed, HasNotice
<1>5. NoticeKept'
  BY DEF MinisInv, Reboot, flash, NoticeKept
<1> QED BY <1>2, <1>3, <1>4, <1>5 DEF MinisInv

LEMMA StartServiceSafe == MinisInv /\ StartService => MinisInv'
<1> SUFFICES ASSUME MinisInv, StartService PROVE MinisInv'
  OBVIOUS
<1>1. TypeOK'
  BY DEF MinisInv, StartService, TypeOK, world, flash, queues, history
<1>2. Versioned' /\ Owing' /\ Noticed' /\ Clearing' /\ Posting' /\ NoticeKept'
  BY DEF MinisInv, StartService, Versioned, Owing, Noticed, Clearing, Posting,
         NoticeKept, world, flash, queues, history
<1> QED BY <1>1, <1>2 DEF MinisInv

LEMMA UploadIdentitySafe == MinisInv /\ UploadIdentity => MinisInv'
<1> SUFFICES ASSUME MinisInv, UploadIdentity PROVE MinisInv'
  OBVIOUS
<1>1. /\ AlertQueue' /\ notified' \in Nat /\ genesisMark' \in BOOLEAN
      /\ HasNotice(alerts') => HasNotice(alerts)
      /\ alerts # <<>> => alerts' # <<>>
  <2>1. CASE UNCHANGED <<genesisMark, alerts, notified>>
    BY <2>1 DEF MinisInv, TypeOK, AlertQueue, Alerts
  <2>2. CASE genesisMark' \in BOOLEAN /\ queueAlert("genesis")
    BY <2>2, QueueAlertFacts DEF MinisInv
  <2> QED BY <2>1, <2>2 DEF UploadIdentity
<1>2. TypeOK'
  BY <1>1 DEF MinisInv, UploadIdentity, TypeOK, AlertQueue, Alerts, world, beat,
              history
<1>3. Versioned' /\ Owing' /\ Noticed' /\ Clearing' /\ Posting' /\ NoticeKept'
  BY <1>1 DEF MinisInv, UploadIdentity, Versioned, Owing, Noticed, Clearing,
              Posting, NoticeKept, world, beat, history
<1> QED BY <1>2, <1>3 DEF MinisInv

LEMMA AppAlertSafe == MinisInv /\ AppAlert => MinisInv'
<1> SUFFICES ASSUME MinisInv, AppAlert PROVE MinisInv'
  OBVIOUS
<1>1. /\ AlertQueue' /\ notified' \in Nat
      /\ HasNotice(alerts') => HasNotice(alerts)
      /\ alerts # <<>> => alerts' # <<>>
  BY QueueAlertFacts DEF MinisInv, AppAlert
<1>2. appAlerts' \in 0..MaxAppAlerts
  BY MinisAssumption DEF MinisInv, AppAlert, TypeOK
<1>3. TypeOK'
  BY <1>1, <1>2 DEF MinisInv, AppAlert, TypeOK, AlertQueue, Alerts, flash, main,
                    beat, history
<1>4. Versioned' /\ Owing' /\ Noticed' /\ Clearing' /\ Posting' /\ NoticeKept'
  BY <1>1 DEF MinisInv, AppAlert, Versioned, Owing, Noticed, Clearing, Posting,
              NoticeKept, flash, main, beat, history
<1> QED BY <1>3, <1>4 DEF MinisInv

\* A version is taken out of the queue to be stored: it is not older than the
\* one on flash.
LEMMA TakeConfigSafe == MinisInv /\ TakeConfig => MinisInv'
<1> SUFFICES ASSUME MinisInv, TakeConfig PROVE MinisInv'
  OBVIOUS
<1> DEFINE v == Head(cfgQueue)
<1>1. /\ mainAt = "loop" /\ cfgQueue' = <<>> /\ v \in Versions
      /\ stored <= v /\ v <= published
      /\ \/ UNCHANGED <<mainAt, taken>>
         \/ mainAt' = "save" /\ taken' = v
      /\ UNCHANGED <<world, flash, keyAuth, running, beat, alerts, notified, history>>
  BY Numbers DEF MinisInv, TakeConfig, Versioned
<1> HIDE DEF v
<1>2. Len(<<>>) = 0 /\ <<>> \in Seq(Versions)
  OBVIOUS
<1>3. TypeOK'
  BY <1>1, <1>2 DEF MinisInv, TypeOK, world, flash, beat, history
<1>4. Versioned' /\ Owing' /\ Noticed' /\ Clearing' /\ Posting' /\ NoticeKept'
  BY <1>1 DEF MinisInv, Versioned, Owing, Noticed, Clearing, Posting, NoticeKept,
              world, flash, beat, history
<1> QED BY <1>3, <1>4 DEF MinisInv

LEMMA SaveConfigSafe == MinisInv /\ SaveConfig => MinisInv'
<1> SUFFICES ASSUME MinisInv, SaveConfig PROVE MinisInv'
  OBVIOUS
<1>1. TypeOK'
  BY DEF MinisInv, SaveConfig, TypeOK, world, beat, queues, history
<1>2. Versioned' /\ Owing'
  BY Numbers DEF MinisInv, SaveConfig, Versioned, Owing, world, queues, history
<1>3. Noticed' /\ Clearing' /\ Posting' /\ NoticeKept'
  BY DEF MinisInv, SaveConfig, Noticed, Clearing, Posting, NoticeKept,
         beat, queues, history
<1> QED BY <1>1, <1>2, <1>3 DEF MinisInv

LEMMA SaveFailsSafe == MinisInv /\ SaveFails => MinisInv'
<1> SUFFICES ASSUME MinisInv, SaveFails PROVE MinisInv'
  OBVIOUS
<1>1. 0 \in Versions
  BY MinisAssumption DEF Versions
<1>2. TypeOK'
  BY <1>1 DEF MinisInv, SaveFails, TypeOK, world, flash, beat, queues, history
<1>3. Versioned' /\ Owing' /\ Noticed' /\ Clearing' /\ Posting' /\ NoticeKept'
  BY DEF MinisInv, SaveFails, Versioned, Owing, Noticed, Clearing, Posting,
         NoticeKept, world, flash, beat, queues, history
<1> QED BY <1>2, <1>3 DEF MinisInv

\* The mark makes the stored version the one that is owed.
LEMMA MarkNoticeSafe == MinisInv /\ MarkNotice => MinisInv'
<1> SUFFICES ASSUME MinisInv, MarkNotice PROVE MinisInv'
  OBVIOUS
<1>1. marker' \in BOOLEAN /\ owed' \in Versions /\ owed' <= stored
      /\ (marker' \/ UNCHANGED <<marker, owed>>)
  <2>1. /\ marker \in BOOLEAN /\ owed \in Versions /\ taken \in Versions
        /\ stored = taken /\ owed <= stored /\ taken <= stored
    BY Numbers DEF MinisInv, MarkNotice, TypeOK, Versioned, Owing
  <2>2. CASE marker' = TRUE /\ owed' = taken
    BY <2>1, <2>2
  <2>3. CASE UNCHANGED <<marker, owed>>
    BY <2>1, <2>3
  <2> QED BY <2>2, <2>3 DEF MarkNotice
<1>2. TypeOK'
  BY <1>1 DEF MinisInv, MarkNotice, TypeOK, world, beat, queues
<1>3. Versioned' /\ Owing'
  BY <1>1 DEF MinisInv, MarkNotice, Versioned, Owing, world, queues
<1>4. Noticed' /\ Clearing' /\ Posting' /\ NoticeKept'
  BY <1>1 DEF MinisInv, MarkNotice, Noticed, Clearing, Posting, NoticeKept,
              beat, queues
<1> QED BY <1>2, <1>3, <1>4 DEF MinisInv

\* The boot queues a notice for the version it runs, and nothing newer is owed.
LEMMA BeatInitSafe == MinisInv /\ BeatInit => MinisInv'
<1> SUFFICES ASSUME MinisInv, BeatInit PROVE MinisInv'
  OBVIOUS
<1>1. alerts \in Seq(Alerts) /\ Len(alerts) <= AlertDepth /\ Len(alerts) \in Nat
  BY LenProperties DEF MinisInv, TypeOK, Alerts
<1>2. /\ AlertQueue' /\ notice' \in Versions
      /\ mainAt # "restart" /\ HasNotice(alerts') => owed <= notice'
  <2>1. CASE marker /\ Len(alerts) < AlertDepth
    <3>1. alerts' = Append(alerts, "notice") /\ notice' = running
      BY <2>1 DEF BeatInit
    <3>2. alerts' \in Seq(Alerts) /\ Len(alerts') = Len(alerts) + 1
      BY <1>1, <3>1, AppendProperties DEF Alerts
    <3>3. AlertQueue'
      BY <1>1, <2>1, <3>2, MinisAssumption DEF AlertQueue
    <3> QED BY <3>1, <3>3 DEF MinisInv, TypeOK, Owing
  <2>2. CASE ~(marker /\ Len(alerts) < AlertDepth)
    BY <1>1, <2>2 DEF BeatInit, AlertQueue, MinisInv, TypeOK, Noticed
  <2> QED BY <2>1, <2>2
<1>3. TypeOK'
  BY <1>2 DEF MinisInv, BeatInit, TypeOK, AlertQueue, Alerts, world, flash, main
<1>4. Versioned' /\ Owing' /\ Noticed' /\ Clearing' /\ Posting' /\ NoticeKept'
  BY <1>2 DEF MinisInv, BeatInit, Versioned, Owing, Noticed, Clearing, Posting,
              NoticeKept, world, flash, main
<1> QED BY <1>3, <1>4 DEF MinisInv

LEMMA GetConfigSafe == MinisInv /\ GetConfig => MinisInv'
<1> SUFFICES ASSUME MinisInv, GetConfig PROVE MinisInv'
  OBVIOUS
<1>1. /\ published \in Versions /\ published \in Nat
      /\ stored <= published /\ published <= published
      /\ mainAt = "save" => taken <= published
  BY Numbers DEF MinisInv, TypeOK, Versioned
<1>2. /\ cfgQueue' \in Seq(Versions) /\ Len(cfgQueue') = 1
      /\ Head(cfgQueue') = published
  BY <1>1 DEF GetConfig
<1>3. TypeOK'
  BY <1>2 DEF MinisInv, GetConfig, TypeOK, world, flash, main, history
<1>4. Versioned'
  BY <1>1, <1>2 DEF MinisInv, GetConfig, Versioned, world, flash, main
<1>5. Owing' /\ Noticed' /\ Clearing' /\ Posting' /\ NoticeKept'
  BY DEF MinisInv, GetConfig, Owing, Noticed, Clearing, Posting, NoticeKept,
         flash, main, history
<1> QED BY <1>3, <1>4, <1>5 DEF MinisInv

\* A step of the heartbeat task that only moves it on, and may change the
\* notification count.
LEMMA MovesOn ==
    ASSUME MinisInv, UNCHANGED <<world, flash, main, cfgQueue, alerts, history>>,
           beatAt' \in {"get", "send", "wait", "post"},
           beatAt' = "post" => alerts # <<>>,
           why' \in {"first", "beat", "notified"}, notified' \in Nat
    PROVE  MinisInv'
<1>1. TypeOK'
  BY DEF MinisInv, TypeOK, world, flash, main, history
<1>2. Versioned' /\ Owing' /\ Noticed' /\ Clearing' /\ Posting' /\ NoticeKept'
  BY DEF MinisInv, Versioned, Owing, Noticed, Clearing, Posting, NoticeKept,
         world, flash, main, history
<1> QED BY <1>1, <1>2 DEF MinisInv

LEMMA GetNothingSafe == MinisInv /\ (GetFails \/ ConfigUnusable) => MinisInv'
<1> SUFFICES ASSUME MinisInv, GetFails \/ ConfigUnusable PROVE MinisInv'
  OBVIOUS
<1>1. why \in {"first", "beat", "notified"} /\ notified \in Nat
  BY DEF MinisInv, TypeOK
<1>2. /\ UNCHANGED <<world, flash, main, why, cfgQueue, alerts, notified, history>>
      /\ beatAt' = "send"
  BY DEF GetFails, ConfigUnusable, queues
<1> QED BY <1>1, <1>2, MovesOn

LEMMA PeekAlertSafe == MinisInv /\ PeekAlert => MinisInv'
<1> SUFFICES ASSUME MinisInv, PeekAlert PROVE MinisInv'
  OBVIOUS
<1>1. TypeOK /\ why \in {"first", "beat", "notified"} /\ notified \in Nat
  BY DEF MinisInv, TypeOK
<1>2. UNCHANGED <<world, flash, main, why, cfgQueue, alerts, history>>
  BY DEF PeekAlert
<1>3. CASE alerts = <<>>
  <2>1. AfterSend("None", alerts)
    BY <1>3 DEF PeekAlert
  <2>2. beatAt' = "wait" /\ notified' \in Nat
    BY <1>1, <2>1, AfterSendFacts
  <2> QED BY <1>1, <1>2, <2>2, MovesOn
<1>4. CASE alerts # <<>>
  <2>1. beatAt' = "post" /\ notified' \in Nat
    BY <1>1, <1>4 DEF PeekAlert
  <2> QED BY <1>1, <1>2, <1>4, <2>1, MovesOn
<1> QED BY <1>3, <1>4

LEMMA WaitSafe == MinisInv /\ (HeartbeatDue \/ Notified) => MinisInv'
<1> SUFFICES ASSUME MinisInv, HeartbeatDue \/ Notified PROVE MinisInv'
  OBVIOUS
<1>1. notified \in Nat
  BY DEF MinisInv, TypeOK
<1>2. UNCHANGED <<world, flash, main, cfgQueue, alerts, history>>
  BY DEF HeartbeatDue, Notified, queues
<1>3. notified' \in Nat
  BY <1>1 DEF HeartbeatDue, Notified, queues
<1>4. beatAt' \in {"get", "send"} /\ why' \in {"beat", "notified"}
  BY DEF HeartbeatDue, Notified
<1> QED BY <1>2, <1>3, <1>4, MovesOn

\* A delivered alert: a notice settles what is owed, unless that was marked
\* after the boot; nothing else does.
LEMMA DeliveredFacts ==
    ASSUME MinisInv, beatAt = "post", Delivered \/ UNCHANGED owed
    PROVE  /\ owed' \in Versions /\ owed' \in {0, owed}
           /\ Delivered /\ Head(alerts) = "notice" /\ mainAt # "restart" => owed' = 0
<1>1. alerts # <<>> /\ TypeOK
  BY DEF MinisInv, Posting
<1>2. owed' \in {0, owed}
  BY DEF Delivered
<1>3. owed \in Versions /\ owed \in Nat /\ notice \in Nat /\ 0 \in Versions
  BY <1>1, Numbers, MinisAssumption DEF TypeOK, Versions
<1>4. Head(alerts) = "notice" => HasNotice(alerts)
  <2>1. Len(alerts) \in Nat /\ Len(alerts) > 0 /\ Head(alerts) = alerts[1]
    BY <1>1, LenProperties, EmptySeq DEF TypeOK
  <2> QED BY <2>1 DEF HasNotice
<1>5. ASSUME Delivered, Head(alerts) = "notice", mainAt # "restart"
      PROVE  owed' = 0
  <2>1. owed <= notice
    BY <1>4, <1>5 DEF MinisInv, Noticed
  <2> QED BY <1>3, <1>5, <2>1 DEF Delivered
<1> QED BY <1>2, <1>3, <1>5

LEMMA PostAlertSafe == MinisInv /\ PostAlert => MinisInv'
<1> SUFFICES ASSUME MinisInv, PostAlert PROVE MinisInv'
  OBVIOUS
<1>1. /\ TypeOK /\ alerts # <<>> /\ alerts' = Tail(alerts) /\ beatAt = "post"
      /\ UNCHANGED <<world, flash, main, why, cfgQueue, notice, overlap>>
  BY DEF MinisInv, PostAlert, Posting
<1>2. AlertQueue' /\ (HasNotice(alerts') => HasNotice(alerts))
  BY <1>1, TailFacts
<1>3. /\ owed' \in Versions /\ owed' \in {0, owed}
      /\ Head(alerts) = "notice" /\ mainAt # "restart" => owed' = 0
  BY <1>1, DeliveredFacts DEF PostAlert
<1>4. /\ notified' \in Nat
      /\ \/ beatAt' = "clear" /\ Head(alerts) = "notice"
         \/ beatAt' = "wait"
  <2>1. CASE Head(alerts) = "notice"
    BY <1>1, <2>1 DEF PostAlert, TypeOK
  <2>2. CASE Head(alerts) # "notice"
    BY <1>1, <2>2, AfterSendFacts DEF PostAlert
  <2> QED BY <2>1, <2>2
<1>5. TypeOK'
  BY <1>1, <1>2, <1>3, <1>4 DEF TypeOK, AlertQueue, Alerts, world, flash, main
<1>6. owed' <= owed /\ owed' <= stored /\ (mainAt # "restart" => owed' <= running)
  BY <1>1, <1>3, Numbers DEF MinisInv, Owing
<1>7. Versioned' /\ Owing'
  BY <1>1, <1>6 DEF MinisInv, Versioned, Owing, world, flash, main
<1>8. Noticed'
  <2>1. ASSUME mainAt # "restart", HasNotice(alerts') PROVE owed' <= notice
    BY <1>1, <1>2, <1>3, <2>1, Numbers DEF MinisInv, Noticed
  <2> QED BY <1>1, <2>1 DEF Noticed, main
<1>9. Clearing' /\ Posting' /\ NoticeKept'
  BY <1>1, <1>3, <1>4 DEF MinisInv, Clearing, Posting, NoticeKept, flash, main
<1> QED BY <1>5, <1>7, <1>8, <1>9 DEF MinisInv

LEMMA PostFailsSafe == MinisInv /\ PostFails => MinisInv'
<1> SUFFICES ASSUME MinisInv, PostFails PROVE MinisInv'
  OBVIOUS
<1>1. /\ TypeOK /\ beatAt = "post"
      /\ UNCHANGED <<world, flash, main, why, cfgQueue, alerts, notice, overlap>>
  BY DEF MinisInv, PostFails
<1>2. owed' \in Versions /\ owed' \in {0, owed}
  BY <1>1, DeliveredFacts DEF PostFails
<1>3. beatAt' = "wait" /\ notified' \in Nat
  BY <1>1, AfterSendFacts DEF PostFails
<1>4. TypeOK'
  BY <1>1, <1>2, <1>3 DEF TypeOK, world, flash, main
<1>5. /\ owed' <= owed /\ owed' <= stored /\ (mainAt # "restart" => owed' <= running)
      /\ owed <= notice => owed' <= notice
  BY <1>1, <1>2, Numbers DEF MinisInv, Owing
<1>6. Versioned' /\ Owing' /\ Noticed'
  BY <1>1, <1>5 DEF MinisInv, Versioned, Owing, Noticed, world, flash, main
<1>7. Clearing' /\ Posting' /\ NoticeKept'
  BY <1>1, <1>2, <1>3 DEF MinisInv, Clearing, Posting, NoticeKept, flash, main
<1> QED BY <1>4, <1>6, <1>7 DEF MinisInv

\* Removing the marker of a delivered notice loses nothing that is owed, but
\* for a change that is marked and waits for its restart.
LEMMA ClearMarkerSafe == MinisInv /\ ClearMarker => MinisInv'
<1> SUFFICES ASSUME MinisInv, ClearMarker PROVE MinisInv'
  OBVIOUS
<1>1. /\ TypeOK /\ marker \in BOOLEAN /\ overlap \in BOOLEAN
      /\ owed = 0 \/ overlap \/ mainAt = "restart"
  BY DEF MinisInv, ClearMarker, Clearing, TypeOK
<1>2. beatAt' = "wait" /\ notified' \in Nat
  BY <1>1, AfterSendFacts DEF ClearMarker
<1>3. /\ marker' \in BOOLEAN /\ overlap' \in BOOLEAN
      /\ owed = 0 \/ overlap'
  BY <1>1 DEF ClearMarker
<1>4. TypeOK'
  BY <1>1, <1>2, <1>3 DEF ClearMarker, TypeOK, world, main
<1>5. Versioned' /\ Owing' /\ Noticed' /\ Clearing' /\ Posting'
  BY <1>2 DEF MinisInv, ClearMarker, Versioned, Owing, Noticed, Clearing, Posting,
              world, main
<1>6. NoticeKept'
  BY <1>3 DEF ClearMarker, NoticeKept
<1> QED BY <1>4, <1>5, <1>6 DEF MinisInv

LEMMA PublishSafe == MinisInv /\ Publish => MinisInv'
<1> SUFFICES ASSUME MinisInv, Publish PROVE MinisInv'
  OBVIOUS
<1>1. published' \in Versions /\ published <= published' /\ published' \in Nat
  BY MinisAssumption DEF MinisInv, Publish, TypeOK, Versions
<1>2. TypeOK'
  BY <1>1 DEF MinisInv, Publish, TypeOK, flash, main, beat, queues, history
<1>3. Versioned'
  BY <1>1, Numbers DEF MinisInv, Publish, Versioned, flash, main, queues
<1>4. Owing' /\ Noticed' /\ Clearing' /\ Posting' /\ NoticeKept'
  BY DEF MinisInv, Publish, Owing, Noticed, Clearing, Posting, NoticeKept,
         flash, main, beat, queues, history
<1> QED BY <1>2, <1>3, <1>4 DEF MinisInv

LEMMA RestartSafe == MinisInv /\ (Restart \/ PowerLoss) => MinisInv'
<1> SUFFICES ASSUME MinisInv, Restart \/ PowerLoss PROVE MinisInv'
  OBVIOUS
<1>1. powerLosses' \in 0..MaxPowerLoss /\ Reboot
  BY MinisAssumption DEF MinisInv, TypeOK, Restart, PowerLoss
<1> QED BY <1>1, RebootSafe

-----------------------------------------------------------------------------
\* The invariant of the control plane.
THEOREM MinisSafety == Spec => []MinisInv
<1>1. MinisInv /\ [Next]_vars => MinisInv'
  <2> SUFFICES ASSUME MinisInv, [Next]_vars PROVE MinisInv'
    OBVIOUS
  <2>1. CASE MainStep
    BY <2>1, StartServiceSafe, UploadIdentitySafe, TakeConfigSafe,
       SaveConfigSafe, SaveFailsSafe, MarkNoticeSafe, RestartSafe DEF MainStep
  <2>2. CASE BeatStep
    BY <2>2, BeatInitSafe, GetConfigSafe, GetNothingSafe, PeekAlertSafe,
       PostAlertSafe, PostFailsSafe, ClearMarkerSafe, WaitSafe DEF BeatStep
  <2>3. CASE AppAlert \/ Publish \/ PowerLoss
    BY <2>3, AppAlertSafe, PublishSafe, RestartSafe
  <2>4. CASE UNCHANGED vars
    <3>1. UNCHANGED <<world, flash, main, beat, queues, history>>
      BY <2>4 DEF vars
    <3>2. TypeOK'
      BY <3>1 DEF MinisInv, TypeOK, world, flash, main, beat, queues, history
    <3>3. Versioned' /\ Owing' /\ Noticed' /\ Clearing' /\ Posting' /\ NoticeKept'
      BY <3>1 DEF MinisInv, Versioned, Owing, Noticed, Clearing, Posting,
                  NoticeKept, world, flash, main, beat, queues, history
    <3> QED BY <3>2, <3>3 DEF MinisInv
  <2> QED BY <2>1, <2>2, <2>3, <2>4 DEF Next
<1> QED BY <1>1, InitSafe, PTL DEF Spec

\* Types: both queues stay within their depth.
THEOREM MinisTypeCorrect == Spec => []TypeOK
BY MinisSafety, PTL DEF MinisInv

\* The marker of a change that was not announced stays on flash, unless an
\* earlier notice is acknowledged between the mark and the restart.
THEOREM MinisNoticeKept == Spec => []NoticeKept
BY MinisSafety, PTL DEF MinisInv
=============================================================================
