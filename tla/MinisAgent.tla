----------------------------- MODULE MinisAgent -----------------------------
(***************************************************************************)
(* The Minis control plane of the example firmware: the heartbeat task and *)
(* the alert queue of examples/src/minis_registration.cpp, the genesis     *)
(* upload of minis_public_key_upload.cpp and the main task of main.cpp     *)
(* that starts them and applies a fetched cfg.txt by storing it, leaving a *)
(* notice marker on flash and restarting.                                  *)
(*                                                                         *)
(* A cfg.txt is its version number; version 0 is the configuration the     *)
(* device was set up with, and a server at version 0 has no usable         *)
(* cfg.txt.  Requests fail, answers get lost after the server has acted,   *)
(* files cannot be written and the power fails at any step.                *)
(***************************************************************************)
EXTENDS Naturals, Sequences

CONSTANTS
    AlertDepth,    \* ALERT_QUEUE_DEPTH
    MaxVersion,    \* bound: cfg.txt versions the server publishes
    MaxAppAlerts,  \* bound: alerts queued by the application
    MaxPowerLoss   \* bound: power failures

ASSUME MinisAssumption ==
    /\ AlertDepth \in Nat \ {0}
    /\ MaxVersion \in Nat /\ MaxAppAlerts \in Nat /\ MaxPowerLoss \in Nat

VARIABLES
    \* the server and the world
    published,     \* version of cfg.txt on the server
    powerLosses,
    appAlerts,     \* alerts the application has queued so far
    \* flash
    stored,        \* version in /esp32tun.cfg
    marker,        \* /minis.cfg_applied_notice exists
    genesisMark,   \* the genesis marker holds the tag of this key
    \* the main task
    keyAuth,       \* deviceConfig.sshAuthMethod = PrivateKey
    running,       \* version in deviceConfig, loaded at boot
    mainAt,        \* "boot", "genesis", "loop", "save", "mark", "restart"
    taken,         \* the cfg.txt being applied
    \* the heartbeat task
    beatAt,        \* "none", "init", "get", "send", "post", "clear", "wait"
    why,           \* who called sendNextQueuedAlert: "first", "beat", "notified"
    cfgQueue,      \* managedConfigQueue: at most one version
    alerts,        \* alertQueue: "notice", "genesis" or "app"
    notified,      \* notification count of the heartbeat task
    \* history
    owed,          \* version whose notice was marked, 0 when it was delivered
    notice,        \* version the queued notice alert speaks for
    overlap        \* a notice was delivered between a mark and its restart

world == <<published, powerLosses, appAlerts>>
flash == <<stored, marker, genesisMark>>
main == <<keyAuth, running, mainAt, taken>>
beat == <<beatAt, why>>
queues == <<cfgQueue, alerts, notified>>
history == <<owed, notice, overlap>>
vars == <<world, flash, main, beat, queues, history>>

Versions == 0..MaxVersion

TypeOK ==
    /\ published \in Versions /\ stored \in Versions /\ running \in Versions
    /\ taken \in Versions /\ owed \in Versions /\ notice \in Versions
    /\ powerLosses \in 0..MaxPowerLoss
    /\ appAlerts \in 0..MaxAppAlerts
    /\ {marker, genesisMark, keyAuth, overlap} \subseteq BOOLEAN
    /\ mainAt \in {"boot", "genesis", "loop", "save", "mark", "restart"}
    /\ beatAt \in {"none", "init", "get", "send", "post", "clear", "wait"}
    /\ why \in {"first", "beat", "notified"}
    /\ cfgQueue \in Seq(Versions) /\ Len(cfgQueue) <= 1
    /\ alerts \in Seq({"notice", "genesis", "app"}) /\ Len(alerts) <= AlertDepth
    /\ notified \in Nat

-----------------------------------------------------------------------------

Init ==
    /\ published = 0 /\ powerLosses = 0 /\ appAlerts = 0
    /\ stored = 0 /\ marker = FALSE /\ genesisMark = FALSE
    /\ keyAuth \in BOOLEAN
    /\ running = 0 /\ mainAt = "boot" /\ taken = 0
    /\ beatAt = "none" /\ why = "first"
    /\ cfgQueue = <<>> /\ alerts = <<>> /\ notified = 0
    /\ owed = 0 /\ notice = 0 /\ overlap = FALSE

\* ESP.restart or a power failure: RAM, queues and tasks are gone, the next
\* boot loads what is on flash.
Reboot ==
    /\ running' = stored /\ mainAt' = "boot" /\ taken' = 0
    /\ beatAt' = "none" /\ why' = "first"
    /\ cfgQueue' = <<>> /\ alerts' = <<>> /\ notified' = 0
    /\ notice' = 0
    /\ UNCHANGED <<published, appAlerts, flash, keyAuth, owed, overlap>>

-----------------------------------------------------------------------------
\* queueAlert, and what the heartbeat task waits for.

\* Faulty variant: the depth of the queue is ignored.
CanQueueUnbounded == beatAt # "none"

CanQueue == beatAt # "none" /\ Len(alerts) < AlertDepth

queueAlert(alert) ==
    IF CanQueue
    THEN alerts' = Append(alerts, alert) /\ notified' = notified + 1
    ELSE UNCHANGED <<alerts, notified>>

\* The application reports something.
AppAlert ==
    /\ mainAt = "loop" /\ appAlerts < MaxAppAlerts
    /\ appAlerts' = appAlerts + 1
    /\ queueAlert("app")
    /\ UNCHANGED <<published, powerLosses, flash, main, beat, cfgQueue, history>>

-----------------------------------------------------------------------------
\* The main task.

\* ensureMinisControlPlane: the service is started once per boot; when a queue
\* or the task cannot be created, what was created is deleted again.
StartService ==
    /\ mainAt = "boot"
    /\ beatAt' \in {"init", "none"}
    /\ mainAt' = IF keyAuth THEN "genesis" ELSE "loop"
    /\ UNCHANGED <<world, flash, keyAuth, running, taken, why, queues, history>>

\* upload: the public key, then the genesis report unless the marker says this
\* key has reported.  Either request may fail, and so may the marker.
UploadIdentity ==
    /\ mainAt = "genesis"
    /\ mainAt' = "loop"
    /\ \/ UNCHANGED <<genesisMark, alerts, notified>>
       \/ /\ ~genesisMark
          /\ genesisMark' \in BOOLEAN
          /\ queueAlert("genesis")
    /\ UNCHANGED <<world, stored, marker, keyAuth, running, taken, beat,
                   cfgQueue, history>>

\* Faulty variant: every cfg.txt counts as a change.
UnchangedNever(v) == FALSE

\* The comparison of applyPendingMinisConfig.  What writeConfig stores and
\* loadConfig reads back is taken to be what was accepted.
Unchanged(v) == v = running

\* applyPendingMinisConfig up to the decision to store.
TakeConfig ==
    /\ mainAt = "loop" /\ cfgQueue # <<>>
    /\ cfgQueue' = <<>>
    /\ LET v == Head(cfgQueue)
       IN  IF Unchanged(v) \/ ~keyAuth
           THEN UNCHANGED <<mainAt, taken>>
           ELSE mainAt' = "save" /\ taken' = v
    /\ UNCHANGED <<world, flash, keyAuth, running, beat, alerts, notified, history>>

SaveConfig ==
    /\ mainAt = "save"
    /\ stored' = taken
    /\ mainAt' = "mark"
    /\ UNCHANGED <<world, marker, genesisMark, keyAuth, running, taken, beat,
                   queues, history>>

SaveFails ==
    /\ mainAt = "save"
    /\ mainAt' = "loop" /\ taken' = 0
    /\ UNCHANGED <<world, flash, keyAuth, running, beat, queues, history>>

\* markConfigAppliedNotice; a failure is logged and the restart follows anyway.
MarkNotice ==
    /\ mainAt = "mark"
    /\ mainAt' = "restart"
    /\ \/ marker' = TRUE /\ owed' = taken
       \/ UNCHANGED <<marker, owed>>
    /\ UNCHANGED <<world, stored, genesisMark, keyAuth, running, taken, beat,
                   queues, notice, overlap>>

\* The end of delay(250); the heartbeat task runs until then.
Restart ==
    /\ mainAt = "restart"
    /\ Reboot
    /\ UNCHANGED powerLosses

-----------------------------------------------------------------------------
\* The heartbeat task.

\* queueConfigAppliedNoticeIfNeeded; a full queue leaves the marker for the
\* next boot.
BeatInit ==
    /\ beatAt = "init"
    /\ beatAt' = "get" /\ why' = "first"
    /\ IF marker /\ Len(alerts) < AlertDepth
       THEN alerts' = Append(alerts, "notice") /\ notice' = running
       ELSE UNCHANGED <<alerts, notice>>
    /\ UNCHANGED <<world, flash, main, cfgQueue, notified, owed, overlap>>

\* refreshConfig with a complete cfg.txt: xQueueOverwrite.
GetConfig ==
    /\ beatAt = "get" /\ published > 0
    /\ cfgQueue' = <<published>>
    /\ beatAt' = "send"
    /\ UNCHANGED <<world, flash, main, why, alerts, notified, history>>

\* Faulty variant: no alert is sent after a failed request.
GetFailsSkipping ==
    /\ beatAt = "get"
    /\ beatAt' = "wait"
    /\ UNCHANGED <<world, flash, main, why, queues, history>>

\* performGet: no WiFi, too little heap for TLS, no answer, another status.
GetFails ==
    /\ beatAt = "get"
    /\ beatAt' = "send"
    /\ UNCHANGED <<world, flash, main, why, queues, history>>

\* parseConfig rejects the cfg.txt, or it describes no complete tunnel.
ConfigUnusable ==
    /\ beatAt = "get"
    /\ beatAt' = "send"
    /\ UNCHANGED <<world, flash, main, why, queues, history>>

\* What the caller of sendNextQueuedAlert does with its result.
AfterSend(result, left) ==
    /\ beatAt' = "wait"
    /\ notified' = CASE why = "notified" /\ result = "Deferred" -> 0
                     [] why = "beat" /\ result = "Sent" /\ left # <<>> -> notified + 1
                     [] OTHER -> notified

\* sendNextQueuedAlert: peek ...
PeekAlert ==
    /\ beatAt = "send"
    /\ IF alerts = <<>>
       THEN AfterSend("None", alerts)
       ELSE beatAt' = "post" /\ UNCHANGED notified
    /\ UNCHANGED <<world, flash, main, why, cfgQueue, alerts, history>>

\* The server has the notice for every change up to the version it speaks for.
Delivered ==
    owed' = IF Head(alerts) = "notice" /\ notice >= owed THEN 0 ELSE owed

\* ... post, and remove the head of the queue after HTTP 200 ...
PostAlert ==
    /\ beatAt = "post"
    /\ Delivered
    /\ alerts' = Tail(alerts)
    /\ IF Head(alerts) = "notice"
       THEN beatAt' = "clear" /\ UNCHANGED notified
       ELSE AfterSend("Sent", Tail(alerts))
    /\ UNCHANGED <<world, flash, main, why, cfgQueue, notice, overlap>>

\* Faulty variant: a notice that failed is not tried again after a restart.
PostFailsClearing ==
    /\ beatAt = "post"
    /\ Delivered \/ UNCHANGED owed
    /\ AfterSend("Deferred", alerts)
    /\ marker' = (marker /\ Head(alerts) # "notice")
    /\ UNCHANGED <<world, stored, genesisMark, main, why, cfgQueue, alerts,
                   notice, overlap>>

\* ... or keep it: no connection, another status, or the answer is lost after
\* the server has taken the alert.
PostFails ==
    /\ beatAt = "post"
    /\ Delivered \/ UNCHANGED owed
    /\ AfterSend("Deferred", alerts)
    /\ UNCHANGED <<world, flash, main, why, cfgQueue, alerts, notice, overlap>>

\* A delivered notice removes the marker; the removal may fail.
ClearMarker ==
    /\ beatAt = "clear"
    /\ AfterSend("Sent", alerts)
    /\ marker' \in {FALSE, marker}
    /\ overlap' = (overlap \/ mainAt = "restart")
    /\ UNCHANGED <<world, stored, genesisMark, main, why, cfgQueue, alerts,
                   owed, notice>>

\* The interval has passed ...
HeartbeatDue ==
    /\ beatAt = "wait"
    /\ beatAt' = "get" /\ why' = "beat"
    /\ UNCHANGED <<world, flash, main, queues, history>>

\* ... or ulTaskNotifyTake(pdFALSE) returned earlier.
Notified ==
    /\ beatAt = "wait" /\ notified > 0
    /\ notified' = notified - 1
    /\ beatAt' = "send" /\ why' = "notified"
    /\ UNCHANGED <<world, flash, main, cfgQueue, alerts, history>>

-----------------------------------------------------------------------------

\* An operator publishes another cfg.txt.
Publish ==
    /\ published < MaxVersion
    /\ published' = published + 1
    /\ UNCHANGED <<powerLosses, appAlerts, flash, main, beat, queues, history>>

PowerLoss ==
    /\ powerLosses < MaxPowerLoss
    /\ powerLosses' = powerLosses + 1
    /\ Reboot

MainStep ==
    \/ StartService \/ UploadIdentity \/ TakeConfig \/ SaveConfig \/ SaveFails
    \/ MarkNotice \/ Restart

BeatStep ==
    \/ BeatInit \/ GetConfig \/ GetFails \/ ConfigUnusable \/ PeekAlert
    \/ PostAlert \/ PostFails \/ ClearMarker \/ HeartbeatDue \/ Notified

Next == MainStep \/ BeatStep \/ AppAlert \/ Publish \/ PowerLoss

\* Both tasks run, and what may fail does not fail for ever: the server, the
\* network and the heap let a request through again and again, and so does the
\* file system.
Fairness ==
    /\ WF_vars(MainStep) /\ WF_vars(BeatStep)
    /\ SF_vars(SaveConfig) /\ SF_vars(GetConfig) /\ SF_vars(PostAlert)

Spec == Init /\ [][Next]_vars /\ Fairness

-----------------------------------------------------------------------------

\* CHANGELOG: "Managed cfg.txt changes persist a one-shot notice before restart
\* ... its marker is cleared only after successful delivery".  While a marked
\* change has not been announced its marker is on flash, across restarts, power
\* failures and lost answers.  The exception is a notice of an earlier change
\* that is acknowledged between the mark and the restart: it removes the
\* marker of the later one.
NoticeKept == owed # 0 => marker \/ overlap

\* A device with a key ends up running the published cfg.txt and does not
\* restart for ever, if its boots can start the service in the end: a stored
\* cfg.txt is fetched again after the restart and must then count as unchanged.
Settles ==
    (keyAuth /\ <>[](mainAt = "loop" => beatAt # "none"))
        => <>[](mainAt = "loop" /\ (published # 0 => running = published))

\* Alerts that failed, and alerts whose notification was dropped with those of
\* a failed one, leave the queue in the end.
AlertsDrain == <>[](alerts = <<>>)
=============================================================================
