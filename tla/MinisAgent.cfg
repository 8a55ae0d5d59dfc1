CONSTANTS
    AlertDepth = 2
    MaxVersion = 2
    MaxAppAlerts = 2
    MaxPowerLoss = 1
SPECIFICATION Spec
\* A boot that cannot start the service has nothing left to do.
CHECK_DEADLOCK FALSE
INVARIANTS TypeOK NoticeKept
PROPERTIES Settles AlertsDrain
