\* One network, two tunnel configurations, a second key pair beyond the first
\* identity and a third for a renewed one, three requests one after another, one
\* failing operation and two power failures anywhere in between.
SPECIFICATION Spec
CONSTANTS
    Wifis = {w1}
    Devices = {d1, d2}
    Absent = Absent
    MaxKeys = 3
    MaxEdits = 3
    MaxFaults = 1
    MaxPowerLoss = 2
INVARIANTS
    TypeOK
    OldOrNew
    PairMatches
    IdentityKept
    ResetForgets
PROPERTY
    SetupSurvives
\* A device that serves its tunnel waits for a request, and requests are bounded.
CHECK_DEADLOCK FALSE
