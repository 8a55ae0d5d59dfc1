CONSTANTS
  Mappings = 3
  maxReverseListeners = 2
  verifyHostKey = TRUE
  Keys = {k1, k2}
  Expected = k1
  NoKey = NoKey
  KeepAlive = TRUE
  FatalThreshold = 3
  PeersFail = TRUE
SPECIFICATION FairSpec
INVARIANTS TypeOK NothingLeaks CompleteOrGone PinnedKeyOnly OwnFailuresOnly
PROPERTY DeadNoticed
