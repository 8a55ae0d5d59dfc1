CONSTANTS
  RingCap = 4
  BufSize = 1
  SmallRead = 1
  EofPump = 1
  MAX_WRITE_PER_CHANNEL = 3
  ErrorLimit = 0
  EOF_GRACE_MS = 0
  EAGAIN_STALL_TIMEOUT_MS = 0
  HALF_CLOSE_TIMEOUT_MS = 0
  LOCAL_SEND_STALL_TIMEOUT_MS = 0
  DRAIN_TIMEOUT_MS = 0
  HARD_ABANDON_TIMEOUT_MS = 1
  FINALIZE_COOLDOWN_MS = 0
  ChannelTimeout = 0
  PeersFail = FALSE
  AllocFails = FALSE
  MaxIn = 4
  MaxOut = 4
  MaxBoth = 5
SPECIFICATION FairSpec
PROPERTIES
  DrainEnds
  EofLeadsToClose
  PausesEnd
