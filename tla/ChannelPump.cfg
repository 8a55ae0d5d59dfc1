CONSTANTS
  RingCap = 4
  BufSize = 2
  SmallRead = 1
  EofPump = 2
  MAX_WRITE_PER_CHANNEL = 3
  ErrorLimit = 1
  EOF_GRACE_MS = 1
  EAGAIN_STALL_TIMEOUT_MS = 1
  HALF_CLOSE_TIMEOUT_MS = 1
  LOCAL_SEND_STALL_TIMEOUT_MS = 1
  DRAIN_TIMEOUT_MS = 2
  HARD_ABANDON_TIMEOUT_MS = 3
  FINALIZE_COOLDOWN_MS = 1
  ChannelTimeout = 2
  PeersFail = TRUE
  AllocFails = TRUE
  MaxIn = 4
  MaxOut = 4
  MaxBoth = 2
SPECIFICATION Spec
INVARIANTS TypeOK BytesAccounted LossHasCause EofIsLast
