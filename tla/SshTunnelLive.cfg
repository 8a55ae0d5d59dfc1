CONSTANTS
  Slots = {1}
  Chans = {c1, c2, c3}
  NoChan = NoChan
  MAX_PENDING = 2
  MAX_DEFERRED_CLOSE = 1
  MaxAttempts = 2
  BaseDelay = 1
  Cooldown = 2
SPECIFICATION FairSpec
PROPERTIES
  Reconnects
  NoEndlessWait
