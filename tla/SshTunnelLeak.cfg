CONSTANTS
  Slots = {1}
  Chans = {c1, c2}
  NoChan = NoChan
  MAX_PENDING = 1
  MAX_DEFERRED_CLOSE = 1
  MaxAttempts = 1
  BaseDelay = 1
  Cooldown = 1
SPECIFICATION Spec
INVARIANT NoLeak
