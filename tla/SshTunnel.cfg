CONSTANTS
  Slots = {1, 2}
  Chans = {c1, c2, c3, c4}
  NoChan = NoChan
  MAX_PENDING = 1
  MAX_DEFERRED_CLOSE = 1
  MaxAttempts = 1
  BaseDelay = 1
  Cooldown = 2
SPECIFICATION Spec
INVARIANTS TypeOK NoDangling OneHolder ActiveCountExact EventsMatch NothingElseLost
