SPECIFICATION Spec
CONSTANTS
  Users = {u1, u2}
  Tokens = {t1}
  Savers = {u1}
  Batches = {b1, b2}
  NoPrefs = NoPrefs
  NoDevice = NoDevice
  Day = 3
  Window = 1
  SweepEvery = 1
  QuietHours <- MCQuietHours
  MaxNow = 2
  MaxBatches = 2
  MaxEvents = 2
SYMMETRY Slots
INVARIANTS
  
  PushReachesOwner
PROPERTIES
  OncePerWindow
CHECK_DEADLOCK FALSE
