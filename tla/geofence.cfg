SPECIFICATION GeofenceSpec
CONSTANTS
  Slots = {a, b}
  Venues = {v1, v2, v3}
  NoVenue = NoVenue
  MaxNear = 2
  MaxPerHour = 1
  Hour = 1
  Cooldown = 2
  MaxNow = 2
  MaxLost = 1
  MaxNotices = 3
SYMMETRY Interchangeable
INVARIANTS
  CooldownUnlessRaced
  HourBounded
