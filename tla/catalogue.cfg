SPECIFICATION Spec
CONSTANTS
  Servers = {s1, s2}
  MaxCopies = 2
  MaxEnds = 1
  Seeded = {1}
  Fresh = {2}
  SeedOwner <- MCSeedOwner
  SeedPercent <- MCSeedPercent
  Atmospheres = {"any", "quiet"}
  AnyAtmosphere = "any"
  NoOwner = NoOwner
  NoVenue = NoVenue
  Owners = {w1}
  Slots = {c1, c2}
  Details = {d1}
  Percents = {25}
  NoLevel <- MCNoLevel
  Near = {1}
  Limit = 1
SYMMETRY Interchangeable
INVARIANTS
  SeededOnce
  ServesWhole
  PagesCover
  RemovedForGood
