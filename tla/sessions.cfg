SPECIFICATION Spec
CONSTANTS
  Slots = {s1, s2}
  RowIds = {r1, r2, r3}
  NoToken = NoToken
  Lifetime = 1
  MaxNow = 2
  MaxChanges = 1
INVARIANTS
  TypeOK
  OnlyLateSurvive
  OneTokenPerSession
PROPERTIES
  RevokedIsFinal
CHECK_DEADLOCK FALSE
