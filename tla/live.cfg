SPECIFICATION Spec
CONSTANTS
  Sockets = {s1, s2, s3}
  Users = {u1, u2}
  Venues = {v1, v2}
  NoUser = NoUser
INVARIANTS
  TypeOK
  ViewersAreTheRoom
  CountIsCurrent
  MapsAgree
CHECK_DEADLOCK FALSE
