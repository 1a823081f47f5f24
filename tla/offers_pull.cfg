SPECIFICATION PullSpec
CONSTANTS
  NotHeld = NotHeld
  RowIds = {r1}
  NoRow = NoRow
  Fields = {"redemptions"}
  FieldBound = 2
  OfferIds = {o1}
  o1 = o1
  o2 = o2
  SavingOne = 1
  SavingTwo = 2
  Saving <- MCSaving
  Users = {u1}
  Vouchers = {v1, v2}
  Consumers = {c1}
  Editors = {e1}
  Faulty = {}
  Caps = {0, 1}
  Never = Never
  NoClaim = NoClaim
  MaxNow = 1
  CountBound = 2
  Workers = {c1}
INVARIANTS
  OfferPullBrings
