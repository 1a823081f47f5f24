SPECIFICATION Spec
CONSTANTS
  RowIds = {r1, r2}
  NoRow = NoRow
  Fields = {"redemptions"}
  FieldBound = 2
  OfferIds = {o1}
  o1 = o1
  o2 = o2
  SavingOne = 1
  SavingTwo = 2
  Saving <- MCSaving
  Users = {u1, u2}
  Vouchers = {v1, v2, v3}
  Consumers = {c1, c2}
  Editors = {}
  Faulty = {c1}
  Caps = {2}
  Never = Never
  NoClaim = NoClaim
  MaxNow = 0
  CountBound = 3
  Workers = {c1, c2}
INVARIANTS
  TypeOK
  CountCoversRedeemed
  DuplicatesBounded
PROPERTIES
  VoucherLifecycle
