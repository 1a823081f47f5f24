SPECIFICATION FairSpec
CONSTANTS
  RowIds = {r1}
  NoRow = NoRow
  Fields = {"redemptions"}
  FieldBound = 4
  OfferIds = {o1}
  o1 = o1
  o2 = o2
  SavingOne = 1
  SavingTwo = 2
  Saving <- MCSaving
  Users = {u1}
  Vouchers = {v1}
  Consumers = {c1, c2}
  Editors = {e1}
  Faulty = {}
  Caps = {0, 1}
  Never = Never
  NoClaim = NoClaim
  MaxNow = 1
  CountBound = 3
  Workers = {c1, c2}
INVARIANTS
  DeletedKeepsExpiry
  CountNotInvented
  DoubleRedeemBounded
PROPERTIES
  RedeemCompletes
