SPECIFICATION Spec
CONSTANTS
  Workers = {w1, w2}
  RowIds = {r1, r2}
  NoRow = NoRow
  Fields = {"totalViews", "totalSaves", "offerClicks"}
  FieldBound = 3
  Venues = {v1}
  Tracked = v1
  NoUser = NoUser
  MaxRequests = 2
  MaxViews = 2
  Arriving = {"refresh_tokens", "sync_actions"}
SYMMETRY Interchangeable
INVARIANTS
  StaleOnlyIfExposed
  ErasedForGood
  NeverOverReports
  ExactWithoutOverlap
CHECK_DEADLOCK FALSE
