SPECIFICATION Spec
CONSTANTS
  Staff = {s1}
  Visitors = {vi}
  Uploads = {up}
  NoRow = NoRow
  MaxNow = 1
  MaxStatus = 1
  MaxChecks = 1
  MaxQueued = 1
  MaxUploads = 2
  MaxPulls = 1
INVARIANTS
  AppliedOnce
  NextPullBrings
  ChecksCounted
  FeedShowsOwner
PROPERTIES
  OldNeverReplacesNew
CHECK_DEADLOCK FALSE
