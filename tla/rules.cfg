SPECIFICATION FairSpec
CONSTANTS
  DayMinutes = 40
  WeekDays = 2
  NoTime = NoTime
  NewOffers <- MCNewOffers
  MaxGap = 2
  Caps = {0, 1}
  Starts = {NoTime, 3, 36}
  Ends = {NoTime, 0, 3, 35, 39}
  Overrides = {TRUE, FALSE}
INVARIANTS
  EndIsPushed
  StatusAgrees
PROPERTIES
  OpensAndClosesOnSchedule
  UpcomingOpens
