\* Tracker
SPECIFICATION TrackerSpec
CONSTANTS
  t1 = t1
  t2 = t2
  Null = Null
  Tab = {t1, t2}
  ConsentRequired = TRUE
  EngagedAfter = 1
  MaxTries = 1
  MaxPending = 2
INVARIANTS TrackerTypeOK VisiblePagesBeat EngagementIsEarned
PROPERTIES FailedIsSettled
