CONSTANTS
  Goal = {g1, g2}
  Task = {t1, t2}
  Concurrency = 1
  MaxCrashes = 1
SPECIFICATION FairSpec
INVARIANT DoneMeansDone
PROPERTIES FinishedStays CancelStops EveryGoalDispatched
CHECK_DEADLOCK FALSE
