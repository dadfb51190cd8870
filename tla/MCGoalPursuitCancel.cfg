CONSTANTS
  Goal = {g1}
  Task = {t1}
  Concurrency = 1
  MaxCrashes = 0
SPECIFICATION Spec
PROPERTY CanceledFinal
CHECK_DEADLOCK FALSE
