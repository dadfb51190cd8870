CONSTANTS
  Call = {drv, any}
  Driver = {drv}
  Providers = 2
  Decision = {d1, d2}
  Operation = {op1}
  Payload = {p1}
  Effect = {e1, e2}
  TTL = 1
  Horizon = 0
  MaxCrashes = 2
  None = None
SPECIFICATION TrackedSpec
INVARIANTS TrackedTypeOK ActsOnlyDispatched OneDispatcher
PROPERTIES LaunchOutcomeKept InterruptedReconciled
CHECK_DEADLOCK FALSE
