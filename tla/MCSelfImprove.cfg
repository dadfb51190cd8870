CONSTANTS
  Call = {c1, c2}
  Candidate = {k1, k2, k3}
  Class = {prompt}
  MaxEvals = 3
  Horizon = 1
  None = None
SPECIFICATION Spec
SYMMETRY Symmetry
INVARIANTS TypeOK BackstopIdle RegressionCaught TargetWasBound BoundOnEvidence
PROPERTY LifecycleFlow
CHECK_DEADLOCK FALSE
