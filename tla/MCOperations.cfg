CONSTANTS
  Call = {c1, c2}
  Decision = {d1, d2, d3}
  Operation = {op1}
  Payload = {p1, p2}
  Effect = {e1}
  TTL = 1
  Horizon = 1
  MaxCrashes = 1
  None = None
SPECIFICATION Spec
SYMMETRY Symmetry
INVARIANTS TypeOK SingleUse ApprovalsBalance DispatchLicensed
PROPERTIES ResolutionFinal ServeAfterSweep Implements
CHECK_DEADLOCK FALSE
