CONSTANTS
  Call = {c1, c2}
  Computer = {x1, x2}
  Pid = {g1, g2}
  None = None
SPECIFICATION Spec
SYMMETRY Symmetry
INVARIANT AlwaysDestroyable
CHECK_DEADLOCK FALSE
