CONSTANTS
  Call = {c1, c2}
  Account = {a1}
  Cred = {k1, k2, k3}
  Secret = {s1, s2, s3}
  None = None
SPECIFICATION Spec
SYMMETRY Symmetry
INVARIANT OneActive
CHECK_DEADLOCK FALSE
