CONSTANTS
  Call = {c1, c2}
  Ext = {older, newer}
  Key = {k}
  Manifest = {mOlder, mNewer, mBoxed, mForged, mUnsigned, mLater}
  Launch = {l1, l2}
  MaxCrashes = 1
  older = older
  newer = newer
  cap = cap
  k = k
  mOlder = mOlder
  mNewer = mNewer
  mBoxed = mBoxed
  mForged = mForged
  mUnsigned = mUnsigned
  mLater = mLater
  Capability = {cap}
  Id <- MCId
  Says <- MCSays
  CoreVersion <- MCCore
  RequireSignatures = TRUE
  MaxEffects = 1
  Operator = Operator
  None = None
SPECIFICATION WatchedSpec
CONSTRAINT Explored
SYMMETRY Symmetry
INVARIANTS WatchedTypeOK DependentsServed ActiveHoldsToken DisposedClean AdmittedGenuine
CHECK_DEADLOCK FALSE
