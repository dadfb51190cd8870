CONSTANTS
  Call = {c1, c2}
  Ext = {older, newer}
  Key = {k}
  Manifest = {mOlder, mNewer}
  Launch = {l1, l2}
  MaxCrashes = 0
  older = older
  newer = newer
  cap = cap
  k = k
  mOlder = mOlder
  mNewer = mNewer
  mBoxed = mBoxed
  mForged = mForged
  mUnsigned = mUnsigned
  mLater = mLater
  Capability = {cap}
  Id <- MCId
  Says <- MCSays
  CoreVersion <- MCCore
  RequireSignatures = TRUE
  MaxEffects = 1
  Operator = Operator
  None = None
SPECIFICATION WatchedSpec
PROPERTY ProviderKept
CHECK_DEADLOCK FALSE
