SPECIFICATION Spec
CONSTANTS
  u1 = u1
  admin = admin
  none = none
  Accounts <- OneAccount
  Admin <- admin
  None <- none
  MaxTag = 2
  MaxOverlap = 2
  MaxOpenClaw = 2
  Pinned <- TwoLocks
CHECK_DEADLOCK FALSE
INVARIANT TypeOK
INVARIANT AccountsExist
INVARIANT ManifestNamesWholeRelease
PROPERTY RegistrationLostOnlyToStaleCopy
