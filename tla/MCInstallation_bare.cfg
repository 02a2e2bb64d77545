SPECIFICATION Spec
CONSTANTS
  u1 = u1
  admin = admin
  none = none
  Accounts <- OneAccount
  Admin <- admin
  None <- none
  MaxTag = 1
  MaxOverlap = 2
  MaxOpenClaw = 2
  Pinned <- OneLock
CHECK_DEADLOCK FALSE
INVARIANT GatewayIsSandboxed
