SPECIFICATION Spec
CONSTANTS
  first = first
  second = second
  Launchers <- TwoLaunchers
  MaxCrashes = 2
SYMMETRY Symmetry
CHECK_DEADLOCK FALSE
INVARIANT TypeOK
INVARIANT ShutdownLeavesNothing
INVARIANT SocketIsServed
INVARIANT NoneWithoutGateway
INVARIANT StopLeavesNothing
