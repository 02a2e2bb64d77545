SPECIFICATION Spec
CONSTANTS
  c1 = c1
  c2 = c2
  c3 = c3
  c4 = c4
  host = host
  path = path
  any = any
  Calls <- ThreeCalls
  NetTargets <- Hosts
  FileTargets <- Paths
  Internal <- NoHosts
  AnyNet <- any
  Manifest <- TwoVersions
  GatewayStops = TRUE
CHECK_DEADLOCK FALSE
SYMMETRY CallSymmetry
INVARIANT TypeOK
INVARIANT RunsWithinConsent
INVARIANT AskedOnce
