SPECIFICATION Spec
CONSTANTS
  c1 = c1
  c2 = c2
  c3 = c3
  c4 = c4
  host = host
  path = path
  any = any
  Calls <- FourCalls
  NetTargets <- Hosts
  FileTargets <- NoPaths
  Internal <- NoHosts
  AnyNet <- any
  Manifest <- Bare
  GatewayStops = FALSE
CHECK_DEADLOCK FALSE
SYMMETRY CallSymmetry
PROPERTY ApprovedHostsAreOpen
