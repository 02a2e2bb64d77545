SPECIFICATION FairProxySpec
CONSTANTS
  t1 = t1
  bad = bad
  s1 = s1
  k1 = k1
  k2 = k2
  ToolRequests <- TwoTools
  AuditRequests <- NoAudit
  Skills <- OneSkill
  SkillOf <- TwoUseSkill
  BadNames <- OneBadName
  Hosts <- SomeHosts
  Internal <- InternalHosts
  Services <- SomeServices
  Proxied <- ProxiedServices
  UrlOf <- Urls
  UsualPort <- UsualPorts
  CapSets <- TwoCapSets
  Conns <- TwoConns
  Targeted <- FourTargets
CHECK_DEADLOCK FALSE
INVARIANT ConnectedWithinConsent
PROPERTY CallsSettle
PROPERTY TokensExpire
