SPECIFICATION Spec
CONSTANTS
  t1 = t1
  t2 = t2
  a1 = a1
  s1 = s1
  ToolRequests <- TwoTools
  AuditRequests <- OneAudit
  Skills <- OneSkill
  SkillOf <- TwoUseSkill
  BadNames <- NoBadName
CHECK_DEADLOCK FALSE
SYMMETRY ToolSymmetry
INVARIANT TypeOK
INVARIANT PendingIsWaiting
INVARIANT AnsweredMeansAudited
INVARIANT TokenDiesWithChild
INVARIANT OnlyKnownSkillsRun
PROPERTY KeepsContract
