---------------------------- MODULE MCToolCalls ----------------------------
(* Instances of ToolCalls for TLC. *)
EXTENDS ToolCalls, TLC

CONSTANTS t1, t2, a1, s1

TwoTools == {t1, t2}
OneAudit == {a1}
OneSkill == {s1}
TwoUseSkill == [c \in TwoTools |-> s1]
NoBadName == {}
ToolSymmetry == Permutations({t1, t2})
=============================================================================
