-------------------------- MODULE MCApprovalFlow --------------------------
(* Instances of ApprovalFlow for TLC. *)
EXTENDS ApprovalFlow, TLC

CONSTANTS c1, c2, c3, c4, host, path, any

ThreeCalls == {c1, c2, c3}
FourCalls == {c1, c2, c3, c4}
Hosts == {host}
Paths == {path}
NoPaths == {}
NoHosts == {}
OneVersion == << {host} >>
Bare == << {} >>
TwoVersions == << {}, {path} >>
CallSymmetry == Permutations({c1, c2, c3, c4})
=============================================================================
