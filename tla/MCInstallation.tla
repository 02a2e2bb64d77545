--------------------------- MODULE MCInstallation ---------------------------
(* Instances of Installation for TLC. *)
EXTENDS Installation

CONSTANTS u1, admin, none

OneAccount == {u1}
OneLock == << 1 >>
TwoLocks == << 1, 1 >>
=============================================================================
