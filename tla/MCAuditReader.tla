--------------------------- MODULE MCAuditReader ---------------------------
(* Instances of AuditReader for TLC. *)
EXTENDS AuditReader

\* A clock that only moves forward, and stale archives that can be removed.
AppendFaults == {"crash", "io", "torn", "fsync"}
=============================================================================
