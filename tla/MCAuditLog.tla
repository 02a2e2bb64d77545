---------------------------- MODULE MCAuditLog ----------------------------
(* Instances of AuditLog for TLC. *)
EXTENDS AuditLog

\* Every fault but a clock that steps back.
SteadyClock == AllFaults \ {"clock"}
=============================================================================
