---------------------------- MODULE CallContract ----------------------------
(***************************************************************************)
(* What the plugin's caller and the operator are promised about a call to  *)
(* the supervisor, whatever happens on the socket, in the sandbox or to    *)
(* the supervisor: the caller is told the outcome at most once, and before *)
(* it is told the log was given the entry of the call, once, perhaps after *)
(* the caller gave up.  The caller is not promised that the entry is in    *)
(* the log: a write that fails is lost, and neither the caller's wait nor  *)
(* its answer shows it.                                                    *)
(***************************************************************************)
CONSTANTS
  Calls,      \* the calls
  Unaudited   \* those the supervisor answers without recording them

VARIABLES
  status,     \* what the caller knows: "idle", "waiting", "answered", "failed"
  recorded,   \* the calls in the audit log
  lost        \* the calls whose entry could not be written

cvars == << status, recorded, lost >>

Init ==
  /\ status = [c \in Calls |-> "idle"]
  /\ recorded = {}
  /\ lost = {}

\* The caller asks; without a connection it is told so at once.
Request(c) ==
  /\ status[c] = "idle"
  /\ \E s \in {"waiting", "failed"} : status' = [status EXCEPT ![c] = s]
  /\ UNCHANGED << recorded, lost >>

\* The supervisor hands the entry of the call to the log, whether or not the
\* caller still waits: it is recorded, or lost.
Audit(c) ==
  /\ status[c] # "idle"
  /\ c \notin recorded \cup lost
  /\ \/ recorded' = recorded \cup {c} /\ UNCHANGED lost
     \/ lost' = lost \cup {c} /\ UNCHANGED recorded
  /\ UNCHANGED status

\* The caller learns the outcome.
Answer(c) ==
  /\ status[c] = "waiting"
  /\ c \in recorded \cup lost \cup Unaudited
  /\ status' = [status EXCEPT ![c] = "answered"]
  /\ UNCHANGED << recorded, lost >>

\* A timer or the end of the connection ends the wait of some callers.
Fail(gone) ==
  /\ gone # {}
  /\ \A c \in gone : status[c] = "waiting"
  /\ status' = [c \in Calls |-> IF c \in gone THEN "failed" ELSE status[c]]
  /\ UNCHANGED << recorded, lost >>

Next ==
  \/ \E c \in Calls : Request(c) \/ Audit(c) \/ Answer(c)
  \/ \E gone \in SUBSET Calls : Fail(gone)

Spec == Init /\ [][Next]_cvars

-----------------------------------------------------------------------------
\* The contract's own types.
TypeOK ==
  /\ status \in [Calls -> {"idle", "waiting", "answered", "failed"}]
  /\ recorded \subseteq Calls
  /\ lost \subseteq Calls
=============================================================================
