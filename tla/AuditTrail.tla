----------------------------- MODULE AuditTrail -----------------------------
(***************************************************************************)
(* What the audit log promises the operator, with no word about files: the *)
(* records it keeps in a line of their own that parses, those whose write  *)
(* was reported as a success, and those that retention removed.  A record  *)
(* kept after its success stays until it is pruned; what a crash or a full *)
(* disk can take is the record in the very moment of its write, or one     *)
(* that was never reported.  What is pruned at one time is a run of        *)
(* consecutive records.                                                    *)
(***************************************************************************)
EXTENDS Integers

CONSTANT Records   \* the records, numbered in the order of their writes

VARIABLES
  kept,       \* the records on disk in a line that parses
  committed,  \* those whose write ended without an error
  pruned      \* those removed with their files

tvars == << kept, committed, pruned >>

Init ==
  /\ kept = {}
  /\ committed = {}
  /\ pruned = {}

Newest(r, set) == \A x \in set : x < r

\* A record reaches the files, whether or not its writer hears of it.
Write(r) ==
  /\ Newest(r, kept \cup committed \cup pruned)
  /\ kept' = kept \cup {r}
  /\ committed' \in {committed, committed \cup {r}}
  /\ UNCHANGED pruned

\* A record is glued to what an interrupted write left behind: neither line
\* parses, although the writer of the second may be told that all went well.
Glue(r) ==
  /\ Newest(r, kept \cup committed \cup pruned)
  /\ \E lost \in {{}} \cup { {x} : x \in kept \ committed } :
        /\ \A x \in lost : Newest(x, kept \ lost)
        /\ kept' = kept \ lost
  /\ committed' \in {committed, committed \cup {r}}
  /\ UNCHANGED pruned

\* Retention removes the records of one file.
Prune(from, to) ==
  LET old == { x \in kept : from <= x /\ x <= to }
  IN  /\ kept' = kept \ old
      /\ pruned' = pruned \cup old
      /\ UNCHANGED committed

Next ==
  \/ \E r \in Records : Write(r) \/ Glue(r)
  \/ \E from, to \in Records : Prune(from, to)

Spec == Init /\ [][Next]_tvars
=============================================================================
