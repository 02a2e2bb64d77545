---------------------------- MODULE AuditReader ----------------------------
(***************************************************************************)
(* `sc audit` (src/cli/commands/audit.ts) beside the supervisor that       *)
(* writes the log: another process, which reads the files one after the    *)
(* other while write() appends, rotates and prunes.  It first shows the    *)
(* entries of the active file, then walks all files for the integrity      *)
(* line (getAuditIntegritySummary).  The dashboard API reads inside the    *)
(* supervisor and never meets a rotation half done.                        *)
(***************************************************************************)
EXTENDS AuditLog

VARIABLES
  rpc,        \* where the command stands
  shown,      \* hashes of the entries it displays
  listing,    \* names of the archives listAuditFiles() found, not yet read
  snapshot    \* the files read so far for the summary, in reading order

reader == << rpc, shown, listing, snapshot >>

rvars == << vars, reader >>

ReaderInit ==
  /\ rpc = "start"
  /\ shown = {}
  /\ listing = << >>
  /\ snapshot = << >>

\* Mutant of ShowEntries: lines that do not parse are shown as well.
ShowEntriesRaw ==
  /\ rpc = "start"
  /\ shown' = { l.hash : l \in ToSet(active) }
  /\ rpc' = IF active = << >> THEN "done" ELSE "list"
  /\ UNCHANGED << vars, listing, snapshot >>

\* `sc audit --all`: only the active file is read for the entries; with none
\* to show the command ends before the summary.
ShowEntries ==
  /\ rpc = "start"
  /\ shown' = HashesOf(active)
  /\ rpc' = IF HashesOf(active) = {} THEN "done" ELSE "list"
  /\ UNCHANGED << vars, listing, snapshot >>

\* Mutant of ListFiles: the archives are listed newest first.
ListFilesNewestFirst ==
  /\ rpc = "list"
  /\ listing' = Reverse([i \in DOMAIN archives |-> archives[i].name])
  /\ rpc' = "check"
  /\ UNCHANGED << vars, shown, snapshot >>

\* listAuditFiles(): the readdirSync, with the names in sort order.
ListFiles ==
  /\ rpc = "list"
  /\ listing' = [i \in DOMAIN archives |-> archives[i].name]
  /\ rpc' = "check"
  /\ UNCHANGED << vars, shown, snapshot >>

\* Its existsSync of one name: an archive pruned since the listing is dropped.
SkipGone ==
  /\ rpc = "check"
  /\ \E p \in DOMAIN listing :
       /\ \A i \in DOMAIN archives : archives[i].name # listing[p]
       /\ listing' = RemoveAt(listing, p)
  /\ UNCHANGED << vars, rpc, shown, snapshot >>

\* The last existsSync returns; a name may have gone since its own.
StartWalk ==
  /\ rpc = "check"
  /\ rpc' = "read"
  /\ UNCHANGED << vars, shown, listing, snapshot >>

\* One readFileSync of the loop; the archive may be gone, and then it throws.
ReadArchive ==
  /\ rpc = "read"
  /\ listing # << >>
  /\ listing' = Tail(listing)
  /\ LET found == { i \in DOMAIN archives : archives[i].name = Head(listing) }
     IN  IF found = {}
           THEN /\ rpc' = "failed"
                /\ UNCHANGED snapshot
           ELSE /\ \E i \in found : snapshot' = Append(snapshot, archives[i].lines)
                /\ UNCHANGED rpc
  /\ UNCHANGED << vars, shown >>

\* The active file comes last in the list.  If it did not exist when the files
\* were checked (write() had renamed it and not yet made the new one), the walk
\* ends without it, at the state before this step.
ReadActive ==
  /\ rpc = "read"
  /\ listing = << >>
  /\ snapshot' = Append(snapshot, active)
  /\ rpc' = "done"
  /\ UNCHANGED << vars, shown, listing >>

ReaderNext ==
  \/ Next /\ UNCHANGED reader
  \/ ShowEntries
  \/ ListFiles
  \/ SkipGone
  \/ StartWalk
  \/ ReadArchive
  \/ ReadActive

ReaderSpec == Init /\ ReaderInit /\ [][ReaderNext]_rvars

-----------------------------------------------------------------------------
(* Properties.                                                             *)

\* Every variable of the command has its type.
ReaderTypeOK ==
  /\ rpc \in {"start", "list", "check", "read", "done", "failed"}
  /\ shown \subseteq 1 .. writes
  /\ listing \in Seq(1 .. writes)
  /\ snapshot \in Seq(Seq(Line))

\* The summary of a racing reader still never passes over a lost record:
\* between two lines it counts as linked no write succeeded, even when the
\* files were rotated or pruned between two reads.
RacingReaderSeesNoFalseLink ==
  \A q \in Positions(snapshot) \ Broken(snapshot) :
     LET p == ExpectedPrev(snapshot, q)
     IN  p # 0 => \A c \in committed : c <= p \/ LineAt(snapshot, q).hash <= c

\* No record is read twice or out of order, although a line moves from the
\* active file to an archive while the list is walked: archives are listed
\* before, and read before, the active file.
ReadOnceInOrder ==
  \A p, q \in Positions(snapshot) :
     /\ Before(p, q)
     /\ WellFormed(LineAt(snapshot, p)) /\ WellFormed(LineAt(snapshot, q))
     => LineAt(snapshot, p).hash < LineAt(snapshot, q).hash

=============================================================================
