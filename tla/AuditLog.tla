------------------------------ MODULE AuditLog ------------------------------
(***************************************************************************)
(* The supervisor's hash-chained audit log (src/supervisor/audit.ts) on    *)
(* the disk it writes to, with the integrity summary a reader computes     *)
(* from the files (src/supervisor/audit-reader.ts).                        *)
(*                                                                         *)
(* write() is synchronous, so nothing of the supervisor interleaves with   *)
(* it; but a crash, a power cut or a disk error can fall between two of    *)
(* its system calls.  A write is therefore one step per call: the rotation *)
(* test, renameSync, each unlinkSync, appendFileSync.                      *)
(*                                                                         *)
(* Abstractions.  A line of the log is the part of its envelope the chain  *)
(* is made of: entryHash, seq and prevHash.  The hash is the number of the *)
(* write that computed it (SHA-256 does not collide, and recordedAt makes  *)
(* two writes differ), 0 is a null hash, and a line JSON.parse rejects is  *)
(* Malformed.  Sizes are counted in lines.  An archive is named by the     *)
(* write that rotated it.  A missing active file and an empty one are one  *)
(* state: open(), rotateIfNeeded() and the summary treat them alike.       *)
(***************************************************************************)
EXTENDS Integers, Sequences, SequencesExt

CONSTANTS
  MaxLines,     \* maxBytes: the active file is rotated before it outgrows this
  MaxArchives,  \* maxArchives: rotated files kept
  MaxWrites,    \* bound on the number of calls of write()
  Faults        \* the faults of the environment that can happen, among AllFaults

AllFaults ==
  { "crash",    \* the supervisor or the machine dies
    "io",       \* a system call fails and has changed nothing
    "torn",     \* an append stops after a part of the line
    "fsync",    \* the line is in the file, but the flush reports an error
    "unlink",   \* a stale archive cannot be removed
    "clock" }   \* the wall clock steps back, so archive names sort wrongly

ASSUME AuditAssumption ==
  /\ MaxLines \in Nat \ {0}
  /\ MaxArchives \in Nat \ {0}
  /\ MaxWrites \in Nat
  /\ Faults \subseteq AllFaults

VARIABLES
  archives,   \* the rotated files, in the order their names sort
  active,     \* the lines of audit.jsonl
  torn,       \* TRUE iff the last line of the active file lacks its newline
  seq,        \* this.seq
  lastHash,   \* this.lastHash
  healthy,    \* this.lastWriteError == null
  pc,         \* where the write in progress stands
  entry,      \* the line the write in progress computed
  cursor,     \* pruneArchives: the next stale archive to remove
  writes,     \* calls of write() so far
  committed,  \* history: hashes of the writes that ended without an error
  pruned      \* history: hashes of the lines in removed archives

vars == << archives, active, torn, seq, lastHash, healthy, pc, entry, cursor,
           writes, committed, pruned >>

disk   == << archives, active, torn >>
memory == << seq, lastHash, healthy >>
ghosts == << committed, pruned >>

Malformed == [hash |-> 0, seq |-> 0, prev |-> 0]

Line    == [hash : Nat, seq : Nat, prev : Nat]
Archive == [name : Nat, lines : Seq(Line)]

WellFormed(line) == line.hash # 0

-----------------------------------------------------------------------------
(* What the system calls do to the active file.                            *)

\* appendFileSync of `line`: O_APPEND knows nothing of lines, so bytes that
\* follow a line without newline become part of that line, which then no
\* longer parses.
Appended(line) ==
  IF torn THEN [active EXCEPT ![Len(active)] = Malformed]
          ELSE Append(active, line)

\* What an append that does not return normally can leave behind: the lines
\* of the active file, and whether the last one lacks its newline.
Leftovers ==
  {<< active, torn >>}
    \cup (IF "torn" \in Faults
            THEN { << Appended(Malformed), TRUE >>, << Appended(entry), TRUE >> }
            ELSE {})
    \cup (IF "fsync" \in Faults THEN {<< Appended(entry), FALSE >>} ELSE {})

\* The archives in name order after the active file is renamed.  A name is a
\* time stamp: the new one sorts last unless the clock stepped back.
Renamed ==
  LET new == [name |-> entry.hash, lines |-> active]
  IN  IF "clock" \in Faults
        THEN { InsertAt(archives, p, new) : p \in 1 .. Len(archives) + 1 }
        ELSE { Append(archives, new) }

HashesOf(lines) == { l.hash : l \in ToSet(lines) } \ {0}

-----------------------------------------------------------------------------
(* AuditLog.open(), in the constructor's fresh state.                      *)

\* Mutant of Recovered: open() skips a damaged tail and takes over from the
\* last line that parses.
RecoveredPastDamage ==
  LET good == { i \in DOMAIN active : WellFormed(active[i]) }
  IN  IF good = {} THEN Malformed
      ELSE active[CHOOSE i \in good : \A j \in good : j <= i]

\* What open() takes over from the last line of the active file.
Recovered ==
  IF active = << >> THEN Malformed ELSE Last(active)

Open ==
  /\ pc = "down"
  /\ seq' = Recovered.seq
  /\ lastHash' = Recovered.hash
  /\ healthy' = (active = << >> \/ WellFormed(Recovered))
  /\ pc' = "idle"
  /\ UNCHANGED << disk, entry, cursor, writes, ghosts >>

-----------------------------------------------------------------------------
(* AuditLog.write().                                                       *)

NeedsRotation == active # << >> /\ Len(active) + 1 > MaxLines

\* The envelope is computed, and rotateIfNeeded() looks at the size.
BeginWrite ==
  /\ pc = "idle"
  /\ writes < MaxWrites
  /\ writes' = writes + 1
  /\ entry' = [hash |-> writes + 1, seq |-> seq + 1, prev |-> lastHash]
  /\ pc' = IF NeedsRotation THEN "rotate" ELSE "append"
  /\ UNCHANGED << disk, memory, cursor, ghosts >>

\* Mutant of Rotate: the fragment of the old file is taken to be at the end
\* of the new one.
RotateKeepsFragment ==
  /\ pc = "rotate"
  /\ archives' \in Renamed
  /\ active' = << >>
  /\ pc' = "scan"
  /\ UNCHANGED << torn, memory, entry, cursor, writes, ghosts >>

\* renameSync to archivePath(), then writeFileSync of an empty active file.
Rotate ==
  /\ pc = "rotate"
  /\ archives' \in Renamed
  /\ active' = << >>
  /\ torn' = FALSE
  /\ pc' = "scan"
  /\ UNCHANGED << memory, entry, cursor, writes, ghosts >>

\* Mutants of Scan: the slice starts one archive too early; only the oldest
\* archive is taken to be stale.
ScanKeepsOneLess ==
  /\ pc = "scan"
  /\ cursor' = Len(archives) - MaxArchives + 1
  /\ pc' = "prune"
  /\ UNCHANGED << disk, memory, entry, writes, ghosts >>

ScanOldestOnly ==
  /\ pc = "scan"
  /\ cursor' = IF Len(archives) > MaxArchives THEN 1 ELSE 0
  /\ pc' = "prune"
  /\ UNCHANGED << disk, memory, entry, writes, ghosts >>

\* pruneArchives() lists the archives, newest first: those beyond maxArchives
\* are removed from the newest of them to the oldest.
Scan ==
  /\ pc = "scan"
  /\ cursor' = Len(archives) - MaxArchives
  /\ pc' = "prune"
  /\ UNCHANGED << disk, memory, entry, writes, ghosts >>

\* unlinkSync of one stale archive; a failure is ignored ("best effort").
PruneOne ==
  /\ pc = "prune"
  /\ cursor > 0
  /\ \/ /\ archives' = RemoveAt(archives, cursor)
        /\ pruned' = pruned \cup HashesOf(archives[cursor].lines)
     \/ /\ "unlink" \in Faults
        /\ UNCHANGED << archives, pruned >>
  /\ cursor' = cursor - 1
  /\ UNCHANGED << active, torn, memory, pc, entry, writes, committed >>

PruneDone ==
  /\ pc = "prune"
  /\ cursor <= 0
  /\ pc' = "append"
  /\ UNCHANGED << disk, memory, entry, cursor, writes, ghosts >>

\* Mutant of AppendOk: the sequence number advances, the hash does not.
AppendOkForgetsHash ==
  /\ pc = "append"
  /\ active' = Appended(entry)
  /\ torn' = FALSE
  /\ seq' = entry.seq
  /\ healthy' = TRUE
  /\ committed' = committed \cup {entry.hash}
  /\ pc' = "idle"
  /\ UNCHANGED << archives, lastHash, entry, cursor, writes, pruned >>

\* Mutant of AppendOk: the line is written without its newline.
AppendOkUnterminated ==
  /\ pc = "append"
  /\ active' = Appended(entry)
  /\ torn' = TRUE
  /\ seq' = entry.seq
  /\ lastHash' = entry.hash
  /\ healthy' = TRUE
  /\ committed' = committed \cup {entry.hash}
  /\ pc' = "idle"
  /\ UNCHANGED << archives, entry, cursor, writes, pruned >>

\* appendFileSync returns, and the chain advances.
AppendOk ==
  /\ pc = "append"
  /\ active' = Appended(entry)
  /\ torn' = FALSE
  /\ seq' = entry.seq
  /\ lastHash' = entry.hash
  /\ healthy' = TRUE
  /\ committed' = committed \cup {entry.hash}
  /\ pc' = "idle"
  /\ UNCHANGED << archives, entry, cursor, writes, pruned >>

\* Mutant of AppendFails: the sequence number was advanced before the append.
AppendFailsUsesSeq ==
  /\ pc = "append"
  /\ Faults \cap {"io", "torn", "fsync"} # {}
  /\ \E left \in Leftovers :
        /\ active' = left[1]
        /\ torn' = left[2]
  /\ seq' = entry.seq
  /\ healthy' = FALSE
  /\ pc' = "idle"
  /\ UNCHANGED << archives, lastHash, entry, cursor, writes, ghosts >>

\* appendFileSync throws: the chain stays where it was, whatever is on disk.
AppendFails ==
  /\ pc = "append"
  /\ Faults \cap {"io", "torn", "fsync"} # {}
  /\ \E left \in Leftovers :
        /\ active' = left[1]
        /\ torn' = left[2]
  /\ healthy' = FALSE
  /\ pc' = "idle"
  /\ UNCHANGED << archives, seq, lastHash, entry, cursor, writes, ghosts >>

\* renameSync, the truncation or readdirSync throws out of rotateIfNeeded().
RotateFails ==
  /\ pc \in {"rotate", "scan"}
  /\ "io" \in Faults
  /\ healthy' = FALSE
  /\ pc' = "idle"
  /\ UNCHANGED << disk, seq, lastHash, entry, cursor, writes, ghosts >>

\* The process or the machine stops, between two system calls or in an append.
Crash ==
  /\ "crash" \in Faults
  /\ pc # "down"
  /\ \E left \in IF pc = "append" THEN Leftovers ELSE {<< active, torn >>} :
        /\ active' = left[1]
        /\ torn' = left[2]
  /\ seq' = 0
  /\ lastHash' = 0
  /\ healthy' = TRUE
  /\ pc' = "down"
  /\ UNCHANGED << archives, entry, cursor, writes, ghosts >>

-----------------------------------------------------------------------------
Init ==
  /\ archives = << >>
  /\ active = << >>
  /\ torn = FALSE
  /\ seq = 0
  /\ lastHash = 0
  /\ healthy = TRUE
  /\ pc = "down"
  /\ entry = Malformed
  /\ cursor = 0
  /\ writes = 0
  /\ committed = {}
  /\ pruned = {}

Next ==
  \/ Open
  \/ BeginWrite
  \/ Rotate
  \/ Scan
  \/ PruneOne
  \/ PruneDone
  \/ AppendOk
  \/ AppendFails
  \/ RotateFails
  \/ Crash

Spec == Init /\ [][Next]_vars

-----------------------------------------------------------------------------
(* What a reader sees: listAuditFiles() gives the archives in name order,  *)
(* then the active file, and getAuditIntegritySummary() walks their lines. *)

Files == [f \in 1 .. Len(archives) + 1 |->
            IF f <= Len(archives) THEN archives[f].lines ELSE active]

Positions(files) == UNION { {f} \X DOMAIN files[f] : f \in DOMAIN files }

LineAt(files, p) == files[p[1]][p[2]]

Before(p, q) == p[1] < q[1] \/ (p[1] = q[1] /\ p[2] < q[2])

\* expectedPrevHash when the walk reaches q: the hash of the last line before
\* it that parsed, null at the first one.
ExpectedPrev(files, q) ==
  LET earlier == { p \in Positions(files) :
                     Before(p, q) /\ WellFormed(LineAt(files, p)) }
  IN  IF earlier = {} THEN 0
      ELSE LineAt(files, CHOOSE p \in earlier :
                           \A r \in earlier : r = p \/ Before(r, p)).hash

\* Mutant of Broken: a line that does not parse is skipped in silence.
BrokenLinksOnly(files) ==
  { q \in Positions(files) :
      /\ WellFormed(LineAt(files, q))
      /\ LineAt(files, q).prev # ExpectedPrev(files, q) }

\* The lines the summary counts in `broken`.
Broken(files) ==
  { q \in Positions(files) :
      \/ ~WellFormed(LineAt(files, q))
      \/ LineAt(files, q).prev # ExpectedPrev(files, q) }

\* The records in lines that parse, over all files on disk (toEntryRecord on
\* each line).  What getAuditEntries() returns is less: nothing while there is
\* no active file, and then only the last of them.
Readable(files) == UNION { HashesOf(files[f]) : f \in DOMAIN files }

-----------------------------------------------------------------------------
(* Properties.                                                             *)

\* Every variable has its type, only a line can be torn, and pruneArchives()
\* points at an archive that is there.
TypeOK ==
  /\ archives \in Seq(Archive)
  /\ active \in Seq(Line)
  /\ torn \in BOOLEAN
  /\ torn => active # << >>
  /\ seq \in Nat
  /\ lastHash \in Nat
  /\ healthy \in BOOLEAN
  /\ pc \in {"down", "idle", "rotate", "scan", "prune", "append"}
  /\ entry \in Line
  /\ cursor \in Int
  /\ pc = "prune" => cursor <= Len(archives)
  /\ writes \in Nat
  /\ committed \in SUBSET Nat
  /\ pruned \in SUBSET Nat

\* Where the reader finds the chain intact, nothing is missing: if a line
\* follows the line it names as its predecessor, then no write between the
\* two ended without an error.  It holds under every fault, restarts on a
\* damaged file and archives in the wrong order included: write() and open()
\* keep lastHash at the last record of the chain, or drop it.
NoSilentGap ==
  \A q \in Positions(Files) \ Broken(Files) :
     LET p == ExpectedPrev(Files, q)
     IN  p # 0 => \A c \in committed : c <= p \/ LineAt(Files, q).hash <= c

\* The sequence number and the hash pointer tell the same story: a line that
\* names another as its predecessor has the next sequence number.  The code
\* keeps the two in separate fields, advanced after the append and recovered
\* by open() field by field.
SeqFollowsChain ==
  \A p, q \in Positions(Files) :
     /\ WellFormed(LineAt(Files, p))
     /\ LineAt(Files, q).prev = LineAt(Files, p).hash
     => LineAt(Files, q).seq = LineAt(Files, p).seq + 1

\* The lines on disk.
DiskLines ==
  ToSet(active) \cup UNION { ToSet(archives[f].lines) : f \in DOMAIN archives }

\* Why NoSilentGap and SeqFollowsChain hold: a line that names a predecessor
\* was computed when no later write had succeeded (LinesAreLinked), because
\* lastHash is never behind the last success (MemoryIsCurrent), and after a
\* restart neither is the line open() recovers it from (TailIsCurrent).
PendingIsNew ==
  /\ \A l \in DiskLines : l.prev <= l.hash /\ l.hash <= writes
  /\ \A c \in committed : c <= writes
  /\ lastHash <= writes
  /\ pc \in {"rotate", "scan", "prune", "append"} =>
       /\ entry = [hash |-> writes, seq |-> seq + 1, prev |-> lastHash]
       /\ lastHash < writes
       /\ \A l \in DiskLines : l.hash < writes
       /\ \A c \in committed : c < writes

MemoryIsCurrent ==
  /\ lastHash # 0 => \A c \in committed : c <= lastHash
  /\ \A l \in DiskLines : WellFormed(l) /\ l.hash = lastHash => l.seq = seq

TailIsCurrent ==
  active # << >> /\ WellFormed(Last(active))
    => \A c \in committed : c <= Last(active).hash

LinesAreLinked ==
  /\ \A l \in DiskLines : WellFormed(l) /\ l.prev # 0 =>
       \A c \in committed : c <= l.prev \/ l.hash <= c
  /\ \A k, l \in DiskLines : WellFormed(k) =>
       /\ l.prev = k.hash => l.seq = k.seq + 1
       /\ l.hash = k.hash => l.seq = k.seq

ChainInv ==
  /\ PendingIsNew
  /\ MemoryIsCurrent
  /\ TailIsCurrent
  /\ LinesAreLinked

\* A summary with nothing broken means that no record was lost between the
\* oldest line kept and the last write that succeeded: what no line holds
\* was removed by pruneArchives(), or is older than every line.  A
\* clock that steps back breaks it: pruning then takes newer archives first.
CleanLogIsComplete ==
  Broken(Files) = {} =>
    \A c \in committed :
      \/ c \in Readable(Files) \cup pruned
      \/ \A r \in Readable(Files) : c < r

\* What the operator is promised (AuditTrail): whatever fails, a record that
\* is in a line that parses after its success stays in one, in some file, until
\* it is pruned, records appear in the order of their writes, and pruning takes
\* consecutive ones.
Trail == INSTANCE AuditTrail WITH Records <- 1 .. MaxWrites, kept <- Readable(Files)

KeepsTrail == Trail!Spec

\* pruneArchives() never takes a record newer than one in the active file or
\* in the newest maxArchives archives, however many archives earlier crashes
\* or failed removals left behind.
RetainNewest ==
  \A old \in pruned :
    \A f \in DOMAIN Files :
      f > Len(archives) - MaxArchives => \A new \in HashesOf(Files[f]) : old < new

\* A rotation whose removals succeed brings the number of archives back to
\* maxArchives, also when earlier rotations were cut short before the removal.
PruneRestoresBound ==
  [][pc = "prune" /\ pc' = "append" => Len(archives') <= MaxArchives]_vars
=============================================================================
