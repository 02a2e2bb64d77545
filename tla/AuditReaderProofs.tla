-------------------------- MODULE AuditReaderProofs --------------------------
(***************************************************************************)
(* What `sc audit` may conclude while the supervisor writes, rotates and   *)
(* prunes: the links its summary reports are true ones, for every size of  *)
(* segment, number of archives, number of writes and set of faults.        *)
(***************************************************************************)
EXTENDS AuditReader, AuditLogProofs

-----------------------------------------------------------------------------
(* The invariant.                                                          *)

\* The lines the command has read.
SeenLines == UNION { ToSet(snapshot[f]) : f \in DOMAIN snapshot }

\* An archive is named by the write that rotated it.
NamesAreWrites == \A i \in DOMAIN archives : archives[i].name \in 1 .. writes

\* What was read stays true: a line that was on disk is older than the write
\* in progress, and the records that succeed later are newer than it.
SeenStaysLinked ==
  \A l \in SeenLines :
    /\ l.hash <= writes
    /\ Writing => l.hash < writes
    /\ WellFormed(l) /\ l.prev # 0 => \A c \in committed : c <= l.prev \/ l.hash <= c

ReaderInv == ReaderTypeOK /\ NamesAreWrites /\ SeenStaysLinked

-----------------------------------------------------------------------------
(* Steps of the writer.                                                    *)

\* Archives keep their names; the one a rotation adds has the name of the
\* write in progress.
LEMMA NamesStep ==
  ASSUME TypeOK, ChainInv, NamesAreWrites, [Next]_vars
  PROVE  NamesAreWrites'
<1>1. writes \in Nat /\ writes' \in Nat /\ writes <= writes'
  BY WriterMoves DEF TypeOK
<1>2. archives \in Seq(Archive)
  BY DEF TypeOK
<1>3. CASE archives' = archives
  BY <1>1, <1>3 DEF NamesAreWrites
<1>4. CASE Rotate
  <2> DEFINE new == [name |-> entry.hash, lines |-> active]
  <2>1. new \in Archive /\ new.name \in 1 .. writes
    BY <1>4 DEF Rotate, TypeOK, ChainInv, PendingIsNew, Archive, Line
  <2>2. \/ \E p \in 1 .. Len(archives) + 1 : archives' = InsertAt(archives, p, new)
        \/ archives' = Append(archives, new)
    BY <1>4 DEF Rotate, Renamed
  <2> HIDE DEF new
  <2>3. \A i \in DOMAIN archives' :
          archives'[i] = new \/ \E j \in DOMAIN archives : archives'[i] = archives[j]
    <3>1. CASE \E p \in 1 .. Len(archives) + 1 : archives' = InsertAt(archives, p, new)
      <4>1. PICK p \in 1 .. Len(archives) + 1 : archives' = InsertAt(archives, p, new)
        BY <3>1
      <4>2. \A i \in DOMAIN InsertAt(archives, p, new) :
              \/ InsertAt(archives, p, new)[i] = new
              \/ \E j \in DOMAIN archives : InsertAt(archives, p, new)[i] = archives[j]
        BY <1>2, <2>1, <4>1, InsertAtElements
      <4> QED
        BY <4>1, <4>2
    <3>2. CASE archives' = Append(archives, new)
      BY <3>2, <1>2
    <3> QED
      BY <2>2, <3>1, <3>2
  <2> QED
    BY <1>1, <2>1, <2>3 DEF NamesAreWrites
<1>5. CASE PruneOne /\ archives' # archives
  <2>1. cursor \in 1 .. Len(archives) /\ archives' = RemoveAt(archives, cursor)
    BY <1>5 DEF PruneOne, TypeOK
  <2>2. \A i \in DOMAIN RemoveAt(archives, cursor) :
          \E j \in DOMAIN archives : RemoveAt(archives, cursor)[i] = archives[j]
    BY <2>1, <1>2, RemoveAtElements
  <2> QED
    BY <1>1, <2>1, <2>2 DEF NamesAreWrites
<1>6. archives' = archives \/ Rotate \/ PruneOne
  BY DEF Next, vars, disk, Open, BeginWrite, Scan, PruneDone, AppendOk, AppendFails,
         RotateFails, Crash
<1> QED
  BY <1>3, <1>4, <1>5, <1>6

\* Whatever the writer does, what the command has read stays true.
LEMMA WriterStep ==
  ASSUME TypeOK, ChainInv, ReaderInv, [Next]_vars, UNCHANGED reader
  PROVE  ReaderInv'
<1>1. /\ writes \in Nat /\ writes' \in Nat /\ writes <= writes'
      /\ Writing' => writes' = writes + 1 \/ (Writing /\ writes' = writes)
      /\ \/ committed' = committed
         \/ Writing /\ committed' = committed \cup {writes}
  BY WriterMoves DEF TypeOK
<1>2. ReaderTypeOK'
  <2>1. listing' \in Seq(1 .. writes')
    BY <1>1 DEF ReaderInv, ReaderTypeOK, reader
  <2> QED
    BY <1>1, <2>1 DEF ReaderInv, ReaderTypeOK, reader
<1>3. NamesAreWrites'
  BY NamesStep DEF ReaderInv
<1>4. SeenLines' = SeenLines
  BY DEF SeenLines, reader
<1>5. \A l \in SeenLines : l \in Line
  BY DEF SeenLines, ReaderInv, ReaderTypeOK, ToSet
<1>6. ASSUME NEW l \in SeenLines
      PROVE  /\ l.hash <= writes'
             /\ Writing' => l.hash < writes'
             /\ WellFormed(l) /\ l.prev # 0 =>
                  \A c \in committed' : c <= l.prev \/ l.hash <= c
  <2>1. /\ l.hash \in Nat /\ l.hash <= writes
        /\ Writing => l.hash < writes
        /\ WellFormed(l) /\ l.prev # 0 => \A c \in committed : c <= l.prev \/ l.hash <= c
    BY <1>5, <1>6 DEF ReaderInv, SeenStaysLinked, Line
  <2> QED
    BY <1>1, <2>1
<1> QED
  BY <1>2, <1>3, <1>4, <1>6 DEF ReaderInv, SeenStaysLinked

-----------------------------------------------------------------------------
(* Steps of the command.                                                   *)

\* What the command does on its own.
CommandSteps ==
  ShowEntries \/ ListFiles \/ SkipGone \/ StartWalk \/ ReadArchive \/ ReadActive

\* It changes nothing of the log.
LEMMA CommandReads == CommandSteps => UNCHANGED vars
BY DEF CommandSteps, ShowEntries, ListFiles, SkipGone, StartWalk, ReadArchive, ReadActive

\* Reading one more file keeps the invariant: its lines are on disk, where
\* the chain holds.
LEMMA ReadingStep ==
  ASSUME TypeOK, ChainInv, ReaderInv, UNCHANGED vars,
         NEW lines \in Seq(Line), ToSet(lines) \subseteq DiskLines,
         snapshot' = Append(snapshot, lines)
  PROVE  snapshot' \in Seq(Seq(Line)) /\ SeenStaysLinked'
<1>1. snapshot \in Seq(Seq(Line))
  BY DEF ReaderInv, ReaderTypeOK
<1>2. /\ snapshot' \in Seq(Seq(Line))
      /\ \A f \in DOMAIN snapshot' :
           snapshot'[f] = lines \/ \E g \in DOMAIN snapshot : snapshot'[f] = snapshot[g]
  BY <1>1
<1>3. SeenLines' \subseteq SeenLines \cup DiskLines
  BY <1>2 DEF SeenLines
<1>4. \A l \in DiskLines :
        /\ l.hash <= writes
        /\ Writing => l.hash < writes
        /\ WellFormed(l) /\ l.prev # 0 => \A c \in committed : c <= l.prev \/ l.hash <= c
  BY DEF ChainInv, PendingIsNew, LinesAreLinked, Writing
<1>5. writes' = writes /\ committed' = committed /\ Writing' = Writing
  BY DEF vars, ghosts, Writing
<1> QED
  BY <1>2, <1>3, <1>4, <1>5 DEF ReaderInv, SeenStaysLinked

\* The hashes a file shows are numbers of writes.
LEMMA HashesAreWrites ==
  ASSUME TypeOK, ChainInv
  PROVE  HashesOf(active) \subseteq 1 .. writes
<1>1. \A l \in ToSet(active) : l \in Line /\ l.hash <= writes
  BY FilesAreOnDisk, LinesOnDisk DEF ChainInv, PendingIsNew
<1> QED
  BY <1>1 DEF HashesOf, Line, TypeOK

\* The command's own steps keep the invariant.
LEMMA CommandStep ==
  ASSUME TypeOK, ChainInv, ReaderInv,
         CommandSteps
  PROVE  ReaderInv'
<1>1. UNCHANGED vars
  BY CommandReads
<1>2. writes' = writes /\ archives' = archives /\ committed' = committed /\ pc' = pc
  BY <1>1 DEF vars, disk, ghosts
<1>3. NamesAreWrites'
  BY <1>2 DEF ReaderInv, NamesAreWrites
<1>4. snapshot' = snapshot => SeenStaysLinked'
  BY <1>2 DEF ReaderInv, SeenStaysLinked, SeenLines, Writing
<1>5. CASE ShowEntries
  BY <1>2, <1>3, <1>4, <1>5, HashesAreWrites DEF ShowEntries, ReaderInv, ReaderTypeOK
<1>6. CASE ListFiles
  <2>1. DOMAIN archives = 1 .. Len(archives) /\ Len(archives) \in Nat
    BY LenProperties DEF TypeOK
  <2>2. listing' \in Seq(1 .. writes')
    BY <1>2, <1>6, <2>1 DEF ListFiles, ReaderInv, NamesAreWrites
  <2> QED
    BY <1>2, <1>3, <1>4, <1>6, <2>2 DEF ListFiles, ReaderInv, ReaderTypeOK
<1>7. CASE SkipGone
  <2>1. PICK p \in DOMAIN listing : listing' = RemoveAt(listing, p)
    BY <1>7 DEF SkipGone
  <2>2. listing \in Seq(1 .. writes) /\ p \in 1 .. Len(listing)
    BY LenProperties DEF ReaderInv, ReaderTypeOK
  <2>3. listing' \in Seq(1 .. writes')
    BY <1>2, <2>1, <2>2, RemoveAtElements
  <2> QED
    BY <1>2, <1>3, <1>4, <1>7, <2>3 DEF SkipGone, ReaderInv, ReaderTypeOK
<1>8. CASE StartWalk
  BY <1>2, <1>3, <1>4, <1>8 DEF StartWalk, ReaderInv, ReaderTypeOK
<1>9. CASE ReadArchive
  <2>1. rpc' \in {"read", "failed"} /\ shown' = shown /\ listing' = Tail(listing)
    BY <1>9 DEF ReadArchive
  <2>2. listing' \in Seq(1 .. writes')
    BY <1>2, <1>9, <2>1 DEF ReadArchive, ReaderInv, ReaderTypeOK
  <2>3. snapshot' \in Seq(Seq(Line)) /\ SeenStaysLinked'
    <3>1. CASE snapshot' = snapshot
      BY <1>4, <3>1 DEF ReaderInv, ReaderTypeOK
    <3>2. CASE \E i \in DOMAIN archives : snapshot' = Append(snapshot, archives[i].lines)
      BY <1>1, <3>2, FilesAreOnDisk, ReadingStep
    <3> QED
      BY <1>9, <3>1, <3>2 DEF ReadArchive
  <2> QED
    BY <1>2, <1>3, <2>1, <2>2, <2>3 DEF ReaderInv, ReaderTypeOK
<1>10. CASE ReadActive
  <2>1. snapshot' \in Seq(Seq(Line)) /\ SeenStaysLinked'
    BY <1>1, <1>10, FilesAreOnDisk, ReadingStep DEF ReadActive
  <2> QED
    BY <1>2, <1>3, <1>10, <2>1 DEF ReadActive, ReaderInv, ReaderTypeOK
<1> QED
  BY <1>5, <1>6, <1>7, <1>8, <1>9, <1>10 DEF CommandSteps

-----------------------------------------------------------------------------
(* Theorems about every behaviour.                                         *)

\* The log under a reader behaves like the log alone, and the reader keeps
\* its invariant.
LEMMA ReaderCorrect == ReaderSpec => [](TypeOK /\ ChainInv /\ ReaderInv)
<1>1. Init /\ ReaderInit => TypeOK /\ ChainInv /\ ReaderInv
  <2> SUFFICES ASSUME Init, ReaderInit PROVE ReaderInv
    BY InitialState
  <2>1. ReaderTypeOK
    BY DEF ReaderInit, ReaderTypeOK
  <2>2. NamesAreWrites
    BY DEF Init, NamesAreWrites
  <2>3. SeenLines = {}
    BY DEF ReaderInit, SeenLines
  <2> QED
    BY <2>1, <2>2, <2>3 DEF ReaderInv, SeenStaysLinked
<1>2. TypeOK /\ ChainInv /\ ReaderInv /\ [ReaderNext]_rvars
        => (TypeOK /\ ChainInv /\ ReaderInv)'
  <2> SUFFICES ASSUME TypeOK, ChainInv, ReaderInv, [ReaderNext]_rvars
               PROVE  (TypeOK /\ ChainInv /\ ReaderInv)'
    OBVIOUS
  <2>1. [Next]_vars
    BY CommandReads DEF ReaderNext, CommandSteps, rvars
  <2>2. TypeOK' /\ ChainInv'
    BY <2>1, TypeStep, ChainStep
  <2>3. \/ UNCHANGED reader
        \/ CommandSteps
    BY DEF ReaderNext, CommandSteps, rvars
  <2> QED
    BY <2>1, <2>2, <2>3, WriterStep, CommandStep
<1> QED
  BY <1>1, <1>2, PTL DEF ReaderSpec

\* The command only reads: beside it the log behaves as it does alone, so what
\* is proved of the log (RetainNewest, PruneRestoresBound, KeepsTrail) holds
\* here too.
THEOREM LogBesideReader == ReaderSpec => Spec
<1>1. [ReaderNext]_rvars => [Next]_vars
  BY CommandReads DEF ReaderNext, CommandSteps, rvars
<1> QED
  BY <1>1, PTL DEF ReaderSpec, Spec

\* Every reachable state of the command is well typed: it lists archives and
\* shows records that the log wrote.
THEOREM ReaderTypeCorrect == ReaderSpec => []ReaderTypeOK
<1>1. ReaderInv => ReaderTypeOK
  BY DEF ReaderInv
<1> QED
  BY <1>1, ReaderCorrect, PTL

\* A position of the snapshot holds a line the command has read.
LEMMA SeenPositions ==
  ASSUME NEW q \in Positions(snapshot)
  PROVE  LineAt(snapshot, q) \in SeenLines
BY DEF Positions, LineAt, SeenLines, ToSet

\* However the files are rotated and pruned between two reads, no record is
\* missing between two lines the summary counts as linked.
THEOREM RacingReaderCorrect == ReaderSpec => []RacingReaderSeesNoFalseLink
<1>1. ReaderInv => RacingReaderSeesNoFalseLink
  <2> SUFFICES ASSUME ReaderInv,
                      NEW q \in Positions(snapshot) \ Broken(snapshot),
                      ExpectedPrev(snapshot, q) # 0,
                      NEW c \in committed
               PROVE  c <= ExpectedPrev(snapshot, q) \/ LineAt(snapshot, q).hash <= c
    BY DEF RacingReaderSeesNoFalseLink
  <2>1. WellFormed(LineAt(snapshot, q)) /\ LineAt(snapshot, q).prev = ExpectedPrev(snapshot, q)
    BY DEF Broken
  <2>2. LineAt(snapshot, q) \in SeenLines
    BY SeenPositions
  <2> QED
    BY <2>1, <2>2 DEF ReaderInv, SeenStaysLinked
<1> QED
  BY <1>1, ReaderCorrect, PTL

-----------------------------------------------------------------------------
(* The order of what is read, when the clock never steps back.             *)

\* Archives sort by the write that rotated them; the next one sorts last.
NamesAscend ==
  /\ \A i, j \in DOMAIN archives : i < j => archives[i].name < archives[j].name
  /\ pc = "rotate" => \A i \in DOMAIN archives : archives[i].name < writes

\* The names still to be read are in the order of the archives.
ListingAscends ==
  \A i, j \in DOMAIN listing : i < j => listing[i] < listing[j]

\* What was read is in order, and older than what is still to be read.
SeenInOrder ==
  /\ rpc \in {"start", "list", "check"} => snapshot = << >>
  /\ \A f \in DOMAIN snapshot :
       /\ Ascending(snapshot[f])
       /\ \A g \in DOMAIN snapshot : f < g => Older(snapshot[f], snapshot[g])
       /\ rpc = "read" =>
            /\ Older(snapshot[f], active)
            /\ \A i \in DOMAIN archives :
                 archives[i].name \in ToSet(listing) => Older(snapshot[f], archives[i].lines)

WalkInv == NamesAscend /\ ListingAscends /\ SeenInOrder

\* The log's own invariants.
LogInv == TypeOK /\ ChainInv /\ CursorIsStale /\ OrderInv

\* The name that is next is older than those behind it.
LEMMA TailAscends ==
  ASSUME listing \in Seq(Nat), ListingAscends, listing # << >>, listing' = Tail(listing)
  PROVE  /\ ListingAscends'
         /\ Head(listing) \in ToSet(listing)
         /\ ToSet(listing') \subseteq ToSet(listing)
         /\ \A name \in ToSet(listing') : Head(listing) < name
<1> DEFINE n == Len(listing)
<1>1. /\ DOMAIN listing = 1 .. n /\ n \in Nat /\ n >= 1 /\ Head(listing) = listing[1]
      /\ DOMAIN listing' = 1 .. n - 1
      /\ \A i \in 1 .. n - 1 : listing'[i] = listing[i + 1]
  BY LenProperties, HeadTailProperties, EmptySeq
<1> HIDE DEF n
<1>2. 1 \in 1 .. n /\ \A i \in 1 .. n - 1 : i + 1 \in 1 .. n /\ 1 < i + 1
  BY <1>1
<1>3. ASSUME NEW i \in 1 .. n - 1, NEW j \in 1 .. n - 1, i < j
      PROVE  listing'[i] < listing'[j]
  <2>1. i + 1 < j + 1
    BY <1>1, <1>3
  <2> QED
    BY <1>1, <1>2, <2>1 DEF ListingAscends
<1> QED
  BY <1>1, <1>2, <1>3 DEF ToSet, ListingAscends

\* Dropping a name leaves the order of the others.
LEMMA RemovalAscends ==
  ASSUME listing \in Seq(Nat), ListingAscends, NEW p \in DOMAIN listing,
         listing' = RemoveAt(listing, p)
  PROVE  ListingAscends'
<1> DEFINE n == Len(listing)
<1>1. n \in Nat /\ DOMAIN listing = 1 .. n /\ p \in 1 .. n
  BY LenProperties
<1>2. /\ listing' \in Seq(Nat) /\ Len(listing') = n - 1
      /\ \A i \in 1 .. n - 1 : listing'[i] = listing[IF i < p THEN i ELSE i + 1]
  BY <1>1, RemoveAtElements
<1>3. DOMAIN listing' = 1 .. n - 1
  BY <1>2, LenProperties
<1> HIDE DEF n
<1>4. ASSUME NEW i \in 1 .. n - 1, NEW j \in 1 .. n - 1, i < j
      PROVE  listing'[i] < listing'[j]
  <2>1. /\ (IF i < p THEN i ELSE i + 1) \in 1 .. n
        /\ (IF j < p THEN j ELSE j + 1) \in 1 .. n
        /\ (IF i < p THEN i ELSE i + 1) < (IF j < p THEN j ELSE j + 1)
    BY <1>1, <1>4
  <2> QED
    BY <1>1, <1>2, <2>1 DEF ListingAscends
<1> QED
  BY <1>3, <1>4 DEF ListingAscends

\* A rotation puts the active file, under a new name, behind the archives.
LEMMA WalkRotate ==
  ASSUME LogInv, ReaderInv, WalkInv, ClockIsSteady, Rotate, UNCHANGED reader
  PROVE  WalkInv'
<1> DEFINE n == Len(archives)
           new == [name |-> entry.hash, lines |-> active]
<1>1. /\ archives \in Seq(Archive) /\ n \in Nat /\ DOMAIN archives = 1 .. n
      /\ new \in Archive /\ new.lines = active /\ new.name = writes /\ writes \in Nat
  BY LenProperties DEF LogInv, TypeOK, ChainInv, PendingIsNew, Archive, Line, Rotate
<1>2. archives' = Append(archives, new)
  BY DEF Rotate, Renamed, ClockIsSteady
<1> HIDE DEF new
<1>3. /\ DOMAIN archives' = 1 .. n + 1 /\ archives'[n + 1] = new
      /\ \A i \in 1 .. n : archives'[i] = archives[i]
  BY <1>1, <1>2, AppendProperties
<1> HIDE DEF n
<1>4. /\ active' = << >> /\ writes' = writes /\ pc = "rotate" /\ pc' = "scan"
      /\ rpc' = rpc /\ snapshot' = snapshot /\ listing' = listing
  BY DEF Rotate, reader
<1>5. NamesAscend'
  <2>1. ASSUME NEW i \in 1 .. n + 1, NEW j \in 1 .. n + 1, i < j
        PROVE  archives'[i].name < archives'[j].name
    <3>1. i \in 1 .. n /\ (j \in 1 .. n \/ j = n + 1)
      BY <1>1, <2>1
    <3> QED
      BY <1>1, <1>3, <1>4, <2>1, <3>1 DEF WalkInv, NamesAscend
  <2> QED
    BY <1>3, <1>4, <2>1 DEF NamesAscend
<1>6. SeenInOrder'
  <2>1. ASSUME NEW f \in DOMAIN snapshot, rpc = "read"
        PROVE  /\ Older(snapshot[f], active')
               /\ \A i \in 1 .. n + 1 :
                    archives'[i].name \in ToSet(listing) => Older(snapshot[f], archives'[i].lines)
    <3>1. Older(snapshot[f], active')
      BY <1>4 DEF Older, HashesOf, ToSet
    <3>2. \A i \in 1 .. n :
            archives'[i].name \in ToSet(listing) => Older(snapshot[f], archives'[i].lines)
      BY <1>1, <1>3, <2>1 DEF WalkInv, SeenInOrder
    <3>3. Older(snapshot[f], archives'[n + 1].lines)
      BY <1>1, <1>3, <2>1 DEF WalkInv, SeenInOrder
    <3>4. \A i \in 1 .. n + 1 : i \in 1 .. n \/ i = n + 1
      BY <1>1
    <3> QED
      BY <3>1, <3>2, <3>3, <3>4
  <2> QED
    BY <1>3, <1>4, <2>1 DEF WalkInv, SeenInOrder, Ascending, Older, HashesOf
<1> QED
  BY <1>4, <1>5, <1>6 DEF WalkInv, ListingAscends

\* A removal leaves the order of the other archives.
LEMMA WalkPrune ==
  ASSUME LogInv, WalkInv, PruneOne, archives' # archives, UNCHANGED reader
  PROVE  WalkInv'
<1> DEFINE n == Len(archives)
<1>1. /\ archives \in Seq(Archive) /\ n \in Nat /\ DOMAIN archives = 1 .. n
      /\ cursor \in 1 .. n /\ archives' = RemoveAt(archives, cursor)
      /\ active' = active /\ pc' = "prune"
      /\ rpc' = rpc /\ snapshot' = snapshot /\ listing' = listing
  BY LenProperties DEF PruneOne, LogInv, TypeOK, reader
<1>2. /\ archives' \in Seq(Archive) /\ Len(archives') = n - 1
      /\ \A i \in 1 .. n - 1 : archives'[i] = archives[IF i < cursor THEN i ELSE i + 1]
  BY <1>1, RemoveAtElements
<1>3. DOMAIN archives' = 1 .. n - 1
  BY <1>2, LenProperties
<1> HIDE DEF n
<1>4. \A i \in 1 .. n - 1 : (IF i < cursor THEN i ELSE i + 1) \in 1 .. n
  BY <1>1
<1>5. NamesAscend'
  <2>1. ASSUME NEW i \in 1 .. n - 1, NEW j \in 1 .. n - 1, i < j
        PROVE  archives'[i].name < archives'[j].name
    <3>1. (IF i < cursor THEN i ELSE i + 1) < (IF j < cursor THEN j ELSE j + 1)
      BY <1>1, <2>1
    <3> QED
      BY <1>1, <1>2, <1>4, <3>1 DEF WalkInv, NamesAscend
  <2> QED
    BY <1>1, <1>3, <2>1 DEF NamesAscend
<1>6. SeenInOrder'
  <2>1. \A i \in DOMAIN archives' : \E k \in DOMAIN archives : archives'[i] = archives[k]
    BY <1>1, <1>2, <1>3, <1>4
  <2>2. \A f \in DOMAIN snapshot : rpc = "read" =>
          \A i \in DOMAIN archives' :
            archives'[i].name \in ToSet(listing) => Older(snapshot[f], archives'[i].lines)
    BY <2>1 DEF WalkInv, SeenInOrder
  <2> QED
    BY <1>1, <2>2 DEF WalkInv, SeenInOrder, Ascending, Older, HashesOf
<1> QED
  BY <1>1, <1>5, <1>6 DEF WalkInv, ListingAscends

\* No other step of the writer moves a file, and what it appends is newer
\* than all that was read.
LEMMA WalkAppend ==
  ASSUME LogInv, ReaderInv, WalkInv, [Next]_vars, UNCHANGED reader, archives' = archives,
         \/ active' = active
         \/ pc = "append" /\ \E line \in {entry, Malformed} : active' = Appended(line)
  PROVE  WalkInv'
<1>1. rpc' = rpc /\ snapshot' = snapshot /\ listing' = listing
  BY DEF reader
<1>2. \A h \in HashesOf(active') : h \in HashesOf(active) \/ (Writing /\ h = writes)
  <2>1. CASE active' = active
    BY <2>1
  <2>2. CASE pc = "append" /\ \E line \in {entry, Malformed} : active' = Appended(line)
    BY <2>2, AppendedInOrder DEF LogInv, OrderInv, FilesSorted, Writing
  <2> QED
    BY <2>1, <2>2
<1>3. NamesAscend'
  <2>1. pc' = "rotate" => (pc = "rotate" /\ writes' = writes) \/ writes' = writes + 1
    BY DEF Next, Open, BeginWrite, Rotate, Scan, PruneOne, PruneDone, AppendOk, AppendFails,
           RotateFails, Crash, vars
  <2>2. writes \in Nat /\ \A i \in DOMAIN archives : archives[i].name \in 1 .. writes
    BY DEF LogInv, TypeOK, ReaderInv, NamesAreWrites
  <2>3. pc' = "rotate" => \A i \in DOMAIN archives : archives[i].name < writes'
    BY <2>1, <2>2 DEF WalkInv, NamesAscend
  <2> QED
    BY <2>3 DEF WalkInv, NamesAscend
<1>4. ASSUME NEW f \in DOMAIN snapshot, rpc = "read"
      PROVE  Older(snapshot[f], active')
  <2>1. \A l \in ToSet(snapshot[f]) : Writing => l.hash < writes
    BY DEF ReaderInv, SeenStaysLinked, SeenLines
  <2>2. Older(snapshot[f], active)
    BY <1>4 DEF WalkInv, SeenInOrder
  <2> QED
    BY <1>2, <2>1, <2>2 DEF Older, HashesOf
<1>5. SeenInOrder'
  BY <1>1, <1>4 DEF WalkInv, SeenInOrder, Ascending, Older, HashesOf
<1> QED
  BY <1>1, <1>3, <1>5 DEF WalkInv, ListingAscends

\* Reading the file that is next keeps the order.
LEMMA WalkRead ==
  ASSUME LogInv, ReaderInv, WalkInv, UNCHANGED vars, rpc = "read",
         NEW lines \in Seq(Line), snapshot' = Append(snapshot, lines),
         listing' \in {listing, Tail(listing)}, listing \in Seq(Nat),
         listing' = listing \/ listing # << >>,
         Ascending(lines), rpc' \in {"read", "done"},
         \A f \in DOMAIN snapshot : Older(snapshot[f], lines),
         rpc' = "read" =>
           /\ Older(lines, active)
           /\ \A i \in DOMAIN archives :
                archives[i].name \in ToSet(listing') => Older(lines, archives[i].lines)
  PROVE  WalkInv'
<1> DEFINE n == Len(snapshot)
<1>1. snapshot \in Seq(Seq(Line)) /\ n \in Nat /\ DOMAIN snapshot = 1 .. n
  BY LenProperties DEF ReaderInv, ReaderTypeOK
<1>2. /\ DOMAIN snapshot' = 1 .. n + 1 /\ snapshot'[n + 1] = lines
      /\ \A f \in 1 .. n : snapshot'[f] = snapshot[f]
  BY <1>1, AppendProperties
<1> HIDE DEF n
<1>3. archives' = archives /\ active' = active /\ writes' = writes /\ pc' = pc
  BY DEF vars, disk
<1>4. NamesAscend'
  BY <1>3 DEF WalkInv, NamesAscend
<1>5. ListingAscends' /\ ToSet(listing') \subseteq ToSet(listing)
  <2>1. CASE listing' = listing
    BY <2>1 DEF WalkInv, ListingAscends
  <2>2. CASE listing' = Tail(listing) /\ listing # << >>
    BY <2>2, TailAscends DEF WalkInv
  <2> QED
    BY <2>1, <2>2
<1>6. SeenInOrder'
  <2>1. ASSUME NEW f \in 1 .. n + 1, NEW g \in 1 .. n + 1, f < g
        PROVE  Older(snapshot'[f], snapshot'[g])
    <3>1. f \in 1 .. n /\ (g \in 1 .. n \/ g = n + 1)
      <4>1. n \in Nat /\ f \in Int /\ g \in Int /\ f < g
        BY <1>1, <2>1
      <4> QED
        BY <2>1, <4>1
    <3> QED
      BY <1>1, <1>2, <2>1, <3>1 DEF WalkInv, SeenInOrder
  <2>2. ASSUME NEW f \in 1 .. n + 1
        PROVE  /\ Ascending(snapshot'[f])
               /\ rpc' = "read" =>
                    /\ Older(snapshot'[f], active)
                    /\ \A i \in DOMAIN archives :
                         archives[i].name \in ToSet(listing')
                           => Older(snapshot'[f], archives[i].lines)
    <3>1. CASE f \in 1 .. n
      BY <1>1, <1>2, <1>5, <3>1 DEF WalkInv, SeenInOrder
    <3>2. CASE f = n + 1
      BY <1>2, <3>2
    <3> QED
      BY <1>1, <3>1, <3>2
  <2> QED
    BY <1>2, <1>3, <2>1, <2>2 DEF SeenInOrder, Ascending, Older, HashesOf
<1> QED
  BY <1>4, <1>5, <1>6 DEF WalkInv

\* The command's own steps keep the order.
LEMMA WalkCommand ==
  ASSUME LogInv, ReaderInv, WalkInv,
         CommandSteps
  PROVE  WalkInv'
<1>1. UNCHANGED vars
  BY CommandReads
<1>2. archives' = archives /\ active' = active /\ writes' = writes /\ pc' = pc
  BY <1>1 DEF vars, disk
<1>3. NamesAscend'
  BY <1>2 DEF WalkInv, NamesAscend
<1>4. DOMAIN archives = 1 .. Len(archives) /\ Len(archives) \in Nat /\ listing \in Seq(Nat)
      /\ snapshot \in Seq(Seq(Line))
  BY LenProperties DEF LogInv, TypeOK, ReaderInv, ReaderTypeOK
<1>5. CASE ShowEntries
  <2>1. snapshot' = << >> /\ snapshot = << >> /\ listing' = listing
    BY <1>5 DEF ShowEntries, WalkInv, SeenInOrder
  <2> QED
    BY <1>3, <2>1 DEF WalkInv, ListingAscends, SeenInOrder
<1>6. CASE ListFiles
  <2>1. snapshot' = << >> /\ listing' = [i \in DOMAIN archives |-> archives[i].name]
    BY <1>6 DEF ListFiles, WalkInv, SeenInOrder
  <2>2. ListingAscends'
    BY <2>1 DEF WalkInv, NamesAscend, ListingAscends
  <2> QED
    BY <1>3, <2>1, <2>2 DEF WalkInv, SeenInOrder
<1>7. CASE SkipGone
  <2>1. PICK p \in DOMAIN listing : listing' = RemoveAt(listing, p)
    BY <1>7 DEF SkipGone
  <2>2. ListingAscends'
    BY <1>4, <2>1, RemovalAscends DEF WalkInv
  <2>3. snapshot' = << >> /\ snapshot = << >>
    BY <1>7 DEF SkipGone, WalkInv, SeenInOrder
  <2> QED
    BY <1>3, <2>2, <2>3 DEF WalkInv, SeenInOrder
<1>8. CASE StartWalk
  <2>1. snapshot' = << >> /\ snapshot = << >> /\ listing' = listing
    BY <1>8 DEF StartWalk, WalkInv, SeenInOrder
  <2> QED
    BY <1>3, <2>1 DEF WalkInv, ListingAscends, SeenInOrder
<1>9. CASE ReadArchive
  <2>1. /\ rpc = "read" /\ listing # << >> /\ listing' = Tail(listing)
        /\ \/ rpc' = "failed" /\ snapshot' = snapshot
           \/ \E i \in DOMAIN archives :
                /\ archives[i].name = Head(listing) /\ rpc' = rpc
                /\ snapshot' = Append(snapshot, archives[i].lines)
    BY <1>9 DEF ReadArchive
  <2>2. /\ Head(listing) \in ToSet(listing) /\ ListingAscends'
        /\ \A name \in ToSet(listing') : Head(listing) < name
    BY <1>4, <2>1, TailAscends DEF WalkInv
  <2>3. CASE rpc' = "failed" /\ snapshot' = snapshot
    <3>1. SeenInOrder'
      BY <2>3 DEF WalkInv, SeenInOrder
    <3> QED
      BY <1>3, <2>2, <3>1 DEF WalkInv
  <2>4. ASSUME NEW i \in DOMAIN archives, archives[i].name = Head(listing), rpc' = rpc,
               snapshot' = Append(snapshot, archives[i].lines)
        PROVE  WalkInv'
    <3>1. archives[i].lines \in Seq(Line)
      BY FilesAreOnDisk DEF LogInv
    <3>2. /\ Ascending(archives[i].lines) /\ Older(archives[i].lines, active)
          /\ \A f \in DOMAIN snapshot : Older(snapshot[f], archives[i].lines)
      BY <2>1, <2>2, <2>4 DEF LogInv, OrderInv, FilesSorted, WalkInv, SeenInOrder
    <3>3. ASSUME NEW j \in DOMAIN archives, archives[j].name \in ToSet(listing')
          PROVE  Older(archives[i].lines, archives[j].lines)
      <4>1. archives[i].name \in Nat /\ archives[j].name \in Nat
        BY DEF ReaderInv, NamesAreWrites
      <4>2. archives[i].name < archives[j].name
        BY <2>2, <2>4, <3>3
      <4>3. i < j
        BY <1>4, <4>1, <4>2 DEF WalkInv, NamesAscend
      <4> QED
        BY <4>3 DEF LogInv, OrderInv, FilesSorted
    <3> QED
      BY <1>1, <1>4, <2>1, <2>4, <3>1, <3>2, <3>3, WalkRead
  <2> QED
    BY <2>1, <2>3, <2>4
<1>10. CASE ReadActive
  <2>1. active \in Seq(Line) /\ Ascending(active)
    BY DEF LogInv, TypeOK, OrderInv, FilesSorted
  <2>2. \A f \in DOMAIN snapshot : Older(snapshot[f], active)
    BY <1>10 DEF ReadActive, WalkInv, SeenInOrder
  <2> QED
    BY <1>1, <1>4, <1>10, <2>1, <2>2, WalkRead DEF ReadActive
<1> QED
  BY <1>5, <1>6, <1>7, <1>8, <1>9, <1>10 DEF CommandSteps

\* While the clock only moves forward, the command reads no record twice and
\* none out of order, whatever is rotated and pruned between two reads.
THEOREM WalkInOrder == ClockIsSteady => (ReaderSpec => []ReadOnceInOrder)
<1> SUFFICES ASSUME ClockIsSteady PROVE ReaderSpec => []ReadOnceInOrder
  OBVIOUS
<1>1. Init /\ ReaderInit => CursorIsStale /\ OrderInv /\ WalkInv
  <2> SUFFICES ASSUME Init, ReaderInit PROVE CursorIsStale /\ WalkInv
    BY InitialOrder
  <2> QED
    BY DEF Init, ReaderInit, CursorIsStale, WalkInv, NamesAscend, ListingAscends, SeenInOrder
<1>2. TypeOK /\ ChainInv /\ ReaderInv /\ CursorIsStale /\ OrderInv /\ WalkInv
      /\ [ReaderNext]_rvars
        => (CursorIsStale /\ OrderInv /\ WalkInv)'
  <2> SUFFICES ASSUME LogInv, ReaderInv, WalkInv, [ReaderNext]_rvars
               PROVE  (CursorIsStale /\ OrderInv /\ WalkInv)'
    BY DEF LogInv
  <2>1. [Next]_vars
    BY CommandReads DEF ReaderNext, CommandSteps, rvars
  <2>2. CursorIsStale' /\ OrderInv'
    BY <2>1, CursorStep, OrderStep DEF LogInv
  <2>3. CASE UNCHANGED reader
    BY <2>1, <2>2, <2>3, FileSteps, WalkRotate, WalkPrune, WalkAppend DEF LogInv
  <2>4. CASE CommandSteps
    BY <2>2, <2>4, WalkCommand
  <2> QED
    BY <2>2, <2>3, <2>4 DEF ReaderNext, CommandSteps, rvars
<1>3. ReaderInv /\ WalkInv => ReadOnceInOrder
  <2> SUFFICES ASSUME ReaderInv, WalkInv,
                      NEW p \in Positions(snapshot), NEW q \in Positions(snapshot),
                      Before(p, q),
                      WellFormed(LineAt(snapshot, p)), WellFormed(LineAt(snapshot, q))
               PROVE  LineAt(snapshot, p).hash < LineAt(snapshot, q).hash
    BY DEF ReadOnceInOrder
  <2>1. /\ p[1] \in DOMAIN snapshot /\ p[2] \in DOMAIN snapshot[p[1]]
        /\ q[1] \in DOMAIN snapshot /\ q[2] \in DOMAIN snapshot[q[1]]
    BY DEF Positions
  <2>2. CASE p[1] < q[1]
    <3>1. /\ LineAt(snapshot, p).hash \in HashesOf(snapshot[p[1]])
          /\ LineAt(snapshot, q).hash \in HashesOf(snapshot[q[1]])
      BY <2>1 DEF LineAt, HashesOf, ToSet, WellFormed
    <3> QED
      BY <2>1, <2>2, <3>1 DEF WalkInv, SeenInOrder, Older
  <2>3. CASE p[1] = q[1] /\ p[2] < q[2]
    BY <2>1, <2>3 DEF LineAt, WalkInv, SeenInOrder, Ascending
  <2> QED
    BY <2>2, <2>3 DEF Before
<1> QED
  BY <1>1, <1>2, <1>3, ReaderCorrect, PTL DEF ReaderSpec
=============================================================================
