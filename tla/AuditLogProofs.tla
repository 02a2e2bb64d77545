--------------------------- MODULE AuditLogProofs ---------------------------
(***************************************************************************)
(* Type correctness of the audit log, the inductive invariant behind its   *)
(* hash chain, and what a reader may conclude from an intact link, for     *)
(* every size of segment, number of archives, number of writes and set of  *)
(* faults.                                                                 *)
(***************************************************************************)
EXTENDS AuditLog, SequenceTheorems, WellFoundedInduction, TLAPS

-----------------------------------------------------------------------------
(* What the operations on files do to their lines.                         *)

\* The line that does not parse has the type of a line.
LEMMA MalformedIsLine == Malformed \in Line
BY DEF Malformed, Line

\* An append yields the old lines, the new one and Malformed at most, and
\* ends with one of the last two: the new line exactly when no torn line
\* was there to be glued to.
LEMMA AppendedLines ==
  ASSUME NEW line \in Line, TypeOK
  PROVE  /\ Appended(line) \in Seq(Line)
         /\ Appended(line) # << >>
         /\ Last(Appended(line)) \in {line, Malformed}
         /\ ToSet(Appended(line)) \subseteq {line, Malformed} \cup ToSet(active)
<1> USE MalformedIsLine
<1>1. CASE torn
  BY <1>1 DEF Appended, TypeOK, Last, ToSet
<1>2. CASE ~torn
  BY <1>2 DEF Appended, TypeOK, Last, ToSet
<1> QED
  BY <1>1, <1>2

\* Removing one element of a sequence leaves a sequence of the others, in
\* their order.
LEMMA RemoveAtElements ==
  ASSUME NEW S, NEW files \in Seq(S), NEW k \in 1 .. Len(files)
  PROVE  /\ RemoveAt(files, k) \in Seq(S)
         /\ Len(RemoveAt(files, k)) = Len(files) - 1
         /\ \A i \in 1 .. Len(files) - 1 :
              RemoveAt(files, k)[i] = files[IF i < k THEN i ELSE i + 1]
         /\ \A i \in DOMAIN RemoveAt(files, k) :
              \E j \in DOMAIN files : RemoveAt(files, k)[i] = files[j]
<1> DEFINE n == Len(files)
           head == SubSeq(files, 1, k - 1)
           rest == SubSeq(files, k + 1, n)
<1>1. n \in Nat /\ k \in Nat /\ 1 <= k /\ k <= n /\ DOMAIN files = 1 .. n
  BY LenProperties
<1>2. \A i \in 1 .. n : files[i] \in S
  BY ElementOfSeq
<1>3. /\ head \in Seq(S) /\ Len(head) = k - 1
      /\ \A i \in 1 .. k - 1 : head[i] = files[i]
  BY <1>1, <1>2, SubSeqProperties
<1>4. /\ rest \in Seq(S) /\ Len(rest) = n - k
      /\ \A i \in 1 .. n - k : rest[i] = files[i + k]
  <2>1. \A i \in k + 1 .. n : files[i] \in S
    BY <1>1, <1>2
  <2>2. /\ SubSeq(files, k + 1, n) \in Seq(S)
        /\ Len(SubSeq(files, k + 1, n)) = IF k + 1 <= n THEN n - (k + 1) + 1 ELSE 0
        /\ \A i \in 1 .. n - (k + 1) + 1 : SubSeq(files, k + 1, n)[i] = files[(k + 1) + i - 1]
    BY <1>1, <2>1, SubSeqProperties
  <2> QED
    BY <1>1, <2>2
<1> HIDE DEF n, head, rest
<1>5. /\ head \o rest \in Seq(S)
      /\ Len(head \o rest) = n - 1
      /\ \A i \in 1 .. n - 1 :
           (head \o rest)[i] = IF i <= k - 1 THEN head[i] ELSE rest[i - (k - 1)]
  BY <1>1, <1>3, <1>4, ConcatProperties
<1>6. ASSUME NEW i \in 1 .. n - 1
      PROVE  /\ (head \o rest)[i] = files[IF i < k THEN i ELSE i + 1]
             /\ \E j \in 1 .. n : (head \o rest)[i] = files[j]
  <2>1. CASE i <= k - 1
    BY <2>1, <1>1, <1>3, <1>5
  <2>2. CASE i > k - 1
    <3>1. i - (k - 1) \in 1 .. n - k /\ i + 1 \in 1 .. n /\ ~(i < k)
      BY <2>2, <1>1
    <3>2. (head \o rest)[i] = rest[i - (k - 1)]
      BY <2>2, <1>1, <1>5
    <3>3. rest[i - (k - 1)] = files[i + 1]
      BY <3>1, <1>1, <1>4
    <3> QED
      BY <3>1, <3>2, <3>3
  <2>3. i <= k - 1 \/ i > k - 1
    BY <1>1
  <2> QED
    BY <2>1, <2>2, <2>3
<1>7. DOMAIN (head \o rest) = 1 .. n - 1
  BY <1>5, LenProperties
<1>8. /\ head \o rest \in Seq(S)
      /\ Len(head \o rest) = n - 1
      /\ \A i \in 1 .. n - 1 : (head \o rest)[i] = files[IF i < k THEN i ELSE i + 1]
      /\ \A i \in DOMAIN (head \o rest) :
           \E j \in DOMAIN files : (head \o rest)[i] = files[j]
  <2>1. \A i \in 1 .. n - 1 : (head \o rest)[i] = files[IF i < k THEN i ELSE i + 1]
    BY <1>6
  <2>2. \A i \in 1 .. n - 1 : \E j \in 1 .. n : (head \o rest)[i] = files[j]
    BY <1>6
  <2> QED
    BY <1>1, <1>5, <1>7, <2>1, <2>2
<1>9. RemoveAt(files, k) = head \o rest /\ Len(files) = n
  BY DEF RemoveAt, head, rest, n
<1> QED
  BY <1>8, <1>9

\* The lines of the other archives, after one is removed.
LEMMA RemovedArchive ==
  ASSUME TypeOK, NEW k \in 1 .. Len(archives), archives' = RemoveAt(archives, k),
         active' = active
  PROVE  /\ archives' \in Seq(Archive)
         /\ DiskLines' \subseteq DiskLines
<1>1. archives \in Seq(Archive)
  BY DEF TypeOK
<1>2. /\ archives' \in Seq(Archive)
      /\ \A i \in DOMAIN archives' : \E j \in DOMAIN archives : archives'[i] = archives[j]
  BY <1>1, RemoveAtElements
<1> QED
  BY <1>2 DEF DiskLines

\* Inserting an element into a sequence adds no other.
LEMMA InsertAtElements ==
  ASSUME NEW S, NEW files \in Seq(S), NEW k \in 1 .. Len(files) + 1, NEW e \in S
  PROVE  /\ InsertAt(files, k, e) \in Seq(S)
         /\ \A i \in DOMAIN InsertAt(files, k, e) :
              \/ InsertAt(files, k, e)[i] = e
              \/ \E j \in DOMAIN files : InsertAt(files, k, e)[i] = files[j]
<1> DEFINE n == Len(files)
           head == SubSeq(files, 1, k - 1)
           rest == SubSeq(files, k, n)
           upto == head \o << e >>
<1>1. n \in Nat /\ k \in Nat /\ 1 <= k /\ k <= n + 1 /\ DOMAIN files = 1 .. n
  BY LenProperties
<1>2. \A i \in 1 .. n : files[i] \in S
  BY ElementOfSeq
<1>3. /\ head \in Seq(S) /\ Len(head) = k - 1
      /\ \A i \in 1 .. k - 1 : head[i] = files[i]
  BY <1>1, <1>2, SubSeqProperties
<1>4. /\ rest \in Seq(S) /\ Len(rest) = n - k + 1
      /\ \A i \in 1 .. n - k + 1 : rest[i] = files[i + k - 1]
  <2>1. \A i \in k .. n : files[i] \in S
    BY <1>1, <1>2
  <2>2. /\ SubSeq(files, k, n) \in Seq(S)
        /\ Len(SubSeq(files, k, n)) = IF k <= n THEN n - k + 1 ELSE 0
        /\ \A i \in 1 .. n - k + 1 : SubSeq(files, k, n)[i] = files[k + i - 1]
    BY <1>1, <2>1, SubSeqProperties
  <2> QED
    BY <1>1, <2>2
<1> HIDE DEF n, head, rest
<1>5. /\ upto \in Seq(S)
      /\ Len(upto) = k
      /\ \A i \in 1 .. k : upto[i] = IF i <= k - 1 THEN head[i] ELSE e
  BY <1>1, <1>3
<1> HIDE DEF upto
<1>6. /\ upto \o rest \in Seq(S)
      /\ Len(upto \o rest) = n + 1
      /\ \A i \in 1 .. n + 1 :
           (upto \o rest)[i] =
              IF i <= k THEN upto[i] ELSE rest[i - k]
  <2>1. /\ upto \o rest \in Seq(S)
        /\ Len(upto \o rest) = Len(upto) + Len(rest)
        /\ \A i \in 1 .. Len(upto) + Len(rest) : (upto \o rest)[i] =
                IF i <= Len(upto) THEN upto[i] ELSE rest[i - Len(upto)]
    BY <1>4, <1>5, ConcatProperties
  <2>2. Len(upto) = k /\ Len(upto) + Len(rest) = n + 1
    BY <1>1, <1>4, <1>5
  <2> QED
    BY <2>1, <2>2
<1>7. ASSUME NEW i \in 1 .. n + 1
      PROVE  \/ (upto \o rest)[i] = e
             \/ \E j \in 1 .. n : (upto \o rest)[i] = files[j]
  <2>1. CASE i <= k - 1
    BY <2>1, <1>1, <1>3, <1>5, <1>6
  <2>2. CASE i = k
    BY <2>2, <1>1, <1>5, <1>6
  <2>3. CASE i > k
    <3>1. i - k \in 1 .. n - k + 1 /\ i - 1 \in 1 .. n
      BY <2>3, <1>1
    <3>2. (upto \o rest)[i] = rest[i - k]
      BY <2>3, <1>1, <1>6
    <3>3. rest[i - k] = files[i - 1]
      BY <3>1, <1>1, <1>4
    <3> QED
      BY <3>1, <3>2, <3>3
  <2>4. i <= k - 1 \/ i = k \/ i > k
    BY <1>1
  <2> QED
    BY <2>1, <2>2, <2>3, <2>4
<1>8. DOMAIN (upto \o rest) = 1 .. n + 1
  BY <1>6, LenProperties
<1>9. InsertAt(files, k, e) = upto \o rest
  BY DEF InsertAt, upto, head, rest, n
<1> QED
  BY <1>1, <1>6, <1>7, <1>8, <1>9

\* Renaming moves the lines of the active file, and adds none.
LEMMA RenamedLines ==
  ASSUME TypeOK, archives' \in Renamed, active' = << >>
  PROVE  /\ archives' \in Seq(Archive)
         /\ DiskLines' \subseteq DiskLines
<1> DEFINE arch == [name |-> entry.hash, lines |-> active]
<1>1. arch \in Archive /\ archives \in Seq(Archive)
  BY DEF TypeOK, Archive, Line
<1>2. \/ \E p \in 1 .. Len(archives) + 1 : archives' = InsertAt(archives, p, arch)
      \/ archives' = Append(archives, arch)
  BY DEF Renamed
<1> HIDE DEF arch
<1>3. /\ archives' \in Seq(Archive)
      /\ \A f \in DOMAIN archives' :
           archives'[f] = arch \/ \E g \in DOMAIN archives : archives'[f] = archives[g]
  <2>1. CASE \E p \in 1 .. Len(archives) + 1 : archives' = InsertAt(archives, p, arch)
    BY <2>1, <1>1, InsertAtElements
  <2>2. CASE archives' = Append(archives, arch)
    BY <2>2, <1>1
  <2> QED
    BY <1>2, <2>1, <2>2
<1>4. ToSet(active') = {}
  BY DEF ToSet
<1>5. arch.lines = active
  BY DEF arch
<1> QED
  BY <1>3, <1>4, <1>5 DEF DiskLines

-----------------------------------------------------------------------------
(* Type correctness.                                                       *)

\* Whatever an interrupted append leaves is a file of lines, of which at most
\* Malformed and the line being written were not there before.
LEMMA LeftoverLines ==
  ASSUME TypeOK, NEW left \in Leftovers
  PROVE  /\ left[1] \in Seq(Line)
         /\ left[2] \in BOOLEAN
         /\ left[2] => left[1] # << >>
         /\ left[1] # active => Last(left[1]) \in {entry, Malformed}
         /\ ToSet(left[1]) \subseteq {entry, Malformed} \cup ToSet(active)
<1>1. entry \in Line /\ active \in Seq(Line) /\ torn \in BOOLEAN /\ (torn => active # << >>)
  BY DEF TypeOK
<1>2. \/ left = << active, torn >>
      \/ left = << Appended(Malformed), TRUE >>
      \/ left = << Appended(entry), TRUE >>
      \/ left = << Appended(entry), FALSE >>
  BY DEF Leftovers
<1>3. CASE left = << active, torn >>
  BY <1>1, <1>3 DEF ToSet
<1>4. CASE left = << Appended(Malformed), TRUE >>
  BY <1>4, MalformedIsLine, AppendedLines
<1>5. CASE left = << Appended(entry), TRUE >>
  BY <1>1, <1>5, AppendedLines
<1>6. CASE left = << Appended(entry), FALSE >>
  BY <1>1, <1>6, AppendedLines
<1> QED
  BY <1>2, <1>3, <1>4, <1>5, <1>6

\* The lines of a file are lines, and so have the types of their fields.
LEMMA LinesOnDisk ==
  ASSUME TypeOK
  PROVE  \A l \in DiskLines : l \in Line
<1>1. active \in Seq(Line) /\ archives \in Seq(Archive)
  BY DEF TypeOK
<1>2. ASSUME NEW f \in DOMAIN archives PROVE archives[f].lines \in Seq(Line)
  <2>1. f \in 1 .. Len(archives)
    BY <1>1, <1>2, LenProperties
  <2>2. archives[f] \in Archive
    BY <1>1, <2>1, ElementOfSeq
  <2> QED
    BY <2>2 DEF Archive
<1> QED
  BY <1>1, <1>2 DEF DiskLines, ToSet

\* Every variable keeps its type in every step.
LEMMA TypeStep == TypeOK /\ [Next]_vars => TypeOK'
<1> SUFFICES ASSUME TypeOK, [Next]_vars PROVE TypeOK'
  OBVIOUS
<1> USE DEF disk, memory, ghosts
<1>1. CASE Open
  <2>1. Recovered \in Line
    BY MalformedIsLine DEF Recovered, Last, TypeOK
  <2> QED
    BY <1>1, <2>1 DEF Open, TypeOK, Line
<1>2. CASE BeginWrite
  BY <1>2 DEF BeginWrite, TypeOK, Line
<1>3. CASE Rotate
  <2>1. archives' \in Seq(Archive)
    BY <1>3, RenamedLines DEF Rotate
  <2>2. << >> \in Seq(Line)
    OBVIOUS
  <2> QED
    BY <1>3, <2>1, <2>2 DEF Rotate, TypeOK
<1>4. CASE Scan
  BY <1>4, AuditAssumption DEF Scan, TypeOK
<1>5. CASE PruneOne
  <2>1. CASE UNCHANGED << archives, pruned >>
    BY <1>5, <2>1 DEF PruneOne, TypeOK
  <2>2. CASE /\ archives' = RemoveAt(archives, cursor)
             /\ pruned' = pruned \cup HashesOf(archives[cursor].lines)
    <3>1. /\ archives \in Seq(Archive) /\ cursor \in 1 .. Len(archives)
          /\ archives[cursor] \in Archive
      BY <1>5 DEF PruneOne, TypeOK
    <3>2. archives' \in Seq(Archive) /\ Len(archives') = Len(archives) - 1
      BY <2>2, <3>1, RemoveAtElements
    <3>3. \A l \in ToSet(archives[cursor].lines) : l \in Line
      BY <3>1 DEF Archive, ToSet
    <3>4. HashesOf(archives[cursor].lines) \subseteq Nat
      BY <3>3 DEF HashesOf, Line
    <3>5. pruned' \in SUBSET Nat
      BY <2>2, <3>4 DEF TypeOK
    <3>6. cursor' \in Int /\ cursor' <= Len(archives')
      BY <1>5, <3>1, <3>2 DEF PruneOne
    <3>7. UNCHANGED << active, torn, memory, pc, entry, writes, committed >>
      BY <1>5 DEF PruneOne
    <3> HIDE DEF Archive, Line
    <3> QED
      BY <3>2, <3>5, <3>6, <3>7 DEF TypeOK
  <2> QED
    BY <1>5, <2>1, <2>2 DEF PruneOne
<1>6. CASE PruneDone
  BY <1>6 DEF PruneDone, TypeOK
<1>7. CASE AppendOk
  <2>1. entry \in Line
    BY DEF TypeOK
  <2>2. Appended(entry) \in Seq(Line)
    BY <2>1, AppendedLines
  <2> QED
    BY <1>7, <2>1, <2>2 DEF AppendOk, TypeOK, Line
<1>8. CASE AppendFails
  BY <1>8, LeftoverLines DEF AppendFails, TypeOK
<1>9. CASE RotateFails
  BY <1>9 DEF RotateFails, TypeOK
<1>10. CASE Crash
  <2>1. CASE pc = "append"
    BY <1>10, <2>1, LeftoverLines DEF Crash, TypeOK
  <2>2. CASE pc # "append"
    BY <1>10, <2>2 DEF Crash, TypeOK
  <2> QED
    BY <2>1, <2>2
<1>11. CASE UNCHANGED vars
  BY <1>11 DEF vars, TypeOK
<1> QED
  BY <1>1, <1>2, <1>3, <1>4, <1>5, <1>6, <1>7, <1>8, <1>9, <1>10, <1>11 DEF Next

-----------------------------------------------------------------------------
(* The chain.                                                              *)

\* Steps that write no line and end no write keep the links of the lines
\* that stay.
LEMMA LinesStayLinked ==
  ASSUME LinesAreLinked, DiskLines' \subseteq DiskLines, committed' = committed
  PROVE  LinesAreLinked'
BY DEF LinesAreLinked, WellFormed

\* The pending line is linked to what is on disk, whether its append is
\* counted as a success or not.
LEMMA NewLineIsLinked ==
  ASSUME TypeOK, ChainInv, pc = "append",
         DiskLines' \subseteq DiskLines \cup {entry, Malformed},
         committed' \subseteq committed \cup {entry.hash},
         writes' = writes
  PROVE  /\ LinesAreLinked'
         /\ \A l \in DiskLines' : l.prev <= l.hash /\ l.hash <= writes
         /\ \A c \in committed' : c <= writes
<1>1. /\ entry = [hash |-> writes, seq |-> seq + 1, prev |-> lastHash]
      /\ lastHash < writes
      /\ writes \in Nat /\ lastHash \in Nat /\ seq \in Nat
      /\ committed \in SUBSET Nat
      /\ \A l \in DiskLines : l.hash < writes /\ l.prev <= l.hash
      /\ \A c \in committed : c < writes
  BY DEF ChainInv, PendingIsNew, TypeOK
<1>2. \A l \in DiskLines : l.hash \in Nat /\ l.seq \in Nat /\ l.prev \in Nat
  BY LinesOnDisk DEF Line
<1>3. /\ entry.hash = writes /\ entry.seq = seq + 1 /\ entry.prev = lastHash
      /\ Malformed.hash = 0 /\ Malformed.seq = 0 /\ Malformed.prev = 0
  BY <1>1 DEF Malformed
<1>4. \A l \in DiskLines' : l.prev <= l.hash /\ l.hash <= writes
  BY <1>1, <1>2, <1>3
<1>5. \A c \in committed' : c <= writes
  BY <1>1, <1>3
<1>6. ASSUME NEW l \in DiskLines', l.hash # 0, l.prev # 0, NEW c \in committed'
      PROVE  c <= l.prev \/ l.hash <= c
  <2>1. CASE l \in DiskLines /\ c \in committed
    BY <1>6, <2>1 DEF ChainInv, LinesAreLinked, WellFormed
  <2>2. CASE l \in DiskLines /\ c = writes
    BY <2>2, <1>1, <1>2
  <2>3. CASE l = entry
    BY <2>3, <1>1, <1>3, <1>6 DEF ChainInv, MemoryIsCurrent
  <2>4. CASE l = Malformed
    BY <2>4, <1>3, <1>6
  <2> QED
    BY <2>1, <2>2, <2>3, <2>4, <1>3, <1>6
<1>7. ASSUME NEW k \in DiskLines', NEW l \in DiskLines', k.hash # 0
      PROVE  /\ l.prev = k.hash => l.seq = k.seq + 1
             /\ l.hash = k.hash => l.seq = k.seq
  <2>1. CASE k \in DiskLines /\ l \in DiskLines
    BY <1>7, <2>1 DEF ChainInv, LinesAreLinked, WellFormed
  <2>2. CASE k \in DiskLines /\ l = entry
    BY <1>1, <1>2, <1>3, <1>7, <2>2 DEF ChainInv, MemoryIsCurrent, WellFormed
  <2>3. CASE k = entry
    BY <1>1, <1>2, <1>3, <1>7, <2>3
  <2>4. CASE l = Malformed
    BY <1>3, <1>7, <2>4
  <2>5. CASE k = Malformed
    BY <1>3, <1>7, <2>5
  <2> QED
    BY <2>1, <2>2, <2>3, <2>4, <2>5, <1>7
<1> QED
  BY <1>4, <1>5, <1>6, <1>7 DEF LinesAreLinked, WellFormed

\* A step that only shrinks what is on disk, and changes neither the chain
\* state nor the history, keeps the invariant.
LEMMA QuietStep ==
  ASSUME ChainInv, DiskLines' \subseteq DiskLines,
         active' = active \/ active' = << >>,
         UNCHANGED << seq, lastHash, entry, writes, committed >>,
         pc' \in {"idle", "down"} \/ pc \in {"rotate", "scan", "prune", "append"}
  PROVE  ChainInv'
<1>1. PendingIsNew'
  BY DEF ChainInv, PendingIsNew
<1>2. MemoryIsCurrent'
  BY DEF ChainInv, MemoryIsCurrent, WellFormed
<1>3. TailIsCurrent'
  BY DEF ChainInv, TailIsCurrent, WellFormed
<1>4. LinesAreLinked'
  BY LinesStayLinked DEF ChainInv
<1> QED
  BY <1>1, <1>2, <1>3, <1>4 DEF ChainInv

\* What is on disk after an append, complete or not.
LEMMA DiskAfterAppend ==
  ASSUME TypeOK, archives' = archives,
         ToSet(active') \subseteq {entry, Malformed} \cup ToSet(active)
  PROVE  DiskLines' \subseteq DiskLines \cup {entry, Malformed}
BY DEF DiskLines

\* An append that was cut short: the chain state does not move past it.
LEMMA CutShort ==
  ASSUME TypeOK, ChainInv, pc = "append", pc' \in {"idle", "down"},
         NEW left \in Leftovers, active' = left[1], archives' = archives,
         UNCHANGED << writes, committed >>,
         \/ UNCHANGED << seq, lastHash >>
         \/ seq' = 0 /\ lastHash' = 0
  PROVE  ChainInv'
<1>1. DiskLines' \subseteq DiskLines \cup {entry, Malformed}
  BY LeftoverLines, DiskAfterAppend
<1>2. /\ LinesAreLinked'
      /\ \A l \in DiskLines' : l.prev <= l.hash /\ l.hash <= writes
      /\ \A c \in committed' : c <= writes
  BY <1>1, NewLineIsLinked
<1>3. /\ entry.hash = writes
      /\ lastHash < writes /\ writes \in Nat /\ lastHash \in Nat
      /\ \A c \in committed : c < writes
      /\ committed \in SUBSET Nat
      /\ Malformed.hash = 0
  BY DEF ChainInv, PendingIsNew, TypeOK, Malformed
<1>4. PendingIsNew'
  BY <1>2, <1>3 DEF PendingIsNew
<1>5. MemoryIsCurrent'
  <2>1. lastHash' # 0 => lastHash' = lastHash /\ seq' = seq
    OBVIOUS
  <2>2. \A c \in committed' : lastHash' # 0 => c <= lastHash'
    BY <2>1 DEF ChainInv, MemoryIsCurrent
  <2>3. ASSUME NEW l \in DiskLines', l.hash # 0, l.hash = lastHash'
        PROVE  l.seq = seq'
    BY <1>1, <1>3, <2>1, <2>3 DEF ChainInv, MemoryIsCurrent, WellFormed
  <2> QED
    BY <2>2, <2>3 DEF MemoryIsCurrent, WellFormed
<1>6. TailIsCurrent'
  <2>1. CASE active' = active
    BY <2>1 DEF ChainInv, TailIsCurrent
  <2>2. CASE active' # active
    <3>1. Last(active') \in {entry, Malformed}
      BY <2>2, LeftoverLines
    <3>2. WellFormed(Last(active')) => Last(active').hash = writes
      BY <3>1, <1>3 DEF WellFormed
    <3> QED
      BY <3>2, <1>3 DEF TailIsCurrent
  <2> QED
    BY <2>1, <2>2
<1> QED
  BY <1>2, <1>4, <1>5, <1>6 DEF ChainInv

\* The invariant of the chain is inductive.
LEMMA ChainStep == TypeOK /\ ChainInv /\ [Next]_vars => ChainInv'
<1> SUFFICES ASSUME TypeOK, ChainInv, [Next]_vars PROVE ChainInv'
  OBVIOUS
<1> USE DEF disk, memory, ghosts
<1>1. CASE Open
  <2>1. DiskLines' = DiskLines
    BY <1>1 DEF Open, DiskLines
  <2>2. Recovered = Malformed \/ (active # << >> /\ Recovered = Last(active) /\ Recovered \in DiskLines)
    BY DEF Recovered, DiskLines, ToSet, Last, TypeOK
  <2>3. \A l \in DiskLines : l.hash \in Nat /\ l.seq \in Nat /\ l.hash <= writes
    BY LinesOnDisk DEF Line, ChainInv, PendingIsNew
  <2>4. PendingIsNew'
    <3>1. lastHash' <= writes
      BY <1>1, <2>2, <2>3 DEF Open, Malformed, TypeOK
    <3> QED
      BY <1>1, <2>1, <3>1 DEF Open, ChainInv, PendingIsNew
  <2>5. MemoryIsCurrent'
    <3>1. lastHash' # 0 => \A c \in committed : c <= lastHash'
      BY <1>1, <2>2 DEF Open, Malformed, ChainInv, TailIsCurrent, WellFormed
    <3>2. ASSUME NEW l \in DiskLines, l.hash # 0, l.hash = lastHash'
          PROVE  l.seq = seq'
      BY <1>1, <2>2, <3>2 DEF Open, Malformed, ChainInv, LinesAreLinked, WellFormed
    <3> QED
      BY <1>1, <2>1, <3>1, <3>2 DEF Open, MemoryIsCurrent, WellFormed
  <2>6. TailIsCurrent' /\ LinesAreLinked'
    BY <1>1, <2>1, LinesStayLinked DEF Open, ChainInv, TailIsCurrent
  <2> QED
    BY <2>4, <2>5, <2>6 DEF ChainInv
<1>2. CASE BeginWrite
  <2>1. DiskLines' = DiskLines
    BY <1>2 DEF BeginWrite, DiskLines
  <2>2. \A l \in DiskLines : l.hash \in Nat /\ l.prev \in Nat
    BY LinesOnDisk DEF Line
  <2>3. PendingIsNew'
    BY <1>2, <2>1, <2>2 DEF BeginWrite, ChainInv, PendingIsNew, TypeOK
  <2>4. MemoryIsCurrent' /\ TailIsCurrent' /\ LinesAreLinked'
    BY <1>2, <2>1, LinesStayLinked DEF BeginWrite, ChainInv, MemoryIsCurrent, TailIsCurrent
  <2> QED
    BY <2>3, <2>4 DEF ChainInv
<1>3. CASE Rotate
  BY <1>3, RenamedLines, QuietStep DEF Rotate
<1>4. CASE Scan
  <2>1. DiskLines' = DiskLines
    BY <1>4 DEF Scan, DiskLines
  <2> QED
    BY <1>4, <2>1, QuietStep DEF Scan
<1>5. CASE PruneOne
  <2>1. DiskLines' \subseteq DiskLines
    <3>1. CASE archives' = archives
      BY <1>5, <3>1 DEF PruneOne, DiskLines
    <3>2. CASE archives' = RemoveAt(archives, cursor)
      <4>1. cursor \in 1 .. Len(archives)
        BY <1>5 DEF PruneOne, TypeOK
      <4> QED
        BY <1>5, <3>2, <4>1, RemovedArchive DEF PruneOne
    <3> QED
      BY <1>5, <3>1, <3>2 DEF PruneOne
  <2> QED
    BY <1>5, <2>1, QuietStep DEF PruneOne
<1>6. CASE PruneDone
  <2>1. DiskLines' = DiskLines
    BY <1>6 DEF PruneDone, DiskLines
  <2> QED
    BY <1>6, <2>1, QuietStep DEF PruneDone
<1>7. CASE AppendOk
  <2>1. /\ entry \in Line /\ entry.hash = writes
        /\ writes \in Nat /\ lastHash \in Nat /\ lastHash < writes
        /\ \A c \in committed : c < writes
        /\ \A l \in DiskLines : l.hash < writes
        /\ Malformed.hash = 0
    BY <1>7 DEF AppendOk, ChainInv, PendingIsNew, TypeOK, Malformed
  <2>2. DiskLines' \subseteq DiskLines \cup {entry, Malformed}
    BY <1>7, <2>1, AppendedLines, DiskAfterAppend DEF AppendOk
  <2>3. /\ LinesAreLinked'
        /\ \A l \in DiskLines' : l.prev <= l.hash /\ l.hash <= writes
        /\ \A c \in committed' : c <= writes
    BY <1>7, <2>2, NewLineIsLinked DEF AppendOk
  <2>4. PendingIsNew'
    BY <1>7, <2>1, <2>3 DEF AppendOk, PendingIsNew
  <2>5. MemoryIsCurrent'
    <3>1. lastHash' = writes /\ seq' = entry.seq
      BY <1>7, <2>1 DEF AppendOk
    <3>2. \A l \in DiskLines' : l.hash # 0 /\ l.hash = writes => l = entry
      BY <2>1, <2>2
    <3> QED
      BY <2>3, <3>1, <3>2 DEF MemoryIsCurrent, WellFormed
  <2>6. TailIsCurrent'
    <3>1. Last(active') \in {entry, Malformed}
      BY <1>7, <2>1, AppendedLines DEF AppendOk
    <3> QED
      BY <2>1, <2>3, <3>1, <1>7 DEF AppendOk, TailIsCurrent, WellFormed
  <2> QED
    BY <2>3, <2>4, <2>5, <2>6 DEF ChainInv
<1>8. CASE AppendFails
  <2>1. PICK left \in Leftovers : active' = left[1]
    BY <1>8 DEF AppendFails
  <2> QED
    BY <1>8, <2>1, CutShort DEF AppendFails
<1>9. CASE RotateFails
  <2>1. DiskLines' = DiskLines
    BY <1>9 DEF RotateFails, DiskLines
  <2> QED
    BY <1>9, <2>1, QuietStep DEF RotateFails
<1>10. CASE Crash
  <2>1. CASE pc = "append"
    <3>1. PICK left \in Leftovers : active' = left[1]
      BY <1>10, <2>1 DEF Crash
    <3> QED
      BY <1>10, <2>1, <3>1, CutShort DEF Crash
  <2>2. CASE pc # "append"
    <3>1. active' = active /\ DiskLines' = DiskLines
      BY <1>10, <2>2 DEF Crash, DiskLines
    <3>2. PendingIsNew'
      BY <1>10, <3>1 DEF Crash, ChainInv, PendingIsNew, TypeOK
    <3>3. MemoryIsCurrent' /\ TailIsCurrent' /\ LinesAreLinked'
      BY <1>10, <3>1, LinesStayLinked
         DEF Crash, ChainInv, MemoryIsCurrent, TailIsCurrent, WellFormed
    <3> QED
      BY <3>2, <3>3 DEF ChainInv
  <2> QED
    BY <2>1, <2>2
<1>11. CASE UNCHANGED vars
  <2>1. DiskLines' = DiskLines
    BY <1>11 DEF vars, DiskLines
  <2> QED
    BY <1>11, <2>1, LinesStayLinked
       DEF vars, ChainInv, PendingIsNew, MemoryIsCurrent, TailIsCurrent
<1> QED
  BY <1>1, <1>2, <1>3, <1>4, <1>5, <1>6, <1>7, <1>8, <1>9, <1>10, <1>11 DEF Next

-----------------------------------------------------------------------------
(* Theorems about every behaviour.                                         *)

\* The initial state: an empty directory, and a supervisor not yet started.
LEMMA InitialState == Init => TypeOK /\ ChainInv
<1> SUFFICES ASSUME Init PROVE TypeOK /\ ChainInv
  OBVIOUS
<1>1. TypeOK
  <2>1. << >> \in Seq(Archive) /\ << >> \in Seq(Line)
    OBVIOUS
  <2>2. torn \in BOOLEAN /\ healthy \in BOOLEAN /\ ~torn
    BY DEF Init
  <2>3. pc = "down" /\ seq \in Nat /\ lastHash \in Nat /\ cursor \in Int /\ writes \in Nat
    BY DEF Init
  <2>4. entry \in Line /\ committed = {} /\ pruned = {}
    BY MalformedIsLine DEF Init
  <2>5. archives \in Seq(Archive) /\ active \in Seq(Line)
    BY <2>1 DEF Init
  <2> QED
    BY <2>2, <2>3, <2>4, <2>5 DEF TypeOK
<1>2. DiskLines = {}
  BY DEF Init, DiskLines, ToSet
<1> QED
  BY <1>1, <1>2
     DEF Init, ChainInv, PendingIsNew, MemoryIsCurrent, TailIsCurrent, LinesAreLinked

\* Every reachable state of the log and of the disk is well typed.
THEOREM TypeCorrect == Spec => []TypeOK
<1>1. Init => TypeOK
  BY InitialState
<1>2. TypeOK /\ [Next]_vars => TypeOK'
  BY TypeStep
<1> QED
  BY <1>1, <1>2, PTL DEF Spec

\* The chain invariant holds in every reachable state, under every fault.
THEOREM ChainCorrect == Spec => []ChainInv
<1>1. Init => ChainInv
  BY InitialState
<1>2. TypeOK /\ ChainInv /\ [Next]_vars => ChainInv'
  BY ChainStep
<1> QED
  BY <1>1, <1>2, TypeCorrect, PTL DEF Spec

\* A position of the log holds one of the lines on disk.
LEMMA PositionsAreOnDisk ==
  ASSUME TypeOK, NEW q \in Positions(Files)
  PROVE  LineAt(Files, q) \in DiskLines
<1>1. PICK f \in DOMAIN Files : q \in {f} \X DOMAIN Files[f]
  BY DEF Positions
<1>2. q[1] = f /\ q[2] \in DOMAIN Files[f] /\ LineAt(Files, q) = Files[f][q[2]]
  BY <1>1 DEF LineAt
<1>3. f \in 1 .. Len(archives) + 1 /\ DOMAIN archives = 1 .. Len(archives)
  BY LenProperties DEF Files, TypeOK
<1>4. CASE f <= Len(archives)
  <2>1. Files[f] = archives[f].lines /\ f \in DOMAIN archives
    BY <1>3, <1>4 DEF Files, TypeOK
  <2> QED
    BY <1>2, <2>1 DEF DiskLines, ToSet
<1>5. CASE ~(f <= Len(archives))
  <2>1. Files[f] = active
    BY <1>3, <1>5 DEF Files
  <2> QED
    BY <1>2, <2>1 DEF DiskLines, ToSet
<1> QED
  BY <1>4, <1>5

\* What the integrity summary may be trusted with: between two lines it
\* counts as linked, no record that was written is missing.
THEOREM LinkedMeansComplete == Spec => []NoSilentGap
<1>1. TypeOK /\ ChainInv => NoSilentGap
  <2> SUFFICES ASSUME TypeOK, ChainInv,
                      NEW q \in Positions(Files) \ Broken(Files),
                      ExpectedPrev(Files, q) # 0,
                      NEW c \in committed
               PROVE  c <= ExpectedPrev(Files, q) \/ LineAt(Files, q).hash <= c
    BY DEF NoSilentGap
  <2>1. WellFormed(LineAt(Files, q)) /\ LineAt(Files, q).prev = ExpectedPrev(Files, q)
    BY DEF Broken
  <2>2. LineAt(Files, q) \in DiskLines
    BY PositionsAreOnDisk
  <2> QED
    BY <2>1, <2>2 DEF ChainInv, LinesAreLinked
<1> QED
  BY <1>1, TypeCorrect, ChainCorrect, PTL

\* The sequence numbers of linked lines follow each other.
THEOREM LinkedMeansConsecutive == Spec => []SeqFollowsChain
<1>1. TypeOK /\ ChainInv => SeqFollowsChain
  BY PositionsAreOnDisk DEF SeqFollowsChain, ChainInv, LinesAreLinked
<1> QED
  BY <1>1, TypeCorrect, ChainCorrect, PTL

-----------------------------------------------------------------------------
(* The order of the records, when the clock never steps back.              *)

ClockIsSteady == "clock" \notin Faults

Writing == pc \in {"rotate", "scan", "prune", "append"}

\* Every record of one file is older than every record of the other.
Older(earlier, later) ==
  \A x \in HashesOf(earlier), y \in HashesOf(later) : x < y

\* The records of a file are in the order they were written.
Ascending(lines) ==
  \A i, j \in DOMAIN lines :
    i < j /\ WellFormed(lines[i]) /\ WellFormed(lines[j]) => lines[i].hash < lines[j].hash

\* The files are in the order they were written, the active one last.
FilesSorted ==
  /\ Ascending(active)
  /\ \A i \in DOMAIN archives :
       /\ Ascending(archives[i].lines)
       /\ Older(archives[i].lines, active)
       /\ \A j \in DOMAIN archives : i < j => Older(archives[i].lines, archives[j].lines)

\* pruneArchives() stays below the archives to keep; unless a removal failed,
\* the stale ones are exactly those it has yet to remove.
CursorIsStale ==
  pc = "prune" =>
    /\ cursor <= Len(archives) - MaxArchives
    /\ "unlink" \notin Faults => cursor = Len(archives) - MaxArchives

\* What was removed is older than the write in progress and than what is kept.
PrunedIsOld ==
  \A old \in pruned :
    /\ old <= writes
    /\ Writing => old < writes
    /\ \A new \in HashesOf(active) : old < new
    /\ \A f \in DOMAIN archives :
         f > Len(archives) - MaxArchives => \A new \in HashesOf(archives[f].lines) : old < new

OrderInv == FilesSorted /\ PrunedIsOld

\* The records a file shows are those of its lines.
LEMMA HashesOfLines ==
  ASSUME NEW lines, NEW l \in ToSet(lines), WellFormed(l)
  PROVE  l.hash \in HashesOf(lines)
BY DEF HashesOf, WellFormed

\* A file on disk has lines of the disk only.
LEMMA FilesAreOnDisk ==
  ASSUME TypeOK
  PROVE  /\ active \in Seq(Line) /\ ToSet(active) \subseteq DiskLines
         /\ \A i \in DOMAIN archives :
              archives[i].lines \in Seq(Line) /\ ToSet(archives[i].lines) \subseteq DiskLines
<1>1. archives \in Seq(Archive) /\ DOMAIN archives = 1 .. Len(archives)
  BY LenProperties DEF TypeOK
<1>2. \A i \in DOMAIN archives : archives[i] \in Archive
  BY <1>1, ElementOfSeq
<1> QED
  BY <1>2 DEF TypeOK, DiskLines, Archive

\* The records on disk are older than the write in progress.
LEMMA HashesAreOld ==
  ASSUME TypeOK, ChainInv
  PROVE  /\ writes \in Nat
         /\ \A h \in HashesOf(active) : h \in 1 .. writes /\ (Writing => h < writes)
         /\ \A i \in DOMAIN archives : \A h \in HashesOf(archives[i].lines) :
              h \in 1 .. writes /\ (Writing => h < writes)
<1>1. \A l \in DiskLines : l \in Line /\ l.hash <= writes /\ (Writing => l.hash < writes)
  BY LinesOnDisk DEF ChainInv, PendingIsNew, Writing
<1>2. \A l \in DiskLines : l.hash # 0 =>
        l.hash \in 1 .. writes /\ (Writing => l.hash < writes)
  BY <1>1 DEF Line, TypeOK
<1>3. \A h \in HashesOf(active) : \E l \in DiskLines : l.hash = h /\ h # 0
  BY FilesAreOnDisk DEF HashesOf
<1>4. \A i \in DOMAIN archives : \A h \in HashesOf(archives[i].lines) :
        \E l \in DiskLines : l.hash = h /\ h # 0
  BY FilesAreOnDisk DEF HashesOf
<1> QED
  BY <1>2, <1>3, <1>4 DEF TypeOK

\* An append adds the record of the line at the end, or none.
LEMMA AppendedInOrder ==
  ASSUME TypeOK, ChainInv, pc = "append", Ascending(active),
         NEW line \in {entry, Malformed}
  PROVE  /\ Ascending(Appended(line))
         /\ HashesOf(Appended(line)) \subseteq HashesOf(active) \cup {writes}
<1>1. /\ active \in Seq(Line) /\ DOMAIN active = 1 .. Len(active) /\ Len(active) \in Nat
      /\ torn \in BOOLEAN /\ (torn => active # << >>)
      /\ entry.hash = writes /\ Malformed.hash = 0 /\ entry \in Line /\ Malformed \in Line
      /\ writes \in Nat
  BY LenProperties, MalformedIsLine DEF TypeOK, ChainInv, PendingIsNew, Malformed
<1>2. \A i \in DOMAIN active : active[i].hash < writes
  BY <1>1, FilesAreOnDisk DEF ChainInv, PendingIsNew, ToSet
<1>3. HashesOf(Appended(line)) \subseteq HashesOf(active) \cup {writes}
  <2>1. ToSet(Appended(line)) \subseteq {entry, Malformed} \cup ToSet(active)
    BY <1>1, AppendedLines
  <2> QED
    BY <1>1, <2>1 DEF HashesOf
<1>4. CASE torn
  <2>1. Appended(line) = [active EXCEPT ![Len(active)] = Malformed]
    BY <1>4 DEF Appended
  <2>2. \A i \in DOMAIN Appended(line) :
          i \in DOMAIN active /\ Appended(line)[i] = IF i = Len(active) THEN Malformed ELSE active[i]
    BY <2>1
  <2> QED
    BY <1>1, <1>3, <2>2 DEF Ascending, WellFormed
<1>5. CASE ~torn
  <2>1. Appended(line) = Append(active, line)
    BY <1>5 DEF Appended
  <2>2. /\ DOMAIN Appended(line) = 1 .. Len(active) + 1
        /\ Appended(line)[Len(active) + 1] = line
        /\ \A i \in 1 .. Len(active) : Appended(line)[i] = active[i]
    BY <1>1, <2>1, AppendProperties
  <2>3. ASSUME NEW i \in 1 .. Len(active) + 1, NEW j \in 1 .. Len(active) + 1, i < j,
               WellFormed(Appended(line)[i]), WellFormed(Appended(line)[j])
        PROVE  Appended(line)[i].hash < Appended(line)[j].hash
    <3>1. i \in 1 .. Len(active) /\ (j \in 1 .. Len(active) \/ j = Len(active) + 1)
      BY <1>1, <2>3
    <3>2. CASE j \in 1 .. Len(active)
      BY <1>1, <2>2, <2>3, <3>1, <3>2 DEF Ascending
    <3>3. CASE j = Len(active) + 1
      <4>1. line.hash = writes /\ Appended(line)[i] = active[i]
        BY <1>1, <2>2, <2>3, <3>1, <3>3 DEF WellFormed
      <4> QED
        BY <1>1, <1>2, <2>2, <3>1, <3>3, <4>1
    <3> QED
      BY <3>1, <3>2, <3>3
  <2> QED
    BY <1>3, <2>2, <2>3 DEF Ascending
<1> QED
  BY <1>1, <1>4, <1>5

\* Steps that leave the files alone, or end an append, keep the order.
LEMMA OrderAppend ==
  ASSUME TypeOK, ChainInv, OrderInv, archives' = archives, pruned' = pruned,
         writes' \in Nat, writes <= writes',
         Writing' => writes' = writes + 1 \/ (Writing /\ writes' = writes),
         \/ active' = active
         \/ /\ pc = "append"
            /\ \E line \in {entry, Malformed} : active' = Appended(line)
  PROVE  OrderInv'
<1>1. /\ Ascending(active)'
      /\ \A new \in HashesOf(active)' : new \in HashesOf(active) \/ (Writing /\ new = writes)
  <2>1. CASE active' = active
    BY <2>1 DEF OrderInv, FilesSorted, Ascending, HashesOf
  <2>2. CASE pc = "append" /\ \E line \in {entry, Malformed} : active' = Appended(line)
    <3>1. PICK line \in {entry, Malformed} : active' = Appended(line)
      BY <2>2
    <3>2. Ascending(active') /\ HashesOf(active') \subseteq HashesOf(active) \cup {writes}
      BY <2>2, <3>1, AppendedInOrder DEF OrderInv, FilesSorted
    <3> QED
      BY <2>2, <3>2 DEF Writing, Ascending, HashesOf
  <2> QED
    BY <2>1, <2>2
<1>2. FilesSorted'
  <2>1. ASSUME NEW i \in DOMAIN archives PROVE Older(archives[i].lines, active)'
    <3>1. \A x \in HashesOf(archives[i].lines) : Writing => x < writes
      BY HashesAreOld
    <3>2. Older(archives[i].lines, active)
      BY DEF OrderInv, FilesSorted
    <3> QED
      BY <1>1, <3>1, <3>2 DEF Older, HashesOf
  <2> QED
    BY <1>1, <2>1 DEF OrderInv, FilesSorted, Ascending, Older, HashesOf
<1>3. PrunedIsOld'
  <2>1. ASSUME NEW old \in pruned
        PROVE  /\ old <= writes' /\ (Writing' => old < writes')
               /\ \A new \in HashesOf(active') : old < new
    <3>1. old \in Nat /\ writes \in Nat
      BY DEF TypeOK
    <3>2. /\ old <= writes /\ (Writing => old < writes)
          /\ \A new \in HashesOf(active) : old < new
      BY DEF OrderInv, PrunedIsOld
    <3> QED
      BY <1>1, <3>1, <3>2
  <2> QED
    BY <2>1 DEF OrderInv, PrunedIsOld
<1> QED
  BY <1>2, <1>3 DEF OrderInv

\* A step of the writer counts up, and what it adds to the history is the
\* record it is about to write.
LEMMA WriterMoves ==
  ASSUME TypeOK, ChainInv, [Next]_vars
  PROVE  /\ writes' \in Nat /\ writes <= writes'
         /\ Writing' => writes' = writes + 1 \/ (Writing /\ writes' = writes)
         /\ \/ committed' = committed
            \/ Writing /\ committed' = committed \cup {writes}
<1>1. writes \in Nat /\ (pc = "append" => entry.hash = writes)
  BY DEF TypeOK, ChainInv, PendingIsNew
<1> USE <1>1 DEF disk, memory, ghosts, Writing
<1>2. CASE Open
  BY <1>2 DEF Open
<1>3. CASE BeginWrite
  BY <1>3 DEF BeginWrite
<1>4. CASE Rotate
  BY <1>4 DEF Rotate
<1>5. CASE Scan
  BY <1>5 DEF Scan
<1>6. CASE PruneOne
  BY <1>6 DEF PruneOne
<1>7. CASE PruneDone
  BY <1>7 DEF PruneDone
<1>8. CASE AppendOk
  BY <1>8 DEF AppendOk
<1>9. CASE AppendFails
  BY <1>9 DEF AppendFails
<1>10. CASE RotateFails
  BY <1>10 DEF RotateFails
<1>11. CASE Crash
  BY <1>11 DEF Crash
<1>12. CASE UNCHANGED vars
  BY <1>12 DEF vars
<1> QED
  BY <1>2, <1>3, <1>4, <1>5, <1>6, <1>7, <1>8, <1>9, <1>10, <1>11, <1>12 DEF Next

\* Renaming the active file puts it after every other archive.
LEMMA OrderRotate ==
  ASSUME TypeOK, ChainInv, OrderInv, ClockIsSteady, Rotate
  PROVE  OrderInv'
<1> DEFINE n == Len(archives)
           new == [name |-> entry.hash, lines |-> active]
<1>1. /\ archives \in Seq(Archive) /\ n \in Nat /\ DOMAIN archives = 1 .. n
      /\ new \in Archive /\ new.lines = active
  BY LenProperties DEF TypeOK, Archive, Line
<1>2. archives' = Append(archives, new)
  BY DEF Rotate, Renamed, ClockIsSteady
<1> HIDE DEF new
<1>3. /\ DOMAIN archives' = 1 .. n + 1 /\ Len(archives') = n + 1
      /\ archives'[n + 1] = new
      /\ \A i \in 1 .. n : archives'[i] = archives[i]
  BY <1>1, <1>2, AppendProperties
<1> HIDE DEF n
<1>4. /\ active' = << >> /\ HashesOf(active') = {} /\ writes' = writes /\ pruned' = pruned
      /\ Writing
  BY DEF Rotate, ghosts, HashesOf, ToSet, Writing
<1>5. \A i \in 1 .. n + 1 : Ascending(archives'[i].lines)
  BY <1>1, <1>3 DEF OrderInv, FilesSorted
<1>6. ASSUME NEW i \in 1 .. n + 1, NEW j \in 1 .. n + 1, i < j
      PROVE  Older(archives'[i].lines, archives'[j].lines)
  <2>1. i \in 1 .. n /\ (j \in 1 .. n \/ j = n + 1)
    BY <1>1, <1>6
  <2> QED
    BY <1>1, <1>3, <1>6, <2>1 DEF OrderInv, FilesSorted
<1>7. FilesSorted'
  <2>1. Ascending(active)'
    BY <1>4 DEF Ascending
  <2>2. \A i \in 1 .. n + 1 : Older(archives'[i].lines, active')
    BY <1>4 DEF Older
  <2> QED
    BY <1>3, <1>5, <1>6, <2>1, <2>2 DEF FilesSorted, Ascending, Older, HashesOf
<1>8. PrunedIsOld'
  <2>1. ASSUME NEW old \in pruned, NEW f \in 1 .. n + 1, f > (n + 1) - MaxArchives,
               NEW h \in HashesOf(archives'[f].lines)
        PROVE  old < h
    <3>1. CASE f = n + 1
      BY <1>1, <1>3, <2>1, <3>1 DEF OrderInv, PrunedIsOld
    <3>2. CASE f \in 1 .. n
      <4>1. f > n - MaxArchives
        BY <1>1, <2>1, <3>2, AuditAssumption
      <4> QED
        BY <1>1, <1>3, <2>1, <3>2, <4>1 DEF OrderInv, PrunedIsOld, n
    <3> QED
      BY <1>1, <2>1, <3>1, <3>2
  <2> QED
    BY <1>3, <1>4, <2>1 DEF OrderInv, PrunedIsOld, Writing
<1> QED
  BY <1>7, <1>8 DEF OrderInv

\* Removing a stale archive keeps the others in order, and takes records that
\* are older than those of every archive behind it.
LEMMA OrderPrune ==
  ASSUME TypeOK, ChainInv, OrderInv, CursorIsStale, PruneOne, archives' # archives
  PROVE  OrderInv'
<1> DEFINE n == Len(archives)
<1>1. /\ archives \in Seq(Archive) /\ n \in Nat /\ DOMAIN archives = 1 .. n
      /\ cursor \in 1 .. n /\ cursor <= n - MaxArchives
      /\ pruned \subseteq Nat /\ writes \in Nat
  BY LenProperties DEF PruneOne, TypeOK, CursorIsStale
<1>2. /\ archives' = RemoveAt(archives, cursor)
      /\ pruned' = pruned \cup HashesOf(archives[cursor].lines)
      /\ active' = active /\ writes' = writes /\ pc = "prune" /\ pc' = "prune"
  BY DEF PruneOne
<1>3. /\ archives' \in Seq(Archive) /\ Len(archives') = n - 1
      /\ \A i \in 1 .. n - 1 : archives'[i] = archives[IF i < cursor THEN i ELSE i + 1]
  BY <1>1, <1>2, RemoveAtElements
<1>4. DOMAIN archives' = 1 .. n - 1
  BY <1>3, LenProperties
<1> HIDE DEF n
<1>5. ASSUME NEW i \in 1 .. n - 1
      PROVE  (IF i < cursor THEN i ELSE i + 1) \in 1 .. n
  BY <1>1
<1>6. FilesSorted'
  <2>1. ASSUME NEW i \in 1 .. n - 1
        PROVE  Ascending(archives'[i].lines) /\ Older(archives'[i].lines, active)
    BY <1>1, <1>3, <1>5 DEF OrderInv, FilesSorted
  <2>2. ASSUME NEW i \in 1 .. n - 1, NEW j \in 1 .. n - 1, i < j
        PROVE  Older(archives'[i].lines, archives'[j].lines)
    <3>1. PICK k \in 1 .. n, l \in 1 .. n :
            k < l /\ archives'[i] = archives[k] /\ archives'[j] = archives[l]
      <4>1. (IF i < cursor THEN i ELSE i + 1) < (IF j < cursor THEN j ELSE j + 1)
        BY <1>1, <2>2
      <4> QED
        BY <1>3, <1>5, <4>1
    <3> QED
      BY <1>1, <3>1 DEF OrderInv, FilesSorted
  <2> QED
    BY <1>2, <1>4, <2>1, <2>2
       DEF OrderInv, FilesSorted, Ascending, Older, HashesOf
<1>7. \A old \in HashesOf(archives[cursor].lines) :
        /\ old <= writes /\ old < writes
        /\ \A new \in HashesOf(active) : old < new
        /\ \A g \in 1 .. n : g > cursor =>
             \A new \in HashesOf(archives[g].lines) : old < new
  <2>1. \A old \in HashesOf(archives[cursor].lines) : old \in 1 .. writes /\ old < writes
    BY <1>1, <1>2, HashesAreOld DEF Writing
  <2> QED
    BY <1>1, <2>1 DEF OrderInv, FilesSorted, Older
<1>8. PrunedIsOld'
  <2>1. ASSUME NEW f \in 1 .. n - 1, f > (n - 1) - MaxArchives
        PROVE  f + 1 \in 1 .. n /\ f + 1 > n - MaxArchives /\ f + 1 > cursor
               /\ archives'[f] = archives[f + 1]
    <3>1. f + 1 \in 1 .. n /\ f + 1 > n - MaxArchives /\ ~(f < cursor)
      BY <1>1, <2>1, AuditAssumption
    <3> QED
      BY <1>1, <1>3, <2>1, <3>1
  <2>2. ASSUME NEW old \in pruned'
        PROVE  /\ old <= writes /\ old < writes
               /\ \A new \in HashesOf(active) : old < new
               /\ \A g \in 1 .. n : g > n - MaxArchives /\ g > cursor =>
                    \A new \in HashesOf(archives[g].lines) : old < new
    <3>1. CASE old \in pruned
      BY <1>1, <1>2, <3>1 DEF OrderInv, PrunedIsOld, Writing, n
    <3>2. CASE old \in HashesOf(archives[cursor].lines)
      BY <1>7, <3>2
    <3> QED
      BY <1>2, <2>2, <3>1, <3>2
  <2> QED
    BY <1>2, <1>3, <1>4, <2>1, <2>2 DEF PrunedIsOld, HashesOf
<1> QED
  BY <1>6, <1>8 DEF OrderInv

\* What a step can do to the active file and to the archives.
LEMMA FileSteps ==
  ASSUME TypeOK, [Next]_vars
  PROVE  \/ Rotate
         \/ PruneOne /\ archives' # archives
         \/ /\ archives' = archives /\ pruned' = pruned
            /\ \/ active' = active
               \/ pc = "append" /\ \E line \in {entry, Malformed} : active' = Appended(line)
<1> USE DEF disk, ghosts
<1>1. \A left \in Leftovers :
        left[1] = active \/ \E line \in {entry, Malformed} : left[1] = Appended(line)
  <2> TAKE left \in Leftovers
  <2>1. \/ left = << active, torn >>
        \/ left = << Appended(Malformed), TRUE >>
        \/ left = << Appended(entry), TRUE >>
        \/ left = << Appended(entry), FALSE >>
    BY DEF Leftovers
  <2>2. CASE left = << active, torn >>
    BY <2>2
  <2>3. CASE left = << Appended(Malformed), TRUE >>
    BY <2>3
  <2>4. CASE left = << Appended(entry), TRUE >>
    BY <2>4
  <2>5. CASE left = << Appended(entry), FALSE >>
    BY <2>5
  <2> QED
    BY <2>1, <2>2, <2>3, <2>4, <2>5
<1>2. CASE Crash
  <2>1. CASE pc = "append"
    <3>1. PICK left \in Leftovers : active' = left[1]
      BY <1>2, <2>1 DEF Crash
    <3> QED
      BY <1>1, <1>2, <2>1, <3>1 DEF Crash
  <2>2. CASE pc # "append"
    BY <1>2, <2>2 DEF Crash
  <2> QED
    BY <2>1, <2>2
<1>3. CASE AppendFails
  <2>1. PICK left \in Leftovers : active' = left[1]
    BY <1>3 DEF AppendFails
  <2> QED
    BY <1>1, <1>3, <2>1 DEF AppendFails
<1>4. CASE AppendOk
  BY <1>4 DEF AppendOk
<1>5. CASE PruneOne
  <2>1. cursor \in 1 .. Len(archives) /\ archives \in Seq(Archive)
    BY <1>5 DEF PruneOne, TypeOK
  <2>2. Len(RemoveAt(archives, cursor)) = Len(archives) - 1
    BY <2>1, RemoveAtElements
  <2> QED
    BY <1>5, <2>1, <2>2 DEF PruneOne
<1> QED
  BY <1>2, <1>3, <1>4, <1>5
     DEF Next, vars, Open, BeginWrite, Scan, PruneDone, RotateFails

\* The order is kept by every step.
LEMMA OrderStep ==
  ASSUME TypeOK, ChainInv, CursorIsStale, OrderInv, ClockIsSteady, [Next]_vars
  PROVE  OrderInv'
<1>1. CASE Rotate
  BY <1>1, OrderRotate
<1>2. CASE PruneOne /\ archives' # archives
  BY <1>2, OrderPrune
<1>3. CASE /\ archives' = archives /\ pruned' = pruned
           /\ \/ active' = active
              \/ pc = "append" /\ \E line \in {entry, Malformed} : active' = Appended(line)
  BY <1>3, WriterMoves, OrderAppend
<1> QED
  BY <1>1, <1>2, <1>3, FileSteps

\* So is the distance between the archives to remove and those to keep.
LEMMA CursorStep ==
  ASSUME TypeOK, CursorIsStale, [Next]_vars
  PROVE  CursorIsStale'
<1>1. MaxArchives \in Nat /\ Len(archives) \in Nat /\ cursor \in Int
  BY AuditAssumption, LenProperties DEF TypeOK
<1>2. CASE Scan
  BY <1>1, <1>2 DEF Scan, CursorIsStale, disk
<1>3. CASE PruneOne
  <2>1. CASE archives' = RemoveAt(archives, cursor)
    <3>1. Len(archives') = Len(archives) - 1
      BY <1>3, <2>1, RemoveAtElements DEF PruneOne, TypeOK
    <3> QED
      BY <1>1, <1>3, <3>1 DEF PruneOne, CursorIsStale
  <2>2. CASE "unlink" \in Faults /\ archives' = archives
    BY <1>1, <1>3, <2>2 DEF PruneOne, CursorIsStale
  <2> QED
    BY <1>3, <2>1, <2>2 DEF PruneOne
<1>4. CASE pc' # "prune" \/ UNCHANGED vars
  BY <1>4 DEF CursorIsStale, vars
<1> QED
  BY <1>2, <1>3, <1>4
     DEF Next, Open, BeginWrite, Rotate, PruneDone, AppendOk, AppendFails, RotateFails, Crash

\* The archives pruneArchives() has yet to remove are stale ones.
LEMMA CursorCorrect == Spec => []CursorIsStale
<1>1. Init => CursorIsStale
  BY DEF Init, CursorIsStale
<1>2. TypeOK /\ CursorIsStale /\ [Next]_vars => CursorIsStale'
  BY CursorStep
<1> QED
  BY <1>1, <1>2, TypeCorrect, PTL DEF Spec

\* In the beginning there is nothing to order.
LEMMA InitialOrder == Init => OrderInv
BY DEF Init, OrderInv, FilesSorted, PrunedIsOld, Ascending

\* While the clock only moves forward, no record is removed before one that
\* is older than it, whatever crashes and failed removals leave behind.
THEOREM NewestRetained == ClockIsSteady => (Spec => []RetainNewest)
<1> SUFFICES ASSUME ClockIsSteady PROVE Spec => []RetainNewest
  OBVIOUS
<1>1. TypeOK /\ ChainInv /\ CursorIsStale /\ OrderInv /\ [Next]_vars => OrderInv'
  BY OrderStep
<1>2. TypeOK /\ OrderInv => RetainNewest
  <2> SUFFICES ASSUME TypeOK, OrderInv, NEW old \in pruned,
                      NEW f \in DOMAIN Files, f > Len(archives) - MaxArchives,
                      NEW new \in HashesOf(Files[f])
               PROVE  old < new
    BY DEF RetainNewest
  <2>1. /\ DOMAIN archives = 1 .. Len(archives) /\ Len(archives) \in Nat
        /\ f \in 1 .. Len(archives) + 1
        /\ Files[f] = IF f <= Len(archives) THEN archives[f].lines ELSE active
    BY LenProperties DEF Files, TypeOK
  <2> QED
    BY <2>1 DEF OrderInv, PrunedIsOld
<1> QED
  BY <1>1, <1>2, InitialOrder, TypeCorrect, ChainCorrect, CursorCorrect, PTL DEF Spec

\* Where stale archives can be removed, every rotation that reaches its append
\* leaves at most maxArchives of them.
THEOREM BoundRestored == "unlink" \notin Faults => (Spec => PruneRestoresBound)
<1> SUFFICES ASSUME "unlink" \notin Faults PROVE Spec => PruneRestoresBound
  OBVIOUS
<1>1. TypeOK /\ CursorIsStale /\ [Next]_vars
        => [pc = "prune" /\ pc' = "append" => Len(archives') <= MaxArchives]_vars
  <2> SUFFICES ASSUME TypeOK, CursorIsStale, Next, pc = "prune", pc' = "append"
               PROVE  Len(archives') <= MaxArchives
    OBVIOUS
  <2>1. MaxArchives \in Nat /\ Len(archives) \in Nat /\ cursor \in Int
    BY AuditAssumption, LenProperties DEF TypeOK
  <2>2. cursor <= 0 /\ archives' = archives
    BY DEF Next, Open, BeginWrite, Rotate, Scan, PruneOne, PruneDone, AppendOk, AppendFails,
           RotateFails, Crash, disk
  <2> QED
    BY <2>1, <2>2 DEF CursorIsStale
<1> QED
  BY <1>1, TypeCorrect, CursorCorrect, PTL DEF Spec, PruneRestoresBound
-----------------------------------------------------------------------------
(* What a reader is missing.  A committed record that is neither readable  *)
(* nor pruned was spoiled by a fragment it was glued to, or by nothing at  *)
(* all being wrong with newer records: either leaves a mark in a file      *)
(* after which everything is newer, and pruning takes that file only when  *)
(* a later one bears such a mark as well.                                  *)

\* A line without its newline is not yet a success: it may still be spoiled.
FragmentIsPending ==
  torn => ~WellFormed(Last(active)) \/ Last(active).hash \notin committed

\* Only a file with lines is rotated.
FilesHaveLines ==
  /\ pc = "rotate" => active # << >>
  /\ \A i \in DOMAIN archives : archives[i].lines # << >>

\* File f shows that record c is not the last of the log.
Marked(c, f) ==
  /\ \E l \in ToSet(Files[f]) : ~WellFormed(l) \/ l.hash > c
  /\ \A g \in DOMAIN Files : g > f => \A h \in HashesOf(Files[g]) : h > c

Traceable ==
  \A c \in committed :
    c \in Readable(Files) \cup pruned \/ \E f \in DOMAIN Files : Marked(c, f)

TraceInv == FragmentIsPending /\ FilesHaveLines /\ Traceable

\* The files a reader sees, by number.
LEMMA FilesShape ==
  ASSUME TypeOK
  PROVE  /\ Len(archives) \in Nat /\ DOMAIN archives = 1 .. Len(archives)
         /\ DOMAIN Files = 1 .. Len(archives) + 1
         /\ \A f \in 1 .. Len(archives) : Files[f] = archives[f].lines
         /\ Files[Len(archives) + 1] = active
         /\ \A f \in 1 .. Len(archives) + 1 :
              Files[f] \in Seq(Line) /\ ToSet(Files[f]) \subseteq DiskLines
<1>1. Len(archives) \in Nat /\ DOMAIN archives = 1 .. Len(archives)
  BY LenProperties DEF TypeOK
<1>2. /\ DOMAIN Files = 1 .. Len(archives) + 1
      /\ \A f \in 1 .. Len(archives) : Files[f] = archives[f].lines
      /\ Files[Len(archives) + 1] = active
  BY <1>1 DEF Files
<1>3. ASSUME NEW f \in 1 .. Len(archives) + 1
      PROVE  Files[f] \in Seq(Line) /\ ToSet(Files[f]) \subseteq DiskLines
  <2>1. f \in 1 .. Len(archives) \/ f = Len(archives) + 1
    BY <1>1
  <2> QED
    BY <1>1, <1>2, <2>1, FilesAreOnDisk
<1> QED
  BY <1>1, <1>2, <1>3

\* They are sorted.
LEMMA FilesInOrder ==
  ASSUME TypeOK, FilesSorted
  PROVE  /\ \A f \in DOMAIN Files : Ascending(Files[f])
         /\ \A f, g \in DOMAIN Files : f < g => Older(Files[f], Files[g])
<1> DEFINE n == Len(archives)
<1>1. /\ n \in Nat /\ DOMAIN archives = 1 .. n /\ DOMAIN Files = 1 .. n + 1
      /\ \A f \in 1 .. n : Files[f] = archives[f].lines
      /\ Files[n + 1] = active
  BY FilesShape
<1> HIDE DEF n
<1>2. ASSUME NEW f \in 1 .. n + 1
      PROVE  f \in 1 .. n \/ f = n + 1
  BY <1>1
<1>3. ASSUME NEW f \in 1 .. n + 1
      PROVE  Ascending(Files[f])
  BY <1>1, <1>2 DEF FilesSorted
<1>4. ASSUME NEW f \in 1 .. n + 1, NEW g \in 1 .. n + 1, f < g
      PROVE  Older(Files[f], Files[g])
  <2>1. f \in 1 .. n
    BY <1>1, <1>4
  <2> QED
    BY <1>1, <1>2, <1>4, <2>1 DEF FilesSorted
<1> QED
  BY <1>1, <1>3, <1>4

\* A success is an append that returns.
LEMMA CommitStep ==
  ASSUME [Next]_vars
  PROVE  committed' = committed \/ AppendOk
BY DEF Next, vars, Open, BeginWrite, Rotate, Scan, PruneOne, PruneDone, AppendFails,
       RotateFails, Crash, ghosts

\* What an interrupted append leaves without newline is no success.
LEMMA FragmentStep ==
  ASSUME TypeOK, ChainInv, FragmentIsPending, [Next]_vars
  PROVE  FragmentIsPending'
<1>1. ASSUME pc = "append", committed' = committed, NEW left \in Leftovers,
             active' = left[1], torn' = left[2]
      PROVE  FragmentIsPending'
  <2>1. /\ entry \in Line /\ entry.hash = writes /\ writes \notin committed
        /\ Malformed.hash = 0
    BY <1>1 DEF TypeOK, ChainInv, PendingIsNew, Malformed
  <2>2. /\ Last(Appended(entry)) \in {entry, Malformed}
        /\ Last(Appended(Malformed)) = Malformed
    BY <2>1, AppendedLines, MalformedIsLine
  <2>3. \/ left = << active, torn >>
        \/ left = << Appended(Malformed), TRUE >>
        \/ left = << Appended(entry), TRUE >>
        \/ left = << Appended(entry), FALSE >>
    BY DEF Leftovers
  <2>4. CASE left = << active, torn >>
    BY <1>1, <2>4 DEF FragmentIsPending, WellFormed
  <2>5. CASE left = << Appended(Malformed), TRUE >>
    BY <1>1, <2>1, <2>2, <2>5 DEF FragmentIsPending, WellFormed
  <2>6. CASE left = << Appended(entry), TRUE >>
    BY <1>1, <2>1, <2>2, <2>6 DEF FragmentIsPending, WellFormed
  <2>7. CASE left = << Appended(entry), FALSE >>
    BY <1>1, <2>7 DEF FragmentIsPending
  <2> QED
    BY <2>3, <2>4, <2>5, <2>6, <2>7
<1>2. CASE AppendFails
  <2>1. PICK left \in Leftovers : active' = left[1] /\ torn' = left[2]
    BY <1>2 DEF AppendFails
  <2> QED
    BY <1>1, <1>2, <2>1 DEF AppendFails, ghosts
<1>3. CASE Crash
  <2>1. CASE pc = "append"
    <3>1. PICK left \in Leftovers : active' = left[1] /\ torn' = left[2]
      BY <1>3, <2>1 DEF Crash
    <3> QED
      BY <1>1, <1>3, <2>1, <3>1 DEF Crash, ghosts
  <2>2. CASE pc # "append"
    <3>1. active' = active /\ torn' = torn /\ committed' = committed
      BY <1>3, <2>2 DEF Crash, ghosts
    <3> QED
      BY <3>1 DEF FragmentIsPending, WellFormed, Last
  <2> QED
    BY <2>1, <2>2
<1>4. CASE ~torn'
  BY <1>4 DEF FragmentIsPending
<1>5. CASE active' = active /\ torn' = torn /\ committed' = committed
  BY <1>5 DEF FragmentIsPending, WellFormed, Last
<1> QED
  BY <1>2, <1>3, <1>4, <1>5
     DEF Next, vars, Open, BeginWrite, Rotate, Scan, PruneOne, PruneDone, AppendOk,
         RotateFails, disk, ghosts

\* No archive is empty.
LEMMA HaveLinesStep ==
  ASSUME TypeOK, FilesHaveLines, ClockIsSteady, [Next]_vars
  PROVE  FilesHaveLines'
<1>0. archives \in Seq(Archive) /\ DOMAIN archives = 1 .. Len(archives)
  BY LenProperties DEF TypeOK
<1>1. CASE Rotate
  <2> DEFINE new == [name |-> entry.hash, lines |-> active]
  <2>1. archives' = Append(archives, new) /\ new.lines # << >> /\ new \in Archive
    BY <1>1 DEF Rotate, Renamed, ClockIsSteady, FilesHaveLines, TypeOK, Archive, Line
  <2> HIDE DEF new
  <2>2. \A i \in DOMAIN archives' : archives'[i] = new \/ \E j \in DOMAIN archives :
                                                            archives'[i] = archives[j]
    BY <1>0, <2>1
  <2> QED
    BY <1>1, <2>1, <2>2 DEF Rotate, FilesHaveLines
<1>2. CASE PruneOne
  <2>1. CASE archives' = archives
    BY <1>2, <2>1 DEF PruneOne, FilesHaveLines
  <2>2. CASE archives' = RemoveAt(archives, cursor)
    <3>1. cursor \in 1 .. Len(archives)
      BY <1>2 DEF PruneOne, TypeOK
    <3>2. archives \in Seq(Archive)
      BY DEF TypeOK
    <3>3. \A i \in DOMAIN archives' : \E j \in DOMAIN archives : archives'[i] = archives[j]
      BY <2>2, <3>1, <3>2, RemoveAtElements
    <3> QED
      BY <1>2, <3>3 DEF PruneOne, FilesHaveLines
  <2> QED
    BY <1>2, <2>1, <2>2 DEF PruneOne
<1>3. CASE archives' = archives /\ (pc' = "rotate" => active' # << >>)
  BY <1>3 DEF FilesHaveLines
<1> QED
  BY <1>1, <1>2, <1>3
     DEF Next, vars, Open, BeginWrite, NeedsRotation, Scan, PruneDone, AppendOk, AppendFails,
         RotateFails, Crash, disk, FilesHaveLines

\* What is readable is so in some file.
LEMMA ReadableIn ==
  ASSUME NEW files, NEW c
  PROVE  c \in Readable(files) <=> \E f \in DOMAIN files : c \in HashesOf(files[f])
BY DEF Readable

\* Rotation leaves the files their numbers, and adds an empty one.
LEMMA RotatedFiles ==
  ASSUME TypeOK, ClockIsSteady, Rotate
  PROVE  /\ Len(archives) \in Nat /\ DOMAIN Files = 1 .. Len(archives) + 1
         /\ DOMAIN Files' = 1 .. Len(archives) + 2
         /\ \A f \in 1 .. Len(archives) + 1 : Files'[f] = Files[f]
         /\ HashesOf(Files'[Len(archives) + 2]) = {}
<1> DEFINE n == Len(archives)
           new == [name |-> entry.hash, lines |-> active]
<1>1. /\ n \in Nat /\ DOMAIN Files = 1 .. n + 1
      /\ \A f \in 1 .. n : Files[f] = archives[f].lines
      /\ Files[n + 1] = active
  BY FilesShape
<1>2. archives \in Seq(Archive) /\ new \in Archive /\ new.lines = active
  BY DEF TypeOK, Archive, Line
<1>3. archives' = Append(archives, new)
  BY DEF Rotate, Renamed, ClockIsSteady
<1> HIDE DEF new
<1>4. /\ Len(archives') = n + 1
      /\ \A f \in 1 .. n : archives'[f] = archives[f]
      /\ archives'[n + 1] = new
  BY <1>2, <1>3, AppendProperties
<1> HIDE DEF n
<1>5. /\ DOMAIN Files' = 1 .. n + 2
      /\ \A f \in 1 .. n + 1 : Files'[f] = Files[f]
      /\ HashesOf(Files'[n + 2]) = {}
  <2>1. Files' = [f \in 1 .. n + 1 + 1 |->
                    IF f <= n + 1 THEN archives'[f].lines ELSE active']
    BY <1>4 DEF Files
  <2>2. active' = << >>
    BY DEF Rotate
  <2>3. \A f \in 1 .. n + 1 : f \in 1 .. n \/ f = n + 1
    BY <1>1
  <2>4. n + 1 + 1 = n + 2 /\ ~(n + 2 <= n + 1) /\ n + 2 \in 1 .. n + 2
    BY <1>1
  <2>5. \A f \in 1 .. n + 1 : f \in 1 .. n + 2 /\ f <= n + 1
    BY <1>1
  <2>6. \A f \in 1 .. n + 1 : archives'[f].lines = Files[f]
    BY <1>1, <1>2, <1>4, <2>3
  <2>7. DOMAIN Files' = 1 .. n + 2 /\ \A f \in 1 .. n + 1 : Files'[f] = Files[f]
    BY <2>1, <2>4, <2>5, <2>6
  <2>8. Files'[n + 2] = << >>
    BY <2>1, <2>2, <2>4
  <2> QED
    BY <2>7, <2>8 DEF HashesOf, ToSet
<1> QED
  BY <1>1, <1>5 DEF n

\* Rotation hides no record and no mark: the files keep their numbers, and
\* the new active file is empty.
LEMMA TraceRotate ==
  ASSUME TypeOK, ClockIsSteady, Rotate, Traceable
  PROVE  Traceable'
<1> DEFINE n == Len(archives)
<1>1. /\ n \in Nat /\ DOMAIN Files = 1 .. n + 1 /\ DOMAIN Files' = 1 .. n + 2
      /\ \A f \in 1 .. n + 1 : Files'[f] = Files[f]
      /\ HashesOf(Files'[n + 2]) = {}
  BY RotatedFiles
<1> HIDE DEF n
<1>2. committed' = committed /\ pruned' = pruned
  BY DEF Rotate, ghosts
<1>3. ASSUME NEW c \in committed, c \in Readable(Files)
      PROVE  c \in Readable(Files')
  BY <1>1, <1>3, ReadableIn
<1>4. ASSUME NEW c \in committed, NEW f \in DOMAIN Files, Marked(c, f)
      PROVE  Marked(c, f)' /\ f \in DOMAIN Files'
  <2>1. f \in 1 .. n + 1 /\ Files'[f] = Files[f]
    BY <1>1
  <2>2. ASSUME NEW g \in 1 .. n + 2, g > f, NEW h \in HashesOf(Files'[g])
        PROVE  h > c
    <3>1. g \in 1 .. n + 1
      BY <1>1, <2>2
    <3> QED
      BY <1>1, <1>4, <2>2, <3>1 DEF Marked
  <2>3. \E l \in ToSet(Files'[f]) : ~WellFormed(l) \/ l.hash > c
    BY <1>4, <2>1 DEF Marked
  <2>4. f \in DOMAIN Files'
    BY <1>1, <2>1
  <2> HIDE DEF Files
  <2> QED
    BY <1>1, <2>2, <2>3, <2>4 DEF Marked, WellFormed
<1> QED
  BY <1>2, <1>3, <1>4 DEF Traceable

\* Removing an archive moves the later files down by one.
LEMMA PrunedFiles ==
  ASSUME TypeOK, CursorIsStale, PruneOne, archives' # archives
  PROVE  /\ Len(archives) \in Nat /\ DOMAIN Files = 1 .. Len(archives) + 1
         /\ cursor \in 1 .. Len(archives) /\ cursor < Len(archives)
         /\ pruned' = pruned \cup HashesOf(Files[cursor]) /\ committed' = committed
         /\ DOMAIN Files' = 1 .. Len(archives)
         /\ \A f \in 1 .. Len(archives) :
              LET g == IF f < cursor THEN f ELSE f + 1
              IN  g \in 1 .. Len(archives) + 1 /\ Files'[f] = Files[g]
         /\ \A g \in 1 .. Len(archives) + 1 : g # cursor =>
              \E f \in 1 .. Len(archives) : g = IF f < cursor THEN f ELSE f + 1
<1> DEFINE n == Len(archives)
           Moved(f) == IF f < cursor THEN f ELSE f + 1
<1>1. /\ n \in Nat /\ DOMAIN Files = 1 .. n + 1 /\ DOMAIN archives = 1 .. n
      /\ \A f \in 1 .. n : Files[f] = archives[f].lines
      /\ Files[n + 1] = active
      /\ archives \in Seq(Archive)
  BY FilesShape DEF TypeOK
<1>2. cursor \in 1 .. n /\ cursor < n
  <2>1. cursor \in Int /\ cursor > 0 /\ cursor <= n - MaxArchives
    BY DEF PruneOne, CursorIsStale, TypeOK
  <2> QED
    BY <1>1, <2>1, AuditAssumption
<1>3. /\ archives' = RemoveAt(archives, cursor)
      /\ pruned' = pruned \cup HashesOf(archives[cursor].lines)
      /\ committed' = committed /\ active' = active
  BY DEF PruneOne
<1>4. /\ Len(archives') = n - 1
      /\ \A f \in 1 .. n - 1 : archives'[f] = archives[Moved(f)]
  BY <1>1, <1>2, <1>3, RemoveAtElements
<1> HIDE DEF n
<1>5. /\ DOMAIN Files' = 1 .. n
      /\ \A f \in 1 .. n : Moved(f) \in 1 .. n + 1 /\ Files'[f] = Files[Moved(f)]
  <2>1. Files' = [f \in 1 .. n - 1 + 1 |->
                    IF f <= n - 1 THEN archives'[f].lines ELSE active']
    BY <1>4 DEF Files
  <2>2. n - 1 + 1 = n
    BY <1>1
  <2>3. ASSUME NEW f \in 1 .. n
        PROVE  Moved(f) \in 1 .. n + 1 /\ Files'[f] = Files[Moved(f)]
    <3>1. CASE f <= n - 1
      <4>1. f \in 1 .. n - 1 /\ Moved(f) \in 1 .. n
        BY <1>1, <1>2, <3>1
      <4> QED
        BY <1>1, <1>4, <2>1, <2>2, <3>1, <4>1
    <3>2. CASE f = n
      <4>1. Moved(f) = n + 1 /\ ~(f <= n - 1)
        BY <1>1, <1>2, <3>2
      <4> QED
        BY <1>1, <1>3, <2>1, <2>2, <3>2, <4>1
    <3>3. f <= n - 1 \/ f = n
      BY <1>1
    <3> QED
      BY <3>1, <3>2, <3>3
  <2> QED
    BY <2>1, <2>2, <2>3
<1>6. \A f \in 1 .. n + 1 : f # cursor =>
        \E e \in 1 .. n : Moved(e) = f /\ e = IF f < cursor THEN f ELSE f - 1
  BY <1>1, <1>2
<1> QED
  BY <1>1, <1>2, <1>3, <1>5, <1>6 DEF n

\* Pruning takes no mark without leaving a later one: the newest archive is
\* never stale, and it has a line.
LEMMA TracePrune ==
  ASSUME TypeOK, ChainInv, FilesSorted, CursorIsStale, FilesHaveLines, Traceable,
         PruneOne, archives' # archives
  PROVE  Traceable'
<1> DEFINE n == Len(archives)
           Moved(f) == IF f < cursor THEN f ELSE f + 1
<1>1. /\ n \in Nat /\ DOMAIN Files = 1 .. n + 1 /\ DOMAIN archives = 1 .. n
      /\ \A f \in 1 .. n : Files[f] = archives[f].lines
  BY FilesShape
<1>2. cursor \in 1 .. n /\ cursor < n
  BY PrunedFiles
<1>3. pruned' = pruned \cup HashesOf(Files[cursor]) /\ committed' = committed
  BY PrunedFiles
<1>5. /\ DOMAIN Files' = 1 .. n
      /\ \A f \in 1 .. n : Moved(f) \in 1 .. n + 1 /\ Files'[f] = Files[Moved(f)]
  BY PrunedFiles
<1>6. \A f \in 1 .. n + 1 : f # cursor => \E e \in 1 .. n : Moved(e) = f
  BY PrunedFiles
<1> HIDE DEF n
<1>7. ASSUME NEW c \in committed, c \in Readable(Files)
      PROVE  c \in Readable(Files') \cup pruned'
  <2>1. PICK f \in 1 .. n + 1 : c \in HashesOf(Files[f])
    BY <1>1, <1>7, ReadableIn
  <2>2. CASE f = cursor
    BY <1>1, <1>2, <1>3, <2>1, <2>2
  <2>3. CASE f # cursor
    <3>1. PICK e \in 1 .. n : Moved(e) = f
      BY <1>6, <2>3
    <3>2. c \in HashesOf(Files'[e])
      BY <1>5, <2>1, <3>1
    <3> QED
      BY <1>5, <3>2, ReadableIn
  <2> QED
    BY <2>2, <2>3
<1>8. ASSUME NEW c \in committed, NEW f \in 1 .. n + 1, Marked(c, f), f # cursor
      PROVE  \E e \in DOMAIN Files' : Marked(c, e)'
  <2>1. PICK e \in 1 .. n : Moved(e) = f
    BY <1>6, <1>8
  <2>2. ASSUME NEW g \in 1 .. n, g > e, NEW h \in HashesOf(Files'[g])
        PROVE  h > c
    <3>1. Moved(g) \in 1 .. n + 1 /\ Moved(g) > f
      BY <1>1, <1>2, <1>5, <2>1, <2>2
    <3> QED
      BY <1>1, <1>5, <1>8, <2>2, <3>1 DEF Marked
  <2>3. Marked(c, e)'
    BY <1>5, <1>8, <2>1, <2>2 DEF Marked, WellFormed
  <2> QED
    BY <1>5, <2>3
<1>9. ASSUME NEW c \in committed, Marked(c, cursor)
      PROVE  Marked(c, n)
  <2>1. Files[n] # << >> /\ n \in 1 .. n + 1 /\ Files[n] \in Seq(Line)
    <3>1. n \in DOMAIN archives /\ n \in 1 .. n + 1
      BY <1>1, <1>2
    <3>2. Files[n] # << >>
      BY <1>1, <3>1 DEF FilesHaveLines
    <3>3. Files[n] \in Seq(Line)
      BY <3>1, FilesShape DEF n
    <3> QED
      BY <3>1, <3>2, <3>3
  <2>2. PICK l \in ToSet(Files[n]) : TRUE
    <3>1. 1 \in DOMAIN Files[n]
      BY <2>1
    <3> QED
      BY <3>1 DEF ToSet
  <2>3. ~WellFormed(l) \/ l.hash > c
    <3>1. CASE WellFormed(l)
      <4>1. l.hash \in HashesOf(Files[n])
        BY <2>2, <3>1, HashesOfLines
      <4> QED
        BY <1>1, <1>2, <1>9, <2>1, <4>1 DEF Marked
    <3> QED
      BY <3>1
  <2>4. ASSUME NEW g \in 1 .. n + 1, g > n, NEW h \in HashesOf(Files[g])
        PROVE  h > c
    <3>1. g > cursor
      BY <1>1, <1>2, <2>4
    <3> QED
      BY <1>1, <1>9, <2>4, <3>1 DEF Marked
  <2> QED
    BY <1>1, <2>2, <2>3, <2>4 DEF Marked
<1>10. ASSUME NEW c \in committed, NEW f \in DOMAIN Files, Marked(c, f)
       PROVE  \E e \in DOMAIN Files' : Marked(c, e)'
  <2>1. n \in 1 .. n + 1 /\ n # cursor
    BY <1>1, <1>2
  <2>2. CASE f = cursor
    BY <1>8, <1>9, <1>10, <2>1, <2>2
  <2>3. CASE f # cursor
    BY <1>1, <1>8, <1>10, <2>3
  <2> QED
    BY <2>2, <2>3
<1>11. ASSUME NEW c \in committed
       PROVE  \/ c \in Readable(Files') \cup pruned'
              \/ \E e \in DOMAIN Files' : Marked(c, e)'
  <2>1. CASE c \in pruned
    BY <1>3, <2>1
  <2>2. CASE c \in Readable(Files)
    BY <1>7, <2>2
  <2>3. CASE \E f \in DOMAIN Files : Marked(c, f)
    BY <1>10, <2>3
  <2> QED
    BY <2>1, <2>2, <2>3 DEF Traceable
<1> QED
  BY <1>3, <1>11 DEF Traceable

\* An append keeps the lines that end in a newline; a fragment becomes a line
\* that does not parse, and takes the new line with it.
LEMMA AppendedKeeps ==
  ASSUME TypeOK, NEW line \in Line
  PROVE  /\ torn => /\ Malformed \in ToSet(Appended(line))
                    /\ \A i \in 1 .. Len(active) :
                         i # Len(active) => active[i] \in ToSet(Appended(line))
         /\ ~torn => /\ line \in ToSet(Appended(line))
                     /\ ToSet(active) \subseteq ToSet(Appended(line))
<1>1. /\ active \in Seq(Line) /\ DOMAIN active = 1 .. Len(active) /\ Len(active) \in Nat
      /\ (torn => active # << >>)
  BY LenProperties DEF TypeOK
<1>2. CASE torn
  <2>1. Appended(line) = [active EXCEPT ![Len(active)] = Malformed]
    BY <1>2 DEF Appended
  <2>2. Len(active) \in DOMAIN active /\ DOMAIN Appended(line) = 1 .. Len(active)
    BY <1>1, <1>2, <2>1
  <2>3. /\ Appended(line)[Len(active)] = Malformed
        /\ \A i \in 1 .. Len(active) :
             i # Len(active) => Appended(line)[i] = active[i]
    BY <1>1, <2>1, <2>2
  <2> QED
    BY <1>1, <1>2, <2>2, <2>3 DEF ToSet
<1>3. CASE ~torn
  <2>1. Appended(line) = Append(active, line)
    BY <1>3 DEF Appended
  <2>2. /\ DOMAIN Appended(line) = 1 .. Len(active) + 1
        /\ Appended(line)[Len(active) + 1] = line
        /\ \A i \in 1 .. Len(active) : Appended(line)[i] = active[i]
    BY <1>1, <2>1, AppendProperties
  <2>3. line \in ToSet(Appended(line))
    BY <1>1, <2>2 DEF ToSet
  <2>4. ToSet(active) \subseteq ToSet(Appended(line))
    BY <1>1, <2>2 DEF ToSet
  <2> QED
    BY <1>3, <2>3, <2>4
<1> QED
  BY <1>2, <1>3

\* An append loses no success but its own, and that one leaves a mark.
LEMMA TraceAppend ==
  ASSUME TypeOK, ChainInv, FilesSorted, FragmentIsPending, Traceable,
         pc = "append", NEW line \in {entry, Malformed}, active' = Appended(line),
         archives' = archives, pruned' = pruned,
         \/ committed' = committed
         \/ line = entry /\ committed' = committed \cup {entry.hash}
  PROVE  Traceable'
<1> DEFINE n == Len(archives)
<1>1. /\ n \in Nat /\ DOMAIN Files = 1 .. n + 1 /\ Files[n + 1] = active
      /\ active \in Seq(Line) /\ DOMAIN active = 1 .. Len(active) /\ Len(active) \in Nat
      /\ torn \in BOOLEAN /\ (torn => active # << >>)
  BY FilesShape, LenProperties DEF TypeOK
<1>2. /\ DOMAIN Files' = 1 .. n + 1 /\ Files'[n + 1] = Appended(line)
      /\ \A f \in 1 .. n : Files'[f] = Files[f]
  BY <1>1 DEF Files
<1>3. /\ entry.hash = writes /\ writes \in Nat /\ writes # 0 /\ line \in Line
      /\ entry \in Line /\ Malformed.hash = 0
      /\ \A c \in committed : c \in Nat /\ c < writes
  BY MalformedIsLine DEF TypeOK, ChainInv, PendingIsNew, Malformed
<1>4. HashesOf(Appended(line)) \subseteq HashesOf(active) \cup {writes}
  BY AppendedInOrder DEF FilesSorted
<1> HIDE DEF n
<1>5. ASSUME NEW c \in committed, c \in HashesOf(active)
      PROVE  c \in HashesOf(Appended(line))
  <2>1. PICK i \in 1 .. Len(active) : active[i].hash = c /\ c # 0
    BY <1>1, <1>5 DEF HashesOf, ToSet
  <2>2. active[i] \in ToSet(Appended(line))
    <3>1. CASE ~torn
      <4>1. active[i] \in ToSet(active)
        BY <1>1 DEF ToSet
      <4> QED
        BY <1>3, <3>1, <4>1, AppendedKeeps
    <3>2. CASE torn
      <4>1. i # Len(active)
        BY <1>1, <2>1, <3>2 DEF FragmentIsPending, Last, WellFormed
      <4> QED
        BY <1>3, <3>2, <4>1, AppendedKeeps
    <3> QED
      BY <3>1, <3>2
  <2> QED
    BY <2>1, <2>2 DEF HashesOf
<1>6. ASSUME NEW c \in committed, c \in Readable(Files)
      PROVE  c \in Readable(Files')
  <2>1. PICK f \in 1 .. n + 1 : c \in HashesOf(Files[f])
    BY <1>1, <1>6, ReadableIn
  <2>2. c \in HashesOf(Files'[f])
    <3>1. f \in 1 .. n \/ f = n + 1
      BY <1>1
    <3> QED
      BY <1>1, <1>2, <1>5, <2>1, <3>1
  <2> QED
    BY <1>2, <2>2, ReadableIn
<1>7. ASSUME NEW c \in committed, NEW f \in DOMAIN Files, Marked(c, f)
      PROVE  f \in DOMAIN Files' /\ Marked(c, f)'
  <2>1. f \in 1 .. n \/ f = n + 1
    BY <1>1
  <2>2. PICK l \in ToSet(Files[f]) : ~WellFormed(l) \/ l.hash > c
    BY <1>7 DEF Marked
  <2>3. \E k \in ToSet(Files'[f]) : ~WellFormed(k) \/ k.hash > c
    <3>1. CASE f \in 1 .. n
      BY <1>2, <2>2, <3>1
    <3>2. CASE f = n + 1 /\ torn
      BY <1>2, <1>3, <3>2, AppendedKeeps DEF WellFormed
    <3>3. CASE f = n + 1 /\ ~torn
      BY <1>1, <1>2, <1>3, <2>2, <3>3, AppendedKeeps
    <3> QED
      BY <2>1, <3>1, <3>2, <3>3
  <2>4. ASSUME NEW g \in 1 .. n + 1, g > f, NEW h \in HashesOf(Files'[g])
        PROVE  h > c
    <3>1. \A x \in HashesOf(Files[g]) : x > c
      BY <1>1, <1>7, <2>4 DEF Marked
    <3>2. CASE g \in 1 .. n
      BY <1>2, <2>4, <3>1, <3>2
    <3>3. CASE g = n + 1
      <4>1. h \in HashesOf(active) \cup {writes}
        BY <1>2, <1>4, <2>4, <3>3
      <4> QED
        BY <1>1, <1>3, <3>1, <3>3, <4>1
    <3>4. g \in 1 .. n \/ g = n + 1
      BY <1>1
    <3> QED
      BY <3>2, <3>3, <3>4
  <2>5. f \in DOMAIN Files'
    BY <1>1, <1>2
  <2> HIDE DEF Files
  <2> QED
    BY <1>2, <2>3, <2>4, <2>5 DEF Marked, WellFormed
<1>8. ASSUME NEW c, c = writes, line = entry
      PROVE  c \in Readable(Files') \/ \E f \in DOMAIN Files' : Marked(c, f)'
  <2>1. n + 1 \in DOMAIN Files'
    BY <1>1, <1>2
  <2>2. CASE ~torn
    <3>1. entry \in ToSet(Appended(line))
      BY <1>3, <1>8, <2>2, AppendedKeeps
    <3>2. c \in HashesOf(Files'[n + 1])
      BY <1>2, <1>3, <1>8, <3>1 DEF HashesOf
    <3> QED
      BY <2>1, <3>2, ReadableIn
  <2>3. CASE torn
    <3>1. \E l \in ToSet(Files'[n + 1]) : l.hash = 0
      BY <1>2, <1>3, <2>3, AppendedKeeps
    <3>2. \A g \in 1 .. n + 1 : ~(g > n + 1)
      BY <1>1
    <3>3. ASSUME NEW f \in DOMAIN Files', f = n + 1
          PROVE  Marked(c, f)'
      BY <1>2, <3>1, <3>2, <3>3 DEF Marked, WellFormed
    <3> QED
      BY <2>1, <3>3
  <2> QED
    BY <1>1, <2>2, <2>3
<1>9. ASSUME NEW c \in committed'
      PROVE  \/ c \in Readable(Files') \cup pruned'
             \/ \E f \in DOMAIN Files' : Marked(c, f)'
  <2>1. CASE c \in committed
    <3>1. CASE c \in pruned
      BY <3>1
    <3>2. CASE c \in Readable(Files)
      BY <1>6, <2>1, <3>2
    <3>3. CASE \E f \in DOMAIN Files : Marked(c, f)
      BY <1>7, <2>1, <3>3
    <3> QED
      BY <2>1, <3>1, <3>2, <3>3 DEF Traceable
  <2>2. CASE c = writes /\ line = entry
    BY <1>8, <2>2
  <2> QED
    BY <1>3, <1>9, <2>1, <2>2
<1> QED
  BY <1>9 DEF Traceable

\* Every success is readable, was pruned, or has left a mark.
LEMMA TraceStep ==
  ASSUME TypeOK, ChainInv, CursorIsStale, OrderInv, TraceInv, ClockIsSteady, [Next]_vars
  PROVE  TraceInv'
<1>1. Traceable'
  <2>1. CASE Rotate
    BY <2>1, TraceRotate DEF TraceInv
  <2>2. CASE PruneOne /\ archives' # archives
    BY <2>2, TracePrune DEF TraceInv, OrderInv
  <2>3. CASE /\ archives' = archives /\ pruned' = pruned /\ committed' = committed
             /\ active' = active
    <3>1. Files' = Files
      BY <2>3 DEF Files
    <3> QED
      BY <2>3, <3>1 DEF TraceInv, Traceable, Marked, WellFormed
  <2>4. CASE /\ archives' = archives /\ pruned' = pruned /\ committed' = committed
             /\ pc = "append" /\ \E line \in {entry, Malformed} : active' = Appended(line)
    BY <2>4, TraceAppend DEF TraceInv, OrderInv
  <2>5. CASE AppendOk
    <3>1. /\ pc = "append" /\ active' = Appended(entry) /\ archives' = archives
          /\ pruned' = pruned /\ committed' = committed \cup {entry.hash}
      BY <2>5 DEF AppendOk
    <3> QED
      BY <3>1, TraceAppend DEF TraceInv, OrderInv
  <2> QED
    BY <2>1, <2>2, <2>3, <2>4, <2>5, FileSteps, CommitStep
<1> QED
  BY <1>1, FragmentStep, HaveLinesStep DEF TraceInv

-----------------------------------------------------------------------------
(* What the reader's walk meets.                                           *)

\* Every set of numbers that is not empty has a least element.
LEMMA LeastNumber ==
  ASSUME NEW S, S \subseteq Nat, S # {}
  PROVE  \E m \in S : \A k \in S : m <= k
<1> DEFINE R == OpToRel(<, Nat)
<1>1. \A x, y \in Nat : x < y => << x, y >> \in R
  BY DEF OpToRel
<1>2. IsWellFoundedOn(R, Nat)
  BY NatLessThanWellFounded
<1> HIDE DEF R
<1>3. PICK x \in S : \A y \in S : ~ (<< y, x >> \in R)
  BY <1>2, WFMin
<1>4. \A y \in S : ~ (y < x)
  BY <1>1, <1>3
<1>5. \A y \in S : x \in Nat /\ y \in Nat
  BY <1>3
<1> QED
  BY <1>4, <1>5

\* One that is bounded has a greatest.
LEMMA GreatestNumber ==
  ASSUME NEW N \in Nat, NEW S, S \subseteq 0 .. N, S # {}
  PROVE  \E m \in S : \A k \in S : k <= m
<1> DEFINE T == { N - k : k \in S }
<1>1. T \subseteq Nat /\ T # {}
  <2>1. \A k \in S : k \in 0 .. N /\ N - k \in Nat
    OBVIOUS
  <2> QED
    BY <2>1
<1> HIDE DEF T
<1>2. PICK m \in T : \A k \in T : m <= k
  BY <1>1, LeastNumber
<1>3. PICK s \in S : m = N - s
  BY DEF T
<1>4. ASSUME NEW k \in S
      PROVE  k <= s
  <2>1. N - k \in T
    BY DEF T
  <2>2. m <= N - k
    BY <1>2, <2>1
  <2>3. s \in Nat /\ k \in Nat
    OBVIOUS
  <2> QED
    BY <1>3, <2>2, <2>3
<1> QED
  BY <1>4

\* The position of a line is a file and a place in it.
LEMMA PositionParts ==
  ASSUME TypeOK, NEW p \in Positions(Files)
  PROVE  /\ p = << p[1], p[2] >> /\ p[1] \in Nat /\ p[2] \in Nat
         /\ p[1] \in DOMAIN Files /\ p[2] \in DOMAIN Files[p[1]]
         /\ LineAt(Files, p) = Files[p[1]][p[2]]
         /\ LineAt(Files, p) \in ToSet(Files[p[1]])
<1>1. PICK f \in DOMAIN Files : p \in {f} \X DOMAIN Files[f]
  BY DEF Positions
<1>2. p = << p[1], p[2] >> /\ p[1] = f /\ p[2] \in DOMAIN Files[f]
  BY <1>1
<1>3. f \in Nat /\ Files[f] \in Seq(Line)
  BY FilesShape
<1>4. p[2] \in Nat
  BY <1>2, <1>3, LenProperties
<1> QED
  BY <1>2, <1>3, <1>4 DEF LineAt, ToSet

\* The records a reader can show are those of the lines that parse.
LEMMA RecordsArePlaced ==
  ASSUME TypeOK
  PROVE  /\ \A h \in Readable(Files) : \E p \in Positions(Files) :
              WellFormed(LineAt(Files, p)) /\ LineAt(Files, p).hash = h
         /\ \A p \in Positions(Files) :
              WellFormed(LineAt(Files, p)) => LineAt(Files, p).hash \in Readable(Files)
<1>1. ASSUME NEW h \in Readable(Files)
      PROVE  \E p \in Positions(Files) :
               WellFormed(LineAt(Files, p)) /\ LineAt(Files, p).hash = h
  <2>1. PICK f \in DOMAIN Files : h \in HashesOf(Files[f])
    BY <1>1, ReadableIn
  <2>2. PICK i \in DOMAIN Files[f] : Files[f][i].hash = h /\ h # 0
    BY <2>1 DEF HashesOf, ToSet
  <2>3. << f, i >> \in Positions(Files) /\ LineAt(Files, << f, i >>) = Files[f][i]
    BY DEF Positions, LineAt
  <2> QED
    BY <2>2, <2>3 DEF WellFormed
<1>2. ASSUME NEW p \in Positions(Files), WellFormed(LineAt(Files, p))
      PROVE  LineAt(Files, p).hash \in Readable(Files)
  <2>1. p[1] \in DOMAIN Files /\ LineAt(Files, p) \in ToSet(Files[p[1]])
    BY PositionParts
  <2>2. LineAt(Files, p).hash \in HashesOf(Files[p[1]])
    BY <1>2, <2>1, HashesOfLines
  <2> QED
    BY <2>1, <2>2, ReadableIn
<1> QED
  BY <1>1, <1>2

\* The walk meets the records in the order they were written.
LEMMA MetInOrder ==
  ASSUME TypeOK, FilesSorted, NEW p \in Positions(Files), NEW q \in Positions(Files)
  PROVE  /\ p = q \/ Before(p, q) \/ Before(q, p)
         /\ Before(p, q) /\ WellFormed(LineAt(Files, p)) /\ WellFormed(LineAt(Files, q))
              => LineAt(Files, p).hash < LineAt(Files, q).hash
<1>1. /\ p = << p[1], p[2] >> /\ p[1] \in Nat /\ p[2] \in Nat
      /\ p[1] \in DOMAIN Files /\ p[2] \in DOMAIN Files[p[1]]
      /\ LineAt(Files, p) = Files[p[1]][p[2]]
      /\ LineAt(Files, p) \in ToSet(Files[p[1]])
  BY PositionParts
<1>2. /\ q = << q[1], q[2] >> /\ q[1] \in Nat /\ q[2] \in Nat
      /\ q[1] \in DOMAIN Files /\ q[2] \in DOMAIN Files[q[1]]
      /\ LineAt(Files, q) = Files[q[1]][q[2]]
      /\ LineAt(Files, q) \in ToSet(Files[q[1]])
  BY PositionParts
<1>3. p = q \/ Before(p, q) \/ Before(q, p)
  <2>1. CASE p[1] = q[1]
    BY <1>1, <1>2, <2>1 DEF Before
  <2>2. CASE p[1] # q[1]
    BY <1>1, <1>2, <2>2 DEF Before
  <2> QED
    BY <2>1, <2>2
<1>4. ASSUME Before(p, q), WellFormed(LineAt(Files, p)), WellFormed(LineAt(Files, q))
      PROVE  LineAt(Files, p).hash < LineAt(Files, q).hash
  <2>1. CASE p[1] < q[1]
    <3>1. /\ LineAt(Files, p).hash \in HashesOf(Files[p[1]])
          /\ LineAt(Files, q).hash \in HashesOf(Files[q[1]])
      BY <1>1, <1>2, <1>4, HashesOfLines
    <3>2. Older(Files[p[1]], Files[q[1]])
      BY <1>1, <1>2, <2>1, FilesInOrder
    <3> QED
      BY <3>1, <3>2 DEF Older
  <2>2. CASE p[1] = q[1] /\ p[2] < q[2]
    <3>1. Ascending(Files[p[1]])
      BY <1>1, FilesInOrder
    <3> QED
      BY <1>1, <1>2, <1>4, <2>2, <3>1 DEF Ascending
  <2> QED
    BY <1>4, <2>1, <2>2 DEF Before
<1> QED
  BY <1>3, <1>4

\* If a record lies before a line, the walk expects one of those before it.
LEMMA WalkExpects ==
  ASSUME TypeOK, ChainInv, FilesSorted, NEW q \in Positions(Files),
         NEW r \in Positions(Files), Before(r, q), WellFormed(LineAt(Files, r))
  PROVE  \E p \in Positions(Files) :
            /\ Before(p, q) /\ WellFormed(LineAt(Files, p))
            /\ ExpectedPrev(Files, q) = LineAt(Files, p).hash
<1> DEFINE earlier == { p \in Positions(Files) :
                          Before(p, q) /\ WellFormed(LineAt(Files, p)) }
           hashes == { LineAt(Files, p).hash : p \in earlier }
           last == CHOOSE p \in earlier : \A s \in earlier : s = p \/ Before(s, p)
<1>1. r \in earlier
  OBVIOUS
<1>2. writes \in Nat /\ \A p \in Positions(Files) : LineAt(Files, p).hash \in 0 .. writes
  BY PositionsAreOnDisk, LinesOnDisk DEF Line, TypeOK, ChainInv, PendingIsNew
<1>3. hashes \subseteq 0 .. writes /\ hashes # {}
  <2>1. \A p \in earlier : LineAt(Files, p).hash \in 0 .. writes
    BY <1>2
  <2> HIDE DEF earlier
  <2> QED
    BY <1>1, <2>1
<1>4. PICK m \in hashes : \A k \in hashes : k <= m
  <2> HIDE DEF hashes
  <2> QED
    BY <1>2, <1>3, GreatestNumber
<1>5. PICK p \in earlier : LineAt(Files, p).hash = m
  OBVIOUS
<1>6. ASSUME NEW s \in earlier
      PROVE  s = p \/ Before(s, p)
  <2>1. LineAt(Files, s).hash <= LineAt(Files, p).hash
    BY <1>4, <1>5
  <2>2. /\ s \in Positions(Files) /\ WellFormed(LineAt(Files, s))
        /\ p \in Positions(Files) /\ WellFormed(LineAt(Files, p))
        /\ LineAt(Files, s).hash \in Nat /\ LineAt(Files, p).hash \in Nat
    BY <1>2
  <2> HIDE DEF earlier, hashes
  <2> QED
    BY <2>1, <2>2, MetInOrder
<1>7. last \in earlier
  <2> HIDE DEF earlier
  <2> QED
    BY <1>5, <1>6
<1>8. ExpectedPrev(Files, q) = LineAt(Files, last).hash
  BY <1>1 DEF ExpectedPrev
<1> HIDE DEF last
<1> QED
  BY <1>7, <1>8

\* A summary with nothing broken means that nothing is missing, whatever
\* crashes, failed and torn appends and failed removals came before: what is
\* not there was pruned, or older than all that is (audit.ts: write,
\* pruneArchives; audit-reader.ts: getAuditIntegritySummary).
THEOREM CleanMeansComplete == ClockIsSteady => (Spec => []CleanLogIsComplete)
<1> SUFFICES ASSUME ClockIsSteady PROVE Spec => []CleanLogIsComplete
  OBVIOUS
<1>1. Init => OrderInv /\ TraceInv
  BY InitialOrder DEF Init, TraceInv, FragmentIsPending, FilesHaveLines, Traceable
<1>2. TypeOK /\ ChainInv /\ CursorIsStale /\ OrderInv /\ TraceInv /\ [Next]_vars
        => OrderInv' /\ TraceInv'
  BY OrderStep, TraceStep
<1>3. TypeOK /\ ChainInv /\ OrderInv /\ TraceInv => CleanLogIsComplete
  <2> SUFFICES ASSUME TypeOK, ChainInv, OrderInv, TraceInv, Broken(Files) = {},
                      NEW c \in committed, c \notin Readable(Files) \cup pruned,
                      NEW r \in Readable(Files), ~(c < r)
               PROVE  FALSE
    BY DEF CleanLogIsComplete
  <2>0. FilesSorted
    BY DEF OrderInv
  <2>1. \A p \in Positions(Files) :
          /\ WellFormed(LineAt(Files, p)) /\ LineAt(Files, p).hash \in Readable(Files)
          /\ LineAt(Files, p).hash \in Nat
          /\ LineAt(Files, p).prev = ExpectedPrev(Files, p)
    BY RecordsArePlaced, PositionsAreOnDisk, LinesOnDisk DEF Broken, Line
  <2>2. \A h \in Readable(Files) : h \in Nat /\ h # 0
    BY <2>1, RecordsArePlaced DEF WellFormed
  <2>3. c \in Nat /\ r < c
    BY <2>2 DEF TypeOK
  <2> DEFINE later == { h \in Readable(Files) : c < h }
  <2>4. later # {}
    <3>1. PICK f \in DOMAIN Files : \E l \in ToSet(Files[f]) : ~WellFormed(l) \/ l.hash > c
      BY DEF TraceInv, Traceable, Marked
    <3>2. PICK i \in DOMAIN Files[f] : ~WellFormed(Files[f][i]) \/ Files[f][i].hash > c
      BY <3>1 DEF ToSet
    <3>3. << f, i >> \in Positions(Files) /\ LineAt(Files, << f, i >>) = Files[f][i]
      BY DEF Positions, LineAt
    <3>4. Files[f][i].hash \in Readable(Files) /\ Files[f][i].hash > c
      BY <2>1, <3>2, <3>3
    <3> QED
      BY <2>2, <2>3, <3>4
  <2>5. later \subseteq Nat
    BY <2>2
  <2>6. PICK h \in later : \A k \in later : h <= k
    <3> HIDE DEF later
    <3> QED
      BY <2>4, <2>5, LeastNumber
  <2>7. PICK q \in Positions(Files) : LineAt(Files, q).hash = h
    BY RecordsArePlaced
  <2>8. PICK s \in Positions(Files) : LineAt(Files, s).hash = r
    BY RecordsArePlaced
  <2>9. Before(s, q)
    BY <2>0, <2>1, <2>2, <2>3, <2>6, <2>7, <2>8, MetInOrder
  <2>10. PICK p \in Positions(Files) :
            Before(p, q) /\ ExpectedPrev(Files, q) = LineAt(Files, p).hash
    BY <2>0, <2>1, <2>9, WalkExpects
  <2>11. LineAt(Files, p).hash < h
    BY <2>0, <2>1, <2>7, <2>10, MetInOrder
  <2>12. LineAt(Files, p).hash < c
    <3>1. LineAt(Files, p).hash \in Readable(Files) /\ LineAt(Files, p).hash # c
      BY <2>1
    <3>2. LineAt(Files, p).hash \notin later
      BY <2>2, <2>5, <2>6, <2>11, <3>1
    <3> QED
      BY <2>2, <2>3, <3>1, <3>2
  <2>13. LineAt(Files, q) \in DiskLines /\ LineAt(Files, q).prev = LineAt(Files, p).hash
    BY <2>1, <2>10, PositionsAreOnDisk
  <2>14. c <= LineAt(Files, p).hash \/ h <= c
    BY <2>1, <2>2, <2>7, <2>13 DEF ChainInv, LinesAreLinked, WellFormed
  <2> QED
    BY <2>1, <2>2, <2>3, <2>6, <2>12, <2>14
<1> QED
  BY <1>1, <1>2, <1>3, TypeCorrect, ChainCorrect, CursorCorrect, PTL DEF Spec

-----------------------------------------------------------------------------
(* The log keeps the promises of AuditTrail.                               *)

\* What an append does to the records of the active file: it adds one after a
\* newline, and takes the last one with it after a fragment.
LEMMA AppendedRecords ==
  ASSUME TypeOK, Ascending(active), NEW line \in Line
  PROVE  /\ ~torn => HashesOf(Appended(line)) = HashesOf(active) \cup ({line.hash} \ {0})
         /\ torn => HashesOf(Appended(line)) = HashesOf(active) \ {Last(active).hash}
<1>1. /\ active \in Seq(Line) /\ DOMAIN active = 1 .. Len(active) /\ Len(active) \in Nat
      /\ (torn => active # << >>)
  BY LenProperties DEF TypeOK
<1>2. CASE ~torn
  <2>1. Appended(line) = Append(active, line)
    BY <1>2 DEF Appended
  <2>2. /\ DOMAIN Appended(line) = 1 .. Len(active) + 1
        /\ Appended(line)[Len(active) + 1] = line
        /\ \A i \in 1 .. Len(active) : Appended(line)[i] = active[i]
    BY <1>1, <2>1, AppendProperties
  <2>3. ToSet(Appended(line)) \subseteq ToSet(active) \cup {line}
    BY <1>1, <2>2 DEF ToSet
  <2>4. line \in ToSet(Appended(line)) /\ ToSet(active) \subseteq ToSet(Appended(line))
    BY <1>2, AppendedKeeps
  <2>5. ToSet(Appended(line)) = ToSet(active) \cup {line}
    BY <2>3, <2>4
  <2> QED
    BY <1>2, <2>5 DEF HashesOf
<1>3. CASE torn
  <2> DEFINE n == Len(active)
  <2>1. Appended(line) = [active EXCEPT ![n] = Malformed]
    BY <1>3 DEF Appended
  <2>2. n \in 1 .. n /\ Last(active) = active[n]
    BY <1>1, <1>3 DEF Last
  <2>3. /\ DOMAIN Appended(line) = 1 .. n /\ Appended(line)[n].hash = 0
        /\ \A i \in 1 .. n : i # n => Appended(line)[i] = active[i]
    <3>1. DOMAIN active = 1 .. n
      BY <1>1
    <3> HIDE DEF n
    <3>2. DOMAIN Appended(line) = 1 .. n /\ Appended(line)[n] = Malformed
      BY <2>1, <2>2, <3>1
    <3>3. \A i \in 1 .. n : i # n => Appended(line)[i] = active[i]
      BY <2>1, <3>1
    <3>4. Malformed.hash = 0
      BY DEF Malformed
    <3> QED
      BY <3>2, <3>3, <3>4
  <2> HIDE DEF n
  <2>4. ASSUME NEW h \in HashesOf(Appended(line))
        PROVE  h \in HashesOf(active) /\ h # Last(active).hash
    <3>1. PICK i \in 1 .. n : Appended(line)[i].hash = h /\ h # 0
      BY <2>3 DEF HashesOf, ToSet
    <3>2. i # n /\ active[i].hash = h /\ i < n
      <4>1. i # n
        BY <2>3, <3>1
      <4>2. n \in Nat /\ i \in Nat /\ i <= n
        BY <1>1 DEF n
      <4> QED
        BY <2>3, <3>1, <4>1, <4>2
    <3>3. h \in HashesOf(active)
      BY <1>1, <3>1, <3>2 DEF HashesOf, ToSet, n
    <3>4. active[n].hash # 0 => active[i].hash < active[n].hash
      BY <1>1, <2>2, <3>1, <3>2 DEF Ascending, WellFormed, n
    <3>5. active[i] \in Line
      BY <1>1, ElementOfSeq DEF n
    <3>6. h \in Nat
      BY <3>2, <3>5 DEF Line
    <3> QED
      BY <2>2, <3>1, <3>2, <3>3, <3>4, <3>6
  <2>5. ASSUME NEW h \in HashesOf(active), h # Last(active).hash
        PROVE  h \in HashesOf(Appended(line))
    <3>1. PICK i \in 1 .. n : active[i].hash = h /\ h # 0
      BY <1>1, <2>5 DEF HashesOf, ToSet, n
    <3>2. Appended(line)[i].hash = h
      BY <2>2, <2>3, <2>5, <3>1
    <3> QED
      BY <2>3, <3>1, <3>2 DEF HashesOf, ToSet
  <2> QED
    BY <1>3, <2>4, <2>5
<1> QED
  BY <1>2, <1>3

\* The same for what a reader can show.
LEMMA ReadableAppended ==
  ASSUME TypeOK, FilesSorted, NEW line \in Line, active' = Appended(line), archives' = archives
  PROVE  /\ ~torn => Readable(Files') = Readable(Files) \cup ({line.hash} \ {0})
         /\ torn => Readable(Files') = Readable(Files) \ {Last(active).hash}
<1> DEFINE n == Len(archives)
<1>1. /\ n \in Nat /\ DOMAIN Files = 1 .. n + 1 /\ Files[n + 1] = active
      /\ active \in Seq(Line) /\ DOMAIN active = 1 .. Len(active) /\ Len(active) \in Nat
      /\ (torn => active # << >>) /\ torn \in BOOLEAN
  BY FilesShape, LenProperties DEF TypeOK
<1>2. /\ DOMAIN Files' = 1 .. n + 1 /\ Files'[n + 1] = Appended(line)
      /\ \A f \in 1 .. n : Files'[f] = Files[f]
  BY <1>1 DEF Files
<1> HIDE DEF n
<1>3. \A f \in 1 .. n + 1 : f \in 1 .. n \/ f = n + 1
  BY <1>1
<1>4. n + 1 \in 1 .. n + 1 /\ \A f \in 1 .. n : f \in 1 .. n + 1
  BY <1>1
<1>5. CASE ~torn
  <2>1. HashesOf(Appended(line)) = HashesOf(active) \cup ({line.hash} \ {0})
    BY <1>5, AppendedRecords DEF FilesSorted
  <2>2. ASSUME NEW h \in Readable(Files')
        PROVE  h \in Readable(Files) \cup ({line.hash} \ {0})
    <3>1. PICK f \in 1 .. n + 1 : h \in HashesOf(Files'[f])
      BY <1>2, <2>2, ReadableIn
    <3>2. CASE f \in 1 .. n
      BY <1>1, <1>2, <3>1, <3>2, ReadableIn
    <3>3. CASE f = n + 1
      BY <1>1, <1>2, <2>1, <3>1, <3>3, ReadableIn
    <3> QED
      BY <1>3, <3>2, <3>3
  <2>3. ASSUME NEW h \in Readable(Files) \cup ({line.hash} \ {0})
        PROVE  h \in Readable(Files')
    <3>1. CASE h \in {line.hash} \ {0}
      BY <1>2, <1>4, <2>1, <3>1, ReadableIn
    <3>2. CASE h \in Readable(Files)
      <4>1. PICK f \in 1 .. n + 1 : h \in HashesOf(Files[f])
        BY <1>1, <3>2, ReadableIn
      <4>2. h \in HashesOf(Files'[f])
        BY <1>1, <1>2, <1>3, <2>1, <4>1
      <4> QED
        BY <1>2, <4>2, ReadableIn
    <3> QED
      BY <2>3, <3>1, <3>2
  <2> QED
    BY <1>5, <2>2, <2>3
<1>6. CASE torn
  <2> DEFINE last == Last(active).hash
  <2>1. HashesOf(Appended(line)) = HashesOf(active) \ {last}
    BY <1>6, AppendedRecords DEF FilesSorted
  <2>2. ASSUME NEW f \in 1 .. n, NEW h \in HashesOf(Files[f])
        PROVE  h # last
    <3>1. Files[f] \in Seq(Line)
      BY <1>4, FilesShape DEF n
    <3>2. \A l \in ToSet(Files[f]) : l \in Line
      BY <3>1 DEF ToSet
    <3>3. h \in Nat /\ h # 0
      BY <3>2 DEF HashesOf, Line
    <3>4. Older(Files[f], active) /\ f < n + 1
      BY <1>1, <1>4, FilesInOrder
    <3>5. Last(active) = active[Len(active)] /\ Len(active) \in DOMAIN active
      BY <1>1, <1>6 DEF Last
    <3>6. CASE last = 0
      BY <3>3, <3>6
    <3>7. CASE last # 0
      <4>1. last \in HashesOf(active)
        BY <3>5, <3>7 DEF HashesOf, ToSet
      <4>2. h < last
        BY <3>4, <4>1 DEF Older
      <4> HIDE DEF last
      <4> QED
        BY <3>3, <4>2
    <3> QED
      BY <3>6, <3>7
  <2> HIDE DEF last
  <2>3. ASSUME NEW h \in Readable(Files')
        PROVE  h \in Readable(Files) \ {last}
    <3>1. PICK f \in 1 .. n + 1 : h \in HashesOf(Files'[f])
      BY <1>2, <2>3, ReadableIn
    <3>2. CASE f \in 1 .. n
      BY <1>1, <1>2, <2>2, <3>1, <3>2, ReadableIn
    <3>3. CASE f = n + 1
      BY <1>1, <1>2, <2>1, <3>1, <3>3, ReadableIn
    <3> QED
      BY <1>3, <3>2, <3>3
  <2>4. ASSUME NEW h \in Readable(Files), h # last
        PROVE  h \in Readable(Files')
    <3>1. PICK f \in 1 .. n + 1 : h \in HashesOf(Files[f])
      BY <1>1, ReadableIn
    <3>2. h \in HashesOf(Files'[f])
      BY <1>1, <1>2, <1>3, <2>1, <2>4, <3>1
    <3> QED
      BY <1>2, <3>2, ReadableIn
  <2>5. Readable(Files') = Readable(Files) \ {last}
    BY <2>3, <2>4
  <2> QED
    BY <1>6, <2>5 DEF last
<1> QED
  BY <1>5, <1>6

\* Everything that was written before is older than the line to append.
LEMMA PendingIsNewest ==
  ASSUME TypeOK, ChainInv, OrderInv, pc = "append"
  PROVE  /\ writes \in Nat /\ writes >= 1
         /\ entry \in Line /\ entry.hash = writes /\ Malformed \in Line /\ Malformed.hash = 0
         /\ \A x \in Readable(Files) \cup committed \cup pruned : x < writes
<1>1. /\ writes \in Nat /\ writes >= 1 /\ entry.hash = writes /\ Malformed.hash = 0
      /\ entry \in Line /\ \A c \in committed : c < writes
  BY DEF TypeOK, ChainInv, PendingIsNew, Malformed
<1>2. \A x \in pruned : x < writes
  BY DEF OrderInv, PrunedIsOld, Writing
<1>3. ASSUME NEW x \in Readable(Files)
      PROVE  x < writes
  <2>1. PICK f \in DOMAIN Files : x \in HashesOf(Files[f])
    BY <1>3, ReadableIn
  <2>2. /\ Len(archives) \in Nat /\ DOMAIN Files = 1 .. Len(archives) + 1
        /\ DOMAIN archives = 1 .. Len(archives)
        /\ \A i \in 1 .. Len(archives) : Files[i] = archives[i].lines
        /\ Files[Len(archives) + 1] = active
    BY FilesShape
  <2>3. f \in 1 .. Len(archives) \/ f = Len(archives) + 1
    BY <2>2
  <2> QED
    BY <2>1, <2>2, <2>3, HashesAreOld DEF Writing
<1> QED
  BY <1>1, <1>2, <1>3, MalformedIsLine

\* The records a reader can show have the numbers of the writes so far.
LEMMA ReadableIsWritten ==
  ASSUME TypeOK, ChainInv
  PROVE  writes \in Nat /\ Readable(Files) \subseteq 1 .. writes
<1>1. /\ Len(archives) \in Nat /\ DOMAIN Files = 1 .. Len(archives) + 1
      /\ DOMAIN archives = 1 .. Len(archives)
      /\ \A i \in 1 .. Len(archives) : Files[i] = archives[i].lines
      /\ Files[Len(archives) + 1] = active
  BY FilesShape
<1>2. ASSUME NEW x \in Readable(Files)
      PROVE  x \in 1 .. writes
  <2>1. PICK f \in DOMAIN Files : x \in HashesOf(Files[f])
    BY <1>2, ReadableIn
  <2>2. f \in 1 .. Len(archives) \/ f = Len(archives) + 1
    BY <1>1
  <2> QED
    BY <1>1, <2>1, <2>2, HashesAreOld
<1> QED
  BY <1>2, HashesAreOld

\* No write has a number beyond the bound.
WritesAreBounded == writes <= MaxWrites

LEMMA BoundStep ==
  ASSUME TypeOK, WritesAreBounded, [Next]_vars
  PROVE  WritesAreBounded'
<1>1. CASE BeginWrite
  BY <1>1, AuditAssumption DEF BeginWrite, TypeOK, WritesAreBounded
<1>2. CASE writes' = writes
  BY <1>2 DEF WritesAreBounded
<1> QED
  BY <1>1, <1>2
     DEF Next, vars, Open, Rotate, Scan, PruneOne, PruneDone, AppendOk, AppendFails,
         RotateFails, Crash

\* An append is a write of the trail; after a fragment it is glued to it.
LEMMA TrailAppend ==
  ASSUME TypeOK, ChainInv, OrderInv, FragmentIsPending, WritesAreBounded,
         pc = "append", NEW line \in {entry, Malformed}, active' = Appended(line),
         archives' = archives, pruned' = pruned,
         \/ committed' = committed
         \/ line = entry /\ committed' = committed \cup {entry.hash}
  PROVE  [Trail!Next]_Trail!tvars
<1>1. /\ writes \in Nat /\ writes >= 1
      /\ entry \in Line /\ entry.hash = writes /\ Malformed \in Line /\ Malformed.hash = 0
      /\ \A x \in Readable(Files) \cup committed \cup pruned : x < writes
  BY PendingIsNewest
<1>2. writes \in 1 .. MaxWrites
  BY <1>1, AuditAssumption DEF WritesAreBounded
<1>3. Trail!Newest(writes, Readable(Files) \cup committed \cup pruned)
  BY <1>1 DEF Trail!Newest
<1>4. committed' \in {committed, committed \cup {writes}}
  BY <1>1
<1>5. line \in Line /\ FilesSorted /\ torn \in BOOLEAN
  BY <1>1 DEF OrderInv, TypeOK
<1>6. CASE torn
  <2> DEFINE last == Last(active).hash
             lost == Readable(Files) \cap {last}
  <2>1. Readable(Files') = Readable(Files) \ {last}
    BY <1>5, <1>6, ReadableAppended
  <2>2. lost \in {{}} \cup { {x} : x \in Readable(Files) \ committed }
    <3>1. CASE last \in Readable(Files)
      <4>1. \A h \in Readable(Files) : h # 0
        BY ReadableIsWritten
      <4>2. last \notin committed
        BY <1>6, <3>1, <4>1 DEF FragmentIsPending, WellFormed
      <4> QED
        BY <3>1, <4>2
    <3>2. CASE last \notin Readable(Files)
      BY <3>2
    <3> QED
      BY <3>1, <3>2
  <2>3. ASSUME last \in Readable(Files), NEW h \in Readable(Files), h # last
        PROVE  h < last
    <3>0. last \in Nat /\ last # 0 /\ h \in Nat /\ h # 0
      BY <2>3, ReadableIsWritten
    <3>1. /\ Len(archives) \in Nat /\ DOMAIN Files = 1 .. Len(archives) + 1
          /\ Files[Len(archives) + 1] = active
      BY FilesShape
    <3>2. /\ active \in Seq(Line) /\ DOMAIN active = 1 .. Len(active)
          /\ Len(active) \in DOMAIN active /\ Last(active) = active[Len(active)]
      BY <1>6, LenProperties DEF TypeOK, Last
    <3>3. PICK f \in DOMAIN Files : h \in HashesOf(Files[f])
      BY <2>3, ReadableIn
    <3>4. last \in HashesOf(active)
      BY <3>0, <3>2 DEF HashesOf, ToSet
    <3>5. CASE f < Len(archives) + 1
      <4>1. Older(Files[f], active)
        BY <1>5, <3>1, <3>3, <3>5, FilesInOrder
      <4> QED
        BY <3>3, <3>4, <4>1 DEF Older
    <3>6. CASE f = Len(archives) + 1
      <4>1. PICK i \in DOMAIN active : active[i].hash = h
        BY <3>1, <3>3, <3>6 DEF HashesOf, ToSet
      <4>2. i < Len(active)
        BY <2>3, <3>2, <4>1
      <4> QED
        BY <1>5, <3>0, <3>2, <4>1, <4>2 DEF FilesSorted, Ascending, WellFormed
    <3> QED
      BY <3>1, <3>3, <3>5, <3>6
  <2>4. \A x \in lost : Trail!Newest(x, Readable(Files) \ lost)
    <3>1. ASSUME NEW x \in lost, NEW h \in Readable(Files) \ lost
          PROVE  h < x
      BY <2>3, <3>1
    <3> HIDE DEF lost
    <3> QED
      BY <3>1 DEF Trail!Newest
  <2>5. Readable(Files') = Readable(Files) \ lost
    BY <2>1
  <2> HIDE DEF lost
  <2>6. Trail!Glue(writes)
    BY <1>3, <1>4, <2>2, <2>4, <2>5 DEF Trail!Glue
  <2> QED
    BY <1>2, <2>6 DEF Trail!Next
<1>7. CASE ~torn /\ line.hash = 0
  <2>1. Readable(Files') = Readable(Files)
    BY <1>5, <1>7, ReadableAppended
  <2>2. committed' = committed
    BY <1>1, <1>7
  <2> QED
    BY <2>1, <2>2 DEF Trail!tvars
<1>8. CASE ~torn /\ line.hash # 0
  <2>1. line.hash = writes
    BY <1>1, <1>8
  <2>2. Readable(Files') = Readable(Files) \cup {writes}
    BY <1>5, <1>8, <2>1, ReadableAppended
  <2>3. Trail!Write(writes)
    BY <1>3, <1>4, <2>2 DEF Trail!Write
  <2> QED
    BY <1>2, <2>3 DEF Trail!Next
<1> QED
  BY <1>5, <1>6, <1>7, <1>8

\* The removal of an archive prunes consecutive records.
LEMMA TrailPrune ==
  ASSUME TypeOK, ChainInv, OrderInv, CursorIsStale, WritesAreBounded,
         PruneOne, archives' # archives
  PROVE  [Trail!Next]_Trail!tvars
<1> DEFINE n == Len(archives)
           Moved(f) == IF f < cursor THEN f ELSE f + 1
           H == HashesOf(Files[cursor])
<1>1. /\ n \in Nat /\ DOMAIN Files = 1 .. n + 1 /\ cursor \in 1 .. n
      /\ pruned' = pruned \cup H /\ committed' = committed
      /\ DOMAIN Files' = 1 .. n
      /\ \A f \in 1 .. n : Moved(f) \in 1 .. n + 1 /\ Files'[f] = Files[Moved(f)]
      /\ \A g \in 1 .. n + 1 : g # cursor => \E f \in 1 .. n : g = Moved(f)
  BY PrunedFiles
<1> HIDE DEF n
<1>2. cursor \in DOMAIN Files
  BY <1>1
<1>3. writes \in Nat /\ Readable(Files) \subseteq 1 .. writes /\ writes <= MaxWrites
  BY ReadableIsWritten DEF WritesAreBounded
<1>4. H \subseteq Readable(Files)
  BY <1>2, ReadableIn
<1>5. \A f, g \in DOMAIN Files : f < g => Older(Files[f], Files[g])
  BY FilesInOrder DEF OrderInv
<1>6. ASSUME NEW f \in DOMAIN Files, f # cursor, NEW x \in HashesOf(Files[f])
      PROVE  (\A h \in H : x < h) \/ (\A h \in H : h < x)
  <2>1. f < cursor \/ cursor < f
    BY <1>1, <1>6
  <2> QED
    BY <1>2, <1>5, <1>6, <2>1 DEF Older
<1> HIDE DEF H
<1>7. \A x \in Readable(Files) : x \notin H =>
         (\A h \in H : x < h) \/ (\A h \in H : h < x)
  BY <1>6, ReadableIn DEF H
<1>8. Readable(Files') = Readable(Files) \ H
  <2>1. ASSUME NEW x \in Readable(Files')
        PROVE  x \in Readable(Files) /\ x \notin H
    <3>1. PICK e \in 1 .. n : x \in HashesOf(Files'[e])
      BY <1>1, <2>1, ReadableIn
    <3>2. Moved(e) \in DOMAIN Files /\ Moved(e) # cursor /\ x \in HashesOf(Files[Moved(e)])
      BY <1>1, <3>1
    <3>3. x \in Readable(Files)
      BY <3>2, ReadableIn
    <3>4. x \in Nat
      BY <1>3, <3>3
    <3> QED
      BY <1>6, <3>2, <3>3, <3>4
  <2>2. ASSUME NEW x \in Readable(Files), x \notin H
        PROVE  x \in Readable(Files')
    <3>1. PICK g \in 1 .. n + 1 : x \in HashesOf(Files[g])
      BY <1>1, ReadableIn
    <3>2. g # cursor
      BY <2>2, <3>1 DEF H
    <3>3. PICK f \in 1 .. n : g = Moved(f)
      BY <1>1, <3>2
    <3>4. f \in DOMAIN Files' /\ x \in HashesOf(Files'[f])
      BY <1>1, <3>1, <3>3
    <3> QED
      BY <3>4, ReadableIn
  <2> QED
    BY <2>1, <2>2
<1>9. CASE H = {}
  BY <1>1, <1>8, <1>9 DEF Trail!tvars
<1>10. CASE H # {}
  <2>1. H \subseteq Nat /\ H \subseteq 0 .. writes
    BY <1>3, <1>4
  <2>2. PICK from \in H : \A h \in H : from <= h
    BY <1>10, <2>1, LeastNumber
  <2>3. PICK to \in H : \A h \in H : h <= to
    BY <1>3, <1>10, <2>1, GreatestNumber
  <2>4. from \in 1 .. MaxWrites /\ to \in 1 .. MaxWrites
    BY <1>3, <1>4, AuditAssumption
  <2>5. { x \in Readable(Files) : from <= x /\ x <= to } = H
    <3>1. ASSUME NEW x \in Readable(Files), from <= x, x <= to, x \notin H
          PROVE  FALSE
      <4>1. x \in Nat /\ from \in Nat /\ to \in Nat
        BY <1>3, <2>4
      <4> QED
        BY <1>7, <2>2, <2>3, <3>1, <4>1
    <3> QED
      BY <1>4, <2>2, <2>3, <3>1
  <2>6. Trail!Prune(from, to)
    BY <1>1, <1>8, <2>5 DEF Trail!Prune
  <2> QED
    BY <2>4, <2>6 DEF Trail!Next
<1> QED
  BY <1>9, <1>10

\* Rotation shows a reader nothing new and hides nothing.
LEMMA TrailRotate ==
  ASSUME TypeOK, ClockIsSteady, Rotate
  PROVE  UNCHANGED Trail!tvars
<1> DEFINE n == Len(archives)
<1>1. /\ n \in Nat /\ DOMAIN Files = 1 .. n + 1 /\ DOMAIN Files' = 1 .. n + 2
      /\ \A f \in 1 .. n + 1 : Files'[f] = Files[f]
      /\ HashesOf(Files'[n + 2]) = {}
  BY RotatedFiles
<1> HIDE DEF n
<1>2. \A f \in 1 .. n + 2 : f \in 1 .. n + 1 \/ f = n + 2
  BY <1>1
<1>3. \A f \in 1 .. n + 1 : f \in 1 .. n + 2
  BY <1>1
<1>4. \A h : h \in Readable(Files') <=> h \in Readable(Files)
  BY <1>1, <1>2, <1>3, ReadableIn
<1>5. Readable(Files') = Readable(Files)
  <2>1. \A h \in Readable(Files') : h \in Readable(Files)
    BY <1>4
  <2>2. \A h \in Readable(Files) : h \in Readable(Files')
    BY <1>4
  <2> QED
    BY <2>1, <2>2
<1> QED
  BY <1>5 DEF Trail!tvars, Rotate, ghosts

\* Every step of the log is a step of the trail or leaves it alone.
LEMMA TrailStep ==
  ASSUME TypeOK, ChainInv, CursorIsStale, OrderInv, TraceInv, WritesAreBounded,
         ClockIsSteady, [Next]_vars
  PROVE  [Trail!Next]_Trail!tvars
<1>1. CASE Rotate
  BY <1>1, TrailRotate
<1>2. CASE PruneOne /\ archives' # archives
  BY <1>2, TrailPrune
<1>3. CASE /\ archives' = archives /\ pruned' = pruned /\ committed' = committed
           /\ active' = active
  <2>1. Readable(Files)' = Readable(Files)
    BY <1>3 DEF Files, Readable, HashesOf
  <2> QED
    BY <1>3, <2>1 DEF Trail!tvars
<1>4. CASE /\ archives' = archives /\ pruned' = pruned /\ committed' = committed
           /\ pc = "append" /\ \E line \in {entry, Malformed} : active' = Appended(line)
  BY <1>4, TrailAppend DEF TraceInv
<1>5. CASE AppendOk
  <2>1. /\ pc = "append" /\ active' = Appended(entry) /\ archives' = archives
        /\ pruned' = pruned /\ committed' = committed \cup {entry.hash}
    BY <1>5 DEF AppendOk
  <2> QED
    BY <2>1, TrailAppend DEF TraceInv
<1> QED
  BY <1>1, <1>2, <1>3, <1>4, <1>5, FileSteps, CommitStep

\* The log implements the abstract trail: whatever crashes, failed and torn
\* appends and failed removals come, a record in a line that parses after its
\* success stays in one until it is pruned, records appear in the order of their writes,
\* and pruning takes consecutive ones (audit.ts: write, pruneArchives).
THEOREM TrailKept == ClockIsSteady => (Spec => KeepsTrail)
<1> SUFFICES ASSUME ClockIsSteady PROVE Spec => KeepsTrail
  OBVIOUS
<1>1. Init => Trail!Init /\ OrderInv /\ TraceInv /\ WritesAreBounded
  <2> SUFFICES ASSUME Init PROVE Trail!Init /\ OrderInv /\ TraceInv /\ WritesAreBounded
    OBVIOUS
  <2>1. OrderInv /\ TraceInv /\ WritesAreBounded
    BY InitialOrder, AuditAssumption
       DEF Init, TraceInv, FragmentIsPending, FilesHaveLines, Traceable, WritesAreBounded
  <2>2. TypeOK /\ ChainInv /\ writes = 0
    BY InitialState DEF Init
  <2>3. Readable(Files) = {}
    BY <2>2, ReadableIsWritten
  <2> QED
    BY <2>1, <2>3 DEF Init, Trail!Init
<1>2. TypeOK /\ ChainInv /\ CursorIsStale /\ OrderInv /\ TraceInv /\ WritesAreBounded
        /\ [Next]_vars
      => OrderInv' /\ TraceInv' /\ WritesAreBounded' /\ [Trail!Next]_Trail!tvars
  BY OrderStep, TraceStep, BoundStep, TrailStep
<1> QED
  BY <1>1, <1>2, TypeCorrect, ChainCorrect, CursorCorrect, PTL
     DEF Spec, KeepsTrail, Trail!Spec
=============================================================================
