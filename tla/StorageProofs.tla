--------------------------- MODULE StorageProofs ----------------------------
(***************************************************************************)
(* Proofs about what the kernel stands on, each for every value of the     *)
(* constants: the log file of the file backend, which implements           *)
(* DurableLog (FileLog), the four backends (Backends), the migration of a  *)
(* legacy data directory (Migration), the startup, serving and shutdown of *)
(* the process (Lifecycle), and the trace anchors that it keeps beside its *)
(* sessions (Anchors).                                                     *)
(***************************************************************************)
EXTENDS FileLog, Backends, Migration, Lifecycle, Anchors,
        FiniteSetTheorems, SequenceTheorems, TLAPS

-----------------------------------------------------------------------------
(* The migration.                                                          *)

\* Where migrate_if_needed is, and what it has still to write.
MigrationShape ==
    /\ legacy \subseteq Legacy
    /\ dirs \in [Ids -> [Files -> {"none", "whole", "torn"}]]
    /\ step \in {"check", "failed", "write", "version", "done"}
    /\ todo \subseteq Pending
    /\ step # "write" => todo = {}
    /\ step \in {"version", "done"} => legacy = {}
    /\ version # "none" => legacy = {}

\* What the loops have behind them is whole, whatever an earlier, cut short
\* migration left in its place.
WrittenWhole == step = "write" => \A w \in Pending \ todo : dirs[w[1]][w[2]] = "whole"

\* What a legacy file held is whole or still has its legacy file.
NothingLost ==
    \A i \in Ids, f \in Files :
        i \in Held(f) => dirs[i][f] = "whole" \/ LegacyOf(f) \in legacy

MigrationInv == MigrationShape /\ WrittenWhole /\ NothingLost

\* The migration starts where nothing is written and every legacy file that
\* holds anything has its name.
LEMMA MigrationBegins == MigrationInit => MigrationInv
BY DEF MigrationInit, MigrationInv, MigrationShape, WrittenWhole, NothingLost,
       Files, Legacy, LegacyOf, Held, Pending

\* Each write, rename and crash of the migration keeps the invariant.
LEMMA MigrationStep == MigrationInv /\ [MigrationNext]_migrationVars => MigrationInv'
<1> SUFFICES ASSUME MigrationInv, [MigrationNext]_migrationVars PROVE MigrationInv'
  OBVIOUS
<1> USE DEF MigrationInv, MigrationShape, WrittenWhole, NothingLost
<1>1. CASE ReadVersionFails \/ ReadLegacy
  BY <1>1 DEF ReadVersionFails, ReadLegacy, Pending, Ids, Held, LegacyOf, Files
<1>2. CASE WriteVersion
  BY <1>2 DEF WriteVersion, Pending, Ids, Held, LegacyOf, Files
<1>3. CASE MigrationDies
  <2>1. CASE UNCHANGED dirs
    BY <1>3, <2>1 DEF MigrationDies, Pending, Ids, Held, LegacyOf, Files
  <2>2. CASE \E w \in todo :
               dirs' = [dirs EXCEPT ![w[1]][w[2]] = "torn"] /\ UNCHANGED version
    <3>1. PICK w \in todo :
            dirs' = [dirs EXCEPT ![w[1]][w[2]] = "torn"] /\ UNCHANGED version
      BY <2>2
    <3>2. w[1] \in Ids /\ w[2] \in Files /\ LegacyOf(w[2]) \in legacy
      BY DEF Pending
    <3> QED
      BY <1>3, <3>1, <3>2 DEF MigrationDies, Pending, Ids, Held
  <2> QED
    BY <1>3, <2>1, <2>2 DEF MigrationDies
<1>4. ASSUME NEW w \in Ids \X Files, WriteFile(w) PROVE MigrationInv'
  <2>1. dirs' \in [Ids -> [Files -> {"none", "whole", "torn"}]]
    BY <1>4 DEF WriteFile
  <2>2. \A i \in Ids, f \in Files :
          dirs'[i][f] = IF i = w[1] /\ f = w[2] THEN "whole" ELSE dirs[i][f]
    BY <1>4 DEF WriteFile
  <2>3. Pending' = Pending /\ Ids' = Ids /\ (\A f : Held(f)' = Held(f))
    BY <1>4 DEF WriteFile, Pending, Ids, Held
  <2>4. WrittenWhole'
    BY <1>4, <2>2, <2>3 DEF WriteFile, Pending
  <2>5. NothingLost'
    BY <1>4, <2>2, <2>3 DEF WriteFile
  <2> QED
    BY <1>4, <2>1, <2>3, <2>4, <2>5 DEF WriteFile
<1>5. ASSUME NEW g \in Legacy, Backup(g) PROVE MigrationInv'
  <2>1. Ids' = Ids /\ (\A f : Held(f)' = Held(f)) /\ Pending' \subseteq Pending
    BY <1>5 DEF Backup, Pending, Ids, Held
  <2>2. \A i \in Ids, f \in Files :
          i \in Held(f) /\ LegacyOf(f) \in legacy => <<i, f>> \in Pending \ todo
    BY <1>5 DEF Backup, Pending
  <2>3. NothingLost'
    BY <1>5, <2>1, <2>2, ZenonT(60) DEF Backup
  <2> QED
    BY <1>5, <2>1, <2>3 DEF Backup
<1>6. CASE UNCHANGED migrationVars
  BY <1>6 DEF migrationVars, Pending, Ids, Held
<1> QED
  BY <1>1, <1>2, <1>3, <1>4, <1>5, <1>6 DEF MigrationNext

\* A migration loses nothing, for every legacy directory and every number of
\* crashes, at whichever of its writes and renames they come
\* (migrate_if_needed).
THEOREM MigrationTheorem == MigrationSpec => []MigrationComplete
<1>1. MigrationInv => MigrationComplete
  BY DEF MigrationInv, MigrationShape, NothingLost, MigrationComplete
<1> QED
  BY MigrationBegins, MigrationStep, <1>1, PTL DEF MigrationSpec

-----------------------------------------------------------------------------
(* The log file: what load_log finds.                                      *)

Chunks == [entry : Nat, part : {"whole"} \cup Cuts]

\* Where nothing is cut short, the entries are the chunks' own.
LEMMA WholeLoads ==
    ASSUME NEW f \in Seq(Chunks), \A i \in 1 .. Len(f) : f[i].part = "whole"
    PROVE  LoadLog(f) = [i \in 1 .. Len(f) |-> f[i].entry]
<1> DEFINE n == Len(f)
<1>1. n \in Nat
  OBVIOUS
<1>2. Lines(f) = 1 .. n /\ ~LoadFails(f)
  BY <1>1 DEF Lines, Parses, LoadFails
<1> HIDE DEF n
<1>3. Cardinality(1 .. n) = n
  BY <1>1, FS_Interval
<1>4. \A i \in 1 .. n : Cardinality({j \in 1 .. n : j <= i}) = i
  <2> TAKE i \in 1 .. n
  <2>1. {j \in 1 .. n : j <= i} = 1 .. i
    BY <1>1
  <2>2. Cardinality(1 .. i) = i
    BY <1>1, FS_Interval
  <2> QED
    BY <2>1, <2>2
<1>5. \A k \in 1 .. n : (CHOOSE i \in 1 .. n : Cardinality({j \in 1 .. n : j <= i}) = k) = k
  BY <1>4
<1>6. LoadLog(f) = [k \in 1 .. n |-> f[CHOOSE i \in 1 .. n : Cardinality({j \in 1 .. n : j <= i}) = k].entry]
  BY <1>2, <1>3 DEF LoadLog
<1> QED
  BY <1>5, <1>6 DEF n

\* Every line that parses is loaded, if the file is.
LEMMA LinesLoad ==
    ASSUME NEW f \in Seq(Chunks), NEW i \in Lines(f), ~LoadFails(f)
    PROVE  f[i].entry \in ToSet(LoadLog(f))
<1> DEFINE L == Lines(f)
           Upto(m) == {j \in L : j <= m}
           k == Cardinality(Upto(i))
<1>1. L \subseteq 1 .. Len(f) /\ Len(f) \in Nat
  BY DEF Lines
<1>2. IsFiniteSet(L)
  <2>1. IsFiniteSet(1 .. Len(f))
    BY <1>1, FS_Interval
  <2> QED
    BY <1>1, <2>1, FS_Subset
<1>3. \A m : IsFiniteSet(Upto(m)) /\ Cardinality(Upto(m)) \in Nat /\ Cardinality(Upto(m)) <= Cardinality(L)
  BY <1>2, FS_Subset, FS_CardinalityType
<1>4. k # 0
  <2>1. i \in Upto(i)
    BY <1>1
  <2> QED
    BY <1>3, <2>1, FS_EmptySet
<1>5. Cardinality(L) \in Nat
  BY <1>2, FS_CardinalityType
<1>6. \A a, b \in L : a < b => Cardinality(Upto(a)) # Cardinality(Upto(b))
  <2> SUFFICES ASSUME NEW a \in L, NEW b \in L, a < b
               PROVE  Cardinality(Upto(a)) # Cardinality(Upto(b))
    OBVIOUS
  <2>1. Upto(a) \subseteq Upto(b) /\ b \in Upto(b) /\ b \notin Upto(a)
    BY <1>1
  <2> QED
    BY <1>3, <2>1, FS_Subset
<1> HIDE DEF Upto, L
<1>7. k \in 1 .. Cardinality(L)
  BY <1>3, <1>4, <1>5
<1>8. \A j \in L : Cardinality(Upto(j)) = k => j = i
  BY <1>1, <1>6 DEF L
<1>9. (CHOOSE j \in L : Cardinality(Upto(j)) = k) = i
  BY <1>8 DEF L
<1> HIDE DEF k
<1>10. LoadLog(f) = [m \in 1 .. Cardinality(L) |-> f[CHOOSE j \in L : Cardinality(Upto(j)) = m].entry]
  BY DEF LoadLog, L, Upto
<1> QED
  BY <1>7, <1>9, <1>10, ZenonT(60) DEF ToSet

-----------------------------------------------------------------------------
(* The log file: its invariant.                                            *)

\* A rename that is not synced and a loss of power do not meet.
Settled == ~({"power", "compacts"} \subseteq faults)

FileShape ==
    /\ file \in Seq(Chunks) /\ next \in Nat \ {0} /\ next <= MaxEntries + 1
    /\ synced \in 0 .. Len(file)
    /\ pc.step \in {"idle", "sync", "rename", "down"}
    /\ "power" \in faults => prior = {} /\ pc.step # "rename"

\* No entry is in the file twice, and the next one is not in it.
EntriesFresh ==
    /\ \A i \in 1 .. Len(file) : file[i].entry \in 1 .. next - 1
    /\ \A i, j \in 1 .. Len(file) : file[i].entry = file[j].entry => i = j
    /\ acked \subseteq 1 .. next - 1
    /\ pc.step \in {"sync", "rename"} => pc.entry \in 1 .. next - 1

\* The entry to be synced is the last, and not acknowledged yet.
SyncLast ==
    pc.step = "sync" =>
        Len(file) # 0 /\ file[Len(file)] = Chunk(pc.entry, "whole") /\ pc.entry \notin acked

\* What was acknowledged is in the file and was not cut short, and a loss of
\* power cannot reach it.
AckedWritten ==
    \A e \in acked : \E i \in 1 .. Len(file) :
        /\ file[i] = Chunk(e, "whole")
        /\ "power" \in faults => i <= synced

\* Only a fault cuts a write short.
Torn(f) == {i \in 1 .. Len(f) : f[i].part # "whole"}

CutByFault == "torn" \notin faults => Torn(file) = {}

FileInv == FileShape /\ EntriesFresh /\ SyncLast /\ AckedWritten /\ CutByFault

\* The file begins empty.
LEMMA FileBegins == FileInit => FileInv
<1> SUFFICES ASSUME FileInit PROVE FileInv
  OBVIOUS
<1>1. file = <<>> /\ file \in Seq(Chunks) /\ Len(file) = 0 /\ 1 .. Len(file) = {}
  BY DEF FileInit
<1>2. Torn(file) = {}
  BY <1>1 DEF Torn
<1>3. 1 <= MaxEntries + 1
  BY FileLogConstants
<1>4. FileShape
  BY <1>1, <1>3 DEF FileInit, FileShape, Idle
<1>5. EntriesFresh /\ SyncLast /\ AckedWritten
  BY <1>1 DEF FileInit, EntriesFresh, SyncLast, AckedWritten, Idle
<1>6. CutByFault
  BY <1>2 DEF CutByFault
<1> QED
  BY <1>4, <1>5, <1>6 DEF FileInv

\* append_log_entry's write, whole or cut short.
LEMMA AppendKeeps ==
    ASSUME Settled, FileInv, AppendWrite \/ AppendTorn PROVE FileInv'
<1>1. PICK part \in {"whole"} \cup Cuts :
        /\ file' = Append(file, Chunk(next, part))
        /\ part # "whole" => "torn" \in faults
        /\ IF part = "whole" THEN pc' = [step |-> "sync", entry |-> next] ELSE pc' = pc
  BY DEF AppendWrite, AppendTorn, Cuts
<1>2. /\ pc = Idle /\ next' = next + 1 /\ next <= MaxEntries
      /\ faults' = faults /\ synced' = synced /\ prior' = prior /\ acked' = acked
  BY DEF AppendWrite, AppendTorn
<1>3. /\ file \in Seq(Chunks) /\ next \in Nat \ {0} /\ Len(file) \in Nat
      /\ synced \in 0 .. Len(file)
  BY DEF FileInv, FileShape
<1> DEFINE c == Chunk(next, part)
           n == Len(file)
<1>4. c \in Chunks /\ c.entry = next /\ c.part = part
  BY <1>3 DEF Chunks, Chunk
<1> HIDE DEF c
<1>5. /\ file' \in Seq(Chunks) /\ Len(file') = n + 1
      /\ \A i \in 1 .. n : file'[i] = file[i]
      /\ file'[n + 1] = c
  BY <1>1, <1>3, <1>4 DEF c
<1> HIDE DEF n
<1>6. n \in Nat /\ 1 .. n + 1 = (1 .. n) \cup {n + 1} /\ n + 1 \notin 1 .. n
  BY <1>3 DEF n
<1>7. FileShape'
  BY <1>1, <1>2, <1>3, <1>5, <1>6, FileLogConstants DEF FileInv, FileShape, Idle, n
<1>8. EntriesFresh'
  <2>1. \A i \in 1 .. n + 1 : file'[i].entry \in 1 .. next
    BY <1>3, <1>4, <1>5, <1>6 DEF FileInv, EntriesFresh, n
  <2>2. \A i, j \in 1 .. n + 1 : file'[i].entry = file'[j].entry => i = j
    <3>1. \A i \in 1 .. n : file[i].entry \in 1 .. next - 1
      BY DEF FileInv, EntriesFresh, n
    <3>2. next \notin 1 .. next - 1
      BY <1>3
    <3> QED
      BY <1>4, <1>5, <1>6, <3>1, <3>2 DEF FileInv, EntriesFresh, n
  <2>3. acked \subseteq 1 .. next /\ next \in 1 .. next
    BY <1>3 DEF FileInv, EntriesFresh
  <2>4. next' - 1 = next
    BY <1>2, <1>3
  <2> QED
    BY <1>1, <1>2, <1>5, <2>1, <2>2, <2>3, <2>4 DEF EntriesFresh, Idle
<1>9. SyncLast'
  <2>1. next \notin acked
    BY <1>3 DEF FileInv, EntriesFresh
  <2> QED
    BY <1>1, <1>2, <1>5, <1>6, <2>1 DEF SyncLast, Idle, c
<1>10. AckedWritten'
  BY <1>2, <1>5, <1>6 DEF FileInv, AckedWritten, n
<1>11. CutByFault'
  <2>1. part = "whole" => Torn(file') = Torn(file)
    BY <1>4, <1>5, <1>6 DEF Torn, n
  <2> QED
    BY <1>1, <1>2, <2>1 DEF FileInv, CutByFault
<1> QED
  BY <1>7, <1>8, <1>9, <1>10, <1>11 DEF FileInv

\* The steps that leave the file and what was acknowledged alone.
LEMMA QuietKeeps ==
    ASSUME Settled, FileInv,
           SyncFails \/ ReplaceWrite \/ ReplaceFails \/ Crash \/ Recover \/ UNCHANGED fileVars
    PROVE  FileInv'
<1>1. /\ file' = file /\ synced' = synced /\ prior' = prior /\ acked' = acked
      /\ faults' = faults
  BY DEF SyncFails, ReplaceWrite, ReplaceFails, Crash, Recover, fileVars
<1>2. next' = next \/ (next' = next + 1 /\ next <= MaxEntries)
  BY DEF SyncFails, ReplaceWrite, ReplaceFails, Crash, Recover, fileVars
<1>3. \/ pc' = pc
      \/ pc'.step \in {"idle", "down"}
      \/ pc' = [step |-> "rename", entry |-> next] /\ next' = next + 1 /\ "compacts" \in faults
  BY DEF SyncFails, ReplaceWrite, ReplaceFails, Crash, Recover, fileVars, Idle
<1>4. /\ next \in Nat \ {0} /\ next' \in Nat \ {0} /\ next' <= MaxEntries + 1
      /\ \A x \in 1 .. next - 1 : x \in 1 .. next' - 1
      /\ next' = next + 1 => next \in 1 .. next' - 1
  <2>1. next \in Nat \ {0} /\ next <= MaxEntries + 1 /\ MaxEntries \in Nat
    BY FileLogConstants DEF FileInv, FileShape
  <2>2. PICK m : m = next' /\ (m = next \/ (m = next + 1 /\ next <= MaxEntries))
    BY <1>2
  <2>3. /\ m \in Nat \ {0} /\ m <= MaxEntries + 1 /\ \A x \in 1 .. next - 1 : x \in 1 .. m - 1
        /\ m = next + 1 => next \in 1 .. m - 1
    <3>1. CASE m = next
      BY <2>1, <3>1
    <3>2. CASE m = next + 1
      <4>1. m \in Nat \ {0} /\ m - 1 = next /\ m <= MaxEntries + 1
        BY <2>1, <2>2, <3>2
      <4> QED
        BY <2>1, <3>2, <4>1
    <3> QED
      BY <2>2, <3>1, <3>2
  <2> QED
    BY <2>1, <2>2, <2>3
<1>6. FileShape'
  BY <1>1, <1>3, <1>4 DEF FileInv, FileShape, Settled
<1>7. EntriesFresh'
  <2>1. \A i \in 1 .. Len(file) : file[i].entry \in 1 .. next' - 1
    BY <1>4 DEF FileInv, EntriesFresh
  <2>2. acked \subseteq 1 .. next' - 1
    BY <1>4 DEF FileInv, EntriesFresh
  <2>3. pc'.step \in {"sync", "rename"} => pc'.entry \in 1 .. next' - 1
    <3>1. pc.step \in {"sync", "rename"} => pc.entry \in 1 .. next' - 1
      BY <1>4 DEF FileInv, EntriesFresh
    <3> QED
      BY <1>3, <1>4, <3>1
  <2> QED
    BY <1>1, <2>1, <2>2, <2>3 DEF FileInv, EntriesFresh
<1>8. SyncLast' /\ AckedWritten' /\ CutByFault'
  BY <1>1, <1>3 DEF FileInv, SyncLast, AckedWritten, CutByFault
<1> QED
  BY <1>6, <1>7, <1>8 DEF FileInv

\* sync_data, and the answer.
LEMMA SyncKeeps == ASSUME FileInv, Sync PROVE FileInv'
<1>1. /\ pc.step = "sync" /\ synced' = Len(file) /\ prior' = {} /\ acked' = acked \cup {pc.entry}
      /\ pc' = Idle /\ faults' = faults /\ file' = file /\ next' = next
  BY DEF Sync
<1>2. file \in Seq(Chunks) /\ Len(file) \in Nat
  BY DEF FileInv, FileShape
<1>3. FileShape'
  BY <1>1, <1>2 DEF FileInv, FileShape, Idle
<1>4. EntriesFresh'
  BY <1>1 DEF FileInv, EntriesFresh, Idle
<1>5. SyncLast' /\ CutByFault'
  BY <1>1 DEF FileInv, SyncLast, CutByFault, Idle
<1>6. AckedWritten'
  <2> SUFFICES ASSUME NEW e \in acked'
               PROVE  \E i \in 1 .. Len(file) : file[i] = Chunk(e, "whole") /\ i <= Len(file)
    BY <1>1 DEF AckedWritten
  <2>1. CASE e \in acked
    BY <1>2, <2>1 DEF FileInv, AckedWritten
  <2>2. CASE e = pc.entry
    <3>1. Len(file) \in 1 .. Len(file) /\ file[Len(file)] = Chunk(e, "whole")
      BY <1>1, <1>2, <2>2 DEF FileInv, SyncLast
    <3> QED
      BY <1>2, <3>1
  <2> QED
    BY <1>1, <2>1, <2>2
<1> QED
  BY <1>3, <1>4, <1>5, <1>6 DEF FileInv

\* replace_log's rename: the checkpoint is the whole file.
LEMMA RenameKeeps == ASSUME Settled, FileInv, ReplaceRename PROVE FileInv'
<1> DEFINE c == Chunk(pc.entry, "whole")
<1>1. /\ pc.step = "rename" /\ file' = <<c>> /\ synced' = 0 /\ acked' = {pc.entry}
      /\ pc' = Idle /\ faults' = faults /\ next' = next
  BY DEF ReplaceRename
<1>2. /\ next \in Nat \ {0} /\ next <= MaxEntries + 1
      /\ pc.entry \in 1 .. next - 1 /\ "power" \notin faults
  BY <1>1 DEF FileInv, FileShape, EntriesFresh
<1>3. c \in Chunks /\ c.entry = pc.entry /\ c.part = "whole"
  BY <1>2 DEF Chunks, Chunk
<1> HIDE DEF c
<1>4. file' \in Seq(Chunks) /\ Len(file') = 1 /\ file'[1] = c /\ 1 .. Len(file') = {1}
  BY <1>1, <1>3
<1>5. FileShape'
  BY <1>1, <1>2, <1>4 DEF FileShape, Idle
<1>6. EntriesFresh'
  BY <1>1, <1>2, <1>3, <1>4 DEF EntriesFresh, Idle
<1>7. SyncLast'
  BY <1>1 DEF SyncLast, Idle
<1>8. AckedWritten'
  BY <1>1, <1>2, <1>4 DEF AckedWritten, c
<1>9. CutByFault'
  BY <1>3, <1>4 DEF CutByFault, Torn
<1> QED
  BY <1>5, <1>6, <1>7, <1>8, <1>9 DEF FileInv

\* What a failure leaves of the file: a prefix g of it, whose last chunk it
\* may have cut short, that holds everything acknowledged.
LEMMA CutKeeps ==
    ASSUME FileInv, NEW n \in 0 .. Len(file),
           file' \in Seq(Chunks), Len(file') = n, pc' = [step |-> "down"],
           faults' = faults, next' = next, acked' = acked,
           \A i \in 1 .. n : file'[i].entry = file[i].entry,
           \A i \in 1 .. n : i # n => file'[i] = file[i],
           (n # 0 => file'[n] = file[n]) \/ "torn" \in faults,
           synced' \in 0 .. n,
           "power" \in faults => prior' = {},
           \A e \in acked : \E i \in 1 .. n :
               /\ file'[i] = Chunk(e, "whole")
               /\ "power" \in faults => i <= synced'
    PROVE  FileInv'
<1>1. file \in Seq(Chunks) /\ Len(file) \in Nat /\ n \in Nat /\ 1 .. n \subseteq 1 .. Len(file)
  BY DEF FileInv, FileShape
<1>2. FileShape'
  BY <1>1 DEF FileInv, FileShape
<1>3. EntriesFresh'
  BY <1>1 DEF FileInv, EntriesFresh
<1>4. SyncLast' /\ AckedWritten'
  BY DEF SyncLast, AckedWritten
<1>5. CutByFault'
  <2>1. (n # 0 => file'[n] = file[n]) => Torn(file') \subseteq Torn(file)
    BY <1>1 DEF Torn
  <2> QED
    BY <2>1 DEF FileInv, CutByFault
<1> QED
  BY <1>2, <1>3, <1>4, <1>5 DEF FileInv

\* The process dies in its write.
LEMMA CrashTornKeeps == ASSUME FileInv, CrashTorn PROVE FileInv'
<1>1. PICK part \in Cuts : file' = [file EXCEPT ![Len(file)].part = part]
  BY DEF CrashTorn
<1> DEFINE n == Len(file)
           c == [file[n] EXCEPT !.part = part]
<1>2. /\ pc.step = "sync" /\ "torn" \in faults /\ faults' = faults /\ synced' = synced /\ prior' = prior
      /\ next' = next /\ acked' = acked /\ pc' = [step |-> "down"]
  BY DEF CrashTorn
<1>3. /\ file \in Seq(Chunks) /\ n \in Nat /\ n # 0 /\ n \in 1 .. n /\ synced \in 0 .. n
      /\ "power" \in faults => prior = {}
      /\ file[n] = Chunk(pc.entry, "whole") /\ pc.entry \notin acked
  BY <1>2 DEF FileInv, FileShape, SyncLast
<1>4. c \in Chunks /\ c.entry = file[n].entry
  <2>1. file[n] \in Chunks
    BY <1>3
  <2> QED
    BY <2>1 DEF Chunks
<1>5. file' = [file EXCEPT ![n] = c]
  BY <1>1
<1> HIDE DEF c
<1>6. /\ file' \in Seq(Chunks) /\ Len(file') = n /\ file'[n] = c
      /\ \A i \in 1 .. n : i # n => file'[i] = file[i]
  BY <1>3, <1>4, <1>5
<1>7. \A e \in acked : \E i \in 1 .. n : file'[i] = Chunk(e, "whole") /\ ("power" \in faults => i <= synced)
  <2> TAKE e \in acked
  <2>1. PICK i \in 1 .. n : file[i] = Chunk(e, "whole") /\ ("power" \in faults => i <= synced)
    BY DEF FileInv, AckedWritten
  <2>2. i # n
    BY <1>3, <2>1 DEF Chunk
  <2> QED
    BY <1>6, <2>1, <2>2
<1> HIDE DEF n
<1>8. n \in 0 .. n /\ \A i \in 1 .. n : file'[i].entry = file[i].entry
  BY <1>3, <1>4, <1>6
<1> QED
  BY <1>2, <1>3, <1>6, <1>7, <1>8, CutKeeps DEF n

\* Power is lost: everything acknowledged is on stable storage.
LEMMA PowerKeeps == ASSUME Settled, FileInv, PowerLoss \/ PowerLossTorn PROVE FileInv'
<1>1. /\ "power" \in faults /\ faults' = faults /\ synced' = Len(file') /\ prior' = {}
      /\ next' = next /\ acked' = acked /\ pc' = [step |-> "down"]
  BY DEF PowerLoss, PowerLossTorn
<1>2. file \in Seq(Chunks) /\ Len(file) \in Nat /\ synced \in 0 .. Len(file) /\ prior = {}
  BY <1>1 DEF FileInv, FileShape
<1>3. \A e \in acked : \E i \in 1 .. synced : file[i] = Chunk(e, "whole")
  BY <1>1, <1>2 DEF FileInv, AckedWritten
<1>4. CASE PowerLoss
  <2>1. PICK n \in synced .. Len(file) : file' = SubSeq(file, 1, n)
    BY <1>2, <1>4 DEF PowerLoss
  <2>2. n \in 0 .. Len(file) /\ n \in Nat
    BY <1>2
  <2>3. file' \in Seq(Chunks) /\ Len(file') = n /\ \A i \in 1 .. n : file'[i] = file[i]
    BY <1>2, <2>1, <2>2
  <2>4. \A e \in acked : \E i \in 1 .. n : file'[i] = Chunk(e, "whole") /\ i <= n
    BY <1>2, <1>3, <2>2, <2>3
  <2>6. synced' \in 0 .. n /\ synced' = n
    BY <1>1, <2>2, <2>3
  <2> QED
    BY <1>1, <2>2, <2>3, <2>4, <2>6, CutKeeps
<1>5. CASE PowerLossTorn
  <2>1. PICK n \in synced + 1 .. Len(file), part \in Cuts :
            file' = Append(SubSeq(file, 1, n - 1), Chunk(file[n].entry, part))
    BY <1>5 DEF PowerLossTorn
  <2> DEFINE g == SubSeq(file, 1, n - 1)
             c == Chunk(file[n].entry, part)
  <2>2. n \in 1 .. Len(file) /\ n - 1 \in 0 .. Len(file) /\ n \in Nat /\ n - 1 \in Nat
    BY <1>2
  <2>3. g \in Seq(Chunks) /\ Len(g) = n - 1 /\ \A i \in 1 .. n - 1 : g[i] = file[i]
    BY <1>2, <2>2
  <2>4. c \in Chunks /\ c.entry = file[n].entry
    <3>1. file[n] \in Chunks
      BY <1>2, <2>2
    <3> QED
      BY <3>1 DEF Chunks, Chunk
  <2> HIDE DEF g, c
  <2>5. /\ file' \in Seq(Chunks) /\ Len(file') = n /\ file'[n] = c
        /\ \A i \in 1 .. n - 1 : file'[i] = file[i]
    BY <2>1, <2>2, <2>3, <2>4 DEF g, c
  <2>6. \A i \in 1 .. n : i # n => i \in 1 .. n - 1
    BY <2>2
  <2>7. \A e \in acked : \E i \in 1 .. n : file'[i] = Chunk(e, "whole") /\ i <= n
    <3>1. \A i \in 1 .. synced : i \in 1 .. n - 1 /\ i \in 1 .. n /\ i <= n
      BY <1>2, <2>1, <2>2
    <3> QED
      BY <1>3, <2>5, <3>1
  <2>8. "torn" \in faults
    BY <1>5 DEF PowerLossTorn
  <2>9. synced' \in 0 .. n /\ synced' = n /\ n \in 0 .. Len(file)
    BY <1>1, <2>2, <2>5
  <2>10. \A i \in 1 .. n : file'[i].entry = file[i].entry /\ (i # n => file'[i] = file[i])
    BY <2>4, <2>5, <2>6
  <2> QED
    BY <1>1, <2>5, <2>7, <2>8, <2>9, <2>10, CutKeeps
<1> QED
  BY <1>4, <1>5

\* Every step keeps the file's invariant.
LEMMA FileStep == ASSUME Settled, FileInv, [FileNext]_fileVars PROVE Settled' /\ FileInv'
<1>1. Settled'
  BY DEF Settled, FileNext, fileVars, AppendWrite, AppendTorn, Sync, SyncFails, ReplaceWrite,
         ReplaceRename, ReplaceFails, Crash, CrashTorn, PowerLoss, PowerLossTorn, Recover
<1>2. FileInv'
  BY AppendKeeps, QuietKeeps, SyncKeeps, RenameKeeps, CrashTornKeeps, PowerKeeps DEF FileNext
<1> QED
  BY <1>1, <1>2

-----------------------------------------------------------------------------
(* The log file: what it promises.                                         *)

\* An acknowledged entry of a file that can be read, if it is not loaded,
\* stands right behind a write that was cut short.
LEMMA MissingBehindTorn == ASSUME FileInv PROVE TearCost
<1> SUFFICES ASSUME NEW e \in acked, e \notin ToSet(LoadLog(file)), ~LoadFails(file)
             PROVE  \E i \in 2 .. Len(file) : file[i] = Chunk(e, "whole") /\ file[i - 1].part # "whole"
  BY DEF TearCost
<1>1. file \in Seq(Chunks) /\ Len(file) \in Nat
  BY DEF FileInv, FileShape
<1>2. PICK i \in 1 .. Len(file) : file[i] = Chunk(e, "whole")
  BY DEF FileInv, AckedWritten
<1>3. file[i].entry = e /\ file[i].part = "whole"
  BY <1>2 DEF Chunk
<1>4. i \notin Lines(file)
  BY <1>1, <1>3, LinesLoad
<1>5. i # 1 /\ file[i - 1].part # "whole"
  BY <1>3, <1>4 DEF Lines, Parses
<1>6. i \in 2 .. Len(file)
  BY <1>1, <1>5
<1> QED
  BY <1>2, <1>5, <1>6

\* The faults considered do not let a loss of power meet an unsynced rename
\* (replace_log does not sync: then nothing can be promised).
RenamesSettle == \A f \in FaultModels : ~({"power", "compacts"} \subseteq f)

\* An acknowledged entry is lost only to a write cut inside a character, which
\* makes the whole file unreadable, or to a write cut short right before it:
\* every other one is loaded again, however crashes, failed syncs,
\* compactions and losses of power interleave with the appends.
THEOREM TearTheorem == RenamesSettle /\ FileSpec => []TearCost
<1>1. RenamesSettle /\ FileInit => Settled /\ FileInv
  BY FileBegins DEF RenamesSettle, FileInit, Settled
<1>2. Settled /\ FileInv /\ [FileNext]_fileVars => Settled' /\ FileInv'
  BY FileStep
<1>3. FileInv => TearCost
  BY MissingBehindTorn
<1>4. RenamesSettle /\ FileInit /\ [][FileNext]_fileVars => [](Settled /\ FileInv)
  BY <1>1, <1>2, PTL
<1> QED
  BY <1>3, <1>4, PTL DEF FileSpec

-----------------------------------------------------------------------------
(* The file implements the log the kernel relies on.                       *)

\* Where nothing is cut short, the file is the sequence of its entries.
LEMMA IntactLoads ==
    ASSUME NEW f \in Seq(Chunks), Torn(f) = {}
    PROVE  LoadLog(f) = [i \in 1 .. Len(f) |-> f[i].entry] /\ LoadLog(f) \in Seq(Nat)
<1>1. \A i \in 1 .. Len(f) : f[i].part = "whole"
  BY DEF Torn
<1>2. \A i \in 1 .. Len(f) : f[i].entry \in Nat
  <2>1. \A i \in 1 .. Len(f) : f[i] \in Chunks
    OBVIOUS
  <2> QED
    BY <2>1 DEF Chunks
<1> QED
  BY <1>1, <1>2, WholeLoads

\* Each step of the file is a step of the abstract log, or leaves it alone.
LEMMA FileStepImplements ==
    ASSUME FileInv, FileInv', Intact, [FileNext]_fileVars
    PROVE  [Abstract!Next]_(Abstract!vars)
<1> DEFINE E == LoadLog(file)
<1>1. Intact'
  BY DEF Intact, FileNext, fileVars, AppendWrite, AppendTorn, Sync, SyncFails, ReplaceWrite,
         ReplaceRename, ReplaceFails, Crash, CrashTorn, PowerLoss, PowerLossTorn, Recover
<1>2. file \in Seq(Chunks) /\ Torn(file) = {} /\ file' \in Seq(Chunks) /\ Torn(file') = {}
  BY <1>1 DEF FileInv, FileShape, CutByFault, Intact
<1>3. /\ E = [i \in 1 .. Len(file) |-> file[i].entry] /\ E \in Seq(Nat) /\ Len(file) \in Nat
      /\ LoadLog(file') = [i \in 1 .. Len(file') |-> file'[i].entry] /\ LoadLog(file') \in Seq(Nat)
  BY <1>2, IntactLoads
<1>4. ASSUME LoadLog(file') = E, acked' = acked PROVE [Abstract!Next]_(Abstract!vars)
  BY <1>1, <1>4 DEF Abstract!vars
<1>5. CASE AppendWrite
  <2>1. next \in 1 .. MaxEntries /\ file' = Append(file, Chunk(next, "whole")) /\ acked' = acked
    BY <1>5, FileLogConstants DEF AppendWrite, FileInv, FileShape
  <2>2. Chunk(next, "whole") \in Chunks /\ Chunk(next, "whole").entry = next
    BY DEF FileInv, FileShape, Chunks, Chunk
  <2>3. /\ Len(file') = Len(file) + 1 /\ file'[Len(file) + 1].entry = next
        /\ \A i \in 1 .. Len(file) : file'[i] = file[i]
    BY <1>2, <2>1, <2>2
  <2>4. next \notin ToSet(E)
    BY <1>3 DEF ToSet, FileInv, FileShape, EntriesFresh
  <2>5. LoadLog(file') = Append(E, next)
    <3>1. Len(E) = Len(file) /\ next \in Nat
      BY <1>3 DEF FileInv, FileShape
    <3>2. \A i \in 1 .. Len(file) : E[i] = file[i].entry
      BY <1>3
    <3> HIDE DEF E
    <3>3. /\ Append(E, next) \in Seq(Nat) /\ Len(Append(E, next)) = Len(file) + 1
          /\ Append(E, next)[Len(file) + 1] = next
          /\ \A i \in 1 .. Len(file) : Append(E, next)[i] = E[i]
      BY <1>3, <3>1
    <3>4. /\ Len(LoadLog(file')) = Len(file) + 1
          /\ \A i \in 1 .. Len(file) + 1 : LoadLog(file')[i] = file'[i].entry
      BY <1>3, <2>3
    <3>5. \A i \in 1 .. Len(file) + 1 : i \in 1 .. Len(file) \/ i = Len(file) + 1
      BY <1>3
    <3>6. \A i \in 1 .. Len(file) + 1 : LoadLog(file')[i] = Append(E, next)[i]
      BY <2>3, <3>2, <3>3, <3>4, <3>5
    <3> QED
      BY <1>3, <3>3, <3>4, <3>6, SeqEqual
  <2>6. Abstract!Write
    BY <1>1, <2>1, <2>4, <2>5 DEF Abstract!Write, Abstract!ToSet, ToSet
  <2> QED
    BY <2>6 DEF Abstract!Next
<1>6. CASE Sync
  <2>1. file' = file /\ acked' = acked \cup {pc.entry}
    BY <1>6 DEF Sync
  <2>2. Len(file) \in 1 .. Len(file) /\ file[Len(file)].entry = pc.entry
    BY <1>3, <1>6 DEF Sync, FileInv, SyncLast, Chunk
  <2>3. {pc.entry} \in SUBSET ToSet(E)
    BY <1>3, <2>2 DEF ToSet
  <2>4. Abstract!Ack
    BY <1>1, <2>1, <2>3 DEF Abstract!Ack, Abstract!ToSet, ToSet
  <2> QED
    BY <2>4 DEF Abstract!Next
<1>7. CASE ReplaceRename
  <2>1. file' = <<Chunk(pc.entry, "whole")>> /\ acked' = {pc.entry}
    BY <1>7 DEF ReplaceRename
  <2>2. Len(file') = 1 /\ file'[1].entry = pc.entry
    BY <2>1 DEF Chunk
  <2>3. LoadLog(file') = <<pc.entry>>
    BY <1>3, <2>2
  <2>4. pc.entry \in 1 .. MaxEntries
    BY <1>7, FileLogConstants DEF ReplaceRename, FileInv, FileShape, EntriesFresh
  <2>5. Abstract!Replace
    BY <1>1, <2>1, <2>3, <2>4 DEF Abstract!Replace
  <2> QED
    BY <2>5 DEF Abstract!Next
<1>8. CASE SyncFails \/ ReplaceWrite \/ ReplaceFails \/ Crash \/ Recover \/ UNCHANGED fileVars
  <2>1. file' = file /\ acked' = acked
    BY <1>8 DEF SyncFails, ReplaceWrite, ReplaceFails, Crash, Recover, fileVars
  <2> QED
    BY <1>4, <2>1
<1>9. CASE AppendTorn \/ CrashTorn \/ PowerLoss \/ PowerLossTorn
  BY <1>9 DEF AppendTorn, CrashTorn, PowerLoss, PowerLossTorn, Intact
<1> QED
  BY <1>5, <1>6, <1>7, <1>8, <1>9 DEF FileNext

\* The file is a log that grows at its end and loses nothing acknowledged,
\* where no write is cut short and the power stays on: every step of
\* append_log_entry, replace_log, a crash and the recovery is one of the
\* abstract log's, or leaves it alone.  With other faults the mapping rests.
THEOREM LogTheorem == FileSpec => ImplementsDurableLog
<1>1. FileInit => Abstract!Init
  <2>1. Torn(<<>>) = {} /\ <<>> \in Seq(Chunks)
    BY DEF Torn
  <2>2. LoadLog(<<>>) = <<>>
    <3>1. LoadLog(<<>>) = [i \in 1 .. Len(<<>>) |-> <<>>[i].entry] /\ LoadLog(<<>>) \in Seq(Nat)
      BY <2>1, IntactLoads
    <3>2. 1 .. Len(<<>>) = {}
      OBVIOUS
    <3>3. DOMAIN LoadLog(<<>>) = {}
      BY <3>1, <3>2
    <3>4. Len(LoadLog(<<>>)) = 0
      BY <3>1, <3>3
    <3> QED
      BY <3>1, <3>4, EmptySeq
  <2> QED
    BY <2>2 DEF FileInit, Abstract!Init
<1>2. FileInit => (Intact => FileInv)
  BY FileBegins
<1>3. (Intact => FileInv) /\ [FileNext]_fileVars => (Intact => FileInv)'
  <2> SUFFICES ASSUME Intact => FileInv, [FileNext]_fileVars, Intact' PROVE FileInv'
    OBVIOUS
  <2>1. faults' = faults
    BY DEF FileNext, fileVars, AppendWrite, AppendTorn, Sync, SyncFails, ReplaceWrite,
           ReplaceRename, ReplaceFails, Crash, CrashTorn, PowerLoss, PowerLossTorn, Recover
  <2>2. Intact /\ Settled
    BY <2>1 DEF Intact, Settled
  <2> QED
    BY <2>2, FileStep
<1>4. (Intact => FileInv) /\ (Intact => FileInv)' /\ [FileNext]_fileVars
        => [Abstract!Next]_(Abstract!vars)
  <2> SUFFICES ASSUME Intact => FileInv, Intact' => FileInv', [FileNext]_fileVars
               PROVE  [Abstract!Next]_(Abstract!vars)
    OBVIOUS
  <2>1. Intact' <=> Intact
    BY DEF Intact, FileNext, fileVars, AppendWrite, AppendTorn, Sync, SyncFails, ReplaceWrite,
           ReplaceRename, ReplaceFails, Crash, CrashTorn, PowerLoss, PowerLossTorn, Recover
  <2>2. CASE Intact
    BY <2>1, <2>2, FileStepImplements
  <2>3. CASE ~Intact
    BY <2>1, <2>3 DEF Abstract!vars
  <2> QED
    BY <2>2, <2>3
<1> QED
  BY <1>1, <1>2, <1>3, <1>4, PTL DEF FileSpec, ImplementsDurableLog, Abstract!Spec

-----------------------------------------------------------------------------
(* The backends.                                                           *)

Entries == [type : {"SessionStart", "Checkpoint", "Message"}, revision : Nat]

Stores == [index : BOOLEAN, log : Seq(Entries), snapshot : Nat, receipt : Writers \cup {"none"}]

BackendShape ==
    /\ kind \in {"file", "rocksdb", "redis", "memory"}
    /\ store \in Stores /\ stable \in Stores
    /\ handler \in {"idle", "created", "appended"} /\ answered \in Nat
    /\ DOMAIN writer = Writers

\* A session that is known, or whose start is durable, has a log that replays
\* to what was answered; no other has a log, or was answered.
Tells(log) ==
    IF known \/ handler = "appended" THEN Replays(log) /\ Revision(log) >= answered
    ELSE log = <<>> /\ answered = 0

\* The store tells the history, and so does what RocksDB would have after a
\* loss of power, since an append syncs every write before it, though the log
\* of a deleted session may come back whole; and a session of the file
\* backend or of Redis is listed from before its log is written.
HistoryTold ==
    kind # "memory" /\ ~exposed =>
        /\ Tells(store.log)
        /\ kind = "rocksdb" =>
             IF known \/ handler = "appended"
             THEN Replays(stable.log) /\ Revision(stable.log) = Revision(store.log)
             ELSE stable.log = <<>> \/ Replays(stable.log)
        /\ kind \in {"file", "redis"} /\ (known \/ handler # "idle") => store.index
        /\ handler = "created" => ~known

\* The receipt in the store is the first, everyone who was told was told it,
\* and a writer of RocksDB that saw none holds the lock until it puts one.
ReceiptHeld ==
    /\ ~exposed => store.receipt = first
    /\ ~exposed => \A w \in Writers :
         writer[w].pc = "told" => writer[w].got = first /\ first # "none"
    /\ \A w \in Writers :
         writer[w].pc = "absent" => lock = w /\ store.receipt = "none" /\ kind = "rocksdb"

BackendInv == BackendShape /\ HistoryTold /\ ReceiptHeld

\* The revision a log replays to is a number.
LEMMA RevisionType == ASSUME NEW log \in Seq(Entries) PROVE Revision(log) \in Nat
<1>1. Len(log) \in Nat /\ (log = <<>> <=> Len(log) = 0) /\ \A i \in 1 .. Len(log) : log[i] \in Entries
  BY EmptySeq
<1>2. log # <<>> => log[Len(log)].revision \in Nat
  <2>1. log # <<>> => Len(log) \in 1 .. Len(log)
    BY <1>1
  <2> QED
    BY <1>1, <2>1 DEF Entries
<1> QED
  BY <1>2 DEF Revision, Last

\* What an append does to a log that replays, and to an empty one.
LEMMA AppendedReplays ==
    ASSUME NEW log \in Seq(Entries), NEW type \in {"SessionStart", "Message"},
           NEW e, e = [type |-> type, revision |-> Revision(log) + 1],
           log = <<>> => type = "SessionStart", log # <<>> => type = "Message" /\ Replays(log)
    PROVE  /\ Append(log, e) \in Seq(Entries) /\ Replays(Append(log, e))
           /\ Revision(Append(log, e)) = Revision(log) + 1
<1>1. Len(log) \in Nat /\ (log = <<>> <=> Len(log) = 0) /\ \A i \in 1 .. Len(log) : log[i] \in Entries
  BY EmptySeq
<1>2. Revision(log) \in Nat
  BY RevisionType
<1>3. e \in Entries /\ e.type = type /\ e.revision = Revision(log) + 1
  BY <1>2 DEF Entries
<1> DEFINE new == Append(log, e)
<1>4. /\ new \in Seq(Entries) /\ Len(new) = Len(log) + 1 /\ new[Len(log) + 1] = e
      /\ \A i \in 1 .. Len(log) : new[i] = log[i]
  BY <1>1, <1>3
<1>5. new # <<>>
  BY <1>1, <1>4, EmptySeq
<1> HIDE DEF new
<1>6. Revision(new) = Revision(log) + 1
  BY <1>3, <1>4, <1>5 DEF Revision, Last
<1>7. Replays(new)
  <2>1. CASE log = <<>>
    <3>1. Len(new) = 1 /\ new[1] = e /\ 2 .. Len(new) = {}
      BY <1>1, <1>4, <2>1
    <3> QED
      BY <1>3, <1>5, <2>1, <3>1 DEF Replays
  <2>2. CASE log # <<>>
    <3>1. 1 \in 1 .. Len(log) /\ new[1] = log[1]
      BY <1>1, <1>4, <2>2
    <3>2. ASSUME NEW i \in 2 .. Len(new) PROVE new[i].type = "Message"
      <4>1. i \in 2 .. Len(log) \/ i = Len(log) + 1
        BY <1>1, <1>4
      <4> QED
        BY <1>1, <1>3, <1>4, <2>2, <4>1 DEF Replays
    <3> QED
      BY <1>5, <2>2, <3>1, <3>2 DEF Replays
  <2> QED
    BY <2>1, <2>2
<1> QED
  BY <1>4, <1>6, <1>7 DEF new

\* What the operations of the stores do, whichever the backend.
LEMMA StoreFacts ==
    ASSUME NEW s \in Stores PROVE
      /\ s.log \in Seq(Entries) /\ s.receipt \in Writers \cup {"none"}
      /\ s.snapshot \in Nat /\ s.index \in BOOLEAN
BY DEF Stores

\* What create_session_storage writes, whatever the backend.
LEMMA CreateFacts ==
    ASSUME BackendShape, NEW w, w = CreateSessionStorage(store)
    PROVE  /\ w.s \in Stores /\ w.s.log = store.log /\ w.s.receipt = store.receipt
           /\ kind \in {"file", "redis"} => w.s.index = TRUE
<1>1. store \in Stores
  BY DEF BackendShape
<1> DEFINE new == [store EXCEPT !.index = TRUE]
<1>2. new \in Stores /\ new.log = store.log /\ new.receipt = store.receipt /\ new.index = TRUE
  BY <1>1 DEF Stores
<1> HIDE DEF new
<1>3. w.s = new \/ (w.s = store /\ kind \notin {"file", "redis"})
  BY DEF CreateSessionStorage, Unstored, Write, new
<1> QED
  BY <1>1, <1>2, <1>3

\* What append_log_entry writes: RocksDB syncs it.
LEMMA AppendFacts ==
    ASSUME BackendShape, NEW type \in {"SessionStart", "Message"},
           NEW w, w = AppendLogEntry(store, type)
    PROVE  /\ w.s \in Stores /\ w.s.receipt = store.receipt /\ w.s.index = store.index
           /\ kind # "memory" =>
                w.s.log = Append(store.log, [type |-> type, revision |-> Revision(store.log) + 1])
           /\ kind = "rocksdb" => w.durable
<1>1. store \in Stores /\ store.log \in Seq(Entries) /\ Revision(store.log) \in Nat
  BY StoreFacts, RevisionType DEF BackendShape
<1> DEFINE e == [type |-> type, revision |-> Revision(store.log) + 1]
           log == Append(store.log, e)
           new == [store EXCEPT !.log = log]
<1>2. e \in Entries
  BY <1>1 DEF Entries
<1>3. log \in Seq(Entries)
  BY <1>1, <1>2
<1>4. new = WithEntry(store, type)
  BY <1>1 DEF WithEntry, NextSeq, Stores
<1> HIDE DEF e, log
<1>5. new \in Stores /\ new.receipt = store.receipt /\ new.index = store.index /\ new.log = log
  BY <1>1, <1>3 DEF Stores
<1> HIDE DEF new
<1>6. CASE kind = "memory"
  BY <1>1, <1>6 DEF AppendLogEntry, Unstored, Write
<1>7. CASE kind # "memory"
  <2>1. w.s = new /\ (kind = "rocksdb" => w.durable)
    BY <1>4, <1>7 DEF AppendLogEntry, AppendLine, PutNextKey, PushEntry, Write, BackendShape
  <2> QED
    BY <1>5, <1>7, <2>1 DEF log, e
<1> QED
  BY <1>6, <1>7

\* save_session leaves the log and the receipt alone.
LEMMA SaveFacts ==
    ASSUME BackendShape, NEW s \in Stores, NEW revision \in Nat, NEW w, w = SaveSession(s, revision)
    PROVE  /\ w.s \in Stores /\ w.s.log = s.log /\ w.s.receipt = s.receipt /\ w.s.index = s.index
<1> DEFINE new == [s EXCEPT !.snapshot = revision]
<1>1. new \in Stores /\ new.log = s.log /\ new.receipt = s.receipt /\ new.index = s.index
  BY DEF Stores
<1> HIDE DEF new
<1>2. w.s = new \/ w.s = s
  BY DEF BackendShape, SaveSession, WriteSnapshot, PutSnapshot, SetSnapshot, Unstored, Write, new
<1> QED
  BY <1>1, <1>2

\* replace_log leaves everything but the log alone.
LEMMA ReplaceFacts ==
    ASSUME BackendShape, kind # "memory", NEW entries \in Seq(Entries),
           NEW w, w = ReplaceLog(store, entries)
    PROVE  /\ w.s \in Stores /\ w.s.log = entries
           /\ w.s.receipt = store.receipt /\ w.s.index = store.index
<1> DEFINE new == [store EXCEPT !.log = entries]
<1>1. new \in Stores /\ new.log = entries /\ new.receipt = store.receipt /\ new.index = store.index
  BY DEF Stores, BackendShape
<1> HIDE DEF new
<1>2. w.s = new
  BY DEF BackendShape, ReplaceLog, RenameOver, WriteBatch, Transaction, Write, new
<1> QED
  BY <1>1, <1>2

\* An empty store tells the empty history.
LEMMA BackendBegins == BackendInit => BackendInv
<1> SUFFICES ASSUME BackendInit PROVE BackendInv
  OBVIOUS
<1>1. Empty \in Stores /\ Empty.log = <<>> /\ Empty.receipt = "none" /\ Empty.index = FALSE
  BY DEF Empty, Stores
<1>2. BackendShape
  BY <1>1, BackendsConstants DEF BackendInit, BackendShape
<1>3. HistoryTold
  BY <1>1 DEF BackendInit, HistoryTold, Tells
<1>4. ReceiptHeld
  BY <1>1 DEF BackendInit, ReceiptHeld, Resting
<1> QED
  BY <1>2, <1>3, <1>4 DEF BackendInv

\* A step that leaves the receipt, its writers and its lock alone.
LEMMA ReceiptKept ==
    ASSUME BackendInv, store'.receipt = store.receipt, kind' = kind, exposed' = exposed,
           writer' = writer, lock' = lock, first' = first
    PROVE  ReceiptHeld'
BY DEF BackendInv, ReceiptHeld

\* process_session_start up to its commit point.
LEMMA StartKeeps ==
    ASSUME BackendInv, NEW fails \in BOOLEAN, StartCreates(fails) \/ StartAppends(fails)
    PROVE  BackendInv'
<1>1. /\ BackendShape /\ HistoryTold
      /\ kind' = kind /\ exposed' = exposed /\ writer' = writer /\ lock' = lock /\ first' = first
      /\ known' = known /\ answered' = answered
  BY DEF BackendInv, StartCreates, StartAppends
<1>2. CASE UNCHANGED <<store, stable, handler>>
  <2>1. BackendShape' /\ HistoryTold'
    BY <1>1, <1>2 DEF BackendShape, HistoryTold, Tells, Replays, Revision
  <2> QED
    BY <1>1, <1>2, <2>1, ReceiptKept DEF BackendInv
<1>3. CASE StartCreates(fails) /\ ~fails
  <2> DEFINE w == CreateSessionStorage(store)
  <2>1. store' = w.s /\ (stable' = w.s \/ stable' = stable) /\ handler' = "created" /\ ~known /\ handler = "idle"
    BY <1>3 DEF StartCreates, Perform
  <2>2. /\ w.s \in Stores /\ w.s.log = store.log /\ w.s.receipt = store.receipt
        /\ kind \in {"file", "redis"} => w.s.index = TRUE
    BY <1>1, CreateFacts
  <2> HIDE DEF w
  <2>3. BackendShape'
    BY <1>1, <2>1, <2>2 DEF BackendShape
  <2>4. HistoryTold'
    BY <1>1, <2>1, <2>2 DEF HistoryTold, Tells, Revision
  <2> QED
    BY <1>1, <2>1, <2>2, <2>3, <2>4, ReceiptKept DEF BackendInv
<1>4. CASE StartAppends(fails) /\ fails
  <2>1. store' = store /\ stable' = stable /\ handler' = "idle" /\ handler = "created"
    BY <1>4 DEF StartAppends
  <2>2. BackendShape'
    BY <1>1, <2>1 DEF BackendShape
  <2>3. HistoryTold'
    BY <1>1, <2>1 DEF HistoryTold, Tells, Revision
  <2> QED
    BY <1>1, <2>1, <2>2, <2>3, ReceiptKept DEF BackendInv
<1>5. CASE StartAppends(fails) /\ ~fails
  <2> DEFINE w == AppendLogEntry(store, "SessionStart")
             e == [type |-> "SessionStart", revision |-> Revision(store.log) + 1]
  <2>1. /\ store' = w.s /\ stable' = (IF w.durable THEN w.s ELSE stable)
        /\ handler' = "appended" /\ handler = "created"
    BY <1>5 DEF StartAppends, Perform
  <2>2. /\ w.s \in Stores /\ w.s.receipt = store.receipt /\ w.s.index = store.index
        /\ kind # "memory" => w.s.log = Append(store.log, e)
        /\ kind = "rocksdb" => w.durable
    BY <1>1, AppendFacts
  <2> HIDE DEF w
  <2>3. BackendShape'
    BY <1>1, <2>1, <2>2 DEF BackendShape
  <2>4. HistoryTold'
    <3> SUFFICES ASSUME kind # "memory", ~exposed PROVE
            /\ Replays(w.s.log) /\ Revision(w.s.log) >= answered
            /\ kind = "rocksdb" => stable' = w.s
            /\ kind \in {"file", "redis"} => w.s.index
      BY <1>1, <2>1 DEF HistoryTold, Tells
    <3>1. store.log = <<>> /\ answered = 0
      BY <1>1, <2>1 DEF HistoryTold, Tells
    <3>2. store.log \in Seq(Entries)
      BY <1>1, StoreFacts DEF BackendShape
    <3> HIDE DEF e
    <3>3. Replays(Append(store.log, e)) /\ Revision(Append(store.log, e)) = Revision(store.log) + 1
      BY <3>1, <3>2, AppendedReplays DEF e
    <3>4. Revision(store.log) \in Nat
      BY <3>2, RevisionType
    <3>5. kind = "rocksdb" => stable' = w.s
      BY <2>1, <2>2
    <3>6. kind \in {"file", "redis"} => w.s.index
      BY <1>1, <2>1, <2>2 DEF HistoryTold
    <3> QED
      BY <2>2, <3>1, <3>3, <3>4, <3>5, <3>6
  <2> QED
    BY <1>1, <2>1, <2>2, <2>3, <2>4, ReceiptKept DEF BackendInv
<1> QED
  BY <1>2, <1>3, <1>4, <1>5 DEF StartCreates, StartAppends

\* process_message's append, and the snapshot with the answer.
LEMMA MessageKeeps == ASSUME BackendInv, MessageAppends PROVE BackendInv'
<1> DEFINE w == AppendLogEntry(store, "Message")
           e == [type |-> "Message", revision |-> Revision(store.log) + 1]
<1>1. /\ BackendShape /\ HistoryTold
      /\ kind' = kind /\ exposed' = exposed /\ writer' = writer /\ lock' = lock /\ first' = first
      /\ known' = known /\ answered' = answered /\ known /\ handler = "idle" /\ handler' = "appended"
      /\ store' = w.s /\ stable' = (IF w.durable THEN w.s ELSE stable)
  BY DEF BackendInv, MessageAppends, Perform
<1>2. /\ w.s \in Stores /\ w.s.receipt = store.receipt /\ w.s.index = store.index
      /\ kind # "memory" => w.s.log = Append(store.log, e)
      /\ kind = "rocksdb" => w.durable
  BY <1>1, AppendFacts
<1> HIDE DEF w
<1>3. BackendShape'
  BY <1>1, <1>2 DEF BackendShape
<1>4. HistoryTold'
  <2> SUFFICES ASSUME kind # "memory", ~exposed PROVE
          /\ Replays(w.s.log) /\ Revision(w.s.log) >= answered
          /\ kind = "rocksdb" => stable' = w.s
          /\ kind \in {"file", "redis"} => w.s.index
    BY <1>1 DEF HistoryTold, Tells
  <2>1. Replays(store.log) /\ Revision(store.log) >= answered
    BY <1>1 DEF HistoryTold, Tells
  <2>2. store.log \in Seq(Entries) /\ store.log # <<>> /\ Revision(store.log) \in Nat
    BY <1>1, <2>1, StoreFacts, RevisionType DEF BackendShape, Replays
  <2> HIDE DEF e
  <2>3. Replays(Append(store.log, e)) /\ Revision(Append(store.log, e)) = Revision(store.log) + 1
    BY <2>1, <2>2, AppendedReplays DEF e
  <2>4. kind = "rocksdb" => stable' = w.s
    BY <1>1, <1>2
  <2>5. kind \in {"file", "redis"} => w.s.index
    BY <1>1, <1>2 DEF HistoryTold
  <2>6. answered \in Nat
    BY DEF BackendInv, BackendShape
  <2>7. Replays(w.s.log) /\ Revision(w.s.log) = Revision(store.log) + 1
    BY <1>2, <2>3
  <2>8. Revision(store.log) + 1 >= answered
    BY <2>1, <2>2, <2>6
  <2> QED
    BY <2>4, <2>5, <2>7, <2>8
<1> QED
  BY <1>1, <1>2, <1>3, <1>4, ReceiptKept DEF BackendInv

\* The snapshot behind an append, and the answer.
LEMMA SavesKeeps == ASSUME BackendInv, NEW fails \in BOOLEAN, Saves(fails) PROVE BackendInv'
<1> DEFINE w == SaveSession(store, Revision(store.log))
<1>1. /\ BackendShape /\ HistoryTold
      /\ kind' = kind /\ exposed' = exposed /\ writer' = writer /\ lock' = lock /\ first' = first
      /\ known' = TRUE /\ answered' = Revision(store.log) /\ handler = "appended" /\ handler' = "idle"
      /\ \/ store' = w.s /\ stable' = (IF w.durable THEN w.s ELSE stable)
         \/ store' = store /\ stable' = stable
  BY DEF BackendInv, Saves, Perform
<1>2. store \in Stores /\ store.log \in Seq(Entries) /\ Revision(store.log) \in Nat
  BY <1>1, StoreFacts, RevisionType DEF BackendShape
<1>3. w.s \in Stores /\ w.s.log = store.log /\ w.s.receipt = store.receipt /\ w.s.index = store.index
  BY <1>1, <1>2, SaveFacts
<1> HIDE DEF w
<1>4. /\ store' \in Stores /\ store'.log = store.log /\ store'.receipt = store.receipt
      /\ store'.index = store.index /\ (stable' = stable \/ stable' = store')
  BY <1>1, <1>2, <1>3
<1>5. BackendShape'
  BY <1>1, <1>2, <1>4 DEF BackendShape
<1>6. HistoryTold'
  <2> SUFFICES ASSUME kind # "memory", ~exposed PROVE
          /\ Replays(store.log) /\ Revision(store.log) >= Revision(store.log)
          /\ kind = "rocksdb" => /\ Replays(stable'.log) /\ Revision(stable'.log) >= Revision(store.log)
                                 /\ Revision(stable'.log) = Revision(store.log)
          /\ kind \in {"file", "redis"} => store.index
    BY <1>1, <1>4 DEF HistoryTold, Tells
  <2>1. Replays(store.log) /\ (kind \in {"file", "redis"} => store.index)
    BY <1>1 DEF HistoryTold, Tells
  <2>2. kind = "rocksdb" => Replays(stable.log) /\ Revision(stable.log) = Revision(store.log)
    BY <1>1 DEF HistoryTold, Tells
  <2>3. kind = "rocksdb" => Replays(stable'.log) /\ Revision(stable'.log) = Revision(store.log)
    BY <1>4, <2>1, <2>2
  <2> QED
    BY <1>2, <2>1, <2>3
<1> QED
  BY <1>1, <1>4, <1>5, <1>6, ReceiptKept DEF BackendInv

\* compact_session_log keeps the revision.
LEMMA CompactsKeeps == ASSUME BackendInv, CompactsLog PROVE BackendInv'
<1> DEFINE c == [type |-> "Checkpoint", revision |-> Revision(store.log)]
           w == ReplaceLog(store, <<c>>)
<1>1. /\ BackendShape /\ HistoryTold
      /\ kind' = kind /\ exposed' = exposed /\ writer' = writer /\ lock' = lock /\ first' = first
      /\ known' = known /\ answered' = answered /\ known /\ handler = "idle" /\ handler' = handler
      /\ store' = w.s /\ stable' = (IF w.durable THEN w.s ELSE stable) /\ kind # "memory"
  BY DEF BackendInv, CompactsLog, Perform
<1>2. store \in Stores /\ store.log \in Seq(Entries) /\ Revision(store.log) \in Nat
  BY <1>1, StoreFacts, RevisionType DEF BackendShape
<1>3. c \in Entries /\ c.type = "Checkpoint" /\ c.revision = Revision(store.log)
  BY <1>2 DEF Entries
<1> HIDE DEF c
<1>4. <<c>> \in Seq(Entries) /\ Len(<<c>>) = 1 /\ <<c>>[1] = c /\ <<c>> # <<>> /\ 2 .. Len(<<c>>) = {}
  BY <1>3
<1>5. Replays(<<c>>) /\ Revision(<<c>>) = Revision(store.log)
  BY <1>3, <1>4 DEF Replays, Revision, Last
<1>6. w.s \in Stores /\ w.s.log = <<c>> /\ w.s.receipt = store.receipt /\ w.s.index = store.index
  BY <1>1, <1>4, ReplaceFacts
<1> HIDE DEF w
<1>7. BackendShape'
  BY <1>1, <1>6 DEF BackendShape
<1>8. HistoryTold'
  <2> SUFFICES ASSUME ~exposed PROVE
          /\ Replays(<<c>>) /\ Revision(<<c>>) >= answered
          /\ kind = "rocksdb" => /\ Replays(stable'.log) /\ Revision(stable'.log) >= answered
                                 /\ Revision(stable'.log) = Revision(<<c>>)
          /\ kind \in {"file", "redis"} => w.s.index
    BY <1>1, <1>6 DEF HistoryTold, Tells
  <2>1. Revision(store.log) >= answered /\ (kind \in {"file", "redis"} => store.index)
    BY <1>1 DEF HistoryTold, Tells
  <2>2. kind = "rocksdb" => Replays(stable.log) /\ Revision(stable.log) = Revision(store.log)
    BY <1>1 DEF HistoryTold, Tells
  <2>3. kind = "rocksdb" => Replays(stable'.log) /\ Revision(stable'.log) = Revision(store.log)
    BY <1>1, <1>5, <1>6, <2>2
  <2> QED
    BY <1>5, <1>6, <2>1, <2>3
<1> QED
  BY <1>1, <1>6, <1>7, <1>8, ReceiptKept DEF BackendInv

\* delete_session, whole or cut.
LEMMA DeletesKeeps == ASSUME BackendInv, NEW cut \in BOOLEAN, Deletes(cut) PROVE BackendInv'
<1>1. /\ BackendShape /\ HistoryTold /\ kind # "memory" /\ kind' = kind /\ known' = FALSE /\ answered' = 0
      /\ first' = "none" /\ writer' = [w \in Writers |-> Resting] /\ handler' = handler /\ handler = "idle"
      /\ (~exposed' => ~cut /\ ~exposed) /\ (cut => kind = "redis") /\ known /\ stable' = stable
  BY DEF BackendInv, Deletes
<1>2. Empty \in Stores /\ Empty.log = <<>> /\ Empty.receipt = "none" /\ Empty.index = FALSE
  BY DEF Empty, Stores
<1> DEFINE half == [store EXCEPT !.snapshot = 0, !.log = <<>>]
<1>3. half \in Stores
  <2>1. store \in Stores /\ <<>> \in Seq(Entries) /\ 0 \in Nat
    BY <1>1 DEF BackendShape
  <2> QED
    BY <2>1 DEF Stores
<1> HIDE DEF half
<1>4. store' = (IF cut THEN half ELSE Empty)
  BY <1>1 DEF Deletes, DeleteDirectory, DeleteBatch, DeletePipeline, BackendShape, half
<1>5. BackendShape'
  BY <1>1, <1>2, <1>3, <1>4 DEF BackendShape
<1>6. HistoryTold'
  BY <1>1, <1>2, <1>4 DEF HistoryTold, Tells, Revision
<1>7. ReceiptHeld'
  BY <1>1, <1>2, <1>4 DEF ReceiptHeld, Resting
<1> QED
  BY <1>5, <1>6, <1>7 DEF BackendInv

\* A step of a writer of the receipt: the history is as it was.
LEMMA ReceiptStep ==
    ASSUME BackendInv, NEW w \in Writers,
           LookUp(w) \/ Put(w) \/ HardLink(w) \/ SetNx(w) \/ ReadWinner(w)
    PROVE  BackendInv'
<1> DEFINE new == [store EXCEPT !.receipt = w]
<1>1. BackendShape /\ HistoryTold /\ ReceiptHeld /\ store \in Stores /\ DOMAIN writer = Writers
  BY DEF BackendInv, BackendShape
<1>2. /\ new \in Stores /\ new.log = store.log /\ new.index = store.index /\ new.receipt = w
  BY <1>1 DEF Stores
<1> HIDE DEF new
<1>3. /\ kind' = kind /\ exposed' = exposed /\ known' = known /\ answered' = answered /\ handler' = handler
      /\ (store' = store /\ stable' = stable) \/ (store' = new /\ (stable' = stable \/ stable' = new))
      /\ w # "none" /\ DOMAIN writer' = Writers
  BY <1>1, BackendsConstants DEF LookUp, Put, HardLink, SetNx, StoreOrLose, ReadWinner, Perform, Write, Told, new
<1>4. BackendShape'
  BY <1>1, <1>2, <1>3 DEF BackendShape
<1>5. HistoryTold'
  <2>1. store'.log = store.log /\ store'.index = store.index
    BY <1>2, <1>3
  <2>2. stable'.log = stable.log \/ stable'.log = store.log
    BY <1>2, <1>3
  <2> QED
    BY <1>1, <1>3, <2>1, <2>2 DEF HistoryTold, Tells
<1>6. ReceiptHeld'
  <2>1. CASE LookUp(w)
    <3>1. /\ store' = store /\ first' = first /\ kind = "rocksdb" /\ lock = "none"
          /\ \/ /\ store.receipt # "none" /\ lock' = lock
                /\ writer' = [writer EXCEPT ![w] = [pc |-> "told", got |-> store.receipt]]
             \/ /\ store.receipt = "none" /\ lock' = w
                /\ writer' = [writer EXCEPT ![w] = [pc |-> "absent"]]
      BY <2>1 DEF LookUp, Told
    <3>2. \A v \in Writers : writer[v].pc # "absent"
      BY <1>1, <3>1, BackendsConstants DEF ReceiptHeld
    <3> QED
      BY <1>1, <1>3, <3>1, <3>2 DEF ReceiptHeld
  <2>2. CASE Put(w)
    <3>1. /\ writer[w].pc = "absent" /\ store' = new /\ lock' = "none"
          /\ writer' = [writer EXCEPT ![w] = [pc |-> "told", got |-> w]]
          /\ first' = (IF first = "none" THEN w ELSE first)
      BY <2>2 DEF Put, Told, Perform, Write, new
    <3>2. /\ store.receipt = "none" /\ lock = w /\ (~exposed => first = "none")
          /\ \A v \in Writers \ {w} : writer[v].pc # "absent"
          /\ ~exposed => \A v \in Writers : writer[v].pc # "told"
      BY <1>1, <3>1 DEF ReceiptHeld
    <3> QED
      BY <1>1, <1>2, <1>3, <3>1, <3>2 DEF ReceiptHeld
  <2>3. CASE HardLink(w) \/ SetNx(w)
    <3>1. /\ kind # "rocksdb" /\ lock' = lock
          /\ \/ /\ store.receipt = "none" /\ store' = new
                /\ writer' = [writer EXCEPT ![w] = [pc |-> "told", got |-> w]]
                /\ first' = (IF first = "none" THEN w ELSE first)
             \/ /\ store' = store /\ first' = first
                /\ writer' = [writer EXCEPT ![w] = [pc |-> "lost"]]
      BY <2>3 DEF HardLink, SetNx, StoreOrLose, Told, Perform, Write, new
    <3>2. \A v \in Writers : writer[v].pc # "absent"
      BY <1>1, <3>1 DEF ReceiptHeld
    <3>3. store.receipt = "none" /\ ~exposed => first = "none" /\ \A v \in Writers : writer[v].pc # "told"
      BY <1>1 DEF ReceiptHeld
    <3> QED
      BY <1>1, <1>2, <1>3, <3>1, <3>2, <3>3 DEF ReceiptHeld
  <2>4. CASE ReadWinner(w)
    <3>1. /\ store' = store /\ first' = first /\ lock' = lock /\ store.receipt # "none"
          /\ writer' = [writer EXCEPT ![w] = [pc |-> "told", got |-> store.receipt]]
      BY <2>4 DEF ReadWinner, Told
    <3> QED
      BY <1>1, <1>3, <3>1 DEF ReceiptHeld
  <2> QED
    BY <2>1, <2>2, <2>3, <2>4
<1> QED
  BY <1>4, <1>5, <1>6 DEF BackendInv

\* The process starts again over the store, or over what was stable of it.
LEMMA RestartKeeps ==
    ASSUME BackendInv, NEW left, left = store \/ (left = stable /\ kind \in {"rocksdb", "redis"}),
           Restart(left)
    PROVE  BackendInv'
<1> DEFINE w == SaveSession(left, Revision(left.log))
<1>1. /\ BackendShape /\ HistoryTold /\ ReceiptHeld /\ left \in Stores
      /\ left.log \in Seq(Entries) /\ Revision(left.log) \in Nat
  BY StoreFacts, RevisionType DEF BackendInv, BackendShape
<1>2. w.s \in Stores /\ w.s.log = left.log /\ w.s.receipt = left.receipt /\ w.s.index = left.index
  BY <1>1, SaveFacts
<1>3. /\ store' = (IF Recovered(left) THEN w.s ELSE left) /\ known' = Recovered(left)
      /\ handler' = "idle" /\ kind' = kind /\ answered' = answered /\ first' = first
      /\ stable' = (IF kind = "rocksdb" THEN left ELSE stable)
      /\ ~exposed' => /\ ~exposed /\ ~Unlisted(left) /\ left.receipt = store.receipt
                      /\ kind = "redis" => left = store
      /\ writer' = [v \in Writers |-> IF writer[v].pc = "told" THEN writer[v] ELSE Resting]
  BY DEF Restart
<1> HIDE DEF w
<1>4. /\ store' \in Stores /\ store'.log = left.log /\ store'.receipt = left.receipt
      /\ store'.index = left.index /\ stable' \in Stores /\ (kind = "rocksdb" => stable'.log = left.log)
  BY <1>1, <1>2, <1>3 DEF BackendShape
<1>5. BackendShape'
  BY <1>1, <1>3, <1>4 DEF BackendShape
<1>6. HistoryTold'
  <2> SUFFICES ASSUME kind # "memory", ~exposed' PROVE HistoryTold'
    BY <1>3 DEF HistoryTold
  <2>1. /\ Tells(left.log) \/ (kind = "rocksdb" /\ answered = 0 /\ Replays(left.log))
        /\ kind \in {"file", "redis"} => left = store
    BY <1>1, <1>3 DEF HistoryTold, BackendShape, Tells
  <2>2. CASE Replays(left.log)
    <3>1. /\ Revision(left.log) >= answered
          /\ kind \in {"file", "redis"} => known \/ handler = "appended"
      BY <1>1, <2>1, <2>2 DEF Tells, Replays
    <3>2. ListSessionIds(left)
      <4>1. kind = "rocksdb" => ListSessionIds(left)
        BY <1>3, <2>2 DEF Unlisted, Replays
      <4>2. kind \in {"file", "redis"} => left.index
        BY <1>1, <1>3, <2>1, <3>1 DEF HistoryTold
      <4> QED
        BY <1>1, <4>1, <4>2 DEF ListSessionIds, ListDirectories, ListMembers, BackendShape
    <3>3. Recovered(left)
      BY <2>2, <3>2 DEF Recovered
    <3>4. kind \in {"file", "redis"} => left.index
      BY <1>1, <1>3, <2>1, <3>1 DEF HistoryTold
    <3> QED
      BY <1>3, <1>4, <2>2, <3>1, <3>3, <3>4 DEF HistoryTold, Tells
  <2>3. CASE ~Replays(left.log)
    <3>1. left.log = <<>> /\ answered = 0
      BY <2>1, <2>3 DEF Tells
    <3>2. ~Recovered(left)
      BY <3>1 DEF Recovered, Replays
    <3> QED
      BY <1>3, <1>4, <3>1, <3>2 DEF HistoryTold, Tells, Revision
  <2> QED
    BY <2>2, <2>3
<1>7. ReceiptHeld'
  <2>1. \A v \in Writers : /\ writer'[v].pc # "absent"
                           /\ writer'[v].pc = "told" => writer'[v] = writer[v]
    BY <1>3 DEF Resting
  <2> QED
    BY <1>1, <1>3, <1>4, <2>1 DEF ReceiptHeld
<1> QED
  BY <1>5, <1>6, <1>7 DEF BackendInv

\* Every step keeps the backends' invariant.
LEMMA BackendStep == BackendInv /\ [BackendNext]_backendVars => BackendInv'
<1> SUFFICES ASSUME BackendInv, [BackendNext]_backendVars PROVE BackendInv'
  OBVIOUS
<1>1. CASE Persists
  <2>1. /\ kind = "redis" /\ stable' = store /\ store' = store /\ kind' = kind /\ known' = known
        /\ handler' = handler /\ answered' = answered /\ exposed' = exposed /\ writer' = writer
        /\ lock' = lock /\ first' = first
    BY <1>1 DEF Persists
  <2>2. BackendShape'
    BY <2>1 DEF BackendInv, BackendShape
  <2>3. HistoryTold'
    BY <2>1 DEF BackendInv, HistoryTold, Tells
  <2> QED
    BY <2>1, <2>2, <2>3, ReceiptKept DEF BackendInv
<1>2. CASE UNCHANGED backendVars
  BY <1>2 DEF backendVars, BackendInv, BackendShape, HistoryTold, Tells, ReceiptHeld
<1>3. CASE Crashes \/ StoreLost
  BY <1>3, RestartKeeps DEF Crashes, StoreLost
<1> QED
  BY <1>1, <1>2, <1>3, StartKeeps, SavesKeeps, MessageKeeps, CompactsKeeps, DeletesKeeps, ReceiptStep
  DEF BackendNext

\* Every backend keeps what it acknowledged, a history and one receipt, for
\* any number of writers, restarts and losses, outside the cases BackendKeeps
\* names.
THEOREM BackendTheorem == BackendSpec => []BackendKeeps
<1>1. BackendInv => BackendKeeps
  BY DEF BackendInv, BackendShape, HistoryTold, Tells, ReceiptHeld, BackendKeeps, HistoryKept, FirstReceiptWins
<1> QED
  BY <1>1, BackendBegins, BackendStep, PTL DEF BackendSpec

-----------------------------------------------------------------------------
(* The process.                                                            *)

ConnStates == {"free", "handshake", "idle", "stream", "request", "gone"}

ProcessShape ==
    /\ env \in Environments
    /\ phase \in {"starting", "serving", "draining", "saving", "exited"}
    /\ stage \in 1 .. 11
    /\ signals \in 0 .. 2
    /\ acceptor \in {"absent", "permit", "accept", "backoff", "closed"}
    /\ permits \in Nat
    /\ conn \in [Connections -> [binding : {"none", "http", "grpc"}, state : ConnStates]]
    /\ session \in [logged : Nat, memory : Nat, acked : Nat, saved : Nat]
    /\ holder \in Connections \cup {"nobody"}
    /\ clone \in Nat

\* The startup steps that are behind it.
Passed == \A n \in 1 .. 11 : n < stage => StageSucceeds(StartupStages[n])

Checked == \A n \in 1 .. 11 : StageSucceeds(StartupStages[n])

\* Nothing is accepted before every startup step has succeeded.
StartupInv ==
    /\ Passed
    /\ phase = "starting" => acceptor # "accept" /\ \A c \in Connections : conn[c] = Free
    /\ Running \/ (\E c \in Connections : conn[c] # Free) => Checked

\* The request under way is the one that holds the session, and the session's
\* counters differ by what it has in hand and by what dropped handlers left.
HandlerInv ==
    /\ \A c \in Connections : conn[c].state = "request" <=> holder = c
    /\ session.logged >= session.memory + (IF holder = "nobody" THEN 0 ELSE 1)
    /\ session.acked <= session.memory
    /\ session.saved <= session.memory
    /\ clone <= session.memory

\* What the final snapshot of a drained process is taken of no longer moves.
DrainInv ==
    /\ phase \in {"draining", "saving"} => signals > 0
    /\ exit = "drained" =>
        /\ phase \in {"saving", "exited"}
        /\ \A c \in Connections : conn[c].state \in {"free", "gone"}
        /\ clone = session.memory
        /\ phase = "exited" /\ ~env.memory_only => session.saved = session.memory

ProcessInv == ProcessShape /\ StartupInv /\ HandlerInv /\ DrainInv /\ PermitsConserved

\* A payload in base64 and its two quotes fit into the body's floor.
LEMMA Base64Fits ==
    ASSUME NEW n \in Nat
    PROVE  4 * ((n + 2) \div 3) <= (4 * n + 2) \div 3 + 2
OBVIOUS

\* A configuration whose every startup step succeeded is served as it is.
LEMMA CheckedServes ==
    ASSUME ProcessShape, Checked
    PROVE  /\ env.insecure \/ (Tls /\ HasConfiguredAuth)
           /\ env.fails \cap {"storage", "policies", "recovery"} = {}
           /\ env.page_default # Unset => ResolvePageSizes.default = env.page_default
           /\ HttpEnabled => \A cap \in BodyCap :
                   Base64Length(env.max_payload) <= cap + 2 - BodyOverhead
<1>1. /\ env.max_payload \in Nat /\ env.max_body \in Nat
      /\ env.page_default \in Int /\ env.page_max \in Int
      /\ BodyOverhead \in Nat /\ BuiltInMaxPage \in Nat /\ BuiltInPage \in Nat
  BY LifecycleConstants DEF ProcessShape
<1>2. /\ StageSucceeds("validate") /\ StageSucceeds("storage") /\ StageSucceeds("policies")
      /\ StageSucceeds("recovery") /\ StageSucceeds("auth") /\ StageSucceeds("tls")
  <2>1. /\ StageSucceeds(StartupStages[1]) /\ StageSucceeds(StartupStages[3])
        /\ StageSucceeds(StartupStages[4]) /\ StageSucceeds(StartupStages[6])
        /\ StageSucceeds(StartupStages[8]) /\ StageSucceeds(StartupStages[9])
    BY DEF Checked
  <2> QED
    BY <2>1 DEF StartupStages
<1>3. env.insecure \/ (Tls /\ HasConfiguredAuth)
  BY <1>2 DEF StageSucceeds
<1>4. env.fails \cap {"storage", "policies", "recovery"} = {}
  BY <1>2 DEF StageSucceeds
<1>5. env.page_default # Unset => ResolvePageSizes.default = env.page_default
  BY <1>1, <1>2 DEF StageSucceeds, EnvConfigured, PageSizesAccepted, ResolvePageSizes,
                    EffectiveMax, Positive, Unset
<1>6. ASSUME NEW cap \in BodyCap
      PROVE  Base64Length(env.max_payload) <= cap + 2 - BodyOverhead
  <2> DEFINE floor == (4 * env.max_payload + 2) \div 3 + BodyOverhead
  <2>1. floor \in Int /\ Base64Length(env.max_payload) <= floor + 2 - BodyOverhead
    BY <1>1, Base64Fits DEF Base64Length
  <2>2. BodyFloor(env.max_payload) = {floor}
    BY DEF BodyCap, BodyFloor
  <2>3. cap = floor \/ (cap = env.max_body /\ cap >= floor)
    BY <2>2 DEF BodyCap
  <2> HIDE DEF floor
  <2> QED
    BY <1>1, <2>1, <2>3 DEF Base64Length
<1> QED
  BY <1>3, <1>4, <1>5, <1>6

\* The process begins with every permit free and nothing accepted.
LEMMA ProcessBegins == LifecycleInit => ProcessInv
<1> SUFFICES ASSUME LifecycleInit PROVE ProcessInv
  OBVIOUS
<1>1. ProcessShape
  BY LifecycleConstants DEF LifecycleInit, ProcessShape, Free, ConnStates
<1>2. OpenHttp = {}
  BY DEF LifecycleInit, OpenHttp, Free
<1>3. PermitsConserved
  BY <1>1, <1>2, FS_EmptySet, LifecycleConstants DEF LifecycleInit, PermitsConserved
<1> QED
  BY <1>1, <1>3, LifecycleConstants
     DEF LifecycleInit, ProcessInv, StartupInv, HandlerInv, DrainInv, Passed, Running, Free

\* The open HTTP connections are finitely many.
LEMMA OpenHttpFinite == IsFiniteSet(OpenHttp) /\ Cardinality(OpenHttp) \in Nat
BY LifecycleConstants, FS_Subset, FS_CardinalityType DEF OpenHttp

\* What the startup checks say depends on the environment alone.
LEMMA StagesFixed ==
    ASSUME env' = env
    PROVE  \A x : StageSucceeds(x)' = StageSucceeds(x)
BY DEF StageSucceeds, EnvConfigured, PageSizesAccepted, Positive, EffectiveMax,
       HttpEnabled, HttpConfigured, BodyCap, BodyFloor, Tls, TokensReadable,
       HasConfiguredAuth, Resolvers

\* Behind startup, what it checked stays checked.
LEMMA StartupKept ==
    ASSUME StartupInv, UNCHANGED <<env, stage>>, phase' # "starting",
           (Running \/ (\E c \in Connections : conn[c] # Free))'
                => Running \/ \E c \in Connections : conn[c] # Free
    PROVE  StartupInv'
<1>1. \A x : StageSucceeds(x)' = StageSucceeds(x)
  BY StagesFixed
<1> QED
  BY <1>1 DEF StartupInv, Passed, Checked

\* The startup steps, one after the other, up to the listeners.
LEMMA StartupStep ==
    ASSUME ProcessInv, Startup
    PROVE  ProcessInv'
<1> DEFINE s == StartupStages[stage]
<1>1. ProcessShape'
  BY DEF Startup, ProcessInv, ProcessShape, StartupStages
<1>2. StartupInv'
  <2>1. \A x : StageSucceeds(x)' = StageSucceeds(x)
    BY StagesFixed DEF Startup
  <2>2. stage' # stage => stage' = stage + 1 /\ StageSucceeds(s)
    BY DEF Startup
  <2>3. Passed'
    BY <2>1, <2>2 DEF ProcessInv, ProcessShape, StartupInv, Passed
  <2>4. phase' \in {"serving", "draining", "saving"} => stage = 11 /\ StageSucceeds(s)
    BY DEF Startup, StartupStages
  <2>5. phase' \in {"serving", "draining", "saving"} => Checked'
    BY <2>1, <2>4 DEF ProcessInv, ProcessShape, StartupInv, Passed, Checked
  <2> QED
    BY <2>3, <2>5 DEF ProcessInv, StartupInv, Startup, Running, Free
<1>3. HandlerInv' /\ DrainInv'
  BY DEF Startup, ProcessInv, HandlerInv, DrainInv
<1>4. PermitsConserved'
  BY DEF Startup, ProcessInv, StartupInv, PermitsConserved, OpenHttp
<1> QED
  BY <1>1, <1>2, <1>3, <1>4 DEF ProcessInv

\* A step that neither opens nor closes an HTTP connection keeps the permits
\* if the loop's own and the free ones add up as before.
LEMMA PermitsKept ==
    ASSUME ProcessShape, PermitsConserved, env' = env, OpenHttp' = OpenHttp,
           permits' \in Nat,
           permits' + (IF acceptor' = "accept" THEN 1 ELSE 0)
             = permits + (IF acceptor = "accept" THEN 1 ELSE 0)
    PROVE  PermitsConserved'
<1> DEFINE taken == IF acceptor = "accept" THEN 1 ELSE 0
           takenNext == IF acceptor' = "accept" THEN 1 ELSE 0
<1>1. Cardinality(OpenHttp) \in Nat /\ permits \in Nat /\ taken \in Nat /\ takenNext \in Nat
      /\ permits' \in Nat /\ env.max_connections \in Nat
  BY OpenHttpFinite, LifecycleConstants DEF ProcessShape
<1>2. permits + Cardinality(OpenHttp) + taken = env.max_connections
  BY DEF PermitsConserved
<1>3. permits' + takenNext = permits + taken
  OBVIOUS
<1>4. permits' + Cardinality(OpenHttp) + takenNext = env.max_connections
  <2>1. PICK p \in Nat : p = permits'
    BY <1>1
  <2>2. PICK t \in Nat : t = takenNext
    BY <1>1
  <2>3. p + t = permits + taken
    BY <1>3, <2>1, <2>2
  <2>4. p + Cardinality(OpenHttp) + t = env.max_connections
    BY <1>1, <1>2, <2>3
  <2> QED
    BY <2>1, <2>2, <2>4
<1> QED
  BY <1>4 DEF PermitsConserved

\* The accept loop by itself: permits taken, given back, and its end.
LEMMA AcceptorStep ==
    ASSUME ProcessInv, AcquirePermit \/ AcceptFails \/ BackoffOver \/ StopListening
    PROVE  ProcessInv'
<1> USE DEF AcquirePermit, AcceptFails, BackoffOver, StopListening
<1>1. ProcessShape'
  BY DEF ProcessInv, ProcessShape, ConnStates
<1>2. \A c \in Connections :
        /\ conn'[c].binding = conn[c].binding
        /\ conn'[c].state \in {"free", "gone", "request"} <=> conn[c].state \in {"free", "gone", "request"}
        /\ conn[c].state \in {"free", "gone", "request"} => conn'[c] = conn[c]
  BY DEF ProcessInv, ProcessShape, ConnStates
<1>3. StartupInv'
  <2>1. phase' = phase /\ phase # "starting" /\ Running
    BY DEF Running
  <2> QED
    BY <2>1, StartupKept DEF ProcessInv
<1>4. HandlerInv' /\ DrainInv'
  BY <1>2 DEF ProcessInv, HandlerInv, DrainInv
<1>5. OpenHttp' = OpenHttp
  BY <1>2 DEF OpenHttp
<1>6. permits' + (IF acceptor' = "accept" THEN 1 ELSE 0)
        = permits + (IF acceptor = "accept" THEN 1 ELSE 0)
  BY DEF ProcessInv, ProcessShape
<1>7. PermitsConserved'
  BY <1>1, <1>5, <1>6, PermitsKept DEF ProcessInv, ProcessShape
<1> QED
  BY <1>1, <1>3, <1>4, <1>7 DEF ProcessInv

\* A peer connects; over HTTP, it takes the loop's permit over.
LEMMA AcceptStep ==
    ASSUME ProcessInv, NEW c \in Connections, NEW binding \in {"http", "grpc"}, Accept(c, binding)
    PROVE  ProcessInv'
<1>1. ProcessShape'
  BY DEF Accept, ProcessInv, ProcessShape, ConnStates
<1>2. StartupInv'
  BY StartupKept DEF Accept, ProcessInv, Running
<1>3. HandlerInv' /\ DrainInv'
  BY DEF Accept, ProcessInv, ProcessShape, HandlerInv, DrainInv, Free
<1>4. CASE binding = "grpc"
  <2>1. OpenHttp' = OpenHttp
    BY <1>4 DEF Accept, OpenHttp, Free, ProcessInv, ProcessShape
  <2> QED
    BY <1>1, <1>2, <1>3, <1>4, <2>1, PermitsKept DEF Accept, ProcessInv, ProcessShape
<1>5. CASE binding = "http"
  <2>1. OpenHttp' = OpenHttp \cup {c} /\ c \notin OpenHttp
    BY <1>5 DEF Accept, OpenHttp, Free, ProcessInv, ProcessShape
  <2>2. Cardinality(OpenHttp') = Cardinality(OpenHttp) + 1 /\ Cardinality(OpenHttp) \in Nat
    BY <2>1, OpenHttpFinite, FS_AddElement
  <2>3. PermitsConserved'
    BY <1>5, <2>2 DEF Accept, PermitsConserved, ProcessInv, ProcessShape
  <2> QED
    BY <1>1, <1>2, <1>3, <2>3 DEF ProcessInv
<1> QED
  BY <1>4, <1>5

\* A connection moves between handshake, idle and stream.
LEMMA ConnectionStep ==
    ASSUME ProcessInv, NEW c \in Connections, Established(c) \/ Subscribes(c)
    PROVE  ProcessInv'
<1> USE DEF Established, Subscribes
<1>1. ProcessShape'
  BY DEF ProcessInv, ProcessShape, ConnStates
<1>2. /\ conn[c].state \in {"handshake", "idle"}
      /\ conn' = [conn EXCEPT ![c].state = conn'[c].state]
      /\ conn'[c].state \in {"idle", "stream"}
  BY DEF ProcessInv, ProcessShape
<1>3. StartupInv'
  BY StartupKept DEF ProcessInv, Running
<1>4. HandlerInv' /\ DrainInv'
  BY <1>2 DEF ProcessInv, ProcessShape, HandlerInv, DrainInv
<1>5. OpenHttp' = OpenHttp
  BY <1>2 DEF OpenHttp, ProcessInv, ProcessShape
<1>6. PermitsConserved'
  BY <1>5, PermitsKept DEF ProcessInv, ProcessShape
<1> QED
  BY <1>1, <1>3, <1>4, <1>6 DEF ProcessInv

\* A request takes the session and logs its message.
LEMMA CommitsStep ==
    ASSUME ProcessInv, NEW c \in Connections, Commits(c)
    PROVE  ProcessInv'
<1>1. ProcessShape'
  BY DEF Commits, ProcessInv, ProcessShape, ConnStates
<1>2. StartupInv'
  BY StartupKept DEF Commits, ProcessInv, Running
<1>3. HandlerInv' /\ DrainInv'
  BY LifecycleConstants DEF Commits, ProcessInv, ProcessShape, HandlerInv, DrainInv
<1>4. OpenHttp' = OpenHttp
  BY DEF Commits, OpenHttp, ProcessInv, ProcessShape
<1>5. PermitsConserved'
  BY <1>4, PermitsKept DEF Commits, ProcessInv, ProcessShape
<1> QED
  BY <1>1, <1>2, <1>3, <1>5 DEF ProcessInv

\* A request releases the session with what it logged in memory.
LEMMA AnswersStep ==
    ASSUME ProcessInv, NEW c \in Connections, NEW saves \in BOOLEAN, Answers(c, saves)
    PROVE  ProcessInv'
<1>1. /\ conn[c].state = "request" /\ conn' = [conn EXCEPT ![c].state = "idle"]
      /\ holder = c /\ holder' = "nobody" /\ holder # "nobody"
      /\ UNCHANGED <<env, phase, stage, exit, signals, acceptor, permits, clone>>
  BY LifecycleConstants DEF Answers, ProcessInv, HandlerInv
<1>2. /\ session' \in [logged : Nat, memory : Nat, acked : Nat, saved : Nat]
      /\ session'.logged = session.logged
      /\ session'.memory = session.memory + 1
      /\ session'.acked = session.memory + 1
      /\ session'.saved \in {session.saved, session.memory + 1}
  <2>1. session.memory + 1 \in Nat
    BY DEF ProcessInv, ProcessShape
  <2>2. CASE saves
    <3>1. session' = [session EXCEPT !.memory = session.memory + 1, !.acked = session.memory + 1,
                                     !.saved = session.memory + 1]
      BY <2>2 DEF Answers
    <3> QED
      BY <2>1, <3>1 DEF ProcessInv, ProcessShape
  <2>3. CASE ~saves
    <3>1. session' = [session EXCEPT !.memory = session.memory + 1, !.acked = session.memory + 1,
                                     !.saved = session.saved]
      BY <2>3 DEF Answers
    <3> QED
      BY <2>1, <3>1 DEF ProcessInv, ProcessShape
  <2> QED
    BY <2>2, <2>3
<1>3. ProcessShape'
  BY <1>1, <1>2 DEF ProcessInv, ProcessShape, ConnStates
<1>4. StartupInv'
  BY StartupKept DEF Answers, ProcessInv, Running
<1>5. HandlerInv' /\ DrainInv'
  <2>1. \A d \in Connections : conn'[d].state = "request" <=> holder' = d
    BY <1>1, LifecycleConstants DEF ProcessInv, ProcessShape, HandlerInv
  <2>2. /\ session'.logged >= session'.memory /\ session'.acked = session'.memory
        /\ session'.memory \in Nat
        /\ session'.saved <= session'.memory /\ clone' <= session'.memory
    BY <1>1, <1>2 DEF ProcessInv, ProcessShape, HandlerInv
  <2>3. HandlerInv'
    BY <1>1, <1>2, <2>1, <2>2 DEF HandlerInv
  <2>4. exit # "drained"
    BY <1>1 DEF ProcessInv, DrainInv
  <2> QED
    BY <1>1, <2>3, <2>4 DEF ProcessInv, DrainInv
<1>6. OpenHttp' = OpenHttp
  BY <1>1 DEF OpenHttp, ProcessInv, ProcessShape
<1>7. PermitsConserved'
  BY <1>1, <1>6, PermitsKept DEF ProcessInv, ProcessShape
<1> QED
  BY <1>3, <1>4, <1>5, <1>7 DEF ProcessInv

\* A request is dropped: its session is free, and its connection's permit
\* returns if the peer is gone.
LEMMA DropsStep ==
    ASSUME ProcessInv, NEW c \in Connections, NEW applied \in BOOLEAN, NEW gone \in BOOLEAN,
           Drops(c, applied, gone)
    PROVE  ProcessInv'
<1> DEFINE s == IF gone THEN "gone" ELSE "idle"
<1>1. /\ conn[c].state = "request" /\ conn' = [conn EXCEPT ![c].state = s]
      /\ holder = c /\ holder' = "nobody" /\ holder # "nobody" /\ Running
      /\ UNCHANGED <<env, phase, stage, exit, signals, acceptor, clone>>
      /\ permits' = (IF gone /\ conn[c].binding = "http" THEN permits + 1 ELSE permits)
  BY LifecycleConstants DEF Drops, ProcessInv, HandlerInv
<1>2. /\ session' \in [logged : Nat, memory : Nat, acked : Nat, saved : Nat]
      /\ session'.logged = session.logged /\ session'.acked = session.acked
      /\ session'.saved = session.saved
      /\ session'.memory \in {session.memory, session.memory + 1}
  <2>1. session \in [logged : Nat, memory : Nat, acked : Nat, saved : Nat]
    BY DEF ProcessInv, ProcessShape
  <2>2. session' = session \/ session' = [session EXCEPT !.memory = session.memory + 1]
    BY DEF Drops
  <2> QED
    BY <2>1, <2>2
<1>3. s \in ConnStates \ {"request", "free"}
  BY DEF ConnStates
<1> HIDE DEF s
<1>4. /\ conn' \in [Connections -> [binding : {"none", "http", "grpc"}, state : ConnStates]]
      /\ \A d \in Connections : conn'[d].binding = conn[d].binding
      /\ \A d \in Connections : conn'[d].state = IF d = c THEN s ELSE conn[d].state
  BY <1>1, <1>3 DEF ProcessInv, ProcessShape
<1>5. ProcessShape'
  BY <1>1, <1>2, <1>4 DEF ProcessInv, ProcessShape
<1>6. StartupInv'
  BY <1>1, StartupKept DEF ProcessInv, Running
<1>7. HandlerInv' /\ DrainInv'
  <2>1. \A d \in Connections : conn'[d].state = "request" <=> holder' = d
    BY <1>1, <1>3, <1>4, LifecycleConstants DEF ProcessInv, HandlerInv
  <2>2. /\ session'.logged >= session'.memory /\ session'.acked <= session'.memory
        /\ session'.saved <= session'.memory /\ clone' <= session'.memory
        /\ session'.memory \in Nat
    BY <1>1, <1>2 DEF ProcessInv, ProcessShape, HandlerInv
  <2>3. HandlerInv'
    BY <1>1, <1>2, <2>1, <2>2 DEF HandlerInv
  <2>4. exit # "drained"
    BY <1>1 DEF ProcessInv, DrainInv
  <2> QED
    BY <1>1, <2>3, <2>4 DEF ProcessInv, DrainInv
<1>8. PermitsConserved'
  <2>1. CASE gone /\ conn[c].binding = "http"
    <3>1. OpenHttp' = OpenHttp \ {c} /\ c \in OpenHttp
      BY <1>1, <1>4, <2>1 DEF OpenHttp, s
    <3>2. Cardinality(OpenHttp') = Cardinality(OpenHttp) - 1 /\ Cardinality(OpenHttp) \in Nat
      BY <3>1, OpenHttpFinite, FS_RemoveElement
    <3> QED
      BY <1>1, <2>1, <3>2 DEF PermitsConserved, ProcessInv, ProcessShape
  <2>2. CASE ~(gone /\ conn[c].binding = "http")
    <3>1. OpenHttp' = OpenHttp
      BY <1>1, <1>4, <2>2 DEF OpenHttp, s
    <3> QED
      BY <1>1, <2>2, <3>1, PermitsKept DEF ProcessInv, ProcessShape
  <2> QED
    BY <2>1, <2>2
<1> QED
  BY <1>5, <1>6, <1>7, <1>8 DEF ProcessInv

\* A connection closes, and its permit returns.
LEMMA ClosesStep ==
    ASSUME ProcessInv, NEW c \in Connections, Closes(c)
    PROVE  ProcessInv'
<1>1. ProcessShape'
  BY DEF Closes, ProcessInv, ProcessShape, ConnStates
<1>2. StartupInv'
  BY StartupKept DEF Closes, ProcessInv, Running
<1>3. HandlerInv' /\ DrainInv'
  BY DEF Closes, ProcessInv, ProcessShape, HandlerInv, DrainInv
<1>4. CASE conn[c].binding # "http"
  <2>1. OpenHttp' = OpenHttp
    BY <1>4 DEF Closes, OpenHttp, ProcessInv, ProcessShape
  <2> QED
    BY <1>1, <1>2, <1>3, <1>4, <2>1, PermitsKept DEF Closes, ProcessInv, ProcessShape
<1>5. CASE conn[c].binding = "http"
  <2>1. OpenHttp' = OpenHttp \ {c} /\ c \in OpenHttp
    BY <1>5 DEF Closes, OpenHttp, ProcessInv, ProcessShape
  <2>2. Cardinality(OpenHttp') = Cardinality(OpenHttp) - 1 /\ Cardinality(OpenHttp) \in Nat
    BY <2>1, OpenHttpFinite, FS_RemoveElement
  <2>3. PermitsConserved'
    BY <1>5, <2>2 DEF Closes, PermitsConserved, ProcessInv, ProcessShape
  <2> QED
    BY <1>1, <1>2, <1>3, <2>3 DEF ProcessInv
<1> QED
  BY <1>4, <1>5

\* The signals, the end of the drain, and its deadline.
LEMMA ShutdownStep ==
    ASSUME ProcessInv, Signal \/ Drained \/ Deadline
    PROVE  ProcessInv'
<1>1. /\ UNCHANGED <<env, stage, acceptor, permits, conn, session, holder>>
      /\ Running /\ phase' \in {"draining", "saving", "exited"}
      /\ clone' \in {clone, session.memory}
  BY DEF Signal, Drained, Deadline, Running
<1>2. ProcessShape' /\ HandlerInv'
  <2>1. signals' \in 0 .. 2 /\ clone' \in Nat /\ clone' <= session.memory
    <3>1. CASE Signal
      <4>1. signals' = signals + 1 /\ signals < 2 /\ signals \in 0 .. 2 /\ clone' = clone
        BY <3>1 DEF Signal, ProcessInv, ProcessShape
      <4> QED
        BY <4>1 DEF ProcessInv, ProcessShape, HandlerInv
    <3>2. CASE Drained \/ Deadline
      BY <3>2 DEF Drained, Deadline, ProcessInv, ProcessShape
    <3> QED
      BY <3>1, <3>2
  <2> QED
    BY <1>1, <2>1 DEF ProcessInv, ProcessShape, HandlerInv
<1>3. StartupInv'
  BY <1>1, StartupKept DEF ProcessInv
<1>4. DrainInv'
  <2>1. CASE Signal
    <3>1. signals \in 0 .. 2 /\ signals' = signals + 1 /\ UNCHANGED <<env, conn, session, clone>>
      BY <2>1 DEF Signal, ProcessInv, ProcessShape
    <3>2. signals' > 0
      BY <3>1
    <3>3. exit' = "drained" => signals = 0 /\ exit = "drained" /\ phase' = "draining"
      BY <2>1 DEF Signal
    <3>4. signals = 0 => ~(signals > 0)
      OBVIOUS
    <3>5. exit' # "drained"
      BY <2>1, <3>3, <3>4 DEF Signal, ProcessInv, DrainInv, Running
    <3> QED
      BY <3>2, <3>5 DEF DrainInv
  <2>2. CASE Drained
    BY <2>2 DEF Drained, ProcessInv, ProcessShape, DrainInv, AllDrained
  <2>3. CASE Deadline
    BY <2>3 DEF Deadline, ProcessInv, ProcessShape, DrainInv
  <2> QED
    BY <2>1, <2>2, <2>3
<1>5. PermitsConserved'
  BY <1>1 DEF ProcessInv, PermitsConserved, OpenHttp
<1> QED
  BY <1>2, <1>3, <1>4, <1>5 DEF ProcessInv

\* The final snapshot, of what memory held when the drain ended.
LEMMA FinalSnapshotStep ==
    ASSUME ProcessInv, NEW saves \in BOOLEAN, FinalSnapshot(saves)
    PROVE  ProcessInv'
<1>1. /\ session' \in [logged : Nat, memory : Nat, acked : Nat, saved : Nat]
      /\ session'.logged = session.logged /\ session'.memory = session.memory
      /\ session'.acked = session.acked
      /\ session'.saved \in {session.saved, clone}
  BY DEF FinalSnapshot, ProcessInv, ProcessShape
<1>2. exit' = "drained" /\ ~env.memory_only => session'.saved = clone /\ exit = "drained"
  <2>1. CASE saves
    BY <2>1 DEF FinalSnapshot, ProcessInv, ProcessShape
  <2>2. CASE ~saves
    BY <2>2 DEF FinalSnapshot
  <2> QED
    BY <2>1, <2>2
<1>3. exit' = "drained" => exit = "drained"
  BY DEF FinalSnapshot
<1>4. /\ phase = "saving" /\ phase' = "exited"
      /\ UNCHANGED <<env, stage, signals, acceptor, permits, conn, holder, clone>>
  BY DEF FinalSnapshot
<1>5. ProcessShape'
  BY <1>1, <1>4 DEF ProcessInv, ProcessShape
<1>6. StartupInv'
  BY <1>4, StartupKept DEF ProcessInv, Running
<1>7. HandlerInv' /\ DrainInv'
  BY <1>1, <1>2, <1>3, <1>4 DEF ProcessInv, ProcessShape, HandlerInv, DrainInv
<1>8. PermitsConserved'
  BY <1>4 DEF ProcessInv, PermitsConserved, OpenHttp
<1> QED
  BY <1>5, <1>6, <1>7, <1>8 DEF ProcessInv

\* Every step of the process keeps the invariant.
LEMMA ProcessStep == ProcessInv /\ [LifecycleNext]_lifecycleVars => ProcessInv'
<1> SUFFICES ASSUME ProcessInv, [LifecycleNext]_lifecycleVars PROVE ProcessInv'
  OBVIOUS
<1>1. CASE UNCHANGED lifecycleVars
  <2>1. ProcessShape' /\ HandlerInv' /\ DrainInv' /\ PermitsConserved'
    BY <1>1 DEF lifecycleVars, ProcessInv, ProcessShape, HandlerInv, DrainInv,
                PermitsConserved, OpenHttp
  <2>2. StartupInv'
    BY <1>1, StagesFixed DEF lifecycleVars, ProcessInv, StartupInv, Passed, Checked, Running
  <2> QED
    BY <2>1, <2>2 DEF ProcessInv
<1>2. CASE LifecycleNext
  BY <1>2, StartupStep, AcceptorStep, AcceptStep, ConnectionStep, CommitsStep,
     AnswersStep, DropsStep, ClosesStep, ShutdownStep, FinalSnapshotStep
     DEF LifecycleNext
<1> QED
  BY <1>1, <1>2

\* The process serves what it was told to, loses no permit and leaves a
\* complete snapshot when it has drained (main.rs, http/server.rs), for every
\* environment, every number of connections and every order of signals,
\* deadlines, failed accepts and closing peers.
THEOREM ProcessTheorem == LifecycleSpec => []ProcessSound
<1>1. ProcessInv => ProcessSound
  <2> SUFFICES ASSUME ProcessInv PROVE ProcessSound
    OBVIOUS
  <2>1. ServesAsConfigured
    BY CheckedServes DEF ProcessInv, StartupInv, ServesAsConfigured
  <2>2. SavedOnExit
    BY DEF ProcessInv, ProcessShape, HandlerInv, DrainInv, SavedOnExit
  <2> QED
    BY <2>1, <2>2 DEF ProcessInv, ProcessSound
<1> QED
  BY ProcessBegins, ProcessStep, <1>1, PTL DEF LifecycleSpec

-----------------------------------------------------------------------------
(* The trace anchors.                                                      *)

Homes == [phase : {"absent", "starting", "saving", "running", "over"}, n : Nat, captured : BOOLEAN]
Records == [logged : Nat, snap : Nat, over : BOOLEAN, anchor : Nat]
Asked == [pc : {"lookup", "load"}, id : AnchorIds, captured : BOOLEAN, of : Nat]
Loaded == [pc : {"loaded"}, id : AnchorIds, captured : BOOLEAN, of : Nat, value : Nat]

AnchorShape ==
    /\ home \in [AnchorIds -> Homes] /\ cache \in [AnchorIds -> Int] /\ kept \in [AnchorIds -> Records]
    /\ writes \subseteq AnchorIds \X (Nat \ {0})
    /\ lookup \in [Lookups -> {NoLookup} \cup Asked \cup Loaded]
    /\ upkeep.gone \subseteq AnchorIds
    /\ sweep.pc \in {"due", "check", "delete", "done"} /\ sweep.keys \subseteq AnchorIds
    /\ begun \in Nat /\ spent \subseteq AnchorIds

Accepted(i) == home[i].phase \in {"saving", "running", "over"}

\* An id has one accepted start: every number kept for the id, in the
\* registry, in the cache, in storage, on its way there or in a lookup, is
\* the number of that start.
Numbered(own) ==
    /\ \A i \in AnchorIds :
         /\ Accepted(i) => home[i].n = own[i]
         /\ cache[i] \in {Miss, Negative, own[i]}
         /\ kept[i].logged \in {0, own[i]} /\ kept[i].anchor \in {0, own[i]}
    /\ \A w \in writes : w[2] = own[w[1]]
    /\ \A r \in Lookups : lookup[r].pc # "idle" => lookup[r].of \in {NotYet, own[lookup[r].id]}
    /\ \A r \in Lookups : lookup[r].pc = "loaded" => lookup[r].value \in {Negative, own[lookup[r].id]}

\* Nothing is kept for an id before its start is accepted, and an id whose
\* start was accepted does not start again.
Untouched ==
    /\ \A i \in AnchorIds \ spent :
         /\ ~Accepted(i) /\ kept[i].logged = 0 /\ kept[i].anchor = 0 /\ cache[i] \in {Miss, Negative}
    /\ \A w \in writes : w[1] \in spent
    /\ \A r \in Lookups : lookup[r].pc # "idle" /\ lookup[r].id \notin spent =>
         lookup[r].of = NotYet /\ ~lookup[r].captured
    /\ \A r \in Lookups : lookup[r].pc = "loaded" /\ lookup[r].id \notin spent =>
         lookup[r].value = Negative
    /\ \A i \in spent : home[i].phase # "starting"
    /\ upkeep.gone \subseteq spent
    /\ sweep.keys \subseteq spent

\* The anchor that this process captured is in the cache for as long as the
\* session is in memory; what a lookup saw captured is, or is gone.
CapturedCached ==
    /\ \A i \in AnchorIds : home[i].captured => Accepted(i) /\ cache[i] = home[i].n
    /\ \A i \in AnchorIds : home[i].phase # "absent" => home[i].n # 0
    /\ \A i \in upkeep.gone : home[i].phase = "absent"
    /\ \A r \in Lookups : lookup[r].pc # "idle" =>
         (lookup[r].captured /\ Resident(lookup[r].id) => home[lookup[r].id].captured)

\* A record in storage, or on its way, has the snapshot of its session, as
\* long as that has a log; what the sweep found without one has no log.
RecordsBacked ==
    /\ \A i \in AnchorIds : kept[i].anchor # 0 /\ kept[i].logged # 0 => kept[i].snap # 0
    /\ \A w \in writes : kept[w[1]].logged # 0 => kept[w[1]].snap # 0
    /\ sweep.pc = "check" =>
         \A i \in sweep.keys : kept[i].logged # 0 => kept[i].snap # 0
    /\ sweep.pc = "delete" => \A i \in sweep.keys : kept[i].logged = 0

AnchorsOf(own) ==
    AnchorShape /\ Numbered(own) /\ Untouched /\ CapturedCached /\ RecordsBacked /\ AnchorsSound

AnchorInv == \E own \in [AnchorIds -> Nat \ {0}] : AnchorsOf(own)

\* The fields of a lookup under way.
LEMMA LookupFacts ==
    ASSUME NEW own, AnchorsOf(own), NEW r \in Lookups, lookup[r].pc # "idle"
    PROVE  lookup[r].id \in AnchorIds /\ lookup[r].of \in Nat /\ lookup[r].captured \in BOOLEAN
BY DEF AnchorsOf, AnchorShape, NoLookup, Asked, Loaded

\* The placeholder of a start that is not accepted yet.
LEMMA InsertStartKeeps ==
    ASSUME NEW own \in [AnchorIds -> Nat \ {0}], AnchorsOf(own), NEW i \in AnchorIds, InsertStart(i)
    PROVE  AnchorsOf(own)'
<1>1. begun + 1 \in Nat \ {0}
  BY DEF AnchorsOf, AnchorShape
<1>2. AnchorShape'
  BY DEF AnchorsOf, AnchorShape, Homes, Records, Asked, Loaded, InsertStart, Resident
<1>3. Numbered(own)'
  BY DEF AnchorsOf, AnchorShape, Homes, Records, Numbered, Accepted, InsertStart, Resident
<1>4. Untouched'
  BY DEF AnchorsOf, AnchorShape, Homes, Records, Untouched, Accepted, InsertStart, Resident
<1>5. CapturedCached'
  BY <1>1, LookupFacts DEF AnchorsOf, AnchorShape, Homes, Untouched, CapturedCached, Accepted,
     Resident, InsertStart
<1>6. RecordsBacked'
  BY DEF AnchorsOf, AnchorShape, Records, RecordsBacked, InsertStart, Resident
<1>7. AnchorsSound'
  BY DEF AnchorsOf, AnchorsSound, InsertStart, Resident
<1> QED
  BY <1>2, <1>3, <1>4, <1>5, <1>6, <1>7 DEF AnchorsOf

\* A start that fails leaves nothing.
LEMMA RollbackStartKeeps ==
    ASSUME NEW own \in [AnchorIds -> Nat \ {0}], AnchorsOf(own), NEW i \in AnchorIds, RollbackStart(i)
    PROVE  AnchorsOf(own)'
<1>1. AnchorShape'
  BY DEF AnchorsOf, AnchorShape, Homes, Records, Asked, Loaded, RollbackStart, Away
<1>2. Numbered(own)'
  BY DEF AnchorsOf, AnchorShape, Homes, Records, Numbered, Accepted, RollbackStart, Away
<1>3. Untouched'
  BY DEF AnchorsOf, AnchorShape, Homes, Records, Untouched, Accepted, RollbackStart, Away
<1>4. CapturedCached'
  BY DEF AnchorsOf, AnchorShape, Homes, CapturedCached, Accepted, Resident, RollbackStart, Away
<1>5. RecordsBacked'
  BY DEF AnchorsOf, AnchorShape, Records, RecordsBacked, RollbackStart, Away
<1>6. AnchorsSound'
  BY DEF AnchorsOf, AnchorsSound, RollbackStart, Away
<1> QED
  BY <1>1, <1>2, <1>3, <1>4, <1>5, <1>6 DEF AnchorsOf

\* The snapshot, and the record sent on its way behind it.
LEMMA SaveStartKeeps ==
    ASSUME NEW own \in [AnchorIds -> Nat \ {0}], AnchorsOf(own), NEW i \in AnchorIds, SaveStart(i)
    PROVE  AnchorsOf(own)'
<1>1. home[i].n \in Nat \ {0} /\ i \in spent
  BY DEF AnchorsOf, AnchorShape, Homes, SaveStart, CapturedCached, Untouched, Accepted
<1>2. /\ kept' = [kept EXCEPT ![i].snap = home[i].n] \/ kept' = kept
      /\ \/ writes' = writes \cup {<<i, home[i].n>>} /\ kept' = [kept EXCEPT ![i].snap = home[i].n]
         \/ writes' = writes
      /\ home' = [home EXCEPT ![i].phase = "running"] /\ home[i].phase = "saving"
      /\ UNCHANGED <<creates, cache, lookup, upkeep, sweep, begun, spent, crashes, misled, swept>>
  BY DEF SaveStart
<1>3. /\ kept' \in [AnchorIds -> Records]
      /\ \A j \in AnchorIds : /\ kept'[j].logged = kept[j].logged /\ kept'[j].anchor = kept[j].anchor
                              /\ kept[j].snap # 0 => kept'[j].snap # 0
      /\ writes' # writes => kept'[i].snap # 0
  <2> DEFINE new == [kept[i] EXCEPT !.snap = home[i].n]
  <2>1. kept[i] \in Records
    BY DEF AnchorsOf, AnchorShape
  <2>2. /\ new \in Records /\ new.logged = kept[i].logged /\ new.anchor = kept[i].anchor
        /\ new.snap = home[i].n
    BY <1>1, <2>1 DEF Records
  <2>3. /\ kept' = [kept EXCEPT ![i] = new] \/ kept' = kept
        /\ writes' # writes => kept' = [kept EXCEPT ![i] = new]
    BY <1>2
  <2> HIDE DEF new
  <2> QED
    BY <1>1, <2>2, <2>3 DEF AnchorsOf, AnchorShape
<1>4. /\ writes' \subseteq AnchorIds \X (Nat \ {0})
      /\ \A v \in writes' : v \in writes \/ (v[1] = i /\ v[2] = home[i].n /\ writes' # writes)
  BY <1>1, <1>2 DEF AnchorsOf, AnchorShape
<1>5. AnchorShape'
  BY <1>2, <1>3, <1>4 DEF AnchorsOf, AnchorShape, Homes
<1>6. Numbered(own)'
  BY <1>2, <1>3, <1>4 DEF AnchorsOf, AnchorShape, Homes, Numbered, Accepted
<1>7. Untouched'
  BY <1>1, <1>2, <1>3, <1>4 DEF AnchorsOf, AnchorShape, Homes, Untouched, Accepted
<1>8. CapturedCached'
  BY DEF AnchorsOf, AnchorShape, Homes, CapturedCached, Accepted, Resident, SaveStart
<1>9. RecordsBacked'
  BY <1>2, <1>3, <1>4 DEF AnchorsOf, AnchorShape, RecordsBacked
<1>10. AnchorsSound'
  BY DEF AnchorsOf, AnchorsSound, SaveStart
<1> QED
  BY <1>5, <1>6, <1>7, <1>8, <1>9, <1>10 DEF AnchorsOf

\* The record arrives, fails, or finds no directory.
LEMMA StoreAnchorKeeps ==
    ASSUME NEW own \in [AnchorIds -> Nat \ {0}], AnchorsOf(own), NEW w \in writes, StoreAnchor(w)
    PROVE  AnchorsOf(own)'
<1>1. w[1] \in AnchorIds /\ w[2] \in Nat \ {0} /\ w[2] = own[w[1]] /\ w[1] \in spent
  BY DEF AnchorsOf, AnchorShape, Numbered, Untouched
<1>2. /\ kept' \in [AnchorIds -> Records]
      /\ \A j \in AnchorIds : /\ kept'[j].logged = kept[j].logged /\ kept'[j].snap = kept[j].snap
                              /\ kept'[j].anchor = kept[j].anchor \/ (j = w[1] /\ kept'[j].anchor = w[2])
  <2> DEFINE new == [kept[w[1]] EXCEPT !.anchor = w[2]]
  <2>1. kept[w[1]] \in Records
    BY <1>1 DEF AnchorsOf, AnchorShape
  <2>2. /\ new \in Records /\ new.logged = kept[w[1]].logged /\ new.snap = kept[w[1]].snap
        /\ new.anchor = w[2]
    BY <1>1, <2>1 DEF Records
  <2>3. kept' = [kept EXCEPT ![w[1]] = new] \/ kept' = kept
    BY DEF StoreAnchor
  <2> HIDE DEF new
  <2> QED
    BY <1>1, <2>2, <2>3 DEF AnchorsOf, AnchorShape
<1>3. /\ writes' \subseteq writes
      /\ UNCHANGED <<creates, home, cache, lookup, upkeep, sweep, begun, spent, crashes, misled, swept>>
  BY DEF StoreAnchor
<1>4. AnchorShape'
  BY <1>2, <1>3 DEF AnchorsOf, AnchorShape
<1>5. Numbered(own)'
  BY <1>1, <1>2, <1>3 DEF AnchorsOf, AnchorShape, Numbered, Accepted
<1>6. Untouched'
  BY <1>1, <1>2, <1>3 DEF AnchorsOf, AnchorShape, Untouched, Accepted
<1>7. CapturedCached'
  BY <1>3 DEF AnchorsOf, CapturedCached, Accepted, Resident
<1>8. RecordsBacked'
  BY <1>2, <1>3 DEF AnchorsOf, AnchorShape, RecordsBacked
<1>9. AnchorsSound'
  BY <1>3 DEF AnchorsOf, AnchorsSound
<1> QED
  BY <1>4, <1>5, <1>6, <1>7, <1>8, <1>9 DEF AnchorsOf

\* A span asks for the anchor of a session in memory.
LEMMA TraceAnchorKeeps ==
    ASSUME NEW own \in [AnchorIds -> Nat \ {0}], AnchorsOf(own),
           NEW i \in AnchorIds, NEW r \in Lookups, TraceAnchor(r, i)
    PROVE  AnchorsOf(own)'
<1> DEFINE asked == Ask(i)
<1>1. /\ asked \in Asked /\ asked.pc = "lookup" /\ asked.id = i /\ (asked.captured <=> home[i].captured)
      /\ asked.of = NotYet \/ (Accepted(i) /\ asked.of = home[i].n)
  <2>1. home[i] \in Homes /\ home[i].phase # "absent"
    BY DEF AnchorsOf, AnchorShape, TraceAnchor, Resident
  <2>2. home[i].n \in Nat /\ home[i].captured \in BOOLEAN /\ (home[i].phase = "starting" \/ Accepted(i))
    BY <2>1 DEF Homes, Accepted
  <2> QED
    <3>1. asked = [pc |-> "lookup", id |-> i, captured |-> home[i].captured, of |-> asked.of]
      BY DEF Ask
    <3>2. asked.of \in Nat /\ (asked.of = NotYet \/ (Accepted(i) /\ asked.of = home[i].n))
      <4>1. asked.of = IF home[i].phase = "starting" THEN NotYet ELSE home[i].n
        BY DEF Ask
      <4>2. home[i].n \in Nat /\ (home[i].phase = "starting" \/ Accepted(i)) /\ NotYet \in Nat
        BY <2>2 DEF NotYet
      <4> HIDE DEF asked
      <4> QED
        BY <4>1, <4>2
    <3> HIDE DEF asked
    <3>3. asked \in Asked
      BY <2>2, <3>1, <3>2 DEF Asked
    <3> QED
      BY <3>1, <3>2, <3>3
<1> HIDE DEF asked
<1>2. AnchorShape'
  BY <1>1 DEF AnchorsOf, AnchorShape, Homes, Records, TraceAnchor, asked
<1>3. Numbered(own)'
  BY <1>1 DEF AnchorsOf, AnchorShape, Homes, Records, Numbered, Accepted, NoLookup, TraceAnchor,
     asked
<1>4. Untouched'
  BY <1>1 DEF AnchorsOf, AnchorShape, Untouched, CapturedCached, Accepted, NoLookup,
     TraceAnchor, asked
<1>5. CapturedCached'
  BY <1>1 DEF AnchorsOf, AnchorShape, Homes, CapturedCached, Accepted, Resident, NoLookup,
     TraceAnchor, asked
<1>6. RecordsBacked'
  BY DEF AnchorsOf, AnchorShape, Records, RecordsBacked, TraceAnchor, Ask, NoLookup
<1>7. AnchorsSound'
  BY DEF AnchorsOf, AnchorsSound, TraceAnchor, Ask, NoLookup
<1> QED
  BY <1>2, <1>3, <1>4, <1>5, <1>6, <1>7 DEF AnchorsOf

\* The kernel asks, for a session that has just ended.
LEMMA ObserveTransitionKeeps ==
    ASSUME NEW own \in [AnchorIds -> Nat \ {0}], AnchorsOf(own),
           NEW i \in AnchorIds, ObserveTransition(i)
    PROVE  AnchorsOf(own)'
<1> DEFINE asked == Ask(i)
<1>1. /\ asked \in Asked /\ asked.pc = "lookup" /\ asked.id = i /\ (asked.captured <=> home[i].captured)
      /\ asked.of = NotYet \/ (Accepted(i) /\ asked.of = home[i].n)
  BY DEF AnchorsOf, AnchorShape, Homes, Asked, Ask, Accepted, NotYet, Resident, ObserveTransition
<1> HIDE DEF asked
<1>2. AnchorShape'
  BY <1>1, ZenonT(60) DEF AnchorsOf, AnchorShape, Homes, Records, ObserveTransition, asked, Lookups
<1>3. Numbered(own)'
  BY <1>1 DEF AnchorsOf, AnchorShape, Homes, Records, Numbered, Accepted, NoLookup,
     ObserveTransition, asked, Lookups
<1>4. Untouched'
  BY <1>1 DEF AnchorsOf, AnchorShape, Homes, Records, Untouched, Accepted, NoLookup,
     ObserveTransition, asked, Lookups
<1>5. CapturedCached'
  <2> DEFINE new == [home[i] EXCEPT !.phase = "over"]
  <2>1. home[i] \in Homes /\ home[i].phase = "running"
    BY DEF AnchorsOf, AnchorShape, ObserveTransition
  <2>2. new.phase = "over" /\ new.n = home[i].n /\ (new.captured <=> home[i].captured)
    BY <2>1 DEF Homes
  <2>3. home' = [home EXCEPT ![i] = new] /\ cache' = cache /\ upkeep' = upkeep
        /\ lookup' = [lookup EXCEPT !["kernel"] = asked]
    BY DEF ObserveTransition, asked
  <2> HIDE DEF new
  <2>4. \A j \in AnchorIds : /\ (home'[j].captured <=> home[j].captured) /\ home'[j].n = home[j].n
                             /\ home'[j].phase = home[j].phase \/ (j = i /\ home'[j].phase = "over")
    BY <2>2, <2>3 DEF AnchorsOf, AnchorShape
  <2>5. \A q \in Lookups : lookup'[q].pc # "idle" =>
          lookup'[q] = lookup[q] \/ (lookup'[q].id = i /\ (lookup'[q].captured <=> home[i].captured))
    BY <1>1, <2>3 DEF AnchorsOf, AnchorShape
  <2>6. \A j \in AnchorIds : home'[j].captured => Accepted(j)' /\ cache'[j] = home'[j].n
    <3> SUFFICES ASSUME NEW j \in AnchorIds, home'[j].captured
                 PROVE  Accepted(j)' /\ cache[j] = home[j].n
      BY <2>3, <2>4
    <3>1. home[j].captured
      BY <2>4
    <3>2. Accepted(j) /\ cache[j] = home[j].n
      BY <3>1 DEF AnchorsOf, CapturedCached
    <3>3. home'[j].phase \in {"saving", "running", "over"}
      BY <2>4, <3>2 DEF Accepted
    <3> QED
      BY <3>2, <3>3 DEF Accepted
  <2>9. \A j \in AnchorIds : home'[j].phase # "absent" => home'[j].n # 0
    BY <2>1, <2>4 DEF AnchorsOf, CapturedCached
  <2>7. \A j \in upkeep.gone : home'[j].phase = "absent"
    BY <2>1, <2>4 DEF AnchorsOf, AnchorShape, CapturedCached
  <2>8. ASSUME NEW q \in Lookups, lookup'[q].pc # "idle", lookup'[q].captured,
               home'[lookup'[q].id].phase # "absent"
        PROVE  home'[lookup'[q].id].captured
    <3>1. CASE lookup'[q] = lookup[q]
      <4>1. lookup[q].id \in AnchorIds
        BY <2>8, <3>1, LookupFacts
      <4>2. home[lookup[q].id].phase # "absent"
        BY <2>1, <2>4, <2>8, <3>1, <4>1
      <4>3. home[lookup[q].id].captured
        BY <2>8, <3>1, <4>2 DEF AnchorsOf, CapturedCached, Resident
      <4> QED
        BY <2>4, <3>1, <4>1, <4>3
    <3>2. CASE lookup'[q].id = i /\ (lookup'[q].captured <=> home[i].captured)
      <4>1. home[i].captured
        BY <2>8, <3>2
      <4> QED
        BY <2>4, <3>2, <4>1
    <3> QED
      BY <2>5, <2>8, <3>1, <3>2
  <2> QED
    BY <2>3, <2>6, <2>7, <2>8, <2>9 DEF CapturedCached, Resident
<1>6. RecordsBacked'
  BY DEF AnchorsOf, AnchorShape, Records, RecordsBacked, ObserveTransition, Ask, NoLookup
<1>7. AnchorsSound'
  BY DEF AnchorsOf, AnchorsSound, ObserveTransition, Ask, NoLookup
<1> QED
  BY <1>2, <1>3, <1>4, <1>5, <1>6, <1>7 DEF AnchorsOf

\* The cache answers, or the lookup goes on to storage.
LEMMA LookupAnchorKeeps ==
    ASSUME NEW own \in [AnchorIds -> Nat \ {0}], AnchorsOf(own), NEW r \in Lookups, LookupAnchor(r)
    PROVE  AnchorsOf(own)'
<1> DEFINE i == lookup[r].id
           on == [lookup[r] EXCEPT !.pc = "load"]
<1>1. lookup[r] \in Asked /\ i \in AnchorIds
  BY DEF AnchorsOf, AnchorShape, LookupAnchor, NoLookup, Asked, Loaded
<1>2. /\ on \in Asked /\ on.pc = "load" /\ on.id = i
      /\ (on.captured <=> lookup[r].captured) /\ on.of = lookup[r].of
  BY <1>1 DEF Asked
<1> HIDE DEF on
<1>3. /\ \/ lookup' = [lookup EXCEPT ![r] = NoLookup] /\ cache[i] # Miss
            /\ misled' = misled \cup IF Own(r, cache[i]) THEN {}
                                    ELSE {[of |-> lookup[r].of, to |-> cache[i]]}
         \/ lookup' = [lookup EXCEPT ![r] = on] /\ misled' = misled
      /\ UNCHANGED <<creates, home, cache, kept, writes, upkeep, sweep, begun, spent, crashes, swept>>
  BY DEF LookupAnchor, Link, on
<1>4. \A q \in Lookups : lookup'[q].pc # "idle" =>
        /\ lookup[q].pc # "idle" /\ lookup'[q].id = lookup[q].id /\ lookup'[q].of = lookup[q].of
        /\ lookup'[q].captured <=> lookup[q].captured
        /\ lookup'[q].pc = "loaded" => lookup[q].pc = "loaded" /\ lookup'[q].value = lookup[q].value
  BY <1>1, <1>2, <1>3 DEF AnchorsOf, AnchorShape, NoLookup, Asked
<1>5. cache[i] # Miss => Own(r, cache[i])
  BY <1>1, LookupFacts DEF AnchorsOf, AnchorShape, Homes, Asked, Numbered, CapturedCached,
     Accepted, Resident, Own, Miss, Negative, NotYet
<1>6. AnchorShape'
  BY <1>1, <1>2, <1>3 DEF AnchorsOf, AnchorShape
<1>7. Numbered(own)'
  BY <1>3, <1>4, LookupFacts DEF AnchorsOf, Numbered, Accepted
<1>8. Untouched'
  BY <1>3, <1>4, LookupFacts DEF AnchorsOf, Untouched, Accepted
<1>9. CapturedCached'
  BY <1>3, <1>4, LookupFacts DEF AnchorsOf, CapturedCached, Accepted, Resident
<1>10. RecordsBacked'
  BY <1>1, <1>2, <1>3 DEF AnchorsOf, AnchorShape, RecordsBacked
<1>11. AnchorsSound'
  BY <1>1, <1>3, <1>5 DEF AnchorsOf, AnchorsSound
<1> QED
  BY <1>6, <1>7, <1>8, <1>9, <1>10, <1>11 DEF AnchorsOf

\* Storage answers, with a record or with none.
LEMMA LoadAnchorKeeps ==
    ASSUME NEW own \in [AnchorIds -> Nat \ {0}], AnchorsOf(own), NEW r \in Lookups, LoadAnchor(r)
    PROVE  AnchorsOf(own)'
<1> DEFINE i == lookup[r].id
<1>1. lookup[r] \in Asked /\ i \in AnchorIds /\ kept[i].anchor \in Nat
  BY DEF AnchorsOf, AnchorShape, LoadAnchor, NoLookup, Asked, Loaded, Records
<1>2. PICK loaded \in {kept[i].anchor, Negative} :
        lookup' = [lookup EXCEPT ![r] = [pc |-> "loaded", id |-> @.id, of |-> @.of,
                                         captured |-> @.captured, value |-> loaded]]
  BY DEF LoadAnchor
<1> DEFINE on == [pc |-> "loaded", id |-> i, of |-> lookup[r].of, captured |-> lookup[r].captured,
                  value |-> loaded]
<1>3. lookup' = [lookup EXCEPT ![r] = on]
  BY <1>2 DEF AnchorsOf, AnchorShape
<1>4. /\ on \in Loaded /\ on.id = i /\ on.of = lookup[r].of /\ (on.captured <=> lookup[r].captured)
      /\ on.value = loaded /\ lookup[r].pc # "idle"
  BY <1>1 DEF Asked, Loaded, Negative
<1> HIDE DEF on
<1>5. loaded \in {Negative, own[i]} /\ (i \notin spent => loaded = Negative)
  BY <1>1 DEF AnchorsOf, Numbered, Untouched, Negative
<1>6. \A q \in Lookups : lookup'[q].pc # "idle" =>
        /\ lookup[q].pc # "idle" /\ lookup'[q].id = lookup[q].id /\ lookup'[q].of = lookup[q].of
        /\ lookup'[q].captured <=> lookup[q].captured
        /\ lookup'[q].pc = "loaded" =>
             \/ lookup[q].pc = "loaded" /\ lookup'[q].value = lookup[q].value
             \/ lookup[q].id = i /\ lookup'[q].value = loaded
  <2>1. lookup'[r] = on /\ \A q \in Lookups \ {r} : lookup'[q] = lookup[q]
    BY <1>3 DEF AnchorsOf, AnchorShape
  <2> SUFFICES ASSUME NEW q \in Lookups, lookup'[q].pc # "idle"
               PROVE  /\ lookup[q].pc # "idle" /\ lookup'[q].id = lookup[q].id
                      /\ lookup'[q].of = lookup[q].of /\ (lookup'[q].captured <=> lookup[q].captured)
                      /\ lookup'[q].pc = "loaded" =>
                           \/ lookup[q].pc = "loaded" /\ lookup'[q].value = lookup[q].value
                           \/ lookup[q].id = i /\ lookup'[q].value = loaded
    OBVIOUS
  <2>2. CASE q = r
    BY <1>4, <2>1, <2>2
  <2>3. CASE q # r
    BY <2>1, <2>3
  <2> QED
    BY <2>2, <2>3
<1>7. UNCHANGED <<creates, home, cache, kept, writes, upkeep, sweep, begun, spent, crashes,
                  misled, swept>>
  BY DEF LoadAnchor
<1>8. AnchorShape'
  BY <1>3, <1>4, <1>7 DEF AnchorsOf, AnchorShape
<1>9. Numbered(own)'
  BY <1>5, <1>6, <1>7, LookupFacts DEF AnchorsOf, Numbered, Accepted
<1>10. Untouched'
  BY <1>5, <1>6, <1>7, LookupFacts DEF AnchorsOf, Untouched, Accepted
<1>11. CapturedCached'
  BY <1>5, <1>6, <1>7, LookupFacts DEF AnchorsOf, CapturedCached, Accepted, Resident
<1>12. RecordsBacked'
  BY <1>7 DEF AnchorsOf, RecordsBacked
<1>13. AnchorsSound'
  BY <1>7 DEF AnchorsOf, AnchorsSound
<1> QED
  BY <1>8, <1>9, <1>10, <1>11, <1>12, <1>13 DEF AnchorsOf

\* What was loaded enters the cache unless an entry is there.
LEMMA CacheLoadedKeeps ==
    ASSUME NEW own \in [AnchorIds -> Nat \ {0}], AnchorsOf(own), NEW r \in Lookups, CacheLoaded(r)
    PROVE  AnchorsOf(own)'
<1> DEFINE i == lookup[r].id
           c == PutLoaded(i, lookup[r].value)
<1>1. lookup[r] \in Loaded /\ i \in AnchorIds
  BY DEF AnchorsOf, AnchorShape, CacheLoaded, NoLookup, Asked, Loaded
<1>2. /\ c \in Int /\ c \in {Negative, own[i]} /\ (cache[i] # Miss => c = cache[i])
      /\ i \notin spent => c = Negative
  BY <1>1 DEF AnchorsOf, AnchorShape, Numbered, Untouched, Loaded, PutLoaded, Miss, Negative
<1> HIDE DEF c
<1>3. /\ cache' = [cache EXCEPT ![i] = c] /\ lookup' = [lookup EXCEPT ![r] = NoLookup]
      /\ misled' = misled \cup (IF Own(r, c) THEN {} ELSE {[of |-> lookup[r].of, to |-> c]})
      /\ UNCHANGED <<creates, home, kept, writes, upkeep, sweep, begun, spent, crashes, swept>>
  BY <1>1 DEF CacheLoaded, Link, c, AnchorsOf, AnchorShape
<1>4. \A q \in Lookups : lookup'[q].pc # "idle" => lookup'[q] = lookup[q]
  BY <1>3 DEF AnchorsOf, AnchorShape, NoLookup
<1>5. Own(r, c)
  BY <1>1, <1>2, LookupFacts DEF AnchorsOf, AnchorShape, Homes, Loaded, Numbered,
     CapturedCached, Accepted, Resident, Own, Miss, Negative, NotYet
<1>6. AnchorShape'
  BY <1>1, <1>2, <1>3 DEF AnchorsOf, AnchorShape
<1>7. Numbered(own)'
  BY <1>1, <1>2, <1>3, <1>4, LookupFacts DEF AnchorsOf, AnchorShape, Numbered, Accepted
<1>8. Untouched'
  BY <1>1, <1>2, <1>3, <1>4, LookupFacts DEF AnchorsOf, AnchorShape, Untouched, Accepted
<1>9. CapturedCached'
  BY <1>1, <1>2, <1>3, <1>4, LookupFacts DEF AnchorsOf, AnchorShape, Homes, CapturedCached,
     Accepted, Resident, Miss, Numbered
<1>10. RecordsBacked'
  BY <1>1, <1>2, <1>3 DEF AnchorsOf, AnchorShape, RecordsBacked
<1>11. AnchorsSound'
  BY <1>3, <1>5 DEF AnchorsOf, AnchorsSound
<1> QED
  BY <1>6, <1>7, <1>8, <1>9, <1>10, <1>11 DEF AnchorsOf

\* Sessions that ended leave the registry.
LEMMA EvictSessionsKeeps ==
    ASSUME NEW own \in [AnchorIds -> Nat \ {0}], AnchorsOf(own),
           NEW gone \in SUBSET AnchorIds, EvictSessions(gone)
    PROVE  AnchorsOf(own)'
<1>1. /\ \A i \in AnchorIds : home'[i] = IF i \in gone THEN Away ELSE home[i]
      /\ \A i \in gone : i \in spent
      /\ upkeep'.gone = gone /\ home' \in [AnchorIds -> Homes]
      /\ UNCHANGED <<creates, cache, kept, writes, lookup, sweep, begun, spent, crashes, misled, swept>>
  BY DEF EvictSessions, AnchorsOf, AnchorShape, Untouched, Accepted, Homes, Away
<1>2. AnchorShape'
  BY <1>1 DEF AnchorsOf, AnchorShape
<1>3. Numbered(own)'
  BY <1>1 DEF AnchorsOf, AnchorShape, Homes, Numbered, Accepted, Away
<1>4. Untouched'
  BY <1>1 DEF AnchorsOf, AnchorShape, Homes, Untouched, Accepted, Away
<1>5. CapturedCached'
  BY <1>1, LookupFacts DEF AnchorsOf, AnchorShape, Homes, CapturedCached, Accepted, Resident, Away
<1>6. RecordsBacked'
  BY <1>1 DEF AnchorsOf, AnchorShape, RecordsBacked
<1>7. AnchorsSound'
  BY <1>1 DEF AnchorsOf, AnchorShape, AnchorsSound
<1> QED
  BY <1>2, <1>3, <1>4, <1>5, <1>6, <1>7 DEF AnchorsOf

\* Their anchors leave the cache; none of them is in memory again.
LEMMA ForgetAnchorsKeeps ==
    ASSUME NEW own \in [AnchorIds -> Nat \ {0}], AnchorsOf(own), ForgetAnchors
    PROVE  AnchorsOf(own)'
<1>1. AnchorShape'
  BY DEF AnchorsOf, AnchorShape, Records, Miss, ForgetAnchors
<1>2. Numbered(own)'
  BY DEF AnchorsOf, AnchorShape, Homes, Records, Numbered, Accepted, ForgetAnchors
<1>3. Untouched'
  BY DEF AnchorsOf, AnchorShape, Homes, Records, Untouched, Accepted, ForgetAnchors
<1>4. CapturedCached'
  BY DEF AnchorsOf, AnchorShape, Homes, CapturedCached, Accepted, Resident, ForgetAnchors
<1>5. RecordsBacked'
  BY DEF AnchorsOf, AnchorShape, Records, RecordsBacked, ForgetAnchors
<1>6. AnchorsSound'
  BY DEF AnchorsOf, AnchorsSound, ForgetAnchors
<1> QED
  BY <1>1, <1>2, <1>3, <1>4, <1>5, <1>6 DEF AnchorsOf

\* The anchors of sessions that are not in memory leave the cache.
LEMMA PruneAnchorsKeeps ==
    ASSUME NEW own \in [AnchorIds -> Nat \ {0}], AnchorsOf(own), PruneAnchors
    PROVE  AnchorsOf(own)'
<1>1. AnchorShape'
  BY DEF AnchorsOf, AnchorShape, Records, Miss, PruneAnchors
<1>2. Numbered(own)'
  BY DEF AnchorsOf, AnchorShape, Homes, Records, Numbered, Accepted, PruneAnchors, Resident
<1>3. Untouched'
  BY DEF AnchorsOf, AnchorShape, Homes, Records, Untouched, Accepted, PruneAnchors, Resident
<1>4. CapturedCached'
  BY DEF AnchorsOf, AnchorShape, Homes, CapturedCached, Accepted, Resident, PruneAnchors, Resident
<1>5. RecordsBacked'
  BY DEF AnchorsOf, AnchorShape, Records, RecordsBacked, PruneAnchors, Resident
<1>6. AnchorsSound'
  BY DEF AnchorsOf, AnchorsSound, PruneAnchors, Resident
<1> QED
  BY <1>1, <1>2, <1>3, <1>4, <1>5, <1>6 DEF AnchorsOf

\* Disk GC takes a session that is not in memory.
LEMMA GcAnchorKeeps ==
    ASSUME NEW own \in [AnchorIds -> Nat \ {0}], AnchorsOf(own), NEW i \in AnchorIds, GcAnchor(i)
    PROVE  AnchorsOf(own)'
<1>1. AnchorShape'
  BY DEF AnchorsOf, AnchorShape, Records, Miss, GcAnchor, Nowhere
<1>2. Numbered(own)'
  BY DEF AnchorsOf, AnchorShape, Homes, Records, Numbered, Accepted, GcAnchor, Nowhere, Resident
<1>3. Untouched'
  BY DEF AnchorsOf, AnchorShape, Homes, Records, Untouched, Accepted, GcAnchor, Nowhere, Resident
<1>4. CapturedCached'
  BY DEF AnchorsOf, AnchorShape, Homes, CapturedCached, Accepted, Resident, GcAnchor, Nowhere,
     Resident
<1>5. RecordsBacked'
  BY DEF AnchorsOf, AnchorShape, Records, RecordsBacked, GcAnchor, Nowhere, Resident
<1>6. AnchorsSound'
  BY DEF AnchorsOf, AnchorsSound, GcAnchor, Nowhere, Resident
<1> QED
  BY <1>1, <1>2, <1>3, <1>4, <1>5, <1>6 DEF AnchorsOf

\* The sweep sees the records of one moment.
LEMMA SweepScanKeeps ==
    ASSUME NEW own \in [AnchorIds -> Nat \ {0}], AnchorsOf(own), SweepScan
    PROVE  AnchorsOf(own)'
<1>1. AnchorShape'
  BY DEF AnchorsOf, AnchorShape, Homes, Records, Asked, Loaded, SweepScan
<1>2. Numbered(own)'
  BY DEF AnchorsOf, AnchorShape, Homes, Records, Numbered, Accepted, SweepScan
<1>3. Untouched'
  BY DEF AnchorsOf, AnchorShape, Homes, Records, Untouched, Accepted, SweepScan
<1>4. CapturedCached'
  BY DEF AnchorsOf, AnchorShape, Homes, CapturedCached, Accepted, Resident, SweepScan
<1>5. RecordsBacked'
  BY DEF AnchorsOf, AnchorShape, Records, RecordsBacked, SweepScan
<1>6. AnchorsSound'
  BY DEF AnchorsOf, AnchorsSound, SweepScan
<1> QED
  BY <1>1, <1>2, <1>3, <1>4, <1>5, <1>6 DEF AnchorsOf

\* It keeps those without a snapshot.
LEMMA SweepCheckKeeps ==
    ASSUME NEW own \in [AnchorIds -> Nat \ {0}], AnchorsOf(own), SweepCheck
    PROVE  AnchorsOf(own)'
<1>1. AnchorShape'
  BY DEF AnchorsOf, AnchorShape, Homes, Records, Asked, Loaded, SweepCheck
<1>2. Numbered(own)'
  BY DEF AnchorsOf, AnchorShape, Homes, Records, Numbered, Accepted, SweepCheck
<1>3. Untouched'
  BY DEF AnchorsOf, AnchorShape, Homes, Records, Untouched, Accepted, SweepCheck
<1>4. CapturedCached'
  BY DEF AnchorsOf, AnchorShape, Homes, CapturedCached, Accepted, Resident, SweepCheck
<1>5. RecordsBacked'
  BY DEF AnchorsOf, AnchorShape, Records, RecordsBacked, SweepCheck
<1>6. AnchorsSound'
  BY DEF AnchorsOf, AnchorsSound, SweepCheck
<1> QED
  BY <1>1, <1>2, <1>3, <1>4, <1>5, <1>6 DEF AnchorsOf

\* It deletes them.
LEMMA SweepDeleteKeeps ==
    ASSUME NEW own \in [AnchorIds -> Nat \ {0}], AnchorsOf(own), SweepDelete
    PROVE  AnchorsOf(own)'
<1>1. AnchorShape'
  <2>1. AnchorShape
    BY DEF AnchorsOf
  <2>2. ASSUME NEW i \in AnchorIds PROVE [kept[i] EXCEPT !.anchor = 0] \in Records
    BY <2>1 DEF AnchorShape, Records
  <2>3. kept' \in [AnchorIds -> Records]
    BY <2>1, <2>2 DEF AnchorShape, SweepDelete
  <2>4. sweep'.pc = "done" /\ sweep'.keys = {}
    BY DEF SweepDelete
  <2> QED BY <2>1, <2>3, <2>4 DEF AnchorShape, SweepDelete
<1>2. Numbered(own)'
  BY DEF AnchorsOf, AnchorShape, Homes, Records, Numbered, Accepted, SweepDelete
<1>3. Untouched'
  BY DEF AnchorsOf, AnchorShape, Homes, Records, Untouched, Accepted, SweepDelete
<1>4. CapturedCached'
  BY DEF AnchorsOf, AnchorShape, Homes, CapturedCached, Accepted, Resident, SweepDelete
<1>5. RecordsBacked'
  BY DEF AnchorsOf, AnchorShape, Records, RecordsBacked, SweepDelete
<1>6. AnchorsSound'
  BY DEF AnchorsOf, RecordsBacked, AnchorsSound, SweepDelete
<1> QED
  BY <1>1, <1>2, <1>3, <1>4, <1>5, <1>6 DEF AnchorsOf

\* Sessions come back from their logs, the cache comes back empty.
LEMMA RestartAnchorsKeeps ==
    ASSUME NEW own \in [AnchorIds -> Nat \ {0}], AnchorsOf(own), RestartAnchors
    PROVE  AnchorsOf(own)'
<1>1. /\ \A i \in AnchorIds :
           home'[i] = IF kept[i].logged = 0 THEN Away
                      ELSE [phase |-> IF kept[i].over THEN "over" ELSE "running", n |-> kept[i].logged,
                            captured |-> FALSE]
      /\ home' = [i \in AnchorIds |-> home'[i]]
      /\ \A i \in AnchorIds : cache'[i] = Miss
      /\ cache' \in [AnchorIds -> Int]
      /\ writes' = {} /\ upkeep'.gone = {} /\ sweep'.pc = "due" /\ sweep'.keys = {}
      /\ \A r \in Lookups : lookup'[r] = NoLookup
      /\ lookup' = [r \in Lookups |-> NoLookup]
      /\ UNCHANGED <<creates, kept, begun, spent, misled, swept>>
  BY DEF RestartAnchors, Miss
<1>2. \A i \in AnchorIds :
        /\ kept[i].logged \in Nat /\ home'[i] \in Homes
        /\ home'[i].captured = FALSE /\ home'[i].phase # "starting"
        /\ home'[i].phase # "absent" => kept[i].logged # 0 /\ home'[i].n = kept[i].logged
  <2> SUFFICES ASSUME NEW i \in AnchorIds
               PROVE  /\ kept[i].logged \in Nat /\ home'[i] \in Homes
                      /\ home'[i].captured = FALSE /\ home'[i].phase # "starting"
                      /\ home'[i].phase # "absent" => kept[i].logged # 0 /\ home'[i].n = kept[i].logged
    OBVIOUS
  <2>1. kept[i] \in Records
    BY DEF AnchorsOf, AnchorShape
  <2>2. kept[i].logged \in Nat
    BY <2>1 DEF Records
  <2>3. CASE kept[i].logged = 0
    <3>1. home'[i] = [phase |-> "absent", n |-> 0, captured |-> FALSE]
      BY <1>1, <2>3 DEF Away
    <3>2. home'[i] \in Homes /\ home'[i].captured = FALSE /\ home'[i].phase = "absent"
      BY <3>1 DEF Homes
    <3> QED
      BY <2>2, <3>2
  <2>4. CASE kept[i].logged # 0
    <3>1. PICK f \in {"over", "running"} :
            home'[i] = [phase |-> f, n |-> kept[i].logged, captured |-> FALSE]
      BY <1>1, <2>4
    <3>2. /\ home'[i] \in Homes /\ home'[i].captured = FALSE /\ home'[i].phase = f
          /\ home'[i].n = kept[i].logged
      BY <2>2, <3>1 DEF Homes
    <3> QED
      BY <2>2, <2>4, <3>2
  <2> QED
    BY <2>3, <2>4
<1>3. home' \in [AnchorIds -> Homes]
  BY <1>1, <1>2
<1>4. AnchorShape'
  BY <1>1, <1>3 DEF AnchorsOf, AnchorShape
<1>5. Numbered(own)'
  BY <1>1, <1>2 DEF AnchorsOf, AnchorShape, Numbered, NoLookup, Accepted
<1>6. Untouched'
  BY <1>1, <1>2 DEF AnchorsOf, AnchorShape, Untouched, NoLookup, Accepted
<1>7. CapturedCached'
  BY <1>1, <1>2 DEF AnchorsOf, AnchorShape, CapturedCached, NoLookup
<1>8. RecordsBacked'
  BY <1>1 DEF AnchorsOf, AnchorShape, RecordsBacked
<1>9. AnchorsSound'
  BY <1>1 DEF AnchorsOf, AnchorShape, AnchorsSound
<1> QED
  BY <1>4, <1>5, <1>6, <1>7, <1>8, <1>9 DEF AnchorsOf

\* The start is accepted: its number becomes the id's own.
LEMMA CommitStartKeeps ==
    ASSUME NEW own \in [AnchorIds -> Nat \ {0}], AnchorsOf(own), NEW i \in AnchorIds, CommitStart(i),
           NEW given, given = [own EXCEPT ![i] = home[i].n]
    PROVE  AnchorsOf(given)'
<1> DEFINE placed == [home[i] EXCEPT !.phase = "saving", !.captured = TRUE]
           new == [kept[i] EXCEPT !.logged = home[i].n, !.over = FALSE]
<1>1. /\ home[i] \in Homes /\ kept[i] \in Records /\ i \notin spent /\ home[i].n \in Nat \ {0}
  BY DEF AnchorsOf, AnchorShape, Homes, Untouched, CapturedCached, CommitStart
<1>2. /\ placed \in Homes /\ placed.phase = "saving" /\ placed.n = home[i].n /\ placed.captured
  BY <1>1 DEF Homes
<1>3. /\ new \in Records /\ new.logged = home[i].n /\ new.anchor = kept[i].anchor
      /\ new.snap = kept[i].snap
  BY <1>1 DEF Records
<1>4. /\ home' = [home EXCEPT ![i] = placed] /\ cache' = [cache EXCEPT ![i] = home[i].n]
      /\ kept' = [kept EXCEPT ![i] = new] /\ spent' = spent \cup {i}
      /\ UNCHANGED <<creates, writes, lookup, upkeep, sweep, begun, crashes, misled, swept>>
  BY DEF CommitStart
<1> HIDE DEF placed, new
<1>5. given[i] = home[i].n /\ \A j \in AnchorIds \ {i} : given[j] = own[j]
  OBVIOUS
<1>6. kept[i].anchor = 0 /\ \A w \in writes : w[1] # i
  BY <1>1 DEF AnchorsOf, Untouched
<1>7. \A r \in Lookups : lookup[r].pc # "idle" /\ lookup[r].id = i =>
        /\ lookup[r].of = NotYet /\ ~lookup[r].captured
        /\ lookup[r].pc = "loaded" => lookup[r].value = Negative
  BY <1>1 DEF AnchorsOf, Untouched
<1>8. AnchorShape'
  BY <1>1, <1>2, <1>3, <1>4 DEF AnchorsOf, AnchorShape
<1>9. Numbered(given)'
  <2>1. \A j \in AnchorIds :
          /\ Accepted(j)' => home'[j].n = given[j]
          /\ cache'[j] \in {Miss, Negative, given[j]}
          /\ kept'[j].logged \in {0, given[j]} /\ kept'[j].anchor \in {0, given[j]}
    BY <1>2, <1>3, <1>4, <1>5, <1>6 DEF AnchorsOf, AnchorShape, Numbered, Accepted
  <2>2. \A w \in writes : w[1] \in AnchorIds \ {i}
    BY <1>6 DEF AnchorsOf, AnchorShape
  <2>3. \A w \in writes : w[2] = given[w[1]]
    BY <1>5, <2>2 DEF AnchorsOf, Numbered
  <2>4. \A r \in Lookups : lookup[r].pc # "idle" => lookup[r].id \in AnchorIds
    BY LookupFacts
  <2>5. \A r \in Lookups : /\ lookup[r].pc # "idle" => lookup[r].of \in {NotYet, given[lookup[r].id]}
                           /\ lookup[r].pc = "loaded" => lookup[r].value \in {Negative, given[lookup[r].id]}
    BY <1>5, <1>7, <2>4 DEF AnchorsOf, Numbered
  <2> QED
    BY <1>4, <2>1, <2>3, <2>5 DEF Numbered
<1>10. Untouched'
  BY <1>2, <1>3, <1>4 DEF AnchorsOf, AnchorShape, Untouched, Accepted
<1>11. CapturedCached'
  <2>1. \A r \in Lookups : lookup[r].pc # "idle" => lookup[r].id \in AnchorIds
    BY LookupFacts
  <2>2. \A j \in AnchorIds : /\ home'[j].captured => Accepted(j)' /\ cache'[j] = home'[j].n
                             /\ home'[j].phase # "absent" => home'[j].n # 0
    BY <1>1, <1>2, <1>4 DEF AnchorsOf, AnchorShape, CapturedCached, Accepted
  <2>3. \A j \in upkeep.gone : j # i /\ home'[j].phase = "absent"
    BY <1>1, <1>4 DEF AnchorsOf, AnchorShape, Untouched, CapturedCached
  <2>4. \A j \in AnchorIds \ {i} : home'[j] = home[j]
    BY <1>4 DEF AnchorsOf, AnchorShape
  <2>5. \A r \in Lookups : lookup[r].pc # "idle" =>
          (lookup[r].captured /\ home'[lookup[r].id].phase # "absent" => home'[lookup[r].id].captured)
    BY <1>7, <2>1, <2>4 DEF AnchorsOf, CapturedCached, Resident
  <2> QED
    BY <1>4, <2>2, <2>3, <2>5 DEF CapturedCached, Resident
<1>12. RecordsBacked'
  BY <1>1, <1>3, <1>4, <1>6 DEF AnchorsOf, AnchorShape, Untouched, RecordsBacked
<1>13. AnchorsSound'
  BY <1>4 DEF AnchorsOf, AnchorsSound
<1> QED
  BY <1>8, <1>9, <1>10, <1>11, <1>12, <1>13 DEF AnchorsOf

\* At the start only the records of an older binary are there.
LEMMA AnchorsBegin == AnchorInit => AnchorInv
<1> SUFFICES ASSUME AnchorInit PROVE AnchorInv
  OBVIOUS
<1> DEFINE own == [i \in AnchorIds |-> MaxSessionStarts + 1]
<1>1. MaxSessionStarts + 1 \in Nat \ {0}
  BY AnchorsConstants
<1>2. own \in [AnchorIds -> Nat \ {0}] /\ \A i \in AnchorIds : own[i] = MaxSessionStarts + 1
  BY <1>1
<1> HIDE DEF own
<1> DEFINE given(i) == IF i \in spent THEN MaxSessionStarts + 1 ELSE 0
<1>3. /\ home = [i \in AnchorIds |-> Away] /\ cache = [i \in AnchorIds |-> Miss]
      /\ kept = [i \in AnchorIds |-> [Nowhere EXCEPT !.anchor = given(i)]]
      /\ writes = {} /\ lookup = [r \in Lookups |-> NoLookup] /\ spent \subseteq AnchorIds
      /\ sweep.pc = "due" /\ sweep.keys = {} /\ upkeep.gone = {}
      /\ begun = 0 /\ misled = {} /\ swept = {}
  BY DEF AnchorInit, NothingTraced
<1>4. \A i \in AnchorIds : given(i) \in Nat
  BY <1>1
<1>5. \A i \in AnchorIds : kept[i] = [logged |-> 0, snap |-> 0, over |-> FALSE, anchor |-> given(i)]
  BY <1>3 DEF Nowhere
<1>6. kept \in [AnchorIds -> Records]
  <2>1. ASSUME NEW i \in AnchorIds PROVE kept[i] \in Records
    <3>1. PICK n \in Nat : kept[i] = [logged |-> 0, snap |-> 0, over |-> FALSE, anchor |-> n]
      BY <1>4, <1>5
    <3> QED
      BY <3>1 DEF Records
  <2> QED
    BY <1>3, <2>1
<1>7. AnchorShape
  BY <1>3, <1>6 DEF AnchorShape, Homes, Away, Miss
<1>8. Numbered(own)
  <2>1. \A i \in AnchorIds : home[i].phase = "absent" /\ cache[i] = Miss /\ kept[i].logged = 0
    BY <1>3, <1>5 DEF Away
  <2>2. \A i \in AnchorIds : kept[i].anchor \in {0, own[i]}
    <3> SUFFICES ASSUME NEW i \in AnchorIds PROVE kept[i].anchor \in {0, own[i]}
      OBVIOUS
    <3>1. PICK n \in {0, own[i]} : kept[i] = [logged |-> 0, snap |-> 0, over |-> FALSE, anchor |-> n]
      BY <1>2, <1>5
    <3> QED
      BY <3>1
  <2>3. \A r \in Lookups : lookup[r].pc = "idle"
    BY <1>3 DEF NoLookup
  <2> QED
    BY <1>3, <2>1, <2>2, <2>3 DEF Numbered, Accepted
<1>9. Untouched
  BY <1>3, <1>5, ZenonT(60) DEF Untouched, Accepted, Away, NoLookup
<1>10. CapturedCached
  BY <1>3 DEF CapturedCached, Away, NoLookup
<1>11. RecordsBacked /\ AnchorsSound
  BY <1>3, <1>5 DEF RecordsBacked, AnchorsSound
<1>12. AnchorsOf(own)
  BY <1>7, <1>8, <1>9, <1>10, <1>11 DEF AnchorsOf
<1> QED
  BY <1>2, <1>12 DEF AnchorInv

\* Every step keeps the invariant, with the id's own number or the one
\* the step gives it.
LEMMA AnchorsStep == AnchorInv /\ [AnchorNext]_anchorVars => AnchorInv'
<1> SUFFICES ASSUME AnchorInv, [AnchorNext]_anchorVars
             PROVE  \E own \in [AnchorIds -> Nat \ {0}] : AnchorsOf(own)'
  BY DEF AnchorInv
<1>1. PICK own \in [AnchorIds -> Nat \ {0}] : AnchorsOf(own)
  BY DEF AnchorInv
<1>2. ASSUME NEW i \in AnchorIds, CommitStart(i)
      PROVE  \E other \in [AnchorIds -> Nat \ {0}] : AnchorsOf(other)'
  <2>1. home[i].n \in Nat \ {0}
    BY <1>1, <1>2 DEF AnchorsOf, AnchorShape, Homes, CapturedCached, CommitStart
  <2>2. PICK given \in [AnchorIds -> Nat \ {0}] : given = [own EXCEPT ![i] = home[i].n]
    BY <2>1
  <2> QED
    BY <1>1, <1>2, <2>2, CommitStartKeeps
<1>3. CASE UNCHANGED anchorVars
  <2>1. AnchorsOf(own)'
    BY <1>1, <1>3 DEF anchorVars, AnchorsOf, AnchorShape, Numbered, Untouched, CapturedCached,
                      RecordsBacked, AnchorsSound, Accepted, Resident
  <2> QED
    BY <2>1
<1>4. CASE \E i \in AnchorIds :
             \/ InsertStart(i) \/ RollbackStart(i) \/ SaveStart(i) \/ ObserveTransition(i) \/ GcAnchor(i)
             \/ \E r \in Lookups : TraceAnchor(r, i)
  BY <1>1, <1>4, InsertStartKeeps, RollbackStartKeeps, SaveStartKeeps, ObserveTransitionKeeps,
     GcAnchorKeeps, TraceAnchorKeeps
<1>5. CASE \/ \E w \in writes : StoreAnchor(w)
           \/ \E r \in Lookups : LookupAnchor(r) \/ LoadAnchor(r) \/ CacheLoaded(r)
  BY <1>1, <1>5, CacheLoadedKeeps, LoadAnchorKeeps, LookupAnchorKeeps, StoreAnchorKeeps
<1>6. CASE Upkeep \/ SweepScan \/ SweepCheck \/ SweepDelete \/ RestartAnchors
  BY <1>1, <1>6, EvictSessionsKeeps, ForgetAnchorsKeeps, PruneAnchorsKeeps, SweepScanKeeps,
     SweepCheckKeeps, SweepDeleteKeeps, RestartAnchorsKeeps DEF Upkeep
<1> QED
  BY <1>2, <1>3, <1>4, <1>5, <1>6 DEF AnchorNext

\* For any number of ids, spans, starts and restarts: a span is linked to the
\* start of its own session or to none, to its own where this process
\* accepted that start and the session is in memory, and the sweep takes no
\* record of a session that lives.
THEOREM AnchorsTheorem == AnchorSpec => []AnchorsSound
<1>1. AnchorInv => AnchorsSound
  BY DEF AnchorInv, AnchorsOf
<1> QED
  BY <1>1, AnchorsBegin, AnchorsStep, PTL DEF AnchorSpec
=============================================================================
