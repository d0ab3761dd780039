------------------------------ MODULE FileLog ------------------------------
(***************************************************************************)
(* The file backend's log of one session, log.jsonl                        *)
(* (crates/macp-storage/src/storage/file.rs): one JSON line per entry,     *)
(* appended and synced, and replaced as a whole by compaction.             *)
(*                                                                         *)
(* The file is a sequence of chunks, one per write.  A chunk is "whole"    *)
(* when the line and its newline were written, "bare" when only the        *)
(* newline is missing, "head" when the JSON itself is cut short, and       *)
(* "split" when the cut is inside a character of several bytes.  A write   *)
(* is cut short by a full disk, by the death of the process or by a loss   *)
(* of power.                                                               *)
(***************************************************************************)
EXTENDS Naturals, Sequences, FiniteSets, SequencesExt

CONSTANTS
    MaxEntries,    \* bound: the number of entries ever written
    FaultModels    \* what may happen to a log, subsets of Faults

Faults ==
    {"torn",       \* a write may be cut short
     "power",      \* the host may lose power
     "compacts"}   \* the log may be replaced

ASSUME FileLogConstants == MaxEntries \in Nat /\ FaultModels \subseteq SUBSET Faults

VARIABLES
    faults,   \* the faults of this behaviour
    file,     \* the chunks a reader of the file sees
    synced,   \* how many of them are on stable storage
    prior,    \* what the name may denote again if a rename is lost
    pc,       \* where the operation in flight is
    next,     \* the next entry
    acked     \* history: the entries a caller was told are stored

fileVars == <<faults, file, synced, prior, pc, next, acked>>

Chunk(e, part) == [entry |-> e, part |-> part]

\* What is left of a write that was cut short.
Cuts == {"bare", "head", "split"}

Idle == [step |-> "idle"]

FileInit ==
    /\ faults \in FaultModels
    /\ file = <<>> /\ synced = 0 /\ prior = {} /\ pc = Idle
    /\ next = 1 /\ acked = {}

\* load_log reads the file as a whole, as text: where a character was cut
\* through, whatever was written behind it, the read fails, and so does the
\* load.
LoadFails(f) == \E i \in 1 .. Len(f) : f[i].part = "split"

\* A line is parsed as a whole and skipped when it does not parse.  So a
\* chunk is an entry when it starts a line and is that line: an append behind
\* an unfinished line is glued to it, and neither parses.
Parses(f, i) ==
    /\ i = 1 \/ f[i - 1].part = "whole"
    /\ f[i].part = "whole" \/ (f[i].part = "bare" /\ i = Len(f))

\* Mutant: loading stops at the first line that does not parse.
LoadLogStops(f) ==
    SelectSeq([i \in 1 .. Len(f) |-> f[i].entry],
              LAMBDA e : \A i \in 1 .. Len(f) :
                  (\E j \in i .. Len(f) : f[j].entry = e) => Parses(f, i))

\* The entries of the lines that parse, in their order.
Lines(f) == {i \in 1 .. Len(f) : Parses(f, i)}

\* What recover_sessions has of the session: a log that cannot be loaded is
\* skipped with a warning, as an empty one is.
LoadLog(f) ==
    IF LoadFails(f) THEN <<>>
    ELSE [k \in 1 .. Cardinality(Lines(f)) |->
             f[CHOOSE i \in Lines(f) : Cardinality({j \in Lines(f) : j <= i}) = k].entry]

-----------------------------------------------------------------------------
(* append_log_entry: write_all, then sync_data.                            *)

AppendWrite ==
    /\ pc = Idle /\ next <= MaxEntries
    /\ file' = Append(file, Chunk(next, "whole"))
    /\ pc' = [step |-> "sync", entry |-> next]
    /\ next' = next + 1
    /\ UNCHANGED <<faults, synced, prior, acked>>

\* The disk is full: the write returns an error behind what it wrote.
AppendTorn ==
    /\ "torn" \in faults
    /\ pc = Idle /\ next <= MaxEntries
    /\ \E part \in Cuts : file' = Append(file, Chunk(next, part))
    /\ next' = next + 1
    /\ UNCHANGED <<faults, synced, prior, pc, acked>>

\* A sync also settles the rename before it.
Sync ==
    /\ pc.step = "sync"
    /\ synced' = Len(file) /\ prior' = {}
    /\ acked' = acked \cup {pc.entry}
    /\ pc' = Idle
    /\ UNCHANGED <<faults, file, next>>

SyncFails ==
    /\ pc.step = "sync"
    /\ pc' = Idle
    /\ UNCHANGED <<faults, file, synced, prior, next, acked>>

-----------------------------------------------------------------------------
(* replace_log, as compact_session_log calls it: the temporary file with   *)
(* the checkpoint, then the rename.  Nothing is synced.                    *)

\* Mutant: the log is rewritten in place.
ReplaceWriteInPlace ==
    /\ "compacts" \in faults
    /\ pc = Idle /\ next <= MaxEntries
    /\ file' = <<>> /\ synced' = 0
    /\ pc' = [step |-> "rename", entry |-> next]
    /\ next' = next + 1
    /\ UNCHANGED <<faults, prior, acked>>

ReplaceWrite ==
    /\ "compacts" \in faults
    /\ pc = Idle /\ next <= MaxEntries
    /\ pc' = [step |-> "rename", entry |-> next]
    /\ next' = next + 1
    /\ UNCHANGED <<faults, file, synced, prior, acked>>

ReplaceRename ==
    /\ pc.step = "rename"
    /\ file' = <<Chunk(pc.entry, "whole")>> /\ synced' = 0
    /\ prior' = {SubSeq(file, 1, synced)} \cup prior
    /\ acked' = {pc.entry}
    /\ pc' = Idle
    /\ UNCHANGED <<faults, next>>

ReplaceFails ==
    /\ pc.step = "rename"
    /\ pc' = Idle
    /\ UNCHANGED <<faults, file, synced, prior, next, acked>>

-----------------------------------------------------------------------------
(* Failures.                                                               *)

Crash ==
    /\ pc.step # "down"
    /\ pc' = [step |-> "down"]
    /\ UNCHANGED <<faults, file, synced, prior, next, acked>>

\* The system call of a dying process is cut short.
CrashTorn ==
    /\ "torn" \in faults
    /\ pc.step = "sync"
    /\ \E part \in Cuts : file' = [file EXCEPT ![Len(file)].part = part]
    /\ pc' = [step |-> "down"]
    /\ UNCHANGED <<faults, synced, prior, next, acked>>

\* Power is lost: what was not synced may be gone, from some point on.
PowerLoss ==
    /\ "power" \in faults
    /\ pc.step # "down"
    /\ \/ \E n \in synced .. Len(file) : file' = SubSeq(file, 1, n)
       \/ file' \in prior
    /\ synced' = Len(file') /\ prior' = {}
    /\ pc' = [step |-> "down"]
    /\ UNCHANGED <<faults, next, acked>>

\* The write at that point is itself cut short.
PowerLossTorn ==
    /\ {"power", "torn"} \subseteq faults
    /\ pc.step # "down"
    /\ \E n \in synced + 1 .. Len(file), part \in Cuts :
          /\ file[n].part = "whole"
          /\ file' = Append(SubSeq(file, 1, n - 1), Chunk(file[n].entry, part))
    /\ synced' = Len(file') /\ prior' = {}
    /\ pc' = [step |-> "down"]
    /\ UNCHANGED <<faults, next, acked>>

\* cleanup_temp_files and the load of recover_sessions.  The unfinished line
\* at the end stays where it is.
Recover ==
    /\ pc.step = "down"
    /\ pc' = Idle
    /\ UNCHANGED <<faults, file, synced, prior, next, acked>>

FileNext ==
    \/ AppendWrite \/ AppendTorn \/ Sync \/ SyncFails
    \/ ReplaceWrite \/ ReplaceRename \/ ReplaceFails
    \/ Crash \/ CrashTorn \/ PowerLoss \/ PowerLossTorn \/ Recover

FileSpec == FileInit /\ [][FileNext]_fileVars

-----------------------------------------------------------------------------
(* What the log promises.                                                  *)

\* What an acknowledged entry can be lost to: a write that was cut inside a
\* character, which makes the whole file unreadable (read_to_string of
\* load_log), or the write right before it, cut short so that the two are one
\* line.  No other crash, failed sync, loss of power or compaction costs any
\* entry that append_log_entry or replace_log answered for, before a cut or
\* further behind it.
TearCost ==
    \A e \in acked \ ToSet(LoadLog(file)) :
        \/ LoadFails(file)
        \/ \E i \in 2 .. Len(file) : file[i] = Chunk(e, "whole") /\ file[i - 1].part # "whole"

\* Where nothing is cut short and the power stays on.
Intact == faults \subseteq {"compacts"}

\* There, the file is the log the kernel relies on.
Abstract == INSTANCE DurableLog WITH
    Entries <- 1 .. MaxEntries,
    entries <- IF Intact THEN LoadLog(file) ELSE <<>>,
    acked <- IF Intact THEN acked ELSE {}

ImplementsDurableLog == Abstract!Spec

\* docs/deployment.md, the durability matrix, for the file backend: what was
\* acknowledged survives a process crash and a loss of power.
AckedLoaded == acked \subseteq ToSet(LoadLog(file))
=============================================================================
