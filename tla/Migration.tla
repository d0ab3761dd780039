----------------------------- MODULE Migration ------------------------------
(***************************************************************************)
(* The move of a legacy data directory, one sessions.json and one          *)
(* logs.json for everything, to a directory per session                    *)
(* (crates/macp-storage/src/storage/migration.rs), which runs before the   *)
(* server does.  After a crash at any of its writes it starts over, except *)
(* the last one: storage_version.json is not written atomically, and a     *)
(* start that finds it cut short fails, until an operator removes it.      *)
(***************************************************************************)
EXTENDS Naturals, FiniteSets

CONSTANTS
    Layouts,       \* the legacy directories: the ids in sessions.json and in logs.json
    MaxRestarts    \* bound: how often the process dies in the migration

ASSUME MigrationConstants == MaxRestarts \in Nat

VARIABLES
    layout,      \* the legacy contents
    legacy,      \* the legacy files that still have their name
    dirs,        \* per session: which of its files are written, and whole
    made,        \* whether sessions/ exists
    version,     \* storage_version.json: absent, cut short or whole
    step,        \* where migrate_if_needed is
    todo,        \* what it has still to write
    restarts

migrationVars == <<layout, legacy, dirs, made, version, step, todo, restarts>>

Files == {"session.json", "log.jsonl"}
Legacy == {"sessions.json", "logs.json"}

\* The legacy file that a session's file is written from.
LegacyOf(file) == IF file = "session.json" THEN "sessions.json" ELSE "logs.json"

Held(file) == IF file = "session.json" THEN layout.sessions ELSE layout.logs

Ids == layout.sessions \cup layout.logs

MigrationInit ==
    /\ layout \in Layouts
    /\ legacy = {LegacyOf(f) : f \in {g \in Files : Held(g) # {}}}
    /\ dirs = [i \in Ids |-> [f \in Files |-> "none"]]
    /\ made = FALSE /\ version = "none" /\ step = "check" /\ todo = {} /\ restarts = 0

\* What the legacy files that are still there call for: both loops.
Pending ==
    {w \in Ids \X Files : LegacyOf(w[2]) \in legacy /\ w[1] \in Held(w[2])}

\* The version is read first, and the start fails when it does not parse.
ReadVersionFails ==
    /\ step = "check" /\ version = "torn"
    /\ step' = "failed"
    /\ UNCHANGED <<layout, legacy, dirs, made, version, todo, restarts>>

\* The early returns, with the version written where it is not current or
\* nothing is there yet, or the legacy files are read and sessions/ is made.
ReadLegacy ==
    /\ step = "check" /\ version # "torn"
    /\ IF legacy = {}
       THEN /\ step' = IF made /\ version = "whole" THEN "done" ELSE "version"
            /\ UNCHANGED <<made, todo>>
       ELSE made' = TRUE /\ step' = "write" /\ todo' = Pending
    /\ UNCHANGED <<layout, legacy, dirs, version, restarts>>

\* fs::write of one file, in any order of the map.
WriteFile(w) ==
    /\ step = "write" /\ w \in todo
    /\ dirs' = [dirs EXCEPT ![w[1]][w[2]] = "whole"]
    /\ todo' = todo \ {w}
    /\ UNCHANGED <<layout, legacy, made, version, step, restarts>>

\* Mutant: the backups are made before everything is written.
BackupEarly(f) ==
    /\ step = "write"
    /\ f \in legacy /\ (f = "logs.json" => "sessions.json" \notin legacy)
    /\ legacy' = legacy \ {f}
    /\ step' = IF legacy' = {} THEN "version" ELSE step
    /\ todo' = IF legacy' = {} THEN {} ELSE todo
    /\ UNCHANGED <<layout, dirs, made, version, restarts>>

\* The legacy file is renamed to its backup, sessions.json first.
Backup(f) ==
    /\ step = "write" /\ todo = {}
    /\ f \in legacy /\ (f = "logs.json" => "sessions.json" \notin legacy)
    /\ legacy' = legacy \ {f}
    /\ step' = IF legacy' = {} THEN "version" ELSE step
    /\ UNCHANGED <<layout, dirs, made, version, todo, restarts>>

\* write_storage_version, everything being moved.
WriteVersion ==
    /\ step = "version"
    /\ version' = "whole" /\ step' = "done"
    /\ UNCHANGED <<layout, legacy, dirs, made, todo, restarts>>

\* The process dies, in the middle of a write or between two, or ends because
\* its start failed.
MigrationDies ==
    /\ step # "done" /\ restarts < MaxRestarts
    /\ restarts' = restarts + 1
    /\ step' = "check" /\ todo' = {}
    /\ \/ UNCHANGED <<dirs, version>>
       \/ \E w \in todo :
            dirs' = [dirs EXCEPT ![w[1]][w[2]] = "torn"] /\ UNCHANGED version
       \/ step = "version" /\ version' = "torn" /\ UNCHANGED dirs
    /\ UNCHANGED <<layout, legacy, made>>

MigrationNext ==
    \/ ReadVersionFails \/ ReadLegacy \/ WriteVersion \/ MigrationDies
    \/ \E w \in Ids \X Files : WriteFile(w)
    \/ \E f \in Legacy : Backup(f)

MigrationSpec == MigrationInit /\ [][MigrationNext]_migrationVars

-----------------------------------------------------------------------------

\* A migration loses nothing (migrate_if_needed), however often it is cut
\* short: what a legacy file held is whole in the session's directory, or
\* the legacy file still has the name that the next start looks for.  Once
\* there is a version file, even one that fails every later start, all of it
\* is in the directories, so that removing the file is enough to start.
MigrationComplete ==
    \A i \in Ids, f \in Files :
        i \in Held(f) =>
            dirs[i][f] = "whole" \/ (version = "none" /\ step # "done" /\ LegacyOf(f) \in legacy)
=============================================================================
