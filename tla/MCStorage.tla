----------------------------- MODULE MCStorage ------------------------------
(***************************************************************************)
(* Model checking what lies between the kernel and the disk, and the       *)
(* process around them: the bytes of the file backend's log, the four      *)
(* backends, the migration of a legacy data directory, the process's       *)
(* startup and shutdown, and the trace anchors.                            *)
(*                                                                         *)
(* The five share nothing, so each behaviour is of one of them, chosen     *)
(* once (part); the others rest where they began.                          *)
(***************************************************************************)
EXTENDS FileLog, Backends, Migration, Lifecycle, Anchors

VARIABLE part

CONSTANTS Parts   \* the machines to check

\* One legacy directory for each choice of the ids that its two files hold.
MCLayouts == [sessions : SUBSET {"s", "t"}, logs : SUBSET {"s", "t"}]

MCFaultModels == {{"torn", "power"}, {"torn", "compacts"}, {"compacts"}}

-----------------------------------------------------------------------------
(* The environments: a sound one, and its variations.                      *)

Sound ==
    [bad_value |-> FALSE, dry_run |-> FALSE, memory_only |-> FALSE, insecure |-> FALSE,
     cert |-> TRUE, key |-> TRUE, tokens |-> "some", issuer |-> FALSE, jwks |-> "unset",
     http |-> "ok", bad_origin |-> FALSE, public_url |-> "https",
     page_default |-> Unset, page_max |-> Unset, max_payload |-> 4, max_body |-> 0,
     max_connections |-> 1, fails |-> {}]

With(f, values) == {[Sound EXCEPT ![f] = v] : v \in values}

MCTrafficked == With("memory_only", BOOLEAN)

MCEnvironments ==
    MCTrafficked
    \cup With("bad_value", {TRUE}) \cup With("dry_run", {TRUE})
    \cup With("http", {"unset", "bad", "collides"})
    \cup With("bad_origin", {TRUE}) \cup With("public_url", {"http", "bad", "unset"})
    \cup With("max_payload", 0 .. 20) \cup With("max_body", {5, 8, 20})
    \cup With("max_connections", {0})
    \cup {[Sound EXCEPT !.page_default = d, !.page_max = m] : d, m \in {-2, -1, 0, 1, 2, 3, 5}}
    \cup {[Sound EXCEPT !.tokens = t, !.issuer = i, !.jwks = j, !.insecure = o] :
            t \in {"unset", "some", "empty", "malformed"}, i \in BOOLEAN,
            j \in {"unset", "inline", "broken", "url"}, o \in BOOLEAN}
    \cup {[Sound EXCEPT !.cert = c, !.key = k, !.insecure = o] : c, k, o \in BOOLEAN}
    \cup {[Sound EXCEPT !.fails = {StartupStages[i]}, !.dry_run = d] :
            i \in 3 .. Len(StartupStages), d \in BOOLEAN}

-----------------------------------------------------------------------------

\* Where a machine rests that is not the one checked.
FileRests == FileInit /\ faults = {"compacts"}
BackendRests == BackendInit /\ kind = "memory"
MigrationRests == MigrationInit /\ layout = [sessions |-> {}, logs |-> {}]
LifecycleRests ==
    /\ env = Sound /\ phase = "exited" /\ stage = 1 /\ exit = "none" /\ signals = 0
    /\ acceptor = "absent" /\ permits = env.max_connections
    /\ conn = [c \in Connections |-> Free]
    /\ session = [logged |-> 0, memory |-> 0, acked |-> 0, saved |-> 0]
    /\ holder = "nobody" /\ clone = 0
AnchorRests == NothingTraced /\ ~creates /\ upkeep = [pc |-> "off", gone |-> {}]

Init ==
    /\ part \in Parts
    /\ IF part = "file" THEN FileInit ELSE FileRests
    /\ IF part = "backend" THEN BackendInit ELSE BackendRests
    /\ IF part = "migration" THEN MigrationInit ELSE MigrationRests
    /\ IF part = "process" THEN LifecycleInit ELSE LifecycleRests
    /\ IF part = "anchors" THEN AnchorInit ELSE AnchorRests

Next ==
    /\ UNCHANGED part
    /\ \/ part = "file" /\ FileNext /\ UNCHANGED <<backendVars, migrationVars, lifecycleVars, anchorVars>>
       \/ part = "backend" /\ BackendNext /\ UNCHANGED <<fileVars, migrationVars, lifecycleVars, anchorVars>>
       \/ part = "migration" /\ MigrationNext /\ UNCHANGED <<fileVars, backendVars, lifecycleVars, anchorVars>>
       \/ part = "process" /\ LifecycleNext /\ UNCHANGED <<fileVars, backendVars, migrationVars, anchorVars>>
       \/ part = "anchors" /\ AnchorNext
            /\ UNCHANGED <<fileVars, backendVars, migrationVars, lifecycleVars>>

vars == <<part, fileVars, backendVars, migrationVars, lifecycleVars, anchorVars>>

Spec == Init /\ [][Next]_vars /\ LifecycleFairness /\ AnchorFairness
=============================================================================
