----------------------------- MODULE MCRegistry -----------------------------
(* Two ids; a start that is sent twice, and one of another session.  One   *)
(* sender: every start counts towards the same limit.                      *)
EXTENDS Registry

MCStartOf ==
    [s \in Starts |->
        [id |-> IF s = "s3" THEN 2 ELSE 1, sender |-> "agent",
         message |-> IF s = "s3" THEN "m2" ELSE "m1"]]

Scenario(kind, sent, messages, pauses, ticks) ==
    [client |-> kind, starts |-> sent, messages |-> messages, pauses |-> pauses,
     ticks |-> ticks, faults |-> FALSE, durable |-> TRUE]

MCScenarios ==
    {Scenario("none", {"s1", "s2", "s3"}, 1, 1, 0),
     Scenario("none", {"s1", "s2"}, 1, 1, 1),
     Scenario("list", {"s1", "s3"}, 1, 0, 1),
     Scenario("watch", {"s1", "s2"}, 1, 0, 1),
     Scenario("receipt", {"s1", "s2"}, 1, 0, 1)}
    \cup {[Scenario("receipt", {"s1"}, 1, 0, 2) EXCEPT !.faults = TRUE, !.durable = d] : d \in BOOLEAN}

\* The retry of a start, and one pass of the collector.
MCClaimScenarios == {Scenario("none", {"s1", "s2"}, 1, 0, 1)}
=============================================================================
