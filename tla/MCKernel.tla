------------------------------ MODULE MCKernel ------------------------------
(***************************************************************************)
(* The kernel serving a handoff session: an owner, one target, one handoff *)
(* id, and the envelopes the two may send.                                 *)
(***************************************************************************)
EXTENDS KernelProps, Handoff

CONSTANTS
    Types,   \* the message types clients send in this run
    Ttl,     \* the ttl_ms of the SessionStart
    SuspendCap   \* the max_suspend_ms of the SessionStart

Client(i) == <<"client", i>>

Blank == [id |-> Client(0), type |-> "", sender |-> "owner", valid |-> TRUE, hid |-> "h1",
          target |-> "target", by |-> "", implicit |-> FALSE, action |-> "positive",
          outcome_positive |-> TRUE, timestamp |-> 0]

MCStart ==
    {[id |-> Client(1), type |-> "SessionStart", sender |-> "owner", valid |-> TRUE,
      timestamp |-> 0, ttl_ms |-> Ttl, max_suspend_ms |-> SuspendCap]}

Envelope(i, type, sender) == [Blank EXCEPT !.id = Client(i), !.type = type, !.sender = sender]

MCClient ==
    {e \in {Envelope(2, "HandoffOffer", "owner"),
            Envelope(3, "HandoffAccept", "target"),
            Envelope(4, "HandoffDecline", "target"),
            Envelope(5, "Commitment", "owner"),
            Envelope(6, "HandoffContext", "owner"),
            \* a client posing as the runtime, by id and by flag
            [Envelope(7, "HandoffAccept", "target") EXCEPT !.id = ImplicitAcceptId("h1")],
            [Envelope(8, "HandoffAccept", "target") EXCEPT !.implicit = TRUE, !.by = "target"]}
        : e.type \in Types}
=============================================================================
