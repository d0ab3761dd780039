----------------------------- MODULE DurableLog -----------------------------
(***************************************************************************)
(* What StorageBackend's log operations promise their caller, the kernel   *)
(* (crates/macp-storage/src/storage/mod.rs): a log that grows at its end   *)
(* until it is replaced, from which nothing acknowledged is ever lost.  An *)
(* entry may be there before it is acknowledged, and stay although its     *)
(* append reported an error.                                               *)
(***************************************************************************)
EXTENDS Naturals, Sequences, SequencesExt

CONSTANT Entries

VARIABLES
    entries,   \* what load_log returns
    acked      \* the entries a caller was told are stored

vars == <<entries, acked>>

Init == entries = <<>> /\ acked = {}

Write ==
    /\ \E e \in Entries \ ToSet(entries) : entries' = Append(entries, e)
    /\ UNCHANGED acked

Ack ==
    /\ \E stored \in SUBSET ToSet(entries) : acked' = acked \cup stored
    /\ UNCHANGED entries

\* An entry that was not acknowledged may be gone after a failure.
Lose ==
    /\ \E n \in 0 .. Len(entries) :
          /\ acked \subseteq ToSet(SubSeq(entries, 1, n))
          /\ entries' = SubSeq(entries, 1, n)
    /\ UNCHANGED acked

\* replace_log: the checkpoint stands for everything before it.
Replace ==
    \E e \in Entries : entries' = <<e>> /\ acked' = {e}

Next == Write \/ Ack \/ Lose \/ Replace

Spec == Init /\ [][Next]_vars
=============================================================================
