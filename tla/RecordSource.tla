----------------------------- MODULE RecordSource -----------------------------
(***************************************************************************)
(* What the engine's loop may rely on when it calls next() on a source,    *)
(* whichever it is: records come in the batches the producer formed, each  *)
(* batch in its own order, and after the end there is nothing more.        *)
(***************************************************************************)
EXTENDS Sequences

CONSTANT Batches \* the batches a producer may form

VARIABLES
    state,    \* "opening", "streaming", "ended" or "failed"
    pending,  \* the part of the current batch not handed out yet
    handed    \* the records next() has returned

rsVars == <<state, pending, handed>>

Init == state = "opening" /\ pending = <<>> /\ handed = <<>>

\* The source learns the shape of the feed, and may have records at once.
Start ==
    /\ state = "opening"
    /\ state' = "streaming"
    /\ pending' = <<>> \/ pending' \in Batches
    /\ UNCHANGED handed

Fetch ==
    /\ state = "streaming"
    /\ pending = <<>>
    /\ pending' \in Batches
    /\ UNCHANGED <<state, handed>>

Return ==
    /\ state = "streaming"
    /\ pending # <<>>
    /\ handed' = Append(handed, Head(pending))
    /\ pending' = Tail(pending)
    /\ UNCHANGED state

Stop ==
    /\ state \in {"opening", "streaming"}
    /\ pending = <<>>
    /\ state' \in (IF state = "opening" THEN {"failed"} ELSE {"ended", "failed"})
    /\ UNCHANGED <<pending, handed>>

Next == Start \/ Fetch \/ Return \/ Stop

Spec == Init /\ [][Next]_rsVars
=============================================================================
