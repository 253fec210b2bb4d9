-------------------------------- MODULE Session --------------------------------
(***************************************************************************)
(* A session file between the simulator that writes it and a reader that   *)
(* opens it at any time (src/engine/SessionReader.hpp): the engine, the    *)
(* analysis, or the tool that verifies sessions.                           *)
(***************************************************************************)
EXTENDS Simulator

VARIABLES
    rd_state,  \* "opening", "streaming", "ended" or "failed"
    rd_count,  \* record_count of the header read
    handed     \* the records next() returned, read_ of them

rdVars == <<rd_state, rd_count, handed>>
sessionVars == <<simVars, rdVars>>

SessionInit ==
    /\ Init
    /\ rd_state = "opening"
    /\ rd_count = 0
    /\ handed = <<>>

\* SessionReader(): a short header or one without a count is refused.
OpenSession ==
    /\ rd_state = "opening"
    /\ rd_count' = IF header = NoHeader THEN 0 ELSE header
    /\ rd_state' = IF rd_count' = 0 THEN "failed" ELSE "streaming"
    /\ UNCHANGED <<simVars, handed>>

\* next(): a record, the end, or a throw where the file is too short.
ReadRecord ==
    /\ rd_state = "streaming"
    /\ Len(handed) < rd_count
    /\ IF Len(handed) < disk
       THEN handed' = Append(handed, written[Len(handed) + 1]) /\ UNCHANGED rd_state
       ELSE rd_state' = "failed" /\ UNCHANGED handed
    /\ UNCHANGED <<simVars, rd_count>>

\* Mutant of EndOfSession: the end comes one record early.
EndOneEarly ==
    /\ rd_state = "streaming"
    /\ Len(handed) + 1 >= rd_count
    /\ rd_state' = "ended"
    /\ UNCHANGED <<simVars, rd_count, handed>>

EndOfSession ==
    /\ rd_state = "streaming"
    /\ Len(handed) >= rd_count
    /\ rd_state' = "ended"
    /\ UNCHANGED <<simVars, rd_count, handed>>

SimStep == SimNext /\ UNCHANGED rdVars
Next == SimStep \/ OpenSession \/ ReadRecord \/ EndOfSession

Spec == SessionInit /\ [][Next]_sessionVars
-----------------------------------------------------------------------------
QuoteRecords ==
    [seq : Nat, ts : 0..(Ticks - 1), book : Books, market : MarketIds, from : Unset..(Ticks - 1)]

\* The loop's indices, the rings, the buffers and the files hold what they
\* should, and no buffer is ever longer than its array.
TypeOK ==
    /\ stage \in {"generate", "flush", "patch", "close", "sidecars", "settle", "done", "dead"}
    /\ tick \in 0..Ticks /\ market \in MarketIds /\ book \in {0} \union Books
    /\ \A m \in MarketIds, b \in Books : write_idx[m][b] \in {tick, tick + 1}
    /\ seq_no \in [Books -> Nat] /\ final_latent \in [MarketIds -> Unset..(Ticks - 1)]
    /\ Len(buffer) < kBufferRecords
    /\ ToSet(buffer \o written \o made) \subseteq QuoteRecords
    /\ disk \in 0..Len(written) /\ header \in Nat \union {NoHeader}
    /\ cut \subseteq {"session", "truth", "jumps"}
    /\ rd_state \in {"opening", "streaming", "ended", "failed"}
    /\ ToSet(handed) \subseteq QuoteRecords

\* What the engine's table and the verifying tool take for granted of a feed:
\* each book numbers its records without gaps over all markets, time never
\* goes back, and a book's timestamps follow its numbers.
SessionInOrder ==
    \A i, j \in DOMAIN made : i < j =>
        /\ made[i].ts <= made[j].ts
        /\ made[i].book = made[j].book =>
              /\ made[i].seq < made[j].seq
              /\ \E k \in i..j : made[k].book = made[i].book /\ made[k].seq = made[i].seq + 1

\* A quote is computed from the distribution lag_ticks before it, or from the
\* first one: the ring never gives out one overwritten or not yet written.
QuotesLag ==
    \A i \in DOMAIN made :
        LET lag == Roster[made[i].book].lag
        IN made[i].from = IF made[i].ts >= lag THEN made[i].ts - lag ELSE 0

\* A reader that is not turned away at the header gets the whole session, in
\* order: whenever it opens the file and whenever the simulator dies.
AcceptedMeansComplete ==
    /\ rd_state = "failed" => handed = <<>>
    /\ rd_state \in {"streaming", "ended"} => rd_count = Len(made) /\ IsPrefix(handed, made)
    /\ rd_state = "ended" => handed = made

\* Truth, jump and settlement files have no count, a truncated one cannot be
\* told from a complete one. But where there is any settlement at all, the
\* records of the session are all there, and nothing short of a failed fclose(),
\* which the simulator overlooks, keeps its count, the truth or the jumps from
\* being complete: a kill or a failed write at whatever stage does not.
SettlementComesLast ==
    settlement # <<>> =>
        /\ disk = Len(made)
        /\ header = IF "session" \in cut THEN 0 ELSE Len(made)
        /\ "truth" \notin cut => Len(truth) = Markets * Ticks
        /\ "jumps" \notin cut => ToSet(jumps) = jumped
        /\ \A i \in DOMAIN settlement :
              settlement[i] = [market |-> i - 1, from |-> Ticks - 1]

Promised == INSTANCE RecordSource WITH
    Batches <- Seq(QuoteRecords),
    state <- rd_state,
    pending <- IF rd_state = "streaming" THEN SubSeq(written, Len(handed) + 1, rd_count) ELSE <<>>

\* A session reader implements the abstract source: the file is one batch.
ImplementsRecordSource == Promised!Spec
=============================================================================
