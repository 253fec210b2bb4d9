------------------------------ MODULE Validation ------------------------------
(***************************************************************************)
(* The comparison of quotes with the probabilities behind them             *)
(* (src/tools/validate_devig.cpp with src/engine/TruthReader.hpp), on the  *)
(* files of a simulator that may still be writing them.                    *)
(***************************************************************************)
EXTENDS Session

VARIABLES
    va_stage,  \* "off", "truth", "compare", "done" or "failed"
    lag_ticks, \* the option --lag
    index,     \* the keys of TruthReader's index
    matched,   \* the pairs of a quote and a truth record that were compared
    unmatched

vaVars == <<va_stage, lag_ticks, index, matched, unmatched>>

ValidationInit ==
    /\ va_stage = "off"
    /\ lag_ticks = 0 /\ index = {} /\ matched = {} /\ unmatched = 0

\* The session is opened first.
StartValidation ==
    /\ va_stage = "off"
    /\ OpenSession
    /\ va_stage' = IF rd_state' = "failed" THEN "failed" ELSE "truth"
    /\ lag_ticks' \in 0..(kMaxLag - 1)
    /\ UNCHANGED <<index, matched, unmatched>>

\* TruthReader(): whole records up to wherever the file ends, and an error if
\* there is none.
LoadTruth ==
    /\ va_stage = "truth"
    /\ \E found \in OnDisk(truth, stage \in {"settle", "done"}) :
          /\ index' = ToSet(found)
          /\ va_stage' = IF found = <<>> THEN "failed" ELSE "compare"
    /\ UNCHANGED <<sessionVars, lag_ticks, matched, unmatched>>

\* Mutant of TruthKey: the quote's own tick.
KeyOfQuote(r) == [tick |-> r.ts, market |-> r.market]

\* Truth is looked up where the quote was computed, if the lag is its book's.
TruthKey(r) == [tick |-> r.ts - lag_ticks, market |-> r.market]

\* A quote before the lag or without a truth record is counted and skipped.
Compare(r) ==
    IF r.ts >= lag_ticks /\ TruthKey(r) \in index
    THEN matched' = matched \union {[quote |-> r, tick |-> TruthKey(r).tick]} /\ UNCHANGED unmatched
    ELSE unmatched' = unmatched + 1 /\ UNCHANGED matched

CompareRecord ==
    /\ va_stage = "compare"
    /\ ReadRecord
    /\ IF rd_state' = "failed"
       THEN va_stage' = "failed" /\ UNCHANGED <<matched, unmatched>>
       ELSE Compare(Last(handed')) /\ UNCHANGED va_stage
    /\ UNCHANGED <<lag_ticks, index>>

\* Without a single match the tool reports an error.
EndOfComparison ==
    /\ va_stage = "compare"
    /\ EndOfSession
    /\ va_stage' = IF matched = {} THEN "failed" ELSE "done"
    /\ UNCHANGED <<lag_ticks, index, matched, unmatched>>

ValidationNext == StartValidation \/ LoadTruth \/ CompareRecord \/ EndOfComparison
-----------------------------------------------------------------------------
\* What makes the reported error that of the devig method alone: a book's quotes
\* are compared with the very distributions they were computed from when --lag
\* is its lag. And left out are just the quotes before the lag and those whose
\* truth record is past the end of a file cut short, all of them counted.
ValidationIsExact ==
    /\ \A pair \in matched :
          Roster[pair.quote.book].lag = lag_ticks => pair.tick = pair.quote.from
    /\ va_stage = "done" =>
          /\ Cardinality(matched) + unmatched = Len(made)
          /\ \A r \in ToSet(made) :
                (\E pair \in matched : pair.quote = r)
                   <=> r.ts - lag_ticks \in 0..((Cardinality(index) - r.market - 1) \div Markets)
=============================================================================
