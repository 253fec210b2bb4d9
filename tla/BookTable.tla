------------------------------ MODULE BookTable ------------------------------
(***************************************************************************)
(* The engine's quote table (src/engine/BookTable.hpp): one slot for each  *)
(* (market, book), gated by the per-slot sequence number of the feed.      *)
(* odds_milli[0 .. outcome_count) is the sequence odds.                     *)
(***************************************************************************)
EXTENDS Naturals

CONSTANTS
    MaxMarkets, MaxBooks, \* the template bounds of the table
    kEmptySeq,            \* the sentinel of a slot never written
    Updates,              \* the OddsUpdate records the feed may offer
    MaxRejections         \* bound: rejections TLC explores

ASSUME TableSize == MaxMarkets \in Nat /\ MaxBooks \in Nat

\* A record on the feed (src/proto/messages.hpp). Sequence numbers count up
\* from 0 and never reach the sentinel.
ASSUME UpdateFields ==
    /\ kEmptySeq \in Nat
    /\ MaxRejections \in Nat
    /\ \A u \in Updates :
          /\ u.seq_no \in 0..(kEmptySeq - 1)
          /\ u.sim_timestamp_ns \in Nat
          /\ u.market_id \in Nat
          /\ u.book_id \in Nat

\* What a producer promises of its own stream (src/sim/main.cpp, the tick
\* loop): a book's later record never carries an earlier timestamp.
ASSUME TimestampsFollowSeq ==
    \A u, v \in Updates :
        u.book_id = v.book_id /\ u.seq_no <= v.seq_no
            => u.sim_timestamp_ns <= v.sim_timestamp_ns

VARIABLES
    table,                 \* table[m][b], the Quote of market m at book b
    rejected_out_of_range, \* counter
    rejected_stale_seq,    \* counter
    offered                \* history: the in-range records offered so far

vars == <<table, rejected_out_of_range, rejected_stale_seq, offered>>

Markets == 0..(MaxMarkets - 1)
Books == 0..(MaxBooks - 1)

QuoteOf(u, recv_ns) ==
    [seq_no |-> u.seq_no, recv_timestamp_ns |-> recv_ns, odds |-> u.odds]

EmptyQuote == [seq_no |-> kEmptySeq, recv_timestamp_ns |-> 0, odds |-> <<>>]

Quotes == {EmptyQuote} \union {QuoteOf(u, u.sim_timestamp_ns) : u \in Updates}

InRange(u) == u.market_id < MaxMarkets /\ u.book_id < MaxBooks

\* Mutants of Advances: no gate at all; a gate a repeated number passes.
AdvancesAlways(u) == TRUE
AdvancesOrRepeats(u) ==
    LET slot == table[u.market_id][u.book_id]
    IN slot.seq_no = kEmptySeq \/ u.seq_no >= slot.seq_no

\* kEmptySeq marks an unwritten slot, which takes whatever comes first.
Advances(u) ==
    LET slot == table[u.market_id][u.book_id]
    IN slot.seq_no = kEmptySeq \/ u.seq_no > slot.seq_no

Init ==
    /\ table = [m \in Markets |-> [b \in Books |-> EmptyQuote]]
    /\ rejected_out_of_range = 0
    /\ rejected_stale_seq = 0
    /\ offered = {}

RejectOutOfRange(u) ==
    /\ ~InRange(u)
    /\ rejected_out_of_range' = rejected_out_of_range + 1
    /\ UNCHANGED <<table, rejected_stale_seq, offered>>

RejectStaleSeq(u) ==
    /\ InRange(u)
    /\ ~Advances(u)
    /\ rejected_stale_seq' = rejected_stale_seq + 1
    /\ offered' = offered \union {u}
    /\ UNCHANGED <<table, rejected_out_of_range>>

\* Mutant of Accept: the receive timestamp is not written.
AcceptKeepsStamp(u, recv_ns) ==
    /\ InRange(u)
    /\ Advances(u)
    /\ table' = [table EXCEPT ![u.market_id][u.book_id] =
                    QuoteOf(u, table[u.market_id][u.book_id].recv_timestamp_ns)]
    /\ offered' = offered \union {u}
    /\ UNCHANGED <<rejected_out_of_range, rejected_stale_seq>>

Accept(u, recv_ns) ==
    /\ InRange(u)
    /\ Advances(u)
    /\ table' = [table EXCEPT ![u.market_id][u.book_id] = QuoteOf(u, recv_ns)]
    /\ offered' = offered \union {u}
    /\ UNCHANGED <<rejected_out_of_range, rejected_stale_seq>>

\* apply(): exactly one of its three results, whatever arrives.
Apply(u, recv_ns) ==
    RejectOutOfRange(u) \/ RejectStaleSeq(u) \/ Accept(u, recv_ns)

\* is_stale() on a quote. A clock behind the quote is not yet stale.
QuoteIsStale(q, now_ns, stale_after_ns) ==
    \/ q.seq_no = kEmptySeq
    \/ now_ns > q.recv_timestamp_ns /\ now_ns - q.recv_timestamp_ns >= stale_after_ns

is_stale(m, b, now_ns, stale_after_ns) ==
    QuoteIsStale(table[m][b], now_ns, stale_after_ns)

\* The engine stamps a quote with the feed's own time (src/engine/main.cpp).
Next ==
    /\ rejected_out_of_range + rejected_stale_seq < MaxRejections
    /\ \E u \in Updates : Apply(u, u.sim_timestamp_ns)

Spec == Init /\ [][Next]_vars
-----------------------------------------------------------------------------
\* Every slot holds the empty quote or one the feed can have written.
TypeOK ==
    /\ table \in [Markets -> [Books -> Quotes]]
    /\ rejected_out_of_range \in Nat
    /\ rejected_stale_seq \in Nat
    /\ offered \subseteq {u \in Updates : InRange(u)}

OfferedTo(m, b) == {u \in offered : u.market_id = m /\ u.book_id = b}

\* Whatever the order, loss or repetition of what arrived, a slot shows the
\* newest record offered to it, and is empty only if none was: apply() lets a
\* delayed or replayed record neither displace a newer one nor clear a slot.
NewestWins ==
    \A m \in Markets, b \in Books :
        \/ OfferedTo(m, b) = {} /\ table[m][b] = EmptyQuote
        \/ \E u \in OfferedTo(m, b) :
              /\ table[m][b] = QuoteOf(u, u.sim_timestamp_ns)
              /\ \A v \in OfferedTo(m, b) : v.seq_no <= u.seq_no

\* A step of apply() never replaces a written quote by one that is not newer,
\* so of two records with one sequence number the first to arrive stands.
NeverStepsBack ==
    [][\A m \in Markets, b \in Books :
          table'[m][b] # table[m][b] =>
              \/ table[m][b] = EmptyQuote
              \/ table'[m][b].seq_no > table[m][b].seq_no]_vars

\* A quote that is fresh stays fresh when another record is applied: what
\* arrives late can cost a slot neither its price nor its age, at any clock
\* reading and under any staleness threshold.
FreshStaysFresh ==
    [][\A m \in Markets, b \in Books,
          now_ns \in {u.sim_timestamp_ns : u \in Updates},
          stale_after_ns \in {u.sim_timestamp_ns : u \in Updates} :
          QuoteIsStale(table'[m][b], now_ns, stale_after_ns)
              => QuoteIsStale(table[m][b], now_ns, stale_after_ns)]_vars
=============================================================================
