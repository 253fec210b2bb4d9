--------------------------- MODULE BookTableProofs ---------------------------
(***************************************************************************)
(* What the quote table guarantees for every size of the table and every   *)
(* set of records a well-behaved producer may put on the feed.             *)
(***************************************************************************)
EXTENDS BookTable, TLAPS

\* Only an unwritten slot carries the sentinel: the numbers of real records
\* stay below it, so kEmptySeq is as good as a separate "valid" flag.
LEMMA SentinelMeansEmpty ==
    ASSUME NEW q \in Quotes, q.seq_no = kEmptySeq
    PROVE  q = EmptyQuote
<1>1. ASSUME NEW u \in Updates, q = QuoteOf(u, u.sim_timestamp_ns)
      PROVE  FALSE
  <2>1. u.seq_no \in 0..(kEmptySeq - 1) /\ kEmptySeq \in Nat
    BY UpdateFields
  <2>2. q.seq_no = u.seq_no
    BY <1>1 DEF QuoteOf
  <2> QED
    BY <2>1, <2>2
<1> QED
  BY <1>1 DEF Quotes

\* The slot of a record in range is a slot of the table.
LEMMA SlotOfRecord ==
    ASSUME NEW u \in Updates, InRange(u)
    PROVE  u.market_id \in Markets /\ u.book_id \in Books
BY UpdateFields, TableSize DEF InRange, Markets, Books

\* An operation leaves a slot holding nothing but the empty quote or one written
\* whole from a record of the feed.
LEMMA ApplyKeepsTypes ==
    ASSUME TypeOK, NEW u \in Updates, Apply(u, u.sim_timestamp_ns)
    PROVE  TypeOK'
<1>1. CASE RejectOutOfRange(u)
  BY <1>1 DEF TypeOK, RejectOutOfRange
<1>2. CASE RejectStaleSeq(u)
  BY <1>2 DEF TypeOK, RejectStaleSeq
<1>3. CASE Accept(u, u.sim_timestamp_ns)
  <2>1. u.market_id \in Markets /\ u.book_id \in Books
    BY <1>3, SlotOfRecord DEF Accept
  <2>2. QuoteOf(u, u.sim_timestamp_ns) \in Quotes
    BY DEF Quotes
  <2>3. table' \in [Markets -> [Books -> Quotes]]
    BY <1>3, <2>1, <2>2 DEF TypeOK, Accept
  <2> QED
    BY <1>3, <2>3 DEF TypeOK, Accept
<1> QED
  BY <1>1, <1>2, <1>3 DEF Apply

\* Type correctness of the table, whatever the feed offers it.
THEOREM TypeCorrect == Spec => []TypeOK
<1>1. Init => TypeOK
  BY TableSize DEF Init, TypeOK, Quotes
<1>2. TypeOK /\ [Next]_vars => TypeOK'
  BY ApplyKeepsTypes DEF Next, TypeOK, vars
<1> QED
  BY <1>1, <1>2, PTL DEF Spec
-----------------------------------------------------------------------------
\* A record refused as stale is no newer than what its slot already shows.
LEMMA RefusedIsOlder ==
    ASSUME TypeOK, NewestWins, NEW u \in Updates, RejectStaleSeq(u)
    PROVE  \E w \in OfferedTo(u.market_id, u.book_id) :
              /\ table[u.market_id][u.book_id] = QuoteOf(w, w.sim_timestamp_ns)
              /\ \A v \in OfferedTo(u.market_id, u.book_id) : v.seq_no <= w.seq_no
              /\ u.seq_no <= w.seq_no
<1> DEFINE m == u.market_id
           b == u.book_id
<1>1. m \in Markets /\ b \in Books
  BY SlotOfRecord DEF RejectStaleSeq
<1>2. table[m][b].seq_no # kEmptySeq /\ ~(u.seq_no > table[m][b].seq_no)
  BY DEF RejectStaleSeq, Advances
<1>3. table[m][b] # EmptyQuote
  BY <1>2 DEF EmptyQuote
<1>4. PICK w \in OfferedTo(m, b) :
         /\ table[m][b] = QuoteOf(w, w.sim_timestamp_ns)
         /\ \A v \in OfferedTo(m, b) : v.seq_no <= w.seq_no
  BY <1>1, <1>3 DEF NewestWins
<1>5. w \in Updates
  BY DEF TypeOK, OfferedTo
<1>6. table[m][b].seq_no = w.seq_no
  BY <1>4 DEF QuoteOf
<1>7. u.seq_no <= w.seq_no
  BY <1>2, <1>5, <1>6, UpdateFields
<1> QED
  BY <1>4, <1>7

\* A record that is applied is strictly newer than all its slot was offered.
LEMMA AppliedIsNewest ==
    ASSUME TypeOK, NewestWins, NEW u \in Updates, Accept(u, u.sim_timestamp_ns)
    PROVE  \A v \in OfferedTo(u.market_id, u.book_id) : v.seq_no < u.seq_no
<1> DEFINE m == u.market_id
           b == u.book_id
<1>1. m \in Markets /\ b \in Books
  BY SlotOfRecord DEF Accept
<1>2. CASE OfferedTo(m, b) = {}
  BY <1>2
<1>3. CASE OfferedTo(m, b) # {}
  <2>1. PICK w \in OfferedTo(m, b) :
           /\ table[m][b] = QuoteOf(w, w.sim_timestamp_ns)
           /\ \A v \in OfferedTo(m, b) : v.seq_no <= w.seq_no
    BY <1>1, <1>3 DEF NewestWins
  <2>2. w \in Updates /\ OfferedTo(m, b) \subseteq Updates
    BY DEF TypeOK, OfferedTo
  <2>3. table[m][b].seq_no = w.seq_no
    BY <2>1 DEF QuoteOf
  <2>4. w.seq_no # kEmptySeq
    BY <2>2, UpdateFields
  <2>5. u.seq_no > w.seq_no
    BY <2>3, <2>4 DEF Accept, Advances
  <2>6. \A x \in Updates : x.seq_no \in Nat
    BY UpdateFields
  <2> QED
    BY <2>1, <2>2, <2>5, <2>6
<1> QED
  BY <1>2, <1>3

\* An operation leaves each slot with the newest of what it was offered.
LEMMA ApplyKeepsNewest ==
    ASSUME TypeOK, NewestWins, NEW u \in Updates, Apply(u, u.sim_timestamp_ns)
    PROVE  NewestWins'
<1> SUFFICES ASSUME NEW m \in Markets, NEW b \in Books
             PROVE  \/ OfferedTo(m, b)' = {} /\ (table[m][b] = EmptyQuote)'
                    \/ \E v \in OfferedTo(m, b)' :
                          /\ table'[m][b] = QuoteOf(v, v.sim_timestamp_ns)
                          /\ \A w \in OfferedTo(m, b)' : w.seq_no <= v.seq_no
  BY DEF NewestWins
<1> DEFINE Holds ==
      \/ OfferedTo(m, b) = {} /\ table[m][b] = EmptyQuote
      \/ \E v \in OfferedTo(m, b) :
            /\ table[m][b] = QuoteOf(v, v.sim_timestamp_ns)
            /\ \A w \in OfferedTo(m, b) : w.seq_no <= v.seq_no
<1>0. Holds
  BY DEF NewestWins
<1>1. CASE RejectOutOfRange(u)
  BY <1>0, <1>1 DEF RejectOutOfRange, OfferedTo
<1>2. CASE RejectStaleSeq(u)
  <2>1. table' = table /\ offered' = offered \union {u}
    BY <1>2 DEF RejectStaleSeq
  <2>2. CASE u.market_id = m /\ u.book_id = b
    <3>1. PICK w \in OfferedTo(m, b) :
             /\ table[m][b] = QuoteOf(w, w.sim_timestamp_ns)
             /\ \A v \in OfferedTo(m, b) : v.seq_no <= w.seq_no
             /\ u.seq_no <= w.seq_no
      BY <1>2, <2>2, RefusedIsOlder
    <3>2. OfferedTo(m, b)' = OfferedTo(m, b) \union {u}
      BY <2>1, <2>2 DEF OfferedTo
    <3> QED
      BY <2>1, <3>1, <3>2
  <2>3. CASE ~(u.market_id = m /\ u.book_id = b)
    <3>1. OfferedTo(m, b)' = OfferedTo(m, b)
      BY <2>1, <2>3 DEF OfferedTo
    <3> QED
      BY <1>0, <2>1, <3>1
  <2> QED
    BY <2>2, <2>3
<1>3. CASE Accept(u, u.sim_timestamp_ns)
  <2>1. /\ table' = [table EXCEPT ![u.market_id][u.book_id] = QuoteOf(u, u.sim_timestamp_ns)]
        /\ offered' = offered \union {u}
    BY <1>3 DEF Accept
  <2>2. CASE u.market_id = m /\ u.book_id = b
    <3>1. table'[m][b] = QuoteOf(u, u.sim_timestamp_ns)
      BY <2>1, <2>2 DEF TypeOK
    <3>2. OfferedTo(m, b)' = OfferedTo(m, b) \union {u}
      BY <2>1, <2>2 DEF OfferedTo
    <3>3. \A v \in OfferedTo(m, b) : v.seq_no <= u.seq_no
      <4>1. \A v \in OfferedTo(m, b) : v.seq_no < u.seq_no
        BY <1>3, <2>2, AppliedIsNewest
      <4>2. OfferedTo(m, b) \subseteq Updates
        BY DEF TypeOK, OfferedTo
      <4> QED
        BY <4>1, <4>2, UpdateFields
    <3>4. u.seq_no <= u.seq_no
      BY UpdateFields
    <3> QED
      BY <3>1, <3>2, <3>3, <3>4
  <2>3. CASE ~(u.market_id = m /\ u.book_id = b)
    <3>1. OfferedTo(m, b)' = OfferedTo(m, b)
      BY <2>1, <2>3 DEF OfferedTo
    <3>2. table'[m][b] = table[m][b]
      BY <2>1, <2>3 DEF TypeOK
    <3> QED
      BY <1>0, <3>1, <3>2
  <2> QED
    BY <2>2, <2>3
<1> QED
  BY <1>1, <1>2, <1>3 DEF Apply

\* A slot shows the newest record offered to it, whatever arrived, in whatever
\* order and however often (apply()).
THEOREM NewestWinsHolds == Spec => []NewestWins
<1>1. Init => NewestWins
  BY DEF Init, NewestWins, OfferedTo
<1>2. TypeOK /\ NewestWins /\ [Next]_vars => NewestWins'
  <2>1. CASE UNCHANGED vars
    BY <2>1 DEF NewestWins, OfferedTo, vars
  <2> QED
    BY <2>1, ApplyKeepsNewest DEF Next
<1> QED
  BY <1>1, <1>2, TypeCorrect, PTL DEF Spec
-----------------------------------------------------------------------------
\* A written slot is only ever replaced by a strictly newer quote (apply()).
THEOREM NeverStepsBackHolds == Spec => NeverStepsBack
<1> DEFINE Forward ==
      \A m \in Markets, b \in Books :
          table'[m][b] # table[m][b] =>
              \/ table[m][b] = EmptyQuote
              \/ table'[m][b].seq_no > table[m][b].seq_no
<1>1. TypeOK /\ [Next]_vars => [Forward]_vars
  <2> SUFFICES ASSUME TypeOK, Next, NEW m \in Markets, NEW b \in Books,
                      table'[m][b] # table[m][b], table[m][b] # EmptyQuote
               PROVE  table'[m][b].seq_no > table[m][b].seq_no
    OBVIOUS
  <2>1. PICK u \in Updates : Accept(u, u.sim_timestamp_ns)
    BY DEF Next, Apply, RejectOutOfRange, RejectStaleSeq
  <2>2. table' = [table EXCEPT ![u.market_id][u.book_id]
                                 = QuoteOf(u, u.sim_timestamp_ns)]
    BY <2>1 DEF Accept
  <2>3. u.market_id = m /\ u.book_id = b
    BY <2>2 DEF TypeOK
  <2>4. table'[m][b].seq_no = u.seq_no
    BY <2>2, <2>3 DEF TypeOK, QuoteOf
  <2>5. table[m][b].seq_no # kEmptySeq
    BY SentinelMeansEmpty DEF TypeOK
  <2> QED
    BY <2>1, <2>3, <2>4, <2>5 DEF Accept, Advances
<1> QED
  BY <1>1, TypeCorrect, PTL DEF Spec, NeverStepsBack

\* Staleness of a quote is monotone: a later timestamp is never the staler.
LEMMA LaterIsFresher ==
    ASSUME NEW p, NEW q, NEW now_ns \in Nat, NEW stale_after_ns \in Nat,
           p.recv_timestamp_ns \in Nat, q.recv_timestamp_ns \in Nat,
           p.recv_timestamp_ns <= q.recv_timestamp_ns,
           q.seq_no # kEmptySeq,
           QuoteIsStale(q, now_ns, stale_after_ns)
    PROVE  QuoteIsStale(p, now_ns, stale_after_ns)
BY DEF QuoteIsStale

\* Applying a record makes no fresh quote stale. It rests on the producer's
\* promise that a book's later record carries no earlier timestamp.
THEOREM FreshStaysFreshHolds == Spec => FreshStaysFresh
<1> DEFINE Clocks == {u.sim_timestamp_ns : u \in Updates}
           Fresh ==
      \A m \in Markets, b \in Books, now_ns \in Clocks, stale_after_ns \in Clocks :
          QuoteIsStale(table'[m][b], now_ns, stale_after_ns)
              => QuoteIsStale(table[m][b], now_ns, stale_after_ns)
<1>1. TypeOK /\ NewestWins /\ [Next]_vars => [Fresh]_vars
  <2> SUFFICES ASSUME TypeOK, NewestWins, Next,
                      NEW m \in Markets, NEW b \in Books,
                      NEW now_ns \in Clocks, NEW stale_after_ns \in Clocks,
                      QuoteIsStale(table'[m][b], now_ns, stale_after_ns)
               PROVE  QuoteIsStale(table[m][b], now_ns, stale_after_ns)
    OBVIOUS
  <2>0. now_ns \in Nat /\ stale_after_ns \in Nat
    BY UpdateFields
  <2>1. CASE table'[m][b] = table[m][b]
    BY <2>1
  <2>2. CASE table[m][b] = EmptyQuote
    BY <2>2 DEF QuoteIsStale, EmptyQuote
  <2>3. CASE table'[m][b] # table[m][b] /\ table[m][b] # EmptyQuote
    <3>1. PICK u \in Updates : Accept(u, u.sim_timestamp_ns)
      BY <2>3 DEF Next, Apply, RejectOutOfRange, RejectStaleSeq
    <3>2. table' = [table EXCEPT ![u.market_id][u.book_id]
                                   = QuoteOf(u, u.sim_timestamp_ns)]
      BY <3>1 DEF Accept
    <3>3. u.market_id = m /\ u.book_id = b
      BY <2>3, <3>2 DEF TypeOK
    <3>4. table'[m][b] = QuoteOf(u, u.sim_timestamp_ns)
      BY <3>2, <3>3 DEF TypeOK
    <3>5. PICK w \in OfferedTo(m, b) : table[m][b] = QuoteOf(w, w.sim_timestamp_ns)
      BY <2>3 DEF NewestWins
    <3>6. w \in Updates /\ w.book_id = b
      BY DEF TypeOK, OfferedTo
    <3>7. w.seq_no <= u.seq_no
      <4>1. w.seq_no < u.seq_no
        BY <3>1, <3>3, <3>5, AppliedIsNewest
      <4> QED
        BY <3>6, <4>1, UpdateFields
    <3>8. w.sim_timestamp_ns <= u.sim_timestamp_ns
      BY <3>3, <3>6, <3>7, TimestampsFollowSeq
    <3>9. /\ table[m][b].recv_timestamp_ns = w.sim_timestamp_ns
          /\ table'[m][b].recv_timestamp_ns = u.sim_timestamp_ns
          /\ table'[m][b].seq_no # kEmptySeq
      BY <3>4, <3>5, UpdateFields DEF QuoteOf
    <3>10. w.sim_timestamp_ns \in Nat /\ u.sim_timestamp_ns \in Nat
      BY <3>6, UpdateFields
    <3> QED
      BY <2>0, <3>8, <3>9, <3>10, LaterIsFresher
  <2> QED
    BY <2>1, <2>2, <2>3
<1> QED
  BY <1>1, TypeCorrect, NewestWinsHolds, PTL DEF Spec, FreshStaysFresh
=============================================================================
