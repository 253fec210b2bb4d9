----------------------------- MODULE MCBookTable -----------------------------
(***************************************************************************)
(* Instance of BookTable for TLC: two markets and two books, a market and  *)
(* a book beyond the table's bound, sequence numbers shared by a book's    *)
(* markets as the simulator assigns them, and one record re-sent with      *)
(* another payload under its old number (a restarted sender).              *)
(***************************************************************************)
EXTENDS BookTable

p == <<18, 21>>
q == <<15, 25>>

Record(seq_no, ts, m, b, odds) ==
    [seq_no |-> seq_no, sim_timestamp_ns |-> ts, market_id |-> m, book_id |-> b,
     odds |-> odds]

MCUpdates ==
    { Record(0, 0, 0, 0, p), Record(1, 0, 1, 0, p),
      Record(2, 10, 0, 0, q), Record(3, 10, 1, 0, q), Record(2, 10, 0, 0, p),
      Record(4, 20, 0, 0, p),
      Record(0, 0, 0, 1, p), Record(1, 20, 0, 1, q),
      Record(2, 10, 2, 0, p), Record(0, 0, 0, 2, p) }
=============================================================================
