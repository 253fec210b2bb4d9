------------------------------- MODULE MCEngine -------------------------------
(***************************************************************************)
(* Instances of Engine for TLC: two markets, two books and three ticks of  *)
(* 100 ms. Book 0 quotes at every tick and book 1 at every other one, so   *)
(* that its quote may go stale; numbers are in tenths.                     *)
(***************************************************************************)
EXTENDS Engine

Quote(seq_no, ts, m, b, odds) ==
    [seq_no |-> seq_no, sim_timestamp_ns |-> ts, market_id |-> m, book_id |-> b,
     odds |-> odds]

\* The last tick's quote of book 1 on market 0 has no margin, and book 1 sees
\* three outcomes in market 1.
MCSession ==
    << Quote(0, 0, 0, 0, <<18, 21>>), Quote(0, 0, 0, 1, <<17, 20>>),
       Quote(1, 0, 1, 0, <<15, 25>>), Quote(1, 0, 1, 1, <<25, 28, 30>>),
       Quote(2, 100, 0, 0, <<16, 24>>), Quote(3, 100, 1, 0, <<14, 27>>),
       Quote(4, 200, 0, 0, <<19, 19>>), Quote(2, 200, 0, 1, <<30, 30>>),
       Quote(5, 200, 1, 0, <<15, 26>>), Quote(3, 200, 1, 1, <<25, 29, 30>>) >>

MCConverges(method, odds) == method = "shin" => odds # <<14, 27>>

\* A bet on the outcome with the longest odds, past the cap at full Kelly.
MCKellyStakes(price, best, kelly_fraction) ==
    [i \in 1..price.count |-> IF best[i] >= 21 THEN (kelly_fraction * 4) \div 5 ELSE 0]

CommandLine(hash, listen, bets, ws) ==
    [hash |-> hash, listen |-> listen, bets |-> bets, ws |-> ws, stale_ms |-> 150,
     kelly_fraction |-> 5, max_exposure |-> 2, devig_method |-> "shin"]

\* The last one starts without stakes, which a message may then ask for.
FileOptions ==
    {CommandLine(h, FALSE, TRUE, w) : h \in BOOLEAN, w \in BOOLEAN}
        \union {[CommandLine(FALSE, FALSE, TRUE, TRUE) EXCEPT !.kelly_fraction = 0]}
LiveOptions == {CommandLine(h, TRUE, TRUE, w) : h \in BOOLEAN, w \in BOOLEAN}

Set(key, str, num) == [cmd |-> "set", key |-> key, str |-> str, num |-> num]

MCCommands ==
    { Set("devig", "power", Absent), Set("devig", "median", Absent),
      Set("stale-ms", Absent, 500), Set("stale-ms", Absent, 9),
      Set("stale-ms", Absent, 50010), Set("kelly-fraction", Absent, 10),
      Set("kelly-fraction", Absent, NotFinite), Set("max-exposure", Absent, 11),
      Set("max-exposure", Absent, 3), Set("max-exposure", Absent, 0),
      Set("seed", Absent, 7),
      [cmd |-> "get", key |-> "devig", str |-> "power", num |-> Absent] }

\* Fewer messages on the live feed, where the arrivals themselves vary.
LiveCommands ==
    { Set("devig", "power", Absent), Set("stale-ms", Absent, 500),
      Set("max-exposure", Absent, 3), Set("kelly-fraction", Absent, 11) }
=============================================================================
