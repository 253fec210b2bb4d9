------------------------------ MODULE OfflineProofs ------------------------------
(***************************************************************************)
(* What the session file and its readers guarantee for every number of     *)
(* markets and ticks, roster of books, lag and buffer.                     *)
(***************************************************************************)
EXTENDS Offline, BasicFacts, FiniteSetTheorems

\* Whatever program reads the files, it moves the simulator and the session's
\* reader by their own steps, or not at all.
LEMMA SessionBelow == OfflineSpec => Spec
<1>1. OfflineInit => SessionInit
  BY DEF OfflineInit
<1>2. [OfflineNext]_vars => [Next]_sessionVars
  <2> SUFFICES ASSUME [OfflineNext]_vars
               PROVE  [Next]_sessionVars
    OBVIOUS
  <2>1. CASE SimStep \/ PlainReader
    BY <2>1 DEF Next, PlainReader
  <2>2. CASE AnalysisNext
    BY <2>2 DEF AnalysisNext, StartAnalysis, ReadQuote, EndOfQuotes, ReadSettlement,
                ReadJumps, ScoreBets, Next
  <2>3. CASE ValidationNext
    BY <2>3 DEF ValidationNext, StartValidation, LoadTruth, CompareRecord,
                EndOfComparison, Next
  <2>4. CASE UNCHANGED vars
    BY <2>4 DEF vars
  <2> QED
    BY <2>1, <2>2, <2>3, <2>4 DEF OfflineNext
<1> QED
  BY <1>1, <1>2, PTL DEF OfflineSpec, Spec
-----------------------------------------------------------------------------
\* The book's turn at a market in the present tick is over.
Passed(m, b) == m < market \/ (m = market /\ book # 0 /\ b < book)

\* A ring holds, each in its place, the last kMaxLag distributions observed.
Holds(view, observed) ==
    \A k \in Nat : k < observed /\ observed <= k + kMaxLag => view[k % kMaxLag] = k

\* Where the generation loop stands is what its rings and indices say.
LoopOK ==
    /\ stage \in {"generate", "flush", "patch", "close", "sidecars", "settle", "done", "dead"}
    /\ tick \in 0..Ticks /\ market \in MarketIds /\ book \in {0} \union Books
    /\ stage = "generate" => tick < Ticks
    /\ stage \notin {"generate", "dead"} => tick = Ticks /\ market = 0 /\ book = 0
    /\ ring \in [MarketIds -> [Books -> [0..(kMaxLag - 1) -> Int]]]
    /\ write_idx \in [MarketIds -> [Books -> Nat]]
    /\ seq_no \in [Books -> Nat]
    /\ final_latent \in [MarketIds -> Unset..(Ticks - 1)]
    /\ \A m \in MarketIds, b \in Books :
          /\ write_idx[m][b] = IF Passed(m, b) THEN tick + 1 ELSE tick
          /\ Holds(ring[m][b], write_idx[m][b])
    /\ \A m \in MarketIds :
          final_latent[m] = IF m < market \/ (m = market /\ book # 0) THEN tick ELSE tick - 1

\* A ring that has observed one more holds it, and those it has not overwritten.
LEMMA RingObserves ==
    ASSUME NEW view \in [0..(kMaxLag - 1) -> Int], NEW t \in Nat, Holds(view, t)
    PROVE  LET next == [view EXCEPT ![t % kMaxLag] = t]
           IN /\ next \in [0..(kMaxLag - 1) -> Int]
              /\ Holds(next, t + 1)
<1> DEFINE next == [view EXCEPT ![t % kMaxLag] = t]
<1>1. kMaxLag \in Nat \ {0} /\ t % kMaxLag \in 0..(kMaxLag - 1)
  BY SimulatorAssumption, DivisionFacts
<1>2. next \in [0..(kMaxLag - 1) -> Int]
  BY <1>1
<1>3. ASSUME NEW k \in Nat, k < t + 1, t + 1 <= k + kMaxLag
      PROVE  next[k % kMaxLag] = k
  <2>1. k % kMaxLag \in 0..(kMaxLag - 1)
    BY <1>1, DivisionFacts
  <2>2. CASE k = t
    BY <1>1, <2>2
  <2>3. CASE k # t
    <3>1. k < t /\ t < k + kMaxLag /\ t <= k + kMaxLag
      BY <1>1, <1>3, <2>3
    <3>2. k % kMaxLag # t % kMaxLag
      BY <1>1, <3>1, RemaindersDiffer
    <3>3. next[k % kMaxLag] = view[k % kMaxLag]
      BY <1>1, <2>1, <3>2
    <3> QED
      BY <3>1, <3>3 DEF Holds
  <2> QED
    BY <2>2, <2>3
<1> QED
  BY <1>2, <1>3 DEF Holds

\* The distribution a quote is computed from, lag ticks back or the first.
Lagged(t, lag) == IF t >= lag THEN t - lag ELSE 0

\* lagged_view() gives that distribution, the ring being long enough.
LEMMA LaggedViewIs ==
    ASSUME NEW view \in [0..(kMaxLag - 1) -> Int], NEW t \in Nat, Holds(view, t + 1),
           NEW lag \in 0..(kMaxLag - 1)
    PROVE  LaggedView(view, t + 1, lag) = Lagged(t, lag)
<1>1. kMaxLag \in Nat \ {0}
  BY SimulatorAssumption
<1> DEFINE back == IF lag >= t + 1 THEN (t + 1) - 1 ELSE lag
           k == (t + 1) - 1 - back
<1>2. /\ k \in Nat /\ k < t + 1 /\ t + 1 <= k + kMaxLag
      /\ k = Lagged(t, lag)
  BY <1>1 DEF Lagged
<1>3. LaggedView(view, t + 1, lag) = view[k % kMaxLag]
  BY DEF LaggedView
<1> HIDE DEF k
<1>4. view[k % kMaxLag] = k
  BY <1>2 DEF Holds
<1> QED
  BY <1>2, <1>3, <1>4

\* The books of the roster.
LEMMA RosterIs ==
    /\ Len(Roster) \in Nat \ {0} /\ Books = 1..Len(Roster)
    /\ \A b \in Books : Roster[b].lag \in 0..(kMaxLag - 1) /\ Roster[b].interval \in Nat \ {0}
    /\ kMaxLag \in Nat \ {0} /\ Markets \in Nat \ {0} /\ Ticks \in Nat \ {0}
    /\ MarketIds = 0..(Markets - 1)
<1>1. Roster \in Seq([lag : 0..(kMaxLag - 1), interval : Nat \ {0}]) /\ Roster # <<>>
  BY SimulatorAssumption
<1>2. Len(Roster) \in Nat \ {0} /\ Books = 1..Len(Roster)
  BY <1>1, EmptySeq, LenProperties DEF Books
<1>3. \A b \in Books : Roster[b].lag \in 0..(kMaxLag - 1) /\ Roster[b].interval \in Nat \ {0}
  <2> SUFFICES ASSUME NEW b \in Books
               PROVE  Roster[b].lag \in 0..(kMaxLag - 1) /\ Roster[b].interval \in Nat \ {0}
    OBVIOUS
  <2>1. Roster[b] \in [lag : 0..(kMaxLag - 1), interval : Nat \ {0}]
    BY <1>1, <1>2, ElementOfSeq
  <2> QED
    BY <2>1
<1> QED
  BY <1>2, <1>3, SimulatorAssumption DEF MarketIds

\* What QuoteBook does: the market's ring of the book at hand observes the tick,
\* and a record, if there is one, is computed from the distribution lag ticks back.
TheQuote == QuoteRecord(seq_no[book], tick, book, market, Lagged(tick, Roster[book].lag))

LEMMA QuoteFacts ==
    ASSUME LoopOK, QuoteBook
    PROVE  /\ book \in Books /\ market \in MarketIds /\ tick \in 0..(Ticks - 1)
           /\ write_idx[market][book] = tick
           /\ ring' = [ring EXCEPT ![market][book] =
                          [ring[market][book] EXCEPT ![tick % kMaxLag] = tick]]
           /\ write_idx' = [write_idx EXCEPT ![market][book] = tick + 1]
           /\ TheQuote \in QuoteRecords
           /\ \/ /\ seq_no' = [seq_no EXCEPT ![book] = seq_no[book] + 1]
                 /\ FanoutAccept(TheQuote)
              \/ UNCHANGED <<seq_no, made, fileVars>>
<1>1. /\ stage = "generate" /\ book # 0 /\ book \in Books /\ market \in MarketIds
      /\ tick \in 0..(Ticks - 1) /\ tick \in Nat
  BY RosterIs DEF QuoteBook, LoopOK
<1>2. write_idx[market][book] = tick /\ Holds(ring[market][book], tick)
  <2>1. ~Passed(market, book)
    BY <1>1, RosterIs DEF Passed
  <2> QED
    BY <1>1, <2>1 DEF LoopOK
<1>3. ring[market][book] \in [0..(kMaxLag - 1) -> Int]
  BY <1>1 DEF LoopOK
<1> DEFINE view == [ring[market][book] EXCEPT ![tick % kMaxLag] = tick]
<1>4. view \in [0..(kMaxLag - 1) -> Int] /\ Holds(view, tick + 1)
  BY <1>1, <1>2, <1>3, RingObserves
<1>5. LaggedView(view, tick + 1, Roster[book].lag) = Lagged(tick, Roster[book].lag)
  BY <1>1, <1>4, RosterIs, LaggedViewIs
<1>6. TheQuote \in QuoteRecords
  <2>1. Roster[book].lag \in Nat /\ Unset = -1 /\ Ticks \in Nat
    BY <1>1, RosterIs DEF Unset
  <2>2. Lagged(tick, Roster[book].lag) \in Unset..(Ticks - 1)
    BY <1>1, <2>1 DEF Lagged
  <2>3. seq_no[book] \in Nat
    BY <1>1 DEF LoopOK
  <2> QED
    BY <1>1, <2>2, <2>3 DEF TheQuote, QuoteRecord, QuoteRecords
<1>7. /\ ring' = [ring EXCEPT ![market][book] = view]
      /\ write_idx' = [write_idx EXCEPT ![market][book] = tick + 1]
      /\ IF Quotes(book)
         THEN /\ seq_no' = [seq_no EXCEPT ![book] = NextSeq(book)]
              /\ FanoutAccept(QuoteRecord(seq_no[book], tick, book, market,
                                LaggedView(view, tick + 1, Roster[book].lag)))
         ELSE UNCHANGED <<seq_no, made, fileVars>>
  BY <1>2, Zenon DEF QuoteBook
<1> QED
  BY <1>1, <1>2, <1>5, <1>6, <1>7 DEF TheQuote, NextSeq

\* A step of the generation loop keeps its place.
LEMMA QuoteKeepsPlace ==
    ASSUME LoopOK, QuoteBook
    PROVE  LoopOK'
<1>1. /\ book \in Books /\ market \in MarketIds /\ tick \in 0..(Ticks - 1)
      /\ stage = "generate" /\ book # 0
      /\ write_idx[market][book] = tick
      /\ ring' = [ring EXCEPT ![market][book] =
                     [ring[market][book] EXCEPT ![tick % kMaxLag] = tick]]
      /\ write_idx' = [write_idx EXCEPT ![market][book] = tick + 1]
      /\ seq_no' \in [Books -> Nat]
      /\ final_latent' = final_latent
      /\ Advance /\ tick \in Nat
  <2>1. seq_no' \in [Books -> Nat]
    BY QuoteFacts DEF LoopOK, fileVars
  <2> QED
    BY <2>1, QuoteFacts DEF QuoteBook
<1>2. /\ ring \in [MarketIds -> [Books -> [0..(kMaxLag - 1) -> Int]]]
      /\ write_idx \in [MarketIds -> [Books -> Nat]]
      /\ \A m \in MarketIds, b \in Books :
            /\ write_idx[m][b] = IF Passed(m, b) THEN tick + 1 ELSE tick
            /\ Holds(ring[m][b], write_idx[m][b])
      /\ final_latent \in [MarketIds -> Unset..(Ticks - 1)]
      /\ \A m \in MarketIds :
            final_latent[m] = IF m < market \/ m = market THEN tick ELSE tick - 1
  BY <1>1 DEF LoopOK
<1> DEFINE view == [ring[market][book] EXCEPT ![tick % kMaxLag] = tick]
<1>3. view \in [0..(kMaxLag - 1) -> Int] /\ Holds(view, tick + 1)
  <2>1. ring[market][book] \in [0..(kMaxLag - 1) -> Int] /\ Holds(ring[market][book], tick)
    BY <1>1, <1>2
  <2> QED
    BY <1>1, <2>1, RingObserves
<1> HIDE DEF view
<1>4. /\ ring' \in [MarketIds -> [Books -> [0..(kMaxLag - 1) -> Int]]]
      /\ write_idx' \in [MarketIds -> [Books -> Nat]]
  BY <1>1, <1>2, <1>3 DEF view
<1>5. ASSUME NEW m \in MarketIds, NEW b \in Books
      PROVE  /\ write_idx'[m][b] = IF Passed(m, b) \/ (m = market /\ b = book)
                                  THEN tick + 1 ELSE tick
             /\ Holds(ring'[m][b], write_idx'[m][b])
  <2>1. CASE m = market /\ b = book
    <3>1. write_idx'[m][b] = tick + 1 /\ ring'[m][b] = view
      BY <1>1, <1>2, <2>1 DEF view
    <3> QED
      BY <1>3, <2>1, <3>1
  <2>2. CASE ~(m = market /\ b = book)
    <3>1. write_idx'[m][b] = write_idx[m][b] /\ ring'[m][b] = ring[m][b]
      BY <1>1, <1>2, <2>2
    <3> QED
      BY <1>2, <2>2, <3>1
  <2> QED
    BY <2>1, <2>2
<1>6. CASE book < Len(Roster)
  <2>1. book' = book + 1 /\ tick' = tick /\ market' = market /\ stage' = stage
    BY <1>1, <1>6 DEF Advance
  <2>2. book' \in Books /\ book' # 0 /\ tick' \in 0..Ticks /\ tick' < Ticks
    BY <1>1, <1>6, <2>1, RosterIs
  <2>3. \A m \in MarketIds, b \in Books :
           Passed(m, b)' <=> Passed(m, b) \/ (m = market /\ b = book)
    BY <1>1, <2>1, <2>2, RosterIs, SMTT(20) DEF Passed
  <2>4. \A m \in MarketIds, b \in Books :
           /\ write_idx'[m][b] = IF Passed(m, b)' THEN tick' + 1 ELSE tick'
           /\ Holds(ring'[m][b], write_idx'[m][b])
    BY <1>5, <2>1, <2>3
  <2>5. \A m \in MarketIds :
           final_latent'[m] = IF m < market' \/ (m = market' /\ book' # 0) THEN tick' ELSE tick' - 1
    BY <1>1, <1>2, <2>1, <2>2
  <2>6. final_latent' \in [MarketIds -> Unset..(Ticks - 1)]
    BY <1>1, <1>2
  <2> QED
    BY <1>1, <1>4, <2>1, <2>2, <2>4, <2>5, <2>6 DEF LoopOK
<1>7. CASE ~(book < Len(Roster))
  <2>0. book = Len(Roster) /\ \A b \in Books : b <= book /\ b # 0
    BY <1>1, <1>7, RosterIs
  <2>1. /\ book' = 0
        /\ market' = IF market + 1 < Markets THEN market + 1 ELSE 0
        /\ tick' = IF market + 1 < Markets THEN tick ELSE tick + 1
        /\ stage' = IF market + 1 = Markets /\ tick + 1 = Ticks THEN "flush" ELSE stage
    BY <1>1, <1>7 DEF Advance
  <2>2. CASE market + 1 < Markets
    <3>1. market' = market + 1 /\ tick' = tick /\ stage' = "generate" /\ market' \in MarketIds
      BY <1>1, <2>1, <2>2, RosterIs
    <3>2. \A m \in MarketIds, b \in Books :
             Passed(m, b)' <=> Passed(m, b) \/ (m = market /\ b = book)
      BY <1>1, <2>0, <2>1, <3>1, RosterIs, SMTT(20) DEF Passed
    <3>3. \A m \in MarketIds : (m < market \/ m = market) <=> m < market'
      BY <1>1, <3>1, RosterIs
    <3>4. tick' < Ticks /\ tick' \in 0..Ticks
      BY <1>1, <3>1, RosterIs
    <3>5. \A m \in MarketIds, b \in Books :
             /\ write_idx'[m][b] = IF Passed(m, b)' THEN tick' + 1 ELSE tick'
             /\ Holds(ring'[m][b], write_idx'[m][b])
      BY <1>5, <3>1, <3>2
    <3>6. \A m \in MarketIds :
             final_latent'[m] = IF m < market' \/ (m = market' /\ book' # 0) THEN tick' ELSE tick' - 1
      BY <1>1, <1>2, <2>1, <3>1, <3>3
    <3>7. final_latent' \in [MarketIds -> Unset..(Ticks - 1)]
      BY <1>1, <1>2
    <3> QED
      BY <1>1, <1>4, <2>1, <3>1, <3>4, <3>5, <3>6, <3>7 DEF LoopOK
  <2>3. CASE ~(market + 1 < Markets)
    <3>1. market + 1 = Markets /\ market' = 0 /\ tick' = tick + 1 /\ 0 \in MarketIds
      BY <1>1, <2>1, <2>3, RosterIs
    <3>2. \A m \in MarketIds, b \in Books :
             ~Passed(m, b)' /\ (Passed(m, b) \/ (m = market /\ b = book))
      BY <1>1, <2>0, <2>1, <3>1, RosterIs, SMTT(20) DEF Passed
    <3>3. \A m \in MarketIds : (m < market \/ m = market) /\ ~(m < market')
      BY <1>1, <3>1, RosterIs
    <3>4. /\ tick' \in 0..Ticks /\ tick' - 1 = tick
          /\ stage' = IF tick' = Ticks THEN "flush" ELSE "generate"
      <4>0. tick \in 0..(Ticks - 1) /\ tick' = tick + 1 /\ Ticks \in Nat
        BY <1>1, <3>1, RosterIs
      <4>1. tick' \in 0..Ticks /\ tick' - 1 = tick
        BY <4>0
      <4> QED
        BY <1>1, <2>1, <3>1, <4>1
    <3>5. \A m \in MarketIds, b \in Books : write_idx'[m][b] = tick'
      BY <1>5, <3>1, <3>2
    <3>6. \A m \in MarketIds : final_latent'[m] = tick' - 1
      BY <1>1, <1>2, <3>3, <3>4
    <3>7. \A m \in MarketIds, b \in Books :
             /\ write_idx'[m][b] = IF Passed(m, b)' THEN tick' + 1 ELSE tick'
             /\ Holds(ring'[m][b], write_idx'[m][b])
      BY <1>5, <3>2, <3>5
    <3>8. \A m \in MarketIds :
             final_latent'[m] = IF m < market' \/ (m = market' /\ book' # 0) THEN tick' ELSE tick' - 1
      BY <2>1, <3>3, <3>6
    <3>9. /\ final_latent' \in [MarketIds -> Unset..(Ticks - 1)]
          /\ stage' = "generate" => tick' < Ticks
          /\ stage' \notin {"generate", "dead"} => tick' = Ticks /\ market' = 0 /\ book' = 0
          /\ stage' \in {"generate", "flush"}
      BY <1>1, <1>2, <2>1, <3>1, <3>4, RosterIs
    <3> QED
      BY <1>1, <1>4, <2>1, <3>1, <3>4, <3>7, <3>8, <3>9 DEF LoopOK
  <2> QED
    BY <2>2, <2>3
<1> QED
  BY <1>6, <1>7

\* What happens after the loop, and to the files, leaves it where it stands.
LEMMA LoopAtRest ==
    ASSUME LoopOK, UNCHANGED loopVars,
           stage' \in {"generate", "flush", "patch", "close", "sidecars", "settle", "done", "dead"},
           stage' = "generate" => stage = "generate",
           stage' \notin {"generate", "dead"} => stage \notin {"generate", "dead"}
    PROVE  LoopOK'
BY DEF LoopOK, loopVars, Passed

LEMMA LoopHolds == Spec => []LoopOK
<1>1. SessionInit => LoopOK
  <2> SUFFICES ASSUME SessionInit
               PROVE  LoopOK
    OBVIOUS
  <2>1. /\ stage = "generate" /\ tick = 0 /\ market = 0 /\ book = 0
        /\ ring = [m \in MarketIds |-> [b \in Books |-> [i \in 0..(kMaxLag - 1) |-> Unset]]]
        /\ write_idx = [m \in MarketIds |-> [b \in Books |-> 0]]
        /\ seq_no = [b \in Books |-> 0]
        /\ final_latent = [m \in MarketIds |-> Unset]
    BY DEF SessionInit, Init
  <2>2. /\ Unset = -1 /\ tick \in 0..Ticks /\ tick < Ticks /\ market \in MarketIds
        /\ tick - 1 = Unset /\ Unset \in Unset..(Ticks - 1)
    BY <2>1, RosterIs DEF Unset
  <2>3. \A m \in MarketIds, b \in Books :
           /\ write_idx[m][b] = 0 /\ ~Passed(m, b)
           /\ Holds(ring[m][b], write_idx[m][b])
    BY <2>1, RosterIs DEF Passed, Holds
  <2>4. \A m \in MarketIds : final_latent[m] = tick - 1 /\ ~(m < market \/ (m = market /\ book # 0))
    BY <2>1, <2>2, RosterIs
  <2>5. /\ ring \in [MarketIds -> [Books -> [0..(kMaxLag - 1) -> Int]]]
        /\ write_idx \in [MarketIds -> [Books -> Nat]]
        /\ seq_no \in [Books -> Nat]
        /\ final_latent \in [MarketIds -> Unset..(Ticks - 1)]
    BY <2>1, <2>2
  <2> QED
    BY <2>1, <2>2, <2>3, <2>4, <2>5 DEF LoopOK
<1>2. LoopOK /\ [Next]_sessionVars => LoopOK'
  <2> SUFFICES ASSUME LoopOK, [Next]_sessionVars
               PROVE  LoopOK'
    OBVIOUS
  <2>1. CASE StepLatent
    <3>1. /\ stage = "generate" /\ book = 0 /\ book' = 1
          /\ final_latent' = [final_latent EXCEPT ![market] = tick]
          /\ UNCHANGED <<stage, tick, market, ring, write_idx, seq_no>>
      BY <2>1 DEF StepLatent
    <3>2. 1 \in Books /\ \A b \in Books : ~(b < 1)
      BY RosterIs
    <3>3. \A m \in MarketIds, b \in Books : Passed(m, b)' <=> Passed(m, b)
      BY <3>1, <3>2 DEF Passed
    <3>4. /\ tick \in Unset..(Ticks - 1) /\ market \in MarketIds /\ Markets \in Nat
          /\ MarketIds = 0..(Markets - 1)
      BY <3>1, RosterIs DEF LoopOK, Unset
    <3>5. /\ final_latent' \in [MarketIds -> Unset..(Ticks - 1)]
          /\ \A m \in MarketIds :
                final_latent'[m] = IF m < market' \/ (m = market' /\ book' # 0)
                                   THEN tick' ELSE tick' - 1
      BY <3>1, <3>4 DEF LoopOK
    <3> QED
      BY <3>1, <3>2, <3>3, <3>5 DEF LoopOK
  <2>2. CASE QuoteBook
    BY <2>2, QuoteKeepsPlace
  <2>3. CASE \/ FlushFile \/ PatchCount \/ CloseFile \/ Spill
             \/ CloseSidecars \/ Settle \/ CloseSettlement \/ Die
    <3>1. /\ UNCHANGED loopVars
          /\ stage' = "generate" => stage = "generate"
          /\ stage' \notin {"generate", "dead"} => stage \notin {"generate", "dead"} \/ stage' = stage
          /\ stage' \in {"generate", "flush", "patch", "close", "sidecars", "settle", "done", "dead"}
      BY <2>3 DEF FlushFile, PatchCount, CloseFile, Spill, CloseSidecars, Settle,
                  SettleInStages, CloseSettlement, Die, LoopOK
    <3> QED
      BY <3>1, LoopAtRest
  <2>4. CASE OpenSession \/ ReadRecord \/ EndOfSession \/ UNCHANGED sessionVars
    <3>1. UNCHANGED loopVars /\ UNCHANGED stage
      BY <2>4 DEF OpenSession, ReadRecord, EndOfSession, sessionVars, simVars
    <3> QED
      BY <3>1, LoopAtRest DEF LoopOK
  <2> QED
    BY <2>1, <2>2, <2>3, <2>4 DEF Next, SimStep, SimNext
<1> QED
  BY <1>1, <1>2, PTL DEF Spec
-----------------------------------------------------------------------------
\* What the header says once its file is closed: the count, if the close worked.
FinalHeader == IF "session" \in cut THEN 0 ELSE Len(made)

\* What the sinks were handed is in the file or on its way there, and a count in
\* the header means that all of it is there.
FilesOK ==
    /\ buffer \in Seq(QuoteRecords) /\ written \in Seq(QuoteRecords) /\ made \in Seq(QuoteRecords)
    /\ written \o buffer = made
    /\ Len(buffer) < kBufferRecords
    /\ record_count = Len(made)
    /\ disk \in 0..Len(written) /\ header \in Nat \union {NoHeader}
    /\ stage \in {"patch", "close", "sidecars", "settle", "done"} => buffer = <<>>
    /\ stage \in {"close", "sidecars", "settle", "done"} => disk = Len(written)
    /\ cut \subseteq {"session", "truth", "jumps"}
    /\ stage \in {"generate", "flush", "patch", "close"} => cut = {}
    /\ stage = "close" => header = 0
    /\ stage \in {"sidecars", "settle", "done"} => header = FinalHeader
    /\ header \notin {0, NoHeader} =>
          /\ stage \in {"sidecars", "settle", "done", "dead"}
          /\ header = Len(made) /\ disk = Len(made) /\ written = made

\* A record handed over goes to the buffer, or with a full buffer to the file.
LEMMA FileAcceptKeeps ==
    ASSUME FilesOK, stage = "generate", NEW r \in QuoteRecords, FanoutAccept(r),
           stage' \in {"generate", "flush"}, UNCHANGED cut
    PROVE  FilesOK'
<1>1. /\ buffer \in Seq(QuoteRecords) /\ written \in Seq(QuoteRecords)
      /\ made \in Seq(QuoteRecords) /\ written \o buffer = made
      /\ Len(buffer) < kBufferRecords /\ kBufferRecords \in Nat \ {0}
      /\ record_count = Len(made) /\ Len(made) \in Nat /\ Len(buffer) \in Nat
      /\ Len(written) \in Nat
      /\ disk \in 0..Len(written) /\ header \in {0, NoHeader} /\ cut' = {}
  BY SimulatorAssumption DEF FilesOK
<1>2. /\ made' = Append(made, r) /\ record_count' = record_count + 1
      /\ disk' = disk /\ header' = header
      /\ IF Len(buffer) + 1 = kBufferRecords
         THEN written' = (written \o buffer) \o <<r>> /\ buffer' = <<>>
         ELSE buffer' = Append(buffer, r) /\ written' = written
  BY DEF FanoutAccept, FileAccept
<1>3. made' \in Seq(QuoteRecords) /\ Len(made') = Len(made) + 1 /\ made' = made \o <<r>>
  BY <1>1, <1>2, AppendProperties, AppendIsConcat
<1>4. <<r>> \in Seq(QuoteRecords)
  OBVIOUS
<1>5. CASE Len(buffer) + 1 = kBufferRecords
  <2>1. written' = made' /\ buffer' = <<>>
    BY <1>1, <1>2, <1>3, <1>5
  <2>2. written' \o buffer' = made' /\ buffer' \in Seq(QuoteRecords) /\ Len(buffer') = 0
    BY <1>3, <2>1, ConcatEmptySeq, EmptySeq
  <2>3. Len(made) = Len(written) + Len(buffer)
    BY <1>1, ConcatProperties
  <2>4. disk' \in 0..Len(written')
    BY <1>1, <1>2, <1>3, <2>1, <2>3
  <2> QED
    BY <1>1, <1>2, <1>3, <2>1, <2>2, <2>4 DEF FilesOK, NoHeader
<1>6. CASE Len(buffer) + 1 # kBufferRecords
  <2>1. buffer' = Append(buffer, r) /\ written' = written
    BY <1>2, <1>6
  <2>2. buffer' \in Seq(QuoteRecords) /\ Len(buffer') = Len(buffer) + 1 /\ buffer' = buffer \o <<r>>
    BY <1>1, <2>1, AppendProperties, AppendIsConcat
  <2>3. written' \o buffer' = made'
    <3>1. buffer \in Seq(QuoteRecords) /\ written \in Seq(QuoteRecords)
      BY <1>1
    <3>2. \A one \in Seq(QuoteRecords) :
             (written \o buffer) \o one = written \o (buffer \o one)
      BY <3>1, ConcatAssociative
    <3>3. (written \o buffer) \o <<r>> = written \o (buffer \o <<r>>)
      BY <1>4, <3>2
    <3> QED
      BY <1>1, <1>3, <2>1, <2>2, <3>3
  <2>4. Len(buffer') < kBufferRecords
    BY <1>1, <1>6, <2>2
  <2> QED
    BY <1>1, <1>2, <1>3, <2>1, <2>2, <2>3, <2>4 DEF FilesOK, NoHeader
<1> QED
  BY <1>5, <1>6

\* finish(), the death of the process and stdio keep what is on its way.
LEMMA FinishKeeps ==
    ASSUME FilesOK, FlushFile \/ PatchCount \/ CloseFile
    PROVE  FilesOK'
<1>1. /\ buffer \in Seq(QuoteRecords) /\ written \in Seq(QuoteRecords)
      /\ made \in Seq(QuoteRecords) /\ written \o buffer = made
      /\ kBufferRecords \in Nat \ {0} /\ Len(buffer) < kBufferRecords
      /\ record_count = Len(made) /\ Len(made) \in Nat /\ Len(written) \in Nat
      /\ disk \in 0..Len(written) /\ header \in Nat \union {NoHeader}
      /\ stage \in {"flush", "patch", "close"} => header \in {0, NoHeader}
      /\ stage \in {"patch", "close"} => buffer = <<>> /\ written = made
      /\ Len(<<>>) = 0 /\ <<>> \in Seq(QuoteRecords)
  <2>1. written \o <<>> = written
    BY ConcatEmptySeq DEF FilesOK
  <2>2. Len(<<>>) = 0 /\ <<>> \in Seq(QuoteRecords)
    OBVIOUS
  <2>3. stage \in {"patch", "close"} => buffer = <<>> /\ written = made
    BY <2>1 DEF FilesOK
  <2>4. /\ buffer \in Seq(QuoteRecords) /\ written \in Seq(QuoteRecords)
        /\ made \in Seq(QuoteRecords)
    BY DEF FilesOK
  <2>5. Len(made) \in Nat /\ Len(written) \in Nat
    BY <2>4
  <2> QED
    BY <2>2, <2>3, <2>4, <2>5, SimulatorAssumption DEF FilesOK
<1>2. CASE FlushFile
  <2>1. /\ stage = "flush" /\ stage' = "patch" /\ written' = made /\ buffer' = <<>>
        /\ UNCHANGED <<made, record_count, disk, header, cut>>
    BY <1>1, <1>2 DEF FlushFile, historyVars
  <2>2. Len(made) = Len(written) + Len(buffer) /\ Len(buffer) \in Nat
    BY <1>1, ConcatProperties
  <2>3. written' \o buffer' = made' /\ disk' \in 0..Len(written')
    BY <1>1, <2>1, <2>2, ConcatEmptySeq
  <2> QED
    BY <1>1, <2>1, <2>3 DEF FilesOK
<1>3. CASE PatchCount
  <2>1. /\ stage = "patch" /\ stage' = "close" /\ header' = 0 /\ disk' = Len(written)
        /\ UNCHANGED <<made, record_count, buffer, written, cut>>
    BY <1>3 DEF PatchCount, historyVars
  <2> QED
    BY <1>1, <2>1 DEF FilesOK
<1>4. CASE CloseFile
  <2>1. /\ stage = "close" /\ stage' = "sidecars"
        /\ UNCHANGED <<made, record_count, disk, buffer, written>>
        /\ \/ header' = Len(made) /\ cut' = cut
           \/ cut' = cut \union {"session"} /\ header' = header
    BY <1>1, <1>4 DEF CloseFile
  <2>2. disk = Len(made) /\ written = made /\ buffer = <<>> /\ cut = {} /\ header = 0
    BY <1>1, <2>1 DEF FilesOK
  <2>3. header' = FinalHeader' /\ header' \in {0, Len(made)}
    BY <2>1, <2>2 DEF FinalHeader
  <2> QED
    BY <1>1, <2>1, <2>2, <2>3 DEF FilesOK
<1> QED
  BY <1>2, <1>3, <1>4

LEMMA FilesHold == Spec => []FilesOK
<1>1. SessionInit => FilesOK
  <2> SUFFICES ASSUME SessionInit
               PROVE  FilesOK
    OBVIOUS
  <2>1. /\ buffer = <<>> /\ written = <<>> /\ made = <<>> /\ record_count = 0 /\ disk = 0
        /\ header = NoHeader /\ stage = "generate" /\ cut = {}
    BY DEF SessionInit, Init, SinksInit
  <2>2. Len(<<>>) = 0 /\ <<>> \in Seq(QuoteRecords) /\ <<>> \o <<>> = <<>>
    OBVIOUS
  <2> QED
    BY <2>1, <2>2, SimulatorAssumption DEF FilesOK
<1>2. LoopOK /\ FilesOK /\ [Next]_sessionVars => FilesOK'
  <2> SUFFICES ASSUME LoopOK, FilesOK, [Next]_sessionVars
               PROVE  FilesOK'
    OBVIOUS
  <2>1. CASE QuoteBook
    <3>1. stage = "generate" /\ stage' \in {"generate", "flush"} /\ UNCHANGED cut
      BY <2>1 DEF QuoteBook, Advance
    <3>2. TheQuote \in QuoteRecords /\ (FanoutAccept(TheQuote) \/ UNCHANGED <<made, fileVars>>)
      BY <2>1, QuoteFacts
    <3>3. CASE UNCHANGED <<made, fileVars>>
      BY <3>1, <3>3 DEF FilesOK, fileVars
    <3> QED
      BY <3>1, <3>2, <3>3, FileAcceptKeeps
  <2>2. CASE FlushFile \/ PatchCount \/ CloseFile
    BY <2>2, FinishKeeps
  <2>3. CASE Spill
    <3>1. /\ UNCHANGED <<made, record_count, buffer, written, stage, cut>>
          /\ stage \in {"generate", "flush", "patch", "close"}
          /\ disk' \in disk..Len(written)
          /\ header' = IF header = NoHeader THEN 0 ELSE header
          /\ disk \in 0..Len(written) /\ Len(written) \in Nat /\ header \in {0, NoHeader}
          /\ NoHeader # 0
      BY <2>3 DEF Spill, FilesOK, NoHeader, historyVars
    <3>2. disk' \in 0..Len(written) /\ header' \in {0, NoHeader}
          /\ (disk = Len(written) => disk' = Len(written))
          /\ (stage = "close" => header' = 0)
      BY <3>1 DEF FilesOK
    <3> QED
      BY <3>1, <3>2 DEF FilesOK
  <2>4. CASE Die
    <3>1. /\ UNCHANGED <<made, record_count, buffer, written, cut>>
          /\ stage' = "dead" /\ stage # "dead"
          /\ disk' \in disk..Len(written)
          /\ IF stage \in {"sidecars", "settle"}
             THEN header' = header
             ELSE header' \in {header, IF stage = "close" THEN record_count ELSE 0}
          /\ disk \in 0..Len(written) /\ Len(written) \in Nat /\ Len(made) \in Nat
          /\ record_count = Len(made)
      BY <2>4 DEF Die, FilesOK, historyVars
    <3>2. disk' \in 0..Len(written) /\ (disk = Len(written) => disk' = Len(written))
      BY <3>1
    <3>3. stage = "close" => written = made /\ disk' = Len(made)
      <4> SUFFICES ASSUME stage = "close"
                   PROVE  written = made /\ disk' = Len(made)
        OBVIOUS
      <4>1. buffer = <<>> /\ written \o buffer = made /\ disk = Len(written)
        BY DEF FilesOK
      <4>2. written = made
        BY <4>1, ConcatEmptySeq DEF FilesOK
      <4> QED
        BY <3>2, <4>1, <4>2
    <3>4. header' \notin {0, NoHeader} =>
             header' = Len(made) /\ disk' = Len(made) /\ written = made
      BY <3>1, <3>2, <3>3 DEF FilesOK
    <3>5. header' \in Nat \union {NoHeader}
      BY <3>1 DEF FilesOK
    <3> QED
      BY <3>1, <3>2, <3>4, <3>5 DEF FilesOK
  <2>5. CASE StepLatent \/ CloseSidecars \/ Settle \/ CloseSettlement
    <3>1. /\ UNCHANGED <<fileVars, made>>
          /\ "session" \in cut' <=> "session" \in cut
          /\ cut' \subseteq cut \union {"truth", "jumps"}
          /\ \/ stage' = stage /\ cut' = cut
             \/ stage \in {"sidecars", "settle"} /\ stage' \in {"settle", "done"}
      BY <2>5 DEF StepLatent, CloseSidecars, Settle, SettleInStages, CloseSettlement, historyVars
    <3>2. FinalHeader' = FinalHeader
      BY <3>1 DEF FinalHeader
    <3> QED
      BY <3>1, <3>2 DEF FilesOK, fileVars
  <2>6. CASE OpenSession \/ ReadRecord \/ EndOfSession \/ UNCHANGED sessionVars
    <3>1. UNCHANGED simVars
      BY <2>6 DEF OpenSession, ReadRecord, EndOfSession, sessionVars
    <3> QED
      BY <3>1 DEF FilesOK, FinalHeader, simVars, fileVars, historyVars
  <2> QED
    BY <2>1, <2>2, <2>3, <2>4, <2>5, <2>6 DEF Next, SimStep, SimNext
<1> QED
  BY <1>1, <1>2, LoopHolds, PTL DEF Spec
-----------------------------------------------------------------------------
Counted == header \notin {0, NoHeader}

\* Once the header has a count the session is what it will always be.
LEMMA CountIsLast ==
    ASSUME FilesOK, Counted, [SimNext]_simVars
    PROVE  UNCHANGED <<header, made, written, disk>>
<1>1. stage \in {"sidecars", "settle", "done", "dead"} /\ disk = Len(written)
      /\ Len(written) \in Nat
  BY DEF FilesOK, Counted
<1>2. CASE Die
  <2>1. disk' \in disk..Len(written) /\ UNCHANGED <<header, written, made>>
    BY <1>1, <1>2 DEF Die, historyVars
  <2> QED
    BY <1>1, <2>1
<1>3. CASE UNCHANGED simVars
  BY <1>3 DEF simVars, fileVars, historyVars
<1> QED
  BY <1>1, <1>2, <1>3 DEF SimNext, StepLatent, QuoteBook, FlushFile, PatchCount, CloseFile,
       Spill, CloseSidecars, Settle, SettleInStages, CloseSettlement, fileVars, historyVars

\* A reader that was let in reads the session, as far as it has got.
ReaderOK ==
    /\ rd_state \in {"opening", "streaming", "ended", "failed"}
    /\ handed \in Seq(QuoteRecords)
    /\ rd_state \in {"opening", "failed"} => handed = <<>>
    /\ rd_state \in {"streaming", "ended"} =>
          /\ Counted /\ rd_count = Len(made)
          /\ Len(handed) <= Len(made)
          /\ \A i \in 1..Len(handed) : handed[i] = made[i]
    /\ rd_state = "ended" => Len(handed) = Len(made)

\* A record read is the next of the session; the file is never too short.
LEMMA ReadIsNext ==
    ASSUME FilesOK, ReaderOK, ReadRecord
    PROVE  /\ Len(handed) + 1 \in 1..Len(made)
           /\ handed' = Append(handed, made[Len(handed) + 1])
           /\ made[Len(handed) + 1] \in QuoteRecords
           /\ UNCHANGED <<simVars, rd_state, rd_count>>
<1>1. /\ rd_state = "streaming" /\ Len(handed) < rd_count
      /\ IF Len(handed) < disk
         THEN handed' = Append(handed, written[Len(handed) + 1]) /\ rd_state' = rd_state
         ELSE rd_state' = "failed" /\ handed' = handed
      /\ UNCHANGED <<simVars, rd_count>>
  BY DEF ReadRecord
<1>2. rd_count = Len(made) /\ disk = Len(made) /\ written = made /\ made \in Seq(QuoteRecords)
  BY <1>1 DEF ReaderOK, FilesOK, Counted
<1>3. Len(handed) \in Nat /\ Len(made) \in Nat
  BY <1>2 DEF ReaderOK
<1>4. Len(handed) + 1 \in 1..Len(made)
  BY <1>1, <1>2, <1>3
<1> QED
  BY <1>1, <1>2, <1>4, ElementOfSeq

LEMMA ReaderStep ==
    ASSUME FilesOK, ReaderOK, [Next]_sessionVars
    PROVE  ReaderOK'
<1>1. made \in Seq(QuoteRecords) /\ Len(made) \in Nat /\ Len(handed) \in Nat
      /\ handed \in Seq(QuoteRecords)
  BY DEF FilesOK, ReaderOK
<1>2. CASE SimStep \/ UNCHANGED sessionVars
  <2>1. [SimNext]_simVars /\ UNCHANGED rdVars
    BY <1>2 DEF SimStep, sessionVars
  <2>2. Counted => UNCHANGED <<header, made>>
    BY <2>1, CountIsLast
  <2> QED
    BY <2>1, <2>2 DEF ReaderOK, Counted, rdVars
<1>3. CASE OpenSession
  <2>1. /\ rd_state = "opening" /\ handed' = handed /\ handed = <<>>
        /\ rd_count' = IF header = NoHeader THEN 0 ELSE header
        /\ rd_state' = IF rd_count' = 0 THEN "failed" ELSE "streaming"
        /\ UNCHANGED <<header, made>>
    BY <1>3 DEF OpenSession, ReaderOK, simVars, fileVars, historyVars
  <2>2. rd_state' = "streaming" => Counted /\ rd_count' = Len(made)
    BY <2>1 DEF Counted, FilesOK
  <2>3. Len(handed') = 0
    BY <2>1
  <2> QED
    BY <1>1, <2>1, <2>2, <2>3 DEF ReaderOK, Counted
<1>4. CASE ReadRecord
  <2>1. /\ Len(handed) + 1 \in 1..Len(made)
        /\ handed' = Append(handed, made[Len(handed) + 1])
        /\ made[Len(handed) + 1] \in QuoteRecords
        /\ UNCHANGED <<simVars, rd_state, rd_count>>
    BY <1>4, ReadIsNext
  <2>2. UNCHANGED <<header, made>> /\ rd_state = "streaming"
    BY <1>4, <2>1 DEF simVars, fileVars, historyVars, ReadRecord
  <2>3. /\ handed' \in Seq(QuoteRecords) /\ Len(handed') = Len(handed) + 1
        /\ \A i \in 1..Len(handed) : handed'[i] = handed[i]
        /\ handed'[Len(handed) + 1] = made[Len(handed) + 1]
    BY <1>1, <2>1, AppendProperties
  <2>4. ASSUME NEW i \in 1..Len(handed')
        PROVE  handed'[i] = made[i]
    <3>1. CASE i = Len(handed) + 1
      BY <2>3, <3>1
    <3>2. CASE i # Len(handed) + 1
      <4>1. i \in 1..Len(handed)
        BY <1>1, <2>3, <3>2
      <4> QED
        BY <2>2, <2>3, <4>1 DEF ReaderOK
    <3> QED
      BY <3>1, <3>2
  <2> QED
    BY <1>1, <2>1, <2>2, <2>3, <2>4 DEF ReaderOK, Counted
<1>5. CASE EndOfSession
  BY <1>1, <1>5 DEF EndOfSession, ReaderOK, simVars, fileVars, historyVars, Counted
<1> QED
  BY <1>2, <1>3, <1>4, <1>5 DEF Next

LEMMA ReaderHolds == Spec => []ReaderOK
<1>1. SessionInit => ReaderOK
  BY EmptySeq DEF SessionInit, ReaderOK
<1>2. FilesOK /\ ReaderOK /\ [Next]_sessionVars => ReaderOK'
  BY ReaderStep
<1> QED
  BY <1>1, <1>2, FilesHold, PTL DEF Spec

\* A sequence that agrees with a longer one as far as it goes is a prefix of it.
LEMMA AgreesIsPrefix ==
    ASSUME NEW S, NEW s \in Seq(S), NEW t \in Seq(S), Len(s) <= Len(t),
           \A i \in 1..Len(s) : s[i] = t[i]
    PROVE  /\ IsPrefix(s, t)
           /\ Len(s) = Len(t) => s = t
<1>1. Len(s) \in Nat /\ Len(t) \in Nat
  OBVIOUS
<1>2. /\ \A i \in 1..Len(s) : s[i] \in S
      /\ \A i \in 1..Len(s) : t[i] \in S
  BY <1>1
<1>3. /\ SubSeq(s, 1, Len(s)) \in Seq(S) /\ SubSeq(t, 1, Len(s)) \in Seq(S)
      /\ Len(SubSeq(s, 1, Len(s))) = Len(s) /\ Len(SubSeq(t, 1, Len(s))) = Len(s)
      /\ \A i \in 1..Len(s) : SubSeq(s, 1, Len(s))[i] = s[i] /\ SubSeq(t, 1, Len(s))[i] = t[i]
  BY <1>1, <1>2
<1>4. SubSeq(s, 1, Len(s)) = SubSeq(t, 1, Len(s))
  BY <1>1, <1>3, SeqEqual
<1>5. Len(s) = Len(t) => s = t
  BY SeqEqual
<1> QED
  BY <1>4, <1>5 DEF IsPrefix

\* A reader that is not turned away at the header gets the whole session, in
\* order: whenever it opens the file, and whenever the simulator dies.
THEOREM AcceptedHolds == OfflineSpec => []AcceptedMeansComplete
<1>1. FilesOK /\ ReaderOK => AcceptedMeansComplete
  <2> SUFFICES ASSUME FilesOK, ReaderOK
               PROVE  AcceptedMeansComplete
    OBVIOUS
  <2>1. made \in Seq(QuoteRecords) /\ handed \in Seq(QuoteRecords)
    BY DEF FilesOK, ReaderOK
  <2>2. rd_state \in {"streaming", "ended"} =>
           IsPrefix(handed, made) /\ (Len(handed) = Len(made) => handed = made)
    BY <2>1, AgreesIsPrefix DEF ReaderOK
  <2> QED
    BY <2>2 DEF AcceptedMeansComplete, ReaderOK
<1> QED
  BY <1>1, SessionBelow, FilesHold, ReaderHolds, PTL

\* The session's reader refines the abstract source: the file is one batch.
THEOREM ReaderRefinesSource == OfflineSpec => ImplementsRecordSource
<1> DEFINE pending == IF rd_state = "streaming"
                      THEN SubSeq(written, Len(handed) + 1, rd_count) ELSE <<>>
<1>1. SessionInit => Promised!Init
  BY DEF SessionInit, Promised!Init
<1>2. FilesOK /\ ReaderOK /\ ReaderOK' /\ [Next]_sessionVars => [Promised!Next]_(Promised!rsVars)
  <2> SUFFICES ASSUME FilesOK, ReaderOK, ReaderOK', [Next]_sessionVars
               PROVE  [Promised!Next]_(Promised!rsVars)
    OBVIOUS
  <2>0. /\ written \in Seq(QuoteRecords) /\ Len(handed) \in Nat /\ Len(made) \in Nat
        /\ rd_state \in {"streaming", "ended"} =>
              written = made /\ rd_count = Len(made)
    BY DEF FilesOK, ReaderOK, Counted
  <2>1. CASE SimStep \/ UNCHANGED sessionVars
    <3>1. UNCHANGED rdVars /\ (Counted => UNCHANGED written)
      BY <2>1, CountIsLast DEF SimStep, sessionVars
    <3>2. rd_state = "streaming" => UNCHANGED written
      BY <3>1 DEF ReaderOK
    <3> QED
      BY <3>1, <3>2 DEF rdVars, Promised!rsVars
  <2>2. CASE OpenSession
    <3>1. /\ rd_state = "opening" /\ handed' = handed /\ handed = <<>> /\ written' = written
          /\ rd_state' \in {"failed", "streaming"}
      BY <2>2 DEF OpenSession, ReaderOK, simVars, fileVars, historyVars
    <3>2. CASE rd_state' = "failed"
      BY <3>1, <3>2 DEF Promised!Next, Promised!Stop
    <3>3. CASE rd_state' = "streaming"
      <4>1. /\ rd_count' = IF header = NoHeader THEN 0 ELSE header
            /\ rd_count' # 0
        BY <2>2, <3>3 DEF OpenSession
      <4>2. rd_count' = Len(written)
        BY <4>1 DEF FilesOK
      <4>3. Len(handed') + 1 = 1
        BY <3>1
      <4>4. pending' = written
        BY <2>0, <3>1, <3>3, <4>2, <4>3, SubSeqFull
      <4> QED
        BY <2>0, <3>1, <3>3, <4>4 DEF Promised!Next, Promised!Start
    <3> QED
      BY <3>1, <3>2, <3>3
  <2>3. CASE ReadRecord
    <3>1. /\ Len(handed) + 1 \in 1..Len(made)
          /\ handed' = Append(handed, made[Len(handed) + 1])
          /\ made[Len(handed) + 1] \in QuoteRecords
          /\ UNCHANGED <<written, rd_state, rd_count>>
          /\ rd_state = "streaming" /\ handed \in Seq(QuoteRecords)
      BY <2>3, ReadIsNext DEF simVars, fileVars, ReadRecord, ReaderOK
    <3>2. Len(made) \in (Len(handed) + 1)..Len(made)
      BY <2>0, <3>1
    <3>3. /\ pending = SubSeq(made, Len(handed) + 1, Len(made))
          /\ made \in Seq(QuoteRecords)
      BY <2>0, <3>1
    <3>4. /\ Head(pending) = made[Len(handed) + 1]
          /\ Tail(pending) = SubSeq(made, (Len(handed) + 1) + 1, Len(made))
      BY <3>1, <3>2, <3>3, HeadTailOfSubSeq
    <3>5. pending' = Tail(pending)
      <4>1. Len(handed') = Len(handed) + 1
        BY <3>1, AppendProperties
      <4>2. pending' = SubSeq(made, (Len(handed) + 1) + 1, Len(made))
        BY <2>0, <3>1, <4>1
      <4> QED
        BY <3>4, <4>2
    <3>6. pending # <<>>
      <4>1. \A i \in (Len(handed) + 1)..Len(made) : made[i] \in QuoteRecords
        BY <2>0, <3>3
      <4>2. Len(pending) = Len(made) - (Len(handed) + 1) + 1
        BY <2>0, <3>1, <3>2, <3>3, <4>1, SubSeqProperties
      <4>3. Len(pending) # 0
        BY <2>0, <3>1, <4>2
      <4>4. Len(<<>>) = 0
        BY EmptySeq
      <4> HIDE DEF pending
      <4> QED
        BY <4>3, <4>4
    <3> QED
      BY <3>1, <3>4, <3>5, <3>6 DEF Promised!Next, Promised!Return
  <2>4. CASE EndOfSession
    <3>1. /\ rd_state = "streaming" /\ rd_state' = "ended" /\ handed' = handed
          /\ Len(handed) >= rd_count
      BY <2>4 DEF EndOfSession
    <3>2. pending = <<>>
      <4>1. Len(handed) + 1 \in Int /\ rd_count \in Int /\ rd_count < Len(handed) + 1
        BY <2>0, <3>1
      <4> QED
        BY <3>1, <4>1, SubSeqEmpty
    <3> QED
      BY <3>1, <3>2 DEF Promised!Next, Promised!Stop
  <2> QED
    BY <2>1, <2>2, <2>3, <2>4 DEF Next
<1> QED
  BY <1>1, <1>2, SessionBelow, FilesHold, ReaderHolds, PTL
     DEF Spec, ImplementsRecordSource, Promised!Spec
-----------------------------------------------------------------------------
\* Where the books' numbering and the clock stand behind what was made.
Numbered(i) ==
    /\ made[i].ts <= tick
    /\ made[i].seq < seq_no[made[i].book]
    /\ made[i].seq + 1 < seq_no[made[i].book] =>
          \E k \in i..Len(made) : made[k].book = made[i].book /\ made[k].seq = made[i].seq + 1

QuoteLags(r) ==
    r.from = Lagged(r.ts, Roster[r.book].lag)

OrderOK ==
    /\ SessionInOrder
    /\ \A i \in 1..Len(made) : Numbered(i) /\ QuoteLags(made[i])

\* The fields of a record made.
LEMMA MadeFields ==
    ASSUME FilesOK, NEW i \in 1..Len(made)
    PROVE  /\ made[i] \in QuoteRecords
           /\ made[i].seq \in Nat /\ made[i].ts \in 0..(Ticks - 1) /\ made[i].book \in Books
           /\ made[i].market \in MarketIds
<1>1. made[i] \in QuoteRecords
  BY ElementOfSeq DEF FilesOK
<1> QED
  BY <1>1 DEF QuoteRecords

\* A book's next record is numbered after all it made before.
LEMMA QuoteInOrder ==
    ASSUME LoopOK, FilesOK, OrderOK, QuoteBook
    PROVE  OrderOK'
<1>1. /\ book \in Books /\ tick \in 0..(Ticks - 1) /\ TheQuote \in QuoteRecords
      /\ \/ /\ seq_no' = [seq_no EXCEPT ![book] = seq_no[book] + 1]
            /\ made' = Append(made, TheQuote)
         \/ UNCHANGED <<seq_no, made>>
      /\ tick' \in {tick, tick + 1}
      /\ seq_no \in [Books -> Nat]
  BY QuoteFacts DEF QuoteBook, Advance, LoopOK, FanoutAccept
<1>2. made \in Seq(QuoteRecords) /\ Len(made) \in Nat /\ DOMAIN made = 1..Len(made)
      /\ tick \in Nat /\ tick' \in Nat /\ tick <= tick'
  BY <1>1 DEF FilesOK
<1>3. CASE UNCHANGED <<seq_no, made>>
  <2>1. \A i \in 1..Len(made) : made[i].ts <= tick'
    BY <1>2, MadeFields DEF OrderOK, Numbered
  <2> QED
    BY <1>3, <2>1 DEF OrderOK, Numbered, SessionInOrder
<1>4. CASE /\ seq_no' = [seq_no EXCEPT ![book] = seq_no[book] + 1]
           /\ made' = Append(made, TheQuote)
  <2> DEFINE n == Len(made) + 1
  <2>1. /\ made' \in Seq(QuoteRecords) /\ Len(made') = n /\ made'[n] = TheQuote
        /\ \A i \in 1..Len(made) : made'[i] = made[i]
        /\ DOMAIN made' = 1..n
    BY <1>1, <1>2, <1>4, AppendProperties
  <2>2. /\ TheQuote.seq = seq_no[book] /\ TheQuote.ts = tick /\ TheQuote.book = book
        /\ TheQuote.from = Lagged(tick, Roster[book].lag) /\ seq_no[book] \in Nat
    BY <1>1 DEF TheQuote, QuoteRecord
  <2>3. n \in Nat /\ \A i \in 1..n : i = n \/ i \in 1..Len(made)
    BY <1>2
  <2>4. ASSUME NEW i \in 1..Len(made)
        PROVE  Numbered(i)' /\ QuoteLags(made'[i])
    <3>1. /\ made'[i] = made[i] /\ QuoteLags(made[i]) /\ Numbered(i)
          /\ made[i].seq \in Nat /\ made[i].book \in Books /\ made[i].ts \in Nat
      BY <2>1, <2>4, MadeFields DEF OrderOK
    <3>2. made'[i].ts <= tick'
      BY <1>2, <3>1 DEF Numbered
    <3>3. CASE made[i].book = book
      <4>1. seq_no'[made[i].book] = seq_no[book] + 1
        BY <1>1, <1>4, <3>1, <3>3
      <4>2. made[i].seq < seq_no[book] + 1
        BY <2>2, <3>1, <3>3 DEF Numbered
      <4>3. \E k \in i..n : made'[k].book = made'[i].book /\ made'[k].seq = made'[i].seq + 1
        <5>1. CASE made[i].seq + 1 < seq_no[book]
          <6>1. PICK k \in i..Len(made) : made[k].book = made[i].book /\ made[k].seq = made[i].seq + 1
            BY <3>1, <3>3, <5>1 DEF Numbered
          <6>2. k \in 1..Len(made) /\ k \in i..n
            BY <1>2, <2>3
          <6> QED
            BY <2>1, <3>1, <6>1, <6>2
        <5>2. CASE ~(made[i].seq + 1 < seq_no[book])
          <6>1. made[i].seq + 1 = seq_no[book]
            BY <2>2, <3>1, <3>3, <5>2 DEF Numbered
          <6>2. n \in i..n
            BY <1>2, <2>3
          <6> QED
            BY <2>1, <2>2, <3>1, <3>3, <6>1, <6>2
        <5> QED
          BY <5>1, <5>2
      <4> QED
        BY <2>1, <3>1, <3>2, <4>1, <4>2, <4>3 DEF Numbered, QuoteLags
    <3>4. CASE made[i].book # book
      <4>1. seq_no'[made[i].book] = seq_no[made[i].book]
        BY <1>1, <1>4, <3>1, <3>4
      <4>2. made[i].seq + 1 < seq_no[made[i].book] =>
               \E k \in i..n : made'[k].book = made'[i].book /\ made'[k].seq = made'[i].seq + 1
        <5> SUFFICES ASSUME made[i].seq + 1 < seq_no[made[i].book]
                     PROVE  \E k \in i..n : made'[k].book = made'[i].book
                                             /\ made'[k].seq = made'[i].seq + 1
          OBVIOUS
        <5>1. PICK k \in i..Len(made) : made[k].book = made[i].book /\ made[k].seq = made[i].seq + 1
          BY <3>1 DEF Numbered
        <5>2. k \in 1..Len(made) /\ k \in i..n
          BY <1>2, <2>3
        <5> QED
          BY <2>1, <3>1, <5>1, <5>2
      <4>3. made[i].seq < seq_no[made[i].book]
        BY <3>1 DEF Numbered
      <4> QED
        BY <2>1, <3>1, <3>2, <4>1, <4>2, <4>3 DEF Numbered, QuoteLags
    <3> QED
      BY <3>3, <3>4
  <2>5. ASSUME NEW i \in 1..n, i = n
        PROVE  Numbered(i)' /\ QuoteLags(made'[i])
    <3>1. seq_no'[book] = seq_no[book] + 1
      BY <1>1, <1>4
    <3>2. made'[i].ts <= tick' /\ made'[i].seq < seq_no'[made'[i].book]
          /\ ~(made'[i].seq + 1 < seq_no'[made'[i].book])
      BY <1>1, <1>2, <2>1, <2>2, <2>5, <3>1
    <3> QED
      BY <2>1, <2>2, <2>5, <3>2 DEF Numbered, QuoteLags
  <2>6. ASSUME NEW i \in 1..n, NEW j \in 1..n, i < j
        PROVE  /\ made'[i].ts <= made'[j].ts
               /\ made'[i].book = made'[j].book =>
                     /\ made'[i].seq < made'[j].seq
                     /\ \E k \in i..j : made'[k].book = made'[i].book
                                        /\ made'[k].seq = made'[i].seq + 1
    <3>1. i \in 1..Len(made) /\ made'[i] = made[i]
      BY <1>2, <2>1, <2>6
    <3>2. CASE j \in 1..Len(made)
      <4>1. made'[j] = made[j] /\ \A k \in i..j : made'[k] = made[k]
        BY <1>2, <2>1, <3>1, <3>2
      <4>2. /\ made[i].ts <= made[j].ts
            /\ made[i].book = made[j].book =>
                  /\ made[i].seq < made[j].seq
                  /\ \E k \in i..j : made[k].book = made[i].book
                                     /\ made[k].seq = made[i].seq + 1
        BY <1>2, <2>6, <3>1, <3>2 DEF OrderOK, SessionInOrder
      <4> QED
        BY <3>1, <4>1, <4>2
    <3>3. CASE j = n
      <4>1. made[i].ts <= tick /\ made[i].seq < seq_no[made[i].book] /\ made[i].seq \in Nat
        BY <3>1, MadeFields DEF OrderOK, Numbered
      <4>2. made'[i].book = made'[n].book =>
               \E k \in i..n : made'[k].book = made'[i].book /\ made'[k].seq = made'[i].seq + 1
        <5> SUFFICES ASSUME made[i].book = book
                     PROVE  \E k \in i..n : made'[k].book = book /\ made'[k].seq = made[i].seq + 1
          BY <2>1, <2>2, <3>1
        <5>1. CASE made[i].seq + 1 < seq_no[book]
          <6>1. PICK k \in i..Len(made) : made[k].book = made[i].book /\ made[k].seq = made[i].seq + 1
            BY <3>1, <5>1 DEF OrderOK, Numbered
          <6>2. k \in 1..Len(made) /\ k \in i..n
            BY <1>2, <2>3, <3>1
          <6> QED
            BY <2>1, <6>1, <6>2
        <5>2. CASE ~(made[i].seq + 1 < seq_no[book])
          <6>1. made[i].seq + 1 = seq_no[book] /\ n \in i..n
            BY <1>2, <2>2, <2>3, <3>1, <4>1, <5>2
          <6> QED
            BY <2>1, <2>2, <6>1
        <5> QED
          BY <5>1, <5>2
      <4> QED
        BY <2>1, <2>2, <3>1, <3>3, <4>1, <4>2
    <3> QED
      BY <2>3, <3>2, <3>3
  <2> QED
    BY <2>1, <2>3, <2>4, <2>5, <2>6 DEF OrderOK, SessionInOrder
<1> QED
  BY <1>1, <1>3, <1>4

LEMMA OrderHolds == Spec => []OrderOK
<1>1. SessionInit => OrderOK
  <2> SUFFICES ASSUME SessionInit
               PROVE  OrderOK
    OBVIOUS
  <2>1. made = <<>> /\ DOMAIN <<>> = {} /\ Len(<<>>) = 0
    BY DEF SessionInit, Init
  <2> QED
    BY <2>1 DEF OrderOK, SessionInOrder
<1>2. LoopOK /\ FilesOK /\ OrderOK /\ [Next]_sessionVars => OrderOK'
  <2> SUFFICES ASSUME LoopOK, FilesOK, OrderOK, [Next]_sessionVars, ~QuoteBook
               PROVE  OrderOK'
    BY QuoteInOrder
  <2>1. UNCHANGED <<tick, seq_no, made>>
    BY DEF Next, SimStep, SimNext, StepLatent, FlushFile, PatchCount, CloseFile, Spill,
           CloseSidecars, Settle, SettleInStages, CloseSettlement, Die, OpenSession, ReadRecord, EndOfSession,
           sessionVars, simVars, loopVars, historyVars
  <2> QED
    BY <2>1 DEF OrderOK, SessionInOrder, Numbered
<1> QED
  BY <1>1, <1>2, LoopHolds, FilesHold, PTL DEF Spec

\* A session's records are in order, whatever the markets, the books, their lags
\* and intervals: time never goes back, and each book numbers without gaps.
THEOREM SessionInOrderHolds == OfflineSpec => []SessionInOrder
BY SessionBelow, OrderHolds, PTL DEF OrderOK

\* Every quote is computed from the distribution its book's lag ticks back, or
\* the first one: the ring gives out none overwritten or not yet written.
THEOREM QuotesLagHolds == OfflineSpec => []QuotesLag
<1>1. LoopOK /\ FilesOK /\ OrderOK => QuotesLag
  <2> SUFFICES ASSUME FilesOK, OrderOK, NEW i \in DOMAIN made
               PROVE  LET lag == Roster[made[i].book].lag
                      IN made[i].from = IF made[i].ts >= lag THEN made[i].ts - lag ELSE 0
    BY DEF QuotesLag
  <2>1. i \in 1..Len(made)
    BY DEF FilesOK
  <2> QED
    BY <2>1 DEF OrderOK, QuoteLags, Lagged
<1> QED
  BY <1>1, SessionBelow, LoopHolds, FilesHold, OrderHolds, PTL
-----------------------------------------------------------------------------
Places == [tick : 0..(Ticks - 1), market : MarketIds]

\* The truth and jump files are as the loop has made them, but for one that
\* fclose() is known to have left short.
SidecarsKept ==
    /\ "truth" \notin cut => Len(truth) = Markets * Ticks
    /\ "jumps" \notin cut => ToSet(jumps) = jumped

\* The sidecar files hold what the loop has put into them, in the loop's order;
\* only the death of the process or a failed close may cut them short, and the
\* death not once they are closed, which is before the settlement.
SidecarsOK ==
    /\ truth \in Seq(Places) /\ jumps \in Seq(Places)
    /\ settlement \in Seq([market : MarketIds, from : {Ticks - 1}])
    /\ \A i \in 1..Len(truth) : i - 1 = Markets * truth[i].tick + truth[i].market
    /\ Len(truth) <= Markets * Ticks
    /\ jumped \subseteq Places /\ ToSet(jumps) \subseteq jumped
    /\ stage \notin {"settle", "done", "dead"} =>
          /\ Len(truth) = Markets * tick + market + (IF book = 0 THEN 0 ELSE 1)
          /\ ToSet(jumps) = jumped
    /\ stage \in {"settle", "done"} => SidecarsKept
    /\ \A i \in 1..Len(settlement) : settlement[i].market = i - 1
    /\ settlement # <<>> =>
          /\ stage \in {"settle", "done", "dead"} /\ SidecarsKept
          /\ header = FinalHeader /\ disk = Len(made)

LEMMA PrefixIs ==
    ASSUME NEW S, NEW s \in Seq(S), NEW t \in Prefixes(s)
    PROVE  /\ t \in Seq(S) /\ Len(t) \in Nat /\ Len(t) <= Len(s)
           /\ \A i \in 1..Len(t) : i \in 1..Len(s) /\ t[i] = s[i]
           /\ ToSet(t) \subseteq ToSet(s)
           /\ s = <<>> => t = <<>>
<1>1. PICK l \in 0..Len(s) : t = SubSeq(s, 1, l)
  BY DEF Prefixes
<1>2. \A i \in 1..l : s[i] \in S
  OBVIOUS
<1>3. t \in Seq(S) /\ Len(t) = l /\ \A i \in 1..l : t[i] = s[i]
  BY <1>1, <1>2
<1>4. \A i \in 1..l : i \in 1..Len(s)
  OBVIOUS
<1>5. ToSet(t) \subseteq ToSet(s)
  BY <1>3, <1>4 DEF ToSet
<1>6. s = <<>> => t = <<>>
  <2>1. ASSUME s = <<>> PROVE Len(t) = 0
    BY <1>3, <2>1
  <2> QED
    BY <1>3, <2>1, EmptySeq
<1> QED
  BY <1>3, <1>4, <1>5, <1>6

\* What the end of a sequence adds to its set.
LEMMA AppendedSet ==
    ASSUME NEW S, NEW s \in Seq(S), NEW e \in S
    PROVE  /\ ToSet(Append(s, e)) = ToSet(s) \union {e}
           /\ ToSet(s) \subseteq S
<1>1. /\ DOMAIN s = 1..Len(s) /\ Len(s) \in Nat
      /\ DOMAIN Append(s, e) = 1..(Len(s) + 1)
      /\ \A i \in 1..Len(s) : Append(s, e)[i] = s[i] /\ s[i] \in S
      /\ Append(s, e)[Len(s) + 1] = e
  BY AppendProperties
<1>2. 1..(Len(s) + 1) = (1..Len(s)) \union {Len(s) + 1}
  BY <1>1
<1> QED
  BY <1>1, <1>2 DEF ToSet

\* The loop's steps put their records where they belong.
LEMMA LoopSidecars ==
    ASSUME LoopOK, SidecarsOK, StepLatent \/ QuoteBook
    PROVE  SidecarsOK'
<1>1. /\ Markets \in Nat \ {0} /\ Ticks \in Nat \ {0} /\ MarketIds = 0..(Markets - 1)
      /\ stage = "generate" /\ tick \in 0..(Ticks - 1) /\ market \in 0..(Markets - 1)
      /\ settlement = <<>>
  BY RosterIs DEF LoopOK, SidecarsOK, StepLatent, QuoteBook
<1>2. /\ truth \in Seq(Places) /\ jumps \in Seq(Places) /\ Len(truth) \in Nat
      /\ Len(truth) = Markets * tick + market + (IF book = 0 THEN 0 ELSE 1)
      /\ \A i \in 1..Len(truth) : i - 1 = Markets * truth[i].tick + truth[i].market
      /\ jumped \subseteq Places /\ ToSet(jumps) = jumped /\ Len(truth) <= Markets * Ticks
  BY <1>1 DEF SidecarsOK
<1>3. Markets * tick \in Nat /\ Markets * (tick + 1) = Markets * tick + Markets
      /\ Markets * (tick + 1) <= Markets * Ticks /\ Markets * Ticks \in Nat
  BY <1>1, Distributes, ProductMonotone
<1>4. /\ stage' \in {"generate", "flush"} /\ settlement' = settlement
      /\ settlement \in Seq([market : MarketIds, from : {Ticks - 1}])
      /\ Len(<<>>) = 0 /\ UNCHANGED settlement
  BY <1>1, EmptySeq DEF StepLatent, QuoteBook, Advance, sidecarVars, SidecarsOK
<1>5. CASE StepLatent
  <2>1. /\ book = 0 /\ book' = 1 /\ truth' = Append(truth, Here)
        /\ UNCHANGED <<stage, tick, market>>
        /\ \/ UNCHANGED <<jumps, jumped>>
           \/ jumps' = Append(jumps, Here) /\ jumped' = jumped \union {Here}
    BY <1>5 DEF StepLatent, TruthAccept, JumpAccept
  <2>2. Here \in Places /\ Here.tick = tick /\ Here.market = market
    BY <1>1 DEF Here, Places
  <2>3. /\ truth' \in Seq(Places) /\ Len(truth') = Len(truth) + 1
        /\ \A i \in 1..Len(truth) : truth'[i] = truth[i]
        /\ truth'[Len(truth) + 1] = Here
    BY <1>2, <2>1, <2>2, AppendProperties
  <2>4. Len(truth) = Markets * tick + market
    BY <1>1, <1>2, <1>3, <2>1
  <2>5. ASSUME NEW i \in 1..Len(truth')
        PROVE  i - 1 = Markets * truth'[i].tick + truth'[i].market
    <3>1. CASE i = Len(truth) + 1
      <4>1. i - 1 = Len(truth)
        BY <1>2, <3>1
      <4> QED
        BY <2>2, <2>3, <2>4, <3>1, <4>1
    <3>2. CASE i # Len(truth) + 1
      <4>1. i \in 1..Len(truth)
        BY <1>2, <2>3, <3>2
      <4> QED
        BY <1>2, <2>3, <4>1
    <3> QED
      BY <3>1, <3>2
  <2>6. /\ jumps' \in Seq(Places) /\ jumped' \subseteq Places /\ ToSet(jumps') = jumped'
    <3>1. CASE UNCHANGED <<jumps, jumped>>
      BY <1>2, <3>1
    <3>2. CASE jumps' = Append(jumps, Here) /\ jumped' = jumped \union {Here}
      <4>1. Append(jumps, Here) \in Seq(Places)
        BY <1>2, <2>2, AppendProperties
      <4>2. ToSet(Append(jumps, Here)) = ToSet(jumps) \union {Here}
        BY <1>2, <2>2, AppendedSet
      <4> QED
        BY <1>2, <2>2, <3>2, <4>1, <4>2
    <3> QED
      BY <2>1, <3>1, <3>2
  <2>7. /\ Len(truth') = Markets * tick + market + 1 /\ Len(truth') <= Markets * Ticks
    <3>1. Len(truth') = Markets * tick + market + 1
      BY <2>3, <2>4
    <3>2. Markets * tick + market + 1 <= Markets * tick + Markets
      BY <1>1, <1>3
    <3>3. Markets * tick + market + 1 \in Int /\ Markets * tick + Markets \in Int
      BY <1>1, <1>3
    <3> QED
      BY <1>3, <3>1, <3>2, <3>3
  <2> QED
    BY <1>1, <1>4, <2>1, <2>3, <2>5, <2>6, <2>7 DEF SidecarsOK
<1>6. CASE QuoteBook
  <2>1. /\ book # 0 /\ book \in Books /\ Advance /\ UNCHANGED <<truth, jumps, jumped>>
    BY <1>6, QuoteFacts DEF QuoteBook, sidecarVars
  <2>2. Len(truth) = Markets * tick + market + 1
    BY <1>2, <2>1
  <2>3. Len(truth) = Markets * tick' + market' + (IF book' = 0 THEN 0 ELSE 1)
    <3>1. CASE book < Len(Roster)
      <4>1. book' = book + 1 /\ book' # 0 /\ tick' = tick /\ market' = market
        BY <2>1, <3>1, RosterIs DEF Advance
      <4> QED
        BY <2>2, <4>1
    <3>2. CASE ~(book < Len(Roster)) /\ market + 1 < Markets
      <4>1. book' = 0 /\ tick' = tick /\ market' = market + 1
        BY <2>1, <3>2 DEF Advance
      <4> QED
        BY <1>1, <1>3, <2>2, <4>1
    <3>3. CASE ~(book < Len(Roster)) /\ ~(market + 1 < Markets)
      <4>1. book' = 0 /\ tick' = tick + 1 /\ market' = 0 /\ market + 1 = Markets
        BY <1>1, <2>1, <3>3 DEF Advance
      <4> QED
        BY <1>1, <1>3, <2>2, <4>1
    <3> QED
      BY <3>1, <3>2, <3>3
  <2> QED
    BY <1>1, <1>2, <1>4, <2>1, <2>3 DEF SidecarsOK
<1> QED
  BY <1>5, <1>6

LEMMA SettleKeeps ==
    ASSUME LoopOK, FilesOK, SidecarsOK, Settle
    PROVE  SidecarsOK'
<1>1. /\ stage = "settle" /\ stage' = "settle" /\ tick = Ticks /\ market = 0 /\ book = 0
      /\ UNCHANGED <<loopVars, fileVars, truth, jumps, made, jumped, cut>>
      /\ Len(settlement) < Markets
      /\ settlement' = Append(settlement, Settled(Len(settlement)))
      /\ Markets \in Nat \ {0} /\ Ticks \in Nat \ {0} /\ MarketIds = 0..(Markets - 1)
  BY RosterIs DEF Settle, SettleInStages, SettlementAccept, LoopOK, historyVars
<1>2. /\ settlement \in Seq([market : MarketIds, from : {Ticks - 1}])
      /\ Len(settlement) \in Nat /\ Len(settlement) < Markets
      /\ \A i \in 1..Len(settlement) : settlement[i].market = i - 1
      /\ Markets * Ticks \in Nat
  BY <1>1 DEF SidecarsOK
<1>3. Len(settlement) \in MarketIds
  BY <1>1, <1>2
<1>4. final_latent[Len(settlement)] = Ticks - 1
  <2>1. ~(Len(settlement) < market \/ (Len(settlement) = market /\ book # 0))
    BY <1>1, <1>2
  <2> QED
    BY <1>1, <1>3, <2>1 DEF LoopOK
<1> DEFINE r == Settled(Len(settlement))
<1>5. r \in [market : MarketIds, from : {Ticks - 1}] /\ r.market = Len(settlement)
  BY <1>3, <1>4 DEF Settled
<1> HIDE DEF r
<1>6. /\ settlement' \in Seq([market : MarketIds, from : {Ticks - 1}])
      /\ Len(settlement') = Len(settlement) + 1
      /\ \A i \in 1..Len(settlement) : settlement'[i] = settlement[i]
      /\ settlement'[Len(settlement) + 1] = r
  BY <1>1, <1>2, <1>5, AppendProperties DEF r
<1>7. ASSUME NEW i \in 1..Len(settlement')
      PROVE  settlement'[i].market = i - 1
  <2>1. CASE i = Len(settlement) + 1
    BY <1>2, <1>5, <1>6, <2>1
  <2>2. CASE i # Len(settlement) + 1
    <3>1. i \in 1..Len(settlement)
      BY <1>2, <1>6, <2>2
    <3> QED
      BY <1>2, <1>6, <3>1
  <2> QED
    BY <2>1, <2>2
<1>8. SidecarsKept' /\ FinalHeader' = FinalHeader
  BY <1>1 DEF SidecarsOK, SidecarsKept, FinalHeader
<1>9. header = FinalHeader /\ disk = Len(made)
  <2>1. buffer = <<>> /\ written \o buffer = made /\ disk = Len(written) /\ header = FinalHeader
    BY <1>1 DEF FilesOK
  <2>2. written = made
    BY <2>1, ConcatEmptySeq DEF FilesOK
  <2> QED
    BY <2>1, <2>2
<1> QED
  BY <1>1, <1>6, <1>7, <1>8, <1>9 DEF SidecarsOK, loopVars, fileVars

\* A closed file is a part of what was on its way, from its start.
LEMMA ClosedIs ==
    ASSUME NEW S, NEW s \in Seq(S), NEW t \in Closed(s)
    PROVE  t \in Prefixes(s)
BY DEF Closed

\* The closing of the truth and jump files leaves each whole, or known as cut.
LEMMA CloseSidecarsKeeps ==
    ASSUME LoopOK, SidecarsOK, CloseSidecars
    PROVE  SidecarsOK'
<1>1. /\ stage = "sidecars" /\ stage' = "settle" /\ tick = Ticks /\ market = 0 /\ book = 0
      /\ truth' \in Closed(truth) /\ jumps' \in Closed(jumps)
      /\ UNCHANGED <<settlement, jumped>> /\ settlement = <<>>
      /\ "truth" \notin cut' => truth' = truth
      /\ "jumps" \notin cut' => jumps' = jumps
  BY DEF CloseSidecars, LoopOK, SidecarsOK
<1>2. /\ truth \in Seq(Places) /\ jumps \in Seq(Places)
      /\ Len(truth) = Markets * Ticks /\ Markets * Ticks \in Nat /\ ToSet(jumps) = jumped
  <2>1. Len(truth) = Markets * Ticks + 0 + 0
    BY <1>1 DEF SidecarsOK
  <2> QED
    BY <1>1, <2>1, RosterIs DEF SidecarsOK
<1>3. /\ truth' \in Seq(Places) /\ Len(truth') \in Nat /\ Len(truth') <= Len(truth)
      /\ \A i \in 1..Len(truth') : i \in 1..Len(truth) /\ truth'[i] = truth[i]
  BY <1>1, <1>2, ClosedIs, PrefixIs
<1>4. jumps' \in Seq(Places) /\ ToSet(jumps') \subseteq ToSet(jumps)
  BY <1>1, <1>2, ClosedIs, PrefixIs
<1>5. SidecarsKept'
  BY <1>1, <1>2 DEF SidecarsKept
<1>6. \A i \in 1..Len(truth') : i - 1 = Markets * truth'[i].tick + truth'[i].market
  BY <1>3 DEF SidecarsOK
<1>7. /\ Len(truth') <= Markets * Ticks
      /\ jumped \subseteq Places /\ ToSet(jumps') \subseteq jumped
  BY <1>2, <1>3, <1>4 DEF SidecarsOK
<1> QED
  BY <1>1, <1>3, <1>4, <1>5, <1>6, <1>7 DEF SidecarsOK

LEMMA CloseSettlementKeeps ==
    ASSUME SidecarsOK, CloseSettlement
    PROVE  SidecarsOK'
<1>1. /\ stage = "settle" /\ stage' = "done" /\ settlement' \in Closed(settlement)
      /\ UNCHANGED <<truth, jumps, made, jumped, cut, header, disk>>
  BY DEF CloseSettlement, fileVars, historyVars
<1>2. settlement \in Seq([market : MarketIds, from : {Ticks - 1}])
  BY DEF SidecarsOK
<1>3. /\ settlement' \in Seq([market : MarketIds, from : {Ticks - 1}])
      /\ \A i \in 1..Len(settlement') : i \in 1..Len(settlement) /\ settlement'[i] = settlement[i]
      /\ settlement = <<>> => settlement' = <<>>
  BY <1>1, <1>2, ClosedIs, PrefixIs
<1>4. SidecarsKept' /\ FinalHeader' = FinalHeader
  BY <1>1 DEF SidecarsOK, SidecarsKept, FinalHeader
<1>5. \A i \in 1..Len(settlement') : settlement'[i].market = i - 1
  BY <1>3 DEF SidecarsOK
<1> QED
  BY <1>1, <1>3, <1>4, <1>5 DEF SidecarsOK

LEMMA DieKeeps ==
    ASSUME LoopOK, FilesOK, SidecarsOK, Die
    PROVE  SidecarsOK'
<1>1. /\ stage # "dead" /\ stage' = "dead" /\ UNCHANGED <<made, written, jumped, cut>>
      /\ disk' \in disk..Len(written)
      /\ stage \in {"sidecars", "settle"} => UNCHANGED header
      /\ IF stage = "settle"
         THEN UNCHANGED <<truth, jumps>>
         ELSE truth' \in Prefixes(truth) /\ jumps' \in Prefixes(jumps)
      /\ settlement' \in Prefixes(settlement) /\ stage # "done"
  BY DEF Die, historyVars
<1>2. /\ truth \in Seq(Places) /\ jumps \in Seq(Places)
      /\ settlement \in Seq([market : MarketIds, from : {Ticks - 1}])
      /\ Len(truth) \in Nat /\ Len(truth) <= Markets * Ticks
      /\ Markets \in Nat /\ Ticks \in Nat /\ Markets * Ticks \in Nat
  BY RosterIs DEF SidecarsOK
<1>3. /\ truth' \in Seq(Places) /\ Len(truth') \in Nat /\ Len(truth') <= Len(truth)
      /\ \A i \in 1..Len(truth') : i \in 1..Len(truth) /\ truth'[i] = truth[i]
  BY <1>1, <1>2, PrefixIs
<1>4. /\ jumps' \in Seq(Places) /\ ToSet(jumps') \subseteq ToSet(jumps)
  BY <1>1, <1>2, PrefixIs
<1>5. /\ settlement' \in Seq([market : MarketIds, from : {Ticks - 1}])
      /\ \A i \in 1..Len(settlement') : i \in 1..Len(settlement) /\ settlement'[i] = settlement[i]
      /\ settlement = <<>> => settlement' = <<>>
  BY <1>1, <1>2, PrefixIs
<1>6. Len(truth') <= Markets * Ticks
  BY <1>2, <1>3
<1>7. settlement # <<>> => SidecarsKept' /\ header' = FinalHeader' /\ disk' = Len(made)
  <2> SUFFICES ASSUME settlement # <<>>
               PROVE  SidecarsKept' /\ header' = FinalHeader' /\ disk' = Len(made)
    OBVIOUS
  <2>1. /\ stage = "settle" /\ SidecarsKept /\ header = FinalHeader /\ disk = Len(made)
    BY <1>1 DEF SidecarsOK
  <2>2. disk = Len(written) /\ Len(written) \in Nat
    <3>1. written \in Seq(QuoteRecords) /\ disk = Len(written)
      BY <2>1 DEF FilesOK
    <3> QED
      BY <3>1
  <2>3. disk' = disk
    BY <1>1, <2>2
  <2> QED
    BY <1>1, <2>1, <2>3 DEF SidecarsKept, FinalHeader
<1>8. \A i \in 1..Len(truth') : i - 1 = Markets * truth'[i].tick + truth'[i].market
  BY <1>3 DEF SidecarsOK
<1>9. jumped \subseteq Places /\ ToSet(jumps') \subseteq jumped
  BY <1>4 DEF SidecarsOK
<1>10. \A i \in 1..Len(settlement') : settlement'[i].market = i - 1
  BY <1>5 DEF SidecarsOK
<1> QED
  BY <1>1, <1>3, <1>4, <1>5, <1>6, <1>7, <1>8, <1>9, <1>10 DEF SidecarsOK

LEMMA SidecarsHold == Spec => []SidecarsOK
<1>1. SessionInit => SidecarsOK
  <2> SUFFICES ASSUME SessionInit
               PROVE  SidecarsOK
    OBVIOUS
  <2>1. /\ truth = <<>> /\ jumps = <<>> /\ settlement = <<>> /\ jumped = {}
        /\ stage = "generate" /\ tick = 0 /\ market = 0 /\ book = 0
    BY DEF SessionInit, Init, SinksInit
  <2>2. Len(<<>>) = 0 /\ ToSet(<<>>) = {}
    BY DEF ToSet
  <2>3. Markets * 0 = 0 /\ Markets * Ticks \in Nat
    BY RosterIs
  <2>4. <<>> \in Seq(Places) /\ <<>> \in Seq([market : MarketIds, from : {Ticks - 1}])
    OBVIOUS
  <2> QED
    BY <2>1, <2>2, <2>3, <2>4 DEF SidecarsOK
<1>2. LoopOK /\ FilesOK /\ SidecarsOK /\ [Next]_sessionVars => SidecarsOK'
  <2> SUFFICES ASSUME LoopOK, FilesOK, SidecarsOK, [Next]_sessionVars
               PROVE  SidecarsOK'
    OBVIOUS
  <2>1. CASE FlushFile \/ PatchCount \/ CloseFile \/ Spill
    <3>1. /\ UNCHANGED <<sidecarVars, jumped, tick, market, book>>
          /\ stage \notin {"settle", "done", "dead"} /\ stage' \notin {"settle", "done", "dead"}
      BY <2>1 DEF FlushFile, PatchCount, CloseFile, Spill, loopVars, sidecarVars, historyVars
    <3>2. settlement = <<>>
      BY <3>1 DEF SidecarsOK
    <3> QED
      BY <3>1, <3>2 DEF SidecarsOK, sidecarVars
  <2>2. CASE OpenSession \/ ReadRecord \/ EndOfSession \/ UNCHANGED sessionVars
    <3>1. UNCHANGED simVars
      BY <2>2 DEF OpenSession, ReadRecord, EndOfSession, sessionVars
    <3> QED
      BY <3>1 DEF SidecarsOK, SidecarsKept, FinalHeader, simVars, loopVars, fileVars,
                  sidecarVars, historyVars
  <2> QED
    BY <2>1, <2>2, LoopSidecars, CloseSidecarsKeeps, SettleKeeps, CloseSettlementKeeps, DieKeeps
       DEF Next, SimStep, SimNext
<1> QED
  BY <1>1, <1>2, LoopHolds, FilesHold, PTL DEF Spec

\* Where there is any settlement, the session's records are all there, its count,
\* the truth and the jumps too unless their own fclose() failed, and each market's
\* winner was drawn from the last distribution, whenever the simulator dies.
THEOREM SettlementHolds == OfflineSpec => []SettlementComesLast
<1>1. FilesOK /\ SidecarsOK => SettlementComesLast
  <2> SUFFICES ASSUME SidecarsOK, settlement # <<>>
               PROVE  /\ disk = Len(made) /\ header = FinalHeader /\ SidecarsKept
                      /\ \A i \in DOMAIN settlement :
                            settlement[i] = [market |-> i - 1, from |-> Ticks - 1]
    BY DEF SettlementComesLast, FinalHeader, SidecarsKept
  <2>1. ASSUME NEW i \in DOMAIN settlement
        PROVE  settlement[i] = [market |-> i - 1, from |-> Ticks - 1]
    <3>1. i \in 1..Len(settlement)
      BY DEF SidecarsOK
    <3>2. settlement[i] \in [market : MarketIds, from : {Ticks - 1}]
      BY <3>1, ElementOfSeq DEF SidecarsOK
    <3> QED
      BY <3>1, <3>2 DEF SidecarsOK
  <2> QED
    BY <2>1 DEF SidecarsOK
<1> QED
  BY <1>1, SessionBelow, FilesHold, SidecarsHold, PTL
-----------------------------------------------------------------------------
SessionOK == LoopOK /\ FilesOK /\ ReaderOK /\ OrderOK /\ SidecarsOK

LEMMA SessionHolds == OfflineSpec => []SessionOK
BY SessionBelow, LoopHolds, FilesHold, ReaderHolds, OrderHolds, SidecarsHold, PTL DEF SessionOK

\* Only one program reads, and it is as far as the session's reader under it.
StagesOK ==
    /\ an_stage \in {"off", "session", "settlement", "jumps", "bets", "done", "failed"}
    /\ va_stage \in {"off", "truth", "compare", "done", "failed"}
    /\ an_stage = "off" \/ va_stage = "off"
    /\ an_stage # "off" \/ va_stage # "off" => rd_state # "opening"
    /\ an_stage = "session" \/ va_stage \in {"truth", "compare"} => rd_state = "streaming"
    /\ an_stage \in {"settlement", "jumps", "bets", "done"} \/ va_stage = "done" => rd_state = "ended"
    /\ va_stage = "truth" => handed = <<>>

\* The opening of a session: the reader has returned nothing yet.
LEMMA OpeningIs ==
    ASSUME ReaderOK, OpenSession
    PROVE  /\ rd_state = "opening" /\ rd_state' \in {"failed", "streaming"}
           /\ handed = <<>> /\ handed' = <<>> /\ UNCHANGED simVars
BY DEF OpenSession, ReaderOK

LEMMA StagesStep ==
    ASSUME SessionOK, StagesOK, [OfflineNext]_vars
    PROVE  StagesOK'
<1>1. CASE (SimStep /\ UNCHANGED <<anVars, vaVars>>) \/ UNCHANGED vars
  BY <1>1 DEF SimStep, anVars, vaVars, rdVars, vars, sessionVars, StagesOK
<1>2. CASE PlainReader /\ UNCHANGED <<anVars, vaVars>>
  BY <1>2 DEF PlainReader, anVars, vaVars, StagesOK
<1>3. CASE StartAnalysis /\ UNCHANGED vaVars
  BY <1>3, OpeningIs DEF StartAnalysis, vaVars, StagesOK, SessionOK
<1>4. CASE ReadQuote /\ UNCHANGED vaVars
  <2>1. an_stage = "session" /\ UNCHANGED rd_state /\ rd_state = "streaming"
    BY <1>4, ReadIsNext DEF ReadQuote, SessionOK, ReadRecord
  <2> QED
    BY <1>4, <2>1 DEF ReadQuote, vaVars, StagesOK
<1>5. CASE EndOfQuotes /\ UNCHANGED vaVars
  BY <1>5 DEF EndOfQuotes, EndOfSession, NextFile, vaVars, StagesOK
<1>6. CASE (ReadSettlement \/ ReadJumps) /\ UNCHANGED vaVars
  <2>1. an_stage \in {"settlement", "jumps"} /\ an_stage' \in {"jumps", "bets", "failed"}
    BY <1>6 DEF ReadSettlement, ReadJumps, NoFile, NextFile
  <2>2. UNCHANGED sessionVars
    BY <1>6 DEF ReadSettlement, ReadJumps
  <2> QED
    BY <1>6, <2>1, <2>2 DEF vaVars, sessionVars, rdVars, StagesOK
<1>7. CASE ScoreBets /\ UNCHANGED vaVars
  BY <1>7 DEF ScoreBets, vaVars, sessionVars, rdVars, StagesOK
<1>8. CASE StartValidation /\ UNCHANGED anVars
  BY <1>8, OpeningIs DEF StartValidation, anVars, StagesOK, SessionOK
<1>9. CASE LoadTruth /\ UNCHANGED anVars
  <2>1. va_stage = "truth" /\ va_stage' \in {"compare", "failed"} /\ UNCHANGED sessionVars
    BY <1>9 DEF LoadTruth
  <2> QED
    BY <1>9, <2>1 DEF anVars, sessionVars, rdVars, StagesOK
<1>10. CASE CompareRecord /\ UNCHANGED anVars
  <2>1. va_stage = "compare" /\ UNCHANGED rd_state /\ rd_state = "streaming"
    BY <1>10, ReadIsNext DEF CompareRecord, SessionOK, ReadRecord
  <2> QED
    BY <1>10, <2>1 DEF CompareRecord, anVars, StagesOK
<1>11. CASE EndOfComparison /\ UNCHANGED anVars
  BY <1>11 DEF EndOfComparison, EndOfSession, anVars, StagesOK
<1> QED
  BY <1>1, <1>2, <1>3, <1>4, <1>5, <1>6, <1>7, <1>8, <1>9, <1>10, <1>11
     DEF OfflineNext, AnalysisNext, ValidationNext

LEMMA StagesHold == OfflineSpec => []StagesOK
<1>1. OfflineInit => StagesOK
  BY DEF OfflineInit, AnalysisInit, ValidationInit, StagesOK
<1>2. SessionOK /\ StagesOK /\ [OfflineNext]_vars => StagesOK'
  BY StagesStep
<1> QED
  BY <1>1, <1>2, SessionHolds, PTL DEF OfflineSpec

\* The last record of a market and book in what was read, if there is one.
OfSlot(r, m, b) == r.market = m /\ r.book = b

Closing(m, b) ==
    \/ /\ last_odds[m][b] = NoQuote
       /\ \A i \in 1..Len(handed) : ~OfSlot(handed[i], m, b)
    \/ \E i \in 1..Len(handed) :
          /\ last_odds[m][b] = handed[i] /\ OfSlot(handed[i], m, b)
          /\ \A j \in 1..Len(handed) : OfSlot(handed[j], m, b) => j <= i

ClosingOK ==
    /\ DOMAIN last_odds = MarketIds /\ \A m \in MarketIds : DOMAIN last_odds[m] = Books
    /\ an_stage = "off" => \A m \in MarketIds, b \in Books : last_odds[m][b] = NoQuote
    /\ an_stage # "off" => \A m \in MarketIds, b \in Books : Closing(m, b)

LEMMA ReadQuoteCloses ==
    ASSUME SessionOK, StagesOK, ClosingOK, ReadQuote
    PROVE  ClosingOK'
<1> DEFINE n == Len(handed) + 1
           r == made[n]
<1>1. /\ n \in 1..Len(made) /\ handed' = Append(handed, r) /\ r \in QuoteRecords
      /\ UNCHANGED rd_state /\ rd_state = "streaming"
  BY ReadIsNext DEF ReadQuote, ReadRecord, SessionOK
<1>2. handed \in Seq(QuoteRecords) /\ Len(handed) \in Nat
  BY DEF SessionOK, ReaderOK
<1>3. /\ Len(handed') = n /\ handed'[n] = r
      /\ \A i \in 1..Len(handed) : handed'[i] = handed[i]
      /\ \A i \in 1..n : i = n \/ i \in 1..Len(handed)
      /\ \A i \in 1..Len(handed) : i \in 1..n /\ i # n /\ i <= n
      /\ n \in 1..n
  BY <1>1, <1>2, AppendProperties
<1>4. r.market \in MarketIds /\ r.book \in Books
  BY <1>1 DEF QuoteRecords
<1> HIDE DEF n, r
<1>5. /\ an_stage = "session" /\ an_stage' = "session"
      /\ last_odds' = [last_odds EXCEPT ![r.market][r.book] = r]
  BY <1>1, <1>3 DEF ReadQuote, LastOdds, Last
<1>6. ASSUME NEW m \in MarketIds, NEW b \in Books
      PROVE  Closing(m, b)'
  <2>1. CASE OfSlot(r, m, b)
    <3>1. last_odds'[m][b] = r
      BY <1>4, <1>5, <2>1 DEF OfSlot, ClosingOK
    <3> QED
      BY <1>3, <2>1, <3>1 DEF Closing
  <2>2. CASE ~OfSlot(r, m, b)
    <3>1. last_odds'[m][b] = last_odds[m][b]
      BY <1>4, <1>5, <2>2 DEF OfSlot, ClosingOK
    <3>2. Closing(m, b)
      BY <1>5 DEF ClosingOK
    <3>3. CASE last_odds[m][b] = NoQuote /\ \A i \in 1..Len(handed) : ~OfSlot(handed[i], m, b)
      BY <1>3, <2>2, <3>1, <3>3 DEF Closing
    <3>4. CASE \E i \in 1..Len(handed) :
                  /\ last_odds[m][b] = handed[i] /\ OfSlot(handed[i], m, b)
                  /\ \A j \in 1..Len(handed) : OfSlot(handed[j], m, b) => j <= i
      <4>1. PICK i \in 1..Len(handed) :
                  /\ last_odds[m][b] = handed[i] /\ OfSlot(handed[i], m, b)
                  /\ \A j \in 1..Len(handed) : OfSlot(handed[j], m, b) => j <= i
        BY <3>4
      <4>2. \A j \in 1..n : OfSlot(handed'[j], m, b) => j <= i
        BY <1>3, <2>2, <4>1
      <4> QED
        BY <1>3, <3>1, <4>1, <4>2 DEF Closing
    <3> QED
      BY <3>2, <3>3, <3>4 DEF Closing
  <2> QED
    BY <2>1, <2>2
<1>7. DOMAIN last_odds' = MarketIds /\ \A m \in MarketIds : DOMAIN last_odds'[m] = Books
  BY <1>4, <1>5 DEF ClosingOK
<1> QED
  BY <1>5, <1>6, <1>7 DEF ClosingOK

LEMMA ClosingHolds == OfflineSpec => []ClosingOK
<1>1. OfflineInit => ClosingOK
  BY DEF OfflineInit, AnalysisInit, ClosingOK
<1>2. SessionOK /\ StagesOK /\ ClosingOK /\ [OfflineNext]_vars => ClosingOK'
  <2> SUFFICES ASSUME SessionOK, StagesOK, ClosingOK, [OfflineNext]_vars
               PROVE  ClosingOK'
    OBVIOUS
  <2>1. CASE ReadQuote
    BY <2>1, ReadQuoteCloses
  <2>2. CASE StartAnalysis
    <3>1. an_stage = "off" /\ UNCHANGED last_odds /\ handed' = <<>>
      BY <2>2, OpeningIs DEF StartAnalysis, SessionOK
    <3>2. Len(handed') = 0
      BY <3>1, EmptySeq
    <3>3. \A i \in 1..Len(handed') : FALSE
      BY <3>2
    <3>4. \A m \in MarketIds, b \in Books : Closing(m, b)'
      BY <3>1, <3>3 DEF ClosingOK, Closing
    <3>5. an_stage' # "off"
      BY <2>2 DEF StartAnalysis
    <3> QED
      BY <3>1, <3>4, <3>5 DEF ClosingOK
  <2>3. CASE EndOfQuotes \/ ReadSettlement \/ ReadJumps \/ ScoreBets
    <3>1. an_stage # "off" /\ UNCHANGED <<last_odds, handed>>
      BY <2>3 DEF EndOfQuotes, EndOfSession, ReadSettlement, ReadJumps, ScoreBets,
                  sessionVars, rdVars
    <3>2. an_stage' # "off"
      BY <2>3 DEF EndOfQuotes, ReadSettlement, ReadJumps, ScoreBets, NextFile, NoFile
    <3> QED
      BY <3>1, <3>2 DEF ClosingOK, Closing
  <2>4. CASE (SimStep \/ PlainReader \/ ValidationNext \/ UNCHANGED vars) /\ UNCHANGED anVars
    <3>1. UNCHANGED <<an_stage, last_odds>>
      BY <2>4 DEF anVars
    <3>2. an_stage # "off" => UNCHANGED handed
      <4> SUFFICES ASSUME an_stage # "off"
                   PROVE  UNCHANGED handed
        OBVIOUS
      <4>1. va_stage = "off" /\ rd_state # "opening"
        BY DEF StagesOK
      <4>2. ~PlainReader /\ ~ValidationNext
        BY <4>1 DEF PlainReader, ValidationNext, StartValidation, OpenSession, LoadTruth,
              CompareRecord, EndOfComparison
      <4> QED
        BY <2>4, <4>2 DEF SimStep, vars, sessionVars, rdVars
    <3> QED
      BY <3>1, <3>2 DEF ClosingOK, Closing
  <2> QED
    BY <2>1, <2>2, <2>3, <2>4 DEF OfflineNext, AnalysisNext, vars
<1> QED
  BY <1>1, <1>2, SessionHolds, StagesHold, PTL DEF OfflineSpec

\* The closing line is the record of the highest number of its market and book,
\* though the tool takes whichever stands last in the file.
THEOREM ClosingIsNewestHolds == OfflineSpec => []ClosingIsNewest
<1>1. SessionOK /\ StagesOK /\ ClosingOK => ClosingIsNewest
  <2> SUFFICES ASSUME SessionOK, StagesOK, ClosingOK,
                      an_stage \in {"settlement", "jumps", "bets", "done"},
                      NEW m \in MarketIds, NEW b \in Books,
                      NEW r \in ToSet(made), r.market = m, r.book = b
               PROVE  /\ last_odds[m][b].seq >= r.seq
                      /\ last_odds[m][b] \in {q \in ToSet(made) : q.market = m /\ q.book = b}
    BY DEF ClosingIsNewest
  <2>1. /\ Len(handed) = Len(made) /\ \A i \in 1..Len(made) : handed[i] = made[i]
        /\ made \in Seq(QuoteRecords)
    BY DEF StagesOK, SessionOK, ReaderOK, FilesOK
  <2>2. PICK k \in 1..Len(made) : r = made[k]
    BY <2>1 DEF ToSet
  <2>3. OfSlot(handed[k], m, b) /\ Closing(m, b)
    BY <2>1, <2>2 DEF OfSlot, ClosingOK
  <2>4. PICK i \in 1..Len(handed) : /\ last_odds[m][b] = handed[i] /\ OfSlot(handed[i], m, b)
                                    /\ k <= i
    BY <2>1, <2>2, <2>3 DEF Closing
  <2>5. i \in 1..Len(made) /\ last_odds[m][b] = made[i] /\ made[i] \in ToSet(made)
    BY <2>1, <2>4 DEF ToSet
  <2>6. made[i].seq \in Nat /\ made[k].seq \in Nat
    BY <2>2, <2>5, MadeFields DEF SessionOK
  <2>7. CASE k < i
    <3>1. made[k].seq < made[i].seq
      BY <2>1, <2>2, <2>4, <2>5, <2>7 DEF SessionOK, OrderOK, SessionInOrder, OfSlot
    <3> QED
      BY <2>2, <2>4, <2>5, <2>6, <3>1 DEF OfSlot
  <2>8. CASE k = i
    BY <2>2, <2>4, <2>5, <2>6, <2>8 DEF OfSlot
  <2> QED
    BY <2>2, <2>4, <2>7, <2>8
<1> QED
  BY <1>1, SessionHolds, StagesHold, ClosingHolds, PTL
-----------------------------------------------------------------------------
\* The places the loop visits first.
Known(n) == {p \in Places : Markets * p.tick + p.market < n}

\* A truth file has a record of each place up to where it ends.
LEMMA TruthKnows ==
    ASSUME NEW t \in Seq(Places), \A i \in 1..Len(t) : i - 1 = Markets * t[i].tick + t[i].market
    PROVE  /\ ToSet(t) = Known(Len(t))
           /\ IsFiniteSet(ToSet(t)) /\ Cardinality(ToSet(t)) = Len(t)
<1>1. /\ Markets \in Nat \ {0} /\ MarketIds = 0..(Markets - 1) /\ Ticks \in Nat
      /\ Len(t) \in Nat /\ DOMAIN t = 1..Len(t)
      /\ \A i \in 1..Len(t) : t[i] \in Places
  BY RosterIs, ElementOfSeq
<1>2. ASSUME NEW p \in Places
      PROVE  /\ p.tick \in Nat /\ p.market \in 0..(Markets - 1)
             /\ Markets * p.tick + p.market \in Nat
             /\ p = [tick |-> p.tick, market |-> p.market]
  <2>1. p.tick \in Nat /\ p.market \in 0..(Markets - 1)
    BY <1>1 DEF Places
  <2>2. Markets * p.tick \in Nat
    BY <1>1, <2>1
  <2> QED
    BY <2>1, <2>2 DEF Places
<1>3. ASSUME NEW p \in Known(Len(t))
      PROVE  p \in ToSet(t)
  <2> DEFINE v == Markets * p.tick + p.market
  <2>1. p \in Places /\ v \in Nat /\ v < Len(t)
    BY <1>2 DEF Known
  <2>2. v + 1 \in 1..Len(t) /\ (v + 1) - 1 = v
    BY <1>1, <2>1
  <2>3. t[v + 1] \in Places /\ v = Markets * t[v + 1].tick + t[v + 1].market
    BY <1>1, <2>2
  <2> DEFINE q == t[v + 1]
  <2>6. /\ q.tick \in Nat /\ q.market \in 0..(Markets - 1) /\ v = Markets * q.tick + q.market
        /\ p.tick \in Nat /\ p.market \in 0..(Markets - 1) /\ v = Markets * p.tick + p.market
    BY <1>2, <2>1, <2>3
  <2> HIDE DEF q, v
  <2>8. \A a \in Nat, b \in 0..(Markets - 1) :
           v = Markets * a + b => v \div Markets = a /\ v % Markets = b
    BY <1>1, <2>1, DivisionUnique
  <2>7. v \div Markets = q.tick /\ v % Markets = q.market
    BY <2>6, <2>8, Zenon
  <2>4. v \div Markets = p.tick /\ v % Markets = p.market
    BY <2>6, <2>8, Zenon
  <2>5. q = p
    BY <1>2, <2>1, <2>3, <2>4, <2>7 DEF q
  <2> QED
    BY <1>1, <2>2, <2>5 DEF ToSet, q
<1>4. ASSUME NEW p \in ToSet(t)
      PROVE  p \in Known(Len(t))
  <2>1. PICK i \in 1..Len(t) : p = t[i]
    BY <1>1 DEF ToSet
  <2>2. i - 1 = Markets * p.tick + p.market /\ i - 1 < Len(t) /\ p \in Places
    BY <1>1, <2>1
  <2> QED
    BY <2>2 DEF Known
<1>5. \A i, j \in 1..Len(t) : t[i] = t[j] => i = j
  <2> SUFFICES ASSUME NEW i \in 1..Len(t), NEW j \in 1..Len(t), t[i] = t[j]
               PROVE  i = j
    OBVIOUS
  <2>1. i - 1 = j - 1
    OBVIOUS
  <2> QED
    BY <2>1
<1> DEFINE f == [i \in 1..Len(t) |-> t[i]]
<1>6. f \in Bijection(1..Len(t), ToSet(t))
  <2>1. f \in [1..Len(t) -> ToSet(t)]
    BY <1>1 DEF ToSet
  <2>2. \A p \in ToSet(t) : \E i \in 1..Len(t) : f[i] = p
    BY <1>1 DEF ToSet
  <2>3. DOMAIN f = 1..Len(t) /\ \A i, j \in 1..Len(t) : f[i] = f[j] => i = j
    BY <1>5
  <2> HIDE DEF f
  <2> QED
    BY <2>1, <2>2, <2>3 DEF Bijection, Injection, Surjection, IsInjective
<1>7. IsFiniteSet(1..Len(t)) /\ Cardinality(1..Len(t)) = Len(t)
  <2>1. \A l \in Nat : IsFiniteSet(1..l) /\ Cardinality(1..l) = IF 1 > l THEN 0 ELSE l - 1 + 1
    BY FS_Interval
  <2>2. \A l \in Nat : (IF 1 > l THEN 0 ELSE l - 1 + 1) = l
    OBVIOUS
  <2> QED
    BY <1>1, <2>1, <2>2
<1>8. ExistsBijection(1..Len(t), ToSet(t))
  BY <1>6 DEF ExistsBijection
<1>9. IsFiniteSet(ToSet(t)) /\ Cardinality(ToSet(t)) = Cardinality(1..Len(t))
  BY <1>7, <1>8, FS_Bijection
<1> QED
  BY <1>3, <1>4, <1>7, <1>9

\* A quote that finds its truth record, and the pair it makes with it.
Matching(r) == r.ts >= lag_ticks /\ TruthKey(r) \in index

PairOf(r) == [quote |-> r, tick |-> TruthKey(r).tick]

\* What was compared is every quote read that could be; the others are counted.
ValidOK ==
    /\ lag_ticks \in Nat
    /\ va_stage = "off" => matched = {} /\ unmatched = 0
    /\ va_stage # "off" =>
          /\ matched = {PairOf(handed[i]) : i \in {k \in 1..Len(handed) : Matching(handed[k])}}
          /\ IsFiniteSet(matched) /\ unmatched \in Nat
          /\ Cardinality(matched) + unmatched = Len(handed)
    /\ va_stage \in {"compare", "done"} =>
          \E n \in Nat : index = Known(n) /\ Cardinality(index) = n

LEMMA CompareKeeps ==
    ASSUME SessionOK, StagesOK, ValidOK, CompareRecord
    PROVE  ValidOK'
<1> DEFINE n == Len(handed) + 1
           r == made[n]
<1>1. /\ n \in 1..Len(made) /\ handed' = Append(handed, r) /\ r \in QuoteRecords
      /\ UNCHANGED rd_state /\ rd_state = "streaming" /\ UNCHANGED made
  BY ReadIsNext DEF CompareRecord, ReadRecord, SessionOK, simVars, historyVars
<1>2. /\ handed \in Seq(QuoteRecords) /\ Len(handed) \in Nat
      /\ \A i \in 1..Len(handed) : handed[i] = made[i] /\ i \in 1..Len(made)
  BY <1>1 DEF SessionOK, ReaderOK, FilesOK
<1>3. /\ Len(handed') = n /\ handed'[n] = r /\ n = Len(handed) + 1
      /\ \A i \in 1..Len(handed) : handed'[i] = handed[i]
      /\ 1..n = (1..Len(handed)) \union {n} /\ n \notin 1..Len(handed)
      /\ Last(handed') = r
  BY <1>1, <1>2, AppendProperties DEF Last
<1>4. \A i \in 1..Len(handed) : handed[i] # r
  <2> SUFFICES ASSUME NEW i \in 1..Len(handed), made[i] = made[n]
               PROVE  FALSE
    BY <1>2
  <2>1. i \in 1..Len(made) /\ i < n /\ made[n].seq \in Nat /\ DOMAIN made = 1..Len(made)
    BY <1>1, <1>2, MadeFields, SMTT(20) DEF SessionOK, FilesOK
  <2>2. made[i].seq < made[n].seq
    BY <1>1, <2>1 DEF SessionOK, OrderOK, SessionInOrder
  <2> QED
    BY <2>1, <2>2
<1> HIDE DEF n, r
<1>5. /\ va_stage = "compare" /\ va_stage' = "compare" /\ UNCHANGED <<lag_ticks, index>>
      /\ Compare(r)
  BY <1>1, <1>3 DEF CompareRecord
<1>6. matched = {PairOf(handed[i]) : i \in {k \in 1..Len(handed) : Matching(handed[k])}}
  BY <1>5 DEF ValidOK
<1>12. IsFiniteSet(matched) /\ unmatched \in Nat /\ Cardinality(matched) + unmatched = Len(handed)
  BY <1>5 DEF ValidOK
<1>13. Cardinality(matched) \in Nat
  BY <1>12, FS_CardinalityType
<1>7. \A q : (Matching(q)' <=> Matching(q)) /\ PairOf(q)' = PairOf(q)
  BY <1>5 DEF Matching, PairOf, TruthKey
<1>8. PairOf(r) \notin matched
  <2> SUFFICES ASSUME NEW i \in 1..Len(handed), PairOf(r) = PairOf(handed[i])
               PROVE  FALSE
    BY <1>6
  <2>1. PairOf(r).quote = r /\ PairOf(handed[i]).quote = handed[i]
    BY DEF PairOf
  <2> QED
    BY <1>4, <2>1
<1>11. \A c, u, l \in Nat : c + u = l => c + 1 + u = l + 1 /\ c + (u + 1) = l + 1
  OBVIOUS
<1> DEFINE pairs == {PairOf(handed'[i]) : i \in {k \in 1..n : Matching(handed'[k])}}
<1>9. CASE Matching(r)
  <2>1. matched' = matched \union {PairOf(r)} /\ unmatched' = unmatched
    BY <1>5, <1>9 DEF Compare, Matching, PairOf
  <2>2. pairs = matched \union {PairOf(r)}
    BY <1>3, <1>6, <1>9
  <2>3. IsFiniteSet(matched') /\ Cardinality(matched') = Cardinality(matched) + 1
    BY <1>8, <1>12, <2>1, FS_AddElement
  <2>4. Cardinality(matched') + unmatched' = n
    <3>1. Cardinality(matched) + 1 + unmatched = Len(handed) + 1
      BY <1>2, <1>11, <1>12, <1>13, ZenonT(40)
    <3> QED
      BY <1>3, <2>1, <2>3, <3>1
  <2> HIDE DEF pairs
  <2>5. matched' = pairs /\ unmatched' \in Nat
    BY <1>12, <2>1, <2>2
  <2> QED
    BY <1>3, <1>5, <1>7, <2>3, <2>4, <2>5 DEF ValidOK, pairs
<1>10. CASE ~Matching(r)
  <2>1. unmatched' = unmatched + 1 /\ matched' = matched
    BY <1>5, <1>10 DEF Compare, Matching
  <2>2. pairs = matched
    BY <1>3, <1>6, <1>10
  <2>4. Cardinality(matched') + unmatched' = n
    BY <1>2, <1>3, <1>11, <1>12, <1>13, <2>1, ZenonT(40)
  <2> HIDE DEF pairs
  <2>5. matched' = pairs /\ unmatched' \in Nat /\ IsFiniteSet(matched')
    <3>1. unmatched + 1 \in Nat
      BY <1>12
    <3> QED
      BY <1>12, <2>1, <2>2, <3>1
  <2> QED
    BY <1>3, <1>5, <1>7, <2>4, <2>5 DEF ValidOK, pairs
<1> QED
  BY <1>9, <1>10

LEMMA ValidHolds == OfflineSpec => []ValidOK
<1>1. OfflineInit => ValidOK
  BY DEF OfflineInit, ValidationInit, ValidOK
<1>2. SessionOK /\ StagesOK /\ ValidOK /\ [OfflineNext]_vars => ValidOK'
  <2> SUFFICES ASSUME SessionOK, StagesOK, ValidOK, [OfflineNext]_vars
               PROVE  ValidOK'
    OBVIOUS
  <2>1. CASE CompareRecord
    BY <2>1, CompareKeeps
  <2>2. CASE StartValidation
    <3>1. /\ va_stage = "off" /\ handed' = <<>> /\ matched' = {} /\ unmatched' = 0
          /\ va_stage' \in {"failed", "truth"} /\ lag_ticks' \in 0..(kMaxLag - 1)
      BY <2>2, OpeningIs DEF StartValidation, SessionOK, ValidOK
    <3>2. Len(handed') = 0 /\ lag_ticks' \in Nat
      BY <3>1, RosterIs
    <3>3. 1..Len(handed') = {}
      BY <3>2
    <3>4. matched' = {PairOf(handed[i]) : i \in {k \in 1..Len(handed) : Matching(handed[k])}}'
      BY <3>1, <3>3
    <3>5. IsFiniteSet(matched') /\ Cardinality(matched') = 0
      BY <3>1, FS_EmptySet
    <3> QED
      BY <3>1, <3>2, <3>4, <3>5 DEF ValidOK
  <2>3. CASE LoadTruth
    <3>1. PICK found \in OnDisk(truth, stage \in {"settle", "done"}) :
                /\ index' = ToSet(found)
                /\ va_stage' = IF found = <<>> THEN "failed" ELSE "compare"
      BY <2>3 DEF LoadTruth
    <3>2. va_stage = "truth" /\ handed = <<>> /\ UNCHANGED <<handed, lag_ticks, matched, unmatched>>
      BY <2>3 DEF LoadTruth, StagesOK, sessionVars, rdVars
    <3>3. /\ found \in Seq(Places) /\ Len(found) \in Nat
          /\ \A i \in 1..Len(found) : i - 1 = Markets * found[i].tick + found[i].market
      <4>1. truth \in Seq(Places) /\ Len(truth) \in Nat
            /\ \A i \in 1..Len(truth) : i - 1 = Markets * truth[i].tick + truth[i].market
        BY DEF SessionOK, SidecarsOK
      <4>2. found = truth \/ found \in Prefixes(truth)
        BY <3>1 DEF OnDisk
      <4> QED
        BY <4>1, <4>2, PrefixIs
    <3>4. index' = Known(Len(found)) /\ Cardinality(index') = Len(found)
      BY <3>1, <3>3, TruthKnows
    <3>5. Known(Len(found))' = Known(Len(found))
      BY DEF Known
    <3>6. Len(handed) = 0 /\ matched = {} /\ 1..Len(handed) = {}
      <4>1. Len(handed) = 0
        BY <3>2
      <4>2. 1..Len(handed) = {}
        BY <4>1
      <4> QED
        BY <3>2, <4>1, <4>2 DEF ValidOK
    <3>7. matched' = {PairOf(handed[i]) : i \in {k \in 1..Len(handed) : Matching(handed[k])}}'
      BY <3>2, <3>6
    <3>8. \E n \in Nat : index' = Known(n) /\ Cardinality(index') = n
      BY <3>3, <3>4
    <3>9. va_stage # "off" /\ va_stage' # "off"
      BY <3>1, <3>2
    <3> QED
      BY <3>2, <3>7, <3>8, <3>9 DEF ValidOK
  <2>4. CASE EndOfComparison
    <3>1. /\ va_stage = "compare" /\ va_stage' \in {"failed", "done"}
          /\ UNCHANGED <<handed, lag_ticks, index, matched, unmatched>>
      BY <2>4 DEF EndOfComparison, EndOfSession
    <3> QED
      BY <3>1 DEF ValidOK, Matching, PairOf, TruthKey
  <2>5. CASE (SimStep \/ PlainReader \/ AnalysisNext \/ UNCHANGED vars) /\ UNCHANGED vaVars
    <3>1. UNCHANGED <<va_stage, lag_ticks, index, matched, unmatched>>
      BY <2>5 DEF vaVars
    <3>2. va_stage # "off" => UNCHANGED handed
      <4> SUFFICES ASSUME va_stage # "off"
                   PROVE  UNCHANGED handed
        OBVIOUS
      <4>1. an_stage = "off" /\ rd_state # "opening"
        BY DEF StagesOK
      <4>2. ~PlainReader /\ ~AnalysisNext
        BY <4>1 DEF PlainReader, AnalysisNext, StartAnalysis, OpenSession, ReadQuote,
              EndOfQuotes, ReadSettlement, ReadJumps, ScoreBets
      <4> QED
        BY <2>5, <4>2 DEF SimStep, vars, sessionVars, rdVars
    <3> QED
      BY <3>1, <3>2 DEF ValidOK, Matching, PairOf, TruthKey
  <2> QED
    BY <2>1, <2>2, <2>3, <2>4, <2>5 DEF OfflineNext, ValidationNext, vars
<1> QED
  BY <1>1, <1>2, SessionHolds, StagesHold, PTL DEF OfflineSpec

\* A place is among the first n just if its tick is not past the last full one.
LEMMA KnownTicks ==
    ASSUME NEW n \in Nat, NEW t \in 0..(Ticks - 1), NEW m \in MarketIds
    PROVE  [tick |-> t, market |-> m] \in Known(n) <=> t <= (n - m - 1) \div Markets
<1>1. /\ Markets \in Nat \ {0} /\ m \in 0..(Markets - 1) /\ t \in Nat /\ Ticks \in Nat
  BY RosterIs
<1>2. [tick |-> t, market |-> m] \in Places
  BY DEF Places
<1> DEFINE x == n - m - 1
<1>3. x \in Int
  BY <1>1
<1>4. t <= x \div Markets <=> Markets * t <= x
  BY <1>1, <1>3, QuotientAtLeast
<1>5. Markets * t \in Nat
  BY <1>1
<1>6. Markets * t <= x <=> Markets * t + m < n
  BY <1>1, <1>5
<1>7. [tick |-> t, market |-> m] \in Known(n) <=> Markets * t + m < n
  BY <1>2 DEF Known
<1> QED
  BY <1>4, <1>6, <1>7

\* The validation compares each quote with the distribution it was computed
\* from, when the lag is its book's; it leaves out just the quotes before the lag
\* and those past the end of the truth file, and counts them all.
THEOREM ValidationIsExactHolds == OfflineSpec => []ValidationIsExact
<1>1. SessionOK /\ StagesOK /\ ValidOK => ValidationIsExact
  <2> SUFFICES ASSUME SessionOK, StagesOK, ValidOK
               PROVE  ValidationIsExact
    OBVIOUS
  <2>0. /\ DOMAIN made = 1..Len(made) /\ made \in Seq(QuoteRecords)
        /\ \A i \in 1..Len(handed) : handed[i] \in QuoteRecords
    BY ElementOfSeq DEF SessionOK, FilesOK, ReaderOK
  <2>1. ASSUME NEW pair \in matched, Roster[pair.quote.book].lag = lag_ticks
        PROVE  pair.tick = pair.quote.from
    <3>1. PICK i \in 1..Len(handed) : Matching(handed[i]) /\ pair = PairOf(handed[i])
      BY <2>1 DEF ValidOK
    <3>2. i \in 1..Len(made) /\ handed[i] = made[i]
      <4>1. handed # <<>>
        BY <3>1
      <4>2. rd_state \in {"streaming", "ended"}
        BY <4>1 DEF SessionOK, ReaderOK
      <4>3. Len(handed) <= Len(made) /\ Len(handed) \in Nat /\ Len(made) \in Nat
            /\ handed[i] = made[i]
        BY <2>0, <4>2 DEF SessionOK, ReaderOK
      <4> QED
        BY <4>3
    <3>3. made[i].from = Lagged(made[i].ts, Roster[made[i].book].lag)
      BY <3>2 DEF SessionOK, OrderOK, QuoteLags
    <3>4. pair.quote = made[i] /\ pair.tick = made[i].ts - lag_ticks /\ made[i].ts >= lag_ticks
      BY <3>1, <3>2 DEF PairOf, TruthKey, Matching
    <3> QED
      BY <2>1, <3>3, <3>4 DEF Lagged
  <2>2. ASSUME va_stage = "done"
        PROVE  /\ Cardinality(matched) + unmatched = Len(made)
               /\ \A r \in ToSet(made) :
                     (\E pair \in matched : pair.quote = r)
                        <=> r.ts - lag_ticks \in 0..((Cardinality(index) - r.market - 1) \div Markets)
    <3>1. rd_state = "ended" /\ Len(handed) = Len(made)
          /\ \A i \in 1..Len(made) : handed[i] = made[i]
      BY <2>2 DEF SessionOK, StagesOK, ReaderOK
    <3>2. PICK n \in Nat : index = Known(n) /\ Cardinality(index) = n
      BY <2>2 DEF ValidOK
    <3>3. matched = {PairOf(handed[i]) : i \in {k \in 1..Len(handed) : Matching(handed[k])}}
          /\ Cardinality(matched) + unmatched = Len(handed)
      BY <2>2 DEF ValidOK
    <3>5. lag_ticks \in Nat
      BY DEF ValidOK
    <3>4. ASSUME NEW r \in ToSet(made)
          PROVE  (\E pair \in matched : pair.quote = r)
                    <=> r.ts - lag_ticks \in 0..((n - r.market - 1) \div Markets)
      <4>1. PICK k \in 1..Len(made) : r = made[k]
        BY <2>0 DEF ToSet
      <4>2. r.ts \in 0..(Ticks - 1) /\ r.market \in MarketIds /\ Ticks \in Nat
        BY <4>1, MadeFields, RosterIs DEF SessionOK
      <4>3. (\E pair \in matched : pair.quote = r) <=> Matching(r)
        <5>1. ASSUME NEW pair \in matched, pair.quote = r PROVE Matching(r)
          <6>1. PICK i \in 1..Len(handed) : Matching(handed[i]) /\ pair = PairOf(handed[i])
            BY <3>3
          <6> QED
            BY <5>1, <6>1 DEF PairOf
        <5>2. ASSUME Matching(r) PROVE \E pair \in matched : pair.quote = r
          <6>1. PairOf(r) \in matched
            BY <3>1, <3>3, <4>1, <5>2
          <6> QED
            BY <6>1 DEF PairOf
        <5> QED
          BY <5>1, <5>2
      <4>4. CASE r.ts >= lag_ticks
        <5>1. r.ts - lag_ticks \in 0..(Ticks - 1) /\ r.ts - lag_ticks \in Nat
          <6>1. r.ts \in Nat /\ r.ts <= Ticks - 1 /\ lag_ticks \in Nat /\ lag_ticks <= r.ts
            BY <3>5, <4>2, <4>4
          <6> QED
            BY <4>2, <6>1
        <5>2. Matching(r) <=> r.ts - lag_ticks <= (n - r.market - 1) \div Markets
          BY <3>2, <4>2, <4>4, <5>1, KnownTicks DEF Matching, TruthKey
        <5>3. (n - r.market - 1) \div Markets \in Int
          BY <4>2, RosterIs
        <5> QED
          BY <4>3, <5>1, <5>2, <5>3
      <4>5. CASE ~(r.ts >= lag_ticks)
        <5>1. r.ts \in Nat /\ lag_ticks \in Nat /\ ~Matching(r)
          BY <3>5, <4>2, <4>5 DEF Matching
        <5>2. ~(r.ts - lag_ticks >= 0)
          BY <4>5, <5>1
        <5> QED
          BY <4>3, <5>1, <5>2
      <4> QED
        BY <4>4, <4>5
    <3> QED
      BY <3>1, <3>2, <3>3, <3>4
  <2> QED
    BY <2>1, <2>2 DEF ValidationIsExact
<1> QED
  BY <1>1, SessionHolds, StagesHold, ValidHolds, PTL
-----------------------------------------------------------------------------
\* A set of numbers that are not below -1 nor above a bound has a maximum.
LEMMA MaxInRange ==
    ASSUME NEW b \in Nat, NEW S \in SUBSET (-1..b), S # {}
    PROVE  Max(S) \in S /\ \A x \in S : Max(S) >= x
<1>1. \A x \in S : x \in Int /\ x <= b
  OBVIOUS
<1>2. b \in Int
  OBVIOUS
<1> QED
  BY <1>1, <1>2, MaxIs

\* The ticks at which a market jumped.
JumpsOf(m) == {j.tick : j \in {k \in jumped : k.market = m}}

\* Those of them that the jump file has kept.
KeptJumps(m) == {j.tick : j \in {k \in ToSet(jumps) : k.market = m}}

\* The jump file is what it will always be, and what it lacks is known.
JumpsClosed ==
    /\ stage \in {"settle", "done", "dead"}
    /\ "jumps" \notin cut => ToSet(jumps) = jumped

\* A winner read means that the jump file is closed, so that what is read of it
\* afterwards is all that it will ever hold.
BetsOK ==
    /\ winner \in [MarketIds -> {Unset, Ticks - 1}]
    /\ jump_ticks \in [MarketIds -> SUBSET (0..(Ticks - 1))]
    /\ (\E m \in MarketIds : winner[m] # Unset) =>
          /\ JumpsClosed
          /\ an_stage \in {"bets", "done"} => \A m \in MarketIds : jump_ticks[m] = KeptJumps(m)
    /\ scored = IF an_stage = "done" THEN [n \in DOMAIN Bets |-> Score(Bets[n])] ELSE <<>>

LEMMA ReadSettlementKeeps ==
    ASSUME SessionOK, BetsOK, ReadSettlement
    PROVE  BetsOK'
<1>1. PICK found \in OnDisk(settlement, stage = "done") :
          \/ NoFile(found)
          \/ /\ winner' = [m \in MarketIds |->
                    LET ofMarket == {i \in DOMAIN found : found[i].market = m}
                    IN IF ofMarket = {} THEN Unset ELSE found[Max(ofMarket)].from]
             /\ an_stage' = NextFile("settlement")
             /\ UNCHANGED jump_ticks
  BY DEF ReadSettlement
<1>2. /\ an_stage = "settlement" /\ scored' = <<>>
      /\ UNCHANGED <<stage, jumps, jumped, cut, settlement>>
  BY DEF ReadSettlement, BetsOK, sessionVars, simVars, sidecarVars, historyVars
<1>3. CASE NoFile(found)
  <2>1. an_stage' = "failed" /\ UNCHANGED <<winner, jump_ticks>>
    BY <1>3 DEF NoFile
  <2> QED
    BY <1>2, <2>1 DEF BetsOK, JumpsClosed, KeptJumps
<1>4. CASE ~NoFile(found)
  <2>1. an_stage' = "jumps" /\ UNCHANGED jump_ticks
    BY <1>1, <1>4 DEF NextFile
  <2>2. settlement \in Seq([market : MarketIds, from : {Ticks - 1}])
    BY DEF SessionOK, SidecarsOK
  <2>3. /\ found \in Seq([market : MarketIds, from : {Ticks - 1}]) /\ Len(found) \in Nat
        /\ found # <<>> => settlement # <<>>
    <3>1. found = settlement \/ found \in Prefixes(settlement)
      BY <1>1 DEF OnDisk
    <3> QED
      BY <2>2, <3>1, PrefixIs
  <2>4. ASSUME NEW m \in MarketIds
        PROVE  /\ winner'[m] \in {Unset, Ticks - 1}
               /\ winner'[m] # Unset => found # <<>>
    <3> DEFINE ofMarket == {i \in DOMAIN found : found[i].market = m}
    <3>1. winner'[m] = IF ofMarket = {} THEN Unset ELSE found[Max(ofMarket)].from
      BY <1>1, <1>4
    <3>2. ofMarket \in SUBSET (-1..Len(found))
      BY <2>3
    <3>3. CASE ofMarket # {}
      <4> HIDE DEF ofMarket
      <4>1. Max(ofMarket) \in ofMarket
        BY <2>3, <3>2, <3>3, MaxInRange
      <4>2. Max(ofMarket) \in 1..Len(found)
        BY <2>3, <4>1 DEF ofMarket
      <4>3. found[Max(ofMarket)] \in [market : MarketIds, from : {Ticks - 1}]
        BY <2>3, <4>2, ElementOfSeq
      <4>4. found # <<>>
        BY <4>2
      <4> QED
        BY <3>1, <3>3, <4>3, <4>4
    <3> QED
      BY <3>1, <3>3
  <2>5. winner' \in [MarketIds -> {Unset, Ticks - 1}]
    BY <1>1, <1>4, <2>4
  <2>6. settlement # <<>> => JumpsClosed'
    BY <1>2 DEF SessionOK, SidecarsOK, SidecarsKept, JumpsClosed
  <2> QED
    BY <1>2, <2>1, <2>3, <2>4, <2>5, <2>6 DEF BetsOK
<1> QED
  BY <1>3, <1>4

LEMMA ReadJumpsKeeps ==
    ASSUME SessionOK, BetsOK, ReadJumps
    PROVE  BetsOK'
<1>1. PICK found \in OnDisk(jumps, stage \in {"settle", "done"}) :
          \/ NoFile(found)
          \/ /\ jump_ticks' = [m \in MarketIds |->
                    {j.tick : j \in {k \in ToSet(found) : k.market = m}}]
             /\ an_stage' = NextFile("jumps")
             /\ UNCHANGED winner
  BY DEF ReadJumps
<1>2. /\ an_stage = "jumps" /\ scored' = <<>>
      /\ UNCHANGED <<stage, jumps, jumped, cut>>
  BY DEF ReadJumps, BetsOK, sessionVars, simVars, sidecarVars, historyVars
<1>3. CASE NoFile(found)
  <2>1. an_stage' = "failed" /\ UNCHANGED <<winner, jump_ticks>>
    BY <1>3 DEF NoFile
  <2> QED
    BY <1>2, <2>1 DEF BetsOK, JumpsClosed
<1>4. CASE ~NoFile(found)
  <2>1. /\ an_stage' = "bets" /\ UNCHANGED winner
        /\ jump_ticks' = [m \in MarketIds |-> {j.tick : j \in {k \in ToSet(found) : k.market = m}}]
    BY <1>1, <1>4 DEF NextFile
  <2>2. jumps \in Seq(Places) /\ jumped \subseteq Places /\ ToSet(jumps) \subseteq jumped
    BY DEF SessionOK, SidecarsOK
  <2>3. ToSet(found) \subseteq Places
    <3>1. found = jumps \/ found \in Prefixes(jumps)
      BY <1>1 DEF OnDisk
    <3> QED
      BY <2>2, <3>1, PrefixIs
  <2>4. jump_ticks' \in [MarketIds -> SUBSET (0..(Ticks - 1))]
    <3>1. \A k \in ToSet(found) : k.tick \in 0..(Ticks - 1)
      BY <2>3 DEF Places
    <3>2. \A m \in MarketIds :
             {j.tick : j \in {k \in ToSet(found) : k.market = m}} \in SUBSET (0..(Ticks - 1))
      BY <3>1
    <3> QED
      BY <2>1, <3>2
  <2>5. ASSUME \E m \in MarketIds : winner[m] # Unset
        PROVE  JumpsClosed' /\ \A m \in MarketIds : jump_ticks'[m] = KeptJumps(m)
    <3>1. JumpsClosed
      BY <2>5 DEF BetsOK
    <3>2. found = jumps
      BY <1>1, <3>1 DEF OnDisk, JumpsClosed
    <3> QED
      BY <1>2, <2>1, <3>1, <3>2 DEF KeptJumps, JumpsClosed
  <2>6. \A m \in MarketIds : KeptJumps(m)' = KeptJumps(m)
    BY <1>2 DEF KeptJumps
  <2> QED
    BY <1>2, <2>1, <2>4, <2>5, <2>6 DEF BetsOK
<1> QED
  BY <1>3, <1>4

LEMMA BetsHold == OfflineSpec => []BetsOK
<1>1. OfflineInit => BetsOK
  BY DEF OfflineInit, AnalysisInit, BetsOK
<1>2. SessionOK /\ StagesOK /\ BetsOK /\ [OfflineNext]_vars => BetsOK'
  <2> SUFFICES ASSUME SessionOK, StagesOK, BetsOK, [OfflineNext]_vars
               PROVE  BetsOK'
    OBVIOUS
  <2>1. CASE ReadSettlement
    BY <2>1, ReadSettlementKeeps
  <2>2. CASE ReadJumps
    BY <2>2, ReadJumpsKeeps
  <2>3. CASE ScoreBets
    <3>1. /\ an_stage = "bets" /\ an_stage' = "done"
          /\ UNCHANGED <<stage, jumps, jumped, cut, winner, jump_ticks>>
          /\ scored' = [n \in DOMAIN Bets |-> Score(Bets[n])]
      BY <2>3 DEF ScoreBets, sessionVars, simVars, sidecarVars, historyVars
    <3>2. /\ \A n : Score(Bets[n])' = Score(Bets[n])
          /\ DOMAIN Bets = (DOMAIN Bets)'
          /\ \A m : KeptJumps(m)' = KeptJumps(m)
          /\ JumpsClosed' <=> JumpsClosed
      BY <3>1 DEF Score, TicksSinceJump, EpisodeKey, Bets, KeptJumps, JumpsClosed
    <3> QED
      BY <3>1, <3>2 DEF BetsOK
  <2>4. CASE StartAnalysis \/ ReadQuote \/ EndOfQuotes
    <3>1. /\ an_stage \in {"off", "session"} /\ an_stage' \in {"session", "settlement", "failed"}
          /\ UNCHANGED <<stage, jumps, jumped, cut, winner, jump_ticks, scored>>
      BY <2>4 DEF StartAnalysis, ReadQuote, EndOfQuotes, OpenSession, ReadRecord, EndOfSession,
                  simVars, sidecarVars, historyVars, NextFile
    <3> QED
      BY <3>1 DEF BetsOK, JumpsClosed
  <2>5. CASE (SimStep \/ PlainReader \/ ValidationNext \/ UNCHANGED vars) /\ UNCHANGED anVars
    <3>1. UNCHANGED <<an_stage, winner, jump_ticks, scored>>
      BY <2>5 DEF anVars
    <3>2. /\ \A n : Score(Bets[n])' = Score(Bets[n])
          /\ DOMAIN Bets = (DOMAIN Bets)'
      BY <3>1 DEF Score, TicksSinceJump, EpisodeKey, Bets
    <3>3. stage \in {"settle", "done", "dead"} =>
             stage' \in {"settle", "done", "dead"} /\ UNCHANGED <<jumps, jumped, cut>>
      <4>1. CASE SimStep
        BY <4>1 DEF SimStep, SimNext, StepLatent, QuoteBook, FlushFile, PatchCount, CloseFile,
                    Spill, CloseSidecars, Settle, SettleInStages, CloseSettlement, Die,
                    historyVars
      <4>2. CASE PlainReader \/ ValidationNext \/ UNCHANGED vars
        BY <4>2 DEF PlainReader, OpenSession, ReadRecord, EndOfSession, ValidationNext,
                    StartValidation, LoadTruth, CompareRecord, EndOfComparison, vars,
                    sessionVars, simVars, sidecarVars, historyVars
      <4> QED
        BY <2>5, <4>1, <4>2
    <3>4. JumpsClosed => JumpsClosed' /\ \A m : KeptJumps(m)' = KeptJumps(m)
      BY <3>3 DEF JumpsClosed, KeptJumps
    <3> QED
      BY <3>1, <3>2, <3>4 DEF BetsOK
  <2> QED
    BY <2>1, <2>2, <2>3, <2>4, <2>5 DEF OfflineNext, AnalysisNext, vars
<1> QED
  BY <1>1, <1>2, SessionHolds, StagesHold, PTL DEF OfflineSpec

\* The latest jump of a market up to a tick is the greatest of those not after
\* it, and it is of some tick, or of none.
LEMMA LastJumpIs ==
    ASSUME SessionOK, NEW m, NEW t \in Nat
    PROVE  LET before == {j \in JumpsOf(m) : j <= t}
           IN /\ LastJump(m, t) \in -1..(Ticks - 1) /\ LastJump(m, t) <= t
              /\ before = {} => LastJump(m, t) = -1
              /\ before # {} => LastJump(m, t) = Max(before) /\ LastJump(m, t) \in before
<1> DEFINE before == {j \in JumpsOf(m) : j <= t}
           all == {-1} \union before
<1>1. Ticks \in Nat /\ Ticks - 1 \in Nat /\ before \subseteq 0..(Ticks - 1)
  <2>1. \A k \in jumped : k.tick \in 0..(Ticks - 1)
    BY DEF SessionOK, SidecarsOK, Places
  <2> QED
    BY <2>1, RosterIs DEF JumpsOf
<1>2. LastJump(m, t) = Max(all)
  <2>1. {j.tick : j \in {k \in jumped : k.market = m /\ k.tick <= t}} = before
    BY DEF JumpsOf
  <2> QED
    BY <2>1 DEF LastJump
<1>3. \A j \in before : j \in 0..(Ticks - 1) /\ j <= t
  BY <1>1
<1> HIDE DEF before
<1>4. all \in SUBSET (-1..(Ticks - 1)) /\ all # {} /\ -1 \in all
  BY <1>1
<1>5. Max(all) \in all /\ \A x \in all : Max(all) >= x
  BY <1>1, <1>4, MaxInRange
<1>6. CASE before = {}
  <2>1. Max(all) = -1
    BY <1>5, <1>6
  <2>2. -1 \in -1..(Ticks - 1) /\ -1 <= t
    BY <1>1
  <2> QED
    BY <1>2, <1>6, <2>1, <2>2 DEF before
<1>7. CASE before # {}
  <2>1. Max(before) \in before /\ \A x \in before : Max(before) >= x
    BY <1>1, <1>4, <1>7, MaxInRange
  <2>2. Max(before) \in 0..(Ticks - 1) /\ Max(before) <= t
    BY <1>3, <2>1
  <2>3. Max(all) >= Max(before) /\ Max(all) \in Int
    BY <1>3, <1>5, <2>1
  <2>4. Max(all) \in before
    BY <1>5, <2>2, <2>3
  <2>5. Max(all) = Max(before)
    BY <2>1, <2>2, <2>3, <2>4
  <2> QED
    BY <1>2, <1>7, <2>1, <2>2, <2>5 DEF before
<1> QED
  BY <1>6, <1>7

\* An episode's key is of one market and one last jump.
LEMMA EpisodesDiffer ==
    ASSUME NEW m \in MarketIds, NEW n \in MarketIds,
           NEW j \in -1..(Ticks - 1), NEW k \in -1..(Ticks - 1)
    PROVE  EpisodeKey(m, j) = EpisodeKey(n, k) <=> m = n /\ j = k
<1>1. /\ EpisodeShift \in Nat \ {0} /\ m \in Nat /\ n \in Nat
      /\ j + 1 \in 0..(EpisodeShift - 1) /\ k + 1 \in 0..(EpisodeShift - 1)
  BY EpisodesFit, RosterIs
<1>2. /\ EpisodeKey(m, j) = EpisodeShift * m + (j + 1)
      /\ EpisodeKey(n, k) = EpisodeShift * n + (k + 1)
  BY <1>1 DEF EpisodeKey
<1>3. EpisodeShift * m + (j + 1) \in Nat /\ EpisodeShift * n + (k + 1) \in Nat
  BY <1>1
<1>4. \A x \in Nat, a \in Nat, b \in 0..(EpisodeShift - 1) :
         x = EpisodeShift * a + b => x \div EpisodeShift = a /\ x % EpisodeShift = b
  BY <1>1, DivisionUnique
<1> DEFINE x == EpisodeKey(m, j)
           y == EpisodeKey(n, k)
<1>7. /\ x \in Nat /\ x \div EpisodeShift = m /\ x % EpisodeShift = j + 1
      /\ y \div EpisodeShift = n /\ y % EpisodeShift = k + 1
  <2>1. x \in Nat /\ x = EpisodeShift * m + (j + 1) /\ y \in Nat /\ y = EpisodeShift * n + (k + 1)
    BY <1>2, <1>3
  <2> HIDE DEF x, y
  <2>2. x \div EpisodeShift = m /\ x % EpisodeShift = j + 1
    BY <1>1, <1>4, <2>1
  <2>3. y \div EpisodeShift = n /\ y % EpisodeShift = k + 1
    BY <1>1, <1>4, <2>1
  <2> QED
    BY <2>1, <2>2, <2>3
<1> HIDE DEF x, y
<1>5. ASSUME x = y
      PROVE  m = n /\ j + 1 = k + 1
  BY <1>5, <1>7
<1>6. j + 1 = k + 1 => j = k
  OBVIOUS
<1> QED
  BY <1>2, <1>5, <1>6 DEF x, y

\* The bet log names markets and ticks of the session.
LEMMA BetsAre ==
    ASSUME NEW n \in DOMAIN Bets
    PROVE  Bets[n].market \in MarketIds /\ Bets[n].tick \in Nat
<1>1. /\ Markets \in Nat \ {0} /\ Ticks \in Nat /\ MarketIds = 0..(Markets - 1)
      /\ Ticks * Markets \in Nat
  BY RosterIs
<1>2. n \in 1..(Ticks * Markets) /\ Bets[n] = [tick |-> (n - 1) \div Markets, market |-> (n - 1) % Markets]
  BY DEF Bets
<1>3. n - 1 \in Nat
  BY <1>1, <1>2
<1>4. (n - 1) \div Markets \in Nat /\ (n - 1) % Markets \in 0..(Markets - 1)
  BY <1>1, <1>3, DivisionFacts
<1> QED
  BY <1>1, <1>2, <1>4

\* No jump of a bet's market up to the bet is missing from the closed file.
LEMMA KeptIsEnough ==
    ASSUME SessionOK, JumpsClosed, NEW bet, bet.tick \in Nat, Spared(bet)
    PROVE  {j \in KeptJumps(bet.market) : j <= bet.tick}
              = {j \in JumpsOf(bet.market) : j <= bet.tick}
<1>1. ToSet(jumps) \subseteq jumped /\ \A k \in jumped : k.tick \in Nat
  BY RosterIs DEF SessionOK, SidecarsOK, Places
<1>2. ASSUME NEW k \in jumped, k.market = bet.market, k.tick <= bet.tick
      PROVE  k \in ToSet(jumps)
  <2>1. CASE k \in LostJumps
    <3>1. bet.tick < k.tick
      BY <1>2, <2>1 DEF Spared
    <3> QED
      BY <1>1, <1>2, <3>1
  <2>2. CASE k \notin LostJumps
    BY <2>2 DEF LostJumps, JumpsClosed
  <2> QED
    BY <2>1, <2>2
<1> QED
  BY <1>1, <1>2 DEF KeptJumps, JumpsOf

\* What is computed of a bet where no jump up to it is missing from those read.
LEMMA ScoreIs ==
    ASSUME SessionOK, NEW m \in MarketIds, NEW t \in Nat,
           {j \in jump_ticks[m] : j <= t} = {j \in JumpsOf(m) : j <= t}
    PROVE  LET last == LastJump(m, t)
               s == Score([tick |-> t, market |-> m])
           IN /\ s.since = IF last < 0 THEN -1 ELSE t - last
              /\ s.episode = EpisodeKey(m, last)
<1> DEFINE before == {j \in JumpsOf(m) : j <= t}
           since == TicksSinceJump(jump_ticks[m], t)
           last == LastJump(m, t)
           s == Score([tick |-> t, market |-> m])
<1>1. since = IF before = {} THEN -1 ELSE t - Max(before)
  BY DEF TicksSinceJump
<1>2. s.since = since /\ s.episode = EpisodeKey(m, IF since < 0 THEN -1 ELSE t - since)
  BY DEF Score
<1>3. /\ last \in -1..(Ticks - 1) /\ last <= t /\ Ticks \in Nat
      /\ before = {} => last = -1
      /\ before # {} => last = Max(before) /\ last \in before
  BY LastJumpIs, RosterIs
<1>4. \A j \in before : j \in Nat
  <2>1. \A k \in jumped : k.tick \in Nat
    BY RosterIs DEF SessionOK, SidecarsOK, Places
  <2> QED
    BY <2>1 DEF JumpsOf
<1> HIDE DEF before, since, last, s
<1>5. CASE before = {}
  BY <1>1, <1>2, <1>3, <1>5 DEF since, last, s
<1>6. CASE before # {}
  <2>1. last \in Nat /\ since = t - last /\ last <= t
    BY <1>1, <1>3, <1>4, <1>6
  <2>2. ~(last < 0) /\ ~(since < 0) /\ t - since = last
    BY <2>1
  <2> QED
    BY <1>2, <2>1, <2>2 DEF since, last, s
<1> QED
  BY <1>5, <1>6

\* Where one bet can be settled, every bet before the first jump that a failed
\* fclose() lost, and without such a failure every bet at all, is tagged with the
\* time since its market's last jump; two of them are of one episode just if they
\* are of one market with no jump of it between them.
THEOREM BetsTaggedRightHolds == OfflineSpec => []BetsTaggedRight
<1>1. SessionOK /\ BetsOK => BetsTaggedRight
  <2> SUFFICES ASSUME SessionOK, BetsOK, NEW w \in DOMAIN scored, scored[w].winner # Unset
               PROVE  \A n \in DOMAIN scored :
                         LET s == scored[n]
                             last == LastJump(s.bet.market, s.bet.tick)
                         IN /\ s.winner \in {Unset, Ticks - 1}
                            /\ Spared(s.bet) => s.since = IF last < 0 THEN -1 ELSE s.bet.tick - last
                            /\ \A k \in DOMAIN scored :
                                  LET t == scored[k]
                                  IN Spared(s.bet) /\ Spared(t.bet) => (s.episode = t.episode <=>
                                        /\ s.bet.market = t.bet.market
                                        /\ last = LastJump(t.bet.market, t.bet.tick))
    BY Zenon DEF BetsTaggedRight
  <2>1. an_stage = "done" /\ scored = [n \in DOMAIN Bets |-> Score(Bets[n])]
    <3>1. CASE an_stage # "done"
      <4>1. scored = <<>> /\ DOMAIN <<>> = {}
        BY <3>1 DEF BetsOK
      <4> QED
        BY <4>1
    <3> QED
      BY <3>1 DEF BetsOK
  <2>2. DOMAIN scored = DOMAIN Bets /\ \A n \in DOMAIN Bets : scored[n] = Score(Bets[n])
    BY <2>1
  <2>3. ASSUME NEW n \in DOMAIN Bets
        PROVE  /\ scored[n].bet = Bets[n] /\ scored[n].winner = winner[Bets[n].market]
               /\ Bets[n].market \in MarketIds /\ Bets[n].tick \in Nat
               /\ Bets[n] = [tick |-> Bets[n].tick, market |-> Bets[n].market]
               /\ scored[n].winner \in {Unset, Ticks - 1}
    <3>1. Bets[n] = [tick |-> (n - 1) \div Markets, market |-> (n - 1) % Markets]
      BY DEF Bets
    <3>2. Bets[n].market \in MarketIds /\ Bets[n].tick \in Nat
      BY BetsAre
    <3>3. scored[n].bet = Bets[n] /\ scored[n].winner = winner[Bets[n].market]
      BY <2>2 DEF Score
    <3> QED
      BY <3>1, <3>2, <3>3 DEF BetsOK
  <2>4. JumpsClosed /\ \A m \in MarketIds : jump_ticks[m] = KeptJumps(m)
    <3>1. \E m \in MarketIds : winner[m] # Unset
      BY <2>2, <2>3
    <3> QED
      BY <2>1, <3>1 DEF BetsOK
  <2>5. ASSUME NEW n \in DOMAIN Bets, Spared(Bets[n])
        PROVE  LET last == LastJump(Bets[n].market, Bets[n].tick)
               IN /\ scored[n].since = IF last < 0 THEN -1 ELSE Bets[n].tick - last
                  /\ scored[n].episode = EpisodeKey(Bets[n].market, last)
                  /\ last \in -1..(Ticks - 1)
    <3>1. /\ Bets[n].market \in MarketIds /\ Bets[n].tick \in Nat
          /\ scored[n] = Score([tick |-> Bets[n].tick, market |-> Bets[n].market])
      BY <2>2, <2>3
    <3>2. LastJump(Bets[n].market, Bets[n].tick) \in -1..(Ticks - 1)
      BY <3>1, LastJumpIs
    <3>3. {j \in jump_ticks[Bets[n].market] : j <= Bets[n].tick}
             = {j \in JumpsOf(Bets[n].market) : j <= Bets[n].tick}
      BY <2>4, <2>5, <3>1, KeptIsEnough
    <3> QED
      BY <3>1, <3>2, <3>3, ScoreIs
  <2>6. ASSUME NEW n \in DOMAIN Bets, NEW k \in DOMAIN Bets, Spared(Bets[n]), Spared(Bets[k])
        PROVE  scored[n].episode = scored[k].episode <=>
                  /\ Bets[n].market = Bets[k].market
                  /\ LastJump(Bets[n].market, Bets[n].tick) = LastJump(Bets[k].market, Bets[k].tick)
    BY <2>3, <2>5, <2>6, EpisodesDiffer
  <2> QED
    BY <2>2, <2>3, <2>5, <2>6
<1> QED
  BY <1>1, SessionHolds, BetsHold, PTL
-----------------------------------------------------------------------------
LEMMA SetOfSeq ==
    ASSUME NEW S, NEW s \in Seq(S)
    PROVE  ToSet(s) \subseteq S
<1>1. \A i \in 1..Len(s) : s[i] \in S
  BY ElementOfSeq
<1> QED
  BY <1>1 DEF ToSet

\* The indices of the loop, the rings, the buffer and the files hold what they
\* should, and so do the tools, which are never further on than the reader.
THEOREM OfflineTypes == OfflineSpec => []OfflineTypeOK
<1>1. SessionOK => TypeOK
  <2> SUFFICES ASSUME SessionOK
               PROVE  TypeOK
    OBVIOUS
  <2>1. /\ buffer \in Seq(QuoteRecords) /\ written \in Seq(QuoteRecords)
        /\ made \in Seq(QuoteRecords) /\ handed \in Seq(QuoteRecords)
    BY DEF SessionOK, FilesOK, ReaderOK
  <2>2. buffer \o written \o made \in Seq(QuoteRecords)
    BY <2>1, ConcatProperties
  <2>3. ToSet(buffer \o written \o made) \subseteq QuoteRecords /\ ToSet(handed) \subseteq QuoteRecords
    BY <2>1, <2>2, SetOfSeq
  <2>4. \A m \in MarketIds, b \in Books : write_idx[m][b] \in {tick, tick + 1}
    BY DEF SessionOK, LoopOK
  <2> QED
    BY <2>3, <2>4 DEF TypeOK, SessionOK, LoopOK, FilesOK, ReaderOK
<1>2. SessionOK /\ StagesOK /\ ClosingOK /\ BetsOK /\ ValidOK => ToolsTypeOK
  <2> SUFFICES ASSUME SessionOK, StagesOK, ClosingOK, BetsOK, ValidOK
               PROVE  ToolsTypeOK
    OBVIOUS
  <2>1. DOMAIN handed = 1..Len(handed)
    BY DEF SessionOK, ReaderOK
  <2>2. ASSUME NEW m \in MarketIds, NEW b \in Books
        PROVE  last_odds[m][b] \in {NoQuote} \union {r \in ToSet(handed) : r.market = m /\ r.book = b}
    <3>1. CASE an_stage = "off"
      BY <3>1 DEF ClosingOK
    <3>2. CASE an_stage # "off"
      <4>1. Closing(m, b)
        BY <3>2 DEF ClosingOK
      <4> QED
        BY <2>1, <4>1 DEF Closing, OfSlot, ToSet
    <3> QED
      BY <3>1, <3>2
  <2>3. {pair.quote : pair \in matched} \subseteq ToSet(handed)
    <3>1. CASE va_stage = "off"
      BY <3>1 DEF ValidOK
    <3>2. CASE va_stage # "off"
      <4> SUFFICES ASSUME NEW pair \in matched
                   PROVE  pair.quote \in ToSet(handed)
        OBVIOUS
      <4>1. PICK i \in 1..Len(handed) : pair = PairOf(handed[i])
        BY <3>2 DEF ValidOK
      <4>2. pair.quote = handed[i]
        BY <4>1 DEF PairOf
      <4> QED
        BY <2>1, <4>2 DEF ToSet
    <3> QED
      BY <3>1, <3>2
  <2>4. va_stage # "off" => Cardinality(matched) + unmatched = Len(handed)
    BY DEF ValidOK
  <2>5. \A m \in MarketIds : jump_ticks[m] \subseteq 0..(Ticks - 1)
    BY DEF BetsOK
  <2> QED
    BY <2>2, <2>3, <2>4, <2>5 DEF ToolsTypeOK, StagesOK, BetsOK
<1> QED
  BY <1>1, <1>2, SessionHolds, StagesHold, ClosingHolds, BetsHold, ValidHolds, PTL DEF OfflineTypeOK
=============================================================================
