------------------------------- MODULE Analysis -------------------------------
(***************************************************************************)
(* The scoring of a bet log (src/analytics/analyze_bets.cpp) against the   *)
(* files of a simulator that may still be writing them: session,           *)
(* settlement and jumps, read one after another, then the bets.            *)
(***************************************************************************)
EXTENDS Session

CONSTANT EpisodeShift \* 2^40 in the code

ASSUME EpisodesFit == EpisodeShift \in Nat /\ Ticks < EpisodeShift

VARIABLES
    an_stage,   \* "off" or the file that is read, then "done" or "failed"
    last_odds,  \* the last record of each market and book, NoQuote before
    winner,     \* the distribution a market's winner was drawn from, or Unset
    jump_ticks,
    scored      \* what was computed of each bet

anVars == <<an_stage, last_odds, winner, jump_ticks, scored>>

NoQuote == [seq |-> Unset]

AnalysisInit ==
    /\ an_stage = "off"
    /\ last_odds = [m \in MarketIds |-> [b \in Books |-> NoQuote]]
    /\ winner = [m \in MarketIds |-> Unset]
    /\ jump_ticks = [m \in MarketIds |-> {}]
    /\ scored = <<>>

\* Mutant of NextFile: the jumps are read before the settlement.
JumpsFirst(file) ==
    CASE file = "session" -> "jumps" [] file = "jumps" -> "settlement" [] OTHER -> "bets"

NextFile(file) ==
    CASE file = "session" -> "settlement" [] file = "settlement" -> "jumps" [] OTHER -> "bets"

StartAnalysis ==
    /\ an_stage = "off"
    /\ OpenSession
    /\ an_stage' = IF rd_state' = "failed" THEN "failed" ELSE "session"
    /\ UNCHANGED <<last_odds, winner, jump_ticks, scored>>

\* Mutant of LastOdds: the line a book opened with.
FirstOdds(r) ==
    IF last_odds[r.market][r.book] = NoQuote
    THEN [last_odds EXCEPT ![r.market][r.book] = r] ELSE last_odds

LastOdds(r) == [last_odds EXCEPT ![r.market][r.book] = r]

ReadQuote ==
    /\ an_stage = "session"
    /\ ReadRecord
    /\ IF rd_state' = "failed"
       THEN an_stage' = "failed" /\ UNCHANGED last_odds
       ELSE last_odds' = LastOdds(Last(handed')) /\ UNCHANGED an_stage
    /\ UNCHANGED <<winner, jump_ticks, scored>>

EndOfQuotes ==
    /\ an_stage = "session"
    /\ EndOfSession
    /\ an_stage' = NextFile("session")
    /\ UNCHANGED <<last_odds, winner, jump_ticks, scored>>

\* The best odds at the close of a market are taken over these quotes.
ClosingBest(m) == {last_odds[m][b] : b \in Books} \ {NoQuote}

\* A file that is not there or has no header is an error; of a file without
\* records the same may be true.
NoFile(found) == found = <<>> /\ an_stage' = "failed" /\ UNCHANGED <<winner, jump_ticks>>

\* The settlement: whole records up to wherever the file ends.
ReadSettlement ==
    /\ an_stage = "settlement"
    /\ \E found \in OnDisk(settlement, stage = "done") :
          \/ NoFile(found)
          \/ /\ winner' = [m \in MarketIds |->
                    LET ofMarket == {i \in DOMAIN found : found[i].market = m}
                    IN IF ofMarket = {} THEN Unset ELSE found[Max(ofMarket)].from]
             /\ an_stage' = NextFile("settlement")
             /\ UNCHANGED jump_ticks
    /\ UNCHANGED <<sessionVars, last_odds, scored>>

ReadJumps ==
    /\ an_stage = "jumps"
    /\ \E found \in OnDisk(jumps, stage \in {"settle", "done"}) :
          \/ NoFile(found)
          \/ /\ jump_ticks' = [m \in MarketIds |->
                    {j.tick : j \in {k \in ToSet(found) : k.market = m}}]
             /\ an_stage' = NextFile("jumps")
             /\ UNCHANGED winner
    /\ UNCHANGED <<sessionVars, last_odds, scored>>

TicksSinceJump(jt, t) ==
    LET before == {j \in jt : j <= t} IN IF before = {} THEN -1 ELSE t - Max(before)

\* The key of the stretch since a market's last jump.
EpisodeKey(m, last_jump) == m * EpisodeShift + (last_jump + 1)

Score(bet) ==
    LET since == TicksSinceJump(jump_ticks[bet.market], bet.tick)
    IN [bet |-> bet, winner |-> winner[bet.market], since |-> since,
        episode |-> EpisodeKey(bet.market, IF since < 0 THEN -1 ELSE bet.tick - since)]

\* The bet log of an engine that bet on every market at every tick.
Bets ==
    [n \in 1..(Ticks * Markets) |-> [tick |-> (n - 1) \div Markets, market |-> (n - 1) % Markets]]

\* The loop over the bets works on what is in memory.
ScoreBets ==
    /\ an_stage = "bets"
    /\ an_stage' = "done"
    /\ scored' = [n \in DOMAIN Bets |-> Score(Bets[n])]
    /\ UNCHANGED <<sessionVars, last_odds, winner, jump_ticks>>

AnalysisNext ==
    \/ StartAnalysis \/ ReadQuote \/ EndOfQuotes \/ ReadSettlement \/ ReadJumps \/ ScoreBets
-----------------------------------------------------------------------------
\* The closing line is the record of the highest number of its market and book,
\* though the tool takes whichever stands last in the file: so it is of a file
\* the simulator wrote, a reordered capture is another matter.
ClosingIsNewest ==
    an_stage \in {"settlement", "jumps", "bets", "done"} =>
        \A m \in MarketIds, b \in Books :
            LET slot == {r \in ToSet(made) : r.market = m /\ r.book = b}
            IN \A r \in slot : last_odds[m][b].seq >= r.seq /\ last_odds[m][b] \in slot

\* The latest jump of a market up to a tick, -1 if there was none.
LastJump(m, t) ==
    Max({-1} \union {j.tick : j \in {k \in jumped : k.market = m /\ k.tick <= t}})

\* The jumps that fclose() failed to write, which the simulator overlooks.
LostJumps == IF "jumps" \in cut THEN jumped \ ToSet(jumps) ELSE {}

\* None of them is at a bet's market before it or at its tick.
Spared(bet) == \A j \in LostJumps : j.market = bet.market => bet.tick < j.tick

\* The jump file does not say whether it is whole. But a settlement read before
\* it says that neither a kill nor a failed write has cut it: where one bet could
\* be settled, every bet has the time since the last jump of its market right,
\* and two bets are of one episode just if no jump of their one market lies
\* between them. If the close of the jump file failed, this is so of the bets
\* before the first jump that was lost. Winners are drawn from the last
\* distribution.
BetsTaggedRight ==
    (\E n \in DOMAIN scored : scored[n].winner # Unset) =>
        \A n \in DOMAIN scored :
            LET s == scored[n]
                last == LastJump(s.bet.market, s.bet.tick)
            IN /\ s.winner \in {Unset, Ticks - 1}
               /\ Spared(s.bet) => s.since = IF last < 0 THEN -1 ELSE s.bet.tick - last
               /\ \A k \in DOMAIN scored :
                     LET t == scored[k]
                     IN Spared(s.bet) /\ Spared(t.bet) => (s.episode = t.episode <=>
                           /\ s.bet.market = t.bet.market
                           /\ last = LastJump(t.bet.market, t.bet.tick))
=============================================================================
