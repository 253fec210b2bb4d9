-------------------------------- MODULE Pricing --------------------------------
(***************************************************************************)
(* From the fresh quotes of one market to its fair price and its bets: the *)
(* body of the market loop in src/engine/main.cpp with the parts it calls  *)
(* (Devig.hpp, Consensus.hpp, Kelly.hpp). Quotes are sequences of decimal  *)
(* odds, one for each outcome, in units of 1/OddsUnit. A fair price is     *)
(* known by what it is the mean of: the odds of each contributing book and *)
(* the method that removed their margin.                                   *)
(***************************************************************************)
EXTENDS Naturals, Sequences, SequencesExt

CONSTANTS
    OddsUnit,              \* decimal odds of 1.0 (1000 in the code)
    kMaxOutcomes,
    Converges(_, _),       \* does this devig method's solver converge on these odds?
    KellyStakes(_, _, _)   \* fractional Kelly stakes by price, best odds and fraction

ASSUME PricingConstants == OddsUnit \in Nat \ {0} /\ kMaxOutcomes \in Nat \ {0}

Product(f, S) == FoldFunctionOnSet(LAMBDA x, y : x * y, 1, f, S)

\* The sum of 1/odds exceeds one: there is a margin to remove.
HasMargin(odds) ==
    OddsUnit * MapThenSumSet(LAMBDA i : Product(odds, (DOMAIN odds) \ {i}), DOMAIN odds)
        > Product(odds, DOMAIN odds)

ValidOdds(odds) ==
    /\ Len(odds) \in 1..kMaxOutcomes
    /\ \A i \in DOMAIN odds : odds[i] > OddsUnit

\* run_devig() gives a usable distribution.
DevigUsable(method, odds) ==
    ValidOdds(odds) /\ HasMargin(odds) /\ Converges(method, odds)

NoPrice == [count |-> 0, method |-> "none", odds |-> <<>>]

\* fair_price(): the first usable book fixes the number of outcomes, and a
\* book that disagrees with it is left out.
FairPrice(method, quotes) ==
    LET usable == {b \in DOMAIN quotes : DevigUsable(method, quotes[b])}
        count == Len(quotes[Min(usable)])
        used == {b \in usable : Len(quotes[b]) = count}
    IN IF usable = {}
       THEN NoPrice
       ELSE [count |-> count, method |-> method, odds |-> [b \in used |-> quotes[b]]]

\* The best odds on each outcome over every fresh quote, usable or not.
BestOdds(quotes) ==
    [i \in 1..kMaxOutcomes |->
        Max({0} \union {quotes[b][i] : b \in {c \in DOMAIN quotes : Len(quotes[c]) >= i}})]

\* allocate(): no stakes unless both parameters are positive; then Kelly stakes,
\* all scaled down when their sum exceeds the cap.
Stakes(price, best, kelly_fraction, max_exposure) ==
    LET kelly == KellyStakes(price, best, kelly_fraction)
        total == SumFunction(kelly)
    IN IF kelly_fraction <= 0 \/ max_exposure <= 0
       THEN [i \in 1..price.count |-> 0]
       ELSE IF total > max_exposure
       THEN [i \in DOMAIN kelly |-> (kelly[i] * max_exposure) \div total]
       ELSE kelly

\* There are odds to be had on every outcome of a price.
Backable(price, best) == \A i \in 1..price.count : best[i] > OddsUnit

\* The bets on one market at one tick: none unless each outcome of the fair
\* price can be backed, and then one for each positive stake.
BetsOn(ts, m, price, quotes, cfg) ==
    LET best == BestOdds(quotes)
        stakes == Stakes(price, best, cfg.kelly_fraction, cfg.max_exposure)
        bet(i) == [ts |-> ts, market_id |-> m, outcome |-> i, stake |-> stakes[i],
                   odds_taken |-> best[i]]
    IN IF price # NoPrice /\ Backable(price, best)
       THEN FlattenSeq([i \in 1..price.count |-> IF stakes[i] > 0 THEN <<bet(i)>> ELSE <<>>])
       ELSE <<>>
=============================================================================
