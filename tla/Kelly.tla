--------------------------------- MODULE Kelly ---------------------------------
(***************************************************************************)
(* The staking of one market (src/engine/Kelly.hpp), in exact arithmetic.  *)
(* Probabilities are integers over Unit; odds are given by their inverses, *)
(* also over Unit, so that odds above one are inverses below Unit.         *)
(***************************************************************************)
EXTENDS Integers, Sequences, SequencesExt

CONSTANTS
    Outcomes,        \* how many outcomes the market has
    Unit,
    kelly_fraction,  \* over Unit
    max_exposure     \* over Unit

ASSUME KellyAssumption ==
    /\ Outcomes \in 1..4
    /\ Unit \in Nat /\ Unit > 1
    /\ kelly_fraction \in Nat \ {0} /\ max_exposure \in Nat \ {0}

VARIABLES
    fair, inverse_odds,  \* the arguments of allocate(), <<>> before
    result               \* what it returned, NoResult before

kellyVars == <<fair, inverse_odds, result>>

NoResult == [count |-> 0, reserve |-> <<1, 1>>, full |-> <<>>, stake |-> <<>>, capped |-> FALSE]

Index == 1..Outcomes
Total(f, S) == MapThenSumSet(LAMBDA i : f[i], S)

\* p * o of outcome i is less than that of outcome j.
Worse(i, j) == fair[i] * inverse_odds[j] < fair[j] * inverse_odds[i]

\* The insertion sort: by p * o, descending, equal ones in their order.
Sorted ==
    CHOOSE order \in SetToAllKPermutations(Index) :
        /\ Len(order) = Outcomes
        /\ \A s, t \in DOMAIN order : s < t =>
              \/ Worse(order[t], order[s])
              \/ ~Worse(order[s], order[t]) /\ order[s] < order[t]

Prefix(order, k) == {order[t] : t \in 1..k}

\* R = (1 - P) / (1 - B) of a betting set, as numerator and denominator.
ReserveOf(S) == <<Unit - Total(fair, S), Unit - Total(inverse_odds, S)>>

\* Its implied probabilities leave a reserve, and its weakest member beats it.
Bettable(order, k) ==
    LET R == ReserveOf(Prefix(order, k))
        weakest == order[k]
    IN R[2] > 0 /\ fair[weakest] * R[2] > R[1] * inverse_odds[weakest]

\* Mutant of BestPrefix: scanning upwards.
FirstPrefix(order) == Min({k \in Index : Bettable(order, k)} \union {Outcomes + 1}) % (Outcomes + 1)

\* The largest prefix that qualifies, none if 0.
BestPrefix(order) == Max({k \in Index : Bettable(order, k)} \union {0})

\* f_i = p_i - R / o_i for the betting set: numerators over Unit * R[2].
FullStakes(S, R) ==
    [i \in Index |-> IF i \in S THEN fair[i] * R[2] - R[1] * inverse_odds[i] ELSE 0]

\* The fraction of Kelly, then the cap on the total, which scales every stake:
\* numerators and denominators. full is over den.
Capped(full, den) ==
    LET total == Total(full, Index)
        over == total * kelly_fraction > max_exposure * den
    IN [stake |-> [i \in Index |->
            IF over THEN <<full[i] * max_exposure, total * Unit>>
                    ELSE <<full[i] * kelly_fraction, den * Unit>>],
        capped |-> over]

Allocation ==
    LET order == Sorted
        k == BestPrefix(order)
        R == IF k = 0 THEN <<1, 1>> ELSE ReserveOf(Prefix(order, k))
        full == FullStakes(Prefix(order, k), R)
        capped == Capped(full, Unit * R[2])
    IN [count |-> Outcomes, reserve |-> R, full |-> full,
        stake |-> capped.stake, capped |-> capped.capped]

KellyInit == fair = <<>> /\ inverse_odds = <<>> /\ result = NoResult

\* A fair price that adds up to sum, beside any odds.
Quote(sum) ==
    /\ fair = <<>>
    /\ fair' \in {p \in [Index -> 0..Unit] : Total(p, Index) = sum}
    /\ inverse_odds' \in [Index -> 1..(Unit - 1)]
    /\ UNCHANGED result

Allocate ==
    /\ fair # <<>>
    /\ result = NoResult
    /\ result' = Allocation
    /\ UNCHANGED <<fair, inverse_odds>>
-----------------------------------------------------------------------------
Done == result # NoResult

\* The full Kelly stakes leave exactly the reserve R, and every outcome staked on
\* is worth p * o in wealth. What is staked keeps their proportions and stays
\* under the cap in total. If the fair price adds up to no more than one, none
\* left out beats the reserve, so that taking the largest prefix that qualifies
\* misses no better set: these are the conditions of Kuhn and Tucker, sufficient
\* here for stakes that maximise expected log wealth.
KellyOptimal ==
    Done =>
        LET R == result.reserve
            full == result.full
            stake == [i \in Index |-> result.stake[i][1]]
        IN /\ R[2] > 0
           /\ Total(full, Index) = Unit * (R[2] - R[1])
           /\ \A i \in Index :
                /\ full[i] >= 0
                /\ full[i] > 0 => full[i] + R[1] * inverse_odds[i] = fair[i] * R[2]
                /\ \A j \in Index : stake[i] * full[j] = stake[j] * full[i]
                /\ result.stake[i][2] = result.stake[1][2]
           /\ Total(stake, Index) * Unit <= max_exposure * result.stake[1][2]
           /\ Total(fair, Index) <= Unit =>
                /\ R[1] >= 0
                /\ \A i \in Index : full[i] = 0 => fair[i] * R[2] <= R[1] * inverse_odds[i]
=============================================================================
