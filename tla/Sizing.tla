-------------------------------- MODULE Sizing --------------------------------
(***************************************************************************)
(* From a book's odds to stakes: the margin is removed (Devig), a result   *)
(* that may be used is made the fair price of a market, and the market is  *)
(* sized (Kelly).                                                          *)
(***************************************************************************)
EXTENDS Devig, Kelly

CONSTANT Rounding \* what averaging over several books may take off the sum, in 1/Unit

vars == <<devigVars, kellyVars>>

Init == DevigInit /\ KellyInit

\* The sum of the probabilities the result holds, over Unit.
SumOfResult == Unit + (IF method = "multiplicative" THEN 0 ELSE f[at])

\* fair_price() gates on usable_as_distribution().
Gate == Usable

\* The market's fair price, and the best odds it meets. The solver's
\* variables are gone.
Price ==
    /\ Gate
    /\ \E sum \in {SumOfResult - r : r \in Rounding} : Quote(sum)
    /\ method' = "power" /\ f' = Refused /\ lo' = One /\ hi' = 2 * One /\ at' = One
    /\ tries' = 0 /\ status' = "InvalidInput"

Next ==
    \/ DevigNext /\ UNCHANGED kellyVars
    \/ Price
    \/ Allocate /\ UNCHANGED devigVars

Spec == Init /\ [][Next]_vars
=============================================================================
