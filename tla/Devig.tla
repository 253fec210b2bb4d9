--------------------------------- MODULE Devig ---------------------------------
(***************************************************************************)
(* Removing the margin from one book's odds (src/engine/Devig.hpp). The    *)
(* power and Shin methods look for the point where the probabilities add   *)
(* up to one. Of the odds only the residual is kept: f[x] is what the sum  *)
(* exceeds one by, in units the solver's tolerance is given in, at point x *)
(* of the floating-point grid. It never rises with x, and may be level.    *)
(***************************************************************************)
EXTENDS Integers

CONSTANTS
    One, Cap,        \* where the exponent starts, and where doubling it stops
    MaxResidual,     \* bound: residuals are at most this, and at least its negative
    tolerance,
    max_iterations   \* of each method

ASSUME DevigAssumption ==
    /\ One \in Nat \ {0} /\ Cap \in Nat /\ 2 * One <= Cap
    /\ MaxResidual \in Nat /\ tolerance \in Nat \ {0}
    /\ max_iterations \in [{"power", "shin"} -> Nat \ {0}]

\* Doubling 2.0 again and again meets the cap itself, as 1024 is in the code.
IsDoubling(ends) == 2 * One \in ends /\ \A h \in ends : h = Cap \/ 2 * h \in ends
ASSUME DoublingMeetsCap == \E ends \in SUBSET (1..Cap) : IsDoubling(ends)

\* Halving the grid again and again leaves one step of it before Shin's
\* iterations are used up, as the code's 200 do with the 53 bits of a double.
IsHalving(width) ==
    /\ width[0] = Cap - One /\ width[max_iterations["shin"]] = 1
    /\ \A t \in 1..max_iterations["shin"] : width[t] >= width[t - 1] - width[t - 1] \div 2
ASSUME HalvingEnds ==
    \E width \in [0..max_iterations["shin"] -> 1..(Cap - One)] : IsHalving(width)

VARIABLES
    method,   \* "multiplicative", "power" or "shin"
    f,        \* the residuals of the odds at hand, Refused if they are not odds
    lo, hi,   \* the bracket
    at,       \* the point the search is at: k or z
    tries,    \* iterations so far
    status    \* "entered", "doubling", "searching", or the Status returned

devigVars == <<method, f, lo, hi, at, tries, status>>

Points == One..Cap
Residuals == (-MaxResidual)..MaxResidual
Falling == {g \in [Points -> Residuals] : \A x, y \in Points : x < y => g[x] >= g[y]}
Refused == [x \in Points |-> MaxResidual + 1]

\* The search of an exponent starts at 1 with an end to be found, that of
\* Shin's z spans its whole range.
DevigInit ==
    /\ method \in {"multiplicative", "power", "shin"}
    /\ f \in Falling \union {Refused}
    /\ lo = One
    /\ hi = IF method = "power" THEN 2 * One ELSE Cap
    /\ at = One
    /\ tries = 0
    /\ status = "entered"

Middle == lo + (hi - lo) \div 2

\* Odds that are none, or that leave no margin, come back as they are; the
\* multiplicative method needs no search.
Enter ==
    /\ status = "entered"
    /\ status' = CASE f = Refused -> "InvalidInput"
                   [] f # Refused /\ f[One] <= 0 -> "NoMarginToRemove"
                   [] OTHER -> IF method = "multiplicative" THEN "Ok" ELSE "doubling"
    /\ UNCHANGED <<method, f, lo, hi, at, tries>>

\* The exponent's end is doubled while it is too near, up to the cap. An end
\* still too near is given up on, for either method.
Double ==
    /\ status = "doubling"
    /\ IF f[hi] > 0 /\ method = "power" /\ hi < Cap
       THEN hi' = 2 * hi /\ UNCHANGED <<at, status>>
       ELSE /\ at' = Middle /\ UNCHANGED hi
            /\ status' = IF f[hi] > 0 THEN "NotConverged" ELSE "searching"
    /\ UNCHANGED <<method, f, lo, tries>>

Found == f[at] < tolerance /\ -f[at] < tolerance

\* One iteration that finds the sum close enough.
Accept ==
    /\ status = "searching"
    /\ Found
    /\ tries' = tries + 1
    /\ status' = "Ok"
    /\ UNCHANGED <<method, f, lo, hi, at>>

\* Mutant of NextPoint: the Newton step is not held against the bracket.
NextUnguarded(l, h) == IF method = "power" THEN Points ELSE {l + (h - l) \div 2}

\* Newton's step, when it stays strictly in the bracket: wherever that is, it
\* rests on a derivative this model does not know. Else, and always for Shin,
\* the middle.
NextPoint(l, h) ==
    {l + (h - l) \div 2} \union (IF method = "power" THEN (l + 1)..(h - 1) ELSE {})

\* Mutant of Narrow: the bracket is narrowed at the wrong end.
NarrowSwapped ==
    /\ status = "searching"
    /\ ~Found
    /\ lo' = IF f[at] > 0 THEN lo ELSE at
    /\ hi' = IF f[at] > 0 THEN at ELSE hi
    /\ tries' = tries + 1
    /\ at' \in NextPoint(lo', hi')
    /\ status' = IF tries' = max_iterations[method] THEN "NotConverged" ELSE status
    /\ UNCHANGED <<method, f>>

\* One iteration that does not: the bracket closes on the root.
Narrow ==
    /\ status = "searching"
    /\ ~Found
    /\ lo' = IF f[at] > 0 THEN at ELSE lo
    /\ hi' = IF f[at] > 0 THEN hi ELSE at
    /\ tries' = tries + 1
    /\ at' \in NextPoint(lo', hi')
    /\ status' = IF tries' = max_iterations[method] THEN "NotConverged" ELSE status
    /\ UNCHANGED <<method, f>>

DevigNext == Enter \/ Double \/ Accept \/ Narrow

\* usable_as_distribution(): what the consensus takes.
Usable == status = "Ok"
-----------------------------------------------------------------------------
\* The root stays between the ends of the bracket and the search between them
\* too: "every step is validated against the bracket"
\* (src/engine/Devig.hpp:127), and the end of the bracket is really past the
\* root.
RootStaysBracketed ==
    /\ lo \in Points /\ hi \in Points /\ at \in Points
    /\ status = "searching" =>
          /\ f[lo] > 0 /\ f[hi] <= 0
          /\ at \in lo..hi
          /\ tries < max_iterations[method]

\* A bisection that gives up has not missed anything: where the residual is
\* still above zero at the end of the range it is nowhere zero, and elsewhere
\* no point but the ends of the range comes close enough.
GivesUpOnlyInVain ==
    status = "NotConverged" /\ method = "shin" =>
        \A x \in (One + 1)..(Cap - 1) :
            IF f[Cap] > 0 THEN f[x] > 0 ELSE ~(f[x] < tolerance /\ -f[x] < tolerance)
=============================================================================
