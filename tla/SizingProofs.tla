------------------------------ MODULE SizingProofs ------------------------------
(***************************************************************************)
(* What the devig solvers guarantee for every falling curve, grid,         *)
(* tolerance and bound on iterations that Devig's assumptions allow, and   *)
(* the Kelly allocator for every market: that the stakes are the best ones *)
(* that its odds and its fair price, a distribution or not, allow.         *)
(***************************************************************************)
EXTENDS Sizing, BasicFacts

\* The ends the doubling may reach, and the widths the bisection shrinks to.
Ends == CHOOSE ends \in SUBSET (1..Cap) : IsDoubling(ends)
Width == CHOOSE width \in [0..max_iterations["shin"] -> 1..(Cap - One)] : IsHalving(width)

LEMMA EndsDouble == Ends \subseteq 1..Cap /\ IsDoubling(Ends)
BY DoublingMeetsCap DEF Ends

LEMMA WidthHalves ==
    Width \in [0..max_iterations["shin"] -> 1..(Cap - One)] /\ IsHalving(Width)
BY HalvingEnds DEF Width

\* Where the doubling stands is one of the ends.
LEMMA NextEnd ==
    ASSUME NEW h \in Ends
    PROVE  /\ 2 * One \in Ends /\ h \in 1..Cap
           /\ h < Cap => 2 * h \in Ends
BY EndsDouble DEF IsDoubling

\* The solver's variables are of their types, and while it works it works on
\* odds that have a margin.
DevigTypeOK ==
    /\ method \in {"multiplicative", "power", "shin"}
    /\ f \in Falling \union {Refused}
    /\ lo \in Points /\ hi \in Points /\ at \in Points
    /\ tries \in Nat
    /\ status \in {"entered", "doubling", "searching", "Ok", "NotConverged",
                   "NoMarginToRemove", "InvalidInput"}
    /\ status \in {"doubling", "searching", "NotConverged"} =>
          f \in Falling /\ f[One] > 0 /\ method \in {"power", "shin"}

\* Before the search nothing has moved but the upper end, one doubling further.
AtStart ==
    status \in {"entered", "doubling"} =>
        /\ lo = One /\ at = One /\ tries = 0
        /\ method = "power" => hi \in Ends /\ 2 * One <= hi
        /\ method # "power" => hi = Cap

BracketInv == DevigTypeOK /\ AtStart /\ RootStaysBracketed

\* A residual is an integer, and Refused is not among the curves.
LEMMA CurveType ==
    ASSUME NEW g \in Falling
    PROVE  /\ \A x \in Points : g[x] \in Int
           /\ \A x, y \in Points : x < y => g[x] >= g[y]
BY DevigAssumption DEF Falling, Residuals

LEMMA GridHasPoints == One \in Points /\ Cap \in Points /\ 2 * One \in Points /\ One < Cap
BY DevigAssumption DEF Points

\* The middle of a bracket of two points or more, and Newton's guarded step,
\* lie in it.
LEMMA NextPointInside ==
    ASSUME NEW l \in Points, NEW h \in Points, l < h, NEW x \in NextPoint(l, h)
    PROVE  x \in Points /\ l <= x /\ x < h
<1>1. /\ l \in Nat /\ h \in Nat /\ (h - l) \div 2 \in Nat
      /\ (h - l) \div 2 < h - l
  BY DevigAssumption DEF Points
<1>2. l + (h - l) \div 2 \in Points
  BY <1>1, DevigAssumption DEF Points
<1>3. CASE x = l + (h - l) \div 2
  BY <1>1, <1>2, <1>3
<1>4. CASE x \in (l + 1)..(h - 1)
  BY <1>1, <1>4, DevigAssumption DEF Points
<1> QED
  BY <1>3, <1>4 DEF NextPoint

\* Where the residual is above zero is before where it is not.
LEMMA SignsOrder ==
    ASSUME NEW g \in Falling, NEW x \in Points, NEW y \in Points, g[x] > 0, g[y] <= 0
    PROVE  x < y
<1>1. g[x] \in Int /\ g[y] \in Int /\ (y < x => g[y] >= g[x])
  BY CurveType
<1>2. x \in Int /\ y \in Int
  BY DevigAssumption DEF Points
<1> QED
  BY <1>1, <1>2

\* Types, start and bracket together are inductive.
LEMMA BracketHolds == Spec => []BracketInv
<1>1. Init => BracketInv
  <2> SUFFICES ASSUME DevigInit
               PROVE  BracketInv
    BY DEF Init
  <2>1. hi \in Points
    BY GridHasPoints DEF DevigInit
  <2>2. DevigTypeOK
    BY <2>1, GridHasPoints DEF DevigInit, DevigTypeOK
  <2>3. AtStart
    BY EndsDouble, DevigAssumption DEF DevigInit, AtStart, IsDoubling
  <2> QED
    BY <2>1, <2>2, <2>3, GridHasPoints DEF DevigInit, BracketInv, RootStaysBracketed
<1>2. BracketInv /\ [Next]_vars => BracketInv'
  <2> SUFFICES ASSUME BracketInv, [Next]_vars
               PROVE  BracketInv'
    OBVIOUS
  <2> USE DEF BracketInv
  <2>0. lo \in Int /\ hi \in Int /\ at \in Int
    BY DevigAssumption DEF DevigTypeOK, Points
  <2>1. CASE Enter
    <3>1. UNCHANGED <<method, f, lo, hi, at, tries>> /\ status = "entered"
      BY <2>1 DEF Enter
    <3>2. status' \in {"InvalidInput", "NoMarginToRemove", "Ok", "doubling"}
      BY <2>1 DEF Enter
    <3>3. status' = "doubling" => f # Refused /\ ~(f[One] <= 0) /\ method # "multiplicative"
      BY <2>1 DEF Enter
    <3>4. status' = "doubling" => f \in Falling /\ f[One] > 0 /\ method \in {"power", "shin"}
      BY <3>3, CurveType, GridHasPoints DEF DevigTypeOK
    <3>5. DevigTypeOK'
      BY <3>1, <3>2, <3>4 DEF DevigTypeOK
    <3> QED
      BY <3>1, <3>2, <3>5 DEF DevigTypeOK, AtStart, RootStaysBracketed
  <2>2. CASE Double
    <3>1. /\ status = "doubling" /\ UNCHANGED <<method, f, lo, tries>>
          /\ f \in Falling /\ f[One] > 0 /\ method \in {"power", "shin"}
          /\ lo = One /\ tries = 0
      BY <2>2 DEF Double, DevigTypeOK, AtStart
    <3>2. f[hi] \in Int
      BY <3>1, CurveType DEF DevigTypeOK
    <3>3. CASE f[hi] > 0 /\ method = "power" /\ hi < Cap
      <4>1. hi' = 2 * hi /\ UNCHANGED <<at, status>>
        BY <2>2, <3>3 DEF Double
      <4>2. 2 * hi \in Ends /\ 2 * hi \in 1..Cap /\ 2 * One <= hi
        BY <3>1, <3>3, NextEnd DEF AtStart
      <4>3. hi' \in Points /\ 2 * One <= hi'
        BY <2>0, <4>1, <4>2, DevigAssumption DEF Points
      <4> QED
        BY <3>1, <3>3, <4>1, <4>2, <4>3 DEF DevigTypeOK, AtStart, RootStaysBracketed
    <3>4. CASE ~(f[hi] > 0 /\ method = "power" /\ hi < Cap)
      <4>1. /\ at' = Middle /\ hi' = hi
            /\ status' = IF f[hi] > 0 THEN "NotConverged" ELSE "searching"
        BY <2>2, <3>4 DEF Double
      <4>2. lo < hi
        BY <2>0, <3>1, NextEnd, GridHasPoints, DevigAssumption DEF AtStart
      <4>3. Middle \in NextPoint(lo, hi)
        BY DEF Middle, NextPoint
      <4>4. Middle \in Points /\ lo <= Middle /\ Middle < hi
        BY <4>2, <4>3, NextPointInside DEF DevigTypeOK
      <4>5. tries < max_iterations[method]
        BY <3>1, DevigAssumption
      <4>6. DevigTypeOK'
        BY <3>1, <4>1, <4>4 DEF DevigTypeOK
      <4>7. RootStaysBracketed'
        BY <2>0, <3>1, <3>2, <4>1, <4>4, <4>5, <4>6, GridHasPoints DEF RootStaysBracketed, DevigTypeOK, Points
      <4> QED
        BY <4>1, <4>6, <4>7 DEF AtStart
    <3> QED
      BY <3>3, <3>4
  <2>3. CASE Accept
    BY <2>3 DEF Accept, DevigTypeOK, AtStart, RootStaysBracketed
  <2>4. CASE Narrow
    <3>1. /\ status = "searching" /\ ~Found /\ UNCHANGED <<method, f>>
          /\ f \in Falling /\ f[One] > 0 /\ method \in {"power", "shin"}
          /\ f[lo] > 0 /\ f[hi] <= 0 /\ tries < max_iterations[method]
      BY <2>4 DEF Narrow, DevigTypeOK, RootStaysBracketed
    <3>2. f[at] \in Int
      BY <3>1, CurveType DEF DevigTypeOK
    <3>3. /\ lo' \in Points /\ hi' \in Points
          /\ f[lo'] > 0 /\ f[hi'] <= 0
      BY <2>4, <3>1, <3>2 DEF Narrow, DevigTypeOK
    <3>4. lo' < hi'
      BY <3>1, <3>3, SignsOrder
    <3>5. at' \in Points /\ lo' <= at' /\ at' < hi'
      BY <2>4, <3>3, <3>4, NextPointInside DEF Narrow
    <3>6. /\ tries' = tries + 1
          /\ status' = IF tries' = max_iterations[method] THEN "NotConverged" ELSE "searching"
      BY <2>4, <3>1 DEF Narrow
    <3>7. status' = "searching" => tries' < max_iterations'[method']
      BY <3>1, <3>6, DevigAssumption DEF DevigTypeOK
    <3>8. DevigTypeOK'
      BY <3>1, <3>3, <3>5, <3>6 DEF DevigTypeOK
    <3>9. at' \in lo'..hi'
      BY <3>3, <3>5, DevigAssumption DEF Points
    <3> QED
      BY <3>1, <3>3, <3>6, <3>7, <3>8, <3>9 DEF AtStart, RootStaysBracketed, DevigTypeOK
  <2>5. CASE Price
    <3>1. /\ method' = "power" /\ f' = Refused /\ lo' = One /\ hi' = 2 * One /\ at' = One
          /\ tries' = 0 /\ status' = "InvalidInput"
      BY <2>5 DEF Price
    <3> QED
      BY <3>1, GridHasPoints DEF DevigTypeOK, AtStart, RootStaysBracketed
  <2>6. CASE UNCHANGED devigVars
    BY <2>6 DEF devigVars, DevigTypeOK, AtStart, RootStaysBracketed
  <2> QED
    BY <2>1, <2>2, <2>3, <2>4, <2>5, <2>6 DEF Next, DevigNext, vars
<1> QED
  BY <1>1, <1>2, PTL DEF Spec

\* The solvers keep the root of the curve in their bracket: "every step is
\* validated against the bracket" (src/engine/Devig.hpp:127).
THEOREM RootStaysBracketedHolds == Spec => []RootStaysBracketed
<1>1. BracketInv => RootStaysBracketed
  BY DEF BracketInv
<1> QED
  BY <1>1, BracketHolds, PTL

\* All points the bisection has left behind are too far from the root, and
\* those between its ends are no more than the width says.
Exhausted ==
    method = "shin" /\ status \in {"searching", "NotConverged"} =>
        \/ status = "NotConverged" /\ f[Cap] > 0
        \/ /\ f[Cap] <= 0
           /\ \A x \in (One + 1)..(Cap - 1) :
                 /\ x <= lo => f[x] >= tolerance
                 /\ x >= hi => -f[x] >= tolerance
           /\ tries \in 0..max_iterations["shin"]
           /\ hi - lo <= Width[tries]
           /\ status = "NotConverged" => tries = max_iterations["shin"]
           /\ status = "searching" => at = Middle

\* A width is no less than what half of it leaves.
LEMMA WidthStep ==
    ASSUME NEW t \in 0..max_iterations["shin"], t + 1 \in 0..max_iterations["shin"]
    PROVE  /\ Width[t] \in Nat /\ Width[t + 1] \in Nat
           /\ Width[t + 1] >= Width[t] - Width[t] \div 2
<1>1. t + 1 \in 1..max_iterations["shin"] /\ (t + 1) - 1 = t
  BY DevigAssumption
<1>2. Width[t + 1] >= Width[(t + 1) - 1] - Width[(t + 1) - 1] \div 2
  BY <1>1, WidthHalves DEF IsHalving
<1>3. Width[t] \in 1..(Cap - One) /\ Width[t + 1] \in 1..(Cap - One)
  BY WidthHalves
<1> QED
  BY <1>1, <1>2, <1>3

\* Of two brackets the wider one has the wider halves.
LEMMA HalvesOrdered ==
    ASSUME NEW v \in Nat, NEW w \in Nat, v <= w
    PROVE  v \div 2 <= w - w \div 2 /\ v - v \div 2 <= w - w \div 2
OBVIOUS

\* A bisection that gives up has missed nothing: it ends with neighbouring
\* points of the grid on either side of the root (shin()).
THEOREM GivesUpOnlyInVainHolds == Spec => []GivesUpOnlyInVain
<1>1. Init => Exhausted
  BY DEF Init, DevigInit, Exhausted
<1>2. BracketInv /\ Exhausted /\ [Next]_vars => Exhausted'
  <2> SUFFICES ASSUME BracketInv, Exhausted, [Next]_vars
               PROVE  Exhausted'
    OBVIOUS
  <2> USE DEF BracketInv
  <2>0. lo \in Int /\ hi \in Int /\ at \in Int
    BY DevigAssumption DEF DevigTypeOK, Points
  <2>1. CASE Enter
    <3>1. status' \in {"InvalidInput", "NoMarginToRemove", "Ok", "doubling"}
      BY <2>1 DEF Enter
    <3> QED
      BY <3>1 DEF Exhausted
  <2>2. CASE Double /\ method = "shin"
    <3>1. /\ status = "doubling" /\ UNCHANGED <<method, f, lo, hi, tries>>
          /\ status' = IF f[hi] > 0 THEN "NotConverged" ELSE "searching"
          /\ lo = One /\ hi = Cap /\ tries = 0
          /\ at' = Middle'
      BY <2>2 DEF Double, AtStart, Middle
    <3>2. f[Cap] \in Int
      BY <3>1, CurveType, GridHasPoints DEF DevigTypeOK
    <3>3. \A x \in (One + 1)..(Cap - 1) : ~(x <= One) /\ ~(x >= Cap)
      BY DevigAssumption
    <3>4. hi - lo <= Width[0] /\ 0 \in 0..max_iterations["shin"]
      BY <3>1, WidthHalves, DevigAssumption DEF IsHalving
    <3> QED
      BY <3>1, <3>2, <3>3, <3>4 DEF Exhausted
  <2>3. CASE Narrow /\ method = "shin"
    <3>1. /\ status = "searching" /\ ~Found /\ UNCHANGED <<method, f>>
          /\ f \in Falling /\ f[lo] > 0 /\ f[hi] <= 0 /\ lo < hi
          /\ tries < max_iterations["shin"]
      BY <2>3, SignsOrder DEF Narrow, DevigTypeOK, RootStaysBracketed
    <3>2. /\ f[Cap] <= 0
          /\ \A x \in (One + 1)..(Cap - 1) :
                /\ x <= lo => f[x] >= tolerance
                /\ x >= hi => -f[x] >= tolerance
          /\ hi - lo <= Width[tries]
      BY <2>3, <3>1 DEF Exhausted
    <3>3. f[at] \in Int /\ at \in Points /\ tries \in Nat
      BY <3>1, CurveType DEF DevigTypeOK
    <3>4. /\ lo' = IF f[at] > 0 THEN at ELSE lo
          /\ hi' = IF f[at] > 0 THEN hi ELSE at
          /\ tries' = tries + 1
          /\ status' = IF tries' = max_iterations["shin"] THEN "NotConverged" ELSE "searching"
      BY <2>3, <3>1 DEF Narrow
    <3>5. ASSUME NEW x \in (One + 1)..(Cap - 1)
          PROVE  /\ x <= lo' => f[x] >= tolerance
                 /\ x >= hi' => -f[x] >= tolerance
      <4>1. /\ x \in Points /\ x \in Int /\ f[x] \in Int
            /\ x < at => f[x] >= f[at]
            /\ at < x => f[at] >= f[x]
        BY <3>1, <3>3, CurveType, DevigAssumption DEF Points
      <4>2. x <= at /\ f[at] > 0 => f[x] >= tolerance
        BY <2>0, <3>1, <3>3, <4>1, DevigAssumption DEF Found
      <4>3. x >= at /\ ~(f[at] > 0) => -f[x] >= tolerance
        BY <2>0, <3>1, <3>3, <4>1, DevigAssumption DEF Found
      <4> QED
        BY <3>2, <3>4, <4>2, <4>3
    <3>6. /\ tries \in 0..max_iterations["shin"] /\ tries + 1 \in 0..max_iterations["shin"]
          /\ tries' \in 0..max_iterations["shin"]
      BY <3>1, <3>3, <3>4, DevigAssumption
    <3>7. hi' - lo' <= Width[tries']
      <4> DEFINE v == hi - lo
      <4>1. v \in Nat /\ Width[tries] \in Nat /\ v <= Width[tries]
        BY <2>0, <3>1, <3>2, <3>6, WidthStep
      <4>2. /\ v \div 2 <= Width[tries] - Width[tries] \div 2
            /\ v - v \div 2 <= Width[tries] - Width[tries] \div 2
        BY <4>1, HalvesOrdered
      <4>3. at = lo + v \div 2
        BY <2>3, <3>1, <3>2, <3>3 DEF Exhausted, Middle
      <4>4. hi' - lo' <= Width[tries] - Width[tries] \div 2
        BY <2>0, <3>4, <4>1, <4>2, <4>3
      <4> QED
        BY <2>0, <3>3, <3>4, <3>6, <4>1, <4>4, WidthStep
    <3>8. at' = Middle'
      BY <2>3, <3>4 DEF Narrow, NextPoint, Middle
    <3>9. /\ f'[Cap] <= 0
          /\ \A x \in (One + 1)..(Cap - 1) :
                /\ x <= lo' => f'[x] >= tolerance
                /\ x >= hi' => -f'[x] >= tolerance
      BY <3>1, <3>2, <3>5
    <3>10. status' = "NotConverged" => tries' = max_iterations["shin"]
      BY <3>4
    <3> QED
      BY <3>6, <3>7, <3>8, <3>9, <3>10 DEF Exhausted
  <2>4. CASE (Double \/ Narrow) /\ method # "shin"
    BY <2>4 DEF Double, Narrow, Exhausted
  <2>5. CASE Accept \/ Price
    BY <2>5 DEF Accept, Price, Exhausted
  <2>6. CASE UNCHANGED devigVars
    BY <2>6 DEF devigVars, Exhausted, Middle
  <2> QED
    BY <2>1, <2>2, <2>3, <2>4, <2>5, <2>6 DEF Next, DevigNext, vars
<1>3. BracketInv /\ Exhausted => GivesUpOnlyInVain
  <2> SUFFICES ASSUME BracketInv, Exhausted, status = "NotConverged", method = "shin",
                      NEW x \in (One + 1)..(Cap - 1)
               PROVE  IF f[Cap] > 0 THEN f[x] > 0
                      ELSE ~(f[x] < tolerance /\ -f[x] < tolerance)
    BY DEF GivesUpOnlyInVain
  <2>1. /\ f \in Falling /\ lo \in Int /\ hi \in Int
    BY DevigAssumption DEF BracketInv, DevigTypeOK, Points
  <2>2. /\ f[x] \in Int /\ f[Cap] \in Int /\ f[x] >= f[Cap]
    BY <2>1, CurveType, GridHasPoints, DevigAssumption DEF Points
  <2>3. CASE f[Cap] > 0
    BY <2>2, <2>3
  <2>4. CASE ~(f[Cap] > 0)
    <3>1. /\ x <= lo => f[x] >= tolerance
          /\ x >= hi => -f[x] >= tolerance
          /\ hi - lo <= Width[max_iterations["shin"]]
      BY <2>4 DEF Exhausted
    <3>2. hi - lo <= 1
      BY <3>1, WidthHalves DEF IsHalving
    <3> QED
      BY <2>1, <2>2, <2>4, <3>1, <3>2, DevigAssumption
  <2> QED
    BY <2>3, <2>4
<1>4. Spec => []BracketInv
  BY BracketHolds
<1> QED
  BY <1>1, <1>2, <1>3, <1>4, PTL DEF Spec
-----------------------------------------------------------------------------
(***************************************************************************)
(* Sizing a market.                                                        *)
(***************************************************************************)
\* The arguments allocate() accepts.
MarketOK == fair \in [Index -> 0..Unit] /\ inverse_odds \in [Index -> 1..(Unit - 1)]

LEMMA MarketIs ==
    ASSUME MarketOK
    PROVE  /\ Unit \in Nat /\ Outcomes \in Nat /\ 1 \in Index
           /\ \A i \in Index : /\ i \in Int
                               /\ fair[i] \in Nat /\ fair[i] <= Unit
                               /\ inverse_odds[i] \in Nat \ {0} /\ inverse_odds[i] < Unit
BY KellyAssumption DEF MarketOK, Index

\* Products that cross over compare ratios.
LEMMA RatiosCompose ==
    ASSUME NEW a \in Int, NEW b \in Int, NEW c \in Int,
           NEW x \in Nat, NEW y \in Nat \ {0}, NEW z \in Nat, a * y <= b * x, b * z <= c * y
    PROVE  a * z <= c * x
<1>1. (a * y) * z <= (b * x) * z /\ (b * z) * x <= (c * y) * x
  <2>1. z * (a * y) <= z * (b * x) /\ x * (b * z) <= x * (c * y)
    BY ProductMonotone
  <2> QED
    BY <2>1
<1>2. (b * x) * z = (b * z) * x
  OBVIOUS
<1>3. (a * y) * z <= (c * y) * x
  <2>1. (a * y) * z \in Int /\ (b * x) * z \in Int /\ (c * y) * x \in Int
    OBVIOUS
  <2> QED
    BY <1>1, <1>2, <2>1
<1>4. y * (a * z) <= y * (c * x)
  BY <1>3
<1>5. CASE a * z >= c * x + 1
  <2>1. y * (c * x + 1) <= y * (a * z)
    BY <1>5, ProductMonotone
  <2>2. y * (c * x + 1) = y * (c * x) + y
    BY Distributes
  <2>3. y * (c * x) \in Int /\ y * (a * z) \in Int
    OBVIOUS
  <2> QED
    BY <1>4, <2>1, <2>2, <2>3
<1> QED
  BY <1>5
-----------------------------------------------------------------------------
\* The order of the insertion sort.
Before(i, j) == Worse(j, i) \/ (~Worse(i, j) /\ i < j)

LEMMA WorseIsOrder ==
    ASSUME MarketOK
    PROVE  /\ \A i, j \in Index : Worse(i, j) => ~Worse(j, i)
           /\ \A i, j, k \in Index : ~Worse(j, i) /\ ~Worse(k, j) => ~Worse(k, i)
<1>1. \A i, j \in Index : fair[i] * inverse_odds[j] \in Int
  BY MarketIs
<1>2. \A i, j \in Index : Worse(i, j) => ~Worse(j, i)
  BY <1>1 DEF Worse
<1>3. ASSUME NEW i \in Index, NEW j \in Index, NEW k \in Index, ~Worse(j, i), ~Worse(k, j)
      PROVE  ~Worse(k, i)
  <2>1. fair[i] * inverse_odds[j] <= fair[j] * inverse_odds[i]
    BY <1>1, <1>3 DEF Worse
  <2>2. fair[j] * inverse_odds[k] <= fair[k] * inverse_odds[j]
    BY <1>1, <1>3 DEF Worse
  <2>3. /\ fair[i] \in Int /\ fair[j] \in Int /\ fair[k] \in Int /\ inverse_odds[i] \in Nat
        /\ inverse_odds[j] \in Nat \ {0} /\ inverse_odds[k] \in Nat
    BY MarketIs
  <2>4. fair[i] * inverse_odds[k] <= fair[k] * inverse_odds[i]
    BY <2>1, <2>2, <2>3, RatiosCompose
  <2> QED
    BY <1>1, <2>4 DEF Worse
<1> QED
  BY <1>2, <1>3

LEMMA BeforeIsOrder ==
    ASSUME MarketOK
    PROVE  /\ \A i \in Index : ~Before(i, i)
           /\ \A i, j \in Index : i # j => Before(i, j) \/ Before(j, i)
           /\ \A i, j, k \in Index : Before(i, j) /\ Before(j, k) => Before(i, k)
<1>1. \A i, j, k \in Index : /\ i \in Int /\ j \in Int /\ k \in Int
                             /\ i # j => i < j \/ j < i
                             /\ i < j /\ j < k => i < k
                             /\ ~(i < i)
  BY DEF Index
<1>2. \A i \in Index : ~Before(i, i)
  BY <1>1, WorseIsOrder DEF Before
<1>3. \A i, j \in Index : i # j => Before(i, j) \/ Before(j, i)
  BY <1>1, WorseIsOrder DEF Before
<1>4. ASSUME NEW i \in Index, NEW j \in Index, NEW k \in Index, Before(i, j), Before(j, k)
      PROVE  Before(i, k)
  <2>1. ~Worse(i, j) /\ ~Worse(j, k)
    BY <1>4, WorseIsOrder DEF Before
  <2>2. ~Worse(i, k)
    BY <2>1, WorseIsOrder
  <2>3. CASE Worse(k, i)
    BY <2>3 DEF Before
  <2>4. CASE ~Worse(k, i)
    <3>1. ~Worse(j, i) /\ ~Worse(k, j)
      BY <2>1, <2>4, WorseIsOrder
    <3> QED
      BY <1>1, <1>4, <2>2, <3>1 DEF Before
  <2> QED
    BY <2>3, <2>4
<1> QED
  BY <1>2, <1>3, <1>4

LEMMA IndexIsFinite == IsFiniteSet(Index) /\ Cardinality(Index) = Outcomes
<1>1. 1 \in Int /\ Outcomes \in Int /\ ~(1 > Outcomes) /\ (Outcomes - 1) + 1 = Outcomes
  BY KellyAssumption
<1>2. IsFiniteSet(1..Outcomes) /\ Cardinality(1..Outcomes) = (Outcomes - 1) + 1
  BY <1>1, FS_Interval
<1> QED
  BY <1>1, <1>2 DEF Index

\* Some outcomes are not empty: one of them is last.
LEMMA LastOf ==
    ASSUME MarketOK
    PROVE  \A T \in SUBSET Index : T # {} => \E w \in T : \A j \in T : j # w => Before(j, w)
<1> DEFINE H == {T \in SUBSET Index : T # {} => \E w \in T : \A j \in T : j # w => Before(j, w)}
<1>1. ASSUME NEW T \in SUBSET Index, \A x \in T : T \ {x} \in H
      PROVE  T \in H
  <2> SUFFICES ASSUME T # {}
               PROVE  \E w \in T : \A j \in T : j # w => Before(j, w)
    OBVIOUS
  <2>1. PICK x \in T : TRUE
    OBVIOUS
  <2>2. CASE T \ {x} = {}
    BY <2>1, <2>2
  <2>3. CASE T \ {x} # {}
    <3>1. PICK w \in T \ {x} : \A j \in T \ {x} : j # w => Before(j, w)
      BY <1>1, <2>3
    <3>2. Before(x, w) \/ Before(w, x)
      BY <3>1, BeforeIsOrder
    <3>3. CASE Before(x, w)
      BY <3>1, <3>3
    <3>4. CASE Before(w, x)
      <4>1. \A j \in T : j # x => Before(j, x)
        BY <3>1, <3>4, BeforeIsOrder
      <4> QED
        BY <4>1
    <3> QED
      BY <3>2, <3>3, <3>4
  <2> QED
    BY <2>2, <2>3
<1> HIDE DEF H
<1>2. \A T \in SUBSET Index : T \in H
  BY <1>1, ByShrinking, IndexIsFinite
<1> QED
  BY <1>2 DEF H

\* The outcomes can be put in order.
LEMMA OrderExists ==
    ASSUME MarketOK
    PROVE  \E e \in [Index -> Index] : \A s, t \in Index : s < t => Before(e[s], e[t])
<1> DEFINE Size(T) == Cardinality(T)
           InOrder(e, n) == \A s, t \in 1..n : s < t => Before(e[s], e[t])
           H == {T \in SUBSET Index : \E e \in [1..Size(T) -> T] : InOrder(e, Size(T))}
<1>1. \A T \in SUBSET Index : /\ IsFiniteSet(T) /\ Size(T) \in Nat
                              /\ \A x \in T : Size(T) = Size(T \ {x}) + 1 /\ Size(T \ {x}) \in Nat
  <2> SUFFICES ASSUME NEW T \in SUBSET Index
               PROVE  /\ IsFiniteSet(T) /\ Size(T) \in Nat
                      /\ \A x \in T : Size(T) = Size(T \ {x}) + 1 /\ Size(T \ {x}) \in Nat
    OBVIOUS
  <2>1. IsFiniteSet(T) /\ Size(T) \in Nat
    BY FS_Subset, FS_CardinalityType, IndexIsFinite
  <2>2. \A x \in T : IsFiniteSet(T \ {x}) /\ Size(T \ {x}) = Size(T) - 1
    BY <2>1, FS_RemoveElement
  <2>3. \A x \in T : Size(T \ {x}) \in Nat
    BY <2>2, FS_CardinalityType
  <2> HIDE DEF Size
  <2> QED
    BY <2>1, <2>2, <2>3
<1>2. Size({}) = 0
  BY FS_EmptySet
<1> HIDE DEF Size
<1>3. ASSUME NEW T \in SUBSET Index, \A x \in T : T \ {x} \in H
      PROVE  T \in H
  <2>1. CASE T = {}
    <3> DEFINE e == [t \in 1..0 |-> t]
    <3>1. e \in [1..Size(T) -> T] /\ InOrder(e, Size(T))
      BY <1>2, <2>1
    <3> QED
      BY <3>1
  <2>2. CASE T # {}
    <3>1. PICK w \in T : \A j \in T : j # w => Before(j, w)
      BY <2>2, LastOf
    <3> DEFINE n == Size(T \ {w})
    <3>2. n \in Nat /\ Size(T) = n + 1
      BY <1>1
    <3>3. PICK e \in [1..n -> T \ {w}] : InOrder(e, n)
      BY <1>3
    <3> HIDE DEF n
    <3> DEFINE d == [t \in 1..(n + 1) |-> IF t = n + 1 THEN w ELSE e[t]]
    <3>4. \A t \in 1..(n + 1) : t = n + 1 \/ t \in 1..n
      BY <3>2
    <3>5. \A t \in 1..n : t \in 1..(n + 1) /\ t # n + 1 /\ d[t] = e[t] /\ e[t] \in T /\ e[t] # w
      BY <3>2, <3>3
    <3>6. n + 1 \in 1..(n + 1) /\ d[n + 1] = w
      BY <3>2
    <3>7. d \in [1..(n + 1) -> T]
      BY <3>3, <3>4
    <3> HIDE DEF d
    <3>8. ASSUME NEW s \in 1..(n + 1), NEW t \in 1..(n + 1), s < t
          PROVE  Before(d[s], d[t])
      <4>1. s \in 1..n
        BY <3>2, <3>8
      <4>2. CASE t \in 1..n
        BY <3>3, <3>5, <3>8, <4>1, <4>2
      <4>3. CASE t = n + 1
        BY <3>1, <3>5, <3>6, <4>1, <4>3
      <4> QED
        BY <3>4, <4>2, <4>3
    <3>9. d \in [1..Size(T) -> T] /\ InOrder(d, Size(T))
      BY <3>2, <3>7, <3>8
    <3> QED
      BY <3>9
  <2> QED
    BY <2>1, <2>2
<1> HIDE DEF H
<1>4. \A T \in SUBSET Index : T \in H
  BY <1>3, ByShrinking, IndexIsFinite
<1>5. Size(Index) = Outcomes
  BY IndexIsFinite DEF Size
<1> QED
  BY <1>4, <1>5 DEF H, Index

\* What the insertion sort leaves: every outcome once, in order.
LEMMA SortedIs ==
    ASSUME MarketOK
    PROVE  /\ Sorted \in [Index -> Index]
           /\ \A s, t \in Index : s < t => Before(Sorted[s], Sorted[t])
           /\ \A s, t \in Index : s # t => Sorted[s] # Sorted[t]
           /\ \A i \in Index : \E t \in Index : Sorted[t] = i
<1> DEFINE Is(o) == /\ Len(o) = Outcomes
                    /\ \A s, t \in DOMAIN o : s < t => Before(o[s], o[t])
<1>1. Sorted = CHOOSE o \in SetToAllKPermutations(Index) : Is(o)
  BY DEF Sorted, Before
<1>2. \A s, t \in Index : s # t => s < t \/ t < s
  BY DEF Index
<1>3. \E o \in SetToAllKPermutations(Index) : Is(o)
  <2>1. PICK e \in [Index -> Index] : \A s, t \in Index : s < t => Before(e[s], e[t])
    BY OrderExists
  <2>2. \A s, t \in Index : s # t => e[s] # e[t]
    BY <1>2, <2>1, BeforeIsOrder
  <2>3. e \in SetToSeqs(Index)
    BY <2>2, IndexIsFinite DEF SetToSeqs, Index
  <2>4. e \in SetToAllKPermutations(Index)
    BY <2>3 DEF SetToAllKPermutations
  <2>5. Len(e) = Outcomes /\ DOMAIN e = Index
    BY KellyAssumption DEF Index
  <2> QED
    BY <2>1, <2>4, <2>5
<1>4. Sorted \in SetToAllKPermutations(Index) /\ Is(Sorted)
  <2> HIDE DEF Is
  <2> QED
    BY <1>1, <1>3
<1>5. PICK T \in SUBSET Index : Sorted \in SetToSeqs(T)
  BY <1>4 DEF SetToAllKPermutations
<1>6. Sorted \in [1..Cardinality(T) -> T] /\ Cardinality(T) \in Nat
  BY <1>5, FS_Subset, FS_CardinalityType, IndexIsFinite DEF SetToSeqs
<1>7. Cardinality(T) = Outcomes
  BY <1>4, <1>6
<1>8. Sorted \in [Index -> Index] /\ DOMAIN Sorted = Index
  BY <1>6, <1>7 DEF Index
<1>9. \A s, t \in Index : s < t => Before(Sorted[s], Sorted[t])
  BY <1>4, <1>8
<1>10. \A s, t \in Index : s # t => Sorted[s] # Sorted[t]
  BY <1>2, <1>8, <1>9, BeforeIsOrder
<1>11. Sorted \in Injection(Index, Index)
  BY <1>8, <1>10 DEF Injection, IsInjective
<1>12. Sorted \in Surjection(Index, Index)
  BY <1>11, FS_Injection, IndexIsFinite
<1>13. \A i \in Index : \E t \in Index : Sorted[t] = i
  BY <1>12 DEF Surjection
<1> QED
  BY <1>8, <1>9, <1>10, <1>13

\* A prefix and what it sums to.
InPrefix(k) == Prefix(Sorted, k)

LEMMA TotalIs == \A g, S : Total(g, S) = SumFunctionOnSet(g, S)
BY DEF Total, MapThenSumSet, MapThenFoldSet, SumFunctionOnSet, FoldFunctionOnSet

LEMMA PrefixIs ==
    ASSUME MarketOK, NEW k \in 0..Outcomes
    PROVE  /\ InPrefix(k) \in SUBSET Index /\ IsFiniteSet(InPrefix(k))
           /\ \A t \in Index : Sorted[t] \in InPrefix(k) <=> t <= k
           /\ Total(fair, InPrefix(k)) \in Int /\ Total(inverse_odds, InPrefix(k)) \in Int
           /\ Total(fair, InPrefix(k)) <= Total(fair, Index) /\ Total(fair, Index) \in Int
<1>1. \A t \in 1..k : t \in Index
  BY MarketIs DEF Index
<1>2. InPrefix(k) \in SUBSET Index
  BY <1>1, SortedIs DEF InPrefix, Prefix
<1>3. \A t \in Index : Sorted[t] \in InPrefix(k) <=> t <= k
  <2> SUFFICES ASSUME NEW t \in Index
               PROVE  Sorted[t] \in InPrefix(k) <=> t <= k
    OBVIOUS
  <2>1. t \in 1..k <=> t <= k
    BY MarketIs DEF Index
  <2>2. Sorted[t] \in InPrefix(k) => t \in 1..k
    BY <1>1, SortedIs DEF InPrefix, Prefix
  <2>3. t \in 1..k => Sorted[t] \in InPrefix(k)
    BY DEF InPrefix, Prefix
  <2> QED
    BY <2>1, <2>2, <2>3
<1>4. IsFiniteSet(InPrefix(k)) /\ IsFiniteSet(Index)
  BY <1>2, FS_Subset, IndexIsFinite
<1>5. \A i \in Index : fair[i] \in Int /\ fair[i] \in Nat /\ inverse_odds[i] \in Int /\ fair[i] <= fair[i]
  BY MarketIs
<1>6. /\ SumFunctionOnSet(fair, InPrefix(k)) \in Int
      /\ SumFunctionOnSet(inverse_odds, InPrefix(k)) \in Int
      /\ SumFunctionOnSet(fair, Index) \in Int
  BY <1>2, <1>4, <1>5, SumType
<1>7. SumFunctionOnSet(fair, InPrefix(k)) <= SumFunctionOnSet(fair, Index)
  <2> DEFINE h == [i \in InPrefix(k) |-> i]
  <2>1. /\ h \in [InPrefix(k) -> Index]
        /\ \A i, j \in InPrefix(k) : i # j => h[i] # h[j]
        /\ \A i \in InPrefix(k) : fair[i] <= fair[h[i]]
    BY <1>2, <1>5
  <2>2. /\ \A i \in InPrefix(k) : fair[i] \in Int
        /\ \A i \in Index : fair[i] \in Nat
    BY <1>2, <1>5
  <2> HIDE DEF h
  <2> QED
    BY <1>4, <2>1, <2>2, SumInjects
<1> QED
  BY <1>2, <1>3, <1>4, <1>6, <1>7, TotalIs

LEMMA PrefixGrows ==
    ASSUME MarketOK, NEW k \in 0..(Outcomes - 1)
    PROVE  /\ k \in 0..Outcomes /\ k + 1 \in 0..Outcomes /\ k + 1 \in Index
           /\ Total(fair, InPrefix(k + 1)) = Total(fair, InPrefix(k)) + fair[Sorted[k + 1]]
           /\ Total(inverse_odds, InPrefix(k + 1))
                 = Total(inverse_odds, InPrefix(k)) + inverse_odds[Sorted[k + 1]]
<1>1. k \in 0..Outcomes /\ k + 1 \in 0..Outcomes /\ k + 1 \in Index
  BY MarketIs DEF Index
<1> DEFINE v == Sorted[k + 1]
           S == InPrefix(k)
           T == InPrefix(k + 1)
<1>2. v \in T /\ v \in Index
  <2>1. k + 1 <= k + 1
    OBVIOUS
  <2> QED
    BY <1>1, <2>1, PrefixIs, SortedIs
<1>3. T \ {v} = S
  <2>1. \A t \in Index : t <= k + 1 /\ t # k + 1 <=> t <= k
    BY <1>1 DEF Index
  <2>2. \A t \in Index : Sorted[t] \in T \ {v} <=> Sorted[t] \in S
    BY <1>1, <2>1, PrefixIs, SortedIs
  <2>3. S \subseteq Index /\ T \subseteq Index
    BY <1>1, PrefixIs
  <2> HIDE DEF S, T
  <2>4. \A i \in Index : i \in T \ {v} <=> i \in S
    <3> SUFFICES ASSUME NEW i \in Index
                 PROVE  i \in T \ {v} <=> i \in S
      OBVIOUS
    <3>1. PICK t \in Index : i = Sorted[t]
      BY SortedIs
    <3> QED
      BY <2>2, <3>1
  <2> QED
    BY <2>3, <2>4
<1>4. IsFiniteSet(T) /\ \A i \in T : fair[i] \in Int /\ inverse_odds[i] \in Int
  BY <1>1, PrefixIs, MarketIs
<1> HIDE DEF T
<1>5. \A i \in T : SumFunctionOnSet(fair, T) = fair[i] + SumFunctionOnSet(fair, T \ {i})
  BY <1>4, SumRemoves
<1>6. \A i \in T : SumFunctionOnSet(inverse_odds, T)
                       = inverse_odds[i] + SumFunctionOnSet(inverse_odds, T \ {i})
  BY <1>4, SumRemoves
<1>7. /\ SumFunctionOnSet(fair, S) \in Int /\ SumFunctionOnSet(inverse_odds, S) \in Int
      /\ fair[v] \in Int /\ inverse_odds[v] \in Int
  <2>1. SumFunctionOnSet(fair, S) \in Int /\ SumFunctionOnSet(inverse_odds, S) \in Int
    BY <1>1, PrefixIs, TotalIs
  <2>2. fair[v] \in Int /\ inverse_odds[v] \in Int
    BY <1>2, MarketIs
  <2> QED
    BY <2>1, <2>2
<1> HIDE DEF S, v
<1>8. /\ SumFunctionOnSet(fair, T) = fair[v] + SumFunctionOnSet(fair, S)
      /\ SumFunctionOnSet(inverse_odds, T) = inverse_odds[v] + SumFunctionOnSet(inverse_odds, S)
  BY <1>2, <1>3, <1>5, <1>6
<1>9. /\ SumFunctionOnSet(fair, T) = SumFunctionOnSet(fair, S) + fair[v]
      /\ SumFunctionOnSet(inverse_odds, T) = SumFunctionOnSet(inverse_odds, S) + inverse_odds[v]
  BY <1>7, <1>8
<1> QED
  BY <1>1, <1>9, TotalIs DEF S, T, v
-----------------------------------------------------------------------------
\* The reserve of a prefix, numerator and denominator.
Num(k) == Unit - Total(fair, InPrefix(k))
Den(k) == Unit - Total(inverse_odds, InPrefix(k))

LEMMA ReserveIs ==
    ASSUME MarketOK, NEW k \in 0..Outcomes
    PROVE  /\ Num(k) \in Int /\ Den(k) \in Int
           /\ ReserveOf(InPrefix(k)) = <<Num(k), Den(k)>>
           /\ Total(fair, Index) <= Unit => Num(k) >= 0
           /\ k = 0 => Num(k) = Unit /\ Den(k) = Unit
<1>1. Num(k) \in Int /\ Den(k) \in Int /\ (Total(fair, Index) <= Unit => Num(k) >= 0)
  BY PrefixIs, MarketIs DEF Num, Den
<1>2. ReserveOf(InPrefix(k)) = <<Num(k), Den(k)>>
  BY DEF ReserveOf, Num, Den
<1>3. ASSUME k = 0
      PROVE  Num(k) = Unit /\ Den(k) = Unit
  <2>1. InPrefix(k) = {}
    BY <1>3 DEF InPrefix, Prefix
  <2>2. Total(fair, {}) = 0 /\ Total(inverse_odds, {}) = 0
    BY SumEmpty, TotalIs
  <2> QED
    BY <2>1, <2>2, MarketIs DEF Num, Den
<1> QED
  BY <1>1, <1>2, <1>3

LEMMA BettableIs ==
    ASSUME MarketOK, NEW k \in Index
    PROVE  Bettable(Sorted, k) <=>
              Den(k) > 0 /\ fair[Sorted[k]] * Den(k) > Num(k) * inverse_odds[Sorted[k]]
<1>1. k \in 0..Outcomes
  BY MarketIs DEF Index
<1> QED
  BY <1>1, ReserveIs DEF Bettable, InPrefix

\* Where the scan from above stops.
LEMMA BestIs ==
    ASSUME MarketOK
    PROVE  LET k == BestPrefix(Sorted)
           IN /\ k \in 0..Outcomes
              /\ k # 0 => k \in Index /\ Bettable(Sorted, k)
              /\ \A j \in Index : j > k => ~Bettable(Sorted, j)
<1> DEFINE good == {k \in Index : Bettable(Sorted, k)} \union {0}
           k == BestPrefix(Sorted)
<1>1. good # {} /\ Outcomes \in Int /\ \A j \in good : j \in Int /\ j <= Outcomes /\ j \in 0..Outcomes
  BY MarketIs DEF Index
<1>2. k = Max(good)
  BY DEF BestPrefix
<1>3. k \in good /\ \A j \in good : k >= j
  <2> HIDE DEF good
  <2> QED
    BY <1>1, <1>2, MaxIs
<1>4. ASSUME NEW j \in Index, j > k
      PROVE  ~Bettable(Sorted, j)
  <2>1. j \notin good
    BY <1>1, <1>3, <1>4
  <2> QED
    BY <2>1
<1> QED
  BY <1>1, <1>3, <1>4

\* Every member of a prefix that qualifies beats its reserve.
LEMMA MembersBeat ==
    ASSUME MarketOK, NEW k \in Index, Bettable(Sorted, k), NEW i \in InPrefix(k)
    PROVE  fair[i] * Den(k) > Num(k) * inverse_odds[i]
<1> DEFINE w == Sorted[k]
<1>1. k \in 0..Outcomes
  BY MarketIs DEF Index
<1>2. w \in Index /\ i \in Index
  BY <1>1, SortedIs, PrefixIs
<1>3. Den(k) > 0 /\ fair[w] * Den(k) > Num(k) * inverse_odds[w]
  BY BettableIs
<1>4. ~Worse(i, w)
  <2>1. PICK t \in Index : Sorted[t] = i
    BY <1>2, SortedIs
  <2>2. t <= k
    BY <1>1, <2>1, PrefixIs
  <2>3. t = k \/ t < k
    BY <2>2 DEF Index
  <2>4. CASE t < k
    <3>1. Before(i, w)
      BY <2>1, <2>4, SortedIs
    <3> QED
      BY <1>2, <3>1, WorseIsOrder DEF Before
  <2>5. CASE t = k
    BY <1>2, <2>1, <2>5, WorseIsOrder
  <2> QED
    BY <2>3, <2>4, <2>5
<1> HIDE DEF w
<1>5. /\ fair[w] \in Int /\ fair[i] \in Int /\ Num(k) \in Int /\ Den(k) \in Nat
      /\ inverse_odds[w] \in Nat /\ inverse_odds[i] \in Nat \ {0}
  <2>1. Num(k) \in Int /\ Den(k) \in Int
    BY <1>1, ReserveIs
  <2>2. Den(k) \in Nat
    BY <1>3, <2>1
  <2> QED
    BY <1>2, <2>1, <2>2, MarketIs
<1>6. fair[w] * inverse_odds[i] <= fair[i] * inverse_odds[w]
  BY <1>4, <1>5 DEF Worse
<1>7. CASE fair[i] * Den(k) <= Num(k) * inverse_odds[i]
  <2>1. fair[w] * Den(k) <= Num(k) * inverse_odds[w]
    BY <1>5, <1>6, <1>7, RatiosCompose
  <2> QED
    BY <1>3, <1>5, <2>1
<1> QED
  <2>1. fair[i] * Den(k) \in Int /\ Num(k) * inverse_odds[i] \in Int
    BY <1>5
  <2> QED
    BY <1>7, <2>1

\* The next in order, were it taken too, would not qualify, so it does not beat
\* the reserve.
LEMMA Unbeaten ==
    ASSUME NEW p \in Nat, NEW q \in Nat \ {0}, NEW n \in Int, NEW d \in Nat \ {0},
           ~(d - q > 0 /\ p * (d - q) > (n - p) * q), d > q \/ (p <= n /\ n >= 0)
    PROVE  p * d <= n * q
<1>1. CASE d > q
  <2>1. p * (d - q) <= (n - p) * q
    BY <1>1
  <2>2. p * (d - q) = p * d - p * q /\ (n - p) * q = n * q - p * q
    OBVIOUS
  <2>3. p * d \in Int /\ p * q \in Int /\ n * q \in Int
    OBVIOUS
  <2> QED
    BY <2>1, <2>2, <2>3
<1>2. CASE ~(d > q)
  <2>1. p <= n /\ n \in Nat /\ d <= q
    BY <1>2
  <2>2. d * p <= d * n /\ n * d <= n * q
    BY <2>1, ProductMonotone
  <2>3. d * p = p * d /\ d * n = n * d /\ p * d \in Int /\ n * d \in Int /\ n * q \in Int
    OBVIOUS
  <2> QED
    BY <2>2, <2>3
<1> QED
  BY <1>1, <1>2

\* None left out of the largest prefix that qualifies beats its reserve.
LEMMA OthersDoNot ==
    ASSUME MarketOK, NEW k \in 0..Outcomes, Den(k) > 0,
           \A j \in Index : j > k => ~Bettable(Sorted, j),
           k = 0 \/ Total(fair, Index) <= Unit,
           NEW i \in Index, i \notin InPrefix(k)
    PROVE  fair[i] * Den(k) <= Num(k) * inverse_odds[i]
<1>1. PICK t \in Index : Sorted[t] = i
  BY SortedIs
<1>2. t > k
  BY <1>1, PrefixIs DEF Index
<1>3. k \in 0..(Outcomes - 1)
  BY <1>2, MarketIs DEF Index
<1> DEFINE v == Sorted[k + 1]
<1>4. k + 1 \in Index /\ k + 1 \in 0..Outcomes /\ v \in Index /\ k + 1 > k
  BY <1>3, PrefixGrows, SortedIs
<1>5. ~Bettable(Sorted, k + 1)
  BY <1>4
<1>6. /\ fair[v] \in Nat /\ fair[i] \in Nat /\ Num(k) \in Int /\ Den(k) \in Nat \ {0}
      /\ inverse_odds[v] \in Nat \ {0} /\ inverse_odds[i] \in Nat \ {0} /\ inverse_odds[v] < Unit
  BY <1>4, MarketIs, ReserveIs
<1>7. Num(k + 1) = Num(k) - fair[v] /\ Den(k + 1) = Den(k) - inverse_odds[v]
  <2>1. /\ Total(fair, InPrefix(k)) \in Int /\ Total(inverse_odds, InPrefix(k)) \in Int
        /\ Unit \in Int
    BY PrefixIs, MarketIs
  <2> QED
    BY <1>3, <1>6, <2>1, PrefixGrows DEF Num, Den
<1>8. ~(Den(k) - inverse_odds[v] > 0
          /\ fair[v] * (Den(k) - inverse_odds[v]) > (Num(k) - fair[v]) * inverse_odds[v])
  BY <1>4, <1>5, <1>7, BettableIs
<1>9. Den(k) > inverse_odds[v] \/ (fair[v] <= Num(k) /\ Num(k) >= 0)
  <2>1. CASE k = 0
    BY <1>6, <2>1, ReserveIs
  <2>2. CASE Total(fair, Index) <= Unit
    <3>1. Num(k) >= 0 /\ Num(k + 1) >= 0
      BY <1>4, <2>2, ReserveIs
    <3> QED
      BY <1>6, <1>7, <3>1
  <2> QED
    BY <2>1, <2>2
<1>10. ~Worse(v, i)
  <2>1. t = k + 1 \/ k + 1 < t
    BY <1>2 DEF Index
  <2>2. CASE k + 1 < t
    <3>1. Before(v, i)
      BY <1>1, <1>4, <2>2, SortedIs
    <3> QED
      BY <1>4, <3>1, WorseIsOrder DEF Before
  <2>3. CASE t = k + 1
    BY <1>1, <2>3, WorseIsOrder
  <2> QED
    BY <2>1, <2>2, <2>3
<1> HIDE DEF v
<1>11. fair[v] * Den(k) <= Num(k) * inverse_odds[v]
  BY <1>6, <1>8, <1>9, Unbeaten
<1>12. fair[i] * inverse_odds[v] <= fair[v] * inverse_odds[i]
  BY <1>6, <1>10 DEF Worse
<1> QED
  BY <1>6, <1>11, <1>12, RatiosCompose
-----------------------------------------------------------------------------
\* The full stakes of a prefix with a reserve.
Full(k) == FullStakes(InPrefix(k), <<Num(k), Den(k)>>)

LEMMA FullIs ==
    ASSUME MarketOK, NEW k \in 0..Outcomes, k # 0 => k \in Index /\ Bettable(Sorted, k)
    PROVE  /\ Den(k) > 0
           /\ \A i \in Index :
                 /\ Full(k)[i] \in Nat
                 /\ i \in InPrefix(k) <=> Full(k)[i] > 0
                 /\ Full(k)[i] > 0 => Full(k)[i] + Num(k) * inverse_odds[i] = fair[i] * Den(k)
           /\ Total(Full(k), Index) \in Nat
           /\ k # 0 => Total(Full(k), Index) = Unit * (Den(k) - Num(k))
           /\ k = 0 => \A i \in Index : Full(k)[i] = 0
           /\ k = 0 => Total(Full(k), Index) = 0
<1> DEFINE S == InPrefix(k)
<1>1. Num(k) \in Int /\ Den(k) \in Int /\ Unit \in Nat /\ Unit > 0
  BY ReserveIs, KellyAssumption
<1>2. Den(k) > 0
  <2>1. CASE k = 0
    BY <1>1, <2>1, ReserveIs
  <2>2. CASE k # 0
    BY <2>2, BettableIs
  <2> QED
    BY <2>1, <2>2
<1>3. S \in SUBSET Index /\ IsFiniteSet(S) /\ IsFiniteSet(Index)
  BY PrefixIs, IndexIsFinite
<1>4. \A i \in Index : Full(k)[i] = IF i \in S THEN fair[i] * Den(k) - Num(k) * inverse_odds[i] ELSE 0
  BY DEF Full, FullStakes
<1>5. k = 0 => S = {}
  BY DEF InPrefix, Prefix
<1>6. \A i \in S : k \in Index /\ Bettable(Sorted, k)
  BY <1>5
<1>7. ASSUME NEW i \in Index
      PROVE  /\ Full(k)[i] \in Nat
             /\ i \in S <=> Full(k)[i] > 0
             /\ Full(k)[i] > 0 => Full(k)[i] + Num(k) * inverse_odds[i] = fair[i] * Den(k)
  <2>1. fair[i] * Den(k) \in Int /\ Num(k) * inverse_odds[i] \in Int
    BY <1>1, MarketIs
  <2>2. CASE i \in S
    <3>1. fair[i] * Den(k) > Num(k) * inverse_odds[i]
      BY <1>6, <2>2, MembersBeat
    <3> QED
      BY <1>4, <2>1, <2>2, <3>1
  <2>3. CASE i \notin S
    BY <1>4, <2>3
  <2> QED
    BY <2>2, <2>3
<1>8. SumFunctionOnSet(Full(k), Index) = SumFunctionOnSet(Full(k), S)
  <2>1. \A i \in Index : Full(k)[i] \in Int /\ (i \in S \/ Full(k)[i] = 0)
    BY <1>4, <1>7
  <2> QED
    BY <1>3, <2>1, SumOfPart
<1>9. SumFunctionOnSet(Full(k), Index) \in Nat
  BY <1>3, <1>7, SumNatural
<1>10. SumFunctionOnSet(Full(k), S)
          = Den(k) * SumFunctionOnSet(fair, S) + (-Num(k)) * SumFunctionOnSet(inverse_odds, S)
  <2>1. \A i \in S : fair[i] \in Int /\ inverse_odds[i] \in Int
    BY <1>3, MarketIs
  <2>2. ASSUME NEW i \in S
        PROVE  Full(k)[i] = Den(k) * fair[i] + (-Num(k)) * inverse_odds[i]
    <3>1. Full(k)[i] = fair[i] * Den(k) - Num(k) * inverse_odds[i]
      BY <1>3, <1>4
    <3> QED
      BY <1>1, <2>1, <3>1
  <2> DEFINE m == -Num(k)
             d == Den(k)
             full == Full(k)
  <2>3. /\ m \in Int /\ d \in Int
        /\ \A i \in S : full[i] = d * fair[i] + m * inverse_odds[i]
    BY <1>1, <2>2
  <2> HIDE DEF m, d, full, S
  <2>4. IsFiniteSet(S)
    BY <1>3
  <2>5. SumFunctionOnSet(full, S)
           = d * SumFunctionOnSet(fair, S) + m * SumFunctionOnSet(inverse_odds, S)
    BY <2>1, <2>3, <2>4, SumLinear
  <2> QED
    BY <2>5 DEF m, d, full
<1>11. Total(Full(k), Index) = Unit * (Den(k) - Num(k))
  <2> DEFINE P == Total(fair, S)
             B == Total(inverse_odds, S)
  <2>1. P \in Int /\ B \in Int
    BY PrefixIs
  <2>2. Num(k) = Unit - P /\ Den(k) = Unit - B
    BY DEF Num, Den
  <2>3. Total(Full(k), Index) = Den(k) * P + (-Num(k)) * B
    BY <1>8, <1>10, TotalIs
  <2> HIDE DEF P, B
  <2>4. (Unit - B) * P + (-(Unit - P)) * B = Unit * ((Unit - B) - (Unit - P))
    BY <1>1, <2>1
  <2> QED
    BY <2>2, <2>3, <2>4
<1>12. k = 0 => \A i \in Index : Full(k)[i] = 0
  BY <1>4, <1>5
<1>13. k = 0 => Total(Full(k), Index) = 0
  BY <1>5, <1>8, SumEmpty, TotalIs
<1> QED
  BY <1>2, <1>7, <1>9, <1>11, <1>12, <1>13, TotalIs

\* The fraction of Kelly and the cap.
LEMMA CappedIs ==
    ASSUME NEW full, NEW den \in Nat \ {0}, \A i \in Index : full[i] \in Nat
    PROVE  LET stake == [i \in Index |-> Capped(full, den).stake[i][1]]
               over == Capped(full, den).stake[1][2]
           IN /\ \A i, j \in Index : stake[i] * full[j] = stake[j] * full[i]
              /\ \A i \in Index : Capped(full, den).stake[i][2] = over
              /\ Total(stake, Index) * Unit <= max_exposure * over
<1> DEFINE total == Total(full, Index)
           capped == Capped(full, den)
           stake == [i \in Index |-> capped.stake[i][1]]
           over == total * kelly_fraction > max_exposure * den
           by == IF over THEN max_exposure ELSE kelly_fraction
           out == IF over THEN total * Unit ELSE den * Unit
<1>1. /\ Unit \in Nat \ {0} /\ 1 \in Index
      /\ kelly_fraction \in Nat \ {0} /\ max_exposure \in Nat \ {0}
  BY KellyAssumption DEF Index
<1>2. total \in Nat
  BY SumNatural, IndexIsFinite, TotalIs
<1>3. \A i \in Index : capped.stake[i] = <<full[i] * by, out>>
  BY DEF Capped
<1>4. \A i \in Index : stake[i] = full[i] * by /\ capped.stake[i][2] = out
  BY <1>3
<1>5. by \in Nat
  BY <1>1
<1>6. \A i, j \in Index : stake[i] * full[j] = stake[j] * full[i]
  <2> SUFFICES ASSUME NEW i \in Index, NEW j \in Index
               PROVE  stake[i] * full[j] = stake[j] * full[i]
    OBVIOUS
  <2>1. stake[i] = full[i] * by /\ stake[j] = full[j] * by /\ full[i] \in Nat /\ full[j] \in Nat
    BY <1>4
  <2> HIDE DEF stake, by
  <2>2. (full[i] * by) * full[j] = (full[j] * by) * full[i]
    BY <1>5, <2>1
  <2> QED
    BY <2>1, <2>2
<1>7. Total(stake, Index) = by * total
  <2> DEFINE none == [i \in Index |-> 0]
  <2> HIDE DEF by, stake, none
  <2>1. /\ \A i \in Index : full[i] \in Int /\ none[i] \in Int
        /\ \A i \in Index : stake[i] = by * full[i] + 0 * none[i]
        /\ by \in Int /\ 0 \in Int
    BY <1>4, <1>5 DEF none
  <2>2. SumFunctionOnSet(stake, Index)
           = by * SumFunctionOnSet(full, Index) + 0 * SumFunctionOnSet(none, Index)
    BY <2>1, IndexIsFinite, SumLinear
  <2>3. SumFunctionOnSet(none, Index) \in Int
    BY <2>1, IndexIsFinite, SumType
  <2>4. SumFunctionOnSet(full, Index) \in Int
    BY <1>2, TotalIs
  <2> QED
    BY <1>5, <2>2, <2>3, <2>4, TotalIs
<1>8. (by * total) * Unit <= max_exposure * out
  <2> HIDE DEF total
  <2>1. CASE over
    <3>1. by = max_exposure /\ out = total * Unit
      BY <2>1
    <3> QED
      BY <1>1, <1>2, <3>1
  <2>2. CASE ~over
    <3>1. by = kelly_fraction /\ out = den * Unit
      BY <2>2
    <3>2. total * kelly_fraction <= max_exposure * den
      BY <1>1, <1>2, <2>2
    <3>3. Unit * (total * kelly_fraction) <= Unit * (max_exposure * den)
      BY <1>1, <1>2, <3>2, ProductMonotone
    <3>4. /\ Unit * (total * kelly_fraction) = (kelly_fraction * total) * Unit
          /\ Unit * (max_exposure * den) = max_exposure * (den * Unit)
      BY <1>1, <1>2
    <3> QED
      BY <3>1, <3>3, <3>4
  <2> QED
    BY <2>1, <2>2
<1> HIDE DEF stake, by, out, total, capped
<1>9. Total(stake, Index) * Unit <= max_exposure * capped.stake[1][2]
  BY <1>1, <1>4, <1>7, <1>8
<1> QED
  BY <1>1, <1>4, <1>6, <1>9 DEF stake, capped
-----------------------------------------------------------------------------
\* What is known of the allocator between its calls.
KellyInv ==
    /\ fair # <<>> => MarketOK
    /\ result # NoResult => MarketOK /\ result = Allocation

LEMMA InitKelly == Init => KellyInv
BY DEF Init, KellyInit, KellyInv

\* It depends on its arguments alone.
LEMMA AllocationStays ==
    ASSUME fair' = fair, inverse_odds' = inverse_odds
    PROVE  Allocation' = Allocation
<1>1. Sorted' = Sorted
  BY DEF Sorted, Worse
<1> QED
  BY <1>1 DEF Allocation, BestPrefix, Bettable, ReserveOf, FullStakes

LEMMA StepKelly == ASSUME KellyInv, [Next]_vars PROVE KellyInv'
<1>1. CASE UNCHANGED kellyVars
  <2>1. fair' = fair /\ inverse_odds' = inverse_odds /\ result' = result
    BY <1>1 DEF kellyVars
  <2>2. Allocation' = Allocation
    BY <2>1, AllocationStays
  <2> QED
    BY <2>1, <2>2 DEF KellyInv, MarketOK
<1>2. CASE Price
  <2>1. /\ fair = <<>> /\ fair' \in [Index -> 0..Unit] /\ result' = result
        /\ inverse_odds' \in [Index -> 1..(Unit - 1)]
    BY <1>2 DEF Price, Quote
  <2>2. result = NoResult
    <3>1. 1 \in Index /\ 1 \notin DOMAIN <<>>
      BY KellyAssumption DEF Index
    <3> QED
      BY <2>1, <3>1 DEF KellyInv, MarketOK
  <2> QED
    BY <2>1, <2>2 DEF KellyInv, MarketOK
<1>3. CASE Allocate
  <2>1. MarketOK /\ result' = Allocation /\ fair' = fair /\ inverse_odds' = inverse_odds
    BY <1>3 DEF Allocate, KellyInv
  <2>2. Allocation' = Allocation
    BY <2>1, AllocationStays
  <2> QED
    BY <2>1, <2>2 DEF KellyInv, MarketOK
<1> QED
  BY <1>1, <1>2, <1>3 DEF Next, vars

LEMMA AllocationIsOptimal ==
    ASSUME KellyInv
    PROVE  KellyOptimal
<1> SUFFICES ASSUME Done
             PROVE  KellyOptimal
  BY DEF KellyOptimal
<1>1. MarketOK /\ result = Allocation
  BY DEF Done, KellyInv
<1> DEFINE k == BestPrefix(Sorted)
<1>2. /\ k \in 0..Outcomes /\ (k # 0 => k \in Index /\ Bettable(Sorted, k))
      /\ \A j \in Index : j > k => ~Bettable(Sorted, j)
  BY <1>1, BestIs
<1>3. ReserveOf(InPrefix(k)) = <<Num(k), Den(k)>>
  BY <1>1, <1>2, ReserveIs
<1> DEFINE n == IF k = 0 THEN 1 ELSE Num(k)
           d == IF k = 0 THEN 1 ELSE Den(k)
           full == FullStakes(InPrefix(k), <<n, d>>)
           capped == Capped(full, Unit * d)
<1>4. /\ result.reserve = <<n, d>>
      /\ result.full = full
      /\ result.stake = capped.stake
  BY <1>1, <1>3 DEF Allocation, InPrefix
<1>5. /\ Unit \in Nat \ {0} /\ 1 \in Index
      /\ \A i \in Index : fair[i] \in Nat /\ inverse_odds[i] \in Nat \ {0}
  BY <1>1, MarketIs, KellyAssumption
<1>6. /\ n \in Int /\ d \in Nat \ {0}
      /\ \A i \in Index : /\ full[i] \in Nat
                          /\ full[i] > 0 => full[i] + n * inverse_odds[i] = fair[i] * d
      /\ Total(full, Index) = Unit * (d - n)
  <2>1. CASE k = 0
    <3>1. n = 1 /\ d = 1 /\ \A i \in Index : full[i] = 0
      BY <2>1 DEF FullStakes, InPrefix, Prefix
    <3>2. full = Full(k)
      BY <2>1 DEF Full, FullStakes, InPrefix, Prefix
    <3>3. Total(full, Index) = 0
      BY <1>1, <1>2, <2>1, <3>2, FullIs
    <3> QED
      BY <1>5, <3>1, <3>3
  <2>2. CASE k # 0
    <3>1. n = Num(k) /\ d = Den(k) /\ full = Full(k)
      BY <2>2 DEF Full
    <3>2. Num(k) \in Int /\ Den(k) \in Int
      BY <1>1, <1>2, ReserveIs
    <3> QED
      BY <1>1, <1>2, <2>2, <3>1, <3>2, FullIs
  <2> QED
    BY <2>1, <2>2
<1>7. ASSUME Total(fair, Index) <= Unit
      PROVE  n >= 0 /\ \A i \in Index : full[i] = 0 => fair[i] * d <= n * inverse_odds[i]
  <2>1. Num(k) >= 0
    BY <1>1, <1>2, <1>7, ReserveIs
  <2>2. ASSUME NEW i \in Index, full[i] = 0
        PROVE  fair[i] * d <= n * inverse_odds[i]
    <3>1. Den(k) > 0 /\ (i \in InPrefix(k) <=> Full(k)[i] > 0)
      BY <1>1, <1>2, FullIs
    <3>2. CASE k = 0
      <4>1. i \notin InPrefix(k) /\ n = 1 /\ d = 1
        BY <3>2 DEF InPrefix, Prefix
      <4>2. fair[i] * Den(k) <= Num(k) * inverse_odds[i]
        BY <1>1, <1>2, <1>7, <3>1, <4>1, OthersDoNot
      <4>3. Num(k) = Unit /\ Den(k) = Unit
        BY <1>1, <1>2, <3>2, ReserveIs
      <4>4. fair[i] * Unit <= Unit * inverse_odds[i]
        BY <4>2, <4>3
      <4>5. fair[i] <= inverse_odds[i]
        BY <1>5, <4>4
      <4> QED
        BY <1>5, <4>1, <4>5
    <3>3. CASE k # 0
      <4>1. n = Num(k) /\ d = Den(k) /\ full = Full(k)
        BY <3>3 DEF Full
      <4>2. i \notin InPrefix(k)
        BY <2>2, <3>1, <4>1
      <4> QED
        BY <1>1, <1>2, <1>7, <3>1, <4>1, <4>2, OthersDoNot
    <3> QED
      BY <3>2, <3>3
  <2>3. n >= 0
    BY <2>1
  <2> QED
    BY <2>2, <2>3
<1> HIDE DEF k, n, d, full
<1> DEFINE stake == [i \in Index |-> capped.stake[i][1]]
<1>8. Unit * d \in Nat \ {0} /\ \A i \in Index : full[i] \in Nat
  BY <1>5, <1>6
<1>9. /\ \A i, j \in Index : stake[i] * full[j] = stake[j] * full[i]
      /\ \A i \in Index : capped.stake[i][2] = capped.stake[1][2]
      /\ Total(stake, Index) * Unit <= max_exposure * capped.stake[1][2]
  BY <1>8, CappedIs
<1> HIDE DEF capped
<1> QED
  BY <1>4, <1>6, <1>7, <1>8, <1>9 DEF KellyOptimal

\* Whatever the fair price, adding up to more than one or not, and whatever the
\* odds: allocate() returns stakes in the proportions of full Kelly and under the
\* cap, and if the price adds up to no more than one the set of outcomes it
\* stakes on is the one that maximises expected log wealth.
THEOREM KellyOptimalHolds == Spec => []KellyOptimal
<1>1. KellyInv /\ [Next]_vars => KellyInv'
  BY StepKelly
<1>2. KellyInv => KellyOptimal
  BY AllocationIsOptimal
<1> QED
  BY <1>1, <1>2, InitKelly, PTL DEF Spec
=============================================================================
