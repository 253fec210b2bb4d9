------------------------------- MODULE MCSizing -------------------------------
(***************************************************************************)
(* An instance of Sizing for TLC: every falling curve on a grid of seven   *)
(* points, then every market of three outcomes on a grid of probabilities  *)
(* and odds.                                                               *)
(***************************************************************************)
EXTENDS Sizing

\* Enough for bisection to exhaust the grid, too few for every Newton search.
Iterations == [power |-> 3, shin |-> 4]
\* The mean of several books may add up to a little less than one, or more.
Roundings == -1..1
=============================================================================
