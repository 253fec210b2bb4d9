------------------------------- MODULE MCOffline -------------------------------
(***************************************************************************)
(* An instance of Offline for TLC. The slower book's lag fills the ring,   *)
(* and the ticks are enough for the ring to be written over.               *)
(***************************************************************************)
EXTENDS Offline

TwoBooks == <<[lag |-> 1, interval |-> 1], [lag |-> 2, interval |-> 2]>>
=============================================================================
