----------------------------- MODULE MCUdpCapture -----------------------------
(***************************************************************************)
(* An instance of UdpCapture for TLC: a simulator that is restarted, on a  *)
(* session of two ticks of two markets.                                    *)
(***************************************************************************)
EXTENDS UdpCapture

Restarted == [r \in 1..2 |-> [seed |-> 1, markets |-> 2, books |-> 1]]
=============================================================================
