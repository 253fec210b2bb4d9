------------------------------ MODULE MCUdpFeed ------------------------------
(***************************************************************************)
(* Instances of UdpFeed for TLC. Small batches and a short announce        *)
(* interval make every case of the framing occur within one run.           *)
(***************************************************************************)
EXTENDS UdpFeed

Shape == [seed |-> 1, markets |-> 2, books |-> 2]

OneRun == <<Shape>>
Restarted == <<Shape, Shape>>
Reseeded == <<Shape, [Shape EXCEPT !.seed = 2]>>

\* An announce of a simulator built with smaller records, still in flight.
OtherBuild ==
    {[type |-> "Announce", run |-> 0, datagram_seq |-> 2, records |-> <<>>,
      announce |-> [seed |-> 1, markets |-> 2, books |-> 2, record_size |-> 48]]}
=============================================================================
