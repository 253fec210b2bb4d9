------------------------------ MODULE UdpFraming ------------------------------
(***************************************************************************)
(* The datagrams of the live feed (src/proto/udp_framing.hpp) and the UDP  *)
(* network that carries them: whole datagrams or nothing, in any order,    *)
(* some of them never, some of them twice.                                 *)
(***************************************************************************)
EXTENDS Naturals, Sequences, FiniteSets

CONSTANTS
    kRecordsPerDatagram, kAnnounceInterval,
    kOddsUpdateSize, \* sizeof(OddsUpdate), the same in both programs' build
    Sessions,      \* the simulator runs, in order: the shape of each
    Strays,        \* announces of programs built with another record layout
    RunLength,     \* bound: records one run publishes
    MaxSendErrors, \* bound: send() failures
    MaxDuplicates, \* bound: datagrams the network delivers once more
    MaxMalformed   \* bound: datagrams that are not of this feed

ASSUME FramingConstants ==
    /\ kRecordsPerDatagram \in Nat \ {0}
    /\ kAnnounceInterval \in Nat \ {0}
    /\ RunLength \in Nat
    /\ MaxSendErrors \in Nat
    /\ MaxDuplicates \in Nat
    /\ MaxMalformed \in Nat
    /\ kOddsUpdateSize \in Nat
    /\ Sessions \in Seq([seed : Nat, markets : Nat \ {0}, books : Nat \ {0}])
    /\ Strays \subseteq
          [type : {"Announce"}, run : {0}, datagram_seq : Nat, records : {<<>>},
           announce : [seed : Nat, markets : Nat, books : Nat,
                       record_size : Nat \ {kOddsUpdateSize}]]

VARIABLES
    net,       \* the datagrams in flight
    duplicates \* how many datagrams were delivered more than once

netVars == <<net, duplicates>>

Runs == 1..Len(Sessions)

\* A run is deterministic, so a record is known by its seed and its position.
Record(run, n) == [seed |-> Sessions[run].seed, n |-> n]
Records == [seed : {Sessions[r].seed : r \in Runs}, n : 1..RunLength]

\* "run" is not on the wire: it tells the datagrams of two runs apart.
AnnounceRecord(run) ==
    [seed |-> Sessions[run].seed, markets |-> Sessions[run].markets,
     books |-> Sessions[run].books, record_size |-> kOddsUpdateSize]

Announce(run, seq) ==
    [type |-> "Announce", run |-> run, datagram_seq |-> seq, records |-> <<>>,
     announce |-> AnnounceRecord(run)]

Data(run, seq, records) ==
    [type |-> "Data", run |-> run, datagram_seq |-> seq, records |-> records]

Announces ==
    [type : {"Announce"}, run : Runs, datagram_seq : Nat, records : {<<>>},
     announce : {AnnounceRecord(r) : r \in Runs}]
DataDatagrams ==
    [type : {"Data"}, run : Runs, datagram_seq : Nat, records : Seq(Records)]
Datagrams == Announces \union DataDatagrams

\* recv() of a datagram in flight. One never received is a lost one.
Receive(d) ==
    /\ d \in net
    /\ \/ net' = net \ {d} /\ UNCHANGED duplicates
       \/ /\ duplicates < MaxDuplicates
          /\ duplicates' = duplicates + 1
          /\ UNCHANGED net
=============================================================================
