-------------------------------- MODULE UdpSink --------------------------------
(***************************************************************************)
(* The broadcasting end of the live feed (src/sim/UdpSink.hpp), one        *)
(* simulator run after another. The generation loop calls accept() on the  *)
(* run's records in order, then finish(); a run may also be killed.        *)
(***************************************************************************)
EXTENDS UdpFraming

VARIABLES
    run,            \* the current simulator run, 0 before the first
    sink_open,      \* its socket is open
    accepted,       \* records the generation loop has handed over
    buffer,         \* buffer_[0 .. fill_), the batch being filled
    datagram_seq, since_announce, send_errors

sinkVars == <<run, sink_open, accepted, buffer, datagram_seq, since_announce, send_errors>>

SinkInit ==
    /\ run = 0
    /\ sink_open = FALSE
    /\ accepted = 0
    /\ buffer = <<>>
    /\ datagram_seq = 0
    /\ since_announce = 0
    /\ send_errors = 0

\* send_packet() on each of the packets: a failed send is counted, and takes
\* its sequence number with it all the same.
SendPackets(packets) ==
    LET all == {packets[i] : i \in DOMAIN packets}
    IN \E failed \in SUBSET all :
          /\ send_errors' = send_errors + Cardinality(failed)
          /\ send_errors' <= MaxSendErrors
          /\ net' = net \union (all \ failed)
          /\ UNCHANGED duplicates

AnnounceDue == since_announce >= kAnnounceInterval

\* What flush() sends: an announce first if one is due, then the data.
PacketsOf(batch) ==
    IF AnnounceDue
    THEN <<Announce(run, datagram_seq), Data(run, datagram_seq + 1, batch)>>
    ELSE <<Data(run, datagram_seq, batch)>>

\* Mutant of Flush: failed sends give their numbers back.
FlushReusing(batch) ==
    /\ SendPackets(PacketsOf(batch))
    /\ datagram_seq' = datagram_seq + Len(PacketsOf(batch)) - (send_errors' - send_errors)
    /\ since_announce' = IF AnnounceDue THEN 1 ELSE since_announce + 1
    /\ buffer' = <<>>

Flush(batch) ==
    /\ SendPackets(PacketsOf(batch))
    /\ datagram_seq' = datagram_seq + Len(PacketsOf(batch))
    /\ since_announce' = IF AnnounceDue THEN 1 ELSE since_announce + 1
    /\ buffer' = <<>>

\* A new simulator process: the constructor announces before any data.
Open ==
    /\ ~sink_open
    /\ run < Len(Sessions)
    /\ run' = run + 1
    /\ sink_open' = TRUE
    /\ accepted' = 0
    /\ buffer' = <<>>
    /\ SendPackets(<<Announce(run + 1, 0)>>)
    /\ datagram_seq' = 1
    /\ since_announce' = 0

\* accept() of the next record; a full batch leaves at once.
Accept ==
    /\ sink_open
    /\ accepted < RunLength
    /\ accepted' = accepted + 1
    /\ LET batch == Append(buffer, Record(run, accepted + 1))
       IN IF Len(batch) = kRecordsPerDatagram
          THEN Flush(batch)
          ELSE /\ buffer' = batch
               /\ UNCHANGED <<datagram_seq, since_announce, send_errors, netVars>>
    /\ UNCHANGED <<run, sink_open>>

\* finish(): the partial batch leaves and the socket closes. No end marker.
Finish ==
    /\ sink_open
    /\ accepted = RunLength
    /\ sink_open' = FALSE
    /\ IF buffer = <<>>
       THEN UNCHANGED <<buffer, datagram_seq, since_announce, send_errors, netVars>>
       ELSE Flush(buffer)
    /\ UNCHANGED <<run, accepted>>

\* The simulator process dies: a batch still in its memory never leaves.
Kill ==
    /\ sink_open
    /\ sink_open' = FALSE
    /\ UNCHANGED <<run, accepted, buffer, datagram_seq, since_announce, send_errors, netVars>>

SinkNext == Open \/ Accept \/ Finish \/ Kill
=============================================================================
