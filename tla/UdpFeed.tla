-------------------------------- MODULE UdpFeed --------------------------------
(***************************************************************************)
(* The live feed end to end: simulator runs broadcasting through UdpSink,  *)
(* the network, and the engine's UdpSource, each at its own pace.          *)
(***************************************************************************)
EXTENDS UdpSink, UdpSource

vars == <<netVars, sinkVars, srcVars>>

Init ==
    /\ net = Strays
    /\ duplicates = 0
    /\ SinkInit
    /\ SourceInit

SinkStep == SinkNext /\ UNCHANGED srcVars
SourceStep == SourceNext /\ UNCHANGED sinkVars

Next == SinkStep \/ SourceStep

Spec == Init /\ [][Next]_vars

\* recv() has a timeout and next() a caller that loops, so the source always
\* takes its next step. Nothing is assumed of the simulator or the network.
FairSpec == Spec /\ WF_vars(SourceStep)
-----------------------------------------------------------------------------
NetTypeOK == net \subseteq Datagrams \union Strays /\ duplicates \in Nat

SinkTypeOK ==
    /\ run \in 0..Len(Sessions)
    /\ sink_open \in BOOLEAN
    /\ sink_open => run \in Runs
    /\ accepted \in 0..RunLength
    /\ buffer \in Seq(Records)
    /\ datagram_seq \in Nat
    /\ since_announce \in 0..kAnnounceInterval
    /\ send_errors \in Nat

SourceTypeOK ==
    /\ src_state \in {"await", "streaming", "ended", "failed"}
    /\ header \in [seed : Nat, markets : Nat, books : Nat]
    /\ buf \in Seq(Records)
    /\ in_buffer \in Nat
    /\ cursor \in 0..in_buffer
    /\ cursor < in_buffer => src_state = "streaming" /\ in_buffer = Len(buf)
    /\ expected_seq \in Nat
    /\ lost \in Nat
    /\ reordered \in Nat
    /\ datagrams \in Nat
    /\ malformed \in Nat
    /\ pre_announce \in Nat
    /\ announces \in Nat
    /\ delivered \in Seq(Records)
    /\ baseline \in [seq : Nat, datagrams : Nat]
    /\ got \subseteq Nat
    /\ stray_heard \in BOOLEAN

\* Sequence numbers, counters and buffers stay in their ranges, and what is
\* left in the source's buffer is what its last datagram brought.
TypeOK == NetTypeOK /\ SinkTypeOK /\ SourceTypeOK

\* The counters balance: since the baseline, the numbers passed over are the
\* datagrams received in sequence plus those counted lost, on any interleaving
\* of loss, delay, repetition and restarts (read_datagram()).
SequenceBalance ==
    (expected_seq - baseline.seq) + reordered = (datagrams - baseline.datagrams) + lost

\* The constructor has returned.
Started == announces > 0

\* The numbers passed over since the baseline that no received datagram bore.
Missing == (baseline.seq..(expected_seq - 1)) \ got

\* lost() brackets the truth: it never hides a missing datagram, and it exceeds
\* the missing ones by no more than reordered() says.
LossIsMeasurable == Started =>
    /\ Cardinality(Missing) <= lost
    /\ lost <= Cardinality(Missing) + reordered

\* Feed quality read off the counters: with nothing counted as reordered the
\* engine saw records in publication order and none twice, and with nothing
\* lost either, it saw an unbroken run of them. The exception is an announce of
\* another build heard mid-stream: it takes up a number of the feed unnoticed.
CleanCountersMeanCleanFeed ==
    reordered = 0 =>
        \A i, j \in DOMAIN delivered :
            i < j => /\ delivered[i].n < delivered[j].n
                     /\ lost = 0 /\ ~stray_heard => delivered[j].n = delivered[i].n + (j - i)

\* "gaps == loss" (src/proto/udp_framing.hpp:26): what the source counts as lost
\* is what has not arrived.
GapsAreLoss == Started => lost = Cardinality(Missing)

\* "Config changing underneath a running engine is not something to paper over
\* silently" (src/engine/UdpSource.hpp:163): what next() returns belongs to the
\* feed its header describes.
NoSilentReconfiguration == \A i \in DOMAIN delivered : delivered[i].seed = header.seed

\* Every run of the source comes to an end of its own.
SourceStops == <>(src_state \in {"ended", "failed"})
-----------------------------------------------------------------------------
\* The batches a run's flushes form: full ones and the tail of the run.
BatchFrom(r, first) ==
    LET left == RunLength - first + 1
    IN [k \in 1..(IF left < kRecordsPerDatagram THEN left ELSE kRecordsPerDatagram)
            |-> Record(r, first + k - 1)]

FeedBatches ==
    {BatchFrom(r, first) : r \in Runs,
     first \in {n \in 1..RunLength : (n - 1) % kRecordsPerDatagram = 0}}

Promised == INSTANCE RecordSource WITH
    Batches <- FeedBatches,
    state <- IF src_state = "await" THEN "opening" ELSE src_state,
    pending <- IF src_state = "await" THEN <<>> ELSE SubSeq(buf, cursor + 1, in_buffer),
    handed <- delivered

\* The UDP source implements the abstract one: batches arrive whole, as they
\* were formed, and reusing the receive buffer never disturbs one half read.
ImplementsRecordSource == Promised!Spec
=============================================================================
