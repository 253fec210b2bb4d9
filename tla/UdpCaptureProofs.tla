---------------------------- MODULE UdpCaptureProofs ----------------------------
(***************************************************************************)
(* What a capture of the live feed is worth, for every number of restarts  *)
(* of the simulator, batch size, announce interval and bound on the        *)
(* network's misbehaviour.                                                 *)
(***************************************************************************)
EXTENDS UdpCapture, BasicFacts

\* The feed as far as it is proved of elsewhere: the simulators and the network,
\* with an engine that never hears anything in the place of the tool.
Sent == INSTANCE UdpFeedProofs WITH
    Strays <- {}, src_state <- "await", header <- [seed |-> 0, markets |-> 0, books |-> 0],
    buf <- <<>>, in_buffer <- 0, cursor <- 0, expected_seq <- 0, lost <- 0, reordered <- 0,
    datagrams <- 0, malformed <- 0, pre_announce <- 0, announces <- 0, delivered <- <<>>,
    baseline <- [seq |-> 0, datagrams |-> 0], got <- {}, stray_heard <- FALSE

LEMMA SentConstants == Sent!FramingConstants
BY FramingConstants DEF Sent!FramingConstants

\* What is in flight and where the sink stands, in the terms of those proofs.
FeedOK ==
    /\ Sent!NetTypeOK /\ Sent!SinkTypeOK
    /\ Sent!NetOrdered /\ Sent!SinkOrdered /\ Sent!SinkBalance

LEMMA SourceIsIdle == Sent!SourceTypeOK
<1>1. <<>> \in Seq(Sent!Records)
  OBVIOUS
<1> QED
  BY <1>1 DEF Sent!SourceTypeOK

\* The simulators are the same ones.
LEMMA SameSink ==
    ASSUME SinkNext
    PROVE  Sent!SinkNext
<1>1. ASSUME NEW packets, SendPackets(packets)
      PROVE  Sent!SendPackets(packets)
  BY <1>1, Zenon DEF SendPackets, Sent!SendPackets, Cardinality, Sent!Cardinality
<1>2. \A r, seq : Announce(r, seq) = Sent!Announce(r, seq)
  BY DEF Announce, Sent!Announce, AnnounceRecord, Sent!AnnounceRecord
<1>3. \A batch : PacketsOf(batch) = Sent!PacketsOf(batch)
  BY <1>2 DEF PacketsOf, Sent!PacketsOf, AnnounceDue, Sent!AnnounceDue, Data, Sent!Data
<1>4. ASSUME NEW batch, Flush(batch)
      PROVE  Sent!Flush(batch)
  BY <1>1, <1>3, <1>4 DEF Flush, Sent!Flush, AnnounceDue, Sent!AnnounceDue
<1>5. CASE Open
  <2>1. Sent!SendPackets(<<Sent!Announce(run + 1, 0)>>)
    BY <1>1, <1>2, <1>5 DEF Open
  <2> QED
    BY <1>5, <2>1 DEF Sent!SinkNext, Open, Sent!Open
<1>6. CASE Accept
  BY <1>4, <1>6 DEF Sent!SinkNext, Accept, Sent!Accept, Record, Sent!Record, netVars, Sent!netVars
<1>7. CASE Finish
  BY <1>4, <1>7 DEF Sent!SinkNext, Finish, Sent!Finish, netVars, Sent!netVars
<1>8. CASE Kill
  BY <1>8 DEF Sent!SinkNext, Kill, Sent!Kill, netVars, Sent!netVars
<1> QED
  BY <1>5, <1>6, <1>7, <1>8 DEF SinkNext

LEMMA FeedInit == Init => FeedOK
<1> SUFFICES ASSUME Init
             PROVE  FeedOK
  OBVIOUS
<1>1. /\ net = {} /\ duplicates = 0 /\ run = 0 /\ sink_open = FALSE /\ accepted = 0
      /\ buffer = <<>> /\ datagram_seq = 0 /\ since_announce = 0 /\ send_errors = 0
  BY DEF Init, SinkInit
<1>2. Sent!NetTypeOK /\ Sent!NetOrdered
  BY <1>1 DEF Sent!NetTypeOK, Sent!NetOrdered
<1>3. <<>> \in Seq(Sent!Records) /\ Len(<<>>) = 0
  OBVIOUS
<1>4. Sent!SinkTypeOK /\ Sent!SinkOrdered
  <2>1. kAnnounceInterval \in Nat /\ RunLength \in Nat /\ Len(Sessions) \in Nat
    BY FramingConstants
  <2>2. sink_open \in BOOLEAN /\ ~sink_open
    BY <1>1
  <2>3. /\ run \in 0..Len(Sessions) /\ accepted \in 0..RunLength /\ datagram_seq \in Nat
        /\ since_announce \in 0..kAnnounceInterval /\ send_errors \in Nat
    BY <1>1, <2>1
  <2>4. buffer \in Seq(Sent!Records)
    BY <1>1, <1>3
  <2>5. Sent!SinkOrdered
    BY <1>1 DEF Sent!SinkOrdered
  <2> QED
    BY <2>2, <2>3, <2>4, <2>5 DEF Sent!SinkTypeOK
<1>5. Sent!Before(0) = 0
  BY FramingConstants DEF Sent!Before, Sent!DataBefore
<1>6. Sent!SinkBalance
  BY <1>1, <1>3, <1>5, FramingConstants DEF Sent!SinkBalance, Sent!Top, Sent!Least
<1> QED
  BY <1>2, <1>4, <1>6 DEF FeedOK

\* A step of a simulator, and one that only takes from the network.
LEMMA FeedSinkStep ==
    ASSUME FeedOK, SinkNext
    PROVE  FeedOK'
<1>1. Sent!SinkNext /\ Sent!TypeOK
  BY SameSink, SourceIsIdle DEF FeedOK, Sent!TypeOK
<1> QED
  BY <1>1, SentConstants, Sent!SinkStepType, Sent!SinkKeepsOrder, Sent!SinkKeepsBalance DEF FeedOK

LEMMA FeedTaken ==
    ASSUME FeedOK, net' \subseteq net, duplicates' \in Nat, UNCHANGED sinkVars
    PROVE  FeedOK'
<1>1. Sent!NetTypeOK' /\ Sent!NetOrdered'
  BY DEF FeedOK, Sent!NetTypeOK, Sent!NetOrdered
<1>2. Sent!SinkTypeOK' /\ Sent!SinkOrdered' /\ Sent!SinkBalance'
  BY DEF FeedOK, sinkVars, Sent!SinkTypeOK, Sent!SinkOrdered, Sent!SinkBalance
<1> QED
  BY <1>1, <1>2 DEF FeedOK
-----------------------------------------------------------------------------
\* What a datagram heard brings: an announce of a run, which leaves the records
\* where they were, or the batch due at its number.
LEMMA Heard ==
    ASSUME FeedOK, NEW d \in net
    PROVE  /\ d.datagram_seq \in Nat
           /\ d.type = "Announce" =>
                 /\ \E r \in Runs : d.announce.markets = Sessions[r].markets
                 /\ Sent!Top(d.datagram_seq + 1) = Sent!Top(d.datagram_seq)
           /\ d.type = "Data" =>
                 /\ d.records \in Seq(Records)
                 /\ Len(d.records) \in Nat /\ Len(d.records) <= kRecordsPerDatagram
                 /\ Sent!Top(d.datagram_seq) + Len(d.records) = Sent!Top(d.datagram_seq + 1)
                 /\ \A i \in 1..Len(d.records) : d.records[i].n = Sent!Top(d.datagram_seq) + i
<1>1. Sent!TypeOK /\ Sent!NetTypeOK /\ Sent!NetOrdered
  BY SourceIsIdle DEF FeedOK, Sent!TypeOK
<1>2. d.datagram_seq \in Nat /\ d.records \in Seq(Sent!Records)
  BY <1>1, SentConstants, Sent!DatagramFields
<1>3. CASE d.type = "Announce"
  <2>1. d \in Sent!Announces
    BY <1>1, <1>3 DEF Sent!NetTypeOK, Sent!Datagrams, Sent!DataDatagrams
  <2>2. PICK r \in Runs : d.announce = Sent!AnnounceRecord(r)
    BY <2>1 DEF Sent!Announces, Runs, Sent!Runs
  <2>3. d.announce.markets = Sessions[r].markets
    BY <2>2 DEF Sent!AnnounceRecord
  <2>4. Sent!AnnounceAt(d.datagram_seq)
    BY <1>1, <1>3 DEF Sent!NetOrdered
  <2>5. Sent!Before(d.datagram_seq + 1) = Sent!Before(d.datagram_seq) + 0
    BY <1>2, <2>4, SentConstants, Sent!BeforeStep
  <2>6. Sent!Before(d.datagram_seq) \in Nat
    BY <1>2, SentConstants, Sent!BeforeStep
  <2>7. Sent!Top(d.datagram_seq + 1) = Sent!Top(d.datagram_seq)
    BY <2>5, <2>6 DEF Sent!Top
  <2> QED
    BY <1>2, <1>3, <2>3, <2>7
<1>4. CASE d.type = "Data"
  <2>1. /\ Len(d.records) \in Nat \ {0} /\ Len(d.records) <= kRecordsPerDatagram
        /\ Sent!Top(d.datagram_seq) + Len(d.records) = Sent!Top(d.datagram_seq + 1)
        /\ \A i \in 1..Len(d.records) : d.records[i].n = Sent!Top(d.datagram_seq) + i
    BY <1>1, <1>4, SentConstants, Sent!BatchInFlight
  <2>2. Sent!Records = Records
    BY DEF Sent!Records, Records, Sent!Runs, Runs
  <2> QED
    BY <1>2, <1>4, <2>1, <2>2
<1> QED
  BY <1>2, <1>3, <1>4

\* The run as far as the numbers below one bring it.
LEMMA TopRises ==
    /\ \A s \in Nat : Sent!Top(s) \in Nat
    /\ \A s, t \in Nat : s <= t => Sent!Top(s) <= Sent!Top(t)
BY SentConstants, Sent!TopFacts

\* The tool's counters, and what they say of what it captured.
ListenerOK ==
    /\ ln_state \in {"listening", "closing", "closed", "dead"}
    /\ datagrams \in Nat /\ expected_seq \in Nat /\ gaps \in Nat /\ reordered \in Nat
    /\ malformed \in 0..MaxMalformed
    /\ datagrams + gaps = expected_seq + reordered
    /\ ann \in {NoAnnounce} \union {[markets |-> Sessions[r].markets] : r \in Runs}

CapturedOK ==
    /\ captured \in Seq(Records) /\ Len(captured) <= datagrams * kRecordsPerDatagram
    /\ \A i \in 1..Len(captured) : captured[i].n <= Sent!Top(expected_seq)
    /\ reordered = 0 =>
          \A i, j \in 1..Len(captured) : i < j => captured[i].n < captured[j].n
    /\ reordered = 0 /\ gaps = 0 =>
          /\ Len(captured) = Sent!Top(expected_seq)
          /\ \A i \in 1..Len(captured) : captured[i].n = i

\* The file is a beginning of the capture, and has a header once it is closed.
Held(k) == SubSeq(captured, 1, k)
FileOK ==
    \/ ln_state \in {"listening", "closing"} /\ file = EmptyCapture
    \/ /\ ln_state = "dead"
       /\ \E k \in 0..Len(captured) : file = [count |-> 0, markets |-> 0, records |-> Held(k)]
    \/ /\ ln_state = "closed"
       /\ \E k \in 0..Len(captured) :
             file = [count |-> Len(captured), markets |-> CaptureMarkets, records |-> Held(k)]

LEMMA ListenerStart == Init => ListenerOK /\ CapturedOK /\ FileOK
<1> SUFFICES ASSUME Init
             PROVE  ListenerOK /\ CapturedOK /\ FileOK
  OBVIOUS
<1>1. /\ ln_state = "listening" /\ ann = NoAnnounce /\ captured = <<>> /\ file = EmptyCapture
      /\ datagrams = 0 /\ expected_seq = 0 /\ gaps = 0 /\ reordered = 0 /\ malformed = 0
  BY DEF Init, ListenerInit
<1>2. <<>> \in Seq(Records) /\ Len(<<>>) = 0 /\ kRecordsPerDatagram \in Nat
      /\ RunLength \in Nat /\ MaxMalformed \in Nat
  BY FramingConstants
<1>3. 0 * kRecordsPerDatagram = 0
  BY <1>2
<1>4. Sent!Top(0) = 0
  BY <1>2 DEF Sent!Top, Sent!Least, Sent!Before, Sent!DataBefore
<1>5. ListenerOK
  BY <1>1, <1>2 DEF ListenerOK
<1>6. CapturedOK
  BY <1>1, <1>2, <1>3, <1>4 DEF CapturedOK
<1> QED
  BY <1>1, <1>5, <1>6 DEF FileOK

\* The counters after a number.
LEMMA CountKeeps ==
    ASSUME ListenerOK, NEW seq \in Nat, Count(seq), datagrams' = datagrams + 1
    PROVE  /\ datagrams' \in Nat /\ expected_seq' \in Nat /\ gaps' \in Nat /\ reordered' \in Nat
           /\ datagrams' + gaps' = expected_seq' + reordered'
           /\ expected_seq <= expected_seq' /\ seq + 1 <= expected_seq'
           /\ reordered' = 0 => reordered = 0 /\ expected_seq <= seq /\ expected_seq' = seq + 1
           /\ gaps' = 0 => gaps = 0 /\ seq <= expected_seq
<1>1. /\ datagrams \in Nat /\ expected_seq \in Nat /\ gaps \in Nat /\ reordered \in Nat
      /\ datagrams + gaps = expected_seq + reordered
  BY DEF ListenerOK
<1>2. CASE seq > expected_seq
  <2>1. gaps' = gaps + (seq - expected_seq) /\ reordered' = reordered /\ expected_seq' = seq + 1
    BY <1>1, <1>2 DEF Count
  <2> QED
    BY <1>1, <1>2, <2>1
<1>3. CASE seq = expected_seq
  <2>1. gaps' = gaps /\ reordered' = reordered /\ expected_seq' = seq + 1
    BY <1>1, <1>3 DEF Count
  <2> QED
    BY <1>1, <1>3, <2>1
<1>4. CASE seq < expected_seq
  <2>1. gaps' = gaps /\ reordered' = reordered + 1 /\ expected_seq' = expected_seq
    BY <1>1, <1>4 DEF Count
  <2> QED
    BY <1>1, <1>4, <2>1
<1> QED
  BY <1>1, <1>2, <1>3, <1>4

LEMMA AnnounceKeeps ==
    ASSUME FeedOK, ListenerOK, CapturedOK, NEW d \in net, HearAnnounce(d)
    PROVE  ListenerOK' /\ CapturedOK'
<1> DEFINE seq == d.datagram_seq
<1>1. /\ ln_state' = ln_state /\ malformed' = malformed /\ captured' = captured
      /\ ann' = [markets |-> d.announce.markets] /\ datagrams' = datagrams + 1
      /\ d.type = "Announce" /\ Count(seq)
  BY DEF HearAnnounce
<1>2. seq \in Nat /\ Sent!Top(seq + 1) = Sent!Top(seq)
  BY <1>1, Heard
<1> HIDE DEF seq
<1>3. /\ datagrams' \in Nat /\ expected_seq' \in Nat /\ gaps' \in Nat /\ reordered' \in Nat
      /\ datagrams' + gaps' = expected_seq' + reordered'
      /\ expected_seq <= expected_seq'
      /\ reordered' = 0 => reordered = 0 /\ expected_seq <= seq /\ expected_seq' = seq + 1
      /\ gaps' = 0 => gaps = 0 /\ seq <= expected_seq
  BY <1>1, <1>2, CountKeeps
<1>4. ListenerOK'
  <2>1. \E r \in Runs : d.announce.markets = Sessions[r].markets
    BY <1>1, Heard
  <2>2. ann' \in {NoAnnounce} \union {[markets |-> Sessions[r].markets] : r \in Runs}
    BY <1>1, <2>1
  <2> QED
    BY <1>1, <1>3, <2>2 DEF ListenerOK
<1>5. /\ captured \in Seq(Records) /\ Len(captured) \in Nat /\ kRecordsPerDatagram \in Nat
      /\ datagrams \in Nat /\ expected_seq \in Nat
      /\ \A i \in 1..Len(captured) : captured[i].n \in Int
  <2>1. \A i \in 1..Len(captured) : captured[i] \in Records
    BY ElementOfSeq DEF CapturedOK
  <2> QED
    BY <2>1, FramingConstants DEF CapturedOK, ListenerOK, Records
<1>6. Len(captured) <= datagrams' * kRecordsPerDatagram
  <2>1. (datagrams + 1) * kRecordsPerDatagram = datagrams * kRecordsPerDatagram + kRecordsPerDatagram
    BY <1>5
  <2>2. datagrams * kRecordsPerDatagram \in Nat
    BY <1>5
  <2> QED
    BY <1>1, <1>5, <2>1, <2>2 DEF CapturedOK
<1>7. Sent!Top(expected_seq) <= Sent!Top(expected_seq')
  BY <1>3, <1>5, TopRises
<1>8. Sent!Top(expected_seq) \in Nat /\ Sent!Top(expected_seq') \in Nat
  BY <1>3, <1>5, TopRises
<1>9. reordered' = 0 /\ gaps' = 0 => Sent!Top(expected_seq') = Sent!Top(expected_seq)
  <2> SUFFICES ASSUME reordered' = 0, gaps' = 0
               PROVE  Sent!Top(expected_seq') = Sent!Top(expected_seq)
    OBVIOUS
  <2>1. seq = expected_seq /\ expected_seq' = seq + 1
    BY <1>2, <1>3, <1>5
  <2> QED
    BY <1>2, <2>1
<1>10. \A i \in 1..Len(captured) : captured[i].n <= Sent!Top(expected_seq')
  BY <1>5, <1>7, <1>8 DEF CapturedOK
<1>11. CapturedOK'
  BY <1>1, <1>3, <1>5, <1>6, <1>9, <1>10 DEF CapturedOK
<1> QED
  BY <1>4, <1>11

LEMMA DataKeeps ==
    ASSUME FeedOK, ListenerOK, CapturedOK, NEW d \in net, HearData(d)
    PROVE  ListenerOK' /\ CapturedOK'
<1> DEFINE seq == d.datagram_seq
           C == captured
           R == d.records
           D == captured'
<1>1. /\ ln_state' = ln_state /\ malformed' = malformed /\ ann' = ann
      /\ D = C \o R /\ datagrams' = datagrams + 1
      /\ d.type = "Data" /\ Count(seq)
  BY DEF HearData
<1>2. /\ seq \in Nat /\ R \in Seq(Records) /\ Len(R) \in Nat /\ Len(R) <= kRecordsPerDatagram
      /\ Sent!Top(seq) + Len(R) = Sent!Top(seq + 1)
      /\ \A i \in 1..Len(R) : R[i].n = Sent!Top(seq) + i
  BY <1>1, Heard
<1>3. /\ C \in Seq(Records) /\ Len(C) \in Nat /\ kRecordsPerDatagram \in Nat
      /\ datagrams \in Nat /\ expected_seq \in Nat
      /\ \A i \in 1..Len(C) : C[i].n \in Int
  <2>1. \A i \in 1..Len(C) : C[i] \in Records
    BY ElementOfSeq DEF CapturedOK
  <2> QED
    BY <2>1, FramingConstants DEF CapturedOK, ListenerOK, Records
<1>4. /\ D \in Seq(Records) /\ Len(D) = Len(C) + Len(R)
      /\ \A i \in 1..Len(C) + Len(R) : D[i] = IF i <= Len(C) THEN C[i] ELSE R[i - Len(C)]
  BY <1>1, <1>2, <1>3, ConcatProperties
<1>5. /\ Len(C) <= datagrams * kRecordsPerDatagram
      /\ \A i \in 1..Len(C) : C[i].n <= Sent!Top(expected_seq)
      /\ reordered = 0 => \A i, j \in 1..Len(C) : i < j => C[i].n < C[j].n
      /\ reordered = 0 /\ gaps = 0 =>
            Len(C) = Sent!Top(expected_seq) /\ \A i \in 1..Len(C) : C[i].n = i
  BY DEF CapturedOK
<1> HIDE DEF seq, C, R
<1>6. /\ datagrams' \in Nat /\ expected_seq' \in Nat /\ gaps' \in Nat /\ reordered' \in Nat
      /\ datagrams' + gaps' = expected_seq' + reordered'
      /\ expected_seq <= expected_seq' /\ seq + 1 <= expected_seq'
      /\ reordered' = 0 => reordered = 0 /\ expected_seq <= seq /\ expected_seq' = seq + 1
      /\ gaps' = 0 => gaps = 0 /\ seq <= expected_seq
  BY <1>1, <1>2, CountKeeps
<1>7. ListenerOK'
  BY <1>1, <1>6 DEF ListenerOK
<1>8. /\ Sent!Top(seq) \in Nat /\ Sent!Top(seq + 1) \in Nat /\ Sent!Top(expected_seq) \in Nat
      /\ Sent!Top(expected_seq') \in Nat
      /\ Sent!Top(expected_seq) <= Sent!Top(expected_seq')
      /\ Sent!Top(seq + 1) <= Sent!Top(expected_seq')
      /\ expected_seq <= seq => Sent!Top(expected_seq) <= Sent!Top(seq)
  <2>1. seq + 1 \in Nat
    BY <1>2
  <2> QED
    BY <1>2, <1>3, <1>6, <2>1, TopRises
<1>9. \A i \in 1..Len(D) : \/ i \in 1..Len(C) /\ D[i].n = C[i].n
                           \/ /\ i > Len(C) /\ i - Len(C) \in 1..Len(R)
                              /\ D[i].n = Sent!Top(seq) + (i - Len(C))
  <2> SUFFICES ASSUME NEW i \in 1..Len(D), ~(i <= Len(C))
               PROVE  i - Len(C) \in 1..Len(R) /\ D[i].n = Sent!Top(seq) + (i - Len(C))
    BY <1>3, <1>4
  <2>1. i - Len(C) \in 1..Len(R) /\ D[i] = R[i - Len(C)]
    BY <1>2, <1>3, <1>4
  <2> QED
    BY <1>2, <2>1
<1>10. Len(D) <= datagrams' * kRecordsPerDatagram
  <2>1. (datagrams + 1) * kRecordsPerDatagram = datagrams * kRecordsPerDatagram + kRecordsPerDatagram
    BY <1>3
  <2>2. datagrams * kRecordsPerDatagram \in Nat
    BY <1>3
  <2> QED
    BY <1>1, <1>2, <1>3, <1>4, <1>5, <2>1, <2>2
<1>11. \A i \in 1..Len(D) : D[i].n <= Sent!Top(expected_seq')
  <2> SUFFICES ASSUME NEW i \in 1..Len(D)
               PROVE  D[i].n <= Sent!Top(expected_seq')
    OBVIOUS
  <2>1. CASE i \in 1..Len(C) /\ D[i].n = C[i].n
    BY <1>3, <1>5, <1>8, <2>1
  <2>2. CASE i - Len(C) \in 1..Len(R) /\ D[i].n = Sent!Top(seq) + (i - Len(C))
    BY <1>2, <1>3, <1>8, <2>2, SMTT(20)
  <2> QED
    BY <1>9, <2>1, <2>2
<1>12. ASSUME reordered' = 0, NEW i \in 1..Len(D), NEW j \in 1..Len(D), i < j
       PROVE  D[i].n < D[j].n
  <2>1. /\ \A p, q \in 1..Len(C) : p < q => C[p].n < C[q].n
        /\ Sent!Top(expected_seq) <= Sent!Top(seq)
    BY <1>5, <1>6, <1>8, <1>12
  <2>2. CASE j \in 1..Len(C) /\ D[j].n = C[j].n
    <3>1. i \in 1..Len(C) /\ D[i].n = C[i].n
      BY <1>3, <1>9, <1>12, <2>2
    <3> QED
      BY <1>12, <2>1, <2>2, <3>1
  <2>3. CASE /\ j > Len(C) /\ j - Len(C) \in 1..Len(R)
             /\ D[j].n = Sent!Top(seq) + (j - Len(C))
    <3>1. CASE i \in 1..Len(C) /\ D[i].n = C[i].n
      <4>1. C[i].n <= Sent!Top(expected_seq) /\ C[i].n \in Int
        BY <1>3, <1>5, <3>1
      <4> QED
        BY <1>3, <1>8, <2>1, <2>3, <3>1, <4>1
    <3>2. CASE /\ i > Len(C) /\ D[i].n = Sent!Top(seq) + (i - Len(C))
      BY <1>3, <1>8, <1>12, <2>3, <3>2
    <3> QED
      BY <1>9, <3>1, <3>2
  <2> QED
    BY <1>9, <2>2, <2>3
<1>13. ASSUME reordered' = 0, gaps' = 0
       PROVE  Len(D) = Sent!Top(expected_seq') /\ \A i \in 1..Len(D) : D[i].n = i
  <2>1. seq = expected_seq /\ expected_seq' = seq + 1
    BY <1>2, <1>3, <1>6, <1>13
  <2>2. Len(C) = Sent!Top(seq) /\ \A i \in 1..Len(C) : C[i].n = i
    BY <1>5, <1>6, <1>13, <2>1
  <2>3. Len(D) = Sent!Top(expected_seq')
    BY <1>2, <1>4, <2>1, <2>2
  <2>4. ASSUME NEW i \in 1..Len(D)
        PROVE  D[i].n = i
    BY <1>3, <1>8, <1>9, <2>2
  <2> QED
    BY <2>3, <2>4
<1> HIDE DEF D
<1>14. /\ \A i, j \in 1..Len(D) : reordered' = 0 /\ i < j => D[i].n < D[j].n
       /\ reordered' = 0 /\ gaps' = 0 =>
             Len(D) = Sent!Top(expected_seq') /\ \A i \in 1..Len(D) : D[i].n = i
  BY <1>12, <1>13
<1>15. CapturedOK'
  BY <1>4, <1>10, <1>11, <1>14 DEF CapturedOK, D
<1> QED
  BY <1>7, <1>15

\* A step that leaves the counters and the records alone.
LEMMA UnheardKeeps ==
    ASSUME ListenerOK, CapturedOK,
           UNCHANGED <<datagrams, expected_seq, gaps, reordered, ann, captured>>,
           malformed' \in 0..MaxMalformed,
           ln_state' \in {"listening", "closing", "closed", "dead"}
    PROVE  ListenerOK' /\ CapturedOK'
BY DEF ListenerOK, CapturedOK

LEMMA StepKeeps ==
    ASSUME FeedOK, ListenerOK, CapturedOK, FileOK, [Next]_vars
    PROVE  FeedOK' /\ ListenerOK' /\ CapturedOK' /\ FileOK'
<1>0. /\ duplicates \in Nat /\ malformed \in 0..MaxMalformed
      /\ ln_state \in {"listening", "closing", "closed", "dead"}
  BY DEF FeedOK, Sent!NetTypeOK, ListenerOK
<1>1. CASE SinkStep
  <2>1. UNCHANGED lnVars
    BY <1>1 DEF SinkStep
  <2>2. FeedOK'
    BY <1>1, FeedSinkStep DEF SinkStep
  <2>3. ListenerOK' /\ CapturedOK'
    BY <1>0, <2>1, UnheardKeeps DEF lnVars, counterVars
  <2>4. FileOK'
    BY <2>1 DEF FileOK, lnVars, Held, CaptureMarkets
  <2> QED
    BY <2>2, <2>3, <2>4
<1>2. ASSUME NEW d \in net, HearAnnounce(d) \/ HearData(d), UNCHANGED sinkVars
      PROVE  FeedOK' /\ ListenerOK' /\ CapturedOK' /\ FileOK'
  <2>1. /\ Receive(d) /\ ln_state = "listening" /\ ln_state' = "listening" /\ file' = file
    BY <1>2 DEF HearAnnounce, HearData
  <2>2. net' \subseteq net /\ duplicates' \in Nat
    BY <1>0, <2>1 DEF Receive
  <2>3. FeedOK'
    BY <1>2, <2>2, FeedTaken
  <2>4. ListenerOK' /\ CapturedOK'
    BY <1>2, AnnounceKeeps, DataKeeps
  <2>5. FileOK'
    BY <2>1 DEF FileOK
  <2> QED
    BY <2>3, <2>4, <2>5
<1>3. CASE (Silence \/ CloseCapture \/ MishapStep) /\ UNCHANGED sinkVars
  <2>1. /\ UNCHANGED <<net, duplicates, datagrams, expected_seq, gaps, reordered, ann, captured>>
        /\ malformed' \in 0..MaxMalformed
    BY <1>0, <1>3, FramingConstants
       DEF MishapStep, Silence, CloseCapture, HearMalformed, RecvError, Abort, netVars, counterVars
  <2>2. FeedOK'
    BY <1>0, <1>3, <2>1, FeedTaken
  <2>3. ln_state' \in {"listening", "closing", "closed", "dead"}
    BY <1>0, <1>3 DEF MishapStep, Silence, CloseCapture, HearMalformed, RecvError, Abort
  <2>4. ListenerOK' /\ CapturedOK'
    BY <2>1, <2>3, UnheardKeeps
  <2>5. CaptureMarkets' = CaptureMarkets
    BY <2>1 DEF CaptureMarkets, MarketOf, Slots
  <2>6. FileOK'
    <3>1. CASE Silence \/ HearMalformed \/ RecvError
      <4>1. /\ ln_state = "listening" /\ ln_state' \in {"listening", "closing"} /\ file' = file
        BY <3>1 DEF Silence, HearMalformed, RecvError
      <4> QED
        BY <4>1 DEF FileOK
    <3>2. CASE CloseCapture
      BY <2>1, <2>5, <3>2 DEF CloseCapture, FileOK, Held
    <3>3. CASE Abort
      <4>1. file = EmptyCapture /\ ln_state' = "dead"
        BY <3>3 DEF Abort, FileOK
      <4>2. PICK k \in 0..Len(captured) :
               file' = [file EXCEPT !.records = SubSeq(captured, 1, k)]
        BY <3>3 DEF Abort
      <4>3. file' = [count |-> 0, markets |-> 0, records |-> SubSeq(captured, 1, k)]
        BY <4>1, <4>2 DEF EmptyCapture
      <4> QED
        BY <2>1, <4>1, <4>3 DEF FileOK, Held
    <3> QED
      BY <1>3, <3>1, <3>2, <3>3 DEF MishapStep
  <2> QED
    BY <2>2, <2>4, <2>6
<1>4. CASE UNCHANGED vars
  <2>1. UNCHANGED <<netVars, sinkVars, lnVars>>
    BY <1>4 DEF vars
  <2>2. FeedOK'
    BY <1>0, <2>1, FeedTaken DEF netVars
  <2>3. ListenerOK' /\ CapturedOK'
    BY <1>0, <2>1, UnheardKeeps DEF lnVars, counterVars
  <2>4. FileOK'
    BY <2>1 DEF FileOK, lnVars, Held, CaptureMarkets
  <2> QED
    BY <2>2, <2>3, <2>4
<1>5. \/ SinkStep \/ UNCHANGED vars
      \/ \E d \in net : (HearAnnounce(d) \/ HearData(d)) /\ UNCHANGED sinkVars
      \/ (Silence \/ CloseCapture \/ MishapStep) /\ UNCHANGED sinkVars
  BY DEF Next, ListenerStep, MishapStep, Hear
<1> QED
  BY <1>1, <1>2, <1>3, <1>4, <1>5

LEMMA CaptureHolds == FairSpec => [](FeedOK /\ ListenerOK /\ CapturedOK /\ FileOK)
<1>1. Init => FeedOK /\ ListenerOK /\ CapturedOK /\ FileOK
  BY FeedInit, ListenerStart
<1>2. (FeedOK /\ ListenerOK /\ CapturedOK /\ FileOK) /\ [Next]_vars
        => (FeedOK /\ ListenerOK /\ CapturedOK /\ FileOK)'
  BY StepKeeps
<1> QED
  BY <1>1, <1>2, PTL DEF FairSpec
-----------------------------------------------------------------------------
\* The file as it is read: nothing but a beginning of what was captured, and
\* with a count only all of it.
LEMMA FileRead ==
    ASSUME ListenerOK, CapturedOK, FileOK
    PROVE  /\ IsPrefix(file.records, captured)
           /\ file.count # 0 =>
                 ln_state = "closed" /\ file.count = Len(captured) /\ file.markets = CaptureMarkets
           /\ Verdict(file) \in {"ok", "fail"} => file.count # 0 /\ file.records = captured
<1>1. captured \in Seq(Records) /\ Len(captured) \in Nat
  BY DEF CapturedOK
<1>2. PICK k \in 0..Len(captured) : file.records = SubSeq(captured, 1, k)
  <2>1. CASE file = EmptyCapture
    <3>1. SubSeq(captured, 1, 0) = <<>> /\ 0 \in 0..Len(captured)
      BY <1>1, SubSeqEmpty
    <3> QED
      BY <2>1, <3>1 DEF EmptyCapture
  <2>2. CASE file # EmptyCapture
    BY <2>2 DEF FileOK, Held
  <2> QED
    BY <2>1, <2>2
<1>3. /\ Len(file.records) = k /\ file.records \in Seq(Records)
  <2>1. \A i \in 1..k : captured[i] \in Records
    BY <1>1, ElementOfSeq
  <2>2. Len(SubSeq(captured, 1, k)) = (IF 1 <= k THEN k - 1 + 1 ELSE 0)
        /\ SubSeq(captured, 1, k) \in Seq(Records)
    BY <1>1, <2>1, SubSeqProperties
  <2> QED
    BY <1>1, <1>2, <2>2
<1>4. IsPrefix(file.records, captured)
  <2>1. SubSeq(file.records, 1, Len(file.records)) = file.records
    BY <1>3, SubSeqFull
  <2> QED
    BY <1>1, <1>2, <1>3, <2>1 DEF IsPrefix
<1>5. file.count # 0 =>
         ln_state = "closed" /\ file.count = Len(captured) /\ file.markets = CaptureMarkets
  BY DEF FileOK, EmptyCapture
<1>6. ASSUME Verdict(file) \in {"ok", "fail"}
      PROVE  file.count # 0 /\ file.records = captured
  <2>1. file.count # 0 /\ ~(file.count > Len(file.records))
    BY <1>6 DEF Verdict
  <2>2. k = Len(captured)
    BY <1>1, <1>3, <1>5, <2>1
  <2> QED
    BY <1>1, <1>2, <2>1, <2>2, SubSeqFull
<1> QED
  BY <1>4, <1>5, <1>6

\* The counters agree with what has been captured, on any interleaving of loss,
\* repetition, delay and restarts, and only the closed file has a count.
THEOREM TypeCorrect == FairSpec => []TypeOK
<1>1. ASSUME ListenerOK, CapturedOK, FileOK
      PROVE  TypeOK
  BY <1>1, FileRead DEF ListenerOK, CapturedOK, TypeOK
<1> QED
  BY <1>1, CaptureHolds, PTL

\* A tool that reports no loss and no reordering has captured the session from
\* its first record on, and a file that verifies ends where a datagram did.
THEOREM CleanCaptureHolds == FairSpec => []CleanCaptureIsPrefix
<1>1. ASSUME FeedOK, ListenerOK, CapturedOK, FileOK
      PROVE  CleanCaptureIsPrefix
  <2> SUFFICES ASSUME gaps = 0, reordered = 0
               PROVE  /\ \A i \in DOMAIN captured : captured[i].n = i
                      /\ expected_seq = datagram_seq => Len(captured) + Len(buffer) = accepted
                      /\ Verdict(file) = "ok" =>
                            \/ Len(file.records) % kRecordsPerDatagram = 0
                            \/ Len(file.records) = RunLength
    BY DEF CleanCaptureIsPrefix
  <2>1. /\ Len(captured) = Sent!Top(expected_seq) /\ expected_seq \in Nat
        /\ \A i \in 1..Len(captured) : captured[i].n = i
        /\ DOMAIN captured = 1..Len(captured)
    BY <1>1 DEF CapturedOK, ListenerOK
  <2>2. ASSUME expected_seq = datagram_seq
        PROVE  Len(captured) + Len(buffer) = accepted
    BY <1>1, <2>1, <2>2 DEF FeedOK, Sent!SinkBalance
  <2>3. ASSUME Verdict(file) = "ok"
        PROVE  \/ Len(file.records) % kRecordsPerDatagram = 0
               \/ Len(file.records) = RunLength
    <3>1. file.records = captured
      BY <1>1, <2>3, FileRead
    <3>2. CASE ~(Sent!Before(expected_seq) < RunLength)
      BY <2>1, <3>1, <3>2 DEF Sent!Top, Sent!Least
    <3>3. CASE Sent!Before(expected_seq) < RunLength
      <4>1. Len(captured) = kRecordsPerDatagram * Sent!DataBefore(expected_seq)
        BY <2>1, <3>3 DEF Sent!Top, Sent!Least, Sent!Before
      <4>2. Sent!DataBefore(expected_seq) \in Nat /\ kRecordsPerDatagram \in Nat \ {0}
        BY <2>1, SentConstants, FramingConstants, Sent!BeforeStep
      <4>3. Len(captured) \in Nat
        BY <1>1 DEF CapturedOK
      <4>4. Len(captured) = kRecordsPerDatagram * Sent!DataBefore(expected_seq) + 0
        BY <4>1, <4>3
      <4>5. Len(captured) % kRecordsPerDatagram = 0
        BY <4>2, <4>3, <4>4, DivisionUnique
      <4> QED
        BY <3>1, <4>5
    <3> QED
      BY <3>2, <3>3
  <2> QED
    BY <2>1, <2>2, <2>3
<1> QED
  BY <1>1, CaptureHolds, PTL
-----------------------------------------------------------------------------
\* Where a record stands in its session.
LEMMA Fields ==
    ASSUME NEW r \in Records
    PROVE  /\ Runs # {} /\ r.n \in 1..RunLength
           /\ Sessions[1].markets \in Nat \ {0} /\ Sessions[1].books \in Nat \ {0}
           /\ Slots \in Nat \ {0}
           /\ MarketOf(r) \in 0..(Sessions[1].markets - 1) /\ TickOf(r) \in Nat
<1> DEFINE markets == Sessions[1].markets
           books == Sessions[1].books
           x == (r.n - 1) % Slots
<1>1. Runs # {} /\ r.n \in 1..RunLength
  BY DEF Records
<1>2. 1 \in 1..Len(Sessions)
  BY <1>1, FramingConstants DEF Runs
<1>3. Sessions[1] \in [seed : Nat, markets : Nat \ {0}, books : Nat \ {0}]
  <2>1. Sessions \in Seq([seed : Nat, markets : Nat \ {0}, books : Nat \ {0}])
    BY FramingConstants
  <2> QED
    BY <1>2, <2>1, ElementOfSeq
<1>4. markets \in Nat \ {0} /\ books \in Nat \ {0}
  BY <1>3
<1>5. Slots = markets * books
  BY DEF Slots
<1>6. r.n - 1 \in Nat
  BY <1>1, FramingConstants
<1> HIDE DEF markets, books
<1>7. Slots \in Nat \ {0} /\ Slots = books * markets
  <2>1. books * 1 <= books * markets
    BY <1>4, ProductMonotone
  <2>2. books * markets = markets * books /\ books * markets \in Nat
    BY <1>4
  <2> QED
    BY <1>4, <1>5, <2>1, <2>2
<1>8. x \in 0..(Slots - 1) /\ (r.n - 1) \div Slots \in Nat
  BY <1>6, <1>7, DivisionFacts
<1> HIDE DEF x
<1>9. x \in Nat /\ ~(Slots <= x)
  BY <1>7, <1>8
<1>10. x \div books \in Nat /\ (markets <= x \div books <=> books * markets <= x)
  <2>1. \A d \in Nat \ {0} : \A y \in Nat : y \div d \in Nat
    BY DivisionFacts
  <2>2. \A d \in Nat \ {0} : \A y, t \in Int : t <= y \div d <=> d * t <= y
    BY QuotientAtLeast
  <2>3. x \in Int /\ markets \in Int
    BY <1>4, <1>9
  <2>4. x \div books \in Nat
    BY <1>4, <1>9, <2>1
  <2>5. markets <= x \div books <=> books * markets <= x
    BY <1>4, <2>2, <2>3
  <2> QED
    BY <2>4, <2>5
<1>11. x \div books \in 0..(markets - 1)
  BY <1>4, <1>7, <1>9, <1>10
<1> QED
  BY <1>1, <1>4, <1>7, <1>8, <1>11 DEF markets, books, x, MarketOf, TickOf

LEMMA TicksRise ==
    ASSUME NEW r \in Records, NEW s \in Records, r.n < s.n
    PROVE  TickOf(r) <= TickOf(s)
<1> DEFINE t == TickOf(r)
<1>1. /\ r.n - 1 \in Nat /\ s.n - 1 \in Nat /\ r.n - 1 <= s.n - 1
      /\ Slots \in Nat \ {0} /\ t \in Nat
  BY Fields, FramingConstants, SMTT(20)
<1>2. t = (r.n - 1) \div Slots
  BY DEF TickOf
<1> HIDE DEF t
<1>3. t <= t
  BY <1>1
<1>4. Slots * t <= r.n - 1
  BY <1>1, <1>2, <1>3, QuotientAtLeast
<1>5. Slots * t \in Int
  BY <1>1
<1>6. Slots * t <= s.n - 1
  BY <1>1, <1>4, <1>5
<1>7. t <= (s.n - 1) \div Slots
  BY <1>1, <1>6, QuotientAtLeast
<1> QED
  BY <1>7 DEF t, TickOf

\* The header's number of markets is above that of each record captured.
LEMMA HeaderCovers ==
    ASSUME ListenerOK, CapturedOK, NEW i \in 1..Len(captured)
    PROVE  MarketOf(captured[i]) < CaptureMarkets
<1>1. \A j \in 1..Len(captured) : captured[j] \in Records
  BY ElementOfSeq DEF CapturedOK
<1>2. /\ Sessions[1].markets \in Nat \ {0}
      /\ \A j \in 1..Len(captured) : MarketOf(captured[j]) \in 0..(Sessions[1].markets - 1)
  BY <1>1, Fields
<1>3. CASE ann = NoAnnounce
  <2> DEFINE S == {0} \union {MarketOf(r) : r \in ToSet(captured)}
             b == Sessions[1].markets - 1
  <2>1. ToSet(captured) = {captured[j] : j \in 1..Len(captured)}
    BY DEF CapturedOK, ToSet
  <2>2. MarketOf(captured[i]) \in S
    BY <2>1
  <2>3. S # {} /\ b \in Int /\ \A x \in S : x \in Int /\ x <= b
    <3>1. b \in Nat
      BY <1>2
    <3>2. \A r \in ToSet(captured) : MarketOf(r) \in 0..b
      BY <1>2, <2>1
    <3> QED
      BY <3>1, <3>2
  <2>4. CaptureMarkets = 1 + Max(S)
    BY <1>3 DEF CaptureMarkets
  <2> HIDE DEF S, b
  <2>5. \E t \in S : \A x \in S : t >= x
    BY <2>3, GreatestOf
  <2>6. Max(S) \in S /\ \A x \in S : Max(S) >= x
    BY <2>5 DEF Max
  <2>7. Max(S) \in Int /\ Max(S) >= MarketOf(captured[i]) /\ MarketOf(captured[i]) \in Int
    BY <2>2, <2>3, <2>6
  <2> QED
    BY <2>4, <2>7
<1>4. CASE ann # NoAnnounce
  <2>1. PICK r \in Runs : ann = [markets |-> Sessions[r].markets]
    BY <1>4 DEF ListenerOK
  <2>2. CaptureMarkets = Sessions[1].markets
    BY <1>4, <2>1, RestartsRepeat DEF CaptureMarkets
  <2> QED
    BY <1>2, <2>2
<1> QED
  BY <1>3, <1>4

\* A capture that verify_session reads to its end holds everything that was
\* received, and it finds fault with one only when the tool counted reordering.
THEOREM VerdictHolds == FairSpec => []VerdictIsSound
<1>1. ASSUME ListenerOK, CapturedOK, FileOK
      PROVE  VerdictIsSound
  <2> SUFFICES ASSUME Verdict(file) \in {"ok", "fail"}
               PROVE  file.records = captured /\ (Verdict(file) = "fail" => reordered > 0)
    BY DEF VerdictIsSound
  <2>1. file.records = captured /\ file.count # 0
    BY <1>1, FileRead
  <2>2. file.markets = CaptureMarkets
    BY <1>1, <2>1, FileRead
  <2>3. ASSUME reordered = 0
        PROVE  Orderly(file)
    <3>1. /\ DOMAIN captured = 1..Len(captured)
          /\ \A i \in 1..Len(captured) : captured[i] \in Records
      BY <1>1, ElementOfSeq DEF CapturedOK
    <3>2. \A i, j \in 1..Len(captured) : i < j => captured[i].n < captured[j].n
      BY <1>1, <2>3 DEF CapturedOK
    <3>3. \A i, j \in 1..Len(captured) : i < j => TickOf(captured[i]) <= TickOf(captured[j])
      BY <3>1, <3>2, TicksRise
    <3>4. \A i \in 1..Len(captured) : MarketOf(captured[i]) < file.markets
      BY <1>1, <2>2, HeaderCovers
    <3> QED
      BY <2>1, <3>1, <3>2, <3>3, <3>4 DEF Orderly
  <2>4. reordered \in Nat /\ (Verdict(file) = "fail" => ~Orderly(file))
    BY <1>1 DEF ListenerOK, Verdict
  <2> QED
    BY <2>1, <2>3, <2>4
<1> QED
  BY <1>1, CaptureHolds, PTL
=============================================================================
