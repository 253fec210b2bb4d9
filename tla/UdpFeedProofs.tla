----------------------------- MODULE UdpFeedProofs -----------------------------
(***************************************************************************)
(* What the live feed guarantees for every number of runs, batch size,     *)
(* announce interval and bound on the network's misbehaviour: what its     *)
(* counters say, that batches reach the engine whole, as they were formed, *)
(* and by the counters' leave in order and without gaps.                   *)
(***************************************************************************)
EXTENDS UdpFeed, BasicFacts, FiniteSetTheorems

\* What a run publishes is a record of the feed.
LEMMA RecordType ==
    ASSUME NEW r \in Runs, NEW n \in 1..RunLength
    PROVE  Record(r, n) \in Records
BY DEF Record, Records

\* An announce of a run is a datagram of the feed.
LEMMA AnnounceType ==
    ASSUME NEW r \in Runs, NEW seq \in Nat
    PROVE  Announce(r, seq) \in Datagrams
BY DEF Announce, Announces, Datagrams

\* A batch of records makes a datagram of the feed.
LEMMA DataType ==
    ASSUME NEW r \in Runs, NEW seq \in Nat, NEW records \in Seq(Records)
    PROVE  Data(r, seq, records) \in Datagrams
BY DEF Data, DataDatagrams, Datagrams

\* flush() sends one or two datagrams of the feed.
LEMMA PacketsOfType ==
    ASSUME SinkTypeOK, sink_open, NEW batch \in Seq(Records)
    PROVE  /\ PacketsOf(batch) \in Seq(Datagrams)
           /\ Len(PacketsOf(batch)) \in {1, 2}
<1>1. run \in Runs /\ datagram_seq \in Nat
  BY DEF SinkTypeOK
<1>2. /\ Announce(run, datagram_seq) \in Datagrams
      /\ Data(run, datagram_seq + 1, batch) \in Datagrams
      /\ Data(run, datagram_seq, batch) \in Datagrams
  BY <1>1, AnnounceType, DataType
<1> QED
  BY <1>2 DEF PacketsOf

\* The packets of one flush are finitely many.
LEMMA PairIsFinite ==
    ASSUME NEW x, NEW y
    PROVE  IsFiniteSet({x, y})
<1>1. IsFiniteSet({x}) /\ IsFiniteSet({y})
  BY FS_Singleton, Zenon
<1>2. {x, y} = {x} \union {y}
  OBVIOUS
<1> QED
  BY <1>1, <1>2, FS_Union, Zenon

\* send() of one or two packets adds only datagrams of the feed to the network.
LEMMA SendPacketsType ==
    ASSUME NetTypeOK, send_errors \in Nat,
           NEW packets \in Seq(Datagrams), Len(packets) \in {1, 2},
           SendPackets(packets)
    PROVE  NetTypeOK' /\ send_errors' \in Nat
<1> DEFINE all == {packets[i] : i \in DOMAIN packets}
<1>1. PICK failed \in SUBSET all :
         /\ send_errors' = send_errors + Cardinality(failed)
         /\ net' = net \union (all \ failed)
         /\ UNCHANGED duplicates
  BY DEF SendPackets
<1>2. all \subseteq Datagrams
  OBVIOUS
<1>3. IsFiniteSet(all)
  <2>1. all \subseteq {packets[1], packets[2]}
    OBVIOUS
  <2> QED
    BY <2>1, PairIsFinite, FS_Subset, Zenon
<1>4. Cardinality(failed) \in Nat
  BY <1>1, <1>3, FS_Subset, FS_CardinalityType
<1> QED
  BY <1>1, <1>2, <1>4 DEF NetTypeOK

\* flush() keeps the types of everything it touches.
LEMMA FlushType ==
    ASSUME NetTypeOK, SinkTypeOK, sink_open, NEW batch \in Seq(Records), Flush(batch)
    PROVE  /\ NetTypeOK'
           /\ buffer' \in Seq(Records)
           /\ datagram_seq' \in Nat
           /\ since_announce' \in 0..kAnnounceInterval
           /\ send_errors' \in Nat
<1>1. PacketsOf(batch) \in Seq(Datagrams) /\ Len(PacketsOf(batch)) \in {1, 2}
  BY PacketsOfType
<1>2. NetTypeOK' /\ send_errors' \in Nat
  BY <1>1, SendPacketsType DEF Flush, SinkTypeOK
<1>3. datagram_seq' \in Nat /\ since_announce' \in 0..kAnnounceInterval
  BY <1>1, FramingConstants DEF Flush, SinkTypeOK, AnnounceDue
<1> QED
  BY <1>2, <1>3 DEF Flush

\* A step of the simulator keeps the sink and the network well typed.
LEMMA SinkStepType ==
    ASSUME NetTypeOK, SinkTypeOK, SinkNext
    PROVE  NetTypeOK' /\ SinkTypeOK'
<1>1. CASE Open
  <2>1. run + 1 \in Runs
    BY <1>1, FramingConstants DEF Open, SinkTypeOK, Runs
  <2>2. <<Announce(run + 1, 0)>> \in Seq(Datagrams)
    BY <2>1, AnnounceType
  <2>3. NetTypeOK' /\ send_errors' \in Nat
    BY <1>1, <2>2, SendPacketsType DEF Open, SinkTypeOK
  <2> QED
    BY <1>1, <2>1, <2>2, <2>3, FramingConstants DEF Open, SinkTypeOK, Runs
<1>2. CASE Accept
  <2> DEFINE batch == Append(buffer, Record(run, accepted + 1))
  <2>1. accepted + 1 \in 1..RunLength /\ run \in Runs /\ sink_open
    BY <1>2, FramingConstants DEF Accept, SinkTypeOK
  <2>2. batch \in Seq(Records)
    BY <2>1, RecordType DEF SinkTypeOK
  <2>3. CASE Len(batch) = kRecordsPerDatagram
    <3>1. Flush(batch)
      BY <1>2, <2>3 DEF Accept
    <3>2. /\ NetTypeOK'
          /\ buffer' \in Seq(Records)
          /\ datagram_seq' \in Nat
          /\ since_announce' \in 0..kAnnounceInterval
          /\ send_errors' \in Nat
      BY <2>1, <2>2, <3>1, FlushType
    <3> QED
      BY <1>2, <2>1, <3>2 DEF Accept, SinkTypeOK
  <2>4. CASE Len(batch) # kRecordsPerDatagram
    <3>1. /\ buffer' = batch
          /\ UNCHANGED <<datagram_seq, since_announce, send_errors, net, duplicates>>
      BY <1>2, <2>4 DEF Accept, netVars
    <3> QED
      BY <1>2, <2>1, <2>2, <3>1 DEF Accept, SinkTypeOK, NetTypeOK
  <2> QED
    BY <2>3, <2>4
<1>3. CASE Finish
  <2>1. CASE buffer = <<>>
    <3>1. UNCHANGED <<buffer, datagram_seq, since_announce, send_errors,
                      net, duplicates, run, accepted>> /\ sink_open' = FALSE
      BY <1>3, <2>1 DEF Finish, netVars
    <3> QED
      BY <3>1 DEF SinkTypeOK, NetTypeOK
  <2>2. CASE buffer # <<>>
    <3>1. Flush(buffer) /\ sink_open /\ UNCHANGED <<run, accepted>> /\ sink_open' = FALSE
      BY <1>3, <2>2 DEF Finish
    <3>2. /\ NetTypeOK'
          /\ buffer' \in Seq(Records)
          /\ datagram_seq' \in Nat
          /\ since_announce' \in 0..kAnnounceInterval
          /\ send_errors' \in Nat
      BY <3>1, FlushType DEF SinkTypeOK
    <3> QED
      BY <3>1, <3>2 DEF SinkTypeOK
  <2> QED
    BY <2>1, <2>2
<1>4. CASE Kill
  <2>1. /\ sink_open' = FALSE
        /\ UNCHANGED <<run, accepted, buffer, datagram_seq, since_announce, send_errors,
                       net, duplicates>>
    BY <1>4 DEF Kill, netVars
  <2> QED
    BY <2>1 DEF SinkTypeOK, NetTypeOK
<1> QED
  BY <1>1, <1>2, <1>3, <1>4 DEF SinkNext
-----------------------------------------------------------------------------
\* What recv() can bring, and how it is accounted for.
LEMMA DatagramFields ==
    ASSUME NetTypeOK, NEW d \in net
    PROVE  /\ d.datagram_seq \in Nat
           /\ d.records \in Seq(Records)
           /\ d.type = "Announce" =>
                 d.announce.seed \in Nat /\ d.announce.markets \in Nat /\ d.announce.books \in Nat
<1>1. CASE d \in Announces
  <2>0. d.announce \in {AnnounceRecord(r) : r \in Runs}
    BY <1>1 DEF Announces
  <2>1. PICK r \in Runs : d.announce = AnnounceRecord(r)
    BY <2>0
  <2>2. Sessions[r] \in [seed : Nat, markets : Nat \ {0}, books : Nat \ {0}]
    <3>1. Sessions \in Seq([seed : Nat, markets : Nat \ {0}, books : Nat \ {0}])
      BY FramingConstants
    <3>2. r \in 1..Len(Sessions)
      BY DEF Runs
    <3> QED
      BY <3>1, <3>2, ElementOfSeq
  <2>3. d.records = <<>> /\ d.datagram_seq \in Nat
    BY <1>1 DEF Announces
  <2> QED
    BY <2>1, <2>2, <2>3 DEF AnnounceRecord
<1>2. CASE d \in DataDatagrams
  BY <1>2 DEF DataDatagrams
<1>3. CASE d \in Strays
  <2>1. d \in [type : {"Announce"}, run : {0}, datagram_seq : Nat, records : {<<>>},
               announce : [seed : Nat, markets : Nat, books : Nat,
                           record_size : Nat \ {kOddsUpdateSize}]]
    BY <1>3, FramingConstants
  <2>2. d.announce \in [seed : Nat, markets : Nat, books : Nat,
                        record_size : Nat \ {kOddsUpdateSize}]
    BY <2>1
  <2>3. d.records = <<>> /\ d.datagram_seq \in Nat
    BY <2>1
  <2>4. <<>> \in Seq(Records)
    OBVIOUS
  <2> QED
    BY <2>2, <2>3, <2>4
<1> QED
  BY <1>1, <1>2, <1>3 DEF NetTypeOK, Datagrams

\* The expected number and the gap before a number are naturals.
LEMMA AccountingType ==
    ASSUME expected_seq \in Nat, NEW seq \in Nat
    PROVE  SeqAfter(seq) \in Nat /\ GapBefore(seq) \in Nat
BY DEF SeqAfter, GapBefore

\* A step of the engine's end keeps it and the network well typed.
LEMMA SourceStepType ==
    ASSUME NetTypeOK, SourceTypeOK, SourceNext
    PROVE  NetTypeOK' /\ SourceTypeOK'
<1>1. CASE Hand
  <2>1. cursor + 1 \in DOMAIN buf
    BY <1>1 DEF Hand, SourceTypeOK
  <2>2. buf[cursor + 1] \in Records
    BY <2>1 DEF SourceTypeOK
  <2> QED
    BY <1>1, <2>1, <2>2 DEF Hand, SourceTypeOK, NetTypeOK, netVars, counterVars
<1>2. ASSUME NEW d \in net,
             \/ AwaitData(d) \/ AwaitAnnounce(d) \/ AwaitBadAnnounce(d)
             \/ StreamData(d) \/ StreamAnnounce(d)
      PROVE  NetTypeOK' /\ SourceTypeOK'
  <2>1. /\ d.datagram_seq \in Nat
        /\ d.records \in Seq(Records)
        /\ d.type = "Announce" =>
              d.announce.seed \in Nat /\ d.announce.markets \in Nat /\ d.announce.books \in Nat
    BY DatagramFields
  <2>2. SeqAfter(d.datagram_seq) \in Nat /\ GapBefore(d.datagram_seq) \in Nat
    BY <2>1, AccountingType DEF SourceTypeOK
  <2>3. ReadDatagram(d)
    BY <1>2 DEF AwaitData, AwaitAnnounce, AwaitBadAnnounce, StreamData, StreamAnnounce
  <2>4. NetTypeOK'
    BY <2>3 DEF ReadDatagram, Receive, NetTypeOK
  <2>5. /\ buf' \in Seq(Records)
        /\ expected_seq' \in Nat
        /\ datagrams' \in Nat
    BY <2>1, <2>2, <2>3 DEF ReadDatagram, SourceTypeOK
  <2>6. CountLoss(d) => lost' \in Nat /\ reordered' \in Nat
    BY <2>2 DEF CountLoss, SourceTypeOK
  <2>7. CASE AwaitData(d)
    BY <2>4, <2>5, <2>6, <2>7 DEF AwaitData, SourceTypeOK, Drained, ReadDatagram
  <2>8. CASE AwaitAnnounce(d)
    BY <2>1, <2>2, <2>4, <2>5, <2>8, SMTT(30)
    DEF AwaitAnnounce, SourceTypeOK, ShapeOf
  <2>9. CASE AwaitBadAnnounce(d)
    BY <2>4, <2>5, <2>6, <2>9 DEF AwaitBadAnnounce, SourceTypeOK
  <2>10. CASE StreamData(d)
    <3>1. /\ lost' \in Nat /\ reordered' \in Nat
          /\ cursor' = 0
          /\ got' \subseteq Nat
      BY <2>1, <2>6, <2>10 DEF StreamData, SourceTypeOK
    <3>3. in_buffer' = Len(buf') /\ in_buffer' \in Nat
      BY <2>1, <2>3, <2>10 DEF StreamData, ReadDatagram
    <3>2. /\ src_state = "streaming"
          /\ UNCHANGED <<src_state, header, malformed, pre_announce, announces,
                         delivered, baseline, stray_heard>>
      BY <2>10 DEF StreamData, Drained
    <3> QED
      BY <2>4, <2>5, <3>1, <3>2, <3>3 DEF SourceTypeOK
  <2>11. CASE StreamAnnounce(d)
    <3>1. /\ lost' \in Nat /\ reordered' \in Nat
          /\ got' \subseteq Nat
          /\ cursor >= in_buffer
      BY <2>1, <2>6, <2>11 DEF StreamAnnounce, Drained, SourceTypeOK
    <3>7. stray_heard' \in BOOLEAN
      BY <2>11 DEF StreamAnnounce, Usable
    <3>2. /\ src_state' \in {"streaming", "failed"}
          /\ announces' \in Nat
      BY <2>11 DEF StreamAnnounce, Drained, SourceTypeOK
    <3>3. UNCHANGED <<header, in_buffer, cursor, malformed, pre_announce,
                      delivered, baseline>>
      BY <2>11 DEF StreamAnnounce
    <3>4. ~(cursor' < in_buffer')
      BY <3>1, <3>3 DEF SourceTypeOK
    <3>5. /\ cursor' \in 0..in_buffer' /\ in_buffer' \in Nat
          /\ UNCHANGED <<header, malformed, pre_announce, delivered, baseline>>
      BY <3>3 DEF SourceTypeOK
    <3>6. src_state' \in {"await", "streaming", "ended", "failed"}
      BY <3>2
    <3> QED
      BY <2>4, <2>5, <3>1, <3>2, <3>4, <3>5, <3>6, <3>7 DEF SourceTypeOK
  <2> QED
    BY <1>2, <2>7, <2>8, <2>9, <2>10, <2>11
<1>3. CASE ReceiveMalformed
  BY <1>3 DEF ReceiveMalformed, Receiving, Drained, SourceTypeOK, NetTypeOK, netVars, counterVars
<1>4. CASE GiveUp
  <2>1. ~(cursor < in_buffer)
    BY <1>4 DEF GiveUp, Receiving, Drained, SourceTypeOK
  <2>2. /\ src_state' \in {"failed", "ended"}
        /\ UNCHANGED <<net, duplicates, header, buf, in_buffer, cursor,
                       expected_seq, lost, reordered, datagrams, malformed,
                       pre_announce, announces, delivered, baseline, got, stray_heard>>
    BY <1>4 DEF GiveUp, StateAfterSilence, netVars, counterVars, bufferVars
  <2> QED
    BY <2>1, <2>2 DEF SourceTypeOK, NetTypeOK
<1> QED
  BY <1>1, <1>2, <1>3, <1>4 DEF SourceNext, ReceiveSome

\* Type correctness of the whole feed. What a reader of the code would doubt is
\* in SourceTypeOK: the receive buffer, overwritten by every recv(), still holds
\* the datagram it is being read from for as long as records of it are due.
THEOREM TypeCorrect == Spec => []TypeOK
<1>1. Init => TypeOK
  <2> SUFFICES ASSUME Init
               PROVE  TypeOK
    OBVIOUS
  <2>1. NetTypeOK
    BY DEF Init, NetTypeOK
  <2>2. SinkTypeOK
    <3>1. 0 \in 0..Len(Sessions) /\ 0 \in 0..RunLength /\ 0 \in 0..kAnnounceInterval
      BY FramingConstants
    <3>2. <<>> \in Seq(Records) /\ <<>> \in Seq(Datagrams)
      OBVIOUS
    <3> QED
      BY <3>1, <3>2 DEF Init, SinkInit, SinkTypeOK
  <2>3. SourceTypeOK
    <3>1. <<>> \in Seq(Records)
      OBVIOUS
    <3>2. NoHeader \in [seed : Nat, markets : Nat, books : Nat]
      BY DEF NoHeader
    <3>3. stray_heard \in BOOLEAN
      BY DEF Init, SourceInit
    <3> QED
      BY <3>1, <3>2, <3>3 DEF Init, SourceInit, SourceTypeOK
  <2> QED
    BY <2>1, <2>2, <2>3 DEF TypeOK
<1>2. TypeOK /\ [Next]_vars => TypeOK'
  <2> SUFFICES ASSUME TypeOK, [Next]_vars
               PROVE  TypeOK'
    OBVIOUS
  <2>1. CASE SinkStep
    <3>1. NetTypeOK' /\ SinkTypeOK'
      BY <2>1, SinkStepType DEF SinkStep, TypeOK
    <3>2. SourceTypeOK'
      BY <2>1 DEF SinkStep, srcVars, bufferVars, counterVars, TypeOK, SourceTypeOK
    <3> QED
      BY <3>1, <3>2 DEF TypeOK
  <2>2. CASE SourceStep
    <3>1. NetTypeOK' /\ SourceTypeOK'
      BY <2>2, SourceStepType DEF SourceStep, TypeOK
    <3>2. SinkTypeOK'
      BY <2>2 DEF SourceStep, sinkVars, TypeOK, SinkTypeOK
    <3> QED
      BY <3>1, <3>2 DEF TypeOK
  <2>3. CASE UNCHANGED vars
    <3>1. NetTypeOK'
      BY <2>3 DEF vars, netVars, TypeOK, NetTypeOK
    <3>2. SinkTypeOK'
      BY <2>3 DEF vars, sinkVars, TypeOK, SinkTypeOK
    <3>3. SourceTypeOK'
      BY <2>3 DEF vars, srcVars, bufferVars, counterVars, TypeOK, SourceTypeOK
    <3> QED
      BY <3>1, <3>2, <3>3 DEF TypeOK
  <2> QED
    BY <2>1, <2>2, <2>3 DEF Next
<1> QED
  BY <1>1, <1>2, PTL DEF Spec
-----------------------------------------------------------------------------
\* Steps that receive no datagram leave the accounting alone.
LEMMA QuietSteps ==
    ASSUME [Next]_vars
    PROVE  \/ UNCHANGED <<expected_seq, lost, reordered, datagrams, baseline, got,
                         announces>> /\ (src_state' = "await" => src_state = "await")
              /\ (src_state' = "streaming" => src_state = "streaming")
           \/ \E d \in net : \/ AwaitData(d) \/ AwaitAnnounce(d) \/ AwaitBadAnnounce(d)
                              \/ StreamData(d) \/ StreamAnnounce(d)
<1>1. CASE SinkStep
  BY <1>1 DEF SinkStep, srcVars, counterVars
<1>2. CASE Hand
  BY <1>2 DEF Hand, counterVars
<1>3. CASE ReceiveMalformed
  BY <1>3 DEF ReceiveMalformed, counterVars
<1>4. CASE GiveUp
  BY <1>4 DEF GiveUp, StateAfterSilence, counterVars
<1>5. CASE UNCHANGED vars
  BY <1>5 DEF vars, srcVars, counterVars
<1> QED
  BY <1>1, <1>2, <1>3, <1>4, <1>5 DEF Next, SourceStep, SourceNext, ReceiveSome

\* The counters of read_datagram() balance on any interleaving of loss, delay,
\* repetition and restarts, and across the baseline the first announce resets.
THEOREM SequenceBalanceHolds == Spec => []SequenceBalance
<1>1. Init => SequenceBalance
  BY DEF Init, SourceInit, SequenceBalance
<1>2. TypeOK /\ SequenceBalance /\ [Next]_vars => SequenceBalance'
  <2> SUFFICES ASSUME TypeOK, SequenceBalance, [Next]_vars
               PROVE  SequenceBalance'
    OBVIOUS
  <2>1. CASE UNCHANGED <<expected_seq, lost, reordered, datagrams, baseline, got, announces>>
    BY <2>1 DEF SequenceBalance
  <2>2. ASSUME NEW d \in net, ReadDatagram(d), CountLoss(d), UNCHANGED baseline
        PROVE  SequenceBalance'
    <3>1. d.datagram_seq \in Nat
      BY DatagramFields DEF TypeOK
    <3>2. /\ expected_seq' = SeqAfter(d.datagram_seq)
          /\ datagrams' = datagrams + 1
          /\ lost' = lost + GapBefore(d.datagram_seq)
          /\ reordered' = reordered + (IF d.datagram_seq < expected_seq THEN 1 ELSE 0)
      BY <2>2 DEF ReadDatagram, CountLoss
    <3>3. /\ expected_seq \in Nat /\ lost \in Nat /\ reordered \in Nat /\ datagrams \in Nat
          /\ baseline.seq \in Nat /\ baseline.datagrams \in Nat
      BY DEF TypeOK, SourceTypeOK
    <3>4. CASE d.datagram_seq > expected_seq
      <4>1. /\ expected_seq' = d.datagram_seq + 1
            /\ lost' = lost + (d.datagram_seq - expected_seq)
            /\ reordered' = reordered
        BY <3>1, <3>2, <3>3, <3>4 DEF SeqAfter, GapBefore
      <4> QED
        BY <2>2, <3>1, <3>2, <3>3, <4>1 DEF SequenceBalance
    <3>5. CASE d.datagram_seq = expected_seq
      <4>1. expected_seq' = expected_seq + 1 /\ lost' = lost /\ reordered' = reordered
        BY <3>1, <3>2, <3>3, <3>5 DEF SeqAfter, GapBefore
      <4> QED
        BY <2>2, <3>2, <3>3, <4>1 DEF SequenceBalance
    <3>6. CASE d.datagram_seq < expected_seq
      <4>1. expected_seq' = expected_seq /\ lost' = lost /\ reordered' = reordered + 1
        BY <3>1, <3>2, <3>3, <3>6 DEF SeqAfter, GapBefore
      <4> QED
        BY <2>2, <3>2, <3>3, <4>1 DEF SequenceBalance
    <3> QED
      BY <3>1, <3>3, <3>4, <3>5, <3>6
  <2>3. ASSUME NEW d \in net, AwaitAnnounce(d)
        PROVE  SequenceBalance'
    <3>1. d.datagram_seq \in Nat
      BY DatagramFields DEF TypeOK
    <3>2. /\ expected_seq' = SeqAfter(d.datagram_seq)
          /\ datagrams' = datagrams + 1
          /\ lost' = 0
          /\ reordered' = 0
          /\ baseline'.seq = SeqAfter(d.datagram_seq)
          /\ baseline'.datagrams = datagrams + 1
      BY <2>3 DEF AwaitAnnounce, ReadDatagram
    <3>3. SeqAfter(d.datagram_seq) \in Nat
      BY <3>1, AccountingType DEF TypeOK, SourceTypeOK
    <3> QED
      BY <3>2, <3>3, SMTT(30) DEF SequenceBalance, TypeOK, SourceTypeOK
  <2> QED
    BY <2>1, <2>2, <2>3, QuietSteps
       DEF AwaitData, AwaitBadAnnounce, StreamData, StreamAnnounce
<1> QED
  BY <1>1, <1>2, TypeCorrect, PTL DEF Spec
-----------------------------------------------------------------------------
\* What makes LossIsMeasurable inductive: numbers received since the baseline
\* are among those passed over, none before it, and the missing are finite.
Accounted ==
    /\ Started => src_state # "await"
    /\ src_state = "streaming" => Started
    /\ ~Started => got = {}
    /\ baseline.seq <= expected_seq
    /\ got \subseteq 0..(expected_seq - 1)

\* Numbers below a bound are below a later one.
LEMMA LongerInterval ==
    ASSUME NEW a \in Nat, NEW b \in Nat, a <= b
    PROVE  0..(a - 1) \subseteq 0..(b - 1)
OBVIOUS

\* One datagram received while streaming moves lost() and the missing numbers
\* together, and a late one only lets them part by what reordered() gains.
LEMMA OneMoreDatagram ==
    ASSUME SourceTypeOK, Accounted, LossIsMeasurable, Started,
           NEW seq \in Nat,
           expected_seq' = SeqAfter(seq),
           lost' = lost + GapBefore(seq),
           reordered' = reordered + (IF seq < expected_seq THEN 1 ELSE 0),
           got' = got \union {seq},
           baseline' = baseline
    PROVE  /\ Cardinality(Missing') <= lost'
           /\ lost' <= Cardinality(Missing') + reordered'
<1>1. /\ baseline.seq \in Nat /\ expected_seq \in Nat /\ lost \in Nat
      /\ reordered \in Nat /\ baseline.seq <= expected_seq
  BY DEF SourceTypeOK, Accounted
<1>2. IsFiniteSet(Missing) /\ Cardinality(Missing) \in Nat
  <2>1. IsFiniteSet(baseline.seq..(expected_seq - 1))
    BY <1>1, FS_Interval
  <2>2. IsFiniteSet(Missing)
    BY <2>1, FS_Difference DEF Missing
  <2> QED
    BY <2>2, FS_CardinalityType
<1>3. Cardinality(Missing) <= lost /\ lost <= Cardinality(Missing) + reordered
  BY DEF LossIsMeasurable
<1>4. CASE seq < expected_seq
  <2>1. expected_seq' = expected_seq /\ lost' = lost /\ reordered' = reordered + 1
    BY <1>1, <1>4 DEF SeqAfter, GapBefore
  <2>2. Missing' = Missing \ {seq}
    BY <2>1 DEF Missing
  <2>3. Cardinality(Missing') \in {Cardinality(Missing) - 1, Cardinality(Missing)}
    BY <1>2, <2>2, FS_RemoveElement
  <2> QED
    BY <1>1, <1>2, <1>3, <2>1, <2>3
<1>5. CASE seq >= expected_seq
  <2>1. /\ expected_seq' = seq + 1
        /\ lost' = lost + (seq - expected_seq)
        /\ reordered' = reordered
    BY <1>1, <1>5 DEF SeqAfter, GapBefore
  <2> DEFINE gap == expected_seq..(seq - 1)
  <2>2. Missing' = Missing \union gap
    BY <1>1, <1>5, <2>1 DEF Missing, Accounted
  <2>3. Missing \intersect gap = {}
    BY <1>1 DEF Missing
  <2>4. IsFiniteSet(gap) /\ Cardinality(gap) = seq - expected_seq
    <3>1. expected_seq \in Int /\ seq - 1 \in Int
      BY <1>1
    <3>2. IsFiniteSet(gap) /\ Cardinality(gap) =
            IF expected_seq > seq - 1 THEN 0 ELSE (seq - 1) - expected_seq + 1
      BY <3>1, FS_Interval
    <3> QED
      BY <1>1, <1>5, <3>2
  <2>5. Cardinality(Missing') = Cardinality(Missing) + (seq - expected_seq)
    <3>1. Cardinality(Missing \union gap) =
            Cardinality(Missing) + Cardinality(gap) - Cardinality(Missing \intersect gap)
      BY <1>2, <2>4, FS_Union
    <3>2. Cardinality(Missing \intersect gap) = 0
      BY <2>3, FS_EmptySet
    <3> QED
      BY <1>1, <1>2, <2>2, <2>4, <3>1, <3>2
  <2> QED
    BY <1>1, <1>2, <1>3, <1>5, <2>1, <2>5
<1> QED
  BY <1>1, <1>4, <1>5

\* lost() never hides a missing datagram, and exceeds the missing ones by no
\* more than reordered(): the feed's quality can be read off the two counters,
\* whatever the network and the simulator do.
THEOREM LossIsMeasurableHolds == Spec => []LossIsMeasurable
<1> DEFINE Inv == Accounted /\ LossIsMeasurable
<1>1. Init => Inv
  BY DEF Init, SourceInit, Accounted, LossIsMeasurable, Started
<1>2. TypeOK /\ Inv /\ [Next]_vars => Inv'
  <2> SUFFICES ASSUME TypeOK, Inv, [Next]_vars
               PROVE  Inv'
    OBVIOUS
  <2>0. /\ expected_seq \in Nat /\ baseline.seq \in Nat /\ announces \in Nat
        /\ \A d \in net : d.datagram_seq \in Nat
    BY DatagramFields DEF TypeOK, SourceTypeOK
  <2>1. CASE /\ UNCHANGED <<expected_seq, lost, reordered, datagrams, baseline, got,
                            announces>>
             /\ src_state' = "await" => src_state = "await"
             /\ src_state' = "streaming" => src_state = "streaming"
    BY <2>1 DEF Accounted, LossIsMeasurable, Started, Missing
  <2>2. ASSUME NEW d \in net, AwaitData(d) \/ AwaitBadAnnounce(d)
        PROVE  Inv'
    <3>1. /\ src_state = "await"
          /\ UNCHANGED <<announces, baseline, got>>
          /\ src_state' # "streaming"
          /\ expected_seq' = SeqAfter(d.datagram_seq)
      BY <2>2 DEF AwaitData, AwaitBadAnnounce, ReadDatagram
    <3>2. ~Started /\ ~Started'
      BY <3>1 DEF Accounted, Started
    <3>3. expected_seq' \in Nat /\ expected_seq <= expected_seq'
      BY <2>0, <3>1 DEF SeqAfter
    <3>4. Accounted'
      BY <2>0, <3>1, <3>2, <3>3 DEF Accounted
    <3> QED
      BY <3>2, <3>4 DEF LossIsMeasurable
  <2>3. ASSUME NEW d \in net, AwaitAnnounce(d)
        PROVE  Inv'
    <3>1. /\ src_state' = "streaming"
          /\ lost' = 0 /\ reordered' = 0
          /\ expected_seq' = SeqAfter(d.datagram_seq)
          /\ baseline'.seq = expected_seq'
          /\ got' = got
          /\ announces' = announces + 1
          /\ src_state = "await"
      BY <2>3 DEF AwaitAnnounce, ReadDatagram
    <3>2. expected_seq' \in Nat
      BY <2>0, <3>1 DEF SeqAfter
    <3>3. got' = {}
      BY <3>1 DEF Accounted
    <3>4. Accounted'
      BY <2>0, <3>1, <3>2, <3>3 DEF Accounted, Started
    <3>5. Missing' = {}
      BY <3>1, <3>2 DEF Missing
    <3>6. Cardinality(Missing') = 0
      BY <3>5, FS_EmptySet
    <3> QED
      BY <3>1, <3>4, <3>6 DEF LossIsMeasurable
  <2>4. ASSUME NEW d \in net, StreamData(d) \/ StreamAnnounce(d)
        PROVE  Inv'
    <3>1. /\ src_state = "streaming" /\ src_state' \in {"streaming", "failed"}
          /\ expected_seq' = SeqAfter(d.datagram_seq)
          /\ lost' = lost + GapBefore(d.datagram_seq)
          /\ reordered' = reordered + (IF d.datagram_seq < expected_seq THEN 1 ELSE 0)
          /\ got' = got \union {d.datagram_seq}
          /\ baseline' = baseline
          /\ announces' \in {announces, announces + 1}
      BY <2>4 DEF StreamData, StreamAnnounce, Drained, ReadDatagram, CountLoss
    <3>2. d.datagram_seq \in Nat /\ Started
      BY <2>0, <3>1 DEF Accounted
    <3>3. Started'
      BY <2>0, <3>1, <3>2 DEF Started
    <3>4. /\ Cardinality(Missing') <= lost'
          /\ lost' <= Cardinality(Missing') + reordered'
      BY <3>1, <3>2, OneMoreDatagram DEF TypeOK
    <3>5. /\ expected_seq' \in Nat /\ expected_seq <= expected_seq'
          /\ d.datagram_seq \in 0..(expected_seq' - 1)
      BY <2>0, <3>1, <3>2 DEF SeqAfter
    <3>6. got' \subseteq 0..(expected_seq' - 1)
      <4>1. got \subseteq 0..(expected_seq - 1)
        BY DEF Accounted
      <4>2. 0..(expected_seq - 1) \subseteq 0..(expected_seq' - 1)
        BY <2>0, <3>5, LongerInterval
      <4> QED
        BY <3>1, <3>5, <4>1, <4>2
    <3>7. baseline'.seq <= expected_seq'
      BY <2>0, <3>1, <3>5 DEF Accounted
    <3>8. Accounted'
      BY <3>1, <3>3, <3>6, <3>7 DEF Accounted
    <3> QED
      BY <3>4, <3>8 DEF LossIsMeasurable
  <2> QED
    BY <2>1, <2>2, <2>3, <2>4, QuietSteps
<1> QED
  BY <1>1, <1>2, TypeCorrect, PTL DEF Spec
-----------------------------------------------------------------------------
\* A simulator announces at every Period-th number, of whatever run.
Period == kAnnounceInterval + 1
AnnounceAt(seq) == seq % Period = 0

\* How many records the numbers before one carry, when all batches are full.
DataBefore(seq) == IF seq = 0 THEN 0 ELSE (seq - 1) - ((seq - 1) \div Period)
Before(seq) == kRecordsPerDatagram * DataBefore(seq)

\* The next number's place in its period.
LEMMA NextInPeriod ==
    ASSUME NEW seq \in Nat
    PROVE  /\ seq % Period \in 0..kAnnounceInterval
           /\ seq % Period < kAnnounceInterval => (seq + 1) % Period = (seq % Period) + 1
           /\ seq % Period = kAnnounceInterval => (seq + 1) % Period = 0
           /\ (seq + 1) \div Period =
                seq \div Period + (IF seq % Period = kAnnounceInterval THEN 1 ELSE 0)
<1> DEFINE q == seq \div Period
           r == seq % Period
<1>1. Period \in Nat \ {0} /\ Period - 1 = kAnnounceInterval /\ kAnnounceInterval \in Nat
  BY FramingConstants DEF Period
<1>2. q \in Nat /\ r \in 0..kAnnounceInterval /\ seq = Period * q + r
  BY <1>1, DivisionFacts
<1> HIDE DEF q, r
<1>3. CASE r < kAnnounceInterval
  <2>1. r + 1 \in 0..(Period - 1) /\ seq + 1 = Period * q + (r + 1)
    BY <1>1, <1>2, <1>3
  <2>2. (seq + 1) \div Period = q /\ (seq + 1) % Period = r + 1
    BY <1>1, <1>2, <2>1, DivisionUnique
  <2> QED
    BY <1>2, <1>3, <2>2 DEF q, r
<1>4. CASE r = kAnnounceInterval
  <2>1. Period * (q + 1) = Period * q + Period
    BY <1>1, <1>2, Distributes
  <2>3. 0 \in 0..(Period - 1) /\ seq + 1 = Period * (q + 1) + 0
    BY <1>1, <1>2, <1>4, <2>1
  <2>2. (seq + 1) \div Period = q + 1 /\ (seq + 1) % Period = 0
    BY <1>1, <1>2, <2>3, DivisionUnique
  <2> QED
    BY <1>2, <1>4, <2>2 DEF q, r
<1> QED
  BY <1>1, <1>2, <1>3, <1>4 DEF q, r

\* Of the numbers up to one, at most as many are announces as there are.
LEMMA QuotientsSpread ==
    ASSUME NEW x \in Nat, NEW y \in Nat, x <= y
    PROVE  (y \div Period) - (x \div Period) <= y - x
<1> DEFINE q == x \div Period
           r == x % Period
           s == y \div Period
           t == y % Period
<1>1. Period \in Nat \ {0} /\ Period >= 2
  BY FramingConstants DEF Period
<1>2. /\ q \in Nat /\ r \in 0..(Period - 1) /\ x = Period * q + r
      /\ s \in Nat /\ t \in 0..(Period - 1) /\ y = Period * s + t
  BY <1>1, DivisionFacts
<1> HIDE DEF q, r, s, t
<1>3. CASE s <= q
  BY <1>2, <1>3 DEF q, s
<1>4. CASE q < s
  <2>1. PICK m \in Nat : s = q + 1 + m
    <3>1. s - q - 1 \in Nat /\ s = q + 1 + (s - q - 1)
      BY <1>2, <1>4
    <3> QED
      BY <3>1
  <2>2. Period * s = Period * q + Period + Period * m
    BY <1>1, <1>2, <2>1
  <2>3. Period * m >= m
    <3>1. m * 1 <= m * Period
      BY <1>1, <2>1, ProductMonotone
    <3> QED
      BY <1>1, <2>1, <3>1
  <2>4. Period * q \in Nat /\ Period * m \in Nat
    BY <1>1, <1>2, <2>1
  <2>5. y - x >= 1 + m
    BY <1>1, <1>2, <2>1, <2>2, <2>3, <2>4
  <2> QED
    BY <1>2, <2>1, <2>5 DEF q, s
<1> QED
  BY <1>2, <1>3, <1>4

\* The records before a number grow by a batch with each number that is not an
\* announce's.
LEMMA BeforeStep ==
    ASSUME NEW seq \in Nat
    PROVE  /\ DataBefore(seq) \in Nat /\ Before(seq) \in Nat
           /\ Before(seq + 1) =
                Before(seq) + (IF AnnounceAt(seq) THEN 0 ELSE kRecordsPerDatagram)
<1>0. kRecordsPerDatagram \in Nat /\ Period \in Nat \ {0} /\ kAnnounceInterval \in Nat \ {0}
  BY FramingConstants DEF Period
<1>1. ASSUME NEW s \in Nat
      PROVE  DataBefore(s) \in Nat
  <2>1. CASE s = 0
    BY <2>1 DEF DataBefore
  <2>2. CASE s # 0
    <3>1. s - 1 \in Nat /\ 0 \in Nat /\ 0 <= s - 1
      BY <2>2
    <3>2. /\ (s - 1) \div Period \in Nat
          /\ ((s - 1) \div Period) - (0 \div Period) <= (s - 1) - 0
      BY <1>0, <3>1, QuotientsSpread, DivisionFacts
    <3>3. 0 = Period * 0 + 0
      BY <1>0
    <3>4. 0 \div Period = 0
      BY <1>0, <3>3, DivisionUnique
    <3> QED
      BY <2>2, <3>1, <3>2, <3>4 DEF DataBefore
  <2> QED
    BY <2>1, <2>2
<1>2. DataBefore(seq + 1) = DataBefore(seq) + (IF AnnounceAt(seq) THEN 0 ELSE 1)
  <2>1. CASE seq = 0
    <3>1. 0 = Period * 0 + 0
      BY <1>0
    <3>2. 0 \div Period = 0 /\ 0 % Period = 0
      BY <1>0, <3>1, DivisionUnique
    <3> QED
      BY <2>1, <3>2 DEF DataBefore, AnnounceAt
  <2>2. CASE seq # 0
    <3>1. seq - 1 \in Nat /\ (seq - 1) + 1 = seq
      BY <2>2
    <3>2. /\ (seq - 1) % Period \in 0..kAnnounceInterval
          /\ (seq - 1) % Period < kAnnounceInterval => seq % Period = ((seq - 1) % Period) + 1
          /\ (seq - 1) % Period = kAnnounceInterval => seq % Period = 0
          /\ seq \div Period =
                ((seq - 1) \div Period) + (IF (seq - 1) % Period = kAnnounceInterval THEN 1 ELSE 0)
      BY <3>1, NextInPeriod
    <3>3. AnnounceAt(seq) <=> (seq - 1) % Period = kAnnounceInterval
      BY <1>0, <3>2 DEF AnnounceAt
    <3>4. (seq - 1) \div Period \in Nat
      BY <1>0, <3>1, DivisionFacts
    <3>5. DataBefore(seq + 1) = seq - (seq \div Period)
      BY <2>2 DEF DataBefore
    <3>6. DataBefore(seq) = (seq - 1) - ((seq - 1) \div Period)
      BY <2>2 DEF DataBefore
    <3> QED
      BY <3>2, <3>3, <3>4, <3>5, <3>6
  <2> QED
    BY <2>1, <2>2
<1> QED
  BY <1>0, <1>1, <1>2 DEF Before

LEMMA BeforeMonotone ==
    ASSUME NEW s \in Nat, NEW t \in Nat, s <= t
    PROVE  Before(s) <= Before(t)
<1>0. kRecordsPerDatagram \in Nat /\ Period \in Nat \ {0}
  BY FramingConstants DEF Period
<1>1. CASE s = 0
  <2>1. Before(s) = 0
    BY <1>0, <1>1 DEF Before, DataBefore
  <2> QED
    BY <2>1, BeforeStep
<1>2. CASE s # 0
  <2>1. s - 1 \in Nat /\ t - 1 \in Nat /\ s - 1 <= t - 1
    BY <1>2
  <2>2. /\ ((t - 1) \div Period) - ((s - 1) \div Period) <= (t - 1) - (s - 1)
        /\ (t - 1) \div Period \in Nat /\ (s - 1) \div Period \in Nat
    BY <1>0, <2>1, QuotientsSpread, DivisionFacts
  <2>3. /\ DataBefore(s) = (s - 1) - ((s - 1) \div Period)
        /\ DataBefore(t) = (t - 1) - ((t - 1) \div Period)
    BY <1>2 DEF DataBefore
  <2>4. DataBefore(s) \in Int /\ DataBefore(t) \in Int /\ DataBefore(s) <= DataBefore(t)
    BY <2>1, <2>2, <2>3
  <2> QED
    BY <1>0, <2>4, ProductMonotone DEF Before
<1> QED
  BY <1>1, <1>2
-----------------------------------------------------------------------------
\* What is in flight: announces at announce numbers, and elsewhere the batch
\* that is due at a number, which is the same in every run.
NetOrdered ==
    \A d \in net :
        \/ d \in Strays
        \/ d.type = "Announce" /\ AnnounceAt(d.datagram_seq)
        \/ /\ d.type = "Data" /\ ~AnnounceAt(d.datagram_seq)
           /\ d.run \in Runs /\ Before(d.datagram_seq) < RunLength
           /\ d.records = BatchFrom(d.run, Before(d.datagram_seq) + 1)

\* Where the sink stands in its period and in its run.
SinkOrdered ==
    sink_open =>
        /\ datagram_seq # 0 /\ since_announce = (datagram_seq - 1) % Period
        /\ Len(buffer) < kRecordsPerDatagram
        /\ Before(datagram_seq) + Len(buffer) = accepted
        /\ \A i \in 1..Len(buffer) : buffer[i] = Record(run, Before(datagram_seq) + i)

\* send() brings into flight nothing but the packets.
LEMMA OnlyPacketsSent ==
    ASSUME NEW packets, SendPackets(packets)
    PROVE  \A d \in net' : d \in net \/ \E i \in DOMAIN packets : d = packets[i]
BY DEF SendPackets

\* A flush of the batch that is due keeps the numbering.
LEMMA FlushOrdered ==
    ASSUME TypeOK, NetOrdered, SinkOrdered, sink_open,
           NEW batch, batch = BatchFrom(run, Before(datagram_seq) + 1),
           Before(datagram_seq) < RunLength, Flush(batch)
    PROVE  /\ NetOrdered'
           /\ datagram_seq' # 0 /\ since_announce' = (datagram_seq' - 1) % Period
           /\ Before(datagram_seq') = Before(datagram_seq) + kRecordsPerDatagram
<1> DEFINE seq == datagram_seq
<1>0. /\ run \in Runs /\ seq \in Nat /\ seq # 0 /\ since_announce = (seq - 1) % Period
      /\ kAnnounceInterval \in Nat \ {0} /\ kRecordsPerDatagram \in Nat
      /\ since_announce \in 0..kAnnounceInterval
  BY FramingConstants DEF TypeOK, SinkTypeOK, SinkOrdered
<1>1. /\ SendPackets(PacketsOf(batch))
      /\ datagram_seq' = seq + Len(PacketsOf(batch))
      /\ since_announce' = IF AnnounceDue THEN 1 ELSE since_announce + 1
  BY DEF Flush
<1>2. /\ seq - 1 \in Nat /\ seq + 1 \in Nat
      /\ since_announce < kAnnounceInterval => seq % Period = since_announce + 1
      /\ since_announce = kAnnounceInterval => seq % Period = 0
  BY <1>0, NextInPeriod
<1>3. CASE AnnounceDue
  <2>0. since_announce = kAnnounceInterval /\ seq % Period = 0 /\ since_announce' = 1
    BY <1>0, <1>1, <1>2, <1>3 DEF AnnounceDue
  <2>1. (seq + 1) % Period = 1
    BY <1>0, <2>0, NextInPeriod
  <2>2. /\ AnnounceAt(seq) /\ ~AnnounceAt(seq + 1)
    BY <2>0, <2>1 DEF AnnounceAt
  <2>3. Before(seq + 1) = Before(seq)
    BY <1>0, <2>2, BeforeStep
  <2>4. Before((seq + 1) + 1) = Before(seq) + kRecordsPerDatagram
    BY <1>2, <2>2, <2>3, BeforeStep
  <2>5. PacketsOf(batch) = <<Announce(run, seq), Data(run, seq + 1, batch)>>
    BY <1>3 DEF PacketsOf
  <2>6. datagram_seq' = (seq + 1) + 1 /\ datagram_seq' # 0 /\ datagram_seq' - 1 = seq + 1
    <3>1. Len(PacketsOf(batch)) = 2
      BY <2>5
    <3>2. datagram_seq' = seq + 2
      BY <1>1, <3>1
    <3> QED
      BY <1>0, <3>2
  <2>7. ASSUME NEW d \in net', d \notin net
        PROVE  d = Announce(run, seq) \/ d = Data(run, seq + 1, batch)
    BY <1>1, <2>5, <2>7, OnlyPacketsSent
  <2>8. NetOrdered'
    BY <1>0, <2>2, <2>3, <2>7 DEF NetOrdered, Announce, Data
  <2> QED
    BY <2>0, <2>1, <2>4, <2>6, <2>8
<1>4. CASE ~AnnounceDue
  <2>1. /\ since_announce < kAnnounceInterval /\ seq % Period = since_announce + 1
        /\ since_announce' = since_announce + 1
    BY <1>0, <1>1, <1>2, <1>4 DEF AnnounceDue
  <2>2. ~AnnounceAt(seq)
    BY <1>0, <2>1 DEF AnnounceAt
  <2>3. Before(seq + 1) = Before(seq) + kRecordsPerDatagram
    BY <1>0, <2>2, BeforeStep
  <2>4. PacketsOf(batch) = <<Data(run, seq, batch)>>
    BY <1>4 DEF PacketsOf
  <2>5. datagram_seq' = seq + 1 /\ datagram_seq' # 0 /\ datagram_seq' - 1 = seq
    <3>1. Len(PacketsOf(batch)) = 1
      BY <2>4
    <3>2. datagram_seq' = seq + 1
      BY <1>1, <3>1
    <3> QED
      BY <1>0, <3>2
  <2>6. ASSUME NEW d \in net', d \notin net
        PROVE  d = Data(run, seq, batch)
    BY <1>1, <2>4, <2>6, OnlyPacketsSent
  <2>7. NetOrdered'
    BY <1>0, <2>2, <2>6 DEF NetOrdered, Data
  <2> QED
    BY <2>1, <2>3, <2>5, <2>7
<1> QED
  BY <1>3, <1>4

\* A batch is a function on 1..n, and is due as a whole.
LEMMA BatchIs ==
    ASSUME NEW r \in Runs, NEW first \in 1..RunLength,
           NEW b \in Seq(Records), Len(b) <= kRecordsPerDatagram,
           Len(b) = kRecordsPerDatagram \/ first + Len(b) = RunLength + 1,
           first + Len(b) <= RunLength + 1,
           \A i \in 1..Len(b) : b[i] = Record(r, first + i - 1)
    PROVE  b = BatchFrom(r, first)
<1>1. /\ kRecordsPerDatagram \in Nat /\ RunLength \in Nat /\ Len(b) \in Nat
      /\ b = [i \in 1..Len(b) |-> b[i]]
  BY FramingConstants
<1>2. (IF RunLength - first + 1 < kRecordsPerDatagram
       THEN RunLength - first + 1 ELSE kRecordsPerDatagram) = Len(b)
  BY <1>1
<1>3. BatchFrom(r, first) = [k \in 1..Len(b) |-> Record(r, first + k - 1)]
  BY <1>2, Zenon DEF BatchFrom
<1> QED
  BY <1>1, <1>3

\* finish() flushes a last batch, which brings the run to its end.
LEMMA FinishFlushes ==
    ASSUME TypeOK, NetOrdered, SinkOrdered, Finish, buffer # <<>>
    PROVE  /\ NetOrdered' /\ buffer' = <<>> /\ datagram_seq' \in Nat
           /\ RunLength < Before(datagram_seq')
<1>0. kRecordsPerDatagram \in Nat \ {0} /\ RunLength \in Nat
  BY FramingConstants
<1>1. Flush(buffer) /\ sink_open /\ accepted = RunLength
  BY DEF Finish
<1>2. /\ run \in Runs /\ buffer \in Seq(Records) /\ Len(buffer) \in Nat \ {0}
      /\ datagram_seq \in Nat
  BY <1>1, EmptySeq DEF TypeOK, SinkTypeOK
<1>3. /\ Len(buffer) < kRecordsPerDatagram
      /\ Before(datagram_seq) + Len(buffer) = RunLength
      /\ \A i \in 1..Len(buffer) : buffer[i] = Record(run, Before(datagram_seq) + i)
      /\ Before(datagram_seq) \in Nat
  BY <1>1, <1>2, BeforeStep DEF SinkOrdered
<1>4. /\ Before(datagram_seq) + 1 \in 1..RunLength /\ Before(datagram_seq) < RunLength
      /\ (Before(datagram_seq) + 1) + Len(buffer) = RunLength + 1
      /\ (Before(datagram_seq) + 1) + Len(buffer) <= RunLength + 1
      /\ Len(buffer) <= kRecordsPerDatagram
  BY <1>0, <1>2, <1>3
<1>5. \A i \in 1..Len(buffer) : buffer[i] = Record(run, (Before(datagram_seq) + 1) + i - 1)
  <2> SUFFICES ASSUME NEW i \in 1..Len(buffer)
               PROVE  buffer[i] = Record(run, (Before(datagram_seq) + 1) + i - 1)
    OBVIOUS
  <2>1. (Before(datagram_seq) + 1) + i - 1 = Before(datagram_seq) + i
    BY <1>3
  <2> QED
    BY <1>3, <2>1
<1>6. buffer = BatchFrom(run, Before(datagram_seq) + 1)
  BY <1>2, <1>4, <1>5, BatchIs
<1>7. NetOrdered' /\ Before(datagram_seq') = Before(datagram_seq) + kRecordsPerDatagram
  BY <1>1, <1>4, <1>6, FlushOrdered
<1>8. buffer' = <<>> /\ datagram_seq' \in Nat
  BY <1>1, <1>2, FlushType DEF TypeOK, Flush
<1> QED
  BY <1>0, <1>2, <1>3, <1>7, <1>8

\* A step of the simulator keeps the stream in order.
LEMMA SinkKeepsOrder ==
    ASSUME TypeOK, NetOrdered, SinkOrdered, SinkNext
    PROVE  NetOrdered' /\ SinkOrdered'
<1>0. kRecordsPerDatagram \in Nat \ {0} /\ RunLength \in Nat /\ Period \in Nat \ {0}
  BY FramingConstants DEF Period
<1>1. CASE Open
  <2>1. 0 = Period * 0 + 0
    BY <1>0
  <2>2. 0 % Period = 0
    BY <1>0, <2>1, DivisionUnique
  <2>3. AnnounceAt(0) /\ Before(0) = 0 /\ Before(0 + 1) = 0
    <3>1. AnnounceAt(0)
      BY <2>2 DEF AnnounceAt
    <3>2. Before(0) = 0
      BY <1>0 DEF Before, DataBefore
    <3> QED
      BY <3>1, <3>2, BeforeStep
  <2>4. /\ SendPackets(<<Announce(run + 1, 0)>>)
        /\ datagram_seq' = 1 /\ since_announce' = 0 /\ buffer' = <<>> /\ accepted' = 0
    BY <1>1 DEF Open
  <2>5. ASSUME NEW d \in net', d \notin net
        PROVE  d = Announce(run + 1, 0)
    BY <2>4, <2>5, OnlyPacketsSent
  <2>6. NetOrdered'
    BY <2>3, <2>5 DEF NetOrdered, Announce
  <2>7. SinkOrdered'
    <3>1. Len(buffer') = 0 /\ datagram_seq' - 1 = 0
      BY <2>4
    <3> QED
      BY <1>0, <2>2, <2>3, <2>4, <3>1 DEF SinkOrdered
  <2> QED
    BY <2>6, <2>7
<1>2. CASE Accept
  <2> DEFINE batch == Append(buffer, Record(run, accepted + 1))
  <2>1. /\ sink_open /\ run \in Runs /\ accepted \in Nat /\ accepted < RunLength
        /\ accepted' = accepted + 1 /\ run' = run /\ sink_open' = sink_open
        /\ datagram_seq \in Nat
    BY <1>2 DEF Accept, TypeOK, SinkTypeOK
  <2>2. /\ datagram_seq # 0 /\ since_announce = (datagram_seq - 1) % Period
        /\ Len(buffer) < kRecordsPerDatagram
        /\ Before(datagram_seq) + Len(buffer) = accepted
        /\ \A i \in 1..Len(buffer) : buffer[i] = Record(run, Before(datagram_seq) + i)
    BY <2>1 DEF SinkOrdered
  <2>3. Before(datagram_seq) \in Nat
    BY <2>1, BeforeStep
  <2>4. accepted + 1 \in 1..RunLength
    BY <1>0, <2>1
  <2>5. /\ batch \in Seq(Records) /\ Len(buffer) \in Nat /\ Len(batch) = Len(buffer) + 1
        /\ \A i \in 1..Len(buffer) : batch[i] = buffer[i]
        /\ batch[Len(buffer) + 1] = Record(run, accepted + 1)
    BY <2>1, <2>4, RecordType DEF TypeOK, SinkTypeOK
  <2> HIDE DEF batch
  <2>6. \A i \in 1..Len(batch) : batch[i] = Record(run, Before(datagram_seq) + i)
    <3> SUFFICES ASSUME NEW i \in 1..Len(batch)
                 PROVE  batch[i] = Record(run, Before(datagram_seq) + i)
      OBVIOUS
    <3>1. CASE i = Len(buffer) + 1
      <4>1. accepted + 1 = Before(datagram_seq) + i
        BY <2>1, <2>2, <2>3, <2>5, <3>1
      <4> QED
        BY <2>5, <3>1, <4>1
    <3>2. CASE i # Len(buffer) + 1
      <4>1. i \in 1..Len(buffer)
        BY <2>5, <3>2
      <4> QED
        BY <2>2, <2>5, <4>1
    <3> QED
      BY <3>1, <3>2
  <2>7. CASE Len(batch) = kRecordsPerDatagram
    <3>1. Flush(batch)
      BY <1>2, <2>7 DEF Accept, batch
    <3>2. Before(datagram_seq) + 1 \in 1..RunLength /\ Before(datagram_seq) < RunLength
      BY <1>0, <2>1, <2>2, <2>3, <2>5
    <3>3. (Before(datagram_seq) + 1) + Len(batch) <= RunLength + 1
      BY <1>0, <2>1, <2>2, <2>3, <2>5
    <3>4. \A i \in 1..Len(batch) : batch[i] = Record(run, (Before(datagram_seq) + 1) + i - 1)
      <4> SUFFICES ASSUME NEW i \in 1..Len(batch)
                   PROVE  batch[i] = Record(run, (Before(datagram_seq) + 1) + i - 1)
        OBVIOUS
      <4>1. (Before(datagram_seq) + 1) + i - 1 = Before(datagram_seq) + i
        BY <2>3
      <4> QED
        BY <2>6, <4>1
    <3>5. batch = BatchFrom(run, Before(datagram_seq) + 1)
      BY <1>0, <2>1, <2>5, <2>7, <3>2, <3>3, <3>4, BatchIs, SMTT(20)
    <3>6. /\ NetOrdered'
          /\ datagram_seq' # 0 /\ since_announce' = (datagram_seq' - 1) % Period
          /\ Before(datagram_seq') = Before(datagram_seq) + kRecordsPerDatagram
      BY <2>1, <3>1, <3>2, <3>5, FlushOrdered
    <3>7. buffer' = <<>>
      BY <3>1 DEF Flush
    <3>8. Len(buffer') = 0
      BY <3>7
    <3>9. Before(datagram_seq') + 0 = accepted'
      BY <1>0, <2>1, <2>2, <2>3, <2>5, <2>7, <3>6
    <3>10. SinkOrdered'
      BY <1>0, <3>6, <3>8, <3>9 DEF SinkOrdered
    <3> QED
      BY <3>6, <3>10
  <2>8. CASE Len(batch) # kRecordsPerDatagram
    <3>1. /\ buffer' = batch
          /\ UNCHANGED <<datagram_seq, since_announce, net>>
      BY <1>2, <2>8 DEF Accept, netVars, batch
    <3>2. NetOrdered'
      BY <3>1 DEF NetOrdered
    <3>3. Len(batch) < kRecordsPerDatagram /\ Before(datagram_seq) + Len(batch) = accepted + 1
      <4>1. /\ Len(buffer) \in Nat /\ Len(batch) = Len(buffer) + 1
            /\ Len(buffer) < kRecordsPerDatagram /\ Len(batch) # kRecordsPerDatagram
            /\ Before(datagram_seq) + Len(buffer) = accepted
        BY <2>2, <2>5, <2>8
      <4>2. kRecordsPerDatagram \in Nat /\ Before(datagram_seq) \in Nat
        BY <2>3, FramingConstants
      <4> QED
        BY <4>1, <4>2
    <3>4. SinkOrdered'
      BY <2>1, <2>2, <2>6, <3>1, <3>3 DEF SinkOrdered
    <3> QED
      BY <3>2, <3>4
  <2> QED
    BY <2>7, <2>8
<1>3. CASE Finish
  <2>1. sink_open /\ accepted = RunLength /\ ~sink_open'
    BY <1>3 DEF Finish
  <2>2. SinkOrdered'
    BY <2>1 DEF SinkOrdered
  <2>3. CASE buffer = <<>>
    <3>1. UNCHANGED net
      BY <1>3, <2>3 DEF Finish, netVars
    <3> QED
      BY <2>2, <3>1 DEF NetOrdered
  <2>4. CASE buffer # <<>>
    BY <1>3, <2>2, <2>4, FinishFlushes
  <2> QED
    BY <2>3, <2>4
<1>4. CASE Kill
  BY <1>4 DEF Kill, netVars, NetOrdered, SinkOrdered
<1> QED
  BY <1>1, <1>2, <1>3, <1>4 DEF SinkNext

\* A step of the engine's end only takes datagrams away.
LEMMA SourceTakes ==
    ASSUME SourceNext
    PROVE  net' \subseteq net
BY DEF SourceNext, Hand, ReceiveSome, ReceiveMalformed, GiveUp, netVars, AwaitData,
       AwaitAnnounce, AwaitBadAnnounce, StreamData, StreamAnnounce, ReadDatagram, Receive

\* On any interleaving, what is in flight under a number is what every run sends
\* under that number.
LEMMA FeedIsOrdered == Spec => [](NetOrdered /\ SinkOrdered)
<1>1. Init => NetOrdered /\ SinkOrdered
  BY DEF Init, SinkInit, NetOrdered, SinkOrdered
<1>2. TypeOK /\ (NetOrdered /\ SinkOrdered) /\ [Next]_vars => (NetOrdered /\ SinkOrdered)'
  <2> SUFFICES ASSUME TypeOK, NetOrdered, SinkOrdered, [Next]_vars
               PROVE  NetOrdered' /\ SinkOrdered'
    OBVIOUS
  <2>1. CASE SinkStep
    BY <2>1, SinkKeepsOrder DEF SinkStep
  <2>2. CASE SourceStep
    <3>1. net' \subseteq net /\ UNCHANGED sinkVars
      BY <2>2, SourceTakes DEF SourceStep
    <3> QED
      BY <3>1 DEF NetOrdered, SinkOrdered, sinkVars
  <2>3. CASE UNCHANGED vars
    BY <2>3 DEF vars, netVars, sinkVars, NetOrdered, SinkOrdered
  <2> QED
    BY <2>1, <2>2, <2>3 DEF Next
<1> QED
  BY <1>1, <1>2, TypeCorrect, PTL DEF Spec
-----------------------------------------------------------------------------
\* The part of the receive buffer still to be handed out, and what next() has
\* returned with it.
Queued == IF src_state = "await" THEN <<>> ELSE SubSeq(buf, cursor + 1, in_buffer)
Stream == delivered \o Queued

\* A datagram of data leaves the buffer whole; with every other step what is due
\* and what was returned stay the same together.
LEMMA QueuedIs ==
    ASSUME SourceTypeOK
    PROVE  /\ Queued \in Seq(Records)
           /\ ~(cursor < in_buffer) => Queued = <<>>
           /\ cursor < in_buffer => /\ Len(Queued) = in_buffer - cursor
                                    /\ Head(Queued) = buf[cursor + 1]
                                    /\ Tail(Queued) = SubSeq(buf, (cursor + 1) + 1, in_buffer)
                                    /\ Queued # <<>>
<1>0. cursor \in Nat /\ in_buffer \in Nat /\ cursor <= in_buffer /\ buf \in Seq(Records)
  BY DEF SourceTypeOK
<1>1. CASE ~(cursor < in_buffer)
  <2>1. SubSeq(buf, cursor + 1, in_buffer) = <<>>
    BY <1>0, <1>1, SubSeqEmpty
  <2> QED
    BY <1>1, <2>1, EmptySeq DEF Queued
<1>2. CASE cursor < in_buffer
  <2>1. src_state = "streaming" /\ in_buffer = Len(buf)
    BY <1>2 DEF SourceTypeOK
  <2>2. cursor + 1 \in 1..Len(buf) /\ in_buffer \in (cursor + 1)..Len(buf)
    BY <1>0, <1>2, <2>1
  <2>3. Queued = SubSeq(buf, cursor + 1, in_buffer)
    BY <2>1 DEF Queued
  <2>4. \A i \in (cursor + 1)..in_buffer : buf[i] \in Records
    BY <1>0, <2>1, ElementOfSeq
  <2>5. /\ Queued \in Seq(Records)
        /\ Len(Queued) = IF cursor + 1 <= in_buffer THEN in_buffer - (cursor + 1) + 1 ELSE 0
    BY <1>0, <2>3, <2>4, SubSeqProperties
  <2>6. Len(Queued) = in_buffer - cursor
    BY <1>0, <1>2, <2>5
  <2>7. Queued # <<>>
    BY <1>0, <1>2, <2>6, EmptySeq
  <2>8. Head(Queued) = buf[cursor + 1] /\ Tail(Queued) = SubSeq(buf, (cursor + 1) + 1, in_buffer)
    BY <1>0, <2>2, <2>3, HeadTailOfSubSeq
  <2> QED
    BY <1>2, <2>5, <2>6, <2>7, <2>8
<1> QED
  BY <1>1, <1>2

\* What next() returns is the head of what is due.
LEMMA HandMoves ==
    ASSUME SourceTypeOK, Hand
    PROVE  /\ Queued # <<>> /\ delivered' = Append(delivered, Head(Queued))
           /\ Queued' = Tail(Queued) /\ Stream' = Stream
<1>1. /\ src_state = "streaming" /\ src_state' = src_state /\ cursor < in_buffer
      /\ delivered' = Append(delivered, buf[cursor + 1])
      /\ cursor' = cursor + 1 /\ buf' = buf /\ in_buffer' = in_buffer
  BY DEF Hand
<1>2. /\ Queued \in Seq(Records) /\ Queued # <<>>
      /\ Head(Queued) = buf[cursor + 1]
      /\ Tail(Queued) = SubSeq(buf, (cursor + 1) + 1, in_buffer)
  BY <1>1, QueuedIs
<1>3. Queued' = Tail(Queued)
  BY <1>1, <1>2 DEF Queued
<1>4. Stream' = Stream
  <2> DEFINE h == Head(Queued)
             t == Tail(Queued)
  <2>1. h \in Records /\ t \in Seq(Records) /\ delivered \in Seq(Records)
    BY <1>2, HeadTailProperties DEF SourceTypeOK
  <2>2. Queued = <<h>> \o t
    BY <1>2
  <2>3. Append(delivered, h) = delivered \o <<h>>
    BY <2>1, AppendIsConcat
  <2>4. <<h>> \in Seq(Records)
    BY <2>1
  <2>5. (delivered \o <<h>>) \o t = delivered \o (<<h>> \o t)
    BY <2>1, <2>4, ConcatAssociative
  <2> QED
    BY <1>1, <1>2, <1>3, <2>2, <2>3, <2>5 DEF Stream
<1> QED
  BY <1>1, <1>2, <1>3, <1>4

\* A datagram of data is queued whole, when nothing else is due.
LEMMA StreamDataQueues ==
    ASSUME TypeOK, NEW d \in net, StreamData(d)
    PROVE  Queued = <<>> /\ Queued' = d.records /\ Stream' = Stream \o d.records
<1>1. /\ src_state = "streaming" /\ src_state' = src_state /\ ~(cursor < in_buffer)
      /\ delivered' = delivered /\ buf' = d.records /\ cursor' = 0
      /\ in_buffer' = Len(d.records)
  BY DEF StreamData, Drained, ReadDatagram, TypeOK, SourceTypeOK
<1>2. d.records \in Seq(Records) /\ delivered \in Seq(Records)
  BY DatagramFields DEF TypeOK, SourceTypeOK
<1>3. Queued = <<>>
  BY <1>1, QueuedIs DEF TypeOK
<1>4. 0 + 1 = 1
  OBVIOUS
<1>5. Queued' = d.records
  BY <1>1, <1>2, <1>4, SubSeqFull DEF Queued
<1>6. delivered \o <<>> = delivered
  BY <1>2, ConcatEmptySeq
<1> QED
  BY <1>1, <1>3, <1>5, <1>6 DEF Stream

\* Every other reception finds and leaves nothing due.
LEMMA OthersQueueNothing ==
    ASSUME TypeOK,
           \/ \E d \in net : AwaitData(d) \/ AwaitAnnounce(d) \/ AwaitBadAnnounce(d)
                             \/ StreamAnnounce(d)
           \/ ReceiveMalformed \/ GiveUp
    PROVE  /\ Queued = <<>> /\ Queued' = <<>> /\ delivered' = delivered
           /\ Stream' = Stream
<1>1. /\ ~(cursor < in_buffer) /\ cursor \in Nat /\ in_buffer \in Nat
      /\ delivered' = delivered
  BY DEF TypeOK, SourceTypeOK, AwaitData, AwaitAnnounce, AwaitBadAnnounce, StreamAnnounce,
         ReceiveMalformed, GiveUp, Receiving, Drained
<1>2. \/ cursor' = cursor /\ in_buffer' = in_buffer
      \/ cursor' = 0 /\ in_buffer' = 0
  BY DEF AwaitData, AwaitAnnounce, AwaitBadAnnounce, StreamAnnounce,
         ReceiveMalformed, GiveUp, bufferVars
<1>3. cursor' + 1 \in Int /\ in_buffer' \in Int /\ in_buffer' < cursor' + 1
  BY <1>1, <1>2
<1>4. SubSeq(buf', cursor' + 1, in_buffer') = <<>>
  BY <1>3, SubSeqEmpty
<1>5. Queued' = <<>>
  BY <1>4 DEF Queued
<1>6. Queued = <<>>
  BY <1>1, QueuedIs DEF TypeOK
<1> QED
  BY <1>1, <1>5, <1>6 DEF Stream

\* Where a batch in flight stands in the run.
Least(a, b) == IF a < b THEN a ELSE b
Top(seq) == Least(Before(seq), RunLength)

LEMMA TopFacts ==
    /\ \A s \in Nat : Top(s) \in Nat
    /\ \A s, t \in Nat : s <= t => Top(s) <= Top(t)
<1>1. RunLength \in Nat
  BY FramingConstants
<1>2. \A s \in Nat : Before(s) \in Nat
  BY BeforeStep
<1>3. \A s, t \in Nat : s <= t => Before(s) <= Before(t)
  BY BeforeMonotone
<1> QED
  BY <1>1, <1>2, <1>3 DEF Top, Least

\* What the generation loop handed over is what the run's numbers so far carry
\* and what is in the sink's buffer, or died there.
SinkBalance == Top(datagram_seq) + Len(buffer) = accepted

LEMMA SinkKeepsBalance ==
    ASSUME TypeOK, NetOrdered, SinkOrdered, SinkBalance, SinkNext
    PROVE  SinkBalance'
<1>0. RunLength \in Nat
  BY FramingConstants
<1>1. CASE Open \/ Accept
  <2>1. sink_open'
    BY <1>1 DEF Open, Accept
  <2>2. SinkOrdered' /\ SinkTypeOK'
    BY SinkKeepsOrder, SinkStepType DEF TypeOK
  <2>3. /\ Before(datagram_seq') + Len(buffer') = accepted' /\ accepted' \in 0..RunLength
        /\ datagram_seq' \in Nat /\ Len(buffer') \in Nat
    BY <2>1, <2>2 DEF SinkOrdered, SinkTypeOK
  <2>4. Before(datagram_seq') \in Nat
    BY <2>3, BeforeStep
  <2> QED
    BY <1>0, <2>3, <2>4 DEF SinkBalance, Top, Least
<1>2. CASE Finish
  <2>1. CASE buffer = <<>>
    BY <1>2, <2>1 DEF Finish, SinkBalance
  <2>2. CASE buffer # <<>>
    <3>1. /\ buffer' = <<>> /\ RunLength < Before(datagram_seq') /\ accepted' = RunLength
          /\ datagram_seq' \in Nat
      BY <1>2, <2>2, FinishFlushes DEF Finish
    <3>2. Len(buffer') = 0 /\ Before(datagram_seq') \in Nat
      BY <3>1, BeforeStep
    <3> QED
      BY <1>0, <3>1, <3>2 DEF SinkBalance, Top, Least
  <2> QED
    BY <2>1, <2>2
<1>3. CASE Kill
  BY <1>3 DEF Kill, SinkBalance
<1> QED
  BY <1>1, <1>2, <1>3 DEF SinkNext

\* A datagram of data is the batch due at its number, and brings the run there.
LEMMA BatchInFlight ==
    ASSUME TypeOK, NetOrdered, NEW d \in net, d.type = "Data"
    PROVE  /\ d.records \in FeedBatches
           /\ d.datagram_seq \in Nat /\ Top(d.datagram_seq) < RunLength
           /\ Len(d.records) \in Nat \ {0} /\ Len(d.records) <= kRecordsPerDatagram
           /\ Top(d.datagram_seq) + Len(d.records) = Top(d.datagram_seq + 1)
           /\ \A i \in 1..Len(d.records) : d.records[i].n = Top(d.datagram_seq) + i
<1> DEFINE seq == d.datagram_seq
           b == Before(seq)
           left == RunLength - (b + 1) + 1
           size == IF left < kRecordsPerDatagram THEN left ELSE kRecordsPerDatagram
<1>0. /\ kRecordsPerDatagram \in Nat \ {0} /\ RunLength \in Nat /\ Period \in Nat \ {0}
      /\ seq \in Nat
  BY FramingConstants, DatagramFields DEF Period, TypeOK
<1>1. d \notin Strays
  BY FramingConstants
<1>2. /\ ~AnnounceAt(seq) /\ d.run \in Runs /\ b < RunLength
      /\ d.records = BatchFrom(d.run, b + 1)
  BY <1>1 DEF NetOrdered
<1>3. b \in Nat /\ Before(seq + 1) = b + kRecordsPerDatagram
  BY <1>0, <1>2, BeforeStep
<1>4. d.records \in FeedBatches
  <2>1. b + 1 \in 1..RunLength /\ (b + 1) - 1 = b
    BY <1>0, <1>2, <1>3
  <2>2. DataBefore(seq) \in Nat
    BY <1>0, BeforeStep
  <2>3. b = kRecordsPerDatagram * DataBefore(seq) + 0
    BY <1>3 DEF Before
  <2>4. b % kRecordsPerDatagram = 0
    BY <1>0, <1>3, <2>2, <2>3, DivisionUnique
  <2>5. ((b + 1) - 1) % kRecordsPerDatagram = 0
    BY <2>1, <2>4
  <2> QED
    BY <1>2, <2>1, <2>5 DEF FeedBatches
<1>5. left = RunLength - b /\ size \in Nat \ {0} /\ size <= kRecordsPerDatagram
  BY <1>0, <1>2, <1>3
<1>6. d.records = [k \in 1..size |-> Record(d.run, (b + 1) + k - 1)]
  BY <1>2 DEF BatchFrom
<1>7. Top(seq) = b /\ Top(seq) < RunLength /\ Top(seq + 1) = b + size
  BY <1>0, <1>2, <1>3, <1>5 DEF Top, Least
<1> HIDE DEF size, left, b
<1>8. Len(d.records) = size
  BY <1>5, <1>6
<1>9. ASSUME NEW i \in 1..Len(d.records)
      PROVE  d.records[i].n = b + i
  <2>1. d.records[i] = Record(d.run, (b + 1) + i - 1)
    BY <1>6, <1>8
  <2>2. (b + 1) + i - 1 = b + i
    BY <1>3
  <2> QED
    BY <2>1, <2>2 DEF Record
<1> QED
  BY <1>0, <1>4, <1>5, <1>7, <1>8, <1>9
-----------------------------------------------------------------------------
\* The engine's end refines the abstract source: what it hands out are batches
\* whole, as they were formed, whatever the network loses, repeats or reorders,
\* and overwriting the receive buffer never disturbs a batch half read.
THEOREM RefinesRecordSource == Spec => ImplementsRecordSource
<1>1. Init => Promised!Init
  BY DEF Init, SourceInit, Promised!Init
<1>2. TypeOK /\ NetOrdered /\ [Next]_vars => [Promised!Next]_(Promised!rsVars)
  <2> SUFFICES ASSUME TypeOK, NetOrdered, [Next]_vars
               PROVE  [Promised!Next]_(Promised!rsVars)
    OBVIOUS
  <2> DEFINE phase == IF src_state = "await" THEN "opening" ELSE src_state
  <2>1. CASE SinkStep \/ UNCHANGED vars
    BY <2>1 DEF SinkStep, vars, srcVars, bufferVars, Promised!rsVars
  <2>2. CASE Hand
    <3>1. /\ Queued # <<>> /\ delivered' = Append(delivered, Head(Queued))
          /\ Queued' = Tail(Queued)
      BY <2>2, HandMoves DEF TypeOK
    <3>2. phase = "streaming" /\ phase' = phase
      BY <2>2 DEF Hand
    <3> QED
      BY <3>1, <3>2 DEF Queued, Promised!Next, Promised!Return
  <2>3. ASSUME NEW d \in net, StreamData(d)
        PROVE  Promised!Next
    <3>1. Queued = <<>> /\ Queued' = d.records /\ delivered' = delivered
      BY <2>3, StreamDataQueues DEF StreamData
    <3>2. phase = "streaming" /\ phase' = phase /\ d.type = "Data"
      BY <2>3 DEF StreamData, Drained
    <3>3. d.records \in FeedBatches
      BY <3>2, BatchInFlight
    <3> QED
      BY <3>1, <3>2, <3>3 DEF Queued, Promised!Next, Promised!Fetch
  <2>4. ASSUME \/ \E d \in net : AwaitData(d) \/ AwaitAnnounce(d) \/ AwaitBadAnnounce(d)
                                 \/ StreamAnnounce(d)
               \/ ReceiveMalformed \/ GiveUp
        PROVE  [Promised!Next]_(Promised!rsVars)
    <3>1. Queued = <<>> /\ Queued' = <<>> /\ delivered' = delivered
      BY <2>4, OthersQueueNothing
    <3>2. \/ phase' = phase
          \/ phase = "opening" /\ phase' \in {"streaming", "failed"}
          \/ phase = "streaming" /\ phase' \in {"ended", "failed"}
      BY <2>4 DEF AwaitData, AwaitAnnounce, AwaitBadAnnounce, StreamAnnounce, Drained,
                  ReceiveMalformed, GiveUp, Receiving, StateAfterSilence
    <3> QED
      BY <3>1, <3>2 DEF Queued, Promised!Next, Promised!Start, Promised!Stop, Promised!rsVars
  <2> QED
    BY <2>1, <2>2, <2>3, <2>4 DEF Next, SourceStep, SourceNext, ReceiveSome
<1> QED
  BY <1>1, <1>2, TypeCorrect, FeedIsOrdered, PTL
     DEF Spec, ImplementsRecordSource, Promised!Spec
-----------------------------------------------------------------------------
\* What makes CleanCountersMeanCleanFeed inductive, on what was returned and
\* what is still due together: how far into the run the expected number is
\* bounds every record, and with clean counters it is where the last one stands.
StreamInOrder ==
    /\ src_state = "await" => Stream = <<>>
    /\ \A i \in 1..Len(Stream) : Stream[i].n <= Top(expected_seq)
    /\ reordered = 0 =>
          \A i, j \in 1..Len(Stream) : i < j => Stream[i].n < Stream[j].n
    /\ reordered = 0 /\ lost = 0 /\ ~stray_heard =>
          \A i \in 1..Len(Stream) : Stream[i].n + (Len(Stream) - i) = Top(expected_seq)

LEMMA StreamType ==
    ASSUME SourceTypeOK
    PROVE  /\ Stream \in Seq(Records) /\ Len(Stream) \in Nat
           /\ Len(Stream) = Len(delivered) + Len(Queued)
           /\ \A i \in 1..Len(Stream) : Stream[i].n \in Nat
           /\ \A i \in 1..Len(delivered) : i \in 1..Len(Stream) /\ Stream[i] = delivered[i]
<1>1. delivered \in Seq(Records) /\ Queued \in Seq(Records)
  BY QueuedIs DEF SourceTypeOK
<1>2. Len(delivered) \in Nat /\ Len(Queued) \in Nat
  BY <1>1
<1>3. /\ Stream \in Seq(Records) /\ Len(Stream) = Len(delivered) + Len(Queued)
      /\ \A i \in 1..Len(delivered) + Len(Queued) :
            Stream[i] = IF i <= Len(delivered) THEN delivered[i] ELSE Queued[i - Len(delivered)]
  BY <1>1, ConcatProperties DEF Stream
<1>4. \A i \in 1..Len(Stream) : Stream[i].n \in Nat
  <2> SUFFICES ASSUME NEW i \in 1..Len(Stream)
               PROVE  Stream[i].n \in Nat
    OBVIOUS
  <2>1. Stream[i] \in Records
    BY <1>3, ElementOfSeq
  <2> QED
    BY <2>1, FramingConstants DEF Records
<1> QED
  BY <1>2, <1>3, <1>4

\* Steps that receive nothing of the feed keep the order.
LEMMA OrderUntouched ==
    ASSUME StreamInOrder, Stream' = Stream,
           UNCHANGED <<expected_seq, lost, reordered, stray_heard>>,
           src_state' = "await" => src_state = "await"
    PROVE  StreamInOrder'
BY DEF StreamInOrder

\* One more batch, where it is due or later, keeps the order.
LEMMA OrderKept ==
    ASSUME TypeOK, NetOrdered, StreamInOrder, NEW d \in net, StreamData(d)
    PROVE  StreamInOrder'
<1> DEFINE seq == d.datagram_seq
           R == d.records
           S == Stream
           T == S \o R
<1>1. /\ seq \in Nat /\ Top(seq) < RunLength /\ Len(R) \in Nat \ {0}
      /\ Top(seq) + Len(R) = Top(seq + 1)
      /\ \A i \in 1..Len(R) : R[i].n = Top(seq) + i
  BY BatchInFlight DEF StreamData
<1>2. /\ S \in Seq(Records) /\ R \in Seq(Records) /\ Len(S) \in Nat
      /\ \A i \in 1..Len(S) : S[i].n \in Nat
  BY StreamType, DatagramFields DEF TypeOK
<1>3. /\ T \in Seq(Records) /\ Len(T) = Len(S) + Len(R)
      /\ \A i \in 1..Len(S) + Len(R) : T[i] = IF i <= Len(S) THEN S[i] ELSE R[i - Len(S)]
  BY <1>2, ConcatProperties
<1>4. /\ Stream' = T /\ src_state' # "await"
      /\ expected_seq' = SeqAfter(seq)
      /\ lost' = lost + GapBefore(seq)
      /\ reordered' = reordered + (IF seq < expected_seq THEN 1 ELSE 0)
      /\ UNCHANGED stray_heard
  BY StreamDataQueues DEF StreamData, Drained, ReadDatagram, CountLoss
<1>5. expected_seq \in Nat /\ lost \in Nat /\ reordered \in Nat
  BY DEF TypeOK, SourceTypeOK
<1>6. /\ expected_seq' \in Nat /\ expected_seq <= expected_seq' /\ seq + 1 <= expected_seq'
      /\ reordered' = 0 => reordered = 0 /\ expected_seq <= seq /\ expected_seq' = seq + 1
      /\ reordered' = 0 /\ lost' = 0 => lost = 0 /\ expected_seq = seq
  BY <1>1, <1>4, <1>5 DEF SeqAfter, GapBefore
<1>7. /\ Top(expected_seq) \in Nat /\ Top(seq) \in Nat /\ Top(expected_seq') \in Nat
      /\ Top(expected_seq) <= Top(expected_seq') /\ Top(seq + 1) <= Top(expected_seq')
      /\ expected_seq <= seq => Top(expected_seq) <= Top(seq)
  <2>1. seq + 1 \in Nat
    BY <1>1
  <2>2. Top(expected_seq) \in Nat /\ Top(seq) \in Nat /\ Top(expected_seq') \in Nat
    BY <1>1, <1>5, <1>6, TopFacts
  <2>3. Top(expected_seq) <= Top(expected_seq') /\ Top(seq + 1) <= Top(expected_seq')
    BY <1>5, <1>6, <2>1, TopFacts
  <2>4. expected_seq <= seq => Top(expected_seq) <= Top(seq)
    BY <1>1, <1>5, TopFacts
  <2> QED
    BY <2>2, <2>3, <2>4
<1>8. /\ \A i \in 1..Len(S) : T[i].n = S[i].n /\ S[i].n \in Nat
      /\ \A i \in 1..Len(T) : i \notin 1..Len(S) =>
           /\ i > Len(S) /\ i - Len(S) \in 1..Len(R)
           /\ T[i].n = Top(seq) + (i - Len(S))
  <2>1. \A i \in 1..Len(S) : T[i].n = S[i].n /\ S[i].n \in Nat
    BY <1>2, <1>3
  <2>2. ASSUME NEW i \in 1..Len(T), i \notin 1..Len(S)
        PROVE  /\ i > Len(S) /\ i - Len(S) \in 1..Len(R)
               /\ T[i].n = Top(seq) + (i - Len(S))
    <3>1. i > Len(S) /\ i - Len(S) \in 1..Len(R) /\ T[i] = R[i - Len(S)]
      BY <1>1, <1>2, <1>3, <2>2
    <3> QED
      BY <1>1, <3>1
  <2> QED
    BY <2>1, <2>2
<1>9. \A i \in 1..Len(S) : S[i].n <= Top(expected_seq)
  BY DEF StreamInOrder
<1> HIDE DEF T, S, R, seq
<1>10. \A i \in 1..Len(T) : T[i].n <= Top(expected_seq')
  <2> SUFFICES ASSUME NEW i \in 1..Len(T)
               PROVE  T[i].n <= Top(expected_seq')
    OBVIOUS
  <2>1. CASE i \in 1..Len(S)
    <3>1. T[i].n = S[i].n /\ S[i].n <= Top(expected_seq) /\ S[i].n \in Nat
      BY <1>2, <1>8, <1>9, <2>1
    <3> QED
      BY <1>7, <3>1
  <2>2. CASE i \notin 1..Len(S)
    <3>1. T[i].n = Top(seq) + (i - Len(S)) /\ i - Len(S) \in 1..Len(R)
      BY <1>8, <2>2
    <3> QED
      BY <1>1, <1>7, <3>1
  <2> QED
    BY <2>1, <2>2
<1>11. ASSUME reordered' = 0, NEW i \in 1..Len(T), NEW j \in 1..Len(T), i < j
       PROVE  T[i].n < T[j].n
  <2>1. /\ Top(expected_seq) <= Top(seq)
        /\ \A k, l \in 1..Len(S) : k < l => S[k].n < S[l].n
    BY <1>6, <1>7, <1>11 DEF StreamInOrder, S
  <2>2. CASE i \in 1..Len(S) /\ j \in 1..Len(S)
    <3>1. T[i].n = S[i].n /\ T[j].n = S[j].n
      BY <1>8, <2>2
    <3>2. S[i].n < S[j].n
      BY <1>11, <2>1, <2>2
    <3> QED
      BY <3>1, <3>2
  <2>3. CASE i \in 1..Len(S) /\ j \notin 1..Len(S)
    <3>0. T[i].n = S[i].n /\ S[i].n <= Top(expected_seq) /\ S[i].n \in Nat
      BY <1>2, <1>8, <1>9, <2>3
    <3>1. T[i].n <= Top(seq) /\ T[i].n \in Nat
      BY <1>7, <2>1, <3>0
    <3>2. T[j].n = Top(seq) + (j - Len(S)) /\ j - Len(S) \in 1..Len(R)
      BY <1>8, <2>3
    <3> QED
      BY <1>1, <1>7, <3>1, <3>2, SMTT(20)
  <2>4. CASE i \notin 1..Len(S)
    <3>1. j \notin 1..Len(S)
      BY <1>2, <1>3, <1>11, <2>4
    <3>2. T[i].n = Top(seq) + (i - Len(S)) /\ T[j].n = Top(seq) + (j - Len(S))
      BY <1>8, <2>4, <3>1
    <3> QED
      BY <1>1, <1>2, <1>3, <1>7, <1>11, <3>2, SMTT(20)
  <2> QED
    BY <2>2, <2>3, <2>4
<1>12. ASSUME reordered' = 0, lost' = 0, ~stray_heard', NEW i \in 1..Len(T)
       PROVE  T[i].n + (Len(T) - i) = Top(expected_seq')
  <2>1. /\ reordered = 0 /\ lost = 0 /\ expected_seq = seq /\ expected_seq' = seq + 1
    BY <1>6, <1>12
  <2>2. ~stray_heard
    BY <1>4, <1>12
  <2>3. \A k \in 1..Len(S) : S[k].n + (Len(S) - k) = Top(seq)
    BY <2>1, <2>2 DEF StreamInOrder, S
  <2>4. Top(expected_seq') = Top(seq) + Len(R)
    BY <1>1, <2>1
  <2>5. CASE i \in 1..Len(S)
    <3>1. T[i].n = S[i].n /\ S[i].n \in Nat /\ S[i].n + (Len(S) - i) = Top(seq)
      BY <1>2, <1>8, <2>3, <2>5
    <3>2. i \in Int /\ Len(T) = Len(S) + Len(R) /\ Len(S) \in Nat /\ Len(R) \in Nat
      BY <1>1, <1>2, <1>3
    <3>3. T[i].n + (Len(T) - i) = Top(seq) + Len(R)
      BY <1>7, <3>1, <3>2, SMTT(30)
    <3> QED
      BY <2>4, <3>3
  <2>6. CASE i \notin 1..Len(S)
    <3>1. T[i].n = Top(seq) + (i - Len(S))
      BY <1>8, <2>6
    <3>2. i \in Int /\ Len(T) = Len(S) + Len(R) /\ Len(S) \in Nat /\ Len(R) \in Nat
      BY <1>1, <1>2, <1>3
    <3>3. Top(seq) \in Nat
      BY <1>7
    <3>4. T[i].n + (Len(T) - i) = Top(seq) + Len(R)
      BY <3>1, <3>2, <3>3
    <3> QED
      BY <2>4, <3>4
  <2> QED
    BY <2>5, <2>6
<1> QED
  BY <1>4, <1>10, <1>11, <1>12 DEF StreamInOrder

\* One more announce, where one is due or later, keeps the order; a stray may
\* take up a number, and is then known to have been heard.
LEMMA OrderSurvivesAnnounce ==
    ASSUME TypeOK, NetOrdered, StreamInOrder, NEW d \in net, StreamAnnounce(d)
    PROVE  StreamInOrder'
<1> DEFINE seq == d.datagram_seq
<1>1. /\ Stream' = Stream /\ src_state' # "await"
      /\ expected_seq' = SeqAfter(seq)
      /\ lost' = lost + GapBefore(seq)
      /\ reordered' = reordered + (IF seq < expected_seq THEN 1 ELSE 0)
      /\ stray_heard' = (stray_heard \/ ~Usable(d.announce)) /\ d.type = "Announce"
  BY OthersQueueNothing DEF StreamAnnounce, Drained, ReadDatagram, CountLoss
<1>2. seq \in Nat /\ expected_seq \in Nat /\ lost \in Nat /\ reordered \in Nat
  BY DatagramFields DEF TypeOK, SourceTypeOK
<1>3. /\ expected_seq' \in Nat /\ expected_seq <= expected_seq'
      /\ reordered' = 0 => reordered = 0
      /\ reordered' = 0 /\ lost' = 0 => lost = 0 /\ expected_seq = seq /\ expected_seq' = seq + 1
  BY <1>1, <1>2 DEF SeqAfter, GapBefore
<1>4. /\ Top(expected_seq) \in Nat /\ Top(expected_seq') \in Nat
      /\ Top(expected_seq) <= Top(expected_seq')
  BY <1>2, <1>3, TopFacts
<1>5. \A i \in 1..Len(Stream) : Stream[i].n <= Top(expected_seq')
  BY <1>4, StreamType DEF StreamInOrder, TypeOK
<1>6. ASSUME reordered' = 0, lost' = 0, ~stray_heard'
      PROVE  Top(expected_seq') = Top(expected_seq) /\ ~stray_heard
  <2>0. d.announce.record_size = kOddsUpdateSize /\ ~stray_heard
    BY <1>1, <1>6 DEF Usable
  <2>1. d \notin Strays
    BY <2>0, FramingConstants
  <2>2. AnnounceAt(seq)
    BY <1>1, <2>1 DEF NetOrdered
  <2>3. Before(seq + 1) = Before(seq)
    BY <1>2, <2>2, BeforeStep
  <2> QED
    BY <1>3, <1>6, <2>0, <2>3 DEF Top
<1> QED
  BY <1>1, <1>3, <1>5, <1>6 DEF StreamInOrder

\* With nothing counted as reordered the engine saw records in publication order
\* and none twice; with nothing lost and no stray either, without a gap.
THEOREM CleanCountersHolds == Spec => []CleanCountersMeanCleanFeed
<1>1. Init => StreamInOrder
  <2> SUFFICES ASSUME Init PROVE StreamInOrder
    OBVIOUS
  <2>1. Queued = <<>> /\ delivered = <<>>
    BY DEF Init, SourceInit, Queued
  <2>2. Stream = <<>>
    BY <2>1 DEF Stream
  <2>3. Len(Stream) = 0
    BY <2>2
  <2> QED
    BY <2>2, <2>3 DEF StreamInOrder
<1>2. TypeOK /\ NetOrdered /\ StreamInOrder /\ [Next]_vars => StreamInOrder'
  <2> SUFFICES ASSUME TypeOK, NetOrdered, StreamInOrder, [Next]_vars
               PROVE  StreamInOrder'
    OBVIOUS
  <2>1. CASE SinkStep \/ UNCHANGED vars
    <3>1. UNCHANGED srcVars
      BY <2>1 DEF SinkStep, vars
    <3> QED
      BY <3>1, OrderUntouched DEF srcVars, bufferVars, counterVars, Stream, Queued
  <2>2. CASE Hand
    BY <2>2, HandMoves, OrderUntouched DEF TypeOK, Hand, counterVars
  <2>3. CASE ReceiveMalformed \/ GiveUp
    <3>1. Stream' = Stream
      BY <2>3, OthersQueueNothing
    <3>2. /\ UNCHANGED <<expected_seq, lost, reordered, stray_heard>>
          /\ src_state' = "await" => src_state = "await"
      BY <2>3 DEF ReceiveMalformed, GiveUp, StateAfterSilence, counterVars
    <3> QED
      BY <3>1, <3>2, OrderUntouched
  <2>4. ASSUME NEW d \in net, AwaitData(d) \/ AwaitAnnounce(d) \/ AwaitBadAnnounce(d)
        PROVE  StreamInOrder'
    <3>1. Stream' = Stream
      BY <2>4, OthersQueueNothing
    <3>2. src_state = "await"
      BY <2>4 DEF AwaitData, AwaitAnnounce, AwaitBadAnnounce
    <3>3. Stream' = <<>>
      BY <3>1, <3>2 DEF StreamInOrder
    <3>4. Len(Stream') = 0
      BY <3>3
    <3> QED
      BY <3>3, <3>4 DEF StreamInOrder
  <2> QED
    BY <2>1, <2>2, <2>3, <2>4, OrderKept, OrderSurvivesAnnounce
       DEF Next, SourceStep, SourceNext, ReceiveSome
<1>3. TypeOK /\ StreamInOrder => CleanCountersMeanCleanFeed
  <2> SUFFICES ASSUME TypeOK, StreamInOrder, reordered = 0,
                      NEW i \in DOMAIN delivered, NEW j \in DOMAIN delivered, i < j
               PROVE  /\ delivered[i].n < delivered[j].n
                      /\ lost = 0 /\ ~stray_heard => delivered[j].n = delivered[i].n + (j - i)
    BY DEF CleanCountersMeanCleanFeed
  <2>1. /\ i \in 1..Len(Stream) /\ Stream[i] = delivered[i] /\ Stream[i].n \in Nat
        /\ j \in 1..Len(Stream) /\ Stream[j] = delivered[j] /\ Stream[j].n \in Nat
        /\ Len(Stream) \in Nat
    <3>1. DOMAIN delivered = 1..Len(delivered)
      BY DEF TypeOK, SourceTypeOK
    <3> QED
      BY <3>1, StreamType DEF TypeOK
  <2>2. Stream[i].n < Stream[j].n
    BY <2>1 DEF StreamInOrder
  <2>3. ASSUME lost = 0, ~stray_heard
        PROVE  Stream[j].n = Stream[i].n + (j - i)
    <3> DEFINE a == Stream[i].n
               b == Stream[j].n
               l == Len(Stream)
               top == Top(expected_seq)
    <3>1. a + (l - i) = top /\ b + (l - j) = top
      BY <2>1, <2>3 DEF StreamInOrder
    <3>2. i \in Int /\ j \in Int /\ a \in Int /\ b \in Int /\ l \in Int
      BY <2>1
    <3>4. top \in Int
      <4>1. expected_seq \in Nat
        BY DEF TypeOK, SourceTypeOK
      <4> QED
        BY <4>1, TopFacts
    <3> HIDE DEF a, b, l, top
    <3>3. b = a + (j - i)
      BY <3>1, <3>2, <3>4
    <3> QED
      BY <3>3 DEF a, b
  <2> QED
    BY <2>1, <2>2, <2>3
<1> QED
  BY <1>1, <1>2, <1>3, TypeCorrect, FeedIsOrdered, PTL DEF Spec
=============================================================================
