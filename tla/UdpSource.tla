------------------------------- MODULE UdpSource -------------------------------
(***************************************************************************)
(* The engine's end of the live feed (src/engine/UdpSource.hpp). The       *)
(* constructor awaits an announce; next() hands out the records of the     *)
(* receive buffer and receives again only when it is used up. Each recv()  *)
(* and each record handed out is one step.                                 *)
(***************************************************************************)
EXTENDS UdpFraming

VARIABLES
    src_state,  \* "await" in the constructor, "streaming", "ended" or "failed"
    header,     \* what the accepted announce said
    buf,        \* the records of the datagram last received
    in_buffer, cursor,
    expected_seq, lost, reordered,
    datagrams, malformed, pre_announce, announces,
    delivered,  \* history: the records next() returned
    baseline,   \* history: expected_seq and datagrams when streaming began
    got,        \* history: the datagram numbers received since then
    stray_heard \* history: an announce of another build was among them

counterVars == <<expected_seq, lost, reordered, datagrams>>
bufferVars == <<buf, in_buffer, cursor>>
srcVars == <<src_state, header, bufferVars, counterVars, malformed, pre_announce,
             announces, delivered, baseline, got, stray_heard>>

NoHeader == [seed |-> 0, markets |-> 0, books |-> 0]

SourceInit ==
    /\ src_state = "await"
    /\ header = NoHeader
    /\ buf = <<>>
    /\ in_buffer = 0
    /\ cursor = 0
    /\ expected_seq = 0
    /\ lost = 0
    /\ reordered = 0
    /\ datagrams = 0
    /\ malformed = 0
    /\ pre_announce = 0
    /\ announces = 0
    /\ delivered = <<>>
    /\ baseline = [seq |-> 0, datagrams |-> 0]
    /\ got = {}
    /\ stray_heard = FALSE

ShapeOf(a) == [seed |-> a.seed, markets |-> a.markets, books |-> a.books]

\* Mutants: a gap leaves the number just seen expected; the gap counts its own
\* end; the gap is not guarded, so a late number takes back a loss; a gap of one
\* number is not counted.
SeqAtGap(seq) ==
    IF seq > expected_seq THEN seq ELSE IF seq = expected_seq THEN seq + 1 ELSE expected_seq
GapIncluding(seq) == IF seq > expected_seq THEN seq - expected_seq + 1 ELSE 0
GapUnguarded(seq) == seq - expected_seq
GapFromTwo(seq) == IF seq > expected_seq + 1 THEN seq - expected_seq ELSE 0

\* The expected number after seeing one, and the gap that number leaves.
SeqAfter(seq) == IF seq >= expected_seq THEN seq + 1 ELSE expected_seq
GapBefore(seq) == IF seq > expected_seq THEN seq - expected_seq ELSE 0

\* read_datagram(): recv() overwrites the buffer, then the sequence numbers of
\* both datagram types are accounted for.
ReadDatagram(d) ==
    /\ Receive(d)
    /\ buf' = d.records
    /\ expected_seq' = SeqAfter(d.datagram_seq)
    /\ datagrams' = datagrams + 1

CountLoss(d) ==
    /\ lost' = lost + GapBefore(d.datagram_seq)
    /\ reordered' = reordered + (IF d.datagram_seq < expected_seq THEN 1 ELSE 0)

Usable(a) == a.record_size = kOddsUpdateSize /\ a.markets # 0 /\ a.books # 0

\* await_announce() discards data: the feed's shape is not known yet.
AwaitData(d) ==
    /\ src_state = "await"
    /\ d.type = "Data"
    /\ ReadDatagram(d)
    /\ CountLoss(d)
    /\ pre_announce' = pre_announce + 1
    /\ UNCHANGED <<src_state, header, in_buffer, cursor, malformed, announces,
                   delivered, baseline, got, stray_heard>>

\* The first usable announce gives the header and resets the baseline.
AwaitAnnounce(d) ==
    /\ src_state = "await"
    /\ d.type = "Announce"
    /\ Usable(d.announce)
    /\ ReadDatagram(d)
    /\ src_state' = "streaming"
    /\ header' = ShapeOf(d.announce)
    /\ announces' = announces + 1
    /\ lost' = 0
    /\ reordered' = 0
    /\ in_buffer' = 0
    /\ cursor' = 0
    /\ baseline' = [seq |-> SeqAfter(d.datagram_seq), datagrams |-> datagrams + 1]
    /\ UNCHANGED <<malformed, pre_announce, delivered, got, stray_heard>>

\* An announce the engine's build cannot read ends the constructor.
AwaitBadAnnounce(d) ==
    /\ src_state = "await"
    /\ d.type = "Announce"
    /\ ~Usable(d.announce)
    /\ ReadDatagram(d)
    /\ CountLoss(d)
    /\ src_state' = "failed"
    /\ UNCHANGED <<header, in_buffer, cursor, malformed, pre_announce, announces,
                   delivered, baseline, got, stray_heard>>

\* Mutant of Hand: one record of each datagram.
HandOne ==
    /\ src_state = "streaming"
    /\ cursor < in_buffer
    /\ delivered' = Append(delivered, buf[cursor + 1])
    /\ cursor' = in_buffer
    /\ UNCHANGED <<netVars, src_state, header, buf, in_buffer, counterVars,
                   malformed, pre_announce, announces, baseline, got, stray_heard>>

\* next() with records left in the buffer.
Hand ==
    /\ src_state = "streaming"
    /\ cursor < in_buffer
    /\ delivered' = Append(delivered, buf[cursor + 1])
    /\ cursor' = cursor + 1
    /\ UNCHANGED <<netVars, src_state, header, buf, in_buffer, counterVars,
                   malformed, pre_announce, announces, baseline, got, stray_heard>>

\* receive_one() runs only once the buffer is used up.
Drained == src_state = "streaming" /\ cursor >= in_buffer

StreamData(d) ==
    /\ Drained
    /\ d.type = "Data"
    /\ ReadDatagram(d)
    /\ CountLoss(d)
    /\ in_buffer' = Len(d.records)
    /\ cursor' = 0
    /\ got' = got \union {d.datagram_seq}
    /\ UNCHANGED <<src_state, header, malformed, pre_announce, announces,
                   delivered, baseline, stray_heard>>

\* A mid-stream announce must repeat the shape, or next() throws. Its record
\* size is not asked for, so a stray may pass.
StreamAnnounce(d) ==
    /\ Drained
    /\ d.type = "Announce"
    /\ ReadDatagram(d)
    /\ CountLoss(d)
    /\ got' = got \union {d.datagram_seq}
    /\ stray_heard' = (stray_heard \/ ~Usable(d.announce))
    /\ IF ShapeOf(d.announce) = header
       THEN announces' = announces + 1 /\ UNCHANGED src_state
       ELSE src_state' = "failed" /\ UNCHANGED announces
    /\ UNCHANGED <<header, in_buffer, cursor, malformed, pre_announce,
                   delivered, baseline>>

Receiving == src_state = "await" \/ Drained

\* A datagram of something else on the port: counted, and the buffer is gone.
ReceiveMalformed ==
    /\ Receiving
    /\ malformed < MaxMalformed
    /\ malformed' = malformed + 1
    /\ buf' = <<>>
    /\ UNCHANGED <<netVars, src_state, header, in_buffer, cursor, counterVars,
                   pre_announce, announces, delivered, baseline, got, stray_heard>>

\* Mutant of StateAfterSilence: the timeout is tried again.
StateAfterRetry == src_state

StateAfterSilence == IF src_state = "await" THEN "failed" ELSE "ended"

\* recv() gives up, on a timeout or an error alike: the constructor throws and
\* next() reports the end of the stream.
GiveUp ==
    /\ Receiving
    /\ src_state' = StateAfterSilence
    /\ UNCHANGED <<netVars, header, bufferVars, counterVars, malformed, pre_announce,
                   announces, delivered, baseline, got, stray_heard>>

ReceiveSome ==
    \E d \in net :
        \/ AwaitData(d) \/ AwaitAnnounce(d) \/ AwaitBadAnnounce(d)
        \/ StreamData(d) \/ StreamAnnounce(d)

SourceNext == Hand \/ ReceiveSome \/ ReceiveMalformed \/ GiveUp
=============================================================================
