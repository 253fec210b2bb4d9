------------------------------ MODULE UdpCapture ------------------------------
(***************************************************************************)
(* The live feed and the tool that captures it to a session file           *)
(* (src/tools/udp_listen.cpp), with the verdict of                         *)
(* src/tools/verify_session.cpp on what it leaves. The tool numbers from 0 *)
(* on and needs no announce, unlike the engine's source.                   *)
(***************************************************************************)
EXTENDS UdpSink, SequencesExt

VARIABLES
    ln_state,   \* "listening", "closing", "closed" or "dead"
    datagrams, expected_seq, gaps, reordered, malformed,
    ann,        \* the shape last announced, NoAnnounce before
    captured,   \* the records fwrite() was given
    file        \* the capture on disk: count and markets of its header, records

counterVars == <<expected_seq, gaps, reordered>>
lnVars == <<ln_state, datagrams, counterVars, malformed, ann, captured, file>>
vars == <<netVars, sinkVars, lnVars>>

NoAnnounce == [markets |-> 0]
EmptyCapture == [count |-> 0, markets |-> 0, records |-> <<>>]

ListenerInit ==
    /\ ln_state = "listening"
    /\ datagrams = 0 /\ expected_seq = 0 /\ gaps = 0 /\ reordered = 0 /\ malformed = 0
    /\ ann = NoAnnounce
    /\ captured = <<>>
    /\ file = EmptyCapture

\* The simulator is restarted with its command line, so its runs are the same.
ASSUME RestartsRepeat == \A r \in Runs : Sessions[r] = Sessions[1]

\* The fields of a record in a session whose books quote at every tick.
Slots == Sessions[1].markets * Sessions[1].books
MarketOf(r) == ((r.n - 1) % Slots) \div Sessions[1].books
BookOf(r) == (r.n - 1) % Sessions[1].books
TickOf(r) == (r.n - 1) \div Slots
-----------------------------------------------------------------------------
\* Mutant of Count: a late number takes the numbering back.
CountTakenBack(seq) ==
    /\ gaps' = gaps + (IF seq > expected_seq THEN seq - expected_seq ELSE 0)
    /\ expected_seq' = seq + 1
    /\ UNCHANGED reordered

\* Numbers passed over are gaps, a late number is counted and changes nothing.
Count(seq) ==
    /\ gaps' = gaps + (IF seq > expected_seq THEN seq - expected_seq ELSE 0)
    /\ reordered' = reordered + (IF seq < expected_seq THEN 1 ELSE 0)
    /\ expected_seq' = IF seq < expected_seq THEN expected_seq ELSE seq + 1

\* Mutant of HearAnnounce: an announce is no datagram to the idle timeout.
HearSilentAnnounce(d) ==
    /\ ln_state = "listening" /\ d.type = "Announce"
    /\ Receive(d) /\ Count(d.datagram_seq)
    /\ ann' = [markets |-> d.announce.markets]
    /\ UNCHANGED <<ln_state, datagrams, malformed, captured, file>>

\* The shape announced last is the one that will stand in the header.
HearAnnounce(d) ==
    /\ ln_state = "listening" /\ d.type = "Announce"
    /\ Receive(d) /\ Count(d.datagram_seq)
    /\ ann' = [markets |-> d.announce.markets]
    /\ datagrams' = datagrams + 1
    /\ UNCHANGED <<ln_state, malformed, captured, file>>

\* The records are captured as they come, a late datagram's too.
HearData(d) ==
    /\ ln_state = "listening" /\ d.type = "Data"
    /\ Receive(d) /\ Count(d.datagram_seq)
    /\ captured' = captured \o d.records
    /\ datagrams' = datagrams + 1
    /\ UNCHANGED <<ln_state, malformed, ann, file>>

HearMalformed ==
    /\ ln_state = "listening"
    /\ malformed < MaxMalformed
    /\ malformed' = malformed + 1
    /\ UNCHANGED <<netVars, ln_state, datagrams, counterVars, ann, captured, file>>

\* recv() times out: the tool may have been started before the simulator, so
\* it waits on until there was a datagram.
Silence ==
    /\ ln_state = "listening"
    /\ ln_state' = IF datagrams = 0 THEN "listening" ELSE "closing"
    /\ UNCHANGED <<netVars, datagrams, counterVars, malformed, ann, captured, file>>

\* Any other error of recv() ends the capture like a silence.
RecvError ==
    /\ ln_state = "listening"
    /\ ln_state' = "closing"
    /\ UNCHANGED <<netVars, datagrams, counterVars, malformed, ann, captured, file>>

\* The header's number of markets: announced, or as many as were seen.
CaptureMarkets ==
    IF ann = NoAnnounce THEN 1 + Max({0} \union {MarketOf(r) : r \in ToSet(captured)})
                        ELSE ann.markets

\* Mutant of CloseCapture: the count is of datagrams.
CloseCounting ==
    /\ ln_state = "closing" /\ ln_state' = "closed"
    /\ \E k \in 0..Len(captured) :
          file' = [count |-> datagrams, markets |-> CaptureMarkets,
                   records |-> SubSeq(captured, 1, k)]
    /\ UNCHANGED <<netVars, datagrams, counterVars, malformed, ann, captured>>

\* The header is patched over its first bytes and the count comes last. What
\* fwrite() still holds is written out by the first fseek(), whose failure,
\* on a full disk, goes unnoticed: then the file is short.
CloseCapture ==
    /\ ln_state = "closing" /\ ln_state' = "closed"
    /\ \E k \in 0..Len(captured) :
          file' = [count |-> Len(captured), markets |-> CaptureMarkets,
                   records |-> SubSeq(captured, 1, k)]
    /\ UNCHANGED <<netVars, datagrams, counterVars, malformed, ann, captured>>

\* A write that fails while listening, or a kill: the count is still 0.
Abort ==
    /\ ln_state \in {"listening", "closing"}
    /\ ln_state' = "dead"
    /\ \E k \in 0..Len(captured) : file' = [file EXCEPT !.records = SubSeq(captured, 1, k)]
    /\ UNCHANGED <<netVars, datagrams, counterVars, malformed, ann, captured>>

Hear == \E d \in net : HearAnnounce(d) \/ HearData(d)

ListenerStep == (Hear \/ Silence \/ CloseCapture) /\ UNCHANGED sinkVars
MishapStep == (HearMalformed \/ RecvError \/ Abort) /\ UNCHANGED sinkVars
SinkStep == SinkNext /\ UNCHANGED lnVars

Init == net = {} /\ duplicates = 0 /\ SinkInit /\ ListenerInit
Next == SinkStep \/ ListenerStep \/ MishapStep

\* recv() has a timeout and its caller loops, so the tool takes its next step.
\* Mishaps need not happen.
FairSpec == Init /\ [][Next]_vars /\ WF_vars(ListenerStep)
-----------------------------------------------------------------------------
\* The checks verify_session makes of the records it reads: known markets, ticks
\* that do not go back, and numbers that rise in each book of each market.
Orderly(f) ==
    LET rs == f.records
    IN /\ \A i \in DOMAIN rs : MarketOf(rs[i]) < f.markets
       /\ \A i, j \in DOMAIN rs : i < j =>
             /\ TickOf(rs[i]) <= TickOf(rs[j])
             /\ MarketOf(rs[i]) = MarketOf(rs[j]) /\ BookOf(rs[i]) = BookOf(rs[j])
                   => rs[i].n < rs[j].n

\* What it reports: "refused" without a count, "error" when the file ends
\* early, and otherwise whether its checks passed.
Verdict(f) ==
    IF f.count = 0 THEN "refused"
    ELSE IF f.count > Len(f.records) THEN "error"
    ELSE IF Orderly(f) THEN "ok" ELSE "fail"

\* The counters are in their ranges and agree with what has been captured, and
\* nothing but the closed file has a count.
TypeOK ==
    /\ ln_state \in {"listening", "closing", "closed", "dead"}
    /\ <<datagrams, expected_seq, gaps, reordered>> \in Nat \X Nat \X Nat \X Nat
    /\ malformed \in 0..MaxMalformed
    /\ datagrams + gaps = expected_seq + reordered
    /\ ann \in {NoAnnounce} \union {[markets |-> Sessions[r].markets] : r \in Runs}
    /\ captured \in Seq(Records) /\ Len(captured) <= datagrams * kRecordsPerDatagram
    /\ IsPrefix(file.records, captured)
    /\ file.count # 0 => ln_state = "closed"

\* What the tool is for: when it reports no loss and no reordering, what it
\* captured is the session from its first record on, record for record. Once
\* it has heard the simulator's last number, all that is missing is what is
\* still in the simulator's buffer, or died there. And a file that verifies
\* ends where a datagram did. This over loss,
\* repetition, delay, a late start, a full disk, and restarts of the
\* simulator with its seed.
CleanCaptureIsPrefix ==
    gaps = 0 /\ reordered = 0 =>
        /\ \A i \in DOMAIN captured : captured[i].n = i
        /\ expected_seq = datagram_seq =>
              Len(captured) + Len(buffer) = accepted
        /\ Verdict(file) = "ok" =>
              Len(file.records) % kRecordsPerDatagram = 0 \/ Len(file.records) = RunLength

\* verify_session can be trusted with a capture: one it reads to its end holds
\* everything that was received, and it finds fault with the order of one only
\* when the tool has counted reordering.
VerdictIsSound ==
    Verdict(file) \in {"ok", "fail"} =>
        /\ file.records = captured
        /\ Verdict(file) = "fail" => reordered > 0

\* Once anything of the feed was heard the tool ends, by its idle timeout
\* (the loop at src/tools/udp_listen.cpp:95).
ListenerEnds == expected_seq > 0 ~> ln_state \in {"closed", "dead"}
=============================================================================
