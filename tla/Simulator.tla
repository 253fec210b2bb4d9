------------------------------- MODULE Simulator -------------------------------
(***************************************************************************)
(* One run of the simulator (src/sim/main.cpp): the generation loop over   *)
(* ticks, markets and books, the session file and the sidecar files it     *)
(* writes. A latent distribution is named by the tick it was drawn at, a   *)
(* quote by the distribution it was computed from.                         *)
(***************************************************************************)
EXTENDS Integers, Sequences, SequencesExt

CONSTANTS
    Markets,         \* how many markets
    Roster,          \* Roster[b]: lag_ticks and update_interval_ticks of a book
    Ticks,
    kMaxLag,         \* the length of a bookmaker's ring of latent distributions
    kBufferRecords,  \* records per fwrite()
    StdioRecords,    \* the most records stdio holds of a file
    MaxJumps         \* bound: jumps of the latent process

ASSUME SimulatorAssumption ==
    /\ Markets \in Nat \ {0}
    /\ Ticks \in Nat \ {0}
    /\ kMaxLag \in Nat \ {0}
    /\ Roster \in Seq([lag : 0..(kMaxLag - 1), interval : Nat \ {0}]) /\ Roster # <<>>
    /\ kBufferRecords \in Nat \ {0}
    /\ StdioRecords \in Nat
    /\ MaxJumps \in Nat

MarketIds == 0..(Markets - 1)
Books == DOMAIN Roster

VARIABLES
    stage,         \* "generate", then the stages of the end, "done" or "dead"
    tick, market,
    book,          \* the book whose turn it is, 0 for the latent step
    ring, write_idx, seq_no, final_latent,
    buffer,        \* FileSink::buffer_
    record_count,
    written,       \* what fwrite() was given for the session file
    disk,          \* how many of these records are in the file
    header,        \* record_count in the file, NoHeader before there is one
    truth, jumps, settlement,  \* the sidecar files, with what is on its way there
    made,          \* history: the records the sinks were handed
    jumped,        \* history: where the latent process jumped
    cut            \* history: the files that fclose() left short

loopVars == <<tick, market, book, ring, write_idx, seq_no, final_latent>>
fileVars == <<buffer, record_count, written, disk, header>>
sidecarVars == <<truth, jumps, settlement>>
historyVars == <<made, jumped, cut>>
simVars == <<stage, loopVars, fileVars, sidecarVars, historyVars>>

NoHeader == -1
Unset == -1

\* The constructors of the sinks: the files are there, the session's without
\* a count.
SinksInit ==
    /\ buffer = <<>> /\ record_count = 0 /\ written = <<>> /\ disk = 0 /\ header = NoHeader
    /\ truth = <<>> /\ jumps = <<>> /\ settlement = <<>>

Init ==
    /\ stage = "generate"
    /\ tick = 0 /\ market = 0 /\ book = 0
    /\ ring = [m \in MarketIds |-> [b \in Books |-> [i \in 0..(kMaxLag - 1) |-> Unset]]]
    /\ write_idx = [m \in MarketIds |-> [b \in Books |-> 0]]
    /\ seq_no = [b \in Books |-> 0]
    /\ final_latent = [m \in MarketIds |-> Unset]
    /\ SinksInit
    /\ made = <<>> /\ jumped = {} /\ cut = {}
-----------------------------------------------------------------------------
Here == [tick |-> tick, market |-> market]

\* The accept() of the sidecars' sinks: a record goes on its way.
TruthAccept == truth' = Append(truth, Here)
JumpAccept == jumps' = Append(jumps, Here)
SettlementAccept(r) == settlement' = Append(settlement, r)

\* The latent process of the market at hand moves on, and jumps or not.
StepLatent ==
    /\ stage = "generate"
    /\ book = 0
    /\ book' = 1
    /\ final_latent' = [final_latent EXCEPT ![market] = tick]
    /\ TruthAccept
    /\ \/ UNCHANGED <<jumps, jumped>>
       \/ /\ Cardinality(jumped) < MaxJumps
          /\ JumpAccept
          /\ jumped' = jumped \union {Here}
    /\ UNCHANGED <<stage, tick, market, ring, write_idx, seq_no, fileVars, settlement, made, cut>>

\* Mutant of LaggedView: nothing stops the lag at the first distribution.
LaggedUnclamped(view, observed, lag) == view[(observed - 1 - lag + kMaxLag) % kMaxLag]

\* lagged_view(): as many distributions back as the lag, or the first one.
LaggedView(view, observed, lag) ==
    LET back == IF lag >= observed THEN observed - 1 ELSE lag
    IN view[(observed - 1 - back) % kMaxLag]

QuoteRecord(seq, ts, b, m, from) == [seq |-> seq, ts |-> ts, book |-> b, market |-> m, from |-> from]

\* Mutant of FileAccept: the buffer is one record too long.
FileAcceptOverfull(r) ==
    /\ record_count' = record_count + 1
    /\ IF Len(buffer) = kBufferRecords
       THEN written' = written \o buffer /\ buffer' = <<r>>
       ELSE buffer' = Append(buffer, r) /\ UNCHANGED written
    /\ UNCHANGED <<disk, header>>

\* FileSink::accept(): a full buffer is written.
FileAccept(r) ==
    /\ record_count' = record_count + 1
    /\ IF Len(buffer) + 1 = kBufferRecords
       THEN written' = (written \o buffer) \o <<r>> /\ buffer' = <<>>
       ELSE buffer' = Append(buffer, r) /\ UNCHANGED written
    /\ UNCHANGED <<disk, header>>

\* FanoutSink::accept(): the file first, then the feed.
FanoutAccept(r) == FileAccept(r) /\ made' = Append(made, r)

\* Not every book quotes at every tick.
Quotes(b) == tick % Roster[b].interval = 0

\* Mutant of NextSeq: a number is given to a tick, not to a record.
SeqOfTick(b) == tick + 1

NextSeq(b) == seq_no[b] + 1

\* Where the loop goes after a book.
Advance ==
    IF book < Len(Roster)
    THEN book' = book + 1 /\ UNCHANGED <<tick, market, stage>>
    ELSE /\ book' = 0
         /\ market' = IF market + 1 < Markets THEN market + 1 ELSE 0
         /\ tick' = IF market + 1 < Markets THEN tick ELSE tick + 1
         /\ stage' = IF market + 1 = Markets /\ tick + 1 = Ticks THEN "flush" ELSE stage

\* A book sees the new distribution and, when its turn has come, quotes.
QuoteBook ==
    /\ stage = "generate"
    /\ book # 0
    /\ LET view == [ring[market][book] EXCEPT ![write_idx[market][book] % kMaxLag] = tick]
           observed == write_idx[market][book] + 1
           r == QuoteRecord(seq_no[book], tick, book, market,
                            LaggedView(view, observed, Roster[book].lag))
       IN /\ ring' = [ring EXCEPT ![market][book] = view]
          /\ write_idx' = [write_idx EXCEPT ![market][book] = observed]
          /\ IF Quotes(book)
             THEN /\ seq_no' = [seq_no EXCEPT ![book] = NextSeq(book)]
                  /\ FanoutAccept(r)
             ELSE UNCHANGED <<seq_no, made, fileVars>>
    /\ Advance
    /\ UNCHANGED <<final_latent, sidecarVars, jumped, cut>>
-----------------------------------------------------------------------------
\* Mutant of FlushFile: finish() forgets the records it still buffers.
FlushForgotten ==
    /\ stage = "flush"
    /\ stage' = "patch"
    /\ UNCHANGED <<loopVars, fileVars, sidecarVars, historyVars>>

\* FileSink::finish(): flush(), then the count is patched behind an fseek(),
\* which writes out what stdio still holds, then fclose().
FlushFile ==
    /\ stage = "flush"
    /\ stage' = "patch"
    /\ written' = written \o buffer
    /\ buffer' = <<>>
    /\ UNCHANGED <<loopVars, record_count, disk, header, sidecarVars, historyVars>>

PatchCount ==
    /\ stage = "patch"
    /\ stage' = "close"
    /\ disk' = Len(written)
    /\ header' = 0
    /\ UNCHANGED <<loopVars, buffer, record_count, written, sidecarVars, historyVars>>

\* Nobody looks at what fclose() returns. If it fails, the count it had to write
\* stays 0, and the run goes on.
CloseFile ==
    /\ stage = "close"
    /\ stage' = "sidecars"
    /\ \/ header' = record_count /\ UNCHANGED cut
       \/ cut' = cut \union {"session"} /\ UNCHANGED header
    /\ UNCHANGED <<loopVars, buffer, record_count, written, disk, sidecarVars, made, jumped>>

\* stdio writes out what it holds of the session file, when it likes to.
Spill ==
    /\ stage \in {"generate", "flush", "patch", "close"}
    /\ disk < Len(written) \/ header = NoHeader
    /\ disk' \in disk..Len(written)
    /\ header' = IF header = NoHeader THEN 0 ELSE header
    /\ UNCHANGED <<stage, loopVars, buffer, record_count, written, sidecarVars, historyVars>>

\* What is in a file after fclose(): all of it, or less by what stdio still held.
Closed(records) == {p \in Prefixes(records) : Len(records) - Len(p) <= StdioRecords}

\* The truth and jump files are closed. If that fails, the run goes on here too.
CloseSidecars ==
    /\ stage = "sidecars"
    /\ stage' = "settle"
    /\ truth' \in Closed(truth)
    /\ jumps' \in Closed(jumps)
    /\ cut' = cut \union {file \in {"truth", "jumps"} :
          IF file = "truth" THEN truth' # truth ELSE jumps' # jumps}
    /\ UNCHANGED <<loopVars, fileVars, settlement, made, jumped>>

\* The settlement of the next market: its winner is drawn from a distribution.
Settled(m) == [market |-> m, from |-> final_latent[m]]

SettleInStages(stages) ==
    /\ stage \in stages
    /\ Len(settlement) < Markets
    /\ SettlementAccept(Settled(Len(settlement)))
    /\ UNCHANGED <<stage, loopVars, fileVars, truth, jumps, historyVars>>

\* Mutant of Settle: the settlement does not wait for the sidecars.
SettleEarly == SettleInStages({"sidecars", "settle"})

Settle == SettleInStages({"settle"})

\* The settlement file is closed, likewise.
CloseSettlement ==
    /\ stage = "settle"
    /\ Len(settlement) = Markets
    /\ stage' = "done"
    /\ settlement' \in Closed(settlement)
    /\ UNCHANGED <<loopVars, fileVars, truth, jumps, historyVars>>

\* What a reader of a sidecar file may find of it: before it is closed, any
\* part of it from its start. Die or a failed close has cut it already.
OnDisk(records, closed) ==
    IF closed \/ stage = "dead" THEN {records} ELSE Prefixes(records)

\* The process is killed or a write throws. Of what was not closed a part may
\* have reached its file.
Die ==
    /\ stage \notin {"done", "dead"}
    /\ stage' = "dead"
    /\ disk' \in disk..Len(written)
    /\ IF stage \in {"sidecars", "settle"}
       THEN UNCHANGED <<header>>
       ELSE header' \in {header, IF stage = "close" THEN record_count ELSE 0}
    /\ header' = NoHeader => disk' = 0
    /\ IF stage = "settle"
       THEN UNCHANGED <<truth, jumps>>
       ELSE truth' \in Prefixes(truth) /\ jumps' \in Prefixes(jumps)
    /\ settlement' \in Prefixes(settlement)
    /\ UNCHANGED <<loopVars, buffer, record_count, written, historyVars>>

SimNext ==
    \/ StepLatent \/ QuoteBook \/ FlushFile \/ PatchCount \/ CloseFile \/ Spill
    \/ CloseSidecars \/ Settle \/ CloseSettlement \/ Die
=============================================================================
