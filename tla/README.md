# odds-engine in TLA+

TLA+ models of the odds engine: a simulator that broadcasts bookmaker odds, and
an engine that keeps a quote table, prices markets, sizes bets and serves a
dashboard. TLC checks the models on small instances. For every value of the
constants, TLAPS proves the safety properties of the quote table, the live feed,
the capture tool, the engine's loop with its exposure cap, the dashboard server,
the session file with its offline readers, the devig solvers and the Kelly
allocator: all the invariants and all the action properties that the runs below find to
hold. Paths below are relative to the repository's root, and its
`engine/`, `sim/`, `proto/`, `tools/` and `analytics/` directories are written
`src/engine/` and so on in `PROJECT.json`.

To run a check: `tlc -config MCUdpFeed.cfg MCUdpFeed.tla`; to check a proof:
`tlapm UdpFeedProofs.tla`. `PROJECT.json` lists the runs with their properties,
a mutant of the model for each property that the property must refute, the
source lines every definition stands for, the hazards, and the findings.

Contents: 1 the system; 2 which module models what; 3 the runs; 4 fairness;
5 proofs; 6 findings and notes; 7 what is not modelled; 8 the plan.

## 1. The system

Two programs. `sim/main.cpp` generates a session and writes it to a file, a UDP
port, or both. `engine/main.cpp` consumes a session from a file or from a UDP
port. Each is single-threaded, so what interleaves is the two processes, the
network between them, the C library's buffers, browsers, and the operating
system that may kill either.

```
 LatentMarket -> Bookmaker -> FanoutSink -> FileSink ----> session file ---> SessionReader --+
   (sim/main.cpp's loop)          |     \-> UdpSink  ==> datagrams ==> UdpSource -----------+ |
                                  +-> TruthSink, JumpSink, SettlementSink                   v v
 browsers <== frames == WsServer <-- process_tick() <-- BookTable <-- run() loop (next())
          == commands ==>  apply_command() --> LiveConfig --> devig, consensus, Kelly --> BetLog
```

### The simulator's parts

| component | state | operations | what makes it correct |
|---|---|---|---|
| Latent market (`sim/LatentMarket.hpp`) | logits, jump flag | `step`, `jumped` | a jump is reported for the tick it happens at |
| Bookmaker (`sim/Bookmaker.hpp`) | ring of distributions, write index, sequence number | `observe`, `quote` | a quote comes from the distribution `lag_ticks` earlier, or the first; never from one overwritten or not yet written |
| Generation loop (`sim/main.cpp`) | tick, market and book | the nested loops, `finish` of every sink, settlement | numbers and timestamps are in the order consumers rely on; settlement is written last |
| FileSink (`sim/OutputSink.hpp`) | buffer, count, file | `accept`, `flush`, `finish` | the count in the header appears only when every record is in the file |
| UdpSink (`sim/UdpSink.hpp`) | buffer, `datagram_seq_`, `since_announce_`, `send_errors_` | constructor, `accept`, `flush`, `finish` | each datagram has its own number, sent or not; an announce is never far away |
| FanoutSink (`sim/FanoutSink.hpp`) | list of sinks | `accept`, `finish` | each sink gets the same records |
| Truth, jump and settlement sinks | file | `accept`, `finish` | a consumer can tell what a truncated run left |
| Seeding (`sim/Seeding.hpp`) | none | mixing | statistical |

### The wire and the engine's parts

| component | state | operations | what makes it correct |
|---|---|---|---|
| Framing (`proto/udp_framing.hpp`, `proto/messages.hpp`) | none | announce and data datagrams under one numbering | gaps in the numbers mean missing datagrams |
| UdpSource (`engine/UdpSource.hpp`) | receive buffer and cursor, expected number, counters | constructor (waits for an announce), `next`, `receive_one`, `read_datagram` | batches come out whole; the counters measure what the network did; a changed feed is refused; it ends |
| SessionReader (`engine/SessionReader.hpp`) | count and position | constructor, `next` | a session not finished is refused |
| BookTable (`engine/BookTable.hpp`) | quote per market and book, two counters | `apply`, `get`, `is_stale` | the newest record of a slot is shown whatever the arrival order |
| LiveConfig (`engine/main.cpp`) | parameters, change count | `apply_command` | parameters stay in range; `--hash` locks them |
| Devig, consensus, Kelly (`engine/Devig.hpp`, `Consensus.hpp`, `Kelly.hpp`) | none | `run_devig`, `fair_price`, `allocate` | usable books only, optimal stakes, the exposure cap |
| Engine loop (`engine/main.cpp`) | current tick, `have_tick` | record loop, `process_tick`, ends of a run | each tick priced once, from its past only; stakes under the cap |
| BetLog (`engine/BetLog.hpp`) | buffer, count, file | `accept`, `flush`, `finish`, destructor | complete, or visibly not |
| WsServer (`engine/WsServer.hpp`) | clients (descriptor, `in`, `out`, flags), `pending_` commands | `service` (accept, poll, read, decode, dispatch, reap), `broadcast`, `flush`, destructor | commands run once and are answered to their sender; streams stay whole; nobody blocks the engine; ended connections are closed |
| ReplayHash (`engine/ReplayHash.hpp`) | hash | `mix` | equal runs, equal digests |

### The tools

| component | state | operations | what makes it correct |
|---|---|---|---|
| `tools/udp_listen.cpp` | counters, last announce, capture file | `recv()` loop, idle timeout, patching of the header | a capture without a loss is the session; it ends |
| `tools/verify_session.cpp` | last number per slot, last timestamp | one pass | a capture it passes can be relied on |
| `analytics/analyze_bets.cpp` | last line per slot, winners, jump ticks | reads four files in turn, scores each bet | the closing line is the newest; a bet lies in the right window since a jump |
| `tools/validate_devig.cpp`, `engine/TruthReader.hpp` | index of the truth file | a look-up for each quote | each quote meets the distribution it was made from |

### How they interact, and what is hard about it

- *Feed.* Datagrams are lost, reordered, repeated, and survive the process that
  sent them. The engine's only evidence is the numbering, and its counters are
  what a user judges the feed by. The simulator may be killed and restarted,
  with the same numbers from 0 again, or with another seed.
- *Receive buffer.* `UdpSource` hands out records straight from the buffer that
  `recv()` overwrites.
- *Ticks.* The loop learns that a tick is over from the first record of another
  tick, which is already in its hands; the last tick has no such record; a late
  datagram makes time step back.
- *Files.* Both logs patch a record count into the header at the end, with the
  C library buffering in between, while a reader may open the file at any time.
  The sidecar files have no count at all, and tools read several files of one
  run, some of which may be finished when others are not.
- *Capture.* `udp_listen` joins a feed at any time, hears simulators that die and
  start again, and cannot tell silence from an end.
- *Dashboard.* Commands arrive inside `process_tick`. Replies go by file
  descriptor, which the kernel reuses. Sockets take half a frame. A slow reader
  has a bounded backlog and whole frames are dropped from it.

`PROJECT.json` lists these at their lines as 39 hazards, with the properties
that cover each one, or the reason why none does.

## 2. Modules

| module | models | state and actions |
|---|---|---|
| `BookTable` | `engine/BookTable.hpp` | `table` = `table_`; the two rejection counters; `Apply` = `apply()` as `Accept`, `RejectOutOfRange`, `RejectStaleSeq`; `QuoteIsStale` = `is_stale()`. `offered` is a history variable |
| `UdpFraming` | the datagrams and the network | `net` = datagrams in flight. `Receive` takes any of them and may leave it there (repetition); never receiving one is loss or delay |
| `UdpSink` | `sim/UdpSink.hpp` | `Open` = constructor with its first announce, `Accept` with its flush when full, `Finish`, `Kill`. A failed send uses its number and counts |
| `UdpSource` | `engine/UdpSource.hpp` | `AwaitData`, `AwaitAnnounce`, `AwaitBadAnnounce` = the constructor's loop; `Hand` = `next()` with records left; `StreamData`, `StreamAnnounce` = `receive_one()`; `ReceiveMalformed`; `GiveUp` = timeout or error of `recv()`. `delivered`, `baseline`, `got`, `stray_heard` are history |
| `UdpFeed` | sink, network and source together | the properties of the live feed, and its refinement of `RecordSource` |
| `RecordSource` | abstract: what the loop may rely on of any source | `Start`, `Fetch`, `Return`, `Stop` |
| `UdpCapture` | `tools/udp_listen.cpp` at the other end of a `UdpSink`, with `tools/verify_session.cpp` as the operator `Verdict` | `HearAnnounce`, `HearData`, `HearMalformed` = one turn of the loop; `Silence`, `RecvError` = its ends; `CloseCapture` = the patching; `Abort` = a failed write or a kill |
| `Simulator` | `sim/main.cpp` with latent market, bookmakers, file and sidecar sinks | one action per step of the loops (`StepLatent`, `QuoteBook`), one per stage of the end (`FlushFile`, `PatchCount`, `CloseFile`, `CloseSidecars`, `Settle`, `CloseSettlement`), where a close may lose what the C library still held and the run goes on; `Spill` = the C library writes some of its buffer, `Die` = a kill or a failed write |
| `Session` | `engine/SessionReader.hpp` beside a running `Simulator` | `OpenSession`, `ReadRecord`, `EndOfSession` |
| `Analysis` | `analytics/analyze_bets.cpp` on the files of a running `Simulator` | `StartAnalysis`, `ReadQuote`, `EndOfQuotes`, `ReadSettlement`, `ReadJumps`, `ScoreBets`, in the tool's order |
| `Validation` | `tools/validate_devig.cpp` with `engine/TruthReader.hpp`, likewise | `StartValidation`, `LoadTruth`, `CompareRecord`, `EndOfComparison` |
| `Offline` | the simulator with one of its readers: a plain one, the analysis, the validation | the union of their steps |
| `LiveConfig` | `LiveConfig` and `apply_command()` in `engine/main.cpp` | operators: what is accepted and what it changes |
| `Pricing` | the market loop's body, consensus, conditions of devig | operators: `DevigUsable`, `FairPrice`, `BestOdds`, `Stakes`, `BetsOn` |
| `BetLog` | `engine/BetLog.hpp` | `AcceptBets`, `FinishLog`, `AbandonLog`, `CrashLog`, used by `Engine` |
| `Engine` | `run()` and `process_tick()` in `engine/main.cpp` | composes `BookTable`, `RecordSource`, `LiveConfig`, `Pricing`, `BetLog`; `pc` is the loop's place; `Begin`, `FetchMore`, `NextRecord`, `ApplyRecord`, `SourceEnds`, `SourceFails`, `ServeCommand`, `ProcessTick`, `Finish`, `Kill` |
| `WsServer` | `engine/WsServer.hpp` and its browsers | server: `AcceptNew`, `Poll`, `PollUnreadable`, `ReadPartOfRequest`, `ReadRequest`, `ReadFrames`, `Dispatch`, `Reap`, `Broadcast`, `Shutdown`; browser: `Connect`, `Write`, `Read`, `End` |
| `Devig` | the control of `engine/Devig.hpp`'s methods over any falling residual | `Enter`, `Double`, `Accept`, `Narrow` |
| `Kelly` | `engine/Kelly.hpp` in exact rational arithmetic | `Quote`, `Allocate` |
| `Sizing` | `Devig`, the gate of `process_tick`, `Kelly`, in a row | `Price` and the steps of both |
| `MC...` | the instances TLC checks | |
| `BookTableProofs`, `UdpFeedProofs`, `UdpCaptureProofs`, `EngineProofs`, `WsServerProofs`, `OfflineProofs`, `SizingProofs` | the theorems | section 5 |
| `BasicFacts` | lemmas on products, division, least members of sets of naturals, induction along a sequence, pieces of sequences, sequences made by replacing each element by a sequence, sequences without repetitions, and sums over finite sets | |

`Engine` takes its records from `RecordSource` rather than from either source in
detail: `UdpFeed` and `Session` are both checked to implement it
(`ImplementsRecordSource`). That is what lets the engine's own run vary the
arrivals freely without carrying the feed's state along.

How data is abstracted: a record on the wire is its position in the run and the
seed of its run (`UdpFraming`); a latent distribution is the tick it was drawn
at and a quote is the distribution it was computed from (`Simulator`); a fair
price is the set of odds that went into it with the method used (`Pricing`), so
equal prices in the model are equal computations in the code; a message between
browser and server is cut into one or two units so that it can be half sent
(`WsServer`). To a solver, the odds of a book are the curve by which the sum of
its probabilities exceeds one: any curve that falls along a grid of points
(`Devig`). Where Newton's step lands depends on a derivative, so it may land
anywhere in the bracket. Byte layouts, hashing, JSON, HTTP headers and
floating-point error are left out.

Atomicity: an action is as large as the code between two points where another
process can be seen or a kill can be told apart. `ProcessTick` is one action, as
commands are served at one point before it (`ServeCommand`); a kill inside it is
`Kill` with `pc = "tick"`, which leaves any prefix of the tick's bets accepted
and any prefix of what was written in the file. In `WsServer` one poll round is
one action per client, so browsers act between them on the revents poll saw.

History variables (`offered`, `delivered`, `got`, `baseline`, `stray_heard`, `handed`,
`ticks`, `placed`, `pushes`, `made`, `jumped`, `cut`, `handled`, `queued`) are never
read by a guard that stands for a condition of the code, except that lengths
of some stand for positions the code keeps (`Len(handed)` is `read_`).

## 3. The runs

State counts are TLC's distinct states; each run ends within four
minutes on two workers.

| run | question | instance | states |
|---|---|---|---|
| `table` | does each slot show the newest record, and never step back? | 2 markets, 2 books, 10 records with a repeated number, ids past the table | 2490 |
| `feed` | do the counters measure the network, does the source keep its promise, and does it end? | a simulator started twice with one seed, 5 records each in batches of 2, an announce for every two data datagrams, a malformed datagram, a stray announce of another build that bears the number of the second data datagram | 1.93 million |
| `feed_loss` | is a gap a loss? (violated) | one run of 6 records, announce every 2, a failed send | to the violation |
| `feed_reseeded` | is a changed feed always noticed? (violated) | two runs, two seeds | to the violation |
| `engine_file` | is every tick priced once, as of its time, reproducibly; are the logs honest? | 3 ticks, 10 records, 12 kinds of command, 2 commands, `--hash` and `--ws` on or off, or `--kelly-fraction 0` | 56 thousand |
| `engine_live` | what remains true when batches come in any order and number? | the same session in batches of 2, 5 records handed out, 1 command | 177 thousand |
| `engine_exposure` | does the exposure cap hold on a live feed? (violated) | as `engine_live` | to the violation |
| `engine_view` | is the dashboard only a view? (violated) | as `engine_file` | to the violation |
| `ws` | do commands, replies, streams and connections survive any browser? | 4 casts of 2 browsers out of 7 habits, backlog of 2 units, sockets of 1 | 119 thousand |
| `capture` | what do the capture tool's counters and the verifier's verdict mean? | two runs of 3 records in batches of 2, a failed send, a repeated and a malformed datagram | 858 thousand |
| `offline` | is what a reader of the simulator's files accepts whole, and what the tools compute right? | 2 markets, 2 books, 4 ticks, 12 records, ring of 3, buffer of 5, 2 jumps, every lag, closes that lose a record | 1.37 million |
| `sizing` | is the root found, and are the stakes optimal? | all falling curves of 7 points with residuals from -2 to 2; all markets of 3 outcomes on a grid of ninths | 107 thousand |

### What they show

*table.* `NewestWins`: a slot shows the record of the highest number offered to
it. `NeverStepsBack`: no step replaces a quote by an older one. `FreshStaysFresh`:
applying a record never makes a fresh quote stale. Two markets and two books
suffice to show that slots do not disturb each other; the record repeated with
another payload separates "newer" from "not older".

*feed.* `SequenceBalance` is the accounting identity behind the counters.
`LossIsMeasurable`: `lost()` never hides a missing datagram and exceeds them by at
most `reordered()`. `CleanCountersMeanCleanFeed`: with no reordering counted the
records came in order and once; with no loss either, they are an unbroken run. It
is for runs of one seed, holds over restarts because the new numbers are all old
to the source, and promises no unbroken run once a stray was heard.
`ImplementsRecordSource`: batches come out whole. `SourceStops`:
see section 4. A batch of two has a first and a last record; five records make two
full batches and a rest, with an announce between them; the stray takes the number
of the batch in the middle, so that records before, in and after the gap it hides
are told apart. The second run meets whatever the network still
holds of the first, and repeats each of its numbers with the same contents, which is
why no further repetition is needed here (`capture` has one). One failure of each kind
is enough because the counters are sums, and the theorems lift the bounds for all the
properties but `SourceStops`.

*capture.* `CleanCaptureIsPrefix`: a capture whose counters report no loss and no
reordering is the session from its first record on; when it has heard the
simulator's last number, it lacks just what the simulator still buffers or took
to its grave, so framing neither loses nor repeats a batch; and a capture that
verifies ends where a datagram did. `VerdictIsSound`: a file the verifier reads to
its end holds everything received, through kills and a full disk, and it finds
fault with the order only where the tool has counted reordering. `ListenerEnds`:
section 4. Two markets of one book make a session of which a late batch spoils
the order of time and of numbers.

*engine_file.* `PricesAreAsOf`: a tick is priced from all the records up to its
time and none after, by a table rebuilt from the set of records, not by the
loop's own. `EveryTickPricedOnce`; `DigestIsReproducible` under `--hash`, whatever
dashboards send; `TypeOK` has that parameters which started in range stay there;
`BetLogIsAllOrTruncated`: a count in the header means a complete log, over kills
at every point including halfway into a tick. Three ticks give a first, a middle
and a last one, and let book 1's quote go stale and come back; the last tick has a
quote without margin and a book of another outcome count.

*engine_live.* `PricesFollowWhatArrived`: a price depends on which records have
arrived and not on the order or repetition of arrivals, and a dashboard is shown
it together with the parameters that made it. `OrderedFeedKeepsCap`: the exposure
cap holds for as long as timestamps do not step back, which is what the violation
in `engine_exposure` turns on.

*ws.* `AcksGoHome`: replies are addressed by descriptor, descriptors are reused,
and still a reply reaches only the connection its command came on. It holds since
commands are dispatched before dead clients are reaped, so that a descriptor is
not free before the replies of its commands are out. `CommandsRunOnce`,
`AnsweredOrCounted`, `StreamIntact` cover split frames, full sockets and full
backlogs, whose bound is in `TypeOK`; `EndedIsReaped` and `PageThenClose` are liveness. The
casts pair browsers whose habits meet: descriptor reuse by two that command,
a reset beside a page half sent, several commands in one read with a close
behind them, an overlong request. A unit is half a page or half a command, so
that with a socket of one unit everything longer is sent in parts.

*offline.* `SessionInOrder`: what the table takes for granted of a feed.
`QuotesLag`: the ring is written over within the run, and a lag that fills it is in
the roster. `AcceptedMeansComplete`: a reader that opens the file at any moment of a
run that may die at any moment gets the whole session or is refused at the header;
that holds although nobody looks at what `fclose()` returns, as a close that fails
leaves the count 0. `SettlementComesLast`: sidecar files have no count, and a close
that fails cuts them as well, but where there is any settlement the session's
records are all in its file, and it was no kill and no failed write that cut count,
truth or jumps. `BetsTaggedRight` is what the bet analysis gains by that: it reads
the settlement before the jumps, so that when any bet could be settled, each bet has
its time since a jump and its episode right, unless a jump up to its tick was lost
in a failed close, and it would not hold in the other order. `ClosingIsNewest`:
"last in the file" is "newest" in a file the simulator wrote. `ValidationIsExact`:
with `--lag` set to a book's lag its quotes meet the distributions they were
computed from, and the unmatched are counted exactly, also for a truth file cut
short. `ImplementsRecordSource`. Twelve records are two full buffers and a rest; the
books' intervals differ, so that per-book and per-tick numbering differ.

*sizing.* `RootStaysBracketed`: throughout doubling, Newton and bisection the root
lies between the ends of the bracket, and so does the search.
`GivesUpOnlyInVain`: bisection reports `NotConverged` only if no inner point of the
grid was close enough. `KellyOptimal` checks the Kuhn-Tucker conditions of the
log-wealth optimum against the result of the prefix search on what the solvers
let through, and that the cap keeps proportions and is kept. Its fair prices add up to one,
less or more: consensus averages each outcome over the books and does not
normalise. Above one the conditions on the outcomes left out need not hold
(section 6), and are not asked for. Curves of seven points have roots
before, in and after the first bracket, on a point and between two, and level
stretches; three outcomes are the least for which the best set can be neither one
outcome nor all of them.

### Bounds

`RunLength`, `MaxSendErrors`, `MaxDuplicates`, `MaxMalformed` (feed), `MaxRecords`,
`MaxCommands` (engine), `SocketBuffer`, `MaxPushes` (dashboard), `MaxJumps`, `Ticks`
(simulator), `StdioRecords` (the most a failed close can lose of a file),
`MaxRejections` (table) bound counters that are unbounded or large in the code; each
is in a guard and named a bound where it is declared. The others, apart from those
of `sizing` (`Cap`, `MaxResidual`, `tolerance`, `Rounding`, `Unit`: the size of the
grids), are the code's own constants made small, so that the case where a buffer, an
interval or a ring is exactly full occurs: `kRecordsPerDatagram`,
`kAnnounceInterval`, `kBufferRecords`, `kMaxLag`, `max_backlog_`, the request limit,
the solvers' iterations, the 40 bits an episode has for its tick.

## 4. Fairness

`CHECK_DEADLOCK FALSE` stands in every configuration because the programs end:
runs of the simulator are finite, the source and the engine stop, connections are
made once each.

- `UdpFeed!FairSpec` assumes `WF(SourceStep)` and nothing of the simulator or the
  network. `recv()` has a timeout (`SO_RCVTIMEO`) and its callers loop, so the
  source always takes its next step. `SourceStops` then says that each source
  comes to an end of its own: the model's network delivers finitely many
  datagrams, after which only a timeout is left. For a feed that never falls
  silent the property says nothing.
- `WsServer!FairSpec` assumes `WF(ServiceNext)`: the engine calls `service()` at
  every tick for as long as it runs, with a poll that does not wait. It does not
  assume that the engine ends. `WF(Read(c))`: a browser that stays reads what has
  reached it. Nothing makes a browser connect, write or leave.
- `UdpCapture!FairSpec` assumes `WF(ListenerStep)`: the tool's `recv()` has a timeout
  as well and is called in a loop, so it hears what is there or times out, and
  once out of the loop it closes the file. Malformed datagrams, errors of `recv()`
  and kills are outside that action: they may happen but need not, and
  `ListenerEnds` does not rest on them. Nor is the simulator made to send
  anything: a tool that never hears a datagram waits for ever, as it should.
- No other run needs fairness.

## 5. Proofs

TLAPS checks every theorem below for all values of the constants. `Spec` is the
one the runs check, so the bounds in its guards remain, but as arbitrary
natural numbers.

### The quote table (`BookTableProofs`)

Assumptions, all in `BookTable`: the table's bounds are natural numbers; records
have numbers below the sentinel (`UpdateFields`), and a book's timestamps follow
its numbers (`TimestampsFollowSeq`, which `SessionInOrder` checks of the
simulator's loop; only `FreshStaysFreshHolds` uses it).

- `TypeCorrect`: each slot is empty or holds a quote of a record of the feed.
- `NewestWinsHolds`. `NewestWins` is inductive together with `TypeOK`: an accepted
  record is newer than all its slot was offered (`AppliedIsNewest`), as the slot
  shows the newest of them and the gate compares with what it shows; a refused one
  is no newer than the one shown (`RefusedIsOlder`). The sentinel is where it could
  go wrong, so `SentinelMeansEmpty` shows that no record's quote has it.
- `NeverStepsBackHolds`, an action property, follows from the gate for each step.
- `FreshStaysFreshHolds`: from `NewestWins`, a newer record of the same book has no
  earlier timestamp (`LaterIsFresher`), so it is not staler.

### The live feed (`UdpFeedProofs`)

The only assumption is `FramingConstants`: the types of the constants, positive
batch size and announce interval, and strays of a build with another record size.
The theorems hold for any number of runs and seeds, any length, and any
loss, delay and repetition within arbitrary bounds.

- `TypeCorrect` for sink, network and source, including the parts of it that
  matter: `since_announce` never passes `kAnnounceInterval`, which bounds the wait of
  whoever joins late; while records are still due from the receive buffer, it holds the
  datagram they came in (`cursor < in_buffer => ... in_buffer = Len(buf)`).
  It is split by process: `SinkStepType`, `SourceStepType`, with the sequence
  operations in lemmas of their own.
- `SequenceBalanceHolds`: numbers passed over since the baseline, plus what counts
  as reordered, equal the datagrams received since, plus what counts as lost. It is
  inductive relative to types: a datagram in sequence or ahead moves both sides
  by its gap and one, a late one moves both by one (in `reordered` and in
  `datagrams`), and the first announce sets both to zero.
- `LossIsMeasurableHolds`: the number of missing datagrams is at most `lost()` and
  at least `lost() - reordered()`. This is not inductive: nothing in it says that
  numbers received lie below the expected one, and a state where they do not
  breaks it at the next datagram. The strengthening is `Accounted`: what was
  received lies in `0..expected_seq - 1`, the baseline is not beyond
  `expected_seq`, and the counters only run once the source has started. The core
  is `OneMoreDatagram`: the new missing set is the old one, with the gap added when
  the datagram is ahead, or with at most one number removed when it is late,
  and the cardinalities follow from `FiniteSetTheorems`.
- `RefinesRecordSource`: `UdpFeed` implements `RecordSource`, step by step, for any
  number of restarts and seeds. `Fetch` is a data datagram, whose records must be
  one of the batches a sender forms (`FeedBatches`); `Return` is a record that is
  still the one that was received. The former is not in any datagram by its type:
  it needs `NetOrdered` and `SinkOrdered`. Both speak of numbers modulo `Period`,
  an announce and the data after it. `Before(seq)` is how many records the numbers
  below one carry. Then every number in flight is either an announce's or carries
  the batch that starts at `Before` of it, whichever run it comes from, and the
  sink's buffer is what the next data number is short of. This is where restarts
  could go wrong: a second run must give a number the same contents as the first.
- `CleanCountersHolds`. `CleanCountersMeanCleanFeed` is about what was returned, but
  what spoils it is a datagram taken into the buffer, so `StreamInOrder` is
  stated of `Stream`, the records returned and those still due together.
  It says that no record in it lies beyond `Top(expected_seq)`, and that with
  clean counters the last one lies there. A datagram in sequence starts
  just after it and one that skips a number counts as loss. Proving it showed
  the property false as it had stood: an announce of another build takes up a
  number without counting as a loss, so a stray is now an exception to it
  (`stray_heard`; see section 6).

### The capture tool (`UdpCaptureProofs`)

Assumptions: `FramingConstants`, and `RestartsRepeat`, that a simulator is started
again with its own command line. The tool does not compare seeds (section 6), and
a capture of two different feeds is no session at all.

The sender and the network are those of `UdpFeed`: `Sent` instantiates its proofs with
a source that never hears anything, and `FeedOK` carries their invariants over.
`ListenerOK` is the tool's balance (`datagrams + gaps = expected_seq + reordered`),
`CapturedOK` says how far into the run the captured records come, and that with
clean counters they are the first `Top(expected_seq)` of it, `FileOK` that the
file is a beginning of them, with a count only once it is closed.

- `CleanCaptureHolds`: from `CapturedOK`, and `SinkBalance`, that the sink's numbers
  and buffer together make up what it has accepted.
- `VerdictHolds`: a file read to its end has a count that is its length, so it holds
  all of the capture; if the verifier faults its order, some record is not after
  the one before it, which with `reordered = 0` `CapturedOK` excludes.
- `TypeCorrect`.

### The engine's loop (`EngineProofs`)

Assumptions: `EngineConstants`, `ConfigConstants`, `PricingConstants` and `OptionFields`
type the constants; `BufferHoldsSomething`; `SessionRecords`, that time does not go back
in a session and that its books count up. The last is what `SessionInOrderHolds`
(below) proves of the simulator. Every batching of the session, in any order on
a live feed, every set of dashboard messages and a kill at every point remain.

`StakesAreNotNegative`, which only `OrderedFeedKeepsCapHolds` uses, is about
`KellyStakes`, the constant that stands for the allocator's arithmetic: it stakes no
less than nothing on any outcome of any fair price with odds to be had. That is
`KellyOptimal`'s `full[i] >= 0`, proved below.

The table's theorems are used by `INSTANCE` (`TableProofs`), as the loop moves the
table only by the table's own steps (`StepTable`).

- `PricesFollowHolds`, on any feed: from `NewestWins`, the table is a function of the
  set of records offered (`TableIsOfOffered`), as numbers name records
  (`NumberNames`), and prices are a function of that table, the tick and the
  parameters (`TicksOK`).
- `PricesAreAsOfHolds`, `EveryTickPricedOnceHolds`, on a session file. `FileOK` says where
  the loop is in the file: what the table was offered is the records returned, less
  the one that waits for the tick before it to be processed. `FileTicksOK` says which
  times have been priced at each `pc`: all those before the current one, and before
  the record at hand once its tick is done. When a tick is due the session
  splits at its time (`TickSplits`), so what the table was offered is what the
  property asks for (`TickIsAsOf`).
- `DigestIsReproducibleHolds`: the two together, with `ConfigOK`, that under `--hash` the
  parameters are the command line's.
- `BetLogHolds`: `LogOK`, that the file and the buffer together are the bets placed
  for as long as the log is open. A tick's bets that fill the buffer several
  times are cut into whole buffers and a rest (`WrittenIs`); a kill leaves a
  prefix of that (`CrashKeeps`).
- `TypeCorrect`, including that parameters which start in range stay there.
- `OrderedFeedKeepsCapHolds`, on any feed. The cap of one allocation is
  arithmetic: stakes scaled by `cap / total` and each rounded down add up to no more
  than the cap (`ScalingKeepsCap`, `StakesAre`). A tick's bets are one for each
  outcome with a stake, none twice (`TickBetsAre`), so those on a market add up to
  at most its allocation's total (`StakesAtAre`), and so do those of a tick cut short by a kill
  (`NewStakes`); bets at other times stay what they are (`OldStakes`).
  The property itself is not inductive, as it does not say that a
  tick due now has not been staked on before. `CapInv` does. `RunOK` ties the
  current tick and the record at hand to records handed out, and each bet to
  a tick at its time. `OrderOK` says that, while the records are in order,
  all ticks so far are earlier than the one that is current, or than the record
  at hand where the current one is done. Its premise must come from the
  state before a step as well, so `HandedGrows` shows that records handed
  out stay. `StepRun` and `StepOrder` take the loop's actions one by one.

### The dashboard server (`WsServerProofs`)

Assumptions, both in `WsServer`: `ServerConstants`, that the bounds are natural
numbers and the connections finitely many; `CastsAreBrowsers`, that what a
connection sends is one request, which may be junk, and frames after it, which
may be bad ones, and that it leaves with a FIN or a reset. Any number of
connections, any scripts, any backlog, request limit and socket size remain, and
every interleaving of what browsers do with the visits of the poll loop.

`WsInv` is the inductive invariant (`Inductive`), of three parts; the second needs the
other two, as only a client that is alive has sound buffers:

- `WsTypes`, the types of all variables, with records in `Records` and messages cut
  into units (`Units`).
- `AllSound`: each record agrees with its script. What a browser has got, what is
  in the socket and what is in `out` are together the messages queued (`Whole`); what
  is in the socket and in `in` is the rest of what the browser has written
  (`Unread`), for as long as the client is alive; before the handshake no more than
  the request was written, and after it all of it was, as browsers wait for
  the 101. This is why `handshake()`, which clears both buffers, discards nothing:
  where a request ends, nothing follows (`RequestEnds`, `SoundHandshake`).
- `Listed`: clients and backlog hold each connection once; listed clients have
  distinct, nonzero descriptors; a client is dead only where the poll loop
  has passed (`DeadOnlyPast`); and every command in `pending` waits with the
  descriptor of a client which is listed, open and the one that sent it
  (`Senders`). The last is what keeps replies from going astray: `accept()` and
  `reap()` happen only while nothing is pending (`Rounds`), so a descriptor cannot change
  hands under a command. That `accept()` finds a descriptor no client has is the
  pigeonhole principle (`OneIsFree`).

Each action has a lemma (`AcceptNewKeeps`, ..., `ShutdownKeeps`) that it keeps `WsInv`, and
that all but `Dispatch` are `Mute`: they handle no command and queue no ack.

- `TypeCorrect`, `StreamIntactHolds`: from `WsInv`.
- `AcksGoHomeHolds`: by `Senders` and `FdsApart` the only addressee of a reply is the
  connection its command came on (`AddresseeIsSender`); the reply's number is
  that of the newest command handled, so none queued before has it.
- `AnsweredOrCountedHolds`: `Counted`. A command handled now is missed only if its sender
  is alive and the frame did not fit, and then `dropped` grows by one
  (`LostStep`); one missed before was missed already (`MissedBefore`).
- `CommandsRunOnceHolds`: `AllRan`. For each connection there is a number of units
  decoded, such that the commands among them are those handled and those pending
  together, in order, and, while the client lives, the units after them up to
  the last one written are in `in` and in the socket. Most steps are `Steady`: they
  move no unit across that line. `ReadFrames` moves it by exactly the frames that are
  whole (`DecodesOn`), `Dispatch` moves a command from `pending` to `handled`
  (`GivenMoved`), and `ReadRequest` has no command to lose, as none precedes a
  handshake (`NoTextYet`).

`Among`, `WholeOf` and `UnitsOfAll` are each a `FlattenSeq` of one short sequence per element;
`BasicFacts` has what the proofs need of that: it distributes over `\o`
(`FlatMapConcat`), two in a row are one (`FlatMapTwice`), and what comes out of it comes
from an element (`FlatMapFrom`).

### The session file and its readers (`OfflineProofs`)

Assumptions: `SimulatorAssumption`, which has the lags below the ring's length
(section 6 on a roster that violates it), and `EpisodesFit`, that tick
numbers fit the bits an episode has for them. Any number of markets, ticks, books,
lags, intervals and jumps remain; `SimStep` includes a kill at every point.

- `SessionInOrderHolds`, `QuotesLagHolds`. `LoopOK` says that where the nested loops
  stand determines every write index, and that a ring holds the last `kMaxLag`
  distributions, each in its place (`Holds`); `RingObserves` and `LaggedViewIs` are the
  arithmetic of overwriting and of looking back. `Numbered` ties the next number
  of a book to the last one made.
- `AcceptedHolds`, `ReaderRefinesSource`: `FilesOK` says which stage of the end
  guarantees what of buffer, disk and header: a count appears only when
  `disk = Len(made)`. From then on the session does not change (`CountIsLast`), so
  a reader that was let in (`ReaderOK`) reads what will remain.
- `SettlementHolds`: `SidecarsOK`, that at the first line of the settlement the
  session has been closed and truth and jumps too, whole but for what is in `cut`
  (`SidecarsKept`), with the header that the close left (`FinalHeader`); death comes
  before, and then there is no settlement, or after, and then it changes nothing.
- `ClosingIsNewestHolds`: `ClosingOK`, that the closing line is the last record read
  of its slot, which by `SessionInOrder` is the newest.
- `BetsTaggedRightHolds`: `BetsOK`, that a winner read means the jump file was
  closed   before the tool opened it, so that it holds all jumps but those the close
  lost (`KeptIsEnough`: for a bet before these the rest will do). `LastJumpIs` and
  `EpisodesDiffer` are the search   in the jump ticks and the packing of an episode.
- `ValidationIsExactHolds`: `ValidOK`; a truth file of `n` lines indexes the first
  `n` places in the loop's order (`TruthKnows`), so its size tells which quotes
  can be matched (`KnownTicks`).
- `OfflineTypes`.

### The solvers and the allocator (`SizingProofs`)

Assumptions of the first two, in `Devig`: the types of grid and tolerance; `DoublingMeetsCap`, that
doubling from 2 meets the cap itself, as 1024 is in the code; `HalvingEnds`, that
the iterations suffice to halve the grid down to one step, as 200 do with
53 bits. Any grid, any falling curve and any landing point of Newton's
step inside the bracket remain.

- `RootStaysBracketedHolds`: `BracketInv` adds to the property where each phase
  stands before the search: an upper end that is one of the doublings.
- `GivesUpOnlyInVainHolds`: `Exhausted`, that bisection leaves behind only points too
  far from the root, and the width left after `tries` halvings. When the
  iterations are used up that width is one step, and no inner point is left.
- `KellyOptimalHolds`, for any grid of probabilities and odds, any sum of the fair
  price, and any fraction and cap. The only assumption is `KellyAssumption`, in `Kelly`: a
  market has one to four outcomes, as `kMaxOutcomes` has it in the code, and both parameters
  are positive, as `allocate()` returns before the search if they are not. `Sorted` is a
  `CHOOSE`, so that there is such an order comes first (`OrderExists`, `SortedIs`):
  comparing `p * o` across two divisions is an order of its own
  (`WorseIsOrder`). A prefix of it that qualifies has only members that beat its
  reserve (`MembersBeat`), as the weakest does. The other way round is where the
  search could go wrong: that no larger prefix qualifies must mean that no outcome
  left out beats the reserve. `Unbeaten` is the step for one outcome: if the prefix that it
  completes does not qualify, it did not beat the reserve without it. Where that prefix leaves no
  reserve at all, a fair price of at most one is needed. `OthersDoNot` carries it to those further
  down the order. `FullIs` and `CappedIs` are the sums: stakes and reserve make up
  all the wealth, and scaling keeps proportions and the cap.

Inequalities between products are beyond the solvers as soon as two factors are
variables; each is reduced to `ProductMonotone` and its like in `BasicFacts`, where
the sums over finite sets are as well (`SumUnfolds`,
`SumRemoves`, `SumInjects`, `SumOfPart`, `SumLinear`).

### Only model-checked

- Liveness (`SourceStops`, `ListenerEnds`, `EndedIsReaped`, `PageThenClose`) and anything
  that needs `ENABLED`: the prover has neither.
- The link between the two models of the allocator: `Pricing` takes the stakes
  as a constant function, `Kelly` computes them. `StakesAreNotNegative` is what one needs of the other,
  and each run of `Engine` evaluates it for its constants.

No module uses a `RECURSIVE` operator. The library's induction theorems take an
operator as a parameter, which none of the installed provers can instantiate.
Where a proof needs an induction (`MaxIs`, `FlatMapConcat`, `FlatMapTwice`), it goes by the least member of a set of naturals (`LeastOf`, `ByInduction`
and `GreatestOf` in `BasicFacts`), or of the lengths of sequences (`BySeqInduction`).

## 6. Findings and notes

The four violation runs:

1. `engine_exposure`: a late datagram makes `process_tick` run again for a tick,
   and its markets are staked on afresh, so the stakes of one market at one tick
   exceed `--max-exposure` (`engine/main.cpp:408`, help text at line 132). Each
   allocation is capped on its own. `OrderedFeedKeepsCap` shows that reordering
   is the only way to it.
2. `engine_view`: the comment at `engine/main.cpp:254` says the dashboard cannot
   influence consensus or sizing; its commands do, by design of the handler at
   line 261. Only `--hash` runs are locked (`DigestIsReproducible`).
3. `feed_loss`: `proto/udp_framing.hpp:26` says gaps are loss; a reordered datagram
   is counted lost, then reordered, and the loss stays counted.
   `LossIsMeasurable` is what the counters do say.
4. `feed_reseeded`: data datagrams do not say whose they are. A simulator restarted
   with another seed is refused only once its announce is read
   (`engine/UdpSource.hpp:163`); until then its records are taken for the old feed's.

Noted while modelling, with no run:

- An announce met in the middle of a feed is compared with the header by its shape
  and seed, not by its record size, which only the constructor checks
  (`engine/UdpSource.hpp:163`). A stray of another build that agrees in these takes up
  a number, so that with clean counters a batch may be missing unnoticed; the
  property `CleanCountersMeanCleanFeed` excepts feeds in which one was heard.
- `tick_interval_ns` is announced so that it is "on the wire rather than assumed"
  (`proto/udp_framing.hpp:42`); no receiver reads it.
- The announce timeout is that of one `recv()` (`engine/main.cpp:76`,
  `engine/UdpSource.hpp:45`): while data keeps arriving without an announce, the
  constructor waits on. A model that stops the network stops this too.
- `tools/udp_listen.cpp` says at line 21 that the seed is not on the wire and is left
  zero, and patches it from the announce at line 157.
- The same tool takes an announce of any seed or record size, the last one heard
  standing in the header, where `UdpSource` refuses both: captures of two
  feeds can be one file. Heard from the middle of a feed, it counts everything
  before as lost, which is right of the capture and not of the network.
- No sink looks at what `fclose()` returns (`sim/OutputSink.hpp:69`,
  `sim/TruthSink.hpp:40`, `sim/JumpSink.hpp:49`). On a full disk the last buffer of a
  file may be lost there, a small jump file as a whole, and `sim/main.cpp` goes on to
  the settlement. A session is then refused for its count of 0. A truth or jump file
  is short and says nothing of it: a settlement is no proof that they
  are whole. `SettlementComesLast` and `BetsTaggedRight` except what was lost this way
  (`cut`, `LostJumps`), and only this.
- `analytics/analyze_bets.cpp` reads the bet log to the end of the file and does not
  look at the record count that tells a truncated log, nor does it compare the
  seeds of the four files.
- Shin's tolerance of 1e-15 (`engine/Devig.hpp:210`) is a few units in the last place
  of a sum near one. `GivesUpOnlyInVain` says that bisection misses nothing; whether
  any double comes that close is up to the odds, and a book for which none does
  is left out of that tick's consensus.
- `sim/main.cpp:150` says `--udp` "can never cost the artefact"; a bad target or a
  failure of the sink's constructor exits after `FileSink` has truncated the output.
- `engine/Kelly.hpp` says its mathematics does not need the probabilities to sum to
  one (line 40). For sums up to one the stakes are optimal. Above one the reserve can be negative, and
  an outcome left out can beat it, so `KellyOptimal` asks the conditions on the outcomes left
  out only of sums up to one; everything else in it, the cap included, holds above one too. `Rounding`
  has a sum on either side of one.
- The test of `in.size()` against `kMaxFramePayload * 2` in `engine/WsServer.hpp`
  cannot fire, as each chunk is decoded when it is read.
- A roster with a lag of `kMaxLag` (512) or more would read the newest
  distribution for the oldest. Nothing checks it; `SimulatorAssumption` assumes it,
  and the default roster's largest lag is 150.

## 7. What is not modelled, and why

- The numerics of devig: `Devig` takes the residual of the odds for any falling
  curve, so the formulas of the powers and of Shin's roots, their derivatives and
  rounding are left out, as in `Kelly`, which is exact rational arithmetic. The
  weights of the consensus are all one in the code and left out.
- SHA-1, base64, HTTP headers, the page, fragmented and compressed frames; JSON
  parsing; command line parsing; FNV-1a; seeding and the latent process's
  distributions. The tables, buckets and statistics the tools print.
- Out-of-range values of the `outcome_count` byte, and a `--stale-ms` whose product
  with a million overflows: records and command lines are those of the simulator
  and of a sane user. Fragmented frames, and a second request on a connection
  whose page is half sent: no client of the repository does either.
- Running the simulator onto the path of a session that is being read.
- Pacing (`sim/main.cpp`'s sleeps): time in the models is the order of events.
- `tools/ws_cmd.py`, which is one of the browsers of `WsServer`, and
  `analytics/devig_reference.py`, a second implementation of the numerics.

## 8. The plan

The order was that of importance: what the engine believes (table), what it is
told (feed), what it does with it (engine loop), who may interfere (dashboard),
where the records come from (simulator, session), the devig and sizing
algorithms, and the tools that judge a run afterwards. All of these are on disk.
Compositions: `UdpFeed` = sink + network + source; `UdpCapture` = sink + network +
capture; `Offline` = simulator + reader + analysis or validation; `Sizing` = solvers
+ allocator; `Engine` = table + abstract source + configuration + pricing
+ log; both sources implement `RecordSource`.

Next, for the model:

- `Engine` fed by `UdpFeed` itself, on an instance small enough, as a check on
  the abstraction;
- fragmented frames in `WsServer`.

For the proofs, every invariant and action property of the passing runs is a
theorem. Two refinements are left to state:

1. That `Engine`'s `Stakes` is what `Kelly`'s `Allocation` computes, up to rounding, which
   would turn `StakesAreNotNegative` from an assumption into a lemma.
2. That the simulator's session satisfies `SessionRecords`: its parts are proved as
   `SessionInOrderHolds`, and the engine's assumption repeats them for any session.
