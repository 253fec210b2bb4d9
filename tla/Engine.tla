-------------------------------- MODULE Engine --------------------------------
(***************************************************************************)
(* The engine's run (run() in src/engine/main.cpp): a loop over a source   *)
(* of records that keeps the quote table, and on each change of timestamp  *)
(* serves the dashboard, prices every market, sizes bets and pushes.       *)
(* The source is a session file read in order or the live feed, which      *)
(* UdpFeed shows to implement RecordSource. "pc" is where the loop stands. *)
(***************************************************************************)
EXTENDS LiveConfig, Pricing, BetLog

CONSTANTS
    MaxMarkets, MaxBooks, kEmptySeq, \* the quote table's
    Session,             \* the records one simulator run publishes, in order
    HeaderMarkets, HeaderBooks,      \* the shape the source's header announces
    kRecordsPerDatagram,
    Options,             \* the command lines explored
    NsPerMs,             \* 1'000'000 in the code
    WsMarkets,           \* --ws-markets
    MaxRecords,          \* bound: records the source hands out
    MaxCommands          \* bound: dashboard messages

ASSUME EngineConstants ==
    /\ NsPerMs \in Nat \ {0}
    /\ WsMarkets \in Nat
    /\ MaxRecords \in Nat
    /\ MaxCommands \in Nat
    /\ HeaderMarkets \in Nat
    /\ HeaderBooks \in Nat
    /\ MaxMarkets \in Nat /\ MaxBooks \in Nat /\ kEmptySeq \in Nat
    /\ kRecordsPerDatagram \in Nat \ {0}

\* The fields of struct Options that the run starts from.
ASSUME OptionFields ==
    \A o \in Options :
        /\ {o.hash, o.listen, o.bets, o.ws} \subseteq BOOLEAN
        /\ o.stale_ms \in Nat /\ o.kelly_fraction \in Int /\ o.max_exposure \in Int
        /\ o.devig_method \in DevigMethods

Updates == {Session[i] : i \in DOMAIN Session}

\* A session has records. What the simulator makes is in order (SessionInOrder
\* in Session): time never goes back, and each book counts its records up.
ASSUME SessionRecords ==
    /\ Session \in Seq(Updates) /\ Session # <<>>
    /\ \A r \in Updates :
          /\ r.seq_no \in 0..(kEmptySeq - 1) /\ r.sim_timestamp_ns \in Nat
          /\ r.market_id \in Nat /\ r.book_id \in Nat
    /\ \A i, j \in DOMAIN Session : i < j =>
          /\ Session[i].sim_timestamp_ns <= Session[j].sim_timestamp_ns
          /\ Session[i].book_id = Session[j].book_id => Session[i].seq_no < Session[j].seq_no

\* The markets and the books the engine looks at: those of the header.
HMarkets == 0..(HeaderMarkets - 1)
HBooks == 0..(HeaderBooks - 1)

\* What allocate() may be called with: the quotes some books may show of a market,
\* and the fractions a run may be started with or set to.
QuoteSets == UNION {[B -> {r.odds : r \in Updates}] : B \in SUBSET HBooks}
Fractions == {o.kelly_fraction : o \in Options} \union 1..One

\* It never stakes less than nothing (KellyOptimal in Kelly).
ASSUME StakesAreNotNegative ==
    \A method \in DevigMethods, quotes \in QuoteSets, kelly_fraction \in Fractions :
        LET price == FairPrice(method, quotes)
            best == BestOdds(quotes)
        IN price # NoPrice /\ Backable(price, best) /\ kelly_fraction > 0 =>
              KellyStakes(price, best, kelly_fraction) \in [1..price.count -> Nat]

VARIABLES
    opt,                            \* the parsed command line
    source_state, pending, handed,  \* the source, see RecordSource
    table, rejected_out_of_range, rejected_stale_seq, offered, \* see BookTable
    cfg,                            \* the live configuration
    commands_received,
    pc,                             \* "start", "next", "tick", "apply", "finish",
                                    \* "done" or "failed"
    u, have_tick, cur_ts,           \* locals of run()
    ticks,                          \* history: the ticks processed, the last perhaps in part
    placed,                         \* history: the bets placed
    pushes                          \* history: what dashboards were sent

tableVars == <<table, rejected_out_of_range, rejected_stale_seq, offered>>
sourceVars == <<source_state, pending, handed>>
configVars == <<cfg, commands_received>>
historyVars == <<ticks, placed, pushes>>
vars == <<opt, sourceVars, tableVars, configVars, pc, u, have_tick, cur_ts,
          historyVars, logVars>>

\* A file is read record by record, a live feed in whole batches of the run.
Batches ==
    {SubSeq(Session, i, j) : i \in DOMAIN Session, j \in DOMAIN Session} \ {<<>>}

LiveBatches ==
    {SubSeq(Session, i, Min({i + kRecordsPerDatagram - 1, Len(Session)})) :
        i \in {k \in DOMAIN Session : (k - 1) % kRecordsPerDatagram = 0}}

Table == INSTANCE BookTable WITH MaxRejections <- 0
Source == INSTANCE RecordSource WITH state <- source_state

InitialConfig ==
    [stale_ms |-> opt.stale_ms, kelly_fraction |-> opt.kelly_fraction,
     max_exposure |-> opt.max_exposure, devig_method |-> opt.devig_method,
     changes |-> 0]

\* parse_args() refuses a digest of a lossy feed.
Init ==
    /\ opt \in {o \in Options : ~(o.hash /\ o.listen)}
    /\ Source!Init
    /\ Table!Init
    /\ LogInit
    /\ cfg = InitialConfig
    /\ commands_received = 0
    /\ pc = "start"
    /\ u = Session[1]
    /\ have_tick = FALSE
    /\ cur_ts = 0
    /\ ticks = <<>>
    /\ placed = <<>>
    /\ pushes = <<>>

\* The source is open and its shape known: run() checks it against the table,
\* then opens the dashboard's port and the bet log, either of which may fail.
Begin ==
    /\ pc = "start"
    /\ Source!Start
    /\ pending' = <<>>
    /\ \/ /\ HeaderMarkets <= MaxMarkets /\ HeaderBooks <= MaxBooks
          /\ pc' = "next"
          /\ log_open' = opt.bets
       \/ /\ HeaderMarkets > MaxMarkets \/ HeaderBooks > MaxBooks \/ opt.ws \/ opt.bets
          /\ pc' = "failed"
          /\ UNCHANGED log_open
    /\ UNCHANGED <<opt, tableVars, configVars, u, have_tick, cur_ts, historyVars,
                   log_buffer, log_file, header_count, record_count>>

\* next() receives or reads more.
FetchMore ==
    /\ pc = "next"
    /\ Len(handed) < MaxRecords
    /\ Source!Fetch
    /\ IF opt.listen
       THEN pending' \in LiveBatches
       ELSE Len(handed) < Len(Session) /\ pending' = <<Session[Len(handed) + 1]>>
    /\ UNCHANGED <<opt, tableVars, configVars, pc, u, have_tick, cur_ts,
                   historyVars, logVars>>

\* Mutants of TickDue: a timestamp of 0 stands for no tick; every record is a
\* tick boundary.
TickDueAfterZero(r) == cur_ts # 0 /\ r.sim_timestamp_ns # cur_ts
TickDueAlways(r) == have_tick

\* A change of timestamp makes the tick before it due.
TickDue(r) == have_tick /\ r.sim_timestamp_ns # cur_ts

\* Mutant of NextRecord: the record is applied before the tick is processed.
ApplyEarly ==
    /\ pc = "next"
    /\ Source!Return
    /\ u' = Head(pending)
    /\ Table!Apply(u', u'.sim_timestamp_ns)
    /\ pc' = IF TickDue(u') THEN "tick" ELSE "apply"
    /\ UNCHANGED <<opt, configVars, have_tick, cur_ts, historyVars, logVars>>

\* next() returns a record.
NextRecord ==
    /\ pc = "next"
    /\ Source!Return
    /\ u' = Head(pending)
    /\ pc' = IF TickDue(u') THEN "tick" ELSE "apply"
    /\ UNCHANGED <<opt, tableVars, configVars, have_tick, cur_ts, historyVars, logVars>>

\* The rest of the loop body: the record becomes the current tick's.
ApplyRecord ==
    /\ pc = "apply"
    /\ Table!Apply(u, u.sim_timestamp_ns)
    /\ cur_ts' = u.sim_timestamp_ns
    /\ have_tick' = TRUE
    /\ pc' = "next"
    /\ UNCHANGED <<opt, sourceVars, configVars, u, historyVars, logVars>>

\* next() returns false: the last tick is still to be processed. A file ends
\* with its last record, a feed whenever it falls silent.
SourceEnds ==
    /\ pc = "next"
    /\ Source!Stop
    /\ source_state' = "ended"
    /\ opt.listen \/ Len(handed) = Len(Session)
    /\ pc' = IF have_tick THEN "tick" ELSE "finish"
    /\ UNCHANGED <<opt, tableVars, configVars, u, have_tick, cur_ts, historyVars, logVars>>

\* next() throws (a reconfigured feed, a truncated file): run() gives up, and
\* the bet log is closed unfinished.
SourceFails ==
    /\ pc \in {"start", "next"}
    /\ Source!Stop
    /\ source_state' = "failed"
    /\ pc' = "failed"
    /\ AbandonLog
    /\ UNCHANGED <<opt, tableVars, configVars, u, have_tick, cur_ts, historyVars>>

\* service() at the start of process_tick(): a command is applied and answered.
ServeCommand ==
    /\ pc = "tick"
    /\ opt.ws
    /\ commands_received < MaxCommands
    /\ \E msg \in Commands : cfg' = ApplyCommand(cfg, msg, opt.hash)
    /\ commands_received' = commands_received + 1
    /\ UNCHANGED <<opt, sourceVars, tableVars, pc, u, have_tick, cur_ts,
                   historyVars, logVars>>

\* The quotes of one market that are not stale at a tick.
FreshQuotes(tbl, m, ts, config) ==
    LET fresh == {b \in HBooks :
                    ~Table!QuoteIsStale(tbl[m][b], ts, config.stale_ms * NsPerMs)}
    IN [b \in fresh |-> tbl[m][b].odds]

Prices(tbl, ts, config) ==
    [m \in HMarkets |-> FairPrice(config.devig_method, FreshQuotes(tbl, m, ts, config))]

\* The bets of a tick, market after market.
BetsAt(tbl, ts, config) ==
    FlattenSeq([i \in 1..HeaderMarkets |->
        BetsOn(ts, i - 1, Prices(tbl, ts, config)[i - 1],
               FreshQuotes(tbl, i - 1, ts, config), config)])

\* What a dashboard is sent: the configuration, and the first markets' prices.
PushOf(prices) ==
    [ts |-> cur_ts, config |-> Parameters(cfg),
     prices |-> [m \in {k \in HMarkets : k < WsMarkets /\ prices[k] # NoPrice} |-> prices[m]]]

\* The tick at hand, and the bets a log is to get of it.
ThisTick ==
    [ts |-> cur_ts, config |-> Parameters(cfg),
     prices |-> Prices(table, cur_ts, cfg), seen |-> offered]
TickBets == IF log_open THEN BetsAt(table, cur_ts, cfg) ELSE <<>>

\* process_tick() after service(). Whether a push is due is up to the wall
\* clock and to who is connected.
ProcessTick ==
    /\ pc = "tick"
    /\ ticks' = Append(ticks, ThisTick)
    /\ AcceptBets(TickBets)
    /\ placed' = placed \o TickBets
    /\ \/ UNCHANGED pushes
       \/ opt.ws /\ pushes' = Append(pushes, PushOf(ThisTick.prices))
    /\ pc' = IF source_state = "ended" THEN "finish" ELSE "apply"
    /\ UNCHANGED <<opt, sourceVars, tableVars, configVars, u, have_tick, cur_ts,
                   log_open, header_count>>

\* The end of run(): the bet log is completed.
Finish ==
    /\ pc = "finish"
    /\ pc' = "done"
    /\ IF log_open THEN FinishLog ELSE UNCHANGED logVars
    /\ UNCHANGED <<opt, sourceVars, tableVars, configVars, u, have_tick, cur_ts,
                   historyVars>>

\* The process is killed, or a write of the bet log throws: between two steps,
\* inside finish(), or inside process_tick() with some of its bets accepted.
Kill ==
    /\ pc \in {"next", "tick", "apply", "finish"}
    /\ pc' = "failed"
    /\ \E n \in 0..(IF pc = "tick" THEN Len(TickBets) ELSE 0) :
          LET accepted == SubSeq(TickBets, 1, n)
          IN /\ placed' = placed \o accepted
             /\ ticks' = IF n = 0 THEN ticks ELSE Append(ticks, ThisTick)
             /\ CrashLog(accepted, pc = "finish")
    /\ UNCHANGED <<opt, sourceVars, tableVars, configVars, u, have_tick, cur_ts, pushes>>

Next ==
    \/ Begin \/ FetchMore \/ NextRecord \/ ApplyRecord \/ SourceEnds \/ SourceFails
    \/ ServeCommand \/ ProcessTick \/ Finish \/ Kill

Spec == Init /\ [][Next]_vars
-----------------------------------------------------------------------------
\* The loop's variables stay in their ranges; parameters that started in range
\* stay there under any messages (apply_command()).
TypeOK ==
    /\ opt \in Options
    /\ source_state \in {"opening", "streaming", "ended", "failed"}
    /\ pending \in Seq(Updates)
    /\ handed \in Seq(Updates)
    /\ Table!TypeOK
    /\ cfg \in Configs
    /\ InRangeConfig(InitialConfig) => InRangeConfig(cfg)
    /\ commands_received \in 0..MaxCommands
    /\ pc \in {"start", "next", "tick", "apply", "finish", "done", "failed"}
    /\ u \in Updates
    /\ have_tick \in BOOLEAN
    /\ cur_ts \in Nat
    /\ log_open \in BOOLEAN
    /\ Len(log_buffer) < kBufferRecords
    /\ header_count \in Nat
    /\ record_count = Len(placed)

\* The table as a function of a set of records: the newest of each slot.
TableOf(records) ==
    [m \in Table!Markets |-> [b \in Table!Books |->
        LET own == {r \in records : r.market_id = m /\ r.book_id = b}
            newest == CHOOSE r \in own : \A s \in own : s.seq_no <= r.seq_no
        IN IF own = {} THEN Table!EmptyQuote
           ELSE Table!QuoteOf(newest, newest.sim_timestamp_ns)]]

PricesBy(tick, records, parameters) ==
    tick.prices = Prices(TableOf(records), tick.ts,
                         [stale_ms |-> parameters[1], devig_method |-> parameters[4]])

\* The records of a session up to and including a timestamp.
AsOf(ts) == {r \in Updates : r.sim_timestamp_ns <= ts}

\* No look-ahead and nothing missed: reading a session file, each tick is priced
\* from all the records up to its timestamp and from none after it, though the
\* loop learns that a tick is over only from the first record of the next.
PricesAreAsOf ==
    ~opt.listen => \A i \in DOMAIN ticks :
        PricesBy(ticks[i], AsOf(ticks[i].ts), ticks[i].config)

\* A session read to its end has every tick priced, once and in order.
EveryTickPricedOnce ==
    ~opt.listen =>
        /\ \A i, j \in DOMAIN ticks : i < j => ticks[i].ts < ticks[j].ts
        /\ pc = "done" =>
              {ticks[i].ts : i \in DOMAIN ticks} = {r.sim_timestamp_ns : r \in Updates}

\* The promise of --hash: the trajectory it digests is a function of the session
\* and the command line, whatever dashboards send meanwhile.
DigestIsReproducible ==
    opt.hash => \A i \in DOMAIN ticks :
        PricesBy(ticks[i], AsOf(ticks[i].ts), Parameters(InitialConfig))

\* "The dashboard is a VIEW, never a participant [...] and cannot influence
\* consensus, sizing, or the digest" (src/engine/main.cpp:254): the prices are
\* those of the command line's parameters, in every mode.
DashboardIsAView ==
    \A i \in DOMAIN ticks : PricesBy(ticks[i], ticks[i].seen, Parameters(InitialConfig))

\* A push shows prices of one tick together with the parameters they come from.
PushesMatchTicks ==
    \A i \in DOMAIN pushes : \E j \in DOMAIN ticks :
        /\ pushes[i].ts = ticks[j].ts
        /\ pushes[i].config = ticks[j].config
        /\ \A m \in DOMAIN pushes[i].prices : pushes[i].prices[m] = ticks[j].prices[m]

\* On any feed a price depends only on which records have arrived, the tick and
\* the parameters then, not on the order or number of their arrivals; and the
\* dashboard is shown it with those parameters (process_tick()).
PricesFollowWhatArrived ==
    /\ \A i \in DOMAIN ticks : PricesBy(ticks[i], ticks[i].seen, ticks[i].config)
    /\ PushesMatchTicks

\* The stake on a market at a tick, over all its bets, stays within the largest
\* exposure cap that was in force at that tick (--max-exposure: "cap on total
\* staked fraction per market-tick", src/engine/main.cpp:132).
StakeOn(ts, m) ==
    SumFunction([i \in {k \in DOMAIN placed : placed[k].ts = ts /\ placed[k].market_id = m}
                    |-> placed[i].stake])
CapsAt(ts) == {ticks[i].config[3] : i \in {k \in DOMAIN ticks : ticks[k].ts = ts}}
ExposureCapHolds ==
    \A i \in DOMAIN placed : StakeOn(placed[i].ts, placed[i].market_id) <= Max(CapsAt(placed[i].ts))

\* What the cap needs on a live feed: timestamps that never step back.
HandedInOrder ==
    \A i, j \in DOMAIN handed : i < j => handed[i].sim_timestamp_ns <= handed[j].sim_timestamp_ns
OrderedFeedKeepsCap == HandedInOrder => ExposureCapHolds

\* A log whose header has a count holds every bet of a run that completed. Any
\* other is a prefix of the bets placed, however the engine came to stop.
BetLogIsAllOrTruncated ==
    opt.bets =>
        /\ IsPrefix(log_file, placed)
        /\ header_count # 0 => pc = "done" /\ log_file = placed /\ header_count = Len(placed)
        /\ pc = "done" => log_file = placed
=============================================================================
