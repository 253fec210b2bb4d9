------------------------------ MODULE EngineProofs ------------------------------
(***************************************************************************)
(* What the engine's run guarantees for every ordered session, table,      *)
(* command line and set of dashboard messages.                             *)
(***************************************************************************)
EXTENDS Engine, BasicFacts

TableProofs == INSTANCE BookTableProofs WITH MaxRejections <- 0

LEMMA SessionIs ==
    /\ Session \in Seq(Updates) /\ Len(Session) \in Nat \ {0} /\ DOMAIN Session = 1..Len(Session)
    /\ \A i \in 1..Len(Session) : Session[i] \in Updates
    /\ \A r \in Updates : \E i \in 1..Len(Session) : r = Session[i]
    /\ \A r \in Updates : /\ r.seq_no \in Nat /\ r.seq_no < kEmptySeq
                          /\ r.sim_timestamp_ns \in Nat /\ r.market_id \in Nat /\ r.book_id \in Nat
    /\ kEmptySeq \in Nat
<1>1. Session \in Seq(Updates) /\ Session # <<>>
  BY SessionRecords
<1>2. Len(Session) \in Nat \ {0} /\ DOMAIN Session = 1..Len(Session)
  BY <1>1, EmptySeq, LenProperties
<1>3. \A r \in Updates : /\ r.seq_no \in 0..(kEmptySeq - 1)
                         /\ r.sim_timestamp_ns \in Nat /\ r.market_id \in Nat /\ r.book_id \in Nat
  BY SessionRecords
<1>4. kEmptySeq \in Nat
  BY EngineConstants
<1> QED
  BY <1>1, <1>2, <1>3, <1>4 DEF Updates

\* A book's number names a record.
LEMMA NumberNames ==
    ASSUME NEW r \in Updates, NEW s \in Updates, r.book_id = s.book_id
    PROVE  /\ r.seq_no = s.seq_no => r = s
           /\ r.seq_no <= s.seq_no => r.sim_timestamp_ns <= s.sim_timestamp_ns
<1>1. PICK i \in 1..Len(Session), j \in 1..Len(Session) : r = Session[i] /\ s = Session[j]
  BY SessionIs
<1>2. r.seq_no \in Nat /\ s.seq_no \in Nat /\ r.sim_timestamp_ns \in Nat
  BY SessionIs
<1>3. CASE i < j
  <2>1. r.sim_timestamp_ns <= s.sim_timestamp_ns /\ r.seq_no < s.seq_no
    BY <1>1, <1>3, SessionIs, SessionRecords
  <2> QED
    BY <1>2, <2>1
<1>4. CASE j < i
  <2>1. s.seq_no < r.seq_no
    BY <1>1, <1>4, SessionIs, SessionRecords
  <2> QED
    BY <1>2, <2>1
<1>5. CASE i = j
  BY <1>1, <1>2, <1>5
<1>6. i < j \/ j < i \/ i = j
  BY SessionIs
<1> QED
  BY <1>3, <1>4, <1>5, <1>6

\* A session is what the quote table assumes of a feed.
LEMMA TableAssumptions ==
    TableProofs!TableSize /\ TableProofs!UpdateFields /\ TableProofs!TimestampsFollowSeq
<1>1. TableProofs!TableSize
  BY EngineConstants DEF TableProofs!TableSize
<1>2. TableProofs!UpdateFields
  BY SessionRecords, EngineConstants DEF TableProofs!UpdateFields
<1>3. TableProofs!TimestampsFollowSeq
  BY NumberNames DEF TableProofs!TimestampsFollowSeq
<1> QED
  BY <1>1, <1>2, <1>3

\* What is proved of the quote table holds of the engine's.
LEMMA TableKeeps ==
    ASSUME Table!TypeOK, Table!NewestWins, NEW r \in Updates,
           Table!Apply(r, r.sim_timestamp_ns)
    PROVE  Table!TypeOK' /\ Table!NewestWins'
<1>1. /\ TableProofs!TypeOK <=> Table!TypeOK
      /\ TableProofs!TypeOK' <=> Table!TypeOK'
  BY DEF Table!TypeOK, TableProofs!TypeOK, Table!Markets, TableProofs!Markets, Table!Books,
         TableProofs!Books, Table!Quotes, TableProofs!Quotes, Table!InRange, TableProofs!InRange,
         Table!EmptyQuote, TableProofs!EmptyQuote, Table!QuoteOf, TableProofs!QuoteOf
<1>2. /\ TableProofs!NewestWins <=> Table!NewestWins
      /\ TableProofs!NewestWins' <=> Table!NewestWins'
  BY DEF Table!NewestWins, TableProofs!NewestWins, Table!Markets, TableProofs!Markets, Table!Books,
         TableProofs!Books, Table!OfferedTo, TableProofs!OfferedTo,
         Table!EmptyQuote, TableProofs!EmptyQuote, Table!QuoteOf, TableProofs!QuoteOf
<1>3. TableProofs!Apply(r, r.sim_timestamp_ns)
  BY DEF Table!Apply, TableProofs!Apply, Table!Accept, TableProofs!Accept,
         Table!RejectStaleSeq, TableProofs!RejectStaleSeq,
         Table!RejectOutOfRange, TableProofs!RejectOutOfRange, Table!InRange, TableProofs!InRange,
         Table!Advances, TableProofs!Advances, Table!QuoteOf, TableProofs!QuoteOf
<1>4. TableProofs!TypeOK' /\ TableProofs!NewestWins'
  BY <1>1, <1>2, <1>3, TableAssumptions, TableProofs!ApplyKeepsTypes, TableProofs!ApplyKeepsNewest
<1> QED
  BY <1>1, <1>2, <1>4
-----------------------------------------------------------------------------
\* A message leaves the parameters typed, and in the ranges if they were.
LEMMA CommandKeeps ==
    ASSUME NEW c \in Configs, NEW msg \in Commands, NEW h \in BOOLEAN
    PROVE  /\ ApplyCommand(c, msg, h) \in Configs
           /\ InRangeConfig(c) => InRangeConfig(ApplyCommand(c, msg, h))
           /\ h => ApplyCommand(c, msg, h) = c
<1> DEFINE d == ApplyCommand(c, msg, h)
<1>1. CASE ~Accepts(msg, h)
  BY <1>1 DEF ApplyCommand, Accepts
<1>2. CASE Accepts(msg, h)
  <2>1. ~h /\ IsValidChange(msg) /\ d = Changed(c, msg)
    BY <1>2 DEF ApplyCommand, Accepts
  <2>2. One \in Nat \ {0} /\ MaxStaleMs \in Nat /\ msg.num \in Int \union {Absent, NotFinite}
    BY ConfigConstants
  <2>3. CASE msg.key = "devig"
    <3>1. d = [stale_ms |-> c.stale_ms, kelly_fraction |-> c.kelly_fraction,
             max_exposure |-> c.max_exposure, devig_method |-> msg.str,
             changes |-> c.changes + 1]
      BY <2>1, <2>3 DEF Changed, Configs
    <3>2. msg.str \in DevigMethods
      BY <2>1, <2>3 DEF IsValidChange
    <3> QED
      BY <2>1, <3>1, <3>2 DEF Configs, InRangeConfig
  <2>4. CASE msg.key = "stale-ms"
    <3>1. d = [stale_ms |-> msg.num \div One, kelly_fraction |-> c.kelly_fraction,
             max_exposure |-> c.max_exposure, devig_method |-> c.devig_method,
             changes |-> c.changes + 1]
      BY <2>1, <2>4 DEF Changed, Configs
    <3>2. msg.num \in Int /\ msg.num >= One /\ msg.num <= MaxStaleMs * One
      BY <2>1, <2>2, <2>4 DEF IsValidChange, IsFinite, StaleMsInRange
    <3>3. One * (MaxStaleMs + 1) = One * MaxStaleMs + One /\ MaxStaleMs * One = One * MaxStaleMs
          /\ One * 1 = One /\ One * MaxStaleMs \in Nat
      BY <2>2
    <3>4. 1 <= msg.num \div One /\ ~(MaxStaleMs + 1 <= msg.num \div One)
      <4>1. One * 1 <= msg.num /\ ~(One * (MaxStaleMs + 1) <= msg.num)
        BY <2>2, <3>2, <3>3
      <4>2. MaxStaleMs + 1 \in Int /\ 1 \in Int
        BY <2>2
      <4> QED
        BY <2>2, <3>2, <4>1, <4>2, QuotientAtLeast
    <3>5. msg.num \div One \in Int
      BY <2>2, <3>2
    <3>6. msg.num \div One \in 1..MaxStaleMs
      BY <2>2, <3>4, <3>5
    <3> DEFINE n == msg.num \div One
    <3>7. n \in Nat /\ n \in 1..MaxStaleMs
      BY <3>6
    <3> HIDE DEF d, n
    <3>8. d \in Configs
      BY <3>1, <3>7 DEF Configs, n
    <3>9. InRangeConfig(c) => InRangeConfig(d)
      BY <3>1, <3>7 DEF InRangeConfig, n
    <3> QED
      BY <2>1, <3>8, <3>9 DEF d
  <2>5. CASE msg.key = "kelly-fraction"
    <3>1. d = [stale_ms |-> c.stale_ms, kelly_fraction |-> msg.num,
             max_exposure |-> c.max_exposure, devig_method |-> c.devig_method,
             changes |-> c.changes + 1]
      BY <2>1, <2>5 DEF Changed, Configs
    <3>2. msg.num \in Int /\ msg.num \in 1..One
      BY <2>1, <2>2, <2>5 DEF IsValidChange, IsFinite, FractionInRange
    <3> HIDE DEF d
    <3>3. d \in Configs
      BY <3>1, <3>2 DEF Configs
    <3>4. InRangeConfig(c) => InRangeConfig(d)
      BY <3>1, <3>2 DEF InRangeConfig
    <3> QED
      BY <2>1, <3>3, <3>4 DEF d
  <2>6. CASE msg.key = "max-exposure"
    <3>1. d = [stale_ms |-> c.stale_ms, kelly_fraction |-> c.kelly_fraction,
             max_exposure |-> msg.num, devig_method |-> c.devig_method,
             changes |-> c.changes + 1]
      BY <2>1, <2>6 DEF Changed, Configs
    <3>2. msg.num \in Int /\ msg.num \in 1..One
      BY <2>1, <2>2, <2>6 DEF IsValidChange, IsFinite, FractionInRange
    <3> HIDE DEF d
    <3>3. d \in Configs
      BY <3>1, <3>2 DEF Configs
    <3>4. InRangeConfig(c) => InRangeConfig(d)
      BY <3>1, <3>2 DEF InRangeConfig
    <3> QED
      BY <2>1, <3>3, <3>4 DEF d
  <2> QED
    BY <2>1, <2>3, <2>4, <2>5, <2>6 DEF IsValidChange
<1> QED
  BY <1>1, <1>2
-----------------------------------------------------------------------------
\* Where the loop stands, and what it holds there.
PcOK ==
    /\ opt \in Options /\ ~(opt.hash /\ opt.listen)
    /\ source_state \in {"opening", "streaming", "ended", "failed"}
    /\ pc \in {"start", "next", "tick", "apply", "finish", "done", "failed"}
    /\ pc = "start" => source_state = "opening"
    /\ pc \in {"next", "apply"} => source_state = "streaming"
    /\ pc = "tick" => source_state \in {"streaming", "ended"}
    /\ pc \in {"finish", "done"} => source_state = "ended"
    /\ pending \in Seq(Updates) /\ handed \in Seq(Updates)
    /\ u \in Updates /\ have_tick \in BOOLEAN /\ cur_ts \in Nat

TableOK == Table!TypeOK /\ Table!NewestWins

ConfigOK ==
    /\ commands_received \in 0..MaxCommands
    /\ cfg \in Configs
    /\ InRangeConfig(InitialConfig) => InRangeConfig(cfg)
    /\ opt.hash => cfg = InitialConfig

LoopOK == PcOK /\ TableOK /\ ConfigOK

\* Whatever arrives is a piece of the session.
LEMMA BatchesAreRecords ==
    /\ \A s \in LiveBatches : s \in Seq(Updates)
    /\ \A n \in Nat : n < Len(Session) => <<Session[n + 1]>> \in Seq(Updates)
<1>1. ASSUME NEW i \in DOMAIN Session, NEW j \in Int
      PROVE  SubSeq(Session, i, Min({j, Len(Session)})) \in Seq(Updates)
  <2>1. Len(Session) \in Int /\ i \in 1..Len(Session)
    BY SessionIs
  <2> DEFINE e == Min({j, Len(Session)})
  <2>2. \E x \in {j, Len(Session)} : \A y \in {j, Len(Session)} : x <= y
    BY <2>1
  <2>3. e \in {j, Len(Session)} /\ e <= Len(Session)
    BY <2>2 DEF Min
  <2>4. e \in Int
    BY <2>1, <2>3
  <2> HIDE DEF e
  <2>5. \A k \in i..e : Session[k] \in Updates
    <3>1. \A k \in i..e : k \in 1..Len(Session)
      BY <2>1, <2>3, <2>4
    <3> QED
      BY <3>1, SessionIs
  <2>6. SubSeq(Session, i, e) \in Seq(Updates)
    BY <2>1, <2>4, <2>5, SubSeqProperties
  <2> QED
    BY <2>6 DEF e
<1>2. ASSUME NEW s \in LiveBatches
      PROVE  s \in Seq(Updates)
  <2>1. PICK i \in DOMAIN Session : s = SubSeq(Session, i, Min({i + kRecordsPerDatagram - 1, Len(Session)}))
    BY <1>2 DEF LiveBatches
  <2>2. i + kRecordsPerDatagram - 1 \in Int
    BY SessionIs, EngineConstants
  <2> QED
    BY <1>1, <2>1, <2>2
<1>3. ASSUME NEW n \in Nat, n < Len(Session)
      PROVE  <<Session[n + 1]>> \in Seq(Updates)
  <2>1. n + 1 \in 1..Len(Session)
    BY <1>3, SessionIs
  <2>2. Session[n + 1] \in Updates
    BY <2>1, SessionIs
  <2> QED
    BY <2>2
<1> QED
  BY <1>2, <1>3

LEMMA InitLoop == Init => LoopOK
<1> SUFFICES ASSUME Init
             PROVE  LoopOK
  OBVIOUS
<1>1. PcOK
  <2>1. 1 \in 1..Len(Session)
    BY SessionIs
  <2>2. Session[1] \in Updates
    BY <2>1, SessionIs
  <2>3. <<>> \in Seq(Updates)
    OBVIOUS
  <2> QED
    BY <2>2, <2>3 DEF Init, Source!Init, PcOK
<1>2. TableOK
  BY EngineConstants DEF Init, TableOK, Table!Init, Table!TypeOK, Table!NewestWins, Table!Quotes,
         Table!OfferedTo
<1>3. ConfigOK
  <2>1. opt \in Options
    BY DEF Init
  <2>2. /\ opt.stale_ms \in Nat /\ opt.kelly_fraction \in Int /\ opt.max_exposure \in Int
        /\ opt.devig_method \in DevigMethods
    BY <2>1, OptionFields
  <2> QED
    BY <2>2, EngineConstants DEF Init, ConfigOK, Configs, InitialConfig
<1> QED
  BY <1>1, <1>2, <1>3 DEF LoopOK

LEMMA StepPc == ASSUME PcOK, Next PROVE PcOK'
<1>1. CASE Begin
  <2>1. <<>> \in Seq(Updates)
    OBVIOUS
  <2> QED
    BY <1>1, <2>1 DEF PcOK, Begin, Source!Start
<1>2. CASE FetchMore
  <2>1. pending' \in Seq(Updates)
    <3>1. Len(handed) \in Nat
      BY LenProperties DEF PcOK
    <3> QED
      BY <1>2, <3>1, BatchesAreRecords DEF FetchMore
  <2> QED
    BY <1>2, <2>1 DEF PcOK, FetchMore, Source!Fetch
<1>3. CASE NextRecord
  <2>1. /\ pending # <<>> /\ u' = Head(pending) /\ source_state = "streaming"
        /\ handed' = Append(handed, Head(pending)) /\ pending' = Tail(pending)
        /\ pc' \in {"tick", "apply"}
        /\ UNCHANGED <<opt, source_state, have_tick, cur_ts>>
    BY <1>3 DEF NextRecord, Source!Return
  <2>2. u' \in Updates /\ pending' \in Seq(Updates)
    BY <2>1, HeadTailProperties DEF PcOK
  <2>3. handed' \in Seq(Updates)
    BY <2>1, <2>2, AppendProperties DEF PcOK
  <2> QED
    BY <2>1, <2>2, <2>3 DEF PcOK
<1>4. CASE ApplyRecord
  BY <1>4, SessionIs DEF PcOK, ApplyRecord, sourceVars
<1>5. CASE SourceEnds
  BY <1>5 DEF PcOK, SourceEnds, Source!Stop
<1>6. CASE SourceFails
  BY <1>6 DEF PcOK, SourceFails, Source!Stop
<1>7. CASE ServeCommand
  BY <1>7 DEF PcOK, ServeCommand, sourceVars
<1>8. CASE ProcessTick
  BY <1>8 DEF PcOK, ProcessTick, sourceVars
<1>9. CASE Finish
  BY <1>9 DEF PcOK, Finish, sourceVars
<1>10. CASE Kill
  BY <1>10 DEF PcOK, Kill, sourceVars
<1> QED
  BY <1>1, <1>2, <1>3, <1>4, <1>5, <1>6, <1>7, <1>8, <1>9, <1>10 DEF Next

LEMMA StepTable == ASSUME PcOK, TableOK, Next PROVE TableOK'
<1>1. CASE ApplyRecord
  BY <1>1, TableKeeps DEF PcOK, TableOK, ApplyRecord
<1>2. CASE UNCHANGED tableVars
  BY <1>2 DEF TableOK, tableVars, Table!TypeOK, Table!NewestWins, Table!OfferedTo
<1> QED
  BY <1>1, <1>2 DEF Next, Begin, FetchMore, NextRecord, SourceEnds, SourceFails, ServeCommand,
         ProcessTick, Finish, Kill

LEMMA StepConfig == ASSUME PcOK, ConfigOK, Next PROVE ConfigOK'
<1>1. opt' = opt /\ InitialConfig' = InitialConfig
  BY DEF Next, Begin, FetchMore, NextRecord, ApplyRecord, SourceEnds, SourceFails, ServeCommand,
         ProcessTick, Finish, Kill, InitialConfig
<1>2. CASE ServeCommand
  <2>1. PICK msg \in Commands : cfg' = ApplyCommand(cfg, msg, opt.hash)
    BY <1>2 DEF ServeCommand
  <2>2. opt.hash \in BOOLEAN
    BY OptionFields DEF PcOK
  <2>3. cfg \in Configs
    BY DEF ConfigOK
  <2>4. /\ cfg' \in Configs
        /\ InRangeConfig(cfg) => InRangeConfig(cfg')
        /\ opt.hash => cfg' = cfg
    BY <2>1, <2>2, <2>3, CommandKeeps
  <2>5. commands_received' \in 0..MaxCommands
    BY <1>2, EngineConstants DEF ServeCommand, ConfigOK
  <2> HIDE DEF InitialConfig
  <2> QED
    BY <1>1, <2>4, <2>5 DEF ConfigOK
<1>3. CASE UNCHANGED configVars
  BY <1>1, <1>3 DEF ConfigOK, configVars
<1> QED
  BY <1>2, <1>3 DEF Next, Begin, FetchMore, NextRecord, ApplyRecord, SourceEnds, SourceFails,
         ProcessTick, Finish, Kill

LEMMA StepLoop == ASSUME LoopOK, [Next]_vars PROVE LoopOK'
<1>1. CASE Next
  BY <1>1, StepPc, StepTable, StepConfig DEF LoopOK
<1>2. CASE UNCHANGED vars
  BY <1>2 DEF vars, sourceVars, tableVars, configVars, LoopOK, PcOK, TableOK, ConfigOK,
         InitialConfig, Table!TypeOK, Table!NewestWins, Table!OfferedTo
<1> QED
  BY <1>1, <1>2
-----------------------------------------------------------------------------
\* A history variable is a sequence of something.
IsSeq(s) == \E S : s \in Seq(S)

LEMMA EmptyIsSeq == IsSeq(<<>>)
<1>1. <<>> \in Seq({})
  OBVIOUS
<1> QED
  BY <1>1 DEF IsSeq

LEMMA SeqIs ==
    ASSUME NEW s, IsSeq(s)
    PROVE  Len(s) \in Nat /\ DOMAIN s = 1..Len(s)
BY LenProperties DEF IsSeq

LEMMA AppendIsSeq ==
    ASSUME NEW s, IsSeq(s), NEW e
    PROVE  /\ IsSeq(Append(s, e)) /\ Len(Append(s, e)) = Len(s) + 1
           /\ DOMAIN Append(s, e) = 1..(Len(s) + 1)
           /\ \A i \in DOMAIN s : Append(s, e)[i] = s[i]
           /\ Append(s, e)[Len(s) + 1] = e
<1>1. PICK S : s \in Seq(S)
  BY DEF IsSeq
<1>2. s \in Seq(S \union {e}) /\ e \in S \union {e}
  BY <1>1, SeqMonotonic
<1>3. /\ Append(s, e) \in Seq(S \union {e}) /\ Len(Append(s, e)) = Len(s) + 1
      /\ \A i \in 1..Len(s) : Append(s, e)[i] = s[i]
      /\ Append(s, e)[Len(s) + 1] = e
  BY <1>2, AppendProperties
<1>4. DOMAIN s = 1..Len(s) /\ DOMAIN Append(s, e) = 1..Len(Append(s, e))
  BY <1>2, <1>3, LenProperties
<1> QED
  BY <1>3, <1>4 DEF IsSeq

\* The two parameters a price depends on.
LEMMA PricesDepend ==
    ASSUME NEW tbl, NEW ts, NEW c, NEW d,
           c.stale_ms = d.stale_ms, c.devig_method = d.devig_method
    PROVE  Prices(tbl, ts, c) = Prices(tbl, ts, d)
BY DEF Prices, FreshQuotes

\* A table that shows the newest of what it was offered is the table of it.
LEMMA TableIsOfOffered ==
    ASSUME TableOK
    PROVE  table = TableOf(offered)
<1> DEFINE Own(m, b) == {r \in offered : r.market_id = m /\ r.book_id = b}
           newest(m, b) == CHOOSE r \in Own(m, b) : \A s \in Own(m, b) : s.seq_no <= r.seq_no
           slot(m, b) == IF Own(m, b) = {} THEN Table!EmptyQuote
                         ELSE Table!QuoteOf(newest(m, b), newest(m, b).sim_timestamp_ns)
<1>1. TableOf(offered) = [m \in Table!Markets |-> [b \in Table!Books |-> slot(m, b)]]
  BY DEF TableOf
<1>2. ASSUME NEW m \in Table!Markets, NEW b \in Table!Books
      PROVE  table[m][b] = slot(m, b)
  <2>1. Table!OfferedTo(m, b) = Own(m, b)
    BY DEF Table!OfferedTo
  <2>2. CASE Own(m, b) = {}
    BY <2>1, <2>2 DEF TableOK, Table!NewestWins
  <2>3. CASE Own(m, b) # {}
    <3>1. PICK r \in Own(m, b) :
             /\ table[m][b] = Table!QuoteOf(r, r.sim_timestamp_ns)
             /\ \A v \in Own(m, b) : v.seq_no <= r.seq_no
      BY <2>1, <2>3 DEF TableOK, Table!NewestWins
    <3>2. newest(m, b) \in Own(m, b) /\ \A v \in Own(m, b) : v.seq_no <= newest(m, b).seq_no
      BY <3>1
    <3>3. Own(m, b) \subseteq Updates
      BY DEF TableOK, Table!TypeOK
    <3> HIDE DEF newest
    <3>4. r.seq_no = newest(m, b).seq_no
      <4>1. r.seq_no \in Nat /\ newest(m, b).seq_no \in Nat
        BY <3>1, <3>2, <3>3, SessionIs
      <4> QED
        BY <3>1, <3>2, <4>1
    <3>5. r.book_id = newest(m, b).book_id
      BY <3>1, <3>2
    <3>6. r = newest(m, b)
      <4>1. r \in Updates /\ newest(m, b) \in Updates
        BY <3>1, <3>2, <3>3
      <4> QED
        BY <3>4, <3>5, <4>1, NumberNames
    <3> QED
      BY <2>3, <3>1, <3>6
  <2> QED
    BY <2>2, <2>3
<1>3. table \in [Table!Markets -> [Table!Books -> Table!Quotes]]
  BY DEF TableOK, Table!TypeOK
<1> HIDE DEF slot
<1>4. table = [m \in Table!Markets |-> [b \in Table!Books |-> slot(m, b)]]
  BY <1>2, <1>3
<1> QED
  BY <1>1, <1>4

\* Records out of range leave no mark on a table.
LEMMA OnlyInRangeCounts ==
    ASSUME NEW R \in SUBSET Updates
    PROVE  TableOf(R) = TableOf({r \in R : Table!InRange(r)})
<1> DEFINE Q == {r \in R : Table!InRange(r)}
           Own(S, m, b) == {r \in S : r.market_id = m /\ r.book_id = b}
<1>1. ASSUME NEW m \in Table!Markets, NEW b \in Table!Books
      PROVE  Own(R, m, b) = Own(Q, m, b)
  <2>1. ASSUME NEW r \in R, r.market_id = m, r.book_id = b
        PROVE  Table!InRange(r)
    BY <2>1, EngineConstants DEF Table!InRange, Table!Markets, Table!Books
  <2> QED
    BY <2>1
<1> DEFINE slot(S, m, b) ==
              LET newest == CHOOSE r \in Own(S, m, b) : \A s \in Own(S, m, b) : s.seq_no <= r.seq_no
              IN IF Own(S, m, b) = {} THEN Table!EmptyQuote
                 ELSE Table!QuoteOf(newest, newest.sim_timestamp_ns)
<1>2. \A S : TableOf(S) = [m \in Table!Markets |-> [b \in Table!Books |-> slot(S, m, b)]]
  BY DEF TableOf
<1>3. \A m \in Table!Markets, b \in Table!Books : slot(R, m, b) = slot(Q, m, b)
  <2> SUFFICES ASSUME NEW m \in Table!Markets, NEW b \in Table!Books
               PROVE  slot(R, m, b) = slot(Q, m, b)
    OBVIOUS
  <2>1. Own(R, m, b) = Own(Q, m, b)
    BY <1>1
  <2> HIDE DEF Own
  <2> QED
    BY <2>1
<1> HIDE DEF slot, Q
<1>4. TableOf(R) = TableOf(Q)
  BY <1>2, <1>3
<1> QED
  BY <1>4 DEF Q

\* The price of a tick follows from the records it saw and its parameters, and
\* in --hash mode those parameters are the command line's.
TicksOK ==
    /\ IsSeq(ticks) /\ IsSeq(pushes)
    /\ \A i \in DOMAIN ticks :
          /\ PricesBy(ticks[i], ticks[i].seen, ticks[i].config)
          /\ opt.hash => ticks[i].config = Parameters(InitialConfig)
    /\ PushesMatchTicks

LEMMA ThisTickIs ==
    ASSUME LoopOK
    PROVE  /\ PricesBy(ThisTick, ThisTick.seen, ThisTick.config)
           /\ opt.hash => ThisTick.config = Parameters(InitialConfig)
<1> DEFINE c == [stale_ms |-> Parameters(cfg)[1], devig_method |-> Parameters(cfg)[4]]
<1>1. c.stale_ms = cfg.stale_ms /\ c.devig_method = cfg.devig_method
  BY DEF Parameters
<1>2. Prices(table, cur_ts, cfg) = Prices(TableOf(offered), cur_ts, c)
  <2>1. table = TableOf(offered)
    BY TableIsOfOffered DEF LoopOK
  <2> HIDE DEF c
  <2> QED
    BY <1>1, <2>1, PricesDepend
<1>3. PricesBy(ThisTick, ThisTick.seen, ThisTick.config)
  BY <1>2 DEF PricesBy, ThisTick
<1>4. opt.hash => ThisTick.config = Parameters(InitialConfig)
  BY DEF LoopOK, ConfigOK, ThisTick
<1> QED
  BY <1>3, <1>4

\* What a step does to the history of ticks and pushes.
LEMMA HistoryGrows ==
    ASSUME Next
    PROVE  /\ UNCHANGED opt
           /\ \/ UNCHANGED <<ticks, pushes>>
              \/ pc = "tick" /\ ticks' = Append(ticks, ThisTick) /\ UNCHANGED pushes
              \/ pc = "tick" /\ ticks' = Append(ticks, ThisTick)
                    /\ pushes' = Append(pushes, PushOf(ThisTick.prices))
<1>1. CASE ProcessTick
  BY <1>1 DEF ProcessTick
<1>2. CASE Kill
  <2>1. pc = "tick" \/ ticks' = ticks
    <3>1. ASSUME NEW n \in 0..0
          PROVE  n = 0
      OBVIOUS
    <3> QED
      BY <1>2, <3>1 DEF Kill
  <2> QED
    BY <1>2, <2>1 DEF Kill
<1> QED
  BY <1>1, <1>2 DEF Next, Begin, FetchMore, NextRecord, ApplyRecord, SourceEnds, SourceFails,
         ServeCommand, Finish, historyVars

LEMMA StepTicks == ASSUME LoopOK, TicksOK, [Next]_vars PROVE TicksOK'
<1>1. CASE UNCHANGED <<opt, ticks, pushes>>
  BY <1>1 DEF TicksOK, PushesMatchTicks, InitialConfig
<1>2. CASE /\ UNCHANGED opt /\ ticks' = Append(ticks, ThisTick)
           /\ \/ UNCHANGED pushes
              \/ pushes' = Append(pushes, PushOf(ThisTick.prices))
  <2> DEFINE t == ThisTick
             p == PushOf(ThisTick.prices)
             n == Len(ticks) + 1
  <2>1. /\ IsSeq(ticks') /\ DOMAIN ticks' = 1..n /\ ticks'[n] = t
        /\ \A i \in DOMAIN ticks : ticks'[i] = ticks[i]
        /\ DOMAIN ticks = 1..Len(ticks) /\ Len(ticks) \in Nat
    BY <1>2, AppendIsSeq, SeqIs DEF TicksOK
  <2>2. \A i \in DOMAIN ticks' : i \in DOMAIN ticks \/ i = n
    BY <2>1
  <2>3. InitialConfig' = InitialConfig
    BY <1>2 DEF InitialConfig
  <2>4. PricesBy(t, t.seen, t.config) /\ (opt.hash => t.config = Parameters(InitialConfig))
    BY ThisTickIs
  <2>5. p.ts = t.ts /\ p.config = t.config /\ \A m \in DOMAIN p.prices : p.prices[m] = t.prices[m]
    BY DEF PushOf, ThisTick
  <2> HIDE DEF t, p
  <2>6. \A i \in DOMAIN ticks' :
           /\ PricesBy(ticks'[i], ticks'[i].seen, ticks'[i].config)
           /\ opt.hash => ticks'[i].config = Parameters(InitialConfig)
    BY <2>1, <2>2, <2>4 DEF TicksOK
  <2> DEFINE Shown(push, tick) ==
                /\ push.ts = tick.ts /\ push.config = tick.config
                /\ \A m \in DOMAIN push.prices : push.prices[m] = tick.prices[m]
  <2>7. \A i \in DOMAIN pushes : \E j \in DOMAIN ticks : Shown(pushes[i], ticks[j])
    BY DEF TicksOK, PushesMatchTicks
  <2>8. Shown(p, t)
    BY <2>5
  <2> HIDE DEF Shown
  <2>9. /\ IsSeq(pushes')
        /\ \A i \in DOMAIN pushes' : \E j \in DOMAIN ticks' : Shown(pushes'[i], ticks'[j])
    <3>1. \A i \in DOMAIN pushes : \E j \in DOMAIN ticks' : Shown(pushes[i], ticks'[j])
      BY <2>1, <2>7
    <3>2. CASE UNCHANGED pushes
      BY <3>1, <3>2 DEF TicksOK
    <3>3. CASE pushes' = Append(pushes, p)
      <4>1. /\ IsSeq(pushes') /\ DOMAIN pushes' = 1..(Len(pushes) + 1)
            /\ pushes'[Len(pushes) + 1] = p
            /\ \A i \in DOMAIN pushes : pushes'[i] = pushes[i]
            /\ DOMAIN pushes = 1..Len(pushes) /\ Len(pushes) \in Nat
        BY <3>3, AppendIsSeq, SeqIs DEF TicksOK
      <4>2. \A i \in DOMAIN pushes' : i \in DOMAIN pushes \/ i = Len(pushes) + 1
        BY <4>1
      <4>3. n \in DOMAIN ticks' /\ ticks'[n] = t
        BY <2>1
      <4> QED
        BY <2>8, <3>1, <4>1, <4>2, <4>3
    <3> QED
      BY <1>2, <3>2, <3>3 DEF p
  <2>10. PushesMatchTicks'
    BY <2>9 DEF PushesMatchTicks, Shown
  <2> QED
    BY <1>2, <2>1, <2>3, <2>6, <2>9, <2>10 DEF TicksOK
<1> QED
  BY <1>1, <1>2, HistoryGrows DEF vars, historyVars

\* On any feed a price depends only on which records have arrived, the tick and
\* the parameters then, not on the order or number of their arrivals; and the
\* dashboard is shown it with those parameters (process_tick()).
THEOREM PricesFollowHolds == Spec => []PricesFollowWhatArrived
<1>1. Init => LoopOK /\ TicksOK
  <2>1. Init => TicksOK
    <3>1. DOMAIN <<>> = {}
      OBVIOUS
    <3> QED
      BY <3>1, EmptyIsSeq DEF Init, TicksOK, PushesMatchTicks
  <2> QED
    BY <2>1, InitLoop
<1>2. LoopOK /\ TicksOK /\ [Next]_vars => LoopOK' /\ TicksOK'
  BY StepLoop, StepTicks
<1>3. TicksOK => PricesFollowWhatArrived
  BY DEF TicksOK, PricesFollowWhatArrived
<1> QED
  BY <1>1, <1>2, <1>3, PTL DEF Spec
-----------------------------------------------------------------------------
(***************************************************************************)
(* Reading a session file.                                                 *)
(***************************************************************************)
\* The records the table has been offered: all next() returned, but for the one
\* that waits for the tick before it to be processed.
Applied == IF source_state = "streaming" /\ pc \in {"tick", "apply"}
           THEN Len(handed) - 1 ELSE Len(handed)
FirstRecords(n) == {r \in {Session[i] : i \in 1..n} : Table!InRange(r)}

\* How far the loop is in the file.
FileOK ==
    ~opt.listen /\ pc # "failed" =>
        /\ Len(handed) <= Len(Session)
        /\ \/ pending = <<>>
           \/ Len(handed) < Len(Session) /\ pending = <<Session[Len(handed) + 1]>>
        /\ source_state = "streaming" /\ pc \in {"tick", "apply"} =>
              Len(handed) # 0 /\ u = Session[Len(handed)]
        /\ source_state = "ended" => Len(handed) = Len(Session)
        /\ offered = FirstRecords(Applied)
        /\ have_tick <=> Applied # 0
        /\ cur_ts = IF have_tick THEN Session[Applied].sim_timestamp_ns ELSE 0
        /\ pc = "tick" =>
              have_tick /\ (source_state = "streaming" => u.sim_timestamp_ns # cur_ts)

LEMMA InitFile == Init => FileOK
<1> SUFFICES ASSUME Init
             PROVE  FileOK
  OBVIOUS
<1>1. /\ source_state = "opening" /\ pending = <<>> /\ handed = <<>> /\ offered = {}
      /\ pc = "start" /\ have_tick = FALSE /\ cur_ts = 0
  BY DEF Init, Source!Init, Table!Init
<1>2. Len(handed) = 0 /\ Applied = 0
  <2>1. Len(<<>>) = 0
    OBVIOUS
  <2> QED
    BY <1>1, <2>1 DEF Applied
<1>3. FirstRecords(0) = {}
  BY DEF FirstRecords
<1>4. 0 <= Len(Session)
  BY SessionIs
<1> QED
  BY <1>1, <1>2, <1>3, <1>4 DEF FileOK

\* Applying the record at hand brings the table one record further.
LEMMA ApplyAdvances ==
    ASSUME NEW n \in Nat, n < Len(Session), offered = FirstRecords(n),
           NEW r, r = Session[n + 1], Table!Apply(r, r.sim_timestamp_ns)
    PROVE  offered' = FirstRecords(n + 1)
<1>1. offered' = IF Table!InRange(r) THEN offered \union {r} ELSE offered
  BY DEF Table!Apply, Table!Accept, Table!RejectStaleSeq, Table!RejectOutOfRange
<1>2. \A i : i \in 1..(n + 1) <=> i \in 1..n \/ i = n + 1
  OBVIOUS
<1>3. {Session[i] : i \in 1..(n + 1)} = {Session[i] : i \in 1..n} \union {r}
  BY <1>2
<1> QED
  BY <1>1, <1>3 DEF FirstRecords

LEMMA StepFile == ASSUME LoopOK, FileOK, [Next]_vars PROVE FileOK'
<1>0. /\ Len(handed) \in Nat /\ Len(Session) \in Nat /\ Len(Session) # 0
      /\ handed \in Seq(Updates) /\ pending \in Seq(Updates)
  BY LenProperties, SessionIs DEF LoopOK, PcOK
<1>1. CASE Begin
  <2>1. /\ source_state = "opening" /\ pc = "start" /\ pending' = <<>> /\ pc' \in {"next", "failed"}
        /\ source_state' = "streaming"
        /\ UNCHANGED <<opt, handed, offered, have_tick, cur_ts, u>>
    BY <1>1 DEF Begin, Source!Start, tableVars
  <2>2. Applied = Len(handed) /\ (pc' = "next" => Applied' = Len(handed))
    BY <2>1 DEF Applied
  <2> QED
    BY <2>1, <2>2 DEF FileOK, FirstRecords, Table!InRange
<1>2. CASE FetchMore
  <2>1. /\ pc = "next" /\ source_state = "streaming"
        /\ UNCHANGED <<opt, source_state, pc, handed, offered, have_tick, cur_ts, u>>
        /\ ~opt.listen => Len(handed) < Len(Session) /\ pending' = <<Session[Len(handed) + 1]>>
    BY <1>2 DEF FetchMore, Source!Fetch, tableVars
  <2>2. Applied' = Applied
    BY <2>1 DEF Applied
  <2> QED
    BY <2>1, <2>2 DEF FileOK, FirstRecords, Table!InRange
<1>3. CASE NextRecord
  <2>1. /\ pc = "next" /\ source_state = "streaming" /\ pending # <<>> /\ u' = Head(pending)
        /\ handed' = Append(handed, Head(pending)) /\ pending' = Tail(pending)
        /\ pc' = IF TickDue(u') THEN "tick" ELSE "apply"
        /\ UNCHANGED <<opt, source_state, have_tick, cur_ts, offered>>
    BY <1>3 DEF NextRecord, Source!Return, tableVars
  <2>2. Head(pending) \in Updates
    BY <1>0, <2>1, HeadTailProperties
  <2>3. Len(handed') = Len(handed) + 1
    BY <1>0, <2>1, <2>2, AppendProperties
  <2>4. Applied = Len(handed) /\ Applied' = Len(handed)
    BY <1>0, <2>1, <2>3 DEF Applied
  <2> SUFFICES ASSUME ~opt.listen
               PROVE  FileOK'
    BY <2>1 DEF FileOK
  <2>5. Len(handed) < Len(Session) /\ pending = <<Session[Len(handed) + 1]>>
    BY <2>1 DEF FileOK
  <2>6. u' = Session[Len(handed')] /\ pending' = <<>>
    BY <2>1, <2>3, <2>5
  <2>7. Len(handed') # 0 /\ Len(handed') <= Len(Session)
    BY <1>0, <2>3, <2>5
  <2> QED
    BY <2>1, <2>4, <2>6, <2>7 DEF FileOK, FirstRecords, Table!InRange, TickDue
<1>4. CASE ApplyRecord
  <2>1. /\ pc = "apply" /\ pc' = "next" /\ cur_ts' = u.sim_timestamp_ns /\ have_tick' = TRUE
        /\ Table!Apply(u, u.sim_timestamp_ns)
        /\ UNCHANGED <<opt, source_state, pending, handed, u>>
    BY <1>4 DEF ApplyRecord, sourceVars
  <2>2. source_state = "streaming"
    BY <2>1 DEF LoopOK, PcOK
  <2> SUFFICES ASSUME ~opt.listen
               PROVE  FileOK'
    BY <2>1 DEF FileOK
  <2>3. Applied = Len(handed) - 1 /\ Applied' = Len(handed)
    BY <2>1, <2>2 DEF Applied
  <2>4. Len(handed) # 0 /\ u = Session[Len(handed)] /\ Len(handed) <= Len(Session)
        /\ offered = FirstRecords(Applied)
    BY <2>1, <2>2 DEF FileOK
  <2>5. offered' = FirstRecords(Len(handed))
    <3> DEFINE n == Len(handed) - 1
    <3>1. n \in Nat /\ n < Len(Session) /\ n + 1 = Len(handed)
      BY <1>0, <2>4
    <3>2. offered = FirstRecords(n) /\ u = Session[n + 1]
      BY <2>3, <2>4, <3>1
    <3> HIDE DEF n
    <3>3. offered' = FirstRecords(n + 1)
      BY <2>1, <3>1, <3>2, ApplyAdvances
    <3> QED
      BY <3>1, <3>3
  <2>6. FirstRecords(Len(handed)) = FirstRecords(Applied)'
    BY <2>1, <2>3 DEF FirstRecords, Table!InRange
  <2> QED
    BY <2>1, <2>2, <2>3, <2>4, <2>5, <2>6 DEF FileOK
<1>5. CASE SourceEnds
  <2>1. /\ pc = "next" /\ source_state = "streaming" /\ source_state' = "ended"
        /\ opt.listen \/ Len(handed) = Len(Session)
        /\ pc' = IF have_tick THEN "tick" ELSE "finish"
        /\ UNCHANGED <<opt, pending, handed, offered, have_tick, cur_ts, u>>
    BY <1>5, <1>0 DEF SourceEnds, Source!Stop, tableVars, LoopOK, PcOK
  <2>2. Applied = Len(handed) /\ Applied' = Len(handed)
    BY <2>1 DEF Applied
  <2> QED
    BY <2>1, <2>2 DEF FileOK, FirstRecords, Table!InRange
<1>6. CASE pc' = "failed"
  BY <1>6 DEF FileOK
<1>7. CASE ServeCommand
  <2>1. UNCHANGED <<opt, source_state, pending, handed, offered, pc, u, have_tick, cur_ts>>
    BY <1>7 DEF ServeCommand, sourceVars, tableVars
  <2> QED
    BY <2>1 DEF FileOK, Applied, FirstRecords, Table!InRange
<1>8. CASE ProcessTick
  <2>1. /\ pc = "tick" /\ pc' = IF source_state = "ended" THEN "finish" ELSE "apply"
        /\ UNCHANGED <<opt, source_state, pending, handed, offered, u, have_tick, cur_ts>>
    BY <1>8 DEF ProcessTick, sourceVars, tableVars
  <2>2. source_state \in {"streaming", "ended"}
    BY <2>1 DEF LoopOK, PcOK
  <2>3. Applied' = Applied
    BY <2>1, <2>2 DEF Applied
  <2> QED
    BY <2>1, <2>2, <2>3 DEF FileOK, FirstRecords, Table!InRange
<1>9. CASE Finish
  <2>1. /\ pc = "finish" /\ pc' = "done"
        /\ UNCHANGED <<opt, source_state, pending, handed, offered, u, have_tick, cur_ts>>
    BY <1>9 DEF Finish, sourceVars, tableVars
  <2>2. Applied' = Applied
    BY <2>1 DEF Applied
  <2> QED
    BY <2>1, <2>2 DEF FileOK, FirstRecords, Table!InRange
<1>10. CASE UNCHANGED vars
  <2>1. UNCHANGED <<opt, source_state, pending, handed, offered, pc, u, have_tick, cur_ts>>
    BY <1>10 DEF vars, sourceVars, tableVars
  <2> QED
    BY <2>1 DEF FileOK, Applied, FirstRecords, Table!InRange
<1> QED
  BY <1>1, <1>2, <1>3, <1>4, <1>5, <1>6, <1>7, <1>8, <1>9, <1>10 DEF Next, SourceFails, Kill
-----------------------------------------------------------------------------
Before(ts) == {r.sim_timestamp_ns : r \in {x \in Updates : x.sim_timestamp_ns < ts}}
AllTimes == {r.sim_timestamp_ns : r \in Updates}
TickTimes == {ticks[i].ts : i \in DOMAIN ticks}

\* The ticks of a file so far: in order, each as of its time, none left out.
FileTicksOK ==
    ~opt.listen =>
        /\ IsSeq(ticks)
        /\ \A i, j \in DOMAIN ticks : i < j => ticks[i].ts < ticks[j].ts
        /\ \A i \in DOMAIN ticks : ticks[i].ts \in Nat
        /\ PricesAreAsOf
        /\ pc \in {"start", "next", "tick"} => TickTimes = Before(cur_ts)
        /\ pc = "apply" => TickTimes = Before(u.sim_timestamp_ns)
        /\ pc \in {"finish", "done"} => TickTimes = AllTimes

\* When a tick is due the session splits: the records applied are those up to
\* the tick's time, and the rest, the record at hand first, are later.
LEMMA TickSplits ==
    ASSUME LoopOK, FileOK, ~opt.listen, pc = "tick"
    PROVE  /\ Applied \in 1..Len(Session) /\ cur_ts = Session[Applied].sim_timestamp_ns
           /\ \A i \in 1..Applied : Session[i].sim_timestamp_ns <= cur_ts
           /\ \A i \in 1..Len(Session) : i \notin 1..Applied =>
                  /\ source_state = "streaming"
                  /\ cur_ts < u.sim_timestamp_ns
                  /\ u.sim_timestamp_ns <= Session[i].sim_timestamp_ns
           /\ source_state = "streaming" => cur_ts < u.sim_timestamp_ns
<1>1. /\ Len(handed) \in Nat /\ Len(Session) \in Nat /\ source_state \in {"streaming", "ended"}
      /\ cur_ts \in Nat /\ u.sim_timestamp_ns \in Nat
  BY LenProperties, SessionIs DEF LoopOK, PcOK
<1>2. /\ Len(handed) <= Len(Session) /\ have_tick /\ Applied # 0
      /\ cur_ts = Session[Applied].sim_timestamp_ns
      /\ source_state = "streaming" =>
            Len(handed) # 0 /\ u = Session[Len(handed)] /\ u.sim_timestamp_ns # cur_ts
      /\ source_state = "ended" => Len(handed) = Len(Session)
  BY DEF FileOK
<1>3. Applied = IF source_state = "streaming" THEN Len(handed) - 1 ELSE Len(handed)
  BY DEF Applied
<1> DEFINE n == Applied
           ts(i) == Session[i].sim_timestamp_ns
<1>4. n \in 1..Len(Session)
  <2>1. Len(handed) <= Len(Session) /\ Applied # 0
    BY <1>2
  <2>2. source_state = "streaming" => Len(handed) # 0
    BY <1>2
  <2> QED
    BY <1>1, <1>3, <2>1, <2>2, SMTT(20)
<1>5. /\ \A i \in 1..Len(Session) : ts(i) \in Nat
      /\ \A i, j \in 1..Len(Session) : i < j => ts(i) <= ts(j)
  BY SessionIs, SessionRecords
<1>6. cur_ts = ts(n)
  BY <1>2
<1>7. source_state = "streaming" => n + 1 \in 1..Len(Session) /\ u.sim_timestamp_ns = ts(n + 1)
      /\ ts(n + 1) # cur_ts
  BY <1>1, <1>2, <1>3
<1>8. source_state # "streaming" => n = Len(Session)
  BY <1>1, <1>2, <1>3
<1> HIDE DEF n, ts
<1>9. \A i \in 1..n : ts(i) <= cur_ts
  BY <1>1, <1>4, <1>5, <1>6
<1>10. source_state = "streaming" => cur_ts < u.sim_timestamp_ns
  BY <1>1, <1>4, <1>5, <1>6, <1>7
<1>11. \A i \in 1..Len(Session) : i \notin 1..n =>
           source_state = "streaming" /\ u.sim_timestamp_ns <= ts(i)
  <2> SUFFICES ASSUME NEW i \in 1..Len(Session), i \notin 1..n
               PROVE  source_state = "streaming" /\ u.sim_timestamp_ns <= ts(i)
    OBVIOUS
  <2>1. n < i
    BY <1>1, <1>4
  <2>2. source_state = "streaming"
    BY <1>1, <1>4, <1>8, <2>1
  <2>3. i = n + 1 \/ n + 1 < i
    BY <1>4, <1>1, <2>1
  <2> QED
    BY <1>1, <1>5, <1>7, <2>2, <2>3
<1> QED
  BY <1>4, <1>6, <1>9, <1>10, <1>11 DEF n, ts

\* So the table at a tick is that of the records up to its time,
LEMMA TickIsAsOf ==
    ASSUME LoopOK, FileOK, ~opt.listen, pc = "tick"
    PROVE  PricesBy(ThisTick, AsOf(ThisTick.ts), ThisTick.config)
<1>1. ThisTick.ts = cur_ts /\ ThisTick.seen = offered
  BY DEF ThisTick
<1>2. AsOf(cur_ts) = {Session[i] : i \in 1..Applied}
  <2>1. ASSUME NEW r \in AsOf(cur_ts)
        PROVE  \E i \in 1..Applied : r = Session[i]
    <3>1. r \in Updates /\ r.sim_timestamp_ns <= cur_ts
      BY DEF AsOf
    <3>2. PICK i \in 1..Len(Session) : r = Session[i]
      BY <3>1, SessionIs
    <3>3. r.sim_timestamp_ns \in Nat /\ cur_ts \in Nat /\ u.sim_timestamp_ns \in Nat
      BY <3>1, SessionIs DEF LoopOK, PcOK
    <3>4. ~(cur_ts < u.sim_timestamp_ns /\ u.sim_timestamp_ns <= r.sim_timestamp_ns)
      BY <3>1, <3>3
    <3> QED
      BY <3>2, <3>4, TickSplits
  <2>2. ASSUME NEW i \in 1..Applied
        PROVE  Session[i] \in AsOf(cur_ts)
    <3>1. i \in 1..Len(Session)
      BY TickSplits, SessionIs
    <3> QED
      BY <3>1, SessionIs, TickSplits DEF AsOf
  <2> QED
    BY <2>1, <2>2
<1>3. offered = {r \in AsOf(cur_ts) : Table!InRange(r)}
  BY <1>2 DEF FileOK, FirstRecords
<1>4. TableOf(AsOf(cur_ts)) = TableOf(offered)
  <2>1. AsOf(cur_ts) \in SUBSET Updates
    BY DEF AsOf
  <2> QED
    BY <1>3, <2>1, OnlyInRangeCounts
<1>5. PricesBy(ThisTick, offered, ThisTick.config)
  BY <1>1, ThisTickIs
<1> QED
  BY <1>1, <1>4, <1>5 DEF PricesBy

\* and the next tick after it is the one of the record at hand.
LEMMA NextTickTime ==
    ASSUME LoopOK, FileOK, ~opt.listen, pc = "tick"
    PROVE  /\ source_state = "streaming" =>
                  Before(u.sim_timestamp_ns) = Before(cur_ts) \union {cur_ts}
           /\ source_state = "ended" => AllTimes = Before(cur_ts) \union {cur_ts}
<1>1. \A r \in Updates : r.sim_timestamp_ns \in Nat
  BY SessionIs
<1>2. cur_ts \in Nat /\ u.sim_timestamp_ns \in Nat
  BY SessionIs DEF LoopOK, PcOK
<1>3. \E r \in Updates : r.sim_timestamp_ns = cur_ts
  BY TickSplits, SessionIs
<1>4. \A r \in Updates : \/ r.sim_timestamp_ns <= cur_ts
                         \/ source_state = "streaming" /\ u.sim_timestamp_ns <= r.sim_timestamp_ns
  BY TickSplits, SessionIs
<1>5. source_state = "streaming" => cur_ts < u.sim_timestamp_ns
  BY TickSplits
<1>6. \A r \in Updates : source_state = "streaming" =>
          (r.sim_timestamp_ns < u.sim_timestamp_ns
               <=> r.sim_timestamp_ns < cur_ts \/ r.sim_timestamp_ns = cur_ts)
  BY <1>1, <1>2, <1>4, <1>5
<1>7. \A r \in Updates : source_state = "ended" =>
          r.sim_timestamp_ns < cur_ts \/ r.sim_timestamp_ns = cur_ts
  BY <1>1, <1>2, <1>4
<1>8. CASE source_state = "streaming"
  BY <1>3, <1>6, <1>8 DEF Before
<1>9. CASE source_state = "ended"
  BY <1>3, <1>7, <1>9 DEF Before, AllTimes
<1> QED
  BY <1>8, <1>9

LEMMA InitFileTicks == Init => FileTicksOK
<1> SUFFICES ASSUME Init
             PROVE  FileTicksOK
  OBVIOUS
<1>1. ticks = <<>> /\ pc = "start" /\ cur_ts = 0
  BY DEF Init
<1>2. DOMAIN ticks = {} /\ IsSeq(ticks)
  <2>1. DOMAIN <<>> = {}
    OBVIOUS
  <2> QED
    BY <1>1, <2>1, EmptyIsSeq
<1>3. Before(0) = {}
  <2>1. \A r \in Updates : ~(r.sim_timestamp_ns < 0)
    BY SessionIs
  <2> QED
    BY <2>1 DEF Before
<1> QED
  BY <1>1, <1>2, <1>3 DEF FileTicksOK, PricesAreAsOf, TickTimes

\* Adding the tick that is due keeps the order and the look-back.
LEMMA DueTickKeeps ==
    ASSUME LoopOK, FileOK, FileTicksOK, ~opt.listen, pc = "tick",
           ticks' = Append(ticks, ThisTick)
    PROVE  /\ IsSeq(ticks')
           /\ \A i, j \in DOMAIN ticks' : i < j => ticks'[i].ts < ticks'[j].ts
           /\ \A i \in DOMAIN ticks' : ticks'[i].ts \in Nat
           /\ \A i \in DOMAIN ticks' :
                  PricesBy(ticks'[i], AsOf(ticks'[i].ts), ticks'[i].config)
           /\ TickTimes' = Before(cur_ts) \union {cur_ts}
<1> DEFINE t == ThisTick
           n == Len(ticks) + 1
<1>1. /\ IsSeq(ticks') /\ DOMAIN ticks' = 1..n /\ ticks'[n] = t
      /\ \A i \in DOMAIN ticks : ticks'[i] = ticks[i]
      /\ DOMAIN ticks = 1..Len(ticks) /\ Len(ticks) \in Nat
  BY AppendIsSeq, SeqIs DEF FileTicksOK
<1>2. \A i \in DOMAIN ticks' : i \in DOMAIN ticks \/ i = n
  BY <1>1
<1>3. t.ts = cur_ts /\ cur_ts \in Nat /\ PricesBy(t, AsOf(t.ts), t.config)
  BY TickIsAsOf DEF ThisTick, LoopOK, PcOK
<1>4. TickTimes = Before(cur_ts)
  BY DEF FileTicksOK
<1>5. \A i \in DOMAIN ticks : ticks[i].ts < cur_ts
  BY <1>4 DEF TickTimes, Before
<1> HIDE DEF t, n
<1>6. \A i \in DOMAIN ticks' :
          ticks'[i].ts \in Nat /\ PricesBy(ticks'[i], AsOf(ticks'[i].ts), ticks'[i].config)
  BY <1>1, <1>2, <1>3 DEF FileTicksOK, PricesAreAsOf
<1>7. ASSUME NEW i \in DOMAIN ticks', NEW j \in DOMAIN ticks', i < j
      PROVE  ticks'[i].ts < ticks'[j].ts
  <2>1. i \in DOMAIN ticks /\ ticks'[i] = ticks[i]
    <3>1. i # n
      BY <1>1, <1>7 DEF n
    <3> QED
      BY <1>1, <1>2, <3>1
  <2>2. CASE j = n
    BY <1>1, <1>3, <1>5, <2>1, <2>2
  <2>3. CASE j \in DOMAIN ticks
    BY <1>1, <1>7, <2>1, <2>3 DEF FileTicksOK
  <2> QED
    BY <1>2, <2>2, <2>3
<1>8. TickTimes' = TickTimes \union {cur_ts}
  <2>1. n \in DOMAIN ticks' /\ DOMAIN ticks \subseteq DOMAIN ticks'
    BY <1>1 DEF n
  <2> QED
    BY <1>1, <1>2, <1>3, <2>1 DEF TickTimes
<1> QED
  BY <1>1, <1>4, <1>6, <1>7, <1>8

LEMMA StepFileTicks ==
    ASSUME LoopOK, FileOK, FileTicksOK, [Next]_vars, ~opt.listen, FileOK'
    PROVE  FileTicksOK'
<1>0. /\ IsSeq(ticks) /\ PricesAreAsOf
      /\ \A i, j \in DOMAIN ticks : i < j => ticks[i].ts < ticks[j].ts
      /\ \A i \in DOMAIN ticks : ticks[i].ts \in Nat
  BY DEF FileTicksOK
<1> DEFINE Same == UNCHANGED <<opt, ticks>>
<1>1. ASSUME Same
      PROVE  /\ TickTimes' = TickTimes
             /\ (pc' \in {"start", "next", "tick"} => TickTimes = Before(cur_ts'))
                /\ (pc' = "apply" => TickTimes = Before(u'.sim_timestamp_ns))
                /\ (pc' \in {"finish", "done"} => TickTimes = AllTimes)
                => FileTicksOK'
  <2>1. TickTimes' = TickTimes
    BY <1>1 DEF TickTimes
  <2>2. PricesAreAsOf'
    BY <1>0, <1>1 DEF PricesAreAsOf
  <2> QED
    BY <1>0, <1>1, <2>1, <2>2 DEF FileTicksOK, Before, AllTimes
<1>2. CASE NextRecord
  <2>1. /\ Same /\ pc = "next" /\ UNCHANGED <<have_tick, cur_ts>>
        /\ pc' = IF TickDue(u') THEN "tick" ELSE "apply"
        /\ source_state' = "streaming"
    BY <1>2 DEF NextRecord, Source!Return, historyVars
  <2>2. TickTimes = Before(cur_ts)
    BY <2>1 DEF FileTicksOK
  <2>3. CASE TickDue(u')
    BY <1>1, <2>1, <2>2, <2>3
  <2>4. CASE ~TickDue(u') /\ have_tick
    BY <1>1, <2>1, <2>2, <2>4 DEF TickDue
  <2>5. CASE ~TickDue(u') /\ ~have_tick
    <3>1. pc' = "apply" /\ ~have_tick' /\ ~opt'.listen
      BY <2>1, <2>5
    <3>2. Applied' = 0 /\ u' = Session[Len(handed')] /\ cur_ts = 0
      BY <2>1, <2>5, <3>1 DEF FileOK
    <3>3. Len(handed') = 1
      <4>1. Applied' = Len(handed') - 1
        BY <2>1, <3>1 DEF Applied
      <4>2. Len(handed') \in Nat
        <5>1. LoopOK'
          BY StepLoop
        <5>2. handed' \in Seq(Updates)
          BY <5>1 DEF LoopOK, PcOK
        <5> QED
          BY <5>2, LenProperties
      <4>3. Applied' = 0
        BY <3>2
      <4> DEFINE a == Applied'
                 k == Len(handed')
      <4>4. a = 0 /\ a = k - 1 /\ k \in Nat
        BY <4>1, <4>2, <4>3
      <4> HIDE DEF a, k
      <4>5. k = 1
        BY <4>4
      <4> QED
        BY <4>5 DEF k
    <3>4. \A i \in 1..Len(Session) : Session[1].sim_timestamp_ns <= Session[i].sim_timestamp_ns
      <4>1. 1 \in 1..Len(Session) /\ \A i \in 1..Len(Session) : i = 1 \/ 1 < i
        BY SessionIs
      <4>2. Session[1].sim_timestamp_ns <= Session[1].sim_timestamp_ns
        BY <4>1, SessionIs
      <4> QED
        BY <4>1, <4>2, SessionIs, SessionRecords
    <3>5. \A r \in Updates :
              ~(r.sim_timestamp_ns < 0) /\ ~(r.sim_timestamp_ns < u'.sim_timestamp_ns)
      <4>1. ASSUME NEW r \in Updates
            PROVE  ~(r.sim_timestamp_ns < 0) /\ ~(r.sim_timestamp_ns < u'.sim_timestamp_ns)
        <5>1. PICK i \in 1..Len(Session) : r = Session[i]
          BY SessionIs
        <5>2. u'.sim_timestamp_ns <= r.sim_timestamp_ns
          BY <3>2, <3>3, <3>4, <5>1
        <5>3. r.sim_timestamp_ns \in Nat /\ u'.sim_timestamp_ns \in Nat
          <6>1. 1 \in 1..Len(Session)
            BY SessionIs
          <6> QED
            BY <3>2, <3>3, <6>1, SessionIs
        <5> QED
          BY <5>2, <5>3
      <4> QED
        BY <4>1
    <3>6. Before(0) = {} /\ Before(u'.sim_timestamp_ns) = {}
      BY <3>5 DEF Before
    <3> QED
      BY <1>1, <2>1, <2>2, <3>1, <3>2, <3>6
  <2> QED
    BY <2>3, <2>4, <2>5
<1>3. CASE ApplyRecord
  <2>1. Same /\ pc = "apply" /\ pc' = "next" /\ cur_ts' = u.sim_timestamp_ns
    BY <1>3 DEF ApplyRecord, historyVars
  <2> QED
    BY <1>1, <2>1 DEF FileTicksOK
<1>4. CASE SourceEnds
  <2>1. /\ Same /\ pc = "next" /\ UNCHANGED <<have_tick, cur_ts, handed>>
        /\ pc' = IF have_tick THEN "tick" ELSE "finish"
        /\ source_state' = "ended"
    BY <1>4 DEF SourceEnds, Source!Stop, historyVars
  <2>2. have_tick
    <3>1. ~opt'.listen /\ pc' # "failed"
      BY <2>1
    <3>2. Len(handed') = Len(Session) /\ (have_tick' <=> Applied' # 0)
      BY <2>1, <3>1 DEF FileOK
    <3>3. Applied' = Len(handed')
      BY <2>1 DEF Applied
    <3> QED
      BY <2>1, <3>2, <3>3, SessionIs
  <2> QED
    BY <1>1, <2>1, <2>2 DEF FileTicksOK
<1>5. CASE ProcessTick
  <2>1. /\ pc = "tick" /\ ticks' = Append(ticks, ThisTick) /\ UNCHANGED <<opt, u, cur_ts>>
        /\ pc' = IF source_state = "ended" THEN "finish" ELSE "apply"
    BY <1>5 DEF ProcessTick
  <2>2. source_state \in {"streaming", "ended"}
    BY <2>1 DEF LoopOK, PcOK
  <2> HIDE DEF Same
  <2>3. PricesAreAsOf'
    BY <2>1, DueTickKeeps DEF PricesAreAsOf, PricesBy
  <2> QED
    BY <2>1, <2>2, <2>3, DueTickKeeps, NextTickTime DEF FileTicksOK, Before, AllTimes
<1>6. CASE Kill
  <2>1. pc' = "failed" /\ UNCHANGED opt
    BY <1>6 DEF Kill
  <2>2. CASE ticks' = ticks
    BY <1>1, <2>1, <2>2
  <2>3. CASE pc = "tick" /\ ticks' = Append(ticks, ThisTick)
    <3>1. PricesAreAsOf'
      BY <2>3, DueTickKeeps DEF PricesAreAsOf, PricesBy
    <3> QED
      BY <2>1, <2>3, <3>1, DueTickKeeps DEF FileTicksOK
  <2>4. ticks' = ticks \/ (pc = "tick" /\ ticks' = Append(ticks, ThisTick))
    <3>1. Next
      BY <1>6 DEF Next
    <3> QED
      BY <3>1, HistoryGrows
  <2> QED
    BY <2>2, <2>3, <2>4
<1>7. CASE Begin
  <2>1. Same /\ pc = "start" /\ pc' \in {"next", "failed"} /\ UNCHANGED cur_ts
    BY <1>7 DEF Begin, historyVars
  <2> QED
    BY <1>1, <2>1 DEF FileTicksOK
<1>8. CASE SourceFails
  <2>1. Same /\ pc' = "failed"
    BY <1>8 DEF SourceFails, historyVars
  <2> QED
    BY <1>1, <2>1
<1>9. CASE Finish
  <2>1. Same /\ pc = "finish" /\ pc' = "done"
    BY <1>9 DEF Finish, historyVars
  <2> QED
    BY <1>1, <2>1 DEF FileTicksOK
<1>10. CASE UNCHANGED <<opt, ticks, pc, u, cur_ts>>
  BY <1>1, <1>10 DEF FileTicksOK
<1> QED
  BY <1>2, <1>3, <1>4, <1>5, <1>6, <1>7, <1>8, <1>9, <1>10
     DEF Next, FetchMore, ServeCommand, vars, historyVars

LEMMA FileInvariant == Spec => [](LoopOK /\ TicksOK /\ FileOK /\ FileTicksOK)
<1>1. Init => LoopOK /\ TicksOK /\ FileOK /\ FileTicksOK
  <2>1. Init => TicksOK
    <3>1. DOMAIN <<>> = {}
      OBVIOUS
    <3> QED
      BY <3>1, EmptyIsSeq DEF Init, TicksOK, PushesMatchTicks
  <2> QED
    BY <2>1, InitLoop, InitFile, InitFileTicks
<1>2. ASSUME LoopOK, TicksOK, FileOK, FileTicksOK, [Next]_vars
      PROVE  LoopOK' /\ TicksOK' /\ FileOK' /\ FileTicksOK'
  <2>1. LoopOK' /\ TicksOK' /\ FileOK'
    BY <1>2, StepLoop, StepTicks, StepFile
  <2>2. CASE ~opt.listen
    BY <1>2, <2>1, <2>2, StepFileTicks
  <2>3. CASE opt.listen
    <3>1. opt' = opt
      BY <1>2, HistoryGrows DEF vars
    <3>2. opt'.listen
      BY <2>3, <3>1
    <3>3. FileTicksOK'
      BY <3>2 DEF FileTicksOK
    <3> QED
      BY <2>1, <3>3
  <2> QED
    BY <2>1, <2>2, <2>3
<1> QED
  BY <1>1, <1>2, PTL DEF Spec

\* No look-ahead and nothing missed: reading a session file, each tick is priced
\* from all the records up to its timestamp and from none after it, though the
\* loop learns that a tick is over only from the first record of the next.
THEOREM PricesAreAsOfHolds == Spec => []PricesAreAsOf
<1>1. FileTicksOK => PricesAreAsOf
  BY DEF FileTicksOK, PricesAreAsOf
<1> QED
  BY <1>1, FileInvariant, PTL

\* A session read to its end has every tick priced, once and in order.
THEOREM EveryTickPricedOnceHolds == Spec => []EveryTickPricedOnce
<1>1. FileTicksOK => EveryTickPricedOnce
  BY DEF FileTicksOK, EveryTickPricedOnce, TickTimes, AllTimes
<1> QED
  BY <1>1, FileInvariant, PTL

\* The promise of --hash: the trajectory it digests is a function of the session
\* and the command line, whatever dashboards send meanwhile.
THEOREM DigestIsReproducibleHolds == Spec => []DigestIsReproducible
<1>1. ASSUME LoopOK, TicksOK, FileTicksOK
      PROVE  DigestIsReproducible
  <2> SUFFICES ASSUME opt.hash, NEW i \in DOMAIN ticks
               PROVE  PricesBy(ticks[i], AsOf(ticks[i].ts), Parameters(InitialConfig))
    BY DEF DigestIsReproducible
  <2>1. ~opt.listen
    BY <1>1 DEF LoopOK, PcOK
  <2>2. ticks[i].config = Parameters(InitialConfig)
    BY <1>1 DEF TicksOK
  <2> QED
    BY <1>1, <2>1, <2>2 DEF FileTicksOK, PricesAreAsOf
<1> QED
  BY <1>1, FileInvariant, PTL
-----------------------------------------------------------------------------
(***************************************************************************)
(* Bets come in sequences.                                                 *)
(***************************************************************************)
LEMMA IsSeqOfItsElements ==
    ASSUME NEW s, IsSeq(s)
    PROVE  s \in Seq({s[j] : j \in DOMAIN s})
<1>1. Len(s) \in Nat /\ DOMAIN s = 1..Len(s) /\ s = [j \in 1..Len(s) |-> s[j]]
  BY LenProperties DEF IsSeq
<1> DEFINE n == Len(s)
           E == {s[j] : j \in DOMAIN s}
<1>2. n \in Nat /\ s \in [1..n -> E]
  BY <1>1
<1> HIDE DEF n, E
<1>3. s \in Seq(E)
  BY <1>2
<1> QED
  BY <1>3 DEF E

\* The concatenation of sequences is a sequence.
LEMMA FlattenIsSeq ==
    ASSUME NEW n \in Nat, NEW s, s = [i \in 1..n |-> s[i]],
           \A i \in 1..n : IsSeq(s[i])
    PROVE  IsSeq(FlattenSeq(s))
<1> DEFINE S == UNION {{s[i][j] : j \in DOMAIN s[i]} : i \in 1..n}
<1>1. \A i \in 1..n : s[i] \in Seq(S)
  <2> SUFFICES ASSUME NEW i \in 1..n
               PROVE  s[i] \in Seq(S)
    OBVIOUS
  <2> DEFINE E == {s[i][j] : j \in DOMAIN s[i]}
  <2>1. s[i] \in Seq(E)
    BY IsSeqOfItsElements
  <2>2. E \subseteq S
    OBVIOUS
  <2> HIDE DEF E, S
  <2> QED
    BY <2>1, <2>2, SeqMonotonic
<1>2. s \in Seq(Seq(S))
  BY <1>1
<1>3. FlattenSeq(s) \in Seq(S)
  <2> HIDE DEF S
  <2> QED
    BY <1>2, FlattenType
<1> QED
  BY <1>3 DEF IsSeq

\* A price is for a number of outcomes.
LEMMA CountIs ==
    ASSUME NEW method, NEW quotes, DOMAIN quotes \subseteq Nat
    PROVE  FairPrice(method, quotes).count \in Nat
<1> DEFINE usable == {b \in DOMAIN quotes : DevigUsable(method, quotes[b])}
<1>1. CASE usable = {}
  BY <1>1 DEF FairPrice, NoPrice
<1>2. CASE usable # {}
  <2>1. usable \in SUBSET Nat
    OBVIOUS
  <2>2. \E b \in usable : \A c \in usable : b <= c
    BY <1>2, <2>1, LeastOf
  <2>3. Min(usable) \in usable
    BY <2>2 DEF Min
  <2>4. Len(quotes[Min(usable)]) \in 1..kMaxOutcomes
    BY <2>3 DEF DevigUsable, ValidOdds
  <2>5. FairPrice(method, quotes).count = Len(quotes[Min(usable)])
    BY <1>2 DEF FairPrice
  <2> QED
    BY <2>4, <2>5, PricingConstants
<1> QED
  BY <1>1, <1>2

LEMMA BetsOnIsSeq ==
    ASSUME NEW ts, NEW m, NEW price, NEW quotes, NEW c, price.count \in Nat
    PROVE  IsSeq(BetsOn(ts, m, price, quotes, c))
<1> DEFINE stakes == Stakes(price, BestOdds(quotes), c.kelly_fraction, c.max_exposure)
           bet(i) == [ts |-> ts, market_id |-> m, outcome |-> i, stake |-> stakes[i],
                      odds_taken |-> BestOdds(quotes)[i]]
           bets == [i \in 1..price.count |-> IF stakes[i] > 0 THEN <<bet(i)>> ELSE <<>>]
<1>1. BetsOn(ts, m, price, quotes, c) = FlattenSeq(bets) \/ BetsOn(ts, m, price, quotes, c) = <<>>
  BY DEF BetsOn
<1>2. IsSeq(FlattenSeq(bets))
  <2>1. \A i \in 1..price.count : bets[i] = <<bet(i)>> \/ bets[i] = <<>>
    OBVIOUS
  <2> HIDE DEF bet
  <2>2. \A i \in 1..price.count : <<bet(i)>> \in Seq({bet(i)})
    OBVIOUS
  <2>3. \A i \in 1..price.count : IsSeq(<<bet(i)>>)
    BY <2>2 DEF IsSeq
  <2>4. \A i \in 1..price.count : IsSeq(bets[i])
    <3> HIDE DEF bets
    <3> QED
      BY <2>1, <2>3, EmptyIsSeq
  <2>5. bets = [i \in 1..price.count |-> bets[i]]
    OBVIOUS
  <2> HIDE DEF bets
  <2> QED
    BY <2>4, <2>5, FlattenIsSeq
<1> QED
  BY <1>1, <1>2, EmptyIsSeq

LEMMA TickBetsIsSeq == IsSeq(TickBets)
<1> DEFINE bets == [i \in 1..HeaderMarkets |->
                      BetsOn(cur_ts, i - 1, Prices(table, cur_ts, cfg)[i - 1],
                             FreshQuotes(table, i - 1, cur_ts, cfg), cfg)]
<1>1. ASSUME NEW i \in 1..HeaderMarkets
      PROVE  IsSeq(bets[i])
  <2>1. i - 1 \in HMarkets
    BY EngineConstants DEF HMarkets
  <2>2. Prices(table, cur_ts, cfg)[i - 1]
           = FairPrice(cfg.devig_method, FreshQuotes(table, i - 1, cur_ts, cfg))
    BY <2>1 DEF Prices
  <2>3. DOMAIN FreshQuotes(table, i - 1, cur_ts, cfg) \subseteq Nat
    BY EngineConstants DEF FreshQuotes, HBooks
  <2>4. Prices(table, cur_ts, cfg)[i - 1].count \in Nat
    BY <2>2, <2>3, CountIs
  <2> QED
    BY <2>4, BetsOnIsSeq
<1>2. bets = [i \in 1..HeaderMarkets |-> bets[i]]
  OBVIOUS
<1>3. TickBets = IF log_open THEN FlattenSeq(bets) ELSE <<>>
  BY DEF TickBets, BetsAt
<1> HIDE DEF bets
<1>4. IsSeq(FlattenSeq(bets))
  BY <1>1, <1>2, EngineConstants, FlattenIsSeq
<1> QED
  BY <1>3, <1>4, EmptyIsSeq
-----------------------------------------------------------------------------
(***************************************************************************)
(* The bet log.                                                            *)
(***************************************************************************)
\* While the log is open the bets placed are those on disk and in the buffer;
\* before that there are none.
LogOK ==
    /\ IsSeq(placed) /\ IsSeq(log_file) /\ IsSeq(log_buffer)
    /\ log_open \in BOOLEAN /\ header_count \in Nat /\ record_count = Len(placed)
    /\ Len(log_buffer) < kBufferRecords
    /\ log_open => log_file \o log_buffer = placed /\ header_count = 0
                   /\ pc \in {"next", "tick", "apply", "finish"}
    /\ ~log_open => log_buffer = <<>>
    /\ ~log_open /\ pc \notin {"failed", "done"} =>
          placed = <<>> /\ log_file = <<>> /\ header_count = 0
    /\ IsPrefix(log_file, placed)
    /\ header_count # 0 => pc = "done" /\ log_file = placed /\ header_count = Len(placed)
    /\ pc = "done" => log_file = placed

LEMMA PrefixIs ==
    ASSUME NEW S, NEW p \in Seq(S), NEW q \in Seq(S), Len(p) <= Len(q),
           \A i \in 1..Len(p) : p[i] = q[i]
    PROVE  IsPrefix(p, q)
<1>1. Len(p) \in Nat /\ Len(q) \in Nat
  BY LenProperties
<1> DEFINE n == Len(p)
           b == SubSeq(q, 1, n)
<1>2. SubSeq(p, 1, n) = p
  BY SubSeqFull
<1>3. \A i \in 1..n : q[i] \in S
  BY <1>1, ElementOfSeq
<1>4. /\ b \in Seq(S) /\ Len(b) = IF 1 <= n THEN n - 1 + 1 ELSE 0
      /\ \A i \in 1..(n - 1 + 1) : b[i] = q[1 + i - 1]
  BY <1>1, <1>3, SubSeqProperties
<1>5. Len(b) = n /\ \A i \in 1..n : b[i] = q[i]
  BY <1>1, <1>4
<1> HIDE DEF b
<1>6. p = b
  BY <1>4, <1>5, SeqEqual
<1> QED
  BY <1>2, <1>6 DEF IsPrefix, b

\* A stretch of a sequence.
LEMMA StretchIs ==
    ASSUME NEW S, NEW s \in Seq(S), NEW m \in 0..Len(s), NEW n \in m..Len(s)
    PROVE  /\ SubSeq(s, m + 1, n) \in Seq(S) /\ Len(SubSeq(s, m + 1, n)) = n - m
           /\ \A i \in 1..(n - m) : SubSeq(s, m + 1, n)[i] = s[m + i]
<1>1. Len(s) \in Nat /\ m \in Nat /\ n \in Nat /\ m <= n /\ n <= Len(s)
  BY LenProperties
<1>2. \A i \in (m + 1)..n : i \in 1..Len(s)
  BY <1>1
<1>3. \A i \in (m + 1)..n : s[i] \in S
  BY <1>2, ElementOfSeq
<1> DEFINE a == m + 1
           t == SubSeq(s, a, n)
<1>4. a \in Int /\ a = m + 1
  BY <1>1
<1> HIDE DEF a
<1>5. /\ t \in Seq(S) /\ Len(t) = IF a <= n THEN n - a + 1 ELSE 0
      /\ \A i \in 1..(n - a + 1) : t[i] = s[a + i - 1]
  BY <1>1, <1>3, <1>4, SubSeqProperties
<1> HIDE DEF t
<1>6. Len(t) = n - m /\ n - a + 1 = n - m
  BY <1>1, <1>4, <1>5
<1>7. \A i \in 1..(n - m) : t[i] = s[m + i]
  <2>1. \A i \in 1..(n - m) : a + i - 1 = m + i
    BY <1>1, <1>4
  <2> QED
    BY <1>5, <1>6, <2>1
<1> QED
  BY <1>5, <1>6, <1>7 DEF t, a

\* What reaches the disk of a sequence that was to be written is a prefix of it.
LEMMA CutIsPrefix ==
    ASSUME NEW S, NEW a \in Seq(S), NEW b \in Seq(S), NEW n \in 0..Len(b),
           NEW m \in 0..Len(a \o SubSeq(b, 1, n))
    PROVE  IsPrefix(SubSeq(a \o SubSeq(b, 1, n), 1, m), a \o b)
<1> DEFINE c == SubSeq(b, 1, n)
           w == a \o c
           p == SubSeq(w, 1, m)
<1>1. Len(a) \in Nat /\ Len(b) \in Nat /\ n \in Nat /\ n <= Len(b) /\ m \in Nat /\ m <= Len(w)
  <2>1. Len(a) \in Nat /\ Len(b) \in Nat
    BY LenProperties
  <2>2. c \in Seq(S)
    <3>1. 0 \in 0..Len(b) /\ n \in 0..Len(b) /\ 0 + 1 = 1
      BY <2>1
    <3> QED
      BY <3>1, StretchIs
  <2>3. Len(w) \in Nat
    BY <2>2, ConcatProperties, LenProperties
  <2> QED
    BY <2>1, <2>3
<1>2. c \in Seq(S) /\ Len(c) = n /\ \A i \in 1..n : c[i] = b[i]
  <2>1. 0 \in 0..Len(b) /\ n \in 0..Len(b) /\ 0 + 1 = 1 /\ n - 0 = n /\ \A i \in 1..n : 0 + i = i
    BY <1>1
  <2>2. SubSeq(b, 0 + 1, n) \in Seq(S) /\ Len(SubSeq(b, 0 + 1, n)) = n - 0
        /\ \A i \in 1..(n - 0) : SubSeq(b, 0 + 1, n)[i] = b[0 + i]
    BY <2>1, StretchIs
  <2> QED
    BY <2>1, <2>2
<1> HIDE DEF c
<1>3. w \in Seq(S) /\ Len(w) = Len(a) + n
      /\ \A i \in 1..(Len(a) + n) : w[i] = IF i <= Len(a) THEN a[i] ELSE c[i - Len(a)]
  BY <1>2, ConcatProperties
<1>4. a \o b \in Seq(S) /\ Len(a \o b) = Len(a) + Len(b)
      /\ \A i \in 1..(Len(a) + Len(b)) :
            (a \o b)[i] = IF i <= Len(a) THEN a[i] ELSE b[i - Len(a)]
  BY ConcatProperties
<1>5. \A i \in 1..Len(w) : w[i] = (a \o b)[i]
  <2> SUFFICES ASSUME NEW i \in 1..Len(w)
               PROVE  w[i] = (a \o b)[i]
    OBVIOUS
  <2>1. i \in 1..(Len(a) + n) /\ i \in 1..(Len(a) + Len(b))
    BY <1>1, <1>3
  <2>2. i <= Len(a) \/ i - Len(a) \in 1..n
    BY <1>1, <2>1
  <2> QED
    BY <1>2, <1>3, <1>4, <2>1, <2>2
<1> HIDE DEF w
<1>6. p \in Seq(S) /\ Len(p) = m /\ \A i \in 1..m : p[i] = w[i]
  <2>1. 0 \in 0..Len(w) /\ m \in 0..Len(w) /\ 0 + 1 = 1 /\ m - 0 = m /\ \A i \in 1..m : 0 + i = i
    BY <1>1
  <2>2. SubSeq(w, 0 + 1, m) \in Seq(S) /\ Len(SubSeq(w, 0 + 1, m)) = m - 0
        /\ \A i \in 1..(m - 0) : SubSeq(w, 0 + 1, m)[i] = w[0 + i]
    BY <1>3, <2>1, StretchIs
  <2> QED
    BY <2>1, <2>2
<1> HIDE DEF p
<1>7. Len(p) <= Len(a \o b) /\ \A i \in 1..Len(p) : i \in 1..Len(w)
  BY <1>1, <1>3, <1>4, <1>6
<1>8. IsPrefix(p, a \o b)
  BY <1>4, <1>5, <1>6, <1>7, PrefixIs
<1> QED
  BY <1>8 DEF p, w, c

\* Whole buffers leave less than one behind.
LEMMA WrittenIs ==
    ASSUME NEW S, NEW all \in Seq(S)
    PROVE  /\ Written(all) \in 0..Len(all) /\ Len(all) - Written(all) < kBufferRecords
           /\ SubSeq(all, 1, Written(all)) \in Seq(S)
           /\ SubSeq(all, Written(all) + 1, Len(all)) \in Seq(S)
           /\ Len(SubSeq(all, Written(all) + 1, Len(all))) = Len(all) - Written(all)
           /\ SubSeq(all, 1, Written(all)) \o SubSeq(all, Written(all) + 1, Len(all)) = all
<1> DEFINE k == kBufferRecords
           n == Len(all)
           q == n \div k
           w == Written(all)
<1>1. k \in Nat \ {0} /\ n \in Nat
  BY BufferHoldsSomething, LenProperties
<1>2. q \in Nat /\ n % k \in 0..(k - 1) /\ n = k * q + (n % k)
  BY <1>1, DivisionFacts
<1>3. w = q * k
  BY DEF Written
<1> DEFINE r == n % k
<1> HIDE DEF k, n, q, w, r
<1>4. k * q = q * k /\ k * q \in Nat
  BY <1>1, <1>2
<1>5. w \in Nat /\ r \in 0..(k - 1) /\ n = w + r
  BY <1>2, <1>3, <1>4 DEF r
<1>6. w \in 0..n /\ n - w < k
  BY <1>1, <1>5
<1>7. SubSeq(all, 1, w) \in Seq(S)
  <2>1. 0 \in 0..n /\ w \in 0..n /\ 0 + 1 = 1
    BY <1>1, <1>6
  <2> QED
    BY <2>1, StretchIs DEF n
<1>8. SubSeq(all, w + 1, n) \in Seq(S) /\ Len(SubSeq(all, w + 1, n)) = n - w
  <2>1. w \in 0..n /\ n \in w..n
    BY <1>1, <1>6
  <2> QED
    BY <2>1, StretchIs DEF n
<1>9. SubSeq(all, 1, w) \o SubSeq(all, w + 1, n) = SubSeq(all, 1, n)
  <2>1. 1 \in 1..(n + 1) /\ w \in (1 - 1)..n /\ n \in w..n
    BY <1>1, <1>6
  <2> QED
    BY <2>1, ConcatAdjacentSubSeq DEF n
<1>10. SubSeq(all, 1, n) = all
  BY SubSeqFull DEF n
<1> QED
  BY <1>6, <1>7, <1>8, <1>9, <1>10 DEF w, n, k

LEMMA InitLog == Init => LogOK
<1> SUFFICES ASSUME Init
             PROVE  LogOK
  OBVIOUS
<1>1. /\ placed = <<>> /\ log_file = <<>> /\ log_buffer = <<>> /\ log_open = FALSE
      /\ header_count = 0 /\ record_count = 0 /\ pc = "start"
  BY DEF Init, LogInit
<1>2. Len(<<>>) = 0 /\ <<>> \in Seq({})
  OBVIOUS
<1>3. IsPrefix(<<>>, <<>>)
  BY <1>2 DEF IsPrefix
<1>4. 0 < kBufferRecords
  BY BufferHoldsSomething
<1> QED
  BY <1>1, <1>2, <1>3, <1>4, EmptyIsSeq DEF LogOK

\* A set that holds the elements of all the log's sequences.
LEMMA OneSetOfBets ==
    ASSUME NEW a, NEW b, NEW c, NEW d, IsSeq(a), IsSeq(b), IsSeq(c), IsSeq(d)
    PROVE  \E S : a \in Seq(S) /\ b \in Seq(S) /\ c \in Seq(S) /\ d \in Seq(S)
<1>1. PICK A, B, C, D : a \in Seq(A) /\ b \in Seq(B) /\ c \in Seq(C) /\ d \in Seq(D)
  BY DEF IsSeq
<1> DEFINE S == A \union B \union C \union D
<1>2. A \subseteq S /\ B \subseteq S /\ C \subseteq S /\ D \subseteq S
  OBVIOUS
<1> HIDE DEF S
<1>3. a \in Seq(S) /\ b \in Seq(S) /\ c \in Seq(S) /\ d \in Seq(S)
  BY <1>1, <1>2, SeqMonotonic
<1> QED
  BY <1>3

LEMMA Associates ==
    ASSUME NEW S
    PROVE  \A s, t, v \in Seq(S) : (s \o t) \o v = s \o (t \o v)
BY ConcatAssociative

\* accept() of some bets while the log is open.
LEMMA AcceptKeeps ==
    ASSUME LogOK, NEW bets, IsSeq(bets), log_open, AcceptBets(bets), placed' = placed \o bets
    PROVE  /\ IsSeq(placed') /\ IsSeq(log_file') /\ IsSeq(log_buffer')
           /\ Len(log_buffer') < kBufferRecords /\ record_count' = Len(placed')
           /\ log_file' \o log_buffer' = placed'
           /\ IsPrefix(log_file', placed')
<1> DEFINE all == log_buffer \o bets
           w == Written(all)
           out == SubSeq(all, 1, w)
           rest == SubSeq(all, w + 1, Len(all))
<1>1. PICK S : /\ placed \in Seq(S) /\ log_file \in Seq(S) /\ log_buffer \in Seq(S)
               /\ bets \in Seq(S)
  BY OneSetOfBets DEF LogOK
<1>0. \A s, t, v \in Seq(S) : (s \o t) \o v = s \o (t \o v)
  BY ONLY Associates
<1>2. all \in Seq(S)
  BY <1>1, ConcatProperties
<1>3. log_file' = log_file \o out /\ log_buffer' = rest /\ record_count' = record_count + Len(bets)
  BY DEF AcceptBets
<1> HIDE DEF all
<1>4. /\ w \in 0..Len(all) /\ Len(all) - w < kBufferRecords
      /\ out \in Seq(S) /\ rest \in Seq(S) /\ Len(rest) = Len(all) - w /\ out \o rest = all
  BY <1>2, WrittenIs
<1> HIDE DEF w, out, rest
<1>5. log_file \o out \in Seq(S) /\ placed' \in Seq(S) /\ Len(placed') = Len(placed) + Len(bets)
  BY <1>1, <1>4, ConcatProperties
<1>6. (log_file \o out) \o rest = log_file \o (out \o rest)
  <2>1. log_file \in Seq(S) /\ out \in Seq(S) /\ rest \in Seq(S)
    BY <1>1, <1>4
  <2> QED
    BY <1>0, <2>1
<1>7. log_file \o all = (log_file \o log_buffer) \o bets
  BY <1>0, <1>1 DEF all
<1>8. (log_file \o out) \o rest = placed'
  BY <1>4, <1>6, <1>7 DEF LogOK
<1>9. IsPrefix(log_file \o out, placed')
  <2> DEFINE a == log_file \o out
  <2>1. a \in Seq(S) /\ placed' = a \o rest
    BY <1>5, <1>8
  <2>2. Len(a) \in Nat /\ Len(rest) \in Nat
    BY <1>4, <1>5, LenProperties
  <2> HIDE DEF a
  <2>0. /\ Len(a \o rest) = Len(a) + Len(rest)
        /\ \A i \in 1..(Len(a) + Len(rest)) :
              (a \o rest)[i] = IF i <= Len(a) THEN a[i] ELSE rest[i - Len(a)]
    BY <1>4, <2>1, ConcatProperties
  <2>3. /\ Len(placed') = Len(a) + Len(rest)
        /\ \A i \in 1..(Len(a) + Len(rest)) :
              placed'[i] = IF i <= Len(a) THEN a[i] ELSE rest[i - Len(a)]
    BY <2>0, <2>1
  <2>4. Len(a) <= Len(placed') /\ \A i \in 1..Len(a) : a[i] = placed'[i]
    BY <2>2, <2>3
  <2>5. IsPrefix(a, placed')
    BY <1>5, <2>1, <2>4, PrefixIs
  <2> QED
    BY <2>5 DEF a
<1>10. Len(rest) < kBufferRecords
  BY <1>4
<1>11. record_count' = Len(placed')
  BY <1>3, <1>5 DEF LogOK
<1> QED
  BY <1>3, <1>4, <1>5, <1>8, <1>9, <1>10, <1>11 DEF IsSeq

\* What a crash leaves on disk of the bets accepted until then.
LEMMA CrashKeeps ==
    ASSUME LogOK, NEW bets, IsSeq(bets), NEW finishing \in BOOLEAN, log_open,
           CrashLog(bets, finishing), placed' = placed \o bets
    PROVE  /\ IsSeq(placed') /\ IsSeq(log_file') /\ log_buffer' = <<>> /\ log_open' = FALSE
           /\ record_count' = Len(placed') /\ header_count' = 0
           /\ IsPrefix(log_file', placed')
<1> DEFINE all == log_buffer \o bets
           n == IF finishing THEN Len(all) ELSE Written(all)
<1>1. PICK S : /\ placed \in Seq(S) /\ log_file \in Seq(S) /\ log_buffer \in Seq(S)
               /\ bets \in Seq(S)
  BY OneSetOfBets DEF LogOK
<1>2. all \in Seq(S) /\ Len(all) \in Nat
  BY <1>1, ConcatProperties, LenProperties
<1>3. log_file \o all = placed'
  <2>1. \A s, t, v \in Seq(S) : (s \o t) \o v = s \o (t \o v)
    BY Associates
  <2>2. log_file \o all = (log_file \o log_buffer) \o bets
    BY <1>1, <2>1
  <2>3. log_file \o log_buffer = placed
    BY DEF LogOK
  <2> QED
    BY <2>2, <2>3
<1>4. (IF finishing THEN all ELSE SubSeq(all, 1, Written(all))) = SubSeq(all, 1, n)
  <2>1. SubSeq(all, 1, Len(all)) = all
    BY <1>2, SubSeqFull
  <2> HIDE DEF all
  <2> QED
    BY <2>1
<1>5. n \in 0..Len(all)
  <2>1. Written(all) \in 0..Len(all)
    BY <1>2, WrittenIs
  <2> HIDE DEF all
  <2> QED
    BY <1>2, <2>1
<1>6. /\ log_open' = FALSE /\ log_buffer' = <<>> /\ header_count' = header_count
      /\ record_count' = record_count + Len(bets)
      /\ \E m \in 0..Len(log_file \o SubSeq(all, 1, n)) :
            log_file' = SubSeq(log_file \o SubSeq(all, 1, n), 1, m)
  BY <1>4 DEF CrashLog
<1> HIDE DEF all, n
<1>7. PICK m \in 0..Len(log_file \o SubSeq(all, 1, n)) :
         log_file' = SubSeq(log_file \o SubSeq(all, 1, n), 1, m)
  BY <1>6
<1>8. IsPrefix(log_file', placed')
  BY <1>1, <1>2, <1>3, <1>5, <1>7, CutIsPrefix
<1>9. log_file' \in Seq(S)
  <2> DEFINE w == log_file \o SubSeq(all, 1, n)
  <2>1. SubSeq(all, 1, n) \in Seq(S)
    <3>1. 0 \in 0..Len(all) /\ 0 + 1 = 1
      BY <1>2
    <3> QED
      BY <1>2, <1>5, <3>1, StretchIs
  <2>2. w \in Seq(S) /\ Len(w) \in Nat
    BY <1>1, <2>1, ConcatProperties, LenProperties
  <2>3. m \in 0..Len(w) /\ log_file' = SubSeq(w, 1, m)
    BY <1>7
  <2> HIDE DEF w
  <2>4. 0 \in 0..Len(w) /\ 0 + 1 = 1
    BY <2>2
  <2> QED
    BY <2>2, <2>3, <2>4, StretchIs
<1>10. placed' \in Seq(S) /\ Len(placed') = Len(placed) + Len(bets)
  BY <1>1, ConcatProperties
<1> QED
  BY <1>6, <1>8, <1>9, <1>10 DEF LogOK, IsSeq

\* A log that was never opened stays empty.
LEMMA ClosedKeeps ==
    ASSUME LogOK, ~log_open, pc \notin {"failed", "done"}
    PROVE  /\ TickBets = <<>>
           /\ AcceptBets(TickBets) => UNCHANGED <<log_file, log_buffer, record_count>>
           /\ \A n : \A finishing \in BOOLEAN :
                 n \in 0..Len(TickBets) /\ CrashLog(SubSeq(TickBets, 1, n), finishing) =>
                    /\ n = 0 /\ SubSeq(TickBets, 1, n) = <<>>
                    /\ UNCHANGED <<log_open, log_file, log_buffer, header_count, record_count>>
<1>1. /\ TickBets = <<>> /\ log_buffer = <<>> /\ log_file = <<>> /\ log_open = FALSE
      /\ record_count = 0 /\ Len(<<>>) = 0
  <2>1. Len(<<>>) = 0
    OBVIOUS
  <2> QED
    BY <2>1 DEF LogOK, TickBets
<1>2. /\ Written(<<>>) = 0 /\ <<>> \o <<>> = <<>>
      /\ \A m, n \in Int : n < m => SubSeq(<<>>, m, n) = <<>>
  <2>1. 0 \div kBufferRecords = 0
    BY BufferHoldsSomething
  <2>2. Written(<<>>) = 0
    BY <1>1, <2>1, BufferHoldsSomething DEF Written
  <2> QED
    BY <2>2, SubSeqEmpty
<1>3. SubSeq(<<>>, 1, 0) = <<>> /\ SubSeq(<<>>, 0 + 1, 0) = <<>>
  BY <1>2
<1>4. ASSUME AcceptBets(TickBets)
      PROVE  UNCHANGED <<log_file, log_buffer, record_count>>
  BY <1>1, <1>2, <1>3, <1>4 DEF AcceptBets
<1>5. ASSUME NEW n, NEW finishing \in BOOLEAN, n \in 0..Len(TickBets),
             CrashLog(SubSeq(TickBets, 1, n), finishing)
      PROVE  /\ n = 0 /\ SubSeq(TickBets, 1, n) = <<>>
             /\ UNCHANGED <<log_open, log_file, log_buffer, header_count, record_count>>
  <2>0. n \in 0..0
    BY <1>1, <1>5
  <2>1. n = 0 /\ SubSeq(TickBets, 1, n) = <<>>
    BY <1>1, <1>3, <2>0
  <2>2. CrashLog(<<>>, finishing)
    BY <1>5, <2>1
  <2>3. /\ log_open' = FALSE /\ log_buffer' = <<>> /\ header_count' = header_count
        /\ record_count' = record_count + 0
        /\ \E m \in 0..0 : log_file' = SubSeq(<<>>, 1, m)
    <3> DEFINE all == log_buffer \o <<>>
               written == log_file \o (IF finishing THEN all ELSE SubSeq(all, 1, Written(all)))
    <3>1. all = <<>>
      BY <1>1, <1>2
    <3>2. written = <<>> /\ Len(written) = 0
      BY <1>1, <1>2, <1>3, <3>1
    <3>3. /\ log_open' = FALSE /\ log_buffer' = <<>> /\ header_count' = header_count
          /\ record_count' = record_count + Len(<<>>)
          /\ \E m \in 0..Len(written) : log_file' = SubSeq(written, 1, m)
      BY <2>2 DEF CrashLog
    <3> HIDE DEF written
    <3> QED
      BY <1>1, <3>2, <3>3
  <2>4. log_file' = <<>>
    <3>1. \A m \in 0..0 : m = 0
      OBVIOUS
    <3> QED
      BY <1>3, <2>3, <3>1
  <2>5. log_buffer' = log_buffer /\ log_open' = log_open
    BY <1>1, <2>3
  <2>6. record_count' = record_count
    <3>1. record_count = 0 /\ record_count' = record_count + 0
      BY <1>1, <2>3
    <3> QED
      BY <3>1
  <2> QED
    BY <1>1, <2>1, <2>3, <2>4, <2>5, <2>6
<1> QED
  BY <1>1, <1>4, <1>5

LEMMA StepLog == ASSUME LoopOK, LogOK, [Next]_vars PROVE LogOK'
<1>1. CASE Begin
  <2>1. /\ pc = "start" /\ UNCHANGED <<placed, log_buffer, log_file, header_count, record_count>>
        /\ \/ pc' = "next" /\ log_open' = opt.bets
           \/ pc' = "failed" /\ log_open' = log_open
    BY <1>1 DEF Begin, historyVars
  <2>2. /\ log_open = FALSE /\ log_buffer = <<>> /\ placed = <<>> /\ log_file = <<>>
        /\ header_count = 0
    BY <2>1 DEF LogOK
  <2>3. log_open' \in BOOLEAN
    BY <2>1, <2>2, OptionFields DEF LoopOK, PcOK
  <2>4. <<>> \o <<>> = <<>>
    OBVIOUS
  <2> QED
    BY <2>1, <2>2, <2>3, <2>4 DEF LogOK
<1>2. CASE SourceFails
  <2>1. /\ pc \in {"start", "next"} /\ pc' = "failed" /\ log_open' = FALSE /\ log_buffer' = <<>>
        /\ UNCHANGED <<placed, log_file, header_count, record_count>>
    BY <1>2 DEF SourceFails, AbandonLog, historyVars
  <2>2. Len(<<>>) = 0 /\ 0 < kBufferRecords
    BY BufferHoldsSomething
  <2> QED
    BY <2>1, <2>2, EmptyIsSeq DEF LogOK
<1>3. CASE ProcessTick
  <2>1. /\ pc = "tick" /\ pc' \in {"finish", "apply"} /\ AcceptBets(TickBets)
        /\ placed' = placed \o TickBets /\ UNCHANGED <<log_open, header_count>>
    BY <1>3 DEF ProcessTick
  <2>2. CASE log_open
    <3>1. /\ IsSeq(placed') /\ IsSeq(log_file') /\ IsSeq(log_buffer')
          /\ Len(log_buffer') < kBufferRecords /\ record_count' = Len(placed')
          /\ log_file' \o log_buffer' = placed'
          /\ IsPrefix(log_file', placed')
      BY <2>1, <2>2, AcceptKeeps, TickBetsIsSeq
    <3> QED
      BY <2>1, <2>2, <3>1 DEF LogOK
  <2>3. CASE ~log_open
    <3>1. TickBets = <<>> /\ UNCHANGED <<log_file, log_buffer, record_count>>
      BY <2>1, <2>3, ClosedKeeps
    <3>2. placed = <<>> /\ placed' = <<>>
      <4>1. <<>> \o <<>> = <<>>
        OBVIOUS
      <4> QED
        BY <2>1, <2>3, <3>1, <4>1 DEF LogOK
    <3> QED
      BY <2>1, <2>3, <3>1, <3>2 DEF LogOK
  <2> QED
    BY <2>2, <2>3
<1>4. CASE Kill
  <2>1. PICK n \in 0..(IF pc = "tick" THEN Len(TickBets) ELSE 0) :
           /\ placed' = placed \o SubSeq(TickBets, 1, n)
           /\ CrashLog(SubSeq(TickBets, 1, n), pc = "finish")
    BY <1>4 DEF Kill
  <2>2. pc \in {"next", "tick", "apply", "finish"} /\ pc' = "failed"
    BY <1>4 DEF Kill
  <2>3. Len(TickBets) \in Nat /\ n \in 0..Len(TickBets)
    <3>1. Len(TickBets) \in Nat
      BY TickBetsIsSeq, SeqIs
    <3> QED
      BY <2>1, <3>1
  <2>4. CASE log_open
    <3>1. IsSeq(SubSeq(TickBets, 1, n))
      <4>1. PICK S : TickBets \in Seq(S)
        BY TickBetsIsSeq DEF IsSeq
      <4>2. 0 \in 0..Len(TickBets) /\ 0 + 1 = 1
        BY <2>3
      <4>3. SubSeq(TickBets, 1, n) \in Seq(S)
        BY <2>3, <4>1, <4>2, StretchIs
      <4> QED
        BY <4>3 DEF IsSeq
    <3>2. /\ IsSeq(placed') /\ IsSeq(log_file') /\ log_buffer' = <<>> /\ log_open' = FALSE
          /\ record_count' = Len(placed') /\ header_count' = 0
          /\ IsPrefix(log_file', placed')
      BY <2>1, <2>4, <3>1, CrashKeeps
    <3>3. Len(<<>>) = 0 /\ 0 < kBufferRecords
      BY BufferHoldsSomething
    <3> QED
      BY <2>2, <3>2, <3>3, EmptyIsSeq DEF LogOK
  <2>5. CASE ~log_open
    <3>1. /\ n = 0 /\ SubSeq(TickBets, 1, n) = <<>>
          /\ UNCHANGED <<log_open, log_file, log_buffer, header_count, record_count>>
      BY <2>1, <2>2, <2>3, <2>5, ClosedKeeps
    <3>2. placed = <<>> /\ placed' = <<>>
      <4>1. <<>> \o <<>> = <<>>
        OBVIOUS
      <4> QED
        BY <2>1, <2>2, <2>5, <3>1, <4>1 DEF LogOK
    <3> QED
      BY <2>2, <2>5, <3>1, <3>2 DEF LogOK
  <2> QED
    BY <2>4, <2>5
<1>5. CASE Finish
  <2>1. /\ pc = "finish" /\ pc' = "done" /\ UNCHANGED placed
        /\ IF log_open THEN FinishLog ELSE UNCHANGED logVars
    BY <1>5 DEF Finish, historyVars
  <2>2. CASE log_open
    <3>1. /\ log_file' = placed /\ log_buffer' = <<>> /\ log_open' = FALSE
          /\ header_count' = record_count /\ UNCHANGED record_count
      BY <2>1, <2>2 DEF FinishLog, LogOK
    <3>2. IsSeq(placed) /\ Len(placed) \in Nat
      BY SeqIs DEF LogOK
    <3>3. IsPrefix(placed, placed)
      BY <3>2 DEF IsPrefix
    <3>4. Len(<<>>) = 0 /\ 0 < kBufferRecords
      BY BufferHoldsSomething
    <3> QED
      BY <2>1, <3>1, <3>2, <3>3, <3>4, EmptyIsSeq DEF LogOK
  <2>3. CASE ~log_open
    BY <2>1, <2>3 DEF LogOK, logVars
  <2> QED
    BY <2>2, <2>3
<1>6. CASE UNCHANGED <<placed, logVars, pc>>
  BY <1>6 DEF LogOK, logVars
<1>7. CASE FetchMore \/ NextRecord \/ ApplyRecord \/ SourceEnds \/ ServeCommand
  <2>1. UNCHANGED <<placed, logVars>> /\ pc \in {"next", "tick", "apply"}
        /\ pc' \in {"next", "tick", "apply", "finish"}
    BY <1>7 DEF FetchMore, NextRecord, ApplyRecord, SourceEnds, ServeCommand, historyVars
  <2> QED
    BY <2>1 DEF LogOK, logVars
<1> QED
  BY <1>1, <1>2, <1>3, <1>4, <1>5, <1>6, <1>7 DEF Next, vars, historyVars

LEMMA LogInvariant == Spec => [](LoopOK /\ LogOK)
<1>1. Init => LoopOK /\ LogOK
  BY InitLoop, InitLog
<1>2. LoopOK /\ LogOK /\ [Next]_vars => LoopOK' /\ LogOK'
  BY StepLoop, StepLog
<1> QED
  BY <1>1, <1>2, PTL DEF Spec

\* A log whose header has a count holds every bet of a run that completed. Any
\* other is a prefix of the bets placed, however the engine came to stop.
THEOREM BetLogHolds == Spec => []BetLogIsAllOrTruncated
<1>1. LogOK => BetLogIsAllOrTruncated
  BY DEF LogOK, BetLogIsAllOrTruncated
<1> QED
  BY <1>1, LogInvariant, PTL

\* The loop's variables stay in their ranges; parameters that started in range
\* stay there under any messages (apply_command()).
THEOREM TypeCorrect == Spec => []TypeOK
<1>1. LoopOK /\ LogOK => TypeOK
  BY DEF LoopOK, PcOK, TableOK, ConfigOK, LogOK, TypeOK
<1> QED
  BY <1>1, LogInvariant, PTL

-----------------------------------------------------------------------------
(***************************************************************************)
(* The exposure cap.                                                       *)
(***************************************************************************)
\* Stakes scaled to a cap, each rounded down, stay under it in total.
LEMMA ScalingKeepsCap ==
    ASSUME NEW D, IsFiniteSet(D), NEW cap \in Nat, NEW f, \A i \in D : f[i] \in Nat,
           NEW total \in Nat \ {0}, total = SumFunctionOnSet(f, D),
           NEW g, g = [i \in D |-> (f[i] * cap) \div total]
    PROVE  (\A i \in D : g[i] \in Nat) /\ SumFunctionOnSet(g, D) <= cap
<1> DEFINE none == [i \in D |-> 0]
           big == [i \in D |-> total * g[i]]
           all == [i \in D |-> cap * f[i]]
           same == [i \in D |-> i]
<1>1. \A i \in D : /\ g[i] \in Nat /\ g[i] \in Int /\ all[i] \in Nat
                   /\ big[i] \in Int /\ big[i] <= all[i]
  <2> SUFFICES ASSUME NEW i \in D
               PROVE  /\ g[i] \in Nat /\ g[i] \in Int /\ all[i] \in Nat
                      /\ big[i] \in Int /\ big[i] <= all[i]
    OBVIOUS
  <2> DEFINE x == f[i] * cap
             q == x \div total
  <2>1. g[i] = q /\ x \in Nat /\ cap * f[i] = x
    OBVIOUS
  <2> HIDE DEF x
  <2>2. q \in Nat
    BY <2>1
  <2>3. q <= x \div total
    BY <2>2
  <2>4. total * q <= x
    <3>1. total \in Nat \ {0} /\ x \in Int /\ q \in Int
      BY <2>1, <2>2
    <3> HIDE DEF q
    <3> QED
      BY <2>3, <3>1, QuotientAtLeast
  <2> HIDE DEF q
  <2>5. total * q \in Int
    BY <2>2
  <2> QED
    BY <2>1, <2>2, <2>4, <2>5
<1> HIDE DEF big, all
<1>2. SumFunctionOnSet(big, D) <= SumFunctionOnSet(all, D)
  <2>1. same \in [D -> D] /\ (\A i, j \in D : i # j => same[i] # same[j])
        /\ \A i \in D : big[i] <= all[same[i]]
    BY <1>1
  <2> HIDE DEF same
  <2> QED
    BY <1>1, <2>1, SumInjects
<1>3. /\ \A i \in D : none[i] \in Int /\ f[i] \in Int
      /\ \A i \in D : big[i] = total * g[i] + 0 * none[i]
      /\ \A i \in D : all[i] = cap * f[i] + 0 * none[i]
  <2>1. \A i \in D : total * g[i] \in Int /\ cap * f[i] \in Int
    BY <1>1
  <2> QED
    BY <2>1 DEF big, all
<1> HIDE DEF none
<1>4. SumFunctionOnSet(none, D) \in Int /\ SumFunctionOnSet(g, D) \in Int
  BY <1>1, <1>3, SumType
<1>5. SumFunctionOnSet(big, D) = total * SumFunctionOnSet(g, D) + 0 * SumFunctionOnSet(none, D)
  <2>1. total \in Int /\ 0 \in Int
    OBVIOUS
  <2> QED
    BY <1>1, <1>3, <2>1, SumLinear
<1>6. SumFunctionOnSet(all, D) = cap * total + 0 * SumFunctionOnSet(none, D)
  <2>1. cap \in Int /\ 0 \in Int
    OBVIOUS
  <2> QED
    BY <1>3, <2>1, SumLinear
<1> DEFINE s == SumFunctionOnSet(g, D)
<1>7. s \in Int /\ total * s <= cap * total
  <2>1. s \in Int /\ total * s \in Int /\ cap * total \in Int
    BY <1>4
  <2> QED
    BY <1>2, <1>4, <1>5, <1>6, <2>1
<1> HIDE DEF s
<1>8. s <= cap
  <2>1. CASE s >= cap + 1
    <3>1. total * (cap + 1) <= total * s
      BY <1>7, <2>1, ProductMonotone
    <3>2. total * (cap + 1) = cap * total + total
      BY Distributes
    <3>3. total * s \in Int /\ cap * total \in Int
      BY <1>7
    <3> QED
      BY <1>7, <3>1, <3>2, <3>3
  <2>2. CASE ~(s >= cap + 1)
    BY <1>7, <2>2
  <2> QED
    BY <2>1, <2>2
<1> QED
  BY <1>1, <1>8 DEF s

\* allocate() stakes no more than the cap, and nothing if it is not positive.
LEMMA StakesAre ==
    ASSUME NEW price, NEW best, NEW k \in Int, NEW cap \in Int, price.count \in Nat,
           k > 0 => KellyStakes(price, best, k) \in [1..price.count -> Nat]
    PROVE  LET stakes == Stakes(price, best, k, cap)
               D == 1..price.count
           IN /\ IsFiniteSet(D) /\ \A i \in D : stakes[i] \in Nat
              /\ cap > 0 => SumFunctionOnSet(stakes, D) <= cap
              /\ \A i \in D : stakes[i] > 0 => cap > 0
<1> DEFINE stakes == Stakes(price, best, k, cap)
           D == 1..price.count
           kelly == KellyStakes(price, best, k)
           total == SumFunctionOnSet(kelly, D)
<1>1. IsFiniteSet(D)
  BY FS_Interval
<1>2. CASE k <= 0 \/ cap <= 0
  <2>1. stakes = [i \in D |-> 0]
    BY <1>2 DEF Stakes
  <2> HIDE DEF D, stakes
  <2>4. \A i \in D : stakes[i] = 0
    BY <2>1
  <2>3. SumFunctionOnSet(stakes, D) = 0
    BY <1>1, <2>4, SumOfNothing
  <2> QED
    BY <1>1, <2>3, <2>4 DEF D, stakes
<1>3. CASE ~(k <= 0 \/ cap <= 0)
  <2>1. kelly \in [D -> Nat] /\ cap \in Nat /\ cap > 0
    BY <1>3
  <2>2. /\ SumFunction(kelly) = total /\ DOMAIN kelly = D
        /\ \A i \in D : kelly[i] \in Nat
    BY <2>1 DEF SumFunction
  <2> HIDE DEF D, kelly
  <2>3. total \in Nat
    BY <1>1, <2>2, SumNatural
  <2>4. CASE total > cap
    <3> DEFINE scaled == [i \in D |-> (kelly[i] * cap) \div total]
    <3>1. stakes = scaled
      BY <1>3, <2>2, <2>4 DEF Stakes, kelly
    <3>2. total \in Nat \ {0}
      BY <2>1, <2>3, <2>4
    <3>3. (\A i \in D : scaled[i] \in Nat) /\ SumFunctionOnSet(scaled, D) <= cap
      <4> DEFINE g == scaled
                 t == total
      <4>1. g = [i \in D |-> (kelly[i] * cap) \div t] /\ t = SumFunctionOnSet(kelly, D)
            /\ t \in Nat \ {0}
        BY <3>2
      <4> HIDE DEF g, t
      <4>2. (\A i \in D : g[i] \in Nat) /\ SumFunctionOnSet(g, D) <= cap
        BY <1>1, <2>1, <2>2, <4>1, ScalingKeepsCap
      <4> QED
        BY <4>2 DEF g
    <3> HIDE DEF scaled, stakes
    <3> QED
      BY <1>1, <2>1, <3>1, <3>3 DEF D, stakes
  <2>5. CASE ~(total > cap)
    <3>1. stakes = kelly
      BY <1>3, <2>2, <2>5 DEF Stakes, kelly
    <3>2. total <= cap
      BY <2>1, <2>3, <2>5
    <3> HIDE DEF stakes
    <3>3. (\A i \in D : stakes[i] \in Nat) /\ SumFunctionOnSet(stakes, D) <= cap
      BY <2>2, <3>1, <3>2
    <3> QED
      BY <1>1, <2>1, <3>3 DEF D, stakes
  <2> QED
    BY <2>4, <2>5
<1> QED
  BY <1>2, <1>3

\* The bets on a market are one for each of some outcomes.
LEMMA BetsOnAre ==
    ASSUME NEW ts, NEW m, NEW price, NEW quotes, NEW c, price.count \in Nat
    PROVE  LET best == BestOdds(quotes)
               stakes == Stakes(price, best, c.kelly_fraction, c.max_exposure)
               bets == BetsOn(ts, m, price, quotes, c)
           IN /\ IsInjective(bets)
              /\ \A x \in ToSet(bets) :
                    /\ price # NoPrice /\ Backable(price, best)
                    /\ \E i \in 1..price.count :
                          /\ stakes[i] > 0
                          /\ x = [ts |-> ts, market_id |-> m, outcome |-> i,
                                  stake |-> stakes[i], odds_taken |-> best[i]]
<1> DEFINE n == price.count
           best == BestOdds(quotes)
           stakes == Stakes(price, best, c.kelly_fraction, c.max_exposure)
           bet(i) == [ts |-> ts, market_id |-> m, outcome |-> i, stake |-> stakes[i],
                      odds_taken |-> best[i]]
           ss == [i \in 1..n |-> IF stakes[i] > 0 THEN <<bet(i)>> ELSE <<>>]
           S == {bet(i) : i \in 1..n}
           all == BetsOn(ts, m, price, quotes, c)
<1>1. all = IF price # NoPrice /\ Backable(price, best) THEN FlattenSeq(ss) ELSE <<>>
  BY DEF BetsOn
<1>2. \A i \in 1..n : /\ bet(i) \in S /\ bet(i).outcome = i
                      /\ ss[i] = IF stakes[i] > 0 THEN <<bet(i)>> ELSE <<>>
  OBVIOUS
<1>3. DOMAIN ss = 1..n /\ ss = [i \in 1..n |-> ss[i]] /\ n \in Nat
  OBVIOUS
<1> HIDE DEF ss, S, bet, stakes, best, n, all
<1>4. ASSUME NEW i \in 1..n
      PROVE  /\ ss[i] \in Seq(S) /\ IsInjective(ss[i])
             /\ \A x \in ToSet(ss[i]) : stakes[i] > 0 /\ x = bet(i)
  <2>1. CASE stakes[i] > 0
    <3>1. ss[i] = <<bet(i)>> /\ bet(i) \in S
      BY <1>2, <2>1
    <3> QED
      BY <2>1, <3>1 DEF IsInjective, ToSet
  <2>2. CASE ~(stakes[i] > 0)
    <3>1. ss[i] = <<>>
      BY <1>2, <2>2
    <3> QED
      BY <3>1 DEF IsInjective, ToSet
  <2> QED
    BY <2>1, <2>2
<1>5. ss \in Seq(Seq(S))
  BY <1>3, <1>4
<1>6. \A i, j \in DOMAIN ss : i # j => \A x \in ToSet(ss[i]) : x \notin ToSet(ss[j])
  <2> SUFFICES ASSUME NEW i \in 1..n, NEW j \in 1..n, NEW x \in ToSet(ss[i]), x \in ToSet(ss[j])
               PROVE  i = j
    BY <1>3
  <2>1. x = bet(i) /\ x = bet(j)
    BY <1>4
  <2> QED
    BY <1>2, <2>1
<1>7. IsInjective(FlattenSeq(ss)) /\ \A x \in ToSet(FlattenSeq(ss)) : \E i \in 1..n : x \in ToSet(ss[i])
  BY <1>3, <1>4, <1>5, <1>6, FlattenInjects
<1>8. CASE price # NoPrice /\ Backable(price, best)
  <2>1. all = FlattenSeq(ss)
    BY <1>1, <1>8
  <2>2. \A x \in ToSet(all) : \E i \in 1..n : stakes[i] > 0 /\ x = bet(i)
    BY <1>4, <1>7, <2>1
  <2> QED
    BY <1>7, <1>8, <2>1, <2>2 DEF bet, stakes, best, n, all
<1>9. CASE ~(price # NoPrice /\ Backable(price, best))
  <2>1. all = <<>>
    BY <1>1, <1>9
  <2>2. IsInjective(all) /\ ToSet(all) = {}
    BY <2>1 DEF IsInjective, ToSet
  <2> QED
    BY <2>2 DEF stakes, best, n, all
<1> QED
  BY <1>8, <1>9

\* What a tick prices and stakes.
QuotesAt(m) == FreshQuotes(table, m, cur_ts, cfg)
PriceAt(m) == FairPrice(cfg.devig_method, QuotesAt(m))
StakesAt(m) ==
    Stakes(PriceAt(m), BestOdds(QuotesAt(m)), cfg.kelly_fraction, cfg.max_exposure)
BetAt(m, i) ==
    [ts |-> cur_ts, market_id |-> m, outcome |-> i, stake |-> StakesAt(m)[i],
     odds_taken |-> BestOdds(QuotesAt(m))[i]]

\* The bets of a tick are one for each of some outcomes of some markets.
LEMMA TickBetsAre ==
    /\ IsInjective(TickBets)
    /\ \A x \in ToSet(TickBets) : \E m \in HMarkets :
          /\ PriceAt(m) # NoPrice /\ Backable(PriceAt(m), BestOdds(QuotesAt(m)))
          /\ \E i \in 1..PriceAt(m).count : StakesAt(m)[i] > 0 /\ x = BetAt(m, i)
<1> DEFINE ss == [i \in 1..HeaderMarkets |->
                      BetsOn(cur_ts, i - 1, Prices(table, cur_ts, cfg)[i - 1],
                             FreshQuotes(table, i - 1, cur_ts, cfg), cfg)]
           Is(x, m) == /\ PriceAt(m) # NoPrice /\ Backable(PriceAt(m), BestOdds(QuotesAt(m)))
                       /\ \E i \in 1..PriceAt(m).count : StakesAt(m)[i] > 0 /\ x = BetAt(m, i)
           S == UNION {ToSet(ss[i]) : i \in 1..HeaderMarkets}
<1>1. ASSUME NEW i \in 1..HeaderMarkets
      PROVE  /\ i - 1 \in HMarkets /\ IsSeq(ss[i]) /\ IsInjective(ss[i])
             /\ \A x \in ToSet(ss[i]) : Is(x, i - 1) /\ x.market_id = i - 1
  <2> DEFINE m == i - 1
  <2>1. m \in HMarkets
    BY EngineConstants DEF HMarkets
  <2>2. Prices(table, cur_ts, cfg)[m] = PriceAt(m)
    BY <2>1 DEF Prices, PriceAt, QuotesAt
  <2>3. PriceAt(m).count \in Nat
    <3>1. DOMAIN QuotesAt(m) \subseteq Nat
      BY EngineConstants DEF QuotesAt, FreshQuotes, HBooks
    <3> QED
      BY <3>1, CountIs DEF PriceAt
  <2>4. ss[i] = BetsOn(cur_ts, m, PriceAt(m), QuotesAt(m), cfg)
    BY <2>2 DEF QuotesAt
  <2> HIDE DEF ss, m
  <2>5. IsSeq(ss[i])
    BY <2>3, <2>4, BetsOnIsSeq
  <2>6. IsInjective(ss[i]) /\ \A x \in ToSet(ss[i]) : Is(x, m)
    BY <2>3, <2>4, BetsOnAre DEF StakesAt, BetAt
  <2>7. \A x \in ToSet(ss[i]) : x.market_id = m
    BY <2>6 DEF BetAt
  <2> QED
    BY <2>1, <2>5, <2>6, <2>7 DEF m
<1>2. TickBets = IF log_open THEN FlattenSeq(ss) ELSE <<>>
  BY DEF TickBets, BetsAt
<1>3. DOMAIN ss = 1..HeaderMarkets /\ ss = [i \in 1..HeaderMarkets |-> ss[i]] /\ HeaderMarkets \in Nat
  BY EngineConstants
<1> HIDE DEF ss
<1>4. \A i \in 1..HeaderMarkets : ss[i] \in Seq(S)
  <2> SUFFICES ASSUME NEW i \in 1..HeaderMarkets
               PROVE  ss[i] \in Seq(S)
    OBVIOUS
  <2>1. ss[i] \in Seq(ToSet(ss[i]))
    BY <1>1, IsSeqOfItsElements DEF ToSet
  <2>2. ToSet(ss[i]) \subseteq S
    OBVIOUS
  <2> HIDE DEF S
  <2> QED
    BY <2>1, <2>2, SeqMonotonic
<1> HIDE DEF S
<1>5. ss \in Seq(Seq(S))
  BY <1>3, <1>4
<1>6. \A i, j \in DOMAIN ss : i # j => \A x \in ToSet(ss[i]) : x \notin ToSet(ss[j])
  <2> SUFFICES ASSUME NEW i \in 1..HeaderMarkets, NEW j \in 1..HeaderMarkets,
                      NEW x \in ToSet(ss[i]), x \in ToSet(ss[j])
               PROVE  i = j
    BY <1>3
  <2>1. x.market_id = i - 1 /\ x.market_id = j - 1
    BY <1>1
  <2> QED
    BY <2>1
<1> HIDE DEF Is
<1>7. IsInjective(FlattenSeq(ss)) /\ \A x \in ToSet(FlattenSeq(ss)) : \E m \in HMarkets : Is(x, m)
  <2>1. IsInjective(FlattenSeq(ss))
        /\ \A x \in ToSet(FlattenSeq(ss)) : \E i \in DOMAIN ss : x \in ToSet(ss[i])
    BY <1>1, <1>3, <1>5, <1>6, FlattenInjects
  <2> QED
    BY <1>1, <1>3, <2>1
<1>8. IsInjective(<<>>) /\ ToSet(<<>>) = {}
  BY DEF IsInjective, ToSet
<1>9. IsInjective(TickBets) /\ \A x \in ToSet(TickBets) : \E m \in HMarkets : Is(x, m)
  BY <1>2, <1>7, <1>8
<1> QED
  BY <1>9 DEF Is

\* What a market with bets stakes on its outcomes.
LEMMA StakesAtAre ==
    ASSUME LoopOK, cfg.kelly_fraction \in Fractions,
           HeaderMarkets <= MaxMarkets, HeaderBooks <= MaxBooks, NEW m \in HMarkets,
           PriceAt(m) # NoPrice, Backable(PriceAt(m), BestOdds(QuotesAt(m)))
    PROVE  LET D == 1..PriceAt(m).count
           IN /\ IsFiniteSet(D) /\ \A i \in D : StakesAt(m)[i] \in Nat
              /\ cfg.max_exposure > 0 => SumFunctionOnSet(StakesAt(m), D) <= cfg.max_exposure
              /\ \A i \in D : StakesAt(m)[i] > 0 => cfg.max_exposure > 0
<1> DEFINE quotes == QuotesAt(m)
           fresh == {b \in HBooks :
                       ~Table!QuoteIsStale(table[m][b], cur_ts, cfg.stale_ms * NsPerMs)}
           k == cfg.kelly_fraction
<1>1. /\ cfg.devig_method \in DevigMethods /\ k \in Int /\ cfg.max_exposure \in Int
  BY DEF LoopOK, ConfigOK, Configs
<1>2. /\ m \in Table!Markets /\ HBooks \subseteq Table!Books
      /\ DOMAIN quotes \subseteq Nat
  BY EngineConstants DEF HMarkets, HBooks, Table!Markets, Table!Books, QuotesAt, FreshQuotes
<1>3. quotes \in QuoteSets
  <2>1. quotes = [b \in fresh |-> table[m][b].odds] /\ fresh \in SUBSET HBooks
    BY DEF QuotesAt, FreshQuotes
  <2>2. ASSUME NEW b \in fresh
        PROVE  table[m][b].odds \in {r.odds : r \in Updates}
    <3>1. table[m][b] \in Table!Quotes
      BY <1>2 DEF LoopOK, TableOK, Table!TypeOK
    <3>2. table[m][b].seq_no # kEmptySeq
      BY DEF Table!QuoteIsStale
    <3>3. PICK r \in Updates : table[m][b] = Table!QuoteOf(r, r.sim_timestamp_ns)
      BY <3>1, <3>2 DEF Table!Quotes, Table!EmptyQuote
    <3> QED
      BY <3>3 DEF Table!QuoteOf
  <2> HIDE DEF fresh, quotes
  <2>3. quotes \in [fresh -> {r.odds : r \in Updates}]
    BY <2>1, <2>2
  <2> QED
    BY <2>1, <2>3 DEF QuoteSets
<1>4. PriceAt(m).count \in Nat
  BY <1>2, CountIs DEF PriceAt
<1>5. k > 0 => KellyStakes(PriceAt(m), BestOdds(quotes), k) \in [1..PriceAt(m).count -> Nat]
  <2>1. PriceAt(m) = FairPrice(cfg.devig_method, quotes)
    BY DEF PriceAt
  <2> HIDE DEF quotes, k
  <2> QED
    BY <1>1, <1>3, <2>1, StakesAreNotNegative DEF quotes, k
<1> DEFINE price == PriceAt(m)
           best == BestOdds(quotes)
           cap == cfg.max_exposure
           stakes == Stakes(price, best, k, cap)
           D == 1..price.count
<1>6. StakesAt(m) = stakes
  BY DEF StakesAt
<1>7. k \in Int /\ cap \in Int /\ price.count \in Nat
      /\ (k > 0 => KellyStakes(price, best, k) \in [1..price.count -> Nat])
  BY <1>1, <1>4, <1>5
<1> HIDE DEF price, best, cap, k
<1>8. /\ IsFiniteSet(D) /\ \A i \in D : stakes[i] \in Nat
      /\ cap > 0 => SumFunctionOnSet(stakes, D) <= cap
      /\ \A i \in D : stakes[i] > 0 => cap > 0
  BY <1>7, StakesAre
<1> HIDE DEF stakes
<1> QED
  BY <1>6, <1>8 DEF cap, price

\* The bets placed with those of a tick, all or some.
LEMMA PlacedGrows ==
    ASSUME IsSeq(placed), NEW n \in 0..Len(TickBets)
    PROVE  LET p == placed \o SubSeq(TickBets, 1, n)
               k == Len(placed)
           IN /\ IsSeq(p) /\ k \in Nat /\ n \in Nat
              /\ DOMAIN placed = 1..k /\ DOMAIN p = 1..(k + n)
              /\ DOMAIN TickBets = 1..Len(TickBets) /\ n <= Len(TickBets)
              /\ Len(TickBets) \in Nat
              /\ \A i \in 1..k : p[i] = placed[i]
              /\ \A i \in 1..(k + n) : i > k => i - k \in 1..n /\ p[i] = TickBets[i - k]
<1> DEFINE S == ToSet(placed) \union ToSet(TickBets)
           b == SubSeq(TickBets, 1, n)
           p == placed \o b
           k == Len(placed)
<1>1. placed \in Seq(S) /\ TickBets \in Seq(S)
  <2>1. placed \in Seq(ToSet(placed)) /\ TickBets \in Seq(ToSet(TickBets))
    BY IsSeqOfItsElements, TickBetsIsSeq DEF ToSet
  <2>2. ToSet(placed) \subseteq S /\ ToSet(TickBets) \subseteq S
    OBVIOUS
  <2> HIDE DEF S
  <2> QED
    BY <2>1, <2>2, SeqMonotonic
<1> HIDE DEF S
<1>2. /\ k \in Nat /\ DOMAIN placed = 1..k /\ Len(TickBets) \in Nat
      /\ DOMAIN TickBets = 1..Len(TickBets)
  BY <1>1, LenProperties
<1>3. n \in Nat /\ n <= Len(TickBets)
  BY <1>2
<1>4. b \in Seq(S) /\ Len(b) = n /\ \A i \in 1..n : b[i] = TickBets[i]
  <2>1. 0 \in 0..Len(TickBets) /\ n \in 0..Len(TickBets) /\ 0 + 1 = 1 /\ n - 0 = n
        /\ \A i \in 1..n : 0 + i = i
    BY <1>2, <1>3
  <2>2. SubSeq(TickBets, 0 + 1, n) \in Seq(S) /\ Len(SubSeq(TickBets, 0 + 1, n)) = n - 0
        /\ \A i \in 1..(n - 0) : SubSeq(TickBets, 0 + 1, n)[i] = TickBets[0 + i]
    BY <1>1, <2>1, StretchIs
  <2> QED
    BY <2>1, <2>2
<1> HIDE DEF b
<1>5. /\ p \in Seq(S) /\ Len(p) = k + n
      /\ \A i \in 1..(k + n) : p[i] = IF i <= k THEN placed[i] ELSE b[i - k]
  BY <1>1, <1>4, ConcatProperties
<1> HIDE DEF p, k
<1>6. DOMAIN p = 1..(k + n) /\ IsSeq(p)
  BY <1>5, LenProperties DEF IsSeq
<1>7. \A i \in 1..k : p[i] = placed[i]
  <2>1. \A i \in 1..k : i \in 1..(k + n) /\ i <= k
    BY <1>2, <1>3
  <2> QED
    BY <1>5, <2>1
<1>8. \A i \in 1..(k + n) : i > k => i - k \in 1..n /\ p[i] = TickBets[i - k]
  <2>1. \A i \in 1..(k + n) : i > k => i - k \in 1..n /\ ~(i <= k)
    BY <1>2, <1>3
  <2> QED
    BY <1>4, <1>5, <2>1
<1> QED
  BY <1>2, <1>3, <1>6, <1>7, <1>8 DEF p, b, k

\* The stake on a market at a tick in any sequence of bets, and a tick's caps.
StakeIn(p, ts, m) ==
    SumFunction([i \in {k \in DOMAIN p : p[k].ts = ts /\ p[k].market_id = m} |-> p[i].stake])
CapsIn(t, ts) == {t[i].config[3] : i \in {k \in DOMAIN t : t[k].ts = ts}}

\* The bets of a tick that is the first of its time stake no more than its cap.
LEMMA NewStakes ==
    ASSUME LoopOK, cfg.kelly_fraction \in Fractions,
           HeaderMarkets <= MaxMarkets, HeaderBooks <= MaxBooks,
           IsSeq(placed), \A k \in DOMAIN placed : placed[k].ts # cur_ts,
           NEW n \in 0..Len(TickBets), NEW p, p = placed \o SubSeq(TickBets, 1, n),
           NEW i \in DOMAIN p, p[i].ts = cur_ts
    PROVE  StakeIn(p, cur_ts, p[i].market_id) <= cfg.max_exposure
<1> DEFINE l == Len(placed)
           m == p[i].market_id
           D == {k \in DOMAIN p : p[k].ts = cur_ts /\ p[k].market_id = m}
           f == [k \in D |-> p[k].stake]
           K == 1..PriceAt(m).count
           g == StakesAt(m)
<1>1. /\ l \in Nat /\ n \in Nat /\ DOMAIN placed = 1..l /\ DOMAIN p = 1..(l + n)
      /\ n <= Len(TickBets) /\ Len(TickBets) \in Nat /\ DOMAIN TickBets = 1..Len(TickBets)
      /\ \A k \in 1..l : p[k] = placed[k]
      /\ \A k \in 1..(l + n) : k > l => k - l \in 1..n /\ p[k] = TickBets[k - l]
  BY PlacedGrows
<1> HIDE DEF l
<1>2. ASSUME NEW k \in D
      PROVE  /\ k \in 1..(l + n) /\ k - l \in DOMAIN TickBets /\ p[k] = TickBets[k - l]
             /\ m \in HMarkets /\ PriceAt(m) # NoPrice
             /\ Backable(PriceAt(m), BestOdds(QuotesAt(m)))
             /\ p[k].outcome \in K /\ g[p[k].outcome] > 0
             /\ p[k] = BetAt(m, p[k].outcome) /\ p[k].stake = g[p[k].outcome]
  <2>1. k \in 1..(l + n) /\ p[k].ts = cur_ts /\ p[k].market_id = m
    BY <1>1
  <2>2. k > l
    <3>1. k \notin 1..l
      BY <1>1, <2>1
    <3> QED
      BY <1>1, <2>1, <3>1
  <2>3. k - l \in 1..n /\ p[k] = TickBets[k - l]
    BY <1>1, <2>1, <2>2
  <2>4. k - l \in DOMAIN TickBets
    BY <1>1, <2>3
  <2>5. p[k] \in ToSet(TickBets)
    BY <2>3, <2>4 DEF ToSet
  <2> HIDE DEF m
  <2>6. PICK q \in HMarkets :
           /\ PriceAt(q) # NoPrice /\ Backable(PriceAt(q), BestOdds(QuotesAt(q)))
           /\ \E o \in 1..PriceAt(q).count : StakesAt(q)[o] > 0 /\ p[k] = BetAt(q, o)
    BY <2>5, TickBetsAre
  <2>7. PICK o \in 1..PriceAt(q).count : StakesAt(q)[o] > 0 /\ p[k] = BetAt(q, o)
    BY <2>6
  <2>8. p[k].market_id = q /\ p[k].outcome = o /\ p[k].stake = StakesAt(q)[o]
    BY <2>7 DEF BetAt
  <2>9. q = m
    BY <2>1, <2>8
  <2> QED
    BY <2>1, <2>3, <2>4, <2>6, <2>7, <2>8, <2>9
<1>3. i \in D
  OBVIOUS
<1>4. IsFiniteSet(D)
  <2>1. D \subseteq DOMAIN p
    OBVIOUS
  <2> HIDE DEF D
  <2>2. 1 \in Int /\ l + n \in Int
    BY <1>1
  <2>3. IsFiniteSet(1..(l + n))
    BY <2>2, FS_Interval
  <2> QED
    BY <1>1, <2>1, <2>3, FS_Subset
<1> HIDE DEF D, m, K, g
<1>5. /\ IsFiniteSet(K) /\ \A o \in K : g[o] \in Nat
      /\ cfg.max_exposure > 0 => SumFunctionOnSet(g, K) <= cfg.max_exposure
      /\ \A o \in K : g[o] > 0 => cfg.max_exposure > 0
  <2>1. /\ m \in HMarkets /\ PriceAt(m) # NoPrice
        /\ Backable(PriceAt(m), BestOdds(QuotesAt(m)))
    BY <1>2, <1>3
  <2> QED
    BY <2>1, StakesAtAre DEF K, g
<1>6. cfg.max_exposure > 0
  BY <1>2, <1>3, <1>5
<1> DEFINE h == [k \in D |-> p[k].outcome]
<1>7. h \in [D -> K] /\ \A k \in D : f[k] \in Int /\ f[k] <= g[h[k]]
  <2>1. \A k \in D : p[k].outcome \in K /\ p[k].stake = g[p[k].outcome]
    BY <1>2
  <2>2. h \in [D -> K]
    <3> DEFINE o(k) == p[k].outcome
    <3>1. h = [k \in D |-> o(k)] /\ \A k \in D : o(k) \in K
      BY <2>1
    <3> HIDE DEF o, h
    <3> QED
      BY <3>1
  <2>3. \A k \in D : f[k] = g[h[k]] /\ g[h[k]] \in Nat
    BY <1>5, <2>1
  <2>4. \A k \in D : f[k] \in Int /\ f[k] <= g[h[k]]
    <3> HIDE DEF f, h
    <3> QED
      BY <2>3
  <2> HIDE DEF f, h
  <2> QED
    BY <2>2, <2>4
<1>8. ASSUME NEW j \in D, NEW k \in D, h[j] = h[k]
      PROVE  j = k
  <2> HIDE DEF D, K, g, m
  <2>1. p[j] = p[k]
    <3>1. j \in D /\ k \in D
      OBVIOUS
    <3>2. p[j].outcome = p[k].outcome
      BY <1>8, <3>1
    <3> QED
      BY <1>2, <3>1, <3>2
  <2>2. /\ p[j] = TickBets[j - l] /\ j - l \in DOMAIN TickBets
        /\ p[k] = TickBets[k - l] /\ k - l \in DOMAIN TickBets
    BY <1>2
  <2>3. j - l = k - l
    BY <2>1, <2>2, TickBetsAre DEF IsInjective
  <2>4. j \in 1..(l + n) /\ k \in 1..(l + n)
    BY <1>2
  <2> QED
    BY <1>1, <2>3, <2>4
<1>9. StakeIn(p, cur_ts, m) = SumFunctionOnSet(f, D)
  <2>1. StakeIn(p, cur_ts, m) = SumFunction(f)
    BY DEF StakeIn, D
  <2>2. DOMAIN f = D
    OBVIOUS
  <2> HIDE DEF f
  <2> QED
    BY <2>1, <2>2 DEF SumFunction
<1> HIDE DEF f, h
<1>10. SumFunctionOnSet(f, D) <= SumFunctionOnSet(g, K)
  BY <1>4, <1>5, <1>7, <1>8, SumInjects
<1>11. /\ SumFunctionOnSet(f, D) \in Int /\ SumFunctionOnSet(g, K) \in Int
       /\ cfg.max_exposure \in Int
  <2>1. \A o \in K : g[o] \in Int
    BY <1>5
  <2> QED
    BY <1>4, <1>5, <1>7, <2>1, SumType DEF LoopOK, ConfigOK, Configs
<1>12. StakeIn(p, cur_ts, m) <= cfg.max_exposure
  BY <1>5, <1>6, <1>9, <1>10, <1>11
<1> QED
  BY <1>12 DEF m

\* Bets at other times are as they were.
LEMMA OldStakes ==
    ASSUME IsSeq(placed), NEW n \in 0..Len(TickBets), NEW p, p = placed \o SubSeq(TickBets, 1, n),
           NEW ts, ts # cur_ts, NEW m
    PROVE  StakeIn(p, ts, m) = StakeIn(placed, ts, m)
<1> DEFINE l == Len(placed)
           In(s) == {k \in DOMAIN s : s[k].ts = ts /\ s[k].market_id = m}
<1>1. /\ l \in Nat /\ n \in Nat /\ DOMAIN placed = 1..l /\ DOMAIN p = 1..(l + n)
      /\ n <= Len(TickBets) /\ Len(TickBets) \in Nat /\ DOMAIN TickBets = 1..Len(TickBets)
      /\ \A k \in 1..l : p[k] = placed[k]
      /\ \A k \in 1..(l + n) : k > l => k - l \in 1..n /\ p[k] = TickBets[k - l]
  BY PlacedGrows
<1> HIDE DEF l
<1>2. ASSUME NEW k \in DOMAIN p, k \notin DOMAIN placed
      PROVE  p[k].ts = cur_ts
  <2>1. k - l \in 1..n /\ p[k] = TickBets[k - l]
    BY <1>1, <1>2
  <2>2. k - l \in DOMAIN TickBets
    BY <1>1, <2>1
  <2>3. p[k] \in ToSet(TickBets)
    BY <2>1, <2>2 DEF ToSet
  <2> QED
    BY <2>3, TickBetsAre DEF BetAt
<1>3. \A k \in DOMAIN placed : k \in DOMAIN p /\ p[k] = placed[k]
  BY <1>1
<1>4. In(p) = In(placed)
  BY <1>2, <1>3
<1>5. [k \in In(p) |-> p[k].stake] = [k \in In(placed) |-> placed[k].stake]
  BY <1>3, <1>4
<1> QED
  BY <1>5 DEF StakeIn

\* The run's shape is the table's, its fraction one it was given, what it holds
\* has been handed to it, and bets are placed at ticks.
RunOK ==
    /\ pc \in {"next", "tick", "apply", "finish"} =>
          HeaderMarkets <= MaxMarkets /\ HeaderBooks <= MaxBooks
    /\ cfg.kelly_fraction \in Fractions
    /\ have_tick => \E i \in DOMAIN handed : handed[i].sim_timestamp_ns = cur_ts
    /\ ~have_tick => ticks = <<>>
    /\ pc = "tick" => have_tick
    /\ source_state = "streaming" /\ pc \in {"tick", "apply"} =>
          \E i \in DOMAIN handed : handed[i] = u
    /\ pc = "tick" /\ source_state = "streaming" => u.sim_timestamp_ns # cur_ts
    /\ IsSeq(ticks) /\ IsSeq(placed)
    /\ \A k \in DOMAIN placed : \E i \in DOMAIN ticks : ticks[i].ts = placed[k].ts

\* Records in order make ticks in order: the one that is due is after all others.
OrderOK ==
    HandedInOrder =>
        /\ have_tick /\ source_state = "streaming" /\ pc \in {"tick", "apply"} =>
              cur_ts <= u.sim_timestamp_ns
        /\ pc \in {"start", "next", "tick"} => \A i \in DOMAIN ticks : ticks[i].ts < cur_ts
        /\ pc = "apply" => \A i \in DOMAIN ticks : ticks[i].ts < u.sim_timestamp_ns
        /\ \A i \in DOMAIN ticks : ticks[i].ts \in Nat
        /\ ExposureCapHolds

CapInv == LoopOK /\ RunOK /\ OrderOK

\* A tick that is the first of its time, with all of its bets or some.
LEMMA TickKeepsCap ==
    ASSUME LoopOK, RunOK, pc = "tick", ExposureCapHolds,
           \A i \in DOMAIN ticks : ticks[i].ts # cur_ts,
           ticks' = Append(ticks, ThisTick), NEW n \in 0..Len(TickBets),
           placed' = placed \o SubSeq(TickBets, 1, n)
    PROVE  ExposureCapHolds'
<1> DEFINE p == placed \o SubSeq(TickBets, 1, n)
           t == Append(ticks, ThisTick)
           l == Len(placed)
           e == Len(ticks) + 1
<1>14. \A i \in DOMAIN placed :
          StakeIn(placed, placed[i].ts, placed[i].market_id) <= Max(CapsIn(ticks, placed[i].ts))
  BY DEF ExposureCapHolds, StakeOn, CapsAt, StakeIn, CapsIn
<1>1. /\ l \in Nat /\ n \in Nat /\ DOMAIN placed = 1..l /\ DOMAIN p = 1..(l + n)
      /\ n <= Len(TickBets) /\ Len(TickBets) \in Nat /\ DOMAIN TickBets = 1..Len(TickBets)
      /\ \A k \in 1..l : p[k] = placed[k]
      /\ \A k \in 1..(l + n) : k > l => k - l \in 1..n /\ p[k] = TickBets[k - l]
  BY PlacedGrows DEF RunOK
<1>2. /\ Len(ticks) \in Nat /\ DOMAIN ticks = 1..Len(ticks) /\ DOMAIN t = 1..e
      /\ \A i \in DOMAIN ticks : t[i] = ticks[i]
      /\ t[e] = ThisTick
  BY AppendIsSeq, SeqIs DEF RunOK
<1>3. \A i \in DOMAIN t : i \in DOMAIN ticks \/ i = e
  BY <1>2
<1>4. /\ e \in DOMAIN t /\ \A i \in DOMAIN ticks : i \in DOMAIN t
  BY <1>2
<1>5. t[e].ts = cur_ts /\ t[e].config[3] = cfg.max_exposure
  BY <1>2 DEF ThisTick, Parameters
<1>6. \A k \in DOMAIN placed : placed[k].ts # cur_ts
  BY DEF RunOK
<1>7. CapsIn(t, cur_ts) = {cfg.max_exposure}
  <2>1. \A i \in DOMAIN t : t[i].ts = cur_ts <=> i = e
    BY <1>2, <1>3, <1>4, <1>5
  <2>2. {k \in DOMAIN t : t[k].ts = cur_ts} = {e}
    BY <1>4, <2>1
  <2> HIDE DEF t, e
  <2> QED
    BY <1>5, <2>2 DEF CapsIn
<1>8. ASSUME NEW ts, ts # cur_ts
      PROVE  CapsIn(t, ts) = CapsIn(ticks, ts)
  <2>1. {k \in DOMAIN t : t[k].ts = ts} = {k \in DOMAIN ticks : ticks[k].ts = ts}
    BY <1>2, <1>3, <1>4, <1>5, <1>8
  <2>2. \A k \in DOMAIN ticks : t[k] = ticks[k]
    BY <1>2
  <2> HIDE DEF t
  <2> QED
    BY <2>1, <2>2 DEF CapsIn
<1>9. Max({cfg.max_exposure}) = cfg.max_exposure
  <2>1. cfg.max_exposure \in Int
    BY DEF LoopOK, ConfigOK, Configs
  <2>2. Max({cfg.max_exposure, cfg.max_exposure}) = cfg.max_exposure
    BY <2>1, MaxOfTwo
  <2> QED
    BY <2>2
<1> HIDE DEF p, t, e, l
<1>10. IsSeq(placed) /\ p = placed \o SubSeq(TickBets, 1, n)
  BY DEF RunOK, p
<1>11. ASSUME NEW i \in DOMAIN p
       PROVE  StakeIn(p, p[i].ts, p[i].market_id) <= Max(CapsIn(t, p[i].ts))
  <2>1. CASE p[i].ts = cur_ts
    <3>1. StakeIn(p, cur_ts, p[i].market_id) <= cfg.max_exposure
      BY <1>6, <1>10, <2>1, NewStakes DEF RunOK
    <3> QED
      BY <1>7, <1>9, <2>1, <3>1
  <2>2. CASE p[i].ts # cur_ts
    <3>1. i \in DOMAIN placed /\ p[i] = placed[i]
      <4>1. CASE i > l
        <5>1. i - l \in 1..n /\ p[i] = TickBets[i - l]
          BY <1>1, <4>1
        <5>2. i - l \in DOMAIN TickBets
          BY <1>1, <5>1
        <5>3. p[i] \in ToSet(TickBets)
          BY <5>1, <5>2 DEF ToSet
        <5> QED
          BY <2>2, <5>3, TickBetsAre DEF BetAt
      <4>2. CASE ~(i > l)
        <5>1. i \in 1..l
          BY <1>1, <4>2
        <5> QED
          BY <1>1, <5>1
      <4> QED
        BY <4>1, <4>2
    <3>2. StakeIn(p, p[i].ts, p[i].market_id) = StakeIn(placed, p[i].ts, p[i].market_id)
      <4> DEFINE ts == p[i].ts
                 m == p[i].market_id
      <4>1. ts # cur_ts
        BY <2>2
      <4> HIDE DEF ts, m
      <4>2. StakeIn(p, ts, m) = StakeIn(placed, ts, m)
        BY <1>10, <4>1, OldStakes
      <4> QED
        BY <4>2 DEF ts, m
    <3>3. CapsIn(t, p[i].ts) = CapsIn(ticks, p[i].ts)
      BY <1>8, <2>2
    <3>4. StakeIn(placed, placed[i].ts, placed[i].market_id) <= Max(CapsIn(ticks, placed[i].ts))
      BY <1>14, <3>1
    <3> QED
      BY <3>1, <3>2, <3>3, <3>4
  <2> QED
    BY <2>1, <2>2
<1>12. placed' = p /\ ticks' = t
  BY DEF p, t
<1>13. \A i \in DOMAIN placed' :
          StakeIn(placed', placed'[i].ts, placed'[i].market_id) <= Max(CapsIn(ticks', placed'[i].ts))
  BY <1>11, <1>12
<1> QED
  BY <1>13 DEF ExposureCapHolds, StakeOn, CapsAt, StakeIn, CapsIn

\* And its bets are placed at it.
LEMMA TickKeepsTimes ==
    ASSUME RunOK, ticks' = Append(ticks, ThisTick), NEW n \in 0..Len(TickBets),
           placed' = placed \o SubSeq(TickBets, 1, n)
    PROVE  /\ IsSeq(ticks') /\ IsSeq(placed')
           /\ \A k \in DOMAIN placed' : \E i \in DOMAIN ticks' : ticks'[i].ts = placed'[k].ts
<1> DEFINE p == placed \o SubSeq(TickBets, 1, n)
           l == Len(placed)
           e == Len(ticks) + 1
<1>1. /\ IsSeq(p)
      /\ l \in Nat /\ n \in Nat /\ DOMAIN placed = 1..l /\ DOMAIN p = 1..(l + n)
      /\ n <= Len(TickBets) /\ Len(TickBets) \in Nat /\ DOMAIN TickBets = 1..Len(TickBets)
      /\ \A k \in 1..l : p[k] = placed[k]
      /\ \A k \in 1..(l + n) : k > l => k - l \in 1..n /\ p[k] = TickBets[k - l]
  BY PlacedGrows DEF RunOK
<1>2. /\ IsSeq(ticks') /\ Len(ticks) \in Nat /\ DOMAIN ticks = 1..Len(ticks) /\ DOMAIN ticks' = 1..e
      /\ \A i \in DOMAIN ticks : ticks'[i] = ticks[i]
      /\ ticks'[e] = ThisTick
  BY AppendIsSeq, SeqIs DEF RunOK
<1>3. /\ e \in DOMAIN ticks' /\ \A i \in DOMAIN ticks : i \in DOMAIN ticks'
  BY <1>2
<1>4. ticks'[e].ts = cur_ts
  BY <1>2 DEF ThisTick
<1> HIDE DEF p, l, e
<1>5. ASSUME NEW k \in DOMAIN p
      PROVE  \E i \in DOMAIN ticks' : ticks'[i].ts = p[k].ts
  <2>1. CASE k > l
    <3>1. k - l \in 1..n /\ p[k] = TickBets[k - l]
      BY <1>1, <2>1
    <3>2. k - l \in DOMAIN TickBets
      BY <1>1, <3>1
    <3>3. p[k] \in ToSet(TickBets)
      BY <3>1, <3>2 DEF ToSet
    <3>4. p[k].ts = cur_ts
      BY <3>3, TickBetsAre DEF BetAt
    <3> QED
      BY <1>3, <1>4, <3>4
  <2>2. CASE ~(k > l)
    <3>1. k \in 1..l
      BY <1>1, <2>2
    <3>2. k \in DOMAIN placed /\ p[k] = placed[k]
      BY <1>1, <3>1
    <3>3. PICK i \in DOMAIN ticks : ticks[i].ts = placed[k].ts
      BY <3>2 DEF RunOK
    <3> QED
      BY <1>2, <1>3, <3>2, <3>3
  <2> QED
    BY <2>1, <2>2
<1>6. placed' = p
  BY DEF p
<1> QED
  BY <1>1, <1>2, <1>5, <1>6

\* What a step does to the ticks and the bets.
LEMMA BetsGrow ==
    ASSUME Next, IsSeq(placed)
    PROVE  \/ UNCHANGED <<ticks, placed>>
           \/ /\ pc = "tick" /\ ticks' = Append(ticks, ThisTick)
              /\ \E n \in 0..Len(TickBets) : placed' = placed \o SubSeq(TickBets, 1, n)
              /\ pc' \in {"finish", "apply", "failed"}
              /\ pc' = "finish" => source_state = "ended"
              /\ pc' = "apply" => source_state # "ended"
              /\ UNCHANGED <<source_state, handed, cfg, u, have_tick, cur_ts>>
<1>1. PICK S : TickBets \in Seq(S)
  BY TickBetsIsSeq DEF IsSeq
<1>2. Len(TickBets) \in Nat
  BY <1>1, LenProperties
<1>3. CASE ProcessTick
  <2>1. SubSeq(TickBets, 1, Len(TickBets)) = TickBets
    BY <1>1, SubSeqFull
  <2>2. Len(TickBets) \in 0..Len(TickBets)
    BY <1>2
  <2>3. /\ pc = "tick" /\ ticks' = Append(ticks, ThisTick) /\ placed' = placed \o TickBets
        /\ pc' = IF source_state = "ended" THEN "finish" ELSE "apply"
        /\ UNCHANGED <<source_state, handed, cfg, u, have_tick, cur_ts>>
    BY <1>3 DEF ProcessTick, sourceVars, configVars
  <2> QED
    BY <2>1, <2>2, <2>3
<1>4. CASE Kill
  <2>1. PICK n \in 0..(IF pc = "tick" THEN Len(TickBets) ELSE 0) :
           /\ placed' = placed \o SubSeq(TickBets, 1, n)
           /\ ticks' = IF n = 0 THEN ticks ELSE Append(ticks, ThisTick)
    BY <1>4 DEF Kill
  <2>2. CASE n = 0
    <3>1. SubSeq(TickBets, 1, 0) = <<>>
      BY SubSeqEmpty
    <3>2. placed \o <<>> = placed
      BY ConcatEmptySeq DEF IsSeq
    <3> QED
      BY <2>1, <2>2, <3>1, <3>2
  <2>3. CASE n # 0
    <3>1. pc = "tick" /\ n \in 0..Len(TickBets)
      BY <2>1, <2>3
    <3>2. pc' = "failed" /\ UNCHANGED <<source_state, handed, cfg, u, have_tick, cur_ts>>
      BY <1>4 DEF Kill, sourceVars, configVars
    <3> QED
      BY <2>1, <2>3, <3>1, <3>2
  <2> QED
    BY <2>2, <2>3
<1> QED
  BY <1>3, <1>4 DEF Next, Begin, FetchMore, NextRecord, ApplyRecord, SourceEnds, SourceFails,
         ServeCommand, Finish, historyVars

\* A message sets the fraction within its range, if at all.
LEMMA CommandKeepsFraction ==
    ASSUME NEW c \in Configs, c.kelly_fraction \in Fractions, NEW msg \in Commands, NEW h \in BOOLEAN
    PROVE  ApplyCommand(c, msg, h).kelly_fraction \in Fractions
<1> DEFINE d == ApplyCommand(c, msg, h)
<1>1. CASE ~Accepts(msg, h)
  BY <1>1 DEF ApplyCommand, Accepts
<1>2. CASE Accepts(msg, h)
  <2>1. IsValidChange(msg) /\ d = Changed(c, msg)
    BY <1>2 DEF ApplyCommand, Accepts
  <2>2. CASE msg.key = "devig"
    BY <2>1, <2>2 DEF Changed, Configs
  <2>3. CASE msg.key = "stale-ms"
    BY <2>1, <2>3 DEF Changed, Configs
  <2>4. CASE msg.key = "kelly-fraction"
    <3>1. d.kelly_fraction = msg.num
      BY <2>1, <2>4 DEF Changed, Configs
    <3>2. msg.num \in Int /\ msg.num \in 1..One
      <4>1. msg.num \in Int \union {Absent, NotFinite} /\ One \in Nat
        BY ConfigConstants
      <4> QED
        BY <2>1, <2>4, <4>1 DEF IsValidChange, IsFinite, FractionInRange
    <3> QED
      BY <3>1, <3>2 DEF Fractions
  <2>5. CASE msg.key = "max-exposure"
    BY <2>1, <2>5 DEF Changed, Configs
  <2> QED
    BY <2>1, <2>2, <2>3, <2>4, <2>5 DEF IsValidChange
<1> QED
  BY <1>1, <1>2

\* What was handed out stays the beginning of it.
LEMMA HandedGrows ==
    ASSUME LoopOK, Next
    PROVE  /\ \A i \in DOMAIN handed : i \in DOMAIN handed' /\ handed'[i] = handed[i]
           /\ NextRecord => /\ Len(handed) + 1 \in DOMAIN handed'
                            /\ handed'[Len(handed) + 1] = u'
                            /\ \A i \in DOMAIN handed : i < Len(handed) + 1
<1>1. handed \in Seq(Updates) /\ IsSeq(handed)
  BY DEF LoopOK, PcOK, IsSeq
<1>2. CASE NextRecord
  <2>1. handed' = Append(handed, u')
    BY <1>2 DEF NextRecord, Source!Return
  <2>2. /\ Len(handed) \in Nat /\ DOMAIN handed = 1..Len(handed)
        /\ DOMAIN handed' = 1..(Len(handed) + 1)
        /\ \A i \in DOMAIN handed : handed'[i] = handed[i]
        /\ handed'[Len(handed) + 1] = u'
    BY <1>1, <2>1, AppendIsSeq, SeqIs
  <2> QED
    BY <2>2
<1>3. CASE ~NextRecord
  <2>1. handed' = handed
    BY <1>3 DEF Next, Begin, FetchMore, ApplyRecord, SourceEnds, SourceFails, ServeCommand,
           ProcessTick, Finish, Kill, sourceVars, Source!Start, Source!Fetch, Source!Stop
  <2> QED
    BY <1>3, <2>1
<1> QED
  BY <1>2, <1>3

LEMMA InitCap == Init => CapInv
<1> SUFFICES ASSUME Init
             PROVE  CapInv
  OBVIOUS
<1>1. LoopOK
  BY InitLoop
<1>2. /\ pc = "start" /\ have_tick = FALSE /\ ticks = <<>> /\ placed = <<>> /\ handed = <<>>
      /\ opt \in Options /\ cfg.kelly_fraction = opt.kelly_fraction
  BY DEF Init, Source!Init, InitialConfig
<1>3. cfg.kelly_fraction \in Fractions
  BY <1>2 DEF Fractions
<1>4. RunOK
  BY <1>2, <1>3, EmptyIsSeq DEF RunOK
<1>5. OrderOK
  BY <1>2 DEF OrderOK, ExposureCapHolds
<1> QED
  BY <1>1, <1>4, <1>5 DEF CapInv

LEMMA StepRun == ASSUME LoopOK, RunOK, Next PROVE RunOK'
<1>1. CASE Begin
  <2>1. /\ pc' \in {"next", "failed"} /\ source_state' = "streaming"
        /\ pc' = "next" => HeaderMarkets <= MaxMarkets /\ HeaderBooks <= MaxBooks
        /\ UNCHANGED <<handed, cfg, u, have_tick, cur_ts, ticks, placed>>
    BY <1>1 DEF Begin, Source!Start, configVars, historyVars
  <2> QED
    BY <2>1 DEF RunOK
<1>2. CASE FetchMore
  <2>1. UNCHANGED <<pc, source_state, handed, cfg, u, have_tick, cur_ts, ticks, placed>>
    BY <1>2 DEF FetchMore, Source!Fetch, configVars, historyVars
  <2> QED
    BY <2>1 DEF RunOK
<1>3. CASE NextRecord
  <2>1. /\ pc = "next" /\ pc' = (IF TickDue(u') THEN "tick" ELSE "apply")
        /\ UNCHANGED <<source_state, cfg, have_tick, cur_ts, ticks, placed>>
    BY <1>3 DEF NextRecord, Source!Return, configVars, historyVars
  <2>2. /\ \A i \in DOMAIN handed : i \in DOMAIN handed' /\ handed'[i] = handed[i]
        /\ \E i \in DOMAIN handed' : handed'[i] = u'
    BY <1>3, HandedGrows
  <2>3. have_tick => \E i \in DOMAIN handed' : handed'[i].sim_timestamp_ns = cur_ts
    BY <2>2 DEF RunOK
  <2> QED
    BY <2>1, <2>2, <2>3 DEF RunOK, TickDue
<1>4. CASE ApplyRecord
  <2>1. /\ pc = "apply" /\ pc' = "next" /\ have_tick' /\ cur_ts' = u.sim_timestamp_ns
        /\ have_tick' = TRUE
        /\ UNCHANGED <<source_state, handed, cfg, u, ticks, placed>>
    BY <1>4 DEF ApplyRecord, sourceVars, configVars, historyVars
  <2>2. source_state = "streaming"
    BY <2>1 DEF LoopOK, PcOK
  <2>3. \E i \in DOMAIN handed : handed[i].sim_timestamp_ns = u.sim_timestamp_ns
    BY <2>1, <2>2 DEF RunOK
  <2> QED
    BY <2>1, <2>2, <2>3 DEF RunOK
<1>5. CASE SourceEnds
  <2>1. /\ pc = "next" /\ pc' = (IF have_tick THEN "tick" ELSE "finish") /\ source_state' = "ended"
        /\ UNCHANGED <<handed, cfg, u, have_tick, cur_ts, ticks, placed>>
    BY <1>5 DEF SourceEnds, Source!Stop, configVars, historyVars
  <2> QED
    BY <2>1 DEF RunOK
<1>6. CASE SourceFails
  <2>1. pc' = "failed" /\ UNCHANGED <<handed, cfg, u, have_tick, cur_ts, ticks, placed>>
    BY <1>6 DEF SourceFails, Source!Stop, configVars, historyVars
  <2> QED
    BY <2>1 DEF RunOK
<1>7. CASE ServeCommand
  <2>1. UNCHANGED <<pc, source_state, handed, u, have_tick, cur_ts, ticks, placed>>
    BY <1>7 DEF ServeCommand, sourceVars, historyVars
  <2>2. cfg'.kelly_fraction \in Fractions
    <3>1. PICK msg \in Commands : cfg' = ApplyCommand(cfg, msg, opt.hash)
      BY <1>7 DEF ServeCommand
    <3>2. opt.hash \in BOOLEAN /\ cfg \in Configs
      BY OptionFields DEF LoopOK, PcOK, ConfigOK
    <3> QED
      BY <3>1, <3>2, CommandKeepsFraction DEF RunOK
  <2> QED
    BY <2>1, <2>2 DEF RunOK
<1>8. CASE Finish
  <2>1. pc' = "done" /\ UNCHANGED <<source_state, handed, cfg, u, have_tick, cur_ts, ticks, placed>>
    BY <1>8 DEF Finish, sourceVars, configVars, historyVars
  <2> QED
    BY <2>1 DEF RunOK
<1>9. CASE ProcessTick \/ Kill
  <2>1. /\ pc \in {"next", "tick", "apply", "finish"} /\ pc' \in {"finish", "apply", "failed"}
        /\ pc' = "failed" \/ (pc = "tick" /\ (pc' = "apply" => source_state # "ended"))
        /\ UNCHANGED <<source_state, handed, cfg, u, have_tick, cur_ts>>
    BY <1>9 DEF ProcessTick, Kill, sourceVars, configVars
  <2>2. /\ pc' \in {"finish", "apply"} => HeaderMarkets <= MaxMarkets /\ HeaderBooks <= MaxBooks
        /\ cfg'.kelly_fraction \in Fractions
        /\ have_tick' => \E i \in DOMAIN handed' : handed'[i].sim_timestamp_ns = cur_ts'
        /\ source_state' = "streaming" /\ pc' = "apply" => \E i \in DOMAIN handed' : handed'[i] = u'
    BY <2>1 DEF RunOK
  <2>3. CASE UNCHANGED <<ticks, placed>>
    BY <2>1, <2>2, <2>3 DEF RunOK
  <2>4. CASE ~UNCHANGED <<ticks, placed>>
    <3>1. /\ pc = "tick" /\ ticks' = Append(ticks, ThisTick)
          /\ \E n \in 0..Len(TickBets) : placed' = placed \o SubSeq(TickBets, 1, n)
      BY <2>4, BetsGrow DEF RunOK
    <3>2. have_tick /\ have_tick'
      BY <2>1, <3>1 DEF RunOK
    <3>3. /\ IsSeq(ticks') /\ IsSeq(placed')
          /\ \A k \in DOMAIN placed' : \E i \in DOMAIN ticks' : ticks'[i].ts = placed'[k].ts
      BY <3>1, TickKeepsTimes
    <3> QED
      BY <2>1, <2>2, <3>2, <3>3 DEF RunOK
  <2> QED
    BY <2>3, <2>4
<1> QED
  BY <1>1, <1>2, <1>3, <1>4, <1>5, <1>6, <1>7, <1>8, <1>9 DEF Next

LEMMA StepOrder == ASSUME LoopOK, RunOK, OrderOK, Next, LoopOK' PROVE OrderOK'
<1> SUFFICES ASSUME HandedInOrder'
             PROVE  OrderOK'
  BY DEF OrderOK
<1>1. HandedInOrder
  BY HandedGrows DEF HandedInOrder
<1>2. /\ have_tick /\ source_state = "streaming" /\ pc \in {"tick", "apply"} =>
            cur_ts <= u.sim_timestamp_ns
      /\ pc \in {"start", "next", "tick"} => \A i \in DOMAIN ticks : ticks[i].ts < cur_ts
      /\ pc = "apply" => \A i \in DOMAIN ticks : ticks[i].ts < u.sim_timestamp_ns
      /\ \A i \in DOMAIN ticks : ticks[i].ts \in Nat
      /\ ExposureCapHolds
  BY <1>1 DEF OrderOK
<1>3. cur_ts \in Nat /\ u.sim_timestamp_ns \in Nat /\ u'.sim_timestamp_ns \in Nat
  BY SessionIs DEF LoopOK, PcOK
<1>4. CASE UNCHANGED <<ticks, placed>>
  <2>1. ExposureCapHolds'
    BY <1>2, <1>4 DEF ExposureCapHolds, StakeOn, CapsAt
  <2>2. /\ have_tick' /\ source_state' = "streaming" /\ pc' \in {"tick", "apply"} =>
              cur_ts' <= u'.sim_timestamp_ns
        /\ pc' \in {"start", "next", "tick"} => \A i \in DOMAIN ticks : ticks[i].ts < cur_ts'
        /\ pc' = "apply" => \A i \in DOMAIN ticks : ticks[i].ts < u'.sim_timestamp_ns
    <3>1. CASE Begin
      <4>1. pc = "start" /\ pc' \in {"next", "failed"} /\ UNCHANGED cur_ts
        BY <3>1, <1>2 DEF Begin, LoopOK, PcOK
      <4> QED
        BY <1>2, <4>1
    <3>2. CASE FetchMore \/ ServeCommand
      <4>1. UNCHANGED <<pc, source_state, u, have_tick, cur_ts>>
        BY <3>2 DEF FetchMore, ServeCommand, Source!Fetch, sourceVars
      <4> QED
        BY <1>2, <4>1
    <3>3. CASE NextRecord
      <4>1. /\ pc = "next" /\ pc' = (IF TickDue(u') THEN "tick" ELSE "apply")
            /\ UNCHANGED <<source_state, have_tick, cur_ts>>
        BY <3>3 DEF NextRecord, Source!Return
      <4>2. have_tick => cur_ts <= u'.sim_timestamp_ns
        <5> SUFFICES ASSUME have_tick
                     PROVE  cur_ts <= u'.sim_timestamp_ns
          OBVIOUS
        <5>1. PICK i \in DOMAIN handed : handed[i].sim_timestamp_ns = cur_ts
          BY DEF RunOK
        <5>2. /\ i \in DOMAIN handed' /\ handed'[i] = handed[i]
              /\ Len(handed) + 1 \in DOMAIN handed' /\ handed'[Len(handed) + 1] = u'
              /\ i < Len(handed) + 1
          BY <3>3, HandedGrows
        <5> QED
          BY <5>1, <5>2 DEF HandedInOrder
      <4>3. ~have_tick => ticks = <<>>
        BY DEF RunOK
      <4>4. pc' = "apply" => \A i \in DOMAIN ticks : ticks[i].ts < u'.sim_timestamp_ns
        BY <1>2, <4>1, <4>3 DEF TickDue
      <4> QED
        BY <1>2, <4>1, <4>2, <4>4
    <3>4. CASE ApplyRecord
      <4>1. pc = "apply" /\ pc' = "next" /\ cur_ts' = u.sim_timestamp_ns
        BY <3>4 DEF ApplyRecord
      <4> QED
        BY <1>2, <4>1
    <3>5. CASE SourceEnds
      <4>1. pc = "next" /\ pc' \in {"tick", "finish"} /\ source_state' = "ended" /\ UNCHANGED cur_ts
        BY <3>5 DEF SourceEnds
      <4> QED
        BY <1>2, <4>1
    <3>6. CASE SourceFails \/ Finish \/ Kill
      <4>1. pc' \in {"failed", "done"}
        BY <3>6 DEF SourceFails, Finish, Kill
      <4> QED
        BY <4>1
    <3>7. CASE ProcessTick
      <4>1. ticks' = Append(ticks, ThisTick)
        BY <3>7 DEF ProcessTick
      <4>2. Len(ticks') = Len(ticks) + 1 /\ Len(ticks) \in Nat
        BY <4>1, AppendIsSeq, SeqIs DEF RunOK
      <4> QED
        BY <1>4, <4>2
    <3> QED
      BY <3>1, <3>2, <3>3, <3>4, <3>5, <3>6, <3>7 DEF Next
  <2> QED
    BY <1>2, <1>4, <2>1, <2>2 DEF OrderOK
<1>5. CASE ~UNCHANGED <<ticks, placed>>
  <2>1. /\ pc = "tick" /\ ticks' = Append(ticks, ThisTick)
        /\ \E n \in 0..Len(TickBets) : placed' = placed \o SubSeq(TickBets, 1, n)
        /\ pc' \in {"finish", "apply", "failed"}
        /\ pc' = "apply" => source_state # "ended"
        /\ UNCHANGED <<source_state, handed, u, have_tick, cur_ts>>
    BY <1>5, BetsGrow DEF RunOK
  <2>2. \A i \in DOMAIN ticks : ticks[i].ts < cur_ts /\ ticks[i].ts # cur_ts
    BY <1>2, <1>3, <2>1
  <2>3. ExposureCapHolds'
    BY <1>2, <2>1, <2>2, TickKeepsCap
  <2>4. pc' = "apply" => cur_ts < u.sim_timestamp_ns
    <3> SUFFICES ASSUME pc' = "apply"
                 PROVE  cur_ts < u.sim_timestamp_ns
      OBVIOUS
    <3>1. source_state = "streaming"
      BY <2>1 DEF LoopOK, PcOK
    <3>2. have_tick /\ u.sim_timestamp_ns # cur_ts
      BY <2>1, <3>1 DEF RunOK
    <3> QED
      BY <1>2, <1>3, <2>1, <3>1, <3>2
  <2>5. /\ DOMAIN ticks' = 1..(Len(ticks) + 1) /\ DOMAIN ticks = 1..Len(ticks) /\ Len(ticks) \in Nat
        /\ \A i \in DOMAIN ticks : ticks'[i] = ticks[i]
        /\ ticks'[Len(ticks) + 1] = ThisTick
    BY <2>1, AppendIsSeq, SeqIs DEF RunOK
  <2>6. \A i \in DOMAIN ticks' : i \in DOMAIN ticks \/ i = Len(ticks) + 1
    BY <2>5
  <2>7. ThisTick.ts = cur_ts
    BY DEF ThisTick
  <2>8. \A i \in DOMAIN ticks' : ticks'[i].ts \in Nat /\ ticks'[i].ts <= cur_ts
    BY <1>2, <1>3, <2>2, <2>5, <2>6, <2>7
  <2>9. pc' = "apply" => \A i \in DOMAIN ticks' : ticks'[i].ts < u'.sim_timestamp_ns
    BY <1>3, <2>1, <2>4, <2>8
  <2>10. pc' = "apply" => cur_ts' <= u'.sim_timestamp_ns
    BY <1>3, <2>1, <2>4
  <2> QED
    BY <2>1, <2>3, <2>8, <2>9, <2>10 DEF OrderOK
<1> QED
  BY <1>4, <1>5

LEMMA StepCap == ASSUME CapInv, [Next]_vars PROVE CapInv'
<1>1. CASE Next
  BY <1>1, StepLoop, StepRun, StepOrder DEF CapInv
<1>2. CASE UNCHANGED vars
  <2>1. LoopOK'
    BY <1>2, StepLoop DEF CapInv
  <2>2. UNCHANGED <<pc, source_state, handed, cfg, u, have_tick, cur_ts, ticks, placed>>
    BY <1>2 DEF vars, sourceVars, configVars, historyVars
  <2>3. RunOK'
    BY <2>2 DEF CapInv, RunOK
  <2>4. OrderOK'
    BY <2>2 DEF CapInv, OrderOK, HandedInOrder, ExposureCapHolds, StakeOn, CapsAt
  <2> QED
    BY <2>1, <2>3, <2>4 DEF CapInv
<1> QED
  BY <1>1, <1>2

\* Timestamps that never step back keep the exposure cap (--max-exposure), on a
\* file or a feed, under any messages and wherever the run stops: the bets on a
\* market at a tick stay, in total, within the cap in force at that tick.
THEOREM OrderedFeedKeepsCapHolds == Spec => []OrderedFeedKeepsCap
<1>1. CapInv => OrderedFeedKeepsCap
  BY DEF CapInv, OrderOK, OrderedFeedKeepsCap
<1> QED
  BY <1>1, InitCap, StepCap, PTL DEF Spec
=============================================================================
