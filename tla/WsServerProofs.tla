----------------------------- MODULE WsServerProofs -----------------------------
(***************************************************************************)
(* What the dashboard server guarantees for every number of browsers,      *)
(* scripts, backlog, request limit and socket size.                        *)
(***************************************************************************)
EXTENDS WsServer, BasicFacts, FiniteSetTheorems

LEMMA SizeIs ==
    /\ \A kind : Size(kind) \in Nat \ {0}
    /\ \A kind \in {"101", "ack", "pong", "push"} : Size(kind) = 1
    /\ Size("page") = 2
BY ServerConstants DEF Size

(***************************************************************************)
(* Messages, the units they are cut in, and the records of connections.    *)
(***************************************************************************)
Kinds == Requests \union Frames \union {"101", "page", "ack", "pong", "push"}
Messages == [kind : Kinds, n : Nat, ver : Nat]
Units == {u \in [msg : Messages, part : Nat] : u.part \in 1..Size(u.msg.kind)}
Cut == [m \in Messages |-> UnitsOf(m)]

LEMMA UnitsOfIs ==
    ASSUME NEW m \in Messages
    PROVE  /\ UnitsOf(m) \in Seq(Units) /\ Len(UnitsOf(m)) = Size(m.kind)
           /\ \A k \in 1..Size(m.kind) : UnitsOf(m)[k] = [msg |-> m, part |-> k]
<1>1. Size(m.kind) \in Nat
  BY SizeIs
<1> DEFINE n == Size(m.kind)
<1>2. \A k \in 1..n : [msg |-> m, part |-> k] \in Units
  BY <1>1 DEF Units
<1> HIDE DEF n
<1>3. n \in Nat
  BY <1>1 DEF n
<1>4. UnitsOf(m) = [k \in 1..n |-> [msg |-> m, part |-> k]]
  BY DEF UnitsOf, n
<1>5. /\ [k \in 1..n |-> [msg |-> m, part |-> k]] \in Seq(Units)
      /\ Len([k \in 1..n |-> [msg |-> m, part |-> k]]) = n
  BY <1>2, <1>3
<1> QED
  BY <1>4, <1>5 DEF n

LEMMA CutIs == Cut \in [Messages -> Seq(Units)]
BY UnitsOfIs DEF Cut

LEMMA UnitsOfAllIs == \A s \in Seq(Messages) : UnitsOfAll(s) = FlatMap(Cut, s)
<1> SUFFICES ASSUME NEW s \in Seq(Messages)
             PROVE  UnitsOfAll(s) = FlatMap(Cut, s)
  OBVIOUS
<1>1. \A i \in DOMAIN s : s[i] \in Messages
  OBVIOUS
<1>2. [i \in DOMAIN s |-> UnitsOf(s[i])] = [i \in DOMAIN s |-> Cut[s[i]]]
  BY <1>1 DEF Cut
<1> QED
  BY <1>2 DEF UnitsOfAll, FlatMap, Mapped

LEMMA UnitsOfAllFacts ==
    /\ UnitsOfAll(<<>>) = <<>>
    /\ \A s \in Seq(Messages) : UnitsOfAll(s) \in Seq(Units)
    /\ \A s \in Seq(Messages), m \in Messages :
          UnitsOfAll(Append(s, m)) = UnitsOfAll(s) \o UnitsOf(m)
    /\ \A s, t \in Seq(Messages) : UnitsOfAll(s \o t) = UnitsOfAll(s) \o UnitsOfAll(t)
<1>1. UnitsOfAll(<<>>) = <<>>
  <2>1. <<>> \in Seq(Messages)
    BY EmptySeq
  <2> QED
    BY <2>1, UnitsOfAllIs, FlatMapEmpty
<1>2. \A s \in Seq(Messages) : UnitsOfAll(s) \in Seq(Units)
  BY CutIs, UnitsOfAllIs, FlatMapType
<1>3. ASSUME NEW s \in Seq(Messages), NEW m \in Messages
      PROVE  UnitsOfAll(Append(s, m)) = UnitsOfAll(s) \o UnitsOf(m)
  <2>1. FlatMap(Cut, Append(s, m)) = FlatMap(Cut, s) \o Cut[m]
    BY CutIs, FlatMapAppend
  <2>2. Append(s, m) \in Seq(Messages) /\ Cut[m] = UnitsOf(m)
    BY DEF Cut
  <2> QED
    BY <2>1, <2>2, UnitsOfAllIs
<1>4. ASSUME NEW s \in Seq(Messages), NEW t \in Seq(Messages)
      PROVE  UnitsOfAll(s \o t) = UnitsOfAll(s) \o UnitsOfAll(t)
  <2>1. FlatMap(Cut, s \o t) = FlatMap(Cut, s) \o FlatMap(Cut, t)
    BY CutIs, FlatMapConcat
  <2>2. s \o t \in Seq(Messages)
    BY ConcatProperties
  <2> QED
    BY <2>1, <2>2, UnitsOfAllIs
<1> QED
  BY <1>1, <1>2, <1>3, <1>4

(***************************************************************************)
(* The elements of a sequence that are good.                               *)
(***************************************************************************)
Cell(e, good) == IF e \in good THEN <<e>> ELSE <<>>
Cells(S, good) == [e \in S |-> Cell(e, good)]

LEMMA CellsAre ==
    ASSUME NEW S, NEW good
    PROVE  Cells(S, good) \in [S -> Seq(S)]
BY DEF Cells, Cell

LEMMA AmongIs ==
    ASSUME NEW S, NEW s \in Seq(S), NEW good
    PROVE  Among(s, good) = FlatMap(Cells(S, good), s)
<1>1. \A i \in DOMAIN s : s[i] \in S
  OBVIOUS
<1>2. [i \in DOMAIN s |-> IF s[i] \in good THEN <<s[i]>> ELSE <<>>]
        = [i \in DOMAIN s |-> Cells(S, good)[s[i]]]
  BY <1>1 DEF Cells, Cell
<1> QED
  BY <1>2 DEF Among, FlatMap, Mapped

LEMMA AmongAppend ==
    ASSUME NEW S, NEW s \in Seq(S), NEW e \in S, NEW good
    PROVE  Among(Append(s, e), good) = Among(s, good) \o Cell(e, good)
<1> DEFINE F == Cells(S, good)
<1>1. F \in [S -> Seq(S)]
  BY CellsAre
<1>2. F[e] = Cell(e, good)
  BY DEF Cells
<1>3. Append(s, e) \in Seq(S)
  BY AppendIs
<1>4. Among(s, good) = FlatMap(F, s)
  BY AmongIs
<1>5. Among(Append(s, e), good) = FlatMap(F, Append(s, e))
  BY <1>3, AmongIs
<1> HIDE DEF F
<1>6. FlatMap(F, Append(s, e)) = FlatMap(F, s) \o F[e]
  BY <1>1, FlatMapAppend
<1> QED
  BY <1>2, <1>4, <1>5, <1>6

LEMMA AmongEmpty == \A good : Among(<<>>, good) = <<>>
<1> SUFFICES ASSUME NEW good
             PROVE  Among(<<>>, good) = <<>>
  OBVIOUS
<1>1. <<>> \in Seq({})
  BY EmptySeq
<1> QED
  BY <1>1, AmongIs, FlatMapEmpty

LEMMA AmongType ==
    ASSUME NEW S, NEW s \in Seq(S), NEW good
    PROVE  Among(s, good) \in Seq(S)
<1> DEFINE F == Cells(S, good)
<1>1. F \in [S -> Seq(S)]
  BY CellsAre
<1>2. Among(s, good) = FlatMap(F, s)
  BY AmongIs
<1> HIDE DEF F
<1>3. FlatMap(F, s) \in Seq(S)
  BY <1>1, FlatMapType
<1> QED
  BY <1>2, <1>3

LEMMA AmongConcat ==
    ASSUME NEW S, NEW s \in Seq(S), NEW t \in Seq(S), NEW good
    PROVE  Among(s \o t, good) = Among(s, good) \o Among(t, good)
<1> DEFINE F == Cells(S, good)
<1>1. F \in [S -> Seq(S)]
  BY CellsAre
<1>2. s \o t \in Seq(S)
  BY ConcatProperties
<1>3. Among(s, good) = FlatMap(F, s)
  BY AmongIs
<1>4. Among(t, good) = FlatMap(F, t)
  BY AmongIs
<1>5. Among(s \o t, good) = FlatMap(F, s \o t)
  BY <1>2, AmongIs
<1> HIDE DEF F
<1>6. FlatMap(F, s \o t) = FlatMap(F, s) \o FlatMap(F, t)
  BY <1>1, FlatMapConcat, SMTT(30)
<1> QED
  BY <1>3, <1>4, <1>5, <1>6

\* The good elements, each as often and in the order it has.
LEMMA AmongKeeps ==
    ASSUME NEW S, NEW good
    PROVE  \A s \in Seq(S) :
              /\ ToSet(Among(s, good)) = ToSet(s) \cap good
              /\ (\A i, j \in 1..Len(s) : i # j => s[i] # s[j]) =>
                    \A i, j \in 1..Len(Among(s, good)) :
                       i # j => Among(s, good)[i] # Among(s, good)[j]
              /\ Len(Among(s, good)) <= Len(s)
<1> DEFINE Apart(t) == \A i, j \in 1..Len(t) : i # j => t[i] # t[j]
           Good(s) == /\ ToSet(Among(s, good)) = ToSet(s) \cap good
                      /\ Apart(s) => Apart(Among(s, good))
                      /\ Len(Among(s, good)) <= Len(s)
           H == {s \in Seq(S) : Good(s)}
<1>1. <<>> \in H
  <2>1. ToSet(<<>>) = {} /\ Len(<<>>) = 0
    BY DEF ToSet
  <2> QED
    BY <2>1, AmongEmpty
<1>2. ASSUME NEW s \in Seq(S), NEW e \in S, s \in H
      PROVE  Append(s, e) \in H
  <2> DEFINE t == Among(s, good)
             both == Append(s, e)
  <2>0. t \in Seq(S) /\ both \in Seq(S) /\ Len(both) = Len(s) + 1
    BY AmongType
  <2>1. /\ ToSet(both) = ToSet(s) \union {e}
        /\ Apart(both) => Apart(s) /\ e \notin ToSet(s)
    <3>1. \A i \in 1..(Len(s) + 1) : both[i] = IF i = Len(s) + 1 THEN e ELSE s[i]
      OBVIOUS
    <3>2. DOMAIN both = 1..(Len(s) + 1) /\ DOMAIN s = 1..Len(s) /\ Len(s) \in Nat
      OBVIOUS
    <3> HIDE DEF both
    <3>3. ToSet(both) = ToSet(s) \union {e}
      <4>1. \A x \in ToSet(both) : x \in ToSet(s) \union {e}
        BY <3>1, <3>2 DEF ToSet
      <4>2. \A x \in ToSet(s) : x \in ToSet(both)
        <5> SUFFICES ASSUME NEW i \in 1..Len(s)
                     PROVE  s[i] \in ToSet(both)
          BY <3>2 DEF ToSet
        <5>1. i \in 1..(Len(s) + 1) /\ i # Len(s) + 1
          BY <3>2
        <5> QED
          BY <3>1, <3>2, <5>1 DEF ToSet
      <4>3. e \in ToSet(both)
        <5>1. Len(s) + 1 \in 1..(Len(s) + 1)
          BY <3>2
        <5> QED
          BY <3>1, <3>2, <5>1 DEF ToSet
      <4> QED
        BY <4>1, <4>2, <4>3
    <3>4. ASSUME Apart(both)
          PROVE  Apart(s) /\ e \notin ToSet(s)
      <4>1. \A i \in 1..Len(s) : /\ i \in 1..Len(both) /\ i # Len(s) + 1
                                 /\ both[i] = s[i]
        BY <2>0, <3>1, <3>2
      <4>2. Len(s) + 1 \in 1..Len(both) /\ both[Len(s) + 1] = e
        BY <2>0, <3>1, <3>2
      <4>3. Apart(s)
        BY <3>4, <4>1
      <4>4. \A i \in 1..Len(s) : s[i] # e
        BY <3>4, <4>1, <4>2
      <4> QED
        BY <3>2, <4>3, <4>4 DEF ToSet
    <3> QED
      BY <3>3, <3>4
  <2>2. Among(both, good) = t \o Cell(e, good)
    BY AmongAppend
  <2>3. CASE e \in good
    <3>1. Among(both, good) = Append(t, e)
      <4>1. Cell(e, good) = <<e>>
        BY <2>3 DEF Cell
      <4> QED
        BY <2>0, <2>2, <4>1
    <3>2. /\ \A i \in 1..(Len(t) + 1) : Append(t, e)[i] = IF i = Len(t) + 1 THEN e ELSE t[i]
          /\ DOMAIN Append(t, e) = 1..(Len(t) + 1) /\ Len(Append(t, e)) = Len(t) + 1
          /\ DOMAIN t = 1..Len(t) /\ Len(t) \in Nat
      BY <2>0
    <3> HIDE DEF t, both
    <3>3. ToSet(Append(t, e)) = ToSet(t) \union {e}
      <4>1. \A x \in ToSet(Append(t, e)) : x \in ToSet(t) \union {e}
        BY <3>2 DEF ToSet
      <4>2. \A x \in ToSet(t) : x \in ToSet(Append(t, e))
        <5> SUFFICES ASSUME NEW i \in 1..Len(t)
                     PROVE  t[i] \in ToSet(Append(t, e))
          BY <3>2 DEF ToSet
        <5>1. i \in 1..(Len(t) + 1) /\ i # Len(t) + 1
          BY <3>2
        <5> QED
          BY <3>2, <5>1 DEF ToSet
      <4>3. e \in ToSet(Append(t, e))
        <5>1. Len(t) + 1 \in 1..(Len(t) + 1)
          BY <3>2
        <5> QED
          BY <3>2, <5>1 DEF ToSet
      <4> QED
        BY <4>1, <4>2, <4>3
    <3>4. ToSet(t) = ToSet(s) \cap good /\ (Apart(s) => Apart(t)) /\ Len(t) <= Len(s)
      BY <1>2 DEF t
    <3>5. ToSet(Append(t, e)) = ToSet(both) \cap good
      BY <2>1, <2>3, <3>3, <3>4
    <3>6. ASSUME Apart(both)
          PROVE  Apart(Append(t, e))
      <4>1. Apart(t) /\ e \notin ToSet(t)
        BY <2>1, <3>4, <3>6
      <4>2. \A i \in 1..Len(t) : t[i] # e
        BY <3>2, <4>1 DEF ToSet
      <4> QED
        BY <3>2, <4>1, <4>2
    <3>7. Len(Append(t, e)) <= Len(both)
      <4>1. Len(s) \in Nat
        OBVIOUS
      <4> QED
        BY <2>0, <3>2, <3>4, <4>1
    <3>8. Good(both)
      BY <3>1, <3>5, <3>6, <3>7
    <3> HIDE DEF Good
    <3> QED
      BY <2>0, <3>8 DEF both
  <2>4. CASE e \notin good
    <3>1. Among(both, good) = t
      <4>1. Cell(e, good) = <<>>
        BY <2>4 DEF Cell
      <4> QED
        BY <2>0, <2>2, <4>1
    <3> HIDE DEF t, both
    <3>2. ToSet(t) = ToSet(s) \cap good /\ (Apart(s) => Apart(t)) /\ Len(t) <= Len(s)
      BY <1>2 DEF t
    <3>3. ToSet(t) = ToSet(both) \cap good
      BY <2>1, <2>4, <3>2
    <3>4. Apart(both) => Apart(t)
      BY <2>1, <3>2
    <3>5. Len(t) <= Len(both)
      <4>1. Len(s) \in Nat /\ Len(t) \in Nat
        BY <2>0
      <4> QED
        BY <2>0, <3>2, <4>1
    <3>6. Good(both)
      BY <3>1, <3>3, <3>4, <3>5
    <3> HIDE DEF Good
    <3> QED
      BY <2>0, <3>6 DEF both
  <2> QED
    BY <2>3, <2>4
<1> HIDE DEF H
<1>3. \A s \in Seq(S) : s \in H
  BY <1>1, <1>2, BySeqInduction
<1> QED
  BY <1>3 DEF H

(***************************************************************************)
(* What the steps of the server do to a connection's record.               *)
(***************************************************************************)
Records ==
    [written : Nat, up : Seq(Units), down : Seq(Units), got : Seq(Units),
     ended : {"no", "fin", "reset"}, fd : Nat, open : BOOLEAN, dead : BOOLEAN,
     serve_only : BOOLEAN, closed : BOOLEAN, in : Seq(Units), out : Seq(Units),
     queued : Seq(Messages)]

Limit == Max({max_backlog, Size("page")})
Fitting(r) == Len(r.down) <= SocketBuffer /\ Len(r.out) <= Limit
Whole(r) == r.got \o r.down \o r.out = UnitsOfAll(r.queued)

\* What flush() leaves alone.
Aside(r, q) ==
    /\ q.written = r.written /\ q.up = r.up /\ q.in = r.in /\ q.ended = r.ended
    /\ q.fd = r.fd /\ q.open = r.open /\ q.queued = r.queued /\ (r.dead => q.dead)

\* Something is queued that acknowledges no command, or nothing.
Adds(r, q) ==
    \E more \in Seq(Messages) :
        q.queued = r.queued \o more /\ \A i \in DOMAIN more : more[i].kind # "ack"

LEMMA LimitIs == Limit \in Nat /\ max_backlog <= Limit /\ 2 <= Limit
BY SizeIs, ServerConstants, MaxOfTwo DEF Limit

LEMMA FlushedKeeps ==
    ASSUME NEW r \in Records, Fitting(r)
    PROVE  /\ Flushed(r) \in Records /\ Fitting(Flushed(r))
           /\ Aside(r, Flushed(r))
           /\ Whole(r) => Whole(Flushed(r))
<1>1. CASE r.out # <<>> /\ r.ended = "reset"
  <2>1. Flushed(r) = [r EXCEPT !.dead = TRUE]
    BY <1>1 DEF Flushed
  <2> QED
    BY <2>1 DEF Records, Fitting, Whole, Aside
<1>2. CASE ~(r.out # <<>> /\ r.ended = "reset")
  <2> DEFINE n == Room(r)
             q == Flushed(r)
  <2>1. /\ r.out \in Seq(Units) /\ r.down \in Seq(Units) /\ r.got \in Seq(Units)
        /\ Len(r.out) \in Nat /\ Len(r.down) \in Nat
    BY DEF Records
  <2>2. n \in 0..Len(r.out) /\ Len(r.down) + n <= SocketBuffer
    <3> DEFINE x == SocketBuffer - Len(r.down)
               y == Len(r.out)
    <3>1. x \in Nat /\ y \in Nat /\ Len(r.down) + x = SocketBuffer
      BY <2>1, ServerConstants DEF Fitting
    <3>2. n = Min({x, y})
      BY DEF Room
    <3>3. n = IF x <= y THEN x ELSE y
      BY <3>1, <3>2, MinOfTwo
    <3> HIDE DEF x, y, n
    <3>4. n \in 0..y /\ n <= x /\ n \in Nat
      BY <3>1, <3>3
    <3> QED
      BY <2>1, <3>1, <3>4 DEF y
  <2>3. /\ Taken(r) \in Seq(Units) /\ Len(Taken(r)) = n
        /\ Left(r) \in Seq(Units) /\ Len(Left(r)) = Len(r.out) - n
        /\ Taken(r) \o Left(r) = r.out
    BY <2>1, <2>2, SplitAt DEF Taken, Left
  <2>4. q = [r EXCEPT !.out = Left(r), !.down = @ \o Taken(r),
                      !.dead = @ \/ (Left(r) = <<>> /\ r.serve_only)]
    BY <1>2 DEF Flushed
  <2> HIDE DEF n, q
  <2>5. /\ r.down \o Taken(r) \in Seq(Units)
        /\ Len(r.down \o Taken(r)) = Len(r.down) + n
    BY <2>1, <2>3, ConcatProperties
  <2>6. q \in Records /\ Aside(r, q)
    BY <2>3, <2>4, <2>5 DEF Records, Aside
  <2>7. q.out = Left(r) /\ q.down = r.down \o Taken(r) /\ q.got = r.got /\ q.queued = r.queued
    BY <2>4 DEF Records
  <2>8. Fitting(q)
    <3>1. n \in Nat
      BY <2>1, <2>2
    <3> QED
      BY <2>1, <2>2, <2>3, <2>5, <2>7, <3>1, LimitIs DEF Fitting
  <2>9. Whole(r) => Whole(q)
    <3> DEFINE a == r.got
               b == r.down
               c == Taken(r)
               d == Left(r)
    <3>1. a \in Seq(Units) /\ b \in Seq(Units) /\ c \in Seq(Units) /\ d \in Seq(Units)
      BY <2>1, <2>3
    <3>2. /\ c \o d = r.out /\ q.out = d /\ q.down = b \o c /\ q.got = a
          /\ q.queued = r.queued
      BY <2>3, <2>7
    <3>3. Whole(q) <=> a \o (b \o c) \o d = UnitsOfAll(r.queued)
      BY <3>2 DEF Whole
    <3>4. Whole(r) <=> a \o b \o (c \o d) = UnitsOfAll(r.queued)
      BY <3>2 DEF Whole
    <3> HIDE DEF a, b, c, d
    <3>5. a \o (b \o c) \o d = (a \o b) \o (c \o d)
      BY <3>1, Regrouped, SMTT(60)
    <3> QED
      BY <3>3, <3>4, <3>5
  <2> QED
    BY <2>6, <2>8, <2>9 DEF q
<1> QED
  BY <1>1, <1>2

LEMMA PutKeeps ==
    ASSUME NEW r \in Records, NEW m \in Messages
    PROVE  /\ Put(r, m) \in Records
           /\ Put(r, m).queued = Append(r.queued, m)
           /\ Aside(r, [Put(r, m) EXCEPT !.queued = r.queued])
           /\ Len(Put(r, m).out) = Len(r.out) + Size(m.kind)
           /\ Put(r, m).down = r.down
           /\ Whole(r) => Whole(Put(r, m))
<1> DEFINE q == Put(r, m)
<1>1. /\ r.out \in Seq(Units) /\ r.down \in Seq(Units) /\ r.got \in Seq(Units)
      /\ r.queued \in Seq(Messages)
  BY DEF Records
<1>2. UnitsOf(m) \in Seq(Units) /\ Len(UnitsOf(m)) = Size(m.kind)
  BY UnitsOfIs
<1>3. /\ r.out \o UnitsOf(m) \in Seq(Units)
      /\ Len(r.out \o UnitsOf(m)) = Len(r.out) + Size(m.kind)
  <2> DEFINE s == r.out
             t == UnitsOf(m)
  <2>1. s \in Seq(Units) /\ t \in Seq(Units) /\ Len(t) = Size(m.kind)
    BY <1>1, <1>2
  <2> HIDE DEF s, t
  <2>2. s \o t \in Seq(Units) /\ Len(s \o t) = Len(s) + Size(m.kind)
    BY <2>1, ConcatProperties
  <2> QED
    BY <2>2 DEF s, t
<1>4. Append(r.queued, m) \in Seq(Messages)
  BY <1>1, AppendIs
<1>5. /\ q.out = r.out \o UnitsOf(m) /\ q.queued = Append(r.queued, m)
      /\ q.down = r.down /\ q.got = r.got
  BY DEF Put, Records
<1>6. q \in Records /\ Aside(r, [q EXCEPT !.queued = r.queued])
  BY <1>3, <1>4 DEF Put, Records, Aside
<1>7. Whole(r) => Whole(q)
  <2>1. UnitsOfAll(Append(r.queued, m)) = UnitsOfAll(r.queued) \o UnitsOf(m)
    BY <1>1, UnitsOfAllFacts
  <2> DEFINE a == r.got
             b == r.down
             c == r.out
             d == UnitsOf(m)
  <2>2. a \in Seq(Units) /\ b \in Seq(Units) /\ c \in Seq(Units) /\ d \in Seq(Units)
    BY <1>1, <1>2
  <2>3. Whole(q) <=> a \o b \o (c \o d) = UnitsOfAll(Append(r.queued, m))
    BY <1>5 DEF Whole
  <2>4. Whole(r) <=> a \o b \o c = UnitsOfAll(r.queued)
    BY DEF Whole
  <2>5. d = UnitsOf(m)
    OBVIOUS
  <2> HIDE DEF a, b, c, d, q
  <2>6. ((a \o b) \o c) \o d = (a \o b) \o (c \o d)
    <3>1. a \o b \in Seq(Units)
      BY <2>2, ConcatProperties
    <3> QED
      BY <2>2, <3>1, ConcatAssociative, SMTT(30)
  <2> QED
    BY <2>1, <2>3, <2>4, <2>5, <2>6
<1> QED
  BY <1>3, <1>5, <1>6, <1>7

\* Messages of one unit each.
Short == {m \in Messages : Size(m.kind) = 1}

LEMMA ShortOnes == \A s \in Seq(Short) : Len(UnitsOfAll(s)) = Len(s)
<1> DEFINE H == {s \in Seq(Short) : Len(UnitsOfAll(s)) = Len(s)}
<1>1. <<>> \in H
  <2>1. <<>> \in Seq(Short)
    BY EmptySeq
  <2> QED
    BY <2>1, UnitsOfAllFacts
<1>2. ASSUME NEW s \in Seq(Short), NEW m \in Short, s \in H
      PROVE  Append(s, m) \in H
  <2>1. s \in Seq(Messages) /\ m \in Messages /\ Size(m.kind) = 1
    BY DEF Short
  <2>2. UnitsOfAll(Append(s, m)) = UnitsOfAll(s) \o UnitsOf(m)
    BY <2>1, UnitsOfAllFacts
  <2>3. UnitsOfAll(s) \in Seq(Units) /\ UnitsOf(m) \in Seq(Units) /\ Len(UnitsOf(m)) = 1
    BY <2>1, UnitsOfAllFacts, UnitsOfIs
  <2> DEFINE a == UnitsOfAll(s)
             b == UnitsOf(m)
  <2>4. Len(a \o b) = Len(a) + 1
    <3>1. a \in Seq(Units) /\ b \in Seq(Units) /\ Len(b) = 1
      BY <2>3
    <3> HIDE DEF a, b
    <3>2. Len(a \o b) = Len(a) + Len(b)
      BY <3>1, ConcatProperties
    <3> QED
      BY <3>1, <3>2
  <2>5. Append(s, m) \in Seq(Short) /\ Len(Append(s, m)) = Len(s) + 1
    BY AppendIs
  <2>6. Len(UnitsOfAll(s)) = Len(s)
    BY <1>2
  <2> QED
    BY <2>2, <2>4, <2>5, <2>6
<1> HIDE DEF H
<1>3. \A s \in Seq(Short) : s \in H
  BY <1>1, <1>2, BySeqInduction
<1> QED
  BY <1>3 DEF H

\* The messages of one kind that end among the units.
Ending(kind) ==
    [u \in Units |-> IF EndsMessage(u) /\ u.msg.kind = kind THEN <<u.msg>> ELSE <<>>]

LEMMA EndingIs == \A kind : Ending(kind) \in [Units -> Seq(Messages)]
<1> SUFFICES ASSUME NEW kind
             PROVE  Ending(kind) \in [Units -> Seq(Messages)]
  OBVIOUS
<1>1. \A u \in Units : u.msg \in Messages
  BY DEF Units
<1> QED
  BY <1>1 DEF Ending

LEMMA WholeOfIs ==
    ASSUME NEW s \in Seq(Units), NEW kind
    PROVE  WholeOf(s, kind) = FlatMap(Ending(kind), s)
<1>1. \A i \in DOMAIN s : s[i] \in Units
  OBVIOUS
<1>2. [i \in DOMAIN s |->
          IF EndsMessage(s[i]) /\ s[i].msg.kind = kind THEN <<s[i].msg>> ELSE <<>>]
        = [i \in DOMAIN s |-> Ending(kind)[s[i]]]
  BY <1>1 DEF Ending
<1> QED
  BY <1>2 DEF WholeOf, FlatMap, Mapped

LEMMA WholeOfType ==
    ASSUME NEW s \in Seq(Units), NEW kind
    PROVE  WholeOf(s, kind) \in Seq(Messages)
BY EndingIs, WholeOfIs, FlatMapType

LEMMA UpToFatalIs ==
    ASSUME NEW units \in Seq(Units)
    PROVE  \E n \in 0..Len(units) :
              /\ UpToFatal(units) = SubSeq(units, 1, n)
              /\ UpToFatal(units) = units => n = Len(units)
<1> DEFINE fatal == {j \in DOMAIN units : units[j].msg.kind \in Fatal}
<1>1. Len(units) \in Nat /\ DOMAIN units = 1..Len(units)
  OBVIOUS
<1>2. CASE fatal = {}
  <2>1. UpToFatal(units) = units
    BY <1>2 DEF UpToFatal
  <2> DEFINE k == Len(units)
  <2>2. SubSeq(units, 1, k) = units
    BY SubSeqFull
  <2>3. k \in 0..Len(units)
    BY <1>1
  <2> QED
    BY <2>1, <2>2, <2>3, Zenon
<1>3. CASE fatal # {}
  <2> DEFINE n == Min(fatal)
  <2>1. fatal \in SUBSET Nat /\ \A j \in fatal : j \in 1..Len(units)
    BY <1>1
  <2>2. UpToFatal(units) = SubSeq(units, 1, n - 1)
    BY <1>3 DEF UpToFatal
  <2>3. n \in fatal
    <3> HIDE DEF fatal
    <3> QED
      BY <1>3, <2>1, MinIs
  <2> HIDE DEF fatal, n
  <2>4. n \in 1..Len(units) /\ n - 1 \in 0..Len(units)
    BY <1>1, <2>1, <2>3
  <2>5. Len(SubSeq(units, 1, n - 1)) = n - 1
    BY <2>4, SplitAt
  <2>6. UpToFatal(units) = units => n - 1 = Len(units)
    BY <2>2, <2>5
  <2> DEFINE k == n - 1
  <2>7. k \in 0..Len(units)
    BY <2>4
  <2>8. /\ UpToFatal(units) = SubSeq(units, 1, k)
        /\ UpToFatal(units) = units => k = Len(units)
    BY <2>2, <2>6
  <2> HIDE DEF k
  <2> QED
    BY <2>7, <2>8, Zenon
<1> QED
  BY <1>2, <1>3

LEMMA UndecodedIs ==
    ASSUME NEW units \in Seq(Units)
    PROVE  \E e \in 0..Len(units) :
              /\ Undecoded(units) = SubSeq(units, e + 1, Len(units))
              /\ \A j \in (e + 1)..Len(units) : ~EndsMessage(units[j])
<1> DEFINE ends == {j \in DOMAIN units : EndsMessage(units[j])}
           all == {0} \union ends
           e == Max(all)
<1>1. Len(units) \in Nat /\ DOMAIN units = 1..Len(units)
  OBVIOUS
<1>2. /\ \A x \in all : x \in Int /\ x <= Len(units) /\ x \in 0..Len(units)
      /\ all # {}
  BY <1>1
<1>3. e \in all /\ \A x \in all : e >= x
  <2> HIDE DEF all
  <2> QED
    BY <1>1, <1>2, MaxIs
<1>4. Undecoded(units) = SubSeq(units, e + 1, Len(units))
  BY DEF Undecoded
<1> HIDE DEF e
<1>5. \A j \in (e + 1)..Len(units) : ~EndsMessage(units[j])
  <2> SUFFICES ASSUME NEW j \in (e + 1)..Len(units), EndsMessage(units[j])
               PROVE  FALSE
    OBVIOUS
  <2>1. e \in 0..Len(units)
    BY <1>2, <1>3
  <2>2. j \in 1..Len(units) /\ ~(e >= j)
    BY <1>1, <2>1
  <2>3. j \in all
    BY <1>1, <2>2
  <2> QED
    BY <1>3, <2>2, <2>3
<1> QED
  BY <1>2, <1>3, <1>4, <1>5

\* handshake() of a connection that was sent nothing yet.
LEMMA HandshakenKeeps ==
    ASSUME NEW r \in Records, Fitting(r), Whole(r), r.queued = <<>>, NEW kind
    PROVE  LET q == Handshaken(r, kind)
               m == Message(IF kind = "upgrade" THEN "101" ELSE "page", 0, 0)
           IN /\ q \in Records /\ Fitting(q) /\ Whole(q)
              /\ q.written = r.written /\ q.up = r.up /\ q.in = <<>> /\ q.ended = r.ended
              /\ q.fd = r.fd /\ (r.dead => q.dead)
              /\ q.open = (r.open \/ kind = "upgrade")
              /\ q.queued = <<m>> /\ m \in Messages
<1> DEFINE m == Message(IF kind = "upgrade" THEN "101" ELSE "page", 0, 0)
           fresh == [r EXCEPT !.in = <<>>, !.out = <<>>, !.open = @ \/ kind = "upgrade",
                              !.serve_only = @ \/ kind = "get"]
           p == Put(fresh, m)
           q == Flushed(p)
<1>1. q = Handshaken(r, kind)
  BY DEF Handshaken
<1>2. m \in Messages /\ Size(m.kind) <= 2 /\ Size(m.kind) \in Nat
  <2> DEFINE word == IF kind = "upgrade" THEN "101" ELSE "page"
  <2>1. word \in {"101", "page"} /\ word \in Kinds
    BY DEF Kinds
  <2>2. m = [kind |-> word, n |-> 0, ver |-> 0]
    BY DEF Message
  <2>3. Size("101") = 1 /\ Size("page") = 2
    BY SizeIs
  <2> HIDE DEF word, m
  <2>4. m.kind = word /\ m \in Messages
    BY <2>1, <2>2 DEF Messages
  <2> QED
    BY <2>1, <2>3, <2>4
<1>3. fresh \in Records /\ fresh.queued = <<>> /\ fresh.out = <<>> /\ fresh.down = r.down
  BY EmptySeq DEF Records
<1>4. Whole(fresh)
  <2>1. /\ r.out \in Seq(Units) /\ r.down \in Seq(Units) /\ r.got \in Seq(Units)
        /\ <<>> \in Seq(Units) /\ r.got \o r.down \in Seq(Units)
    BY EmptySeq, ConcatProperties DEF Records
  <2>2. (r.got \o r.down) \o r.out = <<>>
    BY UnitsOfAllFacts DEF Whole
  <2>3. r.got \o r.down = <<>> /\ r.out = <<>>
    BY <2>1, <2>2, ConcatSimplifications!concIsEmpty
  <2>4. fresh.got = r.got
    BY DEF Records
  <2> QED
    BY <1>3, <2>1, <2>3, <2>4, ConcatEmptySeq, UnitsOfAllFacts DEF Whole
<1>5. fresh.written = r.written /\ fresh.up = r.up /\ fresh.in = <<>> /\ fresh.ended = r.ended
      /\ fresh.fd = r.fd /\ fresh.dead = r.dead /\ fresh.open = (r.open \/ kind = "upgrade")
  BY DEF Records
<1> HIDE DEF m, fresh
<1>6. /\ p \in Records /\ p.queued = Append(fresh.queued, m)
      /\ Aside(fresh, [p EXCEPT !.queued = fresh.queued])
      /\ Len(p.out) = Len(fresh.out) + Size(m.kind)
      /\ p.down = fresh.down /\ Whole(p)
  BY <1>2, <1>3, <1>4, PutKeeps
<1>7. p.queued = <<m>> /\ Len(p.out) <= 2
  <2>1. Len(fresh.out) = 0
    BY <1>3
  <2> QED
    BY <1>2, <1>3, <1>6, <2>1
<1>8. p.written = r.written /\ p.up = r.up /\ p.in = <<>> /\ p.ended = r.ended
      /\ p.fd = r.fd /\ (r.dead => p.dead) /\ p.open = (r.open \/ kind = "upgrade")
  <2> HIDE DEF p
  <2> QED
    BY <1>5, <1>6 DEF Aside, Records
<1>9. Fitting(p)
  <2>1. Len(p.out) \in Nat
    BY <1>6 DEF Records
  <2> QED
    BY <1>3, <1>6, <1>7, <2>1, LimitIs DEF Fitting
<1> HIDE DEF p
<1>10. q \in Records /\ Fitting(q) /\ Aside(p, q) /\ Whole(q)
  BY <1>6, <1>9, FlushedKeeps
<1> HIDE DEF q
<1> QED
  BY <1>1, <1>2, <1>7, <1>8, <1>10 DEF Aside, m

\* decode_frames(): what stays in the buffer, and what is answered.
LEMMA DecodedKeeps ==
    ASSUME NEW r \in Records, Fitting(r), NEW units \in Seq(Units), NEW good \in Seq(Units)
    PROVE  LET q == Decoded(r, units, good)
           IN /\ q \in Records /\ Fitting(q)
              /\ Whole(r) => Whole(q)
              /\ q.written = r.written /\ q.up = r.up /\ q.ended = r.ended
              /\ q.fd = r.fd /\ q.open = r.open
              /\ q.in = Undecoded(good) /\ q.dead = (r.dead \/ good # units)
              /\ Adds(r, q)
<1> DEFINE q == Decoded(r, units, good)
           pings == WholeOf(good, "ping")
           room == IF Len(r.out) < max_backlog THEN max_backlog - Len(r.out) ELSE 0
           n == Min({room, Len(pings)})
           pongs == [i \in 1..n |-> Message("pong", pings[i].n, 0)]
<1>1. /\ r.out \in Seq(Units) /\ r.down \in Seq(Units) /\ r.got \in Seq(Units)
      /\ r.queued \in Seq(Messages) /\ Len(r.out) \in Nat
  BY DEF Records
<1>2. pings \in Seq(Messages) /\ Len(pings) \in Nat
  <2>1. pings \in Seq(Messages)
    BY WholeOfType
  <2> HIDE DEF pings
  <2> QED
    BY <2>1
<1>3. room \in Nat /\ (Len(r.out) + room <= max_backlog \/ room = 0)
  <2> DEFINE x == Len(r.out)
  <2>1. x \in Nat /\ max_backlog \in Nat
    BY <1>1, ServerConstants
  <2>2. room = IF x < max_backlog THEN max_backlog - x ELSE 0
    OBVIOUS
  <2> HIDE DEF x, room
  <2>3. room \in Nat /\ (x + room <= max_backlog \/ room = 0)
    BY <2>1, <2>2
  <2> QED
    BY <2>3 DEF x
<1>4. n \in Nat /\ n <= room /\ n <= Len(pings)
  <2> HIDE DEF room, pings
  <2> QED
    BY <1>2, <1>3, MinOfTwo, SMTT(30)
<1>5. q = [r EXCEPT !.in = Undecoded(good), !.dead = @ \/ good # units,
                    !.out = @ \o UnitsOfAll(pongs), !.queued = @ \o pongs]
  BY DEF Decoded
<1> HIDE DEF pings, room, n, q
<1>6. /\ pongs \in Seq(Messages) /\ pongs \in Seq(Short) /\ Len(pongs) = n
      /\ \A i \in DOMAIN pongs : pongs[i].kind = "pong"
  <2>1. \A i \in 1..n : pings[i].n \in Nat
    <3>1. \A i \in 1..n : i \in 1..Len(pings)
      BY <1>2, <1>4
    <3>2. \A i \in 1..Len(pings) : pings[i] \in Messages
      BY <1>2
    <3>3. \A x \in Messages : x.n \in Nat
      BY DEF Messages
    <3> QED
      BY <3>1, <3>2, <3>3
  <2>2. \A i \in 1..n : /\ Message("pong", pings[i].n, 0) \in Messages
                        /\ Message("pong", pings[i].n, 0).kind = "pong"
    BY <2>1 DEF Message, Messages, Kinds
  <2>3. Size("pong") = 1
    BY SizeIs
  <2>4. \A i \in 1..n : Message("pong", pings[i].n, 0) \in Short
    BY <2>2, <2>3 DEF Short
  <2> QED
    BY <1>4, <2>2, <2>4
<1> HIDE DEF pongs
<1>7. UnitsOfAll(pongs) \in Seq(Units) /\ Len(UnitsOfAll(pongs)) = n
  BY <1>6, UnitsOfAllFacts, ShortOnes
<1>8. /\ r.out \o UnitsOfAll(pongs) \in Seq(Units)
      /\ Len(r.out \o UnitsOfAll(pongs)) = Len(r.out) + n
  <2> DEFINE a == r.out
             b == UnitsOfAll(pongs)
  <2>1. a \in Seq(Units) /\ b \in Seq(Units) /\ Len(b) = n
    BY <1>1, <1>7
  <2> HIDE DEF a, b
  <2>2. a \o b \in Seq(Units) /\ Len(a \o b) = Len(a) + Len(b)
    BY <2>1, ConcatProperties
  <2> QED
    BY <2>1, <2>2 DEF a, b
<1>9. r.queued \o pongs \in Seq(Messages)
  BY <1>1, <1>6, ConcatProperties
<1>10. Undecoded(good) \in Seq(Units)
  <2>1. PICK e \in 0..Len(good) : Undecoded(good) = SubSeq(good, e + 1, Len(good))
    BY UndecodedIs
  <2> QED
    BY <2>1, SplitAt
<1>11. q \in Records
  BY <1>5, <1>8, <1>9, <1>10 DEF Records
<1>12. /\ q.written = r.written /\ q.up = r.up /\ q.ended = r.ended
       /\ q.fd = r.fd /\ q.open = r.open /\ q.down = r.down /\ q.got = r.got
       /\ q.in = Undecoded(good) /\ q.dead = (r.dead \/ good # units)
       /\ q.queued = r.queued \o pongs /\ q.out = r.out \o UnitsOfAll(pongs)
  BY <1>5 DEF Records
<1>13. Fitting(q)
  <2>1. Len(q.out) = Len(r.out) + n /\ q.down = r.down
    BY <1>8, <1>12
  <2>2. Len(r.out) <= Limit /\ Len(r.down) <= SocketBuffer
    BY DEF Fitting
  <2>3. Len(r.out) + n <= Limit
    BY <1>1, <1>3, <1>4, <2>2, LimitIs, ServerConstants
  <2> QED
    BY <2>1, <2>2, <2>3 DEF Fitting
<1>14. Whole(r) => Whole(q)
  <2> DEFINE a == r.got
             b == r.down
             c == r.out
             d == UnitsOfAll(pongs)
  <2>1. a \in Seq(Units) /\ b \in Seq(Units) /\ c \in Seq(Units) /\ d \in Seq(Units)
    BY <1>1, <1>7
  <2>2. Whole(q) <=> a \o b \o (c \o d) = UnitsOfAll(r.queued \o pongs)
    BY <1>12 DEF Whole
  <2>3. Whole(r) <=> a \o b \o c = UnitsOfAll(r.queued)
    BY DEF Whole
  <2>4. UnitsOfAll(r.queued \o pongs) = UnitsOfAll(r.queued) \o d
    BY <1>1, <1>6, UnitsOfAllFacts
  <2> HIDE DEF a, b, c, d
  <2>5. ((a \o b) \o c) \o d = (a \o b) \o (c \o d)
    <3>1. a \o b \in Seq(Units)
      BY <2>1, ConcatProperties
    <3> QED
      BY <2>1, <3>1, ConcatAssociative, SMTT(30)
  <2> QED
    BY <2>2, <2>3, <2>4, <2>5
<1>15. Adds(r, q)
  <2>1. \A i \in DOMAIN pongs : pongs[i].kind # "ack"
    BY <1>6
  <2>2. pongs \in Seq(Messages) /\ q.queued = r.queued \o pongs
    BY <1>6, <1>12
  <2> QED
    BY <2>1, <2>2, Zenon DEF Adds
<1> QED
  BY <1>11, <1>12, <1>13, <1>14, <1>15 DEF q

(***************************************************************************)
(* What browsers send: the units of a request, if any, and then of frames. *)
(***************************************************************************)
First(s) == IF s = <<>> THEN 0 ELSE Size(s[1].kind)

LEMMA ScriptIs ==
    ASSUME NEW s \in Scripts
    PROVE  /\ s \in Seq(Messages)
           /\ \A i \in 1..Len(s) : IF i = 1 THEN s[i].kind \in Requests ELSE s[i].kind \in Frames
<1> DEFINE Sendable == [kind : Requests \union Frames, n : Nat, ver : {0}]
<1>1. s \in Seq(Sendable) /\ \A i \in DOMAIN s : s[i].kind \in Requests <=> i = 1
  BY DEF Scripts
<1>2. Sendable \subseteq Messages
  BY DEF Messages, Kinds
<1>3. \A m \in Sendable : m.kind \in Requests \union Frames
  OBVIOUS
<1> HIDE DEF Sendable
<1>4. DOMAIN s = 1..Len(s) /\ \A i \in 1..Len(s) : s[i] \in Sendable
  BY <1>1
<1>5. s \in Seq(Messages)
  BY <1>1, <1>2, SeqMonotonic
<1> QED
  BY <1>1, <1>3, <1>4, <1>5

LEMMA UnitsAreOf ==
    \A s \in Seq(Messages) : \A u \in ToSet(UnitsOfAll(s)) : u.msg \in ToSet(s)
<1> DEFINE Good(s) == \A u \in ToSet(UnitsOfAll(s)) : u.msg \in ToSet(s)
           H == {s \in Seq(Messages) : Good(s)}
<1>1. <<>> \in H
  <2>1. <<>> \in Seq(Messages)
    BY EmptySeq
  <2>2. ToSet(UnitsOfAll(<<>>)) = {}
    BY UnitsOfAllFacts DEF ToSet
  <2> QED
    BY <2>1, <2>2
<1>2. ASSUME NEW s \in Seq(Messages), NEW m \in Messages, s \in H
      PROVE  Append(s, m) \in H
  <2> DEFINE a == UnitsOfAll(s)
             b == UnitsOf(m)
             both == Append(s, m)
  <2>1. UnitsOfAll(both) = a \o b /\ a \in Seq(Units)
    BY UnitsOfAllFacts
  <2>2. b \in Seq(Units) /\ \A k \in 1..Len(b) : b[k].msg = m
    <3>1. /\ b \in Seq(Units) /\ Len(b) = Size(m.kind)
          /\ \A k \in 1..Size(m.kind) : b[k] = [msg |-> m, part |-> k]
      BY UnitsOfIs
    <3> HIDE DEF b
    <3> QED
      BY <3>1
  <2>3. /\ Len(s) \in Nat /\ both \in Seq(Messages) /\ Len(both) = Len(s) + 1
        /\ \A i \in 1..Len(s) : both[i] = s[i]
        /\ both[Len(s) + 1] = m
    BY AppendIs
  <2>4. \A u \in ToSet(a) : u.msg \in ToSet(s)
    BY <1>2
  <2> HIDE DEF a, b, both
  <2>5. ToSet(s) \subseteq ToSet(both) /\ m \in ToSet(both)
    <3>1. DOMAIN both = 1..(Len(s) + 1) /\ DOMAIN s = 1..Len(s)
      BY <2>3
    <3>2. \A i \in 1..Len(s) : i \in 1..(Len(s) + 1)
      BY <2>3
    <3>3. Len(s) + 1 \in 1..(Len(s) + 1)
      BY <2>3
    <3>4. \A i \in 1..(Len(s) + 1) : both[i] \in ToSet(both)
      BY <3>1 DEF ToSet
    <3>5. \A i \in 1..Len(s) : s[i] \in ToSet(both)
      BY <2>3, <3>2, <3>4
    <3>6. m \in ToSet(both)
      BY <2>3, <3>3, <3>4
    <3> QED
      BY <3>1, <3>5, <3>6 DEF ToSet
  <2>6. \A u \in ToSet(a \o b) : u \in ToSet(a) \/ u.msg = m
    <3>1. /\ a \o b \in Seq(Units) /\ Len(a \o b) = Len(a) + Len(b)
          /\ \A i \in 1..(Len(a) + Len(b)) :
                (a \o b)[i] = IF i <= Len(a) THEN a[i] ELSE b[i - Len(a)]
          /\ Len(a) \in Nat /\ Len(b) \in Nat /\ DOMAIN a = 1..Len(a)
      BY <2>1, <2>2, ConcatProperties, LenProperties
    <3>2. DOMAIN (a \o b) = 1..(Len(a) + Len(b))
      BY <3>1
    <3> DEFINE ab == a \o b
    <3>3. SUFFICES ASSUME NEW i \in 1..(Len(a) + Len(b))
                   PROVE  ab[i] \in ToSet(a) \/ ab[i].msg = m
      BY <3>2 DEF ToSet
    <3>4. CASE i <= Len(a)
      <4>1. i \in 1..Len(a) /\ ab[i] = a[i]
        BY <3>1, <3>4
      <4> QED
        BY <3>1, <4>1 DEF ToSet
    <3>5. CASE ~(i <= Len(a))
      <4>1. i - Len(a) \in 1..Len(b) /\ ab[i] = b[i - Len(a)]
        BY <3>1, <3>5
      <4> QED
        BY <2>2, <4>1
    <3> QED
      BY <3>4, <3>5
  <2>7. Good(both)
    BY <2>1, <2>4, <2>5, <2>6
  <2> HIDE DEF Good
  <2> QED
    BY <2>3, <2>7 DEF both
<1> HIDE DEF H
<1>3. \A s \in Seq(Messages) : s \in H
  BY <1>1, <1>2, BySeqInduction
<1> QED
  BY <1>3 DEF H

LEMMA RequestFirst ==
    ASSUME NEW s \in Scripts
    PROVE  /\ UnitsOfAll(s) \in Seq(Units) /\ Len(UnitsOfAll(s)) \in Nat
           /\ First(s) \in 0..Len(UnitsOfAll(s))
           /\ \A j \in 1..Len(UnitsOfAll(s)) :
                 IF j <= First(s) THEN /\ UnitsOfAll(s)[j] = [msg |-> s[1], part |-> j]
                                       /\ First(s) = Size(s[1].kind)
                                       /\ s[1].kind \in Requests
                 ELSE UnitsOfAll(s)[j].msg.kind \in Frames
<1> DEFINE a == UnitsOfAll(s)
<1>1. /\ s \in Seq(Messages)
      /\ \A i \in 1..Len(s) : IF i = 1 THEN s[i].kind \in Requests ELSE s[i].kind \in Frames
  BY ScriptIs
<1>2. a \in Seq(Units) /\ Len(a) \in Nat
  <2>1. a \in Seq(Units)
    BY <1>1, UnitsOfAllFacts
  <2> HIDE DEF a
  <2> QED
    BY <2>1
<1>3. CASE s = <<>>
  <2>1. a = <<>> /\ First(s) = 0
    BY <1>3, UnitsOfAllFacts DEF First
  <2>2. Len(a) = 0
    BY <2>1
  <2> HIDE DEF a
  <2>3. First(s) \in 0..Len(a) /\ ~\E j \in 1..Len(a) : TRUE
    BY <2>1, <2>2
  <2> QED
    BY <1>2, <2>3 DEF a
<1>4. CASE s # <<>>
  <2> DEFINE m == s[1]
             t == Tail(s)
             b == UnitsOf(m)
             d == UnitsOfAll(t)
  <2>1. /\ Len(s) \in Nat /\ Len(s) >= 1 /\ m \in Messages /\ m.kind \in Requests
        /\ t \in Seq(Messages) /\ Len(t) = Len(s) - 1
        /\ \A i \in 1..Len(t) : t[i] = s[i + 1]
    BY <1>1, <1>4
  <2>2. s = Append(<<>>, m) \o t
    <3> DEFINE q == Append(<<>>, m) \o t
    <3>1. /\ Append(<<>>, m) \in Seq(Messages) /\ Len(Append(<<>>, m)) = 1
          /\ Append(<<>>, m)[1] = m
      BY <2>1
    <3> DEFINE o == Append(<<>>, m)
    <3> HIDE DEF o, t, m
    <3>2. /\ o \o t \in Seq(Messages) /\ Len(o \o t) = 1 + Len(t)
          /\ \A i \in 1..(1 + Len(t)) : (o \o t)[i] = IF i <= 1 THEN o[i] ELSE t[i - 1]
      BY <2>1, <3>1, ConcatProperties DEF o
    <3>3. \A i \in 1..Len(s) : s[i] = (o \o t)[i]
      <4> SUFFICES ASSUME NEW i \in 1..Len(s)
                   PROVE  s[i] = (o \o t)[i]
        OBVIOUS
      <4>1. i \in 1..(1 + Len(t))
        BY <2>1
      <4>2. CASE i = 1
        BY <3>1, <3>2, <4>1, <4>2 DEF m, o
      <4>3. CASE i # 1
        <5>1. i - 1 \in 1..Len(t) /\ ~(i <= 1) /\ (i - 1) + 1 = i
          BY <2>1, <4>3
        <5> QED
          BY <2>1, <3>2, <4>1, <5>1
      <4> QED
        BY <4>2, <4>3
    <3>4. Len(s) = Len(o \o t)
      BY <2>1, <3>2
    <3>5. s = o \o t
      BY <1>1, <3>2, <3>3, <3>4, SeqEqual
    <3> QED
      BY <3>5 DEF o
  <2>3. a = b \o d
    <3>1. <<>> \in Seq(Messages) /\ Append(<<>>, m) \in Seq(Messages)
      BY <2>1
    <3>2. UnitsOfAll(Append(<<>>, m)) = UnitsOfAll(<<>>) \o UnitsOf(m)
      BY <2>1, <3>1, UnitsOfAllFacts
    <3>3. UnitsOfAll(<<>>) \o UnitsOf(m) = UnitsOf(m)
      BY <2>1, UnitsOfAllFacts, UnitsOfIs, ConcatEmptySeq
    <3>4. UnitsOfAll(Append(<<>>, m) \o t) = UnitsOfAll(Append(<<>>, m)) \o UnitsOfAll(t)
      BY <2>1, <3>1, UnitsOfAllFacts
    <3> HIDE DEF t, m
    <3> QED
      BY <2>2, <3>2, <3>3, <3>4
  <2>4. /\ b \in Seq(Units) /\ Len(b) = Size(m.kind)
        /\ \A k \in 1..Size(m.kind) : b[k] = [msg |-> m, part |-> k]
    BY <2>1, UnitsOfIs
  <2>5. d \in Seq(Units) /\ \A u \in ToSet(d) : u.msg \in ToSet(t)
    BY <2>1, UnitsOfAllFacts, UnitsAreOf
  <2>6. \A i \in 1..Len(t) : t[i].kind \in Frames
    <3>1. \A i \in 1..Len(t) : i + 1 \in 1..Len(s) /\ i + 1 # 1
      BY <2>1
    <3> QED
      BY <1>1, <2>1, <3>1
  <2>7. First(s) = Size(m.kind)
    BY <1>4 DEF First
  <2> HIDE DEF b, d, t
  <2>8. \A u \in ToSet(t) : u.kind \in Frames
    BY <2>1, <2>6 DEF ToSet
  <2>9. \A i \in 1..Len(d) : d[i].msg.kind \in Frames
    <3>1. \A i \in 1..Len(d) : d[i] \in ToSet(d)
      BY <2>5 DEF ToSet
    <3> QED
      BY <2>5, <2>8, <3>1
  <2>10. /\ Len(b \o d) = Len(b) + Len(d)
         /\ \A i \in 1..(Len(b) + Len(d)) :
               (b \o d)[i] = IF i <= Len(b) THEN b[i] ELSE d[i - Len(b)]
         /\ Len(b) \in Nat /\ Len(d) \in Nat
    <3>1. b \in Seq(Units) /\ d \in Seq(Units)
      BY <2>4, <2>5
    <3>2. Len(b) \in Nat /\ Len(d) \in Nat
      BY <3>1, LenProperties
    <3> QED
      BY <3>1, <3>2, ConcatProperties
  <2>11. ASSUME NEW j \in 1..Len(a)
         PROVE  IF j <= First(s) THEN a[j] = [msg |-> m, part |-> j]
                ELSE a[j].msg.kind \in Frames
    <3> HIDE DEF a, m
    <3>1. j \in 1..(Len(b) + Len(d)) /\ a[j] = IF j <= Len(b) THEN b[j] ELSE d[j - Len(b)]
      BY <2>3, <2>10
    <3>2. CASE j <= First(s)
      <4>1. j \in 1..Size(m.kind) /\ j <= Len(b)
        BY <2>4, <2>7, <2>10, <3>2
      <4> QED
        BY <2>4, <3>1, <3>2, <4>1
    <3>3. CASE ~(j <= First(s))
      <4>1. j - Len(b) \in 1..Len(d) /\ ~(j <= Len(b))
        BY <2>4, <2>7, <2>10, <3>1, <3>3
      <4> QED
        BY <2>9, <3>1, <3>3, <4>1
    <3> QED
      BY <3>2, <3>3
  <2>12. First(s) \in 0..Len(a)
    <3> HIDE DEF a, m
    <3> QED
      BY <2>3, <2>4, <2>7, <2>10
  <2> QED
    BY <1>2, <2>1, <2>7, <2>11, <2>12
<1> QED
  BY <1>3, <1>4

(***************************************************************************)
(* What holds of a connection's record at every moment, given its script:  *)
(* before the handshake only units of the request were written, and after  *)
(* a refused one nothing more is read; what was received and not used yet  *)
(* are the last units written, unless the client is dead.                  *)
(***************************************************************************)
Unread(s, r) ==
    \E k \in 0..r.written : r.in \o r.up = SubSeq(UnitsOfAll(s), k + 1, r.written)

Sound(s, r) ==
    /\ Fitting(r) /\ Whole(r)
    /\ r.written <= Len(UnitsOfAll(s))
    /\ ~r.open => /\ r.written <= First(s)
                  /\ \A i \in DOMAIN r.queued : r.queued[i].kind # "101"
    /\ r.open \/ r.queued # <<>> => r.written >= First(s)
    /\ ~r.dead => Unread(s, r)
    /\ ~r.open /\ ~r.dead /\ r.queued # <<>> => r.in \o r.up = <<>>

\* flush() and what else leaves the buffers and the handshake alone.
LEMMA SoundAside ==
    ASSUME NEW s, NEW r, NEW q, Sound(s, r), Fitting(q), Whole(q),
           q.written = r.written, q.up = r.up, q.in = r.in, q.open = r.open,
           q.queued = r.queued, r.dead => q.dead
    PROVE  Sound(s, q)
<1>1. Unread(s, r) => Unread(s, q)
  BY DEF Unread
<1> QED
  BY <1>1 DEF Sound

\* A message is queued for an open client.
LEMMA SoundQueued ==
    ASSUME NEW s, NEW r, NEW q, Sound(s, r), Fitting(q), Whole(q),
           q.written = r.written, q.up = r.up, q.in = r.in, r.open, q.open,
           r.dead => q.dead
    PROVE  Sound(s, q)
<1>1. Unread(s, r) => Unread(s, q)
  BY DEF Unread
<1> QED
  BY <1>1 DEF Sound

\* What was received is moved to the buffer.
LEMMA SoundReceived ==
    ASSUME NEW s, NEW r \in Records, NEW dead \in BOOLEAN, Sound(s, r), r.dead => dead
    PROVE  LET q == [r EXCEPT !.in = r.in \o r.up, !.up = <<>>, !.dead = dead]
           IN q \in Records /\ Sound(s, q)
<1> DEFINE q == [r EXCEPT !.in = r.in \o r.up, !.up = <<>>, !.dead = dead]
<1>1. /\ r.in \in Seq(Units) /\ r.up \in Seq(Units)
      /\ r.in \o r.up \in Seq(Units) /\ <<>> \in Seq(Units)
  BY ConcatProperties, EmptySeq DEF Records
<1>2. q \in Records
  BY <1>1 DEF Records
<1>3. /\ q.in = r.in \o r.up /\ q.up = <<>> /\ q.dead = dead /\ q.written = r.written
      /\ q.open = r.open /\ q.queued = r.queued /\ q.got = r.got /\ q.down = r.down
      /\ q.out = r.out
  BY DEF Records
<1>4. q.in \o q.up = r.in \o r.up
  <2> DEFINE units == r.in \o r.up
  <2>1. units \in Seq(Units) /\ q.in = units /\ q.up = <<>>
    BY <1>1, <1>3
  <2> HIDE DEF units, q
  <2>2. units \o <<>> = units
    BY <2>1, ConcatEmptySeq
  <2> QED
    BY <2>1, <2>2 DEF units
<1> HIDE DEF q
<1>5. Fitting(q) /\ Whole(q)
  BY <1>3 DEF Sound, Fitting, Whole
<1>6. Unread(s, r) => Unread(s, q)
  BY <1>3, <1>4 DEF Unread
<1>7. Sound(s, q)
  BY <1>3, <1>4, <1>5, <1>6 DEF Sound
<1> QED
  BY <1>2, <1>7 DEF q

\* The last units written, one by one.
LEMMA UnreadIs ==
    ASSUME NEW s \in Scripts, NEW w \in 0..Len(UnitsOfAll(s)), NEW k \in 0..w
    PROVE  LET units == SubSeq(UnitsOfAll(s), k + 1, w)
           IN /\ units \in Seq(Units) /\ Len(units) = w - k
              /\ \A i \in 1..(w - k) : units[i] = UnitsOfAll(s)[k + i]
              /\ \A e \in 0..(w - k) :
                    SubSeq(units, e + 1, Len(units)) = SubSeq(UnitsOfAll(s), (k + e) + 1, w)
<1> DEFINE all == UnitsOfAll(s)
           units == SubSeq(all, k + 1, w)
<1>1. all \in Seq(Units) /\ Len(all) \in Nat
  BY RequestFirst
<1> HIDE DEF all
<1>2. w \in 0..Len(all)
  BY DEF all
<1>3. 0 \in 0..(w - k)
  BY <1>1, <1>2
<1>4. /\ units \in Seq(Units) /\ Len(units) = w - k
      /\ \A i \in 1..(w - k) : units[i] = all[k + i]
  BY <1>1, <1>2, <1>3, LeftOfLeft
<1>5. \A e \in 0..(w - k) : SubSeq(units, e + 1, Len(units)) = SubSeq(all, (k + e) + 1, w)
  <2> SUFFICES ASSUME NEW e \in 0..(w - k)
               PROVE  SubSeq(units, e + 1, Len(units)) = SubSeq(all, (k + e) + 1, w)
    OBVIOUS
  <2>1. SubSeq(units, e + 1, w - k) = SubSeq(all, (k + e) + 1, w)
    BY <1>1, <1>2, LeftOfLeft
  <2> HIDE DEF units
  <2> QED
    BY <1>4, <2>1
<1> QED
  BY <1>4, <1>5 DEF all

\* Where a request ends, all of it was written and nothing else.
LEMMA RequestEnds ==
    ASSUME NEW s \in Scripts, NEW w \in 0..Len(UnitsOfAll(s)), NEW k \in 0..w, w <= First(s),
           NEW j \in 1..(w - k), EndsMessage(UnitsOfAll(s)[k + j])
    PROVE  w = First(s) /\ j = w - k
<1> DEFINE all == UnitsOfAll(s)
           f == First(s)
<1>1. /\ Len(all) \in Nat /\ f \in 0..Len(all)
      /\ \A i \in 1..Len(all) :
            i <= f => all[i] = [msg |-> s[1], part |-> i] /\ f = Size(s[1].kind)
  BY RequestFirst
<1>2. w \in 0..Len(all) /\ w <= f /\ EndsMessage(all[k + j])
  OBVIOUS
<1> HIDE DEF all, f
<1>3. w \in Nat /\ f \in Nat
  BY <1>1, <1>2
<1>4. k \in Nat /\ j \in Nat /\ j >= 1 /\ k + j <= w
  BY <1>3
<1>5. k + j \in 1..Len(all) /\ k + j <= f
  BY <1>1, <1>2, <1>3, <1>4
<1>6. all[k + j] = [msg |-> s[1], part |-> k + j] /\ f = Size(s[1].kind)
  BY <1>1, <1>5
<1>7. k + j = f
  BY <1>2, <1>6 DEF EndsMessage
<1>8. w = f /\ j = w - k
  BY <1>2, <1>3, <1>4, <1>7
<1> QED
  BY <1>8 DEF f

\* handshake(): what is left of the request and the buffers after it is nothing.
LEMMA SoundHandshake ==
    ASSUME NEW s \in Scripts, NEW r \in Records, Sound(s, r), ~r.open, ~r.dead,
           HasEnd(r.in \o r.up)
    PROVE  LET units == r.in \o r.up
               end == Min({j \in DOMAIN units : EndsMessage(units[j])})
               kind == units[end].msg.kind
           IN /\ r.queued = <<>>
              /\ \A n \in end..Min({Len(units), MaxRequest}) :
                    LET p == [r EXCEPT !.up = SubSeq(units, n + 1, Len(units))]
                        q == Handshaken(p, kind)
                    IN /\ q \in Records /\ Sound(s, q) /\ q.fd = r.fd /\ Adds(r, q)
                       /\ q.written = r.written
<1> DEFINE units == r.in \o r.up
           all == UnitsOfAll(s)
           f == First(s)
           w == r.written
           ends == {j \in DOMAIN units : EndsMessage(units[j])}
           end == Min(ends)
           kind == units[end].msg.kind
<1>0. HasEnd(units)
  OBVIOUS
<1>1. all \in Seq(Units) /\ Len(all) \in Nat /\ f \in 0..Len(all)
  BY RequestFirst
<1>2. /\ w \in Nat /\ w <= Len(all) /\ w <= f
      /\ r.in \in Seq(Units) /\ r.up \in Seq(Units) /\ r.queued \in Seq(Messages)
  BY DEF Records, Sound
<1>3. PICK k \in 0..w : units = SubSeq(all, k + 1, w)
  BY DEF Sound, Unread
<1> HIDE DEF units, f, w, ends, end, kind
<1>4. w \in 0..Len(all) /\ k \in Nat /\ f \in Nat
  <2> HIDE DEF all
  <2> QED
    BY <1>1, <1>2
<1>5. /\ units \in Seq(Units) /\ Len(units) = w - k
      /\ \A i \in 1..(w - k) : units[i] = all[k + i]
  BY <1>3, <1>4, UnreadIs
<1>6. DOMAIN units = 1..(w - k) /\ Len(units) \in Nat
  BY <1>5, LenProperties
<1>7. ends \in SUBSET Nat /\ ends # {} /\ \A j \in ends : j \in 1..(w - k)
  <2>1. \A j \in ends : j \in 1..(w - k)
    BY <1>6 DEF ends
  <2>2. \A j \in 1..(w - k) : j \in Nat
    OBVIOUS
  <2>3. ends # {}
    BY <1>0 DEF HasEnd, ends
  <2> QED
    BY <2>1, <2>2, <2>3
<1>8. end \in ends
  BY <1>7, MinIs DEF end
<1>9. w = f /\ end = w - k
  <2>1. end \in 1..(w - k) /\ EndsMessage(all[k + end])
    BY <1>5, <1>6, <1>8 DEF ends
  <2> QED
    BY <1>2, <1>4, <2>1, RequestEnds DEF f
<1> HIDE DEF all
<1>10. r.queued = <<>>
  <2>1. units # <<>>
    <3>1. end \in 1..Len(units)
      BY <1>5, <1>7, <1>8
    <3>2. Len(units) # 0
      BY <1>6, <3>1
    <3> QED
      BY <3>2
  <2> QED
    BY <2>1 DEF Sound, units
<1>11. ASSUME NEW n \in end..Min({Len(units), MaxRequest})
       PROVE  LET p == [r EXCEPT !.up = SubSeq(units, n + 1, Len(units))]
                  q == Handshaken(p, kind)
              IN /\ q \in Records /\ Sound(s, q) /\ q.fd = r.fd /\ Adds(r, q)
                 /\ q.written = r.written
  <2> DEFINE x == Len(units)
             p == [r EXCEPT !.up = SubSeq(units, n + 1, x)]
             q == Handshaken(p, kind)
             m == Message(IF kind = "upgrade" THEN "101" ELSE "page", 0, 0)
  <2>1. x \in Nat /\ MaxRequest \in Nat /\ end = x
    BY <1>5, <1>6, <1>9, ServerConstants
  <2>2. n \in end..Min({x, MaxRequest})
    OBVIOUS
  <2> HIDE DEF x
  <2>3. Min({x, MaxRequest}) = IF x <= MaxRequest THEN x ELSE MaxRequest
    BY <2>1, MinOfTwo
  <2>4. n = x
    BY <2>1, <2>2, <2>3
  <2>5. SubSeq(units, n + 1, x) = <<>>
    <3>1. n + 1 \in Int /\ x \in Int /\ x < n + 1
      BY <2>1, <2>4
    <3> QED
      BY <3>1, SubSeqEmpty
  <2>6. /\ p \in Records /\ p.up = <<>> /\ p.written = w /\ p.queued = <<>>
        /\ p.fd = r.fd /\ p.open = r.open /\ p.dead = r.dead
        /\ p.got = r.got /\ p.down = r.down /\ p.out = r.out
    BY <1>10, <2>5, EmptySeq DEF Records, w
  <2>7. Fitting(p) /\ Whole(p)
    BY <1>10, <2>6 DEF Sound, Fitting, Whole
  <2> HIDE DEF p
  <2>8. /\ q \in Records /\ Fitting(q) /\ Whole(q)
        /\ q.written = p.written /\ q.up = p.up /\ q.in = <<>> /\ q.fd = p.fd
        /\ q.open = (p.open \/ kind = "upgrade")
        /\ q.queued = <<m>> /\ m \in Messages
    <3>1. p \in Records /\ Fitting(p) /\ Whole(p) /\ p.queued = <<>>
      BY <2>6, <2>7
    <3> QED
      BY <3>1, HandshakenKeeps
  <2>9. m.kind # "ack" /\ (kind # "upgrade" => m.kind # "101")
    BY DEF Message
  <2> HIDE DEF q, m
  <2>10. q.in \o q.up = <<>>
    <3>1. <<>> \in Seq(Units)
      BY EmptySeq
    <3>2. q.in = <<>> /\ q.up = <<>>
      BY <2>6, <2>8
    <3> QED
      BY <3>1, <3>2, ConcatEmptySeq
  <2>11. Unread(s, q)
    <3>1. w \in Nat /\ w + 1 \in Int /\ w < w + 1 /\ w \in 0..w
      BY <1>2
    <3>2. SubSeq(all, w + 1, w) = <<>>
      BY <3>1, SubSeqEmpty
    <3>3. q.written = w
      BY <2>6, <2>8
    <3> QED
      BY <2>10, <3>1, <3>2, <3>3 DEF Unread, all
  <2>12. ~q.open => \A i \in DOMAIN q.queued : q.queued[i].kind # "101"
    <3>1. ~q.open => m.kind # "101"
      BY <2>8, <2>9
    <3>2. DOMAIN <<m>> = {1} /\ <<m>>[1] = m
      OBVIOUS
    <3> QED
      BY <2>8, <3>1, <3>2
  <2>13. Sound(s, q)
    <3>1. q.written = w /\ w <= Len(all) /\ w <= f /\ w >= f
      <4>1. w >= f
        BY <1>4, <1>9
      <4> QED
        BY <1>2, <2>6, <2>8, <4>1
    <3> QED
      BY <2>8, <2>10, <2>11, <2>12, <3>1 DEF Sound, all, f
  <2>14. Adds(r, q)
    <3> DEFINE more == <<m>>
    <3>1. more \in Seq(Messages) /\ \A i \in DOMAIN more : more[i] = m
      BY <2>8
    <3>2. q.queued = more /\ r.queued = <<>>
      BY <1>10, <2>8
    <3> HIDE DEF more
    <3>3. <<>> \o more = more
      BY <3>1, ConcatEmptySeq
    <3> QED
      BY <2>9, <3>1, <3>2, <3>3 DEF Adds
  <2> QED
    BY <2>6, <2>8, <2>13, <2>14 DEF q, p, x, w
<1> QED
  BY <1>10, <1>11 DEF units, end, ends, kind

\* The connection's side of flush(): nothing but the stream and death changes.
LEMMA SoundFlushed ==
    ASSUME NEW s, NEW r \in Records, Sound(s, r)
    PROVE  Flushed(r) \in Records /\ Sound(s, Flushed(r)) /\ Aside(r, Flushed(r))
<1>1. Fitting(r) /\ Whole(r)
  BY DEF Sound
<1> DEFINE q == Flushed(r)
<1>2. q \in Records /\ Fitting(q) /\ Aside(r, q) /\ Whole(q)
  BY <1>1, FlushedKeeps
<1> HIDE DEF q
<1>3. Sound(s, q)
  BY <1>2, SoundAside DEF Aside
<1> QED
  BY <1>2, <1>3 DEF q

\* A frame that fits is queued for an open client, and flushed.
LEMMA SoundPut ==
    ASSUME NEW s, NEW r \in Records, Sound(s, r), r.open, NEW m \in Messages,
           Fits(r, m.kind)
    PROVE  LET q == Flushed(Put(r, m))
           IN /\ q \in Records /\ Sound(s, q)
              /\ q.fd = r.fd /\ q.open = r.open /\ (r.dead => q.dead)
              /\ q.queued = Append(r.queued, m)
<1> DEFINE p == Put(r, m)
<1>1. /\ p \in Records /\ p.queued = Append(r.queued, m)
      /\ Aside(r, [p EXCEPT !.queued = r.queued])
      /\ Len(p.out) = Len(r.out) + Size(m.kind) /\ p.down = r.down
      /\ Whole(r) => Whole(p)
  BY PutKeeps
<1> HIDE DEF p
<1>2. /\ p.written = r.written /\ p.up = r.up /\ p.in = r.in /\ p.ended = r.ended
      /\ p.fd = r.fd /\ p.open = r.open /\ (r.dead => p.dead)
  BY <1>1 DEF Aside, Records
<1>3. Fitting(p)
  <2>1. Len(p.out) <= max_backlog /\ Len(p.out) \in Nat
    BY <1>1 DEF Fits, Records
  <2>2. Len(p.out) <= Limit
    BY <2>1, LimitIs, ServerConstants
  <2> QED
    BY <1>1, <2>2 DEF Fitting, Sound
<1>4. Sound(s, p)
  <2>1. Whole(p)
    BY <1>1 DEF Sound
  <2> QED
    BY <1>2, <1>3, <2>1, SoundQueued
<1>5. Flushed(p) \in Records /\ Sound(s, Flushed(p)) /\ Aside(p, Flushed(p))
  BY <1>1, <1>4, SoundFlushed
<1> QED
  BY <1>1, <1>2, <1>5 DEF p, Aside

\* decode_frames(): a client that lives on keeps what is no whole frame yet.
LEMMA SoundDecoded ==
    ASSUME NEW s \in Scripts, NEW r \in Records, Sound(s, r), r.open, NEW more \in BOOLEAN
    PROVE  LET units == r.in \o r.up
               good == UpToFatal(units)
               d == Decoded([r EXCEPT !.up = <<>>], units, good)
               q == [d EXCEPT !.dead = @ \/ more]
           IN /\ q \in Records /\ Sound(s, q) /\ q.fd = r.fd /\ q.open
              /\ (r.dead => q.dead) /\ Adds(r, q)
<1> DEFINE units == r.in \o r.up
           good == UpToFatal(units)
           p == [r EXCEPT !.up = <<>>]
           d == Decoded(p, units, good)
           q == [d EXCEPT !.dead = @ \/ more]
           w == r.written
           all == UnitsOfAll(s)
<1>1. /\ units \in Seq(Units) /\ w \in Nat /\ r.up \in Seq(Units) /\ r.in \in Seq(Units)
  BY ConcatProperties DEF Records
<1>2. /\ p \in Records /\ p.up = <<>> /\ p.written = w /\ p.queued = r.queued
      /\ p.fd = r.fd /\ p.open = r.open /\ p.dead = r.dead
      /\ p.got = r.got /\ p.down = r.down /\ p.out = r.out
  BY EmptySeq DEF Records
<1>3. Fitting(p) /\ Whole(p)
  BY <1>2 DEF Sound, Fitting, Whole
<1> HIDE DEF units
<1>4. PICK n \in 0..Len(units) : good = SubSeq(units, 1, n)
  BY <1>1, UpToFatalIs
<1>5. good \in Seq(Units)
  BY <1>1, <1>4, SplitAt
<1> HIDE DEF p, good
<1>6. /\ d \in Records /\ Fitting(d) /\ Whole(d)
      /\ d.written = p.written /\ d.up = p.up /\ d.ended = p.ended
      /\ d.fd = p.fd /\ d.open = p.open
      /\ d.in = Undecoded(good) /\ d.dead = (p.dead \/ good # units)
      /\ Adds(p, d)
  <2>1. p \in Records /\ Fitting(p) /\ Whole(p) /\ units \in Seq(Units)
    BY <1>1, <1>2, <1>3
  <2> HIDE DEF w, all
  <2> QED
    BY <2>1, <1>5, DecodedKeeps
<1> HIDE DEF d
<1>7. /\ q \in Records /\ q.written = w /\ q.up = <<>> /\ q.fd = r.fd /\ q.open = r.open
      /\ q.in = Undecoded(good) /\ q.dead = (r.dead \/ good # units \/ more)
      /\ q.got = d.got /\ q.down = d.down /\ q.out = d.out /\ q.queued = d.queued
  BY <1>2, <1>6 DEF Records
<1>8. Fitting(q) /\ Whole(q)
  BY <1>6, <1>7 DEF Fitting, Whole
<1> HIDE DEF q
<1>9. ASSUME ~q.dead
      PROVE  Unread(s, q)
  <2>1. ~r.dead /\ good = units
    BY <1>7, <1>9
  <2>2. PICK k \in 0..w : units = SubSeq(all, k + 1, w)
    BY <2>1 DEF Sound, Unread, units
  <2>3. w \in 0..Len(all)
    <3>1. Len(all) \in Nat
      BY RequestFirst
    <3>2. w <= Len(all)
      BY DEF Sound
    <3> HIDE DEF all, w
    <3> QED
      BY <1>1, <3>1, <3>2
  <2> HIDE DEF w
  <2>4. /\ Len(units) = w - k
        /\ \A e \in 0..(w - k) :
              SubSeq(units, e + 1, Len(units)) = SubSeq(all, (k + e) + 1, w)
    BY <2>2, <2>3, UnreadIs
  <2>5. PICK e \in 0..Len(units) : Undecoded(units) = SubSeq(units, e + 1, Len(units))
    BY <1>1, UndecodedIs
  <2> HIDE DEF all
  <2>6. Undecoded(units) = SubSeq(all, (k + e) + 1, w)
    BY <2>4, <2>5
  <2>7. k + e \in 0..w
    BY <1>1, <2>4
  <2>8. q.in \o q.up = q.in
    <3>1. q.in \in Seq(Units) /\ q.up = <<>>
      BY <1>7 DEF Records
    <3> QED
      BY <3>1, ConcatEmptySeq
  <2>9. q.in \o q.up = SubSeq(all, (k + e) + 1, q.written)
    BY <1>7, <2>1, <2>6, <2>8
  <2>10. q.written = w
    BY <1>7
  <2> QED
    BY <2>7, <2>9, <2>10 DEF Unread, all
<1>10. Sound(s, q)
  BY <1>7, <1>8, <1>9 DEF Sound
<1>11. Adds(r, q)
  BY <1>2, <1>6, <1>7 DEF Adds
<1> QED
  BY <1>7, <1>10, <1>11 DEF q, d, p, good, units

\* The browser writes: before the handshake the next unit is one of its request.
LEMMA SoundWritten ==
    ASSUME NEW s \in Scripts, NEW r \in Records, Sound(s, r),
           r.written < Len(UnitsOfAll(s)),
           \/ UnitsOfAll(s)[r.written + 1].msg.kind \in Requests
           \/ \E i \in DOMAIN r.got : r.got[i].msg.kind = "101"
    PROVE  LET q == [r EXCEPT !.up = Append(@, UnitsOfAll(s)[r.written + 1]),
                              !.written = @ + 1]
           IN q \in Records /\ Sound(s, q)
<1> DEFINE all == UnitsOfAll(s)
           f == First(s)
           w == r.written
           next == all[w + 1]
           q == [r EXCEPT !.up = Append(@, next), !.written = @ + 1]
<1>1. /\ all \in Seq(Units) /\ Len(all) \in Nat /\ f \in 0..Len(all)
      /\ \A j \in 1..Len(all) : ~(j <= f) => all[j].msg.kind \in Frames
  BY RequestFirst
<1>2. /\ w \in Nat /\ r.in \in Seq(Units) /\ r.up \in Seq(Units) /\ r.got \in Seq(Units)
      /\ r.down \in Seq(Units) /\ r.out \in Seq(Units) /\ r.queued \in Seq(Messages)
  BY DEF Records
<1>3. w < Len(all) /\ (next.msg.kind \in Requests \/ \E i \in DOMAIN r.got : r.got[i].msg.kind = "101")
  OBVIOUS
<1> HIDE DEF all, f, w
<1>4. w + 1 \in 1..Len(all) /\ next \in Units
  <2>1. w + 1 \in 1..Len(all)
    BY <1>1, <1>2, <1>3
  <2> QED
    BY <1>1, <2>1
<1> HIDE DEF next
<1>5. Append(r.up, next) \in Seq(Units)
  BY <1>2, <1>4, AppendIs
<1>6. /\ q \in Records /\ q.up = Append(r.up, next) /\ q.written = w + 1
      /\ q.in = r.in /\ q.got = r.got /\ q.down = r.down /\ q.out = r.out
      /\ q.queued = r.queued /\ q.open = r.open /\ q.dead = r.dead
  <2> DEFINE u == Append(r.up, next)
  <2>1. u \in Seq(Units) /\ w + 1 \in Nat
    BY <1>2, <1>5
  <2>2. q = [r EXCEPT !.up = u, !.written = w + 1]
    BY DEF w, Records
  <2> HIDE DEF u, q
  <2> QED
    BY <2>1, <2>2 DEF Records, u
<1> HIDE DEF q
<1>7. Fitting(q) /\ Whole(q)
  BY <1>6 DEF Sound, Fitting, Whole
<1>8. ASSUME ~r.open
      PROVE  w + 1 <= f
  <2> SUFFICES ASSUME ~(w + 1 <= f)
               PROVE  FALSE
    OBVIOUS
  <2>1. next.msg.kind \in Frames
    BY <1>1, <1>4 DEF next
  <2>2. next.msg.kind \notin Requests
    BY <2>1 DEF Frames, Requests
  <2>3. PICK i \in DOMAIN r.got : r.got[i].msg.kind = "101"
    BY <1>3, <2>2
  <2>4. r.got[i] \in ToSet(UnitsOfAll(r.queued))
    <3> DEFINE a == r.got
               b == r.down
               c == r.out
               sent == UnitsOfAll(r.queued)
    <3>1. a \o b \o c = sent
      BY DEF Sound, Whole
    <3>2. a \in Seq(Units) /\ b \in Seq(Units) /\ c \in Seq(Units) /\ i \in DOMAIN a
      BY <1>2
    <3> HIDE DEF a, b, c, sent
    <3>3. /\ Len(a) \in Nat /\ Len(b) \in Nat /\ Len(c) \in Nat
          /\ i \in 1..Len(a)
      BY <3>2, LenProperties
    <3> DEFINE ab == a \o b
    <3>4. ab \in Seq(Units) /\ Len(ab) = Len(a) + Len(b) /\ ab[i] = a[i]
      <4>1. i \in 1..(Len(a) + Len(b)) /\ i <= Len(a)
        BY <3>3
      <4> QED
        BY <3>2, <4>1, ConcatProperties
    <3> HIDE DEF ab
    <3>5. /\ ab \o c \in Seq(Units) /\ Len(ab \o c) = Len(ab) + Len(c)
          /\ (ab \o c)[i] = ab[i] /\ i \in 1..Len(ab \o c)
      <4>1. i \in 1..(Len(ab) + Len(c)) /\ i <= Len(ab)
        BY <3>3, <3>4
      <4> QED
        BY <3>2, <3>4, <4>1, ConcatProperties
    <3>6. sent[i] = a[i] /\ i \in DOMAIN sent
      <4>1. sent = ab \o c
        BY <3>1 DEF ab
      <4> QED
        BY <3>4, <3>5, <4>1
    <3> QED
      BY <3>6 DEF ToSet, a, sent
  <2>5. r.got[i].msg \in ToSet(r.queued)
    BY <1>2, <2>4, UnitsAreOf
  <2>6. PICK j \in DOMAIN r.queued : r.queued[j].kind = "101"
    BY <2>3, <2>5 DEF ToSet
  <2> QED
    BY <1>8, <2>6 DEF Sound
<1>9. ASSUME ~r.open
      PROVE  r.queued = <<>>
  <2>1. ~(w >= f)
    <3>1. f \in Nat
      BY <1>1
    <3> QED
      BY <1>2, <1>8, <1>9, <3>1
  <2> QED
    BY <2>1 DEF Sound, w, f
<1>10. ASSUME Unread(s, r)
       PROVE  Unread(s, q)
  <2>1. PICK k \in 0..w : r.in \o r.up = SubSeq(all, k + 1, w)
    BY <1>10 DEF Unread, all, w
  <2>2. SubSeq(all, k + 1, w + 1) = Append(SubSeq(all, k + 1, w), next)
    BY <1>1, <1>2, <1>3, LeftGrows DEF next
  <2>3. r.in \o Append(r.up, next) = Append(r.in \o r.up, next)
    <3> DEFINE a == r.in
               b == r.up
    <3>1. a \in Seq(Units) /\ b \in Seq(Units)
      BY <1>2
    <3> HIDE DEF a, b
    <3>2. a \o Append(b, next) = Append(a \o b, next)
      BY <1>4, <3>1, SMTT(30)
    <3> QED
      BY <3>2 DEF a, b
  <2>4. k \in 0..(w + 1)
    BY <1>2
  <2>5. q.in \o q.up = SubSeq(all, k + 1, w + 1)
    BY <1>6, <2>1, <2>2, <2>3
  <2> QED
    BY <1>6, <2>4, <2>5 DEF Unread, all
<1>11. q.written <= Len(all) /\ (r.written >= f => q.written >= f)
  <2>1. f \in Nat /\ w = r.written
    BY <1>1 DEF w
  <2> QED
    BY <1>1, <1>2, <1>4, <1>6, <2>1
<1>12. Sound(s, q)
  <2>1. /\ ~r.dead => Unread(s, r)
        /\ ~r.open => \A i \in DOMAIN r.queued : r.queued[i].kind # "101"
        /\ r.open \/ r.queued # <<>> => r.written >= f
    BY DEF Sound, f
  <2> QED
    BY <1>6, <1>7, <1>8, <1>9, <1>10, <1>11, <2>1 DEF Sound, all, f
<1> QED
  BY <1>6, <1>12 DEF q, next, all, w

\* The browser takes a unit from its socket.
LEMMA SoundRead ==
    ASSUME NEW s, NEW r \in Records, Sound(s, r), r.down # <<>>
    PROVE  LET q == [r EXCEPT !.got = Append(@, Head(r.down)), !.down = Tail(@)]
           IN q \in Records /\ Sound(s, q)
<1> DEFINE q == [r EXCEPT !.got = Append(@, Head(r.down)), !.down = Tail(@)]
           a == r.got
           b == r.down
           c == r.out
<1>1. a \in Seq(Units) /\ b \in Seq(Units) /\ c \in Seq(Units) /\ b # <<>>
  BY DEF Records
<1>2. /\ Append(a, Head(b)) \in Seq(Units) /\ Tail(b) \in Seq(Units)
      /\ Len(Tail(b)) <= Len(b)
      /\ Append(a, Head(b)) \o Tail(b) = a \o b
  <2> HIDE DEF a, b
  <2>1. Head(b) \in Units /\ Tail(b) \in Seq(Units) /\ Len(Tail(b)) = Len(b) - 1
    BY <1>1, HeadTailProperties
  <2>2. Append(a, Head(b)) \in Seq(Units)
    BY <1>1, <2>1, AppendIs
  <2>3. Len(Tail(b)) <= Len(b)
    <3>1. Len(b) \in Nat
      BY <1>1
    <3> QED
      BY <2>1, <3>1
  <2>4. Append(a, Head(b)) \o Tail(b) = a \o b
    BY <1>1
  <2> QED
    BY <2>1, <2>2, <2>3, <2>4
<1>3. /\ q \in Records /\ q.got = Append(a, Head(b)) /\ q.down = Tail(b) /\ q.out = c
      /\ q.written = r.written /\ q.up = r.up /\ q.in = r.in /\ q.open = r.open
      /\ q.queued = r.queued /\ q.dead = r.dead
  BY <1>2 DEF Records
<1> HIDE DEF q
<1>4. Whole(q)
  BY <1>2, <1>3 DEF Sound, Whole
<1>5. Fitting(q)
  <2>1. Len(r.down) <= SocketBuffer /\ Len(r.out) <= Limit
    BY DEF Sound, Fitting
  <2>2. Len(b) \in Nat /\ Len(Tail(b)) \in Nat
    <3> HIDE DEF b
    <3> QED
      BY <1>1, <1>2
  <2>3. Len(Tail(b)) <= SocketBuffer
    BY <1>2, <2>1, <2>2, ServerConstants
  <2> QED
    BY <1>3, <2>1, <2>3 DEF Fitting
<1>6. Sound(s, q)
  BY <1>3, <1>4, <1>5, SoundAside
<1> QED
  BY <1>3, <1>6 DEF q
-----------------------------------------------------------------------------
(***************************************************************************)
(* The inductive invariant: every record is sound; the clients are         *)
(* distinct and have distinct descriptors; a client is dead only between   *)
(* the poll loop's visit and the end of service(); and a command that      *)
(* waits for dispatch_pending() waits with the descriptor of an open       *)
(* client, the one that sent it.                                           *)
(***************************************************************************)
Polls == [err : BOOLEAN, readable : BOOLEAN, writable : BOOLEAN]
Waiting == [fd : Nat, from : Conns, n : Nat]
Done == [from : Conns, n : Nat]

WsTypes ==
    /\ cast \in Casts
    /\ conn \in [Conns -> Records]
    /\ backlog \in Seq(Conns) /\ clients \in Seq(Conns)
    /\ phase \in {"idle", "accept", "poll", "gone"} /\ at \in Nat
    /\ revents \in Seq(Polls)
    /\ pending \in Seq(Waiting) /\ handled \in Seq(Done)
    /\ pushes \in Nat /\ dropped \in Nat /\ pages \in Nat /\ commands \in Nat

AllSound == \A c \in Conns : Sound(Script(c), conn[c])

Apart(s) == \A i, j \in 1..Len(s) : i # j => s[i] # s[j]

ListedOnce ==
    /\ Apart(clients) /\ Apart(backlog)
    /\ \A i \in 1..Len(clients), j \in 1..Len(backlog) : clients[i] # backlog[j]

FdsApart ==
    /\ \A c \in Conns : conn[c].fd <= Cardinality(Conns)
    /\ \A i \in 1..Len(clients) : conn[clients[i]].fd # 0
    /\ \A i, j \in 1..Len(clients) : i # j => conn[clients[i]].fd # conn[clients[j]].fd

BacklogFresh == \A j \in 1..Len(backlog) : ~conn[backlog[j]].dead

DeadOnlyPast ==
    \A i \in 1..Len(clients) : (phase = "poll" => i >= at) => ~conn[clients[i]].dead

Rounds ==
    /\ phase = "poll" => at >= 1 /\ Len(revents) = Len(clients)
    /\ phase # "poll" => revents = <<>> /\ pending = <<>>

Senders ==
    \A i \in 1..Len(pending) : \E j \in 1..Len(clients) :
        /\ clients[j] = pending[i].from /\ conn[clients[j]].fd = pending[i].fd
        /\ conn[clients[j]].open

Listed == ListedOnce /\ FdsApart /\ BacklogFresh /\ DeadOnlyPast /\ Rounds /\ Senders

WsInv == WsTypes /\ AllSound /\ Listed

\* No command is handled and no reply queued; the dead stay dead.
Mute ==
    /\ handled' = handled /\ dropped' >= dropped
    /\ \A c \in Conns : Adds(conn[c], conn'[c]) /\ (conn[c].dead => conn'[c].dead)

LEMMA AddsNothing ==
    ASSUME NEW r \in Records, NEW q, q.queued = r.queued
    PROVE  Adds(r, q)
<1> DEFINE s == r.queued
<1>1. s \in Seq(Messages) /\ q.queued = s
  BY DEF Records
<1> HIDE DEF s
<1>2. s \o <<>> = s /\ <<>> \in Seq(Messages)
  BY <1>1, ConcatEmptySeq, EmptySeq
<1>3. q.queued = s \o <<>> /\ \A i \in DOMAIN <<>> : <<>>[i].kind # "ack"
  BY <1>1, <1>2
<1> QED
  BY <1>2, <1>3 DEF Adds, s

LEMMA ScriptOf ==
    ASSUME WsTypes, NEW c \in Conns
    PROVE  Script(c) \in Scripts
BY CastsAreBrowsers DEF WsTypes, Script

LEMMA NewIs ==
    ASSUME NEW s \in Scripts
    PROVE  NewConn \in Records /\ Sound(s, NewConn)
<1>1. NewConn \in Records
  BY EmptySeq DEF NewConn, Records
<1>2. Fitting(NewConn)
  BY LimitIs, ServerConstants, EmptySeq DEF Fitting, NewConn
<1>3. Whole(NewConn)
  <2>1. <<>> \in Seq(Units)
    BY EmptySeq
  <2> QED
    BY <2>1, ConcatEmptySeq, UnitsOfAllFacts DEF Whole, NewConn
<1>4. Unread(s, NewConn)
  <2>1. SubSeq(UnitsOfAll(s), 0 + 1, 0) = <<>>
    BY SubSeqEmpty
  <2>2. <<>> \in Seq(Units)
    BY EmptySeq
  <2> QED
    BY <2>1, <2>2, ConcatEmptySeq DEF Unread, NewConn
<1>5. First(s) \in Nat /\ Len(UnitsOfAll(s)) \in Nat
  BY RequestFirst
<1> QED
  BY <1>1, <1>2, <1>3, <1>4, <1>5 DEF Sound, NewConn

LEMMA WsInit == Init => WsInv
<1> SUFFICES ASSUME Init
             PROVE  WsInv
  OBVIOUS
<1>0. conn = [c \in Conns |-> NewConn] /\ cast \in Casts
  BY DEF Init
<1>1. \A c \in Conns : NewConn \in Records /\ Sound(Script(c), NewConn)
  <2>1. \A c \in Conns : Script(c) \in Scripts
    BY <1>0, CastsAreBrowsers DEF Script
  <2> QED
    BY <2>1, NewIs
<1>2. WsTypes
  BY <1>0, <1>1, EmptySeq DEF Init, WsTypes
<1>3. AllSound
  BY <1>0, <1>1 DEF AllSound
<1>4. Listed
  <2>1. Cardinality(Conns) \in Nat
    BY ServerConstants, FS_CardinalityType
  <2>2. /\ Len(clients) = 0 /\ Len(backlog) = 0 /\ Len(pending) = 0
        /\ phase = "idle" /\ revents = <<>> /\ pending = <<>>
    BY DEF Init
  <2>3. \A c \in Conns : conn[c].fd = 0
    BY <1>0 DEF NewConn
  <2> QED
    BY <2>1, <2>2, <2>3
    DEF Listed, ListedOnce, Apart, FdsApart, BacklogFresh, DeadOnlyPast, Rounds, Senders
<1> QED
  BY <1>2, <1>3, <1>4 DEF WsInv

(***************************************************************************)
(* The visit of one client.                                                *)
(***************************************************************************)
LEMMA ClientIs ==
    ASSUME WsInv, Polling
    PROVE  /\ at \in 1..Len(clients) /\ clients[at] \in Conns
           /\ conn[clients[at]] \in Records /\ Script(clients[at]) \in Scripts
           /\ Sound(Script(clients[at]), conn[clients[at]])
           /\ ~conn[clients[at]].dead
<1>1. at \in 1..Len(clients) /\ clients[at] \in Conns /\ phase = "poll"
  BY DEF WsInv, WsTypes, Polling
<1>2. ~conn[clients[at]].dead
  <2>1. at >= at
    BY DEF WsInv, WsTypes
  <2> QED
    BY <1>1, <2>1 DEF WsInv, Listed, DeadOnlyPast
<1> QED
  BY <1>1, <1>2, ScriptOf DEF WsInv, WsTypes, AllSound

\* What a visit keeps: the record's soundness, its descriptor and its handshake;
\* what it adds to pending_ comes from the client visited.
LEMMA VisitKeeps ==
    ASSUME WsInv, Polling, NEW q \in Records,
           conn' = [conn EXCEPT ![clients[at]] = q],
           Sound(Script(clients[at]), q), q.fd = conn[clients[at]].fd,
           conn[clients[at]].open => q.open,
           Adds(conn[clients[at]], q),
           at' = at + 1, UNCHANGED <<cast, backlog, clients, phase, revents, handled>>,
           pushes' \in Nat /\ dropped' = dropped /\ pages' \in Nat /\ commands' \in Nat,
           pending' \in Seq(Waiting),
           \A i \in 1..Len(pending') :
              \/ i \in 1..Len(pending) /\ pending'[i] = pending[i]
              \/ /\ pending'[i].from = clients[at] /\ pending'[i].fd = conn[clients[at]].fd
                 /\ conn[clients[at]].open
    PROVE  WsInv' /\ Mute
<1>1. at \in 1..Len(clients) /\ clients[at] \in Conns /\ phase = "poll"
  BY ClientIs DEF Polling
<1>2. conn \in [Conns -> Records] /\ at \in Nat
  BY DEF WsInv, WsTypes
<1>3. conn' \in [Conns -> Records]
  BY <1>1, <1>2
<1>4. \A c \in Conns : conn'[c] = IF c = clients[at] THEN q ELSE conn[c]
  BY <1>1, <1>2
<1>5. \A c \in Conns : conn'[c].fd = conn[c].fd /\ (conn[c].open => conn'[c].open)
  BY <1>4
<1>6. WsTypes'
  BY <1>2, <1>3 DEF WsInv, WsTypes
<1>7. AllSound'
  BY <1>4 DEF WsInv, AllSound, Script
<1>8. /\ \A i \in 1..Len(clients) : clients[i] \in Conns
      /\ \A j \in 1..Len(backlog) : backlog[j] \in Conns
  BY DEF WsInv, WsTypes
<1>9. ListedOnce'
  BY DEF WsInv, Listed, ListedOnce, Apart
<1>10. FdsApart'
  BY <1>5, <1>8 DEF WsInv, Listed, FdsApart
<1>11. BacklogFresh'
  BY <1>1, <1>4, <1>8 DEF WsInv, Listed, ListedOnce, BacklogFresh
<1>12. DeadOnlyPast'
  <2> SUFFICES ASSUME NEW i \in 1..Len(clients), i >= at + 1
               PROVE  ~conn'[clients[i]].dead
    BY <1>1 DEF DeadOnlyPast
  <2>1. i >= at /\ i # at
    BY <1>2
  <2>2. clients[i] # clients[at]
    BY <1>1, <2>1 DEF WsInv, Listed, ListedOnce, Apart
  <2>3. ~conn[clients[i]].dead
    BY <2>1 DEF WsInv, Listed, DeadOnlyPast
  <2> QED
    BY <1>4, <1>8, <2>2, <2>3
<1>13. Rounds'
  BY <1>1, <1>2 DEF WsInv, Listed, Rounds
<1>14. Senders'
  <2> SUFFICES ASSUME NEW i \in 1..Len(pending')
               PROVE  \E j \in 1..Len(clients) :
                         /\ clients[j] = pending'[i].from
                         /\ conn'[clients[j]].fd = pending'[i].fd
                         /\ conn'[clients[j]].open
    BY DEF Senders
  <2>1. CASE i \in 1..Len(pending) /\ pending'[i] = pending[i]
    <3>1. PICK j \in 1..Len(clients) :
             /\ clients[j] = pending[i].from /\ conn[clients[j]].fd = pending[i].fd
             /\ conn[clients[j]].open
      BY <2>1 DEF WsInv, Listed, Senders
    <3> QED
      BY <1>5, <1>8, <2>1, <3>1, SMTT(30)
  <2>2. CASE /\ pending'[i].from = clients[at] /\ pending'[i].fd = conn[clients[at]].fd
             /\ conn[clients[at]].open
    BY <1>1, <1>5, <2>2
  <2> QED
    BY <2>1, <2>2
<1>15. Mute
  <2>1. dropped' >= dropped /\ handled' = handled
    BY DEF WsInv, WsTypes
  <2>2. \A c \in Conns : Adds(conn[c], conn'[c]) /\ (conn[c].dead => conn'[c].dead)
    <3> SUFFICES ASSUME NEW c \in Conns
                 PROVE  Adds(conn[c], conn'[c]) /\ (conn[c].dead => conn'[c].dead)
      OBVIOUS
    <3>1. CASE c = clients[at]
      BY <1>4, <3>1, ClientIs
    <3>2. CASE c # clients[at]
      BY <1>2, <1>4, <3>2, AddsNothing
    <3> QED
      BY <3>1, <3>2
  <2> QED
    BY <2>1, <2>2 DEF Mute
<1> QED
  BY <1>6, <1>7, <1>9, <1>10, <1>11, <1>12, <1>13, <1>14, <1>15 DEF WsInv, Listed

\* flush(), if the socket had room when it was polled.
LEMMA FlushedIfWritable ==
    ASSUME NEW s, NEW r \in Records, Sound(s, r)
    PROVE  /\ FlushIfWritable(r) \in Records /\ Sound(s, FlushIfWritable(r))
           /\ Aside(r, FlushIfWritable(r))
<1>1. Aside(r, r)
  BY DEF Aside
<1> QED
  BY <1>1, SoundFlushed DEF FlushIfWritable

LEMMA PollUnreadableKeeps == WsInv /\ PollUnreadable => WsInv' /\ Mute
<1> SUFFICES ASSUME WsInv, PollUnreadable
             PROVE  WsInv' /\ Mute
  OBVIOUS
<1> DEFINE c == clients[at]
           r == conn[c]
           q == IF revents[at].err THEN [r EXCEPT !.dead = TRUE] ELSE FlushIfWritable(r)
           s == Script(c)
<1>1. Polling /\ conn' = [conn EXCEPT ![c] = q]
  BY DEF PollUnreadable
<1>2. r \in Records /\ s \in Scripts /\ Sound(s, r)
  BY <1>1, ClientIs
<1> HIDE DEF s
<1>3. /\ q \in Records /\ Sound(s, q) /\ q.fd = r.fd /\ q.open = r.open
      /\ Adds(r, q)
  <2>1. CASE revents[at].err
    <3> DEFINE d == [r EXCEPT !.dead = TRUE]
    <3>1. d \in Records /\ Aside(r, d) /\ d.got = r.got /\ d.down = r.down /\ d.out = r.out
      BY <1>2 DEF Records, Aside
    <3>2. q = d
      BY <2>1
    <3> HIDE DEF d, r, q
    <3>3. Fitting(d) /\ Whole(d)
      BY <1>2, <3>1 DEF Sound, Fitting, Whole, Aside
    <3>4. Sound(s, d)
      BY <1>2, <3>1, <3>3, SoundAside DEF Aside
    <3> QED
      BY <1>2, <3>1, <3>2, <3>4, AddsNothing DEF Aside
  <2>2. CASE ~revents[at].err
    <3>1. q = FlushIfWritable(r)
      BY <2>2
    <3> HIDE DEF r, q
    <3>2. q \in Records /\ Sound(s, q) /\ Aside(r, q)
      BY <1>2, <3>1, FlushedIfWritable
    <3> QED
      BY <1>2, <3>2, AddsNothing DEF Aside
  <2> QED
    BY <2>1, <2>2
<1>4. /\ at' = at + 1 /\ pending' = pending
      /\ UNCHANGED <<cast, backlog, clients, phase, revents, handled>>
      /\ pushes' \in Nat /\ dropped' = dropped /\ pages' \in Nat /\ commands' \in Nat
      /\ pending' \in Seq(Waiting)
  BY DEF PollUnreadable, counters, WsInv, WsTypes
<1> HIDE DEF q
<1> QED
  BY <1>1, <1>3, <1>4, VisitKeeps DEF s

LEMMA ReadPartOfRequestKeeps == WsInv /\ ReadPartOfRequest => WsInv' /\ Mute
<1> SUFFICES ASSUME WsInv, ReadPartOfRequest
             PROVE  WsInv' /\ Mute
  OBVIOUS
<1> DEFINE c == clients[at]
           r == conn[c]
           units == r.in \o r.up
           dead == r.dead \/ SeesEnd(r) \/ Len(units) > MaxRequest
           d == [r EXCEPT !.in = units, !.up = <<>>, !.dead = dead]
           q == FlushIfWritable(d)
           s == Script(c)
<1>1. Polling /\ conn' = [conn EXCEPT ![c] = q]
  BY DEF ReadPartOfRequest, Readable
<1>2. r \in Records /\ s \in Scripts /\ Sound(s, r)
  BY <1>1, ClientIs
<1> HIDE DEF s
<1>3. /\ d \in Records /\ Sound(s, d) /\ d.fd = r.fd /\ d.open = r.open
      /\ d.queued = r.queued
  <2>1. dead \in BOOLEAN /\ (r.dead => dead)
    BY <1>2 DEF Records, SeesEnd
  <2> HIDE DEF dead
  <2>2. d \in Records /\ Sound(s, d)
    BY <1>2, <2>1, SoundReceived
  <2>3. d.fd = r.fd /\ d.open = r.open /\ d.queued = r.queued
    BY <1>2 DEF Records
  <2> QED
    BY <2>2, <2>3
<1> HIDE DEF d
<1>4. /\ q \in Records /\ Sound(s, q) /\ Aside(d, q)
  BY <1>3, FlushedIfWritable
<1> HIDE DEF q
<1>5. q.fd = r.fd /\ q.open = r.open /\ Adds(r, q)
  BY <1>2, <1>3, <1>4, AddsNothing DEF Aside
<1>6. /\ at' = at + 1 /\ pending' = pending
      /\ UNCHANGED <<cast, backlog, clients, phase, revents, handled>>
      /\ pushes' \in Nat /\ dropped' = dropped /\ pages' \in Nat /\ commands' \in Nat
      /\ pending' \in Seq(Waiting)
  BY DEF ReadPartOfRequest, counters, WsInv, WsTypes
<1> QED
  BY <1>1, <1>4, <1>5, <1>6, VisitKeeps DEF s

LEMMA ReadRequestKeeps == WsInv /\ ReadRequest => WsInv' /\ Mute
<1> SUFFICES ASSUME WsInv, ReadRequest
             PROVE  WsInv' /\ Mute
  OBVIOUS
<1> DEFINE c == clients[at]
           r == conn[c]
           units == r.in \o r.up
           end == Min({j \in DOMAIN units : EndsMessage(units[j])})
           kind == units[end].msg.kind
           p(n) == [r EXCEPT !.up = SubSeq(units, n + 1, Len(units))]
           s == Script(c)
<1>1. /\ Polling /\ ~r.open /\ HasEnd(units)
      /\ \E n \in end..Min({Len(units), MaxRequest}) :
            conn' = [conn EXCEPT ![c] = FlushIfWritable(Handshaken(p(n), kind))]
  BY DEF ReadRequest, Readable
<1>2. r \in Records /\ s \in Scripts /\ Sound(s, r) /\ ~r.dead
  BY <1>1, ClientIs
<1> HIDE DEF s
<1>3. \A n \in end..Min({Len(units), MaxRequest}) :
         LET h == Handshaken(p(n), kind)
         IN h \in Records /\ Sound(s, h) /\ h.fd = r.fd /\ Adds(r, h)
            /\ h.written = r.written
  BY <1>1, <1>2, SoundHandshake
<1>4. PICK n \in end..Min({Len(units), MaxRequest}) :
         conn' = [conn EXCEPT ![c] = FlushIfWritable(Handshaken(p(n), kind))]
  BY <1>1
<1> DEFINE h == Handshaken(p(n), kind)
           q == FlushIfWritable(h)
<1>5. h \in Records /\ Sound(s, h) /\ h.fd = r.fd /\ Adds(r, h)
  BY <1>3
<1>6. conn' = [conn EXCEPT ![c] = q]
  BY <1>4
<1> HIDE DEF h, units, end, kind
<1>7. /\ q \in Records /\ Sound(s, q) /\ Aside(h, q)
  BY <1>5, FlushedIfWritable
<1> HIDE DEF q
<1>8. q.fd = r.fd /\ (r.open => q.open) /\ Adds(r, q)
  BY <1>1, <1>5, <1>7 DEF Aside, Adds
<1>9. /\ at' = at + 1 /\ pending' = pending
      /\ UNCHANGED <<cast, backlog, clients, phase, revents, handled>>
      /\ pushes' \in Nat /\ dropped' = dropped /\ pages' \in Nat /\ commands' \in Nat
      /\ pending' \in Seq(Waiting)
  <2>1. pages \in Nat
    BY DEF WsInv, WsTypes
  <2>2. pages' = pages + 1 \/ pages' = pages
    BY DEF ReadRequest
  <2>3. pages' \in Nat
    BY <2>1, <2>2
  <2> QED
    BY <2>3 DEF ReadRequest, WsInv, WsTypes
<1> QED
  BY <1>1, <1>6, <1>7, <1>8, <1>9, VisitKeeps DEF s

\* What is read at once waits behind what waited.
LEMMA WaitsBehind ==
    ASSUME NEW S, NEW s \in Seq(S), NEW t \in Seq(S)
    PROVE  /\ s \o t \in Seq(S)
           /\ \A i \in 1..Len(s \o t) :
                 \/ i \in 1..Len(s) /\ (s \o t)[i] = s[i]
                 \/ \E j \in 1..Len(t) : (s \o t)[i] = t[j]
<1> DEFINE st == s \o t
<1>1. /\ st \in Seq(S) /\ Len(st) = Len(s) + Len(t)
      /\ \A i \in 1..(Len(s) + Len(t)) : st[i] = IF i <= Len(s) THEN s[i] ELSE t[i - Len(s)]
      /\ Len(s) \in Nat /\ Len(t) \in Nat
  BY ConcatProperties
<1> HIDE DEF st
<1>2. ASSUME NEW i \in 1..Len(st), i > Len(s)
      PROVE  \E j \in 1..Len(t) : st[i] = t[j]
  <2>1. i - Len(s) \in 1..Len(t) /\ st[i] = t[i - Len(s)]
    BY <1>1, <1>2
  <2> QED
    BY <2>1
<1>3. \A i \in 1..Len(st) : i <= Len(s) => i \in 1..Len(s) /\ st[i] = s[i]
  BY <1>1
<1>4. \A i \in 1..Len(st) : i <= Len(s) \/ i > Len(s)
  BY <1>1
<1> QED
  BY <1>1, <1>2, <1>3, <1>4 DEF st

LEMMA ReadFramesKeeps == WsInv /\ ReadFrames => WsInv' /\ Mute
<1> SUFFICES ASSUME WsInv, ReadFrames
             PROVE  WsInv' /\ Mute
  OBVIOUS
<1> DEFINE c == clients[at]
           r == conn[c]
           units == r.in \o r.up
           good == UpToFatal(units)
           d == Decoded([r EXCEPT !.up = <<>>], units, good)
           e == [d EXCEPT !.dead = @ \/ SeesEnd(r)]
           q == FlushIfWritable(e)
           texts == WholeOf(good, "text")
           more == [i \in DOMAIN texts |-> [fd |-> r.fd, from |-> c, n |-> texts[i].n]]
           s == Script(c)
<1>1. Polling /\ r.open /\ conn' = [conn EXCEPT ![c] = q]
  BY Zenon DEF ReadFrames, Readable
<1>2. r \in Records /\ s \in Scripts /\ Sound(s, r) /\ c \in Conns
  BY <1>1, ClientIs
<1>3. pending' = pending \o more /\ commands' = commands + Len(texts)
  BY Zenon DEF ReadFrames
<1> HIDE DEF s
<1>4. e \in Records /\ Sound(s, e) /\ e.fd = r.fd /\ e.open /\ Adds(r, e)
  <2>1. SeesEnd(r) \in BOOLEAN
    BY DEF SeesEnd
  <2> QED
    BY <1>1, <1>2, <2>1, SoundDecoded
<1>5. texts \in Seq(Messages)
  <2>1. units \in Seq(Units)
    BY <1>2, ConcatProperties DEF Records
  <2> HIDE DEF units
  <2>2. good \in Seq(Units)
    <3>1. PICK n \in 0..Len(units) : good = SubSeq(units, 1, n)
      BY <2>1, UpToFatalIs
    <3> QED
      BY <2>1, <3>1, SplitAt
  <2> HIDE DEF good
  <2> QED
    BY <2>2, WholeOfType
<1> HIDE DEF e, texts, d, good, units
<1>6. q \in Records /\ Sound(s, q) /\ Aside(e, q)
  BY <1>4, FlushedIfWritable
<1> HIDE DEF q
<1>7. q.fd = r.fd /\ q.open /\ Adds(r, q)
  BY <1>4, <1>6 DEF Aside, Adds
<1>8. /\ more \in Seq(Waiting)
      /\ \A j \in 1..Len(more) : more[j].from = c /\ more[j].fd = r.fd
  <2>1. r.fd \in Nat
    BY <1>2 DEF Records
  <2>2. \A i \in DOMAIN texts : texts[i].n \in Nat
    <3>1. \A i \in DOMAIN texts : texts[i] \in Messages
      BY <1>5
    <3> QED
      BY <3>1 DEF Messages
  <2>3. DOMAIN texts = 1..Len(texts) /\ Len(texts) \in Nat
    BY <1>5
  <2> DEFINE w(i) == [fd |-> r.fd, from |-> c, n |-> texts[i].n]
  <2>4. \A i \in 1..Len(texts) : w(i) \in Waiting /\ w(i).from = c /\ w(i).fd = r.fd
    BY <1>2, <2>1, <2>2, <2>3 DEF Waiting
  <2>5. more = [i \in 1..Len(texts) |-> w(i)]
    BY <2>3
  <2> HIDE DEF more, w
  <2>6. more \in Seq(Waiting) /\ Len(more) = Len(texts) /\ \A i \in 1..Len(texts) : more[i] = w(i)
    BY <2>3, <2>4, <2>5
  <2> QED
    BY <2>4, <2>6
<1> HIDE DEF more
<1>9. /\ pending' \in Seq(Waiting)
      /\ \A i \in 1..Len(pending') :
              \/ i \in 1..Len(pending) /\ pending'[i] = pending[i]
              \/ pending'[i].from = c /\ pending'[i].fd = r.fd /\ r.open
  <2>1. pending \in Seq(Waiting)
    BY DEF WsInv, WsTypes
  <2>2. /\ pending \o more \in Seq(Waiting)
        /\ \A i \in 1..Len(pending \o more) :
              \/ i \in 1..Len(pending) /\ (pending \o more)[i] = pending[i]
              \/ \E j \in 1..Len(more) : (pending \o more)[i] = more[j]
    BY <1>8, <2>1, WaitsBehind
  <2> QED
    BY <1>1, <1>3, <1>8, <2>2
<1>10. /\ at' = at + 1
       /\ UNCHANGED <<cast, backlog, clients, phase, revents, handled>>
       /\ pushes' \in Nat /\ dropped' = dropped /\ pages' \in Nat /\ commands' \in Nat
  <2>1. commands \in Nat /\ Len(texts) \in Nat
    BY <1>5 DEF WsInv, WsTypes
  <2>2. commands' \in Nat
    BY <1>3, <2>1
  <2> QED
    BY <2>2 DEF ReadFrames, WsInv, WsTypes
<1> QED
  BY <1>1, <1>6, <1>7, <1>9, <1>10, VisitKeeps DEF s

(***************************************************************************)
(* Counting clients and descriptors.                                       *)
(***************************************************************************)
LEMMA ApartFits ==
    ASSUME NEW S, IsFiniteSet(S), NEW s \in Seq(S), Apart(s)
    PROVE  Len(s) <= Cardinality(S)
<1> SUFFICES ASSUME ~(Len(s) <= Cardinality(S))
             PROVE  FALSE
  OBVIOUS
<1> DEFINE n == Len(s)
           T == 1..n
<1>1. n \in Nat /\ s \in [T -> S]
  OBVIOUS
<1>2. Cardinality(S) \in Nat
  BY FS_CardinalityType
<1>3. IsFiniteSet(T) /\ Cardinality(T) = n
  <2>1. IsFiniteSet(1..n) /\ Cardinality(1..n) = IF 1 > n THEN 0 ELSE n - 1 + 1
    BY <1>1, FS_Interval, SMTT(30)
  <2> QED
    BY <1>1, <2>1
<1>4. Cardinality(S) < Cardinality(T)
  BY <1>1, <1>2, <1>3
<1> HIDE DEF T
<1>5. \E x, y \in T : x # y /\ s[x] = s[y]
  BY <1>1, <1>3, <1>4, FS_PigeonHole
<1> QED
  BY <1>5 DEF Apart, T

\* Of n + 1 descriptors n clients leave one free.
LEMMA OneIsFree ==
    ASSUME NEW n \in Nat, NEW used, NEW fd, used = {fd[i] : i \in 1..n}
    PROVE  (1..(n + 1)) \ used # {}
<1> SUFFICES ASSUME \A k \in 1..(n + 1) : \E i \in 1..n : fd[i] = k
             PROVE  FALSE
  OBVIOUS
<1> DEFINE T == 1..(n + 1)
           h == [k \in T |-> CHOOSE i \in 1..n : fd[i] = k]
<1>1. \A k \in T : h[k] \in 1..n /\ fd[h[k]] = k
  OBVIOUS
<1>2. h \in [T -> 1..n]
  BY <1>1
<1>3. /\ IsFiniteSet(T) /\ Cardinality(T) = n + 1
      /\ IsFiniteSet(1..n) /\ Cardinality(1..n) = n
  <2>1. IsFiniteSet(1..n) /\ Cardinality(1..n) = IF 1 > n THEN 0 ELSE n - 1 + 1
    BY FS_Interval
  <2>2. IsFiniteSet(T) /\ Cardinality(T) = IF 1 > n + 1 THEN 0 ELSE (n + 1) - 1 + 1
    BY FS_Interval
  <2> QED
    BY <2>1, <2>2
<1> DEFINE U == 1..n
<1> HIDE DEF T, h, U
<1>4. \E x, y \in T : x # y /\ h[x] = h[y]
  <2>1. h \in [T -> U] /\ IsFiniteSet(T) /\ IsFiniteSet(U)
    BY <1>2, <1>3 DEF U
  <2>2. Cardinality(U) < Cardinality(T)
    BY <1>3 DEF U
  <2> QED
    BY <2>1, <2>2, FS_PigeonHole
<1> QED
  BY <1>1, <1>4

LEMMA TailIs ==
    ASSUME NEW S, NEW s \in Seq(S), s # <<>>
    PROVE  /\ Len(s) \in Nat /\ Len(s) >= 1 /\ Head(s) = s[1] /\ Head(s) \in S
           /\ Tail(s) \in Seq(S) /\ Len(Tail(s)) = Len(s) - 1
           /\ \A i \in 1..(Len(s) - 1) : Tail(s)[i] = s[i + 1]
OBVIOUS

(***************************************************************************)
(* The other steps of the server.                                          *)
(***************************************************************************)
\* Records that differ only in the descriptor, or in being closed.
LEMMA SoundRenamed ==
    ASSUME NEW s, NEW r \in Records, Sound(s, r), NEW q \in Records,
           q.got = r.got, q.down = r.down, q.out = r.out, q.queued = r.queued,
           q.written = r.written, q.up = r.up, q.in = r.in,
           q.open = r.open, q.dead = r.dead
    PROVE  Sound(s, q)
<1>1. Fitting(q) /\ Whole(q)
  BY DEF Sound, Fitting, Whole
<1> QED
  BY <1>1, SoundAside

LEMMA AcceptNewKeeps == WsInv /\ AcceptNew => WsInv' /\ Mute
<1> SUFFICES ASSUME WsInv, AcceptNew
             PROVE  WsInv' /\ Mute
  OBVIOUS
<1> DEFINE n == Len(clients)
           used == {conn[clients[i]].fd : i \in DOMAIN clients}
           fd == Min((1..(n + 1)) \ used)
           c == Head(backlog)
           r == conn[c]
           q == [r EXCEPT !.fd = fd]
<1>1. /\ conn' = [conn EXCEPT ![c] = q] /\ clients' = Append(clients, c)
      /\ backlog' = Tail(backlog) /\ backlog # <<>>
      /\ phase \in {"idle", "accept"} /\ phase' = "accept"
      /\ UNCHANGED <<cast, at, revents, pending, counters, handled>>
  BY DEF AcceptNew
<1>2. /\ conn \in [Conns -> Records] /\ backlog \in Seq(Conns) /\ clients \in Seq(Conns)
      /\ revents = <<>> /\ pending = <<>>
  BY <1>1 DEF WsInv, WsTypes, Listed, Rounds
<1>3. n \in Nat /\ DOMAIN clients = 1..n /\ \A i \in 1..n : clients[i] \in Conns
  BY <1>2
<1>4. /\ Len(backlog) \in Nat /\ Len(backlog) >= 1 /\ c = backlog[1] /\ c \in Conns
      /\ backlog' \in Seq(Conns) /\ Len(backlog') = Len(backlog) - 1
      /\ \A j \in 1..(Len(backlog) - 1) : backlog'[j] = backlog[j + 1]
  BY <1>1, <1>2, TailIs
<1>5. /\ clients' \in Seq(Conns) /\ Len(clients') = n + 1
      /\ \A i \in 1..n : clients'[i] = clients[i]
      /\ clients'[n + 1] = c
  BY <1>1, <1>2, <1>4, AppendIs
<1>6. \A i \in 1..n : clients[i] # c
  BY <1>4 DEF WsInv, Listed, ListedOnce
<1>7. \A i \in 1..(n + 1) : i \in 1..n \/ i = n + 1
  BY <1>3
<1>8. ListedOnce'
  <2>1. Apart(clients')
    BY <1>5, <1>6, <1>7 DEF WsInv, Listed, ListedOnce, Apart
  <2>2. \A j \in 1..(Len(backlog) - 1) : j \in 1..Len(backlog) /\ j + 1 \in 1..Len(backlog) /\ j + 1 # 1
    BY <1>4
  <2>3. \A i, j \in 1..(Len(backlog) - 1) : i # j => i + 1 # j + 1
    BY <1>4
  <2>4. Apart(backlog')
    BY <1>4, <2>2, <2>3 DEF WsInv, Listed, ListedOnce, Apart
  <2>5. 1 \in 1..Len(backlog)
    BY <1>4
  <2>6. ASSUME NEW i \in 1..(n + 1), NEW j \in 1..(Len(backlog) - 1)
        PROVE  clients'[i] # backlog'[j]
    <3>1. backlog'[j] = backlog[j + 1] /\ backlog[j + 1] # c
      BY <1>4, <2>2, <2>5 DEF WsInv, Listed, ListedOnce, Apart
    <3>2. CASE i \in 1..n
      BY <1>5, <2>2, <3>1, <3>2 DEF WsInv, Listed, ListedOnce
    <3>3. CASE i = n + 1
      BY <1>5, <3>1, <3>3
    <3> QED
      BY <1>7, <3>2, <3>3
  <2> QED
    BY <1>4, <1>5, <2>1, <2>4, <2>6 DEF ListedOnce
<1>9. /\ fd \in 1..(n + 1) /\ \A i \in 1..n : conn[clients[i]].fd # fd
      /\ n + 1 <= Cardinality(Conns) /\ Cardinality(Conns) \in Nat
  <2> DEFINE g == [i \in 1..n |-> conn[clients[i]].fd]
             free == (1..(n + 1)) \ used
  <2>1. used = {g[i] : i \in 1..n}
    BY <1>3
  <2> HIDE DEF g, used
  <2>2. free # {}
    BY <1>3, <2>1, OneIsFree
  <2>3. free \in SUBSET Nat
    BY <1>3
  <2> HIDE DEF free
  <2>4. fd \in free
    <3>1. Min(free) \in free
      BY <2>2, <2>3, MinIs
    <3> QED
      BY <3>1 DEF free
  <2>5. fd \in 1..(n + 1) /\ fd \notin used
    BY <2>4 DEF free
  <2>6. \A i \in 1..n : conn[clients[i]].fd # fd
    BY <1>3, <2>5 DEF used
  <2>7. Len(clients') <= Cardinality(Conns)
    <3> DEFINE t == clients'
    <3>1. t \in Seq(Conns) /\ Apart(t)
      BY <1>5, <1>8 DEF ListedOnce
    <3> HIDE DEF t
    <3>2. Len(t) <= Cardinality(Conns)
      BY <3>1, ServerConstants, ApartFits
    <3> QED
      BY <3>2 DEF t
  <2> QED
    BY <1>5, <2>5, <2>6, <2>7, ServerConstants, FS_CardinalityType
<1> HIDE DEF fd
<1>10. /\ q \in Records /\ Sound(Script(c), q) /\ q.fd = fd
       /\ q.open = r.open /\ q.dead = r.dead /\ q.queued = r.queued
  <2>1. r \in Records /\ Sound(Script(c), r) /\ fd \in Nat
    BY <1>2, <1>3, <1>4, <1>9 DEF WsInv, AllSound
  <2> HIDE DEF r
  <2>2. /\ q \in Records /\ q.fd = fd
        /\ q.got = r.got /\ q.down = r.down /\ q.out = r.out /\ q.queued = r.queued
        /\ q.written = r.written /\ q.up = r.up /\ q.in = r.in
        /\ q.open = r.open /\ q.dead = r.dead
    BY <2>1 DEF Records
  <2> HIDE DEF q
  <2> QED
    BY <2>1, <2>2, SoundRenamed
<1> HIDE DEF q
<1>11. conn' \in [Conns -> Records] /\ \A x \in Conns : conn'[x] = IF x = c THEN q ELSE conn[x]
  BY <1>1, <1>2, <1>4, <1>10
<1>12. WsTypes'
  BY <1>1, <1>2, <1>4, <1>5, <1>11 DEF WsInv, WsTypes, counters
<1>13. AllSound'
  BY <1>1, <1>10, <1>11 DEF WsInv, AllSound, Script
<1>14. FdsApart'
  <2>1. \A x \in Conns : conn'[x].fd <= Cardinality(Conns)
    BY <1>3, <1>9, <1>10, <1>11 DEF WsInv, Listed, FdsApart
  <2>2. \A i \in 1..n : conn'[clients'[i]].fd = conn[clients[i]].fd
    BY <1>3, <1>5, <1>6, <1>11
  <2>3. conn'[clients'[n + 1]].fd = fd /\ fd # 0
    BY <1>3, <1>4, <1>5, <1>9, <1>10, <1>11
  <2>4. \A i \in 1..(n + 1) : conn'[clients'[i]].fd # 0
    BY <1>7, <2>2, <2>3 DEF WsInv, Listed, FdsApart
  <2>5. \A i, j \in 1..(n + 1) : i # j => conn'[clients'[i]].fd # conn'[clients'[j]].fd
    BY <1>7, <1>9, <2>2, <2>3 DEF WsInv, Listed, FdsApart
  <2> QED
    BY <1>5, <2>1, <2>4, <2>5 DEF FdsApart
<1>15. BacklogFresh'
  <2> SUFFICES ASSUME NEW j \in 1..(Len(backlog) - 1)
               PROVE  ~conn'[backlog'[j]].dead
    BY <1>4 DEF BacklogFresh
  <2>1. j + 1 \in 1..Len(backlog) /\ backlog'[j] = backlog[j + 1] /\ backlog[j + 1] \in Conns
    BY <1>2, <1>4
  <2>2. 1 \in 1..Len(backlog) /\ 1 # j + 1
    BY <1>4
  <2>3. backlog[j + 1] # c /\ ~conn[backlog[j + 1]].dead
    BY <1>4, <2>1, <2>2 DEF WsInv, Listed, ListedOnce, Apart, BacklogFresh
  <2> QED
    BY <1>11, <2>1, <2>3
<1>16. DeadOnlyPast'
  <2>1. 1 \in 1..Len(backlog)
    BY <1>4
  <2>2. ~q.dead
    BY <1>4, <1>10, <2>1 DEF WsInv, Listed, BacklogFresh
  <2>3. \A i \in 1..n : ~conn[clients[i]].dead
    BY <1>1 DEF WsInv, Listed, DeadOnlyPast
  <2>4. \A i \in 1..n : ~conn'[clients'[i]].dead
    BY <1>3, <1>5, <1>6, <1>11, <2>3
  <2>5. ~conn'[clients'[n + 1]].dead
    BY <1>4, <1>5, <1>11, <2>2
  <2>6. \A i \in 1..(n + 1) : ~conn'[clients'[i]].dead
    BY <1>7, <2>4, <2>5
  <2> QED
    BY <1>5, <2>6 DEF DeadOnlyPast
<1>17. Rounds'
  BY <1>1, <1>2 DEF Rounds
<1>18. Senders'
  <2>1. Len(pending') = 0
    BY <1>1, <1>2
  <2> QED
    BY <2>1 DEF Senders
<1>19. Mute
  <2>1. dropped' >= dropped /\ handled' = handled
    BY <1>1 DEF WsInv, WsTypes, counters
  <2>2. \A x \in Conns : Adds(conn[x], conn'[x]) /\ (conn[x].dead => conn'[x].dead)
    <3> SUFFICES ASSUME NEW x \in Conns
                 PROVE  Adds(conn[x], conn'[x]) /\ (conn[x].dead => conn'[x].dead)
      OBVIOUS
    <3>1. conn'[x].queued = conn[x].queued /\ conn'[x].dead = conn[x].dead
      BY <1>10, <1>11
    <3> QED
      BY <1>2, <3>1, AddsNothing
  <2> QED
    BY <2>1, <2>2 DEF Mute
<1> QED
  BY <1>8, <1>12, <1>13, <1>14, <1>15, <1>16, <1>17, <1>18, <1>19 DEF WsInv, Listed

\* What changes no record is heard by nobody.
LEMMA MuteIfSame ==
    ASSUME WsInv, conn' = conn, handled' = handled, dropped' = dropped
    PROVE  Mute
<1>1. dropped' >= dropped
  BY DEF WsInv, WsTypes
<1>2. \A c \in Conns : Adds(conn[c], conn'[c]) /\ (conn[c].dead => conn'[c].dead)
  BY AddsNothing DEF WsInv, WsTypes
<1> QED
  BY <1>1, <1>2 DEF Mute

LEMMA PollKeeps == WsInv /\ Poll => WsInv' /\ Mute
<1> SUFFICES ASSUME WsInv, Poll
             PROVE  WsInv' /\ Mute
  OBVIOUS
<1> DEFINE n == Len(clients)
           report(r) == [err |-> r.ended = "reset",
                         readable |-> r.up # <<>> \/ r.ended = "fin",
                         writable |-> r.out # <<>> /\ Len(r.down) < SocketBuffer]
<1>1. /\ phase \in {"idle", "accept"} /\ phase' = "poll" /\ at' = 1
      /\ revents' = [i \in DOMAIN clients |-> report(conn[clients[i]])]
      /\ UNCHANGED <<cast, conn, backlog, clients, pending, counters, handled>>
  BY DEF Poll
<1>2. clients \in Seq(Conns) /\ n \in Nat /\ DOMAIN clients = 1..n
  BY DEF WsInv, WsTypes
<1>3. \A r : report(r) \in Polls
  BY DEF Polls
<1> HIDE DEF report
<1>4. revents' \in Seq(Polls) /\ Len(revents') = n
  <2> DEFINE told == [i \in 1..n |-> report(conn[clients[i]])]
  <2>1. revents' = told
    BY <1>1, <1>2
  <2>2. told \in Seq(Polls) /\ Len(told) = n
    BY <1>2, <1>3
  <2> QED
    BY <2>1, <2>2
<1>5. WsTypes'
  BY <1>1, <1>4 DEF WsInv, WsTypes, counters
<1>6. AllSound'
  BY <1>1 DEF WsInv, AllSound, Script
<1>7. ListedOnce' /\ FdsApart' /\ BacklogFresh'
  BY <1>1 DEF WsInv, Listed, ListedOnce, Apart, FdsApart, BacklogFresh
<1>8. DeadOnlyPast'
  BY <1>1 DEF WsInv, Listed, DeadOnlyPast
<1>9. Rounds'
  BY <1>1, <1>4 DEF Rounds
<1>10. Senders'
  BY <1>1 DEF WsInv, Listed, Senders
<1>11. Mute
  BY <1>1, MuteIfSame DEF counters
<1> QED
  BY <1>5, <1>6, <1>7, <1>8, <1>9, <1>10, <1>11 DEF WsInv, Listed

(***************************************************************************)
(* The steps of the browsers.                                              *)
(***************************************************************************)
LEMMA TouchKeeps ==
    ASSUME WsInv, NEW c \in Conns, NEW q \in Records, conn' = [conn EXCEPT ![c] = q],
           Sound(Script(c), q), q.fd = conn[c].fd, q.open = conn[c].open,
           q.dead = conn[c].dead, q.queued = conn[c].queued,
           UNCHANGED <<backlog, serverVars>>
    PROVE  WsInv' /\ Mute
<1>1. /\ conn \in [Conns -> Records] /\ clients \in Seq(Conns) /\ backlog \in Seq(Conns)
      /\ UNCHANGED <<backlog, cast, clients, phase, at, revents, pending, counters, handled>>
  BY DEF WsInv, WsTypes, serverVars
<1>2. /\ conn' \in [Conns -> Records]
      /\ \A x \in Conns : conn'[x] = IF x = c THEN q ELSE conn[x]
  BY <1>1
<1>3. \A x \in Conns : /\ conn'[x].fd = conn[x].fd /\ conn'[x].open = conn[x].open
                       /\ conn'[x].dead = conn[x].dead /\ conn'[x].queued = conn[x].queued
  BY <1>2
<1>4. /\ \A i \in 1..Len(clients) : clients[i] \in Conns
      /\ \A j \in 1..Len(backlog) : backlog[j] \in Conns
  BY <1>1
<1>5. WsTypes'
  BY <1>1, <1>2 DEF WsInv, WsTypes, counters
<1>6. AllSound'
  BY <1>1, <1>2 DEF WsInv, AllSound, Script
<1>7. ListedOnce' /\ Rounds'
  BY <1>1 DEF WsInv, Listed, ListedOnce, Apart, Rounds
<1>8. FdsApart'
  BY <1>1, <1>3, <1>4 DEF WsInv, Listed, FdsApart
<1>9. BacklogFresh'
  BY <1>1, <1>3, <1>4 DEF WsInv, Listed, BacklogFresh
<1>10. DeadOnlyPast'
  BY <1>1, <1>3, <1>4 DEF WsInv, Listed, DeadOnlyPast
<1>11. Senders'
  BY <1>1, <1>3, <1>4 DEF WsInv, Listed, Senders
<1>12. Mute
  <2>1. dropped' >= dropped /\ handled' = handled
    BY <1>1 DEF WsInv, WsTypes, counters
  <2>2. \A x \in Conns : Adds(conn[x], conn'[x]) /\ (conn[x].dead => conn'[x].dead)
    BY <1>1, <1>3, AddsNothing
  <2> QED
    BY <2>1, <2>2 DEF Mute
<1> QED
  BY <1>5, <1>6, <1>7, <1>8, <1>9, <1>10, <1>11, <1>12 DEF WsInv, Listed

LEMMA ConnectKeeps ==
    ASSUME NEW c \in Conns
    PROVE  WsInv /\ Connect(c) => WsInv' /\ Mute
<1> SUFFICES ASSUME WsInv, Connect(c)
             PROVE  WsInv' /\ Mute
  OBVIOUS
<1> DEFINE n == Len(backlog)
<1>1. /\ conn[c] = NewConn /\ ~Connected(c) /\ backlog' = Append(backlog, c)
      /\ UNCHANGED <<conn, cast, clients, phase, at, revents, pending, counters, handled>>
  BY DEF Connect, serverVars
<1>2. backlog \in Seq(Conns) /\ clients \in Seq(Conns) /\ n \in Nat
  BY DEF WsInv, WsTypes
<1>3. /\ backlog' \in Seq(Conns) /\ Len(backlog') = n + 1
      /\ \A j \in 1..n : backlog'[j] = backlog[j]
      /\ backlog'[n + 1] = c
  BY <1>1, <1>2, AppendIs
<1>4. /\ \A j \in 1..n : backlog[j] # c
      /\ \A i \in 1..Len(clients) : clients[i] # c
  <2>1. c \notin ToSet(backlog) /\ c \notin ToSet(clients)
    BY <1>1 DEF Connected
  <2> QED
    BY <1>2, <2>1 DEF ToSet
<1>5. \A j \in 1..(n + 1) : j \in 1..n \/ j = n + 1
  BY <1>2
<1>6. WsTypes'
  BY <1>1, <1>3 DEF WsInv, WsTypes, counters
<1>7. AllSound'
  BY <1>1 DEF WsInv, AllSound, Script
<1>8. ListedOnce'
  <2>1. Apart(backlog')
    BY <1>3, <1>4, <1>5 DEF WsInv, Listed, ListedOnce, Apart
  <2>2. \A i \in 1..Len(clients), j \in 1..(n + 1) : clients[i] # backlog'[j]
    BY <1>3, <1>4, <1>5 DEF WsInv, Listed, ListedOnce
  <2> QED
    BY <1>1, <1>3, <2>1, <2>2 DEF WsInv, Listed, ListedOnce, Apart
<1>9. FdsApart' /\ DeadOnlyPast' /\ Rounds' /\ Senders'
  BY <1>1 DEF WsInv, Listed, FdsApart, DeadOnlyPast, Rounds, Senders
<1>10. BacklogFresh'
  <2>1. ~conn[c].dead
    BY <1>1 DEF NewConn
  <2>2. \A j \in 1..(n + 1) : ~conn[backlog'[j]].dead
    BY <1>3, <1>5, <2>1 DEF WsInv, Listed, BacklogFresh
  <2> QED
    BY <1>1, <1>3, <2>2 DEF BacklogFresh
<1>11. Mute
  BY <1>1, MuteIfSame DEF counters
<1> QED
  BY <1>6, <1>7, <1>8, <1>9, <1>10, <1>11 DEF WsInv, Listed

LEMMA WriteKeeps ==
    ASSUME NEW c \in Conns
    PROVE  WsInv /\ Write(c) => WsInv' /\ Mute
<1> SUFFICES ASSUME WsInv, Write(c)
             PROVE  WsInv' /\ Mute
  OBVIOUS
<1> DEFINE r == conn[c]
           s == Script(c)
           all == UnitsOfAll(s)
           next == all[r.written + 1]
           q == [r EXCEPT !.up = Append(@, next), !.written = @ + 1]
<1>1. /\ r.written < Len(all)
      /\ \/ next.msg.kind \in Requests
         \/ \E i \in DOMAIN r.got : r.got[i].msg.kind = "101"
      /\ UNCHANGED <<backlog, serverVars>>
      /\ conn' = [conn EXCEPT ![c].up = Append(@, next), ![c].written = @ + 1]
  BY DEF Write, Requests
<1>2. conn \in [Conns -> Records] /\ r \in Records /\ Sound(s, r) /\ s \in Scripts
  BY ScriptOf DEF WsInv, WsTypes, AllSound
<1>3. conn' = [conn EXCEPT ![c] = q]
  BY <1>1, <1>2
<1> HIDE DEF s
<1>4. q \in Records /\ Sound(s, q)
  BY <1>1, <1>2, SoundWritten
<1>5. /\ q.fd = r.fd /\ q.open = r.open
      /\ q.dead = r.dead /\ q.queued = r.queued
  BY <1>2 DEF Records
<1> HIDE DEF q, all
<1> QED
  BY <1>1, <1>3, <1>4, <1>5, TouchKeeps DEF s

LEMMA ReadKeeps ==
    ASSUME NEW c \in Conns
    PROVE  WsInv /\ Read(c) => WsInv' /\ Mute
<1> SUFFICES ASSUME WsInv, Read(c)
             PROVE  WsInv' /\ Mute
  OBVIOUS
<1> DEFINE r == conn[c]
           s == Script(c)
           q == [r EXCEPT !.got = Append(@, Head(r.down)), !.down = Tail(@)]
<1>1. /\ r.down # <<>>
      /\ UNCHANGED <<backlog, serverVars>>
      /\ conn' = [conn EXCEPT ![c].got = Append(@, Head(r.down)), ![c].down = Tail(@)]
  BY DEF Read
<1>2. conn \in [Conns -> Records] /\ r \in Records /\ Sound(s, r)
  BY DEF WsInv, WsTypes, AllSound
<1>3. conn' = [conn EXCEPT ![c] = q]
  BY <1>1, <1>2
<1> HIDE DEF s
<1>4. q \in Records /\ Sound(s, q)
  BY <1>1, <1>2, SoundRead
<1>5. /\ q.fd = r.fd /\ q.open = r.open
      /\ q.dead = r.dead /\ q.queued = r.queued
  BY <1>2 DEF Records
<1> HIDE DEF q
<1> QED
  BY <1>1, <1>3, <1>4, <1>5, TouchKeeps DEF s

LEMMA EndKeeps ==
    ASSUME NEW c \in Conns, NEW how
    PROVE  WsInv /\ End(c, how) => WsInv' /\ Mute
<1> SUFFICES ASSUME WsInv, End(c, how)
             PROVE  WsInv' /\ Mute
  OBVIOUS
<1> DEFINE r == conn[c]
           q == [r EXCEPT !.ended = how]
<1>1. /\ how \in cast[c].leaves
      /\ UNCHANGED <<backlog, serverVars>>
      /\ conn' = [conn EXCEPT ![c].ended = how]
  BY DEF End
<1>2. conn \in [Conns -> Records] /\ r \in Records /\ Sound(Script(c), r)
  BY DEF WsInv, WsTypes, AllSound
<1>3. conn' = [conn EXCEPT ![c] = q]
  BY <1>1, <1>2
<1>4. how \in {"no", "fin", "reset"}
  <2>1. cast \in Casts
    BY DEF WsInv, WsTypes
  <2> QED
    BY <1>1, <2>1, CastsAreBrowsers
<1>5. /\ q \in Records /\ q.fd = r.fd
      /\ q.got = r.got /\ q.down = r.down /\ q.out = r.out /\ q.queued = r.queued
      /\ q.written = r.written /\ q.up = r.up /\ q.in = r.in
      /\ q.open = r.open /\ q.dead = r.dead
  BY <1>2, <1>4 DEF Records
<1> HIDE DEF q
<1>6. Sound(Script(c), q)
  BY <1>2, <1>5, SoundRenamed
<1> QED
  BY <1>1, <1>3, <1>5, <1>6, TouchKeeps

(***************************************************************************)
(* A message to some of the clients, and the end of a round.               *)
(***************************************************************************)
SentTo(S, m) == [c \in Conns |-> IF c \in S THEN Flushed(Put(conn[c], m)) ELSE conn[c]]

\* now is what the records may be once m was put into those of S.
HasGone(now, S, m) ==
    /\ now \in [Conns -> Records]
    /\ \A c \in Conns :
          /\ Sound(Script(c), now[c])
          /\ now[c].fd = conn[c].fd /\ now[c].open = conn[c].open
          /\ conn[c].dead => now[c].dead
          /\ IF c \in S THEN now[c].queued = Append(conn[c].queued, m)
             ELSE now[c] = conn[c]

LEMMA SentToKeeps ==
    ASSUME WsInv, NEW S \in SUBSET Conns, NEW m \in Messages,
           \A c \in S : conn[c].open /\ Fits(conn[c], m.kind)
    PROVE  HasGone(SentTo(S, m), S, m)
<1> DEFINE now == SentTo(S, m)
           sent(c) == Flushed(Put(conn[c], m))
<1>1. \A c \in Conns : now[c] = IF c \in S THEN sent(c) ELSE conn[c]
  BY DEF SentTo
<1>2. \A c \in Conns : conn[c] \in Records /\ Sound(Script(c), conn[c])
  BY DEF WsInv, WsTypes, AllSound
<1>3. ASSUME NEW c \in S
      PROVE  /\ sent(c) \in Records /\ Sound(Script(c), sent(c))
             /\ sent(c).fd = conn[c].fd /\ sent(c).open = conn[c].open
             /\ (conn[c].dead => sent(c).dead)
             /\ sent(c).queued = Append(conn[c].queued, m)
  <2> DEFINE r == conn[c]
             s == Script(c)
  <2>1. r \in Records /\ Sound(s, r) /\ r.open /\ Fits(r, m.kind)
    BY <1>2
  <2> HIDE DEF r, s
  <2>2. LET q == Flushed(Put(r, m))
        IN /\ q \in Records /\ Sound(s, q)
           /\ q.fd = r.fd /\ q.open = r.open /\ (r.dead => q.dead)
           /\ q.queued = Append(r.queued, m)
    BY <2>1, SoundPut
  <2> QED
    BY <2>2 DEF r, s
<1>4. now = [c \in Conns |-> now[c]]
  BY DEF SentTo
<1> HIDE DEF now, sent
<1>5. \A c \in Conns : now[c] \in Records
  BY <1>1, <1>2, <1>3
<1>6. now \in [Conns -> Records]
  BY <1>4, <1>5
<1>7. \A c \in Conns : /\ Sound(Script(c), now[c])
                       /\ now[c].fd = conn[c].fd /\ now[c].open = conn[c].open
                       /\ conn[c].dead => now[c].dead
                       /\ IF c \in S THEN now[c].queued = Append(conn[c].queued, m)
                          ELSE now[c] = conn[c]
  BY <1>1, <1>2, <1>3
<1> QED
  BY <1>6, <1>7 DEF now, HasGone

LEMMA LivingIs ==
    ASSUME WsInv, NEW now
    PROVE  /\ Living(now) \in Seq(Conns) /\ Apart(Living(now))
           /\ ToSet(Living(now)) = {c \in ToSet(clients) : ~now[c].dead}
<1> DEFINE good == {c \in Conns : ~now[c].dead}
           s == clients
           t == Among(s, good)
<1>1. s \in Seq(Conns) /\ Apart(s)
  BY DEF WsInv, WsTypes, Listed, ListedOnce
<1>2. t = Living(now)
  BY DEF Living
<1>3. ToSet(s) \subseteq Conns
  BY <1>1 DEF ToSet
<1> HIDE DEF s, good
<1>4. t \in Seq(Conns)
  BY <1>1, AmongType
<1>5. /\ ToSet(t) = ToSet(s) \cap good
      /\ (\A i, j \in 1..Len(s) : i # j => s[i] # s[j]) =>
                    \A i, j \in 1..Len(t) : i # j => t[i] # t[j]
  BY <1>1, AmongKeeps
<1> HIDE DEF t
<1>6. Apart(t)
  BY <1>1, <1>5 DEF Apart
<1> QED
  BY <1>2, <1>3, <1>4, <1>5, <1>6 DEF good, s

\* service() or a push ends: the dead are closed and off the list.
LEMMA ReapedKeeps ==
    ASSUME WsInv, NEW now \in [Conns -> Records],
           \A c \in Conns : /\ Sound(Script(c), now[c])
                            /\ now[c].fd = conn[c].fd /\ now[c].open = conn[c].open
                            /\ c \notin ToSet(clients) => now[c] = conn[c],
           conn' = Reaped(now), clients' = Living(now),
           phase' \in {"idle", "accept"}, at' \in Nat, revents' = <<>>, pending' = <<>>,
           UNCHANGED <<cast, backlog, handled>>,
           pushes' \in Nat, dropped' \in Nat, pages' \in Nat, commands' \in Nat
    PROVE  /\ WsInv'
           /\ \A c \in Conns : conn'[c].queued = now[c].queued /\ conn'[c].dead = now[c].dead
<1> DEFINE closed(r) == [r EXCEPT !.closed = TRUE, !.fd = 0]
<1>1. \A c \in Conns :
         conn'[c] = IF c \in ToSet(clients) /\ now[c].dead THEN closed(now[c]) ELSE now[c]
  BY DEF Reaped
<1>2. \A r \in Records :
         /\ closed(r) \in Records /\ closed(r).fd = 0
         /\ closed(r).got = r.got /\ closed(r).down = r.down /\ closed(r).out = r.out
         /\ closed(r).written = r.written /\ closed(r).up = r.up /\ closed(r).in = r.in
         /\ closed(r).open = r.open /\ closed(r).dead = r.dead /\ closed(r).queued = r.queued
  BY DEF Records
<1>3. ASSUME NEW c \in Conns
      PROVE  closed(now[c]) \in Records /\ Sound(Script(c), closed(now[c]))
  <2> DEFINE q == closed(now[c])
             r == now[c]
             s == Script(c)
  <2>1. r \in Records /\ Sound(s, r)
    OBVIOUS
  <2>2. /\ q \in Records /\ q.got = r.got /\ q.down = r.down /\ q.out = r.out
        /\ q.written = r.written /\ q.up = r.up /\ q.in = r.in
        /\ q.open = r.open /\ q.dead = r.dead /\ q.queued = r.queued
    BY <1>2, <2>1
  <2> HIDE DEF q, r, s
  <2>3. Sound(s, q)
    BY <2>1, <2>2, SoundRenamed
  <2> QED
    BY <2>2, <2>3 DEF q, s
<1> HIDE DEF closed
<1>4. conn' = [c \in Conns |-> conn'[c]]
  BY DEF Reaped
<1>5. \A c \in Conns : conn'[c] \in Records /\ Sound(Script(c), conn'[c])
  BY <1>1, <1>3
<1>6. conn' \in [Conns -> Records]
  BY <1>4, <1>5
<1>7. \A c \in Conns : conn'[c].queued = now[c].queued /\ conn'[c].dead = now[c].dead
  BY <1>1, <1>2
<1>8. /\ clients' \in Seq(Conns) /\ Apart(clients')
      /\ ToSet(clients') = {c \in ToSet(clients) : ~now[c].dead}
  BY LivingIs
<1>9. /\ clients \in Seq(Conns) /\ backlog \in Seq(Conns)
      /\ \A i \in 1..Len(clients') : clients'[i] \in ToSet(clients')
      /\ \A i \in 1..Len(clients') :
            \E k \in 1..Len(clients) : clients'[i] = clients[k] /\ ~now[clients[k]].dead
  <2>1. clients \in Seq(Conns) /\ backlog \in Seq(Conns)
    BY DEF WsInv, WsTypes
  <2>2. \A i \in 1..Len(clients') : clients'[i] \in ToSet(clients')
    BY <1>8 DEF ToSet
  <2>3. \A i \in 1..Len(clients') : clients'[i] \in ToSet(clients) /\ ~now[clients'[i]].dead
    BY <1>8, <2>2
  <2>4. \A x \in ToSet(clients) : \E k \in 1..Len(clients) : x = clients[k]
    BY <2>1 DEF ToSet
  <2>5. ASSUME NEW i \in 1..Len(clients')
        PROVE  \E k \in 1..Len(clients) : clients'[i] = clients[k] /\ ~now[clients[k]].dead
    <3>1. PICK k \in 1..Len(clients) : clients'[i] = clients[k]
      BY <2>3, <2>4
    <3> QED
      BY <2>3, <3>1
  <2> QED
    BY <2>1, <2>2, <2>5
<1>10. \A i \in 1..Len(clients') :
          clients'[i] \in Conns /\ conn'[clients'[i]] = now[clients'[i]] /\ ~now[clients'[i]].dead
  BY <1>1, <1>8, <1>9
<1>11. WsTypes'
  BY <1>6, <1>8 DEF WsInv, WsTypes
<1>12. AllSound'
  BY <1>5 DEF AllSound, Script
<1>13. ListedOnce'
  <2>1. ASSUME NEW i \in 1..Len(clients'), NEW j \in 1..Len(backlog)
        PROVE  clients'[i] # backlog[j]
    BY <1>9 DEF WsInv, Listed, ListedOnce
  <2> QED
    BY <1>8, <2>1 DEF WsInv, Listed, ListedOnce, Apart
<1>14. FdsApart'
  <2>1. \A c \in Conns : conn'[c].fd <= Cardinality(Conns)
    <3>1. Cardinality(Conns) \in Nat
      BY ServerConstants, FS_CardinalityType
    <3> QED
      BY <1>1, <1>2, <3>1 DEF WsInv, Listed, FdsApart
  <2>2. \A i \in 1..Len(clients') :
           \E k \in 1..Len(clients) :
              clients'[i] = clients[k] /\ conn'[clients'[i]].fd = conn[clients[k]].fd
    <3> SUFFICES ASSUME NEW i \in 1..Len(clients')
                 PROVE  \E k \in 1..Len(clients) :
                           clients'[i] = clients[k] /\ conn'[clients'[i]].fd = conn[clients[k]].fd
      OBVIOUS
    <3>1. PICK k \in 1..Len(clients) : clients'[i] = clients[k]
      BY <1>9
    <3>2. clients'[i] \in Conns /\ conn'[clients'[i]] = now[clients'[i]]
      BY <1>10
    <3>3. conn'[clients'[i]].fd = conn[clients'[i]].fd
      BY <3>2
    <3> QED
      BY <3>1, <3>3
  <2>3. \A i \in 1..Len(clients') : conn'[clients'[i]].fd # 0
    BY <2>2, SMTT(30) DEF WsInv, Listed, FdsApart
  <2>4. ASSUME NEW i \in 1..Len(clients'), NEW j \in 1..Len(clients'), i # j
        PROVE  conn'[clients'[i]].fd # conn'[clients'[j]].fd
    <3>1. PICK k \in 1..Len(clients) :
             clients'[i] = clients[k] /\ conn'[clients'[i]].fd = conn[clients[k]].fd
      BY <2>2
    <3>2. PICK l \in 1..Len(clients) :
             clients'[j] = clients[l] /\ conn'[clients'[j]].fd = conn[clients[l]].fd
      BY <2>2
    <3>3. k # l
      BY <1>8, <2>4, <3>1, <3>2 DEF Apart
    <3> QED
      BY <3>1, <3>2, <3>3, SMTT(30) DEF WsInv, Listed, FdsApart
  <2> QED
    BY <2>1, <2>3, <2>4 DEF FdsApart
<1>15. BacklogFresh'
  <2> SUFFICES ASSUME NEW j \in 1..Len(backlog)
               PROVE  ~conn'[backlog[j]].dead
    BY DEF BacklogFresh
  <2>1. backlog[j] \in Conns /\ backlog[j] \notin ToSet(clients)
    <3>1. \A i \in 1..Len(clients) : clients[i] # backlog[j]
      BY DEF WsInv, Listed, ListedOnce
    <3>2. DOMAIN clients = 1..Len(clients)
      BY <1>9
    <3>3. backlog[j] \in Conns
      BY <1>9
    <3> QED
      BY <3>1, <3>2, <3>3 DEF ToSet
  <2> QED
    BY <1>1, <2>1 DEF WsInv, Listed, BacklogFresh
<1>16. DeadOnlyPast'
  BY <1>10 DEF DeadOnlyPast
<1>17. Rounds'
  BY DEF Rounds
<1>18. Senders'
  <2>1. Len(pending') = 0
    OBVIOUS
  <2> QED
    BY <2>1 DEF Senders
<1> QED
  BY <1>7, <1>11, <1>12, <1>13, <1>14, <1>15, <1>16, <1>17, <1>18 DEF WsInv, Listed

\* What dispatch_pending() does with the command that has waited longest.
Answer == Message("ack", Head(pending).n, Len(handled) + 1)
Answered == {c \in Addressees(Head(pending).fd) : Fits(conn[c], "ack")}
Unanswered == Addressees(Head(pending).fd) \ Answered

LEMMA DispatchIs ==
    ASSUME WsInv, Dispatch
    PROVE  /\ phase = "poll" /\ at > Len(clients) /\ pending # <<>>
           /\ pending' = Tail(pending) /\ Head(pending) \in Waiting
           /\ handled' = Append(handled, [from |-> Head(pending).from, n |-> Head(pending).n])
           /\ conn' = SentTo(Answered, Answer)
           /\ dropped' = dropped + Cardinality(Unanswered)
           /\ UNCHANGED <<cast, backlog, clients, phase, at, revents, pushes, pages, commands>>
           /\ Answer \in Messages /\ Answer.kind = "ack"
           /\ Answer.n = Head(pending).n /\ Answer.ver = Len(handled) + 1
           /\ Answered \in SUBSET Conns /\ Answered \subseteq ToSet(clients)
           /\ \A c \in Answered : conn[c].open /\ Fits(conn[c], Answer.kind)
           /\ Unanswered \in SUBSET Conns
           /\ IsFiniteSet(Unanswered) /\ Cardinality(Unanswered) \in Nat
<1>1. handled' = Append(handled, [from |-> Head(pending).from, n |-> Head(pending).n])
  BY DEF Dispatch
<1>2. handled \in Seq(Done) /\ pending \in Seq(Waiting) /\ pending # <<>>
  BY DEF Dispatch, WsInv, WsTypes
<1>3. Head(pending) \in Waiting
  BY <1>2, TailIs
<1>4. Head(pending).from \in Conns /\ Head(pending).n \in Nat
  BY <1>3 DEF Waiting
<1>5. Len(handled') = Len(handled) + 1 /\ Len(handled) \in Nat
  <2>1. [from |-> Head(pending).from, n |-> Head(pending).n] \in Done
    BY <1>4 DEF Done
  <2> QED
    BY <1>1, <1>2, <2>1, AppendIs
<1>6. Message("ack", Head(pending).n, Len(handled')) = Answer
  BY <1>5 DEF Answer
<1>7. /\ Answer \in Messages /\ Answer.kind = "ack"
      /\ Answer.n = Head(pending).n /\ Answer.ver = Len(handled) + 1
  BY <1>4, <1>5 DEF Answer, Message, Messages, Kinds
<1>8. /\ conn' = SentTo(Answered, Answer)
      /\ dropped' = dropped + Cardinality(Unanswered)
  BY <1>6 DEF Dispatch, SentTo, Answered, Unanswered
<1>9. Addressees(Head(pending).fd) \subseteq ToSet(clients) /\ ToSet(clients) \subseteq Conns
  BY DEF Addressees, WsInv, WsTypes, ToSet
<1>10. /\ Answered \in SUBSET Conns /\ Answered \subseteq ToSet(clients)
       /\ \A c \in Answered : conn[c].open /\ Fits(conn[c], Answer.kind)
       /\ Unanswered \in SUBSET Conns
  BY <1>7, <1>9 DEF Answered, Unanswered, Addressees
<1>11. IsFiniteSet(Unanswered) /\ Cardinality(Unanswered) \in Nat
  BY <1>10, ServerConstants, FS_Subset, FS_CardinalityType
<1> QED
  BY <1>1, <1>2, <1>3, <1>7, <1>8, <1>10, <1>11 DEF Dispatch, Polled

LEMMA DispatchKeeps == WsInv /\ Dispatch => WsInv'
<1> SUFFICES ASSUME WsInv, Dispatch
             PROVE  WsInv'
  OBVIOUS
<1>1. /\ phase = "poll" /\ at > Len(clients) /\ pending # <<>>
      /\ pending' = Tail(pending) /\ Head(pending) \in Waiting
      /\ handled' = Append(handled, [from |-> Head(pending).from, n |-> Head(pending).n])
      /\ conn' = SentTo(Answered, Answer)
      /\ dropped' = dropped + Cardinality(Unanswered)
      /\ UNCHANGED <<cast, backlog, clients, phase, at, revents, pushes, pages, commands>>
      /\ Answered \subseteq ToSet(clients) /\ Cardinality(Unanswered) \in Nat
  BY DispatchIs
<1>2. /\ conn' \in [Conns -> Records]
      /\ \A c \in Conns :
            /\ Sound(Script(c), conn'[c])
            /\ conn'[c].fd = conn[c].fd /\ conn'[c].open = conn[c].open
            /\ c \notin Answered => conn'[c] = conn[c]
  <2>1. /\ Answer \in Messages /\ Answered \in SUBSET Conns
        /\ \A c \in Answered : conn[c].open /\ Fits(conn[c], Answer.kind)
    BY DispatchIs
  <2> DEFINE S == Answered
             m == Answer
             now == SentTo(S, m)
  <2>2. HasGone(now, S, m)
    BY <2>1, SentToKeeps
  <2>3. conn' = now
    BY <1>1
  <2> HIDE DEF now, S, m
  <2> QED
    BY <2>2, <2>3 DEF HasGone, S
<1>3. /\ conn \in [Conns -> Records] /\ clients \in Seq(Conns) /\ backlog \in Seq(Conns)
      /\ pending \in Seq(Waiting) /\ handled \in Seq(Done) /\ dropped \in Nat
      /\ at \in Nat
  BY DEF WsInv, WsTypes
<1>4. /\ Len(pending) \in Nat
      /\ pending' \in Seq(Waiting) /\ Len(pending') = Len(pending) - 1
      /\ \A i \in 1..(Len(pending) - 1) : pending'[i] = pending[i + 1]
  BY <1>1, <1>3, TailIs
<1>5. handled' \in Seq(Done)
  <2>1. [from |-> Head(pending).from, n |-> Head(pending).n] \in Done
    BY <1>1 DEF Done, Waiting
  <2> QED
    BY <1>1, <1>3, <2>1, AppendIs
<1>6. dropped' \in Nat
  BY <1>1, <1>3
<1>7. /\ \A i \in 1..Len(clients) : clients[i] \in Conns
      /\ \A j \in 1..Len(backlog) : backlog[j] \in Conns
  BY <1>3
<1>8. WsTypes'
  BY <1>1, <1>2, <1>4, <1>5, <1>6 DEF WsInv, WsTypes
<1>9. AllSound'
  BY <1>1, <1>2 DEF AllSound, Script
<1>10. ListedOnce'
  BY <1>1 DEF WsInv, Listed, ListedOnce, Apart
<1>11. FdsApart'
  <2>1. \A c \in Conns : conn'[c].fd = conn[c].fd
    BY <1>2
  <2>2. \A i \in 1..Len(clients) : conn'[clients[i]].fd = conn[clients[i]].fd
    BY <1>7, <2>1
  <2>3. clients' = clients
    BY <1>1
  <2> QED
    BY <2>1, <2>2, <2>3 DEF WsInv, Listed, FdsApart
<1>12. BacklogFresh'
  <2> SUFFICES ASSUME NEW j \in 1..Len(backlog)
               PROVE  ~conn'[backlog[j]].dead
    BY <1>1 DEF BacklogFresh
  <2>1. \A i \in 1..Len(clients) : clients[i] # backlog[j]
    BY DEF WsInv, Listed, ListedOnce
  <2>2. DOMAIN clients = 1..Len(clients)
    BY <1>3
  <2>3. backlog[j] \notin Answered
    BY <1>1, <2>1, <2>2 DEF ToSet
  <2> QED
    BY <1>2, <1>7, <2>3 DEF WsInv, Listed, BacklogFresh
<1>13. DeadOnlyPast'
  <2>1. \A i \in 1..Len(clients) : ~(i >= at)
    BY <1>1, <1>3
  <2> QED
    BY <1>1, <2>1 DEF DeadOnlyPast
<1>14. Rounds'
  BY <1>1 DEF WsInv, Listed, Rounds
<1>15. Senders'
  <2> SUFFICES ASSUME NEW i \in 1..(Len(pending) - 1)
               PROVE  \E j \in 1..Len(clients) :
                         /\ clients[j] = pending'[i].from
                         /\ conn'[clients[j]].fd = pending'[i].fd
                         /\ conn'[clients[j]].open
    BY <1>1, <1>4 DEF Senders
  <2>1. i + 1 \in 1..Len(pending) /\ pending'[i] = pending[i + 1]
    BY <1>4
  <2>2. PICK j \in 1..Len(clients) :
           /\ clients[j] = pending[i + 1].from /\ conn[clients[j]].fd = pending[i + 1].fd
           /\ conn[clients[j]].open
    BY <2>1 DEF WsInv, Listed, Senders
  <2> QED
    BY <1>2, <1>7, <2>1, <2>2
<1> QED
  BY <1>8, <1>9, <1>10, <1>11, <1>12, <1>13, <1>14, <1>15 DEF WsInv, Listed

LEMMA ReapKeeps == WsInv /\ Reap => WsInv' /\ Mute
<1> SUFFICES ASSUME WsInv, Reap
             PROVE  WsInv' /\ Mute
  OBVIOUS
<1>1. /\ pending = <<>> /\ conn' = Reaped(conn) /\ clients' = Living(conn)
      /\ phase' = "idle" /\ at' = 0 /\ revents' = <<>>
      /\ UNCHANGED <<cast, backlog, pending, counters, handled>>
  BY DEF Reap
<1>2. conn \in [Conns -> Records] /\ \A c \in Conns : Sound(Script(c), conn[c])
  BY DEF WsInv, WsTypes, AllSound
<1>3. /\ pushes' \in Nat /\ dropped' \in Nat /\ pages' \in Nat /\ commands' \in Nat
      /\ dropped' >= dropped /\ handled' = handled
  BY <1>1 DEF WsInv, WsTypes, counters
<1>4. /\ WsInv'
      /\ \A c \in Conns : conn'[c].queued = conn[c].queued /\ conn'[c].dead = conn[c].dead
  BY <1>1, <1>2, <1>3, ReapedKeeps
<1>5. \A c \in Conns : Adds(conn[c], conn'[c]) /\ (conn[c].dead => conn'[c].dead)
  BY <1>2, <1>4, AddsNothing
<1> QED
  BY <1>3, <1>4, <1>5 DEF Mute

LEMMA BroadcastKeeps == WsInv /\ Broadcast => WsInv' /\ Mute
<1> SUFFICES ASSUME WsInv, Broadcast
             PROVE  WsInv' /\ Mute
  OBVIOUS
<1> DEFINE push == Message("push", pushes + 1, Len(handled))
           fitting == {c \in Watching : Fits(conn[c], "push")}
           now == SentTo(fitting, push)
           lost == Watching \ fitting
<1>1. /\ phase = "idle" /\ conn' = Reaped(now) /\ clients' = Living(now)
      /\ dropped' = dropped + Cardinality(lost) /\ pushes' = pushes + 1
      /\ phase' = "accept"
      /\ UNCHANGED <<cast, backlog, at, revents, pending, pages, commands, handled>>
  BY DEF Broadcast, SentTo
<1>2. /\ conn \in [Conns -> Records] /\ clients \in Seq(Conns) /\ handled \in Seq(Done)
      /\ pushes \in Nat /\ dropped \in Nat /\ pages \in Nat /\ commands \in Nat /\ at \in Nat
      /\ pending = <<>> /\ revents = <<>>
  BY <1>1 DEF WsInv, WsTypes, Listed, Rounds
<1>3. push \in Messages /\ push.kind = "push"
  BY <1>2 DEF Message, Messages, Kinds
<1>4. /\ fitting \in SUBSET Conns /\ fitting \subseteq ToSet(clients) /\ lost \in SUBSET Conns
      /\ \A c \in fitting : conn[c].open /\ Fits(conn[c], "push")
  BY <1>2 DEF Watching, ToSet
<1> HIDE DEF push, fitting, lost
<1>5. Cardinality(lost) \in Nat
  BY <1>4, ServerConstants, FS_Subset, FS_CardinalityType
<1>6. /\ now \in [Conns -> Records]
      /\ \A c \in Conns :
            /\ Sound(Script(c), now[c])
            /\ now[c].fd = conn[c].fd /\ now[c].open = conn[c].open
            /\ conn[c].dead => now[c].dead
            /\ IF c \in fitting THEN now[c].queued = Append(conn[c].queued, push)
               ELSE now[c] = conn[c]
  <2>1. HasGone(now, fitting, push)
    BY <1>3, <1>4, SentToKeeps
  <2> HIDE DEF now
  <2> QED
    BY <2>1 DEF HasGone
<1> HIDE DEF now
<1>7. /\ pushes' \in Nat /\ dropped' \in Nat /\ pages' \in Nat /\ commands' \in Nat
      /\ dropped' >= dropped
  BY <1>1, <1>2, <1>5
<1>8. /\ WsInv'
      /\ \A c \in Conns : conn'[c].queued = now[c].queued /\ conn'[c].dead = now[c].dead
  <2>1. \A c \in Conns : c \notin ToSet(clients) => now[c] = conn[c]
    BY <1>4, <1>6
  <2> QED
    BY <1>1, <1>2, <1>6, <1>7, <2>1, ReapedKeeps
<1>9. \A c \in Conns : Adds(conn[c], conn'[c])
  <2> SUFFICES ASSUME NEW c \in Conns
               PROVE  Adds(conn[c], conn'[c])
    OBVIOUS
  <2>1. CASE c \in fitting
    <3> DEFINE s == conn[c].queued
    <3>1. conn'[c].queued = Append(s, push) /\ s \in Seq(Messages)
      BY <1>2, <1>6, <1>8, <2>1 DEF Records
    <3>2. <<push>> \in Seq(Messages) /\ \A i \in DOMAIN <<push>> : <<push>>[i].kind # "ack"
      BY <1>3
    <3> HIDE DEF s
    <3>3. Append(s, push) = s \o <<push>>
      BY <1>3, <3>1, AppendProperties
    <3>4. conn'[c].queued = s \o <<push>>
      BY <3>1, <3>3
    <3> QED
      BY <3>2, <3>4 DEF Adds, s
  <2>2. CASE c \notin fitting
    BY <1>2, <1>6, <1>8, <2>2, AddsNothing
  <2> QED
    BY <2>1, <2>2
<1>10. \A c \in Conns : conn[c].dead => conn'[c].dead
  BY <1>6, <1>8
<1> QED
  BY <1>1, <1>7, <1>8, <1>9, <1>10 DEF Mute

LEMMA ShutdownKeeps == WsInv /\ Shutdown => WsInv' /\ Mute
<1> SUFFICES ASSUME WsInv, Shutdown
             PROVE  WsInv' /\ Mute
  OBVIOUS
<1> DEFINE q(c) == IF Connected(c) THEN [conn[c] EXCEPT !.closed = TRUE] ELSE conn[c]
<1>1. /\ phase \in {"idle", "accept"} /\ phase' = "gone"
      /\ conn' = [c \in Conns |-> q(c)] /\ clients' = <<>> /\ backlog' = <<>>
      /\ UNCHANGED <<cast, at, revents, pending, counters, handled>>
  BY DEF Shutdown
<1>2. conn \in [Conns -> Records] /\ revents = <<>> /\ pending = <<>>
  BY <1>1 DEF WsInv, WsTypes, Listed, Rounds
<1>3. ASSUME NEW c \in Conns
      PROVE  /\ q(c) \in Records /\ q(c).fd = conn[c].fd
             /\ q(c).dead = conn[c].dead /\ q(c).queued = conn[c].queued
             /\ q(c).got = conn[c].got /\ q(c).down = conn[c].down
             /\ q(c).out = conn[c].out /\ q(c).written = conn[c].written
             /\ q(c).up = conn[c].up /\ q(c).in = conn[c].in /\ q(c).open = conn[c].open
  BY <1>2 DEF Records
<1>4. ASSUME NEW c \in Conns
      PROVE  Sound(Script(c), q(c))
  <2> DEFINE p == q(c)
             r == conn[c]
             s == Script(c)
  <2>1. r \in Records /\ Sound(s, r)
    BY <1>2 DEF WsInv, AllSound
  <2>2. /\ p \in Records
        /\ p.dead = r.dead /\ p.queued = r.queued /\ p.got = r.got /\ p.down = r.down
        /\ p.out = r.out /\ p.written = r.written /\ p.up = r.up /\ p.in = r.in
        /\ p.open = r.open
    BY <1>3
  <2> HIDE DEF p, r, s
  <2>3. Sound(s, p)
    BY <2>1, <2>2, SoundRenamed
  <2> QED
    BY <2>3 DEF p, s
<1> HIDE DEF q
<1>5. conn' \in [Conns -> Records] /\ \A c \in Conns : conn'[c] = q(c)
  BY <1>1, <1>3
<1>6. WsTypes'
  BY <1>1, <1>5, EmptySeq DEF WsInv, WsTypes, counters
<1>7. AllSound'
  BY <1>1, <1>4, <1>5 DEF AllSound, Script
<1>8. Listed'
  <2>1. Len(clients') = 0 /\ Len(backlog') = 0 /\ Len(pending') = 0
    BY <1>1, <1>2
  <2>2. \A c \in Conns : conn'[c].fd <= Cardinality(Conns)
    BY <1>3, <1>5 DEF WsInv, Listed, FdsApart
  <2> QED
    BY <1>1, <1>2, <2>1, <2>2
    DEF Listed, ListedOnce, Apart, FdsApart, BacklogFresh, DeadOnlyPast, Rounds, Senders
<1>9. Mute
  <2>1. dropped' >= dropped /\ handled' = handled
    BY <1>1 DEF WsInv, WsTypes, counters
  <2>2. \A c \in Conns : Adds(conn[c], conn'[c]) /\ (conn[c].dead => conn'[c].dead)
    BY <1>2, <1>3, <1>5, AddsNothing
  <2> QED
    BY <2>1, <2>2 DEF Mute
<1> QED
  BY <1>6, <1>7, <1>8, <1>9 DEF WsInv
-----------------------------------------------------------------------------
LEMMA StutteringKeeps == WsInv /\ UNCHANGED vars => WsInv' /\ Mute
<1> SUFFICES ASSUME WsInv, UNCHANGED vars
             PROVE  WsInv' /\ Mute
  OBVIOUS
<1>1. UNCHANGED <<cast, conn, backlog, clients, phase, at, revents, pending, pushes,
                  dropped, pages, commands, handled>>
  BY DEF vars
<1>2. WsTypes'
  BY <1>1 DEF WsInv, WsTypes
<1>3. AllSound'
  BY <1>1 DEF WsInv, AllSound, Script
<1>4. Listed'
  BY <1>1 DEF WsInv, Listed, ListedOnce, Apart, FdsApart, BacklogFresh, DeadOnlyPast,
              Rounds, Senders
<1>5. Mute
  BY <1>1, MuteIfSame
<1> QED
  BY <1>2, <1>3, <1>4, <1>5 DEF WsInv

\* Only dispatch_pending() handles a command or queues an answer to one.
LEMMA WsStep == WsInv /\ [Next]_vars => WsInv' /\ (Mute \/ Dispatch)
<1> SUFFICES ASSUME WsInv, [Next]_vars
             PROVE  WsInv' /\ (Mute \/ Dispatch)
  OBVIOUS
<1>1. CASE AcceptNew
  BY <1>1, AcceptNewKeeps
<1>2. CASE Poll
  BY <1>2, PollKeeps
<1>3. CASE PollUnreadable
  BY <1>3, PollUnreadableKeeps
<1>4. CASE ReadPartOfRequest
  BY <1>4, ReadPartOfRequestKeeps
<1>5. CASE ReadRequest
  BY <1>5, ReadRequestKeeps
<1>6. CASE ReadFrames
  BY <1>6, ReadFramesKeeps
<1>7. CASE Dispatch
  BY <1>7, DispatchKeeps
<1>8. CASE Reap
  BY <1>8, ReapKeeps
<1>9. CASE Broadcast
  BY <1>9, BroadcastKeeps
<1>10. CASE Shutdown
  BY <1>10, ShutdownKeeps
<1>11. ASSUME NEW c \in Conns, BrowserNext(c)
       PROVE  WsInv' /\ Mute
  BY <1>11, ConnectKeeps, WriteKeeps, ReadKeeps, EndKeeps DEF BrowserNext
<1>12. CASE UNCHANGED vars
  BY <1>12, StutteringKeeps
<1> QED
  BY <1>1, <1>2, <1>3, <1>4, <1>5, <1>6, <1>7, <1>8, <1>9, <1>10, <1>11, <1>12
  DEF Next, ServerNext, ServiceNext

\* What every behaviour of the server and its browsers keeps: the inductive
\* invariant from which the theorems below follow.
THEOREM Inductive == Spec => []WsInv
<1>1. Init => WsInv
  BY WsInit
<1>2. WsInv /\ [Next]_vars => WsInv'
  BY WsStep
<1> QED
  BY <1>1, <1>2, PTL DEF Spec

\* Every client record holds what its type says, no two clients have one
\* descriptor, and a client that does not read holds no more than max_backlog_
\* or the page, whatever the browsers send and however the server is scheduled.
THEOREM TypeCorrect == Spec => []TypeOK
<1>1. WsInv => TypeOK
  <2> SUFFICES ASSUME WsInv
               PROVE  TypeOK
    OBVIOUS
  <2>1. \A c \in Conns :
           /\ conn[c].written \in 0..Len(UnitsOfAll(Script(c)))
           /\ \A u \in ToSet(conn[c].up \o conn[c].in \o conn[c].down \o conn[c].out) :
                 u.part \in 1..Size(u.msg.kind)
           /\ conn[c].fd \in 0..Cardinality(Conns)
           /\ Len(conn[c].down) <= SocketBuffer
           /\ Len(conn[c].out) <= Max({max_backlog, Size("page")})
    <3> SUFFICES ASSUME NEW c \in Conns
                 PROVE  /\ conn[c].written \in 0..Len(UnitsOfAll(Script(c)))
                        /\ \A u \in ToSet(conn[c].up \o conn[c].in \o conn[c].down \o conn[c].out) :
                              u.part \in 1..Size(u.msg.kind)
                        /\ conn[c].fd \in 0..Cardinality(Conns)
                        /\ Len(conn[c].down) <= SocketBuffer
                        /\ Len(conn[c].out) <= Max({max_backlog, Size("page")})
      OBVIOUS
    <3> DEFINE r == conn[c]
               flown == r.up \o r.in \o r.down \o r.out
    <3>1. r \in Records /\ Sound(Script(c), r) /\ Script(c) \in Scripts
      BY ScriptOf DEF WsInv, WsTypes, AllSound
    <3>2. r.written \in 0..Len(UnitsOfAll(Script(c)))
      <4>1. r.written \in Nat /\ Len(UnitsOfAll(Script(c))) \in Nat
        BY <3>1, RequestFirst DEF Records
      <4> QED
        BY <3>1, <4>1 DEF Sound
    <3>3. \A u \in ToSet(flown) : u.part \in 1..Size(u.msg.kind)
      <4>1. r.up \in Seq(Units) /\ r.in \in Seq(Units) /\ r.down \in Seq(Units) /\ r.out \in Seq(Units)
        BY <3>1 DEF Records
      <4>2. flown \in Seq(Units)
        BY <4>1, ConcatProperties
      <4> HIDE DEF flown
      <4>3. \A u \in ToSet(flown) : u \in Units
        BY <4>2 DEF ToSet
      <4> QED
        BY <4>3 DEF Units
    <3>4. r.fd \in 0..Cardinality(Conns)
      <4>1. r.fd \in Nat /\ Cardinality(Conns) \in Nat
        BY <3>1, ServerConstants, FS_CardinalityType DEF Records
      <4> QED
        BY <4>1 DEF WsInv, Listed, FdsApart
    <3>5. Fitting(r)
      BY <3>1 DEF Sound
    <3> HIDE DEF flown
    <3> QED
      BY <3>2, <3>3, <3>4, <3>5 DEF Fitting, Limit, flown
  <2>2. clients \in Seq(Conns) /\ backlog \in Seq(Conns) /\ revents \in Seq(Polls)
    BY DEF WsInv, WsTypes
  <2>3. ToSet(clients) \union ToSet(backlog) \subseteq Conns
    BY <2>2 DEF ToSet
  <2>4. \A i, j \in DOMAIN clients :
           conn[clients[i]].fd # 0 /\ (i # j => conn[clients[i]].fd # conn[clients[j]].fd)
    <3>1. DOMAIN clients = 1..Len(clients)
      BY <2>2
    <3> QED
      BY <3>1 DEF WsInv, Listed, FdsApart
  <2>5. Len(revents) <= Len(clients)
    <3>1. Len(clients) \in Nat
      BY <2>2
    <3>2. CASE phase = "poll"
      BY <3>1, <3>2 DEF WsInv, Listed, Rounds
    <3>3. CASE phase # "poll"
      BY <3>1, <3>3 DEF WsInv, Listed, Rounds
    <3> QED
      BY <3>2, <3>3
  <2> QED
    BY <2>1, <2>3, <2>4, <2>5 DEF TypeOK, WsInv, WsTypes
<1> QED
  BY <1>1, Inductive, PTL

\* What is queued for a browser reaches it whole and in order, whatever the
\* socket takes at a time and whatever is dropped to the backlog limit.
THEOREM StreamIntactHolds == Spec => []StreamIntact
<1>1. WsInv => StreamIntact
  BY DEF WsInv, AllSound, Sound, Whole, StreamIntact
<1> QED
  BY <1>1, Inductive, PTL

(***************************************************************************)
(* Replies.                                                                *)
(***************************************************************************)
\* The command answered came from the one client its descriptor belongs to.
LEMMA AddresseeIsSender ==
    ASSUME WsInv, Dispatch
    PROVE  /\ \A c \in Addressees(Head(pending).fd) : c = Head(pending).from
           /\ Head(pending).from \in Conns
           /\ ~conn[Head(pending).from].dead => Head(pending).from \in Addressees(Head(pending).fd)
<1> DEFINE h == Head(pending)
<1>1. pending # <<>> /\ pending \in Seq(Waiting) /\ clients \in Seq(Conns)
  BY DEF Dispatch, WsInv, WsTypes
<1>2. h \in Waiting /\ h = pending[1] /\ 1 \in 1..Len(pending)
  <2>1. Len(pending) \in Nat /\ Len(pending) >= 1 /\ h = pending[1] /\ h \in Waiting
    BY <1>1, TailIs
  <2> QED
    BY <2>1
<1> HIDE DEF h
<1>3. PICK j \in 1..Len(clients) :
         clients[j] = h.from /\ conn[clients[j]].fd = h.fd /\ conn[clients[j]].open
  BY <1>2 DEF WsInv, Listed, Senders
<1>4. DOMAIN clients = 1..Len(clients)
  BY <1>1
<1>5. \A c \in Addressees(h.fd) : c = h.from
  <2> SUFFICES ASSUME NEW c \in Addressees(h.fd)
               PROVE  c = h.from
    OBVIOUS
  <2>1. PICK i \in 1..Len(clients) : c = clients[i]
    BY <1>4 DEF Addressees, ToSet
  <2>2. conn[clients[i]].fd = h.fd
    BY <2>1 DEF Addressees
  <2>3. i = j
    BY <1>3, <2>2 DEF WsInv, Listed, FdsApart
  <2> QED
    BY <1>3, <2>1, <2>3
<1>6. h.from \in ToSet(clients)
  BY <1>3, <1>4 DEF ToSet
<1>7. ~conn[h.from].dead => h.from \in Addressees(h.fd)
  BY <1>3, <1>6 DEF Addressees
<1> QED
  BY <1>2, <1>5, <1>7 DEF h, Waiting

\* What dispatch_pending() leaves of the histories.
LEMMA DispatchQueues ==
    ASSUME WsInv, Dispatch, NEW c \in Conns
    PROVE  /\ conn[c].dead => conn'[c].dead
           /\ conn[c].queued \in Seq(Messages) /\ conn'[c].queued \in Seq(Messages)
           /\ IF c \in Answered THEN conn'[c].queued = Append(conn[c].queued, Answer)
              ELSE conn'[c].queued = conn[c].queued
<1>1. /\ Answer \in Messages /\ Answered \in SUBSET Conns
      /\ \A x \in Answered : conn[x].open /\ Fits(conn[x], Answer.kind)
      /\ conn' = SentTo(Answered, Answer)
  BY DispatchIs
<1> DEFINE S == Answered
           m == Answer
           now == SentTo(S, m)
<1>2. HasGone(now, S, m)
  BY <1>1, SentToKeeps
<1>3. conn' = now
  BY <1>1
<1>4. m \in Messages
  BY <1>1
<1> HIDE DEF now, S, m
<1>5. conn[c].queued \in Seq(Messages)
  BY DEF WsInv, WsTypes, Records
<1>6. /\ conn[c].dead => conn'[c].dead
      /\ IF c \in S THEN conn'[c].queued = Append(conn[c].queued, m)
         ELSE conn'[c] = conn[c]
  BY <1>2, <1>3 DEF HasGone
<1>7. conn'[c].queued \in Seq(Messages)
  BY <1>4, <1>5, <1>6, AppendIs
<1> QED
  BY <1>5, <1>6, <1>7 DEF S, m

LEMMA HandledGrows ==
    ASSUME WsInv, Dispatch
    PROVE  /\ handled \in Seq(Done) /\ handled' \in Seq(Done)
           /\ Len(handled) \in Nat /\ Len(handled') = Len(handled) + 1
           /\ \A k \in 1..Len(handled) : handled'[k] = handled[k]
           /\ handled'[Len(handled) + 1] = [from |-> Head(pending).from, n |-> Head(pending).n]
<1> DEFINE e == [from |-> Head(pending).from, n |-> Head(pending).n]
<1>1. handled' = Append(handled, e) /\ Head(pending) \in Waiting
  BY DispatchIs
<1>2. handled \in Seq(Done)
  BY DEF WsInv, WsTypes
<1>3. e \in Done
  BY <1>1 DEF Done, Waiting
<1> HIDE DEF e
<1>4. /\ Len(handled) \in Nat
      /\ Append(handled, e) \in Seq(Done) /\ Len(Append(handled, e)) = Len(handled) + 1
      /\ \A i \in 1..Len(handled) : Append(handled, e)[i] = handled[i]
      /\ Append(handled, e)[Len(handled) + 1] = e
  BY <1>2, <1>3, AppendIs
<1> QED
  BY <1>1, <1>2, <1>4 DEF e

\* AcksGoHome of one connection, whose replies are q.
Home(c, q, done) ==
    \A i \in 1..Len(q) :
        q[i].kind = "ack" =>
            /\ q[i].ver \in 1..Len(done)
            /\ done[q[i].ver] = [from |-> c, n |-> q[i].n]
            /\ \A k \in q[i].ver..Len(done), j \in 1..(i - 1) : ~IsAck(q[j], k)

HomeOf(c, q, done) ==
    \A i \in DOMAIN q :
        q[i].kind = "ack" =>
            /\ q[i].ver \in DOMAIN done
            /\ done[q[i].ver] = [from |-> c, n |-> q[i].n]
            /\ \A k \in q[i].ver..Len(done), j \in 1..(i - 1) : ~IsAck(q[j], k)

LEMMA HomeIs ==
    ASSUME NEW c, NEW done \in Seq(Done), NEW q \in Seq(Messages)
    PROVE  HomeOf(c, q, done) <=> Home(c, q, done)
<1>1. DOMAIN done = 1..Len(done) /\ DOMAIN q = 1..Len(q)
  OBVIOUS
<1> QED
  BY <1>1 DEF HomeOf, Home

LEMMA MuteKeepsHome ==
    ASSUME NEW c, NEW done \in Seq(Done), NEW q \in Seq(Messages), NEW more \in Seq(Messages),
           \A i \in DOMAIN more : more[i].kind # "ack", Home(c, q, done)
    PROVE  Home(c, q \o more, done)
<1> DEFINE p == q \o more
<1>1. /\ Len(p) = Len(q) + Len(more) /\ Len(q) \in Nat /\ Len(more) \in Nat
      /\ \A i \in 1..(Len(q) + Len(more)) : p[i] = IF i <= Len(q) THEN q[i] ELSE more[i - Len(q)]
      /\ DOMAIN more = 1..Len(more)
  BY ConcatProperties
<1> HIDE DEF p
<1>2. \A i \in 1..Len(p) : p[i].kind = "ack" => i \in 1..Len(q)
  <2> SUFFICES ASSUME NEW i \in 1..Len(p), ~(i \in 1..Len(q))
               PROVE  p[i].kind # "ack"
    OBVIOUS
  <2>1. i - Len(q) \in 1..Len(more) /\ p[i] = more[i - Len(q)]
    BY <1>1
  <2> QED
    BY <1>1, <2>1
<1>3. \A i \in 1..Len(q) : p[i] = q[i] /\ i \in 1..Len(p)
  BY <1>1
<1>4. \A i \in 1..Len(q) : \A j \in 1..(i - 1) : j \in 1..Len(q)
  BY <1>1
<1>5. \A i \in 1..Len(q) : \A j \in 1..(i - 1) : p[j] = q[j]
  BY <1>3, <1>4
<1>6. Home(c, p, done)
  BY <1>2, <1>3, <1>5 DEF Home
<1> QED
  BY <1>6 DEF p

LEMMA AcksStep == WsInv /\ AcksGoHome /\ [Next]_vars => AcksGoHome'
<1> SUFFICES ASSUME WsInv, AcksGoHome, [Next]_vars
             PROVE  AcksGoHome'
  OBVIOUS
<1>1. WsInv' /\ (Mute \/ Dispatch)
  BY WsStep
<1>2. \A c \in Conns : Home(c, conn[c].queued, handled)
  <2> SUFFICES ASSUME NEW c \in Conns
               PROVE  Home(c, conn[c].queued, handled)
    OBVIOUS
  <2>1. HomeOf(c, conn[c].queued, handled)
    BY DEF AcksGoHome, HomeOf
  <2>2. conn[c].queued \in Seq(Messages) /\ handled \in Seq(Done)
    BY DEF WsInv, WsTypes, Records
  <2> QED
    BY <2>1, <2>2, HomeIs
<1>3. (\A c \in Conns : Home(c, conn'[c].queued, handled')) => AcksGoHome'
  <2> SUFFICES ASSUME \A c \in Conns : Home(c, conn'[c].queued, handled')
               PROVE  AcksGoHome'
    OBVIOUS
  <2>1. ASSUME NEW c \in Conns
        PROVE  HomeOf(c, conn'[c].queued, handled')
    <3>1. conn'[c].queued \in Seq(Messages) /\ handled' \in Seq(Done)
      BY <1>1 DEF WsInv, WsTypes, Records
    <3> QED
      BY <3>1, HomeIs
  <2> QED
    BY <2>1 DEF AcksGoHome, HomeOf
<1>4. CASE Mute
  <2> SUFFICES ASSUME NEW c \in Conns
               PROVE  Home(c, conn'[c].queued, handled')
    BY <1>3
  <2>1. PICK more \in Seq(Messages) :
           conn'[c].queued = conn[c].queued \o more /\ \A i \in DOMAIN more : more[i].kind # "ack"
    BY <1>4 DEF Mute, Adds
  <2>2. conn[c].queued \in Seq(Messages) /\ handled \in Seq(Done)
    BY DEF WsInv, WsTypes, Records
  <2>3. Home(c, conn[c].queued \o more, handled)
    BY <1>2, <2>1, <2>2, MuteKeepsHome
  <2> QED
    BY <1>4, <2>1, <2>3 DEF Mute
<1>5. CASE Dispatch
  <2> SUFFICES ASSUME NEW c \in Conns
               PROVE  Home(c, conn'[c].queued, handled')
    BY <1>3
  <2> DEFINE n == Len(handled)
             q == conn[c].queued
             p == conn'[c].queued
             l == Len(q)
  <2>1. /\ n \in Nat /\ Len(handled') = n + 1
        /\ \A k \in 1..n : handled'[k] = handled[k]
        /\ handled'[n + 1] = [from |-> Head(pending).from, n |-> Head(pending).n]
    BY <1>5, HandledGrows
  <2>2. /\ q \in Seq(Messages)
        /\ IF c \in Answered THEN p = Append(q, Answer) ELSE p = q
    BY <1>5, DispatchQueues
  <2>3. /\ Answer \in Messages /\ Answer.kind = "ack" /\ Answer.n = Head(pending).n
        /\ Answer.ver = n + 1
    BY <1>5, DispatchIs
  <2>4. Home(c, q, handled)
    BY <1>2
  <2>5. l \in Nat /\ \A i \in 1..l : q[i].kind = "ack" => q[i].ver \in 1..n
    <3>1. l \in Nat
      BY <2>2
    <3> QED
      BY <2>4, <3>1 DEF Home
  <2>6. ASSUME NEW i \in 1..l, q[i].kind = "ack"
        PROVE  /\ q[i].ver \in 1..(n + 1)
               /\ handled'[q[i].ver] = [from |-> c, n |-> q[i].n]
               /\ \A k \in q[i].ver..(n + 1), j \in 1..(i - 1) : ~IsAck(q[j], k)
    <3>1. q[i].ver \in 1..n /\ handled[q[i].ver] = [from |-> c, n |-> q[i].n]
      BY <2>4, <2>6 DEF Home
    <3>2. ASSUME NEW k \in q[i].ver..(n + 1), NEW j \in 1..(i - 1)
          PROVE  ~IsAck(q[j], k)
      <4>1. CASE k = n + 1
        <5>1. j \in 1..l
          BY <2>5
        <5> QED
          BY <2>1, <2>5, <4>1, <5>1 DEF IsAck
      <4>2. CASE k # n + 1
        <5>1. k \in q[i].ver..n
          BY <2>1, <3>1, <4>2
        <5> QED
          BY <2>4, <2>6, <5>1 DEF Home
      <4> QED
        BY <4>1, <4>2
    <3>3. q[i].ver \in 1..(n + 1)
      BY <2>1, <3>1
    <3> QED
      BY <2>1, <3>1, <3>2, <3>3
  <2>7. CASE c \notin Answered
    <3>1. p = q
      BY <2>2, <2>7
    <3> HIDE DEF p, q
    <3> QED
      BY <2>1, <2>6, <3>1 DEF Home, p
  <2>8. CASE c \in Answered
    <3>1. /\ Len(p) = l + 1 /\ \A i \in 1..l : p[i] = q[i]
          /\ p[l + 1] = Answer
      BY <2>2, <2>3, <2>8, AppendIs
    <3>2. c = Head(pending).from
      <4>1. c \in Addressees(Head(pending).fd)
        BY <2>8 DEF Answered
      <4> QED
        BY <1>5, <4>1, AddresseeIsSender
    <3> HIDE DEF p, q
    <3>3. ASSUME NEW i \in 1..(l + 1), p[i].kind = "ack"
          PROVE  /\ p[i].ver \in 1..(n + 1)
                 /\ handled'[p[i].ver] = [from |-> c, n |-> p[i].n]
                 /\ \A k \in p[i].ver..(n + 1), j \in 1..(i - 1) : ~IsAck(p[j], k)
      <4>1. CASE i \in 1..l
        <5>1. p[i] = q[i] /\ \A j \in 1..(i - 1) : j \in 1..l
          BY <2>5, <3>1, <4>1
        <5>2. \A j \in 1..(i - 1) : p[j] = q[j]
          BY <3>1, <5>1
        <5> QED
          BY <2>6, <3>3, <4>1, <5>1, <5>2
      <4>2. CASE i = l + 1
        <5>1. p[i] = Answer /\ p[i].ver = n + 1 /\ n + 1 \in 1..(n + 1)
          BY <2>1, <2>3, <3>1, <4>2
        <5>2. handled'[p[i].ver] = [from |-> c, n |-> p[i].n]
          BY <2>1, <2>3, <3>2, <5>1
        <5>3. ASSUME NEW k \in p[i].ver..(n + 1), NEW j \in 1..(i - 1)
              PROVE  ~IsAck(p[j], k)
          <6>1. j \in 1..l /\ k = n + 1
            BY <2>1, <2>5, <4>2, <5>1
          <6>2. p[j] = q[j]
            BY <3>1, <6>1
          <6> QED
            BY <2>1, <2>5, <6>1, <6>2 DEF IsAck
        <5> QED
          BY <5>1, <5>2, <5>3
      <4>3. i \in 1..l \/ i = l + 1
        BY <2>5
      <4> QED
        BY <4>1, <4>2, <4>3
    <3> HIDE DEF l, n
    <3> QED
      BY <2>1, <3>1, <3>3 DEF Home, p
  <2> QED
    BY <2>7, <2>8
<1> QED
  BY <1>1, <1>4, <1>5

\* Every reply goes to the connection its command came on, in order and once,
\* although replies are addressed by descriptor and descriptors are used again.
THEOREM AcksGoHomeHolds == Spec => []AcksGoHome
<1>1. Init => AcksGoHome
  <2> SUFFICES ASSUME Init
               PROVE  AcksGoHome
    OBVIOUS
  <2>1. \A c \in Conns : conn[c].queued = <<>>
    BY DEF Init, NewConn
  <2>2. DOMAIN <<>> = {}
    OBVIOUS
  <2> QED
    BY <2>1, <2>2 DEF AcksGoHome
<1> QED
  BY <1>1, AcksStep, Inductive, PTL DEF Spec

(***************************************************************************)
(* Replies that never come.                                                *)
(***************************************************************************)
\* The commands without an answer whose browser is still there.
Missed(k, r) == ~r.dead /\ ~\E i \in DOMAIN r.queued : IsAck(r.queued[i], k)
Lost == {k \in DOMAIN handled : Missed(k, conn[handled[k].from])}
Counted == Cardinality(Lost) <= dropped

LEMMA LostIs ==
    ASSUME WsInv
    PROVE  /\ IsFiniteSet(Lost) /\ Cardinality(Lost) \in Nat
           /\ Lost \subseteq 1..Len(handled)
           /\ \A k \in 1..Len(handled) : handled[k].from \in Conns
<1>1. handled \in Seq(Done)
  BY DEF WsInv, WsTypes
<1>2. DOMAIN handled = 1..Len(handled) /\ Len(handled) \in Nat
  BY <1>1
<1>3. IsFiniteSet(1..Len(handled))
  BY <1>2, FS_Interval
<1>4. Lost \subseteq 1..Len(handled)
  BY <1>2 DEF Lost
<1>5. IsFiniteSet(Lost) /\ Cardinality(Lost) \in Nat
  BY <1>3, <1>4, FS_Subset, FS_CardinalityType
<1>6. \A k \in 1..Len(handled) : handled[k] \in Done
  BY <1>1
<1> QED
  BY <1>4, <1>5, <1>6 DEF Done

\* More replies, or a death, make no command go missing.
LEMMA MissedBefore ==
    ASSUME NEW r, NEW q, r.queued \in Seq(Messages), NEW more \in Seq(Messages),
           q.queued = r.queued \o more, r.dead => q.dead, NEW k, Missed(k, q)
    PROVE  Missed(k, r)
<1> DEFINE s == r.queued
           t == s \o more
<1>1. \A i \in DOMAIN s : i \in DOMAIN t /\ t[i] = s[i]
  <2>1. /\ Len(t) = Len(s) + Len(more) /\ t \in Seq(Messages)
        /\ \A i \in 1..(Len(s) + Len(more)) : t[i] = IF i <= Len(s) THEN s[i] ELSE more[i - Len(s)]
        /\ Len(s) \in Nat /\ Len(more) \in Nat
    BY ConcatProperties
  <2>2. DOMAIN s = 1..Len(s) /\ DOMAIN t = 1..Len(t)
    BY <2>1
  <2> HIDE DEF s, t
  <2> QED
    BY <2>1, <2>2
<1>2. q.queued = t
  OBVIOUS
<1> HIDE DEF t
<1> QED
  BY <1>1, <1>2 DEF Missed

LEMMA LostStep == WsInv /\ Counted /\ [Next]_vars => Counted'
<1> SUFFICES ASSUME WsInv, Cardinality(Lost) <= dropped, [Next]_vars
             PROVE  Cardinality(Lost') <= dropped'
  BY DEF Counted
<1>1. WsInv' /\ (Mute \/ Dispatch)
  BY WsStep
<1>2. /\ IsFiniteSet(Lost) /\ Cardinality(Lost) \in Nat
      /\ Lost \subseteq 1..Len(handled)
      /\ \A k \in 1..Len(handled) : handled[k].from \in Conns
      /\ \A c \in Conns : conn[c].queued \in Seq(Messages)
      /\ handled \in Seq(Done) /\ DOMAIN handled = 1..Len(handled) /\ Len(handled) \in Nat
      /\ dropped \in Nat /\ dropped' \in Nat
  <2>1. \A c \in Conns : conn[c].queued \in Seq(Messages)
    BY DEF WsInv, WsTypes, Records
  <2>2. handled \in Seq(Done) /\ dropped \in Nat /\ dropped' \in Nat
    BY <1>1 DEF WsInv, WsTypes
  <2>3. DOMAIN handled = 1..Len(handled) /\ Len(handled) \in Nat
    BY <2>2
  <2> QED
    BY <2>1, <2>2, <2>3, LostIs
<1>3. CASE Mute
  <2>1. Lost' \subseteq Lost
    <3> SUFFICES ASSUME NEW k \in Lost'
                 PROVE  k \in Lost
      OBVIOUS
    <3>1. handled' = handled
      BY <1>3 DEF Mute
    <3>2. k \in DOMAIN handled /\ Missed(k, conn'[handled[k].from])
      BY <3>1 DEF Lost
    <3> DEFINE c == handled[k].from
    <3>3. c \in Conns
      BY <1>2, <3>2
    <3> HIDE DEF c
    <3>4. PICK more \in Seq(Messages) : conn'[c].queued = conn[c].queued \o more
      BY <1>3, <3>3 DEF Mute, Adds
    <3>5. conn[c].dead => conn'[c].dead
      BY <1>3, <3>3 DEF Mute
    <3>6. Missed(k, conn'[c]) /\ conn[c].queued \in Seq(Messages)
      BY <1>2, <3>2, <3>3 DEF c
    <3>7. Missed(k, conn[c])
      BY <3>4, <3>5, <3>6, MissedBefore
    <3> QED
      BY <3>2, <3>7 DEF Lost, c
  <2>2. Cardinality(Lost') <= Cardinality(Lost)
    BY <1>2, <2>1, FS_Subset
  <2>3. Cardinality(Lost') \in Nat
    BY <1>2, <2>1, FS_Subset, FS_CardinalityType
  <2>4. dropped' >= dropped
    BY <1>3 DEF Mute
  <2> QED
    BY <1>2, <2>2, <2>3, <2>4
<1>4. CASE Dispatch
  <2> DEFINE n == Len(handled)
             from == Head(pending).from
  <2>1. /\ Len(handled') = n + 1 /\ DOMAIN handled' = 1..(n + 1)
        /\ \A k \in 1..n : handled'[k] = handled[k]
        /\ handled'[n + 1].from = from
    <3>1. /\ handled' \in Seq(Done) /\ Len(handled') = n + 1
          /\ \A k \in 1..n : handled'[k] = handled[k]
          /\ handled'[n + 1] = [from |-> from, n |-> Head(pending).n]
      BY <1>4, HandledGrows
    <3> QED
      BY <3>1
  <2>2. \A c \in Conns :
           /\ conn[c].dead => conn'[c].dead
           /\ conn[c].queued \in Seq(Messages)
           /\ IF c \in Answered THEN conn'[c].queued = Append(conn[c].queued, Answer)
              ELSE conn'[c].queued = conn[c].queued
    BY <1>4, DispatchQueues
  <2>3. Answer \in Messages /\ Answer.kind = "ack" /\ Answer.ver = n + 1
    BY <1>4, DispatchIs
  <2>4. \A c \in Conns : \E more \in Seq(Messages) : conn'[c].queued = conn[c].queued \o more
    <3> SUFFICES ASSUME NEW c \in Conns
                 PROVE  \E more \in Seq(Messages) : conn'[c].queued = conn[c].queued \o more
      OBVIOUS
    <3> DEFINE s == conn[c].queued
               m == Answer
    <3>1. s \in Seq(Messages) /\ m \in Messages
      BY <2>2, <2>3
    <3>2. conn'[c].queued = Append(s, m) \/ conn'[c].queued = s
      BY <2>2
    <3> HIDE DEF s, m
    <3>3. Append(s, m) = s \o <<m>> /\ <<m>> \in Seq(Messages)
      BY <3>1, AppendProperties
    <3>4. s \o <<>> = s /\ <<>> \in Seq(Messages)
      BY <3>1, ConcatEmptySeq, EmptySeq
    <3> QED
      BY <3>2, <3>3, <3>4 DEF s
  <2>5. \A k \in Lost' : k \in Lost \/ k = n + 1
    <3> SUFFICES ASSUME NEW k \in Lost', k # n + 1
                 PROVE  k \in Lost
      OBVIOUS
    <3>1. k \in 1..n /\ handled'[k] = handled[k]
      BY <1>2, <2>1 DEF Lost
    <3> DEFINE c == handled[k].from
    <3>2. c \in Conns /\ Missed(k, conn'[c])
      BY <1>2, <3>1 DEF Lost
    <3> HIDE DEF c
    <3>3. PICK more \in Seq(Messages) : conn'[c].queued = conn[c].queued \o more
      BY <2>4, <3>2
    <3>4. Missed(k, conn[c])
      BY <2>2, <3>2, <3>3, MissedBefore
    <3> QED
      BY <1>2, <3>1, <3>4 DEF Lost, c
  <2>6. n + 1 \in Lost' => from \in Unanswered
    <3> SUFFICES ASSUME n + 1 \in Lost'
                 PROVE  from \in Unanswered
      OBVIOUS
    <3>1. Missed(n + 1, conn'[from])
      BY <2>1 DEF Lost
    <3>2. /\ from \in Conns
          /\ ~conn[from].dead => from \in Addressees(Head(pending).fd)
      BY <1>4, AddresseeIsSender
    <3>3. from \in Addressees(Head(pending).fd)
      BY <2>2, <3>1, <3>2 DEF Missed
    <3>4. from \notin Answered
      <4> SUFFICES ASSUME from \in Answered
                   PROVE  FALSE
        OBVIOUS
      <4> DEFINE s == conn[from].queued
      <4>1. s \in Seq(Messages) /\ conn'[from].queued = Append(s, Answer)
        BY <2>2, <3>2
      <4>2. /\ Len(s) + 1 \in DOMAIN conn'[from].queued
            /\ conn'[from].queued[Len(s) + 1] = Answer
        BY <2>3, <4>1
      <4>3. IsAck(Answer, n + 1)
        BY <2>3 DEF IsAck
      <4> HIDE DEF s
      <4> QED
        BY <3>1, <4>2, <4>3 DEF Missed
    <3> QED
      BY <3>3, <3>4 DEF Unanswered
  <2>7. /\ dropped' = dropped + Cardinality(Unanswered)
        /\ IsFiniteSet(Unanswered) /\ Cardinality(Unanswered) \in Nat
    BY <1>4, DispatchIs
  <2>8. CASE n + 1 \in Lost'
    <3>1. Lost' \subseteq Lost \union {n + 1}
      BY <2>5
    <3>2. n + 1 \notin Lost
      BY <1>2
    <3>3. /\ IsFiniteSet(Lost \union {n + 1})
          /\ Cardinality(Lost \union {n + 1}) = Cardinality(Lost) + 1
      BY <1>2, <3>2, FS_AddElement
    <3>4. Cardinality(Lost') <= Cardinality(Lost) + 1 /\ Cardinality(Lost') \in Nat
      BY <3>1, <3>3, FS_Subset, FS_CardinalityType
    <3>5. Cardinality(Unanswered) # 0
      <4>1. Unanswered # {}
        BY <2>6, <2>8
      <4> QED
        BY <2>7, <4>1, FS_EmptySet
    <3> QED
      BY <1>2, <2>7, <3>4, <3>5
  <2>9. CASE n + 1 \notin Lost'
    <3>1. Lost' \subseteq Lost
      BY <2>5, <2>9
    <3>2. Cardinality(Lost') <= Cardinality(Lost) /\ Cardinality(Lost') \in Nat
      BY <1>2, <3>1, FS_Subset, FS_CardinalityType
    <3> QED
      BY <1>2, <2>7, <3>2
  <2> QED
    BY <2>8, <2>9
<1> QED
  BY <1>1, <1>3, <1>4

\* No answer is lost in silence: a command whose browser is still there has its
\* reply queued, or one more frame is counted as dropped.
THEOREM AnsweredOrCountedHolds == Spec => []AnsweredOrCounted
<1>1. Init => Counted
  <2> SUFFICES ASSUME Init
               PROVE  Cardinality(Lost) <= dropped
    BY DEF Counted
  <2>1. handled = <<>> /\ dropped = 0
    BY DEF Init
  <2>2. Lost = {}
    BY <2>1 DEF Lost
  <2> QED
    BY <2>1, <2>2, FS_EmptySet
<1>2. Counted => AnsweredOrCounted
  BY DEF Counted, AnsweredOrCounted, Lost, Missed
<1> QED
  BY <1>1, <1>2, LostStep, Inductive, PTL DEF Spec
-----------------------------------------------------------------------------
(***************************************************************************)
(* The commands: what of a script was decoded is what was handled or waits *)
(* for dispatch_pending().                                                 *)
(***************************************************************************)
LEMMA AmongSame ==
    ASSUME NEW S, NEW s \in Seq(S), NEW good, NEW fine,
           \A i \in 1..Len(s) : s[i] \in good <=> s[i] \in fine
    PROVE  Among(s, good) = Among(s, fine)
<1>1. DOMAIN s = 1..Len(s)
  OBVIOUS
<1>2. [i \in DOMAIN s |-> IF s[i] \in good THEN <<s[i]>> ELSE <<>>]
        = [i \in DOMAIN s |-> IF s[i] \in fine THEN <<s[i]>> ELSE <<>>]
  BY <1>1
<1> QED
  BY <1>2 DEF Among

LEMMA AmongNone ==
    ASSUME NEW S, NEW s \in Seq(S), NEW good, \A i \in 1..Len(s) : s[i] \notin good
    PROVE  Among(s, good) = <<>>
<1> DEFINE F == Cells(S, good)
<1>1. F \in [S -> Seq(S)]
  BY CellsAre
<1>2. \A i \in 1..Len(s) : s[i] \in S
  OBVIOUS
<1>3. \A i \in 1..Len(s) : F[s[i]] = <<>>
  BY <1>2 DEF Cells, Cell
<1>4. Among(s, good) = FlatMap(F, s)
  BY AmongIs
<1> HIDE DEF F
<1>5. FlatMap(F, s) = <<>>
  BY <1>1, <1>3, FlatMapNothing
<1> QED
  BY <1>4, <1>5

LEMMA AmongAll ==
    ASSUME NEW S, NEW good
    PROVE  \A s \in Seq(S) : (\A i \in 1..Len(s) : s[i] \in good) => Among(s, good) = s
<1> DEFINE All(s) == \A i \in 1..Len(s) : s[i] \in good
           H == {s \in Seq(S) : All(s) => Among(s, good) = s}
<1>1. <<>> \in H
  BY EmptySeq, AmongEmpty
<1>2. ASSUME NEW s \in Seq(S), NEW e \in S, s \in H
      PROVE  Append(s, e) \in H
  <2> DEFINE t == Append(s, e)
  <2>1. /\ Len(s) \in Nat /\ t \in Seq(S) /\ Len(t) = Len(s) + 1
        /\ \A i \in 1..Len(s) : t[i] = s[i]
        /\ t[Len(s) + 1] = e
    BY AppendIs
  <2>2. Among(t, good) = Among(s, good) \o Cell(e, good)
    BY AmongAppend
  <2>3. t = s \o <<e>>
    BY AppendProperties
  <2> HIDE DEF t
  <2>4. ASSUME All(t)
        PROVE  Among(t, good) = t
    <3>1. \A i \in 1..Len(s) : i \in 1..Len(t)
      BY <2>1
    <3>2. All(s)
      BY <2>1, <2>4, <3>1
    <3>3. Len(s) + 1 \in 1..Len(t)
      BY <2>1
    <3>4. Cell(e, good) = <<e>>
      BY <2>1, <2>4, <3>3 DEF Cell
    <3>5. Among(s, good) = s
      BY <1>2, <3>2
    <3> QED
      BY <2>2, <2>3, <3>4, <3>5
  <2> HIDE DEF All
  <2> QED
    BY <2>1, <2>4 DEF t
<1> HIDE DEF H
<1>3. \A s \in Seq(S) : s \in H
  BY <1>1, <1>2, BySeqInduction
<1> QED
  BY <1>3 DEF H

\* The numbers of messages, commands waiting or commands handled.
NsOf(s) == [i \in DOMAIN s |-> s[i].n]

LEMMA NsIs ==
    ASSUME NEW S, \A e \in S : e.n \in Nat, NEW s \in Seq(S)
    PROVE  /\ NsOf(s) \in Seq(Nat) /\ Len(NsOf(s)) = Len(s)
           /\ \A i \in 1..Len(s) : NsOf(s)[i] = s[i].n
<1> DEFINE n == Len(s)
           t == [i \in 1..n |-> s[i].n]
<1>1. n \in Nat /\ DOMAIN s = 1..n /\ \A i \in 1..n : s[i] \in S
  OBVIOUS
<1>2. \A i \in 1..n : s[i].n \in Nat
  BY <1>1
<1>3. NsOf(s) = t
  BY <1>1 DEF NsOf
<1> HIDE DEF n
<1>4. t \in Seq(Nat) /\ Len(t) = n /\ \A i \in 1..n : t[i] = s[i].n
  BY <1>1, <1>2
<1> QED
  BY <1>3, <1>4 DEF n

LEMMA NsConcat ==
    ASSUME NEW S, \A e \in S : e.n \in Nat, NEW s \in Seq(S), NEW t \in Seq(S)
    PROVE  NsOf(s \o t) = NsOf(s) \o NsOf(t)
<1> DEFINE st == s \o t
           a == NsOf(s)
           b == NsOf(t)
           c == NsOf(st)
           ab == a \o b
<1>1. /\ st \in Seq(S) /\ Len(st) = Len(s) + Len(t)
      /\ \A i \in 1..(Len(s) + Len(t)) : st[i] = IF i <= Len(s) THEN s[i] ELSE t[i - Len(s)]
      /\ Len(s) \in Nat /\ Len(t) \in Nat
  BY ConcatProperties
<1> HIDE DEF st
<1>2. /\ a \in Seq(Nat) /\ Len(a) = Len(s) /\ \A i \in 1..Len(s) : a[i] = s[i].n
      /\ b \in Seq(Nat) /\ Len(b) = Len(t) /\ \A i \in 1..Len(t) : b[i] = t[i].n
  BY NsIs
<1>3. c \in Seq(Nat) /\ Len(c) = Len(st) /\ \A i \in 1..Len(st) : c[i] = st[i].n
  BY <1>1, NsIs
<1> HIDE DEF a, b, c
<1>4. /\ ab \in Seq(Nat) /\ Len(ab) = Len(a) + Len(b)
      /\ \A i \in 1..(Len(a) + Len(b)) : ab[i] = IF i <= Len(a) THEN a[i] ELSE b[i - Len(a)]
  BY <1>2, ConcatProperties
<1> HIDE DEF ab
<1>5. ASSUME NEW i \in 1..Len(c)
      PROVE  c[i] = ab[i]
  <2>1. CASE i <= Len(s)
    <3>1. i \in 1..Len(s) /\ c[i] = s[i].n
      BY <1>1, <1>3, <2>1
    <3> QED
      BY <1>1, <1>2, <1>3, <1>4, <2>1, <3>1
  <2>2. CASE ~(i <= Len(s))
    <3>1. i - Len(s) \in 1..Len(t) /\ c[i] = t[i - Len(s)].n
      BY <1>1, <1>3, <2>2
    <3>2. ab[i] = b[i - Len(s)]
      BY <1>1, <1>2, <1>3, <1>4, <2>2
    <3> QED
      BY <1>2, <3>1, <3>2
  <2> QED
    BY <2>1, <2>2
<1>6. Len(c) = Len(ab)
  BY <1>1, <1>2, <1>3, <1>4
<1>7. c = ab
  BY <1>3, <1>4, <1>5, <1>6, SeqEqual
<1> QED
  BY <1>7 DEF a, b, c, ab, st

(***************************************************************************)
(* The commands among the units received.                                  *)
(***************************************************************************)
Text == {m \in Messages : m.kind = "text"}

LEMMA WholeConcat ==
    ASSUME NEW s \in Seq(Units), NEW t \in Seq(Units), NEW kind
    PROVE  WholeOf(s \o t, kind) = WholeOf(s, kind) \o WholeOf(t, kind)
<1> DEFINE F == Ending(kind)
<1>1. F \in [Units -> Seq(Messages)]
  BY EndingIs
<1>2. s \o t \in Seq(Units)
  BY ConcatProperties
<1>3. WholeOf(s, kind) = FlatMap(F, s)
  BY WholeOfIs
<1>4. WholeOf(t, kind) = FlatMap(F, t)
  BY WholeOfIs
<1>5. WholeOf(s \o t, kind) = FlatMap(F, s \o t)
  BY <1>2, WholeOfIs
<1> HIDE DEF F
<1>6. Spreads(F, s, t)
  BY <1>1, FlatMapSpreads
<1> QED
  BY <1>3, <1>4, <1>5, <1>6 DEF Spreads

LEMMA WholeNone ==
    ASSUME NEW s \in Seq(Units), NEW kind,
           \A i \in 1..Len(s) : ~EndsMessage(s[i]) \/ s[i].msg.kind # kind
    PROVE  WholeOf(s, kind) = <<>>
<1> DEFINE F == Ending(kind)
<1>1. F \in [Units -> Seq(Messages)]
  BY EndingIs
<1>2. \A i \in 1..Len(s) : s[i] \in Units
  OBVIOUS
<1>3. \A i \in 1..Len(s) : F[s[i]] = <<>>
  BY <1>2 DEF Ending
<1>4. WholeOf(s, kind) = FlatMap(F, s)
  BY WholeOfIs
<1> HIDE DEF F
<1>5. FlatMap(F, s) = <<>>
  BY <1>1, <1>3, FlatMapNothing
<1> QED
  BY <1>4, <1>5

\* Whole messages are messages of units received.
LEMMA WholeFrom ==
    ASSUME NEW s \in Seq(Units), NEW kind
    PROVE  \A i \in 1..Len(WholeOf(s, kind)) :
              \E j \in 1..Len(s) : WholeOf(s, kind)[i] = s[j].msg
<1> DEFINE F == Ending(kind)
<1>1. F \in [Units -> Seq(Messages)]
  BY EndingIs
<1>2. WholeOf(s, kind) = FlatMap(F, s)
  BY WholeOfIs
<1>3. ASSUME NEW u \in Units, NEW l \in 1..Len(F[u])
      PROVE  F[u][l] = u.msg
  <2>1. F[u] = IF EndsMessage(u) /\ u.msg.kind = kind THEN <<u.msg>> ELSE <<>>
    BY DEF Ending
  <2> HIDE DEF F
  <2>2. EndsMessage(u) /\ u.msg.kind = kind
    BY <2>1
  <2>3. F[u] = <<u.msg>>
    BY <2>1, <2>2
  <2> QED
    BY <2>3
<1> HIDE DEF F
<1>4. ComesFrom(F, s)
  BY <1>1, FlatMapFrom
<1>5. \A j \in 1..Len(s) : s[j] \in Units
  OBVIOUS
<1> QED
  BY <1>2, <1>3, <1>4, <1>5 DEF ComesFrom

LEMMA TextOfCut ==
    ASSUME NEW m \in Messages
    PROVE  WholeOf(UnitsOf(m), "text") = Cell(m, Text)
<1> DEFINE s == UnitsOf(m)
           F == Ending("text")
<1>1. /\ s \in Seq(Units) /\ Len(s) = Size(m.kind)
      /\ \A k \in 1..Size(m.kind) : s[k] = [msg |-> m, part |-> k]
  BY UnitsOfIs
<1> HIDE DEF s
<1>2. CASE m.kind # "text"
  <2>1. \A i \in 1..Len(s) : s[i].msg = m
    BY <1>1
  <2>2. WholeOf(s, "text") = <<>>
    BY <1>1, <1>2, <2>1, WholeNone
  <2> QED
    BY <1>2, <2>2 DEF Cell, Text, s
<1>3. CASE m.kind = "text"
  <2> DEFINE u == [msg |-> m, part |-> 1]
             v == [msg |-> m, part |-> 2]
  <2>1. Size(m.kind) = 2
    BY <1>3 DEF Size
  <2>2. /\ s[1] = u /\ s[2] = v /\ Len(s) = 2
    BY <1>1, <2>1
  <2> HIDE DEF u, v
  <2>3. u \in Units /\ v \in Units
    <3>1. \A i \in 1..Len(s) : s[i] \in Units
      BY <1>1
    <3>2. s[1] \in Units /\ s[2] \in Units
      BY <2>2, <3>1
    <3> QED
      BY <2>2, <3>2
  <2>4. F[u] = <<>> /\ F[v] = <<m>>
    BY <1>3, <2>1, <2>3 DEF Ending, EndsMessage, u, v
  <2> HIDE DEF F
  <2>5. s = Append(<<u>>, v) /\ <<u>> \in Seq(Units)
    BY <1>1, <2>2, <2>3
  <2>6. F \in [Units -> Seq(Messages)]
    BY EndingIs DEF F
  <2>7. FlatMap(F, s) = FlatMap(F, <<u>>) \o F[v]
    <3>1. FlatMap(F, Append(<<u>>, v)) = FlatMap(F, <<u>>) \o F[v]
      BY <2>3, <2>5, <2>6, FlatMapAppend
    <3> QED
      BY <2>5, <3>1
  <2>8. FlatMap(F, <<u>>) = F[u]
    BY <2>3, <2>6, FlatMapOne
  <2>9. WholeOf(s, "text") = FlatMap(F, s)
    BY <1>1, WholeOfIs DEF F
  <2>10. <<>> \o <<m>> = <<m>>
    BY ConcatEmptySeq
  <2>11. WholeOf(s, "text") = <<m>>
    BY <2>4, <2>7, <2>8, <2>9, <2>10
  <2> QED
    BY <1>3, <2>11 DEF Cell, Text, s
<1> QED
  BY <1>2, <1>3

\* The commands of a script are those among its units.
LEMMA TextsOfAll ==
    ASSUME NEW s \in Seq(Messages)
    PROVE  WholeOf(UnitsOfAll(s), "text") = CommandsOf(s)
<1> DEFINE F == Cut
           G == Ending("text")
           K == Cells(Messages, Text)
<1>1. F \in [Messages -> Seq(Units)] /\ G \in [Units -> Seq(Messages)]
  BY CutIs, EndingIs
<1>2. K \in [Messages -> Seq(Messages)]
  BY CellsAre
<1>3. \A m \in Messages : FlatMap(G, F[m]) = K[m]
  <2> SUFFICES ASSUME NEW m \in Messages
               PROVE  FlatMap(G, F[m]) = K[m]
    OBVIOUS
  <2>1. F[m] = UnitsOf(m) /\ K[m] = Cell(m, Text)
    BY DEF Cut, Cells
  <2>2. UnitsOf(m) \in Seq(Units)
    BY UnitsOfIs
  <2>3. WholeOf(UnitsOf(m), "text") = FlatMap(G, UnitsOf(m))
    BY <2>2, WholeOfIs
  <2> QED
    BY <2>1, <2>3, TextOfCut
<1>4. Among(s, Text) = FlatMap(K, s)
  BY AmongIs
<1>5. UnitsOfAll(s) = FlatMap(F, s) /\ UnitsOfAll(s) \in Seq(Units)
  BY UnitsOfAllIs, UnitsOfAllFacts
<1>6. WholeOf(UnitsOfAll(s), "text") = FlatMap(G, UnitsOfAll(s))
  BY <1>5, WholeOfIs
<1> HIDE DEF F, G, K
<1>7. AtOnce(F, G, K, s)
  BY <1>1, <1>2, <1>3, FlatMapTwice
<1>8. CommandsOf(s) = Among(s, Text)
  <2> DEFINE good == {m \in ToSet(s) : m.kind = "text"}
  <2>1. \A i \in 1..Len(s) : s[i] \in good <=> s[i] \in Text
    <3>1. \A i \in 1..Len(s) : s[i] \in ToSet(s) /\ s[i] \in Messages
      BY DEF ToSet
    <3> QED
      BY <3>1 DEF Text
  <2>2. CommandsOf(s) = Among(s, good)
    BY DEF CommandsOf
  <2> HIDE DEF good
  <2>3. Among(s, good) = Among(s, Text)
    BY <2>1, AmongSame
  <2> QED
    BY <2>2, <2>3
<1> QED
  BY <1>4, <1>5, <1>6, <1>7, <1>8 DEF AtOnce

\* The beginning of a piece.
LEMMA StartOfPiece ==
    ASSUME NEW S, NEW s \in Seq(S), NEW w \in 0..Len(s), NEW k \in 0..w, NEW e \in 0..(w - k)
    PROVE  /\ SubSeq(SubSeq(s, k + 1, w), 1, e) = SubSeq(s, k + 1, k + e)
           /\ SubSeq(s, 1, k) \o SubSeq(s, k + 1, k + e) = SubSeq(s, 1, k + e)
           /\ SubSeq(s, 1, k) \in Seq(S) /\ SubSeq(s, k + 1, k + e) \in Seq(S)
<1>1. /\ Len(s) \in Nat /\ w \in Nat /\ k \in Nat /\ e \in Nat
      /\ k + e \in 0..Len(s) /\ k \in 0..(k + e) /\ 0 \in 0..(w - k) /\ k <= w
      /\ k \in 0..Len(s)
  OBVIOUS
<1> DEFINE t == SubSeq(s, k + 1, w)
           u == SubSeq(t, 1, e)
           v == SubSeq(s, k + 1, k + e)
<1>2. t \in Seq(S) /\ Len(t) = w - k /\ \A i \in 1..(w - k) : t[i] = s[k + i]
  BY <1>1, LeftOfLeft
<1>3. v \in Seq(S) /\ Len(v) = e /\ \A i \in 1..e : v[i] = s[k + i]
  <2> DEFINE x == k + e
  <2>1. x \in 0..Len(s) /\ k \in 0..x /\ 0 \in 0..(x - k) /\ x - k = e
    BY <1>1
  <2> HIDE DEF x
  <2>2. /\ SubSeq(s, k + 1, x) \in Seq(S) /\ Len(SubSeq(s, k + 1, x)) = x - k
        /\ \A i \in 1..(x - k) : SubSeq(s, k + 1, x)[i] = s[k + i]
    BY <2>1, LeftOfLeft
  <2> QED
    BY <2>1, <2>2 DEF x
<1> HIDE DEF t
<1>4. u \in Seq(S) /\ Len(u) = e /\ \A i \in 1..e : u[i] = t[i]
  <2>1. e \in 0..Len(t) /\ 0 \in 0..e /\ 0 \in 0..(e - 0) /\ e - 0 = e /\ 0 + 1 = 1
    BY <1>1, <1>2
  <2>2. /\ SubSeq(t, 0 + 1, e) \in Seq(S) /\ Len(SubSeq(t, 0 + 1, e)) = e - 0
        /\ \A i \in 1..(e - 0) : SubSeq(t, 0 + 1, e)[i] = t[0 + i]
    BY <1>2, <2>1, LeftOfLeft
  <2>3. \A i \in 1..e : 0 + i = i
    BY <1>1
  <2> QED
    BY <2>1, <2>2, <2>3
<1> HIDE DEF u, v
<1>5. \A i \in 1..e : i \in 1..(w - k)
  BY <1>1
<1>6. u = v
  <2>1. \A i \in 1..Len(u) : u[i] = v[i]
    BY <1>2, <1>3, <1>4, <1>5
  <2> QED
    BY <1>3, <1>4, <2>1, SeqEqual
<1>7. SubSeq(s, 1, k) \o SubSeq(s, k + 1, k + e) = SubSeq(s, 1, k + e)
  <2>1. 1 \in 1..(Len(s) + 1) /\ k \in (1 - 1)..Len(s) /\ k + e \in k..Len(s)
    BY <1>1
  <2> QED
    BY <2>1, ConcatAdjacentSubSeq
<1>8. SubSeq(s, 1, k) \in Seq(S)
  BY <1>1, SplitAt
<1> QED
  BY <1>3, <1>6, <1>7, <1>8 DEF t, u, v

(***************************************************************************)
(* Of the first k units of a script, received and decoded, the commands    *)
(* are x.                                                                  *)
(***************************************************************************)
Ran(s, r, x) ==
    \E k \in 0..r.written :
        /\ ~r.dead => r.in \o r.up = SubSeq(UnitsOfAll(s), k + 1, r.written)
        /\ x = NsOf(WholeOf(SubSeq(UnitsOfAll(s), 1, k), "text"))

\* What is received and not decoded stays.
Quiet(r, q) == q.in \o q.up = r.in \o r.up /\ q.written = r.written /\ (r.dead => q.dead)

LEMMA QuietRan ==
    ASSUME NEW s, NEW r, NEW q, NEW x, Ran(s, r, x), Quiet(r, q)
    PROVE  Ran(s, q, x)
BY DEF Ran, Quiet

LEMMA AsideQuiet ==
    ASSUME NEW r, NEW q, Aside(r, q)
    PROVE  Quiet(r, q)
BY DEF Aside, Quiet

LEMMA FlushedQuiet ==
    ASSUME NEW r \in Records
    PROVE  Aside(r, Flushed(r)) /\ Aside(r, FlushIfWritable(r))
<1>1. Aside(r, r)
  BY DEF Aside
<1>2. Aside(r, Flushed(r))
  BY DEF Flushed, Aside, Records
<1> QED
  BY <1>1, <1>2 DEF FlushIfWritable

LEMMA SentQuiet ==
    ASSUME NEW r \in Records, NEW m \in Messages
    PROVE  LET q == Flushed(Put(r, m))
           IN q.written = r.written /\ q.in = r.in /\ q.up = r.up /\ Quiet(r, q)
<1> DEFINE p == Put(r, m)
           q == Flushed(p)
<1>1. p \in Records
  BY PutKeeps
<1>2. p.written = r.written /\ p.in = r.in /\ p.up = r.up /\ p.dead = r.dead
  BY DEF Put, Records
<1> HIDE DEF p
<1>3. Aside(p, q)
  BY <1>1, FlushedQuiet
<1> HIDE DEF q
<1>4. q.written = r.written /\ q.in = r.in /\ q.up = r.up /\ Quiet(r, q)
  BY <1>2, <1>3 DEF Aside, Quiet
<1> QED
  BY <1>4 DEF q, p

LEMMA WrittenRan ==
    ASSUME NEW s \in Scripts, NEW r \in Records, NEW x, Ran(s, r, x),
           r.written < Len(UnitsOfAll(s))
    PROVE  LET q == [r EXCEPT !.up = Append(@, UnitsOfAll(s)[r.written + 1]),
                              !.written = @ + 1]
           IN Ran(s, q, x)
<1> DEFINE all == UnitsOfAll(s)
           w == r.written
           e == all[w + 1]
           q == [r EXCEPT !.up = Append(@, e), !.written = @ + 1]
<1>1. all \in Seq(Units) /\ Len(all) \in Nat
  BY RequestFirst
<1>2. w \in Nat /\ r.in \in Seq(Units) /\ r.up \in Seq(Units)
  BY DEF Records
<1>3. e \in Units /\ w < Len(all)
  <2> DEFINE j == w + 1
  <2>1. j \in 1..Len(all)
    BY <1>1, <1>2
  <2> HIDE DEF j, all
  <2>2. all[j] \in Units
    BY <1>1, <2>1
  <2> QED
    BY <2>2 DEF j, all
<1>4. PICK k \in 0..w : /\ ~r.dead => r.in \o r.up = SubSeq(all, k + 1, w)
                        /\ x = NsOf(WholeOf(SubSeq(all, 1, k), "text"))
  BY DEF Ran
<1>5. q.in = r.in /\ q.up = Append(r.up, e) /\ q.written = w + 1 /\ q.dead = r.dead
  BY DEF Records
<1> HIDE DEF all, w, e, q
<1>6. r.in \o Append(r.up, e) = Append(r.in \o r.up, e)
  <2> DEFINE a == r.in
             b == r.up
  <2>1. a \in Seq(Units) /\ b \in Seq(Units)
    BY <1>2
  <2> HIDE DEF a, b
  <2>2. a \o Append(b, e) = Append(a \o b, e)
    BY <1>3, <2>1
  <2> QED
    BY <2>2 DEF a, b
<1>7. SubSeq(all, k + 1, w + 1) = Append(SubSeq(all, k + 1, w), all[w + 1])
  BY <1>1, <1>2, <1>3, LeftGrows
<1>8. ~q.dead => q.in \o q.up = SubSeq(all, k + 1, q.written)
  BY <1>4, <1>5, <1>6, <1>7 DEF e
<1>9. k \in 0..q.written
  BY <1>2, <1>5
<1> QED
  BY <1>4, <1>8, <1>9 DEF Ran, all, q, e, w

\* Before the handshake there is no command.
LEMMA NoTextYet ==
    ASSUME NEW s \in Scripts, NEW k \in 0..First(s)
    PROVE  WholeOf(SubSeq(UnitsOfAll(s), 1, k), "text") = <<>>
<1> DEFINE all == UnitsOfAll(s)
           t == SubSeq(all, 1, k)
<1>1. /\ all \in Seq(Units) /\ Len(all) \in Nat /\ First(s) \in 0..Len(all)
      /\ \A j \in 1..Len(all) : j <= First(s) => all[j].msg.kind \in Requests
  <2>1. /\ all \in Seq(Units) /\ Len(all) \in Nat /\ First(s) \in 0..Len(all)
        /\ \A j \in 1..Len(all) :
              IF j <= First(s) THEN /\ all[j] = [msg |-> s[1], part |-> j]
                                    /\ First(s) = Size(s[1].kind)
                                    /\ s[1].kind \in Requests
              ELSE all[j].msg.kind \in Frames
    BY RequestFirst
  <2> HIDE DEF all
  <2>2. \A j \in 1..Len(all) : j <= First(s) => all[j].msg = s[1] /\ s[1].kind \in Requests
    <3> SUFFICES ASSUME NEW j \in 1..Len(all), j <= First(s)
                 PROVE  all[j].msg = s[1] /\ s[1].kind \in Requests
      OBVIOUS
    <3>1. all[j] = [msg |-> s[1], part |-> j] /\ s[1].kind \in Requests
      BY <2>1
    <3> QED
      BY <3>1
  <2> QED
    BY <2>1, <2>2
<1> HIDE DEF all
<1>2. t \in Seq(Units) /\ Len(t) = k /\ \A i \in 1..k : t[i] = all[i]
  <2>1. k \in 0..Len(all) /\ k \in Nat
    BY <1>1
  <2>2. t \in Seq(Units) /\ Len(t) = k
    BY <1>1, <2>1, SplitAt
  <2>3. \A i \in 1..k : t[i] = all[i]
    BY <1>1, <2>1, <2>2
  <2> QED
    BY <2>2, <2>3
<1> HIDE DEF t
<1>3. \A i \in 1..k : i \in 1..Len(all) /\ i <= First(s)
  BY <1>1
<1>4. \A i \in 1..Len(t) : t[i].msg.kind # "text"
  BY <1>1, <1>2, <1>3 DEF Requests
<1>5. WholeOf(t, "text") = <<>>
  BY <1>2, <1>4, WholeNone
<1> QED
  BY <1>5 DEF t, all

\* decode_frames(): the commands decoded are the next of the script's.
LEMMA DecodesOn ==
    ASSUME NEW all \in Seq(Units), NEW w \in 0..Len(all), NEW k \in 0..w
    PROVE  LET units == SubSeq(all, k + 1, w)
               good == UpToFatal(units)
           IN \E j \in 0..w :
                 /\ good = units => Undecoded(good) = SubSeq(all, j + 1, w)
                 /\ NsOf(WholeOf(SubSeq(all, 1, j), "text"))
                      = NsOf(WholeOf(SubSeq(all, 1, k), "text")) \o NsOf(WholeOf(good, "text"))
<1> DEFINE units == SubSeq(all, k + 1, w)
           good == UpToFatal(units)
<1>1. Len(all) \in Nat /\ w \in Nat /\ k \in Nat /\ w - k \in Nat /\ 0 \in 0..(w - k)
  OBVIOUS
<1>2. units \in Seq(Units) /\ Len(units) = w - k
  BY <1>1, LeftOfLeft
<1> HIDE DEF units
<1>3. PICK n \in 0..Len(units) :
          /\ good = SubSeq(units, 1, n)
          /\ good = units => n = Len(units)
  BY <1>2, UpToFatalIs
<1>4. good \in Seq(Units) /\ Len(good) = n
  BY <1>2, <1>3, SplitAt
<1> HIDE DEF good
<1>5. PICK e \in 0..Len(good) :
          /\ Undecoded(good) = SubSeq(good, e + 1, Len(good))
          /\ \A j \in (e + 1)..Len(good) : ~EndsMessage(good[j])
  BY <1>4, UndecodedIs
<1>6. n \in Nat /\ e \in Nat /\ e \in 0..n /\ e \in 0..(w - k) /\ k + e \in 0..w
  BY <1>1, <1>2, <1>3, <1>4, <1>5
<1> DEFINE u == SubSeq(good, 1, e)
           v == SubSeq(good, e + 1, Len(good))
           z == SubSeq(all, 1, k)
<1>7. u \in Seq(Units) /\ v \in Seq(Units) /\ Len(v) = n - e /\ good = u \o v
  BY <1>4, <1>6, SplitAt
<1>8. u = SubSeq(units, 1, e)
  <2>1. n \in 0..Len(units) /\ 0 \in 0..n /\ e \in 0..(n - 0) /\ 0 + 1 = 1 /\ 0 + e = e
    BY <1>1, <1>2, <1>6
  <2>2. SubSeq(SubSeq(units, 0 + 1, n), 1, e) = SubSeq(units, 0 + 1, 0 + e)
    BY <1>2, <2>1, StartOfPiece
  <2> QED
    BY <1>3, <2>1, <2>2
<1>9. /\ u = SubSeq(all, k + 1, k + e) /\ z \in Seq(Units)
      /\ SubSeq(all, 1, k + e) = z \o SubSeq(all, k + 1, k + e)
  BY <1>6, <1>8, StartOfPiece DEF units
<1>10. WholeOf(v, "text") = <<>>
  <2>1. \A i \in 1..(n - e) : v[i] = good[e + i]
    <3>1. e \in 0..Len(good) /\ Len(good) \in 0..Len(good) /\ 0 \in 0..(Len(good) - e)
      BY <1>4, <1>6
    <3>2. \A i \in 1..(Len(good) - e) : SubSeq(good, e + 1, Len(good))[i] = good[e + i]
      BY <1>4, <3>1, LeftOfLeft
    <3> QED
      BY <1>4, <3>2
  <2>2. \A i \in 1..(n - e) : e + i \in (e + 1)..Len(good)
    BY <1>4, <1>6
  <2> HIDE DEF v
  <2>3. \A i \in 1..Len(v) : ~EndsMessage(v[i])
    BY <1>5, <1>7, <2>1, <2>2
  <2> QED
    BY <1>7, <2>3, WholeNone
<1>11. good = units => Undecoded(good) = SubSeq(all, (k + e) + 1, w)
  <2> SUFFICES ASSUME good = units
               PROVE  Undecoded(good) = SubSeq(all, (k + e) + 1, w)
    OBVIOUS
  <2>1. SubSeq(SubSeq(all, k + 1, w), e + 1, w - k) = SubSeq(all, (k + e) + 1, w)
    BY <1>6, LeftOfLeft
  <2> QED
    BY <1>2, <1>5, <2>1 DEF units
<1> DEFINE a == WholeOf(u, "text")
           b == WholeOf(z, "text")
<1>12. WholeOf(good, "text") = a
  <2> HIDE DEF u, v
  <2>1. WholeOf(u \o v, "text") = WholeOf(u, "text") \o WholeOf(v, "text")
    BY <1>7, WholeConcat, SMTT(30)
  <2>2. a \in Seq(Messages)
    BY <1>7, WholeOfType
  <2> HIDE DEF a
  <2>3. a \o <<>> = a
    BY <2>2, ConcatEmptySeq
  <2> QED
    BY <1>7, <1>10, <2>1, <2>3 DEF a
<1>13. WholeOf(SubSeq(all, 1, k + e), "text") = b \o a
  <2> HIDE DEF u, z
  <2>1. SubSeq(all, 1, k + e) = z \o u
    BY <1>9
  <2>2. WholeOf(z \o u, "text") = WholeOf(z, "text") \o WholeOf(u, "text")
    BY <1>7, <1>9, WholeConcat
  <2> QED
    BY <2>1, <2>2
<1>14. a \in Seq(Messages) /\ b \in Seq(Messages)
  <2> HIDE DEF u, z
  <2> QED
    BY <1>7, <1>9, WholeOfType
<1> HIDE DEF a, b
<1>15. NsOf(b \o a) = NsOf(b) \o NsOf(a)
  <2>1. \A m \in Messages : m.n \in Nat
    BY DEF Messages
  <2> QED
    BY <1>14, <2>1, NsConcat
<1>16. NsOf(WholeOf(SubSeq(all, 1, k + e), "text")) = NsOf(b) \o NsOf(WholeOf(good, "text"))
  BY <1>12, <1>13, <1>15
<1> DEFINE j == k + e
<1>17. j \in 0..w
  BY <1>6
<1>18. /\ good = units => Undecoded(good) = SubSeq(all, j + 1, w)
       /\ NsOf(WholeOf(SubSeq(all, 1, j), "text")) = NsOf(b) \o NsOf(WholeOf(good, "text"))
  BY <1>11, <1>16
<1> HIDE DEF j
<1> QED
  BY <1>17, <1>18 DEF b, z, good, units

\* Reading frames: what was run, and then what is decoded.
LEMMA DecodedRan ==
    ASSUME NEW s \in Scripts, NEW r \in Records, NEW x, NEW more \in BOOLEAN, Ran(s, r, x),
           Fitting(r), ~r.dead, r.written <= Len(UnitsOfAll(s))
    PROVE  LET units == r.in \o r.up
               good == UpToFatal(units)
               d == Decoded([r EXCEPT !.up = <<>>], units, good)
               q == [d EXCEPT !.dead = @ \/ more]
           IN Ran(s, q, x \o NsOf(WholeOf(good, "text")))
<1> DEFINE units == r.in \o r.up
           good == UpToFatal(units)
           p == [r EXCEPT !.up = <<>>]
           d == Decoded(p, units, good)
           q == [d EXCEPT !.dead = @ \/ more]
           w == r.written
           all == UnitsOfAll(s)
<1>1. all \in Seq(Units) /\ Len(all) \in Nat
  BY RequestFirst
<1>2. w \in Nat /\ r.in \in Seq(Units) /\ r.up \in Seq(Units) /\ units \in Seq(Units)
  BY ConcatProperties DEF Records
<1>3. PICK k \in 0..w : /\ units = SubSeq(all, k + 1, w)
                        /\ x = NsOf(WholeOf(SubSeq(all, 1, k), "text"))
  BY DEF Ran
<1>4. p \in Records /\ p.up = <<>> /\ p.written = w /\ p.dead = FALSE /\ Fitting(p)
  BY EmptySeq DEF Records, Fitting
<1> HIDE DEF units, all, w
<1>5. good \in Seq(Units)
  <2>1. PICK n \in 0..Len(units) : good = SubSeq(units, 1, n)
    BY <1>2, UpToFatalIs
  <2> QED
    BY <1>2, <2>1, SplitAt
<1>6. w \in 0..Len(all)
  BY <1>2 DEF all, w
<1>7. PICK j \in 0..w :
          /\ good = units => Undecoded(good) = SubSeq(all, j + 1, w)
          /\ NsOf(WholeOf(SubSeq(all, 1, j), "text")) = x \o NsOf(WholeOf(good, "text"))
  <2>1. \E j \in 0..w :
           /\ UpToFatal(SubSeq(all, k + 1, w)) = SubSeq(all, k + 1, w) =>
                 Undecoded(UpToFatal(SubSeq(all, k + 1, w))) = SubSeq(all, j + 1, w)
           /\ NsOf(WholeOf(SubSeq(all, 1, j), "text"))
                = NsOf(WholeOf(SubSeq(all, 1, k), "text"))
                    \o NsOf(WholeOf(UpToFatal(SubSeq(all, k + 1, w)), "text"))
    BY <1>1, <1>6, DecodesOn
  <2> QED
    BY <1>3, <2>1
<1> HIDE DEF good, p
<1>8. d \in Records /\ d.written = w /\ d.up = <<>> /\ d.in = Undecoded(good)
      /\ d.dead = (good # units)
  <2>1. p \in Records /\ Fitting(p) /\ units \in Seq(Units)
    BY <1>2, <1>4
  <2>2. /\ d \in Records /\ d.written = p.written /\ d.up = p.up
        /\ d.in = Undecoded(good) /\ d.dead = (p.dead \/ good # units)
    BY <1>5, <2>1, DecodedKeeps
  <2> HIDE DEF d
  <2> QED
    BY <1>4, <2>2
<1> HIDE DEF d
<1>9. q.written = w /\ q.up = <<>> /\ q.in = Undecoded(good) /\ (~q.dead => good = units)
  BY <1>8 DEF Records
<1> HIDE DEF q
<1>10. ~q.dead => q.in \o q.up = SubSeq(all, j + 1, w)
  <2> SUFFICES ASSUME ~q.dead
               PROVE  q.in \o q.up = SubSeq(all, j + 1, w)
    OBVIOUS
  <2> DEFINE v == SubSeq(all, j + 1, w)
  <2>1. q.in = v
    BY <1>7, <1>9
  <2>2. v \in Seq(Units)
    <3>1. 0 \in 0..(w - j)
      BY <1>2
    <3> QED
      BY <1>1, <1>6, <3>1, LeftOfLeft
  <2> HIDE DEF v
  <2>3. v \o <<>> = v
    BY <2>2, ConcatEmptySeq
  <2> QED
    BY <1>9, <2>1, <2>3 DEF v
<1> QED
  BY <1>7, <1>9, <1>10 DEF Ran, q, d, p, good, all, units

(***************************************************************************)
(* What the commands of each connection come to: those handled, and those  *)
(* that wait, are the commands of the script so far.                       *)
(***************************************************************************)
Of(c) == {e \in Waiting \union Done : e.from = c}
Given(c) == NsOf(Among(handled, Of(c))) \o NsOf(Among(pending, Of(c)))
AllRan == \A c \in Conns : Ran(Script(c), conn[c], Given(c))

\* What most steps do: commands move neither in nor on.
Steady ==
    /\ cast' = cast /\ handled' = handled /\ pending' = pending
    /\ \A c \in Conns : Quiet(conn[c], conn'[c])

LEMMA SteadyKeeps == AllRan /\ Steady => AllRan'
<1> SUFFICES ASSUME AllRan, Steady
             PROVE  AllRan'
  OBVIOUS
<1> SUFFICES ASSUME NEW c \in Conns
             PROVE  Ran(Script(c)', conn'[c], Given(c)')
  BY DEF AllRan
<1>1. Script(c)' = Script(c)
  BY DEF Script, Steady
<1>2. Given(c)' = Given(c)
  BY DEF Given, Steady
<1>3. Ran(Script(c), conn'[c], Given(c))
  BY QuietRan DEF AllRan, Steady
<1> QED
  BY <1>1, <1>2, <1>3

\* One record changes, and that quietly.
LEMMA SteadyAt ==
    ASSUME WsInv, NEW c \in Conns, NEW q, conn' = [conn EXCEPT ![c] = q], Quiet(conn[c], q),
           cast' = cast, handled' = handled, pending' = pending
    PROVE  Steady
<1>1. conn \in [Conns -> Records]
  BY DEF WsInv, WsTypes
<1>2. \A d \in Conns : conn'[d] = IF d = c THEN q ELSE conn[d]
  BY <1>1
<1>3. \A r : Quiet(r, r)
  BY DEF Quiet
<1>4. \A d \in Conns : Quiet(conn[d], conn'[d])
  BY <1>2, <1>3
<1> QED
  BY <1>4 DEF Steady

LEMMA SteadyIfSame ==
    ASSUME conn' = conn, cast' = cast, handled' = handled, pending' = pending
    PROVE  Steady
BY DEF Steady, Quiet

LEMMA PollUnreadableSteady == WsInv /\ PollUnreadable => Steady
<1> SUFFICES ASSUME WsInv, PollUnreadable
             PROVE  Steady
  OBVIOUS
<1> DEFINE c == clients[at]
           r == conn[c]
           d == [r EXCEPT !.dead = TRUE]
           q == IF revents[at].err THEN d ELSE FlushIfWritable(r)
<1>1. /\ Polling /\ conn' = [conn EXCEPT ![c] = q]
      /\ cast' = cast /\ handled' = handled /\ pending' = pending
  BY DEF PollUnreadable
<1>2. r \in Records /\ c \in Conns
  BY <1>1, ClientIs
<1>3. Quiet(r, d)
  BY <1>2 DEF Quiet, Records
<1>4. Quiet(r, FlushIfWritable(r))
  BY <1>2, FlushedQuiet, AsideQuiet
<1>5. Quiet(r, q)
  BY <1>3, <1>4
<1> HIDE DEF q
<1> QED
  BY <1>1, <1>2, <1>5, SteadyAt

LEMMA ReadPartOfRequestSteady == WsInv /\ ReadPartOfRequest => Steady
<1> SUFFICES ASSUME WsInv, ReadPartOfRequest
             PROVE  Steady
  OBVIOUS
<1> DEFINE c == clients[at]
           r == conn[c]
           units == r.in \o r.up
           dead == r.dead \/ SeesEnd(r) \/ Len(units) > MaxRequest
           d == [r EXCEPT !.in = units, !.up = <<>>, !.dead = dead]
           q == FlushIfWritable(d)
<1>1. /\ Polling /\ conn' = [conn EXCEPT ![c] = q]
      /\ cast' = cast /\ handled' = handled /\ pending' = pending
  BY DEF ReadPartOfRequest, Readable
<1>2. r \in Records /\ c \in Conns
  BY <1>1, ClientIs
<1>3. units \in Seq(Units)
  BY <1>2, ConcatProperties DEF Records
<1>4. dead \in BOOLEAN /\ (r.dead => dead)
  BY <1>2 DEF Records, SeesEnd
<1> HIDE DEF dead, units
<1>5. d \in Records /\ d.in = units /\ d.up = <<>> /\ d.written = r.written /\ d.dead = dead
  BY <1>2, <1>3, <1>4, EmptySeq DEF Records
<1> HIDE DEF d
<1>6. Aside(d, q)
  BY <1>5, FlushedQuiet
<1> HIDE DEF q
<1>7. units \o <<>> = units
  BY <1>3, ConcatEmptySeq
<1>8. q.in \o q.up = units /\ q.written = r.written /\ (r.dead => q.dead)
  BY <1>4, <1>5, <1>6, <1>7 DEF Aside
<1>9. Quiet(r, q)
  BY <1>8 DEF Quiet, units
<1> QED
  BY <1>1, <1>2, <1>9, SteadyAt

LEMMA AcceptNewSteady == WsInv /\ AcceptNew => Steady
<1> SUFFICES ASSUME WsInv, AcceptNew
             PROVE  Steady
  OBVIOUS
<1> DEFINE used == {conn[clients[i]].fd : i \in DOMAIN clients}
           fd == Min((1..(Len(clients) + 1)) \ used)
           c == Head(backlog)
           r == conn[c]
           q == [r EXCEPT !.fd = fd]
<1>1. /\ conn' = [conn EXCEPT ![c] = q] /\ backlog # <<>>
      /\ cast' = cast /\ handled' = handled /\ pending' = pending
  BY DEF AcceptNew
<1>2. c \in Conns /\ r \in Records
  <2>1. backlog \in Seq(Conns) /\ conn \in [Conns -> Records]
    BY DEF WsInv, WsTypes
  <2>2. c \in Conns
    BY <1>1, <2>1, TailIs
  <2> QED
    BY <2>1, <2>2
<1> HIDE DEF c, fd
<1>3. Quiet(r, q)
  BY <1>2 DEF Quiet, Records
<1> HIDE DEF q
<1> QED
  BY <1>1, <1>2, <1>3, SteadyAt

LEMMA BrowserSteady ==
    ASSUME NEW c \in Conns, NEW how
    PROVE  WsInv /\ (Connect(c) \/ Read(c) \/ End(c, how)) => Steady
<1>1. ASSUME WsInv, Connect(c)
      PROVE  Steady
  BY <1>1, SteadyIfSame DEF Connect, serverVars
<1>2. ASSUME WsInv
      PROVE  conn \in [Conns -> Records] /\ conn[c] \in Records
  BY <1>2 DEF WsInv, WsTypes
<1>3. ASSUME WsInv, Read(c)
      PROVE  Steady
  <2> DEFINE r == conn[c]
             q == [r EXCEPT !.got = Append(@, Head(r.down)), !.down = Tail(@)]
  <2>1. /\ UNCHANGED serverVars
        /\ conn' = [conn EXCEPT ![c].got = Append(@, Head(r.down)), ![c].down = Tail(@)]
    BY <1>3 DEF Read
  <2>2. conn' = [conn EXCEPT ![c] = q]
    BY <1>2, <1>3, <2>1
  <2>3. Quiet(r, q)
    BY <1>2, <1>3 DEF Quiet, Records
  <2> HIDE DEF q
  <2> QED
    BY <1>3, <2>1, <2>2, <2>3, SteadyAt DEF serverVars
<1>4. ASSUME WsInv, End(c, how)
      PROVE  Steady
  <2> DEFINE r == conn[c]
             q == [r EXCEPT !.ended = how]
  <2>1. /\ UNCHANGED serverVars
        /\ conn' = [conn EXCEPT ![c].ended = how]
    BY <1>4 DEF End
  <2>2. conn' = [conn EXCEPT ![c] = q]
    BY <1>2, <1>4, <2>1
  <2>3. Quiet(r, q)
    BY <1>2, <1>4 DEF Quiet, Records
  <2> HIDE DEF q
  <2> QED
    BY <1>4, <2>1, <2>2, <2>3, SteadyAt DEF serverVars
<1> QED
  BY <1>1, <1>3, <1>4

LEMMA SentToQuiet ==
    ASSUME WsInv, NEW S, NEW m \in Messages
    PROVE  \A c \in Conns : Quiet(conn[c], SentTo(S, m)[c])
<1> SUFFICES ASSUME NEW c \in Conns
             PROVE  Quiet(conn[c], SentTo(S, m)[c])
  OBVIOUS
<1> DEFINE r == conn[c]
           q == Flushed(Put(r, m))
<1>1. r \in Records
  BY DEF WsInv, WsTypes
<1>2. SentTo(S, m)[c] = IF c \in S THEN q ELSE r
  BY DEF SentTo
<1> HIDE DEF r
<1>3. Quiet(r, q)
  BY <1>1, SentQuiet
<1>4. Quiet(r, r)
  BY DEF Quiet
<1> HIDE DEF q
<1>5. Quiet(r, SentTo(S, m)[c])
  BY <1>2, <1>3, <1>4
<1> QED
  BY <1>5 DEF r

LEMMA ReapedQuiet ==
    ASSUME NEW now \in [Conns -> Records], NEW c \in Conns
    PROVE  Quiet(now[c], Reaped(now)[c])
<1> DEFINE r == now[c]
           q == [r EXCEPT !.closed = TRUE, !.fd = 0]
<1>1. r \in Records
  OBVIOUS
<1>2. Quiet(r, q) /\ Quiet(r, r)
  BY <1>1 DEF Quiet, Records
<1>3. Reaped(now)[c] = IF c \in ToSet(clients) /\ r.dead THEN q ELSE r
  BY DEF Reaped
<1> HIDE DEF q, r
<1>4. Quiet(r, Reaped(now)[c])
  BY <1>2, <1>3
<1> QED
  BY <1>4 DEF r

LEMMA ReapSteady == WsInv /\ Reap => Steady
<1> SUFFICES ASSUME WsInv, Reap
             PROVE  Steady
  OBVIOUS
<1>1. conn \in [Conns -> Records] /\ conn' = Reaped(conn)
  BY DEF Reap, WsInv, WsTypes
<1>2. \A c \in Conns : Quiet(conn[c], conn'[c])
  BY <1>1, ReapedQuiet
<1> QED
  BY <1>2 DEF Steady, Reap

LEMMA BroadcastSteady == WsInv /\ Broadcast => Steady
<1> SUFFICES ASSUME WsInv, Broadcast
             PROVE  Steady
  OBVIOUS
<1> DEFINE push == Message("push", pushes + 1, Len(handled))
           fitting == {c \in Watching : Fits(conn[c], "push")}
           now == SentTo(fitting, push)
<1>1. phase = "idle" /\ conn' = Reaped(now) /\ UNCHANGED <<cast, pending, handled>>
  BY DEF Broadcast, SentTo
<1>2. handled \in Seq(Done) /\ pushes \in Nat /\ clients \in Seq(Conns)
  BY DEF WsInv, WsTypes
<1>3. push \in Messages /\ push.kind = "push"
  BY <1>2 DEF Message, Messages, Kinds
<1>4. /\ fitting \in SUBSET Conns
      /\ \A c \in fitting : conn[c].open /\ Fits(conn[c], "push")
  BY <1>2 DEF Watching, ToSet
<1> HIDE DEF push, fitting
<1>5. now \in [Conns -> Records] /\ \A c \in Conns : Quiet(conn[c], now[c])
  <2>1. HasGone(now, fitting, push)
    BY <1>3, <1>4, SentToKeeps
  <2>2. \A c \in Conns : Quiet(conn[c], SentTo(fitting, push)[c])
    BY <1>3, SentToQuiet
  <2> HIDE DEF now
  <2>3. now \in [Conns -> Records]
    BY <2>1 DEF HasGone
  <2> QED
    BY <2>2, <2>3 DEF now
<1> HIDE DEF now
<1>6. \A c \in Conns : Quiet(now[c], conn'[c])
  BY <1>1, <1>5, ReapedQuiet
<1>7. \A c \in Conns : Quiet(conn[c], conn'[c])
  BY <1>5, <1>6 DEF Quiet
<1> QED
  BY <1>1, <1>7 DEF Steady

LEMMA ShutdownSteady == WsInv /\ Shutdown => Steady
<1> SUFFICES ASSUME WsInv, Shutdown
             PROVE  Steady
  OBVIOUS
<1>1. conn \in [Conns -> Records]
  BY DEF WsInv, WsTypes
<1>2. ASSUME NEW c \in Conns
      PROVE  Quiet(conn[c], conn'[c])
  <2> DEFINE r == conn[c]
             q == [r EXCEPT !.closed = TRUE]
  <2>1. conn'[c] = IF Connected(c) THEN q ELSE r
    BY DEF Shutdown
  <2>2. Quiet(r, q) /\ Quiet(r, r)
    BY <1>1 DEF Quiet, Records
  <2> HIDE DEF q, r
  <2>3. Quiet(r, conn'[c])
    BY <2>1, <2>2
  <2> QED
    BY <2>3 DEF r
<1> QED
  BY <1>2 DEF Steady, Shutdown

LEMMA RanAt ==
    ASSUME WsInv, AllRan, NEW c \in Conns, NEW q, conn' = [conn EXCEPT ![c] = q],
           cast' = cast,
           \A d \in Conns :
              IF d = c THEN Ran(Script(d), q, Given(d)') ELSE Given(d)' = Given(d)
    PROVE  AllRan'
<1> SUFFICES ASSUME NEW d \in Conns
             PROVE  Ran(Script(d)', conn'[d], Given(d)')
  BY DEF AllRan
<1>1. conn'[d] = IF d = c THEN q ELSE conn[d]
  BY DEF WsInv, WsTypes
<1>2. Script(d)' = Script(d)
  BY DEF Script
<1>3. CASE d = c
  BY <1>1, <1>2, <1>3
<1>4. CASE d # c
  BY <1>1, <1>2, <1>4 DEF AllRan
<1> QED
  BY <1>3, <1>4

LEMMA SameGiven ==
    ASSUME handled' = handled, pending' = pending
    PROVE  \A c \in Conns : Given(c)' = Given(c)
BY DEF Given

LEMMA WriteRuns ==
    ASSUME NEW c \in Conns, WsInv, AllRan, Write(c)
    PROVE  AllRan'
<1> DEFINE r == conn[c]
           s == Script(c)
           all == UnitsOfAll(s)
           next == all[r.written + 1]
           q == [r EXCEPT !.up = Append(@, next), !.written = @ + 1]
<1>1. /\ r.written < Len(all) /\ UNCHANGED serverVars
      /\ conn' = [conn EXCEPT ![c].up = Append(@, next), ![c].written = @ + 1]
  BY DEF Write
<1>2. conn \in [Conns -> Records] /\ r \in Records /\ s \in Scripts /\ Ran(s, r, Given(c))
  BY ScriptOf DEF WsInv, WsTypes, AllRan
<1>3. conn' = [conn EXCEPT ![c] = q]
  BY <1>1, <1>2
<1>4. cast' = cast /\ \A d \in Conns : Given(d)' = Given(d)
  BY <1>1, SameGiven DEF serverVars
<1> HIDE DEF s
<1>5. Ran(s, q, Given(c))
  BY <1>1, <1>2, WrittenRan
<1> HIDE DEF q
<1>6. \A d \in Conns : IF d = c THEN Ran(Script(d), q, Given(d)') ELSE Given(d)' = Given(d)
  BY <1>4, <1>5 DEF s
<1> QED
  BY <1>3, <1>4, <1>6, RanAt

\* Of a connection that did not shake hands before, no command was decoded.
LEMMA RanBefore ==
    ASSUME NEW s \in Scripts, NEW r \in Records, NEW q \in Records, NEW x,
           Ran(s, r, x), Sound(s, q), q.written = r.written, r.written <= First(s)
    PROVE  Ran(s, q, x)
<1> DEFINE all == UnitsOfAll(s)
           w == r.written
           text(k) == NsOf(WholeOf(SubSeq(all, 1, k), "text"))
<1>1. w \in Nat /\ First(s) \in Nat
  BY RequestFirst DEF Records
<1>2. \A k \in 0..w : text(k) = NsOf(<<>>)
  <2> SUFFICES ASSUME NEW k \in 0..w
               PROVE  text(k) = NsOf(<<>>)
    OBVIOUS
  <2>1. k \in 0..First(s)
    BY <1>1
  <2>2. WholeOf(SubSeq(all, 1, k), "text") = <<>>
    BY <2>1, NoTextYet
  <2> QED
    BY <2>2
<1>3. x = NsOf(<<>>)
  <2>1. PICK k \in 0..w : x = text(k)
    BY DEF Ran
  <2> QED
    BY <1>2, <2>1
<1> HIDE DEF text
<1>4. PICK k \in 0..w : ~q.dead => q.in \o q.up = SubSeq(all, k + 1, w)
  <2>1. CASE q.dead
    <3>1. 0 \in 0..w
      BY <1>1
    <3> QED
      BY <2>1, <3>1
  <2>2. CASE ~q.dead
    BY <2>2 DEF Sound, Unread
  <2> QED
    BY <2>1, <2>2
<1>5. x = text(k)
  BY <1>2, <1>3
<1> QED
  BY <1>4, <1>5 DEF Ran, text

LEMMA ReadRequestRuns == WsInv /\ AllRan /\ ReadRequest => AllRan'
<1> SUFFICES ASSUME WsInv, AllRan, ReadRequest
             PROVE  AllRan'
  OBVIOUS
<1> DEFINE c == clients[at]
           r == conn[c]
           units == r.in \o r.up
           end == Min({j \in DOMAIN units : EndsMessage(units[j])})
           kind == units[end].msg.kind
           p(n) == [r EXCEPT !.up = SubSeq(units, n + 1, Len(units))]
           s == Script(c)
<1>1. /\ Polling /\ ~r.open /\ HasEnd(units)
      /\ \E n \in end..Min({Len(units), MaxRequest}) :
            conn' = [conn EXCEPT ![c] = FlushIfWritable(Handshaken(p(n), kind))]
      /\ cast' = cast /\ handled' = handled /\ pending' = pending
  BY DEF ReadRequest, Readable
<1>2. r \in Records /\ s \in Scripts /\ Sound(s, r) /\ ~r.dead /\ c \in Conns
      /\ Ran(s, r, Given(c))
  BY <1>1, ClientIs DEF AllRan
<1> HIDE DEF s
<1>3. \A n \in end..Min({Len(units), MaxRequest}) :
         LET h == Handshaken(p(n), kind)
         IN h \in Records /\ Sound(s, h) /\ h.fd = r.fd /\ Adds(r, h)
            /\ h.written = r.written
  BY <1>1, <1>2, SoundHandshake
<1>4. PICK n \in end..Min({Len(units), MaxRequest}) :
         conn' = [conn EXCEPT ![c] = FlushIfWritable(Handshaken(p(n), kind))]
  BY <1>1
<1> DEFINE h == Handshaken(p(n), kind)
           q == FlushIfWritable(h)
<1>5. h \in Records /\ Sound(s, h) /\ h.written = r.written
  BY <1>3
<1>6. conn' = [conn EXCEPT ![c] = q]
  BY <1>4
<1> HIDE DEF h, units, end, kind
<1>7. q \in Records /\ Sound(s, q) /\ q.written = r.written
  <2>1. q \in Records /\ Sound(s, q) /\ Aside(h, q)
    BY <1>5, FlushedIfWritable
  <2> QED
    BY <1>5, <2>1 DEF Aside
<1> HIDE DEF q
<1>8. Ran(s, q, Given(c))
  BY <1>1, <1>2, <1>7, RanBefore DEF Sound
<1>9. \A d \in Conns : Given(d)' = Given(d)
  BY <1>1, SameGiven
<1>10. \A d \in Conns : IF d = c THEN Ran(Script(d), q, Given(d)') ELSE Given(d)' = Given(d)
  BY <1>8, <1>9 DEF s
<1> QED
  BY <1>1, <1>2, <1>6, <1>10, RanAt

LEMMA NsTypes ==
    /\ \A e \in Waiting : e.n \in Nat /\ e.from \in Conns
    /\ \A e \in Done : e.n \in Nat /\ e.from \in Conns
    /\ \A e \in Messages : e.n \in Nat
BY DEF Waiting, Done, Messages

\* Among commands of one connection all are of it, or none.
LEMMA OfOne ==
    ASSUME NEW c \in Conns, NEW d \in Conns, NEW s \in Seq(Waiting),
           \A i \in 1..Len(s) : s[i].from = c
    PROVE  Among(s, Of(d)) = IF d = c THEN s ELSE <<>>
<1>1. \A i \in 1..Len(s) : s[i] \in Waiting
  OBVIOUS
<1>2. CASE d = c
  <2>1. \A i \in 1..Len(s) : s[i] \in Of(d)
    BY <1>1, <1>2 DEF Of
  <2> QED
    BY <1>2, <2>1, AmongAll
<1>3. CASE d # c
  <2>1. \A i \in 1..Len(s) : s[i] \notin Of(d)
    BY <1>1, <1>3 DEF Of
  <2> QED
    BY <1>3, <2>1, AmongNone
<1> QED
  BY <1>2, <1>3

\* What is read waits behind what was given.
LEMMA GivenMore ==
    ASSUME WsInv, NEW c \in Conns, NEW more \in Seq(Waiting),
           \A i \in 1..Len(more) : more[i].from = c,
           pending' = pending \o more, handled' = handled
    PROVE  \A d \in Conns :
              Given(d)' = IF d = c THEN Given(d) \o NsOf(more) ELSE Given(d)
<1> SUFFICES ASSUME NEW d \in Conns
             PROVE  Given(d)' = IF d = c THEN Given(d) \o NsOf(more) ELSE Given(d)
  OBVIOUS
<1> DEFINE h == NsOf(Among(handled, Of(d)))
           w == Among(pending, Of(d))
           x == Among(more, Of(d))
           a == NsOf(w)
           b == NsOf(x)
<1>1. pending \in Seq(Waiting) /\ handled \in Seq(Done)
  BY DEF WsInv, WsTypes
<1>2. w \in Seq(Waiting) /\ x \in Seq(Waiting)
  BY <1>1, AmongType
<1>3. Among(pending \o more, Of(d)) = w \o x
  BY <1>1, AmongConcat
<1>4. h \in Seq(Nat)
  <2> DEFINE y == Among(handled, Of(d))
  <2>1. y \in Seq(Done)
    BY <1>1, AmongType
  <2> HIDE DEF y
  <2>2. NsOf(y) \in Seq(Nat)
    BY <2>1, NsTypes, NsIs
  <2> QED
    BY <2>2 DEF y
<1>5. Given(d) = h \o a
  BY DEF Given
<1>6. Given(d)' = h \o NsOf(w \o x)
  <2>1. Given(d)' = NsOf(Among(handled', Of(d))) \o NsOf(Among(pending', Of(d)))
    BY DEF Given
  <2> QED
    BY <1>3, <2>1
<1>7. x = IF d = c THEN more ELSE <<>>
  BY OfOne
<1> HIDE DEF h, w, x
<1>8. NsOf(w \o x) = a \o b /\ a \in Seq(Nat) /\ b \in Seq(Nat)
  BY <1>2, NsTypes, NsConcat, NsIs
<1> HIDE DEF a, b
<1>9. h \o (a \o b) = (h \o a) \o b
  <2>1. h \in Seq(Nat) /\ a \in Seq(Nat) /\ b \in Seq(Nat)
    BY <1>4, <1>8
  <2> QED
    BY <2>1, ConcatAssociative, SMTT(30)
<1>10. CASE d = c
  <2>1. b = NsOf(more)
    BY <1>7, <1>10 DEF b
  <2> QED
    BY <1>5, <1>6, <1>8, <1>9, <1>10, <2>1
<1>11. CASE d # c
  <2>1. x = <<>> /\ NsOf(w \o x) = NsOf(w \o <<>>)
    BY <1>7, <1>11
  <2>2. w \o <<>> = w
    BY <1>2, ConcatEmptySeq
  <2> QED
    BY <1>5, <1>6, <1>11, <2>1, <2>2 DEF a
<1> QED
  BY <1>10, <1>11

LEMMA ReadFramesRuns == WsInv /\ AllRan /\ ReadFrames => AllRan'
<1> SUFFICES ASSUME WsInv, AllRan, ReadFrames
             PROVE  AllRan'
  OBVIOUS
<1> DEFINE c == clients[at]
           r == conn[c]
           units == r.in \o r.up
           good == UpToFatal(units)
           d == Decoded([r EXCEPT !.up = <<>>], units, good)
           e == [d EXCEPT !.dead = @ \/ SeesEnd(r)]
           q == FlushIfWritable(e)
           texts == WholeOf(good, "text")
           more == [i \in DOMAIN texts |-> [fd |-> r.fd, from |-> c, n |-> texts[i].n]]
           s == Script(c)
           x == Given(c)
<1>1. Polling /\ r.open /\ conn' = [conn EXCEPT ![c] = q]
  BY Zenon DEF ReadFrames, Readable
<1>2. /\ r \in Records /\ s \in Scripts /\ Sound(s, r) /\ c \in Conns /\ ~r.dead
      /\ Ran(s, r, x)
  BY <1>1, ClientIs DEF AllRan
<1>3. pending' = pending \o more
  BY Zenon DEF ReadFrames
<1> HIDE DEF s, x
<1>4. SeesEnd(r) \in BOOLEAN
  BY DEF SeesEnd
<1>5. e \in Records
  BY <1>1, <1>2, <1>4, SoundDecoded
<1>6. Ran(s, e, x \o NsOf(texts))
  <2>1. Fitting(r) /\ r.written <= Len(UnitsOfAll(s))
    BY <1>2 DEF Sound
  <2> QED
    BY <1>2, <1>4, <2>1, DecodedRan
<1>7. texts \in Seq(Messages)
  <2>1. units \in Seq(Units)
    BY <1>2, ConcatProperties DEF Records
  <2> HIDE DEF units
  <2>2. good \in Seq(Units)
    <3>1. PICK n \in 0..Len(units) : good = SubSeq(units, 1, n)
      BY <2>1, UpToFatalIs
    <3> QED
      BY <2>1, <3>1, SplitAt
  <2> HIDE DEF good
  <2> QED
    BY <2>2, WholeOfType
<1> HIDE DEF e, texts, d, good, units
<1>8. Ran(s, q, x \o NsOf(texts))
  <2>1. Aside(e, q)
    BY <1>5, FlushedQuiet
  <2> HIDE DEF q
  <2>2. Quiet(e, q)
    BY <2>1, AsideQuiet
  <2> QED
    BY <1>6, <2>2, QuietRan
<1> HIDE DEF q
<1>9. /\ more \in Seq(Waiting) /\ NsOf(more) = NsOf(texts)
      /\ \A j \in 1..Len(more) : more[j].from = c
  <2>1. r.fd \in Nat
    BY <1>2 DEF Records
  <2>2. \A i \in DOMAIN texts : texts[i].n \in Nat
    <3>1. \A i \in DOMAIN texts : texts[i] \in Messages
      BY <1>7
    <3> QED
      BY <3>1 DEF Messages
  <2>3. DOMAIN texts = 1..Len(texts) /\ Len(texts) \in Nat
    BY <1>7
  <2> DEFINE w(i) == [fd |-> r.fd, from |-> c, n |-> texts[i].n]
  <2>4. \A i \in 1..Len(texts) : w(i) \in Waiting /\ w(i).from = c /\ w(i).n = texts[i].n
    BY <1>2, <2>1, <2>2, <2>3 DEF Waiting
  <2>5. more = [i \in 1..Len(texts) |-> w(i)]
    BY <2>3
  <2> HIDE DEF more, w
  <2>6. more \in Seq(Waiting) /\ Len(more) = Len(texts) /\ \A i \in 1..Len(texts) : more[i] = w(i)
    BY <2>3, <2>4, <2>5
  <2>7. DOMAIN more = 1..Len(texts) /\ \A i \in 1..Len(texts) : more[i].n = texts[i].n
    BY <2>3, <2>4, <2>5, <2>6
  <2>8. NsOf(more) = NsOf(texts)
    BY <2>3, <2>7 DEF NsOf
  <2> QED
    BY <2>4, <2>6, <2>8
<1> HIDE DEF more
<1>10. cast' = cast /\ handled' = handled
  BY DEF ReadFrames
<1>11. \A b \in Conns : Given(b)' = IF b = c THEN Given(b) \o NsOf(more) ELSE Given(b)
  BY <1>2, <1>3, <1>9, <1>10, GivenMore
<1>12. \A b \in Conns : IF b = c THEN Ran(Script(b), q, Given(b)') ELSE Given(b)' = Given(b)
  <2> SUFFICES ASSUME NEW b \in Conns
               PROVE  IF b = c THEN Ran(Script(b), q, Given(b)') ELSE Given(b)' = Given(b)
    OBVIOUS
  <2>1. CASE b = c
    <3>1. Given(b)' = x \o NsOf(texts)
      BY <1>9, <1>11, <2>1 DEF x
    <3> QED
      BY <1>8, <2>1, <3>1 DEF s
  <2>2. CASE b # c
    BY <1>11, <2>2
  <2> QED
    BY <2>1, <2>2
<1> QED
  BY <1>1, <1>2, <1>10, <1>12, RanAt

\* One of the commands, or none.
LEMMA OneOf ==
    ASSUME NEW S, NEW e \in S, NEW good
    PROVE  Among(<<e>>, good) = Cell(e, good) /\ Cell(e, good) \in Seq(S)
<1> DEFINE v == Cell(e, good)
<1>1. v \in Seq(S)
  BY DEF Cell
<1>2. <<>> \in Seq(S) /\ Append(<<>>, e) = <<e>>
  BY EmptySeq
<1>3. Among(Append(<<>>, e), good) = Among(<<>>, good) \o v
  BY <1>2, AmongAppend
<1> HIDE DEF v
<1>4. <<>> \o v = v
  BY <1>1, ConcatEmptySeq
<1> QED
  BY <1>1, <1>2, <1>3, <1>4, AmongEmpty DEF v

\* dispatch_pending(): what waited first is handled last.
LEMMA GivenMoved ==
    ASSUME WsInv, Dispatch
    PROVE  \A c \in Conns : Given(c)' = Given(c)
<1> SUFFICES ASSUME NEW c \in Conns
             PROVE  Given(c)' = Given(c)
  OBVIOUS
<1> DEFINE e == Head(pending)
           f == [from |-> e.from, n |-> e.n]
           good == Of(c)
           t == Tail(pending)
           h == Among(handled, good)
           w == Among(t, good)
           y == Cell(e, good)
           z == Cell(f, good)
<1>1. /\ pending # <<>> /\ pending' = t /\ e \in Waiting /\ handled' = Append(handled, f)
  BY DispatchIs
<1>2. pending \in Seq(Waiting) /\ handled \in Seq(Done)
  BY DEF WsInv, WsTypes
<1>3. t \in Seq(Waiting) /\ pending = <<e>> \o t /\ <<e>> \in Seq(Waiting)
  BY <1>1, <1>2
<1>4. f \in Done /\ f.from = e.from /\ f.n = e.n
  BY <1>1 DEF Waiting, Done
<1>5. (e \in good <=> e.from = c) /\ (f \in good <=> e.from = c)
  BY <1>1, <1>4 DEF Of
<1>6. NsOf(y) = NsOf(z)
  <2>1. CASE e.from = c
    <3>1. y = <<e>> /\ z = <<f>>
      BY <1>5, <2>1 DEF Cell
    <3>2. NsOf(<<e>>) = <<e.n>> /\ NsOf(<<f>>) = <<f.n>>
      BY DEF NsOf
    <3> QED
      BY <1>4, <3>1, <3>2
  <2>2. CASE e.from # c
    BY <1>5, <2>2 DEF Cell
  <2> QED
    BY <2>1, <2>2
<1> HIDE DEF e, f, t, good
<1>7. Among(pending, good) = y \o w /\ y \in Seq(Waiting)
  <2>1. Among(<<e>> \o t, good) = Among(<<e>>, good) \o w
    <3>1. t \in Seq(Waiting) /\ <<e>> \in Seq(Waiting)
      BY <1>3
    <3> DEFINE u == <<e>>
    <3> HIDE DEF u
    <3>2. u \in Seq(Waiting)
      BY <3>1 DEF u
    <3>3. Among(u \o t, good) = Among(u, good) \o Among(t, good)
      BY <3>1, <3>2, AmongConcat
    <3> QED
      BY <3>3 DEF u, w
  <2> QED
    BY <1>1, <1>3, <2>1, OneOf
<1>8. Among(handled', good) = h \o z /\ z \in Seq(Done)
  <2>1. z \in Seq(Done)
    BY <1>4, OneOf DEF z
  <2>2. Among(Append(handled, f), good) = Among(handled, good) \o Cell(f, good)
    BY <1>2, <1>4, AmongAppend
  <2> QED
    BY <1>1, <2>1, <2>2
<1>9. h \in Seq(Done) /\ w \in Seq(Waiting)
  BY <1>2, <1>3, AmongType
<1> HIDE DEF h, w, y, z
<1> DEFINE a == NsOf(h)
           b == NsOf(y)
           k == NsOf(w)
<1>10. NsOf(h \o z) = a \o b /\ a \in Seq(Nat)
  BY <1>6, <1>8, <1>9, NsTypes, NsConcat, NsIs
<1>11. NsOf(y \o w) = b \o k /\ b \in Seq(Nat) /\ k \in Seq(Nat)
  BY <1>7, <1>9, NsTypes, NsConcat, NsIs
<1>12. Given(c) = a \o NsOf(y \o w)
  BY <1>7 DEF Given, good, h
<1>13. Given(c)' = NsOf(h \o z) \o k
  <2>1. Given(c)' = NsOf(Among(handled', Of(c))) \o NsOf(Among(pending', Of(c)))
    BY DEF Given
  <2> QED
    BY <1>1, <1>8, <2>1 DEF good, w
<1> HIDE DEF a, b, k
<1>14. (a \o b) \o k = a \o (b \o k)
  <2>1. a \in Seq(Nat) /\ b \in Seq(Nat) /\ k \in Seq(Nat)
    BY <1>10, <1>11
  <2> QED
    BY <2>1, ConcatAssociative, SMTT(30)
<1> QED
  BY <1>10, <1>11, <1>12, <1>13, <1>14

LEMMA DispatchRuns == WsInv /\ AllRan /\ Dispatch => AllRan'
<1> SUFFICES ASSUME WsInv, AllRan, Dispatch
             PROVE  AllRan'
  OBVIOUS
<1> SUFFICES ASSUME NEW c \in Conns
             PROVE  Ran(Script(c)', conn'[c], Given(c)')
  BY DEF AllRan
<1>1. conn' = SentTo(Answered, Answer) /\ Answer \in Messages /\ cast' = cast
  BY DispatchIs
<1>2. Quiet(conn[c], conn'[c])
  BY <1>1, SentToQuiet
<1>3. Script(c)' = Script(c)
  BY <1>1 DEF Script
<1>4. Given(c)' = Given(c)
  BY GivenMoved
<1>5. Ran(Script(c), conn'[c], Given(c))
  BY <1>2, QuietRan DEF AllRan
<1> QED
  BY <1>3, <1>4, <1>5

LEMMA RunsInit == Init => AllRan
<1> SUFFICES ASSUME Init
             PROVE  AllRan
  OBVIOUS
<1> SUFFICES ASSUME NEW c \in Conns
             PROVE  Ran(Script(c), conn[c], Given(c))
  BY DEF AllRan
<1>1. conn[c] = NewConn /\ handled = <<>> /\ pending = <<>>
  BY DEF Init
<1>2. NsOf(<<>>) = <<>> /\ <<>> \in Seq(Units) /\ <<>> \o <<>> = <<>>
  BY EmptySeq, ConcatEmptySeq DEF NsOf
<1>3. Given(c) = <<>>
  BY <1>1, <1>2, AmongEmpty DEF Given
<1> DEFINE all == UnitsOfAll(Script(c))
<1>4. SubSeq(all, 0 + 1, 0) = <<>> /\ SubSeq(all, 1, 0) = <<>>
  BY SubSeqEmpty
<1>5. WholeOf(<<>>, "text") = <<>>
  <2> DEFINE e == <<>>
  <2>1. e \in Seq(Units) /\ Len(e) = 0
    BY <1>2
  <2> HIDE DEF e
  <2>2. \A i \in 1..Len(e) : ~EndsMessage(e[i]) \/ e[i].msg.kind # "text"
    BY <2>1
  <2>3. WholeOf(e, "text") = <<>>
    BY <2>1, <2>2, WholeNone
  <2> QED
    BY <2>3 DEF e
<1> HIDE DEF all
<1>6. NsOf(WholeOf(SubSeq(all, 1, 0), "text")) = <<>>
  BY <1>2, <1>4, <1>5
<1>7. /\ NewConn.written = 0 /\ 0 \in 0..0
      /\ NewConn.in \o NewConn.up = SubSeq(all, 0 + 1, NewConn.written)
  BY <1>2, <1>4 DEF NewConn
<1> QED
  BY <1>1, <1>3, <1>6, <1>7 DEF Ran, all

LEMMA RunsStep == WsInv /\ AllRan /\ [Next]_vars => AllRan'
<1> SUFFICES ASSUME WsInv, AllRan, [Next]_vars
             PROVE  AllRan'
  OBVIOUS
<1>1. CASE AcceptNew
  BY <1>1, AcceptNewSteady, SteadyKeeps
<1>2. CASE Poll
  BY <1>2, SteadyIfSame, SteadyKeeps DEF Poll
<1>3. CASE PollUnreadable
  BY <1>3, PollUnreadableSteady, SteadyKeeps
<1>4. CASE ReadPartOfRequest
  BY <1>4, ReadPartOfRequestSteady, SteadyKeeps
<1>5. CASE ReadRequest
  BY <1>5, ReadRequestRuns
<1>6. CASE ReadFrames
  BY <1>6, ReadFramesRuns
<1>7. CASE Dispatch
  BY <1>7, DispatchRuns
<1>8. CASE Reap
  BY <1>8, ReapSteady, SteadyKeeps
<1>9. CASE Broadcast
  BY <1>9, BroadcastSteady, SteadyKeeps
<1>10. CASE Shutdown
  BY <1>10, ShutdownSteady, SteadyKeeps
<1>11. ASSUME NEW c \in Conns, BrowserNext(c)
       PROVE  AllRan'
  BY <1>11, BrowserSteady, WriteRuns, SteadyKeeps DEF BrowserNext
<1>12. CASE UNCHANGED vars
  BY <1>12, SteadyIfSame, SteadyKeeps DEF vars
<1> QED
  BY <1>1, <1>2, <1>3, <1>4, <1>5, <1>6, <1>7, <1>8, <1>9, <1>10, <1>11, <1>12
  DEF Next, ServerNext, ServiceNext

\* The commands of the first units of a script are the first of its commands.
LEMMA FirstCommands ==
    ASSUME NEW s \in Scripts, NEW k \in 0..Len(UnitsOfAll(s))
    PROVE  LET a == WholeOf(SubSeq(UnitsOfAll(s), 1, k), "text")
           IN /\ a \in Seq(Messages) /\ CommandsOf(s) \in Seq(Messages)
              /\ Len(a) <= Len(CommandsOf(s))
              /\ \A i \in 1..Len(a) : /\ a[i] = CommandsOf(s)[i]
                                      /\ \E j \in 1..k : a[i] = UnitsOfAll(s)[j].msg
<1> DEFINE all == UnitsOfAll(s)
           t == SubSeq(all, 1, k)
           u == SubSeq(all, k + 1, Len(all))
           a == WholeOf(t, "text")
           b == WholeOf(u, "text")
           z == a \o b
<1>1. all \in Seq(Units) /\ Len(all) \in Nat /\ k \in 0..Len(all)
  BY RequestFirst
<1>2. CommandsOf(s) = WholeOf(all, "text")
  BY ScriptIs, TextsOfAll
<1> HIDE DEF all
<1>3. t \in Seq(Units) /\ Len(t) = k /\ u \in Seq(Units) /\ all = t \o u
  BY <1>1, SplitAt
<1>4. \A j \in 1..k : t[j] = all[j]
  <2> HIDE DEF t, u
  <2> QED
    BY <1>3
<1> HIDE DEF t, u
<1>5. WholeOf(all, "text") = z
  BY <1>3, WholeConcat
<1>6. a \in Seq(Messages) /\ b \in Seq(Messages)
  BY <1>3, WholeOfType
<1>7. \A i \in 1..Len(a) : \E j \in 1..Len(t) : a[i] = t[j].msg
  BY <1>3, WholeFrom
<1> HIDE DEF a, b
<1>8. z \in Seq(Messages) /\ Len(a) <= Len(z) /\ \A i \in 1..Len(a) : a[i] = z[i]
  BY <1>6
<1> HIDE DEF z
<1>9. \A i \in 1..Len(a) : \E j \in 1..k : a[i] = all[j].msg
  BY <1>3, <1>4, <1>7
<1> QED
  BY <1>2, <1>5, <1>6, <1>8, <1>9 DEF a, t, all

LEMMA RunsOnce == WsInv /\ AllRan => CommandsRunOnce
<1> SUFFICES ASSUME WsInv, AllRan, NEW c \in Conns
             PROVE  \E k \in 0..Len(CommandsOf(Script(c))) :
                       /\ [i \in DOMAIN HandledOf(c) |-> HandledOf(c)[i].n]
                             = [i \in 1..k |-> CommandsOf(Script(c))[i].n]
                       /\ k > 0 =>
                             CommandsOf(Script(c))[k] \in
                                 {x.msg : x \in ToSet(SubSeq(UnitsOfAll(Script(c)), 1,
                                                             conn[c].written))}
  BY DEF CommandsRunOnce
<1> DEFINE s == Script(c)
           all == UnitsOfAll(s)
           w == conn[c].written
           good == CommandsOf(s)
           h == Among(handled, Of(c))
           p == Among(pending, Of(c))
           hn == NsOf(h)
           pn == NsOf(p)
           a(k) == WholeOf(SubSeq(all, 1, k), "text")
<1>1. /\ conn[c] \in Records /\ s \in Scripts /\ w <= Len(all) /\ w \in Nat
      /\ handled \in Seq(Done) /\ pending \in Seq(Waiting)
  BY ScriptOf DEF WsInv, WsTypes, AllSound, Sound, Records
<1>2. all \in Seq(Units) /\ Len(all) \in Nat
  BY <1>1, RequestFirst
<1>3. HandledOf(c) = h
  <2>1. \A i \in 1..Len(handled) :
           handled[i] \in {x \in ToSet(handled) : x.from = c} <=> handled[i] \in Of(c)
    <3>1. \A i \in 1..Len(handled) : handled[i] \in Done /\ handled[i] \in ToSet(handled)
      BY <1>1 DEF ToSet
    <3> QED
      BY <3>1 DEF Of
  <2> QED
    BY <1>1, <2>1, AmongSame DEF HandledOf
<1>4. h \in Seq(Done) /\ p \in Seq(Waiting)
  BY <1>1, AmongType
<1>5. PICK k \in 0..w : hn \o pn = NsOf(a(k))
  BY DEF AllRan, Ran, Given
<1> DEFINE t == a(k)
<1>6. /\ t \in Seq(Messages) /\ good \in Seq(Messages) /\ Len(t) <= Len(good)
      /\ \A i \in 1..Len(t) : t[i] = good[i] /\ \E j \in 1..k : t[i] = all[j].msg
  <2>1. k \in 0..Len(all)
    BY <1>1, <1>2
  <2> QED
    BY <1>1, <2>1, FirstCommands
<1> HIDE DEF h, p, t, good
<1>7. hn \in Seq(Nat) /\ Len(hn) = Len(h) /\ \A i \in 1..Len(h) : hn[i] = h[i].n
  BY <1>4, NsTypes, NsIs
<1>8. pn \in Seq(Nat)
  BY <1>4, NsTypes, NsIs
<1> DEFINE tn == NsOf(t)
<1>9. tn \in Seq(Nat) /\ Len(tn) = Len(t) /\ \A i \in 1..Len(t) : tn[i] = t[i].n
  BY <1>6, NsTypes, NsIs
<1>10. tn = hn \o pn
  BY <1>5 DEF t
<1> HIDE DEF hn, pn, tn
<1> DEFINE m == Len(h)
<1>11. m \in Nat /\ m <= Len(t) /\ \A i \in 1..m : tn[i] = hn[i]
  BY <1>4, <1>7, <1>8, <1>9, <1>10
<1>12. m \in 0..Len(good) /\ \A i \in 1..m : i \in 1..Len(t)
  BY <1>6, <1>11
<1>13. \A i \in 1..m : h[i].n = good[i].n
  BY <1>6, <1>7, <1>9, <1>11, <1>12
<1>14. DOMAIN h = 1..m
  BY <1>4
<1>15. [i \in DOMAIN h |-> h[i].n] = [i \in 1..m |-> good[i].n]
  BY <1>13, <1>14
<1>16. m > 0 => good[m] \in {x.msg : x \in ToSet(SubSeq(all, 1, w))}
  <2> SUFFICES ASSUME m > 0
               PROVE  good[m] \in {x.msg : x \in ToSet(SubSeq(all, 1, w))}
    OBVIOUS
  <2> DEFINE v == SubSeq(all, 1, w)
  <2>1. m \in 1..Len(t)
    BY <1>11, <1>12
  <2>2. PICK j \in 1..k : good[m] = all[j].msg
    BY <1>6, <2>1
  <2> HIDE DEF all, w
  <2>3. w \in 0..Len(all) /\ j \in 1..w
    BY <1>1, <1>2
  <2>4. v \in Seq(Units) /\ Len(v) = w
    BY <1>2, <2>3, SplitAt
  <2>5. v[j] = all[j]
    BY <1>2, <2>3
  <2> HIDE DEF v
  <2>6. v[j] \in ToSet(v)
    BY <2>3, <2>4 DEF ToSet
  <2> QED
    BY <2>2, <2>5, <2>6 DEF v
<1> HIDE DEF m
<1>17. \E l \in 0..Len(good) :
          /\ [i \in DOMAIN h |-> h[i].n] = [i \in 1..l |-> good[i].n]
          /\ l > 0 => good[l] \in {x.msg : x \in ToSet(SubSeq(all, 1, w))}
  BY <1>12, <1>15, <1>16
<1> QED
  BY <1>3, <1>17 DEF good, s, all, w

\* Each command is handled at most once, in the order of its connection's
\* script, and only once its browser has written it, whatever the cut of its
\* frames, the descriptor it waits under and the end its connection comes to.
THEOREM CommandsRunOnceHolds == Spec => []CommandsRunOnce
BY RunsInit, RunsStep, RunsOnce, Inductive, PTL DEF Spec
=============================================================================
