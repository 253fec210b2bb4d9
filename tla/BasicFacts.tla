------------------------------- MODULE BasicFacts -------------------------------
(***************************************************************************)
(* Multiplication and division of naturals, of which the solvers know only *)
(* what is linear; least members of sets of them, with the induction that  *)
(* follows; sequences built element by element, or of sequences; and sums  *)
(* over finite sets.                                                       *)
(***************************************************************************)
EXTENDS Integers, SequencesExt, SequenceTheorems, FiniteSetTheorems, WellFoundedInduction, TLAPS

\* A product with a successor.
LEMMA Distributes ==
    ASSUME NEW k \in Int, NEW x \in Int
    PROVE  k * (x + 1) = k * x + k
OBVIOUS

\* A product grows with its second factor.
LEMMA ProductMonotone ==
    ASSUME NEW k \in Nat, NEW x \in Int, NEW y \in Int, x <= y
    PROVE  k * x <= k * y
<1>1. PICK z \in Nat : y = x + z
  <2>1. y - x \in Nat /\ y = x + (y - x)
    OBVIOUS
  <2> QED
    BY <2>1
<1>2. k * y = k * x + k * z
  BY <1>1
<1>3. k * z \in Nat
  BY <1>1
<1> QED
  BY <1>1, <1>2, <1>3

\* A quotient and its remainder.
LEMMA DivisionFacts ==
    ASSUME NEW d \in Nat \ {0}, NEW x \in Nat
    PROVE  /\ x \div d \in Nat /\ x % d \in 0..(d - 1)
           /\ x = d * (x \div d) + (x % d)
OBVIOUS

\* There is no other quotient, and no other remainder.
LEMMA DivisionUnique ==
    ASSUME NEW d \in Nat \ {0}, NEW x \in Nat, NEW q \in Nat, NEW r \in 0..(d - 1),
           x = d * q + r
    PROVE  x \div d = q /\ x % d = r
<1>1. /\ x \div d \in Nat /\ x % d \in 0..(d - 1)
      /\ x = d * (x \div d) + (x % d)
  BY DivisionFacts
<1>2. ASSUME NEW a \in Nat, NEW b \in Nat, a < b
      PROVE  d * a + d <= d * b
  <2>1. d * (a + 1) <= d * b
    BY <1>2, ProductMonotone
  <2>2. d * (a + 1) = d * a + d
    OBVIOUS
  <2> QED
    BY <2>1, <2>2
<1>3. d * q \in Nat /\ d * (x \div d) \in Nat
  BY <1>1
<1>4. ~(x \div d < q)
  BY <1>1, <1>2, <1>3
<1>5. ~(q < x \div d)
  BY <1>1, <1>2, <1>3
<1>6. x \div d = q
  BY <1>1, <1>4, <1>5
<1> QED
  BY <1>1, <1>6

\* What a quotient is at least, of negative numbers too.
LEMMA QuotientAtLeast ==
    ASSUME NEW d \in Nat \ {0}, NEW x \in Int, NEW t \in Int
    PROVE  t <= x \div d <=> d * t <= x
<1> DEFINE q == x \div d
<1>1. q \in Int /\ d * q <= x /\ x < d * q + d
  OBVIOUS
<1> HIDE DEF q
<1>2. d * q \in Int /\ d * t \in Int
  BY <1>1
<1>3. CASE t <= q
  <2>1. d * t <= d * q
    BY <1>1, <1>3, ProductMonotone
  <2> QED
    BY <1>1, <1>2, <1>3, <2>1
<1>4. CASE q + 1 <= t
  <2>1. d * (q + 1) <= d * t
    BY <1>1, <1>4, ProductMonotone
  <2>2. d * (q + 1) = d * q + d
    BY <1>1, Distributes
  <2> QED
    BY <1>1, <1>2, <1>4, <2>1, <2>2
<1>5. t <= q <=> d * t <= x
  BY <1>1, <1>3, <1>4
<1> QED
  BY <1>5 DEF q

\* Two numbers less than a divisor apart have different remainders.
LEMMA RemaindersDiffer ==
    ASSUME NEW d \in Nat \ {0}, NEW x \in Nat, NEW y \in Nat, x < y, y < x + d
    PROVE  x % d # y % d
<1> DEFINE q == x \div d
           s == y \div d
<1>1. /\ q \in Nat /\ x % d \in 0..(d - 1) /\ x = d * q + (x % d)
      /\ s \in Nat /\ y % d \in 0..(d - 1) /\ y = d * s + (y % d)
  BY DivisionFacts
<1> HIDE DEF q, s
<1>2. SUFFICES ASSUME x % d = y % d
               PROVE  FALSE
  OBVIOUS
<1>3. d * q \in Int /\ d * s \in Int /\ d * q < d * s /\ d * s < d * q + d
  BY <1>1, <1>2
<1>4. CASE s <= q
  <2>1. d * s <= d * q
    BY <1>1, <1>4, ProductMonotone
  <2> QED
    BY <1>3, <2>1
<1>5. CASE q + 1 <= s
  <2>1. d * (q + 1) <= d * s
    BY <1>1, <1>5, ProductMonotone
  <2>2. d * (q + 1) = d * q + d
    BY <1>1, Distributes
  <2> QED
    BY <1>3, <2>1, <2>2
<1> QED
  BY <1>1, <1>4, <1>5
-----------------------------------------------------------------------------
\* A set of numbers has a least member, and so what holds of 0 and of each
\* number after one it holds of holds of all.
LEMMA LeastOf ==
    ASSUME NEW T \in SUBSET Nat, T # {}
    PROVE  \E t \in T : \A x \in T : t <= x
<1> DEFINE less == OpToRel(<, Nat)
<1>1. IsWellFoundedOn(less, Nat)
  BY NatLessThanWellFounded
<1> HIDE DEF less
<1>2. PICK t \in T : \A x \in T : ~(<<x, t>> \in less)
  BY <1>1, WFMin
<1>3. \A x \in T : ~(x < t)
  BY <1>2 DEF less, OpToRel
<1> QED
  BY <1>2, <1>3

LEMMA ByInduction ==
    ASSUME NEW H, 0 \in H, \A k \in Nat : k \in H => k + 1 \in H
    PROVE  \A k \in Nat : k \in H
<1> SUFFICES ASSUME Nat \ H # {}
             PROVE  FALSE
  OBVIOUS
<1>1. PICK t \in Nat \ H : \A x \in Nat \ H : t <= x
  BY LeastOf
<1>2. t # 0
  BY <1>1
<1>3. t - 1 \in Nat /\ ~(t <= t - 1) /\ (t - 1) + 1 = t
  BY <1>1, <1>2
<1> QED
  BY <1>1, <1>3

\* A set of numbers with a bound has a greatest member.
LEMMA GreatestOf ==
    ASSUME NEW b \in Int, NEW S, \A x \in S : x \in Int /\ x <= b, S # {}
    PROVE  \E t \in S : \A x \in S : t >= x
<1> DEFINE T == {b - x : x \in S}
<1>1. T \in SUBSET Nat
  <2>1. \A x \in S : b - x \in Nat
    OBVIOUS
  <2> QED
    BY <2>1
<1>2. T # {}
  OBVIOUS
<1> HIDE DEF T
<1>3. PICK t \in T : \A y \in T : t <= y
  BY <1>1, <1>2, LeastOf
<1>4. PICK x \in S : t = b - x
  BY <1>3 DEF T
<1>5. \A y \in S : x >= y
  <2> SUFFICES ASSUME NEW y \in S
               PROVE  x >= y
    OBVIOUS
  <2>1. b - y \in T
    BY DEF T
  <2>2. b - x <= b - y
    BY <1>3, <1>4, <2>1
  <2> QED
    BY <2>2
<1> QED
  BY <1>5

LEMMA MinIs ==
    ASSUME NEW T \in SUBSET Nat, T # {}
    PROVE  Min(T) \in T /\ \A x \in T : Min(T) <= x
BY LeastOf DEF Min

LEMMA MaxIs ==
    ASSUME NEW b \in Int, NEW S, \A x \in S : x \in Int /\ x <= b, S # {}
    PROVE  Max(S) \in S /\ \A x \in S : Max(S) >= x
BY GreatestOf DEF Max

LEMMA MinOfTwo ==
    ASSUME NEW x \in Int, NEW y \in Int
    PROVE  Min({x, y}) = IF x <= y THEN x ELSE y
BY DEF Min

LEMMA MaxOfTwo ==
    ASSUME NEW x \in Int, NEW y \in Int
    PROVE  Max({x, y}) = IF x >= y THEN x ELSE y
BY DEF Max
-----------------------------------------------------------------------------
\* One more element at the end.
LEMMA AppendIs ==
    ASSUME NEW S, NEW s \in Seq(S), NEW e \in S
    PROVE  /\ Len(s) \in Nat
           /\ Append(s, e) \in Seq(S) /\ Len(Append(s, e)) = Len(s) + 1
           /\ \A i \in 1..Len(s) : Append(s, e)[i] = s[i]
           /\ Append(s, e)[Len(s) + 1] = e
OBVIOUS

\* Four sequences in a row, however they are bracketed.
LEMMA Regrouped ==
    ASSUME NEW S, NEW a \in Seq(S), NEW b \in Seq(S), NEW c \in Seq(S), NEW d \in Seq(S)
    PROVE  (a \o (b \o c)) \o d = (a \o b) \o (c \o d)
<1>1. a \o b \in Seq(S)
  BY ConcatProperties
<1>2. (a \o b) \o c = a \o (b \o c)
  BY ConcatAssociative, SMTT(30)
<1>3. ((a \o b) \o c) \o d = (a \o b) \o (c \o d)
  BY <1>1, ConcatAssociative, SMTT(30)
<1> QED
  BY <1>2, <1>3

\* A sequence is what comes first and what is left.
LEMMA SplitAt ==
    ASSUME NEW S, NEW s \in Seq(S), NEW n \in 0..Len(s)
    PROVE  /\ SubSeq(s, 1, n) \in Seq(S) /\ Len(SubSeq(s, 1, n)) = n
           /\ SubSeq(s, n + 1, Len(s)) \in Seq(S) /\ Len(SubSeq(s, n + 1, Len(s))) = Len(s) - n
           /\ SubSeq(s, 1, n) \o SubSeq(s, n + 1, Len(s)) = s
<1>1. Len(s) \in Nat /\ \A i \in 1..Len(s) : s[i] \in S
  OBVIOUS
<1>2. SubSeq(s, 1, n) \in Seq(S) /\ Len(SubSeq(s, 1, n)) = n
  BY <1>1, SubSeqProperties
<1>3. /\ SubSeq(s, n + 1, Len(s)) \in Seq(S)
      /\ Len(SubSeq(s, n + 1, Len(s))) = Len(s) - n
  BY <1>1, SubSeqProperties
<1>4. SubSeq(s, 1, n) \o SubSeq(s, n + 1, Len(s)) = SubSeq(s, 1, Len(s))
  <2>1. 1 \in 1..(Len(s) + 1) /\ n \in (1 - 1)..Len(s) /\ Len(s) \in n..Len(s)
    BY <1>1
  <2> QED
    BY <2>1, ConcatAdjacentSubSeq
<1> QED
  BY <1>2, <1>3, <1>4, SubSeqFull

\* What is left of what was left.
LEMMA LeftOfLeft ==
    ASSUME NEW S, NEW s \in Seq(S), NEW w \in 0..Len(s), NEW k \in 0..w, NEW e \in 0..(w - k)
    PROVE  /\ SubSeq(s, k + 1, w) \in Seq(S) /\ Len(SubSeq(s, k + 1, w)) = w - k
           /\ \A i \in 1..(w - k) : SubSeq(s, k + 1, w)[i] = s[k + i]
           /\ SubSeq(SubSeq(s, k + 1, w), e + 1, w - k) = SubSeq(s, (k + e) + 1, w)
<1>1. Len(s) \in Nat /\ \A i \in 1..Len(s) : s[i] \in S
  OBVIOUS
<1>2. w \in Nat /\ k \in Nat /\ e \in Nat /\ w <= Len(s) /\ k + e <= w
  BY <1>1
<1> DEFINE t == SubSeq(s, k + 1, w)
<1>3. t \in Seq(S) /\ Len(t) = w - k /\ \A i \in 1..(w - k) : t[i] = s[k + i]
  <2>1. \A i \in (k + 1)..w : s[i] \in S
    BY <1>1, <1>2
  <2>2. /\ t \in Seq(S) /\ Len(t) = IF k + 1 <= w THEN w - (k + 1) + 1 ELSE 0
        /\ \A i \in 1..(w - (k + 1) + 1) : t[i] = s[(k + 1) + i - 1]
    <3>1. k + 1 \in Int /\ w \in Int
      BY <1>2
    <3> QED
      BY <2>1, <3>1, SubSeqProperties
  <2> HIDE DEF t
  <2>3. Len(t) = w - k
    BY <1>2, <2>2
  <2>4. \A i \in 1..(w - k) : (k + 1) + i - 1 = k + i /\ i \in 1..(w - (k + 1) + 1)
    BY <1>2
  <2> QED
    BY <2>2, <2>3, <2>4
<1> HIDE DEF t
<1> DEFINE u == SubSeq(t, e + 1, w - k)
           v == SubSeq(s, (k + e) + 1, w)
<1>4. /\ u \in Seq(S) /\ Len(u) = w - (k + e)
      /\ \A i \in 1..(w - (k + e)) : u[i] = t[e + i]
  <2>1. \A i \in (e + 1)..(w - k) : t[i] \in S
    BY <1>2, <1>3
  <2>2. e + 1 \in Int /\ w - k \in Int
    BY <1>2
  <2>3. /\ u \in Seq(S) /\ Len(u) = IF e + 1 <= w - k THEN (w - k) - (e + 1) + 1 ELSE 0
        /\ \A i \in 1..((w - k) - (e + 1) + 1) : u[i] = t[(e + 1) + i - 1]
    BY <2>1, <2>2, SubSeqProperties
  <2> HIDE DEF u
  <2>4. Len(u) = w - (k + e)
    BY <1>2, <2>3
  <2>5. \A i \in 1..(w - (k + e)) :
           (e + 1) + i - 1 = e + i /\ i \in 1..((w - k) - (e + 1) + 1)
    BY <1>2
  <2> QED
    BY <2>3, <2>4, <2>5
<1>5. /\ v \in Seq(S) /\ Len(v) = w - (k + e)
      /\ \A i \in 1..(w - (k + e)) : v[i] = s[(k + e) + i]
  <2> DEFINE m == (k + e) + 1
  <2>1. m \in Int /\ w \in Int /\ m >= 1 /\ m <= w + 1
    BY <1>2
  <2>2. v = SubSeq(s, m, w)
    OBVIOUS
  <2> HIDE DEF v, m
  <2>3. \A i \in m..w : s[i] \in S
    BY <1>1, <1>2, <2>1
  <2>4. /\ v \in Seq(S) /\ Len(v) = IF m <= w THEN w - m + 1 ELSE 0
        /\ \A i \in 1..(w - m + 1) : v[i] = s[m + i - 1]
    BY <2>1, <2>2, <2>3, SubSeqProperties
  <2>5. Len(v) = w - (k + e)
    BY <1>2, <2>1, <2>4 DEF m
  <2>6. \A i \in 1..(w - (k + e)) : m + i - 1 = (k + e) + i /\ i \in 1..(w - m + 1)
    BY <1>2 DEF m
  <2> QED
    BY <2>4, <2>5, <2>6
<1> HIDE DEF u, v
<1>6. \A i \in 1..(w - (k + e)) : u[i] = v[i]
  <2>1. \A i \in 1..(w - (k + e)) : e + i \in 1..(w - k) /\ k + (e + i) = (k + e) + i
    BY <1>2
  <2> QED
    BY <1>3, <1>4, <1>5, <2>1
<1>7. u = v
  BY <1>4, <1>5, <1>6, SeqEqual
<1> QED
  BY <1>3, <1>7 DEF t, u, v

\* What is left grows at its end with the sequence looked at.
LEMMA LeftGrows ==
    ASSUME NEW S, NEW s \in Seq(S), NEW w \in Nat, w < Len(s), NEW k \in 0..w
    PROVE  SubSeq(s, k + 1, w + 1) = Append(SubSeq(s, k + 1, w), s[w + 1])
<1>1. Len(s) \in Nat /\ \A i \in 1..Len(s) : s[i] \in S
  OBVIOUS
<1> DEFINE t == SubSeq(s, k + 1, w)
           u == SubSeq(s, k + 1, w + 1)
           v == Append(t, s[w + 1])
<1>2. t \in Seq(S) /\ Len(t) = w - k /\ \A i \in 1..(w - k) : t[i] = s[k + i]
  <2>1. w \in 0..Len(s) /\ 0 \in 0..(w - k)
    BY <1>1
  <2> QED
    BY <2>1, LeftOfLeft
<1>3. /\ u \in Seq(S) /\ Len(u) = (w + 1) - k
      /\ \A i \in 1..((w + 1) - k) : u[i] = s[k + i]
  <2>1. w + 1 \in 0..Len(s) /\ k \in 0..(w + 1) /\ 0 \in 0..((w + 1) - k)
    BY <1>1
  <2> QED
    BY <2>1, LeftOfLeft
<1>4. s[w + 1] \in S
  BY <1>1
<1> HIDE DEF t, u
<1>5. /\ v \in Seq(S) /\ Len(v) = Len(t) + 1
      /\ \A i \in 1..Len(t) : v[i] = t[i]
      /\ v[Len(t) + 1] = s[w + 1]
  BY <1>2, <1>4, AppendIs
<1> HIDE DEF v
<1>6. Len(u) = Len(v)
  BY <1>2, <1>3, <1>5
<1>7. \A i \in 1..Len(u) : u[i] = v[i]
  <2> SUFFICES ASSUME NEW i \in 1..((w + 1) - k)
               PROVE  u[i] = v[i]
    BY <1>3
  <2>1. CASE i = Len(t) + 1
    <3>1. k + i = w + 1
      BY <1>2, <2>1
    <3> QED
      BY <1>3, <1>5, <2>1, <3>1
  <2>2. CASE i # Len(t) + 1
    <3>1. i \in 1..(w - k) /\ i \in 1..Len(t)
      BY <1>2, <2>2
    <3> QED
      BY <1>2, <1>3, <1>5, <3>1
  <2> QED
    BY <2>1, <2>2
<1>8. u = v
  BY <1>3, <1>5, <1>6, <1>7, SeqEqual
<1> QED
  BY <1>8 DEF t, u, v
-----------------------------------------------------------------------------
\* What holds of the empty sequence, and of each sequence after one it holds of,
\* holds of all.
LEMMA BySeqInduction ==
    ASSUME NEW S, NEW H, <<>> \in H,
           \A s \in Seq(S), e \in S : s \in H => Append(s, e) \in H
    PROVE  \A s \in Seq(S) : s \in H
<1> DEFINE K == {k \in Nat : \A s \in Seq(S) : Len(s) = k => s \in H}
<1>1. 0 \in K
  <2>1. \A s \in Seq(S) : Len(s) = 0 => s = <<>>
    OBVIOUS
  <2> QED
    BY <2>1
<1>2. ASSUME NEW k \in Nat, k \in K
      PROVE  k + 1 \in K
  <2> SUFFICES ASSUME NEW s \in Seq(S), Len(s) = k + 1
               PROVE  s \in H
    OBVIOUS
  <2> DEFINE t == SubSeq(s, 1, k)
             e == s[k + 1]
  <2>1. t \in Seq(S) /\ Len(t) = k /\ e \in S
    OBVIOUS
  <2>2. s = Append(t, e)
    OBVIOUS
  <2> HIDE DEF t, e
  <2>3. t \in H
    BY <1>2, <2>1
  <2> QED
    BY <2>1, <2>2, <2>3
<1> HIDE DEF K
<1>3. \A k \in Nat : k \in K
  BY <1>1, <1>2, ByInduction
<1>4. \A s \in Seq(S) : Len(s) \in Nat
  OBVIOUS
<1> QED
  BY <1>3, <1>4 DEF K

\* FlattenSeq runs through the sequences, from the first on.
LEMMA FlattenUnfolds ==
    ASSUME NEW S, NEW s \in Seq(S), NEW n \in Nat \ {0}, Len(s) = n
    PROVE  \E f : /\ FlattenSeq(s) = f[n]
                  /\ \A i \in 1..n : f[i] = IF i = 1 THEN s[i] ELSE f[i - 1] \o s[i]
<1> DEFINE Is(f, k) == f = [i \in 1..k |-> IF i = 1 THEN s[i] ELSE f[i - 1] \o s[i]]
           H == {k \in Nat : \E f : Is(f, k)}
<1>1. 0 \in H
  <2>1. Is(<<>>, 0)
    OBVIOUS
  <2> QED
    BY <2>1
<1>2. ASSUME NEW k \in Nat, k \in H
      PROVE  k + 1 \in H
  <2>1. PICK f : Is(f, k)
    BY <1>2
  <2> DEFINE g == [i \in 1..(k + 1) |-> IF i = 1 THEN s[i] ELSE f[i - 1] \o s[i]]
  <2>2. \A i \in 1..k : f[i] = g[i]
    <3>1. \A i \in 1..k : f[i] = IF i = 1 THEN s[i] ELSE f[i - 1] \o s[i]
      BY <2>1
    <3>2. \A i \in 1..k : i \in 1..(k + 1)
      OBVIOUS
    <3> QED
      BY <3>1, <3>2
  <2>3. \A i \in 1..(k + 1) : g[i] = IF i = 1 THEN s[i] ELSE g[i - 1] \o s[i]
    <3>1. \A i \in 1..(k + 1) : i # 1 => i - 1 \in 1..k
      OBVIOUS
    <3> QED
      BY <2>2, <3>1
  <2> DEFINE h == [i \in 1..(k + 1) |-> IF i = 1 THEN s[i] ELSE g[i - 1] \o s[i]]
  <2>4. g = h
    <3>1. \A i \in 1..(k + 1) : g[i] = h[i]
      BY <2>3
    <3> QED
      BY <3>1
  <2>5. Is(g, k + 1)
    BY <2>4
  <2> HIDE DEF g, Is
  <2> QED
    BY <2>5
<1>3. n \in H
  <2> HIDE DEF H
  <2> QED
    BY <1>1, <1>2, ByInduction
<1> DEFINE f == CHOOSE f : Is(f, n)
<1>4. Is(f, n)
  <2> HIDE DEF Is
  <2> QED
    BY <1>3 DEF H
<1>6. FlattenSeq(s) = f[n]
  BY DEF FlattenSeq
<1> HIDE DEF f
<1>7. \A i \in 1..n : f[i] = IF i = 1 THEN s[i] ELSE f[i - 1] \o s[i]
  BY <1>4
<1> QED
  BY <1>6, <1>7

LEMMA FlattenEmpty == FlattenSeq(<<>>) = <<>>
BY DEF FlattenSeq

\* One more sequence goes to the end.
LEMMA FlattenAppend ==
    ASSUME NEW S, NEW ss \in Seq(Seq(S)), NEW t \in Seq(S)
    PROVE  FlattenSeq(Append(ss, t)) = FlattenSeq(ss) \o t
<1> DEFINE n == Len(ss)
           tt == Append(ss, t)
<1>1. /\ tt[n + 1] = t
      /\ \A i \in 1..n : tt[i] = ss[i]
  BY AppendIs
<1>5. tt \in Seq(Seq(S)) /\ Len(tt) = n + 1
  BY AppendIs
<1>6. n \in Nat
  OBVIOUS
<1> HIDE DEF n, tt
<1>2. PICK g : /\ FlattenSeq(tt) = g[n + 1]
               /\ \A i \in 1..(n + 1) : g[i] = IF i = 1 THEN tt[i] ELSE g[i - 1] \o tt[i]
  <2>1. n + 1 \in Nat \ {0}
    BY <1>6
  <2> QED
    BY <1>5, <2>1, FlattenUnfolds
<1>3. CASE n = 0
  <2>1. g[1] = t
    BY <1>1, <1>2, <1>3
  <2>2. ss = <<>>
    BY <1>3 DEF n
  <2>3. FlattenSeq(ss) \o t = t
    BY <2>2, FlattenEmpty, ConcatEmptySeq
  <2> QED
    BY <1>2, <1>3, <2>1, <2>3 DEF tt
<1>4. CASE n # 0
  <2>1. PICK f : /\ FlattenSeq(ss) = f[n]
                 /\ \A i \in 1..n : f[i] = IF i = 1 THEN ss[i] ELSE f[i - 1] \o ss[i]
    <3>1. n \in Nat \ {0}
      BY <1>4, <1>6
    <3> QED
      BY <3>1, FlattenUnfolds DEF n
  <2> DEFINE H == {k \in Nat : k + 1 \in 1..n => f[k + 1] = g[k + 1]}
  <2>2. 0 \in H
    <3>1. f[1] = ss[1] /\ g[1] = tt[1] /\ ss[1] = tt[1]
      <4>1. 1 \in 1..n /\ 1 \in 1..(n + 1)
        BY <1>4, <1>6
      <4> QED
        BY <1>1, <1>2, <2>1, <4>1
    <3> QED
      BY <3>1
  <2>3. ASSUME NEW k \in Nat, k \in H
        PROVE  k + 1 \in H
    <3> SUFFICES ASSUME k + 2 \in 1..n
                 PROVE  f[k + 2] = g[k + 2]
      OBVIOUS
    <3>1. /\ k + 1 \in 1..n /\ k + 2 # 1 /\ (k + 2) - 1 = k + 1
          /\ k + 2 \in 1..(n + 1)
      BY <1>6
    <3>2. f[k + 2] = f[k + 1] \o ss[k + 2]
      BY <2>1, <3>1
    <3>3. g[k + 2] = g[k + 1] \o tt[k + 2]
      BY <1>2, <3>1
    <3> QED
      BY <1>1, <2>3, <3>1, <3>2, <3>3
  <2>4. n - 1 \in H
    <3> HIDE DEF H
    <3>1. \A k \in Nat : k \in H
      BY <2>2, <2>3, ByInduction
    <3> QED
      <4>1. n - 1 \in Nat
        BY <1>4, <1>6
      <4> QED
        BY <3>1, <4>1
  <2>5. f[n] = g[n]
    <3>1. (n - 1) + 1 = n /\ n \in 1..n
      BY <1>4, <1>6
    <3> QED
      BY <2>4, <3>1
  <2>6. g[n + 1] = g[n] \o t
    <3>1. n + 1 # 1 /\ (n + 1) - 1 = n /\ n + 1 \in 1..(n + 1)
      BY <1>4, <1>6
    <3> QED
      BY <1>1, <1>2, <3>1
  <2> QED
    BY <1>2, <2>1, <2>5, <2>6 DEF tt
<1> QED
  BY <1>3, <1>4

LEMMA FlattenType ==
    ASSUME NEW S
    PROVE  \A ss \in Seq(Seq(S)) : FlattenSeq(ss) \in Seq(S)
<1> DEFINE H == {ss \in Seq(Seq(S)) : FlattenSeq(ss) \in Seq(S)}
<1>1. <<>> \in H
  <2>1. <<>> \in Seq(Seq(S)) /\ <<>> \in Seq(S)
    BY EmptySeq
  <2> QED
    BY <2>1, FlattenEmpty
<1>2. ASSUME NEW ss \in Seq(Seq(S)), NEW t \in Seq(S), ss \in H
      PROVE  Append(ss, t) \in H
  <2>1. FlattenSeq(Append(ss, t)) = FlattenSeq(ss) \o t
    BY FlattenAppend
  <2>2. FlattenSeq(ss) \o t \in Seq(S)
    BY <1>2, ConcatProperties
  <2>3. Append(ss, t) \in Seq(Seq(S))
    BY AppendIs
  <2> QED
    BY <2>1, <2>2, <2>3
<1> HIDE DEF H
<1>3. \A ss \in Seq(Seq(S)) : ss \in H
  BY <1>1, <1>2, BySeqInduction
<1> QED
  BY <1>3 DEF H

\* Each element is replaced by a sequence.
Mapped(F, s) == [i \in DOMAIN s |-> F[s[i]]]
FlatMap(F, s) == FlattenSeq(Mapped(F, s))

LEMMA MappedIsSeq ==
    ASSUME NEW S, NEW U, NEW F \in [S -> U], NEW s \in Seq(S)
    PROVE  Mapped(F, s) \in Seq(U) /\ Len(Mapped(F, s)) = Len(s)
<1> DEFINE n == Len(s)
           t == [i \in DOMAIN s |-> F[s[i]]]
<1>1. n \in Nat /\ DOMAIN s = 1..n /\ \A i \in 1..n : s[i] \in S
  OBVIOUS
<1>2. \A i \in 1..n : t[i] \in U
  BY <1>1
<1>3. t \in Seq(U) /\ Len(t) = n
  BY <1>1, <1>2
<1> QED
  BY <1>3 DEF Mapped

LEMMA MappedAppend ==
    \A S, U : \A F \in [S -> U], s \in Seq(S), e \in S :
        Mapped(F, Append(s, e)) = Append(Mapped(F, s), F[e])
<1> SUFFICES ASSUME NEW S, NEW U, NEW F \in [S -> U], NEW s \in Seq(S), NEW e \in S
             PROVE  Mapped(F, Append(s, e)) = Append(Mapped(F, s), F[e])
  OBVIOUS
<1> DEFINE n == Len(s)
           t == [i \in DOMAIN s |-> F[s[i]]]
           both == Append(s, e)
           f == [i \in 1..(n + 1) |-> F[both[i]]]
<1>1. /\ n \in Nat /\ DOMAIN s = 1..n /\ \A i \in 1..n : s[i] \in S
      /\ \A i \in 1..n : both[i] = s[i]
      /\ both[n + 1] = e /\ DOMAIN both = 1..(n + 1)
  OBVIOUS
<1>2. \A i \in 1..n : t[i] \in U /\ t[i] = F[s[i]]
  BY <1>1
<1>3. t \in Seq(U) /\ Len(t) = n
  BY <1>1, <1>2
<1>4. \A i \in 1..(n + 1) : f[i] = IF i = n + 1 THEN F[e] ELSE t[i]
  BY <1>1, <1>2
<1> HIDE DEF t, n, both
<1>5. /\ Append(t, F[e]) \in Seq(U) /\ Len(Append(t, F[e])) = n + 1
      /\ \A i \in 1..n : Append(t, F[e])[i] = t[i]
      /\ Append(t, F[e])[n + 1] = F[e]
  BY <1>3, AppendIs
<1>6. \A i \in 1..(n + 1) : f[i] \in U /\ f[i] = Append(t, F[e])[i]
  <2> SUFFICES ASSUME NEW i \in 1..(n + 1)
               PROVE  f[i] \in U /\ f[i] = Append(t, F[e])[i]
    OBVIOUS
  <2>1. CASE i = n + 1
    BY <1>4, <1>5, <2>1
  <2>2. CASE i # n + 1
    <3>1. i \in 1..n
      BY <1>1, <2>2
    <3> QED
      BY <1>2, <1>4, <1>5, <2>2, <3>1
  <2> QED
    BY <2>1, <2>2
<1>7. f \in Seq(U) /\ Len(f) = n + 1
  <2>1. f = [i \in 1..(n + 1) |-> f[i]]
    OBVIOUS
  <2> HIDE DEF f
  <2> QED
    BY <1>1, <1>6, <2>1, SMTT(30)
<1>8. f = Append(t, F[e])
  <2> HIDE DEF f
  <2> QED
    BY <1>5, <1>6, <1>7, SeqEqual
<1>9. [i \in DOMAIN both |-> F[both[i]]] = f
  BY <1>1
<1> QED
  BY <1>8, <1>9 DEF t, both, Mapped

LEMMA FlatMapEmpty == \A F : FlatMap(F, <<>>) = <<>>
<1> SUFFICES ASSUME NEW F
             PROVE  FlatMap(F, <<>>) = <<>>
  OBVIOUS
<1>1. Mapped(F, <<>>) = <<>>
  BY DEF Mapped
<1> QED
  BY <1>1, FlattenEmpty DEF FlatMap

LEMMA FlatMapAppend ==
    ASSUME NEW S, NEW T, NEW F \in [S -> Seq(T)], NEW s \in Seq(S), NEW e \in S
    PROVE  FlatMap(F, Append(s, e)) = FlatMap(F, s) \o F[e]
<1> DEFINE U == Seq(T)
<1>1. Mapped(F, s) \in Seq(Seq(T)) /\ Mapped(F, Append(s, e)) = Append(Mapped(F, s), F[e])
  <2>1. F \in [S -> U]
    OBVIOUS
  <2> HIDE DEF U
  <2>2. Mapped(F, s) \in Seq(U)
    BY <2>1, MappedIsSeq
  <2>3. Mapped(F, Append(s, e)) = Append(Mapped(F, s), F[e])
    BY <2>1, MappedAppend, ZenonT(40)
  <2> QED
    BY <2>2, <2>3 DEF U
<1>2. F[e] \in Seq(T)
  OBVIOUS
<1>3. FlattenSeq(Append(Mapped(F, s), F[e])) = FlattenSeq(Mapped(F, s)) \o F[e]
  BY <1>1, <1>2, FlattenAppend
<1> QED
  BY <1>1, <1>3 DEF FlatMap

LEMMA FlatMapType ==
    ASSUME NEW S, NEW T, NEW F \in [S -> Seq(T)]
    PROVE  \A s \in Seq(S) : FlatMap(F, s) \in Seq(T)
<1> DEFINE H == {s \in Seq(S) : FlatMap(F, s) \in Seq(T)}
<1>1. <<>> \in H
  <2>1. <<>> \in Seq(S)
    BY EmptySeq
  <2>2. <<>> \in Seq(T)
    BY EmptySeq
  <2> QED
    BY <2>1, <2>2, FlatMapEmpty
<1>2. ASSUME NEW s \in Seq(S), NEW e \in S, s \in H
      PROVE  Append(s, e) \in H
  <2>1. Append(s, e) \in Seq(S) /\ F[e] \in Seq(T)
    OBVIOUS
  <2>2. FlatMap(F, s) \o F[e] \in Seq(T)
    BY <1>2, <2>1, ConcatProperties
  <2>3. FlatMap(F, Append(s, e)) = FlatMap(F, s) \o F[e]
    BY FlatMapAppend
  <2> QED
    BY <2>1, <2>2, <2>3
<1> HIDE DEF H
<1>3. \A s \in Seq(S) : s \in H
  BY <1>1, <1>2, BySeqInduction
<1> QED
  BY <1>3 DEF H

LEMMA FlatMapConcat ==
    ASSUME NEW S, NEW T, NEW F \in [S -> Seq(T)], NEW s \in Seq(S)
    PROVE  \A t \in Seq(S) : FlatMap(F, s \o t) = FlatMap(F, s) \o FlatMap(F, t)
<1> DEFINE H == {t \in Seq(S) : FlatMap(F, s \o t) = FlatMap(F, s) \o FlatMap(F, t)}
<1>0. FlatMap(F, s) \in Seq(T)
  BY FlatMapType
<1>1. <<>> \in H
  <2>1. s \o <<>> = s /\ FlatMap(F, s) \o <<>> = FlatMap(F, s)
    BY <1>0, ConcatEmptySeq
  <2>2. <<>> \in Seq(S)
    BY EmptySeq
  <2> QED
    BY <2>1, <2>2, FlatMapEmpty
<1>2. ASSUME NEW t \in Seq(S), NEW e \in S, t \in H
      PROVE  Append(t, e) \in H
  <2>1. /\ s \o Append(t, e) = Append(s \o t, e) /\ s \o t \in Seq(S)
        /\ Append(t, e) \in Seq(S) /\ F[e] \in Seq(T)
    OBVIOUS
  <2>2. FlatMap(F, Append(s \o t, e)) = FlatMap(F, s \o t) \o F[e]
    BY <2>1, FlatMapAppend
  <2>5. FlatMap(F, Append(t, e)) = FlatMap(F, t) \o F[e]
    BY FlatMapAppend
  <2>3. FlatMap(F, t) \in Seq(T)
    BY FlatMapType
  <2>4. (FlatMap(F, s) \o FlatMap(F, t)) \o F[e] = FlatMap(F, s) \o (FlatMap(F, t) \o F[e])
    BY <1>0, <2>1, <2>3, ConcatAssociative, SMTT(30)
  <2> QED
    BY <1>2, <2>1, <2>2, <2>4, <2>5
<1> HIDE DEF H
<1>3. \A t \in Seq(S) : t \in H
  BY <1>1, <1>2, BySeqInduction
<1> QED
  BY <1>3 DEF H

LEMMA FlatMapOne ==
    ASSUME NEW S, NEW T, NEW F \in [S -> Seq(T)], NEW e \in S
    PROVE  FlatMap(F, <<e>>) = F[e]
<1>1. <<>> \in Seq(S) /\ Append(<<>>, e) = <<e>>
  BY EmptySeq
<1>2. FlatMap(F, Append(<<>>, e)) = FlatMap(F, <<>>) \o F[e]
  BY <1>1, FlatMapAppend
<1>3. F[e] \in Seq(T)
  OBVIOUS
<1>4. <<>> \o F[e] = F[e]
  BY <1>3, ConcatEmptySeq
<1> QED
  BY <1>1, <1>2, <1>4, FlatMapEmpty

\* Nothing comes of elements that are replaced by nothing.
LEMMA FlatMapNothing ==
    ASSUME NEW S, NEW T, NEW F \in [S -> Seq(T)]
    PROVE  \A s \in Seq(S) : (\A i \in 1..Len(s) : F[s[i]] = <<>>) => FlatMap(F, s) = <<>>
<1> DEFINE None(s) == \A i \in 1..Len(s) : F[s[i]] = <<>>
           H == {s \in Seq(S) : None(s) => FlatMap(F, s) = <<>>}
<1>1. <<>> \in H
  BY EmptySeq, FlatMapEmpty
<1>2. ASSUME NEW s \in Seq(S), NEW e \in S, s \in H
      PROVE  Append(s, e) \in H
  <2> DEFINE t == Append(s, e)
  <2>1. /\ Len(s) \in Nat /\ t \in Seq(S) /\ Len(t) = Len(s) + 1
        /\ \A i \in 1..Len(s) : t[i] = s[i]
        /\ t[Len(s) + 1] = e
    BY AppendIs
  <2>2. FlatMap(F, t) = FlatMap(F, s) \o F[e]
    BY FlatMapAppend
  <2> HIDE DEF t
  <2>3. ASSUME None(t)
        PROVE  FlatMap(F, t) = <<>>
    <3>1. \A i \in 1..Len(s) : i \in 1..Len(t)
      BY <2>1
    <3>2. None(s)
      BY <2>1, <2>3, <3>1
    <3>3. Len(s) + 1 \in 1..Len(t)
      BY <2>1
    <3>4. F[e] = <<>>
      BY <2>1, <2>3, <3>3
    <3>5. FlatMap(F, s) = <<>>
      BY <1>2, <3>2
    <3> QED
      BY <2>2, <3>4, <3>5
  <2> HIDE DEF None
  <2> QED
    BY <2>1, <2>3 DEF t
<1> HIDE DEF H
<1>3. \A s \in Seq(S) : s \in H
  BY <1>1, <1>2, BySeqInduction
<1> QED
  BY <1>3 DEF H

\* What comes out was put in by some element.
ComesFrom(F, s) ==
    \A i \in 1..Len(FlatMap(F, s)) :
        \E j \in 1..Len(s) : \E l \in 1..Len(F[s[j]]) : FlatMap(F, s)[i] = F[s[j]][l]

LEMMA FlatMapFrom ==
    ASSUME NEW S, NEW T, NEW F \in [S -> Seq(T)], NEW x \in Seq(S)
    PROVE  ComesFrom(F, x)
<1> DEFINE Put(s, v) == \E j \in 1..Len(s) : \E l \in 1..Len(F[s[j]]) : v = F[s[j]][l]
           H == {s \in Seq(S) : \A i \in 1..Len(FlatMap(F, s)) : Put(s, FlatMap(F, s)[i])}
<1>1. <<>> \in H
  BY EmptySeq, FlatMapEmpty
<1>2. ASSUME NEW s \in Seq(S), NEW e \in S, s \in H
      PROVE  Append(s, e) \in H
  <2> DEFINE t == Append(s, e)
             a == FlatMap(F, s)
             b == F[e]
             ab == a \o b
  <2>1. /\ Len(s) \in Nat /\ t \in Seq(S) /\ Len(t) = Len(s) + 1
        /\ \A i \in 1..Len(s) : t[i] = s[i]
        /\ t[Len(s) + 1] = e
    BY AppendIs
  <2>2. FlatMap(F, t) = ab
    BY FlatMapAppend
  <2>3. a \in Seq(T) /\ b \in Seq(T)
    BY FlatMapType
  <2>4. \A i \in 1..Len(a) : Put(s, a[i])
    BY <1>2
  <2> HIDE DEF t, a
  <2>5. /\ Len(ab) = Len(a) + Len(b)
        /\ \A i \in 1..(Len(a) + Len(b)) : ab[i] = IF i <= Len(a) THEN a[i] ELSE b[i - Len(a)]
        /\ Len(a) \in Nat /\ Len(b) \in Nat
    BY <2>3, ConcatProperties
  <2> HIDE DEF ab
  <2>6. ASSUME NEW i \in 1..Len(ab)
        PROVE  Put(t, ab[i])
    <3>1. CASE i \in 1..Len(a)
      <4>1. ab[i] = a[i]
        BY <2>5, <3>1
      <4>2. PICK j \in 1..Len(s) : \E l \in 1..Len(F[s[j]]) : a[i] = F[s[j]][l]
        BY <2>4, <3>1
      <4>3. j \in 1..Len(t) /\ t[j] = s[j]
        BY <2>1
      <4> QED
        BY <4>1, <4>2, <4>3
    <3>2. CASE i \notin 1..Len(a)
      <4>1. ab[i] = b[i - Len(a)] /\ i - Len(a) \in 1..Len(b)
        BY <2>5, <3>2
      <4>2. Len(s) + 1 \in 1..Len(t)
        BY <2>1
      <4> QED
        BY <2>1, <4>1, <4>2
    <3> QED
      BY <3>1, <3>2
  <2> HIDE DEF Put
  <2> QED
    BY <2>1, <2>2, <2>6 DEF t
<1> HIDE DEF H
<1>3. \A s \in Seq(S) : s \in H
  BY <1>1, <1>2, BySeqInduction
<1> QED
  BY <1>3 DEF H, ComesFrom

Spreads(F, s, t) == FlatMap(F, s \o t) = FlatMap(F, s) \o FlatMap(F, t)

LEMMA FlatMapSpreads ==
    ASSUME NEW S, NEW T, NEW F \in [S -> Seq(T)], NEW s \in Seq(S), NEW t \in Seq(S)
    PROVE  Spreads(F, s, t)
BY FlatMapConcat DEF Spreads

\* Replacing what has replaced.
AtOnce(F, G, K, s) == FlatMap(G, FlatMap(F, s)) = FlatMap(K, s)

LEMMA FlatMapTwice ==
    ASSUME NEW S, NEW T, NEW U, NEW F \in [S -> Seq(T)], NEW G \in [T -> Seq(U)],
           NEW K \in [S -> Seq(U)], \A e \in S : FlatMap(G, F[e]) = K[e],
           NEW x \in Seq(S)
    PROVE  AtOnce(F, G, K, x)
<1> DEFINE H == {s \in Seq(S) : FlatMap(G, FlatMap(F, s)) = FlatMap(K, s)}
<1>1. <<>> \in H
  BY EmptySeq, FlatMapEmpty
<1>2. ASSUME NEW s \in Seq(S), NEW e \in S, s \in H
      PROVE  Append(s, e) \in H
  <2>1. /\ FlatMap(F, Append(s, e)) = FlatMap(F, s) \o F[e]
        /\ FlatMap(K, Append(s, e)) = FlatMap(K, s) \o K[e]
    <3>1. FlatMap(F, Append(s, e)) = FlatMap(F, s) \o F[e]
      BY FlatMapAppend, ZenonT(30)
    <3>2. FlatMap(K, Append(s, e)) = FlatMap(K, s) \o K[e]
      BY FlatMapAppend, ZenonT(30)
    <3> QED
      BY <3>1, <3>2
  <2>2. FlatMap(F, s) \in Seq(T) /\ F[e] \in Seq(T)
    BY FlatMapType
  <2>3. FlatMap(G, FlatMap(F, s) \o F[e]) = FlatMap(G, FlatMap(F, s)) \o FlatMap(G, F[e])
    <3> DEFINE a == FlatMap(F, s)
               b == F[e]
    <3>1. a \in Seq(T) /\ b \in Seq(T)
      BY <2>2
    <3> HIDE DEF a, b
    <3>2. Spreads(G, a, b)
      BY <3>1, FlatMapSpreads
    <3>3. FlatMap(G, a \o b) = FlatMap(G, a) \o FlatMap(G, b)
      BY <3>2 DEF Spreads
    <3> QED
      BY <3>3 DEF a, b
  <2>4. Append(s, e) \in Seq(S)
    BY AppendIs
  <2>5. FlatMap(G, FlatMap(F, s)) = FlatMap(K, s) /\ FlatMap(G, F[e]) = K[e]
    BY <1>2
  <2> QED
    BY <2>1, <2>3, <2>4, <2>5
<1> HIDE DEF H
<1>3. \A s \in Seq(S) : s \in H
  BY <1>1, <1>2, BySeqInduction
<1> QED
  BY <1>3 DEF H, AtOnce
-----------------------------------------------------------------------------
(***************************************************************************)
(* Sums over finite sets: the community modules' fold takes the elements   *)
(* in the order CHOOSE gives them.                                         *)
(***************************************************************************)
\* What holds of a set if it holds of it less any one element holds of all.
LEMMA ByShrinking ==
    ASSUME NEW S, IsFiniteSet(S), NEW H,
           \A s \in SUBSET S : (\A x \in s : s \ {x} \in H) => s \in H
    PROVE  \A s \in SUBSET S : s \in H
<1> DEFINE K == {k \in Nat : \A s \in SUBSET S : Cardinality(s) = k => s \in H}
<1>1. \A s \in SUBSET S : IsFiniteSet(s) /\ Cardinality(s) \in Nat
  BY FS_Subset, FS_CardinalityType
<1>2. 0 \in K
  <2>1. ASSUME NEW s \in SUBSET S, Cardinality(s) = 0
        PROVE  s \in H
    <3>1. s = {}
      BY <1>1, <2>1, FS_EmptySet
    <3> QED
      BY <3>1
  <2> QED
    BY <2>1
<1>3. ASSUME NEW k \in Nat, k \in K
      PROVE  k + 1 \in K
  <2>1. ASSUME NEW s \in SUBSET S, Cardinality(s) = k + 1
        PROVE  s \in H
    <3>1. ASSUME NEW x \in s
          PROVE  s \ {x} \in H
      <4>1. Cardinality(s \ {x}) = k
        BY <1>1, <2>1, FS_RemoveElement
      <4> QED
        BY <1>3, <4>1
    <3> QED
      BY <3>1
  <2> QED
    BY <2>1
<1> HIDE DEF K
<1>4. \A k \in Nat : k \in K
  BY <1>2, <1>3, ByInduction
<1> QED
  BY <1>1, <1>4 DEF K

\* The fold's function: what it sums over each subset.
IsSummer(g, f, S) ==
    g = [s \in SUBSET S |-> IF s = {} THEN 0
                            ELSE f[CHOOSE x \in s : TRUE] + g[s \ {CHOOSE x \in s : TRUE}]]

LEMMA SumByChoice == \A f, S : SumFunctionOnSet(f, S) = (CHOOSE g : IsSummer(g, f, S))[S]
BY DEF SumFunctionOnSet, FoldFunctionOnSet, MapThenFoldSet, IsSummer

LEMMA SummerExists ==
    ASSUME NEW f, NEW S, IsFiniteSet(S)
    PROVE  \E g : IsSummer(g, f, S)
<1> DEFINE Small(k) == {s \in SUBSET S : Cardinality(s) <= k}
           Of(g, s) == IF s = {} THEN 0
                       ELSE f[CHOOSE x \in s : TRUE] + g[s \ {CHOOSE x \in s : TRUE}]
           K == {k \in Nat : \E g : g = [s \in Small(k) |-> Of(g, s)]}
<1>1. \A s \in SUBSET S : IsFiniteSet(s) /\ Cardinality(s) \in Nat
  BY FS_Subset, FS_CardinalityType
<1>2. \A s \in SUBSET S : s # {} =>
         /\ s \ {CHOOSE x \in s : TRUE} \in SUBSET S
         /\ Cardinality(s \ {CHOOSE x \in s : TRUE}) = Cardinality(s) - 1
  BY <1>1, FS_RemoveElement
<1>3. 0 \in K
  <2> DEFINE g == [s \in Small(0) |-> 0]
  <2>1. \A s \in Small(0) : s = {}
    BY <1>1, FS_EmptySet
  <2>2. g = [s \in Small(0) |-> Of(g, s)]
    BY <2>1
  <2> QED
    BY <2>2
<1>4. ASSUME NEW k \in Nat, k \in K
      PROVE  k + 1 \in K
  <2>1. PICK g : g = [s \in Small(k) |-> Of(g, s)]
    BY <1>4
  <2> DEFINE h == [s \in Small(k + 1) |-> Of(g, s)]
  <2>2. \A s \in Small(k) : s \in Small(k + 1) /\ h[s] = g[s]
    <3>1. \A s \in Small(k) : s \in Small(k + 1)
      BY <1>1
    <3> HIDE DEF Small, Of
    <3> QED
      BY <2>1, <3>1
  <2>3. \A s \in Small(k + 1) : s # {} => s \ {CHOOSE x \in s : TRUE} \in Small(k)
    BY <1>1, <1>2
  <2> HIDE DEF Small
  <2>4. \A s \in Small(k + 1) : Of(g, s) = Of(h, s)
    BY <2>2, <2>3
  <2>5. h = [s \in Small(k + 1) |-> Of(h, s)]
    BY <2>4
  <2> HIDE DEF h, Of
  <2>6. \E e : e = [s \in Small(k + 1) |-> Of(e, s)]
    BY <2>5
  <2> QED
    BY <2>6
<1> HIDE DEF K
<1>5. Cardinality(S) \in K
  BY <1>3, <1>4, ByInduction, FS_CardinalityType
<1>6. Small(Cardinality(S)) = SUBSET S
  BY FS_Subset
<1> HIDE DEF Small
<1> QED
  BY <1>5, <1>6 DEF K, IsSummer

LEMMA SummersAgree ==
    ASSUME NEW f, NEW S, NEW T \in SUBSET S, IsFiniteSet(S), NEW g, NEW h,
           IsSummer(g, f, S), IsSummer(h, f, T)
    PROVE  g[T] = h[T]
<1> DEFINE H == {s \in SUBSET T : g[s] = h[s]}
<1>1. \A s \in SUBSET T : (\A x \in s : s \ {x} \in H) => s \in H
  <2> SUFFICES ASSUME NEW s \in SUBSET T, \A x \in s : s \ {x} \in H
               PROVE  g[s] = h[s]
    OBVIOUS
  <2>1. CASE s = {}
    BY <2>1 DEF IsSummer
  <2>2. CASE s # {}
    <3> DEFINE c == CHOOSE x \in s : TRUE
    <3>1. c \in s
      BY <2>2
    <3>2. g[s] = f[c] + g[s \ {c}] /\ h[s] = f[c] + h[s \ {c}]
      BY <2>2 DEF IsSummer
    <3> HIDE DEF c
    <3> QED
      BY <3>1, <3>2
  <2> QED
    BY <2>1, <2>2
<1>2. IsFiniteSet(T)
  BY FS_Subset
<1> HIDE DEF H
<1>3. \A s \in SUBSET T : s \in H
  BY <1>1, <1>2, ByShrinking
<1> QED
  BY <1>3 DEF H

LEMMA SumEmpty == \A f : SumFunctionOnSet(f, {}) = 0
<1> SUFFICES ASSUME NEW f
             PROVE  SumFunctionOnSet(f, {}) = 0
  OBVIOUS
<1> DEFINE g == CHOOSE e : IsSummer(e, f, {})
<1>1. IsSummer(g, f, {})
  BY SummerExists, FS_EmptySet
<1>2. g[{}] = 0
  BY <1>1 DEF IsSummer
<1> QED
  BY <1>2, SumByChoice

\* The chosen element comes first.
LEMMA SumUnfolds ==
    ASSUME NEW f, NEW S, IsFiniteSet(S), S # {}
    PROVE  \E c \in S : SumFunctionOnSet(f, S) = f[c] + SumFunctionOnSet(f, S \ {c})
<1> DEFINE c == CHOOSE x \in S : TRUE
           T == S \ {c}
           g == CHOOSE e : IsSummer(e, f, S)
           h == CHOOSE e : IsSummer(e, f, T)
<1>1. c \in S
  OBVIOUS
<1>2. IsFiniteSet(T)
  BY FS_Subset
<1>3. IsSummer(g, f, S)
  BY SummerExists
<1>4. IsSummer(h, f, T)
  BY <1>2, SummerExists
<1>5. g[S] = f[c] + g[T]
  BY <1>3 DEF IsSummer
<1>6. SumFunctionOnSet(f, S) = g[S] /\ SumFunctionOnSet(f, T) = h[T]
  BY SumByChoice
<1> HIDE DEF c, g, h
<1>7. g[T] = h[T]
  BY <1>3, <1>4, SummersAgree
<1> QED
  BY <1>1, <1>5, <1>6, <1>7

LEMMA SumType ==
    ASSUME NEW f, NEW S, IsFiniteSet(S), \A i \in S : f[i] \in Int
    PROVE  SumFunctionOnSet(f, S) \in Int
<1> DEFINE H == {s \in SUBSET S : SumFunctionOnSet(f, s) \in Int}
<1>1. ASSUME NEW s \in SUBSET S, \A x \in s : s \ {x} \in H
      PROVE  s \in H
  <2>1. CASE s = {}
    BY <2>1, SumEmpty
  <2>2. CASE s # {}
    <3>1. IsFiniteSet(s)
      BY FS_Subset
    <3>2. PICK c \in s : SumFunctionOnSet(f, s) = f[c] + SumFunctionOnSet(f, s \ {c})
      BY <2>2, <3>1, SumUnfolds
    <3> QED
      BY <1>1, <3>2
  <2> QED
    BY <2>1, <2>2
<1> HIDE DEF H
<1>2. \A s \in SUBSET S : s \in H
  BY <1>1, ByShrinking
<1> QED
  BY <1>2 DEF H

\* Any element may come first.
LEMMA SumRemoves ==
    ASSUME NEW f, NEW S, IsFiniteSet(S), \A i \in S : f[i] \in Int
    PROVE  /\ SumFunctionOnSet(f, S) \in Int
           /\ \A x \in S : SumFunctionOnSet(f, S) = f[x] + SumFunctionOnSet(f, S \ {x})
<1> DEFINE sum(s) == SumFunctionOnSet(f, s)
           H == {s \in SUBSET S : sum(s) \in Int /\ \A x \in s : sum(s) = f[x] + sum(s \ {x})}
<1>1. ASSUME NEW s \in SUBSET S, \A x \in s : s \ {x} \in H
      PROVE  s \in H
  <2>1. CASE s = {}
    BY <2>1, SumEmpty
  <2>2. CASE s # {}
    <3>1. IsFiniteSet(s)
      BY FS_Subset
    <3>2. PICK c \in s : sum(s) = f[c] + sum(s \ {c})
      BY <2>2, <3>1, SumUnfolds
    <3> HIDE DEF sum
    <3>3. f[c] \in Int /\ sum(s \ {c}) \in Int
      BY <1>1
    <3>4. ASSUME NEW x \in s
          PROVE  sum(s) = f[x] + sum(s \ {x})
      <4>1. CASE x = c
        BY <3>2, <4>1
      <4>2. CASE x # c
        <5> DEFINE r == s \ {c, x}
        <5>1. x \in s \ {c} /\ c \in s \ {x} /\ (s \ {c}) \ {x} = r /\ (s \ {x}) \ {c} = r
          BY <4>2
        <5>2. sum(s \ {c}) = f[x] + sum(r) /\ sum(s \ {x}) = f[c] + sum(r)
          BY <1>1, <5>1
        <5>3. sum(r) \in Int
          BY <3>1, FS_Subset, SumType DEF sum
        <5>4. f[x] \in Int /\ f[c] \in Int
          OBVIOUS
        <5> HIDE DEF r
        <5>5. sum(s) = f[c] + (f[x] + sum(r))
          BY <3>2, <5>2
        <5> QED
          BY <5>2, <5>3, <5>4, <5>5
      <4> QED
        BY <4>1, <4>2
    <3> QED
      BY <3>2, <3>3, <3>4
  <2> QED
    BY <2>1, <2>2
<1> HIDE DEF H
<1>2. \A s \in SUBSET S : s \in H
  BY <1>1, ByShrinking
<1> QED
  BY <1>2 DEF H

LEMMA SumNatural ==
    ASSUME NEW f, NEW S, IsFiniteSet(S), \A i \in S : f[i] \in Nat
    PROVE  SumFunctionOnSet(f, S) \in Nat
<1> DEFINE H == {s \in SUBSET S : SumFunctionOnSet(f, s) \in Nat}
<1>1. ASSUME NEW s \in SUBSET S, \A x \in s : s \ {x} \in H
      PROVE  s \in H
  <2>1. CASE s = {}
    BY <2>1, SumEmpty
  <2>2. CASE s # {}
    <3>1. IsFiniteSet(s)
      BY FS_Subset
    <3>2. PICK c \in s : SumFunctionOnSet(f, s) = f[c] + SumFunctionOnSet(f, s \ {c})
      BY <2>2, <3>1, SumUnfolds
    <3> QED
      BY <1>1, <3>2
  <2> QED
    BY <2>1, <2>2
<1> HIDE DEF H
<1>2. \A s \in SUBSET S : s \in H
  BY <1>1, ByShrinking
<1> QED
  BY <1>2 DEF H

\* Terms that find room in different terms of another sum add up to no more.
LEMMA SumInjects ==
    ASSUME NEW f, NEW J, IsFiniteSet(J), \A j \in J : f[j] \in Int,
           NEW g, NEW K, IsFiniteSet(K), \A k \in K : g[k] \in Nat,
           NEW h \in [J -> K], \A i, j \in J : i # j => h[i] # h[j],
           \A j \in J : f[j] <= g[h[j]]
    PROVE  SumFunctionOnSet(f, J) <= SumFunctionOnSet(g, K)
<1> DEFINE F(s) == SumFunctionOnSet(f, s)
           G(t) == SumFunctionOnSet(g, t)
           Fits(s, t) == (\A j \in s : h[j] \in t) => F(s) <= G(t)
           H == {s \in SUBSET J : \A t \in SUBSET K : Fits(s, t)}
<1>1. \A t \in SUBSET K : /\ IsFiniteSet(t) /\ G(t) \in Nat
                          /\ \A k \in t : G(t) = g[k] + G(t \ {k})
  <2> SUFFICES ASSUME NEW t \in SUBSET K
               PROVE  /\ IsFiniteSet(t) /\ G(t) \in Nat
                      /\ \A k \in t : G(t) = g[k] + G(t \ {k})
    OBVIOUS
  <2>1. IsFiniteSet(t) /\ \A k \in t : g[k] \in Nat /\ g[k] \in Int
    BY FS_Subset
  <2> QED
    BY <2>1, SumNatural, SumRemoves
<1>2. \A s \in SUBSET J : /\ IsFiniteSet(s) /\ F(s) \in Int
                          /\ \A j \in s : F(s) = f[j] + F(s \ {j})
  <2> SUFFICES ASSUME NEW s \in SUBSET J
               PROVE  /\ IsFiniteSet(s) /\ F(s) \in Int
                      /\ \A j \in s : F(s) = f[j] + F(s \ {j})
    OBVIOUS
  <2>1. IsFiniteSet(s) /\ \A j \in s : f[j] \in Int
    BY FS_Subset
  <2> QED
    BY <2>1, SumRemoves
<1>3. F({}) = 0
  BY SumEmpty
<1> HIDE DEF F, G
<1>4. ASSUME NEW s \in SUBSET J, \A x \in s : s \ {x} \in H
      PROVE  s \in H
  <2> SUFFICES ASSUME NEW t \in SUBSET K, \A j \in s : h[j] \in t
               PROVE  F(s) <= G(t)
    OBVIOUS
  <2>1. CASE s = {}
    BY <1>1, <1>3, <2>1
  <2>2. CASE s # {}
    <3>1. PICK x \in s : TRUE
      BY <2>2
    <3>2. s \ {x} \in H /\ t \ {h[x]} \in SUBSET K /\ \A j \in s \ {x} : h[j] \in t \ {h[x]}
      BY <1>4
    <3>3. F(s \ {x}) <= G(t \ {h[x]})
      BY <3>2
    <3>4. F(s) = f[x] + F(s \ {x}) /\ G(t) = g[h[x]] + G(t \ {h[x]})
      BY <1>1, <1>2
    <3>5. /\ F(s \ {x}) \in Int /\ G(t \ {h[x]}) \in Int
          /\ f[x] \in Int /\ g[h[x]] \in Int /\ f[x] <= g[h[x]]
      BY <1>1, <1>2
    <3> QED
      BY <3>3, <3>4, <3>5
  <2> QED
    BY <2>1, <2>2
<1> HIDE DEF H
<1>5. \A s \in SUBSET J : s \in H
  BY <1>4, ByShrinking
<1>6. Fits(J, K)
  BY <1>5 DEF H
<1> QED
  BY <1>6 DEF F, G

\* Terms of zero count for nothing.
LEMMA SumOfPart ==
    ASSUME NEW f, NEW S, IsFiniteSet(S), \A i \in S : f[i] \in Int, NEW T \in SUBSET S,
           \A i \in S : i \in T \/ f[i] = 0
    PROVE  SumFunctionOnSet(f, S) = SumFunctionOnSet(f, T)
<1> DEFINE F(s) == SumFunctionOnSet(f, s)
           H == {s \in SUBSET S : F(s) = F(s \intersect T)}
<1>1. \A s \in SUBSET S : F(s) \in Int /\ \A j \in s : F(s) = f[j] + F(s \ {j})
  <2> SUFFICES ASSUME NEW s \in SUBSET S
               PROVE  F(s) \in Int /\ \A j \in s : F(s) = f[j] + F(s \ {j})
    OBVIOUS
  <2>1. IsFiniteSet(s) /\ \A j \in s : f[j] \in Int
    BY FS_Subset
  <2> QED
    BY <2>1, SumRemoves
<1> HIDE DEF F
<1>2. ASSUME NEW s \in SUBSET S, \A x \in s : s \ {x} \in H
      PROVE  s \in H
  <2>1. CASE s \subseteq T
    <3>1. s \intersect T = s
      BY <2>1
    <3> QED
      BY <3>1
  <2>2. CASE ~(s \subseteq T)
    <3>1. PICK x \in s : x \notin T
      BY <2>2
    <3>2. (s \ {x}) \intersect T = s \intersect T
      BY <3>1
    <3>3. F(s) = f[x] + F(s \ {x}) /\ f[x] = 0 /\ F(s \ {x}) \in Int
      BY <1>1, <3>1
    <3>4. F(s \ {x}) = F(s \intersect T)
      BY <1>2, <3>2
    <3> QED
      BY <3>3, <3>4
  <2> QED
    BY <2>1, <2>2
<1> HIDE DEF H
<1>3. \A s \in SUBSET S : s \in H
  BY <1>2, ByShrinking
<1>4. S \intersect T = T
  OBVIOUS
<1> QED
  BY <1>3, <1>4 DEF H, F

\* Products distribute over a sum and an element more.
LEMMA Combines ==
    ASSUME NEW a \in Int, NEW b \in Int, NEW x \in Int, NEW y \in Int,
           NEW v \in Int, NEW w \in Int
    PROVE  (a * x + b * y) + (a * v + b * w) = a * (x + v) + b * (y + w)
OBVIOUS

\* A sum of what is linear in two terms.
LEMMA SumLinear ==
    ASSUME NEW S, IsFiniteSet(S), NEW a \in Int, NEW b \in Int,
           NEW f, \A i \in S : f[i] \in Int, NEW g, \A i \in S : g[i] \in Int,
           NEW h, \A i \in S : h[i] = a * f[i] + b * g[i]
    PROVE  SumFunctionOnSet(h, S) = a * SumFunctionOnSet(f, S) + b * SumFunctionOnSet(g, S)
<1> DEFINE F(s) == SumFunctionOnSet(f, s)
           G(s) == SumFunctionOnSet(g, s)
           I(s) == SumFunctionOnSet(h, s)
           H == {s \in SUBSET S : I(s) = a * F(s) + b * G(s)}
<1>1. \A i \in S : h[i] \in Int
  OBVIOUS
<1>2. \A s \in SUBSET S : /\ F(s) \in Int /\ \A j \in s : F(s) = f[j] + F(s \ {j})
                          /\ G(s) \in Int /\ \A j \in s : G(s) = g[j] + G(s \ {j})
                          /\ I(s) \in Int /\ \A j \in s : I(s) = h[j] + I(s \ {j})
  <2> SUFFICES ASSUME NEW s \in SUBSET S
               PROVE  /\ F(s) \in Int /\ \A j \in s : F(s) = f[j] + F(s \ {j})
                      /\ G(s) \in Int /\ \A j \in s : G(s) = g[j] + G(s \ {j})
                      /\ I(s) \in Int /\ \A j \in s : I(s) = h[j] + I(s \ {j})
    OBVIOUS
  <2>1. IsFiniteSet(s) /\ \A j \in s : f[j] \in Int /\ g[j] \in Int /\ h[j] \in Int
    BY <1>1, FS_Subset
  <2> QED
    BY <2>1, SumRemoves
<1>3. F({}) = 0 /\ G({}) = 0 /\ I({}) = 0
  BY SumEmpty
<1> HIDE DEF F, G, I
<1>4. ASSUME NEW s \in SUBSET S, \A x \in s : s \ {x} \in H
      PROVE  s \in H
  <2>1. CASE s = {}
    BY <1>3, <2>1
  <2>2. CASE s # {}
    <3>1. PICK x \in s : TRUE
      BY <2>2
    <3> DEFINE r == s \ {x}
    <3>2. I(r) = a * F(r) + b * G(r) /\ r \in SUBSET S
      BY <1>4
    <3>3. F(s) = f[x] + F(r) /\ G(s) = g[x] + G(r) /\ I(s) = h[x] + I(r)
      BY <1>2
    <3>4. F(r) \in Int /\ G(r) \in Int /\ f[x] \in Int /\ g[x] \in Int
      BY <1>2, <3>2
    <3> HIDE DEF r
    <3>5. h[x] = a * f[x] + b * g[x]
      OBVIOUS
    <3>6. I(s) = (a * f[x] + b * g[x]) + (a * F(r) + b * G(r))
      BY <3>2, <3>3, <3>5
    <3>7. I(s) = a * (f[x] + F(r)) + b * (g[x] + G(r))
      BY <3>4, <3>6, Combines
    <3> QED
      BY <3>3, <3>7
  <2> QED
    BY <2>1, <2>2
<1> HIDE DEF H
<1>5. \A s \in SUBSET S : s \in H
  BY <1>4, ByShrinking
<1> QED
  BY <1>5 DEF H, F, G, I

-----------------------------------------------------------------------------
(***************************************************************************)
(* Sequences without repetitions.                                          *)
(***************************************************************************)
LEMMA ConcatInjects ==
    ASSUME NEW S, NEW a \in Seq(S), NEW b \in Seq(S), IsInjective(a), IsInjective(b),
           \A x \in ToSet(a) : x \notin ToSet(b)
    PROVE  IsInjective(a \o b)
<1> DEFINE n == Len(a)
           m == Len(b)
           c == a \o b
<1>1. /\ n \in Nat /\ m \in Nat /\ DOMAIN a = 1..n /\ DOMAIN b = 1..m
      /\ DOMAIN c = 1..(n + m)
      /\ \A i \in 1..(n + m) : c[i] = IF i <= n THEN a[i] ELSE b[i - n]
  <2>1. c \in Seq(S) /\ Len(c) = n + m /\ \A i \in 1..(n + m) : c[i] = IF i <= n THEN a[i] ELSE b[i - n]
    BY ConcatProperties
  <2> QED
    BY <2>1, LenProperties
<1> HIDE DEF n, m, c
<1>2. \A i \in 1..(n + m) : \/ i \in 1..n /\ c[i] = a[i] /\ c[i] \in ToSet(a)
                            \/ i - n \in 1..m /\ i > n /\ c[i] = b[i - n] /\ c[i] \in ToSet(b)
  <2> SUFFICES ASSUME NEW i \in 1..(n + m)
               PROVE  \/ i \in 1..n /\ c[i] = a[i] /\ c[i] \in ToSet(a)
                      \/ i - n \in 1..m /\ i > n /\ c[i] = b[i - n] /\ c[i] \in ToSet(b)
    OBVIOUS
  <2>1. i \in 1..n \/ (i - n \in 1..m /\ i > n)
    BY <1>1
  <2>2. ASSUME i \in 1..n
        PROVE  c[i] = a[i] /\ c[i] \in ToSet(a)
    BY <1>1, <2>2 DEF ToSet
  <2>3. ASSUME i - n \in 1..m, i > n
        PROVE  c[i] = b[i - n] /\ c[i] \in ToSet(b)
    <3>1. c[i] = b[i - n]
      BY <1>1, <2>3
    <3> QED
      BY <1>1, <2>3, <3>1 DEF ToSet
  <2> QED
    BY <2>1, <2>2, <2>3
<1>3. ASSUME NEW i \in 1..(n + m), NEW j \in 1..(n + m), c[i] = c[j]
      PROVE  i = j
  <2>1. CASE i \in 1..n /\ j \in 1..n /\ c[i] = a[i] /\ c[j] = a[j]
    BY <1>1, <1>3, <2>1 DEF IsInjective
  <2>2. CASE i - n \in 1..m /\ j - n \in 1..m /\ c[i] = b[i - n] /\ c[j] = b[j - n]
    <3>1. i - n = j - n
      BY <1>1, <1>3, <2>2 DEF IsInjective
    <3> QED
      BY <1>1, <3>1
  <2> QED
    BY <1>2, <1>3, <2>1, <2>2
<1>4. IsInjective(c)
  BY <1>1, <1>3 DEF IsInjective
<1> QED
  BY <1>4 DEF c

LEMMA ConcatElements ==
    ASSUME NEW S, NEW a \in Seq(S), NEW b \in Seq(S)
    PROVE  \A x \in ToSet(a \o b) : x \in ToSet(a) \/ x \in ToSet(b)
<1>1. /\ Len(a) \in Nat /\ Len(b) \in Nat /\ DOMAIN a = 1..Len(a) /\ DOMAIN b = 1..Len(b)
      /\ DOMAIN (a \o b) = 1..(Len(a) + Len(b))
      /\ \A i \in 1..(Len(a) + Len(b)) : (a \o b)[i] = IF i <= Len(a) THEN a[i] ELSE b[i - Len(a)]
  <2>1. /\ a \o b \in Seq(S) /\ Len(a \o b) = Len(a) + Len(b)
        /\ \A i \in 1..(Len(a) + Len(b)) : (a \o b)[i] = IF i <= Len(a) THEN a[i] ELSE b[i - Len(a)]
    BY ConcatProperties
  <2> QED
    BY <2>1, LenProperties
<1> SUFFICES ASSUME NEW i \in 1..(Len(a) + Len(b))
             PROVE  (a \o b)[i] \in ToSet(a) \/ (a \o b)[i] \in ToSet(b)
  BY <1>1 DEF ToSet
<1>2. i \in 1..Len(a) \/ (i - Len(a) \in 1..Len(b) /\ ~(i <= Len(a)))
  BY <1>1
<1> QED
  BY <1>1, <1>2 DEF ToSet

\* Sequences without repetitions, of which no two share an element, make one.
LEMMA FlattenInjects ==
    ASSUME NEW S, NEW ss \in Seq(Seq(S)),
           \A i \in DOMAIN ss : IsInjective(ss[i]),
           \A i, j \in DOMAIN ss : i # j => \A x \in ToSet(ss[i]) : x \notin ToSet(ss[j])
    PROVE  /\ IsInjective(FlattenSeq(ss))
           /\ \A x \in ToSet(FlattenSeq(ss)) : \E i \in DOMAIN ss : x \in ToSet(ss[i])
<1> DEFINE Apart(q) == /\ \A i \in DOMAIN q : IsInjective(q[i])
                       /\ \A i, j \in DOMAIN q : i # j => \A x \in ToSet(q[i]) : x \notin ToSet(q[j])
           Covers(q) == \A x \in ToSet(FlattenSeq(q)) : \E i \in DOMAIN q : x \in ToSet(q[i])
           H == {q \in Seq(Seq(S)) : Covers(q) /\ (Apart(q) => IsInjective(FlattenSeq(q)))}
<1>1. <<>> \in H
  <2>1. <<>> \in Seq(Seq(S)) /\ FlattenSeq(<<>>) = <<>> /\ DOMAIN <<>> = {}
    BY EmptySeq, FlattenEmpty
  <2> QED
    BY <2>1 DEF IsInjective, ToSet
<1>2. ASSUME NEW q \in Seq(Seq(S)), NEW t \in Seq(S), q \in H
      PROVE  Append(q, t) \in H
  <2> DEFINE r == Append(q, t)
             n == Len(q)
             f == FlattenSeq(q)
  <2>1. /\ n \in Nat /\ r \in Seq(Seq(S)) /\ Len(r) = n + 1
        /\ \A i \in 1..n : r[i] = q[i]
        /\ r[n + 1] = t
    BY AppendIs
  <2>2. DOMAIN q = 1..n /\ DOMAIN r = 1..(n + 1)
    BY <2>1, LenProperties
  <2>3. FlattenSeq(r) = f \o t /\ f \in Seq(S)
    BY FlattenAppend, FlattenType
  <2>4. Covers(q) /\ (Apart(q) => IsInjective(f))
    BY <1>2
  <2> HIDE DEF r, n, f
  <2>5. \A i \in 1..n : i \in 1..(n + 1) /\ i # n + 1
    BY <2>1
  <2>6. n + 1 \in 1..(n + 1)
    BY <2>1
  <2>7. Covers(r)
    <3> SUFFICES ASSUME NEW x \in ToSet(f \o t)
                 PROVE  \E i \in DOMAIN r : x \in ToSet(r[i])
      BY <2>3
    <3>1. x \in ToSet(f) \/ x \in ToSet(t)
      BY <2>3, ConcatElements
    <3>2. CASE x \in ToSet(f)
      <4>1. PICK i \in DOMAIN q : x \in ToSet(q[i])
        BY <2>4, <3>2 DEF f
      <4> QED
        BY <2>1, <2>2, <2>5, <4>1
    <3> QED
      BY <2>1, <2>2, <2>6, <3>1, <3>2
  <2>8. ASSUME Apart(r)
        PROVE  IsInjective(f \o t)
    <3>1. Apart(q)
      BY <2>1, <2>2, <2>5, <2>8
    <3>2. IsInjective(f) /\ IsInjective(t)
      BY <2>1, <2>2, <2>4, <2>6, <2>8, <3>1
    <3>3. \A x \in ToSet(f) : x \notin ToSet(t)
      <4> SUFFICES ASSUME NEW x \in ToSet(f)
                   PROVE  x \notin ToSet(t)
        OBVIOUS
      <4>1. PICK i \in DOMAIN q : x \in ToSet(q[i])
        BY <2>4 DEF f
      <4> QED
        BY <2>1, <2>2, <2>5, <2>6, <2>8, <4>1
    <3> QED
      BY <2>3, <3>2, <3>3, ConcatInjects
  <2>9. r \in H
    BY <2>1, <2>3, <2>7, <2>8
  <2> QED
    BY <2>9 DEF r
<1> HIDE DEF H
<1>3. \A q \in Seq(Seq(S)) : q \in H
  BY <1>1, <1>2, BySeqInduction
<1>4. ss \in H
  BY <1>3
<1> QED
  BY <1>4 DEF H

LEMMA SumOfNothing ==
    ASSUME NEW f, NEW S, IsFiniteSet(S), \A i \in S : f[i] = 0
    PROVE  SumFunctionOnSet(f, S) = 0
<1>1. SumFunctionOnSet(f, S) = SumFunctionOnSet(f, {})
  <2>1. {} \in SUBSET S /\ \A i \in S : f[i] \in Int /\ (i \in {} \/ f[i] = 0)
    OBVIOUS
  <2> QED
    BY <2>1, SumOfPart
<1> QED
  BY <1>1, SumEmpty
===============================================================================
