---------------------------- MODULE EncodingsProofs ----------------------------
(***************************************************************************)
(* For any values within the readers' limits, any limits and any byte that *)
(* is changed, cut off or added: what is written is what is read, a        *)
(* damaged file is refused, the decoders of payloads pass over nothing,    *)
(* and a container by another hand is accepted if and only if it is in     *)
(* order.                                                                  *)
(*                                                                         *)
(* The codec's loops are recursive functions.  What holds after each of    *)
(* their rounds is shown by Upward: a set of round numbers that has 0 and, *)
(* with each number, the next has them all.                                *)
(***************************************************************************)
EXTENDS Encodings, FramedTransportProofs, NaturalsInduction, WellFoundedInduction

\* What holds at the start of a loop and is kept by each round holds after
\* every round: in place of an induction, there is no least counterexample.
LEMMA Upward ==
  ASSUME NEW n \in Nat, NEW S, 0 \in S, \A i \in 0..(n - 1) : i \in S => i + 1 \in S
  PROVE  0..n \subseteq S
<1> DEFINE R == OpToRel(<, Nat)
           Bad == {i \in 0..n : i \notin S}
<1>1. SUFFICES ASSUME Bad # {} PROVE FALSE
  OBVIOUS
<1>2. IsWellFoundedOn(R, Nat)
  BY NatLessThanWellFounded
<1>3. Bad \in SUBSET Nat
  OBVIOUS
<1> HIDE DEF R, Bad
<1>4. PICK x \in Bad : \A y \in Bad : ~ (<<y, x>> \in R)
  BY <1>1, <1>2, <1>3, WFMin
<1>5. \A y \in Bad : ~ (y < x)
  BY <1>3, <1>4 DEF R, OpToRel
<1> USE DEF Bad
<1>6. x \in 1..n /\ x - 1 \in 0..(n - 1) /\ (x - 1) + 1 = x /\ x - 1 < x
  OBVIOUS
<1>7. x - 1 \notin Bad
  BY <1>5, <1>6
<1>8. QED
  BY <1>6, <1>7

-----------------------------------------------------------------------------
(* Sequences *)

LEMMA FirstOnes ==
  ASSUME NEW S, NEW s \in Seq(S), NEW i \in 0..Len(s)
  PROVE  /\ SubSeq(s, 1, i) \in Seq(S) /\ Len(SubSeq(s, 1, i)) = i
         /\ \A j \in 1..i : SubSeq(s, 1, i)[j] = s[j]
         /\ i > 0 => SubSeq(s, 1, i) = Append(SubSeq(s, 1, i - 1), s[i])
         /\ i > 0 => s[i] \in S
         /\ SubSeq(s, 1, Len(s)) = s
         /\ SubSeq(s, 1, 0) = <<>>
<1>1. Len(s) \in Nat /\ i \in Nat /\ i <= Len(s)
  BY LenProperties
<1>2. /\ SubSeq(s, 1, i) \in Seq(S)
      /\ Len(SubSeq(s, 1, i)) = (IF 1 <= i THEN i - 1 + 1 ELSE 0)
      /\ \A j \in 1..(i - 1 + 1) : SubSeq(s, 1, i)[j] = s[1 + j - 1]
  BY <1>1, PartIsSeq
<1>3. Len(SubSeq(s, 1, i)) = i /\ \A j \in 1..i : SubSeq(s, 1, i)[j] = s[j]
  BY <1>1, <1>2
<1>4. ASSUME i > 0 PROVE SubSeq(s, 1, i) = Append(SubSeq(s, 1, i - 1), s[i]) /\ s[i] \in S
  <2>1. i \in 1..Len(s) /\ 1 \in 1..Len(s) /\ i - 1 \in 0..Len(s) /\ i - 1 \in Nat /\ i - 1 <= Len(s)
    BY <1>1, <1>4
  <2>2. s[i] \in S
    BY <2>1, ElementOfSeq
  <2>3. SubSeq(s, 1, i) = SubSeq(s, 1, i - 1) \o <<s[i]>>
    BY <2>1, SubSeqRecursiveSecond
  <2>4. SubSeq(s, 1, i - 1) \in Seq(S)
    BY <2>1, PartIsSeq
  <2>5. Append(SubSeq(s, 1, i - 1), s[i]) = SubSeq(s, 1, i - 1) \o <<s[i]>>
    BY <2>2, <2>4, AppendIsConcat
  <2>6. QED
    BY <2>2, <2>3, <2>5
<1>5. QED
  BY <1>2, <1>3, <1>4, SubSeqFull, SubSeqEmpty

\* One piece after another: f[i] is what the first i of them make.
IsGluing(f, ps) ==
  /\ f = [i \in 0..Len(ps) |-> f[i]] /\ f[0] = <<>>
  /\ \A i \in 1..Len(ps) : f[i] = f[i - 1] \o ps[i]

LEMMA Gluings ==
  ASSUME NEW S, NEW ps \in Seq(Seq(S))
  PROVE  \E f : IsGluing(f, ps)
<1> DEFINE n == Len(ps)
           Up(f, m) == f = [i \in 0..m |-> f[i]] /\ f[0] = <<>> /\ \A i \in 1..m : f[i] = f[i - 1] \o ps[i]
           G == {m \in 0..n : \E f : Up(f, m)}
<1>1. n \in Nat
  BY LenProperties
<1> HIDE DEF n
<1>2. 0 \in G
  <2> DEFINE f == [i \in 0..0 |-> <<>>]
  <2>1. Up(f, 0)
    OBVIOUS
  <2> HIDE DEF f, Up
  <2>2. QED
    BY <1>1, <2>1
<1>3. ASSUME NEW m \in 0..(n - 1), m \in G PROVE m + 1 \in G
  <2>1. PICK f : Up(f, m)
    BY <1>3
  <2> DEFINE g == [i \in 0..(m + 1) |-> IF i <= m THEN f[i] ELSE f[m] \o ps[m + 1]]
  <2>2. g[0] = <<>> /\ g = [i \in 0..(m + 1) |-> g[i]]
    BY <1>1, <2>1
  <2>3. ASSUME NEW i \in 1..(m + 1) PROVE g[i] = g[i - 1] \o ps[i]
    <3>1. CASE i \in 1..m
      <4>1. g[i] = f[i] /\ g[i - 1] = f[i - 1]
        BY <1>1, <3>1
      <4>2. f[i] = f[i - 1] \o ps[i]
        BY <2>1, <3>1
      <4>3. QED
        BY <4>1, <4>2
    <3>2. CASE i = m + 1
      <4>1. m \in Nat
        BY <1>1
      <4>2. i \in 0..(m + 1) /\ i - 1 \in 0..(m + 1) /\ ~(i <= m) /\ i - 1 <= m /\ i - 1 = m
        BY <3>2, <4>1
      <4>3. g[i] = f[m] \o ps[m + 1] /\ g[i - 1] = f[m]
        BY <4>2
      <4>4. QED
        BY <3>2, <4>3
    <3>3. i \in 1..m \/ i = m + 1
      BY <1>1
    <3> HIDE DEF g
    <3>4. QED
      BY <3>1, <3>2, <3>3
  <2> HIDE DEF g
  <2>4. m + 1 \in 0..n
    BY <1>1
  <2>5. QED
    BY <2>2, <2>3, <2>4
<1> HIDE DEF G
<1>4. n \in G
  BY <1>1, <1>2, <1>3, Upward
<1>5. QED
  BY <1>4 DEF IsGluing, G, n

\* Two gluings agree as far as their pieces do.
LEMMA OneGluing ==
  ASSUME NEW S, NEW ps \in Seq(Seq(S)), NEW qs \in Seq(Seq(S)), NEW f, NEW g, NEW n \in Nat,
         IsGluing(f, ps), IsGluing(g, qs), n <= Len(ps), n <= Len(qs), \A i \in 1..n : ps[i] = qs[i]
  PROVE  f[n] = g[n]
<1> DEFINE Same == {i \in 0..n : f[i] = g[i]}
<1>1. 0 \in Same
  BY DEF IsGluing
<1>2. ASSUME NEW i \in 0..(n - 1), i \in Same PROVE i + 1 \in Same
  <2> DEFINE j == i + 1
  <2>1. j \in 1..n /\ j \in 1..Len(ps) /\ j \in 1..Len(qs) /\ j - 1 = i /\ j \in 0..n
    BY LenProperties
  <2> HIDE DEF j
  <2>2. f[j] = f[j - 1] \o ps[j] /\ g[j] = g[j - 1] \o qs[j] /\ ps[j] = qs[j]
    BY <2>1 DEF IsGluing
  <2>3. j \in Same
    BY <1>2, <2>1, <2>2
  <2>4. QED
    BY <2>3 DEF j
<1> HIDE DEF Same
<1>3. 0..n \subseteq Same
  BY <1>1, <1>2, Upward
<1>4. QED
  BY <1>3 DEF Same

LEMMA GluingIsSeq ==
  ASSUME NEW S, NEW ps \in Seq(Seq(S)), NEW f, IsGluing(f, ps), NEW n \in 0..Len(ps)
  PROVE  f[n] \in Seq(S)
<1> DEFINE Good == {i \in 0..Len(ps) : f[i] \in Seq(S)}
<1>1. Len(ps) \in Nat
  BY LenProperties
<1>2. 0 \in Good
  <2>1. 0 \in 0..Len(ps) /\ <<>> \in Seq(S)
    BY <1>1, EmptySeq
  <2>2. f[0] = <<>>
    BY DEF IsGluing
  <2>3. QED
    BY <2>1, <2>2
<1>3. ASSUME NEW i \in 0..(Len(ps) - 1), i \in Good PROVE i + 1 \in Good
  <2>1. i + 1 \in 1..Len(ps) /\ (i + 1) - 1 = i /\ i + 1 \in 0..Len(ps)
    BY <1>1
  <2>2. ps[i + 1] \in Seq(S)
    BY <2>1, ElementOfSeq
  <2>3. f[i + 1] = f[i] \o ps[i + 1]
    BY <2>1 DEF IsGluing
  <2>4. QED
    BY <1>3, <2>1, <2>2, <2>3, ConcatProperties
<1> HIDE DEF Good
<1>4. n \in Good
  BY <1>1, <1>2, <1>3, Upward
<1>5. QED
  BY <1>4 DEF Good

\* FlattenSeq, a recursive function over the whole sequence of pieces, is the
\* gluing of the pieces one after another.
LEMMA Glued ==
  ASSUME NEW S, NEW ps \in Seq(Seq(S)), NEW f, IsGluing(f, ps)
  PROVE  FlattenSeq(ps) = f[Len(ps)]
<1> DEFINE n == Len(ps)
           T(h) == h = [i \in 1..n |-> IF i = 1 THEN ps[i] ELSE h[i - 1] \o ps[i]]
<1>1. n \in Nat
  BY LenProperties
<1>2. CASE n = 0
  <2>1. ps = <<>>
    BY <1>2, SeqEqual, EmptySeq
  <2>2. QED
    BY <1>2, <2>1 DEF FlattenSeq, IsGluing
<1>3. CASE n > 0
  <2> DEFINE e == [i \in 1..n |-> f[i]]
             h == CHOOSE h : T(h)
  <2>1. T(e)
    <3>1. ASSUME NEW i \in 1..n PROVE e[i] = IF i = 1 THEN ps[i] ELSE e[i - 1] \o ps[i]
      <4>1. CASE i = 1
        <5>1. ps[1] \in Seq(S)
          BY <1>1, <1>3, ElementOfSeq
        <5>2. f[1] = <<>> \o ps[1]
          <6>1. 1 \in 1..Len(ps) /\ 1 - 1 = 0
            BY <1>1, <1>3
          <6>2. f[1] = f[0] \o ps[1]
            BY <6>1 DEF IsGluing
          <6>3. QED
            BY <6>2 DEF IsGluing
        <5>3. QED
          BY <4>1, <5>1, <5>2, ConcatEmptySeq
      <4>2. CASE i # 1
        <5>1. i - 1 \in 1..n
          BY <1>1, <4>2
        <5>2. QED
          BY <4>2, <5>1 DEF IsGluing
      <4>3. QED
        BY <4>1, <4>2
    <3>2. QED
      BY <3>1
  <2>2. T(h)
    BY <2>1
  <2>3. FlattenSeq(ps) = h[n]
    BY <1>1, <1>3 DEF FlattenSeq
  <2> HIDE DEF h
  <2> DEFINE Same == {i \in 0..n : i > 0 => h[i] = e[i]}
  <2>4. 0 \in Same
    BY <1>1
  <2>5. ASSUME NEW i \in 0..(n - 1), i \in Same PROVE i + 1 \in Same
    <3> HIDE DEF e, T
    <3>1. i + 1 \in 1..n /\ (i + 1) - 1 = i /\ i + 1 \in 0..n
      BY <1>1
    <3>2. h[i + 1] = IF i + 1 = 1 THEN ps[i + 1] ELSE h[i] \o ps[i + 1]
      BY <2>2, <3>1 DEF T
    <3>3. e[i + 1] = IF i + 1 = 1 THEN ps[i + 1] ELSE e[i] \o ps[i + 1]
      BY <2>1, <3>1 DEF T
    <3>4. QED
      BY <2>5, <3>1, <3>2, <3>3
  <2> HIDE DEF Same
  <2>6. 0..n \subseteq Same
    BY <1>1, <2>4, <2>5, Upward
  <2>7. n \in 0..n /\ n > 0 /\ n \in 1..n
    BY <1>1, <1>3
  <2> HIDE DEF e, n
  <2>8. h[n] = e[n]
    BY <2>6, <2>7 DEF Same
  <2>9. e[n] = f[n]
    BY <2>7 DEF e
  <2>10. QED
    BY <2>3, <2>8, <2>9 DEF n
<1>4. QED
  BY <1>1, <1>2, <1>3

\* What the first i pieces make.
Glue(ps, i) == FlattenSeq(SubSeq(ps, 1, i))

LEMMA GlueIs ==
  ASSUME NEW S, NEW ps \in Seq(Seq(S)), NEW f, IsGluing(f, ps), NEW i \in 0..Len(ps)
  PROVE  Glue(ps, i) = f[i]
<1> DEFINE qs == SubSeq(ps, 1, i)
<1>1. qs \in Seq(Seq(S)) /\ Len(qs) = i /\ \A j \in 1..i : qs[j] = ps[j]
  BY FirstOnes
<1>2. i \in Nat /\ i <= Len(ps)
  BY LenProperties
<1> HIDE DEF qs
<1>3. PICK g : IsGluing(g, qs)
  BY <1>1, Gluings
<1>4. FlattenSeq(qs) = g[i]
  BY <1>1, <1>3, Glued
<1>5. /\ qs \in Seq(Seq(S)) /\ i \in Nat /\ i <= Len(qs) /\ i <= Len(ps) /\ IsGluing(f, ps) /\ IsGluing(g, qs)
      /\ \A j \in 1..i : ps[j] = qs[j]
  BY <1>1, <1>2, <1>3
<1>6. f[i] = g[i]
  BY ONLY <1>5, ps \in Seq(Seq(S)), OneGluing
<1>7. QED
  BY <1>4, <1>6 DEF Glue, qs

\* A gluing grows by a piece at a time.
LEMMA GlueSteps ==
  ASSUME NEW S, NEW ps \in Seq(Seq(S))
  PROVE  /\ Glue(ps, 0) = <<>> /\ Glue(ps, Len(ps)) = FlattenSeq(ps)
         /\ \A i \in 0..Len(ps) : Glue(ps, i) \in Seq(S)
         /\ \A i \in 1..Len(ps) : Glue(ps, i) = Glue(ps, i - 1) \o ps[i]
<1>1. PICK f : IsGluing(f, ps)
  BY Gluings
<1>2. Len(ps) \in Nat
  BY LenProperties
<1>3. \A i \in 0..Len(ps) : Glue(ps, i) = f[i] /\ f[i] \in Seq(S)
  BY <1>1, GlueIs, GluingIsSeq
<1>4. \A i \in 1..Len(ps) : i \in 0..Len(ps) /\ i - 1 \in 0..Len(ps)
  BY <1>2
<1>5. \A i \in 1..Len(ps) : f[i] = f[i - 1] \o ps[i]
  BY <1>1 DEF IsGluing
<1>6. \A i \in 1..Len(ps) : Glue(ps, i) = Glue(ps, i - 1) \o ps[i]
  BY <1>3, <1>4, <1>5
<1>7. f[0] = <<>> /\ 0 \in 0..Len(ps) /\ Len(ps) \in 0..Len(ps)
  BY <1>1, <1>2 DEF IsGluing
<1>8. FlattenSeq(ps) = f[Len(ps)]
  BY <1>1, Glued
<1>9. QED
  BY <1>3, <1>6, <1>7, <1>8

LEMMA FlattenIsSeq ==
  ASSUME NEW S, NEW ps \in Seq(Seq(S))
  PROVE  FlattenSeq(ps) \in Seq(S)
<1>1. Len(ps) \in 0..Len(ps)
  BY LenProperties
<1>2. QED
  BY <1>1, GlueSteps

LEMMA FlattenAppend ==
  ASSUME NEW S, NEW ps \in Seq(Seq(S)), NEW p \in Seq(S)
  PROVE  FlattenSeq(Append(ps, p)) = FlattenSeq(ps) \o p
<1> DEFINE qs == Append(ps, p)
           n == Len(ps)
<1>1. /\ qs \in Seq(Seq(S)) /\ Len(qs) = n + 1 /\ qs[n + 1] = p
      /\ \A i \in 1..n : qs[i] = ps[i]
  BY AppendProperties
<1>2. n \in Nat
  BY LenProperties
<1> HIDE DEF qs
<1>3. SubSeq(qs, 1, n) = ps
  <2>1. n \in 0..Len(qs)
    BY <1>1, <1>2
  <2>2. SubSeq(qs, 1, n) \in Seq(Seq(S)) /\ Len(SubSeq(qs, 1, n)) = n /\ \A i \in 1..n : SubSeq(qs, 1, n)[i] = qs[i]
    BY <1>1, <2>1, FirstOnes
  <2>3. QED
    BY <1>1, <2>2, SeqEqual
<1>4. n + 1 \in 1..Len(qs) /\ (n + 1) - 1 = n
  BY <1>1, <1>2
<1>5. Glue(qs, n + 1) = Glue(qs, (n + 1) - 1) \o qs[n + 1]
  BY <1>1, <1>4, GlueSteps
<1>6. Glue(qs, n + 1) = FlattenSeq(qs)
  BY <1>1, GlueSteps
<1>7. Glue(qs, n) = FlattenSeq(ps)
  BY <1>3 DEF Glue
<1>8. QED
  BY <1>1, <1>4, <1>5, <1>6, <1>7 DEF qs

LEMMA FlattenNone == FlattenSeq(<<>>) = <<>>
BY DEF FlattenSeq

-----------------------------------------------------------------------------
(* A piece of a sequence *)

\* s has p after its first a elements.
Lies(s, a, p) == a + Len(p) <= Len(s) /\ Has(s, a, Len(p), p)

LEMMA LiesJoined ==
  ASSUME NEW S, NEW b \in Seq(S), NEW s \in Seq(S), NEW t \in Seq(S), NEW a \in Nat
  PROVE  /\ s \o t \in Seq(S) /\ Len(s \o t) = Len(s) + Len(t)
         /\ Lies(b, a, s \o t) <=> Lies(b, a, s) /\ Lies(b, a + Len(s), t)
<1> DEFINE m == Len(s)
           n == Len(t)
           u == s \o t
<1>1. m \in Nat /\ n \in Nat /\ Len(b) \in Nat
  BY LenProperties
<1>2. u \in Seq(S) /\ Len(u) = m + n /\ Has(u, 0, m, s) /\ Has(u, m, n, t)
  BY Joined DEF IsJoin
<1> HIDE DEF m, n, u
<1>3. ASSUME Lies(b, a, u) PROVE Lies(b, a, s) /\ Lies(b, a + m, t)
  <2>1. a + (m + n) <= Len(b) /\ Has(b, a, m + n, u)
    BY <1>2, <1>3 DEF Lies
  <2>2. Has(b, a + 0, m, s) /\ Has(b, a + m, n, t)
    <3>1. 0 + m <= m + n /\ m + n <= m + n /\ m + n \in Nat /\ 0 \in Nat
      BY <1>1
    <3>2. Has(b, a + 0, m, s)
      BY <1>1, <1>2, <2>1, <3>1, HasInside
    <3>3. Has(b, a + m, n, t)
      BY <1>1, <1>2, <2>1, <3>1, HasInside
    <3>4. QED
      BY <3>2, <3>3
  <2>3. a + 0 = a /\ a + m <= Len(b) /\ (a + m) + n <= Len(b)
    BY <1>1, <2>1
  <2>4. QED
    BY <2>2, <2>3 DEF Lies, m, n
<1>4. ASSUME Lies(b, a, s), Lies(b, a + m, t) PROVE Lies(b, a, u)
  <2>1. /\ a + m <= Len(b) /\ (\A i \in 1..m : b[a + i] = s[i])
        /\ (a + m) + n <= Len(b) /\ (\A i \in 1..n : b[(a + m) + i] = t[i])
    BY <1>4 DEF Lies, Has, m, n
  <2>2. (\A i \in 1..m : u[0 + i] = s[i]) /\ \A i \in 1..n : u[m + i] = t[i]
    BY <1>2 DEF Has
  <2>3. ASSUME NEW i \in 1..(m + n) PROVE b[a + i] = u[i]
    <3>1. CASE i <= m
      <4>1. i \in 1..m /\ 0 + i = i
        BY <1>1, <3>1
      <4>2. QED
        BY <2>1, <2>2, <4>1
    <3>2. CASE ~(i <= m)
      <4> DEFINE j == i - m
      <4>1. j \in 1..n /\ (a + m) + j = a + i /\ m + j = i
        BY <1>1, <3>2
      <4> HIDE DEF j
      <4>2. b[(a + m) + j] = t[j] /\ u[m + j] = t[j]
        BY <2>1, <2>2, <4>1
      <4>3. QED
        BY <4>1, <4>2
    <3>3. QED
      BY <3>1, <3>2
  <2>4. a + (m + n) <= Len(b)
    BY <1>1, <2>1
  <2>5. QED
    BY <1>2, <2>3, <2>4 DEF Lies, Has
<1>5. QED
  BY <1>2, <1>3, <1>4 DEF m, n, u

LEMMA LiesPiece ==
  ASSUME NEW S, NEW b \in Seq(S), NEW p \in Seq(S), NEW a \in Nat, Lies(b, a, p)
  PROVE  SubSeq(b, a + 1, a + Len(p)) = p
<1>1. Len(p) \in Nat /\ a + Len(p) <= Len(b) /\ Has(b, a, Len(p), p)
  BY LenProperties DEF Lies
<1>2. QED
  BY <1>1, PartIs

LEMMA PieceLies ==
  ASSUME NEW S, NEW b \in Seq(S), NEW a \in Nat, NEW n \in Nat, a + n <= Len(b)
  PROVE  /\ SubSeq(b, a + 1, a + n) \in Seq(S) /\ Len(SubSeq(b, a + 1, a + n)) = n
         /\ Lies(b, a, SubSeq(b, a + 1, a + n))
         /\ \A i \in 1..n : SubSeq(b, a + 1, a + n)[i] = b[a + i]
<1> DEFINE p == SubSeq(b, a + 1, a + n)
<1>1. /\ p \in Seq(S) /\ Len(p) = IF a + 1 <= a + n THEN (a + n) - (a + 1) + 1 ELSE 0
      /\ \A i \in 1..((a + n) - (a + 1) + 1) : p[i] = b[(a + 1) + i - 1]
  <2>1. a + 1 \in Nat \ {0} /\ a + n \in Nat
    OBVIOUS
  <2>2. QED
    BY <2>1, PartIsSeq
<1> HIDE DEF p
<1>2. Len(p) = n /\ \A i \in 1..n : p[i] = b[a + i]
  BY <1>1
<1>3. QED
  BY <1>1, <1>2 DEF Lies, Has, p

LEMMA LiesWhole ==
  ASSUME NEW S, NEW b \in Seq(S)
  PROVE  Lies(b, 0, b)
<1>1. Len(b) \in Nat
  BY LenProperties
<1>2. QED
  BY <1>1 DEF Lies, Has

LEMMA LiesIs ==
  ASSUME NEW S, NEW b \in Seq(S), NEW p \in Seq(S), Lies(b, 0, p), Len(p) = Len(b)
  PROVE  p = b
<1>1. Len(b) \in Nat
  BY LenProperties
<1>2. \A i \in 1..Len(b) : b[i] = p[i]
  BY <1>1 DEF Lies, Has
<1>3. QED
  BY <1>2, SeqEqual

\* Where the pieces of a gluing lie.
LEMMA PiecesLie ==
  ASSUME NEW S, NEW ps \in Seq(Seq(S)), NEW b \in Seq(S), NEW a \in Nat, Lies(b, a, FlattenSeq(ps)),
         NEW i \in 1..Len(ps)
  PROVE  /\ Lies(b, a, Glue(ps, i)) /\ Lies(b, a + Len(Glue(ps, i - 1)), ps[i])
         /\ Len(Glue(ps, i)) = Len(Glue(ps, i - 1)) + Len(ps[i])
         /\ Len(Glue(ps, i - 1)) \in Nat /\ ps[i] \in Seq(S) /\ Len(ps[i]) \in Nat
<1> DEFINE n == Len(ps)
           Good == {k \in 0..n : Lies(b, a, Glue(ps, n - k))}
<1>1. n \in Nat /\ i \in 1..n
  BY LenProperties
<1> HIDE DEF n
<1>2. ASSUME NEW j \in 1..n
      PROVE  /\ Glue(ps, j - 1) \in Seq(S) /\ ps[j] \in Seq(S)
             /\ Glue(ps, j) = Glue(ps, j - 1) \o ps[j]
  <2>1. j \in 1..Len(ps) /\ j - 1 \in 0..Len(ps)
    BY <1>1 DEF n
  <2>2. QED
    BY <2>1, GlueSteps, ElementOfSeq
<1>3. 0 \in Good
  <2>1. Glue(ps, n) = FlattenSeq(ps)
    BY GlueSteps DEF n
  <2>2. n - 0 = n /\ 0 \in 0..n
    BY <1>1
  <2>3. QED
    BY <2>1, <2>2
<1>4. ASSUME NEW k \in 0..(n - 1), k \in Good PROVE k + 1 \in Good
  <2> DEFINE j == n - k
  <2>1. j \in 1..n /\ n - (k + 1) = j - 1 /\ k + 1 \in 0..n
    BY <1>1
  <2>2. Lies(b, a, Glue(ps, j))
    BY <1>4
  <2> HIDE DEF j
  <2>3. Lies(b, a, Glue(ps, j - 1) \o ps[j])
    BY <1>2, <2>1, <2>2
  <2>4. Lies(b, a, Glue(ps, j - 1))
    BY <1>2, <2>1, <2>3, LiesJoined
  <2>5. QED
    BY <2>1, <2>4
<1> HIDE DEF Good
<1>5. 0..n \subseteq Good
  BY <1>1, <1>3, <1>4, Upward
<1>6. Lies(b, a, Glue(ps, i))
  <2>1. n - i \in 0..n /\ n - (n - i) = i
    BY <1>1
  <2>2. QED
    BY <1>5, <2>1 DEF Good
<1>7. /\ Lies(b, a + Len(Glue(ps, i - 1)), ps[i])
      /\ Len(Glue(ps, i)) = Len(Glue(ps, i - 1)) + Len(ps[i])
  <2>1. Glue(ps, i) = Glue(ps, i - 1) \o ps[i] /\ Glue(ps, i - 1) \in Seq(S) /\ ps[i] \in Seq(S)
    BY <1>1, <1>2
  <2>2. Lies(b, a, Glue(ps, i - 1) \o ps[i])
    BY <1>6, <2>1
  <2>3. QED
    BY <2>1, <2>2, LiesJoined
<1>8. Len(Glue(ps, i - 1)) \in Nat /\ ps[i] \in Seq(S) /\ Len(ps[i]) \in Nat
  BY <1>1, <1>2, LenProperties
<1>9. QED
  BY <1>6, <1>7, <1>8

-----------------------------------------------------------------------------
(* Digits *)

LEMMA LowByte ==
  ASSUME NEW d \in Byte, NEW q \in Nat
  PROVE  (d + 256 * q) % 256 = d /\ (d + 256 * q) \div 256 = q
BY DEF Byte

LEMMA SizeIsNat ==
  ASSUME NEW d \in Seq(Byte)
  PROVE  Size(d) \in Nat /\ Size(d) <= Beyond
<1>1. \A i \in 1..4 : Digit(d, i) \in Byte
  <2>1. ASSUME NEW i \in 1..4 PROVE Digit(d, i) \in Byte
    <3>1. CASE i <= Len(d)
      <4>1. i \in 1..Len(d)
        BY <3>1, LenProperties
      <4>2. QED
        BY <3>1, <4>1, ElementOfSeq DEF Digit
    <3>2. CASE ~(i <= Len(d))
      BY <3>2 DEF Digit, Byte
    <3>3. QED
      BY <3>1, <3>2
  <2>2. QED
    BY <2>1
<1>2. Digit(d, 1) \in 0..255 /\ Digit(d, 2) \in 0..255 /\ Digit(d, 3) \in 0..255 /\ Digit(d, 4) \in 0..255
  BY <1>1 DEF Byte
<1>3. CASE Digit(d, 4) >= 64 \/ \E i \in 5..Len(d) : d[i] # 0
  BY <1>3 DEF Size, Beyond
<1>4. CASE ~(Digit(d, 4) >= 64 \/ \E i \in 5..Len(d) : d[i] # 0)
  <2>1. Size(d) = Digit(d, 1) + 256 * Digit(d, 2) + 65536 * (Digit(d, 3) + 256 * Digit(d, 4))
    BY <1>4 DEF Size
  <2>2. ~(Digit(d, 4) >= 64)
    BY <1>4
  <2> DEFINE p == Digit(d, 1)
             q == Digit(d, 2)
             r == Digit(d, 3)
             s == Digit(d, 4)
             n == Size(d)
  <2>3. n = p + 256 * q + 65536 * (r + 256 * s) /\ p \in 0..255 /\ q \in 0..255 /\ r \in 0..255 /\ s \in 0..255 /\ ~(s >= 64)
    BY <1>2, <2>1, <2>2
  <2> HIDE DEF p, q, r, s, n
  <2>4. n \in Nat /\ n <= 1073741824
    BY ONLY <2>3
  <2>5. QED
    BY <2>4 DEF n, Beyond
<1>5. QED
  BY <1>3, <1>4

\* What four bytes say, written again, is the four bytes.
LEMMA DigitsOfSize ==
  ASSUME NEW d \in Seq(Byte), Len(d) = 4, Size(d) < Beyond
  PROVE  Digits(Size(d), 4) = d
<1> DEFINE n == Size(d)
           q1 == d[2] + 256 * (d[3] + 256 * d[4])
           q2 == d[3] + 256 * d[4]
<1>1. d[1] \in Byte /\ d[2] \in Byte /\ d[3] \in Byte /\ d[4] \in Byte
  <2>1. 1 \in 1..Len(d) /\ 2 \in 1..Len(d) /\ 3 \in 1..Len(d) /\ 4 \in 1..Len(d)
    OBVIOUS
  <2>2. \A i \in 1..Len(d) : d[i] \in Byte
    BY ElementOfSeq
  <2>3. QED
    BY ONLY <2>1, <2>2
<1>2. /\ Digit(d, 1) = d[1] /\ Digit(d, 2) = d[2] /\ Digit(d, 3) = d[3] /\ Digit(d, 4) = d[4]
      /\ 5..Len(d) = {}
  BY DEF Digit
<1>3. n = IF d[4] >= 64 THEN Beyond ELSE d[1] + 256 * d[2] + 65536 * (d[3] + 256 * d[4])
  BY <1>2 DEF Size
<1>4. n = d[1] + 256 * d[2] + 65536 * (d[3] + 256 * d[4])
  <2>1. n # Beyond
    BY DEF Beyond
  <2>2. QED
    BY <1>3, <2>1
<1>5. d[4] \in Nat /\ q2 \in Nat /\ q1 \in Nat /\ n = d[1] + 256 * q1 /\ q1 = d[2] + 256 * q2
  <2>1. \A x \in Byte : x \in Nat
    BY DEF Byte
  <2>2. d[1] \in Nat /\ d[2] \in Nat /\ d[3] \in Nat /\ d[4] \in Nat
    BY ONLY <1>1, <2>1, Zenon
  <2> DEFINE p == d[1]
             q == d[2]
             r == d[3]
             s == d[4]
  <2>3. q1 = q + 256 * q2 /\ q2 = r + 256 * s /\ n = p + 256 * q + 65536 * q2
    BY ONLY <1>4 DEF q1, q2, n
  <2>4. p \in Nat /\ q \in Nat /\ r \in Nat /\ s \in Nat
    BY <2>2
  <2> HIDE DEF p, q, r, s, n, q1, q2
  <2>5. s \in Nat /\ q2 \in Nat /\ q1 \in Nat /\ n = p + 256 * q1 /\ q1 = q + 256 * q2
    BY ONLY <2>3, <2>4
  <2>6. QED
    BY <2>5 DEF p, q, r, s, n
<1>6. n % 256 = d[1] /\ n \div 256 = q1
  BY <1>1, <1>5, LowByte
<1>7. q1 % 256 = d[2] /\ q1 \div 256 = q2
  BY <1>1, <1>5, LowByte
<1>8. q2 % 256 = d[3] /\ q2 \div 256 = d[4]
  BY <1>1, <1>5, LowByte
<1>9. d[4] % 256 = d[4]
  <2>1. \A x \in Byte : x % 256 = x
    BY DEF Byte
  <2>2. QED
    BY ONLY <1>1, <2>1, Zenon
<1>10. n \in Nat
  BY SizeIsNat
<1> HIDE DEF n, q1, q2
<1>11. n \div 65536 = q2 /\ n \div 16777216 = d[4]
  <2>1. n \div 65536 = (n \div 256) \div 256
    BY ONLY <1>10
  <2>2. n \div 16777216 = (n \div 65536) \div 256
    BY ONLY <1>10
  <2>3. QED
    BY <1>6, <1>7, <1>8, <2>1, <2>2
<1>12. /\ Digits(n, 4) \in Seq(Byte) /\ Len(Digits(n, 4)) = 4
  BY <1>10, DigitsAreBytes
<1>13. /\ Digits(n, 4)[1] = n % 256 /\ Digits(n, 4)[2] = (n \div 256) % 256
       /\ Digits(n, 4)[3] = (n \div 65536) % 256 /\ Digits(n, 4)[4] = (n \div 16777216) % 256
  <2>1. n \div 1 = n
    BY ONLY <1>10
  <2>2. QED
    BY <2>1 DEF Digits, Place
<1>14. \A i \in 1..4 : Digits(n, 4)[i] = d[i]
  <2>1. Digits(n, 4)[1] = d[1]
    BY ONLY <1>6, <1>13
  <2>2. Digits(n, 4)[2] = d[2]
    BY ONLY <1>6, <1>7, <1>13
  <2>3. Digits(n, 4)[3] = d[3]
    BY ONLY <1>8, <1>11, <1>13
  <2>4. Digits(n, 4)[4] = d[4]
    BY ONLY <1>9, <1>11, <1>13
  <2>5. QED
    BY ONLY <2>1, <2>2, <2>3, <2>4
<1>15. Digits(n, 4) = d
  BY <1>12, <1>14, SeqEqual
<1>16. QED
  BY <1>15 DEF n

\* Eight bytes say no more than four.
LEMMA EightDigits ==
  ASSUME NEW n \in Nat, Fits(n)
  PROVE  Size(Digits(n, 8)) = IF n < Beyond THEN n ELSE Beyond
<1> DEFINE d == Digits(n, 4)
           e == Digits(n, 8)
<1>1. Size(d) = IF n < Beyond THEN n ELSE Beyond
  BY FourDigits
<1>2. Len(d) = 4 /\ Len(e) = 8
  BY DigitsAreBytes
<1>3. (\A i \in 5..8 : e[i] = 0) /\ \A i \in 1..4 : e[i] = d[i]
  BY DEF Digits
<1> HIDE DEF d, e
<1>4. ~ (\E i \in 5..Len(e) : e[i] # 0) /\ ~ (\E i \in 5..Len(d) : d[i] # 0)
  BY <1>2, <1>3
<1>5. \A i \in 1..4 : Digit(e, i) = Digit(d, i)
  BY <1>2, <1>3 DEF Digit
<1>6. Digit(e, 1) = Digit(d, 1) /\ Digit(e, 2) = Digit(d, 2) /\ Digit(e, 3) = Digit(d, 3) /\ Digit(e, 4) = Digit(d, 4)
  BY <1>5
<1>7. Size(e) = Size(d)
  BY <1>4, <1>6 DEF Size
<1>8. QED
  BY <1>1, <1>7 DEF e

\* Digits that were read are written again as they are.
LEMMA DigitsAgain ==
  ASSUME NEW d \in Seq(Byte), NEW w \in Nat, Len(d) = w
  PROVE  [j \in 1..w |-> Digit(d, j)] = d
<1>1. \A j \in 1..w : Digit(d, j) = d[j]
  BY DEF Digit
<1>2. d = [j \in 1..w |-> d[j]]
  BY LenProperties
<1>3. QED
  BY <1>1, <1>2

-----------------------------------------------------------------------------
(* The fields of the readers' layouts, and their values *)

\* Fields whose value says which bytes were read; with them, a flag; and those
\* that stand in a layout itself only.
Exact ==
  [kind : {"number"}, width : Nat] \cup {Checked} \cup [kind : {"enum"}, bound : Nat] \cup
  [kind : {"text"}, limit : 0..(Beyond - 1)]
Plain == Exact \cup {Flag}
Returning == [kind : {"return"}, bound : Nat]
Forgettable == [kind : {"forgotten"}, bound : Nat]
Lone == Returning \cup Forgettable

Simple(L) == L \cup [kind : {"maybe"}, of : L]
Fields(L) ==
  Simple(L) \cup [kind : {"optional"}, of : Seq(Simple(L))] \cup
  [kind : {"many"}, limit : 0..(Beyond - 1), of : Seq(Simple(L))]

Layouts == Seq(Fields(Plain) \cup Lone)

SimpleValues == Seq(Byte) \cup Seq(Seq(Byte))
PartValues == Seq(SimpleValues)
FieldValues == SimpleValues \cup Seq(PartValues)

LEMMA PlainKinds ==
  ASSUME NEW f \in Plain \cup Lone
  PROVE  /\ f.kind \in {"number", "checked", "enum", "return", "text", "flag", "forgotten"}
         /\ f.kind = "forgotten" <=> f \in Forgettable
         /\ f.kind = "return" <=> f \in Returning
         /\ Width(f) \in Nat /\ (f.kind \notin {"number", "checked"} => Width(f) = 1)
         /\ f.kind = "text" => f.limit \in 0..(Beyond - 1)
         /\ f \in Exact <=> f.kind \notin {"flag", "forgotten", "return"}
<1>1. CASE f \in [kind : {"number"}, width : Nat]
  <2>1. f.kind = "number" /\ f.width \in Nat
    BY <1>1
  <2>2. QED
    BY <1>1, <2>1 DEF Width, Exact, Forgettable, Returning
<1>2. CASE f = Checked
  BY <1>2 DEF Width, Exact, Forgettable, Returning, Checked
<1>3. CASE f \in [kind : {"enum"}, bound : Nat]
  BY <1>3 DEF Width, Exact, Forgettable, Returning
<1>4. CASE f \in [kind : {"text"}, limit : 0..(Beyond - 1)]
  BY <1>4 DEF Width, Exact, Forgettable, Returning
<1>5. CASE f = Flag
  BY <1>5 DEF Width, Exact, Forgettable, Returning, Flag, Checked
<1>6. CASE f \in Forgettable
  BY <1>6 DEF Width, Exact, Forgettable, Returning, Checked
<1>7. CASE f \in Returning
  BY <1>7 DEF Width, Exact, Forgettable, Returning, Checked
<1>8. QED
  BY <1>1, <1>2, <1>3, <1>4, <1>5, <1>6, <1>7 DEF Plain, Exact, Lone

LEMMA FieldKinds ==
  ASSUME NEW L, L \subseteq Plain, NEW f \in Fields(L) \cup Lone
  PROVE  \/ f \in L \/ f \in Lone
         \/ f.kind = "maybe" /\ f.of \in L /\ f \in Simple(L)
         \/ f.kind = "optional" /\ f.of \in Seq(Simple(L))
         \/ f.kind = "many" /\ f.of \in Seq(Simple(L)) /\ f.limit \in 0..(Beyond - 1)
BY DEF Fields, Simple

LEMMA BelowBeyond == Beyond \in Nat /\ Beyond > 0 /\ \A n \in Nat : n < Beyond => Fits(n)
BY SMT DEF Beyond, Fits

LEMMA PlainBytes ==
  ASSUME NEW f \in Plain \cup Lone, NEW v, PlainValue(f, v)
  PROVE  /\ v \in Seq(Byte) /\ PlainEncoded(f, v) \in Seq(Byte)
         /\ f.kind # "text" => PlainEncoded(f, v) = v /\ Len(v) = Width(f)
         /\ f.kind = "text" => /\ PlainEncoded(f, v) = Digits(Len(v), 4) \o v /\ Len(v) \in Nat
                               /\ Len(v) <= f.limit /\ f.limit \in Nat /\ f.limit < Beyond /\ Len(v) < Beyond
                               /\ Fits(Len(v))
<1>1. v \in Seq(Byte) /\ Len(v) \in Nat
  BY LenProperties DEF PlainValue
<1>2. CASE f.kind = "text"
  <2>1. Digits(Len(v), 4) \in Seq(Byte)
    BY <1>1, DigitsAreBytes
  <2>2. PlainEncoded(f, v) = Digits(Len(v), 4) \o v
    BY <1>2 DEF PlainEncoded
  <2>3. Len(v) <= f.limit /\ f.limit \in 0..(Beyond - 1)
    BY <1>2, PlainKinds DEF PlainValue
  <2>4. f.limit \in Nat /\ f.limit < Beyond /\ Len(v) < Beyond
    BY <1>1, <2>3, BelowBeyond
  <2>5. Fits(Len(v))
    BY <1>1, <2>4, BelowBeyond
  <2>6. QED
    BY <1>1, <1>2, <2>1, <2>2, <2>3, <2>4, <2>5, ConcatProperties
<1>3. CASE f.kind # "text"
  <2>1. Len(v) = Width(f) /\ Width(f) \in Nat
    BY <1>3, PlainKinds DEF PlainValue
  <2>2. PlainEncoded(f, v) = v
    BY <1>1, <1>3, <2>1, DigitsAgain DEF PlainEncoded
  <2>3. QED
    BY <1>1, <1>3, <2>1, <2>2
<1>4. QED
  BY <1>2, <1>3

LEMMA OneOf ==
  ASSUME NEW S, NEW v, v = <<v[1]>>, v[1] \in S
  PROVE  v \in Seq(S) /\ Len(v) = 1 /\ v # <<>>
<1>1. \A x \in S : <<x>> \in Seq(S) /\ Len(<<x>>) = 1 /\ <<x>> # <<>>
  OBVIOUS
<1>2. QED
  BY <1>1, Zenon

LEMMA OneByte == ASSUME NEW n \in Byte PROVE <<n>> \in Seq(Byte) /\ Len(<<n>>) = 1
OBVIOUS

LEMMA SimpleBytes ==
  ASSUME NEW f \in Simple(Plain), NEW v, SimpleValue(f, v)
  PROVE  v \in SimpleValues /\ SimpleEncoded(f, v) \in Seq(Byte)
<1>1. 0 \in Byte /\ 1 \in Byte
  BY DEF Byte
<1>2. CASE f \in Plain
  <2>1. f.kind # "maybe"
    BY <1>2, PlainKinds
  <2>2. QED
    BY <1>2, <2>1, PlainBytes DEF SimpleValue, SimpleEncoded, SimpleValues
<1>3. CASE f.kind = "maybe" /\ f.of \in Plain
  <2>1. CASE v = <<>>
    BY <1>1, <1>3, <2>1, OneByte DEF SimpleEncoded, SimpleValues
  <2>2. CASE v = <<v[1]>> /\ PlainValue(f.of, v[1])
    <3>1. v[1] \in Seq(Byte) /\ PlainEncoded(f.of, v[1]) \in Seq(Byte)
      BY <1>3, <2>2, PlainBytes
    <3>2. v \in Seq(Seq(Byte)) /\ v # <<>>
      BY <2>2, <3>1, OneOf
    <3>3. SimpleEncoded(f, v) = <<1>> \o PlainEncoded(f.of, v[1])
      BY <1>3, <3>2 DEF SimpleEncoded
    <3>4. QED
      BY <1>1, <3>1, <3>2, <3>3, OneByte, ConcatProperties DEF SimpleValues
  <2>3. QED
    BY <1>3, <2>1, <2>2 DEF SimpleValue
<1>4. QED
  BY <1>2, <1>3 DEF Simple

\* The pieces of a part.
PartPieces(part, value) == [i \in DOMAIN part |-> SimpleEncoded(part[i], value[i])]

LEMMA PartBytes ==
  ASSUME NEW part \in Seq(Simple(Plain)), NEW value, PartValue(part, value)
  PROVE  /\ value \in PartValues /\ Len(value) = Len(part)
         /\ PartPieces(part, value) \in Seq(Seq(Byte)) /\ Len(PartPieces(part, value)) = Len(part)
         /\ \A i \in 1..Len(part) : PartPieces(part, value)[i] = SimpleEncoded(part[i], value[i])
         /\ PartEncoded(part, value) = FlattenSeq(PartPieces(part, value))
         /\ PartEncoded(part, value) \in Seq(Byte)
<1>1. DOMAIN part = 1..Len(part) /\ Len(part) \in Nat
  BY LenProperties
<1>2. \A i \in 1..Len(part) : part[i] \in Simple(Plain)
  BY ElementOfSeq
<1>3. \A i \in 1..Len(part) : value[i] \in SimpleValues /\ SimpleEncoded(part[i], value[i]) \in Seq(Byte)
  BY <1>1, <1>2, SimpleBytes DEF PartValue
<1>4. value = [i \in 1..Len(part) |-> value[i]]
  BY <1>1 DEF PartValue
<1>5. value \in Seq(SimpleValues) /\ Len(value) = Len(part)
  <2> DEFINE w == [i \in 1..Len(part) |-> value[i]]
  <2>1. w \in Seq(SimpleValues) /\ Len(w) = Len(part)
    BY <1>1, <1>3, IsASeq
  <2>2. QED
    BY <1>4, <2>1
<1>6. /\ PartPieces(part, value) \in Seq(Seq(Byte)) /\ Len(PartPieces(part, value)) = Len(part)
      /\ \A i \in 1..Len(part) : PartPieces(part, value)[i] = SimpleEncoded(part[i], value[i])
  <2> DEFINE w == [i \in 1..Len(part) |-> SimpleEncoded(part[i], value[i])]
  <2>1. w \in Seq(Seq(Byte)) /\ Len(w) = Len(part)
    BY <1>1, <1>3, IsASeq
  <2>2. PartPieces(part, value) = w
    BY <1>1 DEF PartPieces
  <2>3. QED
    BY <2>1, <2>2
<1>7. PartEncoded(part, value) = FlattenSeq(PartPieces(part, value))
  BY DEF PartEncoded, PartPieces
<1>8. PartEncoded(part, value) \in Seq(Byte)
  BY <1>6, <1>7, FlattenIsSeq
<1>9. QED
  BY <1>5, <1>6, <1>7, <1>8 DEF PartValues

\* The items of a list.
ItemPieces(part, v) == [i \in DOMAIN v |-> PartEncoded(part, v[i])]

LEMMA ItemsBytes ==
  ASSUME NEW f, f.of \in Seq(Simple(Plain)), f.limit \in 0..(Beyond - 1), NEW v, ItemsValue(f, v)
  PROVE  /\ v \in Seq(PartValues) /\ Len(v) \in Nat /\ Len(v) <= f.limit /\ f.limit \in Nat /\ Len(v) < Beyond
         /\ Digits(Len(v), 4) \in Seq(Byte) /\ Len(Digits(Len(v), 4)) = 4 /\ Size(Digits(Len(v), 4)) = Len(v)
         /\ ItemPieces(f.of, v) \in Seq(Seq(Byte)) /\ Len(ItemPieces(f.of, v)) = Len(v)
         /\ \A i \in 1..Len(v) : ItemPieces(f.of, v)[i] = PartEncoded(f.of, v[i])
         /\ FlattenSeq(ItemPieces(f.of, v)) \in Seq(Byte)
<1> DEFINE n == Len(v)
<1>1. n \in Nat /\ n <= f.limit /\ f.limit \in Nat /\ n < Beyond /\ Fits(n)
  <2>1. n \in 0..f.limit
    BY DEF ItemsValue
  <2>2. QED
    BY <2>1, BelowBeyond
<1>2. v = [i \in 1..n |-> v[i]] /\ \A i \in 1..n : PartValue(f.of, v[i])
  BY DEF ItemsValue
<1> HIDE DEF n
<1>3. \A i \in 1..n : v[i] \in PartValues /\ PartEncoded(f.of, v[i]) \in Seq(Byte)
  BY <1>2, PartBytes
<1>4. v \in Seq(PartValues)
  <2> DEFINE w == [i \in 1..n |-> v[i]]
  <2>1. w \in Seq(PartValues)
    BY <1>1, <1>3, IsASeq
  <2>2. QED
    BY <1>2, <2>1
<1>5. /\ ItemPieces(f.of, v) \in Seq(Seq(Byte)) /\ Len(ItemPieces(f.of, v)) = n
      /\ \A i \in 1..n : ItemPieces(f.of, v)[i] = PartEncoded(f.of, v[i])
  <2> DEFINE w == [i \in 1..n |-> PartEncoded(f.of, v[i])]
  <2>1. w \in Seq(Seq(Byte)) /\ Len(w) = n
    BY <1>1, <1>3, IsASeq
  <2>2. DOMAIN v = 1..n
    BY <1>2
  <2>3. ItemPieces(f.of, v) = w
    BY <2>2 DEF ItemPieces
  <2>4. QED
    BY <2>1, <2>3
<1>6. FlattenSeq(ItemPieces(f.of, v)) \in Seq(Byte)
  BY <1>5, FlattenIsSeq
<1>7. Digits(n, 4) \in Seq(Byte) /\ Len(Digits(n, 4)) = 4 /\ Size(Digits(n, 4)) = n
  BY <1>1, DigitsAreBytes, FourDigits
<1>8. QED
  BY <1>1, <1>4, <1>5, <1>6, <1>7 DEF n

LEMMA FieldBytes ==
  ASSUME NEW f \in Fields(Plain) \cup Lone, NEW v, FieldValue(f, v)
  PROVE  v \in FieldValues /\ FieldEncoded(f, v) \in Seq(Byte)
<1>1. 0 \in Byte /\ 1 \in Byte
  BY DEF Byte
<1>2. CASE f \in Plain \cup Lone
  <2>1. f.kind \notin {"maybe", "optional", "many"}
    BY <1>2, PlainKinds
  <2>2. PlainValue(f, v) /\ FieldEncoded(f, v) = PlainEncoded(f, v)
    BY <2>1 DEF FieldValue, SimpleValue, FieldEncoded, SimpleEncoded
  <2>3. QED
    BY <1>2, <2>2, PlainBytes DEF FieldValues, SimpleValues
<1>3. CASE f.kind = "maybe" /\ f \in Simple(Plain)
  <2>1. SimpleValue(f, v) /\ FieldEncoded(f, v) = SimpleEncoded(f, v)
    BY <1>3 DEF FieldValue, FieldEncoded
  <2>2. QED
    BY <1>3, <2>1, SimpleBytes DEF FieldValues
<1>4. CASE f.kind = "optional" /\ f.of \in Seq(Simple(Plain))
  <2>1. CASE v = <<>>
    BY <1>1, <1>4, <2>1, OneByte DEF FieldEncoded, FieldValues
  <2>2. CASE v = <<v[1]>> /\ PartValue(f.of, v[1])
    <3>1. v[1] \in PartValues /\ PartEncoded(f.of, v[1]) \in Seq(Byte)
      BY <1>4, <2>2, PartBytes
    <3>2. v \in Seq(PartValues) /\ v # <<>>
      BY <2>2, <3>1, OneOf
    <3>3. FieldEncoded(f, v) = <<1>> \o PartEncoded(f.of, v[1])
      BY <1>4, <3>2 DEF FieldEncoded
    <3>4. QED
      BY <1>1, <3>1, <3>2, <3>3, OneByte, ConcatProperties DEF FieldValues
  <2>3. QED
    BY <1>4, <2>1, <2>2 DEF FieldValue
<1>5. CASE f.kind = "many" /\ f.of \in Seq(Simple(Plain)) /\ f.limit \in 0..(Beyond - 1)
  <2>1. ItemsValue(f, v) /\ FieldEncoded(f, v) = Digits(Len(v), 4) \o FlattenSeq(ItemPieces(f.of, v))
    BY <1>5 DEF FieldValue, FieldEncoded, ItemPieces
  <2>2. QED
    BY <1>5, <2>1, ItemsBytes, ConcatProperties DEF FieldValues
<1>6. QED
  BY <1>2, <1>3, <1>4, <1>5, FieldKinds

FieldPieces(layout, value) == [i \in DOMAIN layout |-> FieldEncoded(layout[i], value[i])]

LEMMA LayoutBytes ==
  ASSUME NEW layout \in Layouts, NEW value, IsValue(layout, value)
  PROVE  /\ value \in Seq(FieldValues) /\ Len(value) = Len(layout)
         /\ FieldPieces(layout, value) \in Seq(Seq(Byte)) /\ Len(FieldPieces(layout, value)) = Len(layout)
         /\ \A i \in 1..Len(layout) : FieldPieces(layout, value)[i] = FieldEncoded(layout[i], value[i])
         /\ Encoded(layout, value) = FlattenSeq(FieldPieces(layout, value))
         /\ Encoded(layout, value) \in Seq(Byte)
<1>1. DOMAIN layout = 1..Len(layout) /\ Len(layout) \in Nat
  BY LenProperties DEF Layouts
<1>2. \A i \in 1..Len(layout) : layout[i] \in Fields(Plain) \cup Lone
  BY ElementOfSeq DEF Layouts
<1>3. \A i \in 1..Len(layout) : value[i] \in FieldValues /\ FieldEncoded(layout[i], value[i]) \in Seq(Byte)
  BY <1>1, <1>2, FieldBytes DEF IsValue
<1>4. value = [i \in 1..Len(layout) |-> value[i]]
  BY <1>1 DEF IsValue
<1>5. value \in Seq(FieldValues) /\ Len(value) = Len(layout)
  <2> DEFINE w == [i \in 1..Len(layout) |-> value[i]]
  <2>1. w \in Seq(FieldValues) /\ Len(w) = Len(layout)
    BY <1>1, <1>3, IsASeq
  <2>2. QED
    BY <1>4, <2>1
<1>6. /\ FieldPieces(layout, value) \in Seq(Seq(Byte)) /\ Len(FieldPieces(layout, value)) = Len(layout)
      /\ \A i \in 1..Len(layout) : FieldPieces(layout, value)[i] = FieldEncoded(layout[i], value[i])
  <2> DEFINE w == [i \in 1..Len(layout) |-> FieldEncoded(layout[i], value[i])]
  <2>1. w \in Seq(Seq(Byte)) /\ Len(w) = Len(layout)
    BY <1>1, <1>3, IsASeq
  <2>2. FieldPieces(layout, value) = w
    BY <1>1 DEF FieldPieces
  <2>3. QED
    BY <2>1, <2>2
<1>7. Encoded(layout, value) = FlattenSeq(FieldPieces(layout, value))
  BY DEF Encoded, FieldPieces
<1>8. Encoded(layout, value) \in Seq(Byte)
  BY <1>6, <1>7, FlattenIsSeq
<1>9. QED
  BY <1>5, <1>6, <1>7, <1>8

-----------------------------------------------------------------------------
(* What writers write is what readers' layouts describe *)

\* The fields f and g are written alike, and g is one of F.
Pair(F, f, g) ==
  /\ g \in F /\ (f.kind \in {"optional", "many"} <=> g.kind \in {"optional", "many"})
  /\ \A v : FieldEncoded(f, v) = FieldEncoded(g, v)

Alike(F, l, m) ==
  /\ (\E S : l \in Seq(S)) /\ m \in Seq(F) /\ Len(l) = Len(m)
  /\ \A i \in 1..Len(m) : Pair(F, l[i], m[i])

LEMMA AlikeJoined ==
  ASSUME NEW F, NEW k, NEW l, NEW m, NEW n, Alike(F, k, l), Alike(F, m, n)
  PROVE  Alike(F, k \o m, l \o n)
<1>1. PICK S : k \in Seq(S)
  BY DEF Alike
<1>2. PICK T : m \in Seq(T)
  BY DEF Alike
<1> DEFINE U == S \cup T
           a == Len(l)
           b == Len(n)
<1>3. k \in Seq(U) /\ m \in Seq(U) /\ l \in Seq(F) /\ n \in Seq(F) /\ Len(k) = a /\ Len(m) = b
  BY <1>1, <1>2, SeqMonotonic DEF Alike
<1>4. a \in Nat /\ b \in Nat
  BY <1>3, LenProperties
<1>5. \A i \in 1..a : Pair(F, k[i], l[i])
  BY DEF Alike
<1>6. \A i \in 1..b : Pair(F, m[i], n[i])
  BY DEF Alike
<1> HIDE DEF U, a, b
<1>7. /\ k \o m \in Seq(U) /\ Len(k \o m) = a + b
      /\ \A i \in 1..(a + b) : (k \o m)[i] = IF i <= a THEN k[i] ELSE m[i - a]
  BY <1>3, ConcatProperties
<1>8. /\ l \o n \in Seq(F) /\ Len(l \o n) = a + b
      /\ \A i \in 1..(a + b) : (l \o n)[i] = IF i <= a THEN l[i] ELSE n[i - a]
  BY <1>3, ConcatProperties DEF a, b
<1>9. ASSUME NEW i \in 1..(a + b) PROVE Pair(F, (k \o m)[i], (l \o n)[i])
  <2>1. CASE i <= a
    <3>1. i \in 1..a
      BY <1>4, <2>1
    <3>2. QED
      BY <1>5, <1>7, <1>8, <2>1, <3>1
  <2>2. CASE ~(i <= a)
    <3>1. i - a \in 1..b
      BY <1>4, <2>2
    <3>2. QED
      BY <1>6, <1>7, <1>8, <2>2, <3>1
  <2>3. QED
    BY <2>1, <2>2
<1>10. QED
  BY <1>7, <1>8, <1>9 DEF Alike

LEMMA AlikeFunctions ==
  ASSUME NEW F, NEW n \in Nat, NEW l, NEW m, l = [i \in 1..n |-> l[i]], m = [i \in 1..n |-> m[i]],
         \A i \in 1..n : Pair(F, l[i], m[i])
  PROVE  Alike(F, l, m)
<1> DEFINE S == {l[i] : i \in 1..n}
           a == [i \in 1..n |-> l[i]]
           b == [i \in 1..n |-> m[i]]
<1>1. a \in Seq(S) /\ Len(a) = n
  BY IsASeq
<1>2. \A i \in 1..n : m[i] \in F
  BY DEF Pair
<1>3. b \in Seq(F) /\ Len(b) = n
  BY <1>2, IsASeq
<1>4. l \in Seq(S) /\ Len(l) = n /\ m \in Seq(F) /\ Len(m) = n
  BY <1>1, <1>3
<1>5. QED
  BY <1>4 DEF Alike

LEMMA AlikeTimes ==
  ASSUME NEW F, NEW n \in Nat, NEW f, NEW g, Pair(F, f, g)
  PROVE  Alike(F, Times(n, f), Times(n, g))
BY AlikeFunctions DEF Times

LEMMA AlikeAlternating ==
  ASSUME NEW F, NEW n \in Nat, NEW f, NEW g, NEW h, NEW k, Pair(F, f, h), Pair(F, g, k)
  PROVE  Alike(F, Alternating(n, f, g), Alternating(n, h, k))
<1>1. 2 * n \in Nat
  OBVIOUS
<1>2. QED
  BY <1>1, AlikeFunctions DEF Alternating

LEMMA AlikeOne ==
  ASSUME NEW F,
         NEW f1, NEW g1, Pair(F, f1, g1)
  PROVE  Alike(F, <<f1>>, <<g1>>)
<1> DEFINE l == <<f1>>
           m == <<g1>>
<1>1. l \in Seq({f1}) /\ Len(l) = 1
  OBVIOUS
<1>2. g1 \in F
  BY DEF Pair
<1>3. m \in Seq(F) /\ Len(m) = 1
  BY <1>2
<1>4. \A i \in 1..1 : Pair(F, l[i], m[i])
  OBVIOUS
<1> HIDE DEF l, m
<1>5. Alike(F, l, m)
  BY <1>1, <1>3, <1>4 DEF Alike
<1>6. QED
  BY <1>5 DEF l, m

LEMMA AlikeTwo ==
  ASSUME NEW F,
         NEW f1, NEW g1, Pair(F, f1, g1),
         NEW f2, NEW g2, Pair(F, f2, g2)
  PROVE  Alike(F, <<f1, f2>>, <<g1, g2>>)
<1> DEFINE l == <<f1, f2>>
           m == <<g1, g2>>
<1>1. l \in Seq({f1, f2}) /\ Len(l) = 2
  OBVIOUS
<1>2. g1 \in F /\ g2 \in F
  BY DEF Pair
<1>3. m \in Seq(F) /\ Len(m) = 2
  BY <1>2
<1>4. \A i \in 1..2 : Pair(F, l[i], m[i])
  OBVIOUS
<1> HIDE DEF l, m
<1>5. Alike(F, l, m)
  BY <1>1, <1>3, <1>4 DEF Alike
<1>6. QED
  BY <1>5 DEF l, m

LEMMA AlikeThree ==
  ASSUME NEW F,
         NEW f1, NEW g1, Pair(F, f1, g1),
         NEW f2, NEW g2, Pair(F, f2, g2),
         NEW f3, NEW g3, Pair(F, f3, g3)
  PROVE  Alike(F, <<f1, f2, f3>>, <<g1, g2, g3>>)
<1> DEFINE l == <<f1, f2, f3>>
           m == <<g1, g2, g3>>
<1>1. l \in Seq({f1, f2, f3}) /\ Len(l) = 3
  OBVIOUS
<1>2. g1 \in F /\ g2 \in F /\ g3 \in F
  BY DEF Pair
<1>3. m \in Seq(F) /\ Len(m) = 3
  BY <1>2
<1>4. \A i \in 1..3 : Pair(F, l[i], m[i])
  OBVIOUS
<1> HIDE DEF l, m
<1>5. Alike(F, l, m)
  BY <1>1, <1>3, <1>4 DEF Alike
<1>6. QED
  BY <1>5 DEF l, m

LEMMA AlikeFour ==
  ASSUME NEW F,
         NEW f1, NEW g1, Pair(F, f1, g1),
         NEW f2, NEW g2, Pair(F, f2, g2),
         NEW f3, NEW g3, Pair(F, f3, g3),
         NEW f4, NEW g4, Pair(F, f4, g4)
  PROVE  Alike(F, <<f1, f2, f3, f4>>, <<g1, g2, g3, g4>>)
<1> DEFINE l == <<f1, f2, f3, f4>>
           m == <<g1, g2, g3, g4>>
<1>1. l \in Seq({f1, f2, f3, f4}) /\ Len(l) = 4
  OBVIOUS
<1>2. g1 \in F /\ g2 \in F /\ g3 \in F /\ g4 \in F
  BY DEF Pair
<1>3. m \in Seq(F) /\ Len(m) = 4
  BY <1>2
<1>4. \A i \in 1..4 : Pair(F, l[i], m[i])
  OBVIOUS
<1> HIDE DEF l, m
<1>5. Alike(F, l, m)
  BY <1>1, <1>3, <1>4 DEF Alike
<1>6. QED
  BY <1>5 DEF l, m

LEMMA AlikeFive ==
  ASSUME NEW F,
         NEW f1, NEW g1, Pair(F, f1, g1),
         NEW f2, NEW g2, Pair(F, f2, g2),
         NEW f3, NEW g3, Pair(F, f3, g3),
         NEW f4, NEW g4, Pair(F, f4, g4),
         NEW f5, NEW g5, Pair(F, f5, g5)
  PROVE  Alike(F, <<f1, f2, f3, f4, f5>>, <<g1, g2, g3, g4, g5>>)
<1> DEFINE l == <<f1, f2, f3, f4, f5>>
           m == <<g1, g2, g3, g4, g5>>
<1>1. l \in Seq({f1, f2, f3, f4, f5}) /\ Len(l) = 5
  OBVIOUS
<1>2. g1 \in F /\ g2 \in F /\ g3 \in F /\ g4 \in F /\ g5 \in F
  BY DEF Pair
<1>3. m \in Seq(F) /\ Len(m) = 5
  BY <1>2
<1>4. \A i \in 1..5 : Pair(F, l[i], m[i])
  OBVIOUS
<1> HIDE DEF l, m
<1>5. Alike(F, l, m)
  BY <1>1, <1>3, <1>4 DEF Alike
<1>6. QED
  BY <1>5 DEF l, m

LEMMA AlikeSix ==
  ASSUME NEW F,
         NEW f1, NEW g1, Pair(F, f1, g1),
         NEW f2, NEW g2, Pair(F, f2, g2),
         NEW f3, NEW g3, Pair(F, f3, g3),
         NEW f4, NEW g4, Pair(F, f4, g4),
         NEW f5, NEW g5, Pair(F, f5, g5),
         NEW f6, NEW g6, Pair(F, f6, g6)
  PROVE  Alike(F, <<f1, f2, f3, f4, f5, f6>>, <<g1, g2, g3, g4, g5, g6>>)
<1> DEFINE l == <<f1, f2, f3, f4, f5, f6>>
           m == <<g1, g2, g3, g4, g5, g6>>
<1>1. l \in Seq({f1, f2, f3, f4, f5, f6}) /\ Len(l) = 6
  OBVIOUS
<1>2. g1 \in F /\ g2 \in F /\ g3 \in F /\ g4 \in F /\ g5 \in F /\ g6 \in F
  BY DEF Pair
<1>3. m \in Seq(F) /\ Len(m) = 6
  BY <1>2
<1>4. \A i \in 1..6 : Pair(F, l[i], m[i])
  OBVIOUS
<1> HIDE DEF l, m
<1>5. Alike(F, l, m)
  BY <1>1, <1>3, <1>4 DEF Alike
<1>6. QED
  BY <1>5 DEF l, m

LEMMA AlikeSeven ==
  ASSUME NEW F,
         NEW f1, NEW g1, Pair(F, f1, g1),
         NEW f2, NEW g2, Pair(F, f2, g2),
         NEW f3, NEW g3, Pair(F, f3, g3),
         NEW f4, NEW g4, Pair(F, f4, g4),
         NEW f5, NEW g5, Pair(F, f5, g5),
         NEW f6, NEW g6, Pair(F, f6, g6),
         NEW f7, NEW g7, Pair(F, f7, g7)
  PROVE  Alike(F, <<f1, f2, f3, f4, f5, f6, f7>>, <<g1, g2, g3, g4, g5, g6, g7>>)
<1> DEFINE l == <<f1, f2, f3, f4, f5, f6, f7>>
           m == <<g1, g2, g3, g4, g5, g6, g7>>
<1>1. l \in Seq({f1, f2, f3, f4, f5, f6, f7}) /\ Len(l) = 7
  OBVIOUS
<1>2. g1 \in F /\ g2 \in F /\ g3 \in F /\ g4 \in F /\ g5 \in F /\ g6 \in F /\ g7 \in F
  BY DEF Pair
<1>3. m \in Seq(F) /\ Len(m) = 7
  BY <1>2
<1>4. \A i \in 1..7 : Pair(F, l[i], m[i])
  OBVIOUS
<1> HIDE DEF l, m
<1>5. Alike(F, l, m)
  BY <1>1, <1>3, <1>4 DEF Alike
<1>6. QED
  BY <1>5 DEF l, m

LEMMA AlikeNine ==
  ASSUME NEW F,
         NEW f1, NEW g1, Pair(F, f1, g1),
         NEW f2, NEW g2, Pair(F, f2, g2),
         NEW f3, NEW g3, Pair(F, f3, g3),
         NEW f4, NEW g4, Pair(F, f4, g4),
         NEW f5, NEW g5, Pair(F, f5, g5),
         NEW f6, NEW g6, Pair(F, f6, g6),
         NEW f7, NEW g7, Pair(F, f7, g7),
         NEW f8, NEW g8, Pair(F, f8, g8),
         NEW f9, NEW g9, Pair(F, f9, g9)
  PROVE  Alike(F, <<f1, f2, f3, f4, f5, f6, f7, f8, f9>>, <<g1, g2, g3, g4, g5, g6, g7, g8, g9>>)
<1> DEFINE l == <<f1, f2, f3, f4, f5, f6, f7, f8, f9>>
           m == <<g1, g2, g3, g4, g5, g6, g7, g8, g9>>
<1>1. l \in Seq({f1, f2, f3, f4, f5, f6, f7, f8, f9}) /\ Len(l) = 9
  OBVIOUS
<1>2. g1 \in F /\ g2 \in F /\ g3 \in F /\ g4 \in F /\ g5 \in F /\ g6 \in F /\ g7 \in F /\ g8 \in F /\ g9 \in F
  BY DEF Pair
<1>3. m \in Seq(F) /\ Len(m) = 9
  BY <1>2
<1>4. \A i \in 1..9 : Pair(F, l[i], m[i])
  OBVIOUS
<1> HIDE DEF l, m
<1>5. Alike(F, l, m)
  BY <1>1, <1>3, <1>4 DEF Alike
<1>6. QED
  BY <1>5 DEF l, m

\* Layouts whose values say which bytes were read, and parts of them.
ExactFields == Fields(Exact)
ExactSimple == Simple(Exact)

LEMMA ExactOnes ==
  /\ \A w \in Nat : Number(w) \in Exact
  /\ Checked \in Exact
  /\ \A n \in Nat : Enum(n) \in Exact /\ EnumOrReturn(n) \in Returning
  /\ \A n \in 0..(Beyond - 1) : Text(n) \in Exact
  /\ \A f \in Exact : f \in ExactSimple /\ Maybe(f) \in ExactSimple
  /\ ExactSimple \subseteq ExactFields
<1>1. \A w \in Nat : Number(w) \in Exact
  BY DEF Number, Exact
<1>2. Checked \in Exact
  BY DEF Exact
<1>3. \A n \in Nat : Enum(n) \in Exact /\ EnumOrReturn(n) \in Returning
  BY DEF Exact, Returning, Enum, EnumOrReturn
<1>4. \A n \in 0..(Beyond - 1) : Text(n) \in Exact
  BY DEF Exact, Text
<1>5. \A f \in Exact : f \in ExactSimple /\ Maybe(f) \in ExactSimple
  BY DEF ExactSimple, Simple, Maybe
<1>6. ExactSimple \subseteq ExactFields
  BY DEF ExactFields, Fields, ExactSimple
<1>7. QED
  BY <1>1, <1>2, <1>3, <1>4, <1>5, <1>6

\* Plain fields of one width, or both texts, are written alike.
LEMMA PlainPair ==
  ASSUME NEW F, NEW f, NEW g \in F,
         f.kind \notin {"maybe", "optional", "many"}, g.kind \notin {"maybe", "optional", "many"},
         f.kind = "text" <=> g.kind = "text", Width(f) = Width(g)
  PROVE  /\ Pair(F, f, g)
         /\ \A v : PlainEncoded(f, v) = PlainEncoded(g, v)
<1>1. ASSUME NEW v PROVE PlainEncoded(f, v) = PlainEncoded(g, v)
  BY DEF PlainEncoded
<1>2. ASSUME NEW v PROVE FieldEncoded(f, v) = FieldEncoded(g, v)
  BY <1>1 DEF FieldEncoded, SimpleEncoded
<1>3. QED
  BY <1>1, <1>2 DEF Pair

LEMMA MaybePair ==
  ASSUME NEW F, NEW f, NEW g, Maybe(g) \in F, \A v : PlainEncoded(f, v) = PlainEncoded(g, v)
  PROVE  Pair(F, Maybe(f), Maybe(g))
<1>1. /\ Maybe(f).kind = "maybe" /\ Maybe(f).of = f
      /\ Maybe(g).kind = "maybe" /\ Maybe(g).of = g
  BY DEF Maybe
<1>2. ASSUME NEW v PROVE FieldEncoded(Maybe(f), v) = FieldEncoded(Maybe(g), v)
  BY <1>1 DEF FieldEncoded, SimpleEncoded
<1>3. QED
  BY <1>1, <1>2 DEF Pair

LEMMA PartsAlike ==
  ASSUME NEW l, NEW m, Alike(ExactSimple, l, m)
  PROVE  \A v : PartEncoded(l, v) = PartEncoded(m, v)
<1>1. DOMAIN l = 1..Len(m) /\ DOMAIN m = 1..Len(m)
  BY LenProperties DEF Alike
<1>2. ASSUME NEW i \in 1..Len(m), NEW v PROVE SimpleEncoded(l[i], v) = SimpleEncoded(m[i], v)
  <2>1. Pair(ExactSimple, l[i], m[i])
    BY DEF Alike
  <2>2. m[i] \in Simple(Exact)
    BY <2>1 DEF Pair, ExactSimple
  <2>3. m[i].kind \notin {"optional", "many"}
    BY <2>2, PlainKinds DEF Simple, Plain
  <2>4. l[i].kind \notin {"optional", "many"}
    BY <2>1, <2>3 DEF Pair
  <2>5. FieldEncoded(l[i], v) = FieldEncoded(m[i], v)
    BY <2>1 DEF Pair
  <2>6. QED
    BY <2>3, <2>4, <2>5 DEF FieldEncoded
<1>3. ASSUME NEW v PROVE PartEncoded(l, v) = PartEncoded(m, v)
  <2>1. [i \in DOMAIN l |-> SimpleEncoded(l[i], v[i])] = [i \in DOMAIN m |-> SimpleEncoded(m[i], v[i])]
    BY <1>1, <1>2
  <2>2. QED
    BY <2>1 DEF PartEncoded
<1>4. QED
  BY <1>3

LEMMA OptionalPair ==
  ASSUME NEW F, ExactFields \subseteq F, NEW l, NEW m, Alike(ExactSimple, l, m)
  PROVE  Pair(F, Optional(l), Optional(m))
<1>1. /\ Optional(l).kind = "optional" /\ Optional(l).of = l
      /\ Optional(m).kind = "optional" /\ Optional(m).of = m
  BY DEF Optional
<1>2. ASSUME NEW v PROVE FieldEncoded(Optional(l), v) = FieldEncoded(Optional(m), v)
  BY <1>1, PartsAlike DEF FieldEncoded
<1>3. Optional(m) \in ExactFields
  BY DEF Alike, Optional, ExactFields, ExactSimple, Fields
<1>4. QED
  BY <1>1, <1>2, <1>3 DEF Pair

LEMMA ManyPair ==
  ASSUME NEW F, ExactFields \subseteq F, NEW l, NEW m, Alike(ExactSimple, l, m), NEW n \in 0..(Beyond - 1)
  PROVE  Pair(F, AnyMany(l), Many(n, m))
<1>1. /\ AnyMany(l).kind = "many" /\ AnyMany(l).of = l
      /\ Many(n, m).kind = "many" /\ Many(n, m).of = m
  BY DEF Many, AnyMany
<1>2. ASSUME NEW v PROVE FieldEncoded(AnyMany(l), v) = FieldEncoded(Many(n, m), v)
  <2>1. [i \in DOMAIN v |-> PartEncoded(l, v[i])] = [i \in DOMAIN v |-> PartEncoded(m, v[i])]
    BY PartsAlike
  <2>2. QED
    BY <1>1, <2>1 DEF FieldEncoded
<1>3. Many(n, m) \in ExactFields
  BY DEF Alike, Many, ExactFields, ExactSimple, Fields
<1>4. QED
  BY <1>1, <1>2, <1>3 DEF Pair

\* The pairs of fields that occur.
LEMMA NumberPairs ==
  ASSUME NEW F, ExactSimple \subseteq F, NEW w \in Nat
  PROVE  Pair(F, Number(w), Number(w)) /\ Pair(F, Maybe(Number(w)), Maybe(Number(w)))
<1>1. Number(w) \in F /\ Maybe(Number(w)) \in F
  BY ExactOnes
<1>2. QED
  BY <1>1 DEF Pair

LEMMA CheckedPairs ==
  ASSUME NEW F, ExactSimple \subseteq F
  PROVE  Pair(F, Number(8), Checked) /\ Pair(F, Maybe(Number(8)), Maybe(Checked))
<1>1. Checked \in F /\ Maybe(Checked) \in F
  BY ExactOnes
<1>2. Number(8).kind = "number" /\ Checked.kind = "checked" /\ Width(Number(8)) = Width(Checked)
  BY DEF Number, Checked, Width
<1>3. Pair(F, Number(8), Checked) /\ \A v : PlainEncoded(Number(8), v) = PlainEncoded(Checked, v)
  BY <1>1, <1>2, PlainPair
<1>4. QED
  BY <1>1, <1>3, MaybePair

LEMMA EnumPairs ==
  ASSUME NEW F, ExactSimple \subseteq F, NEW n \in Nat
  PROVE  /\ Pair(F, Number(1), Enum(n))
         /\ EnumOrReturn(n) \in F => Pair(F, Number(1), EnumOrReturn(n))
<1>1. Enum(n) \in F
  BY ExactOnes
<1>2. /\ Number(1).kind = "number" /\ Enum(n).kind = "enum" /\ Width(Number(1)) = Width(Enum(n))
      /\ EnumOrReturn(n).kind = "return" /\ Width(Number(1)) = Width(EnumOrReturn(n))
  BY DEF Number, Enum, EnumOrReturn, Width
<1>3. QED
  BY <1>1, <1>2, PlainPair

LEMMA TextPairs ==
  ASSUME NEW F, ExactSimple \subseteq F, NEW n \in 0..(Beyond - 1)
  PROVE  Pair(F, AnyText, Text(n))
<1>1. Text(n) \in F
  BY ExactOnes
<1>2. AnyText.kind = "text" /\ Text(n).kind = "text" /\ Width(AnyText) = Width(Text(n))
  BY DEF AnyText, Text, Width
<1>3. QED
  BY <1>1, <1>2, PlainPair

LEMMA WordsAlike ==
  ASSUME NEW F, ExactSimple \subseteq F, NEW n \in Nat
  PROVE  Alike(F, Words(n), Words(n)) /\ Alike(F, Reals(n), Reals(n)) /\ Alike(F, Words(n), Times(n, Checked))
<1>1. Pair(F, Number(8), Number(8)) /\ Pair(F, Number(8), Checked)
  BY NumberPairs, CheckedPairs
<1>2. QED
  BY <1>1, AlikeTimes DEF Words, Reals

-----------------------------------------------------------------------------
(* The payloads of frames *)

WireFields == ExactFields \cup Returning

LEMMA Bounds ==
  /\ Capabilities \in Nat /\ ExactSimple \subseteq ExactSimple
  /\ ExactSimple \subseteq WireFields /\ ExactFields \subseteq WireFields
  /\ EnumOrReturn(SubjectKinds) \in WireFields
  /\ MaxString \in 0..(Beyond - 1) /\ MaxDevices \in 0..(Beyond - 1)
  /\ MaxIntents \in 0..(Beyond - 1) /\ MaxCollection \in 0..(Beyond - 1)
  /\ \A n \in {Provenances, Sources, Integrities, ThrottleClasses, CapabilityStates, SubjectKinds, Intents,
               Lifecycles, ThermalStates, Deratings, Decisions} : n \in Nat
<1>1. \A n \in {Provenances, Sources, Integrities, ThrottleClasses, CapabilityStates, SubjectKinds, Intents,
                Lifecycles, ThermalStates, Deratings, Decisions} : n \in Nat
  BY DEF Provenances, Sources, Integrities, ThrottleClasses, CapabilityStates, SubjectKinds, Intents,
         Lifecycles, ThermalStates, Deratings, Decisions
<1>2. ExactSimple \subseteq WireFields /\ ExactFields \subseteq WireFields /\ EnumOrReturn(SubjectKinds) \in WireFields
  BY <1>1, ExactOnes DEF WireFields
<1>3. QED
  BY <1>1, <1>2, WireAssumption DEF WireAssumption

LEMMA Strictly ==
  ASSUME NEW F, ExactSimple \subseteq F
  PROVE  Pair(F, Number(1), Strict)
BY EnumPairs DEF Strict

LEMMA RealAlike ==
  ASSUME NEW F, ExactSimple \subseteq F
  PROVE  Alike(F, Reals(1), <<Checked>>)
<1>1. Pair(F, Number(8), Checked)
  BY CheckedPairs
<1>2. Alike(F, <<Number(8)>>, <<Checked>>)
  BY <1>1, AlikeOne
<1>3. Reals(1) = <<Number(8)>>
  BY DEF Reals, Words, Times
<1>4. QED
  BY <1>2, <1>3

LEMMA CapabilitiesAlike ==
  Alike(ExactSimple, Alternating(Capabilities, Number(1), AnyText),
        Alternating(Capabilities, Enum(CapabilityStates), Text(MaxString)))
<1>1. Pair(ExactSimple, Number(1), Enum(CapabilityStates)) /\ Pair(ExactSimple, AnyText, Text(MaxString))
  BY Bounds, EnumPairs, TextPairs
<1>2. QED
  BY <1>1, Bounds, AlikeAlternating

LEMMA CapabilitySetsAlike == Alike(ExactSimple, CapabilitySetWritten, CapabilitySetRead)
<1>1. Alike(ExactSimple, Alternating(Capabilities, Number(1), AnyText),
                         Alternating(Capabilities, Enum(CapabilityStates), Text(MaxString)))
  BY Bounds, CapabilitiesAlike
<1>2. Alike(ExactSimple, Words(1), Words(1))
  BY Bounds, WordsAlike
<1>3. QED
  BY <1>1, <1>2, AlikeJoined DEF CapabilitySetWritten, CapabilitySetRead

LEMMA OffersAlike == Alike(ExactSimple, OfferWritten, OfferRead)
<1>1. Alike(ExactSimple, Words(6), Words(6))
  BY Bounds, WordsAlike
<1>2. Pair(ExactSimple, AnyText, Text(MaxString))
  BY Bounds, TextPairs
<1>3. Pair(ExactSimple, Number(1), Enum(Provenances))
  BY Bounds, EnumPairs
<1>4. Alike(ExactSimple, <<AnyText, Number(1)>>, <<Text(MaxString), Enum(Provenances)>>)
  BY <1>2, <1>3, AlikeTwo
<1>5. Alike(ExactSimple, CapabilitySetWritten, CapabilitySetRead)
  BY Bounds, CapabilitySetsAlike
<1>6. QED
  BY <1>1, <1>4, <1>5, AlikeJoined DEF OfferWritten, OfferRead

LEMMA RegistrationsAlike == Alike(WireFields, RegistrationWritten, RegistrationRead)
<1>1. Alike(WireFields, Words(2), Words(2))
  BY Bounds, WordsAlike
<1>2. Pair(WireFields, AnyText, Text(MaxString))
  BY Bounds, TextPairs
<1>3. Alike(WireFields, <<AnyText>>, <<Text(MaxString)>>)
  BY <1>2, AlikeOne
<1>4. Alike(WireFields, Words(1), Words(1))
  BY Bounds, WordsAlike
<1>5. Pair(WireFields, AnyMany(OfferWritten), Many(MaxDevices, OfferRead))
  BY Bounds, OffersAlike, ManyPair
<1>6. Alike(WireFields, <<AnyMany(OfferWritten)>>, <<Many(MaxDevices, OfferRead)>>)
  BY <1>5, AlikeOne
<1>7. QED
  BY <1>1, <1>3, <1>4, <1>6, AlikeJoined DEF RegistrationWritten, RegistrationRead

LEMMA SubjectsAlike == Alike(WireFields, SubjectWritten, SubjectRead(EnumOrReturn(SubjectKinds)))
<1>1. Pair(WireFields, Number(1), EnumOrReturn(SubjectKinds))
  BY Bounds, EnumPairs
<1>2. Alike(WireFields, <<Number(1)>>, <<EnumOrReturn(SubjectKinds)>>)
  BY <1>1, AlikeOne
<1>3. Alike(WireFields, Words(10), Words(10))
  BY Bounds, WordsAlike
<1>4. QED
  BY <1>2, <1>3, AlikeJoined DEF SubjectWritten, SubjectRead

LEMMA ThrottlesAlike == Alike(ExactSimple, ThrottleWritten, ThrottleRead)
<1>1. Pair(ExactSimple, Number(8), Number(8))
  BY Bounds, NumberPairs
<1>2. Pair(ExactSimple, Number(1), Enum(ThrottleClasses))
  BY Bounds, EnumPairs
<1>3. Alike(ExactSimple, <<Number(8), Number(1)>>, <<Number(8), Enum(ThrottleClasses)>>)
  BY <1>1, <1>2, AlikeTwo
<1>4. QED
  BY <1>3 DEF ThrottleWritten, ThrottleRead

LEMMA CoolingsAlike == Alike(ExactSimple, CoolingWritten, CoolingRead)
<1>1. Alike(ExactSimple, Words(1), Words(1))
  BY Bounds, WordsAlike
<1>2. Alike(ExactSimple, Times(4, Maybe(Number(8))), Times(4, Maybe(Checked)))
  BY Bounds, CheckedPairs, AlikeTimes
<1>3. Pair(ExactSimple, Maybe(Number(8)), Maybe(Number(8)))
  BY Bounds, NumberPairs
<1>4. Pair(ExactSimple, Number(1), Enum(Provenances))
  BY Bounds, EnumPairs
<1>5. Alike(ExactSimple, <<Maybe(Number(8)), Number(1)>>, <<Maybe(Number(8)), Enum(Provenances)>>)
  BY <1>3, <1>4, AlikeTwo
<1>6. QED
  BY <1>1, <1>2, <1>5, AlikeJoined DEF CoolingWritten, CoolingRead

LEMMA FansAlike == Alike(ExactSimple, FanWritten, FanRead)
<1>1. /\ Pair(ExactSimple, Number(4), Number(4)) /\ Pair(ExactSimple, Maybe(Number(8)), Maybe(Number(8)))
      /\ Pair(ExactSimple, Maybe(Number(4)), Maybe(Number(4)))
  BY Bounds, NumberPairs
<1>2. Pair(ExactSimple, Number(1), Enum(Provenances))
  BY Bounds, EnumPairs
<1>3. Alike(ExactSimple, <<Number(4), Maybe(Number(8)), Maybe(Number(4)), Number(1)>>,
                         <<Number(4), Maybe(Number(8)), Maybe(Number(4)), Enum(Provenances)>>)
  BY <1>1, <1>2, AlikeFour
<1>4. QED
  BY <1>3 DEF FanWritten, FanRead

LEMMA EvidencesAlike == Alike(WireFields, EvidenceWritten, EvidenceRead)
<1>1. Alike(WireFields, Words(1), Words(1))
  BY Bounds, WordsAlike
<1>2. Alike(WireFields, SubjectWritten, SubjectRead(EnumOrReturn(SubjectKinds)))
  BY Bounds, SubjectsAlike
<1>3. Alike(WireFields, Words(2), Words(2))
  BY Bounds, WordsAlike
<1>4. Alike(WireFields, Reals(1), <<Checked>>)
  BY Bounds, RealAlike
<1>5. Pair(WireFields, Number(1), Enum(Sources)) /\ Pair(WireFields, Number(1), Enum(Provenances))
  BY Bounds, EnumPairs
<1>6. Alike(WireFields, <<Number(1), Number(1)>>, <<Enum(Sources), Enum(Provenances)>>)
  BY <1>5, AlikeTwo
<1>7. Alike(WireFields, Words(9), Words(9))
  BY Bounds, WordsAlike
<1>8. Pair(WireFields, Number(1), Enum(Integrities))
  BY Bounds, EnumPairs
<1>9. Pair(WireFields, Optional(ThrottleWritten), Optional(ThrottleRead))
  BY Bounds, ThrottlesAlike, OptionalPair
<1>10. Pair(WireFields, Maybe(Number(8)), Maybe(Checked))
  BY Bounds, CheckedPairs
<1>11. /\ Pair(WireFields, Maybe(Number(4)), Maybe(Number(4)))
      /\ Pair(WireFields, Maybe(Number(8)), Maybe(Number(8)))
  BY Bounds, NumberPairs
<1>12. Pair(WireFields, Optional(CoolingWritten), Optional(CoolingRead))
  BY Bounds, CoolingsAlike, OptionalPair
<1>13. Pair(WireFields, Optional(FanWritten), Optional(FanRead))
  BY Bounds, FansAlike, OptionalPair
<1>14. Alike(WireFields, <<Number(1), Optional(ThrottleWritten), Maybe(Number(8)), Maybe(Number(8)),
                           Maybe(Number(4)), Maybe(Number(4)), Optional(CoolingWritten),
                           Optional(FanWritten), Maybe(Number(8))>>,
                         <<Enum(Integrities), Optional(ThrottleRead), Maybe(Checked),
                           Maybe(Checked), Maybe(Number(4)), Maybe(Number(4)), Optional(CoolingRead),
                           Optional(FanRead), Maybe(Number(8))>>)
  BY <1>8, <1>9, <1>10, <1>11, <1>12, <1>13, AlikeNine
<1>15. QED
  BY <1>1, <1>2, <1>3, <1>4, <1>6, <1>7, <1>14, AlikeJoined DEF EvidenceWritten, EvidenceRead

LEMMA AcksAlike == Alike(WireFields, AckWritten, AckRead)
<1>1. Alike(WireFields, Words(6), Words(6))
  BY Bounds, WordsAlike
<1>2. Pair(WireFields, Number(1), Strict)
  BY Bounds, Strictly
<1>3. Pair(WireFields, AnyText, Text(MaxString))
  BY Bounds, TextPairs
<1>4. Alike(WireFields, <<Number(1), AnyText>>, <<Strict, Text(MaxString)>>)
  BY <1>2, <1>3, AlikeTwo
<1>5. QED
  BY <1>1, <1>4, AlikeJoined DEF AckWritten, AckRead

LEMMA ResultsAlike == Alike(WireFields, ResultWritten, ResultRead)
<1>1. Alike(WireFields, Words(8), Words(8))
  BY Bounds, WordsAlike
<1>2. Pair(WireFields, Number(1), Strict)
  BY Bounds, Strictly
<1>3. Pair(WireFields, AnyText, Text(MaxString))
  BY Bounds, TextPairs
<1>4. Alike(WireFields, <<Number(1), AnyText>>, <<Strict, Text(MaxString)>>)
  BY <1>2, <1>3, AlikeTwo
<1>5. QED
  BY <1>1, <1>4, AlikeJoined DEF ResultWritten, ResultRead

LEMMA ActionsAlike == Alike(WireFields, ActionWritten, ActionRead)
<1>1. Alike(WireFields, Words(15), Words(15))
  BY Bounds, WordsAlike
<1>2. /\ Pair(WireFields, Number(1), Enum(Intents)) /\ Pair(WireFields, Number(1), Enum(Lifecycles))
      /\ Pair(WireFields, Number(1), Enum(Provenances))
  BY Bounds, EnumPairs
<1>3. Pair(WireFields, Maybe(Number(4)), Maybe(Number(4)))
  BY Bounds, NumberPairs
<1>4. Pair(WireFields, Maybe(Number(8)), Maybe(Checked))
  BY Bounds, CheckedPairs
<1>5. Pair(WireFields, AnyText, Text(MaxString))
  BY Bounds, TextPairs
<1>6. Alike(WireFields, <<Number(1), Number(1), Number(1), Maybe(Number(4)), Maybe(Number(8)),
                          Maybe(Number(8)), AnyText>>,
                        <<Enum(Intents), Enum(Lifecycles), Enum(Provenances), Maybe(Number(4)),
                          Maybe(Checked), Maybe(Checked), Text(MaxString)>>)
  BY <1>2, <1>3, <1>4, <1>5, AlikeSeven
<1>7. QED
  BY <1>1, <1>6, AlikeJoined DEF ActionWritten, ActionRead

LEMMA FiveAlike ==
  ASSUME NEW F, ExactSimple \subseteq F, NEW a \in Nat, NEW b \in Nat, NEW c \in Nat, NEW d \in Nat, NEW e \in Nat
  PROVE  Alike(F, Times(5, Number(1)), <<Enum(a), Enum(b), Enum(c), Enum(d), Enum(e)>>)
<1>1. /\ Pair(F, Number(1), Enum(a)) /\ Pair(F, Number(1), Enum(b)) /\ Pair(F, Number(1), Enum(c))
      /\ Pair(F, Number(1), Enum(d)) /\ Pair(F, Number(1), Enum(e))
  BY EnumPairs
<1>2. Alike(F, <<Number(1), Number(1), Number(1), Number(1), Number(1)>>,
            <<Enum(a), Enum(b), Enum(c), Enum(d), Enum(e)>>)
  BY <1>1, AlikeFive
<1>3. \A x : Times(5, x) = <<x, x, x, x, x>>
  BY DEF Times
<1>4. QED
  BY <1>2, <1>3

LEMMA IntentItemsAlike == Alike(ExactSimple, <<Number(1)>>, <<Enum(Intents)>>)
<1>1. Pair(ExactSimple, Number(1), Enum(Intents))
  BY Bounds, EnumPairs
<1>2. Alike(ExactSimple, <<Number(1)>>, <<Enum(Intents)>>)
  BY <1>1, AlikeOne
<1>3. QED
  BY <1>2

LEMMA ReasonItemsAlike == Alike(ExactSimple, <<Number(2)>>, <<Number(2)>>)
<1>1. Pair(ExactSimple, Number(2), Number(2))
  BY Bounds, NumberPairs
<1>2. Alike(ExactSimple, <<Number(2)>>, <<Number(2)>>)
  BY <1>1, AlikeOne
<1>3. QED
  BY <1>2

LEMMA TextItemsAlike == Alike(ExactSimple, <<AnyText>>, <<Text(MaxString)>>)
<1>1. Pair(ExactSimple, AnyText, Text(MaxString))
  BY Bounds, TextPairs
<1>2. Alike(ExactSimple, <<AnyText>>, <<Text(MaxString)>>)
  BY <1>1, AlikeOne
<1>3. QED
  BY <1>2

LEMMA SummariesAlike == Alike(WireFields, SummaryWritten, SummaryRead)
<1>1. Alike(WireFields, Words(4), Words(4))
  BY Bounds, WordsAlike
<1>2. Alike(WireFields, Times(5, Number(1)),
                        <<Enum(ThermalStates), Enum(Deratings), Enum(Decisions),
                          Enum(ThrottleClasses), Enum(Provenances)>>)
  BY Bounds, FiveAlike
<1>3. Alike(WireFields, Reals(3), Times(3, Checked))
  BY Bounds, WordsAlike DEF Reals, Words
<1>4. Alike(WireFields, Reals(1), Reals(1))
  BY Bounds, WordsAlike
<1>5. Pair(WireFields, Number(1), Strict)
  BY Bounds, Strictly
<1>6. Pair(WireFields, Number(4), Number(4))
  BY Bounds, NumberPairs
<1>7. Alike(WireFields, <<Number(1), Number(4), Number(4)>>, <<Strict, Number(4), Number(4)>>)
  BY <1>5, <1>6, AlikeThree
<1>8. Alike(WireFields, Words(3), Words(3))
  BY Bounds, WordsAlike
<1>9. Pair(WireFields, AnyMany(<<Number(1)>>), Many(MaxIntents, <<Enum(Intents)>>))
  BY Bounds, IntentItemsAlike, ManyPair
<1>10. Pair(WireFields, AnyMany(<<Number(2)>>), Many(MaxIntents, <<Number(2)>>))
  BY Bounds, ReasonItemsAlike, ManyPair
<1>11. Alike(WireFields, <<AnyMany(<<Number(1)>>), AnyMany(<<Number(2)>>)>>,
                         <<Many(MaxIntents, <<Enum(Intents)>>), Many(MaxIntents, <<Number(2)>>)>>)
  BY <1>9, <1>10, AlikeTwo
<1>12. QED
  BY <1>1, <1>2, <1>3, <1>4, <1>7, <1>8, <1>11, AlikeJoined DEF SummaryWritten, SummaryRead

LEMMA StatusesAlike == Alike(WireFields, StatusWritten, StatusRead)
<1>1. Pair(WireFields, Number(4), Number(4))
  BY Bounds, NumberPairs
<1>2. Pair(WireFields, AnyText, Text(MaxString))
  BY Bounds, TextPairs
<1>3. Alike(WireFields, <<Number(4), AnyText>>, <<Number(4), Text(MaxString)>>)
  BY <1>1, <1>2, AlikeTwo
<1>4. QED
  BY <1>3 DEF StatusWritten, StatusRead

LEMMA ResponsesAlike == Alike(WireFields, ResponseWritten, ResponseRead)
<1>1. Alike(WireFields, StatusWritten, StatusRead)
  BY Bounds, StatusesAlike
<1>2. Pair(WireFields, AnyText, Text(MaxCollection))
  BY Bounds, TextPairs
<1>3. Alike(WireFields, <<AnyText>>, <<Text(MaxCollection)>>)
  BY <1>2, AlikeOne
<1>4. QED
  BY <1>1, <1>3, AlikeJoined DEF ResponseWritten, ResponseRead

LEMMA CommandsAlike == Alike(WireFields, CommandWritten, CommandRead)
<1>1. Pair(WireFields, AnyText, Text(MaxString)) /\ Pair(WireFields, AnyText, Text(MaxCollection))
  BY Bounds, TextPairs
<1>2. Pair(WireFields, AnyMany(<<AnyText>>), Many(MaxIntents, <<Text(MaxString)>>))
  BY Bounds, TextItemsAlike, ManyPair
<1>3. Alike(WireFields, <<AnyText, AnyMany(<<AnyText>>), AnyText>>,
                        <<Text(MaxString), Many(MaxIntents, <<Text(MaxString)>>),
                          Text(MaxCollection)>>)
  BY <1>1, <1>2, AlikeThree
<1>4. QED
  BY <1>3 DEF CommandWritten, CommandRead

\* A value is written by one of two layouts that are alike as by the other.
LEMMA AlikeEncoded ==
  ASSUME NEW F, NEW l, NEW m, Alike(F, l, m)
  PROVE  m \in Seq(F) /\ \A v : Encoded(l, v) = Encoded(m, v)
<1>1. DOMAIN l = 1..Len(m) /\ DOMAIN m = 1..Len(m)
  BY LenProperties DEF Alike
<1>2. ASSUME NEW v PROVE Encoded(l, v) = Encoded(m, v)
  <2>1. \A i \in 1..Len(m) : FieldEncoded(l[i], v[i]) = FieldEncoded(m[i], v[i])
    BY DEF Alike, Pair
  <2>2. [i \in DOMAIN l |-> FieldEncoded(l[i], v[i])] = [i \in DOMAIN m |-> FieldEncoded(m[i], v[i])]
    BY <1>1, <2>1
  <2>3. QED
    BY <2>2 DEF Encoded
<1>3. QED
  BY <1>2 DEF Alike

\* The encoder and the decoder of each payload agree on every field: what the
\* one writes, the other would write under its own layout.
LEMMA PayloadsAlike ==
  ASSUME NEW k \in Payloads
  PROVE  Wanted[k] \in Seq(WireFields) /\ \A v : Encoded(Written[k], v) = Encoded(Wanted[k], v)
<1>1. Alike(WireFields, Written[k], Wanted[k])
  BY RegistrationsAlike, EvidencesAlike, ActionsAlike, AcksAlike, ResultsAlike, SummariesAlike, StatusesAlike,
     CommandsAlike, ResponsesAlike DEF Payloads, Written, Wanted
<1>2. QED
  BY <1>1, AlikeEncoded

-----------------------------------------------------------------------------
(* The records of a durable file *)

PlainFields == Fields(Plain)
StoredFields == PlainFields \cup Forgettable

LEMMA PairWider ==
  ASSUME NEW F, NEW G, F \subseteq G, NEW f, NEW g, Pair(F, f, g)
  PROVE  Pair(G, f, g)
BY DEF Pair

LEMMA AlikeWider ==
  ASSUME NEW F, NEW G, F \subseteq G, NEW l, NEW m, Alike(F, l, m)
  PROVE  Alike(G, l, m)
BY PairWider, SeqMonotonic DEF Alike

LEMMA SimpleWider ==
  ASSUME NEW S, NEW T, S \subseteq T
  PROVE  Simple(S) \subseteq Simple(T) /\ Fields(S) \subseteq Fields(T)
<1>1. Simple(S) \subseteq Simple(T)
  BY DEF Simple
<1>2. Seq(Simple(S)) \subseteq Seq(Simple(T))
  BY <1>1, SeqMonotonic
<1>3. QED
  BY <1>1, <1>2 DEF Fields

LEMMA StoreBounds ==
  /\ Capabilities \in Nat
  /\ ExactSimple \subseteq ExactSimple /\ ExactSimple \subseteq PlainFields
  /\ ExactFields \subseteq PlainFields /\ PlainFields \subseteq StoredFields
  /\ MaxText \in 0..(Beyond - 1) /\ MaxRestrictions \in 0..(Beyond - 1) /\ Most["domains"] \in 0..(Beyond - 1)
  /\ \A n \in {Provenances, Sources, Integrities, ThrottleClasses, CapabilityStates, SubjectKinds, Intents,
               Lifecycles, ThermalStates, Deratings, Decisions} : n \in Nat
<1>1. Exact \subseteq Plain
  BY DEF Plain
<1>2. ExactSimple \subseteq ExactFields /\ ExactFields \subseteq PlainFields
  BY <1>1, SimpleWider, ExactOnes DEF ExactFields, PlainFields
<1>3. MaxText \in 0..(Beyond - 1) /\ MaxRestrictions \in 0..(Beyond - 1) /\ Most["domains"] \in 0..(Beyond - 1)
  BY ContainerAssumption DEF ContainerAssumption, Kinds
<1>4. QED
  BY <1>2, <1>3, Bounds DEF StoredFields

\* Every record begins with a u64.
Opens(layout) == Len(layout) >= 1 /\ layout[1] = Number(8)
Opening(F, l, m) == Alike(F, l, m) /\ Opens(m)

LEMMA OpeningJoined ==
  ASSUME NEW F, NEW k, NEW l, NEW m, NEW n, Opening(F, k, l), Alike(F, m, n)
  PROVE  Opening(F, k \o m, l \o n)
<1>1. Alike(F, k, l) /\ Len(l) >= 1 /\ l[1] = Number(8)
  BY DEF Opening, Opens
<1>2. l \in Seq(F) /\ n \in Seq(F)
  BY <1>1 DEF Alike
<1>3. Alike(F, k \o m, l \o n)
  BY <1>1, AlikeJoined
<1>4. /\ Len(l \o n) = Len(l) + Len(n)
      /\ \A i \in 1..(Len(l) + Len(n)) : (l \o n)[i] = IF i <= Len(l) THEN l[i] ELSE n[i - Len(l)]
  BY <1>2, ConcatProperties
<1>5. Len(l) \in Nat /\ Len(n) \in Nat
  BY <1>2, LenProperties
<1>6. 1 \in 1..(Len(l) + Len(n)) /\ 1 <= Len(l) /\ Len(l) + Len(n) >= 1
  BY <1>1, <1>5
<1>7. Len(l \o n) >= 1
  BY ONLY <1>4, <1>6
<1>8. (l \o n)[1] = l[1]
  BY ONLY <1>4, <1>6
<1>9. QED
  BY <1>1, <1>3, <1>7, <1>8 DEF Opening, Opens

LEMMA OpeningWords ==
  ASSUME NEW F, NEW n \in Nat, n >= 1, Alike(F, Words(n), Words(n))
  PROVE  Opening(F, Words(n), Words(n))
<1>1. Words(n) = [i \in 1..n |-> Number(8)]
  BY DEF Words, Times
<1>2. Len(Words(n)) = n /\ Words(n)[1] = Number(8)
  BY <1>1
<1>3. QED
  BY <1>2 DEF Opening, Opens

LEMMA FlagPair == Pair(PlainFields, Number(1), Flag)
<1>1. Flag \in PlainFields
  BY DEF Plain, PlainFields, Fields, Simple
<1>2. Number(1).kind = "number" /\ Flag.kind = "flag" /\ Width(Number(1)) = Width(Flag)
  BY DEF Number, Flag, Width
<1>3. QED
  BY <1>1, <1>2, PlainPair

LEMMA ForgottenPair == Pair(StoredFields, Number(1), Forgotten(2)) /\ Forgotten(2) \in Forgettable
<1>1. Forgotten(2) \in Forgettable
  BY DEF Forgotten, Forgettable
<1>2. Number(1).kind = "number" /\ Forgotten(2).kind = "forgotten" /\ Width(Number(1)) = Width(Forgotten(2))
  BY DEF Number, Forgotten, Width
<1>3. QED
  BY <1>1, <1>2, PlainPair DEF StoredFields

LEMMA StoredManyPair ==
  ASSUME NEW l, NEW m, Alike(ExactSimple, l, m), NEW n \in 0..(Beyond - 1)
  PROVE  Pair(PlainFields, AnyMany(l), Many(n, m))
BY StoreBounds, ManyPair

LEMMA TimesThreeAlike == Alike(ExactSimple, Times(3, Number(1)), <<Enum(6), Strict, Enum(4)>>)
<1>1. /\ Pair(ExactSimple, Number(1), Enum(6)) /\ Pair(ExactSimple, Number(1), Enum(4))
      /\ Pair(ExactSimple, Number(1), Strict)
  BY EnumPairs, Strictly
<1>2. Alike(ExactSimple, <<Number(1), Number(1), Number(1)>>, <<Enum(6), Strict, Enum(4)>>)
  BY <1>1, AlikeThree
<1>3. \A x : Times(3, x) = <<x, x, x>>
  BY DEF Times
<1>4. QED
  BY <1>2, <1>3

LEMMA RestrictionsAlike == Alike(ExactSimple, RestrictionWritten, RestrictionRead)
<1>1. Alike(ExactSimple, Times(3, Number(1)), <<Enum(6), Strict, Enum(4)>>)
  BY StoreBounds, TimesThreeAlike
<1>2. Alike(ExactSimple, Reals(1), Reals(1))
  BY StoreBounds, WordsAlike
<1>3. QED
  BY <1>1, <1>2, AlikeJoined DEF RestrictionWritten, RestrictionRead

LEMMA PoliciesAlike == Opening(PlainFields, PolicyWritten, PolicyRead)
<1>1. Opening(PlainFields, Words(2), Words(2))
  BY StoreBounds, WordsAlike, OpeningWords
<1>2. Pair(PlainFields, AnyText, Text(MaxText))
  BY StoreBounds, TextPairs
<1>3. Alike(PlainFields, <<AnyText>>, <<Text(MaxText)>>)
  BY <1>2, AlikeOne
<1>4. Alike(PlainFields, Reals(4), Times(4, Checked))
  BY StoreBounds, WordsAlike DEF Reals, Words
<1>5. Alike(PlainFields, Reals(4), Reals(4))
  BY StoreBounds, WordsAlike
<1>6. Pair(PlainFields, Number(8), Number(8)) /\ Pair(PlainFields, Number(4), Number(4))
  BY StoreBounds, NumberPairs
<1>7. Alike(PlainFields, <<Number(8), Number(4), Number(8), Number(4)>>,
                         <<Number(8), Number(4), Number(8), Number(4)>>)
  BY <1>6, AlikeFour
<1>8. Alike(PlainFields, Times(8, Number(1)), Times(8, Flag))
  BY StoreBounds, FlagPair, AlikeTimes
<1>9. Pair(PlainFields, Number(1), Flag)
  BY StoreBounds, FlagPair
<1>10. Alike(PlainFields, <<Number(1)>>, <<Flag>>)
  BY <1>9, AlikeOne
<1>11. Alike(PlainFields, Reals(1), Reals(1))
  BY StoreBounds, WordsAlike
<1>12. Pair(PlainFields, Number(4), Number(4))
  BY StoreBounds, NumberPairs
<1>13. Alike(PlainFields, <<Number(4)>>, <<Number(4)>>)
  BY <1>12, AlikeOne
<1>14. Alike(PlainFields, Reals(1), Reals(1))
  BY StoreBounds, WordsAlike
<1>15. Alike(PlainFields, Times(2, Number(1)), Times(2, Flag))
  BY StoreBounds, FlagPair, AlikeTimes
<1>16. Alike(PlainFields, Reals(5), Reals(5))
  BY StoreBounds, WordsAlike
<1>17. Alike(PlainFields, Times(4, Number(1)), Times(4, Flag))
  BY StoreBounds, FlagPair, AlikeTimes
<1>18. Pair(PlainFields, Number(1), Flag)
  BY StoreBounds, FlagPair
<1>19. Pair(PlainFields, Number(4), Number(4))
  BY StoreBounds, NumberPairs
<1>20. Alike(PlainFields, <<Number(1), Number(4), Number(1), Number(1)>>, <<Flag, Number(4), Flag, Flag>>)
  BY <1>18, <1>19, AlikeFour
<1>21. Pair(PlainFields, Number(1), Enum(5)) /\ Pair(PlainFields, Number(1), Enum(4))
  BY StoreBounds, EnumPairs
<1>22. Pair(PlainFields, Number(4), Number(4))
  BY StoreBounds, NumberPairs
<1>23. Pair(PlainFields, AnyMany(RestrictionWritten), Many(MaxRestrictions, RestrictionRead))
  BY StoreBounds, RestrictionsAlike, StoredManyPair
<1>24. Alike(PlainFields, <<Number(1), Number(1), Number(4), AnyMany(RestrictionWritten)>>,
                          <<Enum(5), Enum(4), Number(4), Many(MaxRestrictions, RestrictionRead)>>)
  BY <1>21, <1>22, <1>23, AlikeFour
<1>25. QED
  BY <1>1, <1>3, <1>4, <1>5, <1>7, <1>8, <1>10, <1>11, <1>13, <1>14, <1>15, <1>16, <1>17, <1>20, <1>24, OpeningJoined
  DEF PolicyWritten, PolicyRead

LEMMA StoredCapabilitiesAlike ==
  Alike(PlainFields, Alternating(Capabilities, Number(1), AnyText),
        Alternating(Capabilities, Enum(CapabilityStates), Text(MaxText)))
<1>1. Pair(PlainFields, Number(1), Enum(CapabilityStates)) /\ Pair(PlainFields, AnyText, Text(MaxText))
  BY StoreBounds, EnumPairs, TextPairs
<1>2. QED
  BY <1>1, StoreBounds, AlikeAlternating

LEMMA DevicesAlike == Opening(PlainFields, DeviceWritten, DeviceRead)
<1>1. Opening(PlainFields, Words(6), Words(6))
  BY StoreBounds, WordsAlike, OpeningWords
<1>2. Pair(PlainFields, AnyText, Text(MaxText))
  BY StoreBounds, TextPairs
<1>3. Pair(PlainFields, Number(1), Enum(Provenances))
  BY StoreBounds, EnumPairs
<1>4. Alike(PlainFields, <<AnyText, Number(1)>>, <<Text(MaxText), Enum(Provenances)>>)
  BY <1>2, <1>3, AlikeTwo
<1>5. Alike(PlainFields, Words(1), Words(1))
  BY StoreBounds, WordsAlike
<1>6. Alike(PlainFields, Alternating(Capabilities, Number(1), AnyText),
                         Alternating(Capabilities, Enum(CapabilityStates), Text(MaxText)))
  BY StoreBounds, StoredCapabilitiesAlike
<1>7. QED
  BY <1>1, <1>4, <1>5, <1>6, OpeningJoined DEF DeviceWritten, DeviceRead

LEMMA MembersAlike == Alike(ExactSimple, MemberWritten, MemberRead)
<1>1. Pair(ExactSimple, Number(1), Enum(SubjectKinds))
  BY StoreBounds, EnumPairs
<1>2. Alike(ExactSimple, <<Number(1)>>, <<Enum(SubjectKinds)>>)
  BY <1>1, AlikeOne
<1>3. Alike(ExactSimple, Words(10), Words(10))
  BY StoreBounds, WordsAlike
<1>4. Alike(ExactSimple, Reals(1), Reals(1))
  BY StoreBounds, WordsAlike
<1>5. QED
  BY <1>2, <1>3, <1>4, AlikeJoined DEF MemberWritten, MemberRead, SubjectWritten, SubjectRead

LEMMA DomainsAlike == Opening(PlainFields, DomainWritten, DomainRead)
<1>1. Opening(PlainFields, Words(2), Words(2))
  BY StoreBounds, WordsAlike, OpeningWords
<1>2. Pair(PlainFields, Number(1), Enum(7))
  BY StoreBounds, EnumPairs
<1>3. Pair(PlainFields, AnyText, Text(MaxText))
  BY StoreBounds, TextPairs
<1>4. Pair(PlainFields, AnyMany(MemberWritten), Many(Most["domains"], MemberRead))
  BY StoreBounds, MembersAlike, StoredManyPair
<1>5. Pair(PlainFields, Maybe(Number(8)), Maybe(Number(8)))
  BY StoreBounds, NumberPairs
<1>6. Pair(PlainFields, AnyMany(Words(1)), Many(Most["domains"], Words(1)))
  BY StoreBounds, WordsAlike, StoredManyPair
<1>7. Alike(PlainFields, <<Number(1), AnyText, AnyMany(MemberWritten), Maybe(Number(8)),
                           AnyMany(Words(1))>>,
                         <<Enum(7), Text(MaxText), Many(Most["domains"], MemberRead),
                           Maybe(Number(8)), Many(Most["domains"], Words(1))>>)
  BY <1>2, <1>3, <1>4, <1>5, <1>6, AlikeFive
<1>8. Alike(PlainFields, Words(2), Words(2))
  BY StoreBounds, WordsAlike
<1>9. Pair(PlainFields, Number(1), Enum(Provenances)) /\ Pair(PlainFields, Number(1), Enum(4))
  BY StoreBounds, EnumPairs
<1>10. Pair(PlainFields, AnyText, Text(MaxText))
  BY StoreBounds, TextPairs
<1>11. Alike(PlainFields, <<Number(1), AnyText, Number(1)>>, <<Enum(Provenances), Text(MaxText), Enum(4)>>)
  BY <1>9, <1>10, AlikeThree
<1>12. Alike(PlainFields, Words(3), Words(3))
  BY StoreBounds, WordsAlike
<1>13. Pair(PlainFields, Maybe(Number(8)), Maybe(Number(8)))
  BY StoreBounds, NumberPairs
<1>14. Alike(PlainFields, <<Maybe(Number(8))>>, <<Maybe(Number(8))>>)
  BY <1>13, AlikeOne
<1>15. QED
  BY <1>1, <1>7, <1>8, <1>11, <1>12, <1>14, OpeningJoined DEF DomainWritten, DomainRead

CouplingKept == Words(3) \o <<Enum(7)>> \o Words(1) \o <<Enum(Provenances), Text(MaxText)>> \o Reals(1)

LEMMA CouplingsKept ==
  Opening(PlainFields, Words(3) \o <<Number(1)>> \o Words(1) \o <<Number(1), AnyText>> \o Reals(1),
        CouplingKept)
<1>1. Opening(PlainFields, Words(3), Words(3))
  BY StoreBounds, WordsAlike, OpeningWords
<1>2. Pair(PlainFields, Number(1), Enum(7))
  BY StoreBounds, EnumPairs
<1>3. Alike(PlainFields, <<Number(1)>>, <<Enum(7)>>)
  BY <1>2, AlikeOne
<1>4. Alike(PlainFields, Words(1), Words(1))
  BY StoreBounds, WordsAlike
<1>5. Pair(PlainFields, Number(1), Enum(Provenances))
  BY StoreBounds, EnumPairs
<1>6. Pair(PlainFields, AnyText, Text(MaxText))
  BY StoreBounds, TextPairs
<1>7. Alike(PlainFields, <<Number(1), AnyText>>, <<Enum(Provenances), Text(MaxText)>>)
  BY <1>5, <1>6, AlikeTwo
<1>8. Alike(PlainFields, Reals(1), Reals(1))
  BY StoreBounds, WordsAlike
<1>9. QED
  BY <1>1, <1>3, <1>4, <1>7, <1>8, OpeningJoined DEF CouplingKept

LEMMA CouplingsAlike ==
  /\ Alike(StoredFields, CouplingWritten, CouplingRead)
  /\ CouplingKept \in Seq(PlainFields) /\ CouplingRead = CouplingKept \o <<Strict, Forgotten(2)>>
  /\ Opens(CouplingRead) /\ Strict \in PlainFields
<1>1. Pair(StoredFields, Number(1), Strict) /\ Pair(PlainFields, Number(1), Strict)
  BY StoreBounds, Strictly, PairWider
<1>2. Pair(StoredFields, Number(1), Forgotten(2))
  BY ForgottenPair
<1>3. Alike(StoredFields, <<Number(1), Number(1)>>, <<Strict, Forgotten(2)>>)
  BY <1>1, <1>2, AlikeTwo
<1>4. Alike(StoredFields, Words(3) \o <<Number(1)>> \o Words(1) \o <<Number(1), AnyText>> \o Reals(1), CouplingKept)
  BY CouplingsKept, StoreBounds, AlikeWider DEF Opening
<1>5. CouplingKept \in Seq(PlainFields)
  BY CouplingsKept DEF Alike, Opening
<1>6. CouplingRead = CouplingKept \o <<Strict, Forgotten(2)>>
  BY DEF CouplingRead, CouplingKept
<1>7. Opening(StoredFields, Words(3) \o <<Number(1)>> \o Words(1) \o <<Number(1), AnyText>> \o Reals(1), CouplingKept)
  BY <1>4, CouplingsKept DEF Opening
<1>8. Alike(StoredFields, CouplingWritten, CouplingRead) /\ Opens(CouplingRead)
  BY <1>3, <1>4, <1>6, <1>7, OpeningJoined DEF CouplingWritten, Opening
<1>9. Strict \in PlainFields
  BY <1>1 DEF Pair
<1>10. QED
  BY <1>5, <1>6, <1>8, <1>9

LEMMA TransitionsAlike == Opening(PlainFields, TransitionWritten, TransitionRead)
<1>1. Opening(PlainFields, Words(2), Words(2))
  BY StoreBounds, WordsAlike, OpeningWords
<1>2. Alike(PlainFields, Times(5, Number(1)),
                         <<Enum(ThermalStates), Enum(ThermalStates), Enum(Deratings),
                           Enum(Deratings), Enum(Decisions)>>)
  BY StoreBounds, FiveAlike
<1>3. Alike(PlainFields, Reals(1), <<Checked>>)
  BY StoreBounds, RealAlike
<1>4. Alike(PlainFields, Words(4), Words(4))
  BY StoreBounds, WordsAlike
<1>5. QED
  BY <1>1, <1>2, <1>3, <1>4, OpeningJoined DEF TransitionWritten, TransitionRead

LEMMA StoredActionsAlike == Opening(PlainFields, StoredActionWritten, StoredActionRead)
<1>1. Opening(PlainFields, Words(15), Words(15))
  BY StoreBounds, WordsAlike, OpeningWords
<1>2. /\ Pair(PlainFields, Number(1), Enum(Intents)) /\ Pair(PlainFields, Number(1), Enum(Lifecycles))
      /\ Pair(PlainFields, Number(1), Enum(Provenances))
  BY StoreBounds, EnumPairs
<1>3. Pair(PlainFields, Maybe(Number(4)), Maybe(Number(4)))
  BY StoreBounds, NumberPairs
<1>4. Pair(PlainFields, Maybe(Number(8)), Maybe(Checked))
  BY StoreBounds, CheckedPairs
<1>5. Pair(PlainFields, AnyText, Text(MaxText))
  BY StoreBounds, TextPairs
<1>6. Alike(PlainFields, <<Number(1), Number(1), Number(1), Maybe(Number(4)), Maybe(Number(8)),
                           Maybe(Number(8)), AnyText>>,
                         <<Enum(Intents), Enum(Lifecycles), Enum(Provenances), Maybe(Number(4)),
                           Maybe(Checked), Maybe(Checked), Text(MaxText)>>)
  BY <1>2, <1>3, <1>4, <1>5, AlikeSeven
<1>7. Alike(PlainFields, Words(2), Words(2))
  BY StoreBounds, WordsAlike
<1>8. Pair(PlainFields, Maybe(Number(8)), Maybe(Number(8)))
  BY StoreBounds, NumberPairs
<1>9. Pair(PlainFields, AnyText, Text(MaxText))
  BY StoreBounds, TextPairs
<1>10. Alike(PlainFields, <<Maybe(Number(8)), AnyText>>, <<Maybe(Number(8)), Text(MaxText)>>)
  BY <1>8, <1>9, AlikeTwo
<1>11. QED
  BY <1>1, <1>6, <1>7, <1>10, OpeningJoined DEF StoredActionWritten, StoredActionRead, ActionWritten

LEMMA OutcomesAlike ==
  /\ Alike(PlainFields, Times(2, Number(1)), <<Enum(10), Enum(Lifecycles)>>)
  /\ Alike(PlainFields, Times(4, Number(1)),
           <<Enum(ThermalStates), Enum(ThermalStates), Enum(Deratings), Enum(Deratings)>>)
<1>1. /\ Pair(PlainFields, Number(1), Enum(10)) /\ Pair(PlainFields, Number(1), Enum(Lifecycles))
      /\ Pair(PlainFields, Number(1), Enum(ThermalStates)) /\ Pair(PlainFields, Number(1), Enum(Deratings))
  BY StoreBounds, EnumPairs
<1>2. Alike(PlainFields, <<Number(1), Number(1)>>, <<Enum(10), Enum(Lifecycles)>>)
  BY <1>1, AlikeTwo
<1>3. Alike(PlainFields, <<Number(1), Number(1), Number(1), Number(1)>>,
            <<Enum(ThermalStates), Enum(ThermalStates), Enum(Deratings), Enum(Deratings)>>)
  BY <1>1, AlikeFour
<1>4. \A x : Times(2, x) = <<x, x>> /\ Times(4, x) = <<x, x, x, x>>
  BY DEF Times
<1>5. QED
  BY <1>2, <1>3, <1>4

LEMMA VerificationsAlike == Opening(PlainFields, VerificationWritten, VerificationRead)
<1>1. Opening(PlainFields, Words(2), Words(2))
  BY StoreBounds, WordsAlike, OpeningWords
<1>2. Alike(PlainFields, Times(2, Number(1)), <<Enum(10), Enum(Lifecycles)>>)
  BY StoreBounds, OutcomesAlike
<1>3. Alike(PlainFields, Reals(2), Times(2, Checked))
  BY StoreBounds, WordsAlike DEF Reals, Words
<1>4. Alike(PlainFields, Reals(3), Reals(3))
  BY StoreBounds, WordsAlike
<1>5. Alike(PlainFields, Times(4, Number(1)),
                         <<Enum(ThermalStates), Enum(ThermalStates), Enum(Deratings),
                           Enum(Deratings)>>)
  BY StoreBounds, OutcomesAlike
<1>6. Alike(PlainFields, Times(3, Number(1)), Times(3, Flag))
  BY StoreBounds, FlagPair, AlikeTimes
<1>7. Alike(PlainFields, Words(3), Words(3))
  BY StoreBounds, WordsAlike
<1>8. QED
  BY <1>1, <1>2, <1>3, <1>4, <1>5, <1>6, <1>7, OpeningJoined DEF VerificationWritten, VerificationRead

\* The same of the codecs of durable records (persistence.cpp, 112-749).
LEMMA RecordsAlike ==
  /\ \A k \in Kinds : /\ RecordRead[k] \in Seq(StoredFields)
                      /\ \A v : Encoded(RecordWritten[k], v) = Encoded(RecordRead[k], v)
                      /\ k # "couplings" => RecordRead[k] \in Seq(PlainFields)
  /\ CoordinatorRead \in Seq(ExactFields)
  /\ \A k \in Kinds : Opens(RecordRead[k])
<1>1. ASSUME NEW k \in Kinds, k # "couplings"
      PROVE  Opening(PlainFields, RecordWritten[k], RecordRead[k])
  BY <1>1, PoliciesAlike, DevicesAlike, DomainsAlike, TransitionsAlike, StoredActionsAlike, VerificationsAlike
  DEF Kinds, RecordWritten, RecordRead
<1>2. Alike(StoredFields, RecordWritten["couplings"], RecordRead["couplings"]) /\ Opens(RecordRead["couplings"])
  BY CouplingsAlike DEF RecordWritten, RecordRead
<1>3. \A k \in Kinds : Alike(StoredFields, RecordWritten[k], RecordRead[k])
  BY <1>1, <1>2, StoreBounds, AlikeWider DEF Opening
<1>4. \A k \in Kinds : k # "couplings" => RecordRead[k] \in Seq(PlainFields)
  BY <1>1 DEF Alike, Opening
<1>5. CoordinatorRead \in Seq(ExactFields)
  <2>1. Pair(ExactFields, Number(4), Number(4))
    BY ExactOnes, NumberPairs
  <2>2. Alike(ExactFields, <<Number(4)>>, <<Number(4)>>) /\ Alike(ExactFields, Words(5), Words(5))
    BY <2>1, ExactOnes, AlikeOne, WordsAlike
  <2>3. QED
    BY <2>2, AlikeJoined DEF CoordinatorRead, CoordinatorWritten, Alike
<1>6. \A k \in Kinds : Opens(RecordRead[k])
  BY <1>1, <1>2 DEF Opening
<1>7. QED
  BY <1>3, <1>4, <1>5, <1>6, AlikeEncoded

-----------------------------------------------------------------------------
(* Reading a plain field *)

\* A reader that is in order, at a place, with the values it has read.
Reached(at, value) == [ok |-> TRUE, returned |-> FALSE, at |-> at, value |-> value]

LEMMA ReachedIs ==
  ASSUME NEW c, NEW u
  PROVE  /\ Going(Reached(c, u)) /\ Reached(c, u).ok /\ ~Reached(c, u).returned
         /\ Reached(c, u).at = c /\ Reached(c, u).value = u
         /\ \A n, v : Got(Reached(c, u), n, v) = Reached(c + n, Append(u, v))
         /\ \A n : Within(Reached(c, u), n) = Reached(c + n, <<>>)
         /\ \A d, w, v : Wrapped(Reached(c, u), Reached(d, w), v) = Reached(d, Append(u, v))
         /\ ~Failed(Reached(c, u)).ok /\ ~Going(Failed(Reached(c, u)))
<1>1. PICK o, q : \A d, w : Reached(d, w) = [ok |-> o, returned |-> q, at |-> d, value |-> w]
  BY DEF Reached
<1>2. \A d, w : Going(Reached(d, w)) /\ Reached(d, w).ok /\ ~Reached(d, w).returned
  BY DEF Reached, Going
<1>3. ASSUME NEW d, NEW w, NEW n
      PROVE  /\ [Reached(d, w) EXCEPT !.at = n] = Reached(n, w)
             /\ [Reached(d, w) EXCEPT !.value = n] = Reached(d, n)
             /\ Reached(d, w).at = d /\ Reached(d, w).value = w
  <2> DEFINE r == Reached(d, w)
  <2>1. r = [ok |-> o, returned |-> q, at |-> d, value |-> w]
    BY <1>1
  <2> HIDE DEF r
  <2>2. /\ [r EXCEPT !.at = n] = [ok |-> o, returned |-> q, at |-> n, value |-> w]
        /\ [r EXCEPT !.value = n] = [ok |-> o, returned |-> q, at |-> d, value |-> n]
        /\ r.at = d /\ r.value = w
    BY <2>1
  <2>3. QED
    BY <1>1, <2>2 DEF r
<1>4. ASSUME NEW n PROVE Skipped(Reached(c, u), n) = Reached(c + n, u)
  <2> DEFINE r == Reached(c, u)
  <2>1. r.at = c /\ [r EXCEPT !.at = c + n] = Reached(c + n, u)
    BY <1>3
  <2>2. Skipped(r, n) = [r EXCEPT !.at = r.at + n]
    BY DEF Skipped
  <2> HIDE DEF r
  <2>3. Skipped(r, n) = Reached(c + n, u)
    BY <2>1, <2>2
  <2>4. QED
    BY <2>3 DEF r
<1>5. ASSUME NEW n, NEW v PROVE Got(Reached(c, u), n, v) = Reached(c + n, Append(u, v))
  <2> DEFINE r == Reached(c + n, u)
  <2>1. r.value = u /\ [r EXCEPT !.value = Append(u, v)] = Reached(c + n, Append(u, v))
    BY <1>3
  <2>2. Skipped(Reached(c, u), n) = r
    BY <1>4
  <2> HIDE DEF r
  <2>3. [r EXCEPT !.value = Append(r.value, v)] = Reached(c + n, Append(u, v))
    BY <2>1
  <2>4. QED
    BY <2>2, <2>3 DEF Got
<1>6. ASSUME NEW n PROVE Within(Reached(c, u), n) = Reached(c + n, <<>>)
  BY <1>3, <1>4 DEF Within
<1>7. ASSUME NEW d, NEW w, NEW v PROVE Wrapped(Reached(c, u), Reached(d, w), v) = Reached(d, Append(u, v))
  <2>1. Wrapped(Reached(c, u), Reached(d, w), v) = [Reached(d, w) EXCEPT !.value = Append(Reached(c, u).value, v)]
    BY DEF Wrapped
  <2>2. Reached(c, u).value = u /\ [Reached(d, w) EXCEPT !.value = Append(u, v)] = Reached(d, Append(u, v))
    BY <1>3
  <2>3. QED
    BY <2>1, <2>2
<1>8. ~Failed(Reached(c, u)).ok /\ ~Going(Failed(Reached(c, u)))
  BY DEF Reached, Failed, Going
<1>9. QED
  BY <1>2, <1>3, <1>5, <1>6, <1>7, <1>8

\* The value that a field's decoder keeps.
Shown(f, v) == IF f.kind = "forgotten" THEN <<0>> ELSE v

LEMMA ByteIs == \A x \in Byte : x \in Nat /\ (x < 2 => x = 0 \/ x = 1)
BY DEF Byte

LEMMA FirstOfOne ==
  ASSUME NEW S, NEW v \in Seq(S), Len(v) = 1
  PROVE  v[1] \in S /\ v = <<v[1]>>
OBVIOUS

\* The reader's step on a field whose encoding lies before it: it is read, up
\* to its end, as what the decoder keeps of it.
LEMMA PlainReads ==
  ASSUME NEW f \in Plain \cup Lone, NEW v, PlainValue(f, v), NEW b \in Seq(Byte), NEW c \in Nat, NEW u,
         Lies(b, c, PlainEncoded(f, v))
  PROVE  PlainField(b, Reached(c, u), f) = Reached(c + Len(PlainEncoded(f, v)), Append(u, Shown(f, v)))
<1> DEFINE r == Reached(c, u)
<1>1. r.at = c /\ Len(b) \in Nat /\ v \in Seq(Byte)
  BY ReachedIs, LenProperties, PlainBytes
<1>2. CASE f.kind = "text"
  <2> DEFINE n == Len(v)
             d == Digits(n, 4)
  <2>1. PlainEncoded(f, v) = d \o v /\ n \in Nat /\ n <= f.limit /\ n < Beyond /\ Fits(n)
    BY <1>2, PlainBytes
  <2>2. d \in Seq(Byte) /\ Len(d) = 4 /\ Size(d) = n
    BY <2>1, DigitsAreBytes, FourDigits
  <2> HIDE DEF d
  <2>3. Lies(b, c, d) /\ Lies(b, c + 4, v) /\ Len(d \o v) = 4 + n
    <3>1. Lies(b, c, d \o v)
      BY <2>1
    <3>2. Len(d \o v) = Len(d) + Len(v)
      BY <1>1, <2>2, ConcatProperties
    <3>3. Lies(b, c, d)
      BY <1>1, <2>2, <3>1, LiesJoined
    <3>4. Lies(b, c + Len(d), v)
      BY <1>1, <2>2, <3>1, LiesJoined
    <3>5. QED
      BY <2>2, <3>2, <3>3, <3>4
  <2>4. Piece(b, r, 4) = d
    BY <1>1, <2>2, <2>3, LiesPiece DEF Piece
  <2>5. SubSeq(b, (c + 4) + 1, (c + 4) + n) = v
    BY <1>1, <2>1, <2>3, LiesPiece
  <2>6. SubSeq(b, c + 5, c + 4 + n) = v
    <3>1. (c + 4) + 1 = c + 5
      OBVIOUS
    <3>2. QED
      BY <2>5, <3>1
  <2>7. (c + 4) + n <= Len(b)
    BY <2>3 DEF Lies
  <2>8. Need(b, r, 4) /\ Need(b, r, 4 + n)
    BY <1>1, <2>1, <2>7 DEF Need
  <2>9. PlainField(b, r, f) = Got(r, 4 + n, v)
    BY <1>1, <1>2, <2>1, <2>2, <2>4, <2>6, <2>8 DEF PlainField, TakeText
  <2>10. Shown(f, v) = v
    BY <1>2 DEF Shown
  <2>11. QED
    BY <2>1, <2>3, <2>9, <2>10, ReachedIs
<1>3. CASE f.kind # "text"
  <2> DEFINE w == Width(f)
  <2>1. PlainEncoded(f, v) = v /\ Len(v) = w /\ w \in Nat
    BY <1>3, PlainBytes, PlainKinds
  <2>2. Piece(b, r, w) = v
    BY <1>1, <2>1, LiesPiece DEF Piece
  <2>3. Need(b, r, w)
    <3>1. c + w <= Len(b)
      BY <2>1 DEF Lies
    <3>2. QED
      BY <1>1, <2>1, <3>1 DEF Need
  <2>4. Passes(f, v)
    BY <1>3 DEF PlainValue
  <2>5. Kept(f, v) = Shown(f, v)
    <3>1. CASE f.kind = "flag"
      <4>1. v[1] < 2 /\ Len(v) = 1
        BY <2>1, <3>1, PlainKinds DEF PlainValue
      <4>2. v[1] \in Byte /\ v = <<v[1]>>
        BY <1>1, <4>1, FirstOfOne
      <4>3. v[1] = 0 \/ v[1] = 1
        BY <4>1, <4>2, ByteIs, Zenon
      <4>4. Kept(f, v) = IF v[1] = 0 THEN <<0>> ELSE <<1>>
        BY <3>1 DEF Kept
      <4>5. Shown(f, v) = v
        BY <3>1 DEF Shown
      <4>6. QED
        BY <4>2, <4>3, <4>4, <4>5
    <3>2. CASE f.kind # "flag"
      BY <3>2 DEF Kept, Shown
    <3>3. QED
      BY <3>1, <3>2
  <2>6. f.kind = "return" => ~(v[1] >= f.bound)
    <3>1. ASSUME f.kind = "return" PROVE ~(v[1] >= f.bound)
      <4>1. v[1] < f.bound /\ f.bound \in Nat /\ Len(v) = 1
        BY <2>1, <3>1, PlainKinds DEF PlainValue, Returning
      <4>2. v[1] \in Nat
        BY <1>1, <4>1, FirstOfOne, ByteIs
      <4>3. QED
        BY <4>1, <4>2
    <3>2. QED
      BY <3>1
  <2> DEFINE q == Got(r, w, Kept(f, v))
  <2>7. q = Reached(c + w, Append(u, Shown(f, v)))
    BY <2>5, ReachedIs
  <2>8. PlainField(b, r, f) = q
    BY <1>3, <2>2, <2>3, <2>4, <2>6 DEF PlainField, Take
  <2>9. QED
    BY <2>1, <2>7, <2>8
<1>4. QED
  BY <1>2, <1>3

\* A step that was accepted has read the encoding of the value it shows, unless
\* the decoder keeps less than it read.
LEMMA PlainShows ==
  ASSUME NEW f \in Plain \cup Lone, NEW b \in Seq(Byte), NEW c \in Nat, NEW u,
         PlainField(b, Reached(c, u), f).ok,
         f.kind = "return" => ~PlainField(b, Reached(c, u), f).returned
  PROVE  \E v \in Seq(Byte), p \in Seq(Byte) :
           /\ PlainField(b, Reached(c, u), f) = Reached(c + Len(p), Append(u, v)) /\ Lies(b, c, p)
           /\ f.kind \notin {"flag", "forgotten"} => PlainValue(f, v) /\ p = PlainEncoded(f, v)
<1> DEFINE r == Reached(c, u)
<1>1. r.at = c /\ Len(b) \in Nat /\ ~Failed(r).ok
  BY ReachedIs, LenProperties
<1>2. CASE f.kind = "text"
  <2> DEFINE d == Piece(b, r, 4)
             n == Size(d)
             v == SubSeq(b, c + 5, c + 4 + n)
  <2>1. /\ PlainField(b, r, f) = Got(r, 4 + n, v)
        /\ Need(b, r, 4) /\ n <= f.limit /\ Need(b, r, 4 + n)
    BY <1>1, <1>2 DEF PlainField, TakeText
  <2>2. 4 <= Len(b) - c /\ 4 + n <= Len(b) - c
    BY <1>1, <2>1 DEF Need
  <2>3. d \in Seq(Byte) /\ Len(d) = 4 /\ Lies(b, c, d)
    BY <1>1, <2>2, PieceLies DEF Piece
  <2> HIDE DEF d
  <2>4. n \in Nat
    BY <2>3, SizeIsNat
  <2>5. f.limit \in 0..(Beyond - 1) /\ Beyond \in Nat
    BY <1>2, PlainKinds, BelowBeyond
  <2> HIDE DEF n
  <2>6. n < Beyond
    BY <2>1, <2>4, <2>5
  <2>7. Digits(n, 4) = d
    BY <2>3, <2>6, DigitsOfSize DEF n
  <2>8. SubSeq(b, (c + 4) + 1, (c + 4) + n) = v
    <3>1. (c + 4) + 1 = c + 5
      OBVIOUS
    <3>2. QED
      BY <3>1
  <2>9. v \in Seq(Byte) /\ Len(v) = n /\ Lies(b, c + 4, v)
    <3>1. (c + 4) + n <= Len(b) /\ c + 4 \in Nat
      BY <1>1, <2>2, <2>4
    <3> HIDE DEF v
    <3>2. QED
      BY <2>4, <2>8, <3>1, PieceLies
  <2> HIDE DEF v
  <2>10. d \o v \in Seq(Byte) /\ Len(d \o v) = 4 + n /\ Lies(b, c, d \o v)
    <3>1. Lies(b, c + Len(d), v)
      BY <2>3, <2>9
    <3>2. d \o v \in Seq(Byte) /\ Len(d \o v) = Len(d) + Len(v)
      <4>1. d \in Seq(Byte) /\ v \in Seq(Byte)
        BY <2>3, <2>9
      <4>2. QED
        BY ONLY <4>1, ConcatProperties
    <3>3. Lies(b, c, d \o v)
      BY <2>3, <2>9, <3>1, LiesJoined
    <3>4. QED
      BY <2>3, <2>9, <3>2, <3>3
  <2>11. PlainValue(f, v) /\ d \o v = PlainEncoded(f, v)
    BY <1>2, <2>1, <2>7, <2>9 DEF PlainValue, PlainEncoded
  <2>12. PlainField(b, r, f) = Reached(c + Len(d \o v), Append(u, v))
    BY <2>1, <2>10, ReachedIs
  <2>13. QED
    BY <2>9, <2>10, <2>11, <2>12
<1>3. CASE f.kind # "text"
  <2> DEFINE w == Width(f)
             p == Piece(b, r, w)
             v == Kept(f, p)
             q == Got(r, w, v)
  <2>1. w \in Nat
    BY PlainKinds
  <2>2. /\ Need(b, r, w) /\ Passes(f, p)
        /\ PlainField(b, r, f) = IF f.kind = "return" /\ p[1] >= f.bound THEN [q EXCEPT !.returned = TRUE] ELSE q
    BY <1>1, <1>3 DEF PlainField, Take
  <2>3. w <= Len(b) - c
    BY <1>1, <2>2 DEF Need
  <2>4. p \in Seq(Byte) /\ Len(p) = w /\ Lies(b, c, p)
    <3>1. c + w <= Len(b)
      BY <1>1, <2>1, <2>3
    <3>2. p = SubSeq(b, c + 1, c + w)
      BY <1>1 DEF Piece
    <3> HIDE DEF p
    <3>3. /\ SubSeq(b, c + 1, c + w) \in Seq(Byte) /\ Len(SubSeq(b, c + 1, c + w)) = w
          /\ Lies(b, c, SubSeq(b, c + 1, c + w))
      BY <2>1, <3>1, PieceLies
    <3>4. QED
      BY <3>2, <3>3
  <2>5. q = Reached(c + w, Append(u, v))
    BY ReachedIs
  <2> HIDE DEF p, w, q
  <2>6. PlainField(b, r, f) = q /\ (f.kind = "return" => p[1] < f.bound)
    <3>1. ASSUME f.kind = "return" PROVE PlainField(b, r, f) = q /\ p[1] < f.bound
      <4>1. w = 1 /\ f.bound \in Nat
        BY <3>1, PlainKinds DEF Returning, w
      <4>2. p[1] \in Nat
        BY <2>4, <4>1, FirstOfOne, ByteIs
      <4>3. ~(p[1] >= f.bound)
        <5>1. [q EXCEPT !.returned = TRUE].returned
          BY <2>5 DEF Reached
        <5>2. QED
          BY <2>2, <3>1, <5>1
      <4>4. QED
        BY <2>2, <4>1, <4>2, <4>3
    <3>2. QED
      BY <2>2, <3>1
  <2>7. v \in Seq(Byte)
    <3>1. <<0>> \in Seq(Byte) /\ <<1>> \in Seq(Byte)
      BY OneByte DEF Byte
    <3>2. QED
      BY <2>4, <3>1 DEF Kept
  <2>8. ASSUME f.kind \notin {"flag", "forgotten"} PROVE PlainValue(f, v) /\ p = PlainEncoded(f, v)
    <3>1. v = p
      BY <2>8 DEF Kept
    <3>2. PlainValue(f, p)
      BY <1>3, <2>2, <2>4, <2>6, <2>8 DEF PlainValue, w
    <3>3. PlainEncoded(f, p) = p
      BY <1>3, <3>2, PlainBytes
    <3>4. QED
      BY <3>1, <3>2, <3>3
  <2>9. PlainField(b, r, f) = Reached(c + Len(p), Append(u, v))
    BY <2>4, <2>5, <2>6
  <2> HIDE DEF v
  <2>10. QED
    BY <2>4, <2>7, <2>8, <2>9
<1>4. QED
  BY <1>2, <1>3

-----------------------------------------------------------------------------
(* Readers, whatever happened to them *)

IsReader(r) == DOMAIN r = {"ok", "returned", "at", "value"}

LEMMA ReaderKept ==
  ASSUME NEW r, IsReader(r)
  PROVE  /\ IsReader(Failed(r)) /\ IsReader([r EXCEPT !.returned = TRUE])
         /\ \A n : IsReader(Skipped(r, n)) /\ IsReader(Within(r, n))
         /\ \A n, v : IsReader(Got(r, n, v))
         /\ \A q, v : IsReader(Wrapped(q, r, v)) /\ Wrapped(q, r, v).ok = r.ok
                      /\ Wrapped(q, r, v).returned = r.returned
<1>1. ASSUME NEW s, IsReader(s), NEW n
      PROVE  /\ IsReader([s EXCEPT !.at = n]) /\ IsReader([s EXCEPT !.value = n])
             /\ [s EXCEPT !.value = n].ok = s.ok /\ [s EXCEPT !.value = n].returned = s.returned
  BY <1>1 DEF IsReader
<1>2. IsReader(Failed(r)) /\ IsReader([r EXCEPT !.returned = TRUE])
  BY DEF IsReader, Failed
<1>3. ASSUME NEW n PROVE IsReader(Skipped(r, n))
  BY <1>1 DEF Skipped
<1>4. ASSUME NEW n PROVE IsReader(Within(r, n))
  BY <1>1, <1>3 DEF Within
<1>5. ASSUME NEW n, NEW v PROVE IsReader(Got(r, n, v))
  BY <1>1, <1>3 DEF Got
<1>6. ASSUME NEW q, NEW v
      PROVE  IsReader(Wrapped(q, r, v)) /\ Wrapped(q, r, v).ok = r.ok /\ Wrapped(q, r, v).returned = r.returned
  BY <1>1 DEF Wrapped
<1>7. QED
  BY <1>2, <1>3, <1>4, <1>5, <1>6

LEMMA WrappedKept == \A q, r, v : IsReader(r) => Wrapped(q, r, v).ok = r.ok /\ Wrapped(q, r, v).returned = r.returned
BY ReaderKept

LEMMA GotIs == \A c, u, n, v : Got(Reached(c, u), n, v) = Reached(c + n, Append(u, v))
BY ReachedIs

LEMMA WithinIs == \A c, u, n : Within(Reached(c, u), n) = Reached(c + n, <<>>)
BY ReachedIs

LEMMA WrappedIs == \A c, u, d, w, v : Wrapped(Reached(c, u), Reached(d, w), v) = Reached(d, Append(u, v))
BY ReachedIs

LEMMA ReachedIsReader ==
  ASSUME NEW c, NEW u
  PROVE  IsReader(Reached(c, u))
BY DEF Reached, IsReader

LEMMA PlainKept ==
  ASSUME NEW b, NEW r, IsReader(r), NEW f
  PROVE  IsReader(PlainField(b, r, f))
<1>1. IsReader(TakeText(b, r, f.limit))
  BY ReaderKept DEF TakeText
<1>2. IsReader(Take(b, r, f))
  <2> DEFINE d == Piece(b, r, Width(f))
             q == Got(r, Width(f), Kept(f, d))
  <2>1. IsReader(q) /\ IsReader(Failed(r))
    BY ReaderKept
  <2>2. Take(b, r, f) \in {Failed(r), [q EXCEPT !.returned = TRUE], q}
    BY DEF Take
  <2> HIDE DEF q
  <2>3. IsReader([q EXCEPT !.returned = TRUE])
    BY <2>1, ReaderKept
  <2>4. QED
    BY <2>1, <2>2, <2>3
<1>3. QED
  BY <1>1, <1>2 DEF PlainField

LEMMA SimpleKept ==
  ASSUME NEW b, NEW r, IsReader(r), NEW f
  PROVE  IsReader(SimpleField(b, r, f))
<1>1. IsReader(PlainField(b, r, f)) /\ IsReader(Failed(r)) /\ IsReader(Got(r, 1, <<>>))
  BY PlainKept, ReaderKept
<1> DEFINE inner == PlainField(b, Within(r, 1), f.of)
<1>2. IsReader(inner)
  BY PlainKept, ReaderKept
<1>3. IsReader(Wrapped(r, inner, inner.value))
  BY <1>2, ReaderKept
<1>4. SimpleField(b, r, f) \in {PlainField(b, r, f), Failed(r), Got(r, 1, <<>>), Wrapped(r, inner, inner.value)}
  BY DEF SimpleField
<1> HIDE DEF inner
<1>5. QED
  BY <1>1, <1>3, <1>4

-----------------------------------------------------------------------------
(* Reading a field that may be absent *)

LEMMA PresenceReads ==
  ASSUME NEW b \in Seq(Byte), NEW c \in Nat, NEW u
  PROVE  /\ Lies(b, c, <<0>>) => Presence(b, Reached(c, u)) = "absent"
         /\ Lies(b, c, <<1>>) => Presence(b, Reached(c, u)) = "present"
         /\ Presence(b, Reached(c, u)) # "invalid" =>
              \/ Presence(b, Reached(c, u)) = "absent" /\ Lies(b, c, <<0>>)
              \/ Presence(b, Reached(c, u)) = "present" /\ Lies(b, c, <<1>>)
<1> DEFINE r == Reached(c, u)
<1>1. r.at = c /\ Len(b) \in Nat
  BY ReachedIs, LenProperties
<1>2. ASSUME NEW x PROVE Lies(b, c, <<x>>) <=> c + 1 <= Len(b) /\ b[c + 1] = x
  <2>1. Len(<<x>>) = 1 /\ <<x>>[1] = x
    OBVIOUS
  <2>2. QED
    BY <2>1 DEF Lies, Has
<1>3. Need(b, r, 1) <=> c + 1 <= Len(b)
  BY <1>1 DEF Need
<1>4. Next1(b, r) = b[c + 1]
  BY <1>1 DEF Next1
<1>5. c + 1 <= Len(b) => b[c + 1] \in Byte
  <2>1. ASSUME c + 1 <= Len(b) PROVE c + 1 \in 1..Len(b)
    BY <1>1, <2>1
  <2>2. QED
    BY <2>1, ElementOfSeq
<1> DEFINE x == b[c + 1]
<1>6. x \in Byte => x \in Nat /\ (~(x > 1) => x = 0 \/ x = 1)
  BY ByteIs
<1>7. Presence(b, r) = IF ~(c + 1 <= Len(b)) \/ x > 1 THEN "invalid" ELSE IF x = 0 THEN "absent" ELSE "present"
  BY <1>3, <1>4 DEF Presence
<1> HIDE DEF x, r
<1>8. /\ Lies(b, c, <<0>>) <=> (c + 1 <= Len(b) /\ x = 0)
      /\ Lies(b, c, <<1>>) <=> (c + 1 <= Len(b) /\ x = 1)
      /\ c + 1 <= Len(b) => x \in Byte
  BY <1>2, <1>5 DEF x
<1>9. QED
  BY <1>6, <1>7, <1>8 DEF r

LEMMA NotLone ==
  ASSUME NEW f \in Plain
  PROVE  /\ f \in Plain \cup Lone /\ f.kind \notin {"return", "forgotten", "maybe"}
         /\ \A v : Shown(f, v) = v
<1>1. f.kind \notin {"return", "forgotten", "maybe"}
  <2>1. CASE f \in Exact
    BY <2>1, PlainKinds
  <2>2. CASE f = Flag
    BY <2>2 DEF Flag
  <2>3. QED
    BY <2>1, <2>2 DEF Plain
<1>2. QED
  BY <1>1 DEF Shown

LEMMA SimpleReads ==
  ASSUME NEW f \in Simple(Plain) \cup Lone, NEW v, SimpleValue(f, v), NEW b \in Seq(Byte), NEW c \in Nat, NEW u,
         Lies(b, c, SimpleEncoded(f, v))
  PROVE  SimpleField(b, Reached(c, u), f) = Reached(c + Len(SimpleEncoded(f, v)), Append(u, Shown(f, v)))
<1> DEFINE r == Reached(c, u)
<1>1. CASE f \in Plain \cup Lone
  <2>1. f.kind # "maybe"
    BY <1>1, PlainKinds
  <2>2. PlainValue(f, v) /\ SimpleEncoded(f, v) = PlainEncoded(f, v) /\ SimpleField(b, r, f) = PlainField(b, r, f)
    BY <2>1 DEF SimpleValue, SimpleEncoded, SimpleField
  <2>3. QED
    BY <1>1, <2>2, PlainReads
<1>2. CASE f.kind = "maybe" /\ f.of \in Plain
  <2>1. Shown(f, v) = v
    BY <1>2 DEF Shown
  <2>2. CASE v = <<>>
    <3>1. SimpleEncoded(f, v) = <<0>> /\ Len(<<0>>) = 1
      BY <1>2, <2>2 DEF SimpleEncoded
    <3>2. Presence(b, r) = "absent"
      BY <3>1, PresenceReads
    <3>3. SimpleField(b, r, f) = Got(r, 1, <<>>)
      BY <1>2, <3>2 DEF SimpleField
    <3>4. Got(r, 1, <<>>) = Reached(c + 1, Append(u, <<>>))
      BY GotIs
    <3> HIDE DEF r
    <3>5. SimpleField(b, r, f) = Reached(c + Len(<<0>>), Append(u, <<>>))
      BY <3>1, <3>3, <3>4
    <3>6. QED
      BY <2>1, <2>2, <3>1, <3>5 DEF r
  <2>3. CASE v = <<v[1]>> /\ PlainValue(f.of, v[1])
    <3> DEFINE p == PlainEncoded(f.of, v[1])
               inner == PlainField(b, Within(r, 1), f.of)
    <3>1. SimpleEncoded(f, v) = <<1>> \o p /\ p \in Seq(Byte) /\ <<1>> \in Seq(Byte) /\ Len(<<1>>) = 1
      <4>1. v # <<>>
        BY <2>3, OneOf
      <4>2. <<1>> \in Seq(Byte) /\ Len(<<1>>) = 1
        BY OneByte DEF Byte
      <4>3. QED
        BY <1>2, <2>3, <4>1, <4>2, PlainBytes DEF SimpleEncoded
    <3> HIDE DEF p
    <3>2. Len(<<1>> \o p) = 1 + Len(p) /\ Len(p) \in Nat
      BY <3>1, ConcatProperties, LenProperties
    <3>3. Lies(b, c, <<1>> \o p)
      BY <3>1
    <3>4. Lies(b, c, <<1>>) /\ Lies(b, c + Len(<<1>>), p)
      BY <3>1, <3>3, LiesJoined
    <3>5. Presence(b, r) = "present"
      BY <3>4, PresenceReads
    <3>6. Within(r, 1) = Reached(c + 1, <<>>)
      BY ReachedIs
    <3>7. inner = Reached((c + 1) + Len(p), Append(<<>>, Shown(f.of, v[1])))
      <4>1. Lies(b, c + 1, p) /\ c + 1 \in Nat
        BY <3>1, <3>4
      <4>2. PlainField(b, Reached(c + 1, <<>>), f.of) = Reached((c + 1) + Len(p), Append(<<>>, Shown(f.of, v[1])))
        <5> DEFINE g == f.of
                   x == v[1]
        <5>1. g \in Plain \cup Lone /\ PlainValue(g, x) /\ Lies(b, c + 1, PlainEncoded(g, x)) /\ p = PlainEncoded(g, x)
          BY <1>2, <2>3, <4>1, NotLone DEF p
        <5> HIDE DEF g, x
        <5>2. PlainField(b, Reached(c + 1, <<>>), g) = Reached((c + 1) + Len(PlainEncoded(g, x)), Append(<<>>, Shown(g, x)))
          BY ONLY b \in Seq(Byte), <4>1, <5>1, PlainReads
        <5>3. QED
          BY <5>1, <5>2 DEF g, x
      <4>3. QED
        BY <3>6, <4>2
    <3> HIDE DEF inner
    <3>8. Append(<<>>, Shown(f.of, v[1])) = v
      <4>1. Shown(f.of, v[1]) = v[1]
        BY <1>2, NotLone
      <4>2. \A x : Append(<<>>, x) = <<x>>
        OBVIOUS
      <4>3. QED
        BY <2>3, <4>1, <4>2
    <3>9. SimpleField(b, r, f) = Wrapped(r, inner, inner.value)
      BY <1>2, <3>5 DEF SimpleField, inner
    <3>10. Wrapped(r, inner, v) = Reached((c + 1) + Len(p), Append(u, v)) /\ inner.value = v
      BY <3>7, <3>8, ReachedIs
    <3>11. (c + 1) + Len(p) = c + Len(SimpleEncoded(f, v))
      BY <3>1, <3>2
    <3>12. QED
      BY <2>1, <3>9, <3>10, <3>11
  <2>4. QED
    BY <1>2, <2>2, <2>3 DEF SimpleValue
<1>3. QED
  BY <1>1, <1>2 DEF Simple

LEMMA SimpleShows ==
  ASSUME NEW f \in Simple(Plain) \cup Lone, NEW b \in Seq(Byte), NEW c \in Nat, NEW u,
         SimpleField(b, Reached(c, u), f).ok,
         f.kind = "return" => ~SimpleField(b, Reached(c, u), f).returned
  PROVE  \E v \in SimpleValues, p \in Seq(Byte) :
           /\ SimpleField(b, Reached(c, u), f) = Reached(c + Len(p), Append(u, v)) /\ Lies(b, c, p)
           /\ f \in ExactSimple \cup Returning => SimpleValue(f, v) /\ p = SimpleEncoded(f, v)
<1> DEFINE r == Reached(c, u)
<1>1. CASE f \in Plain \cup Lone
  <2>1. f.kind # "maybe"
    BY <1>1, PlainKinds
  <2>2. \A v : (SimpleValue(f, v) <=> PlainValue(f, v)) /\ SimpleEncoded(f, v) = PlainEncoded(f, v)
    BY <2>1 DEF SimpleValue, SimpleEncoded
  <2>3. SimpleField(b, r, f) = PlainField(b, r, f)
    BY <2>1 DEF SimpleField
  <2>4. PICK v \in Seq(Byte), p \in Seq(Byte) :
           /\ PlainField(b, r, f) = Reached(c + Len(p), Append(u, v)) /\ Lies(b, c, p)
           /\ f.kind \notin {"flag", "forgotten"} => PlainValue(f, v) /\ p = PlainEncoded(f, v)
    BY <1>1, <2>3, PlainShows
  <2>5. f \in ExactSimple \cup Returning => f.kind \notin {"flag", "forgotten"}
    <3>1. f \in ExactSimple => f \in Exact
      BY <2>1 DEF ExactSimple, Simple
    <3>2. QED
      BY <1>1, <3>1, PlainKinds
  <2>6. v \in SimpleValues
    BY DEF SimpleValues
  <2>7. QED
    BY <2>2, <2>3, <2>4, <2>5, <2>6
<1>2. CASE f.kind = "maybe" /\ f.of \in Plain
  <2>0. <<0>> \in Seq(Byte) /\ <<1>> \in Seq(Byte) /\ Len(<<0>>) = 1 /\ Len(<<1>>) = 1
    BY OneByte DEF Byte
  <2>1. Presence(b, r) # "invalid"
    <3>1. ~Failed(r).ok
      BY ReachedIs
    <3>2. QED
      BY <1>2, <3>1 DEF SimpleField
  <2>2. CASE Presence(b, r) = "absent" /\ Lies(b, c, <<0>>)
    <3>1. SimpleField(b, r, f) = Got(r, 1, <<>>)
      BY <1>2, <2>2 DEF SimpleField
    <3>2. SimpleField(b, r, f) = Reached(c + Len(<<0>>), Append(u, <<>>))
      BY <2>0, <3>1, ReachedIs
    <3>3. SimpleValue(f, <<>>) /\ SimpleEncoded(f, <<>>) = <<0>>
      BY <1>2 DEF SimpleValue, SimpleEncoded
    <3>4. <<>> \in SimpleValues
      BY DEF SimpleValues
    <3>5. QED
      BY <2>0, <2>2, <3>2, <3>3, <3>4
  <2>3. CASE Presence(b, r) = "present" /\ Lies(b, c, <<1>>)
    <3> DEFINE inner == PlainField(b, Within(r, 1), f.of)
    <3>1. Within(r, 1) = Reached(c + 1, <<>>)
      BY ReachedIs
    <3>2. SimpleField(b, r, f) = Wrapped(r, inner, inner.value)
      BY <1>2, <2>3 DEF SimpleField
    <3>3. inner.ok
      <4>1. IsReader(inner)
        BY <3>1, PlainKept, ReachedIsReader
      <4>2. SimpleField(b, r, f).ok
        OBVIOUS
      <4> HIDE DEF inner, r
      <4>3. Wrapped(r, inner, inner.value).ok = inner.ok
        BY <4>1, WrappedKept
      <4>4. QED
        BY <3>2, <4>2, <4>3
    <3>4. PICK v \in Seq(Byte), p \in Seq(Byte) :
             /\ inner = Reached((c + 1) + Len(p), Append(<<>>, v)) /\ Lies(b, c + 1, p)
             /\ f.of.kind \notin {"flag", "forgotten"} => PlainValue(f.of, v) /\ p = PlainEncoded(f.of, v)
      <4>1. f.of.kind # "return" /\ f.of \in Plain \cup Lone /\ c + 1 \in Nat
        BY <1>2, NotLone
      <4>2. PlainField(b, Reached(c + 1, <<>>), f.of).ok /\ inner = PlainField(b, Reached(c + 1, <<>>), f.of)
        BY <3>1, <3>3
      <4> HIDE DEF inner
      <4>3. \E v \in Seq(Byte), p \in Seq(Byte) :
               /\ PlainField(b, Reached(c + 1, <<>>), f.of) = Reached((c + 1) + Len(p), Append(<<>>, v)) /\ Lies(b, c + 1, p)
               /\ f.of.kind \notin {"flag", "forgotten"} => PlainValue(f.of, v) /\ p = PlainEncoded(f.of, v)
        BY <4>1, <4>2, PlainShows
      <4>4. QED
        BY <4>2, <4>3
    <3> DEFINE w == <<v>>
               q == <<1>> \o p
    <3>5. w = Append(<<>>, v) /\ w \in Seq(Seq(Byte)) /\ w # <<>> /\ w[1] = v
      OBVIOUS
    <3>6. q \in Seq(Byte) /\ Len(q) = 1 + Len(p) /\ Len(p) \in Nat
      BY <2>0, ConcatProperties, LenProperties
    <3>7. Lies(b, c, q)
      <4>1. Lies(b, c + Len(<<1>>), p)
        BY <2>0, <3>4
      <4>2. QED
        BY <2>0, <2>3, <4>1, LiesJoined
    <3>8. ASSUME f \in ExactSimple PROVE SimpleValue(f, w) /\ q = SimpleEncoded(f, w)
      <4>1. f.of \in Exact
        <5>1. f \notin Exact
          BY <1>2, PlainKinds DEF Plain
        <5>2. QED
          BY <3>8, <5>1 DEF ExactSimple, Simple
      <4>2. f.of.kind \notin {"flag", "forgotten"}
        BY <4>1, PlainKinds DEF Plain
      <4>3. PlainValue(f.of, v) /\ p = PlainEncoded(f.of, v)
        BY <3>4, <4>2
      <4> HIDE DEF w
      <4>4. w = <<w[1]>>
        BY <3>5 DEF w
      <4>5. QED
        BY <1>2, <3>5, <4>3, <4>4 DEF SimpleValue, SimpleEncoded
    <3>9. SimpleField(b, r, f) = Reached(c + Len(q), Append(u, w))
      <4> HIDE DEF inner, w, q
      <4>1. inner.value = w /\ Wrapped(r, inner, w) = Reached((c + 1) + Len(p), Append(u, w))
        BY <3>4, <3>5, ReachedIs
      <4>2. (c + 1) + Len(p) = c + Len(q)
        BY <3>6
      <4>3. QED
        BY <3>2, <4>1, <4>2
    <3>10. f \notin Returning
      BY <1>2 DEF Returning
    <3> HIDE DEF w, q
    <3>11. w \in SimpleValues
      BY <3>5 DEF SimpleValues
    <3>12. QED
      BY <3>6, <3>7, <3>8, <3>9, <3>10, <3>11
  <2>4. QED
    BY <2>1, <2>2, <2>3, PresenceReads
<1>3. QED
  BY <1>1, <1>2 DEF Simple

-----------------------------------------------------------------------------
(* Loops *)

\* What holds after the last round, and before each round after which it
\* holds, holds at the start: a failure that latched is traced back.
LEMMA Downward ==
  ASSUME NEW n \in Nat, NEW S, n \in S, \A i \in 0..(n - 1) : i + 1 \in S => i \in S
  PROVE  0..n \subseteq S
<1> DEFINE T == {k \in 0..n : n - k \in S}
<1>1. 0 \in T
  <2>1. n - 0 = n
    OBVIOUS
  <2>2. QED
    BY <2>1
<1>2. ASSUME NEW k \in 0..(n - 1), k \in T PROVE k + 1 \in T
  <2> DEFINE i == n - (k + 1)
  <2>1. i \in 0..(n - 1) /\ i + 1 = n - k /\ k + 1 \in 0..n
    OBVIOUS
  <2>2. i + 1 \in S
    BY <1>2, <2>1
  <2> HIDE DEF i
  <2>3. i \in S
    BY <2>1, <2>2
  <2>4. QED
    BY <2>1, <2>3 DEF i
<1> HIDE DEF T
<1>3. 0..n \subseteq T
  BY <1>1, <1>2, Upward
<1>4. \A i \in 0..n : n - i \in 0..n /\ n - (n - i) = i
  OBVIOUS
<1>5. QED
  BY <1>3, <1>4 DEF T

Rounds(f, n) == f = [i \in 0..n |-> f[i]]

Longer(f, m, x) == [i \in 0..(m + 1) |-> IF i <= m THEN f[i] ELSE x]

LEMMA LongerIs ==
  ASSUME NEW m \in Nat, NEW f, NEW x
  PROVE  /\ Rounds(Longer(f, m, x), m + 1) /\ (\A i \in 0..m : Longer(f, m, x)[i] = f[i])
         /\ Longer(f, m, x)[m + 1] = x
BY DEF Rounds, Longer

\* Each round reads the piece of its number and adds the value of that number.
RoundsRead(after, n, b, ps, w) ==
  \A i \in 1..n : \A c \in Nat : \A u :
    after[i - 1] = Reached(c, u) /\ Lies(b, c, ps[i]) => after[i] = Reached(c + Len(ps[i]), Append(u, w[i]))

\* Each round reads some piece and adds some value that G allows.
RoundsShow(after, n, b, V, G) ==
  \A i \in 1..n : \A c \in Nat : \A u :
    c <= Len(b) /\ after[i - 1] = Reached(c, u) =>
      \E v \in V, p \in Seq(Byte) : <<i, v, p>> \in G /\ Lies(b, c, p) /\ after[i] = Reached(c + Len(p), Append(u, v))

\* A loop whose rounds each read one of the pieces that lie ahead reads them all.
LEMMA LineReads ==
  ASSUME NEW b \in Seq(Byte), NEW a \in Nat, NEW n \in Nat, NEW ps \in Seq(Seq(Byte)), Len(ps) = n,
         NEW V, NEW w \in Seq(V), Len(w) = n, Lies(b, a, FlattenSeq(ps)), NEW after, after[0] = Reached(a, <<>>),
         RoundsRead(after, n, b, ps, w)
  PROVE  after[n] = Reached(a + Len(FlattenSeq(ps)), w)
<1> DEFINE Good == {i \in 0..n : after[i] = Reached(a + Len(Glue(ps, i)), SubSeq(w, 1, i))}
<1>1. 0 \in Good
  <2>1. Glue(ps, 0) = <<>> /\ SubSeq(w, 1, 0) = <<>>
    <3>1. 0 \in 0..Len(w)
      OBVIOUS
    <3>2. QED
      BY <3>1, GlueSteps, FirstOnes
  <2>2. a + Len(<<>>) = a /\ 0 \in 0..n
    OBVIOUS
  <2>3. QED
    BY <2>1, <2>2
<1>2. ASSUME NEW i \in 0..(n - 1), i \in Good PROVE i + 1 \in Good
  <2> DEFINE j == i + 1
             m == Len(Glue(ps, i))
             c == a + m
             u == SubSeq(w, 1, i)
  <2>1. j \in 1..n /\ j - 1 = i /\ j \in 1..Len(ps) /\ j \in 0..n /\ j > 0 /\ j \in 0..Len(w)
    OBVIOUS
  <2> HIDE DEF j
  <2>2. /\ Lies(b, c, ps[j]) /\ m \in Nat /\ Len(ps[j]) \in Nat
        /\ Len(Glue(ps, j)) = m + Len(ps[j])
    BY <2>1, PiecesLie
  <2> HIDE DEF m
  <2>3. c \in Nat /\ c + Len(ps[j]) = a + (m + Len(ps[j]))
    <3>1. \A x, y, z \in Nat : x + y \in Nat /\ (x + y) + z = x + (y + z)
      OBVIOUS
    <3>2. QED
      BY <2>2, <3>1, Zenon
  <2>4. SubSeq(w, 1, j) = Append(u, w[j])
    BY <2>1, FirstOnes
  <2>5. after[j - 1] = Reached(c, u)
    <3>1. after[i] = Reached(c, u)
      BY <1>2 DEF m
    <3>2. QED
      BY <2>1, <3>1
  <2> HIDE DEF c, u
  <2>6. after[j] = Reached(c + Len(ps[j]), Append(u, w[j]))
    BY <2>1, <2>2, <2>3, <2>5 DEF RoundsRead
  <2>7. j \in Good
    BY <2>1, <2>2, <2>3, <2>4, <2>6
  <2>8. QED
    BY <2>7 DEF j
<1> HIDE DEF Good
<1>3. 0..n \subseteq Good
  BY <1>1, <1>2, Upward
<1>4. Glue(ps, n) = FlattenSeq(ps) /\ SubSeq(w, 1, n) = w
  BY GlueSteps, SubSeqFull
<1>5. n \in Good
  BY <1>3
<1>6. after[n] = Reached(a + Len(Glue(ps, n)), SubSeq(w, 1, n))
  BY ONLY <1>5 DEF Good
<1>7. QED
  BY <1>4, <1>6, Zenon

\* A loop whose rounds each read some piece has read a line of pieces.
LEMMA LineShows ==
  ASSUME NEW b \in Seq(Byte), NEW a \in Nat, a <= Len(b), NEW n \in Nat, NEW V, NEW G,
         NEW after, after[0] = Reached(a, <<>>),
         RoundsShow(after, n, b, V, G)
  PROVE  \E w \in Seq(V), ps \in Seq(Seq(Byte)) :
           /\ Len(w) = n /\ Len(ps) = n /\ \A i \in 1..n : <<i, w[i], ps[i]>> \in G
           /\ Lies(b, a, FlattenSeq(ps)) /\ after[n] = Reached(a + Len(FlattenSeq(ps)), w)
<1> DEFINE Line(k, w, ps) ==
             /\ Len(w) = k /\ Len(ps) = k /\ \A i \in 1..k : <<i, w[i], ps[i]>> \in G
             /\ Lies(b, a, FlattenSeq(ps)) /\ after[k] = Reached(a + Len(FlattenSeq(ps)), w)
           Good == {k \in 0..n : \E w \in Seq(V), ps \in Seq(Seq(Byte)) : Line(k, w, ps)}
<1>1. 0 \in Good
  <2>1. FlattenSeq(<<>>) = <<>> /\ <<>> \in Seq(V) /\ <<>> \in Seq(Seq(Byte)) /\ Len(<<>>) = 0
    BY FlattenNone
  <2>2. Lies(b, a, <<>>) /\ a + 0 = a
    <3>1. Len(b) \in Nat
      BY LenProperties
    <3>2. QED
      BY <3>1 DEF Lies, Has
  <2>3. Line(0, <<>>, <<>>)
    BY <2>1, <2>2
  <2> HIDE DEF Line
  <2>4. 0 \in 0..n
    OBVIOUS
  <2>5. QED
    BY ONLY <2>1, <2>3, <2>4
<1>2. ASSUME NEW k \in 0..(n - 1), k \in Good PROVE k + 1 \in Good
  <2> DEFINE j == k + 1
  <2>1. PICK w \in Seq(V), ps \in Seq(Seq(Byte)) : Line(k, w, ps)
    BY <1>2
  <2> DEFINE m == Len(FlattenSeq(ps))
             c == a + m
  <2>2. FlattenSeq(ps) \in Seq(Byte) /\ m \in Nat /\ c \in Nat /\ c <= Len(b)
    BY <2>1, FlattenIsSeq, LenProperties DEF Lies
  <2>3. j \in 1..n /\ j - 1 = k /\ j \in 0..n /\ k \in Nat
    OBVIOUS
  <2>4. after[j - 1] = Reached(c, w) /\ Lies(b, a, FlattenSeq(ps)) /\ Len(w) = k /\ Len(ps) = k
    BY <2>1, <2>3
  <2> HIDE DEF j, c
  <2>5. PICK v \in V, p \in Seq(Byte) :
          <<j, v, p>> \in G /\ Lies(b, c, p) /\ after[j] = Reached(c + Len(p), Append(w, v))
    <3>1. \A d \in Nat : \A u :
            d <= Len(b) /\ after[j - 1] = Reached(d, u) =>
              \E v \in V, p \in Seq(Byte) :
                <<j, v, p>> \in G /\ Lies(b, d, p) /\ after[j] = Reached(d + Len(p), Append(u, v))
      BY <2>3 DEF RoundsShow
    <3>2. c \in Nat /\ c <= Len(b) /\ after[j - 1] = Reached(c, w)
      BY <2>2, <2>4
    <3>3. QED
      BY ONLY <3>1, <3>2
  <2> DEFINE ww == Append(w, v)
             pp == Append(ps, p)
  <2>6. /\ ww \in Seq(V) /\ Len(ww) = j /\ ww[j] = v /\ \A i \in 1..k : ww[i] = w[i]
        /\ pp \in Seq(Seq(Byte)) /\ Len(pp) = j /\ pp[j] = p /\ \A i \in 1..k : pp[i] = ps[i]
    <3>1. Len(w) + 1 = j /\ Len(ps) + 1 = j
      BY <2>4 DEF j
    <3>2. QED
      BY <2>4, <3>1, AppendProperties
  <2>7. FlattenSeq(pp) = FlattenSeq(ps) \o p
    BY FlattenAppend
  <2> HIDE DEF ww, pp, m
  <2>8. Lies(b, a, FlattenSeq(pp)) /\ Len(FlattenSeq(pp)) = m + Len(p) /\ Len(p) \in Nat
    <3>1. Lies(b, a + Len(FlattenSeq(ps)), p)
      BY <2>5 DEF c, m
    <3>2. QED
      BY <2>2, <2>4, <2>7, <3>1, LiesJoined, LenProperties DEF m
  <2>9. \A i \in 1..j : <<i, ww[i], pp[i]>> \in G
    <3>1. \A i \in 1..j : i \in 1..k \/ i = j
      BY <2>3 DEF j
    <3>2. \A i \in 1..k : <<i, w[i], ps[i]>> \in G
      BY <2>1
    <3>3. QED
      BY <2>5, <2>6, <3>1, <3>2
  <2>10. after[j] = Reached(a + Len(FlattenSeq(pp)), ww)
    <3>1. c + Len(p) = a + (m + Len(p))
      BY <2>2, <2>8 DEF c
    <3>2. QED
      BY <2>5, <2>8, <3>1 DEF ww
  <2>11. Line(j, ww, pp)
    BY <2>6, <2>8, <2>9, <2>10
  <2> HIDE DEF Line
  <2>12. j \in Good
    BY <2>3, <2>6, <2>11
  <2>13. QED
    BY <2>12 DEF j
<1> HIDE DEF Good
<1>3. 0..n \subseteq Good
  BY <1>1, <1>2, Upward
<1>4. n \in 0..n
  OBVIOUS
<1>5. QED
  BY <1>3, <1>4 DEF Good

-----------------------------------------------------------------------------
(* What the loops' rounds make *)

PartLoop(b, r, part) ==
  CHOOSE h : h = [i \in 0..Len(part) |-> IF i = 0 THEN r ELSE AfterSimple(b, h[i - 1], part[i])]

LEMMA PartRun ==
  ASSUME NEW b, NEW r, NEW V, NEW part \in Seq(V)
  PROVE  /\ PartLoop(b, r, part)[0] = r /\ ReadPart(b, r, part) = PartLoop(b, r, part)[Len(part)]
         /\ \A i \in 1..Len(part) : PartLoop(b, r, part)[i] = AfterSimple(b, PartLoop(b, r, part)[i - 1], part[i])
<1> DEFINE n == Len(part)
           Up(f, m) == /\ f = [i \in 0..m |-> f[i]] /\ f[0] = r
                       /\ \A i \in 1..m : f[i] = AfterSimple(b, f[i - 1], part[i])
           T(h) == h = [i \in 0..n |-> IF i = 0 THEN r ELSE AfterSimple(b, h[i - 1], part[i])]
           G == {m \in 0..n : \E f : Up(f, m)}
<1>1. n \in Nat
  BY LenProperties
<1> HIDE DEF n
<1>2. 0 \in G
  <2> DEFINE f == [i \in 0..0 |-> r]
  <2>1. Up(f, 0)
    OBVIOUS
  <2> HIDE DEF f, Up
  <2>2. QED
    BY <1>1, <2>1
<1>3. ASSUME NEW m \in 0..(n - 1), m \in G PROVE m + 1 \in G
  <2>1. PICK f : Up(f, m)
    BY <1>3
  <2> DEFINE j == m + 1
             x == AfterSimple(b, f[m], part[j])
  <2>2. m \in Nat /\ j \in 0..n /\ \A i \in 1..j : i \in 1..m \/ (i = j /\ i - 1 = m)
    BY <1>1
  <2> HIDE DEF x
  <2> DEFINE g == Longer(f, m, x)
  <2>3. Rounds(g, m + 1) /\ (\A i \in 0..m : g[i] = f[i]) /\ g[m + 1] = x
    BY ONLY <2>2, LongerIs
  <2> HIDE DEF g
  <2> HIDE DEF j
  <2>4. g = [i \in 0..j |-> g[i]] /\ g[j] = x
    BY <2>3 DEF j, Rounds
  <2>5. g[0] = r
    <3>1. 0 \in 0..m /\ f[0] = r
      BY <2>1, <2>2
    <3>2. QED
      BY ONLY <2>3, <3>1
  <2>6. ASSUME NEW i \in 1..j PROVE g[i] = AfterSimple(b, g[i - 1], part[i])
    <3>1. CASE i \in 1..m
      <4>1. g[i] = f[i] /\ g[i - 1] = f[i - 1]
        <5>1. i \in 0..m /\ i - 1 \in 0..m
          BY <2>2, <3>1
        <5>2. QED
          BY <2>3, <5>1
      <4>2. f[i] = AfterSimple(b, f[i - 1], part[i])
        BY <2>1, <3>1
      <4>3. QED
        BY <4>1, <4>2
    <3>2. CASE i = j /\ i - 1 = m
      <4>1. m \in 0..m
        BY <2>2
      <4>2. g[i - 1] = f[m] /\ g[i] = x
        BY <2>3, <2>4, <3>2, <4>1
      <4>3. QED
        BY <3>2, <4>2 DEF x
    <3>3. QED
      BY <2>2, <3>1, <3>2
  <2>7. Up(g, j)
    BY <2>4, <2>5, <2>6
  <2> HIDE DEF Up
  <2>8. j \in G
    BY <2>2, <2>7
  <2>9. QED
    BY <2>8 DEF j
<1> HIDE DEF G
<1>4. 0..n \subseteq G
  BY <1>1, <1>2, <1>3, Upward
<1>5. n \in G
  BY <1>1, <1>4
<1>6. PICK f : Up(f, n)
  BY <1>5 DEF G
<1>7. T(f)
  <2>1. \A i \in 0..n : f[i] = IF i = 0 THEN r ELSE AfterSimple(b, f[i - 1], part[i])
    <3>1. \A i \in 0..n : i = 0 \/ (i # 0 /\ i \in 1..n)
      BY <1>1
    <3>2. f[0] = r /\ \A i \in 1..n : f[i] = AfterSimple(b, f[i - 1], part[i])
      BY <1>6
    <3>3. QED
      BY ONLY <3>1, <3>2
  <2>2. QED
    BY <1>6, <2>1
<1> DEFINE h == PartLoop(b, r, part)
<1>8. T(h)
  BY <1>7 DEF PartLoop, n
<1>9. ReadPart(b, r, part) = h[n]
  BY DEF ReadPart, PartLoop, n
<1> HIDE DEF h
<1>10. h[0] = r /\ \A i \in 1..n : h[i] = AfterSimple(b, h[i - 1], part[i])
  <2>1. \A i \in 0..n : h[i] = IF i = 0 THEN r ELSE AfterSimple(b, h[i - 1], part[i])
    BY <1>8
  <2>2. 0 \in 0..n /\ \A i \in 1..n : i \in 0..n /\ i # 0
    BY <1>1
  <2> HIDE DEF T
  <2>3. QED
    BY ONLY <2>1, <2>2
<1>11. QED
  BY <1>9, <1>10 DEF n, h

ItemsLoop(b, r, k, part) ==
  CHOOSE h : h = [i \in 0..k |-> IF i = 0 THEN r ELSE AfterItem(b, h[i - 1], part)]

LEMMA ItemsRun ==
  ASSUME NEW b, NEW r, NEW k \in Nat, NEW part
  PROVE  /\ ItemsLoop(b, r, k, part)[0] = r /\ ReadItems(b, r, k, part) = ItemsLoop(b, r, k, part)[k]
         /\ \A i \in 1..k : ItemsLoop(b, r, k, part)[i] = AfterItem(b, ItemsLoop(b, r, k, part)[i - 1], part)
<1> DEFINE n == k
           Up(f, m) == /\ f = [i \in 0..m |-> f[i]] /\ f[0] = r
                       /\ \A i \in 1..m : f[i] = AfterItem(b, f[i - 1], part)
           T(h) == h = [i \in 0..n |-> IF i = 0 THEN r ELSE AfterItem(b, h[i - 1], part)]
           G == {m \in 0..n : \E f : Up(f, m)}
<1>1. n \in Nat
  BY LenProperties
<1> HIDE DEF n
<1>2. 0 \in G
  <2> DEFINE f == [i \in 0..0 |-> r]
  <2>1. Up(f, 0)
    OBVIOUS
  <2> HIDE DEF f, Up
  <2>2. QED
    BY <1>1, <2>1
<1>3. ASSUME NEW m \in 0..(n - 1), m \in G PROVE m + 1 \in G
  <2>1. PICK f : Up(f, m)
    BY <1>3
  <2> DEFINE j == m + 1
             x == AfterItem(b, f[m], part)
  <2>2. m \in Nat /\ j \in 0..n /\ \A i \in 1..j : i \in 1..m \/ (i = j /\ i - 1 = m)
    BY <1>1
  <2> HIDE DEF x
  <2> DEFINE g == Longer(f, m, x)
  <2>3. Rounds(g, m + 1) /\ (\A i \in 0..m : g[i] = f[i]) /\ g[m + 1] = x
    BY ONLY <2>2, LongerIs
  <2> HIDE DEF g
  <2> HIDE DEF j
  <2>4. g = [i \in 0..j |-> g[i]] /\ g[j] = x
    BY <2>3 DEF j, Rounds
  <2>5. g[0] = r
    <3>1. 0 \in 0..m /\ f[0] = r
      BY <2>1, <2>2
    <3>2. QED
      BY ONLY <2>3, <3>1
  <2>6. ASSUME NEW i \in 1..j PROVE g[i] = AfterItem(b, g[i - 1], part)
    <3>1. CASE i \in 1..m
      <4>1. g[i] = f[i] /\ g[i - 1] = f[i - 1]
        <5>1. i \in 0..m /\ i - 1 \in 0..m
          BY <2>2, <3>1
        <5>2. QED
          BY <2>3, <5>1
      <4>2. f[i] = AfterItem(b, f[i - 1], part)
        BY <2>1, <3>1
      <4>3. QED
        BY <4>1, <4>2
    <3>2. CASE i = j /\ i - 1 = m
      <4>1. m \in 0..m
        BY <2>2
      <4>2. g[i - 1] = f[m] /\ g[i] = x
        BY <2>3, <2>4, <3>2, <4>1
      <4>3. QED
        BY <3>2, <4>2 DEF x
    <3>3. QED
      BY <2>2, <3>1, <3>2
  <2>7. Up(g, j)
    BY <2>4, <2>5, <2>6
  <2> HIDE DEF Up
  <2>8. j \in G
    BY <2>2, <2>7
  <2>9. QED
    BY <2>8 DEF j
<1> HIDE DEF G
<1>4. 0..n \subseteq G
  BY <1>1, <1>2, <1>3, Upward
<1>5. n \in G
  BY <1>1, <1>4
<1>6. PICK f : Up(f, n)
  BY <1>5 DEF G
<1>7. T(f)
  <2>1. \A i \in 0..n : f[i] = IF i = 0 THEN r ELSE AfterItem(b, f[i - 1], part)
    <3>1. \A i \in 0..n : i = 0 \/ (i # 0 /\ i \in 1..n)
      BY <1>1
    <3>2. f[0] = r /\ \A i \in 1..n : f[i] = AfterItem(b, f[i - 1], part)
      BY <1>6
    <3>3. QED
      BY ONLY <3>1, <3>2
  <2>2. QED
    BY <1>6, <2>1
<1> DEFINE h == ItemsLoop(b, r, k, part)
<1>8. T(h)
  BY <1>7 DEF ItemsLoop, n
<1>9. ReadItems(b, r, k, part) = h[n]
  BY DEF ReadItems, ItemsLoop, n
<1> HIDE DEF h
<1>10. h[0] = r /\ \A i \in 1..n : h[i] = AfterItem(b, h[i - 1], part)
  <2>1. \A i \in 0..n : h[i] = IF i = 0 THEN r ELSE AfterItem(b, h[i - 1], part)
    BY <1>8
  <2>2. 0 \in 0..n /\ \A i \in 1..n : i \in 0..n /\ i # 0
    BY <1>1
  <2> HIDE DEF T
  <2>3. QED
    BY ONLY <2>1, <2>2
<1>11. QED
  BY <1>9, <1>10 DEF n, h

LayoutLoop(b, r, layout) ==
  CHOOSE h : h = [i \in 0..Len(layout) |-> IF i = 0 THEN r ELSE AfterField(b, h[i - 1], layout[i])]

LEMMA LayoutRun ==
  ASSUME NEW b, NEW r, NEW V, NEW layout \in Seq(V)
  PROVE  /\ LayoutLoop(b, r, layout)[0] = r /\ Read(b, r, layout) = LayoutLoop(b, r, layout)[Len(layout)]
         /\ \A i \in 1..Len(layout) : LayoutLoop(b, r, layout)[i] = AfterField(b, LayoutLoop(b, r, layout)[i - 1], layout[i])
<1> DEFINE n == Len(layout)
           Up(f, m) == /\ f = [i \in 0..m |-> f[i]] /\ f[0] = r
                       /\ \A i \in 1..m : f[i] = AfterField(b, f[i - 1], layout[i])
           T(h) == h = [i \in 0..n |-> IF i = 0 THEN r ELSE AfterField(b, h[i - 1], layout[i])]
           G == {m \in 0..n : \E f : Up(f, m)}
<1>1. n \in Nat
  BY LenProperties
<1> HIDE DEF n
<1>2. 0 \in G
  <2> DEFINE f == [i \in 0..0 |-> r]
  <2>1. Up(f, 0)
    OBVIOUS
  <2> HIDE DEF f, Up
  <2>2. QED
    BY <1>1, <2>1
<1>3. ASSUME NEW m \in 0..(n - 1), m \in G PROVE m + 1 \in G
  <2>1. PICK f : Up(f, m)
    BY <1>3
  <2> DEFINE j == m + 1
             x == AfterField(b, f[m], layout[j])
  <2>2. m \in Nat /\ j \in 0..n /\ \A i \in 1..j : i \in 1..m \/ (i = j /\ i - 1 = m)
    BY <1>1
  <2> HIDE DEF x
  <2> DEFINE g == Longer(f, m, x)
  <2>3. Rounds(g, m + 1) /\ (\A i \in 0..m : g[i] = f[i]) /\ g[m + 1] = x
    BY ONLY <2>2, LongerIs
  <2> HIDE DEF g
  <2> HIDE DEF j
  <2>4. g = [i \in 0..j |-> g[i]] /\ g[j] = x
    BY <2>3 DEF j, Rounds
  <2>5. g[0] = r
    <3>1. 0 \in 0..m /\ f[0] = r
      BY <2>1, <2>2
    <3>2. QED
      BY ONLY <2>3, <3>1
  <2>6. ASSUME NEW i \in 1..j PROVE g[i] = AfterField(b, g[i - 1], layout[i])
    <3>1. CASE i \in 1..m
      <4>1. g[i] = f[i] /\ g[i - 1] = f[i - 1]
        <5>1. i \in 0..m /\ i - 1 \in 0..m
          BY <2>2, <3>1
        <5>2. QED
          BY <2>3, <5>1
      <4>2. f[i] = AfterField(b, f[i - 1], layout[i])
        BY <2>1, <3>1
      <4>3. QED
        BY <4>1, <4>2
    <3>2. CASE i = j /\ i - 1 = m
      <4>1. m \in 0..m
        BY <2>2
      <4>2. g[i - 1] = f[m] /\ g[i] = x
        BY <2>3, <2>4, <3>2, <4>1
      <4>3. QED
        BY <3>2, <4>2 DEF x
    <3>3. QED
      BY <2>2, <3>1, <3>2
  <2>7. Up(g, j)
    BY <2>4, <2>5, <2>6
  <2> HIDE DEF Up
  <2>8. j \in G
    BY <2>2, <2>7
  <2>9. QED
    BY <2>8 DEF j
<1> HIDE DEF G
<1>4. 0..n \subseteq G
  BY <1>1, <1>2, <1>3, Upward
<1>5. n \in G
  BY <1>1, <1>4
<1>6. PICK f : Up(f, n)
  BY <1>5 DEF G
<1>7. T(f)
  <2>1. \A i \in 0..n : f[i] = IF i = 0 THEN r ELSE AfterField(b, f[i - 1], layout[i])
    <3>1. \A i \in 0..n : i = 0 \/ (i # 0 /\ i \in 1..n)
      BY <1>1
    <3>2. f[0] = r /\ \A i \in 1..n : f[i] = AfterField(b, f[i - 1], layout[i])
      BY <1>6
    <3>3. QED
      BY ONLY <3>1, <3>2
  <2>2. QED
    BY <1>6, <2>1
<1> DEFINE h == LayoutLoop(b, r, layout)
<1>8. T(h)
  BY <1>7 DEF LayoutLoop, n
<1>9. Read(b, r, layout) = h[n]
  BY DEF Read, LayoutLoop, n
<1> HIDE DEF h
<1>10. h[0] = r /\ \A i \in 1..n : h[i] = AfterField(b, h[i - 1], layout[i])
  <2>1. \A i \in 0..n : h[i] = IF i = 0 THEN r ELSE AfterField(b, h[i - 1], layout[i])
    BY <1>8
  <2>2. 0 \in 0..n /\ \A i \in 1..n : i \in 0..n /\ i # 0
    BY <1>1
  <2> HIDE DEF T
  <2>3. QED
    BY ONLY <2>1, <2>2
<1>11. QED
  BY <1>9, <1>10 DEF n, h

-----------------------------------------------------------------------------
(* Reading the parts of a layout *)

LEMMA PartKept ==
  ASSUME NEW b, NEW r, IsReader(r), NEW V, NEW part \in Seq(V)
  PROVE  IsReader(ReadPart(b, r, part))
<1> DEFINE n == Len(part)
<1>1. n \in Nat
  BY LenProperties
<1> DEFINE after == PartLoop(b, r, part)
<1>2. /\ after[0] = r /\ ReadPart(b, r, part) = after[n]
      /\ \A i \in 1..n : after[i] = AfterSimple(b, after[i - 1], part[i])
  BY PartRun
<1> HIDE DEF after
<1> HIDE DEF n
<1> DEFINE Good == {i \in 0..n : IsReader(after[i])}
<1>3. 0 \in Good
  BY <1>1, <1>2
<1>4. ASSUME NEW i \in 0..(n - 1), i \in Good PROVE i + 1 \in Good
  <2> DEFINE j == i + 1
  <2>1. j \in 1..n /\ j - 1 = i /\ j \in 0..n
    BY <1>1
  <2> HIDE DEF j
  <2>2. after[j] = AfterSimple(b, after[i], part[j]) /\ IsReader(after[i])
    BY <1>2, <1>4, <2>1
  <2>3. IsReader(after[j])
    BY <2>2, SimpleKept DEF AfterSimple
  <2>4. j \in Good
    BY <2>1, <2>3
  <2>5. QED
    BY <2>4 DEF j
<1> HIDE DEF Good
<1>5. 0..n \subseteq Good
  BY <1>1, <1>3, <1>4, Upward
<1>6. n \in Good
  BY <1>1, <1>5
<1>7. QED
  BY <1>2, <1>6 DEF Good

LEMMA SimpleIsShown ==
  ASSUME NEW f \in Simple(Plain)
  PROVE  /\ f.kind \notin {"return", "forgotten", "optional", "many"} /\ \A v : Shown(f, v) = v
<1>1. CASE f \in Plain
  BY <1>1, NotLone, PlainKinds
<1>2. CASE f \in [kind : {"maybe"}, of : Plain]
  BY <1>2 DEF Shown
<1>3. QED
  BY <1>1, <1>2 DEF Simple

\* A whole part is read where its encoding lies.
LEMMA PartReads ==
  ASSUME NEW part \in Seq(Simple(Plain)), NEW value, PartValue(part, value), NEW b \in Seq(Byte), NEW a \in Nat,
         Lies(b, a, PartEncoded(part, value))
  PROVE  ReadPart(b, Reached(a, <<>>), part) = Reached(a + Len(PartEncoded(part, value)), value)
<1> DEFINE n == Len(part)
           ps == PartPieces(part, value)
<1>1. /\ n \in Nat /\ ps \in Seq(Seq(Byte)) /\ Len(ps) = n /\ value \in Seq(SimpleValues) /\ Len(value) = n
      /\ PartEncoded(part, value) = FlattenSeq(ps)
      /\ \A i \in 1..n : ps[i] = SimpleEncoded(part[i], value[i])
  BY PartBytes, LenProperties DEF PartValues
<1> DEFINE after == PartLoop(b, Reached(a, <<>>), part)
<1>2. /\ after[0] = Reached(a, <<>>) /\ ReadPart(b, Reached(a, <<>>), part) = after[n]
      /\ \A i \in 1..n : after[i] = AfterSimple(b, after[i - 1], part[i])
  BY PartRun
<1> HIDE DEF after
<1>3. ASSUME NEW i \in 1..n PROVE part[i] \in Simple(Plain) /\ SimpleValue(part[i], value[i])
  BY ElementOfSeq DEF PartValue
<1> HIDE DEF n, ps
<1>4. ASSUME NEW i \in 1..n, NEW c \in Nat, NEW u, after[i - 1] = Reached(c, u), Lies(b, c, ps[i])
      PROVE  after[i] = Reached(c + Len(ps[i]), Append(u, value[i]))
  <2>1. Lies(b, c, SimpleEncoded(part[i], value[i]))
    BY <1>1, <1>4
  <2>2. Shown(part[i], value[i]) = value[i]
    BY <1>3, SimpleIsShown
  <2>3. SimpleField(b, Reached(c, u), part[i])
          = Reached(c + Len(SimpleEncoded(part[i], value[i])), Append(u, Shown(part[i], value[i])))
    BY <1>3, <2>1, SimpleReads
  <2>4. after[i] = SimpleField(b, Reached(c, u), part[i])
    <3>1. Going(Reached(c, u))
      BY ReachedIs
    <3>2. after[i] = AfterSimple(b, Reached(c, u), part[i])
      BY <1>2, <1>4
    <3>3. QED
      BY <3>1, <3>2 DEF AfterSimple
  <2>5. QED
    BY <1>1, <2>2, <2>3, <2>4
<1>5. after[n] = Reached(a + Len(FlattenSeq(ps)), value)
  <2>1. Lies(b, a, FlattenSeq(ps))
    BY <1>1
  <2>2. /\ b \in Seq(Byte) /\ a \in Nat /\ n \in Nat /\ ps \in Seq(Seq(Byte)) /\ Len(ps) = n
        /\ value \in Seq(SimpleValues) /\ Len(value) = n /\ after[0] = Reached(a, <<>>)
    BY <1>1, <1>2
  <2>3. RoundsRead(after, n, b, ps, value)
    BY <1>4 DEF RoundsRead
  <2>4. QED
    BY ONLY <2>1, <2>2, <2>3, LineReads
<1>6. QED
  BY <1>1, <1>2, <1>5

\* A part that was accepted is the encoding of its value, with the same proviso.
LEMMA PartShows ==
  ASSUME NEW part \in Seq(Simple(Plain)), NEW b \in Seq(Byte), NEW a \in Nat, a <= Len(b),
         ReadPart(b, Reached(a, <<>>), part).ok
  PROVE  \E v \in PartValues, p \in Seq(Byte) :
           /\ ReadPart(b, Reached(a, <<>>), part) = Reached(a + Len(p), v) /\ Lies(b, a, p)
           /\ part \in Seq(ExactSimple) => PartValue(part, v) /\ p = PartEncoded(part, v)
<1> DEFINE n == Len(part)
           G == {t \in Nat \X SimpleValues \X Seq(Byte) :
                   part \in Seq(ExactSimple) =>
                     SimpleValue(part[t[1]], t[2]) /\ t[3] = SimpleEncoded(part[t[1]], t[2])}
<1>1. n \in Nat /\ DOMAIN part = 1..n
  BY LenProperties
<1> DEFINE after == PartLoop(b, Reached(a, <<>>), part)
<1>2. /\ after[0] = Reached(a, <<>>) /\ ReadPart(b, Reached(a, <<>>), part) = after[n]
      /\ \A i \in 1..n : after[i] = AfterSimple(b, after[i - 1], part[i])
  BY PartRun
<1> HIDE DEF after
<1>3. ASSUME NEW i \in 1..n
      PROVE  part[i] \in Simple(Plain) /\ (part \in Seq(ExactSimple) => part[i] \in ExactSimple)
  BY ElementOfSeq
<1> HIDE DEF n
<1> DEFINE Good == {i \in 0..n : after[i].ok}
<1>4. 0..n \subseteq Good
  <2>1. n \in Good
    BY <1>1, <1>2
  <2>2. ASSUME NEW i \in 0..(n - 1), i + 1 \in Good PROVE i \in Good
    <3> DEFINE j == i + 1
    <3>1. j \in 1..n /\ j - 1 = i /\ i \in 0..n /\ after[j].ok
      BY <1>1, <2>2
    <3> HIDE DEF j
    <3>2. after[j] = AfterSimple(b, after[i], part[j])
      BY <1>2, <3>1
    <3>3. after[i].ok
      BY <3>1, <3>2 DEF AfterSimple, Going
    <3>4. QED
      BY <3>1, <3>3
  <2> HIDE DEF Good
  <2>3. QED
    BY <1>1, <2>1, <2>2, Downward
<1>5. ASSUME NEW i \in 1..n, NEW c \in Nat, NEW u, c <= Len(b), after[i - 1] = Reached(c, u)
      PROVE  \E v \in SimpleValues, p \in Seq(Byte) :
               <<i, v, p>> \in G /\ Lies(b, c, p) /\ after[i] = Reached(c + Len(p), Append(u, v))
  <2>1. after[i].ok
    BY <1>1, <1>4
  <2>2. after[i] = SimpleField(b, Reached(c, u), part[i])
    <3>1. Going(Reached(c, u))
      BY ReachedIs
    <3>2. after[i] = AfterSimple(b, Reached(c, u), part[i])
      BY <1>2, <1>5
    <3>3. QED
      BY <3>1, <3>2 DEF AfterSimple
  <2>3. part[i].kind # "return" /\ part[i] \in Simple(Plain) \cup Lone
    BY <1>3, SimpleIsShown
  <2>4. PICK v \in SimpleValues, p \in Seq(Byte) :
          /\ SimpleField(b, Reached(c, u), part[i]) = Reached(c + Len(p), Append(u, v)) /\ Lies(b, c, p)
          /\ part[i] \in ExactSimple \cup Returning => SimpleValue(part[i], v) /\ p = SimpleEncoded(part[i], v)
    BY <2>1, <2>2, <2>3, SimpleShows
  <2>5. <<i, v, p>> \in G
    <3> DEFINE t == <<i, v, p>>
    <3>1. t[1] = i /\ t[2] = v /\ t[3] = p
      OBVIOUS
    <3>2. t \in Nat \X SimpleValues \X Seq(Byte)
      BY <1>1
    <3> HIDE DEF t
    <3>3. part \in Seq(ExactSimple) => SimpleValue(part[t[1]], t[2]) /\ t[3] = SimpleEncoded(part[t[1]], t[2])
      BY <1>3, <2>4, <3>1
    <3>4. t \in G
      BY <3>2, <3>3
    <3>5. QED
      BY <3>4 DEF t
  <2>6. QED
    BY <2>2, <2>4, <2>5
<1> HIDE DEF G
<1>6. PICK w \in Seq(SimpleValues), ps \in Seq(Seq(Byte)) :
        /\ Len(w) = n /\ Len(ps) = n /\ \A i \in 1..n : <<i, w[i], ps[i]>> \in G
        /\ Lies(b, a, FlattenSeq(ps)) /\ after[n] = Reached(a + Len(FlattenSeq(ps)), w)
  <2>1. b \in Seq(Byte) /\ a \in Nat /\ a <= Len(b) /\ n \in Nat /\ after[0] = Reached(a, <<>>)
    BY <1>1, <1>2
  <2>2. RoundsShow(after, n, b, SimpleValues, G)
    BY <1>5 DEF RoundsShow
  <2>3. QED
    BY ONLY <2>1, <2>2, LineShows
<1>7. ASSUME part \in Seq(ExactSimple) PROVE PartValue(part, w) /\ FlattenSeq(ps) = PartEncoded(part, w)
  <2>1. ASSUME NEW i \in 1..n PROVE SimpleValue(part[i], w[i]) /\ ps[i] = SimpleEncoded(part[i], w[i])
    <3> DEFINE t == <<i, w[i], ps[i]>>
    <3>1. t[1] = i /\ t[2] = w[i] /\ t[3] = ps[i]
      OBVIOUS
    <3>2. t \in G
      BY <1>6
    <3> HIDE DEF t
    <3>3. QED
      BY <1>7, <3>1, <3>2 DEF G
  <2>2. w = [i \in 1..n |-> w[i]]
    BY <1>6, LenProperties
  <2>3. PartValue(part, w)
    BY <1>1, <2>1, <2>2 DEF PartValue
  <2>4. /\ PartPieces(part, w) \in Seq(Seq(Byte)) /\ Len(PartPieces(part, w)) = n
        /\ \A i \in 1..n : PartPieces(part, w)[i] = SimpleEncoded(part[i], w[i])
        /\ PartEncoded(part, w) = FlattenSeq(PartPieces(part, w))
    BY <2>3, PartBytes DEF n
  <2>5. PartPieces(part, w) = ps
    <3>1. \A i \in 1..n : PartPieces(part, w)[i] = ps[i]
      BY <2>1, <2>4
    <3>2. PartPieces(part, w) \in Seq(Seq(Byte)) /\ ps \in Seq(Seq(Byte)) /\ Len(PartPieces(part, w)) = n /\ Len(ps) = n
      BY <1>6, <2>4
    <3>3. QED
      BY ONLY <3>1, <3>2, SeqEqual
  <2>6. QED
    BY <2>3, <2>4, <2>5
<1>8. FlattenSeq(ps) \in Seq(Byte) /\ w \in PartValues
  BY FlattenIsSeq DEF PartValues
<1>9. QED
  BY <1>2, <1>6, <1>7, <1>8

LEMMA AfterItemIs ==
  ASSUME NEW b, NEW c \in Nat, NEW u, NEW part
  PROVE  AfterItem(b, Reached(c, u), part) =
           Wrapped(Reached(c, u), ReadPart(b, Reached(c, <<>>), part), ReadPart(b, Reached(c, <<>>), part).value)
<1>1. Within(Reached(c, u), 0) = Reached(c + 0, <<>>)
  BY WithinIs
<1>2. c + 0 = c /\ Going(Reached(c, u))
  BY ReachedIs
<1>3. QED
  BY <1>1, <1>2 DEF AfterItem

LEMMA ItemsKept ==
  ASSUME NEW b, NEW r, IsReader(r), NEW k \in Nat, NEW V, NEW part \in Seq(V)
  PROVE  IsReader(ReadItems(b, r, k, part))
<1> DEFINE after == ItemsLoop(b, r, k, part)
<1>1. /\ after[0] = r /\ ReadItems(b, r, k, part) = after[k]
      /\ \A i \in 1..k : after[i] = AfterItem(b, after[i - 1], part)
  BY ItemsRun
<1> HIDE DEF after
<1> DEFINE Good == {i \in 0..k : IsReader(after[i])}
<1>2. 0 \in Good
  BY <1>1
<1>3. ASSUME NEW i \in 0..(k - 1), i \in Good PROVE i + 1 \in Good
  <2> DEFINE j == i + 1
             q == after[i]
             inner == ReadPart(b, Within(q, 0), part)
  <2>1. j \in 1..k /\ j - 1 = i /\ j \in 0..k
    OBVIOUS
  <2> HIDE DEF j
  <2>2. after[j] = AfterItem(b, q, part) /\ IsReader(q)
    BY <1>1, <1>3, <2>1
  <2> HIDE DEF q
  <2>3. IsReader(Within(q, 0))
    BY <2>2, ReaderKept
  <2>4. IsReader(inner)
    BY <2>3, PartKept
  <2> HIDE DEF inner
  <2>5. IsReader(Wrapped(q, inner, inner.value))
    BY <2>4, ReaderKept
  <2>6. AfterItem(b, q, part) = IF Going(q) THEN Wrapped(q, inner, inner.value) ELSE q
    BY DEF AfterItem, inner
  <2>7. IsReader(after[j])
    BY <2>2, <2>5, <2>6
  <2>8. j \in Good
    BY <2>1, <2>7
  <2>9. QED
    BY <2>8 DEF j
<1> HIDE DEF Good
<1>4. 0..k \subseteq Good
  BY <1>2, <1>3, Upward
<1>5. k \in Good
  BY <1>4
<1>6. QED
  BY <1>1, <1>5 DEF Good

LEMMA LineOfItemsReads ==
  ASSUME NEW part \in Seq(Simple(Plain)), NEW n \in Nat, NEW ps \in Seq(Seq(Byte)), Len(ps) = n,
         NEW v \in Seq(PartValues), Len(v) = n,
         \A i \in 1..n : PartValue(part, v[i]) /\ ps[i] = PartEncoded(part, v[i]),
         NEW b \in Seq(Byte), NEW a \in Nat, Lies(b, a, FlattenSeq(ps))
  PROVE  ReadItems(b, Reached(a, <<>>), n, part) = Reached(a + Len(FlattenSeq(ps)), v)
<1> DEFINE after == ItemsLoop(b, Reached(a, <<>>), n, part)
<1>1. /\ after[0] = Reached(a, <<>>) /\ ReadItems(b, Reached(a, <<>>), n, part) = after[n]
      /\ \A i \in 1..n : after[i] = AfterItem(b, after[i - 1], part)
  BY ItemsRun
<1> HIDE DEF after
<1>2. ASSUME NEW i \in 1..n, NEW c \in Nat, NEW u, after[i - 1] = Reached(c, u), Lies(b, c, ps[i])
      PROVE  after[i] = Reached(c + Len(ps[i]), Append(u, v[i]))
  <2>1. ReadPart(b, Reached(c, <<>>), part) = Reached(c + Len(ps[i]), v[i])
    <3>1. Lies(b, c, PartEncoded(part, v[i])) /\ PartValue(part, v[i])
      BY <1>2
    <3>2. ReadPart(b, Reached(c, <<>>), part) = Reached(c + Len(PartEncoded(part, v[i])), v[i])
      BY <3>1, PartReads
    <3>3. QED
      BY <3>2
  <2>2. after[i] = Wrapped(Reached(c, u), Reached(c + Len(ps[i]), v[i]), Reached(c + Len(ps[i]), v[i]).value)
    <3>1. after[i] = AfterItem(b, Reached(c, u), part)
      BY <1>1, <1>2
    <3>2. QED
      BY <2>1, <3>1, AfterItemIs
  <2>3. Reached(c + Len(ps[i]), v[i]).value = v[i]
    BY DEF Reached
  <2>4. QED
    BY <2>2, <2>3, WrappedIs
<1>3. after[n] = Reached(a + Len(FlattenSeq(ps)), v)
  <2>1. RoundsRead(after, n, b, ps, v)
    BY <1>2 DEF RoundsRead
  <2>2. /\ b \in Seq(Byte) /\ a \in Nat /\ n \in Nat /\ ps \in Seq(Seq(Byte)) /\ Len(ps) = n
        /\ v \in Seq(PartValues) /\ Len(v) = n /\ after[0] = Reached(a, <<>>) /\ Lies(b, a, FlattenSeq(ps))
    BY <1>1
  <2>3. QED
    BY ONLY <2>1, <2>2, LineReads
<1>4. QED
  BY <1>1, <1>3

LEMMA ItemsReads ==
  ASSUME NEW f, f.of \in Seq(Simple(Plain)), f.limit \in 0..(Beyond - 1), NEW v, ItemsValue(f, v),
         NEW b \in Seq(Byte), NEW a \in Nat, Lies(b, a, FlattenSeq(ItemPieces(f.of, v)))
  PROVE  ReadItems(b, Reached(a, <<>>), Len(v), f.of) = Reached(a + Len(FlattenSeq(ItemPieces(f.of, v))), v)
<1> DEFINE n == Len(v)
           ps == ItemPieces(f.of, v)
           part == f.of
<1>1. /\ n \in Nat /\ ps \in Seq(Seq(Byte)) /\ Len(ps) = n /\ v \in Seq(PartValues) /\ Len(v) = n
      /\ \A i \in 1..n : ps[i] = PartEncoded(part, v[i])
  BY ItemsBytes
<1>2. \A i \in 1..n : PartValue(part, v[i]) /\ ps[i] = PartEncoded(part, v[i])
  BY <1>1 DEF ItemsValue
<1>3. part \in Seq(Simple(Plain)) /\ Lies(b, a, FlattenSeq(ps)) /\ b \in Seq(Byte) /\ a \in Nat
  OBVIOUS
<1> HIDE DEF n, ps, part
<1>4. ReadItems(b, Reached(a, <<>>), n, part) = Reached(a + Len(FlattenSeq(ps)), v)
  BY ONLY <1>1, <1>2, <1>3, LineOfItemsReads
<1>5. QED
  BY <1>4 DEF n, ps, part

LEMMA ItemsShows ==
  ASSUME NEW part \in Seq(Simple(Plain)), NEW b \in Seq(Byte), NEW a \in Nat, a <= Len(b), NEW n \in Nat,
         ReadItems(b, Reached(a, <<>>), n, part).ok
  PROVE  \E v \in Seq(PartValues), p \in Seq(Byte) :
           /\ ReadItems(b, Reached(a, <<>>), n, part) = Reached(a + Len(p), v) /\ Lies(b, a, p) /\ Len(v) = n
           /\ part \in Seq(ExactSimple) =>
                (\A i \in 1..n : PartValue(part, v[i])) /\ p = FlattenSeq(ItemPieces(part, v))
<1> DEFINE G == {t \in Nat \X PartValues \X Seq(Byte) :
                   part \in Seq(ExactSimple) => PartValue(part, t[2]) /\ t[3] = PartEncoded(part, t[2])}
<1> DEFINE after == ItemsLoop(b, Reached(a, <<>>), n, part)
<1>1. /\ after[0] = Reached(a, <<>>) /\ ReadItems(b, Reached(a, <<>>), n, part) = after[n]
      /\ \A i \in 1..n : after[i] = AfterItem(b, after[i - 1], part)
  BY ItemsRun
<1> HIDE DEF after
<1> DEFINE Good == {i \in 0..n : after[i].ok}
<1>2. ASSUME NEW q, ~Going(q) PROVE AfterItem(b, q, part) = q
  BY <1>2 DEF AfterItem
<1>3. 0..n \subseteq Good
  <2>1. n \in Good
    BY <1>1
  <2>2. ASSUME NEW i \in 0..(n - 1), i + 1 \in Good PROVE i \in Good
    <3> DEFINE j == i + 1
    <3>1. j \in 1..n /\ j - 1 = i /\ i \in 0..n /\ after[j].ok
      BY <2>2
    <3> HIDE DEF j
    <3>2. after[j] = AfterItem(b, after[i], part)
      BY <1>1, <3>1
    <3>3. after[i].ok
      <4>1. CASE Going(after[i])
        BY <4>1 DEF Going
      <4>2. CASE ~Going(after[i])
        BY <1>2, <3>1, <3>2, <4>2
      <4>3. QED
        BY <4>1, <4>2
    <3>4. QED
      BY <3>1, <3>3
  <2> HIDE DEF Good
  <2>3. QED
    BY <2>1, <2>2, Downward
<1>4. ASSUME NEW i \in 1..n, NEW c \in Nat, NEW u, c <= Len(b), after[i - 1] = Reached(c, u)
      PROVE  \E v \in PartValues, p \in Seq(Byte) :
               <<i, v, p>> \in G /\ Lies(b, c, p) /\ after[i] = Reached(c + Len(p), Append(u, v))
  <2> DEFINE inner == ReadPart(b, Reached(c, <<>>), part)
  <2>1. after[i].ok
    BY <1>3
  <2>2. after[i] = Wrapped(Reached(c, u), inner, inner.value)
    <3>1. after[i] = AfterItem(b, Reached(c, u), part)
      BY <1>1, <1>4
    <3>2. QED
      BY <3>1, AfterItemIs
  <2>3. IsReader(inner)
    BY ReachedIsReader, PartKept
  <2> HIDE DEF inner
  <2>4. inner.ok
    BY <2>1, <2>2, <2>3, WrappedKept
  <2>5. PICK v \in PartValues, p \in Seq(Byte) :
          /\ inner = Reached(c + Len(p), v) /\ Lies(b, c, p)
          /\ part \in Seq(ExactSimple) => PartValue(part, v) /\ p = PartEncoded(part, v)
    BY <1>4, <2>4, PartShows DEF inner
  <2>6. <<i, v, p>> \in G
    <3> DEFINE t == <<i, v, p>>
    <3>1. t[1] = i /\ t[2] = v /\ t[3] = p /\ t \in Nat \X PartValues \X Seq(Byte)
      OBVIOUS
    <3> HIDE DEF t
    <3>2. t \in G
      BY <2>5, <3>1
    <3>3. QED
      BY <3>2 DEF t
  <2>7. after[i] = Reached(c + Len(p), Append(u, v))
    <3>1. inner.value = v
      BY <2>5 DEF Reached
    <3>2. QED
      BY <2>2, <2>5, <3>1, WrappedIs
  <2>8. QED
    BY <2>5, <2>6, <2>7
<1> HIDE DEF G
<1>5. PICK w \in Seq(PartValues), ps \in Seq(Seq(Byte)) :
        /\ Len(w) = n /\ Len(ps) = n /\ \A i \in 1..n : <<i, w[i], ps[i]>> \in G
        /\ Lies(b, a, FlattenSeq(ps)) /\ after[n] = Reached(a + Len(FlattenSeq(ps)), w)
  <2>1. b \in Seq(Byte) /\ a \in Nat /\ a <= Len(b) /\ n \in Nat /\ after[0] = Reached(a, <<>>)
    BY <1>1
  <2>2. RoundsShow(after, n, b, PartValues, G)
    BY <1>4 DEF RoundsShow
  <2>3. QED
    BY ONLY <2>1, <2>2, LineShows
<1>6. ASSUME part \in Seq(ExactSimple)
      PROVE  (\A i \in 1..n : PartValue(part, w[i])) /\ FlattenSeq(ps) = FlattenSeq(ItemPieces(part, w))
  <2>1. ASSUME NEW i \in 1..n PROVE PartValue(part, w[i]) /\ ps[i] = PartEncoded(part, w[i])
    <3> DEFINE t == <<i, w[i], ps[i]>>
    <3>1. t[1] = i /\ t[2] = w[i] /\ t[3] = ps[i]
      OBVIOUS
    <3>2. t \in G
      BY <1>5
    <3> HIDE DEF t
    <3>3. QED
      BY <1>6, <3>1, <3>2 DEF G
  <2>2. ItemPieces(part, w) = ps
    <3>1. DOMAIN w = 1..n
      BY <1>5, LenProperties
    <3>2. ItemPieces(part, w) = [i \in 1..n |-> PartEncoded(part, w[i])]
      BY <3>1 DEF ItemPieces
    <3>3. ps = [i \in 1..n |-> ps[i]]
      BY <1>5, LenProperties
    <3>4. QED
      BY <2>1, <3>2, <3>3
  <2>3. QED
    BY <2>1, <2>2
<1>7. FlattenSeq(ps) \in Seq(Byte)
  BY FlattenIsSeq
<1>8. QED
  BY <1>1, <1>5, <1>6, <1>7

-----------------------------------------------------------------------------
(* Reading a field of a layout *)

\* A field of any kind is read where its encoding lies.
LEMMA FieldReads ==
  ASSUME NEW f \in Fields(Plain) \cup Lone, NEW v, FieldValue(f, v), NEW b \in Seq(Byte), NEW c \in Nat, NEW u,
         Lies(b, c, FieldEncoded(f, v))
  PROVE  Field(b, Reached(c, u), f) = Reached(c + Len(FieldEncoded(f, v)), Append(u, Shown(f, v)))
<1> DEFINE r == Reached(c, u)
<1>1. r.at = c /\ Len(b) \in Nat
  BY ReachedIs, LenProperties
<1>2. CASE f \in Simple(Plain) \cup Lone
  <2>1. f.kind \notin {"optional", "many"}
    BY <1>2, SimpleIsShown, PlainKinds
  <2>2. SimpleValue(f, v) /\ FieldEncoded(f, v) = SimpleEncoded(f, v) /\ Field(b, r, f) = SimpleField(b, r, f)
    BY <2>1 DEF FieldValue, FieldEncoded, Field
  <2>3. QED
    BY <1>2, <2>2, SimpleReads
<1>3. CASE f.kind = "optional" /\ f.of \in Seq(Simple(Plain))
  <2>1. Shown(f, v) = v /\ Field(b, r, f) = OptionalPart(b, r, f)
    BY <1>3 DEF Shown, Field
  <2>2. CASE v = <<>>
    <3>1. FieldEncoded(f, v) = <<0>> /\ Len(<<0>>) = 1
      BY <1>3, <2>2 DEF FieldEncoded
    <3>2. Presence(b, r) = "absent"
      BY <3>1, PresenceReads
    <3>3. Field(b, r, f) = Got(r, 1, <<>>)
      BY <2>1, <3>2 DEF OptionalPart
    <3>4. Got(r, 1, <<>>) = Reached(c + 1, Append(u, <<>>))
      BY GotIs
    <3> HIDE DEF r
    <3>5. Field(b, r, f) = Reached(c + Len(<<0>>), Append(u, <<>>))
      BY <3>1, <3>3, <3>4
    <3>6. QED
      BY <2>1, <2>2, <3>1, <3>5 DEF r
  <2>3. CASE v = <<v[1]>> /\ PartValue(f.of, v[1])
    <3> DEFINE x == v[1]
               part == f.of
               p == PartEncoded(part, x)
               inner == ReadPart(b, Within(r, 1), part)
    <3>1. FieldEncoded(f, v) = <<1>> \o p /\ p \in Seq(Byte) /\ <<1>> \in Seq(Byte) /\ Len(<<1>>) = 1
      <4>1. v # <<>>
        BY <2>3, OneOf
      <4>2. <<1>> \in Seq(Byte) /\ Len(<<1>>) = 1
        BY OneByte DEF Byte
      <4>3. p \in Seq(Byte)
        BY <1>3, <2>3, PartBytes
      <4>4. QED
        BY <1>3, <4>1, <4>2, <4>3 DEF FieldEncoded
    <3>2. part \in Seq(Simple(Plain)) /\ PartValue(part, x) /\ v = <<x>>
      BY <1>3, <2>3
    <3> HIDE DEF x, part
    <3>3. Len(<<1>> \o p) = 1 + Len(p) /\ Len(p) \in Nat
      <4> HIDE DEF p
      <4>1. QED
        BY <3>1, ConcatProperties, LenProperties
    <3>4. Lies(b, c, <<1>>) /\ Lies(b, c + 1, p)
      <4>1. Lies(b, c, <<1>> \o p)
        BY <3>1
      <4> HIDE DEF p
      <4>2. Lies(b, c, <<1>>) /\ Lies(b, c + Len(<<1>>), p)
        BY <3>1, <4>1, LiesJoined
      <4>3. QED
        BY <3>1, <4>2
    <3>5. Presence(b, r) = "present"
      BY <3>4, PresenceReads
    <3>6. Within(r, 1) = Reached(c + 1, <<>>) /\ c + 1 \in Nat
      BY WithinIs
    <3>7. inner = Reached((c + 1) + Len(p), x)
      <4>1. ReadPart(b, Reached(c + 1, <<>>), part) = Reached((c + 1) + Len(PartEncoded(part, x)), x)
        BY <3>2, <3>4, <3>6, PartReads
      <4>2. QED
        BY <3>6, <4>1
    <3>8. Field(b, r, f) = Wrapped(r, inner, <<inner.value>>)
      BY <2>1, <3>5 DEF OptionalPart, part
    <3> HIDE DEF inner, p
    <3>9. Wrapped(r, inner, <<x>>) = Reached((c + 1) + Len(p), Append(u, <<x>>)) /\ inner.value = x
      BY <3>7, ReachedIs, WrappedIs
    <3>10. (c + 1) + Len(p) = c + Len(FieldEncoded(f, v))
      BY <3>1, <3>3
    <3>11. QED
      BY <2>1, <3>2, <3>8, <3>9, <3>10
  <2>4. QED
    BY <1>3, <2>2, <2>3 DEF FieldValue
<1>4. CASE f.kind = "many" /\ f.of \in Seq(Simple(Plain)) /\ f.limit \in 0..(Beyond - 1)
  <2> DEFINE n == Len(v)
             d == Digits(n, 4)
             q == FlattenSeq(ItemPieces(f.of, v))
             inner == ReadItems(b, Within(r, 4), n, f.of)
  <2>1. ItemsValue(f, v) /\ FieldEncoded(f, v) = d \o q
    BY <1>4 DEF FieldValue, FieldEncoded, ItemPieces
  <2>2. n \in Nat /\ n <= f.limit /\ f.limit \in Nat /\ d \in Seq(Byte) /\ Len(d) = 4 /\ Size(d) = n /\ q \in Seq(Byte)
    BY <1>4, <2>1, ItemsBytes
  <2>3. Shown(f, v) = v /\ Field(b, r, f) = Counted(b, r, f)
    BY <1>4 DEF Shown, Field
  <2>4. Len(d \o q) = 4 + Len(q) /\ Lies(b, c, d) /\ Lies(b, c + 4, q) /\ Len(q) \in Nat
    <3>1. Lies(b, c, d \o q)
      BY <2>1
    <3> HIDE DEF d, q
    <3>2. Len(d \o q) = Len(d) + Len(q) /\ Len(q) \in Nat
      <4>1. d \in Seq(Byte) /\ q \in Seq(Byte)
        BY <2>2
      <4>2. QED
        BY ONLY <4>1, ConcatProperties, LenProperties
    <3>3. Lies(b, c, d) /\ Lies(b, c + Len(d), q)
      BY <2>2, <3>1, LiesJoined
    <3>4. QED
      BY <2>2, <3>2, <3>3
  <2>5. Piece(b, r, 4) = d /\ Need(b, r, 4)
    <3> HIDE DEF d
    <3>1. SubSeq(b, c + 1, c + Len(d)) = d
      BY <2>2, <2>4, LiesPiece
    <3>2. c + 4 <= Len(b)
      BY <2>2, <2>4 DEF Lies
    <3>3. QED
      BY <1>1, <2>2, <3>1, <3>2 DEF Piece, Need
  <2>6. Within(r, 4) = Reached(c + 4, <<>>) /\ c + 4 \in Nat
    BY WithinIs
  <2>7. inner = Reached((c + 4) + Len(q), v)
    <3>1. ReadItems(b, Reached(c + 4, <<>>), Len(v), f.of) = Reached((c + 4) + Len(q), v)
      BY <1>4, <2>1, <2>4, <2>6, ItemsReads
    <3>2. QED
      BY <2>6, <3>1
  <2>8. Field(b, r, f) = Wrapped(r, inner, inner.value)
    <3> HIDE DEF d
    <3>1. Size(Piece(b, r, 4)) = n
      BY <2>2, <2>5
    <3> HIDE DEF n, r
    <3>2. ~ (n > f.limit)
      BY <2>2
    <3>3. QED
      BY <2>3, <2>5, <3>1, <3>2 DEF Counted
  <2> HIDE DEF inner, q, d, n
  <2>9. Wrapped(r, inner, v) = Reached((c + 4) + Len(q), Append(u, v)) /\ inner.value = v
    BY <2>7, ReachedIs, WrappedIs
  <2>10. (c + 4) + Len(q) = c + Len(FieldEncoded(f, v))
    BY <2>1, <2>4
  <2>11. QED
    BY <2>3, <2>8, <2>9, <2>10
<1>5. QED
  <2>1. Plain \subseteq Plain
    OBVIOUS
  <2>2. \/ f \in Plain \/ f \in Lone \/ f \in Simple(Plain)
        \/ f.kind = "optional" /\ f.of \in Seq(Simple(Plain))
        \/ f.kind = "many" /\ f.of \in Seq(Simple(Plain)) /\ f.limit \in 0..(Beyond - 1)
    BY <2>1, FieldKinds
  <2>3. Plain \subseteq Simple(Plain)
    BY DEF Simple
  <2>4. QED
    BY <1>2, <1>3, <1>4, <2>2, <2>3

LEMMA ExactKinds ==
  ASSUME NEW f \in Fields(Plain) \cup Lone, f \in ExactFields \cup Returning
  PROVE  /\ f.kind \notin {"optional", "many"} => f \in ExactSimple \cup Returning
         /\ f.kind \in {"optional", "many"} => f.of \in Seq(ExactSimple)
<1>1. CASE f \in Returning
  BY <1>1 DEF Returning
<1>2. CASE f \in ExactSimple
  <2>1. ExactSimple \subseteq Simple(Plain)
    BY DEF ExactSimple, Simple, Plain
  <2>2. QED
    BY <1>2, <2>1, SimpleIsShown
<1>3. CASE f \in ExactFields \ ExactSimple
  BY <1>3 DEF ExactFields, Fields, ExactSimple
<1>4. QED
  BY <1>1, <1>2, <1>3

\* A field of any kind that was accepted is the encoding of its value, where
\* the value keeps all that was read.
LEMMA FieldShows ==
  ASSUME NEW f \in Fields(Plain) \cup Lone, NEW b \in Seq(Byte), NEW c \in Nat, NEW u, c <= Len(b),
         Field(b, Reached(c, u), f).ok,
         f.kind = "return" => ~Field(b, Reached(c, u), f).returned
  PROVE  \E v \in FieldValues, p \in Seq(Byte) :
           /\ Field(b, Reached(c, u), f) = Reached(c + Len(p), Append(u, v)) /\ Lies(b, c, p)
           /\ f \in ExactFields \cup Returning => FieldValue(f, v) /\ p = FieldEncoded(f, v)
<1> DEFINE r == Reached(c, u)
<1>1. r.at = c /\ Len(b) \in Nat /\ ~Failed(r).ok
  BY ReachedIs, LenProperties
<1>2. CASE f \in Simple(Plain) \cup Lone
  <2>1. f.kind \notin {"optional", "many"}
    BY <1>2, SimpleIsShown, PlainKinds
  <2>2. \A v : (FieldValue(f, v) <=> SimpleValue(f, v)) /\ FieldEncoded(f, v) = SimpleEncoded(f, v)
    BY <2>1 DEF FieldValue, FieldEncoded
  <2>3. Field(b, r, f) = SimpleField(b, r, f)
    BY <2>1 DEF Field
  <2>4. PICK v \in SimpleValues, p \in Seq(Byte) :
          /\ SimpleField(b, r, f) = Reached(c + Len(p), Append(u, v)) /\ Lies(b, c, p)
          /\ f \in ExactSimple \cup Returning => SimpleValue(f, v) /\ p = SimpleEncoded(f, v)
    BY <1>2, <2>3, SimpleShows
  <2>5. v \in FieldValues
    BY DEF FieldValues
  <2>6. f \in ExactFields \cup Returning => FieldValue(f, v) /\ p = FieldEncoded(f, v)
    BY <2>1, <2>2, <2>4, ExactKinds
  <2>7. QED
    BY <2>3, <2>4, <2>5, <2>6
<1>3. CASE f.kind = "optional" /\ f.of \in Seq(Simple(Plain))
  <2>0. <<0>> \in Seq(Byte) /\ <<1>> \in Seq(Byte) /\ Len(<<0>>) = 1 /\ Len(<<1>>) = 1
    BY OneByte DEF Byte
  <2>1. Field(b, r, f) = OptionalPart(b, r, f)
    BY <1>3 DEF Field
  <2>2. Presence(b, r) # "invalid"
    BY <1>1, <2>1 DEF OptionalPart
  <2>3. CASE Presence(b, r) = "absent" /\ Lies(b, c, <<0>>)
    <3>1. Field(b, r, f) = Got(r, 1, <<>>)
      BY <2>1, <2>3 DEF OptionalPart
    <3>2. Field(b, r, f) = Reached(c + Len(<<0>>), Append(u, <<>>))
      BY <2>0, <3>1, GotIs
    <3>3. FieldValue(f, <<>>) /\ FieldEncoded(f, <<>>) = <<0>>
      BY <1>3 DEF FieldValue, FieldEncoded
    <3>4. <<>> \in FieldValues
      BY DEF FieldValues
    <3>5. QED
      BY <2>0, <2>3, <3>2, <3>3, <3>4
  <2>4. CASE Presence(b, r) = "present" /\ Lies(b, c, <<1>>)
    <3> DEFINE part == f.of
               inner == ReadPart(b, Reached(c + 1, <<>>), part)
    <3>1. Within(r, 1) = Reached(c + 1, <<>>) /\ c + 1 \in Nat
      BY WithinIs
    <3>2. Field(b, r, f) = Wrapped(r, inner, <<inner.value>>)
      BY <2>1, <2>4, <3>1 DEF OptionalPart
    <3>3. part \in Seq(Simple(Plain)) /\ Field(b, r, f).ok /\ c + 1 <= Len(b)
      <4>1. c + 1 <= Len(b)
        BY <2>0, <2>4 DEF Lies
      <4>2. QED
        BY <1>3, <4>1
    <3> HIDE DEF part
    <3>4. IsReader(inner)
      BY <3>3, PartKept, ReachedIsReader
    <3>5. inner.ok
      <4> HIDE DEF inner, r
      <4>1. QED
        BY <3>2, <3>3, <3>4, WrappedKept
    <3>6. PICK v \in PartValues, p \in Seq(Byte) :
             /\ inner = Reached((c + 1) + Len(p), v) /\ Lies(b, c + 1, p)
             /\ part \in Seq(ExactSimple) => PartValue(part, v) /\ p = PartEncoded(part, v)
      BY <3>1, <3>3, <3>5, PartShows
    <3> DEFINE w == <<v>>
               q == <<1>> \o p
    <3>7. w \in Seq(PartValues) /\ w # <<>> /\ w[1] = v
      OBVIOUS
    <3>8. q \in Seq(Byte) /\ Len(q) = 1 + Len(p) /\ Len(p) \in Nat
      BY <2>0, ConcatProperties, LenProperties
    <3>9. Lies(b, c, q)
      <4>1. Lies(b, c + Len(<<1>>), p)
        BY <2>0, <3>6
      <4>2. QED
        BY <2>0, <2>4, <4>1, LiesJoined
    <3>10. ASSUME f \in ExactFields \cup Returning PROVE FieldValue(f, w) /\ q = FieldEncoded(f, w)
      <4>1. part \in Seq(ExactSimple)
        BY <1>3, <3>10, ExactKinds DEF part
      <4>2. PartValue(part, v) /\ p = PartEncoded(part, v)
        BY <3>6, <4>1
      <4> HIDE DEF w
      <4>3. w = <<w[1]>>
        BY <3>7 DEF w
      <4>4. QED
        BY <1>3, <3>7, <4>2, <4>3 DEF FieldValue, FieldEncoded, part
    <3>11. Field(b, r, f) = Reached(c + Len(q), Append(u, w))
      <4> HIDE DEF inner, q
      <4>1. inner.value = v
        BY <3>6, ReachedIs
      <4>2. Wrapped(r, inner, w) = Reached((c + 1) + Len(p), Append(u, w))
        <5> HIDE DEF w
        <5>1. QED
          BY <3>6, WrappedIs
      <4>3. (c + 1) + Len(p) = c + Len(q)
        BY <3>8
      <4>4. QED
        BY <3>2, <4>1, <4>2, <4>3
    <3> HIDE DEF w, q
    <3>12. w \in FieldValues
      BY <3>7 DEF FieldValues
    <3>13. QED
      BY <3>8, <3>9, <3>10, <3>11, <3>12
  <2>5. QED
    BY <2>2, <2>3, <2>4, PresenceReads
<1>4. CASE f.kind = "many" /\ f.of \in Seq(Simple(Plain)) /\ f.limit \in 0..(Beyond - 1)
  <2> DEFINE d == Piece(b, r, 4)
             n == Size(d)
             part == f.of
             inner == ReadItems(b, Reached(c + 4, <<>>), n, part)
  <2>1. Within(r, 4) = Reached(c + 4, <<>>) /\ c + 4 \in Nat
    BY WithinIs
  <2>2. Field(b, r, f) = Wrapped(r, inner, inner.value) /\ Need(b, r, 4) /\ ~ (n > f.limit)
    <3>1. Field(b, r, f) = Counted(b, r, f)
      BY <1>4 DEF Field
    <3>2. QED
      BY <1>1, <2>1, <3>1 DEF Counted
  <2>3. c + 4 <= Len(b) /\ part \in Seq(Simple(Plain)) /\ Field(b, r, f).ok
    BY <1>1, <1>4, <2>2 DEF Need
  <2>4. d \in Seq(Byte) /\ Len(d) = 4 /\ Lies(b, c, d)
    <3>1. d = SubSeq(b, c + 1, c + 4)
      BY <1>1 DEF Piece
    <3>2. /\ SubSeq(b, c + 1, c + 4) \in Seq(Byte) /\ Len(SubSeq(b, c + 1, c + 4)) = 4
          /\ Lies(b, c, SubSeq(b, c + 1, c + 4))
      BY <2>3, PieceLies
    <3> HIDE DEF d
    <3>3. QED
      BY <3>1, <3>2
  <2> HIDE DEF d
  <2>5. n \in Nat /\ n <= f.limit /\ n < Beyond /\ Digits(n, 4) = d
    <3>1. n \in Nat
      BY <2>4, SizeIsNat
    <3>2. f.limit \in 0..(Beyond - 1) /\ Beyond \in Nat
      BY <1>4, BelowBeyond
    <3>3. n <= f.limit /\ n < Beyond
      <4> HIDE DEF n
      <4>1. QED
        BY <2>2, <3>1, <3>2
    <3>4. QED
      BY <2>4, <3>1, <3>3, DigitsOfSize
  <2> HIDE DEF n, part
  <2>6. IsReader(inner)
    BY <2>3, <2>5, ItemsKept, ReachedIsReader
  <2>7. inner.ok
    <3> HIDE DEF inner, r
    <3>1. QED
      BY <2>2, <2>3, <2>6, WrappedKept
  <2>8. PICK v \in Seq(PartValues), p \in Seq(Byte) :
          /\ inner = Reached((c + 4) + Len(p), v) /\ Lies(b, c + 4, p) /\ Len(v) = n
          /\ part \in Seq(ExactSimple) =>
               (\A i \in 1..n : PartValue(part, v[i])) /\ p = FlattenSeq(ItemPieces(part, v))
    BY <2>1, <2>3, <2>5, <2>7, ItemsShows
  <2> DEFINE q == d \o p
  <2>9. q \in Seq(Byte) /\ Len(q) = 4 + Len(p) /\ Len(p) \in Nat
    <3>1. d \in Seq(Byte) /\ p \in Seq(Byte)
      BY <2>4
    <3>2. q \in Seq(Byte) /\ Len(q) = Len(d) + Len(p) /\ Len(p) \in Nat
      BY ONLY <3>1, ConcatProperties, LenProperties
    <3>3. QED
      BY <2>4, <3>2
  <2>10. Lies(b, c, q)
    <3>1. Lies(b, c + Len(d), p)
      BY <2>4, <2>8
    <3>2. QED
      BY <2>4, <3>1, LiesJoined
  <2>11. ASSUME f \in ExactFields \cup Returning PROVE FieldValue(f, v) /\ q = FieldEncoded(f, v)
    <3>1. part \in Seq(ExactSimple)
      BY <1>4, <2>11, ExactKinds DEF part
    <3>2. (\A i \in 1..n : PartValue(part, v[i])) /\ p = FlattenSeq(ItemPieces(part, v))
      BY <2>8, <3>1
    <3>3. Len(v) \in 0..f.limit
      <4>1. n \in 0..f.limit
        BY <1>4, <2>5, BelowBeyond
      <4>2. QED
        BY <2>8, <4>1
    <3>4. v = [i \in 1..Len(v) |-> v[i]]
      BY LenProperties
    <3>5. ItemsValue(f, v)
      BY <2>8, <3>2, <3>3, <3>4 DEF ItemsValue, part
    <3>6. FieldEncoded(f, v) = Digits(Len(v), 4) \o FlattenSeq(ItemPieces(part, v))
      BY <1>4 DEF FieldEncoded, ItemPieces, part
    <3>7. QED
      BY <1>4, <2>5, <2>8, <3>2, <3>5, <3>6 DEF FieldValue
  <2>12. Field(b, r, f) = Reached(c + Len(q), Append(u, v))
    <3> HIDE DEF inner, q
    <3>1. inner.value = v
      BY <2>8, ReachedIs
    <3>2. Wrapped(r, inner, v) = Reached((c + 4) + Len(p), Append(u, v))
      BY <2>8, WrappedIs
    <3>3. (c + 4) + Len(p) = c + Len(q)
      BY <2>9
    <3>4. QED
      BY <2>2, <3>1, <3>2, <3>3
  <2>13. v \in FieldValues
    BY DEF FieldValues
  <2> HIDE DEF q
  <2>14. QED
    BY <2>9, <2>10, <2>11, <2>12, <2>13
<1>5. QED
  <2>1. Plain \subseteq Plain
    OBVIOUS
  <2>2. \/ f \in Plain \/ f \in Lone \/ f \in Simple(Plain)
        \/ f.kind = "optional" /\ f.of \in Seq(Simple(Plain))
        \/ f.kind = "many" /\ f.of \in Seq(Simple(Plain)) /\ f.limit \in 0..(Beyond - 1)
    BY <2>1, FieldKinds
  <2>3. Plain \subseteq Simple(Plain)
    BY DEF Simple
  <2>4. QED
    BY <1>2, <1>3, <1>4, <2>2, <2>3

-----------------------------------------------------------------------------
(* Decoding *)

LEMMA StartIs == Start = Reached(0, <<>>)
BY DEF Start, Reached

\* What the decoder makes of an encoded value.
ShownValue(layout, value) == [i \in 1..Len(layout) |-> Shown(layout[i], value[i])]

LEMMA ShownIsSeq ==
  ASSUME NEW layout \in Layouts, NEW value, IsValue(layout, value)
  PROVE  /\ ShownValue(layout, value) \in Seq(FieldValues) /\ Len(ShownValue(layout, value)) = Len(layout)
         /\ \A i \in 1..Len(layout) : ShownValue(layout, value)[i] = Shown(layout[i], value[i])
<1>1. Len(layout) \in Nat
  BY LenProperties DEF Layouts
<1>2. value \in Seq(FieldValues) /\ Len(value) = Len(layout)
  BY LayoutBytes
<1>3. ASSUME NEW i \in 1..Len(layout) PROVE Shown(layout[i], value[i]) \in FieldValues
  <2>1. value[i] \in FieldValues
    BY <1>2, ElementOfSeq
  <2>2. <<0>> \in FieldValues
    <3>1. <<0>> \in Seq(Byte)
      BY OneByte DEF Byte
    <3>2. QED
      BY <3>1 DEF FieldValues, SimpleValues
  <2>3. QED
    BY <2>1, <2>2 DEF Shown
<1>4. QED
  BY <1>1, <1>3, IsASeq DEF ShownValue

LEMMA LayoutReads ==
  ASSUME NEW layout \in Layouts, NEW value, IsValue(layout, value), NEW b \in Seq(Byte),
         Lies(b, 0, Encoded(layout, value))
  PROVE  Read(b, Start, layout) = Reached(Len(Encoded(layout, value)), ShownValue(layout, value))
<1> DEFINE n == Len(layout)
           ps == FieldPieces(layout, value)
           w == ShownValue(layout, value)
           r == Reached(0, <<>>)
           after == LayoutLoop(b, r, layout)
<1>1. /\ n \in Nat /\ ps \in Seq(Seq(Byte)) /\ Len(ps) = n
      /\ Encoded(layout, value) = FlattenSeq(ps) /\ FlattenSeq(ps) \in Seq(Byte)
      /\ \A i \in 1..n : ps[i] = FieldEncoded(layout[i], value[i])
  BY LayoutBytes, LenProperties DEF Layouts
<1>2. w \in Seq(FieldValues) /\ Len(w) = n /\ \A i \in 1..n : w[i] = Shown(layout[i], value[i])
  BY ShownIsSeq
<1>3. /\ after[0] = r /\ Read(b, r, layout) = after[n]
      /\ \A i \in 1..n : after[i] = AfterField(b, after[i - 1], layout[i])
  BY LayoutRun DEF Layouts
<1>4. ASSUME NEW i \in 1..n PROVE layout[i] \in Fields(Plain) \cup Lone /\ FieldValue(layout[i], value[i])
  <2>1. DOMAIN layout = 1..n
    BY LenProperties DEF Layouts
  <2>2. QED
    BY <2>1, ElementOfSeq DEF Layouts, IsValue
<1> HIDE DEF n, ps, w, after
<1>5. ASSUME NEW i \in 1..n, NEW c \in Nat, NEW u, after[i - 1] = Reached(c, u), Lies(b, c, ps[i])
      PROVE  after[i] = Reached(c + Len(ps[i]), Append(u, w[i]))
  <2>1. Lies(b, c, FieldEncoded(layout[i], value[i]))
    BY <1>1, <1>5
  <2>2. Field(b, Reached(c, u), layout[i])
          = Reached(c + Len(FieldEncoded(layout[i], value[i])), Append(u, Shown(layout[i], value[i])))
    BY <1>4, <2>1, FieldReads
  <2>3. after[i] = Field(b, Reached(c, u), layout[i])
    <3>1. Going(Reached(c, u))
      BY ReachedIs
    <3>2. after[i] = AfterField(b, Reached(c, u), layout[i])
      BY <1>3, <1>5
    <3>3. QED
      BY <3>1, <3>2 DEF AfterField
  <2>4. QED
    BY <1>1, <1>2, <2>2, <2>3
<1>6. after[n] = Reached(0 + Len(FlattenSeq(ps)), w)
  <2>1. RoundsRead(after, n, b, ps, w)
    BY <1>5 DEF RoundsRead
  <2>2. /\ b \in Seq(Byte) /\ 0 \in Nat /\ n \in Nat /\ ps \in Seq(Seq(Byte)) /\ Len(ps) = n
        /\ w \in Seq(FieldValues) /\ Len(w) = n /\ after[0] = Reached(0, <<>>) /\ Lies(b, 0, FlattenSeq(ps))
    BY <1>1, <1>2, <1>3
  <2>3. QED
    BY ONLY <2>1, <2>2, LineReads
<1>7. 0 + Len(FlattenSeq(ps)) = Len(Encoded(layout, value))
  BY <1>1, LenProperties
<1>8. QED
  BY <1>3, <1>6, <1>7, StartIs DEF w

LEMMA DecodedIs ==
  ASSUME NEW layout, NEW b
  PROVE  /\ Decoded(layout, b).accepted <=> Read(b, Start, layout).ok /\ Read(b, Start, layout).at = Len(b)
         /\ Decoded(layout, b).accepted => Decoded(layout, b).value = Read(b, Start, layout).value
         /\ Decoded(layout, b).returned = Read(b, Start, layout).returned
<1> DEFINE r == Read(b, Start, layout)
           x == r.ok /\ r.at = Len(b)
           d == Decoded(layout, b)
<1>1. d = [accepted |-> x, value |-> IF x THEN r.value ELSE <<>>, returned |-> r.returned]
  BY DEF Decoded, Outcome, Exhausted
<1> HIDE DEF r, x, d
<1>2. d.accepted = x /\ d.value = (IF x THEN r.value ELSE <<>>) /\ d.returned = r.returned
  BY <1>1
<1>3. QED
  BY <1>2 DEF r, x, d

\* What is encoded is accepted, and decoded as it was.
LEMMA DecodedReads ==
  ASSUME NEW layout \in Layouts, NEW value, IsValue(layout, value)
  PROVE  /\ Decoded(layout, Encoded(layout, value)).accepted
         /\ Decoded(layout, Encoded(layout, value)).value = ShownValue(layout, value)
<1> DEFINE b == Encoded(layout, value)
           r == Read(b, Start, layout)
<1>1. b \in Seq(Byte)
  BY LayoutBytes
<1>2. Lies(b, 0, b)
  BY <1>1, LiesWhole
<1>3. r = Reached(Len(b), ShownValue(layout, value))
  BY <1>1, <1>2, LayoutReads
<1> HIDE DEF r
<1>4. r.ok /\ r.at = Len(b) /\ r.value = ShownValue(layout, value)
  BY <1>3, ReachedIs
<1>5. QED
  BY <1>4, DecodedIs DEF r

\* w are the values and ps the bytes of the fields of a layout; of a flag and
\* of what is not restored the value does not say the bytes.
LaidOut(layout, w, ps) ==
  /\ Len(w) = Len(layout) /\ Len(ps) = Len(layout)
  /\ \A i \in 1..Len(layout) :
       layout[i] \in ExactFields \cup Returning =>
         FieldValue(layout[i], w[i]) /\ ps[i] = FieldEncoded(layout[i], w[i])

LEMMA LayoutShows ==
  ASSUME NEW layout \in Layouts, NEW b \in Seq(Byte), Read(b, Start, layout).ok,
         layout \in Seq(StoredFields) \/ ~Read(b, Start, layout).returned
  PROVE  \E w \in Seq(FieldValues), ps \in Seq(Seq(Byte)) :
           /\ Read(b, Start, layout) = Reached(Len(FlattenSeq(ps)), w) /\ Lies(b, 0, FlattenSeq(ps))
           /\ LaidOut(layout, w, ps)
<1> DEFINE n == Len(layout)
           r == Reached(0, <<>>)
           after == LayoutLoop(b, r, layout)
           stored == layout \in Seq(StoredFields)
           G == {t \in Nat \X FieldValues \X Seq(Byte) :
                   layout[t[1]] \in ExactFields \cup Returning =>
                     FieldValue(layout[t[1]], t[2]) /\ t[3] = FieldEncoded(layout[t[1]], t[2])}
           Good == {i \in 0..n : after[i].ok /\ (stored \/ ~after[i].returned)}
<1>1. n \in Nat
  BY LenProperties DEF Layouts
<1>2. /\ after[0] = r /\ Read(b, r, layout) = after[n]
      /\ \A i \in 1..n : after[i] = AfterField(b, after[i - 1], layout[i])
  BY LayoutRun DEF Layouts
<1>3. ASSUME NEW i \in 1..n
      PROVE  layout[i] \in Fields(Plain) \cup Lone /\ (stored => layout[i] \in StoredFields)
  BY ElementOfSeq DEF Layouts
<1>4. after[n].ok /\ (stored \/ ~after[n].returned)
  BY <1>2, StartIs
<1> HIDE DEF n, after, stored
<1>5. 0..n \subseteq Good
  <2>1. n \in Good
    BY <1>1, <1>4
  <2>2. ASSUME NEW i \in 0..(n - 1), i + 1 \in Good PROVE i \in Good
    <3> DEFINE j == i + 1
    <3>1. j \in 1..n /\ j - 1 = i /\ i \in 0..n /\ after[j].ok /\ (stored \/ ~after[j].returned)
      BY <1>1, <2>2
    <3> HIDE DEF j
    <3>2. after[j] = AfterField(b, after[i], layout[j])
      BY <1>2, <3>1
    <3>3. after[i].ok /\ (stored \/ ~after[i].returned)
      <4>1. CASE Going(after[i])
        BY <4>1 DEF Going
      <4>2. CASE ~Going(after[i])
        BY <3>1, <3>2, <4>2 DEF AfterField
      <4>3. QED
        BY <4>1, <4>2
    <3>4. QED
      BY <3>1, <3>3
  <2> HIDE DEF Good
  <2>3. QED
    BY <1>1, <2>1, <2>2, Downward
<1>6. ASSUME NEW i \in 1..n, NEW c \in Nat, NEW u, c <= Len(b), after[i - 1] = Reached(c, u)
      PROVE  \E v \in FieldValues, p \in Seq(Byte) :
               <<i, v, p>> \in G /\ Lies(b, c, p) /\ after[i] = Reached(c + Len(p), Append(u, v))
  <2> DEFINE f == layout[i]
  <2>1. after[i].ok /\ (stored \/ ~after[i].returned)
    BY <1>1, <1>5
  <2>2. after[i] = Field(b, Reached(c, u), f)
    <3>1. Going(Reached(c, u))
      BY ReachedIs
    <3>2. after[i] = AfterField(b, Reached(c, u), f)
      BY <1>2, <1>6
    <3>3. QED
      BY <3>1, <3>2 DEF AfterField
  <2>3. stored => f.kind # "return"
    <3>1. ASSUME stored, f \in Lone PROVE f.kind # "return"
      <4>1. f \in PlainFields \cup Forgettable
        BY <1>3, <3>1 DEF StoredFields
      <4>2. CASE f \in Forgettable
        BY <4>2 DEF Forgettable
      <4>3. CASE f \in PlainFields
        <5>1. CASE f \in Simple(Plain)
          BY <5>1, SimpleIsShown
        <5>2. CASE f \notin Simple(Plain)
          BY <4>3, <5>2 DEF PlainFields, Fields
        <5>3. QED
          BY <5>1, <5>2
      <4>4. QED
        BY <4>1, <4>2, <4>3
    <3>2. ASSUME f \in Fields(Plain) PROVE f.kind # "return"
      <4>1. CASE f \in Simple(Plain)
        BY <4>1, SimpleIsShown
      <4>2. CASE f \notin Simple(Plain)
        BY <3>2, <4>2 DEF Fields
      <4>3. QED
        BY <4>1, <4>2
    <3>3. QED
      BY <1>3, <3>1, <3>2
  <2>4. f \in Fields(Plain) \cup Lone
    BY <1>3
  <2> HIDE DEF f
  <2>5. PICK v \in FieldValues, p \in Seq(Byte) :
          /\ Field(b, Reached(c, u), f) = Reached(c + Len(p), Append(u, v)) /\ Lies(b, c, p)
          /\ f \in ExactFields \cup Returning => FieldValue(f, v) /\ p = FieldEncoded(f, v)
    <3>1. Field(b, Reached(c, u), f).ok /\ (f.kind = "return" => ~Field(b, Reached(c, u), f).returned)
      BY <2>1, <2>2, <2>3
    <3>2. QED
      BY <1>6, <2>4, <3>1, FieldShows
  <2>6. <<i, v, p>> \in G
    <3> DEFINE t == <<i, v, p>>
    <3>1. t[1] = i /\ t[2] = v /\ t[3] = p /\ t \in Nat \X FieldValues \X Seq(Byte)
      BY <1>1
    <3> HIDE DEF t
    <3>2. t \in G
      BY <2>5, <3>1 DEF f
    <3>3. QED
      BY <3>2 DEF t
  <2>7. QED
    BY <2>2, <2>5, <2>6
<1> HIDE DEF G
<1>7. PICK w \in Seq(FieldValues), ps \in Seq(Seq(Byte)) :
        /\ Len(w) = n /\ Len(ps) = n /\ \A i \in 1..n : <<i, w[i], ps[i]>> \in G
        /\ Lies(b, 0, FlattenSeq(ps)) /\ after[n] = Reached(0 + Len(FlattenSeq(ps)), w)
  <2>1. b \in Seq(Byte) /\ 0 \in Nat /\ 0 <= Len(b) /\ n \in Nat /\ after[0] = Reached(0, <<>>)
    BY <1>1, <1>2, LenProperties
  <2>2. RoundsShow(after, n, b, FieldValues, G)
    BY <1>6 DEF RoundsShow
  <2>3. QED
    BY ONLY <2>1, <2>2, LineShows
<1>8. ASSUME NEW i \in 1..n, layout[i] \in ExactFields \cup Returning
      PROVE  FieldValue(layout[i], w[i]) /\ ps[i] = FieldEncoded(layout[i], w[i])
  <2> DEFINE t == <<i, w[i], ps[i]>>
  <2>1. t[1] = i /\ t[2] = w[i] /\ t[3] = ps[i]
    OBVIOUS
  <2>2. t \in G
    BY <1>7
  <2> HIDE DEF t
  <2>3. QED
    BY <1>8, <2>1, <2>2 DEF G
<1>9. LaidOut(layout, w, ps)
  BY <1>7, <1>8 DEF LaidOut, n
<1>10. 0 + Len(FlattenSeq(ps)) = Len(FlattenSeq(ps))
  <2>1. FlattenSeq(ps) \in Seq(Byte)
    BY FlattenIsSeq
  <2>2. QED
    BY <2>1, LenProperties
<1>11. QED
  BY <1>2, <1>7, <1>9, <1>10, StartIs

\* What is accepted is all there is, field after field.
LEMMA DecodedShows ==
  ASSUME NEW layout \in Layouts, NEW b \in Seq(Byte), Decoded(layout, b).accepted,
         layout \in Seq(StoredFields) \/ ~Decoded(layout, b).returned
  PROVE  \E w \in Seq(FieldValues), ps \in Seq(Seq(Byte)) :
           Decoded(layout, b).value = w /\ b = FlattenSeq(ps) /\ LaidOut(layout, w, ps)
<1> DEFINE r == Read(b, Start, layout)
<1>1. r.ok /\ r.at = Len(b) /\ Decoded(layout, b).value = r.value
  BY DecodedIs
<1>2. layout \in Seq(StoredFields) \/ ~r.returned
  BY DecodedIs
<1> HIDE DEF r
<1>4. PICK w \in Seq(FieldValues), ps \in Seq(Seq(Byte)) :
        r = Reached(Len(FlattenSeq(ps)), w) /\ Lies(b, 0, FlattenSeq(ps)) /\ LaidOut(layout, w, ps)
  BY <1>1, <1>2, LayoutShows DEF r
<1>5. r.at = Len(FlattenSeq(ps)) /\ r.value = w
  BY <1>4, ReachedIs
<1>6. FlattenSeq(ps) = b
  <2>1. FlattenSeq(ps) \in Seq(Byte)
    BY FlattenIsSeq
  <2>2. QED
    BY <1>1, <1>4, <1>5, <2>1, LiesIs
<1>7. QED
  BY <1>1, <1>4, <1>5, <1>6

-----------------------------------------------------------------------------
(* Payloads *)

LEMMA WireIsLayout ==
  ASSUME NEW layout \in Seq(WireFields)
  PROVE  layout \in Layouts /\ \A i \in 1..Len(layout) : layout[i] \in WireFields
<1>1. WireFields \subseteq Fields(Plain) \cup Lone
  <2>1. Exact \subseteq Plain
    BY DEF Plain
  <2>2. QED
    BY <2>1, SimpleWider DEF WireFields, ExactFields, Lone
<1>2. QED
  BY <1>1, SeqMonotonic, ElementOfSeq DEF Layouts

LEMMA WireIsShown ==
  ASSUME NEW f \in WireFields
  PROVE  f.kind # "forgotten" /\ \A v : Shown(f, v) = v
<1>1. CASE f \in Returning
  BY <1>1 DEF Returning, Shown
<1>2. CASE f \in ExactFields
  <2>1. CASE f \in Simple(Exact)
    <3>1. f \in Simple(Plain)
      <4>1. Exact \subseteq Plain
        BY DEF Plain
      <4>2. QED
        BY <2>1, <4>1, SimpleWider
    <3>2. QED
      BY <3>1, SimpleIsShown
  <2>2. CASE f \notin Simple(Exact)
    BY <1>2, <2>2 DEF ExactFields, Fields, Shown
  <2>3. QED
    BY <2>1, <2>2
<1>3. QED
  BY <1>1, <1>2 DEF WireFields

\* A value that is sent is received.
LEMMA PayloadReads ==
  ASSUME NEW k \in Payloads, NEW v, IsValue(Wanted[k], v)
  PROVE  /\ Encoded(Written[k], v) \in Seq(Byte)
         /\ Decoded(Wanted[k], Encoded(Written[k], v)).accepted
         /\ Decoded(Wanted[k], Encoded(Written[k], v)).value = v
<1> DEFINE layout == Wanted[k]
<1>1. layout \in Seq(WireFields) /\ Encoded(Written[k], v) = Encoded(layout, v)
  BY PayloadsAlike
<1>2. layout \in Layouts /\ \A i \in 1..Len(layout) : layout[i] \in WireFields
  BY <1>1, WireIsLayout
<1>3. IsValue(layout, v)
  OBVIOUS
<1> HIDE DEF layout
<1>4. /\ Encoded(layout, v) \in Seq(Byte)
      /\ Decoded(layout, Encoded(layout, v)).accepted
      /\ Decoded(layout, Encoded(layout, v)).value = ShownValue(layout, v)
  BY <1>2, <1>3, DecodedReads, LayoutBytes
<1>5. ShownValue(layout, v) = v
  <2>1. DOMAIN layout = 1..Len(layout)
    BY <1>1, LenProperties
  <2>2. v = [i \in 1..Len(layout) |-> v[i]]
    BY <1>3, <2>1 DEF IsValue
  <2>3. \A i \in 1..Len(layout) : Shown(layout[i], v[i]) = v[i]
    BY <1>2, WireIsShown
  <2>4. ShownValue(layout, v) = [i \in 1..Len(layout) |-> v[i]]
    BY <2>3 DEF ShownValue
  <2>5. QED
    BY <2>2, <2>4
<1>6. QED
  BY <1>1, <1>4, <1>5 DEF layout

\* A payload that is received is what its value is written with.
LEMMA PayloadShows ==
  ASSUME NEW k \in Payloads, NEW b \in Seq(Byte),
         Decoded(Wanted[k], b).accepted, ~Decoded(Wanted[k], b).returned
  PROVE  Encoded(Written[k], Decoded(Wanted[k], b).value) = b
<1> DEFINE layout == Wanted[k]
           n == Len(layout)
<1>1. layout \in Seq(WireFields) /\ \A v : Encoded(Written[k], v) = Encoded(layout, v)
  BY PayloadsAlike
<1>2. layout \in Layouts /\ \A i \in 1..n : layout[i] \in WireFields
  BY <1>1, WireIsLayout
<1>3. PICK w \in Seq(FieldValues), ps \in Seq(Seq(Byte)) :
        Decoded(layout, b).value = w /\ b = FlattenSeq(ps) /\ LaidOut(layout, w, ps)
  BY <1>2, DecodedShows
<1>4. n \in Nat /\ DOMAIN layout = 1..n
  BY <1>1, LenProperties
<1> HIDE DEF layout
<1>5. ASSUME NEW i \in 1..n PROVE FieldValue(layout[i], w[i]) /\ ps[i] = FieldEncoded(layout[i], w[i])
  BY <1>2, <1>3 DEF LaidOut, WireFields
<1>6. Len(w) = n /\ Len(ps) = n
  BY <1>3 DEF LaidOut
<1> HIDE DEF n
<1>7. IsValue(layout, w)
  <2>1. w = [i \in 1..n |-> w[i]]
    BY <1>6, LenProperties
  <2>2. QED
    BY <1>4, <1>5, <2>1 DEF IsValue
<1>8. FieldPieces(layout, w) = ps
  <2>1. ps = [i \in 1..n |-> ps[i]]
    BY <1>6, LenProperties
  <2>2. FieldPieces(layout, w) = [i \in 1..n |-> FieldEncoded(layout[i], w[i])]
    BY <1>4 DEF FieldPieces
  <2>3. QED
    BY <1>5, <2>1, <2>2
<1>9. Encoded(layout, w) = FlattenSeq(ps)
  BY <1>2, <1>7, <1>8, LayoutBytes
<1>10. QED
  BY <1>1, <1>3, <1>9 DEF layout

-----------------------------------------------------------------------------
(* A container *)

LEMMA TwoJoined ==
  ASSUME NEW s \in Seq(Byte), NEW t \in Seq(Byte)
  PROVE  s \o t \in Seq(Byte) /\ Len(s \o t) = Len(s) + Len(t)
BY JoinedBytes

LEMMA MagicIsBytes == Magic \in Seq(Byte) /\ Len(Magic) = 8
BY DEF Magic, Byte

LEMMA StoreLimits ==
  /\ MaxFile \in Nat /\ MaxRecords \in Nat /\ MaxRecord \in Nat /\ Beyond \in Nat
  /\ MaxFile < Beyond /\ MaxRecords < Beyond /\ MaxRecord < Beyond
  /\ \A k \in Kinds : Most[k] \in Nat
  /\ \A n \in Nat : n < Beyond => Fits(n)
<1>1. {MaxFile, MaxRecords, MaxRecord} \subseteq 0..(Beyond - 1) /\ \A k \in Kinds : Most[k] \in 0..(Beyond - 1)
  BY ContainerAssumption DEF ContainerAssumption
<1>2. \A n \in 0..(Beyond - 1) : n \in Nat /\ n < Beyond
  BY BelowBeyond
<1>3. Beyond \in Nat /\ \A n \in Nat : n < Beyond => Fits(n)
  BY SMT DEF Fits, Beyond
<1>4. QED
  BY <1>1, <1>2, <1>3

LEMMA RefusedIs == ~Refused.accepted
BY DEF Refused

\* The bytes of the header that its checksum covers.
Covered(ver, records, length) ==
  Magic \o Digits(ver, 4) \o Digits(0, 4) \o Digits(records, 8) \o Digits(length, 8)

LEMMA CoveredLayout ==
  ASSUME NEW ver \in Nat, NEW n \in Nat, NEW l \in Nat,
         NEW b \in Seq(Byte), Lies(b, 0, Covered(ver, n, l))
  PROVE  /\ Lies(b, 0, Magic) /\ Lies(b, 8, Digits(ver, 4)) /\ Lies(b, 16, Digits(n, 8)) /\ Lies(b, 24, Digits(l, 8))
         /\ Len(Magic) = 8 /\ Magic \in Seq(Byte)
<1> DEFINE d1 == Digits(ver, 4)
           d2 == Digits(0, 4)
           d3 == Digits(n, 8)
           d4 == Digits(l, 8)
<1>1. d1 \in Seq(Byte) /\ d2 \in Seq(Byte) /\ d3 \in Seq(Byte) /\ d4 \in Seq(Byte) /\ Magic \in Seq(Byte)
  BY DigitsAreBytes, MagicIsBytes
<1>2. Len(d1) = 4 /\ Len(d2) = 4 /\ Len(d3) = 8 /\ Len(d4) = 8 /\ Len(Magic) = 8
  BY DigitsAreBytes, MagicIsBytes
<1>3. Lies(b, 0, Magic \o d1 \o d2 \o d3 \o d4)
  BY DEF Covered
<1> HIDE DEF d1, d2, d3, d4
<1> DEFINE s1 == Magic \o d1
           s2 == s1 \o d2
           s3 == s2 \o d3
<1>4. s1 \in Seq(Byte) /\ Len(s1) = 12
  <2>1. Magic \in Seq(Byte) /\ Len(Magic) = 8 /\ d1 \in Seq(Byte) /\ Len(d1) = 4
    BY <1>1, <1>2
  <2>2. Magic \o d1 \in Seq(Byte) /\ Len(Magic \o d1) = 8 + 4
    BY ONLY <2>1, TwoJoined
  <2>3. QED
    BY <2>2
<1> HIDE DEF s1
<1>5. s2 \in Seq(Byte) /\ Len(s2) = 16
  <2>1. s1 \in Seq(Byte) /\ Len(s1) = 12 /\ d2 \in Seq(Byte) /\ Len(d2) = 4
    BY <1>4, <1>1, <1>2
  <2>2. s1 \o d2 \in Seq(Byte) /\ Len(s1 \o d2) = 12 + 4
    BY ONLY <2>1, TwoJoined
  <2>3. QED
    BY <2>2
<1> HIDE DEF s2
<1>6. s3 \in Seq(Byte) /\ Len(s3) = 24
  <2>1. s2 \in Seq(Byte) /\ Len(s2) = 16 /\ d3 \in Seq(Byte) /\ Len(d3) = 8
    BY <1>5, <1>1, <1>2
  <2>2. s2 \o d3 \in Seq(Byte) /\ Len(s2 \o d3) = 16 + 8
    BY ONLY <2>1, TwoJoined
  <2>3. QED
    BY <2>2
<1> HIDE DEF s3
<1>7. Lies(b, 0, s3 \o d4)
  BY <1>3 DEF s3, s2, s1
<1>8. Lies(b, 0, s3) /\ Lies(b, 0 + Len(s3), d4)
  BY <1>1, <1>6, <1>7, LiesJoined
<1>9. Lies(b, 0, s2) /\ Lies(b, 0 + Len(s2), d3)
  <2>1. Lies(b, 0, s2 \o d3)
    BY <1>8 DEF s3
  <2>2. QED
    BY <1>1, <1>5, <2>1, LiesJoined
<1>10. Lies(b, 0, s1)
  <2>1. Lies(b, 0, s1 \o d2)
    BY <1>9 DEF s2
  <2>2. QED
    BY <1>1, <1>4, <2>1, LiesJoined
<1>11. Lies(b, 0, Magic) /\ Lies(b, 0 + Len(Magic), d1)
  <2>1. Lies(b, 0, Magic \o d1)
    BY <1>10 DEF s1
  <2>2. QED
    BY <1>1, <2>1, LiesJoined
<1>12. 0 + Len(s3) = 24 /\ 0 + Len(s2) = 16 /\ 0 + Len(Magic) = 8
  BY <1>2, <1>5, <1>6
<1>13. QED
  BY <1>1, <1>2, <1>8, <1>9, <1>11, <1>12 DEF d1, d3, d4

LEMMA CoveredIsBytes ==
  ASSUME NEW ver \in Nat, NEW n \in Nat, NEW l \in Nat
  PROVE  Covered(ver, n, l) \in Seq(Byte) /\ Len(Covered(ver, n, l)) = 32
<1> DEFINE d1 == Digits(ver, 4)
           d2 == Digits(0, 4)
           d3 == Digits(n, 8)
           d4 == Digits(l, 8)
           s1 == Magic \o d1
           s2 == s1 \o d2
           s3 == s2 \o d3
<1>1. /\ d1 \in Seq(Byte) /\ d2 \in Seq(Byte) /\ d3 \in Seq(Byte) /\ d4 \in Seq(Byte)
      /\ Len(d1) = 4 /\ Len(d2) = 4 /\ Len(d3) = 8 /\ Len(d4) = 8
  BY DigitsAreBytes
<1> HIDE DEF d1, d2, d3, d4
<1>2. 4 \in Nat /\ 8 \in Nat /\ 12 \in Nat /\ 16 \in Nat /\ 24 \in Nat
  OBVIOUS
<1>3. s1 \in Seq(Byte) /\ Len(s1) = 8 + 4
  BY ONLY <1>1, <1>2, MagicIsBytes, TwoJoined
<1>4. s2 \in Seq(Byte) /\ Len(s2) = 12 + 4
  <2>1. Len(s1) = 12
    BY <1>3
  <2> HIDE DEF s1
  <2>2. QED
    BY ONLY <1>1, <1>2, <1>3, <2>1, TwoJoined DEF s2
<1>5. s3 \in Seq(Byte) /\ Len(s3) = 16 + 8
  <2>1. Len(s2) = 16
    BY <1>4
  <2> HIDE DEF s2
  <2>2. QED
    BY ONLY <1>1, <1>2, <1>4, <2>1, TwoJoined DEF s3
<1>6. s3 \o d4 \in Seq(Byte) /\ Len(s3 \o d4) = 24 + 8
  <2>1. Len(s3) = 24
    BY <1>5
  <2> HIDE DEF s3
  <2>2. QED
    BY ONLY <1>1, <1>2, <1>5, <2>1, TwoJoined
<1>7. Covered(ver, n, l) = s3 \o d4
  BY DEF Covered, d1, d2, d3, d4
<1> HIDE DEF s3
<1>8. QED
  BY <1>6, <1>7

\* Where everything is in a container.
LEMMA ContainerLayout ==
  ASSUME NEW ver \in Nat, NEW n \in Nat, NEW body \in Seq(Byte)
  PROVE  LET e == Container(ver, n, body)
             l == Len(body)
             h == Covered(ver, n, l)
         IN /\ e \in Seq(Byte) /\ Len(e) = 36 + l + 4 /\ l \in Nat /\ h \in Seq(Byte) /\ Len(h) = 32
            /\ Lies(e, 0, h) /\ Lies(e, 32, Checksum(h)) /\ Lies(e, 36, body) /\ Lies(e, 36 + l, Checksum(body))
            /\ CheckedPart(e, 0, 32, h) /\ CheckedPart(e, 36, l, body)
<1> DEFINE e == Container(ver, n, body)
           l == Len(body)
           h == Covered(ver, n, l)
           c == Checksum(h)
           d == Checksum(body)
<1>1. l \in Nat
  BY LenProperties
<1>2. h \in Seq(Byte) /\ Len(h) = 32
  BY <1>1, CoveredIsBytes
<1>3. c \in Seq(Byte) /\ Len(c) = 4 /\ d \in Seq(Byte) /\ Len(d) = 4
  BY <1>2, ChecksumIsFourBytes
<1>4. e = (h \o c) \o body \o d
  BY DEF Container, Header, Covered
<1> HIDE DEF e, l, h, c, d
<1> DEFINE s1 == h \o c
           s2 == s1 \o body
<1>5. s1 \in Seq(Byte) /\ Len(s1) = 36
  <2>1. s1 \in Seq(Byte) /\ Len(s1) = 32 + 4
    BY ONLY <1>2, <1>3, TwoJoined
  <2>2. QED
    BY <2>1
<1> HIDE DEF s1
<1>6. s2 \in Seq(Byte) /\ Len(s2) = 36 + l
  <2>1. l \in Nat /\ Len(body) = l /\ body \in Seq(Byte) /\ 36 \in Nat
    BY <1>1 DEF l
  <2>2. QED
    BY ONLY <1>5, <2>1, TwoJoined
<1> HIDE DEF s2
<1>7. e \in Seq(Byte) /\ Len(e) = 36 + l + 4
  <2>1. e = s2 \o d
    BY <1>4 DEF s2, s1
  <2>2. 36 + l \in Nat /\ 4 \in Nat
    BY <1>1
  <2>3. s2 \o d \in Seq(Byte) /\ Len(s2 \o d) = (36 + l) + 4
    BY ONLY <1>3, <1>6, <2>2, TwoJoined
  <2>4. QED
    BY <2>1, <2>3
<1>8. Lies(e, 0, s2) /\ Lies(e, 0 + Len(s2), d)
  <2>1. Lies(e, 0, s2 \o d)
    BY <1>4, <1>7, LiesWhole DEF s2, s1
  <2>2. QED
    BY <1>3, <1>6, <1>7, <2>1, LiesJoined
<1>9. Lies(e, 0, s1) /\ Lies(e, 0 + Len(s1), body)
  <2>1. Lies(e, 0, s1 \o body)
    BY <1>8 DEF s2
  <2>2. QED
    BY <1>5, <1>7, <2>1, LiesJoined
<1>10. Lies(e, 0, h) /\ Lies(e, 0 + Len(h), c)
  <2>1. Lies(e, 0, h \o c)
    BY <1>9 DEF s1
  <2>2. QED
    BY <1>2, <1>3, <1>7, <2>1, LiesJoined
<1>11. 0 + Len(s2) = 36 + l /\ 0 + Len(s1) = 36 /\ 0 + Len(h) = 32
  BY <1>1, <1>2, <1>5, <1>6
<1>12. Lies(e, 0, h) /\ Lies(e, 32, c) /\ Lies(e, 36, body) /\ Lies(e, 36 + l, d)
  BY <1>8, <1>9, <1>10, <1>11
<1>13. CheckedPart(e, 0, 32, h)
  <2>1. Has(e, 0, 32, h) /\ Has(e, 32, 4, c)
    BY <1>2, <1>3, <1>12 DEF Lies
  <2>2. QED
    BY <1>2, <2>1 DEF CheckedPart, c
<1>14. CheckedPart(e, 36, l, body)
  <2>1. Has(e, 36, l, body) /\ Has(e, 36 + l, 4, d)
    BY <1>3, <1>12 DEF Lies, l
  <2>2. QED
    BY <1>1, <2>1 DEF CheckedPart, d, l
<1>15. QED
  BY <1>1, <1>2, <1>7, <1>12, <1>13, <1>14 DEF e, l, h, c, d

\* One byte changed, the end cut off, or a byte added.
OneDamage(e, b) ==
  \/ /\ Len(b) = Len(e)
     /\ \E p \in 1..Len(e) : b[p] # e[p] /\ \A i \in 1..Len(e) : i # p => b[i] = e[i]
  \/ Len(b) # Len(e) /\ \A i \in 1..Len(e) : i <= Len(b) => b[i] = e[i]

LEMMA DecodedNeeds ==
  ASSUME NEW b, DecodedState(b).accepted
  PROVE  /\ Len(b) <= MaxFile /\ Len(b) >= 40 /\ HeaderIntact(b)
         /\ SubSeq(b, 9, 12) = Digits(FormatVersion, 4)
         /\ Size(SubSeq(b, 17, 24)) <= MaxRecords
         /\ Len(b) = 36 + Size(SubSeq(b, 25, 32)) + 4
         /\ LET l == Size(SubSeq(b, 25, 32))
            IN Checksum(SubSeq(b, 37, 36 + l)) = SubSeq(b, 36 + l + 1, Len(b))
         /\ DecodedState(b) = ReadRecords(SubSeq(b, 37, 36 + Size(SubSeq(b, 25, 32))), Size(SubSeq(b, 17, 24)))
<1>1. HeaderSize + TrailerSize = 40 /\ HeaderSize + 1 = 37 /\ HeaderSize = 36 /\ TrailerSize = 4
  BY DEF HeaderSize, TrailerSize
<1>2. DecodedState(b) # Refused
  BY RefusedIs
<1>3. QED
  BY <1>1, <1>2 DEF DecodedState

\* One damage to a container is noticed, wherever it is: by its length, its
\* header's checksum or its body's.
LEMMA DamagedContainer ==
  ASSUME NEW n \in Nat, NEW body \in Seq(Byte), Len(body) <= MaxFile,
         NEW b \in Seq(Byte), OneDamage(Container(FormatVersion, n, body), b)
  PROVE  ~DecodedState(b).accepted
<1> DEFINE e == Container(FormatVersion, n, body)
           l == Len(body)
           h == Covered(FormatVersion, n, l)
           m == Size(SubSeq(b, 25, 32))
<1>1. /\ e \in Seq(Byte) /\ Len(e) = 36 + l + 4 /\ l \in Nat /\ h \in Seq(Byte) /\ Len(h) = 32
      /\ Lies(e, 0, h) /\ CheckedPart(e, 0, 32, h) /\ CheckedPart(e, 36, l, body)
  BY ContainerLayout DEF FormatVersion
<1>2. SUFFICES ASSUME DecodedState(b).accepted PROVE FALSE
  OBVIOUS
<1>3. /\ Len(b) >= 40 /\ HeaderIntact(b) /\ Len(b) = 36 + m + 4
      /\ Checksum(SubSeq(b, 37, 36 + m)) = SubSeq(b, 36 + m + 1, Len(b))
  BY <1>2, DecodedNeeds
<1>4. OneDamage(e, b) /\ l <= MaxFile /\ Len(b) \in Nat
  BY LenProperties
<1>5. SubSeq(e, 25, 32) = Digits(l, 8)
  <2>1. Lies(e, 24, Digits(l, 8)) /\ FormatVersion \in Nat
    BY <1>1, CoveredLayout DEF FormatVersion
  <2>2. Digits(l, 8) \in Seq(Byte) /\ Len(Digits(l, 8)) = 8
    BY <1>1, DigitsAreBytes
  <2> HIDE DEF e, l
  <2>3. SubSeq(e, 24 + 1, 24 + 8) = Digits(l, 8)
    <3>1. Has(e, 24, 8, Digits(l, 8)) /\ 24 + 8 <= Len(e) /\ 24 \in Nat /\ 8 \in Nat
      BY <1>1, <2>1, <2>2 DEF Lies
    <3>2. QED
      BY ONLY <1>1, <2>2, <3>1, PartIs
  <2>4. 24 + 1 = 25 /\ 24 + 8 = 32
    OBVIOUS
  <2>5. QED
    BY <2>3, <2>4
<1>6. Size(Digits(l, 8)) = l
  <2>1. l < Beyond /\ Fits(l)
    BY <1>1, <1>4, StoreLimits
  <2>2. QED
    BY <1>1, <2>1, EightDigits
<1> HIDE DEF e, l, h
<1>7. CASE \E p \in 1..36 : b[p] # e[p]
  <2>1. PICK p \in 1..36 : b[p] # e[p]
    BY <1>7
  <2>2. p \in 1..Len(e) /\ p <= Len(b)
    BY <1>1, <1>3
  <2>3. Len(b) = Len(e) /\ \A i \in 1..Len(e) : i # p => b[i] = e[i]
    BY <1>4, <2>1, <2>2 DEF OneDamage
  <2>4. AgreeBut(b, e, 0, 36, p)
    <3>1. \A i \in (0 + 1)..36 : i \in 1..Len(e)
      BY <1>1
    <3>2. QED
      BY <2>3, <3>1 DEF AgreeBut
  <2>5. Checksum(SubSeq(b, 0 + 1, 0 + 32)) # SubSeq(b, 0 + 32 + 1, 0 + 32 + 4)
    <3> DEFINE z == 0
               w == 32
    <3>1. z + 1 = 1 /\ z + w + 4 = 36 /\ 36 <= Len(b) /\ p \in 1..36
      BY <1>3
    <3>2. b \in Seq(Byte) /\ CheckedPart(e, z, w, h) /\ b[p] # e[p]
      BY <1>1, <2>1
    <3> HIDE DEF z, w
    <3>3. p \in (z + 1)..(z + w + 4) /\ z + w + 4 <= Len(b) /\ AgreeBut(b, e, z, z + w + 4, p)
      <4>1. AgreeBut(b, e, z, 36, p)
        BY ONLY <2>4 DEF z
      <4>2. QED
        BY ONLY <3>1, <4>1
    <3>4. Checksum(SubSeq(b, z + 1, z + w)) # SubSeq(b, z + w + 1, z + w + 4)
      BY ONLY <3>2, <3>3, DamageShows
    <3>5. QED
      BY ONLY <3>4 DEF z, w
  <2>6. Checksum(SubSeq(b, 1, 32)) # SubSeq(b, 33, 36)
    BY <2>5
  <2>7. QED
    BY <1>3, <2>6 DEF HeaderIntact, HeaderSize
<1>8. CASE \A p \in 1..36 : b[p] = e[p]
  <2>1. m = l
    <3>1. \A i \in 1..32 : b[i] = e[i]
      <4>1. \A i \in 1..32 : i \in 1..36
        OBVIOUS
      <4>2. QED
        BY ONLY <1>8, <4>1, Zenon
    <3>2. 32 <= Len(b) /\ 32 <= Len(e)
      BY <1>1, <1>3
    <3>3. SubSeq(b, 25, 32) = SubSeq(e, 25, 32)
      BY <1>1, <3>1, <3>2, SamePart
    <3>4. QED
      BY <1>5, <1>6, <3>3
  <2> HIDE DEF m
  <2>2. Len(b) = Len(e)
    BY <1>1, <1>3, <2>1
  <2>3. PICK p \in 1..Len(e) : b[p] # e[p] /\ \A i \in 1..Len(e) : i # p => b[i] = e[i]
    BY <1>4, <2>2 DEF OneDamage
  <2>4. p \in (36 + 1)..(36 + l + 4)
    <3>1. Len(e) = 36 + l + 4 /\ l \in Nat /\ p \in 1..Len(e) /\ b[p] # e[p]
      BY <1>1, <2>3
    <3>2. ~(p \in 1..36)
      BY ONLY <1>8, <3>1
    <3>3. QED
      BY ONLY <3>1, <3>2
  <2>5. AgreeBut(b, e, 36, 36 + l + 4, p)
    <3>1. \A i \in (36 + 1)..(36 + l + 4) : i \in 1..Len(e)
      BY <1>1
    <3>2. QED
      BY <2>3, <3>1 DEF AgreeBut
  <2>6. Checksum(SubSeq(b, 36 + 1, 36 + l)) # SubSeq(b, 36 + l + 1, 36 + l + 4)
    <3>1. 36 + l + 4 <= Len(b)
      BY <1>1, <2>2
    <3>2. b \in Seq(Byte) /\ CheckedPart(e, 36, l, body) /\ b[p] # e[p]
      BY <1>1, <2>3
    <3>3. QED
      BY ONLY <2>4, <2>5, <3>1, <3>2, DamageShows
  <2>7. QED
    BY <1>1, <1>3, <2>1, <2>2, <2>6
<1>9. QED
  BY <1>7, <1>8

-----------------------------------------------------------------------------
(* Records *)

LEMMA StoreLayouts ==
  /\ CoordinatorRead \in Layouts /\ CoordinatorRead \in Seq(StoredFields)
  /\ \A k \in Kinds : RecordRead[k] \in Layouts /\ RecordRead[k] \in Seq(StoredFields)
<1>1. StoredFields \subseteq Fields(Plain) \cup Lone /\ ExactFields \subseteq StoredFields
  BY StoreBounds DEF StoredFields, PlainFields, Lone
<1>2. /\ CoordinatorRead \in Seq(ExactFields)
      /\ \A k \in Kinds : RecordRead[k] \in Seq(StoredFields)
  BY RecordsAlike
<1>3. \A s \in Seq(ExactFields) : s \in Seq(StoredFields)
  BY <1>1, SeqMonotonic
<1>4. \A s \in Seq(StoredFields) : s \in Layouts
  BY <1>1, SeqMonotonic DEF Layouts
<1>5. QED
  BY ONLY <1>2, <1>3, <1>4

\* A type and a payload.
IsRecord(r) == r.type \in TwoBytes /\ r.payload \in Seq(Byte)
AreRecords(rs) == Len(rs) \in Nat /\ DOMAIN rs = 1..Len(rs) /\ \A i \in 1..Len(rs) : IsRecord(rs[i])

\* What the checksum of a record covers.
RecordCovered(type, payload) == Digits(type, 2) \o Digits(0, 2) \o Digits(Len(payload), 4) \o payload

\* Where everything is in a record.
LEMMA RecordLayout ==
  ASSUME NEW t \in Nat, NEW p \in Seq(Byte), NEW b \in Seq(Byte), NEW a \in Nat, Lies(b, a, Record(t, p))
  PROVE  LET h == RecordCovered(t, p)
         IN /\ Lies(b, a, Digits(t, 2)) /\ Lies(b, a + 4, Digits(Len(p), 4)) /\ Lies(b, a + 8, p)
            /\ Lies(b, a, h) /\ Lies(b, a + 8 + Len(p), Checksum(h))
<1> DEFINE d1 == Digits(t, 2)
           d2 == Digits(0, 2)
           d3 == Digits(Len(p), 4)
           h == RecordCovered(t, p)
           c == Checksum(h)
           s1 == d1 \o d2
           s2 == s1 \o d3
           s3 == s2 \o p
           l == Len(p)
<1>1. l \in Nat
  BY LenProperties
<1>2. /\ d1 \in Seq(Byte) /\ d2 \in Seq(Byte) /\ d3 \in Seq(Byte)
      /\ Len(d1) = 2 /\ Len(d2) = 2 /\ Len(d3) = 4
  BY <1>1, DigitsAreBytes
<1>3. h = s3
  BY DEF RecordCovered
<1>4. Lies(b, a, h \o c)
  BY DEF Record, RecordCovered
<1> HIDE DEF d1, d2, d3, h, c, l
<1>5. s1 \in Seq(Byte) /\ Len(s1) = 4
  <2>1. s1 \in Seq(Byte) /\ Len(s1) = Len(d1) + Len(d2)
    BY ONLY <1>2, TwoJoined
  <2>2. QED
    BY <1>2, <2>1
<1> HIDE DEF s1
<1>6. s2 \in Seq(Byte) /\ Len(s2) = 8
  <2>1. s2 \in Seq(Byte) /\ Len(s2) = Len(s1) + Len(d3)
    BY ONLY <1>2, <1>5, TwoJoined
  <2>2. QED
    BY <1>2, <1>5, <2>1
<1> HIDE DEF s2
<1>7. s3 \in Seq(Byte) /\ Len(s3) = 8 + l
  <2>1. s3 \in Seq(Byte) /\ Len(s3) = Len(s2) + Len(p)
    BY ONLY <1>6, TwoJoined
  <2>2. QED
    BY <1>6, <2>1 DEF l
<1> HIDE DEF s3
<1>8. c \in Seq(Byte)
  BY <1>3, <1>7, ChecksumIsFourBytes DEF c
<1>9. Lies(b, a, h) /\ Lies(b, a + Len(s3), c)
  BY <1>3, <1>4, <1>7, <1>8, LiesJoined
<1>10. Lies(b, a, s2) /\ Lies(b, a + Len(s2), p)
  <2>1. Lies(b, a, s2 \o p)
    BY <1>3, <1>9 DEF s3
  <2>2. QED
    BY <1>6, <2>1, LiesJoined
<1>11. Lies(b, a, s1) /\ Lies(b, a + Len(s1), d3)
  <2>1. Lies(b, a, s1 \o d3)
    BY <1>10 DEF s2
  <2>2. QED
    BY <1>2, <1>5, <2>1, LiesJoined
<1>12. Lies(b, a, d1)
  <2>1. Lies(b, a, d1 \o d2)
    BY <1>11 DEF s1
  <2>2. QED
    BY <1>2, <2>1, LiesJoined
<1>13. a + Len(s3) = a + 8 + l /\ a + Len(s2) = a + 8 /\ a + Len(s1) = a + 4
  BY <1>1, <1>5, <1>6, <1>7
<1>14. QED
  BY <1>9, <1>10, <1>11, <1>12, <1>13 DEF d1, d3, h, c, l

LEMMA RecordIsBytes ==
  ASSUME NEW t \in Nat, NEW p \in Seq(Byte)
  PROVE  /\ RecordCovered(t, p) \in Seq(Byte) /\ Len(RecordCovered(t, p)) = 8 + Len(p)
         /\ Record(t, p) \in Seq(Byte) /\ Len(Record(t, p)) = 12 + Len(p)
<1> DEFINE d1 == Digits(t, 2)
           d2 == Digits(0, 2)
           d3 == Digits(Len(p), 4)
           h == RecordCovered(t, p)
           c == Checksum(h)
           s1 == d1 \o d2
           s2 == s1 \o d3
           l == Len(p)
<1>1. l \in Nat
  BY LenProperties
<1>2. /\ d1 \in Seq(Byte) /\ d2 \in Seq(Byte) /\ d3 \in Seq(Byte)
      /\ Len(d1) = 2 /\ Len(d2) = 2 /\ Len(d3) = 4
  BY <1>1, DigitsAreBytes
<1>3. h = s2 \o p
  BY DEF RecordCovered
<1>4. Record(t, p) = h \o c
  BY DEF Record, RecordCovered
<1> HIDE DEF d1, d2, d3, h, c, l
<1>5. s1 \in Seq(Byte) /\ Len(s1) = 4
  <2>1. s1 \in Seq(Byte) /\ Len(s1) = Len(d1) + Len(d2)
    BY ONLY <1>2, TwoJoined
  <2>2. QED
    BY <1>2, <2>1
<1> HIDE DEF s1
<1>6. s2 \in Seq(Byte) /\ Len(s2) = 8
  <2>1. s2 \in Seq(Byte) /\ Len(s2) = Len(s1) + Len(d3)
    BY ONLY <1>2, <1>5, TwoJoined
  <2>2. QED
    BY <1>2, <1>5, <2>1
<1> HIDE DEF s2
<1>7. h \in Seq(Byte) /\ Len(h) = 8 + l
  <2>1. s2 \o p \in Seq(Byte) /\ Len(s2 \o p) = Len(s2) + Len(p)
    BY ONLY <1>6, TwoJoined
  <2>2. QED
    BY <1>3, <1>6, <2>1 DEF l
<1>8. c \in Seq(Byte) /\ Len(c) = 4
  BY <1>7, ChecksumIsFourBytes DEF c
<1>9. h \o c \in Seq(Byte) /\ Len(h \o c) = Len(h) + Len(c)
  BY ONLY <1>7, <1>8, TwoJoined
<1>10. Len(h \o c) = 12 + l
  BY <1>1, <1>7, <1>8, <1>9
<1>11. QED
  BY <1>4, <1>7, <1>9, <1>10 DEF h, l

\* The pieces of a body.
SealedPieces(rs) == [i \in DOMAIN rs |-> Record(rs[i].type, rs[i].payload)]

LEMMA SealedIsBytes ==
  ASSUME NEW rs, AreRecords(rs)
  PROVE  /\ SealedPieces(rs) \in Seq(Seq(Byte)) /\ Len(SealedPieces(rs)) = Len(rs)
         /\ \A i \in 1..Len(rs) : SealedPieces(rs)[i] = Record(rs[i].type, rs[i].payload)
         /\ Sealed(rs) = FlattenSeq(SealedPieces(rs)) /\ Sealed(rs) \in Seq(Byte)
<1> DEFINE n == Len(rs)
           ps == SealedPieces(rs)
<1>1. n \in Nat /\ DOMAIN rs = 1..n /\ \A i \in 1..n : IsRecord(rs[i])
  BY DEF AreRecords
<1>2. ps = [i \in 1..n |-> Record(rs[i].type, rs[i].payload)]
  BY <1>1 DEF SealedPieces
<1>3. \A i \in 1..n : Record(rs[i].type, rs[i].payload) \in Seq(Byte)
  <2>1. ASSUME NEW i \in 1..n PROVE Record(rs[i].type, rs[i].payload) \in Seq(Byte)
    <3>1. rs[i].type \in Nat /\ rs[i].payload \in Seq(Byte)
      BY <1>1 DEF IsRecord, TwoBytes
    <3>2. QED
      BY <3>1, RecordIsBytes
  <2>2. QED
    BY <2>1
<1>4. Sealed(rs) = FlattenSeq(ps)
  BY DEF Sealed, SealedPieces
<1> HIDE DEF n, ps
<1>5. ps \in Seq(Seq(Byte)) /\ Len(ps) = n /\ \A i \in 1..n : ps[i] = Record(rs[i].type, rs[i].payload)
  BY <1>1, <1>2, <1>3, LenProperties
<1>6. FlattenSeq(ps) \in Seq(Byte)
  BY <1>5, FlattenIsSeq
<1>7. QED
  BY <1>4, <1>5, <1>6 DEF n, ps

-----------------------------------------------------------------------------
(* The records of a state *)

RecordForm == [type : 1..9, payload : Seq(Byte)]

Leading(s) == [type |-> CoordinatorType, payload |-> Encoded(CoordinatorWritten, s["coordinator"])]

Group(s, kind) ==
  [i \in DOMAIN s[kind] |-> [type |-> TypeOf[kind], payload |-> Encoded(RecordWritten[kind], s[kind][i])]]

Groups(s) == [k \in DOMAIN Order |-> Group(s, Order[k])]

LEMMA OrderIs ==
  /\ DOMAIN Order = 1..7 /\ \A k \in 1..7 : Order[k] \in Kinds
  /\ \A k, l \in 1..7 : Order[k] = Order[l] => k = l
  /\ \A kind \in Kinds : \E k \in 1..7 : Order[k] = kind
<1>1. DOMAIN Order = 1..7
  BY DEF Order
<1>2. \A k \in 1..7 : k = 1 \/ k = 2 \/ k = 3 \/ k = 4 \/ k = 5 \/ k = 6 \/ k = 7
  OBVIOUS
<1>3. /\ Order[1] = "policies" /\ Order[2] = "devices" /\ Order[3] = "domains" /\ Order[4] = "couplings"
      /\ Order[5] = "transitions" /\ Order[6] = "actions" /\ Order[7] = "verifications"
  BY DEF Order
<1>4. \A k \in 1..7 : Order[k] \in Kinds
  BY <1>2, <1>3 DEF Kinds
<1>5. ASSUME NEW k \in 1..7, NEW l \in 1..7, Order[k] = Order[l] PROVE k = l
  BY <1>2, <1>3, <1>5
<1>6. ASSUME NEW kind \in Kinds PROVE \E k \in 1..7 : Order[k] = kind
  <2>1. 1 \in 1..7 /\ 2 \in 1..7 /\ 3 \in 1..7 /\ 4 \in 1..7 /\ 5 \in 1..7 /\ 6 \in 1..7 /\ 7 \in 1..7
    OBVIOUS
  <2>2. QED
    BY <1>3, <2>1 DEF Kinds
<1>7. QED
  BY <1>1, <1>4, <1>5, <1>6

LEMMA TypesOf ==
  /\ \A k \in Kinds : TypeOf[k] \in (1..9) \ {CoordinatorType, ConfigType}
  /\ \A k, l \in Kinds : TypeOf[k] = TypeOf[l] => k = l
  /\ \A k \in Kinds : KindOf(TypeOf[k]) = k
  /\ \A t \in (1..9) \ {CoordinatorType, ConfigType} : KindOf(t) \in Kinds /\ TypeOf[KindOf(t)] = t
  /\ CoordinatorType \in 1..9 /\ ConfigType \in 1..9 /\ CoordinatorType # ConfigType
<1>1. /\ TypeOf["policies"] = 2 /\ TypeOf["domains"] = 3 /\ TypeOf["couplings"] = 4
      /\ TypeOf["transitions"] = 5 /\ TypeOf["actions"] = 6 /\ TypeOf["verifications"] = 7 /\ TypeOf["devices"] = 9
      /\ CoordinatorType = 1 /\ ConfigType = 8
  BY DEF TypeOf, CoordinatorType, ConfigType
<1>2. \A k \in Kinds : TypeOf[k] \in (1..9) \ {CoordinatorType, ConfigType}
  BY <1>1 DEF Kinds
<1>3. ASSUME NEW k \in Kinds, NEW l \in Kinds, TypeOf[k] = TypeOf[l] PROVE k = l
  BY <1>1, <1>3 DEF Kinds
<1>4. ASSUME NEW t \in (1..9) \ {CoordinatorType, ConfigType} PROVE \E k \in Kinds : TypeOf[k] = t
  <2>1. t \in {2, 3, 4, 5, 6, 7, 9}
    BY <1>1
  <2>2. /\ "policies" \in Kinds /\ "domains" \in Kinds /\ "couplings" \in Kinds /\ "transitions" \in Kinds
        /\ "actions" \in Kinds /\ "verifications" \in Kinds /\ "devices" \in Kinds
    BY DEF Kinds
  <2>3. QED
    BY ONLY <1>1, <2>1, <2>2
<1>5. ASSUME NEW t, NEW k \in Kinds, TypeOf[k] = t PROVE KindOf(t) \in Kinds /\ TypeOf[KindOf(t)] = t
  BY <1>5 DEF KindOf
<1>6. \A k \in Kinds : KindOf(TypeOf[k]) = k
  BY <1>3, <1>5
<1>7. CoordinatorType \in 1..9 /\ ConfigType \in 1..9 /\ CoordinatorType # ConfigType
  BY <1>1
<1>8. QED
  BY <1>2, <1>3, <1>4, <1>5, <1>6, <1>7

LEMMA GroupsAre ==
  ASSUME NEW s, Storable(s)
  PROVE  /\ Leading(s) \in RecordForm
         /\ Groups(s) \in Seq(Seq(RecordForm)) /\ Len(Groups(s)) = 7
         /\ \A k \in 1..7 : /\ Groups(s)[k] = Group(s, Order[k]) /\ Len(Groups(s)[k]) = Len(s[Order[k]])
                            /\ Groups(s)[k] \in Seq(RecordForm)
         /\ \A kind \in Kinds : \A i \in 1..Len(s[kind]) :
              Group(s, kind)[i] = [type |-> TypeOf[kind], payload |-> Encoded(RecordRead[kind], s[kind][i])]
         /\ RecordsOf(s) = <<Leading(s)>> \o FlattenSeq(Groups(s))
<1>1. IsValue(CoordinatorRead, s["coordinator"])
  BY DEF Storable
<1>2. Leading(s) \in RecordForm
  <2>1. Encoded(CoordinatorRead, s["coordinator"]) \in Seq(Byte)
    BY <1>1, StoreLayouts, LayoutBytes
  <2>2. QED
    BY <2>1, TypesOf DEF Leading, RecordForm, CoordinatorRead
<1>3. ASSUME NEW kind \in Kinds
      PROVE  /\ Group(s, kind) \in Seq(RecordForm) /\ Len(Group(s, kind)) = Len(s[kind])
             /\ \A i \in 1..Len(s[kind]) :
                  Group(s, kind)[i] = [type |-> TypeOf[kind], payload |-> Encoded(RecordRead[kind], s[kind][i])]
  <2> DEFINE v == s[kind]
             n == Len(v)
             g == Group(s, kind)
  <2>1. n \in Nat /\ v = [i \in 1..n |-> v[i]] /\ \A i \in 1..n : IsValue(RecordRead[kind], v[i])
    BY DEF Storable
  <2>2. \A w : Encoded(RecordWritten[kind], w) = Encoded(RecordRead[kind], w)
    BY RecordsAlike
  <2>3. DOMAIN v = 1..n
    BY <2>1
  <2>4. g = [i \in 1..n |-> [type |-> TypeOf[kind], payload |-> Encoded(RecordRead[kind], v[i])]]
    BY <2>2, <2>3 DEF Group
  <2>5. ASSUME NEW i \in 1..n
        PROVE  [type |-> TypeOf[kind], payload |-> Encoded(RecordRead[kind], v[i])] \in RecordForm
    <3>1. Encoded(RecordRead[kind], v[i]) \in Seq(Byte)
      BY <2>1, StoreLayouts, LayoutBytes
    <3>2. TypeOf[kind] \in 1..9
      BY TypesOf
    <3>3. QED
      BY <3>1, <3>2 DEF RecordForm
  <2> HIDE DEF v, n, g
  <2>6. g \in Seq(RecordForm) /\ Len(g) = n
    BY <2>1, <2>4, <2>5, LenProperties
  <2>7. QED
    BY <2>4, <2>6 DEF v, n, g
<1>4. Groups(s) = [k \in 1..7 |-> Group(s, Order[k])]
  BY OrderIs DEF Groups
<1>5. \A k \in 1..7 : Group(s, Order[k]) \in Seq(RecordForm) /\ Len(Group(s, Order[k])) = Len(s[Order[k]])
  BY <1>3, OrderIs
<1>6. Groups(s) \in Seq(Seq(RecordForm)) /\ Len(Groups(s)) = 7
  BY <1>4, <1>5
<1>7. RecordsOf(s) = <<Leading(s)>> \o FlattenSeq(Groups(s))
  BY DEF RecordsOf, Leading, Groups, Group
<1>8. QED
  BY <1>2, <1>3, <1>4, <1>5, <1>6, <1>7

LEMMA StoredAreRecords ==
  ASSUME NEW s, Storable(s)
  PROVE  /\ RecordsOf(s) \in Seq(RecordForm) /\ AreRecords(RecordsOf(s)) /\ Len(RecordsOf(s)) >= 1
         /\ <<Leading(s)>> \in Seq(RecordForm) /\ Len(<<Leading(s)>>) = 1
         /\ FlattenSeq(Groups(s)) \in Seq(RecordForm)
<1>1. FlattenSeq(Groups(s)) \in Seq(RecordForm)
  BY GroupsAre, FlattenIsSeq
<1>2. <<Leading(s)>> \in Seq(RecordForm) /\ Len(<<Leading(s)>>) = 1
  <2>1. \A x \in RecordForm : <<x>> \in Seq(RecordForm) /\ Len(<<x>>) = 1
    OBVIOUS
  <2>2. Leading(s) \in RecordForm
    BY GroupsAre
  <2>3. QED
    BY ONLY <2>1, <2>2, Zenon
<1>3. RecordsOf(s) = <<Leading(s)>> \o FlattenSeq(Groups(s))
  BY GroupsAre
<1> DEFINE r == RecordsOf(s)
<1>4. r \in Seq(RecordForm) /\ Len(r) = Len(<<Leading(s)>>) + Len(FlattenSeq(Groups(s)))
  BY <1>1, <1>2, <1>3, ConcatProperties
<1>5. Len(FlattenSeq(Groups(s))) \in Nat
  BY <1>1, LenProperties
<1> HIDE DEF r
<1>6. Len(r) \in Nat /\ Len(r) >= 1
  BY <1>2, <1>4, <1>5
<1>7. AreRecords(r)
  <2>1. \A i \in 1..Len(r) : r[i] \in RecordForm
    BY <1>4, ElementOfSeq
  <2>2. \A x \in RecordForm : IsRecord(x)
    BY DEF RecordForm, IsRecord, TwoBytes
  <2>3. QED
    BY <1>4, <1>6, <2>1, <2>2, LenProperties DEF AreRecords
<1>8. QED
  BY <1>1, <1>2, <1>4, <1>6, <1>7 DEF r

\* What is saved is a container.
LEMMA SavedIs ==
  ASSUME NEW s, Storable(s), EncodedState(s) # <<>>
  PROVE  LET rs == RecordsOf(s)
             body == Sealed(rs)
         IN /\ EncodedState(s) = Container(FormatVersion, Len(rs), body)
            /\ body \in Seq(Byte) /\ Len(body) <= MaxFile /\ Len(rs) \in Nat /\ Len(rs) <= MaxRecords
            /\ \A kind \in Kinds : Len(s[kind]) <= Most[kind]
            /\ \A i \in 1..Len(rs) : Len(rs[i].payload) <= MaxRecord
<1>1. AreRecords(RecordsOf(s))
  BY StoredAreRecords
<1>2. DOMAIN RecordsOf(s) = 1..Len(RecordsOf(s)) /\ Len(RecordsOf(s)) \in Nat
  BY <1>1 DEF AreRecords
<1>3. Sealed(RecordsOf(s)) \in Seq(Byte)
  BY <1>1, SealedIsBytes
<1>4. Len(RecordsOf(s)) <= MaxRecords
  BY DEF Storable
<1>5. QED
  BY <1>2, <1>3, <1>4 DEF EncodedState

\* A damaged file of a state is refused.
LEMMA DamagedFile ==
  ASSUME NEW s, Storable(s), EncodedState(s) # <<>>, NEW b \in Seq(Byte), OneDamage(EncodedState(s), b)
  PROVE  ~DecodedState(b).accepted
<1> DEFINE n == Len(RecordsOf(s))
           body == Sealed(RecordsOf(s))
<1>1. /\ EncodedState(s) = Container(FormatVersion, n, body)
      /\ body \in Seq(Byte) /\ Len(body) <= MaxFile /\ n \in Nat
  BY SavedIs
<1> HIDE DEF n, body
<1>2. OneDamage(Container(FormatVersion, n, body), b)
  BY <1>1
<1>3. QED
  BY <1>1, <1>2, DamagedContainer

-----------------------------------------------------------------------------
(* The loop over the records of a container *)

RecordsLoop(body, k) ==
  CHOOSE h : h = [i \in 0..k |-> IF i = 0 THEN Accepted(0, Nothing) ELSE AfterRecord(body, h[i - 1])]

LEMMA RecordsRun ==
  ASSUME NEW body, NEW k \in Nat
  PROVE  /\ RecordsLoop(body, k)[0] = Accepted(0, Nothing) 
         /\ ReadRecords(body, k) =
              IF RecordsLoop(body, k)[k].accepted /\ RecordsLoop(body, k)[k].at = Len(body)
              THEN RecordsLoop(body, k)[k] ELSE Refused
         /\ \A i \in 1..k : RecordsLoop(body, k)[i] = AfterRecord(body, RecordsLoop(body, k)[i - 1])
<1> DEFINE n == k
           Up(f, m) == /\ f = [i \in 0..m |-> f[i]] /\ f[0] = Accepted(0, Nothing)
                       /\ \A i \in 1..m : f[i] = AfterRecord(body, f[i - 1])
           T(h) == h = [i \in 0..n |-> IF i = 0 THEN Accepted(0, Nothing) ELSE AfterRecord(body, h[i - 1])]
           G == {m \in 0..n : \E f : Up(f, m)}
<1>1. n \in Nat
  BY LenProperties
<1> HIDE DEF n
<1>2. 0 \in G
  <2> DEFINE f == [i \in 0..0 |-> Accepted(0, Nothing)]
  <2>1. Up(f, 0)
    OBVIOUS
  <2> HIDE DEF f, Up
  <2>2. QED
    BY <1>1, <2>1
<1>3. ASSUME NEW m \in 0..(n - 1), m \in G PROVE m + 1 \in G
  <2>1. PICK f : Up(f, m)
    BY <1>3
  <2> DEFINE j == m + 1
             x == AfterRecord(body, f[m])
  <2>2. m \in Nat /\ j \in 0..n /\ \A i \in 1..j : i \in 1..m \/ (i = j /\ i - 1 = m)
    BY <1>1
  <2> HIDE DEF x
  <2> DEFINE g == Longer(f, m, x)
  <2>3. Rounds(g, m + 1) /\ (\A i \in 0..m : g[i] = f[i]) /\ g[m + 1] = x
    BY ONLY <2>2, LongerIs
  <2> HIDE DEF g
  <2> HIDE DEF j
  <2>4. g = [i \in 0..j |-> g[i]] /\ g[j] = x
    BY <2>3 DEF j, Rounds
  <2>5. g[0] = Accepted(0, Nothing)
    <3>1. 0 \in 0..m /\ f[0] = Accepted(0, Nothing)
      BY <2>1, <2>2
    <3>2. QED
      BY ONLY <2>3, <3>1
  <2>6. ASSUME NEW i \in 1..j PROVE g[i] = AfterRecord(body, g[i - 1])
    <3>1. CASE i \in 1..m
      <4>1. g[i] = f[i] /\ g[i - 1] = f[i - 1]
        <5>1. i \in 0..m /\ i - 1 \in 0..m
          BY <2>2, <3>1
        <5>2. QED
          BY <2>3, <5>1
      <4>2. f[i] = AfterRecord(body, f[i - 1])
        BY <2>1, <3>1
      <4>3. QED
        BY <4>1, <4>2
    <3>2. CASE i = j /\ i - 1 = m
      <4>1. m \in 0..m
        BY <2>2
      <4>2. g[i - 1] = f[m] /\ g[i] = x
        BY <2>3, <2>4, <3>2, <4>1
      <4>3. QED
        BY <3>2, <4>2 DEF x
    <3>3. QED
      BY <2>2, <3>1, <3>2
  <2>7. Up(g, j)
    BY <2>4, <2>5, <2>6
  <2> HIDE DEF Up
  <2>8. j \in G
    BY <2>2, <2>7
  <2>9. QED
    BY <2>8 DEF j
<1> HIDE DEF G
<1>4. 0..n \subseteq G
  BY <1>1, <1>2, <1>3, Upward
<1>5. n \in G
  BY <1>1, <1>4
<1>6. PICK f : Up(f, n)
  BY <1>5 DEF G
<1>7. T(f)
  <2>1. \A i \in 0..n : f[i] = IF i = 0 THEN Accepted(0, Nothing) ELSE AfterRecord(body, f[i - 1])
    <3>1. \A i \in 0..n : i = 0 \/ (i # 0 /\ i \in 1..n)
      BY <1>1
    <3>2. f[0] = Accepted(0, Nothing) /\ \A i \in 1..n : f[i] = AfterRecord(body, f[i - 1])
      BY <1>6
    <3>3. QED
      BY ONLY <3>1, <3>2
  <2>2. QED
    BY <1>6, <2>1
<1> DEFINE h == RecordsLoop(body, k)
<1>8. T(h)
  BY <1>7 DEF RecordsLoop, n
<1>9. ReadRecords(body, k) = IF h[n].accepted /\ h[n].at = Len(body) THEN h[n] ELSE Refused
  BY DEF ReadRecords, RecordsLoop, Ended, n
<1> HIDE DEF h
<1>10. h[0] = Accepted(0, Nothing) /\ \A i \in 1..n : h[i] = AfterRecord(body, h[i - 1])
  <2>1. \A i \in 0..n : h[i] = IF i = 0 THEN Accepted(0, Nothing) ELSE AfterRecord(body, h[i - 1])
    BY <1>8
  <2>2. 0 \in 0..n /\ \A i \in 1..n : i \in 0..n /\ i # 0
    BY <1>1
  <2> HIDE DEF T
  <2>3. QED
    BY ONLY <2>1, <2>2
<1>11. QED
  BY <1>9, <1>10 DEF n, h

LEMMA AcceptedIs ==
  ASSUME NEW a, NEW st
  PROVE  Accepted(a, st).accepted /\ Accepted(a, st).at = a /\ Accepted(a, st).state = st
BY DEF Accepted

LEMMA AddedIs ==
  ASSUME NEW a, NEW st, NEW t, NEW p
  PROVE  Added(a, st, t, p) = Refused \/ Added(a, st, t, p) = Accepted(a, Added(a, st, t, p).state)
<1> DEFINE x == Added(a, st, t, p)
<1>1. x = Refused \/ \E u : x = Accepted(a, u)
  BY DEF Added, CoordinatorAdded, KindAdded
<1> HIDE DEF x
<1>2. \A u : x = Accepted(a, u) => x.state = u
  BY AcceptedIs
<1>3. QED
  BY <1>1, <1>2 DEF x

\* What a round makes of a record that lies there.
Advanced(a, st, r) ==
  IF Len(r.payload) <= MaxRecord /\ r.type \in 1..9 THEN Added(a, st, r.type, r.payload) ELSE Refused

LEMMA RoundOf ==
  ASSUME NEW body \in Seq(Byte), NEW t \in TwoBytes, NEW p \in Seq(Byte), Fits(Len(p)), NEW a \in Nat,
         Lies(body, a, Record(t, p)), NEW st
  PROVE  AfterRecord(body, Accepted(a, st)) =
           IF Len(p) <= MaxRecord /\ t \in 1..9 THEN Added(a + 12 + Len(p), st, t, p) ELSE Refused
<1> DEFINE l == Len(p)
           h == RecordCovered(t, p)
           q == Accepted(a, st)
           type == Size(SubSeq(body, a + 1, a + 2))
           length == Size(SubSeq(body, a + 5, a + 8))
           end == a + 8 + length
<1>1. t \in Nat /\ p \in Seq(Byte) /\ l \in Nat /\ Fits(l)
  BY LenProperties DEF TwoBytes
<1>0. Lies(body, a, Record(t, p)) /\ l = Len(p)
  OBVIOUS
<1> HIDE DEF l
<1>2. /\ Lies(body, a, Digits(t, 2)) /\ Lies(body, a + 4, Digits(l, 4)) /\ Lies(body, a + 8, p)
      /\ Lies(body, a, h) /\ Lies(body, a + 8 + l, Checksum(h))
  <2>1. /\ Lies(body, a, Digits(t, 2)) /\ Lies(body, a + 4, Digits(Len(p), 4)) /\ Lies(body, a + 8, p)
        /\ Lies(body, a, h) /\ Lies(body, a + 8 + Len(p), Checksum(h))
    BY <1>0, <1>1, RecordLayout
  <2>2. QED
    BY <1>0, <2>1
<1>3. /\ h \in Seq(Byte) /\ Len(h) = 8 + l /\ Record(t, p) \in Seq(Byte) /\ Len(Record(t, p)) = 12 + l
  <2>1. /\ h \in Seq(Byte) /\ Len(h) = 8 + Len(p)
        /\ Record(t, p) \in Seq(Byte) /\ Len(Record(t, p)) = 12 + Len(p)
    BY ONLY <1>1, RecordIsBytes
  <2>2. QED
    BY <1>0, <2>1
<1>4. Checksum(h) \in Seq(Byte) /\ Len(Checksum(h)) = 4
  BY <1>3, ChecksumIsFourBytes
<1>5. /\ Digits(t, 2) \in Seq(Byte) /\ Len(Digits(t, 2)) = 2
      /\ Digits(l, 4) \in Seq(Byte) /\ Len(Digits(l, 4)) = 4
  BY ONLY <1>1, DigitsAreBytes, 2 \in Nat, 4 \in Nat
<1>6. a + (12 + l) <= Len(body) /\ Len(body) \in Nat
  <2>1. a + Len(Record(t, p)) <= Len(body)
    BY DEF Lies
  <2>2. QED
    BY <1>3, <2>1, LenProperties
<1> HIDE DEF h
<1>7. type = t
  <2>1. SubSeq(body, a + 1, a + 2) = Digits(t, 2)
    <3>1. Has(body, a, 2, Digits(t, 2)) /\ a + 2 <= Len(body) /\ 2 \in Nat
      BY <1>2, <1>5 DEF Lies
    <3>2. QED
      BY ONLY <1>5, <3>1, PartIs
  <2>2. QED
    BY <2>1, TwoDigits
<1>8. length = IF l < Beyond THEN l ELSE Beyond
  <2>1. SubSeq(body, (a + 4) + 1, (a + 4) + 4) = Digits(l, 4)
    <3>1. Has(body, a + 4, 4, Digits(l, 4)) /\ (a + 4) + 4 <= Len(body) /\ a + 4 \in Nat /\ 4 \in Nat
      <4>1. Lies(body, a + 4, Digits(l, 4))
        BY <1>2
      <4> DEFINE d == Digits(l, 4)
      <4>2. Len(d) = 4
        BY <1>5
      <4> HIDE DEF d
      <4>3. (a + 4) + Len(d) <= Len(body) /\ Has(body, a + 4, Len(d), d)
        BY <4>1 DEF Lies, d
      <4>4. Has(body, a + 4, 4, d) /\ (a + 4) + 4 <= Len(body)
        BY ONLY <4>2, <4>3
      <4>5. QED
        BY <4>4 DEF d
    <3>2. QED
      BY ONLY <1>5, <3>1, PartIs
  <2>2. (a + 4) + 1 = a + 5 /\ (a + 4) + 4 = a + 8
    OBVIOUS
  <2>3. length = Size(Digits(l, 4))
    BY <2>1, <2>2
  <2>4. QED
    BY <1>1, <2>3, FourDigits
<1> HIDE DEF type
<1>9. q.accepted /\ q.at = a /\ q.state = st
  BY AcceptedIs
<1> HIDE DEF q
<1> DEFINE sound == /\ a + 8 <= Len(body)
                    /\ length <= MaxRecord /\ type \in 1..9
                    /\ end + TrailerSize <= Len(body)
                    /\ Checksum(SubSeq(body, a + 1, end)) = SubSeq(body, end + 1, end + TrailerSize)
<1>10. AfterRecord(body, q) =
         IF sound THEN Added(end + TrailerSize, st, type, SubSeq(body, a + 9, end)) ELSE Refused
  BY <1>9 DEF AfterRecord, type
<1> HIDE DEF length
<1>11. CASE l <= MaxRecord /\ t \in 1..9
  <2>1. length = l
    BY <1>1, <1>8, <1>11, StoreLimits
  <2>2. end = a + 8 + l /\ end + TrailerSize = a + 12 + l /\ end + 1 = a + 8 + l + 1
    BY <1>1, <2>1 DEF TrailerSize
  <2>3. SubSeq(body, a + 9, end) = p
    <3>1. Has(body, a + 8, l, p) /\ (a + 8) + l <= Len(body) /\ a + 8 \in Nat /\ Len(p) = l
      BY <1>1, <1>2 DEF Lies, l
    <3>2. SubSeq(body, (a + 8) + 1, (a + 8) + l) = p
      BY ONLY <1>1, <3>1, PartIs
    <3>3. (a + 8) + 1 = a + 9
      OBVIOUS
    <3>4. QED
      BY <2>2, <3>2, <3>3
  <2>4. SubSeq(body, a + 1, end) = h
    <3>1. Has(body, a, 8 + l, h) /\ a + (8 + l) <= Len(body) /\ 8 + l \in Nat
      BY <1>1, <1>2, <1>3 DEF Lies
    <3>2. SubSeq(body, a + 1, a + (8 + l)) = h
      BY ONLY <1>3, <3>1, PartIs
    <3>3. a + (8 + l) = a + 8 + l
      BY <1>1
    <3>4. QED
      BY <2>2, <3>2, <3>3
  <2>5. SubSeq(body, end + 1, end + TrailerSize) = Checksum(h)
    <3>1. Has(body, a + 8 + l, 4, Checksum(h)) /\ (a + 8 + l) + 4 <= Len(body) /\ a + 8 + l \in Nat /\ 4 \in Nat
      BY <1>1, <1>2, <1>4 DEF Lies
    <3>2. SubSeq(body, (a + 8 + l) + 1, (a + 8 + l) + 4) = Checksum(h)
      BY ONLY <1>4, <3>1, PartIs
    <3>3. QED
      BY <2>2, <3>2 DEF TrailerSize
  <2>6. a + 8 <= Len(body) /\ end + TrailerSize <= Len(body)
    BY <1>1, <1>6, <2>2
  <2>7. sound
    BY <1>7, <1>11, <2>1, <2>4, <2>5, <2>6
  <2> HIDE DEF sound, end
  <2>8. AfterRecord(body, q) = Added(a + 12 + l, st, t, p)
    BY <1>7, <1>10, <2>2, <2>3, <2>7
  <2>9. QED
    BY <1>11, <2>8 DEF q, l
<1>12. CASE ~(l <= MaxRecord /\ t \in 1..9)
  <2>1. ~(length <= MaxRecord /\ type \in 1..9)
    BY <1>1, <1>7, <1>8, <1>12, StoreLimits
  <2>2. ~sound
    BY <2>1
  <2> HIDE DEF sound, end
  <2>3. AfterRecord(body, q) = Refused
    BY <1>10, <2>2
  <2>4. QED
    BY <1>12, <2>3 DEF q, l
<1>13. QED
  BY <1>11, <1>12

LEMMA Round ==
  ASSUME NEW body \in Seq(Byte), NEW r, IsRecord(r), Fits(Len(r.payload)), NEW a \in Nat,
         Lies(body, a, Record(r.type, r.payload)), NEW st
  PROVE  AfterRecord(body, Accepted(a, st)) = Advanced(a + 12 + Len(r.payload), st, r)
BY RoundOf DEF IsRecord, Advanced

LEMMA NoRound == ASSUME NEW body, NEW q, ~q.accepted PROVE AfterRecord(body, q) = q
BY DEF AfterRecord

\* Nothing lies at the end of a body.
LEMMA LastRound ==
  ASSUME NEW body \in Seq(Byte), NEW st
  PROVE  AfterRecord(body, Accepted(Len(body), st)) = Refused
<1>1. ~(Len(body) + 8 <= Len(body))
  BY LenProperties
<1>2. QED
  BY <1>1, AcceptedIs DEF AfterRecord

Fitting(rs) == \A i \in 1..Len(rs) : Fits(Len(rs[i].payload))

\* Where a record of a body ends.
EndOf(rs, i) == Len(Glue(SealedPieces(rs), i))

LEMMA Ends ==
  ASSUME NEW rs, AreRecords(rs)
  PROVE  /\ EndOf(rs, 0) = 0 /\ EndOf(rs, Len(rs)) = Len(Sealed(rs)) /\ Len(rs) \in Nat
         /\ \A i \in 1..Len(rs) :
              /\ EndOf(rs, i - 1) \in Nat /\ IsRecord(rs[i])
              /\ EndOf(rs, i) = EndOf(rs, i - 1) + 12 + Len(rs[i].payload)
              /\ Lies(Sealed(rs), EndOf(rs, i - 1), Record(rs[i].type, rs[i].payload))
              /\ EndOf(rs, i - 1) < Len(Sealed(rs))
<1> DEFINE ps == SealedPieces(rs)
           b == Sealed(rs)
           n == Len(rs)
<1>1. /\ ps \in Seq(Seq(Byte)) /\ Len(ps) = n /\ \A i \in 1..n : ps[i] = Record(rs[i].type, rs[i].payload)
      /\ b = FlattenSeq(ps) /\ b \in Seq(Byte)
  BY SealedIsBytes
<1>2. n \in Nat /\ \A i \in 1..n : IsRecord(rs[i])
  BY DEF AreRecords
<1> HIDE DEF ps, b, n
<1>3. Glue(ps, 0) = <<>> /\ Glue(ps, n) = b
  BY <1>1, GlueSteps
<1>4. Lies(b, 0, FlattenSeq(ps)) /\ Len(b) \in Nat
  BY <1>1, LiesWhole, LenProperties
<1>5. ASSUME NEW i \in 1..n
      PROVE  /\ EndOf(rs, i - 1) \in Nat /\ IsRecord(rs[i])
             /\ EndOf(rs, i) = EndOf(rs, i - 1) + 12 + Len(rs[i].payload)
             /\ Lies(b, EndOf(rs, i - 1), Record(rs[i].type, rs[i].payload))
             /\ EndOf(rs, i - 1) < Len(b)
  <2> DEFINE a == Len(Glue(ps, i - 1))
             t == rs[i].type
             p == rs[i].payload
             r == Record(t, p)
  <2>1. IsRecord(rs[i]) /\ ps[i] = r
    BY <1>1, <1>2
  <2>2. t \in Nat /\ p \in Seq(Byte)
    BY <2>1 DEF IsRecord, TwoBytes
  <2>3. Lies(b, 0 + a, ps[i]) /\ Len(Glue(ps, i)) = a + Len(ps[i]) /\ a \in Nat
    <3>1. i \in 1..Len(ps) /\ 0 \in Nat
      BY <1>1
    <3>2. QED
      BY ONLY <1>1, <1>4, <3>1, PiecesLie
  <2> HIDE DEF a, t, p
  <2>4. r \in Seq(Byte) /\ Len(r) = 12 + Len(p)
    BY <2>2, RecordIsBytes
  <2>5. Len(p) \in Nat
    BY <2>2, LenProperties
  <2> HIDE DEF r
  <2>6. 0 + a = a /\ a + Len(r) = a + 12 + Len(p)
    BY <2>3, <2>4, <2>5
  <2>7. Lies(b, a, r) /\ Len(Glue(ps, i)) = a + 12 + Len(p)
    BY <2>1, <2>3, <2>6
  <2>8. a < Len(b)
    <3>1. a + Len(r) <= Len(b)
      BY <2>7 DEF Lies
    <3>2. QED
      BY <1>4, <2>3, <2>4, <2>5, <3>1
  <2>9. QED
    BY <2>1, <2>3, <2>7, <2>8 DEF EndOf, a, t, p, r, ps
<1>6. EndOf(rs, 0) = 0 /\ EndOf(rs, n) = Len(b)
  <2>1. Len(<<>>) = 0
    OBVIOUS
  <2>2. QED
    BY <1>3, <2>1 DEF EndOf, ps
<1>7. QED
  BY <1>2, <1>5, <1>6 DEF b, n

\* The loop over sealed records visits them one by one: each round finds the
\* next record whole and judges its payload, a refusal stays, and the loop is
\* accepted only when it ends with the last record.
LEMMA LoopRounds ==
  ASSUME NEW rs, AreRecords(rs), Fitting(rs), NEW k \in Nat
  PROVE  LET h == RecordsLoop(Sealed(rs), k)
         IN /\ h[0] = Accepted(0, Nothing)
            /\ \A i \in 0..k : i <= Len(rs) => h[i] = Refused \/ h[i] = Accepted(EndOf(rs, i), h[i].state)
            /\ \A i \in 1..k : i <= Len(rs) /\ h[i - 1].accepted =>
                 h[i] = Advanced(EndOf(rs, i), h[i - 1].state, rs[i])
            /\ \A i \in 1..k : ~h[i - 1].accepted => h[i] = h[i - 1]
            /\ \A i \in 0..k : i > Len(rs) => ~h[i].accepted
            /\ ReadRecords(Sealed(rs), k) = IF k = Len(rs) /\ h[k].accepted THEN h[k] ELSE Refused
<1> DEFINE b == Sealed(rs)
           n == Len(rs)
           h == RecordsLoop(b, k)
           Good == {i \in 0..k : i <= n => h[i] = Refused \/ h[i] = Accepted(EndOf(rs, i), h[i].state)}
           Over == {i \in 0..k : i > n => ~h[i].accepted}
<1>1. /\ n \in Nat /\ EndOf(rs, 0) = 0 /\ EndOf(rs, n) = Len(b) /\ b \in Seq(Byte)
      /\ \A i \in 1..n : /\ EndOf(rs, i - 1) \in Nat /\ IsRecord(rs[i]) /\ EndOf(rs, i - 1) < Len(b)
                         /\ EndOf(rs, i) = EndOf(rs, i - 1) + 12 + Len(rs[i].payload)
                         /\ Lies(b, EndOf(rs, i - 1), Record(rs[i].type, rs[i].payload))
  BY Ends, SealedIsBytes
<1>2. /\ h[0] = Accepted(0, Nothing) /\ \A i \in 1..k : h[i] = AfterRecord(b, h[i - 1])
      /\ ReadRecords(b, k) = IF h[k].accepted /\ h[k].at = Len(b) THEN h[k] ELSE Refused
  BY RecordsRun
<1> HIDE DEF b, h
<1>3. \A i \in 1..k : ~h[i - 1].accepted => h[i] = h[i - 1]
  BY <1>2, NoRound
<1>4. ASSUME NEW i \in 1..k, i <= n, h[i - 1] = Accepted(EndOf(rs, i - 1), h[i - 1].state)
      PROVE  h[i] = Advanced(EndOf(rs, i), h[i - 1].state, rs[i])
  <2> DEFINE a == EndOf(rs, i - 1)
             r == rs[i]
             st == h[i - 1].state
  <2>1. i \in 1..n
    BY <1>1, <1>4
  <2>2. a \in Nat /\ IsRecord(r) /\ Lies(b, a, Record(r.type, r.payload)) /\ EndOf(rs, i) = a + 12 + Len(r.payload)
    BY <1>1, <2>1
  <2>3. Fits(Len(r.payload))
    BY <2>1 DEF Fitting
  <2>4. h[i] = AfterRecord(b, Accepted(a, st))
    BY <1>2, <1>4
  <2> HIDE DEF a, r, st
  <2>5. AfterRecord(b, Accepted(a, st)) = Advanced(a + 12 + Len(r.payload), st, r)
    BY ONLY <1>1, <2>2, <2>3, Round
  <2>6. QED
    BY <2>2, <2>4, <2>5 DEF a, r, st
<1>5. 0..k \subseteq Good
  <2>1. 0 \in Good
    <3>1. h[0] = Accepted(EndOf(rs, 0), h[0].state)
      BY <1>1, <1>2, AcceptedIs
    <3>2. QED
      BY <3>1
  <2>2. ASSUME NEW i \in 0..(k - 1), i \in Good PROVE i + 1 \in Good
    <3> DEFINE j == i + 1
    <3>1. j \in 1..k /\ j - 1 = i /\ j \in 0..k
      OBVIOUS
    <3> HIDE DEF j
    <3>2. CASE j <= n
      <4>1. h[i] = Refused \/ h[i] = Accepted(EndOf(rs, i), h[i].state)
        <5>1. i <= n
          BY <1>1, <3>1, <3>2
        <5>2. QED
          BY <2>2, <5>1
      <4>2. CASE h[i] = Refused
        <5>1. h[j] = Refused
          BY <1>3, <3>1, <4>2, RefusedIs
        <5>2. QED
          BY <3>1, <5>1 DEF j
      <4>3. CASE h[i] = Accepted(EndOf(rs, i), h[i].state)
        <5>1. h[j] = Advanced(EndOf(rs, j), h[i].state, rs[j])
          BY <1>4, <3>1, <3>2, <4>3
        <5>2. h[j] = Refused \/ h[j] = Accepted(EndOf(rs, j), h[j].state)
          BY <5>1, AddedIs DEF Advanced
        <5>3. QED
          BY <3>1, <5>2 DEF j
      <4>4. QED
        BY <4>1, <4>2, <4>3
    <3>3. CASE ~(j <= n)
      BY <3>1, <3>3 DEF j
    <3>4. QED
      BY <3>2, <3>3
  <2> HIDE DEF Good
  <2>3. QED
    BY <2>1, <2>2, Upward
<1>6. ASSUME NEW i \in 1..k, i <= n, h[i - 1].accepted
      PROVE  h[i] = Advanced(EndOf(rs, i), h[i - 1].state, rs[i])
  <2>1. i - 1 \in 0..k /\ i - 1 <= n
    BY <1>1, <1>6
  <2>2. h[i - 1] = Accepted(EndOf(rs, i - 1), h[i - 1].state)
    BY <1>5, <1>6, <2>1, RefusedIs
  <2>3. QED
    BY <1>4, <1>6, <2>2
<1>7. 0..k \subseteq Over
  <2>1. 0 \in Over
    BY <1>1
  <2>2. ASSUME NEW i \in 0..(k - 1), i \in Over PROVE i + 1 \in Over
    <3> DEFINE j == i + 1
    <3>1. j \in 1..k /\ j - 1 = i /\ j \in 0..k /\ i \in 0..k
      OBVIOUS
    <3> HIDE DEF j
    <3>2. ASSUME j > n PROVE ~h[j].accepted
      <4>1. CASE ~h[i].accepted
        BY <1>3, <3>1, <4>1
      <4>2. CASE h[i].accepted
        <5>1. ~(i > n)
          BY <2>2, <4>2
        <5>2. i = n
          BY <1>1, <3>1, <3>2, <5>1 DEF j
        <5>3. h[i] = Accepted(Len(b), h[i].state)
          BY <1>1, <1>5, <3>1, <4>2, <5>2, RefusedIs
        <5>4. h[j] = AfterRecord(b, Accepted(Len(b), h[i].state))
          BY <1>2, <3>1, <5>3
        <5>5. QED
          BY <1>1, <5>4, LastRound, RefusedIs
      <4>3. QED
        BY <4>1, <4>2
    <3>3. QED
      BY <3>1, <3>2 DEF j
  <2> HIDE DEF Over
  <2>3. QED
    BY <2>1, <2>2, Upward
<1>8. ReadRecords(b, k) = IF k = n /\ h[k].accepted THEN h[k] ELSE Refused
  <2>1. k \in 0..k
    OBVIOUS
  <2>2. CASE ~h[k].accepted
    BY <1>2, <2>2
  <2>3. CASE h[k].accepted
    <3>1. k <= n /\ h[k] = Accepted(EndOf(rs, k), h[k].state)
      <4>1. ~(k > n)
        BY <1>7, <2>1, <2>3
      <4>2. k <= n
        BY <1>1, <4>1
      <4>3. QED
        BY <1>5, <2>1, <2>3, <4>2, RefusedIs
    <3>2. h[k].at = EndOf(rs, k)
      <4>1. Accepted(EndOf(rs, k), h[k].state).at = EndOf(rs, k)
        BY AcceptedIs
      <4>2. QED
        BY <3>1, <4>1
    <3>3. CASE k = n
      BY <1>1, <1>2, <2>3, <3>2, <3>3
    <3>4. CASE k # n
      <4> DEFINE j == k + 1
      <4>1. j \in 1..n /\ j - 1 = k
        BY <1>1, <3>1, <3>4
      <4> HIDE DEF j
      <4>2. EndOf(rs, k) < Len(b) /\ EndOf(rs, k) \in Nat /\ Len(b) \in Nat
        BY <1>1, <4>1, LenProperties
      <4>3. EndOf(rs, k) # Len(b)
        BY <4>2
      <4>4. QED
        BY <1>2, <3>2, <3>4, <4>3
    <3>5. QED
      BY <3>3, <3>4
  <2>4. QED
    BY <2>2, <2>3
<1>9. QED
  BY <1>1, <1>2, <1>3, <1>5, <1>6, <1>7, <1>8 DEF b, h

-----------------------------------------------------------------------------
(* What is made of a container whose checksums are right *)

LEMMA FitsBelow ==
  ASSUME NEW m \in Nat, NEW n \in Nat, n <= m, Fits(m)
  PROVE  Fits(n)
<1>1. m \div 65536 < 65536
  BY DEF Fits
<1>2. n \div 65536 <= m \div 65536 /\ n \div 65536 \in Nat /\ m \div 65536 \in Nat
  OBVIOUS
<1>3. n \div 65536 < 65536
  BY <1>1, <1>2
<1>4. QED
  BY <1>3 DEF Fits

LEMMA FitsWhole ==
  ASSUME NEW rs, AreRecords(rs), Fits(Len(Sealed(rs)))
  PROVE  Fitting(rs)
<1>1. ASSUME NEW i \in 1..Len(rs) PROVE Fits(Len(rs[i].payload))
  <2> DEFINE p == rs[i].payload
             t == rs[i].type
             a == EndOf(rs, i - 1)
             b == Sealed(rs)
  <2>1. a \in Nat /\ IsRecord(rs[i]) /\ Lies(b, a, Record(t, p))
    BY Ends
  <2>2. t \in Nat /\ p \in Seq(Byte)
    BY <2>1 DEF IsRecord, TwoBytes
  <2>3. Len(Record(t, p)) = 12 + Len(p) /\ Len(p) \in Nat /\ Len(b) \in Nat
    BY <2>2, RecordIsBytes, SealedIsBytes, LenProperties
  <2>4. a + Len(Record(t, p)) <= Len(b)
    BY <2>1 DEF Lies
  <2>5. Fits(Len(b))
    OBVIOUS
  <2> HIDE DEF p, t, a, b
  <2>6. Len(p) <= Len(b)
    BY <2>1, <2>3, <2>4
  <2>7. Fits(Len(p))
    BY ONLY <2>3, <2>5, <2>6, FitsBelow
  <2>8. QED
    BY <2>7 DEF p
<1>2. QED
  BY <1>1 DEF Fitting

LEMMA VersionIs ==
  ASSUME NEW ver \in Nat, Fits(ver)
  PROVE  Digits(ver, 4) = Digits(FormatVersion, 4) <=> ver = FormatVersion
<1>1. FormatVersion = 1
  BY DEF FormatVersion
<1>2. Fits(1) /\ 1 < Beyond /\ 1 \in Nat
  BY SMT DEF Fits, Beyond
<1>3. Size(Digits(1, 4)) = 1
  BY <1>2, FourDigits
<1>4. Size(Digits(ver, 4)) = IF ver < Beyond THEN ver ELSE Beyond
  BY FourDigits
<1>5. Beyond # 1
  BY SMT DEF Beyond
<1>6. Digits(ver, 4) = Digits(1, 4) => ver = 1
  BY <1>3, <1>4, <1>5
<1>7. QED
  BY <1>1, <1>6

\* A container whose checksums are right is judged by its header's numbers and
\* by its records.
LEMMA ContainerDecoded ==
  ASSUME NEW ver \in Nat, Fits(ver), NEW n \in Nat, Fits(n), NEW body \in Seq(Byte), Fits(Len(body))
  PROVE  DecodedState(Container(ver, n, body)) =
           IF ver = FormatVersion /\ n <= MaxRecords /\ HeaderSize + Len(body) + TrailerSize <= MaxFile
           THEN ReadRecords(body, n) ELSE Refused
<1> DEFINE e == Container(ver, n, body)
           l == Len(body)
           h == Covered(ver, n, l)
           records == Size(SubSeq(e, 17, 24))
           length == Size(SubSeq(e, 25, 32))
           part == SubSeq(e, HeaderSize + 1, HeaderSize + length)
<1>1. /\ e \in Seq(Byte) /\ Len(e) = 36 + l + 4 /\ l \in Nat /\ h \in Seq(Byte) /\ Len(h) = 32
      /\ Lies(e, 0, h) /\ Lies(e, 32, Checksum(h)) /\ Lies(e, 36, body) /\ Lies(e, 36 + l, Checksum(body))
  BY ContainerLayout
<1>2. /\ Lies(e, 0, Magic) /\ Lies(e, 8, Digits(ver, 4)) /\ Lies(e, 16, Digits(n, 8)) /\ Lies(e, 24, Digits(l, 8))
      /\ Len(Magic) = 8 /\ Magic \in Seq(Byte)
  BY <1>1, CoveredLayout
<1>3. Fits(l) /\ l = Len(body)
  OBVIOUS
<1> HIDE DEF e, l, h
<1>4. /\ Digits(ver, 4) \in Seq(Byte) /\ Len(Digits(ver, 4)) = 4
      /\ Digits(n, 8) \in Seq(Byte) /\ Len(Digits(n, 8)) = 8
      /\ Digits(l, 8) \in Seq(Byte) /\ Len(Digits(l, 8)) = 8
  BY <1>1, DigitsAreBytes
<1>5. /\ Checksum(h) \in Seq(Byte) /\ Len(Checksum(h)) = 4
      /\ Checksum(body) \in Seq(Byte) /\ Len(Checksum(body)) = 4
  BY <1>1, ChecksumIsFourBytes
<1>6. /\ SubSeq(e, 0 + 1, 0 + 8) = Magic /\ SubSeq(e, 8 + 1, 8 + 4) = Digits(ver, 4)
      /\ SubSeq(e, 16 + 1, 16 + 8) = Digits(n, 8) /\ SubSeq(e, 24 + 1, 24 + 8) = Digits(l, 8)
      /\ SubSeq(e, 0 + 1, 0 + 32) = h /\ SubSeq(e, 32 + 1, 32 + 4) = Checksum(h)
  <2>1. \A a \in Nat : \A p \in Seq(Byte) : Lies(e, a, p) => SubSeq(e, a + 1, a + Len(p)) = p
    BY <1>1, LiesPiece
  <2>2. 0 \in Nat /\ 8 \in Nat /\ 16 \in Nat /\ 24 \in Nat /\ 32 \in Nat
    OBVIOUS
  <2>3. SubSeq(e, 0 + 1, 0 + 8) = Magic
    BY ONLY <1>2, <2>1, <2>2, Zenon
  <2>4. SubSeq(e, 8 + 1, 8 + 4) = Digits(ver, 4)
    BY ONLY <1>2, <1>4, <2>1, <2>2, Zenon
  <2>5. SubSeq(e, 16 + 1, 16 + 8) = Digits(n, 8)
    BY ONLY <1>2, <1>4, <2>1, <2>2, Zenon
  <2>6. SubSeq(e, 24 + 1, 24 + 8) = Digits(l, 8)
    BY ONLY <1>2, <1>4, <2>1, <2>2, Zenon
  <2>7. SubSeq(e, 0 + 1, 0 + 32) = h
    BY ONLY <1>1, <2>1, <2>2, Zenon
  <2>8. SubSeq(e, 32 + 1, 32 + 4) = Checksum(h)
    BY ONLY <1>1, <1>5, <2>1, <2>2, Zenon
  <2>9. QED
    BY <2>3, <2>4, <2>5, <2>6, <2>7, <2>8
<1>7. /\ SubSeq(e, 1, 8) = Magic /\ SubSeq(e, 9, 12) = Digits(ver, 4)
      /\ SubSeq(e, 17, 24) = Digits(n, 8) /\ SubSeq(e, 25, 32) = Digits(l, 8)
      /\ SubSeq(e, 1, 32) = h /\ SubSeq(e, 33, 36) = Checksum(h)
  BY <1>6
<1>8. records = (IF n < Beyond THEN n ELSE Beyond) /\ length = IF l < Beyond THEN l ELSE Beyond
  BY <1>1, <1>3, <1>7, EightDigits
<1>9. HeaderIntact(e)
  BY <1>7 DEF HeaderIntact, HeaderSize
<1>10. SubSeq(e, 9, 12) = Digits(FormatVersion, 4) <=> ver = FormatVersion
  BY <1>7, VersionIs
<1> HIDE DEF records, length
<1>11. /\ records <= MaxRecords <=> n <= MaxRecords
       /\ length <= MaxFile <=> l <= MaxFile
       /\ n <= MaxRecords => records = n
       /\ l <= MaxFile => length = l
  BY <1>1, <1>8, StoreLimits
<1> DEFINE enough == ver = FormatVersion /\ n <= MaxRecords /\ 36 + l + 4 <= MaxFile
           sound == /\ Len(e) <= MaxFile /\ Len(e) >= HeaderSize + TrailerSize
                    /\ SubSeq(e, 1, 8) = Magic /\ SubSeq(e, 9, 12) = Digits(FormatVersion, 4)
                    /\ HeaderIntact(e)
                    /\ records <= MaxRecords /\ length <= MaxFile
                    /\ Len(e) = HeaderSize + length + TrailerSize
                    /\ Checksum(part) = SubSeq(e, HeaderSize + length + 1, Len(e))
<1>12. DecodedState(e) = IF sound THEN ReadRecords(part, records) ELSE Refused
  BY DEF DecodedState, records, length
<1>13. ASSUME enough PROVE sound /\ part = body /\ records = n
  <2>1. l <= MaxFile /\ records = n /\ length = l /\ records <= MaxRecords /\ length <= MaxFile
    BY <1>1, <1>11, <1>13, StoreLimits
  <2>2. part = body
    <3>1. Has(e, 36, l, body) /\ 36 + l <= Len(e) /\ 36 \in Nat
      BY <1>1, <1>3 DEF Lies
    <3>2. SubSeq(e, 36 + 1, 36 + l) = body
      BY ONLY <1>1, <1>3, <3>1, PartIs
    <3>3. QED
      BY <2>1, <3>2 DEF HeaderSize
  <2>3. SubSeq(e, HeaderSize + length + 1, Len(e)) = Checksum(body)
    <3> DEFINE x == 36 + l
    <3>1. Lies(e, x, Checksum(body)) /\ x \in Nat
      BY <1>1
    <3> HIDE DEF x
    <3>2. SubSeq(e, x + 1, x + Len(Checksum(body))) = Checksum(body)
      BY ONLY <1>1, <1>5, <3>1, LiesPiece
    <3>3. SubSeq(e, (36 + l) + 1, (36 + l) + 4) = Checksum(body)
      BY <1>5, <3>2 DEF x
    <3>4. QED
      BY <1>1, <2>1, <3>3 DEF HeaderSize
  <2>4. Len(e) <= MaxFile /\ Len(e) >= HeaderSize + TrailerSize /\ Len(e) = HeaderSize + length + TrailerSize
    BY <1>1, <1>13, <2>1 DEF HeaderSize, TrailerSize
  <2> HIDE DEF part
  <2>5. sound
    BY <1>7, <1>9, <1>10, <1>13, <2>1, <2>2, <2>3, <2>4
  <2>6. QED
    BY <2>1, <2>2, <2>5
<1>14. ASSUME sound PROVE enough
  BY <1>1, <1>10, <1>11, <1>14
<1> HIDE DEF sound, part
<1>15. DecodedState(e) = IF enough THEN ReadRecords(body, n) ELSE Refused
  <2>1. CASE enough
    BY <1>12, <1>13, <2>1
  <2>2. CASE ~enough
    BY <1>12, <1>14, <2>2
  <2>3. QED
    BY <2>1, <2>2
<1>16. QED
  BY <1>15 DEF e, l, HeaderSize, TrailerSize

-----------------------------------------------------------------------------
(* A record is added *)

LEMMA AddedConfig ==
  ASSUME NEW a, NEW st, NEW p
  PROVE  Added(a, st, ConfigType, p) = IF Whole(ConfigType, p) THEN Accepted(a, st) ELSE Refused
BY TypesOf DEF Added, Whole

LEMMA AddedCoordinator ==
  ASSUME NEW a, NEW st, NEW p
  PROVE  Added(a, st, CoordinatorType, p) =
           IF Whole(CoordinatorType, p)
           THEN Accepted(a, [st EXCEPT !["coordinator"] = Decoded(CoordinatorRead, p).value])
           ELSE Refused
BY TypesOf DEF Added, CoordinatorAdded, Whole

LEMMA AddedKind ==
  ASSUME NEW a, NEW st, NEW kind \in Kinds, NEW p
  PROVE  LET v == Decoded(RecordRead[kind], p).value
         IN Added(a, st, TypeOf[kind], p) =
              IF Len(st[kind]) < Most[kind] /\ Whole(TypeOf[kind], p) /\ ~Repeated(st, kind, v[1])
              THEN Accepted(a, [st EXCEPT ![kind] = Append(@, v)])
              ELSE Refused
<1>1. TypeOf[kind] # ConfigType /\ TypeOf[kind] # CoordinatorType /\ KindOf(TypeOf[kind]) = kind
  BY TypesOf
<1>2. QED
  BY <1>1 DEF Added, KindAdded, Whole

\* A record begins with the first field of its value.
LEMMA IdentityFirst ==
  ASSUME NEW kind \in Kinds, NEW p \in Seq(Byte), Whole(TypeOf[kind], p)
  PROVE  LET v == Decoded(RecordRead[kind], p).value
         IN v \in Seq(FieldValues) /\ v[1] = SubSeq(p, 1, 8)
<1> DEFINE layout == RecordRead[kind]
           v == Decoded(layout, p).value
<1>1. layout \in Layouts /\ layout \in Seq(StoredFields) /\ Opens(layout)
  BY StoreLayouts, RecordsAlike
<1>2. Decoded(layout, p).accepted
  <2>1. TypeOf[kind] # ConfigType /\ TypeOf[kind] # CoordinatorType /\ KindOf(TypeOf[kind]) = kind
    BY TypesOf
  <2>2. QED
    BY <2>1 DEF Whole
<1> HIDE DEF layout
<1>3. PICK w \in Seq(FieldValues), ps \in Seq(Seq(Byte)) :
        v = w /\ p = FlattenSeq(ps) /\ LaidOut(layout, w, ps)
  BY <1>1, <1>2, DecodedShows
<1>4. Len(layout) >= 1 /\ layout[1] = Number(8) /\ Len(layout) \in Nat
  BY <1>1, LenProperties DEF Opens
<1>5. layout[1] \in ExactFields
  <2>1. Number(8) \in Exact
    BY ExactOnes
  <2>2. QED
    BY <1>4, <2>1, ExactOnes
<1>6. 1 \in 1..Len(layout)
  BY <1>4
<1>7. FieldValue(layout[1], w[1]) /\ ps[1] = FieldEncoded(layout[1], w[1]) /\ Len(ps) = Len(layout)
  BY <1>3, <1>5, <1>6 DEF LaidOut
<1>8. layout[1].kind = "number" /\ Width(layout[1]) = 8
  BY <1>4 DEF Number, Width
<1>9. w[1] \in Seq(Byte) /\ Len(w[1]) = 8
  BY <1>7, <1>8 DEF FieldValue, SimpleValue, PlainValue
<1>10. ps[1] = w[1]
  <2>1. FieldEncoded(layout[1], w[1]) = [j \in 1..8 |-> Digit(w[1], j)]
    BY <1>8 DEF FieldEncoded, SimpleEncoded, PlainEncoded
  <2>2. QED
    BY <1>7, <1>9, <2>1, DigitsAgain
<1>11. Lies(p, 0 + Len(Glue(ps, 1 - 1)), ps[1])
  <2>1. Lies(p, 0, FlattenSeq(ps))
    BY <1>3, LiesWhole
  <2>2. 1 \in 1..Len(ps) /\ 0 \in Nat
    BY <1>6, <1>7
  <2>3. QED
    BY ONLY <1>3, <2>1, <2>2, p \in Seq(Byte), PiecesLie
<1>12. 0 + Len(Glue(ps, 1 - 1)) = 0
  <2>1. Glue(ps, 0) = <<>> /\ Len(<<>>) = 0
    BY <1>3, GlueSteps
  <2>2. QED
    BY <2>1
<1>13. Lies(p, 0, w[1])
  BY <1>10, <1>11, <1>12
<1>14. SubSeq(p, 0 + 1, 0 + Len(w[1])) = w[1]
  BY ONLY <1>9, <1>13, p \in Seq(Byte), 0 \in Nat, LiesPiece
<1>15. SubSeq(p, 1, 8) = w[1]
  BY <1>9, <1>14
<1>16. QED
  BY <1>3, <1>15 DEF layout

-----------------------------------------------------------------------------
(* What is made of containers of other hands *)

Sound(r) == r.type \in 1..9 /\ Whole(r.type, r.payload) /\ Len(r.payload) <= MaxRecord

Earlier(rs, kind, i) == {j \in 1..i : rs[j].type = TypeOf[kind]}
Identities(rs, kind, i) == {SubSeq(rs[j].payload, 1, 8) : j \in Earlier(rs, kind, i)}

\* The first i records are in order.
Orderly(rs, i) ==
  /\ \A j \in 1..i : Sound(rs[j])
  /\ \A j, k \in 1..i : j # k => ~SameIdentity(rs[j], rs[k])
  /\ \A kind \in Kinds : Cardinality(Earlier(rs, kind, i)) <= Most[kind]

\* What a state has of the first i records.
Mirrors(st, rs, i) ==
  /\ DOMAIN st = Kinds \cup {"coordinator"}
  /\ \A kind \in Kinds :
       /\ st[kind] \in Seq(Seq(FieldValues)) /\ Len(st[kind]) = Cardinality(Earlier(rs, kind, i))
       /\ kind \in Identified => {st[kind][m][1] : m \in 1..Len(st[kind])} = Identities(rs, kind, i)

LEMMA EarlierOnes ==
  ASSUME NEW rs, NEW kind \in Kinds, NEW i \in Nat, i >= 1
  PROVE  /\ Cardinality(Earlier(rs, kind, i - 1)) \in Nat
         /\ rs[i].type = TypeOf[kind] =>
              /\ Cardinality(Earlier(rs, kind, i)) = Cardinality(Earlier(rs, kind, i - 1)) + 1
              /\ Identities(rs, kind, i) = Identities(rs, kind, i - 1) \cup {SubSeq(rs[i].payload, 1, 8)}
         /\ rs[i].type # TypeOf[kind] =>
              /\ Earlier(rs, kind, i) = Earlier(rs, kind, i - 1)
              /\ Identities(rs, kind, i) = Identities(rs, kind, i - 1)
<1> DEFINE E == Earlier(rs, kind, i - 1)
           F == Earlier(rs, kind, i)
<1>1. IsFiniteSet(E) /\ i \notin E
  <2>1. E \subseteq 1..(i - 1)
    BY DEF Earlier
  <2>2. IsFiniteSet(1..(i - 1)) /\ i \notin 1..(i - 1)
    BY FS_Interval
  <2>3. QED
    BY <2>1, <2>2, FS_Subset
<1>2. Cardinality(E) \in Nat
  BY <1>1, FS_CardinalityType
<1>3. \A j : j \in 1..i <=> j \in 1..(i - 1) \/ j = i
  OBVIOUS
<1>4. ASSUME rs[i].type = TypeOf[kind] PROVE F = E \cup {i}
  BY <1>3, <1>4 DEF Earlier
<1>5. ASSUME rs[i].type # TypeOf[kind] PROVE F = E
  BY <1>3, <1>5 DEF Earlier
<1> HIDE DEF E, F
<1>6. Cardinality(E \cup {i}) = Cardinality(E) + 1
  BY <1>1, FS_AddElement
<1>7. /\ Identities(rs, kind, i) = {SubSeq(rs[j].payload, 1, 8) : j \in F}
      /\ Identities(rs, kind, i - 1) = {SubSeq(rs[j].payload, 1, 8) : j \in E}
  BY DEF Identities, E, F
<1>8. {SubSeq(rs[j].payload, 1, 8) : j \in E \cup {i}} =
        {SubSeq(rs[j].payload, 1, 8) : j \in E} \cup {SubSeq(rs[i].payload, 1, 8)}
  OBVIOUS
<1>9. QED
  BY <1>2, <1>4, <1>5, <1>6, <1>7, <1>8 DEF E, F

\* Only records of one type can have one identity.
LEMMA SameIdentityIs ==
  ASSUME NEW r, NEW q
  PROVE  /\ SameIdentity(r, q) <=> SameIdentity(q, r)
         /\ \A kind \in Kinds : r.type = TypeOf[kind] =>
              (SameIdentity(q, r) <=>
                 kind \in Identified /\ q.type = TypeOf[kind] /\ SubSeq(q.payload, 1, 8) = SubSeq(r.payload, 1, 8))
         /\ r.type \in {ConfigType, CoordinatorType} => ~SameIdentity(q, r)
<1>1. SameIdentity(r, q) <=> SameIdentity(q, r)
  BY DEF SameIdentity
<1>2. Identified \subseteq Kinds
  BY DEF Identified
<1>3. ASSUME NEW kind \in Kinds, r.type = TypeOf[kind]
      PROVE  SameIdentity(q, r) <=>
               kind \in Identified /\ q.type = TypeOf[kind] /\ SubSeq(q.payload, 1, 8) = SubSeq(r.payload, 1, 8)
  <2>1. r.type \in {TypeOf[k] : k \in Identified} <=> kind \in Identified
    BY <1>2, <1>3, TypesOf
  <2>2. QED
    BY <1>3, <2>1 DEF SameIdentity
<1>4. ASSUME r.type \in {ConfigType, CoordinatorType} PROVE ~SameIdentity(q, r)
  <2>1. r.type \notin {TypeOf[k] : k \in Identified}
    BY <1>2, <1>4, TypesOf
  <2>2. QED
    BY <2>1 DEF SameIdentity
<1>5. QED
  BY <1>1, <1>3, <1>4

LEMMA OrderlySteps ==
  ASSUME NEW rs, NEW i \in Nat, i >= 1
  PROVE  Orderly(rs, i) <=>
           /\ Orderly(rs, i - 1) /\ Sound(rs[i])
           /\ \A j \in 1..(i - 1) : ~SameIdentity(rs[j], rs[i])
           /\ \A kind \in Kinds : Cardinality(Earlier(rs, kind, i)) <= Most[kind]
<1>1. \A j : j \in 1..i <=> j \in 1..(i - 1) \/ j = i
  OBVIOUS
<1>2. i \notin 1..(i - 1)
  OBVIOUS
<1>3. \A j : SameIdentity(rs[i], rs[j]) <=> SameIdentity(rs[j], rs[i])
  BY SameIdentityIs
<1>4. ASSUME \A kind \in Kinds : Cardinality(Earlier(rs, kind, i)) <= Most[kind]
      PROVE  \A kind \in Kinds : Cardinality(Earlier(rs, kind, i - 1)) <= Most[kind]
  <2>1. ASSUME NEW kind \in Kinds PROVE Cardinality(Earlier(rs, kind, i - 1)) <= Most[kind]
    <3> DEFINE x == Cardinality(Earlier(rs, kind, i - 1))
               y == Cardinality(Earlier(rs, kind, i))
    <3>1. x \in Nat /\ (y = x \/ y = x + 1)
      BY EarlierOnes
    <3>2. y <= Most[kind] /\ Most[kind] \in Nat
      BY <1>4, StoreLimits
    <3> HIDE DEF x, y
    <3>3. x <= Most[kind]
      BY <3>1, <3>2
    <3>4. QED
      BY <3>3 DEF x
  <2>2. QED
    BY <2>1
<1>5. (\A j \in 1..i : Sound(rs[j])) <=> (\A j \in 1..(i - 1) : Sound(rs[j])) /\ Sound(rs[i])
  BY ONLY <1>1
<1>6. (\A j, k \in 1..i : j # k => ~SameIdentity(rs[j], rs[k])) <=>
        /\ \A j, k \in 1..(i - 1) : j # k => ~SameIdentity(rs[j], rs[k])
        /\ \A j \in 1..(i - 1) : ~SameIdentity(rs[j], rs[i])
  BY ONLY <1>1, <1>2, <1>3
<1>7. QED
  BY <1>4, <1>5, <1>6 DEF Orderly

\* A record keeps the records read so far in order, or is refused.
LEMMA HandRound ==
  ASSUME NEW rs, NEW i \in Nat, i >= 1, IsRecord(rs[i]), NEW st, Orderly(rs, i - 1), Mirrors(st, rs, i - 1), NEW a
  PROVE  LET q == Advanced(a, st, rs[i])
         IN (q.accepted <=> Orderly(rs, i)) /\ (q.accepted => Mirrors(q.state, rs, i))
<1> DEFINE r == rs[i]
           t == r.type
           p == r.payload
           q == Advanced(a, st, r)
           fits == \A kind \in Kinds : Cardinality(Earlier(rs, kind, i)) <= Most[kind]
           fresh == \A j \in 1..(i - 1) : ~SameIdentity(rs[j], r)
<1>1. p \in Seq(Byte)
  BY DEF IsRecord
<1>2. Orderly(rs, i) <=> Sound(r) /\ fresh /\ fits
  BY OrderlySteps
<1>3. \A kind \in Kinds : t # TypeOf[kind] =>
        /\ Earlier(rs, kind, i) = Earlier(rs, kind, i - 1)
        /\ Identities(rs, kind, i) = Identities(rs, kind, i - 1)
        /\ Cardinality(Earlier(rs, kind, i)) <= Most[kind]
  BY EarlierOnes DEF Orderly
<1>4. CASE ~(Len(p) <= MaxRecord /\ t \in 1..9)
  <2>1. q = Refused
    BY <1>4 DEF Advanced
  <2>2. ~Sound(r)
    BY <1>4 DEF Sound
  <2>3. QED
    BY <1>2, <2>1, <2>2, RefusedIs
<1>5. CASE Len(p) <= MaxRecord /\ t \in {ConfigType, CoordinatorType}
  <2>1. t \in 1..9 /\ \A kind \in Kinds : t # TypeOf[kind]
    BY <1>5, TypesOf
  <2>2. q = Added(a, st, t, p)
    BY <1>5, <2>1 DEF Advanced
  <2>3. Sound(r) <=> Whole(t, p)
    BY <1>5, <2>1 DEF Sound
  <2>4. fresh
    BY <1>5, SameIdentityIs
  <2>5. fits
    BY <1>3, <2>1
  <2>6. Mirrors(st, rs, i)
    BY <1>3, <2>1 DEF Mirrors
  <2>7. ASSUME NEW w PROVE Mirrors([st EXCEPT !["coordinator"] = w], rs, i)
    <3> DEFINE u == [st EXCEPT !["coordinator"] = w]
    <3>1. "coordinator" \notin Kinds
      BY DEF Kinds
    <3>2. DOMAIN u = DOMAIN st /\ \A kind \in Kinds : u[kind] = st[kind]
      BY <2>6, <3>1 DEF Mirrors
    <3> HIDE DEF u
    <3>3. QED
      BY <2>6, <3>2 DEF Mirrors, u
  <2> HIDE DEF r, t, p, q, fits, fresh
  <2>8. CASE t = ConfigType
    <3>1. q = IF Whole(t, p) THEN Accepted(a, st) ELSE Refused
      BY <2>2, <2>8, AddedConfig
    <3>2. QED
      BY <1>2, <2>3, <2>4, <2>5, <2>6, <3>1, AcceptedIs, RefusedIs DEF q, r
  <2>9. CASE t = CoordinatorType
    <3> DEFINE u == [st EXCEPT !["coordinator"] = Decoded(CoordinatorRead, p).value]
    <3>1. q = IF Whole(t, p) THEN Accepted(a, u) ELSE Refused
      BY <2>2, <2>9, AddedCoordinator
    <3>2. Mirrors(u, rs, i)
      BY <2>7
    <3> HIDE DEF u
    <3>3. QED
      BY <1>2, <2>3, <2>4, <2>5, <3>1, <3>2, AcceptedIs, RefusedIs DEF q, r
  <2>10. QED
    BY <1>5, <2>8, <2>9 DEF r, t, p
<1>6. CASE Len(p) <= MaxRecord /\ t \in 1..9 /\ t \notin {ConfigType, CoordinatorType}
  <2> DEFINE kind == KindOf(t)
             v == Decoded(RecordRead[kind], p).value
             n == Len(st[kind])
             u == [st EXCEPT ![kind] = Append(@, v)]
             id == SubSeq(p, 1, 8)
  <2>1. kind \in Kinds /\ TypeOf[kind] = t
    BY <1>6, TypesOf
  <2>2. \A k \in Kinds : k # kind => t # TypeOf[k]
    BY <2>1, TypesOf
  <2> HIDE DEF kind
  <2>3. q = IF n < Most[kind] /\ Whole(t, p) /\ ~Repeated(st, kind, v[1]) THEN Accepted(a, u) ELSE Refused
    <3>1. q = Added(a, st, t, p)
      BY <1>6 DEF Advanced
    <3>2. Added(a, st, TypeOf[kind], p) =
            IF Len(st[kind]) < Most[kind] /\ Whole(TypeOf[kind], p) /\ ~Repeated(st, kind, v[1])
            THEN Accepted(a, u) ELSE Refused
      BY <2>1, AddedKind
    <3> HIDE DEF v, u, q
    <3>3. QED
      BY <2>1, <3>1, <3>2
  <2>4. Sound(r) <=> Whole(t, p)
    BY <1>6 DEF Sound
  <2>5. /\ DOMAIN st = Kinds \cup {"coordinator"} /\ st[kind] \in Seq(Seq(FieldValues))
        /\ n = Cardinality(Earlier(rs, kind, i - 1))
        /\ kind \in Identified => {st[kind][m][1] : m \in 1..n} = Identities(rs, kind, i - 1)
        /\ n \in Nat /\ DOMAIN st[kind] = 1..n
    BY <2>1, LenProperties DEF Mirrors
  <2>6. /\ Cardinality(Earlier(rs, kind, i)) = n + 1
        /\ Identities(rs, kind, i) = Identities(rs, kind, i - 1) \cup {id}
    BY <2>1, <2>5, EarlierOnes
  <2>7. fits <=> n < Most[kind]
    <3>1. n + 1 <= Most[kind] <=> n < Most[kind]
      BY <2>1, <2>5, StoreLimits
    <3>2. QED
      BY <1>3, <2>1, <2>2, <2>6, <3>1
  <2>8. ASSUME Whole(t, p)
        PROVE  v \in Seq(FieldValues) /\ v[1] = id
    BY <1>1, <2>1, <2>8, IdentityFirst
  <2>9. fresh <=> (kind \in Identified => id \notin Identities(rs, kind, i - 1))
    <3>1. \A j \in 1..(i - 1) : SameIdentity(rs[j], r) <=>
            kind \in Identified /\ rs[j].type = t /\ SubSeq(rs[j].payload, 1, 8) = id
      BY <2>1, SameIdentityIs
    <3>2. id \in Identities(rs, kind, i - 1) <=>
            \E j \in 1..(i - 1) : rs[j].type = t /\ SubSeq(rs[j].payload, 1, 8) = id
      BY <2>1 DEF Identities, Earlier
    <3> HIDE DEF id, r, t, kind
    <3>3. QED
      BY <3>1, <3>2
  <2>10. ASSUME Whole(t, p)
         PROVE  Repeated(st, kind, v[1]) <=> ~fresh
    <3>1. Repeated(st, kind, id) <=> kind \in Identified /\ id \in {st[kind][m][1] : m \in 1..n}
      BY <2>5 DEF Repeated
    <3>2. v[1] = id
      BY <2>8, <2>10
    <3> HIDE DEF v, id, fresh, n
    <3>3. QED
      BY <2>5, <2>9, <3>1, <3>2
  <2>11. ASSUME Whole(t, p)
         PROVE  Mirrors(u, rs, i)
    <3>1. DOMAIN u = DOMAIN st /\ u[kind] = Append(st[kind], v) /\ \A k \in Kinds : k # kind => u[k] = st[k]
      BY <2>1, <2>5
    <3>2. v \in Seq(FieldValues) /\ v[1] = id
      BY <2>8, <2>11
    <3> HIDE DEF u, v, id
    <3>3. /\ u[kind] \in Seq(Seq(FieldValues)) /\ Len(u[kind]) = n + 1 /\ u[kind][n + 1] = v
          /\ \A m \in 1..n : u[kind][m] = st[kind][m]
      BY <2>5, <3>1, <3>2, AppendProperties
    <3> HIDE DEF n
    <3>4. {u[kind][m][1] : m \in 1..(n + 1)} = {st[kind][m][1] : m \in 1..n} \cup {id}
      <4> DEFINE x == u[kind]
                 y == st[kind]
                 w == n + 1
      <4>1. /\ \A m : m \in 1..w <=> m \in 1..n \/ m = w
            /\ x[w][1] = id /\ \A m \in 1..n : x[m] = y[m]
        BY <2>5, <3>2, <3>3
      <4> HIDE DEF x, y, w
      <4>2. {x[m][1] : m \in 1..w} = {y[m][1] : m \in 1..n} \cup {id}
        BY ONLY <4>1
      <4>3. QED
        BY <4>2 DEF x, y, w
    <3>5. kind \in Identified => {u[kind][m][1] : m \in 1..Len(u[kind])} = Identities(rs, kind, i)
      BY <2>5, <2>6, <3>3, <3>4
    <3>6. ASSUME NEW k \in Kinds
          PROVE  /\ u[k] \in Seq(Seq(FieldValues)) /\ Len(u[k]) = Cardinality(Earlier(rs, k, i))
                 /\ k \in Identified => {u[k][m][1] : m \in 1..Len(u[k])} = Identities(rs, k, i)
      <4>1. CASE k = kind
        BY <2>6, <3>3, <3>5, <4>1
      <4>2. CASE k # kind
        <5>1. /\ Earlier(rs, k, i) = Earlier(rs, k, i - 1) /\ Identities(rs, k, i) = Identities(rs, k, i - 1)
              /\ u[k] = st[k]
          BY <1>3, <2>2, <3>1, <4>2
        <5>2. /\ st[k] \in Seq(Seq(FieldValues)) /\ Len(st[k]) = Cardinality(Earlier(rs, k, i - 1))
              /\ k \in Identified => {st[k][m][1] : m \in 1..Len(st[k])} = Identities(rs, k, i - 1)
          BY DEF Mirrors
        <5>3. QED
          BY <5>1, <5>2
      <4>3. QED
        BY <4>1, <4>2
    <3>7. QED
      BY <2>5, <3>1, <3>6 DEF Mirrors
  <2> HIDE DEF r, t, p, q, fits, fresh, v, n, u
  <2>12. (q.accepted <=> Sound(r) /\ fresh /\ fits) /\ (q.accepted => Mirrors(q.state, rs, i))
    <3>1. CASE Whole(t, p)
      BY <2>3, <2>4, <2>7, <2>10, <2>11, <3>1, AcceptedIs, RefusedIs
    <3>2. CASE ~Whole(t, p)
      BY <2>3, <2>4, <3>2, RefusedIs
    <3>3. QED
      BY <3>1, <3>2
  <2>13. QED
    BY <1>2, <2>12 DEF q, r
<1>7. QED
  BY <1>4, <1>5, <1>6

\* The loop accepts the records that are in order, and no others.
LEMMA HandLoop ==
  ASSUME NEW rs, AreRecords(rs), Fitting(rs)
  PROVE  RecordsLoop(Sealed(rs), Len(rs))[Len(rs)].accepted <=> Orderly(rs, Len(rs))
<1> DEFINE n == Len(rs)
           h == RecordsLoop(Sealed(rs), n)
           Good == {i \in 0..n : (h[i].accepted <=> Orderly(rs, i)) /\ (h[i].accepted => Mirrors(h[i].state, rs, i))}
<1>1. n \in Nat /\ \A i \in 1..n : IsRecord(rs[i])
  BY DEF AreRecords
<1>2. /\ h[0] = Accepted(0, Nothing)
      /\ \A i \in 1..n : h[i - 1].accepted => h[i] = Advanced(EndOf(rs, i), h[i - 1].state, rs[i])
      /\ \A i \in 1..n : ~h[i - 1].accepted => h[i] = h[i - 1]
  <2>1. \A i \in 1..n : i <= n
    BY <1>1
  <2>2. QED
    BY <1>1, <2>1, LoopRounds
<1> HIDE DEF n, h
<1>3. 0 \in Good
  <2>1. \A kind \in Kinds : Earlier(rs, kind, 0) = {} /\ Identities(rs, kind, 0) = {}
    BY DEF Earlier, Identities
  <2>2. Cardinality({}) = 0 /\ \A kind \in Kinds : 0 <= Most[kind]
    BY FS_EmptySet, StoreLimits
  <2>3. Orderly(rs, 0)
    BY <2>1, <2>2 DEF Orderly
  <2>4. DOMAIN Nothing = Kinds \cup {"coordinator"} /\ \A kind \in Kinds : Nothing[kind] = <<>>
    BY DEF Nothing, Kinds
  <2>5. <<>> \in Seq(Seq(FieldValues)) /\ Len(<<>>) = 0 /\ 1..0 = {}
    OBVIOUS
  <2>6. \A kind \in Kinds : {Nothing[kind][m][1] : m \in 1..Len(Nothing[kind])} = {}
    BY <2>4, <2>5
  <2>7. Mirrors(Nothing, rs, 0)
    BY <2>1, <2>2, <2>4, <2>5, <2>6 DEF Mirrors
  <2>8. QED
    BY <1>1, <1>2, <2>3, <2>7, AcceptedIs
<1>4. ASSUME NEW i \in 0..(n - 1), i \in Good PROVE i + 1 \in Good
  <2> DEFINE j == i + 1
  <2>1. j \in 1..n /\ j - 1 = i /\ j \in 0..n /\ j \in Nat /\ j >= 1
    BY <1>1
  <2> HIDE DEF j
  <2>2. CASE h[i].accepted
    <3>1. Orderly(rs, j - 1) /\ Mirrors(h[i].state, rs, j - 1) /\ h[j] = Advanced(EndOf(rs, j), h[i].state, rs[j])
      BY <1>2, <1>4, <2>1, <2>2
    <3>2. (h[j].accepted <=> Orderly(rs, j)) /\ (h[j].accepted => Mirrors(h[j].state, rs, j))
      BY <1>1, <2>1, <3>1, HandRound
    <3>3. QED
      BY <2>1, <3>2 DEF j
  <2>3. CASE ~h[i].accepted
    <3>1. ~Orderly(rs, j - 1) /\ ~h[j].accepted
      BY <1>2, <1>4, <2>1, <2>3
    <3>2. ~Orderly(rs, j)
      BY <2>1, <3>1, OrderlySteps
    <3>3. QED
      BY <2>1, <3>1, <3>2 DEF j
  <2>4. QED
    BY <2>2, <2>3
<1> HIDE DEF Good
<1>5. 0..n \subseteq Good
  BY <1>1, <1>3, <1>4, Upward
<1>6. n \in Good
  BY <1>1, <1>5
<1>7. QED
  BY <1>6 DEF Good, n, h

\* A container of another hand is accepted when it is in order.
LEMMA HandJudged ==
  ASSUME NEW c \in HandWritten
  PROVE  DecodedState(Container(c.version, c.declared, Sealed(c.records))).accepted <=> InOrder(c)
<1> DEFINE rs == c.records
           n == Len(rs)
           b == Sealed(rs)
           ver == c.version
           k == c.declared
<1>1. /\ rs \in Seq(HandRecords) /\ k \in Nat /\ Fits(k) /\ ver \in Nat /\ Fits(ver) /\ Fits(Len(b))
      /\ \A i \in DOMAIN rs : rs[i].type \in 1..9 => (rs[i].whole <=> Whole(rs[i].type, rs[i].payload))
  BY EncodingsAssumption DEF EncodingsAssumption
<1>2. n \in Nat /\ DOMAIN rs = 1..n /\ \A i \in 1..n : rs[i] \in HandRecords
  BY <1>1, LenProperties, ElementOfSeq
<1>3. AreRecords(rs)
  BY <1>2 DEF AreRecords, IsRecord, HandRecords, TwoBytes
<1>4. b \in Seq(Byte) /\ Fitting(rs)
  BY <1>1, <1>3, SealedIsBytes, FitsWhole
<1>5. DecodedState(Container(ver, k, b)) =
        IF ver = FormatVersion /\ k <= MaxRecords /\ HeaderSize + Len(b) + TrailerSize <= MaxFile
        THEN ReadRecords(b, k) ELSE Refused
  BY <1>1, <1>4, ContainerDecoded
<1>6. ReadRecords(b, k).accepted <=> k = n /\ Orderly(rs, n)
  <2>1. ReadRecords(b, k) =
          IF k = n /\ RecordsLoop(b, k)[k].accepted THEN RecordsLoop(b, k)[k] ELSE Refused
    BY <1>1, <1>3, <1>4, LoopRounds
  <2>2. RecordsLoop(b, n)[n].accepted <=> Orderly(rs, n)
    BY <1>3, <1>4, HandLoop
  <2> HIDE DEF n, b, k
  <2>3. CASE k = n /\ RecordsLoop(b, k)[k].accepted
    BY <2>1, <2>2, <2>3
  <2>4. CASE ~(k = n /\ RecordsLoop(b, k)[k].accepted)
    BY <2>1, <2>2, <2>4, RefusedIs
  <2>5. QED
    BY <2>3, <2>4
<1>7. Orderly(rs, n) <=>
        /\ \A i \in 1..n : rs[i].type \in 1..9 /\ rs[i].whole
        /\ \A i, j \in 1..n : i # j => ~SameIdentity(rs[i], rs[j])
        /\ \A i \in 1..n : Len(rs[i].payload) <= MaxRecord
        /\ \A kind \in Kinds : Cardinality({i \in 1..n : rs[i].type = TypeOf[kind]}) <= Most[kind]
  <2>1. \A i \in 1..n : rs[i].type \in 1..9 /\ rs[i].whole <=> rs[i].type \in 1..9 /\ Whole(rs[i].type, rs[i].payload)
    BY <1>1, <1>2
  <2> HIDE DEF rs, n
  <2>2. (\A i \in 1..n : Sound(rs[i])) <=>
          (\A i \in 1..n : rs[i].type \in 1..9 /\ rs[i].whole) /\ \A i \in 1..n : Len(rs[i].payload) <= MaxRecord
    BY <2>1 DEF Sound
  <2>3. QED
    BY <2>2 DEF Orderly, Earlier
<1>8. InOrder(c) <=>
        ver = FormatVersion /\ k = n /\ Orderly(rs, n) /\ k <= MaxRecords /\ HeaderSize + Len(b) + TrailerSize <= MaxFile
  BY <1>2, <1>7 DEF InOrder
<1> HIDE DEF rs, n, b, ver, k
<1>9. DecodedState(Container(ver, k, b)).accepted <=> InOrder(c)
  <2>1. CASE ver = FormatVersion /\ k <= MaxRecords /\ HeaderSize + Len(b) + TrailerSize <= MaxFile
    BY <1>5, <1>6, <1>8, <2>1
  <2>2. CASE ~(ver = FormatVersion /\ k <= MaxRecords /\ HeaderSize + Len(b) + TrailerSize <= MaxFile)
    BY <1>5, <1>8, <2>2, RefusedIs
  <2>3. QED
    BY <2>1, <2>2
<1>10. QED
  BY <1>9 DEF rs, b, ver, k

-----------------------------------------------------------------------------
(* A state that was saved is loaded *)

LEMMA PlainIsShown ==
  ASSUME NEW f \in PlainFields
  PROVE  \A v : Shown(f, v) = v
<1>1. CASE f \in Simple(Plain)
  BY <1>1, SimpleIsShown
<1>2. CASE f \notin Simple(Plain)
  BY <1>2 DEF PlainFields, Fields, Shown
<1>3. QED
  BY <1>1, <1>2

LEMMA PlainValueShown ==
  ASSUME NEW layout \in Seq(PlainFields), NEW v, IsValue(layout, v)
  PROVE  ShownValue(layout, v) = v
<1>1. DOMAIN layout = 1..Len(layout) /\ \A i \in 1..Len(layout) : layout[i] \in PlainFields
  BY LenProperties, ElementOfSeq
<1>2. v = [i \in 1..Len(layout) |-> v[i]]
  BY <1>1 DEF IsValue
<1>3. \A i \in 1..Len(layout) : Shown(layout[i], v[i]) = v[i]
  BY <1>1, PlainIsShown
<1>4. QED
  BY <1>2, <1>3 DEF ShownValue

\* Of a coupling the last field, whether it had an expiry, is not kept.
LEMMA CouplingShown ==
  ASSUME NEW v, IsValue(CouplingRead, v)
  PROVE  ShownValue(CouplingRead, v) = [v EXCEPT ![Len(CouplingRead)] = <<0>>]
<1> DEFINE n == Len(CouplingKept)
           l == CouplingRead
           m == Len(l)
           t == <<Strict, Forgotten(2)>>
<1>1. CouplingKept \in Seq(PlainFields) /\ l = CouplingKept \o t /\ Strict \in PlainFields
  BY CouplingsAlike
<1>2. n \in Nat /\ \A i \in 1..n : CouplingKept[i] \in PlainFields
  BY <1>1, LenProperties, ElementOfSeq
<1>3. l \in Seq(StoredFields)
  BY CouplingsAlike, StoreLayouts, RecordsAlike DEF RecordRead, Kinds
<1>4. t \in Seq(StoredFields) /\ Len(t) = 2 /\ t[1] = Strict /\ t[2] = Forgotten(2)
  <2>1. Strict \in StoredFields /\ Forgotten(2) \in StoredFields
    BY <1>1, ForgottenPair DEF StoredFields
  <2>2. QED
    BY <2>1
<1>5. CouplingKept \in Seq(StoredFields)
  BY <1>1, SeqMonotonic DEF StoredFields
<1> HIDE DEF t
<1>6. m = n + 2 /\ m \in Nat /\ \A i \in 1..n : l[i] = CouplingKept[i]
  <2>1. Len(l) = Len(CouplingKept) + Len(t) /\ \A i \in 1..Len(CouplingKept) : l[i] = CouplingKept[i]
    <3> DEFINE k == CouplingKept
    <3>1. t \in Seq(StoredFields) /\ k \in Seq(StoredFields)
      BY <1>4, <1>5
    <3> HIDE DEF k
    <3>2. Len(k \o t) = Len(k) + Len(t) /\ Len(k) \in Nat /\ Len(t) \in Nat
      BY ONLY <3>1, ConcatProperties, LenProperties
    <3>3. \A i \in 1..(Len(k) + Len(t)) : (k \o t)[i] = IF i <= Len(k) THEN k[i] ELSE t[i - Len(k)]
      BY ONLY <3>1, ConcatProperties
    <3>4. \A i \in 1..Len(k) : (k \o t)[i] = k[i]
      BY ONLY <3>2, <3>3
    <3>5. QED
      BY <1>1, <3>2, <3>4 DEF k
  <2>2. QED
    BY <1>2, <1>4, <2>1
<1>7. l[n + 1] = Strict /\ l[n + 2] = Forgotten(2)
  <2>1. \A i \in (n + 1)..(n + 2) : l[i] = t[i - n]
    BY <1>1, <1>4, <1>5, <1>2, ConcatProperties
  <2>2. n + 1 \in (n + 1)..(n + 2) /\ n + 2 \in (n + 1)..(n + 2) /\ (n + 1) - n = 1 /\ (n + 2) - n = 2
    BY <1>2
  <2>3. QED
    BY <1>4, <2>1, <2>2
<1>8. DOMAIN l = 1..m
  BY <1>3, LenProperties
<1> HIDE DEF l, n
<1>9. v = [i \in 1..m |-> v[i]]
  BY <1>8 DEF IsValue, l
<1> HIDE DEF m
<1>10. \A i \in 1..m : i = n + 2 \/ i = n + 1 \/ i \in 1..n
  BY <1>2, <1>6
<1>11. ASSUME NEW i \in 1..m, i # m PROVE Shown(l[i], v[i]) = v[i]
  BY <1>1, <1>2, <1>6, <1>7, <1>10, <1>11, PlainIsShown
<1>12. Shown(l[m], v[m]) = <<0>>
  <2>1. l[m] = Forgotten(2)
    BY <1>6, <1>7
  <2>2. QED
    BY <2>1 DEF Shown, Forgotten
<1>13. m \in 1..m
  BY <1>2, <1>6
<1>14. [v EXCEPT ![m] = <<0>>] = [i \in 1..m |-> IF i = m THEN <<0>> ELSE v[i]]
  BY <1>9, <1>13
<1>15. [i \in 1..m |-> Shown(l[i], v[i])] = [i \in 1..m |-> IF i = m THEN <<0>> ELSE v[i]]
  BY <1>11, <1>12
<1>16. QED
  BY <1>14, <1>15 DEF ShownValue, m, l

LEMMA RestoredIs ==
  ASSUME NEW s, Storable(s)
  PROVE  /\ Restored(s) = [x \in Kinds \cup {"coordinator"} |-> Restored(s)[x]]
         /\ Restored(s)["coordinator"] = s["coordinator"]
         /\ \A kind \in Kinds :
              /\ Restored(s)[kind] \in Seq(Seq(FieldValues)) /\ Len(Restored(s)[kind]) = Len(s[kind])
              /\ \A i \in 1..Len(s[kind]) : Restored(s)[kind][i] = ShownValue(RecordRead[kind], s[kind][i])
<1> DEFINE r == Restored(s)
           c == [i \in DOMAIN s["couplings"] |-> [s["couplings"][i] EXCEPT ![Len(CouplingRead)] = <<0>>]]
<1>1. DOMAIN s = Kinds \cup {"coordinator"} /\ "couplings" \in Kinds /\ "coordinator" \notin Kinds
  BY DEF Storable, Kinds
<1>2. r = [s EXCEPT !["couplings"] = c]
  BY DEF Restored
<1> HIDE DEF c
<1>3. /\ r = [x \in Kinds \cup {"coordinator"} |-> r[x]] /\ r["coordinator"] = s["coordinator"]
      /\ r["couplings"] = c /\ \A kind \in Kinds : kind # "couplings" => r[kind] = s[kind]
  BY <1>1, <1>2
<1> HIDE DEF r
<1>4. ASSUME NEW kind \in Kinds
      PROVE  /\ Len(s[kind]) \in Nat
             /\ r[kind] = [i \in 1..Len(s[kind]) |-> ShownValue(RecordRead[kind], s[kind][i])]
             /\ \A i \in 1..Len(s[kind]) : ShownValue(RecordRead[kind], s[kind][i]) \in Seq(FieldValues)
  <2> DEFINE v == s[kind]
             n == Len(v)
             l == RecordRead[kind]
  <2>1. n \in Nat /\ v = [i \in 1..n |-> v[i]] /\ \A i \in 1..n : IsValue(l, v[i])
    BY DEF Storable
  <2>2. DOMAIN v = 1..n
    BY <2>1
  <2>3. \A i \in 1..n : ShownValue(l, v[i]) \in Seq(FieldValues)
    BY <2>1, StoreLayouts, ShownIsSeq
  <2>4. CASE kind = "couplings"
    <3>1. l = CouplingRead
      BY <2>4 DEF RecordRead
    <3>2. \A i \in 1..n : ShownValue(l, v[i]) = [v[i] EXCEPT ![Len(CouplingRead)] = <<0>>]
      BY <2>1, <3>1, CouplingShown
    <3>3. r[kind] = [i \in 1..n |-> [v[i] EXCEPT ![Len(CouplingRead)] = <<0>>]]
      BY <1>3, <2>2, <2>4 DEF c
    <3> HIDE DEF l, n
    <3>4. r[kind] = [i \in 1..n |-> ShownValue(l, v[i])]
      BY <3>2, <3>3
    <3>5. QED
      BY <2>1, <2>3, <3>4 DEF l, n
  <2>5. CASE kind # "couplings"
    <3>1. l \in Seq(PlainFields)
      BY <2>5, RecordsAlike
    <3>2. \A i \in 1..n : ShownValue(l, v[i]) = v[i]
      BY <2>1, <3>1, PlainValueShown
    <3>3. r[kind] = [i \in 1..n |-> v[i]]
      BY <1>3, <2>1, <2>5
    <3> HIDE DEF l, n
    <3>4. r[kind] = [i \in 1..n |-> ShownValue(l, v[i])]
      BY <3>2, <3>3
    <3>5. QED
      BY <2>1, <2>3, <3>4 DEF l, n
  <2>6. QED
    BY <2>4, <2>5
<1>5. ASSUME NEW kind \in Kinds
      PROVE  /\ r[kind] \in Seq(Seq(FieldValues)) /\ Len(r[kind]) = Len(s[kind])
             /\ \A i \in 1..Len(s[kind]) : r[kind][i] = ShownValue(RecordRead[kind], s[kind][i])
  <2> DEFINE n == Len(s[kind])
             x == r[kind]
             w(i) == ShownValue(RecordRead[kind], s[kind][i])
  <2>1. n \in Nat /\ x = [i \in 1..n |-> w(i)] /\ \A i \in 1..n : w(i) \in Seq(FieldValues)
    BY <1>4
  <2> HIDE DEF n, x, w
  <2>2. x \in Seq(Seq(FieldValues)) /\ Len(x) = n /\ \A i \in 1..n : x[i] = w(i)
    BY <2>1
  <2>3. QED
    BY <2>2 DEF n, x, w
<1>6. QED
  BY <1>3, <1>5 DEF r

\* The coordinator's record is read as it was written.
LEMMA LeadingRound ==
  ASSUME NEW s, Storable(s), NEW a, NEW st, Len(Leading(s).payload) <= MaxRecord
  PROVE  Advanced(a, st, Leading(s)) = Accepted(a, [st EXCEPT !["coordinator"] = s["coordinator"]])
<1> DEFINE v == s["coordinator"]
           p == Encoded(CoordinatorRead, v)
<1>1. Leading(s).type = CoordinatorType /\ Leading(s).payload = p
  BY DEF Leading, CoordinatorRead
<1>2. IsValue(CoordinatorRead, v) /\ v[1] = Digits(FormatVersion, 4)
  BY DEF Storable
<1>3. Decoded(CoordinatorRead, p).accepted /\ Decoded(CoordinatorRead, p).value = ShownValue(CoordinatorRead, v)
  BY <1>2, StoreLayouts, DecodedReads
<1>4. ShownValue(CoordinatorRead, v) = v
  <2>1. CoordinatorRead \in Seq(PlainFields)
    BY RecordsAlike, StoreBounds, SeqMonotonic
  <2>2. QED
    BY <1>2, <2>1, PlainValueShown
<1>5. Whole(CoordinatorType, p)
  BY <1>2, <1>3, <1>4 DEF Whole
<1> HIDE DEF v, p
<1>6. Added(a, st, CoordinatorType, p) = Accepted(a, [st EXCEPT !["coordinator"] = v])
  BY <1>3, <1>4, <1>5, AddedCoordinator
<1>7. Advanced(a, st, Leading(s)) = Added(a, st, CoordinatorType, p)
  BY <1>1, TypesOf DEF Advanced
<1>8. QED
  BY <1>6, <1>7 DEF v

\* The m-th record of a kind comes next, and the one after it.
Awaits(s, kind, m, st) ==
  /\ m \in 1..Len(s[kind]) /\ Len(s[kind]) <= Most[kind]
  /\ Len(Group(s, kind)[m].payload) <= MaxRecord
  /\ st[kind] = SubSeq(Restored(s)[kind], 1, m - 1)

With(s, kind, m, st) == [st EXCEPT ![kind] = SubSeq(Restored(s)[kind], 1, m)]

\* A record of a kind is read as it was written, after those before it.
LEMMA GroupRound ==
  ASSUME NEW s, Storable(s), NEW kind \in Kinds, NEW m, NEW a, NEW st, Awaits(s, kind, m, st)
  PROVE  Advanced(a, st, Group(s, kind)[m]) = Accepted(a, With(s, kind, m, st))
<1> DEFINE l == RecordRead[kind]
           n == Len(s[kind])
           v == s[kind][m]
           w == ShownValue(l, v)
           p == Encoded(l, v)
           r == Restored(s)[kind]
           x == st[kind]
<1>0. m \in 1..n /\ n <= Most[kind] /\ st[kind] = SubSeq(r, 1, m - 1)
  BY DEF Awaits
<1>1. Group(s, kind)[m].type = TypeOf[kind] /\ Group(s, kind)[m].payload = p
  <2>1. Group(s, kind)[m] = [type |-> TypeOf[kind], payload |-> Encoded(RecordRead[kind], s[kind][m])]
    BY <1>0, GroupsAre
  <2>2. QED
    BY <2>1
<1>2. n \in Nat /\ m \in Nat /\ 1 <= m /\ m <= n /\ \A i \in 1..n : IsValue(l, s[kind][i])
  BY <1>0 DEF Storable
<1>3. r \in Seq(Seq(FieldValues)) /\ Len(r) = n /\ \A i \in 1..n : r[i] = ShownValue(l, s[kind][i])
  BY RestoredIs
<1>4. l \in Layouts /\ Opens(l) /\ Len(l) \in Nat
  BY StoreLayouts, RecordsAlike, LenProperties DEF Layouts
<1>5. Decoded(l, p).accepted /\ Decoded(l, p).value = w
  BY <1>2, <1>4, DecodedReads
<1>6. Whole(TypeOf[kind], p)
  BY <1>5, TypesOf DEF Whole
<1>7. \A i \in 1..n : r[i][1] = s[kind][i][1]
  <2>1. 1 \in 1..Len(l) /\ \A u : Shown(l[1], u) = u
    BY <1>4 DEF Opens, Shown, Number
  <2>2. \A i \in 1..n : ShownValue(l, s[kind][i])[1] = s[kind][i][1]
    BY <2>1 DEF ShownValue
  <2>3. QED
    BY <1>3, <2>2
<1>8. r[m] = w
  BY <1>0, <1>3
<1> HIDE DEF l, n, v, w, p, r, x
<1>9. /\ x = SubSeq(r, 1, m - 1) /\ Len(x) = m - 1 /\ DOMAIN x = 1..(m - 1)
      /\ \A i \in 1..(m - 1) : x[i] = r[i]
      /\ Append(x, w) = SubSeq(r, 1, m)
  <2> DEFINE j == m - 1
  <2>1. j \in 0..Len(r) /\ j = m - 1 /\ m \in 0..Len(r) /\ m > 0
    BY <1>2, <1>3
  <2>2. x = SubSeq(r, 1, j)
    BY <1>0 DEF x, r
  <2> HIDE DEF j
  <2>3. /\ SubSeq(r, 1, j) \in Seq(Seq(FieldValues)) /\ Len(SubSeq(r, 1, j)) = j
        /\ \A i \in 1..j : SubSeq(r, 1, j)[i] = r[i]
    BY <1>3, <2>1, FirstOnes
  <2>4. SubSeq(r, 1, m) = Append(SubSeq(r, 1, m - 1), r[m])
    BY <1>3, <2>1, FirstOnes
  <2>5. DOMAIN x = 1..j
    BY <2>2, <2>3, LenProperties
  <2>6. QED
    BY <1>8, <2>1, <2>2, <2>3, <2>4, <2>5
<1>10. Len(x) < Most[kind]
  <2>1. n <= Most[kind] /\ Most[kind] \in Nat
    BY <1>0, StoreLimits
  <2>2. QED
    BY <1>2, <1>9, <2>1
<1>11. ~Repeated(st, kind, w[1])
  <2>1. w[1] = s[kind][m][1]
    BY <1>2, <1>7, <1>8
  <2>2. \A i \in 1..(m - 1) : i \in 1..n /\ i # m /\ x[i][1] = s[kind][i][1]
    BY <1>2, <1>7, <1>9
  <2>3. kind \in Identified => \A i, j \in 1..n : i # j => s[kind][i][1] # s[kind][j][1]
    BY DEF Storable, n
  <2>4. kind \in Identified => \A i \in DOMAIN x : x[i][1] # w[1]
    BY <1>2, <1>9, <2>1, <2>2, <2>3
  <2>5. QED
    BY <2>4 DEF Repeated, x
<1>12. Added(a, st, TypeOf[kind], p) = Accepted(a, [st EXCEPT ![kind] = Append(x, w)])
  BY <1>5, <1>6, <1>10, <1>11, AddedKind DEF x, l
<1>13. Advanced(a, st, Group(s, kind)[m]) = Added(a, st, TypeOf[kind], p)
  BY <1>1, TypesOf DEF Advanced, Awaits
<1>14. QED
  BY <1>9, <1>12, <1>13 DEF r, With

\* The records of a state before the k-th kind's.
Before(s, k) == 1 + Len(Glue(Groups(s), k - 1))

LEMMA Positions ==
  ASSUME NEW s, Storable(s)
  PROVE  /\ RecordsOf(s)[1] = Leading(s) /\ Before(s, 1) = 1 /\ Before(s, 8) = Len(RecordsOf(s))
         /\ \A k \in 1..7 :
              /\ Before(s, k) \in Nat /\ Before(s, k) >= 1 /\ Len(s[Order[k]]) \in Nat
              /\ Before(s, k + 1) = Before(s, k) + Len(s[Order[k]])
              /\ Before(s, k + 1) <= Len(RecordsOf(s))
              /\ \A m \in 1..Len(s[Order[k]]) : RecordsOf(s)[Before(s, k) + m] = Group(s, Order[k])[m]
<1> DEFINE ps == Groups(s)
           b == FlattenSeq(ps)
           rs == RecordsOf(s)
           e == <<Leading(s)>>
<1>1. /\ ps \in Seq(Seq(RecordForm)) /\ Len(ps) = 7 /\ rs = e \o b
      /\ \A k \in 1..7 : ps[k] = Group(s, Order[k]) /\ Len(ps[k]) = Len(s[Order[k]])
  BY GroupsAre
<1>2. rs \in Seq(RecordForm) /\ e \in Seq(RecordForm) /\ b \in Seq(RecordForm)
  BY StoredAreRecords
<1>3. Len(e) = 1 /\ e[1] = Leading(s)
  OBVIOUS
<1>4. Lies(b, 0, b)
  BY <1>2, LiesWhole
<1> HIDE DEF ps, b, rs, e
<1>5. /\ Len(rs) = Len(e) + Len(b) /\ Len(b) \in Nat
      /\ \A i \in 1..Len(e) + Len(b) : rs[i] = IF i <= Len(e) THEN e[i] ELSE b[i - Len(e)]
  BY ONLY <1>1, <1>2, ConcatProperties, LenProperties
<1>6. /\ Len(rs) = 1 + Len(b) /\ rs[1] = e[1] /\ \A i \in 1..Len(b) : rs[1 + i] = b[i]
  <2>1. /\ Len(rs) = 1 + Len(b) /\ \A i \in 1..(1 + Len(b)) : rs[i] = IF i <= 1 THEN e[i] ELSE b[i - 1]
    BY <1>3, <1>5
  <2>2. 1 \in 1..(1 + Len(b)) /\ \A i \in 1..Len(b) : 1 + i \in 1..(1 + Len(b)) /\ ~(1 + i <= 1) /\ (1 + i) - 1 = i
    BY <1>5
  <2>3. QED
    BY <2>1, <2>2
<1> DEFINE g(k) == Len(Glue(ps, k))
<1>7. g(0) = 0 /\ g(7) = Len(b)
  <2>1. Glue(ps, 0) = <<>> /\ Glue(ps, Len(ps)) = FlattenSeq(ps)
    BY ONLY <1>1, GlueSteps
  <2>2. QED
    BY <1>1, <2>1 DEF b
<1>8. ASSUME NEW k \in 1..7
      PROVE  /\ g(k - 1) \in Nat /\ g(k) = g(k - 1) + Len(ps[k]) /\ Len(ps[k]) \in Nat /\ g(k) <= Len(b)
             /\ \A m \in 1..Len(ps[k]) : b[g(k - 1) + m] = ps[k][m]
  <2>1. k \in 1..Len(ps) /\ 0 \in Nat /\ Lies(b, 0, FlattenSeq(ps))
    BY <1>1, <1>4 DEF b
  <2>2. /\ Lies(b, 0, Glue(ps, k)) /\ Lies(b, 0 + Len(Glue(ps, k - 1)), ps[k])
        /\ Len(Glue(ps, k)) = Len(Glue(ps, k - 1)) + Len(ps[k])
        /\ Len(Glue(ps, k - 1)) \in Nat /\ ps[k] \in Seq(RecordForm) /\ Len(ps[k]) \in Nat
    BY ONLY <1>1, <1>2, <2>1, PiecesLie
  <2>3. 0 + Len(Glue(ps, k - 1)) = Len(Glue(ps, k - 1))
    BY <2>2
  <2>4. Lies(b, Len(Glue(ps, k - 1)), ps[k])
    BY <2>2, <2>3
  <2>5. \A m \in 1..Len(ps[k]) : b[Len(Glue(ps, k - 1)) + m] = ps[k][m]
    BY <2>4 DEF Lies, Has
  <2>6. Len(Glue(ps, k)) <= Len(b)
    <3> DEFINE x == Len(Glue(ps, k))
               y == Len(Glue(ps, k - 1))
               z == Len(ps[k])
    <3>1. x = y + z /\ y \in Nat /\ z \in Nat
      BY <2>2
    <3>2. 0 + x <= Len(b)
      BY <2>2 DEF Lies
    <3> HIDE DEF x, y, z
    <3>3. x <= Len(b)
      BY <1>5, <3>1, <3>2
    <3>4. QED
      BY <3>3 DEF x
  <2>7. QED
    BY <2>2, <2>5, <2>6
<1>9. \A k : Before(s, k) = 1 + g(k - 1)
  BY DEF Before, ps
<1> HIDE DEF g
<1>10. Before(s, 1) = 1 /\ Before(s, 8) = Len(rs)
  BY <1>6, <1>7, <1>9
<1>11. ASSUME NEW k \in 1..7
       PROVE  /\ Before(s, k) \in Nat /\ Before(s, k) >= 1 /\ Len(s[Order[k]]) \in Nat
              /\ Before(s, k + 1) = Before(s, k) + Len(s[Order[k]])
              /\ Before(s, k + 1) <= Len(rs)
              /\ \A m \in 1..Len(s[Order[k]]) : rs[Before(s, k) + m] = Group(s, Order[k])[m]
  <2> DEFINE n == Len(ps[k])
             j == g(k - 1)
             i == g(k)
  <2>1. j \in Nat /\ i = j + n /\ n \in Nat /\ i <= Len(b) /\ \A m \in 1..n : b[j + m] = ps[k][m]
    BY <1>8
  <2>2. Before(s, k) = 1 + j /\ Before(s, k + 1) = 1 + i
    <3>1. (k + 1) - 1 = k
      OBVIOUS
    <3>2. QED
      BY <1>9, <3>1
  <2>3. n = Len(s[Order[k]]) /\ ps[k] = Group(s, Order[k])
    BY <1>1
  <2> HIDE DEF n, j, i
  <2>4. \A m \in 1..n : rs[(1 + j) + m] = ps[k][m]
    <3>1. \A m \in 1..n : j + m \in 1..Len(b) /\ (1 + j) + m = 1 + (j + m)
      BY <1>5, <2>1
    <3>2. QED
      BY <1>6, <2>1, <3>1
  <2>5. /\ 1 + j \in Nat /\ 1 + j >= 1 /\ 1 + i = (1 + j) + n /\ 1 + i <= Len(rs)
    BY <1>5, <1>6, <2>1
  <2>6. /\ Before(s, k) \in Nat /\ Before(s, k) >= 1 /\ n \in Nat
        /\ Before(s, k + 1) = Before(s, k) + n /\ Before(s, k + 1) <= Len(rs)
        /\ \A m \in 1..n : rs[Before(s, k) + m] = ps[k][m]
    BY <2>1, <2>2, <2>4, <2>5
  <2>7. QED
    BY <2>3, <2>6
<1>12. QED
  BY <1>3, <1>6, <1>10, <1>11 DEF rs

\* Of the state that is loaded: the kinds before the k-th, and m records of it.
Partly(s, k, m, st) ==
  /\ st = [x \in Kinds \cup {"coordinator"} |-> st[x]]
  /\ st["coordinator"] = s["coordinator"]
  /\ \A j \in 1..7 :
       /\ j < k => st[Order[j]] = Restored(s)[Order[j]]
       /\ j = k => st[Order[j]] = SubSeq(Restored(s)[Order[j]], 1, m)
       /\ j > k => st[Order[j]] = <<>>

LEMMA PartlySteps ==
  ASSUME NEW s, Storable(s)
  PROVE  /\ Partly(s, 1, 0, [Nothing EXCEPT !["coordinator"] = s["coordinator"]])
         /\ \A st : \A k \in 1..7 : \A m \in 1..Len(s[Order[k]]) : Partly(s, k, m - 1, st) =>
              Partly(s, k, m, [st EXCEPT ![Order[k]] = SubSeq(Restored(s)[Order[k]], 1, m)])
         /\ \A st : \A k \in 1..7 : Partly(s, k, Len(s[Order[k]]), st) => Partly(s, k + 1, 0, st)
         /\ \A st : Partly(s, 8, 0, st) => st = Restored(s)
<1> DEFINE D == Kinds \cup {"coordinator"}
           R == Restored(s)
<1>1. "coordinator" \notin Kinds /\ \A j \in 1..7 : Order[j] \in Kinds /\ Order[j] \in D /\ Order[j] # "coordinator"
  <2>1. "coordinator" \notin Kinds
    BY DEF Kinds
  <2>2. QED
    BY <2>1, OrderIs
<1>2. \A j \in 1..7 : /\ SubSeq(R[Order[j]], 1, 0) = <<>>
                      /\ SubSeq(R[Order[j]], 1, Len(s[Order[j]])) = R[Order[j]]
  <2>1. ASSUME NEW j \in 1..7
        PROVE  SubSeq(R[Order[j]], 1, 0) = <<>> /\ SubSeq(R[Order[j]], 1, Len(s[Order[j]])) = R[Order[j]]
    <3>1. R[Order[j]] \in Seq(Seq(FieldValues)) /\ Len(R[Order[j]]) = Len(s[Order[j]])
      BY <1>1, RestoredIs
    <3> DEFINE x == R[Order[j]]
    <3> HIDE DEF x
    <3>2. x \in Seq(Seq(FieldValues)) /\ Len(x) \in Nat
      BY <3>1, LenProperties DEF x
    <3>3. 0 \in 0..Len(x)
      BY <3>2
    <3>4. SubSeq(x, 1, 0) = <<>> /\ SubSeq(x, 1, Len(x)) = x
      BY ONLY <3>2, <3>3, FirstOnes
    <3>5. QED
      BY <3>1, <3>4 DEF x
  <2>2. QED
    BY <2>1
<1>3. R = [x \in D |-> R[x]] /\ R["coordinator"] = s["coordinator"]
  BY RestoredIs
<1> HIDE DEF D, R
<1>4. ASSUME NEW st, Partly(s, 8, 0, st) PROVE st = R
  <2>1. \A j \in 1..7 : j < 8
    OBVIOUS
  <2>2. \A j \in 1..7 : st[Order[j]] = R[Order[j]]
    BY <1>4, <2>1 DEF Partly, R
  <2>3. st = [x \in D |-> st[x]] /\ st["coordinator"] = R["coordinator"]
    BY <1>3, <1>4 DEF Partly, D
  <2>4. \A x \in D : st[x] = R[x]
    BY <2>2, <2>3, OrderIs DEF D
  <2>5. QED
    BY <1>3, <2>3, <2>4
<1>5. ASSUME NEW k \in 1..7, NEW st, Partly(s, k, Len(s[Order[k]]), st) PROVE Partly(s, k + 1, 0, st)
  <2>1. ASSUME NEW j \in 1..7
        PROVE  /\ j < k + 1 => st[Order[j]] = R[Order[j]]
               /\ j = k + 1 => st[Order[j]] = SubSeq(R[Order[j]], 1, 0)
               /\ j > k + 1 => st[Order[j]] = <<>>
    <3>1. /\ j < k => st[Order[j]] = R[Order[j]]
          /\ j = k => st[Order[j]] = SubSeq(R[Order[j]], 1, Len(s[Order[j]]))
          /\ j > k => st[Order[j]] = <<>>
      BY <1>5 DEF Partly, R
    <3>2. (j < k + 1 => j < k \/ j = k) /\ (j = k + 1 => j > k) /\ (j > k + 1 => j > k)
      OBVIOUS
    <3>3. QED
      BY <1>2, <3>1, <3>2
  <2>2. QED
    BY <1>5, <2>1 DEF Partly, R
<1>6. ASSUME NEW k \in 1..7, NEW m \in 1..Len(s[Order[k]]), NEW st, Partly(s, k, m - 1, st)
      PROVE  Partly(s, k, m, [st EXCEPT ![Order[k]] = SubSeq(R[Order[k]], 1, m)])
  <2> DEFINE v == SubSeq(R[Order[k]], 1, m)
             kind == Order[k]
             u == [st EXCEPT ![kind] = v]
  <2>1. st = [x \in D |-> st[x]]
    BY <1>6 DEF Partly, D
  <2>2. kind \in D /\ kind # "coordinator" /\ "coordinator" \in D
    BY <1>1 DEF D
  <2> HIDE DEF v, kind
  <2>3. u = [x \in D |-> u[x]] /\ u[kind] = v /\ \A x \in D : x # kind => u[x] = st[x]
    BY <2>1, <2>2
  <2> HIDE DEF u
  <2>4. u["coordinator"] = s["coordinator"]
    BY <1>6, <2>2, <2>3 DEF Partly
  <2>5. ASSUME NEW j \in 1..7
        PROVE  /\ j < k => u[Order[j]] = R[Order[j]]
               /\ j = k => u[Order[j]] = SubSeq(R[Order[j]], 1, m)
               /\ j > k => u[Order[j]] = <<>>
    <3>1. (j < k => st[Order[j]] = R[Order[j]]) /\ (j > k => st[Order[j]] = <<>>)
      BY <1>6 DEF Partly, R
    <3>2. j # k => Order[j] # kind /\ u[Order[j]] = st[Order[j]]
      BY <1>1, <2>3, OrderIs DEF kind
    <3>3. j = k => u[Order[j]] = SubSeq(R[Order[j]], 1, m)
      BY <2>3 DEF kind, v
    <3>4. (j < k => j # k) /\ (j > k => j # k)
      OBVIOUS
    <3>5. QED
      BY <3>1, <3>2, <3>3, <3>4
  <2>6. Partly(s, k, m, u)
    BY <2>3, <2>4, <2>5 DEF Partly, D, R
  <2>7. QED
    BY <2>6 DEF u, v, kind
<1>7. Partly(s, 1, 0, [Nothing EXCEPT !["coordinator"] = s["coordinator"]])
  <2> DEFINE c == s["coordinator"]
             u == [Nothing EXCEPT !["coordinator"] = c]
  <2>1. Nothing = [x \in D |-> Nothing[x]] /\ "coordinator" \in D
    BY DEF Nothing, D
  <2>2. \A j \in 1..7 : Nothing[Order[j]] = <<>>
    BY <1>1 DEF Nothing, D
  <2> HIDE DEF c
  <2>3. u = [x \in D |-> u[x]] /\ u["coordinator"] = c /\ \A x \in D : x # "coordinator" => u[x] = Nothing[x]
    BY <2>1
  <2> HIDE DEF u
  <2>4. \A j \in 1..7 : u[Order[j]] = <<>> /\ SubSeq(R[Order[j]], 1, 0) = <<>> /\ ~(j < 1)
    BY <1>1, <1>2, <2>2, <2>3
  <2>5. Partly(s, 1, 0, u)
    BY <2>3, <2>4 DEF Partly, D, R, c
  <2>6. QED
    BY <2>5 DEF u, c
<1>8. QED
  BY <1>4, <1>5, <1>6, <1>7 DEF R

\* Every round of the loop over a saved state's records accepts its record.
LEMMA SavedRounds ==
  ASSUME NEW s, Storable(s), EncodedState(s) # <<>>
  PROVE  LET rs == RecordsOf(s)
             h == RecordsLoop(Sealed(rs), Len(rs))
         IN h[Len(rs)].accepted /\ h[Len(rs)].state = Restored(s)
<1> DEFINE rs == RecordsOf(s)
           n == Len(rs)
           h == RecordsLoop(Sealed(rs), n)
           size(k) == Len(s[Order[k]])
           at(k) == Before(s, k)
           Good(i, k, m) == h[i].accepted /\ Partly(s, k, m, h[i].state)
<1>1. /\ Sealed(rs) \in Seq(Byte) /\ Len(Sealed(rs)) <= MaxFile /\ n \in Nat
      /\ \A kind \in Kinds : Len(s[kind]) <= Most[kind]
      /\ \A i \in 1..n : Len(rs[i].payload) <= MaxRecord
  BY SavedIs
<1>2. AreRecords(rs) /\ Fitting(rs)
  <2>1. AreRecords(rs)
    BY StoredAreRecords
  <2>2. Fits(Len(Sealed(rs)))
    <3>1. Len(Sealed(rs)) \in Nat /\ Len(Sealed(rs)) < Beyond
      BY <1>1, LenProperties, StoreLimits
    <3>2. QED
      BY <3>1, StoreLimits
  <2>3. QED
    BY <2>1, <2>2, FitsWhole
<1>3. /\ h[0] = Accepted(0, Nothing)
      /\ \A i \in 1..n : h[i - 1].accepted => h[i] = Advanced(EndOf(rs, i), h[i - 1].state, rs[i])
  <2>1. \A i \in 1..n : i <= n
    BY <1>1
  <2>2. QED
    BY <1>1, <1>2, <2>1, LoopRounds
<1>4. /\ rs[1] = Leading(s) /\ at(1) = 1 /\ at(8) = n
      /\ \A k \in 1..7 :
           /\ at(k) \in Nat /\ at(k) >= 1 /\ size(k) \in Nat
           /\ at(k + 1) = at(k) + size(k) /\ at(k + 1) <= n
           /\ \A m \in 1..size(k) : rs[at(k) + m] = Group(s, Order[k])[m]
  BY Positions
<1> HIDE DEF rs, n, h, size, at
<1>5. n >= 1
  <2>1. 7 \in 1..7 /\ 7 + 1 = 8
    OBVIOUS
  <2>2. at(7) \in Nat /\ at(7) >= 1 /\ at(8) = at(7) + size(7) /\ size(7) \in Nat
    BY <1>4, <2>1
  <2>3. at(7) + size(7) >= 1
    BY <2>2
  <2>4. QED
    BY <1>4, <2>2, <2>3
<1>6. Good(1, 1, 0)
  <2>1. 1 \in 1..n /\ 1 - 1 = 0
    BY <1>1, <1>5
  <2>2. h[0].accepted /\ h[0].state = Nothing
    BY <1>3, AcceptedIs
  <2>3. h[1] = Advanced(EndOf(rs, 1), Nothing, rs[1])
    BY <1>3, <2>1, <2>2
  <2>4. Len(Leading(s).payload) <= MaxRecord
    BY <1>1, <1>4, <2>1
  <2> DEFINE e == EndOf(rs, 1)
             u == [Nothing EXCEPT !["coordinator"] = s["coordinator"]]
  <2>5. Advanced(e, Nothing, Leading(s)) = Accepted(e, u)
    BY ONLY Storable(s), <2>4, LeadingRound, Zenon
  <2>6. Partly(s, 1, 0, u)
    BY PartlySteps
  <2>7. h[1] = Advanced(e, Nothing, Leading(s))
    BY <1>4, <2>3
  <2> HIDE DEF e, u
  <2>8. QED
    BY <2>5, <2>6, <2>7, AcceptedIs
<1>7. ASSUME NEW k \in 1..7, Good(at(k), k, 0) PROVE Good(at(k + 1), k + 1, 0)
  <2> DEFINE l == size(k)
             a == at(k)
             kind == Order[k]
             Found == {m \in 0..l : Good(a + m, k, m)}
  <2>1. /\ l \in Nat /\ a \in Nat /\ a >= 1 /\ at(k + 1) = a + l /\ a + l <= n
        /\ \A m \in 1..l : rs[a + m] = Group(s, kind)[m]
    BY <1>4
  <2>2. kind \in Kinds /\ l = Len(s[kind])
    BY OrderIs DEF size
  <2> HIDE DEF l, a, kind
  <2>3. 0 \in Found
    <3>1. a + 0 = a /\ 0 \in 0..l
      BY <2>1
    <3>2. QED
      BY <1>7, <3>1 DEF a
  <2>4. ASSUME NEW i \in 0..(l - 1), i \in Found PROVE i + 1 \in Found
    <3> DEFINE m == i + 1
               j == a + m
               st == h[j - 1].state
               u == With(s, kind, m, st)
    <3>1. m \in 1..l /\ m \in 0..l /\ j \in 1..n /\ m - 1 = i /\ j - 1 = a + i
      BY <1>1, <2>1
    <3> HIDE DEF m, j
    <3>2. h[j - 1].accepted /\ Partly(s, k, m - 1, st)
      BY <2>4, <3>1
    <3>3. h[j] = Advanced(EndOf(rs, j), st, rs[j])
      BY <1>3, <3>1, <3>2
    <3> HIDE DEF st
    <3>4. rs[j] = Group(s, kind)[m] /\ Len(rs[j].payload) <= MaxRecord /\ Len(s[kind]) <= Most[kind]
      BY <1>1, <2>1, <2>2, <3>1 DEF j
    <3>5. st[kind] = SubSeq(Restored(s)[kind], 1, m - 1)
      BY <3>2 DEF Partly, kind
    <3>6. m \in 1..Len(s[kind])
      BY <2>2, <3>1
    <3> DEFINE e == EndOf(rs, j)
    <3> HIDE DEF e
    <3>7. Advanced(e, st, Group(s, kind)[m]) = Accepted(e, u)
      <4>1. Awaits(s, kind, m, st)
        BY <3>4, <3>5, <3>6 DEF Awaits
      <4>2. kind \in Kinds
        BY <2>2
      <4>3. QED
        BY ONLY Storable(s), <4>1, <4>2, GroupRound
    <3>8. h[j] = Accepted(e, u)
      BY <3>3, <3>4, <3>7 DEF e
    <3>9. Partly(s, k, m, u)
      BY <3>2, <3>6, PartlySteps DEF kind, With
    <3> HIDE DEF u
    <3>10. h[j].accepted /\ Partly(s, k, m, h[j].state)
      BY <3>8, <3>9, AcceptedIs
    <3>11. QED
      BY <3>1, <3>10 DEF m, j
  <2> HIDE DEF Found
  <2>5. 0..l \subseteq Found
    BY <2>1, <2>3, <2>4, Upward
  <2>6. l \in Found
    BY <2>1, <2>5
  <2>7. Good(a + l, k, l)
    BY <2>6 DEF Found
  <2>8. Partly(s, k, Len(s[Order[k]]), h[a + l].state)
    BY <2>2, <2>7 DEF kind
  <2>9. Partly(s, k + 1, 0, h[a + l].state)
    BY <2>8, PartlySteps
  <2>10. QED
    BY <2>1, <2>7, <2>9
<1> DEFINE Done == {k \in 0..7 : Good(at(k + 1), k + 1, 0)}
<1>8. 0 \in Done
  <2>1. 0 + 1 = 1 /\ 0 \in 0..7
    OBVIOUS
  <2>2. QED
    BY <1>4, <1>6, <2>1
<1>9. ASSUME NEW k \in 0..(7 - 1), k \in Done PROVE k + 1 \in Done
  <2> DEFINE j == k + 1
  <2>1. j \in 1..7 /\ j \in 0..7
    OBVIOUS
  <2> HIDE DEF j
  <2>2. Good(at(j), j, 0)
    BY <1>9 DEF j
  <2>3. Good(at(j + 1), j + 1, 0)
    BY <1>7, <2>1, <2>2
  <2>4. QED
    BY <2>1, <2>3 DEF j
<1> HIDE DEF Done
<1>10. 7 \in Done
  <2>1. 7 \in Nat /\ 7 \in 0..7
    OBVIOUS
  <2>2. 0..7 \subseteq Done
    BY <1>8, <1>9, <2>1, Upward
  <2>3. QED
    BY <2>1, <2>2
<1>11. Good(n, 8, 0)
  <2>1. 7 + 1 = 8
    OBVIOUS
  <2>2. Good(at(7 + 1), 7 + 1, 0)
    BY <1>10 DEF Done
  <2>3. QED
    BY <1>4, <2>1, <2>2
<1>12. h[n].accepted /\ h[n].state = Restored(s)
  BY <1>11, PartlySteps
<1>13. QED
  BY <1>12 DEF h, n, rs

\* A state that was saved is loaded, but for couplings' expiries; unless the
\* file is too long, which it can be by its header and its trailer only.
LEMMA SavedLoads ==
  ASSUME NEW s, Storable(s), EncodedState(s) # <<>>
  PROVE  LET b == EncodedState(s)
         IN /\ b \in Seq(Byte)
            /\ \/ DecodedState(b).accepted /\ DecodedState(b).state = Restored(s)
               \/ Len(b) > MaxFile /\ Len(b) <= MaxFile + HeaderSize + TrailerSize
<1> DEFINE rs == RecordsOf(s)
           n == Len(rs)
           body == Sealed(rs)
           b == EncodedState(s)
           l == Len(body)
           h == RecordsLoop(body, n)
<1>1. b = Container(FormatVersion, n, body) /\ body \in Seq(Byte) /\ l <= MaxFile /\ n \in Nat /\ n <= MaxRecords
  BY SavedIs
<1>2. l \in Nat /\ FormatVersion \in Nat /\ HeaderSize = 36 /\ TrailerSize = 4
  BY <1>1, LenProperties DEF FormatVersion, HeaderSize, TrailerSize
<1>3. Fits(n) /\ Fits(l) /\ Fits(FormatVersion)
  <2>1. n < Beyond /\ l < Beyond
    BY <1>1, <1>2, StoreLimits
  <2>2. Fits(n) /\ Fits(l)
    BY <1>1, <1>2, <2>1, StoreLimits
  <2>3. Fits(FormatVersion)
    BY DEF FormatVersion, Fits
  <2>4. QED
    BY <2>2, <2>3
<1>4. ReadRecords(body, n) = h[n] /\ h[n].accepted /\ h[n].state = Restored(s)
  <2>1. AreRecords(rs) /\ Fitting(rs)
    BY <1>3, StoredAreRecords, FitsWhole
  <2>2. ReadRecords(body, n) = IF n = n /\ h[n].accepted THEN h[n] ELSE Refused
    BY <1>1, <2>1, LoopRounds
  <2>3. h[n].accepted /\ h[n].state = Restored(s)
    BY SavedRounds
  <2>4. QED
    BY <2>2, <2>3
<1>5. b \in Seq(Byte) /\ Len(b) = 36 + l + 4
  <2>1. /\ Container(FormatVersion, n, body) \in Seq(Byte)
        /\ Len(Container(FormatVersion, n, body)) = 36 + Len(body) + 4
    BY ONLY <1>1, <1>2, ContainerLayout
  <2>2. QED
    BY <1>1, <2>1
<1> HIDE DEF n, body, b, l, h
<1>6. DecodedState(b) =
        IF FormatVersion = FormatVersion /\ n <= MaxRecords /\ HeaderSize + l + TrailerSize <= MaxFile
        THEN ReadRecords(body, n) ELSE Refused
  BY <1>1, <1>2, <1>3, ContainerDecoded DEF l
<1>7. CASE HeaderSize + l + TrailerSize <= MaxFile
  BY <1>1, <1>4, <1>5, <1>6, <1>7 DEF b
<1>8. CASE ~(HeaderSize + l + TrailerSize <= MaxFile)
  <2>1. Len(b) > MaxFile /\ Len(b) <= MaxFile + HeaderSize + TrailerSize
    BY <1>1, <1>2, <1>5, <1>8, StoreLimits
  <2>2. QED
    BY <1>5, <2>1 DEF b
<1>9. QED
  BY <1>7, <1>8

-----------------------------------------------------------------------------
(* What may happen to bytes *)

LEMMA ChangedBytes ==
  ASSUME NEW e \in Seq(Byte), NEW i \in DOMAIN e, NEW v \in Byte
  PROVE  LET b == [e EXCEPT ![i] = v]
         IN b \in Seq(Byte) /\ (b # e => OneDamage(e, b))
<1> DEFINE b == [e EXCEPT ![i] = v]
           n == Len(e)
<1>1. n \in Nat /\ DOMAIN e = 1..n /\ i \in 1..n /\ \A j \in 1..n : e[j] \in Byte
  BY LenProperties, ElementOfSeq
<1>2. e = [j \in 1..n |-> e[j]]
  BY <1>1
<1>3. b = [j \in 1..n |-> IF j = i THEN v ELSE e[j]]
  BY <1>1, <1>2
<1> HIDE DEF b
<1>4. b \in Seq(Byte) /\ Len(b) = n
  BY <1>1, <1>3
<1>5. \A j \in 1..n : i # j => b[j] = e[j]
  BY <1>3
<1>6. ASSUME b # e PROVE b[i] # e[i]
  <2>1. CASE b[i] = e[i]
    <3>1. \A j \in 1..n : b[j] = e[j]
      BY <1>5, <2>1
    <3>2. b = [j \in 1..n |-> e[j]]
      BY <1>3, <3>1
    <3>3. QED
      BY <1>2, <1>6, <3>2
  <2>2. QED
    BY <2>1
<1>7. ASSUME b # e PROVE OneDamage(e, b)
  BY <1>1, <1>4, <1>5, <1>6, <1>7 DEF OneDamage
<1>8. QED
  BY <1>4, <1>7 DEF b

LEMMA CutBytes ==
  ASSUME NEW e \in Seq(Byte), NEW i \in DOMAIN e
  PROVE  SubSeq(e, 1, i - 1) \in Seq(Byte) /\ OneDamage(e, SubSeq(e, 1, i - 1))
<1> DEFINE n == i - 1
           b == SubSeq(e, 1, n)
<1>1. Len(e) \in Nat /\ n \in 0..Len(e) /\ n < Len(e)
  BY LenProperties
<1> HIDE DEF n
<1>2. b \in Seq(Byte) /\ Len(b) = n /\ \A j \in 1..n : b[j] = e[j]
  BY <1>1, FirstOnes
<1> HIDE DEF b
<1>3. Len(b) # Len(e) /\ \A j \in 1..Len(e) : j <= Len(b) => b[j] = e[j]
  BY <1>1, <1>2
<1>4. QED
  BY <1>2, <1>3 DEF OneDamage, b, n

LEMMA ExtendedBytes ==
  ASSUME NEW e \in Seq(Byte), NEW v \in Byte
  PROVE  Append(e, v) \in Seq(Byte) /\ OneDamage(e, Append(e, v))
<1> DEFINE b == Append(e, v)
<1>1. /\ b \in Seq(Byte) /\ Len(b) = Len(e) + 1 /\ Len(e) \in Nat
      /\ \A j \in 1..Len(e) : b[j] = e[j]
  BY AppendProperties, LenProperties
<1> HIDE DEF b
<1>2. Len(b) # Len(e)
  BY <1>1
<1>3. QED
  BY <1>1, <1>2 DEF OneDamage, b

-----------------------------------------------------------------------------
(* The specification *)

\* What is on its way, and what was made of it: bytes are those that the value,
\* the state or the container was written with, unless they were damaged, and
\* then a file's are so in one place; the outcome is the decoder's of them.
SentOn ==
  /\ origin.by = "sender" /\ origin.kind \in Payloads /\ origin.value \in Messages[origin.kind]
  /\ bytes \in Seq(Byte)
  /\ ~damaged => bytes = Encoded(Written[origin.kind], origin.value)
  /\ outcome.read =>
       /\ outcome.accepted = Decoded(Wanted[origin.kind], bytes).accepted
       /\ outcome.value = Decoded(Wanted[origin.kind], bytes).value
       /\ outcome.returned = Decoded(Wanted[origin.kind], bytes).returned

Stored ==
  /\ origin.by = "store" /\ origin.state \in States /\ EncodedState(origin.state) # <<>>
  /\ bytes \in Seq(Byte)
  /\ ~damaged => bytes = EncodedState(origin.state)
  /\ damaged => OneDamage(EncodedState(origin.state), bytes)

MadeByHand ==
  /\ origin.by = "hand" /\ origin.container \in HandWritten /\ ~damaged
  /\ LET c == origin.container IN bytes = Container(c.version, c.declared, Sealed(c.records))

FileOn ==
  /\ Stored \/ MadeByHand
  /\ outcome.read => outcome.accepted = DecodedState(bytes).accepted /\ outcome.state = DecodedState(bytes).state

EInv ==
  /\ medium \in {"none", "payload", "file"}
  /\ medium = "none" => origin.by = "nobody" /\ ~outcome.read /\ ~damaged
  /\ medium = "payload" => SentOn
  /\ medium = "file" => FileOn

LEMMA EInvBegins == EInit => EInv
<1>1. ASSUME EInit PROVE EInv
  <2>1. medium = "none" /\ origin.by = "nobody" /\ ~damaged
    BY <1>1 DEF EInit
  <2>2. ~outcome.read
    BY <1>1, Zenon DEF EInit
  <2>3. QED
    BY <2>1, <2>2 DEF EInv
<1>2. QED
  BY <1>1

LEMMA MessagesAreValues ==
  /\ \A k \in Payloads : \A v \in Messages[k] : IsValue(Wanted[k], v)
  /\ \A s \in States : Storable(s)
  /\ Alterations \subseteq Byte
BY EncodingsAssumption DEF EncodingsAssumption

LEMMA SendKeeps ==
  ASSUME EInv, NEW k \in Payloads, NEW v \in Messages[k], Send(k, v)
  PROVE  EInv'
<1> DEFINE b == Encoded(Written[k], v)
           o == [by |-> "sender", kind |-> k, value |-> v]
<1>1. medium = "none" /\ medium' = "payload" /\ origin' = o /\ bytes' = b /\ damaged' = damaged /\ outcome' = outcome
  BY DEF Send, Write
<1>2. b \in Seq(Byte)
  BY MessagesAreValues, PayloadReads
<1> HIDE DEF b
<1>3. origin'.by = "sender" /\ origin'.kind = k /\ origin'.value = v
  BY <1>1
<1>4. ~outcome'.read
  BY <1>1 DEF EInv
<1>5. SentOn'
  BY <1>1, <1>2, <1>3, <1>4 DEF SentOn, b
<1>6. QED
  BY <1>1, <1>5 DEF EInv

LEMMA SaveKeeps ==
  ASSUME EInv, NEW s \in States, Save(s)
  PROVE  EInv'
<1> DEFINE b == EncodedState(s)
           o == [by |-> "store", state |-> s]
<1>1. /\ medium = "none" /\ medium' = "file" /\ origin' = o /\ bytes' = b /\ damaged' = damaged /\ outcome' = outcome
      /\ b # <<>>
  BY DEF Save, Write
<1>2. b \in Seq(Byte)
  BY <1>1, MessagesAreValues, SavedLoads
<1>3. origin'.by = "store" /\ origin'.state = s
  BY <1>1
<1>4. ~outcome'.read /\ ~damaged'
  BY <1>1 DEF EInv
<1> HIDE DEF o
<1>5. Stored'
  BY <1>1, <1>2, <1>3, <1>4 DEF Stored
<1>6. FileOn'
  BY <1>4, <1>5 DEF FileOn
<1>7. QED
  BY <1>1, <1>6 DEF EInv

LEMMA SaveByHandKeeps ==
  ASSUME EInv, NEW c \in HandWritten, SaveByHand(c)
  PROVE  EInv'
<1> DEFINE b == Container(c.version, c.declared, Sealed(c.records))
           o == [by |-> "hand", container |-> c]
<1>1. medium = "none" /\ medium' = "file" /\ origin' = o /\ bytes' = b /\ damaged' = damaged /\ outcome' = outcome
  BY DEF SaveByHand, Write
<1>2. origin'.by = "hand" /\ origin'.container = c
  BY <1>1
<1>3. ~outcome'.read /\ ~damaged'
  BY <1>1 DEF EInv
<1>4. MadeByHand'
  BY <1>1, <1>2, <1>3 DEF MadeByHand
<1>5. FileOn'
  BY <1>3, <1>4 DEF FileOn
<1>6. QED
  BY <1>1, <1>5 DEF EInv

LEMMA DamageKeeps ==
  ASSUME EInv, NEW b \in Seq(Byte), OneDamage(bytes, b), Damage(b)
  PROVE  EInv'
<1>1. /\ medium # "none" /\ ~damaged /\ ~outcome.read /\ origin.by # "hand"
      /\ bytes' = b /\ damaged' /\ medium' = medium /\ origin' = origin /\ outcome' = outcome
  BY DEF Damage, OnItsWay
<1>2. CASE medium = "payload"
  <2>1. SentOn
    BY <1>2 DEF EInv
  <2>2. SentOn'
    BY <1>1, <2>1 DEF SentOn
  <2>3. QED
    BY <1>1, <1>2, <2>2 DEF EInv
<1>3. CASE medium = "file"
  <2>1. Stored
    BY <1>1, <1>3 DEF EInv, FileOn, MadeByHand
  <2>2. Stored'
    BY <1>1, <2>1 DEF Stored
  <2>3. FileOn'
    BY <1>1, <2>2 DEF FileOn
  <2>4. QED
    BY <1>1, <1>3, <2>3 DEF EInv
<1>4. QED
  BY <1>1, <1>2, <1>3 DEF EInv

LEMMA BytesOnTheirWay ==
  ASSUME EInv, OnItsWay
  PROVE  bytes \in Seq(Byte)
BY DEF EInv, OnItsWay, SentOn, FileOn, Stored, MadeByHand

LEMMA ReceiveKeeps ==
  ASSUME EInv, Receive
  PROVE  EInv'
<1> DEFINE d == Decoded(Wanted[origin.kind], bytes)
           a == d.accepted
           v == d.value
           r == d.returned
<1>1. /\ medium = "payload" /\ medium' = medium /\ origin' = origin /\ bytes' = bytes /\ damaged' = damaged
      /\ outcome' = [read |-> TRUE, accepted |-> a, value |-> v, returned |-> r]
  BY DEF Receive, Received
<1> HIDE DEF a, v, r
<1>2. outcome'.accepted = a /\ outcome'.value = v /\ outcome'.returned = r
  BY <1>1, Zenon
<1>3. SentOn
  BY <1>1 DEF EInv
<1>4. SentOn'
  BY <1>1, <1>2, <1>3 DEF SentOn, a, v, r
<1>5. QED
  BY <1>1, <1>4 DEF EInv

LEMMA LoadKeeps ==
  ASSUME EInv, Load
  PROVE  EInv'
<1> DEFINE a == DecodedState(bytes).accepted
           v == DecodedState(bytes).state
<1>1. /\ medium = "file" /\ medium' = medium /\ origin' = origin /\ bytes' = bytes /\ damaged' = damaged
      /\ outcome' = [read |-> TRUE, accepted |-> a, state |-> v]
  BY DEF Load, Loaded
<1> HIDE DEF a, v
<1>2. outcome'.accepted = a /\ outcome'.state = v
  BY <1>1, Zenon
<1>3. FileOn
  BY <1>1 DEF EInv
<1>4. Stored' \/ MadeByHand'
  <2>1. CASE Stored
    BY <1>1, <2>1 DEF Stored
  <2>2. CASE MadeByHand
    BY <1>1, <2>2 DEF MadeByHand
  <2>3. QED
    BY <1>3, <2>1, <2>2 DEF FileOn
<1>5. FileOn'
  BY <1>1, <1>2, <1>4 DEF FileOn, a, v
<1>6. QED
  BY <1>1, <1>5 DEF EInv

LEMMA EInvSteps == EInv /\ [ENext]_evars => EInv'
<1> SUFFICES ASSUME EInv, [ENext]_evars PROVE EInv'
  OBVIOUS
<1>1. CASE \E k \in Payloads : \E v \in Messages[k] : Send(k, v)
  BY <1>1, SendKeeps
<1>2. CASE \E s \in States : Save(s)
  BY <1>2, SaveKeeps
<1>3. CASE \E c \in HandWritten : SaveByHand(c)
  BY <1>3, SaveByHandKeeps
<1>4. ASSUME OnItsWay, NEW i \in DOMAIN bytes, NEW v \in Alterations, Change(i, v)
      PROVE  EInv'
  <2> DEFINE b == [bytes EXCEPT ![i] = v]
  <2>1. bytes \in Seq(Byte) /\ v \in Byte
    BY <1>4, BytesOnTheirWay, MessagesAreValues
  <2>2. Damage(b) /\ b # bytes
    BY <1>4 DEF Change, Damage
  <2>3. b \in Seq(Byte) /\ OneDamage(bytes, b)
    BY <2>1, <2>2, ChangedBytes
  <2> HIDE DEF b
  <2>4. QED
    BY <2>2, <2>3, DamageKeeps
<1>5. ASSUME OnItsWay, NEW i \in DOMAIN bytes, Cut(i - 1)
      PROVE  EInv'
  <2> DEFINE b == SubSeq(bytes, 1, i - 1)
  <2>1. bytes \in Seq(Byte)
    BY <1>5, BytesOnTheirWay
  <2>2. Damage(b)
    BY <1>5 DEF Cut
  <2>3. b \in Seq(Byte) /\ OneDamage(bytes, b)
    BY <2>1, CutBytes
  <2> HIDE DEF b
  <2>4. QED
    BY <2>2, <2>3, DamageKeeps
<1>6. ASSUME OnItsWay, NEW v \in Alterations, Extend(v)
      PROVE  EInv'
  <2> DEFINE b == Append(bytes, v)
  <2>1. bytes \in Seq(Byte) /\ v \in Byte
    BY <1>6, BytesOnTheirWay, MessagesAreValues
  <2>2. Damage(b)
    BY <1>6 DEF Extend
  <2>3. b \in Seq(Byte) /\ OneDamage(bytes, b)
    BY <2>1, ExtendedBytes
  <2> HIDE DEF b
  <2>4. QED
    BY <2>2, <2>3, DamageKeeps
<1>7. CASE Receive
  BY <1>7, ReceiveKeeps
<1>8. CASE Load
  BY <1>8, LoadKeeps
<1>9. CASE UNCHANGED evars
  BY <1>9 DEF evars, EInv, SentOn, FileOn, Stored, MadeByHand
<1>10. QED
  BY <1>1, <1>2, <1>3, <1>4, <1>5, <1>6, <1>7, <1>8, <1>9 DEF ENext

LEMMA EInvHolds == ESpec => []EInv
BY EInvBegins, EInvSteps, PTL DEF ESpec

\* What is written and reaches the decoder undamaged is accepted, and what is
\* read is what was written: every value of every payload (the encode_
\* functions and decode_with of wire.cpp), and every state that
\* encode_durable_state saves, whatever the limits are, but for the expiries of
\* couplings and for a file which it makes longer, by up to header and trailer,
\* than decode_durable_state admits.
THEOREM EncodersAndDecodersAgree == ESpec => []WrittenIsRead
<1>1. EInv => WrittenIsRead
  <2> SUFFICES ASSUME EInv PROVE WrittenIsRead
    OBVIOUS
  <2>1. ASSUME Undamaged("sender") PROVE outcome.accepted /\ outcome.value = origin.value
    <3>1. outcome.read /\ ~damaged /\ origin.by = "sender"
      BY <2>1 DEF Undamaged
    <3>2. SentOn
      BY <3>1 DEF EInv, FileOn, Stored, MadeByHand
    <3> DEFINE k == origin.kind
               v == origin.value
    <3>3. k \in Payloads /\ IsValue(Wanted[k], v) /\ bytes = Encoded(Written[k], v)
      BY <3>1, <3>2, MessagesAreValues DEF SentOn
    <3>4. /\ outcome.accepted = Decoded(Wanted[k], bytes).accepted
          /\ outcome.value = Decoded(Wanted[k], bytes).value
      BY <3>1, <3>2 DEF SentOn
    <3> HIDE DEF k, v
    <3>5. Decoded(Wanted[k], bytes).accepted /\ Decoded(Wanted[k], bytes).value = v
      BY <3>3, PayloadReads
    <3>6. QED
      BY <3>4, <3>5 DEF v
  <2>2. ASSUME Undamaged("store")
        PROVE  \/ outcome.accepted /\ outcome.state = Restored(origin.state)
               \/ Len(bytes) > MaxFile /\ Len(bytes) <= MaxFile + HeaderSize + TrailerSize
    <3>1. outcome.read /\ ~damaged /\ origin.by = "store"
      BY <2>2 DEF Undamaged
    <3>2. FileOn /\ Stored
      BY <3>1 DEF EInv, FileOn, SentOn, MadeByHand
    <3>3. Storable(origin.state) /\ EncodedState(origin.state) # <<>> /\ bytes = EncodedState(origin.state)
      BY <3>1, <3>2, MessagesAreValues DEF Stored
    <3>4. outcome.accepted = DecodedState(bytes).accepted /\ outcome.state = DecodedState(bytes).state
      BY <3>1, <3>2 DEF FileOn
    <3>5. \/ DecodedState(bytes).accepted /\ DecodedState(bytes).state = Restored(origin.state)
          \/ Len(bytes) > MaxFile /\ Len(bytes) <= MaxFile + HeaderSize + TrailerSize
      BY <3>3, SavedLoads
    <3>6. QED
      BY <3>4, <3>5
  <2>3. QED
    BY <2>1, <2>2 DEF WrittenIsRead
<1>2. QED
  BY <1>1, EInvHolds, PTL

\* A durable file in which one byte was changed, which lacks its end or goes on
\* after it, is refused by decode_durable_state, whatever state it holds and
\* wherever the damage is: nothing of it is loaded as if it were whole.
THEOREM NoDamageIsLoaded == ESpec => []DamagedFileIsRefused
<1>1. EInv => DamagedFileIsRefused
  <2> SUFFICES ASSUME EInv, outcome.read, damaged, medium = "file" PROVE ~outcome.accepted
    BY DEF DamagedFileIsRefused
  <2>1. FileOn /\ Stored
    BY DEF EInv, FileOn, MadeByHand
  <2>2. /\ Storable(origin.state) /\ EncodedState(origin.state) # <<>>
        /\ bytes \in Seq(Byte) /\ OneDamage(EncodedState(origin.state), bytes)
    BY <2>1, MessagesAreValues DEF Stored
  <2>3. ~DecodedState(bytes).accepted
    BY <2>2, DamagedFile
  <2>4. QED
    BY <2>1, <2>3 DEF FileOn
<1>2. QED
  BY <1>1, EInvHolds, PTL

\* Whatever bytes reach a decoder of payloads in wire.cpp, a value that it
\* accepts without returning early is written with exactly those bytes: no byte
\* of a payload is passed over and no two payloads are read as one value.
THEOREM EveryByteIsRead == ESpec => []NothingIsPassedOver
<1>1. EInv => NothingIsPassedOver
  <2> SUFFICES ASSUME EInv, outcome.read, medium = "payload", outcome.accepted, ~outcome.returned
               PROVE  Encoded(Written[origin.kind], outcome.value) = bytes
    BY DEF NothingIsPassedOver
  <2> DEFINE k == origin.kind
             d == Decoded(Wanted[k], bytes)
  <2>1. /\ k \in Payloads /\ bytes \in Seq(Byte)
        /\ outcome.accepted = d.accepted /\ outcome.value = d.value /\ outcome.returned = d.returned
    BY DEF EInv, SentOn
  <2>2. d.accepted /\ ~d.returned
    BY <2>1
  <2> HIDE DEF k
  <2>3. Encoded(Written[k], d.value) = bytes
    BY <2>1, <2>2, PayloadShows
  <2> HIDE DEF d
  <2>4. QED
    BY <2>1, <2>3 DEF k
<1>2. QED
  BY <1>1, EInvHolds, PTL

\* Of the containers which encode_durable_state did not write but whose
\* checksums are right, decode_durable_state accepts exactly those in order: of
\* its version, with the declared records, each whole and of a known type, no
\* identity twice, and within every limit.
THEOREM ForeignContainersAreJudged == ESpec => []OthersWorkIsJudged
<1>1. EInv => OthersWorkIsJudged
  <2> SUFFICES ASSUME EInv, Undamaged("hand") PROVE outcome.accepted <=> InOrder(origin.container)
    BY DEF OthersWorkIsJudged
  <2>1. outcome.read /\ origin.by = "hand"
    BY DEF Undamaged
  <2>2. FileOn /\ MadeByHand
    BY <2>1 DEF EInv, FileOn, SentOn, Stored
  <2> DEFINE c == origin.container
  <2>3. c \in HandWritten /\ bytes = Container(c.version, c.declared, Sealed(c.records))
    BY <2>2 DEF MadeByHand
  <2>4. outcome.accepted = DecodedState(bytes).accepted
    BY <2>1, <2>2 DEF FileOn
  <2> HIDE DEF c
  <2>5. DecodedState(bytes).accepted <=> InOrder(c)
    BY <2>3, HandJudged
  <2>6. QED
    BY <2>4, <2>5 DEF c
<1>2. QED
  BY <1>1, EInvHolds, PTL
================================================================================
