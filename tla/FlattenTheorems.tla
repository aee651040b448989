--------------------------- MODULE FlattenTheorems ---------------------------
(***************************************************************************)
(* What FlattenSeq of the community modules returns.  The translators and  *)
(* the guard are written with it: a list built up in a loop that appends,  *)
(* for some elements of another list, something made of the element, is    *)
(* the flattened sequence of what each element contributes.                *)
(*                                                                         *)
(* FlattenSeq is a recursive function, so what it returns is shown by      *)
(* induction on the length; the induction is one over sets of numbers      *)
(* (SetInduction), which follows from the least element of a set.          *)
(***************************************************************************)
EXTENDS Integers, Sequences, SequencesExt, SequenceTheorems, FiniteSets,
        FiniteSetTheorems, WellFoundedInduction, TLAPS

\* A set of numbers that is not empty has a least element.
LEMMA LeastElement ==
  ASSUME NEW T \in SUBSET Nat, T # {}
  PROVE  \E x \in T : \A y \in T : x <= y
<1> DEFINE R == {ss \in Nat \X Nat : ss[1] < ss[2]}
<1>1. IsWellFoundedOn(R, Nat)
  BY NatLessThanWellFounded DEF OpToRel
<1>2. \E x \in T : \A y \in T : ~ (<<y, x>> \in R)
  <2> HIDE DEF R
  <2> QED
    BY <1>1, WFMin
<1>3. PICK x \in T : \A y \in T : <<y, x>> \notin R
  BY <1>2
<1>4. ASSUME NEW y \in T
      PROVE  x <= y
  <2>1. y \in Nat /\ x \in Nat
    OBVIOUS
  <2>2. y < x => <<y, x>> \in R
    BY <2>1
  <2>3. QED
    BY <1>3, <2>1, <2>2
<1>5. QED
  BY <1>4

\* Induction, for a set of numbers in place of a predicate.
LEMMA SetInduction ==
  ASSUME NEW T, 0 \in T, \A n \in Nat : n \in T => n + 1 \in T
  PROVE  Nat \subseteq T
<1> SUFFICES ASSUME Nat \ T # {}
             PROVE  FALSE
  OBVIOUS
<1>1. PICK x \in Nat \ T : \A y \in Nat \ T : x <= y
  BY LeastElement
<1>2. x - 1 \in Nat /\ x - 1 \in T
  BY <1>1
<1>3. QED
  BY <1>1, <1>2

\* The recursive function of FlattenSeq exists.
LEMMA FlattenFunction ==
  ASSUME NEW S, NEW ss \in Seq(Seq(S))
  PROVE  \E f \in [1 .. Len(ss) -> Seq(S)] :
           f = [i \in 1 .. Len(ss) |-> IF i = 1 THEN ss[i] ELSE f[i - 1] \o ss[i]]
<1> DEFINE Next(f, i) == IF i = 1 THEN ss[i] ELSE f[i - 1] \o ss[i]
           Upto(n) == \E f \in [1 .. n -> Seq(S)] : \A i \in 1 .. n : f[i] = Next(f, i)
           T == {n \in Nat : n <= Len(ss) => Upto(n)}
<1>0. Len(ss) \in Nat /\ \A i \in 1 .. Len(ss) : ss[i] \in Seq(S)
  OBVIOUS
<1>1. 0 \in T
  <2>1. [i \in 1 .. 0 |-> <<>>] \in [1 .. 0 -> Seq(S)]
    OBVIOUS
  <2>2. \A f : \A i \in 1 .. 0 : f[i] = Next(f, i)
    OBVIOUS
  <2>3. Upto(0)
    BY <2>1, <2>2
  <2> HIDE DEF Upto
  <2>4. QED
    BY <2>3
<1>2. ASSUME NEW n \in Nat, n \in T
      PROVE  n + 1 \in T
  <2>1. CASE n + 1 <= Len(ss)
    <3>0. Upto(n)
      <4> HIDE DEF Upto
      <4> QED
        BY <1>0, <1>2, <2>1
    <3>1. PICK f \in [1 .. n -> Seq(S)] : \A i \in 1 .. n : f[i] = Next(f, i)
      BY <3>0
    <3> DEFINE last == Next(f, n + 1)
               g == [i \in 1 .. n + 1 |-> IF i = n + 1 THEN last ELSE f[i]]
    <3>2. last \in Seq(S)
      <4>1. ss[n + 1] \in Seq(S)
        BY <1>0, <2>1
      <4>2. n # 0 => f[n] \in Seq(S)
        OBVIOUS
      <4>3. QED
        BY <4>1, <4>2
    <3> HIDE DEF last
    <3>3. g \in [1 .. n + 1 -> Seq(S)] /\ \A i \in 1 .. n : g[i] = f[i]
      BY <3>2
    <3>4. ASSUME NEW i \in 1 .. n + 1
          PROVE  g[i] = Next(g, i)
      <4>1. CASE i = n + 1
        <5>1. g[i] = last
          BY <4>1
        <5>2. i # 1 => g[i - 1] = f[n]
          BY <3>3, <4>1
        <5>3. QED
          BY <4>1, <5>1, <5>2 DEF last
      <4>2. CASE i # n + 1
        <5>1. i \in 1 .. n /\ (i # 1 => i - 1 \in 1 .. n)
          BY <4>2
        <5>2. QED
          BY <3>1, <3>3, <5>1
      <4>3. QED
        BY <4>1, <4>2
    <3>5. Upto(n + 1)
      BY <3>3, <3>4
    <3> HIDE DEF Upto
    <3>6. QED
      BY <3>5
  <2> HIDE DEF Upto
  <2>2. QED
    BY <2>1
<1>3. Len(ss) \in T
  <2> HIDE DEF T
  <2>1. Nat \subseteq T
    BY <1>1, <1>2, SetInduction
  <2>2. QED
    BY <1>0, <2>1
<1>4. Upto(Len(ss))
  <2> HIDE DEF Upto
  <2> QED
    BY <1>0, <1>3
<1>5. PICK f \in [1 .. Len(ss) -> Seq(S)] : \A i \in 1 .. Len(ss) : f[i] = Next(f, i)
  BY <1>4
<1>6. f = [i \in 1 .. Len(ss) |-> Next(f, i)]
  BY <1>5
<1>7. QED
  BY <1>6

\* What CHOOSE picks is that function.
LEMMA FlattenRecursive ==
  ASSUME NEW S, NEW ss \in Seq(Seq(S)), ss # <<>>
  PROVE  \E f \in [1 .. Len(ss) -> Seq(S)] :
           /\ f[1] = ss[1]
           /\ \A n \in 1 .. Len(ss) - 1 : f[n + 1] = f[n] \o ss[n + 1]
           /\ FlattenSeq(ss) = f[Len(ss)]
<1> DEFINE Is(f) == f = [i \in 1 .. Len(ss) |-> IF i = 1 THEN ss[i] ELSE f[i - 1] \o ss[i]]
           flatten == CHOOSE f : Is(f)
<1>1. Is(flatten)
  <2>1. PICK f \in [1 .. Len(ss) -> Seq(S)] : Is(f)
    BY FlattenFunction
  <2> HIDE DEF Is
  <2>2. QED
    BY <2>1
<1>2. FlattenSeq(ss) = flatten[Len(ss)]
  BY DEF FlattenSeq
<1> HIDE DEF flatten
<1>3. flatten[1] = ss[1] /\ \A n \in 1 .. Len(ss) - 1 : flatten[n + 1] = flatten[n] \o ss[n + 1]
  <2>1. Len(ss) \in Nat \ {0}
    OBVIOUS
  <2>2. flatten[1] = ss[1]
    BY <1>1, <2>1
  <2>3. ASSUME NEW n \in 1 .. Len(ss) - 1
        PROVE  flatten[n + 1] = flatten[n] \o ss[n + 1]
    <3>1. n + 1 \in 1 .. Len(ss) /\ n + 1 # 1 /\ (n + 1) - 1 = n
      BY <2>1
    <3>2. flatten[n + 1] = flatten[(n + 1) - 1] \o ss[n + 1]
      BY <1>1, <3>1
    <3>3. QED
      BY <3>1, <3>2
  <2>4. QED
    BY <2>2, <2>3
<1>4. flatten \in [1 .. Len(ss) -> Seq(S)]
  <2> DEFINE T == {n \in Nat : n \in 1 .. Len(ss) => flatten[n] \in Seq(S)}
  <2>0. Len(ss) \in Nat /\ \A i \in 1 .. Len(ss) : ss[i] \in Seq(S)
    OBVIOUS
  <2>1. 0 \in T
    OBVIOUS
  <2>2. ASSUME NEW n \in Nat, n \in T
        PROVE  n + 1 \in T
    <3>1. CASE n + 1 \in 1 .. Len(ss)
      <4>1. ss[n + 1] \in Seq(S) /\ (n # 0 => flatten[n] \in Seq(S))
        BY <2>0, <2>2, <3>1
      <4>2. CASE n = 0
        <5>1. flatten[n + 1] = ss[n + 1]
          BY <1>3, <4>2
        <5>2. flatten[n + 1] \in Seq(S)
          BY <4>1, <5>1
        <5>3. QED
          BY <5>2
      <4>3. CASE n # 0
        <5>1. n \in 1 .. Len(ss) - 1 /\ flatten[n] \in Seq(S)
          BY <2>0, <3>1, <4>1, <4>3
        <5>2. flatten[n + 1] = flatten[n] \o ss[n + 1]
          BY <1>3, <5>1
        <5>3. flatten[n + 1] \in Seq(S)
          BY <4>1, <5>1, <5>2
        <5>4. QED
          BY <5>3
      <4>4. QED
        BY <4>2, <4>3
    <3>2. QED
      BY <3>1
  <2>3. Nat \subseteq T
    <3> HIDE DEF T
    <3> QED
      BY <2>1, <2>2, SetInduction
  <2>4. \A i \in 1 .. Len(ss) : flatten[i] \in Seq(S)
    BY <2>3
  <2>5. QED
    BY <1>1, <2>4
<1>5. QED
  BY <1>2, <1>3, <1>4

\* No pieces make nothing.
LEMMA FlattenOfEmpty == FlattenSeq(<<>>) = <<>>
BY DEF FlattenSeq

\* Pieces of sequences over S make a sequence over S.
LEMMA FlattenType ==
  ASSUME NEW S, NEW ss \in Seq(Seq(S))
  PROVE  FlattenSeq(ss) \in Seq(S)
<1>1. CASE ss = <<>>
  <2>1. <<>> \in Seq(S)
    OBVIOUS
  <2>2. QED
    BY <1>1, <2>1, FlattenOfEmpty
<1>2. CASE ss # <<>>
  <2>1. PICK f \in [1 .. Len(ss) -> Seq(S)] : FlattenSeq(ss) = f[Len(ss)]
    BY <1>2, FlattenRecursive
  <2>2. Len(ss) \in 1 .. Len(ss)
    BY <1>2
  <2>3. QED
    BY <2>1, <2>2
<1>3. QED
  BY <1>1, <1>2

\* The recursion at the end of the sequence.
LEMMA FlattenAppend ==
  ASSUME NEW S, NEW ss \in Seq(Seq(S)), NEW e \in Seq(S)
  PROVE  FlattenSeq(Append(ss, e)) = FlattenSeq(ss) \o e
<1> DEFINE tt == Append(ss, e)
<1>0. /\ tt \in Seq(Seq(S)) /\ tt # <<>> /\ Len(tt) = Len(ss) + 1 /\ tt[Len(tt)] = e
      /\ \A i \in 1 .. Len(ss) : tt[i] = ss[i]
      /\ Len(ss) \in Nat
  <2>1. e \in Seq(S) /\ Len(ss) \in Nat
    OBVIOUS
  <2> DEFINE E == Seq(S)
  <2>2. ss \in Seq(E) /\ e \in E
    OBVIOUS
  <2> HIDE DEF E
  <2>3. /\ tt \in Seq(E) /\ tt # <<>> /\ Len(tt) = Len(ss) + 1 /\ tt[Len(tt)] = e
        /\ \A i \in 1 .. Len(ss) : tt[i] = ss[i]
    BY <2>1, <2>2, AppendProperties
  <2>4. QED
    BY <2>1, <2>3 DEF E
<1> HIDE DEF tt
<1>1. PICK g \in [1 .. Len(tt) -> Seq(S)] :
        /\ g[1] = tt[1]
        /\ \A n \in 1 .. Len(tt) - 1 : g[n + 1] = g[n] \o tt[n + 1]
        /\ FlattenSeq(tt) = g[Len(tt)]
  BY <1>0, FlattenRecursive
<1>2. CASE ss = <<>>
  <2>1. Len(tt) = 1 /\ FlattenSeq(tt) = e
    BY <1>0, <1>1, <1>2
  <2>2. FlattenSeq(ss) \o e = e
    BY <1>2, FlattenOfEmpty
  <2>3. QED
    BY <2>1, <2>2 DEF tt
<1>3. CASE ss # <<>>
  <2>0. Len(ss) \in Nat \ {0}
    BY <1>3
  <2>1. PICK f \in [1 .. Len(ss) -> Seq(S)] :
          /\ f[1] = ss[1]
          /\ \A n \in 1 .. Len(ss) - 1 : f[n + 1] = f[n] \o ss[n + 1]
          /\ FlattenSeq(ss) = f[Len(ss)]
    BY <1>3, FlattenRecursive
  <2> DEFINE T == {n \in Nat : n \in 1 .. Len(ss) => f[n] = g[n]}
  <2>2. 0 \in T
    OBVIOUS
  <2>3. ASSUME NEW n \in Nat, n \in T
        PROVE  n + 1 \in T
    <3>1. CASE n = 0
      <4>1. f[1] = g[1]
        BY <1>0, <1>1, <2>0, <2>1
      <4>2. QED
        BY <3>1, <4>1
    <3>2. CASE n # 0 /\ n + 1 \in 1 .. Len(ss)
      <4>1. n \in 1 .. Len(ss) - 1 /\ n \in 1 .. Len(tt) - 1 /\ f[n] = g[n]
        BY <1>0, <2>3, <3>2
      <4>2. f[n + 1] = f[n] \o ss[n + 1] /\ g[n + 1] = g[n] \o tt[n + 1]
        BY <1>1, <2>1, <4>1
      <4>3. f[n + 1] = g[n + 1]
        BY <1>0, <3>2, <4>1, <4>2
      <4>4. QED
        BY <4>3
    <3>3. QED
      BY <3>1, <3>2
  <2>4. Nat \subseteq T
    <3> HIDE DEF T
    <3> QED
      BY <2>2, <2>3, SetInduction
  <2>5. f[Len(ss)] = g[Len(ss)]
    <3>1. Len(ss) \in T
      <4> HIDE DEF T
      <4> QED
        BY <2>0, <2>4
    <3>2. QED
      BY <2>0, <3>1
  <2>6. g[Len(tt)] = g[Len(ss)] \o e
    <3>1. Len(ss) \in 1 .. Len(tt) - 1
      BY <1>0, <2>0
    <3>2. g[Len(ss) + 1] = g[Len(ss)] \o tt[Len(ss) + 1]
      BY <1>1, <3>1
    <3>3. QED
      BY <1>0, <3>2
  <2>7. QED
    BY <1>1, <2>1, <2>5, <2>6 DEF tt
<1>4. QED
  BY <1>2, <1>3

-----------------------------------------------------------------------------

\* Induction over sequences, as an induction over sets of them.
LEMMA SequenceInduction ==
  ASSUME NEW E, NEW Q, <<>> \in Q,
         \A s \in Seq(E) : \A e \in E : s \in Q => Append(s, e) \in Q
  PROVE  Seq(E) \subseteq Q
<1> DEFINE Short(n) == \A s \in Seq(E) : Len(s) = n => s \in Q
           T == {n \in Nat : Short(n)}
<1>1. 0 \in T
  OBVIOUS
<1>2. ASSUME NEW n \in Nat, n \in T
      PROVE  n + 1 \in T
  <2>1. ASSUME NEW s \in Seq(E), Len(s) = n + 1
        PROVE  s \in Q
    <3> DEFINE front == SubSeq(s, 1, n)
    <3>1. front \in Seq(E) /\ Len(front) = n /\ s[n + 1] \in E
      BY <2>1
    <3>2. s = Append(front, s[n + 1])
      BY <2>1
    <3>3. front \in Q
      BY <1>2, <3>1
    <3> HIDE DEF front
    <3>4. QED
      BY <3>1, <3>2, <3>3
  <2>2. QED
    BY <2>1
<1>3. Nat \subseteq T
  <2> HIDE DEF T
  <2> QED
    BY <1>1, <1>2, SetInduction
<1>4. QED
  BY <1>3

\* Pieces that are sequences make a sequence of sequences.
LEMMA PiecesType ==
  ASSUME NEW S, NEW n \in Nat, NEW p, p = [i \in 1 .. n |-> p[i]],
         \A i \in 1 .. n : p[i] \in Seq(S)
  PROVE  p \in Seq(Seq(S)) /\ Len(p) = n
<1> DEFINE E == Seq(S)
<1>1. \A i \in 1 .. n : p[i] \in E
  OBVIOUS
<1> HIDE DEF E
<1>2. p \in Seq(E) /\ Len(p) = n
  BY <1>1
<1>3. QED
  BY <1>2 DEF E

-----------------------------------------------------------------------------
(* What is in a flattened sequence.                                        *)

\* Every element comes from a piece, at the same place for two sequences whose pieces are as
\* long; in particular (ss = tt) from a piece.
Alike(s, t) == Len(s) = Len(t) /\ \A i \in 1 .. Len(s) : Len(s[i]) = Len(t[i])

Aligned(s, t) ==
  /\ Len(FlattenSeq(s)) = Len(FlattenSeq(t))
  /\ \A k \in 1 .. Len(FlattenSeq(s)) :
       \E i \in 1 .. Len(s) : \E j \in 1 .. Len(s[i]) :
         FlattenSeq(s)[k] = s[i][j] /\ FlattenSeq(t)[k] = t[i][j]

\* Two lists of pieces of the same lengths make sequences that agree where the pieces do.
LEMMA FlattenAligned ==
  ASSUME NEW S, NEW ss \in Seq(Seq(S)), NEW U, NEW tt \in Seq(Seq(U)), Alike(ss, tt)
  PROVE  Aligned(ss, tt)
<1> USE DEF Alike, Aligned
<1> DEFINE Q == {s \in Seq(Seq(S)) : \A t \in Seq(Seq(U)) : Alike(s, t) => Aligned(s, t)}
<1>1. <<>> \in Q
  <2>1. ASSUME NEW t \in Seq(Seq(U)), Alike(<<>>, t)
        PROVE  Aligned(<<>>, t)
    <3>1. t = <<>>
      BY <2>1
    <3>2. QED
      BY <3>1, FlattenOfEmpty
  <2>2. QED
    BY <2>1
<1>2. ASSUME NEW s \in Seq(Seq(S)), NEW e \in Seq(S), s \in Q
      PROVE  Append(s, e) \in Q
  <2> DEFINE s1 == Append(s, e)
  <2>1. /\ s1 \in Seq(Seq(S)) /\ Len(s1) = Len(s) + 1 /\ s1[Len(s) + 1] = e
        /\ \A i \in 1 .. Len(s) : s1[i] = s[i]
    BY AppendProperties
  <2>2. FlattenSeq(s1) = FlattenSeq(s) \o e /\ FlattenSeq(s) \in Seq(S)
    BY FlattenAppend, FlattenType
  <2> HIDE DEF s1
  <2>3. ASSUME NEW t1 \in Seq(Seq(U)), Alike(s1, t1)
        PROVE  Aligned(s1, t1)
    <3> DEFINE t == SubSeq(t1, 1, Len(s))  d == t1[Len(s) + 1]
    <3>1. /\ t \in Seq(Seq(U)) /\ Len(t) = Len(s) /\ d \in Seq(U) /\ t1 = Append(t, d)
          /\ \A i \in 1 .. Len(s) : t1[i] = t[i]
      BY <2>1, <2>3
    <3> HIDE DEF t, d
    <3>2. FlattenSeq(t1) = FlattenSeq(t) \o d /\ FlattenSeq(t) \in Seq(U)
      BY <3>1, FlattenAppend, FlattenType
    <3>3. Alike(s, t) /\ Len(d) = Len(e)
      <4>1. \A i \in 1 .. Len(s) : i \in 1 .. Len(s1)
        BY <2>1
      <4>2. \A i \in 1 .. Len(s) : Len(s1[i]) = Len(t1[i])
        BY <2>3, <4>1
      <4>3. Len(s) + 1 \in 1 .. Len(s1)
        BY <2>1
      <4>4. Len(s1[Len(s) + 1]) = Len(d)
        BY <2>3, <4>3 DEF d
      <4>5. QED
        BY <2>1, <3>1, <4>2, <4>4
    <3>4. Aligned(s, t)
      BY <1>2, <3>1, <3>3
    <3>5. Len(FlattenSeq(s1)) = Len(FlattenSeq(t1))
      <4>1. Len(FlattenSeq(s1)) = Len(FlattenSeq(s)) + Len(e)
        BY <2>2, ConcatProperties
      <4>2. Len(FlattenSeq(t1)) = Len(FlattenSeq(t)) + Len(d)
        BY <3>1, <3>2, ConcatProperties
      <4>3. QED
        BY <3>3, <3>4, <4>1, <4>2
    <3>6. ASSUME NEW k \in 1 .. Len(FlattenSeq(s1))
          PROVE  \E i \in 1 .. Len(s1) : \E j \in 1 .. Len(s1[i]) :
                   FlattenSeq(s1)[k] = s1[i][j] /\ FlattenSeq(t1)[k] = t1[i][j]
      <4>1. CASE k <= Len(FlattenSeq(s))
        <5>1. FlattenSeq(s1)[k] = FlattenSeq(s)[k] /\ FlattenSeq(t1)[k] = FlattenSeq(t)[k]
          BY <2>2, <3>1, <3>2, <3>3, <3>4, <4>1
        <5>2. PICK i \in 1 .. Len(s) : \E j \in 1 .. Len(s[i]) :
                FlattenSeq(s)[k] = s[i][j] /\ FlattenSeq(t)[k] = t[i][j]
          <6>1. Len(FlattenSeq(s)) \in Nat /\ Len(FlattenSeq(s1)) \in Nat
            BY <2>2
          <6>2. k \in 1 .. Len(FlattenSeq(s))
            BY <4>1, <6>1
          <6>3. QED
            BY <3>4, <6>2
        <5>3. i \in 1 .. Len(s1) /\ s1[i] = s[i] /\ t1[i] = t[i]
          BY <2>1, <3>1
        <5>4. QED
          BY <5>1, <5>2, <5>3
      <4>2. CASE ~(k <= Len(FlattenSeq(s)))
        <5> DEFINE i == Len(s) + 1  j == k - Len(FlattenSeq(s))
        <5>1. i \in 1 .. Len(s1) /\ s1[i] = e /\ t1[i] = d
          BY <2>1 DEF d
        <5>2. j \in 1 .. Len(e) /\ FlattenSeq(s1)[k] = e[j]
          BY <2>2, <4>2
        <5>3. FlattenSeq(t1)[k] = d[j]
          BY <2>2, <3>1, <3>2, <3>3, <3>4, <4>2
        <5>4. QED
          BY <5>1, <5>2, <5>3
      <4>3. QED
        BY <4>1, <4>2
    <3>7. QED
      BY <3>5, <3>6
  <2>4. QED
    BY <2>1, <2>3 DEF s1
<1>3. Seq(Seq(S)) \subseteq Q
  <2> HIDE DEF Q
  <2> QED
    BY <1>1, <1>2, SequenceInduction
<1>4. QED
  <2> HIDE DEF Alike, Aligned
  <2>1. QED
    BY <1>3

\* Every element of a piece is in the flattened sequence.
LEMMA FlattenHas ==
  ASSUME NEW S, NEW ss \in Seq(Seq(S)), NEW i \in 1 .. Len(ss), NEW j \in 1 .. Len(ss[i])
  PROVE  \E k \in 1 .. Len(FlattenSeq(ss)) : FlattenSeq(ss)[k] = ss[i][j]
<1> DEFINE Has(s, x, y) == \E k \in 1 .. Len(FlattenSeq(s)) : FlattenSeq(s)[k] = s[x][y]
           Q == {s \in Seq(Seq(S)) : \A x \in 1 .. Len(s) : \A y \in 1 .. Len(s[x]) : Has(s, x, y)}
<1>1. <<>> \in Q
  OBVIOUS
<1>2. ASSUME NEW s \in Seq(Seq(S)), NEW e \in Seq(S), s \in Q
      PROVE  Append(s, e) \in Q
  <2> DEFINE s1 == Append(s, e)
  <2>1. /\ s1 \in Seq(Seq(S)) /\ Len(s1) = Len(s) + 1 /\ s1[Len(s) + 1] = e
        /\ \A x \in 1 .. Len(s) : s1[x] = s[x]
    BY AppendProperties
  <2>2. FlattenSeq(s1) = FlattenSeq(s) \o e /\ FlattenSeq(s) \in Seq(S)
    BY FlattenAppend, FlattenType
  <2>3. /\ Len(FlattenSeq(s1)) = Len(FlattenSeq(s)) + Len(e)
        /\ \A k \in 1 .. Len(FlattenSeq(s)) : FlattenSeq(s1)[k] = FlattenSeq(s)[k]
        /\ \A k \in 1 .. Len(e) : FlattenSeq(s1)[Len(FlattenSeq(s)) + k] = e[k]
    BY <2>2
  <2> HIDE DEF s1
  <2>4. ASSUME NEW x \in 1 .. Len(s1), NEW y \in 1 .. Len(s1[x])
        PROVE  Has(s1, x, y)
    <3>1. CASE x \in 1 .. Len(s)
      <4>1. PICK k \in 1 .. Len(FlattenSeq(s)) : FlattenSeq(s)[k] = s[x][y]
        BY <1>2, <2>1, <3>1
      <4>2. k \in 1 .. Len(FlattenSeq(s1)) /\ FlattenSeq(s1)[k] = s1[x][y]
        <5>1. s1[x] = s[x] /\ Len(FlattenSeq(s)) \in Nat /\ Len(e) \in Nat
          BY <2>1, <2>2, <3>1, LenProperties
        <5>2. k \in 1 .. Len(FlattenSeq(s1))
          BY <2>3, <4>1, <5>1
        <5>3. QED
          BY <2>3, <4>1, <5>1, <5>2
      <4>3. QED
        BY <4>2
    <3>2. CASE x = Len(s) + 1
      <4> DEFINE k == Len(FlattenSeq(s)) + y
      <4>1. s1[x] = e /\ y \in 1 .. Len(e)
        BY <2>1, <3>2
      <4>2. k \in 1 .. Len(FlattenSeq(s1)) /\ FlattenSeq(s1)[k] = e[y]
        BY <2>2, <2>3, <4>1
      <4>3. QED
        BY <4>1, <4>2
    <3>3. QED
      BY <2>1, <3>1, <3>2
  <2> HIDE DEF Has
  <2>5. QED
    BY <2>1, <2>4 DEF s1
<1>3. Seq(Seq(S)) \subseteq Q
  <2> HIDE DEF Q
  <2> QED
    BY <1>1, <1>2, SequenceInduction
<1>4. QED
  <2> HIDE DEF Has
  <2>1. Has(ss, i, j)
    BY <1>3
  <2>2. QED
    BY <2>1 DEF Has

\* It is empty when all the pieces are.
LEMMA FlattenEmpty ==
  ASSUME NEW S, NEW ss \in Seq(Seq(S))
  PROVE  FlattenSeq(ss) = <<>> <=> \A i \in 1 .. Len(ss) : ss[i] = <<>>
<1>0. FlattenSeq(ss) \in Seq(S)
  BY FlattenType
<1>1. ASSUME FlattenSeq(ss) = <<>>, NEW i \in 1 .. Len(ss), ss[i] # <<>>
      PROVE  FALSE
  <2>1. 1 \in 1 .. Len(ss[i])
    BY <1>1
  <2>2. QED
    BY <1>1, <2>1, FlattenHas
<1>2. ASSUME \A i \in 1 .. Len(ss) : ss[i] = <<>>, FlattenSeq(ss) # <<>>
      PROVE  FALSE
  <2>1. 1 \in 1 .. Len(FlattenSeq(ss))
    BY <1>0, <1>2
  <2>2. \E i \in 1 .. Len(ss) : \E j \in 1 .. Len(ss[i]) : FlattenSeq(ss)[1] = ss[i][j]
    <3>1. Alike(ss, ss)
      BY DEF Alike
    <3>2. Aligned(ss, ss)
      BY <3>1, FlattenAligned
    <3>3. QED
      BY <2>1, <3>2 DEF Aligned
  <2>3. QED
    BY <1>2, <2>2
<1>3. QED
  BY <1>1, <1>2

\* The pieces of two lists, one after the other.
LEMMA FlattenConcat ==
  ASSUME NEW S, NEW ss \in Seq(Seq(S)), NEW tt \in Seq(Seq(S))
  PROVE  FlattenSeq(ss \o tt) = FlattenSeq(ss) \o FlattenSeq(tt)
<1> DEFINE E == Seq(S)
           Q == {t \in Seq(E) : FlattenSeq(ss \o t) = FlattenSeq(ss) \o FlattenSeq(t)}
<1>0. FlattenSeq(ss) \in Seq(S)
  BY FlattenType
<1>1. <<>> \in Q
  <2>1. FlattenSeq(ss) \o <<>> = FlattenSeq(ss)
    BY <1>0, ConcatEmptySeq
  <2> HIDE DEF E
  <2>2. ss \o <<>> = ss
    BY ConcatEmptySeq DEF E
  <2>3. <<>> \in Seq(E)
    OBVIOUS
  <2>4. FlattenSeq(ss \o <<>>) = FlattenSeq(ss) \o FlattenSeq(<<>>)
    BY <2>1, <2>2, FlattenOfEmpty
  <2>5. QED
    BY <2>3, <2>4
<1>2. ASSUME NEW t \in Seq(E), NEW e \in E, t \in Q
      PROVE  Append(t, e) \in Q
  <2> HIDE DEF E
  <2>1. ss \in Seq(E)
    BY DEF E
  <2>2. ss \o Append(t, e) = Append(ss \o t, e) /\ ss \o t \in Seq(E) /\ Append(t, e) \in Seq(E)
    BY <2>1, AppendProperties, ConcatProperties
  <2>3. FlattenSeq(ss \o Append(t, e)) = FlattenSeq(ss \o t) \o e
    BY <2>2, FlattenAppend DEF E
  <2>4. FlattenSeq(Append(t, e)) = FlattenSeq(t) \o e /\ FlattenSeq(t) \in Seq(S)
    BY FlattenAppend, FlattenType DEF E
  <2>5. FlattenSeq(ss \o t) = FlattenSeq(ss) \o FlattenSeq(t)
    BY <1>2
  <2>6. (FlattenSeq(ss) \o FlattenSeq(t)) \o e = FlattenSeq(ss) \o (FlattenSeq(t) \o e)
    <3>1. e \in Seq(S)
      BY DEF E
    <3>2. \A a, b, c \in Seq(S) : (a \o b) \o c = a \o (b \o c)
      <4>1. ASSUME NEW a \in Seq(S), NEW b \in Seq(S), NEW c \in Seq(S)
            PROVE  (a \o b) \o c = a \o (b \o c)
        OBVIOUS
      <4>2. QED
        BY <4>1
    <3> HIDE DEF Q
    <3>3. QED
      BY <1>0, <2>4, <3>1, <3>2
  <2>7. QED
    BY <2>2, <2>3, <2>4, <2>5, <2>6
<1>3. Seq(E) \subseteq Q
  <2> HIDE DEF Q, E
  <2> QED
    BY <1>1, <1>2, SequenceInduction
<1>4. QED
  BY <1>3

\* Where each place gives an element to one of two sequences at most.
Apart(s, t) == Len(s) = Len(t) /\ \A i \in 1 .. Len(s) : Len(s[i]) + Len(t[i]) <= 1

\* Two lists in which no place has more than one element between them.
LEMMA FlattenLengths ==
  ASSUME NEW S, NEW ss \in Seq(Seq(S)), NEW U, NEW tt \in Seq(Seq(U)), Apart(ss, tt)
  PROVE  Len(FlattenSeq(ss)) + Len(FlattenSeq(tt)) <= Len(ss)
<1> USE DEF Apart
<1> DEFINE Few(s, t) == Len(FlattenSeq(s)) + Len(FlattenSeq(t)) <= Len(s)
           Q == {s \in Seq(Seq(S)) : \A t \in Seq(Seq(U)) : Apart(s, t) => Few(s, t)}
<1>1. <<>> \in Q
  <2>1. ASSUME NEW t \in Seq(Seq(U)), Apart(<<>>, t)
        PROVE  Few(<<>>, t)
    <3>1. t = <<>>
      BY <2>1
    <3>2. QED
      BY <3>1, FlattenOfEmpty
  <2>2. QED
    BY <2>1
<1>2. ASSUME NEW s \in Seq(Seq(S)), NEW e \in Seq(S), s \in Q
      PROVE  Append(s, e) \in Q
  <2> DEFINE s1 == Append(s, e)
  <2>1. /\ s1 \in Seq(Seq(S)) /\ Len(s1) = Len(s) + 1 /\ s1[Len(s) + 1] = e
        /\ \A i \in 1 .. Len(s) : s1[i] = s[i]
    BY AppendProperties
  <2>2. FlattenSeq(s1) = FlattenSeq(s) \o e /\ FlattenSeq(s) \in Seq(S)
    BY FlattenAppend, FlattenType
  <2> HIDE DEF s1
  <2>3. ASSUME NEW t1 \in Seq(Seq(U)), Apart(s1, t1)
        PROVE  Few(s1, t1)
    <3> DEFINE t == SubSeq(t1, 1, Len(s))  d == t1[Len(s) + 1]
    <3>1. /\ t \in Seq(Seq(U)) /\ Len(t) = Len(s) /\ d \in Seq(U) /\ t1 = Append(t, d)
          /\ \A i \in 1 .. Len(s) : t1[i] = t[i]
      <4>1. Len(t1) = Len(s) + 1
        BY <2>1, <2>3
      <4>2. QED
        BY <4>1
    <3>3. Apart(s, t) /\ Len(e) + Len(d) <= 1
      <4>1. \A i \in 1 .. Len(s) : Len(s[i]) + Len(t[i]) <= 1
        <5>1. \A i \in 1 .. Len(s) : i \in 1 .. Len(s1)
          BY <2>1
        <5>2. \A i \in 1 .. Len(s) : Len(s1[i]) + Len(t1[i]) <= 1
          BY <2>3, <5>1
        <5> HIDE DEF t, d
        <5>3. QED
          BY <2>1, <3>1, <5>2
      <4>2. Len(s) + 1 \in 1 .. Len(s1)
        BY <2>1
      <4>3. Len(s1[Len(s) + 1]) + Len(d) <= 1
        BY <2>3, <4>2
      <4>4. QED
        BY <2>1, <3>1, <4>1, <4>3
    <3> HIDE DEF t, d
    <3>2. FlattenSeq(t1) = FlattenSeq(t) \o d /\ FlattenSeq(t) \in Seq(U)
      BY <3>1, FlattenAppend, FlattenType
    <3>4. Few(s, t)
      BY <1>2, <3>1, <3>3
    <3>5. Len(FlattenSeq(s1)) = Len(FlattenSeq(s)) + Len(e)
      BY <2>2, ConcatProperties
    <3>6. Len(FlattenSeq(t1)) = Len(FlattenSeq(t)) + Len(d)
      BY <3>1, <3>2, ConcatProperties
    <3>7. QED
      BY <2>1, <2>2, <3>1, <3>2, <3>3, <3>4, <3>5, <3>6
  <2>4. QED
    BY <2>1, <2>3 DEF s1
<1>3. Seq(Seq(S)) \subseteq Q
  <2> HIDE DEF Q
  <2> QED
    BY <1>1, <1>2, SequenceInduction
<1>4. QED
  <2>1. Apart(ss, tt) => Few(ss, tt)
    <3> HIDE DEF Apart, Few
    <3> QED
      BY <1>3
  <2>2. QED
    BY <2>1

\* Pieces of one element each.
LEMMA FlattenSingles ==
  ASSUME NEW S, NEW s \in Seq(S)
  PROVE  FlattenSeq([i \in DOMAIN s |-> <<s[i]>>]) = s
<1> DEFINE Pieces(t) == [i \in DOMAIN t |-> <<t[i]>>]
           Q == {t \in Seq(S) : FlattenSeq(Pieces(t)) = t}
<1>1. <<>> \in Q
  <2>1. Pieces(<<>>) = <<>>
    OBVIOUS
  <2>2. QED
    BY <2>1, FlattenOfEmpty
<1>2. ASSUME NEW t \in Seq(S), NEW e \in S, t \in Q
      PROVE  Append(t, e) \in Q
  <2>1. Pieces(t) \in Seq(Seq(S)) /\ <<e>> \in Seq(S)
    <3>1. \A i \in 1 .. Len(t) : <<t[i]>> \in Seq(S)
      BY ElementOfSeq
    <3> DEFINE E == Seq(S)
    <3>2. Len(t) \in Nat /\ DOMAIN t = 1 .. Len(t) /\ \A i \in 1 .. Len(t) : <<t[i]>> \in E
      BY <3>1
    <3> HIDE DEF E
    <3>3. Pieces(t) \in Seq(E)
      BY <3>2
    <3>4. QED
      BY <3>3 DEF E
  <2>2. Pieces(Append(t, e)) = Append(Pieces(t), <<e>>)
    OBVIOUS
  <2> HIDE DEF Pieces
  <2>3. FlattenSeq(Pieces(Append(t, e))) = t \o <<e>>
    BY <1>2, <2>1, <2>2, FlattenAppend
  <2>4. Append(t, e) = t \o <<e>> /\ Append(t, e) \in Seq(S)
    BY AppendIsConcat, AppendProperties
  <2>5. QED
    BY <2>3, <2>4
<1>3. Seq(S) \subseteq Q
  <2> HIDE DEF Q
  <2> QED
    BY <1>1, <1>2, SequenceInduction
<1>4. QED
  BY <1>3

-----------------------------------------------------------------------------
(* The greatest of some places of a sequence (SelectLastInSeq).            *)

\* The largest of some of the numbers up to n is the Max of FiniteSetsExt.
LEMMA LargestElement ==
  ASSUME NEW n \in Nat, NEW T \in SUBSET (1 .. n), T # {}
  PROVE  Max(T) \in T /\ \A y \in T : y <= Max(T)
<1> DEFINE D == {d \in Nat : \E y \in T : d = n - y}
<1>0. \A y \in T : y \in Int /\ n - y \in Nat
  OBVIOUS
<1>1. D \in SUBSET Nat /\ D # {}
  BY <1>0
<1>2. PICK d \in D : \A c \in D : d <= c
  BY <1>1, LeastElement
<1>3. PICK x \in T : d = n - x
  BY <1>2
<1>4. \A y \in T : x >= y
  <2>1. ASSUME NEW y \in T
        PROVE  x >= y
    <3>1. n - y \in D
      BY <1>0
    <3>2. n - x <= n - y
      BY <1>2, <1>3, <3>1
    <3>3. QED
      BY <1>0, <3>2
  <2>2. QED
    BY <2>1
<1>5. \E z \in T : \A y \in T : z >= y
  BY <1>4
<1>6. Max(T) \in T /\ \A y \in T : Max(T) >= y
  BY <1>5 DEF Max
<1>7. QED
  BY <1>6

-----------------------------------------------------------------------------
(* The places of a sequence that are in a set, in order.                   *)

Places(T, n) == FlattenSeq([i \in 1 .. n |-> IF i \in T THEN <<i>> ELSE <<>>])

\* The places up to n + 1.
LEMMA PlacesAppend ==
  ASSUME NEW T, NEW n \in Nat
  PROVE  /\ Places(T, n) \in Seq(T \cap (1 .. n))
         /\ Places(T, n + 1) = IF n + 1 \in T THEN Append(Places(T, n), n + 1) ELSE Places(T, n)
<1> DEFINE p(m) == [i \in 1 .. m |-> IF i \in T THEN <<i>> ELSE <<>>]
           U(m) == T \cap (1 .. m)
           e == IF n + 1 \in T THEN <<n + 1>> ELSE <<>>
<1>1. ASSUME NEW m \in Nat
      PROVE  p(m) \in Seq(Seq(U(m)))
  <2> DEFINE E == Seq(U(m))
  <2>1. \A i \in 1 .. m : (IF i \in T THEN <<i>> ELSE <<>>) \in E
    <3>1. ASSUME NEW i \in 1 .. m
          PROVE  (IF i \in T THEN <<i>> ELSE <<>>) \in E
      <4>1. i \in T => i \in U(m)
        OBVIOUS
      <4> HIDE DEF U
      <4>2. QED
        BY <4>1
    <3>2. QED
      BY <3>1
  <2> HIDE DEF E, U
  <2>2. p(m) \in Seq(E)
    BY <2>1
  <2>3. QED
    BY <2>2 DEF E
<1>2. Places(T, n) \in Seq(U(n))
  <2> HIDE DEF U
  <2>1. p(n) \in Seq(Seq(U(n)))
    BY <1>1
  <2>2. QED
    BY <2>1, FlattenType DEF Places
<1>3. p(n) \in Seq(Seq(U(n + 1))) /\ e \in Seq(U(n + 1))
  <2>1. U(n) \subseteq U(n + 1)
    OBVIOUS
  <2>2. e \in Seq(U(n + 1))
    <3>1. CASE n + 1 \in T
      <4>1. n + 1 \in U(n + 1) /\ e = <<n + 1>>
        BY <3>1
      <4> HIDE DEF U, e
      <4>2. QED
        BY <4>1
    <3>2. CASE n + 1 \notin T
      <4>1. e = <<>>
        BY <3>2
      <4> HIDE DEF U, e
      <4>2. QED
        BY <4>1
    <3>3. QED
      BY <3>1, <3>2
  <2> HIDE DEF U, e, p
  <2>3. Seq(U(n)) \subseteq Seq(U(n + 1))
    BY <2>1, SeqMonotonic
  <2>4. QED
    BY <1>1, <2>2, <2>3, SeqMonotonic
<1>4. p(n + 1) = Append(p(n), e)
  <2>1. Len(p(n)) = n
    OBVIOUS
  <2>2. Append(p(n), e) = [i \in 1 .. n + 1 |-> IF i = n + 1 THEN e ELSE p(n)[i]]
    BY <2>1
  <2>3. QED
    BY <2>2
<1>5. Places(T, n + 1) = Places(T, n) \o e
  <2> HIDE DEF U, e
  <2>1. FlattenSeq(Append(p(n), e)) = FlattenSeq(p(n)) \o e
    <3> HIDE DEF p
    <3> QED
      BY <1>3, FlattenAppend
  <2>2. QED
    BY <1>4, <2>1 DEF Places
<1>6. CASE n + 1 \in T
  <2>1. e = <<n + 1>>
    BY <1>6
  <2> HIDE DEF e, p
  <2>2. Places(T, n) \in Seq(Int)
    <3>1. U(n) \subseteq Int
      OBVIOUS
    <3> HIDE DEF U
    <3>2. QED
      BY <1>2, <3>1, SeqMonotonic
  <2>3. Places(T, n) \o <<n + 1>> = Append(Places(T, n), n + 1)
    BY <2>2, AppendIsConcat
  <2>4. QED
    BY <1>2, <1>5, <1>6, <2>1, <2>3
<1>7. CASE n + 1 \notin T
  <2>1. e = <<>>
    BY <1>7
  <2> HIDE DEF e, p
  <2>2. Places(T, n) \o <<>> = Places(T, n)
    BY <1>2, ConcatEmptySeq
  <2>3. QED
    BY <1>2, <1>5, <1>7, <2>1, <2>2
<1>8. QED
  BY <1>6, <1>7

\* All of them, once each, in order.
PlacesAre(T, n) ==
  /\ Places(T, n) \in Seq(T \cap (1 .. n))
  /\ Len(Places(T, n)) = Cardinality(T \cap (1 .. n))
  /\ \A k \in 1 .. Len(Places(T, n)) : k = Cardinality(T \cap (1 .. Places(T, n)[k]))
  /\ \A k \in 1 .. Len(Places(T, n)) : \A j \in 1 .. k - 1 : Places(T, n)[j] < Places(T, n)[k]
  /\ \A i \in T \cap (1 .. n) : \E k \in 1 .. Len(Places(T, n)) : Places(T, n)[k] = i

\* The places are the elements of T up to n, each once and in order.
LEMMA PlacesProperties ==
  ASSUME NEW T, NEW n \in Nat
  PROVE  PlacesAre(T, n)
<1> DEFINE P(m) == Places(T, m)
           Sized(m) == Len(P(m)) = Cardinality(T \cap (1 .. m))
           Counted(m) == \A k \in 1 .. Len(P(m)) : k = Cardinality(T \cap (1 .. P(m)[k]))
           Increasing(m) == \A k \in 1 .. Len(P(m)) : \A j \in 1 .. k - 1 : P(m)[j] < P(m)[k]
           Full(m) == \A i \in T \cap (1 .. m) : \E k \in 1 .. Len(P(m)) : P(m)[k] = i
           Good(m) == Sized(m) /\ Counted(m) /\ Increasing(m) /\ Full(m)
           Q == {m \in Nat : Good(m)}
<1>1. 0 \in Q
  <2>1. P(0) = <<>>
    <3>1. [i \in 1 .. 0 |-> IF i \in T THEN <<i>> ELSE <<>>] = <<>>
      OBVIOUS
    <3>2. QED
      BY <3>1, FlattenOfEmpty DEF Places
  <2>2. T \cap (1 .. 0) = {} /\ Cardinality({}) = 0
    BY FS_EmptySet
  <2> HIDE DEF P
  <2>3. Good(0)
    BY <2>1, <2>2
  <2>4. QED
    BY <2>3
<1>2. ASSUME NEW m \in Nat, m \in Q
      PROVE  m + 1 \in Q
  <2> DEFINE C(x) == T \cap (1 .. x)
  <2>0. Good(m)
    <3> HIDE DEF Good
    <3> QED
      BY <1>2
  <2>1. P(m) \in Seq(C(m)) /\ P(m + 1) = IF m + 1 \in T THEN Append(P(m), m + 1) ELSE P(m)
    BY PlacesAppend
  <2>2. IsFiniteSet(C(m)) /\ Cardinality(C(m)) \in Nat
    <3>1. IsFiniteSet(1 .. m) /\ C(m) \subseteq 1 .. m
      BY FS_Interval
    <3> HIDE DEF C
    <3>2. QED
      BY <3>1, FS_Subset, FS_CardinalityType
  <2> HIDE DEF P
  <2>3. CASE m + 1 \in T
    <3>1. C(m + 1) = C(m) \cup {m + 1} /\ m + 1 \notin C(m)
      BY <2>3
    <3>2. Cardinality(C(m + 1)) = Cardinality(C(m)) + 1
      BY <2>2, <3>1, FS_AddElement
    <3>3. /\ Len(P(m)) \in Nat /\ Len(P(m + 1)) = Len(P(m)) + 1 /\ P(m + 1)[Len(P(m)) + 1] = m + 1
          /\ \A k \in 1 .. Len(P(m)) : P(m + 1)[k] = P(m)[k] /\ P(m)[k] \in C(m)
      <4>1. P(m) \in Seq(Int)
        <5>1. C(m) \subseteq Int
          OBVIOUS
        <5> HIDE DEF C
        <5>2. QED
          BY <2>1, <5>1, SeqMonotonic
      <4>2. P(m + 1) = Append(P(m), m + 1)
        BY <2>1, <2>3
      <4>3. \A k \in 1 .. Len(P(m)) : P(m)[k] \in C(m)
        <5> HIDE DEF C
        <5> QED
          BY <2>1, ElementOfSeq
      <4>4. QED
        BY <4>1, <4>2, <4>3, AppendProperties
    <3>4. Sized(m + 1)
      BY <2>0, <3>2, <3>3
    <3>5. Counted(m + 1)
      <4>1. Cardinality(C(m + 1)) = Len(P(m)) + 1
        BY <2>0, <3>2, <3>3
      <4> HIDE DEF C
      <4>2. \A k \in 1 .. Len(P(m)) : k = Cardinality(C(P(m)[k]))
        BY <2>0 DEF C
      <4>3. \A k \in 1 .. Len(P(m + 1)) : k = Cardinality(C(P(m + 1)[k]))
        BY <3>3, <4>1, <4>2
      <4>4. QED
        BY <4>3 DEF C
    <3>6. Increasing(m + 1)
      <4>1. \A k \in 1 .. Len(P(m)) : P(m)[k] \in 1 .. m
        BY <3>3
      <4>2. ASSUME NEW k \in 1 .. Len(P(m + 1)), NEW j \in 1 .. k - 1
            PROVE  P(m + 1)[j] < P(m + 1)[k]
        <5>1. CASE k = Len(P(m)) + 1
          <6>1. j \in 1 .. Len(P(m))
            BY <3>3, <5>1
          <6>2. P(m + 1)[j] = P(m)[j] /\ P(m)[j] \in 1 .. m /\ P(m + 1)[k] = m + 1
            BY <3>3, <4>1, <5>1, <6>1
          <6>3. QED
            BY <6>2
        <5>2. CASE k \in 1 .. Len(P(m))
          <6>1. j \in 1 .. Len(P(m))
            BY <3>3, <5>2
          <6>2. P(m)[j] < P(m)[k]
            BY <2>0, <5>2
          <6>3. QED
            BY <3>3, <5>2, <6>1, <6>2
        <5>3. QED
          BY <3>3, <5>1, <5>2
      <4>3. QED
        BY <4>2
    <3>7. Full(m + 1)
      <4>1. ASSUME NEW i \in C(m + 1)
            PROVE  \E k \in 1 .. Len(P(m + 1)) : P(m + 1)[k] = i
        <5>1. CASE i = m + 1
          <6>1. Len(P(m)) + 1 \in 1 .. Len(P(m + 1))
            BY <3>3
          <6>2. QED
            BY <3>3, <5>1, <6>1
        <5>2. CASE i \in C(m)
          <6>1. PICK k \in 1 .. Len(P(m)) : P(m)[k] = i
            BY <2>0, <5>2
          <6>2. k \in 1 .. Len(P(m + 1)) /\ P(m + 1)[k] = i
            BY <3>3, <6>1
          <6>3. QED
            BY <6>2
        <5>3. QED
          BY <3>1, <5>1, <5>2
      <4>2. QED
        BY <4>1
    <3> HIDE DEF Sized, Counted, Increasing, Full
    <3>8. QED
      BY <3>4, <3>5, <3>6, <3>7
  <2>4. CASE m + 1 \notin T
    <3>1. C(m + 1) = C(m)
      BY <2>4
    <3>2. P(m + 1) = P(m)
      BY <2>1, <2>4
    <3>3. Good(m + 1)
      BY <2>0, <3>1, <3>2
    <3> HIDE DEF Good
    <3>4. QED
      BY <3>3
  <2>5. QED
    BY <2>3, <2>4
<1>3. Good(n)
  <2> HIDE DEF Good
  <2>1. Nat \subseteq Q
    <3> HIDE DEF Q
    <3> QED
      BY <1>1, <1>2, SetInduction
  <2>2. QED
    BY <2>1
<1>4. QED
  BY <1>3, PlacesAppend DEF PlacesAre

\* A later place is a larger number.
LEMMA PlacesIncreasing ==
  ASSUME NEW T, NEW n \in Nat, NEW k \in 1 .. Len(Places(T, n)), NEW j \in 1 .. k - 1
  PROVE  Places(T, n)[j] < Places(T, n)[k]
BY PlacesProperties DEF PlacesAre

\* Every element of T up to n is one of its places.
LEMMA PlacesFull ==
  ASSUME NEW T, NEW n \in Nat, NEW i \in T \cap (1 .. n)
  PROVE  \E k \in 1 .. Len(Places(T, n)) : Places(T, n)[k] = i
<1>1. PlacesAre(T, n)
  BY PlacesProperties
<1>2. \A x \in T \cap (1 .. n) : \E k \in 1 .. Len(Places(T, n)) : Places(T, n)[k] = x
  BY ONLY <1>1 DEF PlacesAre
<1>3. QED
  BY <1>2

\* A flattened sequence of pieces of one element at most is those pieces that have one.
Chosen(s, T) == \A i \in 1 .. Len(s) : Len(s[i]) <= 1 /\ (i \in T <=> s[i] # <<>>)

LEMMA FlattenChosen ==
  ASSUME NEW S, NEW ss \in Seq(Seq(S)), NEW T, Chosen(ss, T)
  PROVE  /\ Len(FlattenSeq(ss)) = Len(Places(T, Len(ss)))
         /\ \A k \in 1 .. Len(FlattenSeq(ss)) :
              /\ Places(T, Len(ss))[k] \in T \cap (1 .. Len(ss))
              /\ FlattenSeq(ss)[k] = ss[Places(T, Len(ss))[k]][1]
<1> DEFINE n == Len(ss)
           tt == [i \in 1 .. n |-> IF i \in T THEN <<i>> ELSE <<>>]
<1>0. n \in Nat /\ \A i \in 1 .. n : ss[i] \in Seq(S)
  OBVIOUS
<1>1. tt \in Seq(Seq(Int)) /\ Len(tt) = n
  <2> HIDE DEF n
  <2> DEFINE E == Seq(Int)
  <2>1. \A i \in 1 .. n : (IF i \in T THEN <<i>> ELSE <<>>) \in E
    OBVIOUS
  <2> HIDE DEF E
  <2>2. tt \in Seq(E) /\ Len(tt) = n
    BY <1>0, <2>1
  <2>3. QED
    BY <2>2 DEF E
<1>2. \A i \in 1 .. n : tt[i] = IF i \in T THEN <<i>> ELSE <<>>
  OBVIOUS
<1>3. FlattenSeq(tt) = Places(T, n)
  BY DEF Places
<1>4. \A i \in 1 .. n : Len(ss[i]) = Len(tt[i])
  <2>1. ASSUME NEW i \in 1 .. n
        PROVE  Len(ss[i]) = IF i \in T THEN 1 ELSE 0
    <3>1. ss[i] \in Seq(S) /\ Len(ss[i]) <= 1 /\ (i \in T <=> ss[i] # <<>>)
      BY <1>0 DEF Chosen
    <3>2. QED
      BY <3>1
  <2>2. QED
    BY <1>2, <2>1
<1> HIDE DEF tt
<1>5. /\ Len(FlattenSeq(ss)) = Len(FlattenSeq(tt))
      /\ \A k \in 1 .. Len(FlattenSeq(ss)) :
           \E i \in 1 .. Len(ss) : \E j \in 1 .. Len(ss[i]) :
             FlattenSeq(ss)[k] = ss[i][j] /\ FlattenSeq(tt)[k] = tt[i][j]
  <2>1. Alike(ss, tt)
    BY <1>1, <1>4 DEF Alike
  <2>2. Aligned(ss, tt)
    BY <1>1, <2>1, FlattenAligned
  <2>3. QED
    BY <2>2 DEF Aligned
<1>6. ASSUME NEW k \in 1 .. Len(FlattenSeq(ss))
      PROVE  /\ Places(T, n)[k] \in T \cap (1 .. n)
             /\ FlattenSeq(ss)[k] = ss[Places(T, n)[k]][1]
  <2>1. PICK i \in 1 .. n : \E j \in 1 .. Len(ss[i]) :
               FlattenSeq(ss)[k] = ss[i][j] /\ FlattenSeq(tt)[k] = tt[i][j]
    BY <1>5
  <2>2. PICK j \in 1 .. Len(ss[i]) : FlattenSeq(ss)[k] = ss[i][j] /\ FlattenSeq(tt)[k] = tt[i][j]
    BY <2>1
  <2>3. ss[i] \in Seq(S) /\ Len(ss[i]) <= 1 /\ (i \in T <=> ss[i] # <<>>)
    BY <1>0 DEF Chosen
  <2>4. j = 1 /\ i \in T
    BY <2>3
  <2>5. FlattenSeq(tt)[k] = i
    <3>1. tt[i] = <<i>> /\ <<i>>[1] = i
      BY <1>2, <2>4
    <3>2. QED
      BY <2>2, <2>4, <3>1
  <2>6. QED
    BY <1>3, <2>2, <2>4, <2>5
<1>7. QED
  BY <1>3, <1>5, <1>6

-----------------------------------------------------------------------------
(* The pieces a function makes of the elements of a sequence, joined.      *)

\* Hidden in most proofs, for the provers' sake.
Maps(g, E, S) == g \in [E -> Seq(S)]

Mapped(g, s) == FlattenSeq([i \in 1 .. Len(s) |-> g[s[i]]])

\* What the elements contribute is a sequence of pieces.
LEMMA MappedPieces ==
  ASSUME NEW S, NEW E, NEW g, Maps(g, E, S), NEW s \in Seq(E)
  PROVE  /\ [i \in 1 .. Len(s) |-> g[s[i]]] \in Seq(Seq(S))
         /\ Len([i \in 1 .. Len(s) |-> g[s[i]]]) = Len(s)
<1> DEFINE n == Len(s)
           p == [i \in 1 .. n |-> g[s[i]]]
<1>1. n \in Nat /\ \A i \in 1 .. n : p[i] \in Seq(S)
  BY LenProperties, ElementOfSeq DEF Maps
<1>2. p = [i \in 1 .. n |-> p[i]]
  OBVIOUS
<1> HIDE DEF p, n
<1>3. p \in Seq(Seq(S)) /\ Len(p) = n
  BY <1>1, <1>2, PiecesType
<1>4. QED
  BY <1>3 DEF p, n

\* The pieces joined are over the values of the function.
LEMMA MappedType ==
  ASSUME NEW S, NEW E, NEW g, Maps(g, E, S), NEW s \in Seq(E)
  PROVE  Mapped(g, s) \in Seq(S)
<1> DEFINE p == [i \in 1 .. Len(s) |-> g[s[i]]]
<1>1. p \in Seq(Seq(S))
  BY MappedPieces
<1>2. Mapped(g, s) = FlattenSeq(p)
  BY DEF Mapped
<1> HIDE DEF p
<1>3. QED
  BY <1>1, <1>2, FlattenType

\* A sequence that is one and then another is their concatenation.
LEMMA PiecesConcat ==
  ASSUME NEW S, NEW p \in Seq(Seq(S)), NEW q \in Seq(Seq(S)), NEW r \in Seq(Seq(S)),
         Len(r) = Len(p) + Len(q),
         \A i \in 1 .. Len(p) + Len(q) : r[i] = IF i <= Len(p) THEN p[i] ELSE q[i - Len(p)]
  PROVE  r = p \o q
<1> DEFINE E == Seq(S)
<1> HIDE DEF E
<1>1. p \in Seq(E) /\ q \in Seq(E) /\ r \in Seq(E)
  BY DEF E
<1>2. /\ p \o q \in Seq(E) /\ Len(p \o q) = Len(p) + Len(q)
      /\ \A i \in 1 .. Len(p) + Len(q) : (p \o q)[i] = IF i <= Len(p) THEN p[i] ELSE q[i - Len(p)]
  BY <1>1, ConcatProperties
<1>3. QED
  BY <1>1, <1>2, SeqEqual

\* The pieces of a concatenation, joined.
LEMMA MappedConcat ==
  ASSUME NEW S, NEW E, NEW g, Maps(g, E, S), NEW s \in Seq(E), NEW t \in Seq(E)
  PROVE  Mapped(g, s \o t) = Mapped(g, s) \o Mapped(g, t)
<1>1. s \o t \in Seq(E) /\ Len(s \o t) = Len(s) + Len(t) /\ Len(s) \in Nat /\ Len(t) \in Nat
      /\ \A i \in 1 .. Len(s) + Len(t) : (s \o t)[i] = IF i <= Len(s) THEN s[i] ELSE t[i - Len(s)]
  BY ConcatProperties, LenProperties
<1> DEFINE p == [i \in 1 .. Len(s) |-> g[s[i]]]
           q == [i \in 1 .. Len(t) |-> g[t[i]]]
           r == [i \in 1 .. Len(s \o t) |-> g[(s \o t)[i]]]
<1>2. p \in Seq(Seq(S)) /\ Len(p) = Len(s)
  BY MappedPieces
<1>3. q \in Seq(Seq(S)) /\ Len(q) = Len(t)
  BY MappedPieces
<1>4. r \in Seq(Seq(S)) /\ Len(r) = Len(s) + Len(t)
  BY <1>1, MappedPieces
<1>5. \A i \in 1 .. Len(s) + Len(t) : r[i] = IF i <= Len(s) THEN p[i] ELSE q[i - Len(s)]
  BY <1>1
<1>6. Mapped(g, s) = FlattenSeq(p) /\ Mapped(g, t) = FlattenSeq(q)
      /\ Mapped(g, s \o t) = FlattenSeq(r)
  BY DEF Mapped
<1> HIDE DEF p, q, r
<1>7. r = p \o q
  <2>1. /\ Len(r) = Len(p) + Len(q)
        /\ \A i \in 1 .. Len(p) + Len(q) : r[i] = IF i <= Len(p) THEN p[i] ELSE q[i - Len(p)]
    BY <1>2, <1>3, <1>4, <1>5
  <2>2. QED
    BY <1>2, <1>3, <1>4, <2>1, PiecesConcat
<1>8. FlattenSeq(p \o q) = FlattenSeq(p) \o FlattenSeq(q)
  BY <1>2, <1>3, FlattenConcat
<1>9. QED
  BY <1>6, <1>7, <1>8

\* One piece joined is the piece.
LEMMA FlattenOfOne ==
  ASSUME NEW S, NEW x \in Seq(S)
  PROVE  FlattenSeq(<<x>>) = x
<1>1. <<>> \in Seq(Seq(S)) /\ Append(<<>>, x) = <<x>> /\ <<>> \o x = x
  BY ConcatEmptySeq
<1>2. FlattenSeq(Append(<<>>, x)) = FlattenSeq(<<>>) \o x
  BY <1>1, FlattenAppend
<1>3. QED
  BY <1>1, <1>2, FlattenOfEmpty

\* One element contributes its piece.
LEMMA MappedOne ==
  ASSUME NEW S, NEW E, NEW g, Maps(g, E, S), NEW e \in E
  PROVE  Mapped(g, <<e>>) = g[e]
<1>1. [i \in 1 .. Len(<<e>>) |-> g[<<e>>[i]]] = <<g[e]>>
  OBVIOUS
<1>2. g[e] \in Seq(S)
  BY DEF Maps
<1>3. QED
  BY <1>1, <1>2, FlattenOfOne DEF Mapped

\* No element, no piece.
LEMMA MappedOfEmpty ==
  ASSUME NEW g
  PROVE  Mapped(g, <<>>) = <<>>
<1>1. [i \in 1 .. Len(<<>>) |-> g[<<>>[i]]] = <<>>
  OBVIOUS
<1>2. QED
  BY <1>1, FlattenOfEmpty DEF Mapped

\* One more element adds its piece at the end.
LEMMA MappedAppend ==
  ASSUME NEW S, NEW E, NEW g, Maps(g, E, S), NEW s \in Seq(E), NEW e \in E
  PROVE  Mapped(g, Append(s, e)) = Mapped(g, s) \o g[e]
<1>1. Append(s, e) = s \o <<e>> /\ <<e>> \in Seq(E)
  BY AppendIsConcat
<1>2. Mapped(g, s \o <<e>>) = Mapped(g, s) \o Mapped(g, <<e>>)
  <2> DEFINE t == <<e>>
  <2>1. t \in Seq(E)
    BY <1>1
  <2> HIDE DEF t
  <2>2. Mapped(g, s \o t) = Mapped(g, s) \o Mapped(g, t)
    BY <2>1, MappedConcat
  <2>3. QED
    BY <2>2 DEF t
<1>3. Mapped(g, <<e>>) = g[e]
  BY MappedOne
<1>4. QED
  BY <1>1, <1>2, <1>3

\* Elements that contribute nothing.
LEMMA MappedNothing ==
  ASSUME NEW S, NEW E, NEW g, Maps(g, E, S), NEW s \in Seq(E),
         \A i \in 1 .. Len(s) : g[s[i]] = <<>>
  PROVE  Mapped(g, s) = <<>>
<1> DEFINE p == [i \in 1 .. Len(s) |-> g[s[i]]]
<1>1. p \in Seq(Seq(S)) /\ Len(p) = Len(s)
  BY MappedPieces
<1>2. \A i \in 1 .. Len(s) : p[i] = <<>>
  OBVIOUS
<1>3. Mapped(g, s) = FlattenSeq(p)
  BY DEF Mapped
<1> HIDE DEF p
<1>4. QED
  BY <1>1, <1>2, <1>3, FlattenEmpty

\* The pieces are single elements, those of u.
Singles(g, s, u) == Len(u) = Len(s) /\ \A i \in 1 .. Len(s) : g[s[i]] = <<u[i]>>

\* Elements that contribute one value each.
LEMMA MappedSingles ==
  ASSUME NEW S, NEW g, NEW s, NEW u \in Seq(S), Singles(g, s, u)
  PROVE  Mapped(g, s) = u
<1>1. DOMAIN u = 1 .. Len(s) /\ \A i \in 1 .. Len(s) : g[s[i]] = <<u[i]>>
  BY LenProperties DEF Singles
<1>2. [i \in 1 .. Len(s) |-> g[s[i]]] = [i \in DOMAIN u |-> <<u[i]>>]
  BY <1>1
<1>3. QED
  BY <1>2, FlattenSingles DEF Mapped

\* Sequences of no element and of one.
LEMMA ShortSequences ==
  ASSUME NEW S
  PROVE  <<>> \in Seq(S) /\ \A x \in S : <<x>> \in Seq(S)
OBVIOUS
=============================================================================
