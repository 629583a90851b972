----------------------------- MODULE WireProofs ------------------------------
(***************************************************************************)
(* Lemmas about encodings: induction on numbers and on sequences, what     *)
(* FlattenSeq computes, and how an input divides into what has been read   *)
(* of it and what has not.                                                 *)
(***************************************************************************)
EXTENDS Wire, SequenceTheorems, NaturalsInduction, WellFoundedInduction, TLAPS

\* Induction: a set with 0 and every successor has all numbers.
LEMMA SetInduction ==
  ASSUME NEW S \in SUBSET Nat, 0 \in S, \A n \in S : n + 1 \in S
  PROVE  S = Nat
<1> DEFINE Smaller == {ss \in Nat \X Nat : ss[1] < ss[2]}
           T == Nat \ S
<1>1. IsWellFoundedOn(Smaller, Nat)
  BY NatLessThanWellFounded DEF OpToRel
<1> HIDE DEF Smaller
<1>2. SUFFICES ASSUME T # {} PROVE FALSE
  OBVIOUS
<1>3. PICK x \in T : TRUE
  BY <1>2
<1>4. PICK n \in T : \A m \in T : ~(<<m, n>> \in Smaller)
  BY <1>1, <1>3, WFMin
<1>5. \A m \in T : ~(m < n)
  BY <1>4 DEF Smaller
<1>6. n # 0 /\ n \in Nat
  OBVIOUS
<1>7. n - 1 \in Nat /\ n - 1 < n
  BY <1>6
<1>8. n - 1 \in S
  BY <1>5, <1>7
<1> QED
  BY <1>6, <1>8

-----------------------------------------------------------------------------
(* FlattenSeq *)

\* g is the function that FlattenSeq chooses, on the first n sequences of ss.
IsFlat(ss, n, g) == g = [i \in 1..n |-> IF i = 1 THEN ss[i] ELSE g[i - 1] \o ss[i]]

Flat(ss, n) == CHOOSE g : IsFlat(ss, n, g)

\* It exists, which no definition by recursion promises by itself.
LEMMA FlatExists ==
  ASSUME NEW ss, NEW n \in Nat
  PROVE  IsFlat(ss, n, Flat(ss, n))
<1> DEFINE S == {k \in Nat : \E g : IsFlat(ss, k, g)}
<1>1. 0 \in S
  <2>1. IsFlat(ss, 0, [i \in {} |-> 0])
    BY DEF IsFlat
  <2> QED
    BY <2>1
<1>2. ASSUME NEW k \in S PROVE k + 1 \in S
  <2>1. PICK g : IsFlat(ss, k, g)
    OBVIOUS
  <2> DEFINE h == [i \in 1..(k + 1) |-> IF i <= k THEN g[i]
                                        ELSE IF i = 1 THEN ss[i] ELSE g[i - 1] \o ss[i]]
  <2>2. k \in Nat
    OBVIOUS
  <2>3. ASSUME NEW i \in 1..(k + 1)
        PROVE  h[i] = IF i = 1 THEN ss[i] ELSE h[i - 1] \o ss[i]
    <3>1. CASE i <= k
      <4>1. i \in 1..k /\ h[i] = g[i]
        BY <2>2, <3>1
      <4>2. g[i] = IF i = 1 THEN ss[i] ELSE g[i - 1] \o ss[i]
        BY <2>1, <4>1 DEF IsFlat
      <4>3. i # 1 => h[i - 1] = g[i - 1]
        BY <2>2, <3>1
      <4> QED
        BY <4>1, <4>2, <4>3
    <3>2. CASE i = k + 1
      BY <2>2, <3>2
    <3> QED
      BY <2>2, <3>1, <3>2
  <2>4. h = [i \in 1..(k + 1) |-> IF i = 1 THEN ss[i] ELSE h[i - 1] \o ss[i]]
    BY <2>3
  <2> HIDE DEF h
  <2>5. IsFlat(ss, k + 1, h)
    BY <2>4 DEF IsFlat
  <2> QED
    BY <2>2, <2>5
<1>3. S = Nat
  <2> HIDE DEF S
  <2>1. S \in SUBSET Nat
    BY DEF S
  <2> QED
    BY <1>1, <1>2, <2>1, SetInduction
<1>4. \E g : IsFlat(ss, n, g)
  BY <1>3
<1> QED
  BY <1>4 DEF Flat

\* What it is at each place.
LEMMA FlatSteps ==
  ASSUME NEW ss, NEW n \in Nat
  PROVE  /\ n > 0 => Flat(ss, n)[1] = ss[1]
         /\ \A i \in 1..(n - 1) : Flat(ss, n)[i + 1] = Flat(ss, n)[i] \o ss[i + 1]
<1>1. IsFlat(ss, n, Flat(ss, n))
  BY FlatExists
<1> DEFINE g == Flat(ss, n)
<1>2. g = [i \in 1..n |-> IF i = 1 THEN ss[i] ELSE g[i - 1] \o ss[i]]
  BY <1>1 DEF IsFlat
<1> HIDE DEF g
<1>3. ASSUME NEW i \in 1..n PROVE g[i] = IF i = 1 THEN ss[i] ELSE g[i - 1] \o ss[i]
  BY <1>2
<1>4. n > 0 => g[1] = ss[1]
  BY <1>3
<1>5. ASSUME NEW i \in 1..(n - 1) PROVE g[i + 1] = g[i] \o ss[i + 1]
  <2>1. i + 1 \in 1..n /\ i + 1 # 1 /\ (i + 1) - 1 = i
    OBVIOUS
  <2> QED
    BY <1>3, <2>1
<1> QED
  BY <1>4, <1>5 DEF g

\* FlattenSeq is the last value of that function.
LEMMA FlattenIsFlat ==
  ASSUME NEW ss, Len(ss) # 0
  PROVE  SX!FlattenSeq(ss) = Flat(ss, Len(ss))[Len(ss)]
  BY DEF SX!FlattenSeq, IsFlat, Flat

\* Two lists that agree up to k flatten alike up to k.
LEMMA FlatPrefix ==
  ASSUME NEW ss, NEW tt, NEW m \in Nat, NEW n \in Nat, NEW k \in Nat, k <= m, k <= n,
         \A i \in 1..k : ss[i] = tt[i]
  PROVE  \A i \in 1..k : Flat(ss, m)[i] = Flat(tt, n)[i]
<1> DEFINE S == {i \in Nat : i + 1 \in 1..k => Flat(ss, m)[i + 1] = Flat(tt, n)[i + 1]}
<1>1. 0 \in S
  <2>1. m > 0 => Flat(ss, m)[1] = ss[1]
    BY FlatSteps
  <2>2. n > 0 => Flat(tt, n)[1] = tt[1]
    BY FlatSteps
  <2> QED
    BY <2>1, <2>2
<1>2. ASSUME NEW i \in S PROVE i + 1 \in S
  <2>1. CASE (i + 1) + 1 \in 1..k
    <3> DEFINE j == i + 1
    <3>1. j \in 1..k /\ j \in 1..(m - 1) /\ j \in 1..(n - 1)
      BY <2>1
    <3>2. Flat(ss, m)[j] = Flat(tt, n)[j]
      BY <3>1
    <3> HIDE DEF j
    <3>3. Flat(ss, m)[j + 1] = Flat(ss, m)[j] \o ss[j + 1]
      BY <3>1, FlatSteps
    <3>4. Flat(tt, n)[j + 1] = Flat(tt, n)[j] \o tt[j + 1]
      BY <3>1, FlatSteps
    <3>5. ss[j + 1] = tt[j + 1]
      BY <2>1 DEF j
    <3>6. Flat(ss, m)[j + 1] = Flat(tt, n)[j + 1]
      BY <3>2, <3>3, <3>4, <3>5
    <3> QED
      BY <3>6 DEF j
  <2>2. CASE (i + 1) + 1 \notin 1..k
    BY <2>2
  <2> QED
    BY <2>1, <2>2
<1>3. S = Nat
  <2> HIDE DEF S
  <2>1. S \in SUBSET Nat
    BY DEF S
  <2> QED
    BY <1>1, <1>2, <2>1, SetInduction
<1>4. ASSUME NEW i \in 1..k PROVE Flat(ss, m)[i] = Flat(tt, n)[i]
  <2>1. i - 1 \in Nat /\ (i - 1) + 1 = i
    OBVIOUS
  <2>2. i - 1 \in S
    BY <1>3, <2>1
  <2>3. (i - 1) + 1 \in 1..k => Flat(ss, m)[(i - 1) + 1] = Flat(tt, n)[(i - 1) + 1]
    BY <2>2
  <2> QED
    BY <2>1, <2>3
<1> QED
  BY <1>4

\* Nothing gives nothing.
LEMMA FlattenEmpty == SX!FlattenSeq(<<>>) = <<>>
  BY DEF SX!FlattenSeq

\* One more at the end.
LEMMA FlatAppend ==
  ASSUME NEW ss, NEW tt, NEW n \in Nat, Len(ss) = n, Len(tt) = n + 1, n # 0,
         \A i \in 1..n : tt[i] = ss[i]
  PROVE  SX!FlattenSeq(tt) = SX!FlattenSeq(ss) \o tt[n + 1]
<1> DEFINE m == n + 1
<1>1. m \in Nat /\ n <= m /\ n <= n /\ n \in 1..(m - 1) /\ n \in 1..n
  OBVIOUS
<1>2. Len(tt) = m /\ m # 0
  OBVIOUS
<1> HIDE DEF m
<1>3. SX!FlattenSeq(tt) = Flat(tt, m)[m] /\ SX!FlattenSeq(ss) = Flat(ss, n)[n]
  BY <1>2, FlattenIsFlat
<1>4. \A i \in 1..n : Flat(ss, n)[i] = Flat(tt, m)[i]
  <2>1. n <= n /\ n <= m /\ m \in Nat
    BY <1>1
  <2>2. \A i \in 1..n : ss[i] = tt[i]
    OBVIOUS
  <2> HIDE DEF m
  <2> QED
    BY ONLY n \in Nat, <2>1, <2>2, FlatPrefix
<1>5. Flat(tt, m)[n + 1] = Flat(tt, m)[n] \o tt[n + 1]
  BY <1>1, FlatSteps
<1> QED
  BY <1>1, <1>3, <1>4, <1>5 DEF m

\* One more sequence is appended.
LEMMA FlattenAppend ==
  ASSUME NEW S, NEW ss \in Seq(Seq(S)), NEW x \in Seq(S)
  PROVE  SX!FlattenSeq(Append(ss, x)) = SX!FlattenSeq(ss) \o x
<1> DEFINE tt == Append(ss, x)
           n == Len(ss)
<1>1. n \in Nat /\ Len(tt) = n + 1 /\ tt[n + 1] = x /\ \A i \in 1..n : tt[i] = ss[i]
  OBVIOUS
<1>2. n = 0 => ss = <<>>
  OBVIOUS
<1>3. Len(ss) = n
  OBVIOUS
<1> HIDE DEF n, tt
<1>4. CASE n = 0
  <2>1. SX!FlattenSeq(ss) = <<>>
    BY <1>2, <1>4, FlattenEmpty
  <2>2. Flat(tt, 1)[1] = tt[1]
    <3>1. 1 \in Nat /\ 1 > 0
      OBVIOUS
    <3> QED
      BY <3>1, FlatSteps
  <2>3. n + 1 = 1
    BY <1>4
  <2>4. SX!FlattenSeq(tt) = Flat(tt, 1)[1]
    <3>1. Len(tt) = 1 /\ Len(tt) # 0
      BY <1>1, <2>3
    <3> QED
      BY <3>1, FlattenIsFlat
  <2>5. <<>> \o x = x
    OBVIOUS
  <2> QED
    BY <1>1, <2>1, <2>2, <2>3, <2>4, <2>5 DEF tt
<1>5. CASE n # 0
  <2>1. SX!FlattenSeq(tt) = SX!FlattenSeq(ss) \o tt[n + 1]
    BY <1>1, <1>3, <1>5, FlatAppend
  <2> QED
    BY <1>1, <2>1 DEF tt
<1> QED
  BY <1>4, <1>5

\* Sequences.
LEMMA Associative ==
  ASSUME NEW S, NEW a \in Seq(S), NEW b \in Seq(S), NEW c \in Seq(S)
  PROVE  (a \o b) \o c = a \o (b \o c)
  BY SMTT(30)

\* Concatenation of cells is associative.
LEMMA CellsAssociative ==
  \A a, b, c \in Seq(Nat) : (a \o b) \o c = a \o (b \o c)
BY Associative, SMTT(20)

\* A nonempty sequence is its front and its last element.
LEMMA FrontAndLast ==
  ASSUME NEW S, NEW n \in Nat, NEW q \in Seq(S), Len(q) = n + 1
  PROVE  /\ SubSeq(q, 1, n) \in Seq(S) /\ Len(SubSeq(q, 1, n)) = n /\ q[n + 1] \in S
         /\ q = Append(SubSeq(q, 1, n), q[n + 1])
<1> DEFINE r == SubSeq(q, 1, n)
<1>1. r \in Seq(S) /\ Len(r) = n /\ q[n + 1] \in S
  OBVIOUS
<1>2. \A i \in 1..n : r[i] = q[i]
  OBVIOUS
<1> HIDE DEF r
<1>3. Append(r, q[n + 1]) \in Seq(S) /\ Len(Append(r, q[n + 1])) = n + 1
  BY <1>1
<1>4. ASSUME NEW i \in 1..(n + 1) PROVE Append(r, q[n + 1])[i] = q[i]
  <2>1. CASE i \in 1..n
    BY <1>1, <1>2, <2>1
  <2>2. CASE i = n + 1
    <3> DEFINE v == q[n + 1]
    <3>1. v \in S
      BY <1>1
    <3> HIDE DEF v
    <3>2. Append(r, v)[n + 1] = v
      BY <1>1, <3>1
    <3> QED
      BY <2>2, <3>2 DEF v
  <2>3. i \in 1..n \/ i = n + 1
    OBVIOUS
  <2> QED
    BY <2>1, <2>2, <2>3
<1>5. q = Append(r, q[n + 1])
  BY <1>3, <1>4, SeqEqual
<1> QED
  BY <1>1, <1>5 DEF r

\* A sequence is another with one element more.
LEMMA AppendIs ==
  ASSUME NEW S, NEW a \in Seq(S), NEW b \in Seq(S), NEW x \in S, Len(a) = Len(b) + 1,
         \A n \in 1..Len(b) : a[n] = b[n], a[Len(b) + 1] = x
  PROVE  a = Append(b, x)
<1>1. Append(b, x) \in Seq(S) /\ Len(Append(b, x)) = Len(b) + 1
  OBVIOUS
<1>2. ASSUME NEW n \in 1..(Len(b) + 1) PROVE a[n] = Append(b, x)[n]
  <2>1. CASE n \in 1..Len(b)
    BY <2>1
  <2>2. CASE n = Len(b) + 1
    BY <2>2
  <2>3. n \in 1..Len(b) \/ n = Len(b) + 1
    OBVIOUS
  <2> QED
    BY <2>1, <2>2, <2>3
<1> QED
  BY <1>1, <1>2, SeqEqual

-----------------------------------------------------------------------------
(* Induction on sequences: what holds of the empty one and is kept by one  *)
(* more element at the end holds of all.                                   *)
LEMMA SeqInduction ==
  ASSUME NEW S, NEW T \in SUBSET Seq(S), <<>> \in T,
         \A q \in T : \A x \in S : Append(q, x) \in T
  PROVE  T = Seq(S)
<1> DEFINE K == {n \in Nat : \A q \in Seq(S) : Len(q) = n => q \in T}
<1>1. 0 \in K
  OBVIOUS
<1>2. ASSUME NEW n \in K PROVE n + 1 \in K
  <2>1. SUFFICES ASSUME NEW q \in Seq(S), Len(q) = n + 1 PROVE q \in T
    OBVIOUS
  <2> DEFINE r == SubSeq(q, 1, n)
  <2>2. r \in Seq(S) /\ Len(r) = n /\ q[n + 1] \in S /\ q = Append(r, q[n + 1])
    BY <2>1, FrontAndLast
  <2>3. r \in T
    BY <2>2
  <2> QED
    BY <2>2, <2>3
<1>3. K = Nat
  <2> HIDE DEF K
  <2>1. K \in SUBSET Nat
    BY DEF K
  <2> QED
    BY <1>1, <1>2, <2>1, SetInduction
<1>4. ASSUME NEW q \in Seq(S) PROVE q \in T
  <2>1. Len(q) \in K
    BY <1>3
  <2> QED
    BY <2>1
<1> QED
  BY <1>4

\* A sequence of the same elements.
LEMMA FlattenType ==
  ASSUME NEW S, NEW ss \in Seq(Seq(S))
  PROVE  SX!FlattenSeq(ss) \in Seq(S)
<1> DEFINE T == {q \in Seq(Seq(S)) : SX!FlattenSeq(q) \in Seq(S)}
<1>1. <<>> \in T
  <2>1. <<>> \in Seq(Seq(S)) /\ <<>> \in Seq(S)
    OBVIOUS
  <2> QED
    BY <2>1, FlattenEmpty
<1>2. ASSUME NEW q \in T, NEW x \in Seq(S) PROVE Append(q, x) \in T
  <2>1. Append(q, x) \in Seq(Seq(S))
    OBVIOUS
  <2>2. SX!FlattenSeq(Append(q, x)) = SX!FlattenSeq(q) \o x
    BY FlattenAppend
  <2>3. SX!FlattenSeq(q) \o x \in Seq(S)
    OBVIOUS
  <2> QED
    BY <2>1, <2>2, <2>3
<1> HIDE DEF T
<1>3. T \in SUBSET Seq(Seq(S))
  BY DEF T
<1>4. T = Seq(Seq(S))
  BY <1>1, <1>2, <1>3, SeqInduction
<1> QED
  BY <1>4 DEF T

\* The first one and the rest.
LEMMA FlattenCons ==
  ASSUME NEW S, NEW ss \in Seq(Seq(S)), ss # <<>>
  PROVE  SX!FlattenSeq(ss) = Head(ss) \o SX!FlattenSeq(Tail(ss))
<1> DEFINE T == {q \in Seq(Seq(S)) :
                   q # <<>> => SX!FlattenSeq(q) = Head(q) \o SX!FlattenSeq(Tail(q))}
<1>1. <<>> \in T
  OBVIOUS
<1>2. ASSUME NEW q \in T, NEW x \in Seq(S) PROVE Append(q, x) \in T
  <2>1. Append(q, x) \in Seq(Seq(S)) /\ q \in Seq(Seq(S))
    OBVIOUS
  <2>2. SX!FlattenSeq(Append(q, x)) = SX!FlattenSeq(q) \o x
    BY <2>1, FlattenAppend
  <2>3. CASE q = <<>>
    <3>1. SX!FlattenSeq(Append(q, x)) = x
      BY <2>2, <2>3, FlattenEmpty
    <3>2. Head(Append(q, x)) = x /\ Tail(Append(q, x)) = <<>>
      BY <2>3
    <3>3. x \o <<>> = x
      OBVIOUS
    <3> QED
      BY <2>1, <3>1, <3>2, <3>3, FlattenEmpty
  <2>4. CASE q # <<>>
    <3>1. Head(q) \in Seq(S) /\ Tail(q) \in Seq(Seq(S))
      BY <2>1, <2>4
    <3>2. Head(Append(q, x)) = Head(q) /\ Tail(Append(q, x)) = Append(Tail(q), x)
      BY <2>1, <2>4, SMTT(20)
    <3>3. SX!FlattenSeq(Append(Tail(q), x)) = SX!FlattenSeq(Tail(q)) \o x
      BY <3>1, FlattenAppend
    <3>4. SX!FlattenSeq(Tail(q)) \in Seq(S)
      BY <3>1, FlattenType
    <3>6. (Head(q) \o SX!FlattenSeq(Tail(q))) \o x = Head(q) \o (SX!FlattenSeq(Tail(q)) \o x)
      <4> DEFINE a == Head(q)
                 b == SX!FlattenSeq(Tail(q))
      <4>1. a \in Seq(S) /\ b \in Seq(S)
        BY <3>1, <3>4
      <4> HIDE DEF a, b
      <4>2. (a \o b) \o x = a \o (b \o x)
        BY ONLY <4>1, x \in Seq(S), SMTT(20)
      <4> QED
        BY <4>2 DEF a, b
    <3> QED
      BY <2>1, <2>2, <2>4, <3>2, <3>3, <3>6
  <2> QED
    BY <2>3, <2>4
<1> HIDE DEF T
<1>3. T \in SUBSET Seq(Seq(S))
  BY DEF T
<1>4. T = Seq(Seq(S))
  BY <1>1, <1>2, <1>3, SeqInduction
<1> QED
  BY <1>4 DEF T

\* Sequences of at least k elements each.
LEMMA FlattenLen ==
  ASSUME NEW S, NEW ss \in Seq(Seq(S)), NEW k \in Nat,
         \A i \in 1..Len(ss) : Len(ss[i]) >= k
  PROVE  Len(SX!FlattenSeq(ss)) >= Len(ss) * k
<1> DEFINE T == {q \in Seq(Seq(S)) : (\A i \in 1..Len(q) : Len(q[i]) >= k)
                                       => Len(SX!FlattenSeq(q)) >= Len(q) * k}
<1>1. <<>> \in T
  <2>1. 0 * k = 0 /\ Len(SX!FlattenSeq(<<>>)) = 0
    BY FlattenEmpty
  <2> QED
    BY <2>1
<1>2. ASSUME NEW q \in T, NEW x \in Seq(S) PROVE Append(q, x) \in T
  <2>1. Append(q, x) \in Seq(Seq(S)) /\ q \in Seq(Seq(S))
    OBVIOUS
  <2>2. SX!FlattenSeq(Append(q, x)) = SX!FlattenSeq(q) \o x
    BY <2>1, FlattenAppend
  <2>3. SX!FlattenSeq(q) \in Seq(S)
    BY <2>1, FlattenType
  <2>4. Len(SX!FlattenSeq(Append(q, x))) = Len(SX!FlattenSeq(q)) + Len(x)
    BY <2>2, <2>3
  <2>5. SUFFICES ASSUME \A i \in 1..Len(Append(q, x)) : Len(Append(q, x)[i]) >= k
                 PROVE  Len(SX!FlattenSeq(Append(q, x))) >= Len(Append(q, x)) * k
    BY <2>1
  <2>6. \A i \in 1..Len(q) : Len(q[i]) >= k
    <3>1. ASSUME NEW i \in 1..Len(q) PROVE Len(q[i]) >= k
      <4>1. i \in 1..Len(Append(q, x)) /\ Append(q, x)[i] = q[i]
        BY <2>1
      <4> QED
        BY <2>5, <4>1
    <3> QED
      BY <3>1
  <2>7. Len(SX!FlattenSeq(q)) >= Len(q) * k
    BY <2>6
  <2>8. Len(x) >= k
    <3>1. Len(q) + 1 \in 1..Len(Append(q, x)) /\ Append(q, x)[Len(q) + 1] = x
      BY <2>1
    <3> QED
      BY <2>5, <3>1
  <2>9. Len(Append(q, x)) = Len(q) + 1
    BY <2>1
  <2>10. Len(q) \in Nat /\ Len(x) \in Nat /\ Len(SX!FlattenSeq(q)) \in Nat
    BY <2>1, <2>3
  <2>11. \A n \in Nat : (n + 1) * k = n * k + k /\ n * k \in Nat
    OBVIOUS
  <2> QED
    BY <2>4, <2>7, <2>8, <2>9, <2>10, <2>11
<1> HIDE DEF T
<1>3. T \in SUBSET Seq(Seq(S))
  BY DEF T
<1>4. T = Seq(Seq(S))
  BY <1>1, <1>2, <1>3, SeqInduction
<1> QED
  BY <1>4 DEF T

-----------------------------------------------------------------------------
(* Inputs *)

\* The first n cells and the others.
LEMMA Split ==
  ASSUME NEW S, NEW s \in Seq(S), NEW n \in 0..Len(s)
  PROVE  /\ SubSeq(s, 1, n) \in Seq(S) /\ Len(SubSeq(s, 1, n)) = n
         /\ SubSeq(s, n + 1, Len(s)) \in Seq(S) /\ Len(SubSeq(s, n + 1, Len(s))) = Len(s) - n
         /\ s = SubSeq(s, 1, n) \o SubSeq(s, n + 1, Len(s))
<1> DEFINE a == SubSeq(s, 1, n)
           b == SubSeq(s, n + 1, Len(s))
<1>1. /\ a \in Seq(S) /\ Len(a) = n
      /\ b \in Seq(S) /\ Len(b) = Len(s) - n
  OBVIOUS
<1>2. \A i \in 1..n : a[i] = s[i]
  OBVIOUS
<1>3. \A i \in 1..(Len(s) - n) : b[i] = s[n + i]
  OBVIOUS
<1> HIDE DEF a, b
<1>4. a \o b \in Seq(S) /\ Len(a \o b) = Len(s)
  BY <1>1
<1>5. ASSUME NEW i \in 1..Len(s) PROVE (a \o b)[i] = s[i]
  <2>1. CASE i <= n
    BY <1>1, <1>2, <2>1
  <2>2. CASE i > n
    <3>1. (a \o b)[i] = b[i - n]
      BY <1>1, <2>2
    <3>2. i - n \in 1..(Len(s) - n) /\ n + (i - n) = i
      BY <2>2
    <3> QED
      BY <1>3, <3>1, <3>2
  <2>3. i <= n \/ i > n
    OBVIOUS
  <2> QED
    BY <2>1, <2>2, <2>3
<1>6. s = a \o b
  BY <1>4, <1>5, SeqEqual
<1> QED
  BY <1>1, <1>6 DEF a, b

\* n cells more are read.
LEMMA Consume ==
  ASSUME NEW S, NEW a \in Seq(S), NEW s \in Seq(S), NEW n \in 0..Len(s)
  PROVE  /\ SubSeq(s, 1, n) \in Seq(S) /\ SubSeq(s, n + 1, Len(s)) \in Seq(S)
         /\ a \o s = (a \o SubSeq(s, 1, n)) \o SubSeq(s, n + 1, Len(s))
<1> DEFINE x == SubSeq(s, 1, n)
           y == SubSeq(s, n + 1, Len(s))
<1>1. x \in Seq(S) /\ y \in Seq(S) /\ s = x \o y
  BY Split
<1> HIDE DEF x, y
<1>2. (a \o x) \o y = a \o (x \o y)
  BY ONLY a \in Seq(S), <1>1
<1> QED
  BY <1>1, <1>2 DEF x, y

\* The same for all lists of cells.
LEMMA CellsConsume ==
  \A a, s \in Seq(Nat) : \A n \in 0..Len(s) :
      /\ SubSeq(s, 1, n) \in Seq(Nat) /\ SubSeq(s, n + 1, Len(s)) \in Seq(Nat)
      /\ a \o s = (a \o SubSeq(s, 1, n)) \o SubSeq(s, n + 1, Len(s))
<1>1. ASSUME NEW a \in Seq(Nat), NEW s \in Seq(Nat), NEW n \in 0..Len(s)
      PROVE  /\ SubSeq(s, 1, n) \in Seq(Nat) /\ SubSeq(s, n + 1, Len(s)) \in Seq(Nat)
             /\ a \o s = (a \o SubSeq(s, 1, n)) \o SubSeq(s, n + 1, Len(s))
  BY Consume, ZenonT(30)
<1> QED
  BY <1>1, Zenon

\* What follows a known beginning.
LEMMA AfterConcat ==
  ASSUME NEW S, NEW a \in Seq(S), NEW b \in Seq(S)
  PROVE  /\ a \o b \in Seq(S) /\ Len(a \o b) = Len(a) + Len(b)
         /\ SubSeq(a \o b, 1, Len(a)) = a
         /\ SubSeq(a \o b, Len(a) + 1, Len(a \o b)) = b
         /\ \A i \in 1..Len(a) : (a \o b)[i] = a[i]
<1>1. a \o b \in Seq(S) /\ Len(a \o b) = Len(a) + Len(b)
  OBVIOUS
<1>2. \A i \in 1..Len(a) : (a \o b)[i] = a[i]
  OBVIOUS
<1>3. \A i \in 1..Len(b) : (a \o b)[Len(a) + i] = b[i]
  OBVIOUS
<1> DEFINE c == a \o b
<1>4. c \in Seq(S) /\ Len(c) = Len(a) + Len(b)
  BY <1>1
<1>5. (\A i \in 1..Len(a) : c[i] = a[i]) /\ (\A i \in 1..Len(b) : c[Len(a) + i] = b[i])
  BY <1>2, <1>3
<1> HIDE DEF c
<1>6. SubSeq(c, 1, Len(a)) = a
  <2>1. SubSeq(c, 1, Len(a)) \in Seq(S) /\ Len(SubSeq(c, 1, Len(a))) = Len(a)
    BY <1>4
  <2>2. \A i \in 1..Len(a) : SubSeq(c, 1, Len(a))[i] = a[i]
    BY <1>4, <1>5
  <2> QED
    BY <2>1, <2>2, SeqEqual
<1>7. SubSeq(c, Len(a) + 1, Len(c)) = b
  <2>1. /\ SubSeq(c, Len(a) + 1, Len(c)) \in Seq(S)
        /\ Len(SubSeq(c, Len(a) + 1, Len(c))) = Len(b)
    BY <1>4
  <2>2. ASSUME NEW i \in 1..Len(b) PROVE SubSeq(c, Len(a) + 1, Len(c))[i] = b[i]
    <3>1. SubSeq(c, Len(a) + 1, Len(c))[i] = c[Len(a) + i]
      BY <1>4
    <3> QED
      BY <1>5, <3>1
  <2> QED
    BY <2>1, <2>2, SeqEqual
<1> QED
  BY <1>1, <1>2, <1>6, <1>7 DEF c

\* A loop has read the items ss, of k that its count announces.
Begun(k, ss) == <<k>> \o SX!FlattenSeq(ss)

\* One more item of a list whose count has been read.
LEMMA BegunAppend ==
  ASSUME NEW a \in Seq(Nat), NEW k \in Nat, NEW ss \in Seq(Seq(Nat)), NEW x \in Seq(Nat)
  PROVE  /\ Begun(k, ss) \in Seq(Nat)
         /\ (a \o Begun(k, ss)) \o x = a \o Begun(k, Append(ss, x))
<1> DEFINE f == SX!FlattenSeq(ss)
           h == <<k>>
<1>1. f \in Seq(Nat)
  BY FlattenType
<1>2. h \in Seq(Nat)
  OBVIOUS
<1>3. SX!FlattenSeq(Append(ss, x)) = f \o x
  BY FlattenAppend
<1> HIDE DEF f, h
<1> DEFINE g == h \o f
<1>4. g \in Seq(Nat)
  BY <1>1, <1>2
<1>5. g \o x = h \o (f \o x)
  BY ONLY <1>1, <1>2, x \in Seq(Nat), CellsAssociative, ZenonT(30)
<1> HIDE DEF g
<1>6. (a \o g) \o x = a \o (g \o x)
  BY ONLY <1>4, a \in Seq(Nat), x \in Seq(Nat), CellsAssociative, ZenonT(30)
<1> QED
  BY <1>3, <1>4, <1>5, <1>6 DEF Begun, f, h, g

\* It begins with none.
LEMMA BegunEmpty ==
  ASSUME NEW k
  PROVE  Begun(k, <<>>) = <<k>>
<1>1. <<k>> \o <<>> = <<k>>
  OBVIOUS
<1> QED
  BY <1>1, FlattenEmpty DEF Begun

-----------------------------------------------------------------------------
(* What is ahead of a reader *)

\* The next item of a loop and what follows it.
LEMMA ItemAhead ==
  ASSUME NEW ss \in Seq(Seq(Nat)), ss # <<>>, NEW t \in Seq(Nat),
         NEW x, x = SX!FlattenSeq(ss) \o t
  PROVE  /\ x \in Seq(Nat) /\ Len(x) >= Len(Head(ss))
         /\ \A i \in 1..Len(Head(ss)) : x[i] = Head(ss)[i]
         /\ SubSeq(x, 1, Len(Head(ss))) = Head(ss)
         /\ SubSeq(x, Len(Head(ss)) + 1, Len(x)) = SX!FlattenSeq(Tail(ss)) \o t
<1> DEFINE h == Head(ss)
           f == SX!FlattenSeq(Tail(ss))
           u == f \o t
<1>1. h \in Seq(Nat) /\ Tail(ss) \in Seq(Seq(Nat))
  OBVIOUS
<1>2. f \in Seq(Nat)
  BY <1>1, FlattenType
<1>3. SX!FlattenSeq(ss) = h \o f
  BY FlattenCons
<1> HIDE DEF h, f
<1>4. (h \o f) \o t = h \o (f \o t)
  <2>1. h \in Seq(Nat)
    BY <1>1
  <2> QED
    BY ONLY <2>1, <1>2, t \in Seq(Nat)
<1>5. u \in Seq(Nat)
  BY <1>2
<1>6. x = h \o u
  BY <1>3, <1>4
<1> HIDE DEF u
<1>7. /\ h \o u \in Seq(Nat) /\ Len(h \o u) = Len(h) + Len(u)
      /\ SubSeq(h \o u, 1, Len(h)) = h
      /\ SubSeq(h \o u, Len(h) + 1, Len(h \o u)) = u
      /\ \A i \in 1..Len(h) : (h \o u)[i] = h[i]
  BY <1>1, <1>5, AfterConcat
<1>8. Len(h) \in Nat /\ Len(u) \in Nat
  BY <1>1, <1>5
<1>9. Len(h) + Len(u) >= Len(h)
  BY <1>8
<1>10. /\ x \in Seq(Nat) /\ Len(x) >= Len(h) /\ SubSeq(x, 1, Len(h)) = h
       /\ SubSeq(x, Len(h) + 1, Len(x)) = u
       /\ \A i \in 1..Len(h) : x[i] = h[i]
  BY ONLY <1>6, <1>7, <1>9
<1> QED
  BY ONLY <1>10 DEF h, u, f

\* A count, and items of at least k cells each.
LEMMA CountAhead ==
  ASSUME NEW ss \in Seq(Seq(Nat)), NEW t \in Seq(Nat), NEW x,
         x = (<<Len(ss)>> \o SX!FlattenSeq(ss)) \o t
  PROVE  /\ x \in Seq(Nat) /\ Len(x) >= 1 /\ x[1] = Len(ss)
         /\ SubSeq(x, 1 + 1, Len(x)) = SX!FlattenSeq(ss) \o t
         /\ \A k \in Nat : (\A i \in 1..Len(ss) : Len(ss[i]) >= k) => x[1] * k <= Len(x) - 1
<1> DEFINE h == <<Len(ss)>>
           f == SX!FlattenSeq(ss)
           u == f \o t
<1>1. h \in Seq(Nat) /\ Len(h) = 1 /\ h[1] = Len(ss)
  OBVIOUS
<1>2. f \in Seq(Nat)
  BY FlattenType
<1> HIDE DEF h, f
<1>3. (h \o f) \o t = h \o (f \o t)
  <2>1. h \in Seq(Nat)
    BY <1>1
  <2> QED
    BY ONLY <2>1, <1>2, t \in Seq(Nat)
<1>4. u \in Seq(Nat) /\ Len(u) = Len(f) + Len(t)
  BY <1>2, AfterConcat
<1>5. x = h \o u
  BY <1>3 DEF h, f
<1> HIDE DEF u
<1>6. /\ h \o u \in Seq(Nat) /\ Len(h \o u) = Len(h) + Len(u)
      /\ SubSeq(h \o u, Len(h) + 1, Len(h \o u)) = u
      /\ \A i \in 1..Len(h) : (h \o u)[i] = h[i]
  <2>1. h \in Seq(Nat) /\ u \in Seq(Nat)
    BY <1>1, <1>4
  <2> QED
    BY ONLY <2>1, AfterConcat
<1>7. Len(f) \in Nat /\ Len(t) \in Nat
  BY <1>2
<1>8. /\ x \in Seq(Nat) /\ Len(x) >= 1 /\ x[1] = Len(ss) /\ Len(x) - 1 = Len(f) + Len(t)
      /\ SubSeq(x, 1 + 1, Len(x)) = u
  <2>1. x \in Seq(Nat) /\ Len(x) = 1 + (Len(f) + Len(t)) /\ SubSeq(x, 1 + 1, Len(x)) = u
    BY ONLY <1>1, <1>4, <1>5, <1>6
  <2>2. x[1] = Len(ss)
    BY ONLY <1>1, <1>5, <1>6
  <2> QED
    BY ONLY <1>7, <2>1, <2>2
<1>9. ASSUME NEW k \in Nat, \A i \in 1..Len(ss) : Len(ss[i]) >= k
      PROVE  x[1] * k <= Len(x) - 1
  <2>1. Len(f) >= Len(ss) * k
    BY <1>9, FlattenLen DEF f
  <2>2. Len(ss) * k \in Nat
    OBVIOUS
  <2> QED
    BY <1>7, <1>8, <2>1, <2>2
<1> QED
  BY <1>8, <1>9 DEF u, f

\* An element passes from the rest of a sequence to its beginning.
LEMMA MoveHead ==
  ASSUME NEW S, NEW a \in Seq(S), NEW r \in Seq(S), r # <<>>
  PROVE  /\ Head(r) \in S /\ Tail(r) \in Seq(S) /\ Len(Tail(r)) = Len(r) - 1 /\ Len(r) > 0
         /\ a \o r = Append(a, Head(r)) \o Tail(r)
<1> DEFINE h == Head(r)
           u == Tail(r)
           b == Append(a, h)
<1>1. h \in S /\ u \in Seq(S) /\ Len(u) = Len(r) - 1 /\ Len(r) \in Nat \ {0} /\ r[1] = h
      /\ \A i \in 1..(Len(r) - 1) : u[i] = r[i + 1]
  OBVIOUS
<1> HIDE DEF h, u
<1>2. b \in Seq(S) /\ Len(b) = Len(a) + 1 /\ b[Len(a) + 1] = h /\ \A i \in 1..Len(a) : b[i] = a[i]
  BY <1>1
<1> HIDE DEF b
<1>3. a \o r \in Seq(S) /\ Len(a \o r) = Len(a) + Len(r)
  OBVIOUS
<1>4. b \o u \in Seq(S) /\ Len(b \o u) = Len(b) + Len(u)
  <2>1. b \in Seq(S) /\ u \in Seq(S)
    BY <1>1, <1>2
  <2> QED
    BY ONLY <2>1
<1>5. Len(a) \in Nat /\ Len(r) \in Nat /\ Len(b) + Len(u) = Len(a) + Len(r)
  BY <1>1, <1>2
<1>6. ASSUME NEW i \in 1..(Len(a) + Len(r)) PROVE (a \o r)[i] = (b \o u)[i]
  <2>1. CASE i <= Len(a)
    <3>1. (a \o r)[i] = a[i] /\ (b \o u)[i] = b[i]
      BY <1>1, <1>2, <2>1
    <3> QED
      BY <1>2, <1>5, <2>1, <3>1
  <2>2. CASE i = Len(a) + 1
    <3>1. (a \o r)[i] = r[1] /\ (b \o u)[i] = b[i]
      BY <1>1, <1>2, <1>5, <2>2
    <3> QED
      BY <1>1, <1>2, <2>2, <3>1
  <2>3. CASE i > Len(a) + 1
    <3> DEFINE j == i - (Len(a) + 1)
    <3>1. j \in 1..(Len(r) - 1) /\ i = Len(b) + j /\ i = Len(a) + (j + 1) /\ j + 1 \in 1..Len(r)
          /\ j \in 1..Len(u)
      BY <1>1, <1>2, <1>5, <2>3
    <3> HIDE DEF j
    <3>2. (a \o r)[Len(a) + (j + 1)] = r[j + 1]
      BY <1>5, <3>1
    <3>3. (b \o u)[Len(b) + j] = u[j]
      BY <1>1, <1>2, <3>1
    <3> QED
      BY <1>1, <3>1, <3>2, <3>3
  <2>4. i <= Len(a) \/ i = Len(a) + 1 \/ i > Len(a) + 1
    BY <1>5
  <2> QED
    BY <2>1, <2>2, <2>3, <2>4
<1>7. a \o r = b \o u
  BY <1>3, <1>4, <1>5, <1>6, SeqEqual
<1> QED
  BY <1>1, <1>7 DEF h, u, b

\* The elements of a concatenation.
LEMMA ConcatElements ==
  ASSUME NEW S, NEW a \in Seq(S), NEW r \in Seq(S)
  PROVE  /\ Len(a \o r) = Len(a) + Len(r)
         /\ \A i \in 1..Len(a) : (a \o r)[i] = a[i] /\ i \in 1..Len(a \o r)
         /\ \A i \in 1..Len(r) : (a \o r)[Len(a) + i] = r[i] /\ Len(a) + i \in 1..Len(a \o r)
  OBVIOUS

\* A length and what it counts.
LEMMA PrefixedType ==
  ASSUME NEW x \in Seq(Nat)
  PROVE  Prefixed(x) \in Seq(Nat) /\ Len(Prefixed(x)) = 1 + Len(x) /\ Prefixed(x)[1] = Len(x)
<1>1. Len(x) \in Nat
  OBVIOUS
<1>2. <<Len(x)>> \in Seq(Nat) /\ Len(<<Len(x)>>) = 1
  BY <1>1
<1> QED
  BY <1>2 DEF Prefixed

\* It tells what it counts.
LEMMA PrefixedInjective ==
  ASSUME NEW x \in Seq(Nat), NEW y \in Seq(Nat), Prefixed(x) = Prefixed(y)
  PROVE  x = y
<1>1. ASSUME NEW z \in Seq(Nat) PROVE SubSeq(Prefixed(z), 2, Len(Prefixed(z))) = z
  <2> DEFINE h == <<Len(z)>>
  <2>1. h \in Seq(Nat) /\ Len(h) = 1 /\ Prefixed(z) = h \o z
    BY DEF Prefixed
  <2> HIDE DEF h
  <2>2. SubSeq(h \o z, Len(h) + 1, Len(h \o z)) = z
    <3>1. h \in Seq(Nat) /\ z \in Seq(Nat)
      BY <2>1
    <3> QED
      BY ONLY <3>1, AfterConcat
  <2> QED
    BY ONLY <2>1, <2>2
<1> QED
  BY <1>1

\* A sequence with its length before it can be taken from x.
LEMMA SeqTaken ==
  ASSUME NEW x \in Seq(Nat), Len(x) >= 1, Len(x) >= 1 + x[1]
  PROVE  /\ x[1] \in Nat /\ 1 + x[1] \in 0..Len(x)
         /\ SubSeq(x, 2, 1 + x[1]) \in Seq(Nat) /\ Len(SubSeq(x, 2, 1 + x[1])) = x[1]
         /\ SubSeq(x, (1 + x[1]) + 1, Len(x)) \in Seq(Nat)
         /\ SubSeq(x, 1, 1 + x[1]) = Prefixed(SubSeq(x, 2, 1 + x[1]))
<1> DEFINE k == x[1]
<1>1. k \in Nat /\ k = x[1] /\ 1 + k \in 0..Len(x)
  OBVIOUS
<1> HIDE DEF k
<1>2. /\ SubSeq(x, 2, 1 + k) \in Seq(Nat) /\ Len(SubSeq(x, 2, 1 + k)) = k
      /\ SubSeq(x, (1 + k) + 1, Len(x)) \in Seq(Nat)
  BY <1>1, SMTT(20)
<1>3. \A i \in 1..k : SubSeq(x, 2, 1 + k)[i] = x[i + 1]
  BY <1>1
<1>4. /\ SubSeq(x, 1, 1 + k) \in Seq(Nat) /\ Len(SubSeq(x, 1, 1 + k)) = 1 + k
      /\ \A i \in 1..(1 + k) : SubSeq(x, 1, 1 + k)[i] = x[i]
  BY <1>1
<1> DEFINE y == SubSeq(x, 2, 1 + k)
           z == SubSeq(x, 1, 1 + k)
<1>5. y \in Seq(Nat) /\ Len(y) = k /\ (\A i \in 1..k : y[i] = x[i + 1])
      /\ z \in Seq(Nat) /\ Len(z) = 1 + k /\ (\A i \in 1..(1 + k) : z[i] = x[i])
  BY <1>2, <1>3, <1>4
<1> HIDE DEF y, z
<1>6. Prefixed(y) \in Seq(Nat) /\ Len(Prefixed(y)) = 1 + k /\ Prefixed(y)[1] = k
  BY <1>5, PrefixedType
<1>7. ASSUME NEW i \in 1..(1 + k) PROVE z[i] = Prefixed(y)[i]
  <2>1. CASE i = 1
    BY <1>1, <1>5, <1>6, <2>1
  <2>2. CASE i # 1
    <3> DEFINE j == i - 1
    <3>1. j \in 1..k /\ i = j + 1
      BY <1>1, <2>2
    <3> HIDE DEF j
    <3>2. Prefixed(y)[j + 1] = y[j]
      <4>1. <<Len(y)>> \in Seq(Nat) /\ Len(<<Len(y)>>) = 1
        BY <1>5
      <4> QED
        BY <1>5, <3>1, <4>1 DEF Prefixed
    <3> QED
      BY <1>5, <3>1, <3>2
  <2> QED
    BY <2>1, <2>2
<1>8. z = Prefixed(y)
  BY <1>1, <1>5, <1>6, <1>7, SeqEqual
<1> QED
  BY <1>1, <1>2, <1>8 DEF y, z

-----------------------------------------------------------------------------
(* Segments of a concatenation *)

\* The first n - 1 elements of q, as the offsets of a layout take them.
FirstOf(q, n) == [m \in 1..(n - 1) |-> q[m]]

\* They are a list of n - 1 elements.
LEMMA FirstOfTyped ==
  ASSUME NEW S, NEW q \in Seq(S), NEW n \in 1..(Len(q) + 1)
  PROVE  FirstOf(q, n) \in Seq(S) /\ Len(FirstOf(q, n)) = n - 1
  BY DEF FirstOf

\* Each segment stands in the column behind the ones before it.
LEMMA SegmentStands ==
  ASSUME NEW S, NEW ss \in Seq(Seq(S)), NEW n \in 1..Len(ss)
  PROVE  LET at == Len(SX!FlattenSeq(FirstOf(ss, n)))
         IN  /\ at \in Nat /\ Len(ss[n]) \in Nat
             /\ at + Len(ss[n]) <= Len(SX!FlattenSeq(ss))
             /\ \A i \in 1..Len(ss[n]) : SX!FlattenSeq(ss)[at + i] = ss[n][i]
<1> DEFINE at(q, i) == Len(SX!FlattenSeq(FirstOf(q, i)))
           Stands(q, i) == /\ at(q, i) \in Nat /\ Len(q[i]) \in Nat
                           /\ at(q, i) + Len(q[i]) <= Len(SX!FlattenSeq(q))
                           /\ \A j \in 1..Len(q[i]) : SX!FlattenSeq(q)[at(q, i) + j] = q[i][j]
           T == {q \in Seq(Seq(S)) : \A i \in 1..Len(q) : Stands(q, i)}
<1>1. <<>> \in T
  OBVIOUS
<1>2. ASSUME NEW q \in T, NEW x \in Seq(S) PROVE Append(q, x) \in T
  <2>1. PICK p : p = Append(q, x)
    OBVIOUS
  <2>2. /\ p \in Seq(Seq(S)) /\ q \in Seq(Seq(S)) /\ Len(q) \in Nat /\ Len(p) = Len(q) + 1
        /\ p[Len(q) + 1] = x /\ \A i \in 1..Len(q) : p[i] = q[i]
    BY <2>1
  <2>3. SX!FlattenSeq(p) = SX!FlattenSeq(q) \o x /\ SX!FlattenSeq(q) \in Seq(S)
    BY <2>1, <2>2, FlattenAppend, FlattenType
  <2>4. ASSUME NEW i \in 1..Len(p) PROVE Stands(p, i)
    <3>1. PICK f \in Seq(S) : f = SX!FlattenSeq(q)
      BY <2>3
    <3>2. /\ Len(f \o x) = Len(f) + Len(x) /\ Len(f) \in Nat /\ Len(x) \in Nat
          /\ \A j \in 1..Len(f) : (f \o x)[j] = f[j]
          /\ \A j \in 1..Len(x) : (f \o x)[Len(f) + j] = x[j]
      BY <3>1
    <3>3. CASE i \in 1..Len(q)
      <4>1. FirstOf(p, i) = FirstOf(q, i)
        BY <2>2, <3>3 DEF FirstOf
      <4>2. Stands(q, i) /\ p[i] = q[i] /\ q[i] \in Seq(S) /\ Len(q[i]) \in Nat
        <5>1. Stands(q, i)
          BY <1>2, <3>3
        <5>2. p[i] = q[i]
          BY <2>2, <3>3
        <5>3. q[i] \in Seq(S)
          BY <2>2, <3>3
        <5>4. Len(q[i]) \in Nat
          BY <5>3
        <5> QED
          BY <5>1, <5>2, <5>3, <5>4
      <4>3. PICK a \in Nat : a = at(q, i) /\ a = at(p, i)
        BY <4>1, <4>2
      <4>4. a + Len(q[i]) <= Len(f) /\ \A j \in 1..Len(q[i]) : f[a + j] = q[i][j]
        BY <3>1, <4>2, <4>3
      <4>5. \A j \in 1..Len(q[i]) : a + j \in 1..Len(f)
        BY <3>2, <4>2, <4>4
      <4>6. \A j \in 1..Len(q[i]) : (f \o x)[a + j] = q[i][j]
        BY <3>2, <4>4, <4>5
      <4>7. a + Len(q[i]) <= Len(f \o x)
        <5>1. PICK l \in Nat : l = Len(q[i])
          BY <4>2
        <5>2. PICK w \in Nat : w = Len(f)
          BY <3>2
        <5>3. PICK v \in Nat : v = Len(x)
          BY <3>2
        <5>4. Len(f \o x) = w + v /\ a + l <= w
          BY <3>2, <4>4, <5>1, <5>2, <5>3
        <5> QED
          BY <5>1, <5>4, SMTT(20)
      <4> QED
        BY <2>3, <3>1, <4>2, <4>3, <4>6, <4>7
    <3>4. CASE i = Len(q) + 1
      <4>1. FirstOf(p, i) = q
        <5>1. FirstOf(p, i) = [m \in 1..Len(q) |-> q[m]]
          BY <2>2, <3>4, SMTT(20) DEF FirstOf
        <5> QED
          BY <2>2, <5>1
      <4>2. at(p, i) = Len(f) /\ p[i] = x
        BY <2>2, <3>1, <3>4, <4>1
      <4>3. SX!FlattenSeq(p) = f \o x
        BY <2>3, <3>1
      <4> HIDE DEF at
      <4>4. at(p, i) + Len(x) <= Len(f \o x)
        BY <3>2, <4>2
      <4> QED
        BY <3>2, <4>2, <4>3, <4>4
    <3> QED
      BY <2>2, <3>3, <3>4
  <2> QED
    BY <2>1, <2>2, <2>4
<1> HIDE DEF T
<1>3. T \in SUBSET Seq(Seq(S))
  BY DEF T
<1>4. T = Seq(Seq(S))
  BY <1>1, <1>2, <1>3, SeqInduction
<1> QED
  BY <1>4 DEF T

\* Segments of the same lengths take the same room.
LEMMA SameRoom ==
  ASSUME NEW S, NEW ss \in Seq(Seq(S)), NEW tt \in Seq(Seq(S)), Len(ss) = Len(tt),
         \A i \in 1..Len(ss) : Len(ss[i]) = Len(tt[i])
  PROVE  Len(SX!FlattenSeq(ss)) = Len(SX!FlattenSeq(tt))
<1> DEFINE Alike(q, p) == Len(p) = Len(q) /\ \A i \in 1..Len(q) : Len(q[i]) = Len(p[i])
           T == {q \in Seq(Seq(S)) : \A p \in Seq(Seq(S)) :
                    Alike(q, p) => Len(SX!FlattenSeq(q)) = Len(SX!FlattenSeq(p))}
<1>1. <<>> \in T
  <2>1. \A p \in Seq(Seq(S)) : Len(p) = 0 => p = <<>>
    OBVIOUS
  <2>2. Len(<<>>) = 0 /\ <<>> \in Seq(Seq(S))
    OBVIOUS
  <2>3. \A p \in Seq(Seq(S)) : Alike(<<>>, p) => p = <<>>
    BY <2>1, <2>2
  <2> QED
    BY <2>2, <2>3
<1>2. ASSUME NEW q \in T, NEW x \in Seq(S) PROVE Append(q, x) \in T
  <2>1. PICK r : r = Append(q, x)
    OBVIOUS
  <2>2. /\ r \in Seq(Seq(S)) /\ q \in Seq(Seq(S)) /\ Len(q) \in Nat /\ Len(r) = Len(q) + 1
        /\ r[Len(q) + 1] = x /\ \A i \in 1..Len(q) : r[i] = q[i]
    BY <2>1
  <2>3. ASSUME NEW p \in Seq(Seq(S)), Alike(r, p)
        PROVE  Len(SX!FlattenSeq(r)) = Len(SX!FlattenSeq(p))
    <3>1. PICK n \in Nat : n = Len(q)
      BY <2>2
    <3>2. Len(p) = n + 1
      BY <2>2, <2>3, <3>1
    <3>3. PICK f : f = SubSeq(p, 1, n)
      OBVIOUS
    <3>4. f \in Seq(Seq(S)) /\ Len(f) = n /\ p = Append(f, p[n + 1]) /\ p[n + 1] \in Seq(S)
      <4>1. PICK U : U = Seq(S)
        OBVIOUS
      <4>2. SubSeq(p, 1, n) \in Seq(U) /\ Len(SubSeq(p, 1, n)) = n /\ p[n + 1] \in U
            /\ p = Append(SubSeq(p, 1, n), p[n + 1])
        BY <3>2, <4>1, FrontAndLast
      <4> QED
        BY <3>3, <4>1, <4>2
    <3>5. PICK y \in Seq(S) : y = p[n + 1]
      BY <3>4
    <3>6. p = Append(f, y)
      BY <3>4, <3>5
    <3>7. SX!FlattenSeq(r) = SX!FlattenSeq(q) \o x /\ SX!FlattenSeq(p) = SX!FlattenSeq(f) \o y
          /\ SX!FlattenSeq(q) \in Seq(S) /\ SX!FlattenSeq(f) \in Seq(S)
      BY <2>1, <2>2, <3>4, <3>6, FlattenAppend, FlattenType
    <3>8. \A i \in 1..n : f[i] = p[i]
      BY <3>2, <3>3
    <3>9. Alike(q, f) /\ Len(x) = Len(y)
      BY <2>2, <2>3, <3>1, <3>4, <3>5, <3>8
    <3>10. Len(SX!FlattenSeq(q)) = Len(SX!FlattenSeq(f))
      BY <3>4, <3>9
    <3>11. PICK v \in Seq(S), w \in Seq(S) : v = SX!FlattenSeq(q) /\ w = SX!FlattenSeq(f)
      BY <3>7
    <3>12. Len(v \o x) = Len(w \o y)
      <4>1. Len(v \o x) = Len(v) + Len(x) /\ Len(w \o y) = Len(w) + Len(y)
        OBVIOUS
      <4>2. Len(v) = Len(w) /\ Len(x) = Len(y)
        BY <3>9, <3>10, <3>11
      <4> QED
        BY <4>1, <4>2
    <3> QED
      BY <3>7, <3>11, <3>12
  <2> QED
    BY <2>1, <2>2, <2>3
<1> HIDE DEF T
<1>3. T \in SUBSET Seq(Seq(S))
  BY DEF T
<1>4. T = Seq(Seq(S))
  BY <1>1, <1>2, <1>3, SeqInduction
<1> QED
  BY <1>4 DEF T

-----------------------------------------------------------------------------
(* What a function makes of each element, one after the other *)

Maps(g, S, T) == \A e \in S : g[e] \in Seq(T)
MapFlat(g, q) == SX!FlattenSeq([j \in 1..Len(q) |-> g[q[j]]])

\* A list again.
LEMMA MapFlatType ==
  ASSUME NEW S, NEW T, NEW g, Maps(g, S, T), NEW q \in Seq(S)
  PROVE  MapFlat(g, q) \in Seq(T)
<1> DEFINE gs == [j \in 1..Len(q) |-> g[q[j]]]
<1>1. gs \in Seq(Seq(T))
  BY DEF Maps
<1> HIDE DEF gs
<1>2. SX!FlattenSeq(gs) \in Seq(T)
  BY <1>1, FlattenType
<1> QED
  BY <1>2 DEF MapFlat, gs

\* One more element.
LEMMA MapFlatAppend ==
  ASSUME NEW S, NEW T, NEW g, Maps(g, S, T), NEW q \in Seq(S), NEW e \in S
  PROVE  MapFlat(g, Append(q, e)) = MapFlat(g, q) \o g[e]
<1> DEFINE gs == [j \in 1..Len(q) |-> g[q[j]]]
           r == Append(q, e)
           hs == [j \in 1..Len(r) |-> g[r[j]]]
<1>1. /\ r \in Seq(S) /\ Len(r) = Len(q) + 1 /\ Len(q) \in Nat /\ r[Len(q) + 1] = e
      /\ \A j \in 1..Len(q) : r[j] = q[j]
  OBVIOUS
<1> HIDE DEF r
<1>2. gs \in Seq(Seq(T)) /\ Len(gs) = Len(q)
  BY <1>1 DEF Maps
<1>3. hs \in Seq(Seq(T)) /\ Len(hs) = Len(q) + 1
  BY <1>1 DEF Maps
<1>4. \A j \in 1..Len(q) : hs[j] = gs[j]
  BY <1>1
<1>5. hs[Len(q) + 1] = g[e] /\ g[e] \in Seq(T)
  BY <1>1 DEF Maps
<1> HIDE DEF gs, hs
<1>6. hs = Append(gs, g[e])
  <2>1. PICK U : U = Seq(T)
    OBVIOUS
  <2>2. PICK x \in U : x = g[e]
    BY <1>5, <2>1
  <2>3. gs \in Seq(U) /\ hs \in Seq(U) /\ Len(hs) = Len(gs) + 1 /\ hs[Len(gs) + 1] = x
        /\ \A j \in 1..Len(gs) : hs[j] = gs[j]
    BY <1>2, <1>3, <1>4, <1>5, <2>1, <2>2
  <2>4. hs = Append(gs, x)
    BY <2>3, AppendIs
  <2> QED
    BY <2>2, <2>4
<1>7. SX!FlattenSeq(hs) = SX!FlattenSeq(gs) \o g[e]
  BY <1>2, <1>5, <1>6, FlattenAppend
<1> QED
  BY <1>7 DEF MapFlat, gs, hs, r

\* No elements, and one.
LEMMA MapFlatSmall ==
  ASSUME NEW S, NEW T, NEW g, Maps(g, S, T)
  PROVE  MapFlat(g, <<>>) = <<>> /\ \A e \in S : MapFlat(g, <<e>>) = g[e]
<1>1. [j \in 1..Len(<<>>) |-> g[<<>>[j]]] = <<>>
  OBVIOUS
<1>2. MapFlat(g, <<>>) = <<>>
  BY <1>1, FlattenEmpty DEF MapFlat
<1>3. ASSUME NEW e \in S PROVE MapFlat(g, <<e>>) = g[e]
  <2>1. <<>> \in Seq(S) /\ Append(<<>>, e) = <<e>>
    OBVIOUS
  <2>2. MapFlat(g, Append(<<>>, e)) = MapFlat(g, <<>>) \o g[e]
    <3>1. PICK q \in Seq(S) : q = <<>>
      BY <2>1
    <3>2. MapFlat(g, Append(q, e)) = MapFlat(g, q) \o g[e]
      BY MapFlatAppend
    <3> QED
      BY <3>1, <3>2
  <2>3. g[e] \in Seq(T)
    BY DEF Maps
  <2>4. <<>> \o g[e] = g[e]
    BY <2>3
  <2> QED
    BY <1>2, <2>1, <2>2, <2>4
<1> QED
  BY <1>2, <1>3

\* Of a concatenation.
LEMMA MapFlatConcat ==
  ASSUME NEW S, NEW T, NEW g, Maps(g, S, T), NEW q \in Seq(S), NEW r \in Seq(S)
  PROVE  MapFlat(g, q \o r) = MapFlat(g, q) \o MapFlat(g, r)
<1> DEFINE K == {p \in Seq(S) : MapFlat(g, q \o p) = MapFlat(g, q) \o MapFlat(g, p)}
<1>0. ASSUME NEW p \in Seq(S) PROVE MapFlat(g, p) \in Seq(T)
  BY MapFlatType
<1>1. <<>> \in K
  <2>1. q \o <<>> = q /\ MapFlat(g, q) \in Seq(T) /\ <<>> \in Seq(S)
    BY <1>0
  <2>2. MapFlat(g, q) \o <<>> = MapFlat(g, q)
    BY <2>1
  <2> QED
    BY <2>1, <2>2, MapFlatSmall
<1>2. ASSUME NEW p \in K, NEW e \in S PROVE Append(p, e) \in K
  <2>1. p \in Seq(S) /\ q \o p \in Seq(S) /\ q \o Append(p, e) = Append(q \o p, e)
        /\ Append(p, e) \in Seq(S)
    OBVIOUS
  <2>2. MapFlat(g, Append(q \o p, e)) = MapFlat(g, q \o p) \o g[e]
    <3>1. PICK qp \in Seq(S) : qp = q \o p
      BY <2>1
    <3>2. MapFlat(g, Append(qp, e)) = MapFlat(g, qp) \o g[e]
      BY MapFlatAppend
    <3> QED
      BY <3>1, <3>2
  <2>3. MapFlat(g, Append(p, e)) = MapFlat(g, p) \o g[e]
    BY <2>1, MapFlatAppend
  <2>4. MapFlat(g, q) \in Seq(T) /\ MapFlat(g, p) \in Seq(T) /\ g[e] \in Seq(T)
    BY <1>0, <2>1 DEF Maps
  <2>5. (MapFlat(g, q) \o MapFlat(g, p)) \o g[e] = MapFlat(g, q) \o (MapFlat(g, p) \o g[e])
    <3>1. PICK u \in Seq(T), v \in Seq(T), w \in Seq(T) :
            u = MapFlat(g, q) /\ v = MapFlat(g, p) /\ w = g[e]
      BY <2>4
    <3>2. (u \o v) \o w = u \o (v \o w)
      BY Associative, SMTT(20)
    <3> QED
      BY <3>1, <3>2
  <2> QED
    BY <2>1, <2>2, <2>3, <2>5
<1> HIDE DEF K
<1>3. K \in SUBSET Seq(S)
  BY DEF K
<1>4. K = Seq(S)
  BY <1>1, <1>2, <1>3, SeqInduction
<1> QED
  BY <1>4 DEF K

\* Of a concatenation it is the concatenation of what it is of the parts.
LEMMA MapFlatFlatten ==
  ASSUME NEW S, NEW T, NEW g, Maps(g, S, T), NEW ss \in Seq(Seq(S))
  PROVE  MapFlat(g, SX!FlattenSeq(ss)) = SX!FlattenSeq([n \in 1..Len(ss) |-> MapFlat(g, ss[n])])
<1> DEFINE parts(p) == [n \in 1..Len(p) |-> MapFlat(g, p[n])]
           K == {p \in Seq(Seq(S)) : /\ parts(p) \in Seq(Seq(T))
                                     /\ MapFlat(g, SX!FlattenSeq(p)) = SX!FlattenSeq(parts(p))}
<1>0. ASSUME NEW p \in Seq(S) PROVE MapFlat(g, p) \in Seq(T)
  BY MapFlatType
<1>1. <<>> \in K
  <2>1. parts(<<>>) = <<>>
    OBVIOUS
  <2>2. <<>> \in Seq(Seq(T)) /\ <<>> \in Seq(Seq(S))
    OBVIOUS
  <2> HIDE DEF parts
  <2> QED
    BY <2>1, <2>2, FlattenEmpty, MapFlatSmall
<1>2. ASSUME NEW p \in K, NEW x \in Seq(S) PROVE Append(p, x) \in K
  <2>1. PICK r : r = Append(p, x)
    OBVIOUS
  <2>2. /\ r \in Seq(Seq(S)) /\ p \in Seq(Seq(S)) /\ Len(p) \in Nat /\ Len(r) = Len(p) + 1
        /\ r[Len(p) + 1] = x /\ \A n \in 1..Len(p) : r[n] = p[n]
    BY <2>1
  <2>3. PICK y \in Seq(T) : y = MapFlat(g, x)
    BY <1>0
  <2>4. \A n \in 1..Len(p) : parts(r)[n] = parts(p)[n]
    BY <2>2
  <2>5. parts(r)[Len(p) + 1] = y
    BY <2>2, <2>3
  <2>6. parts(r) \in Seq(Seq(T)) /\ Len(parts(r)) = Len(p) + 1
    <3>1. ASSUME NEW n \in 1..Len(r) PROVE MapFlat(g, r[n]) \in Seq(T)
      <4>1. r[n] \in Seq(S)
        BY <2>2
      <4> QED
        BY <1>0, <4>1
    <3>2. Len(r) \in Nat
      BY <2>2
    <3>3. PICK n \in Nat : n = Len(r)
      BY <3>2
    <3>4. PICK U : U = Seq(T)
      OBVIOUS
    <3>5. [j \in 1..n |-> MapFlat(g, r[j])] \in Seq(U)
      BY <3>1, <3>3, <3>4
    <3>6. Len([j \in 1..n |-> MapFlat(g, r[j])]) = n
      OBVIOUS
    <3> QED
      BY <2>2, <3>3, <3>4, <3>5, <3>6
  <2>7. parts(p) \in Seq(Seq(T)) /\ Len(parts(p)) = Len(p)
        /\ MapFlat(g, SX!FlattenSeq(p)) = SX!FlattenSeq(parts(p))
    BY <1>2, <2>2
  <2> HIDE DEF parts
  <2>8. parts(r) = Append(parts(p), y)
    <3>1. PICK U : U = Seq(T)
      OBVIOUS
    <3>2. PICK u \in Seq(U), v \in Seq(U) : u = parts(r) /\ v = parts(p)
      BY <2>6, <2>7, <3>1
    <3>3. y \in U /\ Len(u) = Len(v) + 1 /\ u[Len(v) + 1] = y /\ \A n \in 1..Len(v) : u[n] = v[n]
      BY <2>4, <2>5, <2>6, <2>7, <3>1, <3>2
    <3>4. u = Append(v, y)
      BY <3>3, AppendIs
    <3> QED
      BY <3>2, <3>4
  <2>9. SX!FlattenSeq(parts(r)) = SX!FlattenSeq(parts(p)) \o y
    BY <2>7, <2>8, FlattenAppend
  <2>10. SX!FlattenSeq(r) = SX!FlattenSeq(p) \o x /\ SX!FlattenSeq(p) \in Seq(S)
    BY <2>1, <2>2, FlattenAppend, FlattenType
  <2>11. MapFlat(g, SX!FlattenSeq(r)) = MapFlat(g, SX!FlattenSeq(p)) \o y
    <3>1. PICK f \in Seq(S) : f = SX!FlattenSeq(p)
      BY <2>10
    <3>2. MapFlat(g, f \o x) = MapFlat(g, f) \o MapFlat(g, x)
      BY MapFlatConcat
    <3> QED
      BY <2>3, <2>10, <3>1, <3>2
  <2> QED
    BY <2>1, <2>2, <2>6, <2>7, <2>9, <2>11
<1> HIDE DEF K
<1>3. K \in SUBSET Seq(Seq(S))
  BY DEF K
<1>4. K = Seq(Seq(S))
  BY <1>1, <1>2, <1>3, SeqInduction
<1> QED
  BY <1>4 DEF K

\* Nothing but empty parts.
LEMMA FlattenEmpties ==
  ASSUME NEW S, NEW ss \in Seq(Seq(S)), \A n \in 1..Len(ss) : ss[n] = <<>>
  PROVE  SX!FlattenSeq(ss) = <<>>
<1> DEFINE K == {p \in Seq(Seq(S)) : (\A n \in 1..Len(p) : p[n] = <<>>) => SX!FlattenSeq(p) = <<>>}
<1>1. <<>> \in K
  <2>1. <<>> \in Seq(Seq(S))
    OBVIOUS
  <2> QED
    BY <2>1, FlattenEmpty
<1>2. ASSUME NEW p \in K, NEW x \in Seq(S) PROVE Append(p, x) \in K
  <2>1. PICK r : r = Append(p, x)
    OBVIOUS
  <2>2. /\ r \in Seq(Seq(S)) /\ p \in Seq(Seq(S)) /\ Len(p) \in Nat /\ Len(r) = Len(p) + 1
        /\ r[Len(p) + 1] = x /\ \A n \in 1..Len(p) : r[n] = p[n]
    BY <2>1
  <2>3. ASSUME \A n \in 1..Len(r) : r[n] = <<>> PROVE SX!FlattenSeq(r) = <<>>
    <3>1. \A n \in 1..Len(p) : n \in 1..Len(r)
      BY <2>2
    <3>2. Len(p) + 1 \in 1..Len(r)
      BY <2>2
    <3>3. x = <<>> /\ \A n \in 1..Len(p) : p[n] = <<>>
      BY <2>2, <2>3, <3>1, <3>2
    <3>4. SX!FlattenSeq(p) = <<>>
      BY <1>2, <3>3
    <3>5. SX!FlattenSeq(r) = SX!FlattenSeq(p) \o x
      BY <2>1, <2>2, FlattenAppend
    <3>6. <<>> \o <<>> = <<>>
      OBVIOUS
    <3> QED
      BY <3>3, <3>4, <3>5, <3>6
  <2> QED
    BY <2>1, <2>2, <2>3
<1> HIDE DEF K
<1>3. K \in SUBSET Seq(Seq(S))
  BY DEF K
<1>4. K = Seq(Seq(S))
  BY <1>1, <1>2, <1>3, SeqInduction
<1> QED
  BY <1>4 DEF K
=============================================================================
