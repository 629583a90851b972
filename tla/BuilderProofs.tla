--------------------------- MODULE BuilderProofs -----------------------------
(***************************************************************************)
(* The clubcard builder and the query of what it built, for any word size, *)
(* any hashes and any number of issuers and serials.                       *)
(*                                                                         *)
(* The ribbon (RibbonInv).  That rows stay aligned needs that add brings   *)
(* the lowest coefficient of a sum to 0; that exceptions are never revoked *)
(* serials needs that, while only these are inserted, every right-hand     *)
(* side is 0 (Homogeneous), so no equation becomes 0 = 1, and that what    *)
(* comes after them in the universe is not revoked.                        *)
(*                                                                         *)
(* The answers (BuildInv).  Every solution of the rows solves the equation *)
(* of each serial that was inserted, the exceptions apart (InsertInv);     *)
(* back substitution makes the column a solution (SolveInv); so a block    *)
(* that is done tells its serials apart (DoneInv).  Laying the blocks out  *)
(* keeps the answers, as a query reads nothing but the segment of its      *)
(* block: a segment has room for the windows of its last rows, and offsets *)
(* agree in all columns because ranks never rise.                          *)
(***************************************************************************)
EXTENDS ClubcardBuilder, WireProofs, FiniteSetTheorems

-----------------------------------------------------------------------------
(* Words *)

\* A number is the number of its word and its place there.
LEMMA DivMod ==
  ASSUME NEW x \in Nat
  PROVE  /\ x \div B \in Nat /\ x % B \in 0..(B - 1)
         /\ x = B * (x \div B) + (x % B)
  BY ClubcardAssumption

\* Multiples of the word size.
LEMMA Multiples ==
  ASSUME NEW q \in Nat, NEW p \in Nat
  PROVE  /\ B * q \in Nat
         /\ B * (q + p) = B * q + B * p
         /\ q < p => B * q + B <= B * p
         /\ q <= p => B * q <= B * p
<1>1. B * q \in Nat /\ B * p \in Nat /\ B * (q + p) = B * q + B * p
  BY ClubcardAssumption
<1>2. ASSUME q < p PROVE B * q + B <= B * p
  <2>1. PICK d \in Nat : p = q + 1 + d
    BY <1>2
  <2>2. B * p = B * q + B + B * d /\ B * d \in Nat
    BY <2>1, ClubcardAssumption
  <2> QED
    BY <1>1, <2>2, ClubcardAssumption
<1> QED
  BY <1>1, <1>2, ClubcardAssumption

\* and the other way round.
LEMMA DivModIs ==
  ASSUME NEW q \in Nat, NEW r \in 0..(B - 1)
  PROVE  /\ (B * q + r) \div B = q /\ (B * q + r) % B = r
         /\ B * q + r \in Nat
<1>1. B * q + r \in Nat /\ B * q \in Nat
  BY ClubcardAssumption
<1> DEFINE x == B * q + r
           p == x \div B
<1>2. p \in Nat /\ x % B \in 0..(B - 1) /\ x = B * p + (x % B)
  BY <1>1, DivMod
<1> HIDE DEF p
<1>3. ~(q < p)
  <2>1. q < p => B * q + B <= B * p
    BY <1>2, Multiples
  <2> QED
    BY <1>1, <1>2, <2>1, Multiples, ClubcardAssumption
<1>4. ~(p < q)
  <2>1. p < q => B * p + B <= B * q
    BY <1>2, Multiples
  <2> QED
    BY <1>1, <1>2, <2>1, Multiples, ClubcardAssumption
<1>5. p = q
  BY <1>2, <1>3, <1>4
<1>6. x % B = r
  BY <1>1, <1>2, <1>5
<1> QED
  BY <1>1, <1>5, <1>6 DEF p

-----------------------------------------------------------------------------
(* Parity *)

Odd(S) == Cardinality(S) % 2 = 1

\* The parity of small sets.
LEMMA OddEmpty == ~Odd({}) /\ \A x : Odd({x})
<1>1. Cardinality({}) = 0 /\ \A x : Cardinality({x}) = 1
  BY FS_EmptySet, FS_Singleton
<1> QED
  BY <1>1 DEF Odd

\* The parity of a disjoint union is the sum of the parities.
LEMMA OddUnion ==
  ASSUME NEW S, NEW T, IsFiniteSet(S), IsFiniteSet(T), S \cap T = {}
  PROVE  IsFiniteSet(S \cup T) /\ (Odd(S \cup T) <=> ~(Odd(S) <=> Odd(T)))
<1>1. Cardinality(S) \in Nat /\ Cardinality(T) \in Nat
  BY FS_CardinalityType
<1>2. IsFiniteSet(S \cup T) /\ Cardinality(S \cup T) = Cardinality(S) + Cardinality(T)
  BY <1>1, FS_Union, FS_EmptySet
<1>3. ASSUME NEW m \in Nat, NEW n \in Nat
      PROVE  (m + n) % 2 = 1 <=> ~((m % 2 = 1) <=> (n % 2 = 1))
  OBVIOUS
<1> QED
  BY <1>1, <1>2, <1>3 DEF Odd

\* and so is that of the symmetric difference, the sum of two vectors.
LEMMA OddSymDiff ==
  ASSUME NEW S, NEW T, IsFiniteSet(S), IsFiniteSet(T)
  PROVE  IsFiniteSet(SymDiff(S, T)) /\ (Odd(SymDiff(S, T)) <=> ~(Odd(S) <=> Odd(T)))
<1>1. IsFiniteSet(S \ T) /\ IsFiniteSet(T \ S) /\ IsFiniteSet(S \cap T)
  BY FS_Difference, FS_Intersection
<1>2. Odd(S) <=> ~(Odd(S \ T) <=> Odd(S \cap T))
  <2>1. S = (S \ T) \cup (S \cap T) /\ (S \ T) \cap (S \cap T) = {}
    OBVIOUS
  <2> QED
    BY <1>1, <2>1, OddUnion
<1>3. Odd(T) <=> ~(Odd(T \ S) <=> Odd(S \cap T))
  <2>1. T = (T \ S) \cup (S \cap T) /\ (T \ S) \cap (S \cap T) = {}
    OBVIOUS
  <2> QED
    BY <1>1, <2>1, OddUnion
<1>4. IsFiniteSet(SymDiff(S, T)) /\ (Odd(SymDiff(S, T)) <=> ~(Odd(S \ T) <=> Odd(T \ S)))
  <2>1. (S \ T) \cap (T \ S) = {}
    OBVIOUS
  <2> QED
    BY <1>1, <2>1, OddUnion DEF SymDiff
<1> QED
  BY <1>2, <1>3, <1>4

\* A one-to-one image has the parity of the set.
LEMMA OddBijection ==
  ASSUME NEW S, NEW T, IsFiniteSet(S), NEW f \in [S -> T],
         \A x, y \in S : f[x] = f[y] => x = y,
         \A y \in T : \E x \in S : f[x] = y
  PROVE  IsFiniteSet(T) /\ (Odd(T) <=> Odd(S))
<1>1. f \in Bijection(S, T)
  BY DEF Bijection, Injection, Surjection, IsInjective
<1>2. ExistsBijection(S, T)
  BY <1>1 DEF ExistsBijection
<1> QED
  BY <1>2, FS_Bijection DEF Odd

-----------------------------------------------------------------------------
(* The dot product *)

\* The end of the loop of bitsXorIsZero.
LEMMA MinOfTwo ==
  ASSUME NEW m \in Nat, NEW n \in Nat
  PROVE  Min({m, n}) = IF m <= n THEN m ELSE n
<1>1. \E x \in {m, n} : \A y \in {m, n} : x <= y
  BY m <= n \/ n <= m
<1>2. /\ Min({m, n}) \in {m, n} /\ \A y \in {m, n} : Min({m, n}) <= y
  BY <1>1 DEF Min
<1> QED
  BY <1>2

\* The bits of a vector are finitely many numbers.
LEMMA VectorFinite ==
  ASSUME NEW a \in Vector
  PROVE  /\ IsFiniteSet(a) /\ \A n \in a : n \in Nat /\ n < B * W
         /\ \A S \in SUBSET a : IsFiniteSet(S)
<1>1. W * B \in Nat /\ W * B = B * W
  BY ClubcardAssumption
<1>2. IsFiniteSet(0..(W * B - 1))
  BY <1>1, FS_Interval
<1>3. \A S \in SUBSET (0..(W * B - 1)) : IsFiniteSet(S)
  BY <1>2, FS_Subset
<1>4. \A n \in a : n \in Nat /\ n < B * W
  BY <1>1 DEF Vector
<1> QED
  BY <1>3, <1>4 DEF Vector

\* A bit of the word that a round of the loop puts together from two.
LEMMA WindowBit ==
  ASSUME NEW column \in Seq(Word), NEW j \in 0..(Len(column) - 1),
         NEW shift \in 0..(B - 1), NEW c \in 0..(B - 1)
  PROVE  c \in WordsAt(column, j, shift) <=> BitSet(column, (B * j + shift) + c)
<1> DEFINE w == column[j + 1]
<1>1. j \in Nat /\ j + 1 \in 1..Len(column) /\ w \in Word /\ B \in Nat \ {0}
  BY ClubcardAssumption
<1>2. \A x \in w : x \in 0..(B - 1)
  BY <1>1 DEF Word
<1> HIDE DEF w
<1>3. c \in ShiftRight(w, shift) <=> c + shift \in w
  <2>1. ASSUME c \in ShiftRight(w, shift) PROVE c + shift \in w
    <3>1. PICK x \in w : x >= shift /\ c = x - shift
      BY <2>1 DEF ShiftRight
    <3>2. x = c + shift
      BY <1>2, <3>1
    <3> QED
      BY <3>1, <3>2
  <2>2. ASSUME c + shift \in w PROVE c \in ShiftRight(w, shift)
    <3>1. c + shift >= shift /\ (c + shift) - shift = c
      OBVIOUS
    <3> QED
      BY <2>2, <3>1 DEF ShiftRight
  <2> QED
    BY <2>1, <2>2
<1>4. CASE c + shift < B
  <2>1. c + shift \in 0..(B - 1) /\ (B * j + shift) + c = B * j + (c + shift)
    BY <1>1, <1>4
  <2>2. ((B * j + shift) + c) \div B = j /\ ((B * j + shift) + c) % B = c + shift
    BY <1>1, <2>1, DivModIs
  <2>3. BitSet(column, (B * j + shift) + c) <=> c + shift \in w
    BY <1>1, <2>2 DEF BitSet, w
  <2>4. ASSUME NEW v \in Word PROVE c \notin ShiftLeft(v, B - shift)
    BY <1>1, <1>4 DEF ShiftLeft, Word
  <2>5. ASSUME shift # 0 /\ j + 1 < Len(column) PROVE column[j + 2] \in Word
    BY <1>1, <2>5
  <2> QED
    BY <1>3, <2>3, <2>4, <2>5 DEF WordsAt, w
<1>5. CASE c + shift >= B
  <2> DEFINE d == (c + shift) - B
  <2>1. d \in 0..(B - 1) /\ (B * j + shift) + c = B * (j + 1) + d /\ shift # 0 /\ j + 1 \in Nat
    BY <1>1, <1>5
  <2> HIDE DEF d
  <2>2. ((B * j + shift) + c) \div B = j + 1 /\ ((B * j + shift) + c) % B = d
    BY <2>1, DivModIs
  <2>3. BitSet(column, (B * j + shift) + c) <=> j + 1 < Len(column) /\ d \in column[j + 2]
    BY <1>1, <2>2 DEF BitSet
  <2>4. c + shift \notin w
    BY <1>1, <1>2, <1>5
  <2>5. ASSUME j + 1 < Len(column)
        PROVE  c \in ShiftLeft(column[j + 2], B - shift) <=> d \in column[j + 2]
    <3>1. column[j + 2] \in Word
      BY <1>1, <2>5
    <3>2. \A x \in column[j + 2] : x \in 0..(B - 1)
      BY <3>1 DEF Word
    <3>3. d + (B - shift) = c /\ c < B
      BY <1>1 DEF d
    <3>4. ASSUME NEW x \in column[j + 2], x + (B - shift) = c PROVE x = d
      BY <1>1, <3>2, <3>4 DEF d
    <3> QED
      BY <3>3, <3>4 DEF ShiftLeft
  <2> QED
    BY <1>3, <2>1, <2>3, <2>4, <2>5 DEF WordsAt, w
<1> QED
  BY <1>1, <1>4, <1>5

\* The rounds that flip bit c of r correspond to the bits of coef, at places
\* congruent to c, that meet a bit of the column.
LEMMA FlipsOfBit ==
  ASSUME NEW column \in Seq(Word), NEW row \in Nat, NEW coef \in Vector, NEW c \in 0..(B - 1)
  PROVE  LET limb == row \div B
             flips == {j \in Visited(column, limb) :
                          c \in WordsAt(column, j, row % B) \cap Limb(coef, j - limb)}
             class == {n \in {x \in coef : BitSet(column, row + x)} : n % B = c}
         IN  IsFiniteSet(flips) /\ (Odd(flips) <=> Odd(class))
<1> DEFINE limb == row \div B
           shift == row % B
           flips == {j \in Visited(column, limb) :
                        c \in WordsAt(column, j, shift) \cap Limb(coef, j - limb)}
           class == {n \in {x \in coef : BitSet(column, row + x)} : n % B = c}
           f == [n \in class |-> limb + (n \div B)]
<1>1. limb \in Nat /\ shift \in 0..(B - 1) /\ row = B * limb + shift
  BY DivMod
<1>2. Len(column) \in Nat /\ limb + W \in Nat /\ B \in Nat \ {0} /\ W \in Nat
  BY <1>1, ClubcardAssumption
<1> HIDE DEF limb, shift
<1>3. \A j : j \in Visited(column, limb) <=>
               j \in Nat /\ limb <= j /\ j < Len(column) /\ j < limb + W
  <2>1. Min({Len(column), limb + W}) = IF Len(column) <= limb + W THEN Len(column) ELSE limb + W
    BY <1>2, MinOfTwo
  <2> QED
    BY <1>1, <1>2, <2>1 DEF Visited
<1>4. IsFiniteSet(class)
  BY VectorFinite
<1>5. ASSUME NEW n \in class
      PROVE  /\ n \in Nat /\ n = B * (n \div B) + c /\ n \div B \in Nat
             /\ f[n] \in flips
  <2>1. n \in Nat /\ n < B * W /\ n % B = c /\ n \in coef /\ BitSet(column, row + n)
    BY VectorFinite
  <2>2. n \div B \in Nat /\ n = B * (n \div B) + c
    BY <2>1, DivMod
  <2> DEFINE q == n \div B
  <2> HIDE DEF q
  <2>3. q \in Nat /\ n = B * q + c
    BY <2>2 DEF q
  <2>4. q < W
    <3>1. W <= q => B * W <= B * q
      BY <1>2, <2>3, Multiples
    <3> QED
      BY <1>2, <2>1, <2>3, <3>1, Multiples
  <2>5. B * (limb + q) = B * limb + B * q /\ B * limb \in Nat /\ B * q \in Nat
    BY <1>1, <2>3, Multiples
  <2>6. row + n = (B * (limb + q) + shift) + c
    BY <1>1, <1>2, <2>3, <2>5
  <2>7. limb + q < Len(column)
    <3> DEFINE p == (row + n) \div B
    <3>1. p < Len(column)
      BY <2>1 DEF BitSet
    <3>0. row + n \in Nat
      BY <2>1
    <3>2. p \in Nat /\ (row + n) % B \in 0..(B - 1) /\ row + n = B * p + ((row + n) % B)
      BY <3>0, DivMod
    <3> HIDE DEF p
    <3>3. p < limb + q => B * p + B <= B * (limb + q)
      BY <1>1, <2>3, <3>2, Multiples
    <3>4. ~(p < limb + q)
      BY <1>1, <1>2, <2>3, <2>5, <2>6, <3>2, <3>3, Multiples
    <3> QED
      BY <1>1, <1>2, <2>3, <3>1, <3>2, <3>4
  <2>8. limb + q \in 0..(Len(column) - 1)
    BY <1>1, <1>2, <2>3, <2>7
  <2>9. c \in WordsAt(column, limb + q, shift)
    BY <1>1, <2>1, <2>6, <2>8, WindowBit
  <2>10. (limb + q) - limb = q /\ q * B + c = n
    BY <1>1, <1>2, <2>3
  <2>11. c \in Limb(coef, (limb + q) - limb)
    BY <2>1, <2>10 DEF Limb
  <2>12. limb + q \in Visited(column, limb)
    BY <1>1, <1>2, <1>3, <2>3, <2>4, <2>7
  <2> QED
    BY <2>1, <2>2, <2>9, <2>11, <2>12 DEF q
<1>6. f \in [class -> flips]
  BY <1>5
<1>7. ASSUME NEW m \in class, NEW n \in class, f[m] = f[n] PROVE m = n
  <2>1. m \div B \in Nat /\ n \div B \in Nat /\ limb + (m \div B) = limb + (n \div B)
    BY <1>5, <1>7
  <2>2. m \div B = n \div B
    BY <1>1, <2>1
  <2> QED
    BY <1>5, <2>2
<1>8. ASSUME NEW j \in flips PROVE \E n \in class : f[n] = j
  <2>1. j \in Nat /\ limb <= j /\ j < Len(column) /\ j < limb + W
    BY <1>3
  <2>2. j - limb \in Nat /\ c \in WordsAt(column, j, shift) /\ (j - limb) * B + c \in coef
    BY <1>1, <2>1 DEF Limb
  <2> DEFINE q == j - limb
             n == B * q + c
  <2>3. q \in Nat /\ j = limb + q /\ n \in coef /\ j \in 0..(Len(column) - 1)
    BY <1>1, <1>2, <2>1, <2>2
  <2> HIDE DEF q
  <2>4. n \div B = q /\ n % B = c /\ n \in Nat
    BY <2>3, DivModIs
  <2>5. B * j = B * limb + B * q /\ B * limb \in Nat /\ B * q \in Nat
    BY <1>1, <2>3, Multiples
  <2>6. row + n = (B * j + shift) + c
    BY <1>1, <1>2, <2>3, <2>5
  <2>7. BitSet(column, row + n)
    BY <1>1, <2>2, <2>3, <2>6, WindowBit
  <2>8. n \in class
    BY <2>3, <2>4, <2>7
  <2> QED
    BY <2>3, <2>4, <2>8
<1> HIDE DEF f, class, flips
<1>9. IsFiniteSet(flips) /\ (Odd(flips) <=> Odd(class))
  BY <1>4, <1>6, <1>7, <1>8, OddBijection
<1> QED
  BY <1>9 DEF flips, class, limb, shift

\* bitsXorIsZero is the dot product of coef with the bits of column from row on.
LEMMA DotProduct ==
  ASSUME NEW column \in Seq(Word), NEW row \in Nat, NEW coef \in Vector
  PROVE  bitsXorIsZero(column, row, coef) <=> ~Odd({n \in coef : BitSet(column, row + n)})
<1> DEFINE limb == row \div B
           flips(c) == {j \in Visited(column, limb) :
                           c \in WordsAt(column, j, row % B) \cap Limb(coef, j - limb)}
           S == {n \in coef : BitSet(column, row + n)}
           class(c) == {n \in S : n % B = c}
           part(m) == {n \in S : n % B < m}
           odds(m) == {c \in 0..(m - 1) : Odd(class(c))}
           T == {m \in Nat : m <= B => (Odd(part(m)) <=> Odd(odds(m)))}
<1>1. \A c \in 0..(B - 1) : Odd(flips(c)) <=> Odd(class(c))
  BY FlipsOfBit
<1>2. /\ \A U \in SUBSET S : IsFiniteSet(U)
      /\ \A n \in S : n \in Nat /\ n % B \in 0..(B - 1)
  BY VectorFinite, DivMod
<1>3. B \in Nat \ {0}
  BY ClubcardAssumption
<1> HIDE DEF S
<1>4. 0 \in T
  <2>1. part(0) = {} /\ odds(0) = {}
    BY <1>2, <1>3
  <2> HIDE DEF part, odds
  <2> QED
    BY <2>1
<1>5. ASSUME NEW m \in T PROVE m + 1 \in T
  <2> SUFFICES ASSUME m + 1 <= B
               PROVE  Odd(part(m + 1)) <=> Odd(odds(m + 1))
    <3> HIDE DEF part, odds
    <3>1. m + 1 \in Nat
      OBVIOUS
    <3> QED
      BY <3>1
  <2>1. m \in Nat /\ m < B /\ (Odd(part(m)) <=> Odd(odds(m)))
    BY <1>3
  <2>2. part(m + 1) = part(m) \cup class(m) /\ part(m) \cap class(m) = {}
    BY <1>2, <1>3, <2>1
  <2>3. IsFiniteSet(part(m)) /\ IsFiniteSet(class(m)) /\ IsFiniteSet(odds(m))
    <3>1. IsFiniteSet(0..(m - 1))
      BY <2>1, FS_Interval
    <3> QED
      BY <1>2, <3>1, FS_Subset
  <2>4. odds(m + 1) = odds(m) \cup (IF Odd(class(m)) THEN {m} ELSE {}) /\ m \notin odds(m)
    <3>1. 0..((m + 1) - 1) = (0..(m - 1)) \cup {m} /\ m \notin 0..(m - 1)
      BY <2>1
    <3> HIDE DEF class
    <3> QED
      BY <3>1
  <2> HIDE DEF part, class, odds
  <2>5. Odd(part(m + 1)) <=> ~(Odd(part(m)) <=> Odd(class(m)))
    BY <2>2, <2>3, OddUnion
  <2>6. CASE Odd(class(m))
    <3>1. odds(m + 1) = odds(m) \cup {m} /\ odds(m) \cap {m} = {} /\ IsFiniteSet({m}) /\ Odd({m})
      BY <2>4, <2>6, OddEmpty, FS_Singleton
    <3>2. Odd(odds(m) \cup {m}) <=> ~(Odd(odds(m)) <=> Odd({m}))
      BY <2>3, <3>1, OddUnion
    <3> QED
      BY <2>1, <2>5, <2>6, <3>1, <3>2
  <2>7. CASE ~Odd(class(m))
    <3>1. odds(m + 1) = odds(m)
      BY <2>4, <2>7
    <3> QED
      BY <2>1, <2>5, <2>7, <3>1
  <2> QED
    BY <2>6, <2>7
<1>6. T = Nat
  <2> HIDE DEF T
  <2>1. T \in SUBSET Nat
    BY DEF T
  <2> QED
    BY <1>4, <1>5, <2>1, SetInduction
<1>7. Odd(part(B)) <=> Odd(odds(B))
  <2>1. B \in T
    BY <1>3, <1>6
  <2> QED
    BY <1>3, <2>1
<1>8. part(B) = S
  BY <1>2, <1>3
<1> DEFINE r == {c \in 0..(B - 1) : Cardinality(flips(c)) % 2 = 1}
<1>9. r = odds(B)
  <2>1. \A c \in 0..(B - 1) : Cardinality(flips(c)) % 2 = 1 <=> Odd(class(c))
    BY <1>1 DEF Odd
  <2> HIDE DEF flips, class
  <2> QED
    BY <2>1
<1>10. bitsXorIsZero(column, row, coef) <=> Cardinality(r) % 2 = 0
  BY DEF bitsXorIsZero
<1>11. Cardinality(r) \in Nat
  <2>1. IsFiniteSet(0..(B - 1))
    BY <1>3, FS_Interval
  <2>2. r \in SUBSET (0..(B - 1))
    OBVIOUS
  <2> QED
    BY <2>1, <2>2, FS_Subset, FS_CardinalityType
<1> HIDE DEF r, odds, part
<1>12. Cardinality(r) % 2 = 0 <=> ~Odd(r)
  BY <1>11 DEF Odd
<1> QED
  BY <1>7, <1>8, <1>9, <1>10, <1>12 DEF S

-----------------------------------------------------------------------------
(* The ribbon *)

Equation == [s : Nat, a : Vector, b : {0, 1}]

\* The steps at which a block is under construction.
Building == {"select", "insert", "solve"}

\* The fields of a block that the ribbons depend on.
BlockInv ==
    /\ DOMAIN b = DOMAIN NoBlock
    /\ pc \notin Building => b.exceptions = {}
    /\ pc \in Building =>
          /\ Len(blocks) < Len(issuers) /\ nR > 0
          /\ b.approxM \in Nat \ {0} /\ b.exactM \in Nat

\* The universe begins with the revoked serials, and the others follow.
UniverseInv ==
    /\ pc \in Building =>
          /\ universe \in Seq(Range(Issuer.Revoked) \cup Range(Issuer.NotRevoked))
          /\ nR <= Len(universe)
          /\ \A n \in 1..Len(universe) : n > nR => universe[n] \in Range(Issuer.NotRevoked)
    /\ pc = "select" => k \in Nat \ {0}
    /\ pc = "insert" => k \in 1..Len(universe)

\* The inserts up to here are of revoked serials, or for the approximate filter.
OnlyRevoked == b.exactM = 0 \/ k <= nR

\* As long as they are, no right-hand side is 1.
Homogeneous ==
    pc = "insert" /\ OnlyRevoked => eq.b = 0 /\ \A n \in 1..Len(rows) : rows[n].b = 0

\* The inductive invariant.
RibbonInv ==
    /\ issuers \in Filters
    /\ blocks \in Seq(Range(blocks))
    /\ pc \in Building \cup {"block", "built"}
    /\ rows \in Seq(Equation) /\ eq \in Equation
    /\ BlockInv
    /\ UniverseInv
    /\ RowsAligned
    /\ Homogeneous
    /\ ExceptionsNotRevoked

-----------------------------------------------------------------------------
(* Numbers and words *)

\* The lowest coefficient of a vector that is not zero.
LEMMA MinIsSmallest ==
  ASSUME NEW S \in SUBSET Nat, S # {}
  PROVE  Min(S) \in S /\ \A m \in S : Min(S) <= m
<1> DEFINE Smaller == {ss \in Nat \X Nat : ss[1] < ss[2]}
<1>1. IsWellFoundedOn(Smaller, Nat)
  BY NatLessThanWellFounded DEF OpToRel
<1> HIDE DEF Smaller
<1>2. PICK x \in S : TRUE
  OBVIOUS
<1>3. PICK n \in S : \A m \in S : ~(<<m, n>> \in Smaller)
  BY <1>1, <1>2, WFMin
<1>4. \A m \in S : ~(m < n)
  BY <1>3 DEF Smaller
<1>5. \A m \in S : n <= m
  BY <1>4
<1> QED
  BY <1>5 DEF Min

\* The length of a list of rows that may have to grow.
LEMMA MaxOfTwo ==
  ASSUME NEW m \in Nat, NEW n \in Nat
  PROVE  Max({m, n}) \in Nat /\ Max({m, n}) >= m /\ Max({m, n}) >= n
<1>1. \E x \in {m, n} : \A y \in {m, n} : x >= y
  BY m >= n \/ n >= m
<1> QED
  BY <1>1 DEF Max

\* The most significant word of a vector is a natural number.
LEMMA HighNat ==
  ASSUME NEW a
  PROVE  High(a) \in Nat
<1> DEFINE S == {v \in Word : Below(v, Limb(a, W - 1))}
<1>1. IsFiniteSet(0..(B - 1))
  BY ClubcardAssumption, FS_Interval
<1>2. IsFiniteSet(Word)
  BY <1>1, FS_SUBSET DEF Word
<1>3. IsFiniteSet(S)
  BY <1>2, FS_Subset
<1>4. Cardinality(S) \in Nat
  BY <1>3, FS_CardinalityType
<1> QED
  BY <1>4 DEF High, Value

-----------------------------------------------------------------------------
(* Equations *)

\* A free row.
LEMMA ZeroEqTyped == ZeroEq \in Equation /\ ZeroEq.b = 0 /\ isZero(ZeroEq)
  BY DEF ZeroEq, Equation, isZero, Vector

\* What the assumption says of the issuer at hand.
LEMMA IssuerFacts ==
  ASSUME issuers \in Filters, blocks \in Seq(Range(blocks)), Len(blocks) < Len(issuers)
  PROVE  /\ Issuer.Revoked \in Seq(Range(Issuer.Revoked))
         /\ Issuer.NotRevoked \in Seq(Range(Issuer.NotRevoked))
         /\ nR \in Nat
         /\ \A s \in Range(Issuer.Revoked) \cup Range(Issuer.NotRevoked) :
               Hash(Issuer.id, s) \in Vector
<1>1. Len(blocks) + 1 \in 1..Len(issuers)
  BY BuilderAssumption
<1>3. PICK n \in 1..Len(issuers) : Issuer = issuers[n]
  BY <1>1 DEF Issuer
<1>4. /\ Issuer.Revoked \in Seq(Range(Issuer.Revoked))
      /\ Issuer.NotRevoked \in Seq(Range(Issuer.NotRevoked))
      /\ \A s \in Range(Issuer.Revoked) \cup Range(Issuer.NotRevoked) :
            Hash(Issuer.id, s) \in Vector
  BY <1>3, BuilderAssumption
<1>5. nR \in Nat
  BY <1>4 DEF nR
<1> QED
  BY <1>4, <1>5

\* The equation of a serial is aligned: hashAll sets the lowest bit.
LEMMA EquationTyped ==
  ASSUME issuers \in Filters, blocks \in Seq(Range(blocks)), Len(blocks) < Len(issuers),
         NEW s \in Range(Issuer.Revoked) \cup Range(Issuer.NotRevoked),
         NEW m \in Nat \ {0}, NEW rhs \in {0, 1}
  PROVE  /\ equation(s, m, rhs) \in Equation
         /\ 0 \in equation(s, m, rhs).a
         /\ equation(s, m, rhs).b = rhs
<1>0. 0 \in 0..(W * B - 1)
  BY ClubcardAssumption
<1>1. Item(s) \in Vector /\ 0 \in Item(s)
  BY <1>0, IssuerFacts DEF Item, Vector
<1>2. High(Item(s)) % m \in Nat
  BY HighNat
<1> QED
  BY <1>1, <1>2 DEF equation, Equation

\* equation.add keeps equations aligned, and adds homogeneous ones to a
\* homogeneous one.
LEMMA AddAligned ==
  ASSUME NEW e \in Equation, NEW o \in Equation
  PROVE  /\ add(e, o) \in Equation
         /\ ~isZero(add(e, o)) => 0 \in add(e, o).a
         /\ e.b = 0 /\ o.b = 0 => add(e, o).b = 0
<1> DEFINE sum == SymDiff(e.a, o.a)
           low == IF sum = {} THEN 0 ELSE Min(sum)
<1>0. sum \in Vector
  BY DEF SymDiff, Equation, Vector
<1>1. sum \in SUBSET Nat
  BY <1>0, ClubcardAssumption DEF Vector
<1>2. low \in Nat /\ (sum # {} => low \in sum) /\ \A n \in sum : low <= n
  BY <1>1, MinIsSmallest
<1>3. add(e, o) = [s |-> e.s + low, a |-> {n - low : n \in sum}, b |-> Plus(e.b, o.b)]
  BY DEF add
<1> HIDE DEF sum, low
<1>4. {n - low : n \in sum} \in Vector
  <2>1. W * B \in Nat
    BY ClubcardAssumption
  <2>2. ASSUME NEW n \in sum PROVE n - low \in 0..(W * B - 1)
    <3>1. n \in 0..(W * B - 1) /\ low <= n
      BY <1>0, <1>2 DEF Vector
    <3> QED
      BY <1>2, <2>1, <3>1
  <2> QED
    BY <2>2 DEF Vector
<1>5. sum # {} => 0 \in {n - low : n \in sum}
  <2>1. low - low = 0
    BY <1>2
  <2> QED
    BY <1>2, <2>1
<1>6. Plus(e.b, o.b) \in {0, 1} /\ (e.b = 0 /\ o.b = 0 => Plus(e.b, o.b) = 0)
  BY DEF Plus, Equation
<1>7. e.s + low \in Nat
  BY <1>2 DEF Equation
<1>8. add(e, o) \in Equation
  BY <1>3, <1>4, <1>6, <1>7 DEF Equation
<1>9. ~isZero(add(e, o)) => 0 \in add(e, o).a
  BY <1>3, <1>5 DEF isZero
<1> QED
  BY <1>3, <1>6, <1>8, <1>9

\* More rows, all of them free, change nothing about those that are there.
LEMMA RowsGrow ==
  ASSUME rows \in Seq(Equation), RowsAligned, NEW s \in Nat
  PROVE  /\ RowsUpTo(s) \in Seq(Equation)
         /\ s + 1 \in 1..Len(RowsUpTo(s))
         /\ \A n \in 1..Len(RowsUpTo(s)) :
               ~isZero(RowsUpTo(s)[n]) => /\ RowsUpTo(s)[n].s = n - 1
                                          /\ 0 \in RowsUpTo(s)[n].a
         /\ (\A n \in 1..Len(rows) : rows[n].b = 0) =>
               \A n \in 1..Len(RowsUpTo(s)) : RowsUpTo(s)[n].b = 0
<1> DEFINE m == Max({Len(rows), s + 1})
<1>1. m \in Nat /\ m >= Len(rows) /\ m >= s + 1
  BY MaxOfTwo
<1>2. ZeroEq \in Equation /\ ZeroEq.b = 0 /\ isZero(ZeroEq)
  BY ZeroEqTyped
<1>3. RowsUpTo(s) = [n \in 1..m |-> IF n <= Len(rows) THEN rows[n] ELSE ZeroEq]
  BY DEF RowsUpTo
<1> HIDE DEF m
<1>4. \A n \in 1..m : RowsUpTo(s)[n] = IF n <= Len(rows) THEN rows[n] ELSE ZeroEq
  BY <1>3
<1>5. RowsUpTo(s) \in Seq(Equation) /\ Len(RowsUpTo(s)) = m
  <2>1. \A n \in 1..m : RowsUpTo(s)[n] \in Equation
    BY <1>1, <1>2, <1>4
  <2>2. RowsUpTo(s) \in [1..m -> Equation]
    BY <1>3, <2>1
  <2> QED
    BY <1>1, <2>2
<1>6. \A n \in 1..m : n <= Len(rows) => n \in 1..Len(rows)
  BY <1>1
<1>7. \A n \in 1..m : ~isZero(RowsUpTo(s)[n]) =>
         RowsUpTo(s)[n].s = n - 1 /\ 0 \in RowsUpTo(s)[n].a
  BY <1>2, <1>4, <1>6 DEF RowsAligned
<1>8. (\A n \in 1..Len(rows) : rows[n].b = 0) => \A n \in 1..m : RowsUpTo(s)[n].b = 0
  BY <1>2, <1>4, <1>6
<1> QED
  BY <1>1, <1>5, <1>7, <1>8

\* Appending to a sequence, whatever its elements are.
LEMMA AppendSeq ==
  ASSUME NEW q, q \in Seq(Range(q)), NEW x
  PROVE  Append(q, x) \in Seq(Range(Append(q, x)))
<1> DEFINE T == Range(q) \cup {x}
<1>1. q \in Seq(T) /\ x \in T
  OBVIOUS
<1>2. PICK r \in Seq(T) : r = Append(q, x)
  <2>1. ASSUME NEW U, NEW y \in Seq(U), NEW w \in U PROVE Append(y, w) \in Seq(U)
    OBVIOUS
  <2> QED
    BY <1>1, <2>1
<1>3. Len(r) \in Nat /\ DOMAIN r = 1..Len(r) /\ r = [n \in 1..Len(r) |-> r[n]]
  OBVIOUS
<1>4. \A n \in 1..Len(r) : r[n] \in Range(r)
  BY <1>3 DEF Range
<1>5. r \in [1..Len(r) -> Range(r)]
  BY <1>3, <1>4
<1>6. r \in Seq(Range(r))
  BY <1>3, <1>5
<1> QED
  BY <1>2, <1>6

-----------------------------------------------------------------------------
(* Every step keeps the invariant *)

\* Nothing is built.
LEMMA Init_RibbonInv == Init => RibbonInv
<1> SUFFICES ASSUME Init PROVE RibbonInv
  OBVIOUS
<1>1. /\ issuers \in Filters /\ blocks = <<>> /\ pc = "block" /\ b = NoBlock /\ rows = <<>>
      /\ eq = ZeroEq
  BY DEF Init
<1>2. blocks \in Seq(Range(blocks)) /\ rows \in Seq(Equation) /\ eq \in Equation
  BY <1>1, ZeroEqTyped
<1>3. BlockInv /\ UniverseInv /\ Homogeneous
  BY <1>1 DEF BlockInv, UniverseInv, Homogeneous, Building, NoBlock
<1>4. RowsAligned
  BY <1>1 DEF RowsAligned
<1>5. ExceptionsNotRevoked
  BY <1>1 DEF ExceptionsNotRevoked, NoBlock
<1> QED
  BY <1>1, <1>2, <1>3, <1>4, <1>5 DEF RibbonInv

\* The right-hand side is 1 only for what comes after the revoked serials, in
\* the exact filter.
LEMMA EquationForTyped ==
  ASSUME issuers \in Filters, blocks \in Seq(Range(blocks)), Len(blocks) < Len(issuers),
         NEW u \in Seq(Range(Issuer.Revoked) \cup Range(Issuer.NotRevoked)),
         NEW n \in 1..Len(u), NEW blk, blk.approxM \in Nat \ {0}, blk.exactM \in Nat
  PROVE  /\ EquationFor(blk, u, n) \in Equation
         /\ 0 \in EquationFor(blk, u, n).a
         /\ blk.exactM = 0 \/ n <= nR => EquationFor(blk, u, n).b = 0
<1> DEFINE rhs == IF blk.exactM > 0 /\ n > nR THEN 1 ELSE 0
<1>1. M(blk) \in Nat \ {0}
  BY DEF M
<1>2. u[n] \in Range(Issuer.Revoked) \cup Range(Issuer.NotRevoked)
  OBVIOUS
<1>3. rhs \in {0, 1} /\ (blk.exactM = 0 \/ n <= nR => rhs = 0)
  BY IssuerFacts
<1>4. EquationFor(blk, u, n) = equation(u[n], M(blk), rhs)
  BY DEF EquationFor
<1> HIDE DEF rhs
<1> QED
  BY <1>1, <1>2, <1>3, <1>4, EquationTyped

\* A fresh ribbon: all rows are free and the first equation is homogeneous,
\* because there is a revoked serial and it is first.
LEMMA StartRibbon_RibbonInv ==
  ASSUME RibbonInv, Len(blocks) < Len(issuers), nR > 0,
         NEW blk, StartRibbon(blk, universe'), DOMAIN blk = DOMAIN NoBlock,
         blk.approxM \in Nat \ {0}, blk.exactM \in Nat,
         blk.exceptions \subseteq Range(Issuer.NotRevoked),
         universe' \in Seq(Range(Issuer.Revoked) \cup Range(Issuer.NotRevoked)),
         nR <= Len(universe'),
         \A n \in 1..Len(universe') : n > nR => universe'[n] \in Range(Issuer.NotRevoked)
  PROVE  RibbonInv'
<1>1. PICK u : u = universe'
  OBVIOUS
<1>2. /\ b' = blk /\ rows' = newRibbon(M(blk)) /\ k' = 1 /\ eq' = EquationFor(blk, u, 1)
      /\ pc' = "insert" /\ issuers' = issuers /\ blocks' = blocks
  BY <1>1 DEF StartRibbon
<1>3. Issuer' = Issuer /\ nR' = nR /\ nR \in Nat
  BY <1>2, IssuerFacts DEF Issuer, nR, RibbonInv
<1>4. 1 \in 1..Len(u) /\ u \in Seq(Range(Issuer.Revoked) \cup Range(Issuer.NotRevoked))
  BY <1>1, <1>3
<1>5. eq' \in Equation /\ 0 \in eq'.a /\ eq'.b = 0
  BY <1>2, <1>3, <1>4, EquationForTyped, SMTT(20) DEF RibbonInv
<1>6. M(blk) \in Nat
  BY DEF M
<1>7. ZeroEq \in Equation /\ ZeroEq.b = 0 /\ isZero(ZeroEq)
  BY ZeroEqTyped
<1>8. rows' \in Seq(Equation) /\ \A n \in 1..Len(rows') : rows'[n] = ZeroEq
  BY <1>2, <1>6, <1>7 DEF newRibbon
<1>9. BlockInv'
  BY <1>2, <1>3 DEF BlockInv, Building
<1>10. UniverseInv'
  BY <1>1, <1>2, <1>3, <1>4 DEF UniverseInv, Building
<1>11. RowsAligned' /\ Homogeneous'
  BY <1>5, <1>7, <1>8 DEF RowsAligned, Homogeneous
<1>12. ExceptionsNotRevoked'
  BY <1>2, <1>3 DEF ExceptionsNotRevoked
<1> QED
  BY <1>2, <1>5, <1>8, <1>9, <1>10, <1>11, <1>12 DEF RibbonInv, Building

\* The selection of the universe starts from the revoked serials.
LEMMA StartSelect_RibbonInv ==
  ASSUME RibbonInv, Len(blocks) < Len(issuers), nR > 0,
         NEW blk, StartSelect(blk), DOMAIN blk = DOMAIN NoBlock,
         blk.approxM \in Nat \ {0}, blk.exactM \in Nat,
         blk.exceptions \subseteq Range(Issuer.NotRevoked)
  PROVE  RibbonInv'
<1>1. /\ b' = blk /\ universe' = Issuer.Revoked /\ k' = 1 /\ pc' = "select"
      /\ UNCHANGED <<issuers, blocks, rows, eq>>
  BY DEF StartSelect
<1>2. Issuer' = Issuer /\ nR' = nR /\ nR \in Nat /\ nR = Len(Issuer.Revoked)
  BY <1>1, IssuerFacts DEF Issuer, nR, RibbonInv
<1>3. Issuer.Revoked \in Seq(Range(Issuer.Revoked) \cup Range(Issuer.NotRevoked))
  <2>1. Issuer.Revoked \in Seq(Range(Issuer.Revoked))
    BY IssuerFacts DEF RibbonInv
  <2> QED
    BY <2>1
<1>4. BlockInv'
  BY <1>1, <1>2 DEF BlockInv, Building
<1>5. UniverseInv'
  BY <1>1, <1>2, <1>3 DEF UniverseInv, Building
<1>6. RowsAligned' /\ Homogeneous'
  BY <1>1 DEF RibbonInv, RowsAligned, Homogeneous
<1>7. ExceptionsNotRevoked'
  BY <1>1, <1>2 DEF ExceptionsNotRevoked
<1> QED
  BY <1>1, <1>4, <1>5, <1>6, <1>7 DEF RibbonInv, Building

\* The sizes of a block before any ribbon is solved.
LEMMA SizedTyped ==
  ASSUME issuers \in Filters, blocks \in Seq(Range(blocks)), Len(blocks) < Len(issuers), ~EmptyBlock
  PROVE  /\ DOMAIN Sized = DOMAIN NoBlock /\ nR > 0
         /\ Sized.approxM \in Nat \ {0} /\ Sized.exactM = 0 /\ Sized.exceptions = {}
<1>1. nR \in Nat /\ nR # 0 /\ nR # nU
  BY IssuerFacts DEF EmptyBlock
<1>2. nR + (nR \div 50) \in Nat \ {0}
  BY <1>1
<1>3. /\ DOMAIN Sized = DOMAIN NoBlock /\ Sized.approxM = nR + (nR \div 50)
      /\ Sized.exactM = 0 /\ Sized.exceptions = {}
  BY <1>1 DEF Sized, NoBlock
<1> QED
  BY <1>1, <1>2, <1>3

\* buildBlock: an empty block is done, any other starts on its first filter.
LEMMA buildBlock_RibbonInv ==
  ASSUME RibbonInv, buildBlock
  PROVE  RibbonInv'
<1>1. /\ pc = "block" /\ Len(blocks) < Len(issuers) /\ issuers \in Filters
      /\ blocks \in Seq(Range(blocks))
  BY DEF buildBlock, RibbonInv
<1>2. CASE EmptyBlock
  <2>1. blocks' = Append(blocks, Sized) /\ UNCHANGED <<issuers, pc, b, universe, rows, eq, k>>
    BY <1>2 DEF buildBlock
  <2>2. blocks' \in Seq(Range(blocks'))
    BY <1>1, <2>1, AppendSeq
  <2>3. BlockInv' /\ UniverseInv' /\ Homogeneous' /\ RowsAligned'
    BY <1>1, <2>1 DEF RibbonInv, BlockInv, UniverseInv, Homogeneous, RowsAligned, Building
  <2>4. ExceptionsNotRevoked'
    BY <1>1, <2>1 DEF ExceptionsNotRevoked, RibbonInv, BlockInv, Building
  <2> QED
    BY <1>1, <2>1, <2>2, <2>3, <2>4 DEF RibbonInv, Building
<1>3. CASE ~EmptyBlock /\ StartRibbon(Sized, Issuer.Revoked)
  <2>1. universe' = Issuer.Revoked /\ Issuer.Revoked \in Seq(Range(Issuer.Revoked))
    BY <1>1, <1>3, IssuerFacts DEF StartRibbon
  <2>2. universe' \in Seq(Range(Issuer.Revoked) \cup Range(Issuer.NotRevoked))
    BY <2>1
  <2>3. nR = Len(universe') /\ nR \in Nat
    BY <1>1, <2>1, IssuerFacts DEF nR
  <2>4. StartRibbon(Sized, universe')
    BY <1>3, <2>1
  <2>5. \A n \in 1..Len(universe') : n > nR => universe'[n] \in Range(Issuer.NotRevoked)
    BY <2>3
  <2>6. Sized.exactM \in Nat /\ Sized.exceptions \subseteq Range(Issuer.NotRevoked)
    BY <1>1, <1>3, SizedTyped
  <2>7. PICK blk : blk = Sized
    OBVIOUS
  <2> QED
    BY <1>1, <1>3, <2>2, <2>3, <2>4, <2>5, <2>6, <2>7, SizedTyped, StartRibbon_RibbonInv
<1>4. CASE ~EmptyBlock /\ StartSelect(Sized)
  <2>1. Sized.exactM \in Nat /\ Sized.exceptions \subseteq Range(Issuer.NotRevoked)
    BY <1>1, <1>4, SizedTyped
  <2>2. PICK blk : blk = Sized
    OBVIOUS
  <2> QED
    BY <1>1, <1>4, <2>1, <2>2, SizedTyped, StartSelect_RibbonInv
<1> QED
  BY <1>2, <1>3, <1>4 DEF buildBlock

\* One more serial that is not revoked, at the end of the universe or left out.
LEMMA Select_RibbonInv ==
  ASSUME RibbonInv, Select
  PROVE  RibbonInv'
<1>1. /\ pc = "select" /\ k <= Len(Issuer.NotRevoked) /\ k' = k + 1
      /\ universe' \in {universe, Append(universe, Issuer.NotRevoked[k])}
      /\ UNCHANGED <<issuers, blocks, pc, b, rows, eq>>
  BY DEF Select, Extended
<1>2. Len(blocks) < Len(issuers) /\ k \in Nat \ {0}
  BY <1>1 DEF RibbonInv, BlockInv, UniverseInv, Building
<1>3. /\ Issuer' = Issuer /\ nR' = nR /\ nR \in Nat
      /\ Issuer.NotRevoked \in Seq(Range(Issuer.NotRevoked))
  BY <1>1, <1>2, IssuerFacts DEF Issuer, nR, RibbonInv
<1>4. Issuer.NotRevoked[k] \in Range(Issuer.NotRevoked)
  BY <1>1, <1>2, <1>3
<1> DEFINE S == Range(Issuer.Revoked) \cup Range(Issuer.NotRevoked)
<1>5. /\ universe \in Seq(S) /\ nR <= Len(universe)
      /\ \A n \in 1..Len(universe) : n > nR => universe[n] \in Range(Issuer.NotRevoked)
  BY <1>1 DEF RibbonInv, UniverseInv, Building
<1>6. /\ universe' \in Seq(S) /\ nR <= Len(universe')
      /\ \A n \in 1..Len(universe') : n > nR => universe'[n] \in Range(Issuer.NotRevoked)
  <2>1. CASE universe' = universe
    BY <1>5, <2>1
  <2>2. CASE universe' = Append(universe, Issuer.NotRevoked[k])
    <3>1. Issuer.NotRevoked[k] \in S
      BY <1>4
    <3> HIDE DEF S
    <3> QED
      BY <1>3, <1>4, <1>5, <2>2, <3>1
  <2> QED
    BY <1>1, <2>1, <2>2
<1>7. UniverseInv'
  BY <1>1, <1>2, <1>3, <1>6 DEF UniverseInv, Building
<1>8. BlockInv' /\ RowsAligned' /\ Homogeneous' /\ ExceptionsNotRevoked'
  BY <1>1, <1>3 DEF RibbonInv, BlockInv, RowsAligned, Homogeneous, ExceptionsNotRevoked
<1> QED
  BY <1>1, <1>7, <1>8 DEF RibbonInv

\* The exact filter is started on the universe as selected.
LEMMA StartExact_RibbonInv ==
  ASSUME RibbonInv, StartExact
  PROVE  RibbonInv'
<1> DEFINE blk == [b EXCEPT !.exactM = exactM(universe)]
<1>1. pc = "select" /\ StartRibbon(blk, universe)
  BY DEF StartExact
<1>2. /\ Len(blocks) < Len(issuers) /\ nR > 0 /\ DOMAIN b = DOMAIN NoBlock
      /\ b.approxM \in Nat \ {0}
      /\ universe \in Seq(Range(Issuer.Revoked) \cup Range(Issuer.NotRevoked))
      /\ nR <= Len(universe)
      /\ \A n \in 1..Len(universe) : n > nR => universe[n] \in Range(Issuer.NotRevoked)
      /\ b.exceptions \subseteq Range(Issuer.NotRevoked)
  BY <1>1 DEF RibbonInv, BlockInv, UniverseInv, Building, ExceptionsNotRevoked
<1>3. exactM(universe) \in Nat
  <2>1. Len(universe) \in Nat
    BY <1>2
  <2> QED
    BY <2>1 DEF exactM
<1>4. /\ DOMAIN blk = DOMAIN NoBlock /\ blk.approxM = b.approxM /\ blk.exceptions = b.exceptions
      /\ blk.exactM = exactM(universe)
  BY <1>2 DEF NoBlock
<1>5. universe' = universe
  BY <1>1 DEF StartRibbon
<1>6. PICK c : c = blk
  OBVIOUS
<1> HIDE DEF blk
<1> QED
  BY <1>1, <1>2, <1>3, <1>4, <1>5, <1>6, StartRibbon_RibbonInv

-----------------------------------------------------------------------------
(* insert *)

\* What holds while an equation is being inserted.
LEMMA InsertFacts ==
  ASSUME RibbonInv, pc = "insert"
  PROVE  /\ issuers \in Filters /\ blocks \in Seq(Range(blocks)) /\ Len(blocks) < Len(issuers)
         /\ nR \in Nat /\ nR > 0 /\ nR <= Len(universe)
         /\ universe \in Seq(Range(Issuer.Revoked) \cup Range(Issuer.NotRevoked))
         /\ \A n \in 1..Len(universe) : n > nR => universe[n] \in Range(Issuer.NotRevoked)
         /\ k \in 1..Len(universe) /\ DOMAIN b = DOMAIN NoBlock
         /\ b.approxM \in Nat \ {0} /\ b.exactM \in Nat
         /\ b.exceptions \subseteq Range(Issuer.NotRevoked)
         /\ rows \in Seq(Equation) /\ eq \in Equation
  BY IssuerFacts DEF RibbonInv, BlockInv, UniverseInv, Building, ExceptionsNotRevoked

\* insert returned: the next equation, or solve.
LEMMA Inserted_RibbonInv ==
  ASSUME RibbonInv, pc = "insert", Inserted, UNCHANGED <<issuers, blocks, universe>>,
         rows' \in Seq(Equation),
         \A n \in 1..Len(rows') : ~isZero(rows'[n]) => rows'[n].s = n - 1 /\ 0 \in rows'[n].a,
         OnlyRevoked => \A n \in 1..Len(rows') : rows'[n].b = 0,
         DOMAIN b' = DOMAIN NoBlock, b'.approxM = b.approxM, b'.exactM = b.exactM,
         b'.exceptions \subseteq Range(Issuer.NotRevoked)
  PROVE  RibbonInv'
<1>1. Issuer' = Issuer /\ nR' = nR
  BY DEF Issuer, nR
<1>2. ExceptionsNotRevoked'
  BY <1>1 DEF ExceptionsNotRevoked
<1>3. CASE k < Len(universe) /\ k' = k + 1 /\ eq' = EquationFor(b, universe, k + 1) /\ pc' = pc
  <2>1. k + 1 \in 1..Len(universe)
    BY <1>3, InsertFacts
  <2>2. /\ eq' \in Equation /\ 0 \in eq'.a
        /\ b.exactM = 0 \/ k + 1 <= nR => eq'.b = 0
    <3>1. PICK n \in 1..Len(universe) : n = k + 1
      BY <2>1
    <3>2. PICK blk : blk = b
      OBVIOUS
    <3> QED
      BY <1>3, <3>1, <3>2, InsertFacts, EquationForTyped
  <2>3. BlockInv' /\ UniverseInv'
    BY <1>1, <1>3, <2>1, InsertFacts DEF BlockInv, UniverseInv, Building
  <2>4. RowsAligned'
    BY <2>2 DEF RowsAligned
  <2>5. Homogeneous'
    <3>1. OnlyRevoked' => (b.exactM = 0 \/ k + 1 <= nR) /\ OnlyRevoked
      BY <1>1, <1>3, InsertFacts DEF OnlyRevoked
    <3> QED
      BY <2>2, <3>1 DEF Homogeneous
  <2> QED
    BY <1>2, <1>3, <2>2, <2>3, <2>4, <2>5 DEF RibbonInv, Building
<1>4. CASE k = Len(universe) /\ pc' = "solve" /\ eq' = eq
  <2>1. BlockInv' /\ UniverseInv'
    BY <1>1, <1>4, InsertFacts DEF BlockInv, UniverseInv, Building
  <2>2. RowsAligned' /\ Homogeneous'
    BY <1>4 DEF RowsAligned, Homogeneous
  <2> QED
    BY <1>2, <1>4, <2>1, <2>2 DEF RibbonInv, Building
<1> QED
  BY <1>3, <1>4 DEF Inserted

\* insert finds the row free.
LEMMA Place_RibbonInv ==
  ASSUME RibbonInv, Place
  PROVE  RibbonInv'
<1>1. /\ pc = "insert" /\ ~isZero(eq) /\ Inserted /\ UNCHANGED <<issuers, blocks, b, universe>>
      /\ rows' = [RowsUpTo(eq.s) EXCEPT ![eq.s + 1] = eq]
  BY DEF Place
<1>2. eq \in Equation /\ rows \in Seq(Equation) /\ RowsAligned /\ 0 \in eq.a /\ eq.s \in Nat
  BY <1>1 DEF RibbonInv, RowsAligned, Equation
<1>3. PICK up : up = RowsUpTo(eq.s)
  OBVIOUS
<1>4. /\ up \in Seq(Equation) /\ eq.s + 1 \in 1..Len(up)
      /\ \A n \in 1..Len(up) : ~isZero(up[n]) => up[n].s = n - 1 /\ 0 \in up[n].a
      /\ (\A n \in 1..Len(rows) : rows[n].b = 0) => \A n \in 1..Len(up) : up[n].b = 0
  BY <1>2, <1>3, RowsGrow
<1>5. /\ rows' \in Seq(Equation) /\ Len(rows') = Len(up)
      /\ \A n \in 1..Len(up) : rows'[n] = IF n = eq.s + 1 THEN eq ELSE up[n]
  BY <1>1, <1>2, <1>3, <1>4
<1>6. \A n \in 1..Len(rows') : ~isZero(rows'[n]) => rows'[n].s = n - 1 /\ 0 \in rows'[n].a
  BY <1>2, <1>4, <1>5
<1>7. OnlyRevoked => \A n \in 1..Len(rows') : rows'[n].b = 0
  BY <1>1, <1>4, <1>5 DEF RibbonInv, Homogeneous
<1> QED
  BY <1>1, <1>5, <1>6, <1>7, InsertFacts, Inserted_RibbonInv

\* insert finds the row taken, and adds it.
LEMMA Eliminate_RibbonInv ==
  ASSUME RibbonInv, Eliminate
  PROVE  RibbonInv'
<1>1. /\ pc = "insert" /\ rows' = RowsUpTo(eq.s) /\ eq' = add(eq, rows'[eq.s + 1])
      /\ UNCHANGED <<issuers, blocks, pc, b, universe, k>>
  BY DEF Eliminate
<1>2. eq \in Equation /\ rows \in Seq(Equation) /\ RowsAligned /\ eq.s \in Nat
  BY <1>1 DEF RibbonInv, Equation
<1>3. /\ rows' \in Seq(Equation) /\ eq.s + 1 \in 1..Len(rows')
      /\ \A n \in 1..Len(rows') : ~isZero(rows'[n]) => rows'[n].s = n - 1 /\ 0 \in rows'[n].a
      /\ (\A n \in 1..Len(rows) : rows[n].b = 0) => \A n \in 1..Len(rows') : rows'[n].b = 0
  BY <1>1, <1>2, RowsGrow
<1>4. rows'[eq.s + 1] \in Equation
  BY <1>3
<1>5. /\ eq' \in Equation /\ (~isZero(eq') => 0 \in eq'.a)
      /\ eq.b = 0 /\ rows'[eq.s + 1].b = 0 => eq'.b = 0
  BY <1>1, <1>2, <1>4, AddAligned
<1>6. Issuer' = Issuer /\ nR' = nR
  BY <1>1 DEF Issuer, nR
<1>7. BlockInv' /\ UniverseInv' /\ ExceptionsNotRevoked'
  BY <1>1, <1>6 DEF RibbonInv, BlockInv, UniverseInv, ExceptionsNotRevoked
<1>8. RowsAligned'
  BY <1>3, <1>5 DEF RowsAligned
<1>9. Homogeneous'
  BY <1>1, <1>3, <1>5, <1>6 DEF RibbonInv, Homogeneous, OnlyRevoked
<1> QED
  BY <1>1, <1>3, <1>5, <1>7, <1>8, <1>9 DEF RibbonInv

\* Nothing is left of the equation.  If it reads 0 = 1 the serial is not one of
\* the revoked ones.
LEMMA Vanish_RibbonInv ==
  ASSUME RibbonInv, Vanish
  PROVE  RibbonInv'
<1>1. /\ pc = "insert" /\ rows' = rows /\ Inserted /\ UNCHANGED <<issuers, blocks, universe>>
      /\ b' = IF Exact /\ eq.b = 1 THEN [b EXCEPT !.exceptions = @ \cup {universe[k]}] ELSE b
  BY DEF Vanish
<1>2. Exact /\ eq.b = 1 => universe[k] \in Range(Issuer.NotRevoked)
  <2>1. eq.b = 1 => ~OnlyRevoked
    BY <1>1 DEF RibbonInv, Homogeneous
  <2> QED
    BY <1>1, <2>1, InsertFacts DEF OnlyRevoked
<1>3. /\ DOMAIN b' = DOMAIN NoBlock /\ b'.approxM = b.approxM /\ b'.exactM = b.exactM
      /\ b'.exceptions \in {b.exceptions, b.exceptions \cup {universe[k]}}
      /\ b'.exceptions # b.exceptions => Exact /\ eq.b = 1
  BY <1>1, InsertFacts DEF NoBlock
<1>4. b'.exceptions \subseteq Range(Issuer.NotRevoked)
  BY <1>1, <1>2, <1>3, InsertFacts
<1>5. OnlyRevoked => \A n \in 1..Len(rows') : rows'[n].b = 0
  BY <1>1 DEF RibbonInv, Homogeneous
<1>6. \A n \in 1..Len(rows') : ~isZero(rows'[n]) => rows'[n].s = n - 1 /\ 0 \in rows'[n].a
  BY <1>1 DEF RibbonInv, RowsAligned
<1> QED
  BY <1>1, <1>3, <1>4, <1>5, <1>6, InsertFacts, Inserted_RibbonInv

-----------------------------------------------------------------------------
(* solve, and the ends of the filters *)

\* Solving a row, or nothing at all, touches none of what the invariant is about.
LEMMA SolveRow_RibbonInv ==
  ASSUME RibbonInv, pc # "insert" /\ pc # "select", UNCHANGED <<issuers, blocks, pc, b, universe, rows, eq>>
  PROVE  RibbonInv'
<1>1. Issuer' = Issuer /\ nR' = nR
  BY DEF Issuer, nR
<1>2. BlockInv' /\ UniverseInv' /\ ExceptionsNotRevoked'
  BY <1>1 DEF RibbonInv, BlockInv, UniverseInv, ExceptionsNotRevoked
<1>3. RowsAligned' /\ Homogeneous'
  BY DEF RibbonInv, RowsAligned, Homogeneous
<1> QED
  BY <1>2, <1>3 DEF RibbonInv

\* A column of the approximate filter is done: the next one, or the universe.
LEMMA ApproxSolved_RibbonInv ==
  ASSUME RibbonInv, ApproxSolved
  PROVE  RibbonInv'
<1> DEFINE blk == [b EXCEPT !.approxSegs = Append(@, z)]
<1>1. /\ pc = "solve"
      /\ \/ b' = blk /\ UNCHANGED <<issuers, blocks, pc, universe, rows, eq>>
         \/ StartSelect(blk)
  BY DEF ApproxSolved
<1>2. /\ Len(blocks) < Len(issuers) /\ nR > 0 /\ DOMAIN b = DOMAIN NoBlock
      /\ b.approxM \in Nat \ {0} /\ b.exactM \in Nat
      /\ b.exceptions \subseteq Range(Issuer.NotRevoked)
  BY <1>1 DEF RibbonInv, BlockInv, Building, ExceptionsNotRevoked
<1>3. /\ DOMAIN blk = DOMAIN NoBlock /\ blk.approxM = b.approxM /\ blk.exactM = b.exactM
      /\ blk.exceptions = b.exceptions
  BY <1>2 DEF NoBlock
<1>4. PICK c : c = blk
  OBVIOUS
<1> HIDE DEF blk
<1>5. CASE StartSelect(blk)
  BY <1>2, <1>3, <1>4, <1>5, StartSelect_RibbonInv
<1>6. CASE b' = blk /\ UNCHANGED <<issuers, blocks, pc, universe, rows, eq>>
  <2>1. Issuer' = Issuer /\ nR' = nR
    BY <1>6 DEF Issuer, nR
  <2>2. BlockInv' /\ UniverseInv' /\ ExceptionsNotRevoked'
    BY <1>1, <1>2, <1>3, <1>6, <2>1
    DEF RibbonInv, BlockInv, UniverseInv, ExceptionsNotRevoked, Building
  <2>3. RowsAligned' /\ Homogeneous'
    BY <1>1, <1>6 DEF RibbonInv, RowsAligned, Homogeneous
  <2> QED
    BY <1>6, <2>2, <2>3 DEF RibbonInv
<1> QED
  BY <1>1, <1>5, <1>6

\* The exact filter is done and with it the block.
LEMMA ExactSolved_RibbonInv ==
  ASSUME RibbonInv, ExactSolved
  PROVE  RibbonInv'
<1>1. /\ blocks' = Append(blocks, [b EXCEPT !.exactSeg = z]) /\ pc' = "block"
      /\ b' = NoBlock /\ rows' = <<>> /\ eq' = ZeroEq /\ UNCHANGED issuers
  BY DEF ExactSolved
<1>2. blocks' \in Seq(Range(blocks'))
  BY <1>1, AppendSeq DEF RibbonInv
<1>3. rows' \in Seq(Equation) /\ eq' \in Equation
  BY <1>1, ZeroEqTyped
<1>4. BlockInv' /\ UniverseInv' /\ Homogeneous'
  BY <1>1 DEF BlockInv, UniverseInv, Homogeneous, Building, NoBlock
<1>5. RowsAligned'
  BY <1>1 DEF RowsAligned
<1>6. ExceptionsNotRevoked'
  BY <1>1 DEF ExceptionsNotRevoked, NoBlock
<1> QED
  BY <1>1, <1>2, <1>3, <1>4, <1>5, <1>6 DEF RibbonInv

\* Laying the blocks out changes none of them.
LEMMA Bytes_RibbonInv ==
  ASSUME RibbonInv, Bytes \/ UNCHANGED vars
  PROVE  RibbonInv'
<1>1. /\ UNCHANGED <<issuers, blocks, b, universe, rows, eq, k>>
      /\ pc' = pc \/ (pc = "block" /\ pc' = "built")
  BY DEF Bytes, vars
<1>2. Issuer' = Issuer /\ nR' = nR
  BY <1>1 DEF Issuer, nR
<1>3. BlockInv' /\ UniverseInv' /\ ExceptionsNotRevoked'
  BY <1>1, <1>2 DEF RibbonInv, BlockInv, UniverseInv, ExceptionsNotRevoked, Building
<1>4. RowsAligned'
  BY <1>1 DEF RibbonInv, RowsAligned
<1>5. Homogeneous'
  BY <1>1, <1>2 DEF RibbonInv, Homogeneous, OnlyRevoked
<1> QED
  BY <1>1, <1>3, <1>4, <1>5 DEF RibbonInv

-----------------------------------------------------------------------------
(* The theorems on the ribbon *)

\* The inductive invariant holds in every state; one case for each action.
THEOREM Builder_RibbonInv == Spec => []RibbonInv
<1>1. RibbonInv /\ [Next]_vars => RibbonInv'
  <2> SUFFICES ASSUME RibbonInv, [Next]_vars PROVE RibbonInv'
    OBVIOUS
  <2>1. CASE buildBlock \/ Select \/ StartExact
    BY <2>1, buildBlock_RibbonInv, Select_RibbonInv, StartExact_RibbonInv
  <2>2. CASE Place \/ Eliminate \/ Vanish
    BY <2>2, Place_RibbonInv, Eliminate_RibbonInv, Vanish_RibbonInv
  <2>3. CASE SolveRow
    BY <2>3, SolveRow_RibbonInv DEF SolveRow
  <2>4. CASE ApproxSolved \/ ExactSolved
    BY <2>4, ApproxSolved_RibbonInv, ExactSolved_RibbonInv
  <2>5. CASE Bytes \/ UNCHANGED vars
    BY <2>5, Bytes_RibbonInv
  <2> QED
    BY <2>1, <2>2, <2>3, <2>4, <2>5 DEF Next
<1> QED
  BY <1>1, Init_RibbonInv, PTL DEF Spec

\* A row of the ribbon that is not free sits at its own number and has its
\* lowest coefficient at 0, however often elimination shifted it, for any word
\* size and any hashes: back substitution in solve relies on both.
THEOREM Builder_RowsAligned == Spec => []RowsAligned
<1>1. RibbonInv => RowsAligned
  BY DEF RibbonInv
<1> QED
  BY <1>1, Builder_RibbonInv, PTL

\* The exceptions of a block never contain a revoked serial: inserting the
\* revoked ones first keeps all right-hand sides 0, so these inserts cannot fail.
THEOREM Builder_ExceptionsNotRevoked == Spec => []ExceptionsNotRevoked
<1>1. RibbonInv => ExceptionsNotRevoked
  BY DEF RibbonInv
<1> QED
  BY <1>1, Builder_RibbonInv, PTL

-----------------------------------------------------------------------------
(* Equations and their solutions *)

\* The bits of a column, and of a solution in general, as a set of rows.
Bits(col) == {n \in Nat : BitSet(col, n)}

\* The coefficients of e that meet a bit of x, and whether x solves e.
Hits(e, x) == {n \in e.a : e.s + n \in x}
Holds(e, x) == Odd(Hits(e, x)) <=> e.b = 1

\* Vectors have finitely many coefficients.
LEMMA HitsFinite ==
  ASSUME NEW e \in Equation, NEW x
  PROVE  IsFiniteSet(Hits(e, x))
<1>1. e.a \in Vector
  BY DEF Equation
<1>2. Hits(e, x) \in SUBSET e.a
  BY DEF Hits
<1> QED
  BY <1>1, <1>2, VectorFinite

\* An equation that has vanished says 0 = b.
LEMMA ZeroHolds ==
  ASSUME NEW e \in Equation, isZero(e), NEW x
  PROVE  Holds(e, x) <=> e.b = 0
<1>1. Hits(e, x) = {}
  BY DEF Hits, isZero
<1>2. e.b \in {0, 1}
  BY DEF Equation
<1> QED
  BY <1>1, <1>2, OddEmpty DEF Holds

\* equation.add: given a row that holds, the sum holds if and only if the
\* equation does.
LEMMA AddHolds ==
  ASSUME NEW e \in Equation, NEW o \in Equation, e.s = o.s, NEW x \in SUBSET Nat, Holds(o, x)
  PROVE  Holds(add(e, o), x) <=> Holds(e, x)
<1> DEFINE sum == SymDiff(e.a, o.a)
           low == IF sum = {} THEN 0 ELSE Min(sum)
           S == {n \in sum : e.s + n \in x}
           f == [n \in S |-> n - low]
<1>1. e.a \in Vector /\ o.a \in Vector /\ e.s \in Nat /\ e.b \in {0, 1} /\ o.b \in {0, 1}
  BY DEF Equation
<1>2. sum \in SUBSET Nat /\ S = SymDiff(Hits(e, x), Hits(o, x))
  <2>1. \A n \in e.a \cup o.a : n \in Nat
    BY <1>1, VectorFinite
  <2> QED
    BY <2>1 DEF SymDiff, Hits
<1>3. low \in Nat /\ \A n \in sum : low <= n
  BY <1>2, MinIsSmallest
<1>4. add(e, o) = [s |-> e.s + low, a |-> {n - low : n \in sum}, b |-> Plus(e.b, o.b)]
  BY DEF add
<1> HIDE DEF sum, low
<1>5. IsFiniteSet(S) /\ (Odd(S) <=> ~(Odd(Hits(e, x)) <=> Odd(Hits(o, x))))
  BY <1>2, HitsFinite, OddSymDiff
<1>6. f \in [S -> Hits(add(e, o), x)]
  <2>1. ASSUME NEW n \in S PROVE n - low \in Hits(add(e, o), x)
    <3>1. n \in sum /\ e.s + n \in x /\ n \in Nat
      BY <1>2
    <3>2. (e.s + low) + (n - low) = e.s + n
      BY <1>1, <1>3, <3>1
    <3>3. (e.s + low) + (n - low) \in x
      BY <3>1, <3>2
    <3>4. n - low \in {m - low : m \in sum}
      BY <3>1
    <3> QED
      BY <1>4, <3>3, <3>4 DEF Hits
  <2> QED
    BY <2>1
<1>7. \A m, n \in S : f[m] = f[n] => m = n
  <2>1. \A n \in S : n \in Nat
    BY <1>2
  <2> QED
    BY <1>3, <2>1
<1>8. ASSUME NEW y \in Hits(add(e, o), x) PROVE \E n \in S : f[n] = y
  <2>1. y \in {n - low : n \in sum} /\ (e.s + low) + y \in x
    BY <1>4 DEF Hits
  <2>2. PICK n \in sum : y = n - low
    BY <2>1
  <2>3. n \in Nat /\ (e.s + low) + (n - low) = e.s + n
    BY <1>1, <1>2, <1>3
  <2>4. n \in S
    BY <2>1, <2>2, <2>3
  <2> QED
    BY <2>2, <2>4
<1>9. Odd(Hits(add(e, o), x)) <=> Odd(S)
  <2> HIDE DEF f, S
  <2> QED
    BY <1>5, <1>6, <1>7, <1>8, OddBijection
<1>10. add(e, o).b = 1 <=> ~(e.b = 1 <=> o.b = 1)
  BY <1>1, <1>4 DEF Plus
<1> QED
  BY <1>5, <1>9, <1>10 DEF Holds

\* eval is the left-hand side under the bits of the column.
LEMMA EvalIsParity ==
  ASSUME NEW e \in Equation, NEW col \in Seq(Word)
  PROVE  /\ eval(e, col) = IF Odd(Hits(e, Bits(col))) THEN 1 ELSE 0
         /\ bitsXorIsZero(col, e.s, e.a) <=> ~Odd(Hits(e, Bits(col)))
<1>1. e.s \in Nat /\ e.a \in Vector
  BY DEF Equation
<1>2. \A n \in e.a : e.s + n \in Nat
  BY <1>1, VectorFinite
<1>3. {n \in e.a : BitSet(col, e.s + n)} = Hits(e, Bits(col))
  BY <1>2 DEF Hits, Bits
<1>4. bitsXorIsZero(col, e.s, e.a) <=> ~Odd(Hits(e, Bits(col)))
  BY <1>1, <1>3, DotProduct
<1> QED
  BY <1>4 DEF eval

\* Setting a bit of a column.
LEMMA SetBitSets ==
  ASSUME z \in Seq(Word), NEW n \in Nat, n \div B < Len(z)
  PROVE  /\ SetBit(n) \in Seq(Word) /\ Len(SetBit(n)) = Len(z)
         /\ Bits(SetBit(n)) = Bits(z) \cup {n}
<1> DEFINE q == n \div B
           r == n % B
<1>1. q \in Nat /\ r \in 0..(B - 1) /\ n = B * q + r /\ q + 1 \in 1..Len(z) /\ Len(z) \in Nat
  <2>1. n \div B \in Nat /\ n % B \in 0..(B - 1) /\ n = B * (n \div B) + (n % B)
    BY DivMod
  <2> QED
    BY <2>1
<1>2. SetBit(n) = [z EXCEPT ![q + 1] = @ \cup {r}]
  BY DEF SetBit
<1> HIDE DEF q, r
<1> DEFINE w == z[q + 1] \cup {r}
<1>3. w \in Word
  BY <1>1 DEF Word
<1>4. /\ SetBit(n) \in Seq(Word) /\ Len(SetBit(n)) = Len(z)
      /\ \A j \in 1..Len(z) : SetBit(n)[j] = IF j = q + 1 THEN w ELSE z[j]
  <2>1. SetBit(n) = [z EXCEPT ![q + 1] = w]
    BY <1>2
  <2> HIDE DEF w
  <2> QED
    BY <1>1, <1>3, <2>1
<1>5. \A j \in 1..Len(z) : SetBit(n)[j] = IF j = q + 1 THEN z[j] \cup {r} ELSE z[j]
  BY <1>4
<1> HIDE DEF w
<1>6. ASSUME NEW m \in Nat
      PROVE  BitSet(SetBit(n), m) <=> BitSet(z, m) \/ m = n
  <2> DEFINE p == m \div B
             t == m % B
  <2>1. p \in Nat /\ t \in 0..(B - 1) /\ m = B * p + t
    BY DivMod
  <2>2. BitSet(SetBit(n), m) <=> p < Len(z) /\ t \in SetBit(n)[p + 1]
    BY <1>4 DEF BitSet
  <2>3. BitSet(z, m) <=> p < Len(z) /\ t \in z[p + 1]
    BY DEF BitSet
  <2>4. m = n <=> p = q /\ t = r
    <3>1. p = q /\ t = r => m = n
      BY <1>1, <2>1
    <3>2. m = n => p = q /\ t = r
      BY DEF q, r
    <3> QED
      BY <3>1, <3>2
  <2> HIDE DEF p, t
  <2>5. p < Len(z) => p + 1 \in 1..Len(z)
    BY <1>1, <2>1
  <2>6. p + 1 = q + 1 <=> p = q
    BY <1>1, <2>1
  <2>7. CASE p = q
    <3>0. p < Len(z)
      BY <1>1, <2>7
    <3>1. SetBit(n)[p + 1] = z[p + 1] \cup {r} /\ p < Len(z)
      BY <1>5, <2>5, <2>6, <2>7, <3>0
    <3> QED
      BY <2>2, <2>3, <2>4, <2>7, <3>1
  <2>8. CASE p # q
    <3>1. p < Len(z) => SetBit(n)[p + 1] = z[p + 1]
      BY <1>5, <2>5, <2>6, <2>8
    <3> QED
      BY <2>2, <2>3, <2>4, <2>8, <3>1
  <2> QED
    BY <2>7, <2>8
<1> QED
  BY <1>4, <1>6 DEF Bits

\* The column that solve starts from has no bits, and room for a window from
\* every row.
LEMMA SolutionRoom ==
  ASSUME NEW n \in Nat
  PROVE  /\ Solution(n) \in Seq(Word) /\ Bits(Solution(n)) = {}
         /\ Len(Solution(n)) \in Nat
         /\ B * Len(Solution(n)) >= n + B * W
         /\ \A m \in 0..(n - 1) : m \div B < Len(Solution(n))
<1> DEFINE q == (n + B - 1) \div B
           len == q + W
<1>1. B \in Nat \ {0} /\ W \in Nat \ {0} /\ n + B - 1 \in Nat
  BY ClubcardAssumption
<1>2. q \in Nat /\ (n + B - 1) % B \in 0..(B - 1) /\ n + B - 1 = B * q + ((n + B - 1) % B)
  BY <1>1, DivMod
<1> HIDE DEF q
<1>3. len \in Nat /\ B * len = B * q + B * W /\ B * q \in Nat /\ B * W \in Nat
  BY <1>1, <1>2, Multiples
<1>4. B * q >= n
  BY <1>1, <1>2, <1>3
<1>5. Solution(n) = [m \in 1..len |-> {}]
  BY DEF Solution, Zeros, q
<1> HIDE DEF len
<1>6. Solution(n) \in Seq(Word) /\ Len(Solution(n)) = len /\ \A m \in 1..len : Solution(n)[m] = {}
  BY <1>3, <1>5 DEF Word
<1>7. Bits(Solution(n)) = {}
  <2> SUFFICES ASSUME NEW m \in Nat, BitSet(Solution(n), m) PROVE FALSE
    BY DEF Bits
  <2>1. m \div B \in Nat /\ m \div B < len /\ m % B \in Solution(n)[(m \div B) + 1]
    BY <1>6, DivMod DEF BitSet
  <2>2. (m \div B) + 1 \in 1..len
    BY <1>3, <2>1
  <2> QED
    BY <1>6, <2>1, <2>2
<1>8. ASSUME NEW m \in 0..(n - 1) PROVE m \div B < len
  <2> DEFINE p == m \div B
  <2>1. p \in Nat /\ m % B \in 0..(B - 1) /\ m = B * p + (m % B) /\ B * p \in Nat
    BY DivMod, Multiples
  <2> HIDE DEF p
  <2>2. len <= p => B * len <= B * p
    BY <1>3, <2>1, Multiples
  <2>3. ~(len <= p)
    BY <1>1, <1>3, <1>4, <2>1, <2>2
  <2> QED
    BY <1>3, <2>1, <2>3 DEF p
<1> QED
  BY <1>1, <1>3, <1>4, <1>6, <1>7, <1>8

-----------------------------------------------------------------------------
(* Powers of two, which the provers know as numbers of subsets *)

\* Powers of two, from the number of subsets.
LEMMA PowerOfTwo ==
  ASSUME NEW n \in Nat
  PROVE  2 ^ n \in Nat \ {0} /\ 2 ^ (n + 1) = 2 * 2 ^ n
<1> DEFINE S == 1..n
           x == n + 1
           T == {U \cup {x} : U \in SUBSET S}
           f == [U \in SUBSET S |-> U \cup {x}]
<1>1. IsFiniteSet(S) /\ Cardinality(S) = n /\ x \notin S
  BY FS_Interval
<1>2. IsFiniteSet(S \cup {x}) /\ Cardinality(S \cup {x}) = n + 1
  BY <1>1, FS_AddElement
<1> HIDE DEF S, x
<1>3. IsFiniteSet(SUBSET S) /\ Cardinality(SUBSET S) = 2 ^ n
  BY <1>1, FS_SUBSET
<1>4. Cardinality(SUBSET (S \cup {x})) = 2 ^ (n + 1)
  BY <1>2, FS_SUBSET
<1>5. f \in Bijection(SUBSET S, T)
  <2>1. f \in [SUBSET S -> T]
    OBVIOUS
  <2>2. ASSUME NEW U \in SUBSET S, NEW V \in SUBSET S, f[U] = f[V] PROVE U = V
    BY <1>1, <2>2
  <2>3. \A V \in T : \E U \in SUBSET S : f[U] = V
    OBVIOUS
  <2> HIDE DEF f, T
  <2> QED
    BY <2>1, <2>2, <2>3 DEF Bijection, Injection, Surjection, IsInjective
<1>6. IsFiniteSet(T) /\ Cardinality(T) = 2 ^ n
  <2>1. ExistsBijection(SUBSET S, T)
    BY <1>5 DEF ExistsBijection
  <2> QED
    BY <1>3, <2>1, FS_Bijection
<1>7. SUBSET (S \cup {x}) = (SUBSET S) \cup T /\ (SUBSET S) \cap T = {}
  <2>1. (SUBSET S) \cap T = {}
    BY <1>1
  <2>2. ASSUME NEW V \in SUBSET (S \cup {x}), x \in V PROVE V \in T
    <3>1. V \ {x} \in SUBSET S /\ V = (V \ {x}) \cup {x}
      BY <2>2
    <3> QED
      BY <3>1
  <2>3. ASSUME NEW V \in SUBSET (S \cup {x}), x \notin V PROVE V \in SUBSET S
    BY <2>3
  <2> QED
    BY <2>1, <2>2, <2>3
<1> HIDE DEF T
<1>8. 2 ^ n \in Nat
  BY <1>3, FS_CardinalityType
<1>9. 2 ^ (n + 1) = (2 ^ n + 2 ^ n) - 0
  <2>1. Cardinality({}) = 0
    BY FS_EmptySet
  <2>2. Cardinality((SUBSET S) \cup T) =
          Cardinality(SUBSET S) + Cardinality(T) - Cardinality((SUBSET S) \cap T)
    BY <1>3, <1>6, FS_Union
  <2> DEFINE P == SUBSET S
             Q == SUBSET (S \cup {x})
  <2>3. /\ Cardinality(P \cup T) = Cardinality(P) + Cardinality(T) - Cardinality(P \cap T)
        /\ Q = P \cup T /\ P \cap T = {} /\ Cardinality(P) = 2 ^ n /\ Cardinality(Q) = 2 ^ (n + 1)
    BY <1>3, <1>4, <1>7, <2>2
  <2> HIDE DEF P, Q
  <2>4. Cardinality(Q) = Cardinality(P) + Cardinality(T) - Cardinality({})
    BY <2>3
  <2> QED
    BY <1>6, <2>1, <2>3, <2>4
<1>10. 2 ^ n # 0
  <2>1. SUBSET S # {}
    BY {} \in SUBSET S
  <2> QED
    BY <1>3, <2>1, FS_EmptySet
<1> QED
  BY <1>8, <1>9, <1>10

\* Every number but 0 lies between a power of two and the next.
LEMMA Log2Nat ==
  ASSUME NEW n \in Nat \ {0}
  PROVE  Log2(n) \in Nat
<1> DEFINE T == {m \in Nat : \E e \in 0..(m + 1) : 2 ^ e <= m + 1 /\ m + 1 < 2 ^ (e + 1)}
<1>1. 0 \in T
  <2>1. 2 ^ 0 = 1 /\ 2 ^ (0 + 1) = 2
    BY PowerOfTwo
  <2>2. 0 \in 0..(0 + 1) /\ 2 ^ 0 <= 0 + 1 /\ 0 + 1 < 2 ^ (0 + 1)
    BY <2>1
  <2>3. \E e \in 0..(0 + 1) : 2 ^ e <= 0 + 1 /\ 0 + 1 < 2 ^ (e + 1)
    BY <2>2
  <2> QED
    BY <2>3
<1>2. ASSUME NEW m \in T PROVE m + 1 \in T
  <2>1. PICK e \in 0..(m + 1) : 2 ^ e <= m + 1 /\ m + 1 < 2 ^ (e + 1)
    OBVIOUS
  <2>2. m \in Nat /\ e \in Nat /\ e + 1 \in Nat
    OBVIOUS
  <2>3. 2 ^ e \in Nat /\ 2 ^ (e + 1) \in Nat /\ 2 ^ ((e + 1) + 1) = 2 * 2 ^ (e + 1)
    BY <2>2, PowerOfTwo
  <2>4. CASE (m + 1) + 1 < 2 ^ (e + 1)
    <3>1. e \in 0..((m + 1) + 1) /\ 2 ^ e <= (m + 1) + 1
      BY <2>1, <2>2, <2>3
    <3> QED
      BY <2>2, <2>4, <3>1
  <2>5. CASE ~((m + 1) + 1 < 2 ^ (e + 1))
    <3>1. 2 ^ (e + 1) = (m + 1) + 1
      BY <2>1, <2>2, <2>3, <2>5
    <3>2. e + 1 \in 0..((m + 1) + 1) /\ (m + 1) + 1 < 2 ^ ((e + 1) + 1)
      BY <2>2, <2>3, <3>1
    <3>3. 2 ^ (e + 1) <= (m + 1) + 1
      BY <2>2, <3>1
    <3> QED
      BY <2>2, <3>2, <3>3
  <2> QED
    BY <2>4, <2>5
<1>3. T = Nat
  <2> HIDE DEF T
  <2>1. T \in SUBSET Nat
    BY DEF T
  <2> QED
    BY <1>1, <1>2, <2>1, SetInduction
<1>4. n - 1 \in T /\ (n - 1) + 1 = n
  <2>1. n - 1 \in Nat /\ (n - 1) + 1 = n
    OBVIOUS
  <2> HIDE DEF T
  <2> QED
    BY <1>3, <2>1
<1>5. \E e \in 0..n : 2 ^ e <= n /\ n < 2 ^ (e + 1)
  BY <1>4
<1> QED
  BY <1>5 DEF Log2

-----------------------------------------------------------------------------
(* The answers of a block *)

\* The coefficients of a serial, and whether a column with m rows excludes it.
Coef(iss, s) == Hash(iss.id, s) \cup {0}
Excluded(col, iss, s, m) == ~bitsXorIsZero(col, High(Coef(iss, s)) % m, Coef(iss, s))

\* A column that holds the windows of m rows.
Roomy(col, m) == col \in Seq(Word) /\ B * Len(col) >= m + B * W

\* The approximate filter lets the serial through.
Passes(blk, iss, s) ==
    \A n \in 1..Len(blk.approxSegs) : ~Excluded(blk.approxSegs[n], iss, s, blk.approxM)

\* The columns so far of a block with an approximate filter.
Approx(blk, iss) ==
    /\ blk.id = iss.id /\ blk.inverted = FALSE /\ blk.rank \in Nat /\ blk.approxM \in Nat \ {0}
    /\ blk.approxSegs \in Seq(Seq(Word))
    /\ \A n \in 1..Len(blk.approxSegs) :
          /\ Roomy(blk.approxSegs[n], blk.approxM)
          /\ Len(blk.approxSegs[n]) = Len(blk.approxSegs[1])
    /\ \A s \in Range(iss.Revoked) : Passes(blk, iss, s)

\* A block that tells the serials of its issuer apart.
Full(blk, iss) ==
    /\ Approx(blk, iss) /\ Len(blk.approxSegs) = blk.rank
    /\ blk.exactM \in Nat \ {0} /\ Roomy(blk.exactSeg, blk.exactM)
    /\ \A s \in Range(iss.Revoked) :
          ~Excluded(blk.exactSeg, iss, s, blk.exactM) /\ s \notin blk.exceptions
    /\ \A s \in Range(iss.NotRevoked) :
          Passes(blk, iss, s) /\ s \notin blk.exceptions => Excluded(blk.exactSeg, iss, s, blk.exactM)

\* A block without a filter.
Vacant(blk, iss) ==
    /\ blk.id = iss.id /\ blk.inverted \in BOOLEAN /\ (blk.inverted <=> iss.Revoked # <<>>)
    /\ blk.approxM = 0 /\ blk.rank = 0 /\ blk.approxSegs = <<>>
    /\ blk.exactM = 0 /\ blk.exactSeg = <<>> /\ blk.exceptions = {}
    /\ iss.Revoked = <<>> \/ iss.NotRevoked = <<>>

DoneInv ==
    /\ Len(blocks) <= Len(issuers)
    /\ pc = "built" => Len(blocks) = Len(issuers)
    /\ \A n \in 1..Len(blocks) : Full(blocks[n], issuers[n]) \/ Vacant(blocks[n], issuers[n])

WorkInv ==
    pc \in Building =>
        /\ Approx(b, Issuer)
        /\ pc = "select" => b.exactM = 0
        /\ IF pc = "select" \/ Exact THEN Len(b.approxSegs) = b.rank
           ELSE Len(b.approxSegs) < b.rank
        /\ \A m \in 1..nR : universe[m] = Issuer.Revoked[m]
        /\ pc = "select" \/ Exact => \A j \in 1..Len(Issuer.NotRevoked) :
              (pc = "select" => j < k) /\ Passes(b, Issuer, Issuer.NotRevoked[j]) =>
                 \E m \in 1..Len(universe) : m > nR /\ universe[m] = Issuer.NotRevoked[j]

\* x solves all rows of a ribbon.
Sat(rws, x) == \A n \in 1..Len(rws) : ~isZero(rws[n]) => Holds(rws[n], x)

\* EquationFor with the issuer as a parameter.
EquationOf(iss, blk, u, m) ==
    [s |-> High(Coef(iss, u[m])) % M(blk), a |-> Coef(iss, u[m]),
     b |-> IF blk.exactM > 0 /\ m > Len(iss.Revoked) THEN 1 ELSE 0]

\* x solves the equation of the m-th serial of u, or the serial is an exception.
Settled(iss, blk, u, m, x) ==
    Holds(EquationOf(iss, blk, u, m), x) \/ (blk.exactM > 0 /\ u[m] \in blk.exceptions)

InsertInv ==
    pc = "insert" =>
        /\ ~Exact => Len(b.approxSegs) = 0
        /\ Len(rows) >= M(b)
        /\ \A x \in SUBSET Nat : Sat(rows, x) =>
              /\ Holds(eq, x) <=> Holds(EquationOf(Issuer, b, universe, k), x)
              /\ \A m \in 1..(k - 1) : Settled(Issuer, b, universe, m, x)

SolveInv ==
    pc = "solve" =>
        /\ Len(rows) >= M(b)
        /\ \A x \in SUBSET Nat : Sat(rows, x) =>
              \A m \in 1..Len(universe) : Settled(Issuer, b, universe, m, x)
        /\ k \in 0..Len(rows)
        /\ z \in Seq(Word) /\ Len(z) = Len(Solution(Len(rows)))
        /\ \A n \in Bits(z) : n >= k
        /\ \A n \in 1..Len(rows) : n > k /\ ~isZero(rows[n]) => Holds(rows[n], Bits(z))
        /\ ~Exact => \A n \in 1..Len(b.approxSegs) : Len(b.approxSegs[n]) = Len(z)

BuildInv == RibbonInv /\ DoneInv /\ WorkInv /\ InsertInv /\ SolveInv

-----------------------------------------------------------------------------
(* Equations as questions to a column *)

\* The equation that insert gets, with the issuer as a parameter.
LEMMA EquationForIs ==
  \A blk, u, m : EquationFor(blk, u, m) = EquationOf(Issuer, blk, u, m)
  BY DEF EquationFor, EquationOf, equation, Item, Coef, nR

\* The equation of a serial and the question a query asks about it.
LEMMA EquationExcludes ==
  ASSUME issuers \in Filters, blocks \in Seq(Range(blocks)), Len(blocks) < Len(issuers),
         NEW s \in Range(Issuer.Revoked) \cup Range(Issuer.NotRevoked),
         NEW m \in Nat \ {0}, NEW rhs \in {0, 1}, NEW col \in Seq(Word)
  PROVE  /\ Holds(equation(s, m, rhs), Bits(col)) <=> (Excluded(col, Issuer, s, m) <=> rhs = 1)
         /\ eval(equation(s, m, rhs), col) = 0 <=> ~Excluded(col, Issuer, s, m)
<1> DEFINE e == equation(s, m, rhs)
<1>1. e \in Equation /\ e.b = rhs
  BY EquationTyped
<1>2. e.s = High(Coef(Issuer, s)) % m /\ e.a = Coef(Issuer, s)
  BY DEF equation, Item, Coef
<1> HIDE DEF e
<1>3. /\ eval(e, col) = IF Odd(Hits(e, Bits(col))) THEN 1 ELSE 0
      /\ bitsXorIsZero(col, e.s, e.a) <=> ~Odd(Hits(e, Bits(col)))
  BY <1>1, EvalIsParity
<1>4. Excluded(col, Issuer, s, m) <=> Odd(Hits(e, Bits(col)))
  BY <1>2, <1>3 DEF Excluded
<1> QED
  BY <1>1, <1>3, <1>4 DEF Holds, e

\* passesApprox, word for word.
LEMMA PassesIs ==
  ASSUME issuers \in Filters, blocks \in Seq(Range(blocks)), Len(blocks) < Len(issuers),
         NEW s \in Range(Issuer.Revoked) \cup Range(Issuer.NotRevoked),
         NEW blk, blk.approxM \in Nat \ {0}, blk.approxSegs \in Seq(Seq(Word))
  PROVE  passesApprox(blk, s) <=> Passes(blk, Issuer, s)
<1>1. ASSUME NEW n \in 1..Len(blk.approxSegs)
      PROVE  eval(equation(s, blk.approxM, 0), blk.approxSegs[n]) = 0
               <=> ~Excluded(blk.approxSegs[n], Issuer, s, blk.approxM)
  <2>1. blk.approxSegs[n] \in Seq(Word)
    OBVIOUS
  <2>2. PICK m \in Nat \ {0} : m = blk.approxM
    OBVIOUS
  <2>3. PICK col \in Seq(Word) : col = blk.approxSegs[n]
    BY <2>1
  <2>4. eval(equation(s, m, 0), col) = 0 <=> ~Excluded(col, Issuer, s, m)
    BY EquationExcludes
  <2> QED
    BY <2>2, <2>3, <2>4
<1> QED
  BY <1>1 DEF passesApprox, Passes

\* What is settled for the bits of a column is answered by the column.
LEMMA SettledAnswers ==
  ASSUME issuers \in Filters, blocks \in Seq(Range(blocks)), Len(blocks) < Len(issuers),
         NEW u \in Seq(Range(Issuer.Revoked) \cup Range(Issuer.NotRevoked)),
         NEW m \in 1..Len(u), NEW blk, blk.approxM \in Nat \ {0}, blk.exactM \in Nat,
         NEW col \in Seq(Word), Settled(Issuer, blk, u, m, Bits(col))
  PROVE  \/ Excluded(col, Issuer, u[m], M(blk)) <=> (blk.exactM > 0 /\ m > nR)
         \/ blk.exactM > 0 /\ u[m] \in blk.exceptions
<1>1. M(blk) \in Nat \ {0}
  BY DEF M
<1>2. u[m] \in Range(Issuer.Revoked) \cup Range(Issuer.NotRevoked)
  OBVIOUS
<1> DEFINE rhs == IF blk.exactM > 0 /\ m > nR THEN 1 ELSE 0
<1>3. rhs \in {0, 1} /\ (rhs = 1 <=> blk.exactM > 0 /\ m > nR)
  OBVIOUS
<1>4. EquationFor(blk, u, m) = equation(u[m], M(blk), rhs)
  BY DEF EquationFor
<1> HIDE DEF rhs
<1>5. PICK mm \in Nat \ {0} : mm = M(blk)
  BY <1>1
<1>6. PICK s \in Range(Issuer.Revoked) \cup Range(Issuer.NotRevoked) : s = u[m]
  BY <1>2
<1>7. Holds(equation(s, mm, rhs), Bits(col)) <=> (Excluded(col, Issuer, s, mm) <=> rhs = 1)
  BY <1>3, EquationExcludes
<1> QED
  BY <1>3, <1>4, <1>5, <1>6, <1>7, EquationForIs DEF Settled

-----------------------------------------------------------------------------
(* Every step keeps the answers *)

\* The elements of a list with one more at the end.
LEMMA AppendElements ==
  ASSUME NEW q, q \in Seq(Range(q)), NEW x
  PROVE  /\ Len(Append(q, x)) = Len(q) + 1 /\ Len(q) \in Nat
         /\ \A n \in 1..Len(q) : Append(q, x)[n] = q[n]
         /\ Append(q, x)[Len(q) + 1] = x
<1>1. PICK T : T = Range(q) \cup {x}
  OBVIOUS
<1>2. q \in Seq(T) /\ x \in T
  BY <1>1
<1> QED
  BY <1>2

\* Nothing is built.
LEMMA Init_BuildInv == Init => BuildInv
<1> SUFFICES ASSUME Init PROVE BuildInv
  OBVIOUS
<1>1. pc = "block" /\ blocks = <<>> /\ issuers \in Filters
  BY DEF Init
<1>2. Len(issuers) \in Nat
  BY <1>1, BuilderAssumption
<1>3. DoneInv /\ WorkInv /\ InsertInv /\ SolveInv
  BY <1>1, <1>2 DEF DoneInv, WorkInv, InsertInv, SolveInv, Building
<1> QED
  BY <1>3, Init_RibbonInv DEF BuildInv

\* The blocks that are done stay as they are.
LEMMA DoneStays ==
  ASSUME DoneInv, UNCHANGED <<issuers, blocks>>, pc' # "built"
  PROVE  DoneInv'
  BY DEF DoneInv

\* A fresh ribbon: nothing is inserted, and the equation in hand is the first.
LEMMA StartRibbon_BuildInv ==
  ASSUME DoneInv, RibbonInv', NEW blk, NEW u, StartRibbon(blk, u),
         Approx(blk, Issuer), blk.exactM \in Nat, \A m \in 1..nR : u[m] = Issuer.Revoked[m],
         IF blk.exactM > 0 THEN Len(blk.approxSegs) = blk.rank
         ELSE Len(blk.approxSegs) = 0 /\ blk.rank > 0,
         blk.exactM > 0 => \A j \in 1..Len(Issuer.NotRevoked) :
            Passes(blk, Issuer, Issuer.NotRevoked[j]) =>
               \E m \in 1..Len(u) : m > nR /\ u[m] = Issuer.NotRevoked[j]
  PROVE  BuildInv'
<1>1. /\ b' = blk /\ universe' = u /\ rows' = newRibbon(M(blk)) /\ k' = 1
      /\ eq' = EquationFor(blk, u, 1) /\ pc' = "insert" /\ UNCHANGED <<issuers, blocks>>
  BY DEF StartRibbon
<1>2. Issuer' = Issuer /\ nR' = nR /\ (Exact' <=> blk.exactM > 0)
  BY <1>1 DEF Issuer, nR, Exact
<1>3. WorkInv'
  BY <1>1, <1>2 DEF WorkInv, Building
<1>4. M(blk) \in Nat
  BY DEF M, Approx
<1>5. Len(rows') = M(b')
  BY <1>1, <1>4 DEF newRibbon
<1>6. eq' = EquationOf(Issuer', b', universe', k')
  BY <1>1, <1>2, EquationForIs
<1>7. InsertInv'
  BY <1>1, <1>2, <1>4, <1>5, <1>6 DEF InsertInv
<1>8. SolveInv'
  BY <1>1 DEF SolveInv
<1>9. DoneInv'
  BY <1>1, DoneStays
<1> QED
  BY <1>3, <1>7, <1>8, <1>9 DEF BuildInv

\* The approximate filter is complete and the universe is its revoked serials.
LEMMA StartSelect_BuildInv ==
  ASSUME DoneInv, RibbonInv', NEW blk, StartSelect(blk),
         Approx(blk, Issuer), blk.exactM = 0, Len(blk.approxSegs) = blk.rank
  PROVE  BuildInv'
<1>1. /\ b' = blk /\ universe' = Issuer.Revoked /\ k' = 1 /\ pc' = "select"
      /\ UNCHANGED <<issuers, blocks>>
  BY DEF StartSelect
<1>2. Issuer' = Issuer /\ nR' = nR /\ ~Exact'
  BY <1>1 DEF Issuer, nR, Exact
<1>3. WorkInv'
  BY <1>1, <1>2 DEF WorkInv
<1>4. InsertInv' /\ SolveInv' /\ DoneInv'
  BY <1>1, DoneStays DEF InsertInv, SolveInv
<1> QED
  BY <1>3, <1>4 DEF BuildInv

\* A block before any ribbon is solved.
LEMMA SizedApprox ==
  ASSUME issuers \in Filters, blocks \in Seq(Range(blocks)), Len(blocks) < Len(issuers), ~EmptyBlock
  PROVE  /\ Approx(Sized, Issuer) /\ Sized.approxSegs = <<>> /\ Sized.exactM = 0
         /\ Len(Sized.approxSegs) = 0
<1>1. /\ Issuer.Revoked \in Seq(Range(Issuer.Revoked)) /\ nR \in Nat
      /\ Issuer.NotRevoked \in Seq(Range(Issuer.NotRevoked))
  BY IssuerFacts
<1>2. nU \in Nat /\ nR # 0 /\ nR # nU
  BY <1>1 DEF nU, EmptyBlock
<1>3. /\ Sized.id = Issuer.id /\ Sized.inverted = FALSE /\ Sized.approxSegs = <<>>
      /\ Sized.rank = IF nR > 0 /\ 2 * nR < nU THEN Log2((nU - nR) \div nR) ELSE 0
      /\ Sized.approxM \in Nat \ {0} /\ Sized.exactM = 0
  BY <1>2, SizedTyped DEF Sized, NoBlock
<1>4. Sized.rank \in Nat
  <2>0. ASSUME NEW x \in Nat, NEW d \in Nat \ {0}, x > d PROVE x \div d \in Nat \ {0}
    <3>1. x \div d \in Nat /\ x % d \in 0..(d - 1) /\ x = d * (x \div d) + (x % d)
      OBVIOUS
    <3>2. x \div d # 0
      BY <2>0, <3>1
    <3> QED
      BY <3>1, <3>2
  <2>1. ASSUME 2 * nR < nU PROVE (nU - nR) \div nR \in Nat \ {0}
    <3>1. nU - nR \in Nat /\ nU - nR > nR /\ nR \in Nat \ {0}
      BY <1>1, <1>2, <2>1
    <3> QED
      BY <2>0, <3>1
  <2> QED
    BY <1>3, <2>1, Log2Nat
<1>5. Len(Sized.approxSegs) = 0 /\ Sized.approxSegs \in Seq(Seq(Word))
  BY <1>3
<1> QED
  BY <1>3, <1>4, <1>5 DEF Approx, Passes

\* A block that needs no ribbon.
LEMMA SizedVacant ==
  ASSUME issuers \in Filters, blocks \in Seq(Range(blocks)), Len(blocks) < Len(issuers), EmptyBlock
  PROVE  Vacant(Sized, Issuer)
<1>1. /\ Issuer.Revoked \in Seq(Range(Issuer.Revoked)) /\ nR \in Nat
      /\ Issuer.NotRevoked \in Seq(Range(Issuer.NotRevoked))
  BY IssuerFacts
<1>2. /\ Issuer.Revoked = <<>> <=> nR = 0
      /\ Issuer.NotRevoked = <<>> <=> nR = nU
      /\ nU \in Nat
  <2>1. ASSUME NEW S, NEW q \in Seq(S) PROVE Len(q) \in Nat /\ (q = <<>> <=> Len(q) = 0)
    OBVIOUS
  <2>2. /\ Issuer.Revoked = <<>> <=> nR = 0
        /\ Issuer.NotRevoked = <<>> <=> Len(Issuer.NotRevoked) = 0
        /\ Len(Issuer.NotRevoked) \in Nat
    BY <1>1, <2>1 DEF nR
  <2>3. nU = nR + Len(Issuer.NotRevoked)
    BY DEF nU
  <2> QED
    BY <1>1, <2>2, <2>3
<1>3. nR = 0 \/ nR = nU
  BY DEF EmptyBlock
<1>4. (nR > 0 /\ nR = nU) <=> Issuer.Revoked # <<>>
  BY <1>1, <1>2, <1>3
<1>5. ~(nR > 0 /\ 2 * nR < nU)
  BY <1>1, <1>3
<1>6. PICK inv \in BOOLEAN : inv = (nR > 0 /\ nR = nU)
  OBVIOUS
<1>7. /\ Sized.id = Issuer.id /\ Sized.inverted = inv /\ Sized.approxM = 0 /\ Sized.rank = 0
      /\ Sized.approxSegs = <<>> /\ Sized.exactM = 0 /\ Sized.exactSeg = <<>>
      /\ Sized.exceptions = {}
  BY <1>3, <1>5, <1>6 DEF Sized, NoBlock
<1> QED
  BY <1>2, <1>3, <1>4, <1>6, <1>7 DEF Vacant

\* One more block is done.
LEMMA BlockDone ==
  ASSUME RibbonInv, DoneInv, Len(blocks) < Len(issuers), NEW blk, blocks' = Append(blocks, blk),
         issuers' = issuers, pc' = "block", Full(blk, Issuer) \/ Vacant(blk, Issuer)
  PROVE  DoneInv'
<1>1. blocks \in Seq(Range(blocks)) /\ Len(issuers) \in Nat
  BY BuilderAssumption DEF RibbonInv
<1>2. /\ Len(blocks') = Len(blocks) + 1 /\ Len(blocks) \in Nat
      /\ \A n \in 1..Len(blocks) : blocks'[n] = blocks[n]
      /\ blocks'[Len(blocks) + 1] = blk
  BY <1>1, AppendElements
<1>3. \A n \in 1..Len(blocks') : n \in 1..Len(blocks) \/ n = Len(blocks) + 1
  BY <1>2
<1>4. ASSUME NEW n \in 1..Len(blocks')
      PROVE  Full(blocks'[n], issuers[n]) \/ Vacant(blocks'[n], issuers[n])
  BY <1>2, <1>3 DEF DoneInv, Issuer
<1> QED
  BY <1>1, <1>2, <1>4 DEF DoneInv

\* A block begins, or is done at once.
LEMMA buildBlock_BuildInv ==
  ASSUME BuildInv, RibbonInv', buildBlock
  PROVE  BuildInv'
<1>1. /\ pc = "block" /\ Len(blocks) < Len(issuers) /\ issuers \in Filters
      /\ blocks \in Seq(Range(blocks)) /\ DoneInv /\ RibbonInv
  BY DEF buildBlock, BuildInv, RibbonInv
<1>2. CASE EmptyBlock
  <2>1. blocks' = Append(blocks, Sized) /\ UNCHANGED <<issuers, pc, b, universe, rows, eq, k>>
    BY <1>2 DEF buildBlock
  <2>2. PICK blk : blk = Sized
    OBVIOUS
  <2>3. Vacant(blk, Issuer) /\ blocks' = Append(blocks, blk)
    BY <1>1, <1>2, <2>1, <2>2, SizedVacant
  <2>4. DoneInv'
    BY <1>1, <2>1, <2>3, BlockDone
  <2>5. WorkInv' /\ InsertInv' /\ SolveInv'
    BY <1>1, <2>1 DEF WorkInv, InsertInv, SolveInv, Building
  <2> QED
    BY <2>4, <2>5 DEF BuildInv
<1>3. CASE ~EmptyBlock /\ Sized.rank > 0 /\ StartRibbon(Sized, Issuer.Revoked)
  <2>1. PICK blk : blk = Sized
    OBVIOUS
  <2>2. /\ Approx(blk, Issuer) /\ Len(blk.approxSegs) = 0 /\ blk.exactM = 0
    BY <1>1, <1>3, <2>1, SizedApprox
  <2>3. PICK u : u = Issuer.Revoked
    OBVIOUS
  <2>4. StartRibbon(blk, u) /\ blk.exactM \in Nat /\ ~(blk.exactM > 0)
        /\ blk.rank > 0
    BY <1>3, <2>1, <2>2, <2>3
  <2> QED
    BY <1>1, <2>2, <2>3, <2>4, StartRibbon_BuildInv
<1>4. CASE ~EmptyBlock /\ Sized.rank = 0 /\ StartSelect(Sized)
  <2>1. PICK blk : blk = Sized
    OBVIOUS
  <2>2. /\ Approx(blk, Issuer) /\ Len(blk.approxSegs) = 0 /\ blk.exactM = 0
    BY <1>1, <1>4, <2>1, SizedApprox
  <2> QED
    BY <1>1, <1>4, <2>1, <2>2, StartSelect_BuildInv
<1> QED
  BY <1>2, <1>3, <1>4 DEF buildBlock

\* One more serial is looked at; the universe covers those that pass.
LEMMA Select_BuildInv ==
  ASSUME BuildInv, RibbonInv', Select
  PROVE  BuildInv'
<1> DEFINE g == Issuer.NotRevoked
<1>1. /\ pc = "select" /\ k <= Len(g) /\ k' = k + 1
      /\ universe' = IF passesApprox(b, g[k]) THEN Append(universe, g[k]) ELSE universe
      /\ UNCHANGED <<issuers, blocks, pc, b, rows, eq, z>>
  BY DEF Select, Extended
<1>2. /\ Len(blocks) < Len(issuers) /\ k \in Nat \ {0} /\ issuers \in Filters
      /\ blocks \in Seq(Range(blocks))
      /\ universe \in Seq(Range(Issuer.Revoked) \cup Range(g)) /\ nR <= Len(universe)
      /\ DoneInv
  BY <1>1 DEF BuildInv, RibbonInv, BlockInv, UniverseInv, Building
<1>3. /\ Issuer' = Issuer /\ nR' = nR /\ nR \in Nat /\ Exact' = Exact /\ g \in Seq(Range(g))
  BY <1>1, <1>2, IssuerFacts DEF Issuer, nR, Exact
<1>4. k \in 1..Len(g) /\ g[k] \in Range(g)
  BY <1>1, <1>2, <1>3
<1>5. /\ Approx(b, Issuer) /\ b.exactM = 0 /\ Len(b.approxSegs) = b.rank
      /\ \A m \in 1..nR : universe[m] = Issuer.Revoked[m]
      /\ \A j \in 1..Len(g) : j < k /\ Passes(b, Issuer, g[j]) =>
            \E m \in 1..Len(universe) : m > nR /\ universe[m] = g[j]
  BY <1>1 DEF BuildInv, WorkInv, Building
<1>6. passesApprox(b, g[k]) <=> Passes(b, Issuer, g[k])
  <2>1. PICK blk : blk = b
    OBVIOUS
  <2>2. PICK s \in Range(Issuer.Revoked) \cup Range(g) : s = g[k]
    BY <1>4
  <2>3. blk.approxM \in Nat \ {0} /\ blk.approxSegs \in Seq(Seq(Word))
    BY <1>5, <2>1 DEF Approx
  <2> QED
    BY <1>2, <2>1, <2>2, <2>3, PassesIs
<1>7. /\ universe' = universe \/ universe' = Append(universe, g[k])
      /\ Len(universe') >= Len(universe) /\ Len(universe) \in Nat
      /\ \A m \in 1..Len(universe) : universe'[m] = universe[m] /\ m \in 1..Len(universe')
      /\ Passes(b, Issuer, g[k]) => /\ Len(universe) + 1 \in 1..Len(universe')
                                    /\ universe'[Len(universe) + 1] = g[k]
  <2>1. PICK S : S = Range(Issuer.Revoked) \cup Range(g)
    OBVIOUS
  <2>2. universe \in Seq(S) /\ g[k] \in S
    BY <1>2, <1>4, <2>1
  <2>3. CASE passesApprox(b, g[k])
    <3>1. universe' = Append(universe, g[k])
      BY <1>1, <2>3
    <3> QED
      BY <2>2, <3>1
  <2>4. CASE ~passesApprox(b, g[k])
    <3>1. universe' = universe
      BY <1>1, <2>4
    <3> QED
      BY <1>6, <2>2, <2>4, <3>1
  <2> QED
    BY <2>3, <2>4
<1> HIDE DEF g
<1>8. \A m \in 1..nR : universe'[m] = Issuer.Revoked[m]
  <2>1. \A m \in 1..nR : m \in 1..Len(universe)
    BY <1>2, <1>3, <1>7
  <2> QED
    BY <1>5, <1>7, <2>1
<1>9. ASSUME NEW j \in 1..Len(g), j < k + 1, Passes(b, Issuer, g[j])
      PROVE  \E m \in 1..Len(universe') : m > nR /\ universe'[m] = g[j]
  <2>1. CASE j < k
    <3>1. PICK m \in 1..Len(universe) : m > nR /\ universe[m] = g[j]
      BY <1>5, <1>9, <2>1
    <3> QED
      BY <1>7, <3>1
  <2>2. CASE j = k
    <3>1. Len(universe) + 1 > nR
      BY <1>2, <1>3, <1>7
    <3> QED
      BY <1>7, <1>9, <2>2, <3>1
  <2> QED
    BY <1>2, <1>9, <2>1, <2>2
<1>10. WorkInv'
  BY <1>1, <1>3, <1>5, <1>8, <1>9, ZenonT(30) DEF WorkInv, g
<1>11. InsertInv' /\ SolveInv' /\ DoneInv'
  BY <1>1, <1>2, DoneStays DEF InsertInv, SolveInv
<1> QED
  BY <1>10, <1>11 DEF BuildInv

\* The universe is complete and the exact ribbon begins.
LEMMA StartExact_BuildInv ==
  ASSUME BuildInv, RibbonInv', StartExact
  PROVE  BuildInv'
<1> DEFINE blk == [b EXCEPT !.exactM = exactM(universe)]
<1>1. pc = "select" /\ k > Len(Issuer.NotRevoked) /\ StartRibbon(blk, universe)
  BY DEF StartExact
<1>2. /\ Len(blocks) < Len(issuers) /\ nR > 0 /\ DOMAIN b = DOMAIN NoBlock
      /\ universe \in Seq(Range(Issuer.Revoked) \cup Range(Issuer.NotRevoked))
      /\ nR <= Len(universe) /\ k \in Nat /\ issuers \in Filters /\ blocks \in Seq(Range(blocks))
      /\ DoneInv
  BY <1>1 DEF BuildInv, RibbonInv, BlockInv, UniverseInv, Building
<1>3. /\ Approx(b, Issuer) /\ Len(b.approxSegs) = b.rank
      /\ \A m \in 1..nR : universe[m] = Issuer.Revoked[m]
      /\ \A j \in 1..Len(Issuer.NotRevoked) : j < k /\ Passes(b, Issuer, Issuer.NotRevoked[j]) =>
            \E m \in 1..Len(universe) : m > nR /\ universe[m] = Issuer.NotRevoked[j]
  BY <1>1 DEF BuildInv, WorkInv, Building
<1>4. exactM(universe) \in Nat \ {0}
  <2>1. Len(universe) \in Nat /\ nR \in Nat
    BY <1>2, IssuerFacts
  <2>2. Len(universe) \in Nat \ {0}
    BY <1>2, <2>1
  <2> QED
    BY <2>2 DEF exactM
<1>5. /\ blk.id = b.id /\ blk.inverted = b.inverted /\ blk.approxM = b.approxM
      /\ blk.approxSegs = b.approxSegs /\ blk.rank = b.rank /\ blk.exactM = exactM(universe)
  BY <1>2 DEF NoBlock
<1>6. PICK c : c = blk
  OBVIOUS
<1>7. PICK u : u = universe
  OBVIOUS
<1> HIDE DEF blk
<1>8. Approx(c, Issuer) /\ \A s : Passes(c, Issuer, s) <=> Passes(b, Issuer, s)
  BY <1>3, <1>5, <1>6 DEF Approx, Passes
<1>9. /\ c.exactM \in Nat /\ c.exactM > 0 /\ Len(c.approxSegs) = c.rank /\ StartRibbon(c, u)
  BY <1>1, <1>3, <1>4, <1>5, <1>6, <1>7
<1>10. \A j \in 1..Len(Issuer.NotRevoked) : j < k
  <2>1. Len(Issuer.NotRevoked) \in Nat
    BY <1>2, IssuerFacts
  <2> QED
    BY <1>1, <1>2, <2>1
<1>11. \A j \in 1..Len(Issuer.NotRevoked) : Passes(c, Issuer, Issuer.NotRevoked[j]) =>
         \E m \in 1..Len(u) : m > nR /\ u[m] = Issuer.NotRevoked[j]
  BY <1>3, <1>7, <1>8, <1>10
<1> QED
  BY <1>2, <1>3, <1>7, <1>8, <1>9, <1>11, StartRibbon_BuildInv

-----------------------------------------------------------------------------
(* Insertion *)

\* More free rows change no solution.
LEMMA RowsUpToIs ==
  ASSUME rows \in Seq(Equation), NEW s \in Nat
  PROVE  /\ Len(RowsUpTo(s)) \in Nat /\ Len(RowsUpTo(s)) >= Len(rows)
         /\ \A n \in 1..Len(RowsUpTo(s)) :
               RowsUpTo(s)[n] = IF n <= Len(rows) THEN rows[n] ELSE ZeroEq
         /\ \A x : Sat(RowsUpTo(s), x) <=> Sat(rows, x)
<1> DEFINE m == Max({Len(rows), s + 1})
<1>1. m \in Nat /\ m >= Len(rows) /\ Len(rows) \in Nat
  BY MaxOfTwo
<1>2. RowsUpTo(s) = [n \in 1..m |-> IF n <= Len(rows) THEN rows[n] ELSE ZeroEq]
  BY DEF RowsUpTo
<1> HIDE DEF m
<1>3. /\ Len(RowsUpTo(s)) = m
      /\ \A n \in 1..m : RowsUpTo(s)[n] = IF n <= Len(rows) THEN rows[n] ELSE ZeroEq
  <2>1. RowsUpTo(s) \in [1..m -> Equation]
    BY <1>1, <1>2, ZeroEqTyped
  <2> QED
    BY <1>1, <1>2, <2>1
<1>4. \A n \in 1..Len(rows) : n \in 1..m /\ RowsUpTo(s)[n] = rows[n]
  BY <1>1, <1>3
<1>5. \A n \in 1..m : n \in 1..Len(rows) \/ RowsUpTo(s)[n] = ZeroEq
  BY <1>1, <1>3
<1>6. \A x : Sat(RowsUpTo(s), x) <=> Sat(rows, x)
  BY <1>3, <1>4, <1>5, ZeroEqTyped DEF Sat
<1> QED
  BY <1>1, <1>3, <1>6

\* insert returned.
LEMMA Inserted_BuildInv ==
  ASSUME BuildInv, RibbonInv', pc = "insert", Inserted, UNCHANGED <<issuers, blocks, universe>>,
         Len(rows') \in Nat, Len(rows') >= M(b),
         b'.id = b.id, b'.inverted = b.inverted, b'.approxM = b.approxM, b'.rank = b.rank,
         b'.approxSegs = b.approxSegs, b'.exactM = b.exactM,
         \A x \in SUBSET Nat : Sat(rows', x) =>
            \A m \in 1..k : Settled(Issuer, b', universe, m, x)
  PROVE  BuildInv'
<1>1. /\ Issuer' = Issuer /\ nR' = nR /\ Exact' = Exact /\ M(b') = M(b)
      /\ \A u, m : EquationOf(Issuer, b', u, m) = EquationOf(Issuer, b, u, m)
      /\ \A s : Passes(b', Issuer, s) <=> Passes(b, Issuer, s)
  BY DEF Issuer, nR, Exact, M, EquationOf, Passes
<1>2. Approx(b', Issuer)
  BY <1>1 DEF Approx, BuildInv, WorkInv, Building
<1>3. /\ k \in 1..Len(universe) /\ Len(universe) \in Nat
      /\ DoneInv
  BY InsertFacts DEF BuildInv
<1>4. ~Exact => Len(b.approxSegs) = 0
  BY DEF BuildInv, InsertInv
<1>5. CASE k < Len(universe) /\ k' = k + 1 /\ eq' = EquationFor(b, universe, k + 1) /\ pc' = pc
  <2>1. WorkInv'
    BY <1>1, <1>2, <1>5 DEF BuildInv, WorkInv, Building
  <2>2. eq' = EquationOf(Issuer', b', universe', k') /\ k' - 1 = k
    BY <1>1, <1>3, <1>5, EquationForIs
  <2>3. InsertInv'
    BY <1>1, <1>4, <1>5, <2>2 DEF InsertInv
  <2>4. SolveInv' /\ DoneInv'
    BY <1>3, <1>5, DoneStays DEF SolveInv
  <2> QED
    BY <2>1, <2>3, <2>4 DEF BuildInv
<1>6. CASE k = Len(universe) /\ pc' = "solve" /\ k' = Len(rows') /\ z' = Solution(Len(rows'))
  <2>1. WorkInv'
    BY <1>1, <1>2, <1>6 DEF BuildInv, WorkInv, Building
  <2>2. /\ z' \in Seq(Word) /\ Len(z') = Len(Solution(Len(rows'))) /\ Bits(z') = {}
    BY <1>6, SolutionRoom
  <2>3. /\ k' \in 0..Len(rows')
        /\ \A n \in Bits(z') : n >= k'
        /\ \A n \in 1..Len(rows') : ~(n > k')
    BY <1>6, <2>2
  <2>4. \A x \in SUBSET Nat : Sat(rows', x) =>
            \A m \in 1..Len(universe') : Settled(Issuer', b', universe', m, x)
    BY <1>1, <1>6
  <2>5. ~Exact' => \A n \in 1..Len(b'.approxSegs) : Len(b'.approxSegs[n]) = Len(z')
    BY <1>1, <1>4
  <2>6. SolveInv'
    BY <1>1, <2>2, <2>3, <2>4, <2>5 DEF SolveInv
  <2>7. InsertInv' /\ DoneInv'
    BY <1>3, <1>6, DoneStays DEF InsertInv
  <2> QED
    BY <2>1, <2>6, <2>7 DEF BuildInv
<1> QED
  BY <1>5, <1>6 DEF Inserted

\* Once the equation has a row of its own, a solution of all rows solves it.
LEMMA Place_BuildInv ==
  ASSUME BuildInv, RibbonInv', Place
  PROVE  BuildInv'
<1>1. /\ pc = "insert" /\ ~isZero(eq) /\ Inserted /\ UNCHANGED <<issuers, blocks, b, universe>>
      /\ rows' = [RowsUpTo(eq.s) EXCEPT ![eq.s + 1] = eq]
      /\ isZero(RowsUpTo(eq.s)[eq.s + 1])
  BY DEF Place
<1>2. eq \in Equation /\ rows \in Seq(Equation) /\ RowsAligned /\ eq.s \in Nat
  BY <1>1 DEF BuildInv, RibbonInv, Equation
<1>3. PICK up : up = RowsUpTo(eq.s)
  OBVIOUS
<1>4. /\ up \in Seq(Equation) /\ eq.s + 1 \in 1..Len(up) /\ Len(up) \in Nat /\ Len(up) >= Len(rows)
      /\ \A x : Sat(up, x) <=> Sat(rows, x)
  BY <1>2, <1>3, RowsGrow, RowsUpToIs
<1>5. /\ Len(rows') = Len(up)
      /\ \A n \in 1..Len(up) : rows'[n] = IF n = eq.s + 1 THEN eq ELSE up[n]
  BY <1>1, <1>2, <1>3, <1>4
<1>6. ASSUME NEW x, Sat(rows', x) PROVE Sat(rows, x) /\ Holds(eq, x)
  <2>1. Holds(eq, x)
    BY <1>1, <1>4, <1>5, <1>6 DEF Sat
  <2>2. Sat(up, x)
    BY <1>1, <1>3, <1>4, <1>5, <1>6 DEF Sat
  <2> QED
    BY <1>4, <2>1, <2>2
<1>7. /\ Len(rows) >= M(b) /\ Len(rows) \in Nat /\ k \in Nat
      /\ \A x \in SUBSET Nat : Sat(rows, x) =>
            /\ Holds(eq, x) <=> Holds(EquationOf(Issuer, b, universe, k), x)
            /\ \A m \in 1..(k - 1) : Settled(Issuer, b, universe, m, x)
  BY <1>1, <1>2, InsertFacts DEF BuildInv, InsertInv
<1>8. M(b) \in Nat
  BY <1>1, InsertFacts DEF BuildInv, M
<1>9. Len(rows') \in Nat /\ Len(rows') >= M(b)
  BY <1>4, <1>5, <1>7, <1>8
<1>10. ASSUME NEW x \in SUBSET Nat, Sat(rows', x), NEW m \in 1..k
       PROVE  Settled(Issuer, b', universe, m, x)
  <2>1. Sat(rows, x) /\ Holds(eq, x) /\ b' = b
    BY <1>1, <1>6, <1>10
  <2>2. m \in 1..(k - 1) \/ m = k
    BY <1>7
  <2> QED
    BY <1>7, <2>1, <2>2 DEF Settled
<1> QED
  BY <1>1, <1>9, <1>10, Inserted_BuildInv

\* Elimination replaces the equation by one that is equivalent under the rows.
LEMMA Eliminate_BuildInv ==
  ASSUME BuildInv, RibbonInv', Eliminate
  PROVE  BuildInv'
<1>1. /\ pc = "insert" /\ rows' = RowsUpTo(eq.s) /\ eq' = add(eq, rows'[eq.s + 1])
      /\ ~isZero(rows'[eq.s + 1]) /\ UNCHANGED <<issuers, blocks, pc, b, universe, k>>
  BY DEF Eliminate
<1>2. eq \in Equation /\ rows \in Seq(Equation) /\ RowsAligned /\ eq.s \in Nat
  BY <1>1 DEF BuildInv, RibbonInv, Equation
<1>3. /\ rows' \in Seq(Equation) /\ eq.s + 1 \in 1..Len(rows')
      /\ rows'[eq.s + 1].s = (eq.s + 1) - 1
  BY <1>1, <1>2, RowsGrow
<1>4. rows'[eq.s + 1] \in Equation /\ rows'[eq.s + 1].s = eq.s
  BY <1>2, <1>3
<1>5. /\ Len(rows') \in Nat /\ Len(rows') >= Len(rows) /\ Len(rows) \in Nat
      /\ \A x : Sat(rows', x) <=> Sat(rows, x)
  <2>1. PICK up : up = RowsUpTo(eq.s)
    OBVIOUS
  <2>2. Len(up) \in Nat /\ Len(up) >= Len(rows) /\ \A x : Sat(up, x) <=> Sat(rows, x)
    BY <1>2, <2>1, RowsUpToIs
  <2> QED
    BY <1>1, <1>2, <2>1, <2>2
<1>6. ASSUME NEW x \in SUBSET Nat, Sat(rows', x) PROVE Holds(eq', x) <=> Holds(eq, x)
  <2>1. PICK o \in Equation : o = rows'[eq.s + 1]
    BY <1>4
  <2>2. Holds(o, x) /\ o.s = eq.s /\ eq' = add(eq, o)
    BY <1>1, <1>3, <1>4, <1>6, <2>1 DEF Sat
  <2> QED
    BY <1>2, <2>2, AddHolds
<1>7. Issuer' = Issuer /\ nR' = nR /\ Exact' = Exact
  BY <1>1 DEF Issuer, nR, Exact
<1>8. M(b) \in Nat
  BY <1>1, InsertFacts DEF BuildInv, M
<1>9. InsertInv'
  BY <1>1, <1>5, <1>6, <1>7, <1>8 DEF BuildInv, InsertInv
<1>10. WorkInv'
  BY <1>1, <1>7 DEF BuildInv, WorkInv
<1>11. SolveInv' /\ DoneInv'
  BY <1>1, DoneStays DEF SolveInv, BuildInv
<1> QED
  BY <1>9, <1>10, <1>11 DEF BuildInv

\* An equation that vanishes as 0 = 0 follows from the rows; as 0 = 1 it makes
\* its serial an exception.
LEMMA Vanish_BuildInv ==
  ASSUME BuildInv, RibbonInv', Vanish
  PROVE  BuildInv'
<1>1. /\ pc = "insert" /\ isZero(eq) /\ rows' = rows /\ Inserted
      /\ UNCHANGED <<issuers, blocks, universe>>
      /\ b' = IF Exact /\ eq.b = 1 THEN [b EXCEPT !.exceptions = @ \cup {universe[k]}] ELSE b
  BY DEF Vanish
<1>2. DOMAIN b = DOMAIN NoBlock /\ b.exactM \in Nat /\ eq \in Equation /\ rows \in Seq(Equation)
      /\ k \in Nat
  BY <1>1, InsertFacts DEF BuildInv
<1>3. /\ b'.id = b.id /\ b'.inverted = b.inverted /\ b'.approxM = b.approxM /\ b'.rank = b.rank
      /\ b'.approxSegs = b.approxSegs /\ b'.exactM = b.exactM
      /\ b.exceptions \subseteq b'.exceptions
      /\ Exact /\ eq.b = 1 => universe[k] \in b'.exceptions
  BY <1>1, <1>2 DEF NoBlock
<1>4. (Exact /\ eq.b = 1) \/ eq.b = 0
  <2>1. ~Exact => OnlyRevoked
    BY <1>2 DEF Exact, OnlyRevoked
  <2> QED
    BY <1>1, <1>2, <2>1 DEF BuildInv, RibbonInv, Homogeneous, Equation
<1>5. /\ Len(rows) >= M(b) /\ Len(rows) \in Nat
      /\ \A x \in SUBSET Nat : Sat(rows, x) =>
            /\ Holds(eq, x) <=> Holds(EquationOf(Issuer, b, universe, k), x)
            /\ \A m \in 1..(k - 1) : Settled(Issuer, b, universe, m, x)
  BY <1>1, <1>2 DEF BuildInv, InsertInv
<1>6. \A m : EquationOf(Issuer, b', universe, m) = EquationOf(Issuer, b, universe, m)
  BY <1>3 DEF EquationOf, M
<1>7. ASSUME NEW x \in SUBSET Nat, Sat(rows', x), NEW m \in 1..k
      PROVE  Settled(Issuer, b', universe, m, x)
  <2>1. CASE m \in 1..(k - 1)
    <3>1. Settled(Issuer, b, universe, m, x)
      BY <1>1, <1>5, <1>7, <2>1
    <3> QED
      BY <1>3, <1>6, <3>1 DEF Settled
  <2>2. CASE m = k /\ eq.b = 0
    <3>1. Holds(eq, x)
      BY <1>1, <1>2, <2>2, ZeroHolds
    <3> QED
      BY <1>1, <1>5, <1>6, <1>7, <2>2, <3>1 DEF Settled
  <2>3. CASE m = k /\ Exact /\ eq.b = 1
    BY <1>3, <2>3 DEF Settled, Exact
  <2> QED
    BY <1>2, <1>4, <2>1, <2>2, <2>3
<1> QED
  BY <1>1, <1>3, <1>5, <1>7, Inserted_BuildInv

-----------------------------------------------------------------------------
(* Back substitution *)

\* What holds while a column is being solved.
LEMMA SolveFacts ==
  ASSUME BuildInv, pc = "solve"
  PROVE  /\ issuers \in Filters /\ blocks \in Seq(Range(blocks)) /\ Len(blocks) < Len(issuers)
         /\ nR \in Nat /\ nR <= Len(universe) /\ Len(universe) \in Nat
         /\ universe \in Seq(Range(Issuer.Revoked) \cup Range(Issuer.NotRevoked))
         /\ DOMAIN b = DOMAIN NoBlock /\ b.approxM \in Nat \ {0} /\ b.exactM \in Nat
         /\ b.exceptions \subseteq Range(Issuer.NotRevoked)
         /\ rows \in Seq(Equation) /\ Len(rows) \in Nat /\ RowsAligned
         /\ k \in 0..Len(rows) /\ z \in Seq(Word) /\ Len(z) = Len(Solution(Len(rows)))
         /\ Len(rows) >= M(b) /\ M(b) \in Nat
<1>1. /\ issuers \in Filters /\ blocks \in Seq(Range(blocks)) /\ Len(blocks) < Len(issuers)
      /\ nR <= Len(universe)
      /\ universe \in Seq(Range(Issuer.Revoked) \cup Range(Issuer.NotRevoked))
      /\ DOMAIN b = DOMAIN NoBlock /\ b.approxM \in Nat \ {0} /\ b.exactM \in Nat
      /\ b.exceptions \subseteq Range(Issuer.NotRevoked)
      /\ rows \in Seq(Equation) /\ RowsAligned
  BY DEF BuildInv, RibbonInv, BlockInv, UniverseInv, Building, ExceptionsNotRevoked
<1>2. nR \in Nat
  BY <1>1, IssuerFacts
<1>3. /\ k \in 0..Len(rows) /\ z \in Seq(Word) /\ Len(z) = Len(Solution(Len(rows)))
      /\ Len(rows) >= M(b)
  BY DEF BuildInv, SolveInv
<1>4. M(b) \in Nat
  BY <1>1 DEF M
<1> QED
  BY <1>1, <1>2, <1>3, <1>4

\* Back substitution: setting the bit of a row makes its equation hold and
\* disturbs none of the rows after it.
LEMMA SolveRow_BuildInv ==
  ASSUME BuildInv, RibbonInv', SolveRow
  PROVE  BuildInv'
<1> DEFINE e == rows[k]
           x == Bits(z)
<1>1. /\ pc = "solve" /\ k > 0 /\ k' = k - 1
      /\ UNCHANGED <<issuers, blocks, pc, b, universe, rows, eq>>
  BY DEF SolveRow
<1>2. PICK bit \in IF isZero(e) THEN {0, 1} ELSE {Plus(eval(e, z), e.b)} :
        z' = IF bit = 1 THEN SetBit(k - 1) ELSE z
  BY DEF SolveRow
<1>3. /\ rows \in Seq(Equation) /\ Len(rows) \in Nat /\ RowsAligned /\ k \in 1..Len(rows)
      /\ z \in Seq(Word) /\ Len(z) = Len(Solution(Len(rows))) /\ k \in Nat /\ k - 1 \in Nat
  BY <1>1, SolveFacts, SMTT(20)
<1>4. e \in Equation
  BY <1>3
<1>5. (k - 1) \div B < Len(z)
  BY <1>3, SolutionRoom
<1>6. /\ \A n \in x : n >= k /\ n \in Nat
      /\ \A n \in 1..Len(rows) : n > k /\ ~isZero(rows[n]) => Holds(rows[n], x)
  BY <1>1 DEF BuildInv, SolveInv, Bits
<1>7. /\ z' \in Seq(Word) /\ Len(z') = Len(z)
      /\ Bits(z') = IF bit = 1 THEN x \cup {k - 1} ELSE x
  BY <1>2, <1>3, <1>5, SetBitSets
<1> HIDE DEF x
<1>8. \A n \in Bits(z') : n >= k - 1
  BY <1>3, <1>6, <1>7
<1>9. ASSUME NEW n \in 1..Len(rows), n > k, ~isZero(rows[n]) PROVE Holds(rows[n], Bits(z'))
  <2>1. rows[n] \in Equation /\ rows[n].s = n - 1
    BY <1>3, <1>9 DEF RowsAligned
  <2>2. \A m \in rows[n].a : m \in Nat
    BY <2>1, VectorFinite DEF Equation
  <2>3. \A m \in rows[n].a : rows[n].s + m # k - 1
    BY <1>3, <1>9, <2>1, <2>2
  <2>4. Hits(rows[n], Bits(z')) = Hits(rows[n], x)
    BY <1>7, <2>3 DEF Hits
  <2> QED
    BY <1>6, <1>9, <2>4 DEF Holds
<1>10. ASSUME ~isZero(e) PROVE Holds(e, Bits(z'))
  <2>1. e.s = k - 1 /\ 0 \in e.a /\ e.b \in {0, 1} /\ \A m \in e.a : m \in Nat
    BY <1>3, <1>4, <1>10, VectorFinite DEF RowsAligned, Equation
  <2>2. bit = Plus(IF Odd(Hits(e, x)) THEN 1 ELSE 0, e.b)
    <3>1. eval(e, z) = IF Odd(Hits(e, x)) THEN 1 ELSE 0
      BY <1>3, <1>4, EvalIsParity DEF x
    <3> QED
      BY <1>2, <1>10, <3>1
  <2>3. bit = 1 <=> ~(Odd(Hits(e, x)) <=> e.b = 1)
    BY <2>1, <2>2 DEF Plus
  <2>4. CASE bit = 1
    <3>1. k - 1 \notin x
      BY <1>3, <1>6
    <3>2. (k - 1) + 0 = k - 1 /\ \A m \in Nat : (k - 1) + m = k - 1 => m = 0
      BY <1>3
    <3>3. Hits(e, x \cup {k - 1}) = Hits(e, x) \cup {0} /\ 0 \notin Hits(e, x)
      BY <2>1, <3>1, <3>2 DEF Hits
    <3>4. IsFiniteSet(Hits(e, x)) /\ IsFiniteSet({0}) /\ Odd({0}) /\ Hits(e, x) \cap {0} = {}
      BY <1>4, <3>3, HitsFinite, OddEmpty, FS_Singleton
    <3>5. Odd(Hits(e, x) \cup {0}) <=> ~(Odd(Hits(e, x)) <=> Odd({0}))
      BY <3>4, OddUnion
    <3> QED
      BY <1>7, <2>3, <2>4, <3>3, <3>4, <3>5 DEF Holds
  <2>5. CASE bit # 1
    BY <1>7, <2>3, <2>5 DEF Holds
  <2> QED
    BY <2>4, <2>5
<1>11. ASSUME NEW n \in 1..Len(rows'), n > k', ~isZero(rows'[n]) PROVE Holds(rows'[n], Bits(z'))
  <2>1. n \in 1..Len(rows) /\ (n > k \/ n = k) /\ ~isZero(rows[n]) /\ rows' = rows
    BY <1>1, <1>3, <1>11
  <2> QED
    BY <1>9, <1>10, <2>1
<1>12. Issuer' = Issuer /\ nR' = nR /\ Exact' = Exact
  BY <1>1 DEF Issuer, nR, Exact
<1>13. k' \in 0..Len(rows')
  BY <1>1, <1>3
<1>14. SolveInv'
  BY <1>1, <1>7, <1>8, <1>11, <1>12, <1>13 DEF BuildInv, SolveInv
<1>15. WorkInv'
  BY <1>1, <1>12 DEF BuildInv, WorkInv
<1>16. InsertInv' /\ DoneInv'
  BY <1>1, DoneStays DEF InsertInv, BuildInv
<1> QED
  BY <1>14, <1>15, <1>16 DEF BuildInv

\* A column that is solved has the answers for all serials of the universe.
LEMMA Solved ==
  ASSUME BuildInv, pc = "solve", k = 0
  PROVE  /\ Roomy(z, M(b))
         /\ \A m \in 1..Len(universe) :
               \/ Excluded(z, Issuer, universe[m], M(b)) <=> (b.exactM > 0 /\ m > nR)
               \/ b.exactM > 0 /\ universe[m] \in b.exceptions
<1>1. B * Len(z) >= Len(rows) + B * W /\ Len(rows) \in Nat /\ B * W \in Nat /\ B * Len(z) \in Nat
  <2>1. Len(rows) \in Nat /\ Len(z) = Len(Solution(Len(rows)))
    BY SolveFacts
  <2>2. Len(Solution(Len(rows))) \in Nat /\ B * Len(Solution(Len(rows))) >= Len(rows) + B * W
    BY <2>1, SolutionRoom
  <2> QED
    BY <2>1, <2>2, Multiples, ClubcardAssumption
<1>2. Roomy(z, M(b))
  BY <1>1, SolveFacts DEF Roomy
<1>3. Bits(z) \in SUBSET Nat
  BY DEF Bits
<1>4. Sat(rows, Bits(z))
  BY SolveFacts DEF BuildInv, SolveInv, Sat
<1>5. \A m \in 1..Len(universe) : Settled(Issuer, b, universe, m, Bits(z))
  BY <1>3, <1>4 DEF BuildInv, SolveInv
<1>6. ASSUME NEW m \in 1..Len(universe)
      PROVE  \/ Excluded(z, Issuer, universe[m], M(b)) <=> (b.exactM > 0 /\ m > nR)
             \/ b.exactM > 0 /\ universe[m] \in b.exceptions
  <2>1. PICK blk : blk = b
    OBVIOUS
  <2>2. PICK u \in Seq(Range(Issuer.Revoked) \cup Range(Issuer.NotRevoked)) : u = universe
    BY SolveFacts
  <2>3. PICK col \in Seq(Word) : col = z
    BY SolveFacts
  <2>4. blk.approxM \in Nat \ {0} /\ blk.exactM \in Nat /\ m \in 1..Len(u)
        /\ Settled(Issuer, blk, u, m, Bits(col))
    BY <1>5, <2>1, <2>2, <2>3, SolveFacts
  <2>5. issuers \in Filters /\ blocks \in Seq(Range(blocks)) /\ Len(blocks) < Len(issuers)
    BY SolveFacts
  <2>6. \/ Excluded(col, Issuer, u[m], M(blk)) <=> (blk.exactM > 0 /\ m > nR)
        \/ blk.exactM > 0 /\ u[m] \in blk.exceptions
    BY <2>4, <2>5, SettledAnswers
  <2> QED
    BY <2>1, <2>2, <2>3, <2>6
<1> QED
  BY <1>2, <1>6

\* The serials of a list are its elements.
LEMMA RangeIs ==
  ASSUME NEW q, q \in Seq(Range(q)), NEW s \in Range(q)
  PROVE  \E m \in 1..Len(q) : q[m] = s
  BY DEF Range

\* A solved column of the approximate filter lets all revoked serials through.
LEMMA ApproxSolved_BuildInv ==
  ASSUME BuildInv, RibbonInv', ApproxSolved
  PROVE  BuildInv'
<1> DEFINE segs == Append(b.approxSegs, z)
<1>1. pc = "solve" /\ k = 0 /\ ~Exact /\ UNCHANGED <<issuers, blocks>> /\ DoneInv
  BY DEF ApproxSolved, StartSelect, BuildInv
<1>2. PICK blk : blk = [b EXCEPT !.approxSegs = Append(@, z)]
  OBVIOUS
<1>3. /\ DOMAIN b = DOMAIN NoBlock /\ b.approxM \in Nat \ {0} /\ b.exactM = 0 /\ M(b) = b.approxM
      /\ z \in Seq(Word) /\ Len(z) \in Nat /\ nR \in Nat /\ nR <= Len(universe)
      /\ Len(universe) \in Nat /\ Len(rows) \in Nat
  <2>1. b.exactM = 0
    BY <1>1, SolveFacts DEF Exact
  <2> QED
    BY <1>1, <2>1, SolveFacts DEF M
<1>4. /\ Approx(b, Issuer) /\ Len(b.approxSegs) < b.rank
      /\ \A m \in 1..nR : universe[m] = Issuer.Revoked[m]
  BY <1>1 DEF BuildInv, WorkInv, Building
<1>5. /\ blk.approxSegs = segs /\ blk.approxM = b.approxM /\ blk.exactM = 0 /\ blk.rank = b.rank
      /\ blk.id = b.id /\ blk.inverted = b.inverted
  BY <1>2, <1>3 DEF NoBlock
<1>6. /\ Len(segs) = Len(b.approxSegs) + 1 /\ segs \in Seq(Seq(Word)) /\ Len(b.approxSegs) \in Nat
      /\ \A n \in 1..Len(b.approxSegs) : segs[n] = b.approxSegs[n]
      /\ segs[Len(b.approxSegs) + 1] = z
  <2>1. PICK T : T = Seq(Word)
    OBVIOUS
  <2>2. b.approxSegs \in Seq(T) /\ z \in T
    BY <1>3, <1>4, <2>1 DEF Approx
  <2> QED
    BY <2>1, <2>2
<1> HIDE DEF segs
<1>7. /\ \A n \in 1..Len(segs) : n \in 1..Len(b.approxSegs) \/ n = Len(b.approxSegs) + 1
      /\ 1 \in 1..Len(segs)
  BY <1>6
<1>8. \A n \in 1..Len(segs) : Len(segs[n]) = Len(z)
  <2>1. \A n \in 1..Len(b.approxSegs) : Len(b.approxSegs[n]) = Len(z)
    BY <1>1 DEF BuildInv, SolveInv
  <2> QED
    BY <1>6, <1>7, <2>1
<1>9. Roomy(z, b.approxM)
  BY <1>1, <1>3, Solved
<1>10. \A n \in 1..Len(segs) : Roomy(segs[n], b.approxM)
  BY <1>4, <1>6, <1>7, <1>9 DEF Approx
<1>11. ASSUME NEW s \in Range(Issuer.Revoked) PROVE Passes(blk, Issuer, s)
  <2>1. Issuer.Revoked \in Seq(Range(Issuer.Revoked))
    BY <1>1, SolveFacts, IssuerFacts
  <2>2. PICK q : q = Issuer.Revoked
    OBVIOUS
  <2>3. \E m \in 1..Len(q) : q[m] = s
    BY <2>1, <2>2, RangeIs
  <2>4. PICK m \in 1..nR : Issuer.Revoked[m] = s
    BY <2>2, <2>3 DEF nR
  <2>5. universe[m] = s /\ m \in 1..Len(universe)
    BY <1>3, <1>4, <2>4
  <2>6. ~Excluded(z, Issuer, s, b.approxM)
    BY <1>1, <1>3, <2>4, <2>5, Solved
  <2>7. \A n \in 1..Len(b.approxSegs) : ~Excluded(b.approxSegs[n], Issuer, s, b.approxM)
    BY <1>4 DEF Approx, Passes
  <2>8. \A n \in 1..Len(segs) : ~Excluded(segs[n], Issuer, s, b.approxM)
    BY <1>6, <1>7, <2>6, <2>7
  <2> QED
    BY <1>5, <2>8 DEF Passes
<1>12. Approx(blk, Issuer)
  BY <1>4, <1>5, <1>6, <1>7, <1>8, <1>10, <1>11 DEF Approx
<1>13. CASE /\ Len(blk.approxSegs) < b.rank
            /\ b' = blk /\ k' = Len(rows) /\ z' = Solution(Len(rows))
            /\ UNCHANGED <<issuers, blocks, pc, universe, rows, eq>>
  <2>1. Issuer' = Issuer /\ nR' = nR /\ ~Exact'
    BY <1>1, <1>5, <1>13 DEF Issuer, nR, Exact
  <2>2. WorkInv'
    BY <1>1, <1>4, <1>5, <1>12, <1>13, <2>1 DEF WorkInv
  <2>3. InsertInv' /\ DoneInv'
    BY <1>1, <1>13, DoneStays DEF InsertInv
  <2>4. /\ Len(z') = Len(z) /\ z' \in Seq(Word) /\ Bits(z') = {}
    <3>1. /\ Solution(Len(rows)) \in Seq(Word) /\ Bits(Solution(Len(rows))) = {}
      BY <1>3, SolutionRoom
    <3>2. Len(z) = Len(Solution(Len(rows)))
      BY <1>1, SolveFacts
    <3> QED
      BY <1>13, <3>1, <3>2
  <2>5. M(b') = M(b)
    BY <1>5, <1>13, <1>3 DEF M
  <2>6. \A m : EquationOf(Issuer, b', universe, m) = EquationOf(Issuer, b, universe, m)
    BY <1>3, <1>5, <1>13, <2>5 DEF EquationOf
  <2>7. \A m, x : Settled(Issuer, b', universe, m, x) <=> Settled(Issuer, b, universe, m, x)
    BY <1>3, <1>5, <1>13, <2>6 DEF Settled
  <2>8. /\ Len(rows) >= M(b)
        /\ \A x \in SUBSET Nat : Sat(rows, x) =>
              \A m \in 1..Len(universe) : Settled(Issuer, b, universe, m, x)
    BY <1>1 DEF BuildInv, SolveInv
  <2>9. \A n \in 1..Len(b'.approxSegs) : Len(b'.approxSegs[n]) = Len(z')
    BY <1>5, <1>8, <1>13, <2>4
  <2>10. Len(z') = Len(Solution(Len(rows')))
    BY <1>13
  <2>11. rows' = rows /\ universe' = universe /\ k' \in 0..Len(rows') /\ k' = Len(rows')
    BY <1>3, <1>13
  <2>12. \A n \in 1..Len(rows') : ~(n > k')
    BY <1>3, <2>11
  <2>13. SolveInv'
    BY <2>1, <2>4, <2>5, <2>7, <2>8, <2>9, <2>10, <2>11, <2>12 DEF SolveInv
  <2> QED
    BY <2>2, <2>3, <2>13 DEF BuildInv
<1>14. CASE Len(blk.approxSegs) = b.rank /\ StartSelect(blk)
  BY <1>1, <1>5, <1>12, <1>14, StartSelect_BuildInv
<1> QED
  BY <1>2, <1>13, <1>14 DEF ApproxSolved

\* The exact filter excludes what is not revoked and passes the approximate one,
\* the exceptions apart.
LEMMA ExactSolved_BuildInv ==
  ASSUME BuildInv, RibbonInv', ExactSolved
  PROVE  BuildInv'
<1>1. /\ pc = "solve" /\ k = 0 /\ Exact /\ issuers' = issuers /\ pc' = "block"
      /\ blocks' = Append(blocks, [b EXCEPT !.exactSeg = z]) /\ DoneInv /\ RibbonInv
  BY DEF ExactSolved, BuildInv
<1>2. PICK blk : blk = [b EXCEPT !.exactSeg = z]
  OBVIOUS
<1>3. /\ DOMAIN b = DOMAIN NoBlock /\ b.exactM \in Nat \ {0} /\ b.exactM > 0 /\ M(b) = b.exactM
      /\ nR \in Nat /\ nR <= Len(universe) /\ Len(universe) \in Nat
      /\ b.exceptions \subseteq Range(Issuer.NotRevoked)
      /\ issuers \in Filters /\ blocks \in Seq(Range(blocks)) /\ Len(blocks) < Len(issuers)
  <2>1. b.exactM \in Nat /\ b.exactM > 0
    BY <1>1, SolveFacts DEF Exact
  <2> QED
    BY <1>1, <2>1, SolveFacts DEF M
<1>4. /\ Approx(b, Issuer) /\ Len(b.approxSegs) = b.rank
      /\ \A m \in 1..nR : universe[m] = Issuer.Revoked[m]
      /\ \A j \in 1..Len(Issuer.NotRevoked) : Passes(b, Issuer, Issuer.NotRevoked[j]) =>
            \E m \in 1..Len(universe) : m > nR /\ universe[m] = Issuer.NotRevoked[j]
  BY <1>1 DEF BuildInv, WorkInv, Building
<1>5. /\ blk.approxSegs = b.approxSegs /\ blk.approxM = b.approxM /\ blk.exactM = b.exactM
      /\ blk.rank = b.rank /\ blk.id = b.id /\ blk.inverted = b.inverted
      /\ blk.exactSeg = z /\ blk.exceptions = b.exceptions
  BY <1>2, <1>3 DEF NoBlock
<1>6. /\ Roomy(z, b.exactM)
      /\ \A m \in 1..Len(universe) :
            \/ Excluded(z, Issuer, universe[m], b.exactM) <=> m > nR
            \/ universe[m] \in b.exceptions
  BY <1>1, <1>3, Solved
<1>7. /\ Issuer.Revoked \in Seq(Range(Issuer.Revoked))
      /\ Issuer.NotRevoked \in Seq(Range(Issuer.NotRevoked))
  BY <1>3, IssuerFacts
<1>8. Range(Issuer.Revoked) \cap Range(Issuer.NotRevoked) = {}
  <2>1. Len(blocks) \in Nat /\ Len(issuers) \in Nat
    BY <1>3, BuilderAssumption
  <2>2. Len(blocks) + 1 \in 1..Len(issuers)
    BY <1>3, <2>1
  <2> QED
    BY <1>3, <2>2, BuilderAssumption DEF Issuer
<1>9. ASSUME NEW s \in Range(Issuer.Revoked)
      PROVE  ~Excluded(z, Issuer, s, b.exactM) /\ s \notin b.exceptions
  <2>1. PICK q : q = Issuer.Revoked
    OBVIOUS
  <2>2. \E m \in 1..Len(q) : q[m] = s
    BY <1>7, <2>1, RangeIs
  <2>3. PICK m \in 1..nR : Issuer.Revoked[m] = s
    BY <2>1, <2>2 DEF nR
  <2>4. universe[m] = s /\ m \in 1..Len(universe) /\ ~(m > nR)
    BY <1>3, <1>4, <2>3
  <2>5. s \notin b.exceptions
    BY <1>3, <1>8
  <2> QED
    BY <1>6, <2>4, <2>5
<1>10. ASSUME NEW s \in Range(Issuer.NotRevoked), Passes(b, Issuer, s), s \notin b.exceptions
       PROVE  Excluded(z, Issuer, s, b.exactM)
  <2>1. PICK q : q = Issuer.NotRevoked
    OBVIOUS
  <2>2. \E j \in 1..Len(q) : q[j] = s
    BY <1>7, <2>1, RangeIs
  <2>3. PICK j \in 1..Len(Issuer.NotRevoked) : Issuer.NotRevoked[j] = s
    BY <2>1, <2>2
  <2>4. PICK m \in 1..Len(universe) : m > nR /\ universe[m] = s
    BY <1>4, <1>10, <2>3
  <2> QED
    BY <1>6, <1>10, <2>4
<1>11. Approx(blk, Issuer)
  BY <1>4, <1>5 DEF Approx, Passes
<1>12. Full(blk, Issuer)
  BY <1>3, <1>4, <1>5, <1>6, <1>9, <1>10, <1>11 DEF Full, Passes
<1>13. DoneInv'
  BY <1>1, <1>2, <1>3, <1>12, BlockDone
<1>14. WorkInv' /\ InsertInv' /\ SolveInv'
  BY <1>1 DEF WorkInv, InsertInv, SolveInv, Building
<1> QED
  BY <1>13, <1>14 DEF BuildInv

\* Laying the blocks out, and stuttering, change none of them.
LEMMA Bytes_BuildInv ==
  ASSUME BuildInv, RibbonInv', Bytes \/ UNCHANGED vars
  PROVE  BuildInv'
<1>1. CASE Bytes
  <2>1. DoneInv'
    BY <1>1 DEF Bytes, BuildInv, DoneInv
  <2>2. WorkInv' /\ InsertInv' /\ SolveInv'
    BY <1>1 DEF Bytes, WorkInv, InsertInv, SolveInv, Building
  <2> QED
    BY <2>1, <2>2 DEF BuildInv
<1>2. CASE UNCHANGED vars
  <2>1. Issuer' = Issuer /\ nR' = nR /\ Exact' = Exact
    BY <1>2 DEF vars, Issuer, nR, Exact
  <2>2. DoneInv'
    BY <1>2 DEF vars, BuildInv, DoneInv
  <2>3. WorkInv'
    BY <1>2, <2>1 DEF vars, BuildInv, WorkInv
  <2>4. InsertInv' /\ SolveInv'
    BY <1>2, <2>1 DEF vars, BuildInv, InsertInv, SolveInv
  <2> QED
    BY <2>2, <2>3, <2>4 DEF BuildInv
<1> QED
  BY <1>1, <1>2

\* The inductive invariant of the builder.
THEOREM Builder_BuildInv == Spec => []BuildInv
<1>1. BuildInv /\ RibbonInv' /\ [Next]_vars => BuildInv'
  <2> SUFFICES ASSUME BuildInv, RibbonInv', [Next]_vars PROVE BuildInv'
    OBVIOUS
  <2>1. CASE buildBlock \/ Select \/ StartExact
    BY <2>1, buildBlock_BuildInv, Select_BuildInv, StartExact_BuildInv
  <2>2. CASE Place \/ Eliminate \/ Vanish
    BY <2>2, Place_BuildInv, Eliminate_BuildInv, Vanish_BuildInv
  <2>3. CASE SolveRow \/ ApproxSolved \/ ExactSolved
    BY <2>3, SolveRow_BuildInv, ApproxSolved_BuildInv, ExactSolved_BuildInv
  <2>4. CASE Bytes \/ UNCHANGED vars
    BY <2>4, Bytes_BuildInv
  <2> QED
    BY <2>1, <2>2, <2>3, <2>4 DEF Next
<1> QED
  BY <1>1, Init_BuildInv, Builder_RibbonInv, PTL DEF Spec

-----------------------------------------------------------------------------
(* Segments of a column *)

\* The bits of a segment are those of the column from its place on.
LEMMA SegmentBit ==
  ASSUME NEW col \in Seq(Word), NEW seg \in Seq(Word), NEW at \in Nat,
         at + Len(seg) <= Len(col), \A i \in 1..Len(seg) : col[at + i] = seg[i],
         NEW r \in Nat, r < B * Len(seg)
  PROVE  BitSet(col, B * at + r) <=> BitSet(seg, r)
<1> DEFINE q == r \div B
           l == r % B
<1>1. q \in Nat /\ l \in 0..(B - 1) /\ r = B * q + l
  BY DivMod
<1> HIDE DEF q, l
<1>2. q < Len(seg) /\ Len(seg) \in Nat
  <2>1. Len(seg) \in Nat
    OBVIOUS
  <2>2. Len(seg) <= q => B * Len(seg) <= B * q
    BY <1>1, <2>1, Multiples
  <2>3. B * q \in Nat /\ B * Len(seg) \in Nat
    BY <1>1, <2>1, Multiples
  <2> QED
    BY <1>1, <2>1, <2>2, <2>3
<1>3. B * at + r = B * (at + q) + l
  <2>1. B * at \in Nat /\ B * q \in Nat /\ B * (at + q) = B * at + B * q
    BY <1>1, Multiples
  <2> QED
    BY <1>1, <2>1, ClubcardAssumption
<1>4. (B * at + r) \div B = at + q /\ (B * at + r) % B = l
  <2>1. at + q \in Nat
    BY <1>1
  <2> QED
    BY <1>1, <1>3, <2>1, DivModIs
<1>5. at + q < Len(col) /\ (at + q) + 1 = at + (q + 1) /\ q + 1 \in 1..Len(seg)
  BY <1>1, <1>2
<1>6. col[(at + q) + 1] = seg[q + 1]
  BY <1>5
<1> QED
  BY <1>2, <1>4, <1>5, <1>6 DEF BitSet, q, l

\* A row of a segment is asked in the column as in the segment alone.
LEMMA SegmentXor ==
  ASSUME NEW col \in Seq(Word), NEW seg, NEW at \in Nat, NEW m \in Nat, Roomy(seg, m),
         at + Len(seg) <= Len(col), \A i \in 1..Len(seg) : col[at + i] = seg[i],
         NEW row \in Nat, row < m, NEW coef \in Vector
  PROVE  bitsXorIsZero(col, B * at + row, coef) <=> bitsXorIsZero(seg, row, coef)
<1>1. seg \in Seq(Word) /\ B * Len(seg) >= m + B * W /\ Len(seg) \in Nat
  BY DEF Roomy
<1>2. B * at \in Nat /\ B * at + row \in Nat /\ B * Len(seg) \in Nat /\ B * W \in Nat
  <2>1. B * at \in Nat /\ B * W \in Nat
    BY Multiples, ClubcardAssumption
  <2>2. B * Len(seg) \in Nat
    BY <1>1, Multiples
  <2>3. B * at + row \in Nat
    BY <2>1
  <2> QED
    BY <2>1, <2>2, <2>3
<1>3. ASSUME NEW n \in coef PROVE BitSet(col, (B * at + row) + n) <=> BitSet(seg, row + n)
  <2>1. n \in Nat /\ n < B * W
    <3>1. n \in 0..(W * B - 1) /\ W * B = B * W
      BY ClubcardAssumption DEF Vector
    <3> QED
      BY <1>2, <3>1
  <2>2. row + n \in Nat /\ row + n < B * Len(seg) /\ (B * at + row) + n = B * at + (row + n)
    BY <1>1, <1>2, <2>1
  <2>3. BitSet(col, B * at + (row + n)) <=> BitSet(seg, row + n)
    BY <1>1, <2>2, SegmentBit
  <2> QED
    BY <2>2, <2>3
<1>4. {n \in coef : BitSet(col, (B * at + row) + n)} = {n \in coef : BitSet(seg, row + n)}
  BY <1>3
<1>5. bitsXorIsZero(seg, row, coef) <=> ~Odd({n \in coef : BitSet(seg, row + n)})
  BY <1>1, DotProduct
<1>6. bitsXorIsZero(col, B * at + row, coef)
        <=> ~Odd({n \in coef : BitSet(col, (B * at + row) + n)})
  BY <1>2, DotProduct
<1> QED
  BY <1>4, <1>5, <1>6

-----------------------------------------------------------------------------
(* The order of the blocks *)

\* The blocks that are laid out: one for each issuer, with ids that differ.
LEMMA BlocksDiffer ==
  ASSUME BuildInv, pc = "built"
  PROVE  /\ Len(blocks) \in Nat /\ Len(blocks) = Len(issuers)
         /\ \A n \in 1..Len(blocks) :
               /\ blocks[n].id \in Nat /\ blocks[n].rank \in Nat
               /\ blocks[n].id = issuers[n].id
               /\ Full(blocks[n], issuers[n]) \/ Vacant(blocks[n], issuers[n])
         /\ \A m, n \in 1..Len(blocks) : blocks[m].id = blocks[n].id => m = n
<1>1. issuers \in Filters /\ DoneInv /\ Len(blocks) = Len(issuers)
  BY DEF BuildInv, RibbonInv, DoneInv
<1>2. /\ Len(issuers) \in Nat
      /\ \A n \in 1..Len(issuers) : /\ issuers[n].id \in Nat
                                    /\ \A m \in 1..Len(issuers) : issuers[m].id = issuers[n].id => m = n
  BY <1>1, BuilderAssumption
<1>3. ASSUME NEW n \in 1..Len(blocks)
      PROVE  /\ blocks[n].id = issuers[n].id /\ blocks[n].rank \in Nat
             /\ Full(blocks[n], issuers[n]) \/ Vacant(blocks[n], issuers[n])
  <2>1. Full(blocks[n], issuers[n]) \/ Vacant(blocks[n], issuers[n])
    BY <1>1 DEF DoneInv
  <2>2. ASSUME Full(blocks[n], issuers[n])
        PROVE  blocks[n].id = issuers[n].id /\ blocks[n].rank \in Nat
    BY <2>2 DEF Full, Approx
  <2>3. ASSUME Vacant(blocks[n], issuers[n])
        PROVE  blocks[n].id = issuers[n].id /\ blocks[n].rank \in Nat
    BY <2>3 DEF Vacant
  <2> QED
    BY <2>1, <2>2, <2>3
<1> QED
  BY <1>1, <1>2, <1>3

\* Of two blocks one comes first, and the order has no cycles.
LEMMA BeforeOrders ==
  ASSUME BuildInv, pc = "built",
         NEW i \in 1..Len(blocks), NEW j \in 1..Len(blocks), NEW l \in 1..Len(blocks)
  PROVE  /\ ~Before(blocks[i], blocks[i])
         /\ Before(blocks[i], blocks[j]) /\ Before(blocks[j], blocks[l])
               => Before(blocks[i], blocks[l])
         /\ i # j => Before(blocks[i], blocks[j]) \/ Before(blocks[j], blocks[i])
  BY BlocksDiffer, SMTT(20) DEF Before

\* An injective map of the numbers up to n to themselves reaches them all.
LEMMA Permutes ==
  ASSUME NEW n \in Nat, NEW p \in [1..n -> 1..n],
         \A i, j \in 1..n : p[i] = p[j] => i = j
  PROVE  \A j \in 1..n : \E i \in 1..n : p[i] = j
<1>1. p \in Injection(1..n, 1..n)
  BY DEF Injection, IsInjective
<1>2. IsFiniteSet(1..n)
  BY FS_Interval
<1>3. p \in Surjection(1..n, 1..n)
  BY <1>1, <1>2, FS_Injection
<1> QED
  BY <1>3 DEF Surjection

\* The blocks can be sorted: the place of a block is the number of those before it.
LEMMA OrderExists ==
  ASSUME BuildInv, pc = "built"
  PROVE  \E p \in [1..Len(blocks) -> 1..Len(blocks)] :
            \A i, j \in 1..Len(blocks) : i < j => Before(blocks[p[i]], blocks[p[j]])
<1>1. PICK n \in Nat : n = Len(blocks)
  BY BlocksDiffer
<1> DEFINE Earlier(i) == {j \in 1..n : Before(blocks[j], blocks[i])}
           pos == [i \in 1..n |-> Cardinality(Earlier(i)) + 1]
<1>2. IsFiniteSet(1..n) /\ Cardinality(1..n) = n
  BY FS_Interval
<1>3. ASSUME NEW i \in 1..n
      PROVE  /\ Earlier(i) \in SUBSET (1..n) /\ i \notin Earlier(i) /\ IsFiniteSet(Earlier(i))
             /\ Cardinality(Earlier(i)) \in Nat /\ Cardinality(Earlier(i)) < n
  <2>1. Earlier(i) \in SUBSET (1..n) /\ i \notin Earlier(i)
    BY <1>1, BeforeOrders
  <2> HIDE DEF Earlier
  <2>2. /\ IsFiniteSet(Earlier(i)) /\ Cardinality(Earlier(i)) <= Cardinality(1..n)
        /\ Cardinality(1..n) = Cardinality(Earlier(i)) => 1..n = Earlier(i)
    BY <1>2, <2>1, FS_Subset
  <2>3. Cardinality(Earlier(i)) \in Nat
    BY <2>2, FS_CardinalityType
  <2> QED
    BY <1>2, <2>1, <2>2, <2>3
<1>4. ASSUME NEW i \in 1..n, NEW j \in 1..n, Before(blocks[i], blocks[j])
      PROVE  Cardinality(Earlier(i)) < Cardinality(Earlier(j))
  <2>1. Earlier(i) \in SUBSET Earlier(j) /\ i \in Earlier(j) /\ i \notin Earlier(i)
    BY <1>1, <1>3, <1>4, BeforeOrders
  <2>2. /\ IsFiniteSet(Earlier(j)) /\ Cardinality(Earlier(i)) \in Nat
        /\ Cardinality(Earlier(j)) \in Nat
    BY <1>3
  <2> HIDE DEF Earlier
  <2>3. /\ Cardinality(Earlier(i)) <= Cardinality(Earlier(j))
        /\ Cardinality(Earlier(j)) = Cardinality(Earlier(i)) => Earlier(j) = Earlier(i)
    BY <2>1, <2>2, FS_Subset
  <2> QED
    BY <2>1, <2>2, <2>3
<1>5. \A i \in 1..n : pos[i] \in 1..n
  <2>1. ASSUME NEW i \in 1..n PROVE pos[i] \in 1..n
    <3>1. Cardinality(Earlier(i)) \in Nat /\ Cardinality(Earlier(i)) < n
      BY <1>3
    <3>2. pos[i] = Cardinality(Earlier(i)) + 1
      OBVIOUS
    <3> HIDE DEF Earlier, pos
    <3> QED
      BY <3>1, <3>2
  <2> QED
    BY <2>1
<1>6. pos \in [1..n -> 1..n]
  BY <1>5
<1>7. ASSUME NEW i \in 1..n, NEW j \in 1..n, Before(blocks[i], blocks[j]) PROVE pos[i] < pos[j]
  <2>1. /\ Cardinality(Earlier(i)) < Cardinality(Earlier(j)) /\ Cardinality(Earlier(i)) \in Nat
        /\ Cardinality(Earlier(j)) \in Nat
    BY <1>3, <1>4, <1>7
  <2>2. pos[i] = Cardinality(Earlier(i)) + 1 /\ pos[j] = Cardinality(Earlier(j)) + 1
    OBVIOUS
  <2> HIDE DEF Earlier, pos
  <2> QED
    BY <2>1, <2>2
<1> HIDE DEF pos, Earlier
<1>8. \A i, j \in 1..n : pos[i] = pos[j] => i = j
  <2>1. ASSUME NEW i \in 1..n, NEW j \in 1..n, pos[i] = pos[j], i # j PROVE FALSE
    <3>1. Before(blocks[i], blocks[j]) \/ Before(blocks[j], blocks[i])
      BY <1>1, <2>1, BeforeOrders
    <3>2. pos[i] < pos[j] \/ pos[j] < pos[i]
      BY <1>7, <3>1
    <3> QED
      BY <1>5, <2>1, <3>2
  <2> QED
    BY <2>1
<1>9. \A l \in 1..n : \E i \in 1..n : pos[i] = l
  BY <1>6, <1>8, Permutes
<1> DEFINE p == [l \in 1..n |-> CHOOSE i \in 1..n : pos[i] = l]
<1>10. \A l \in 1..n : p[l] \in 1..n /\ pos[p[l]] = l
  BY <1>9
<1>11. p \in [1..n -> 1..n]
  BY <1>10
<1> HIDE DEF p
<1>12. ASSUME NEW i \in 1..n, NEW j \in 1..n, i < j PROVE Before(blocks[p[i]], blocks[p[j]])
  <2>1. p[i] \in 1..n /\ p[j] \in 1..n /\ pos[p[i]] = i /\ pos[p[j]] = j /\ p[i] # p[j]
    BY <1>10, <1>12
  <2>2. ~Before(blocks[p[j]], blocks[p[i]])
    BY <1>7, <1>12, <2>1
  <2> QED
    BY <1>1, <2>1, <2>2, BeforeOrders
<1> QED
  BY <1>1, <1>11, <1>12

\* The layout: every block stands in it once, and ranks never rise.
LEMMA LaidOut ==
  ASSUME BuildInv, pc = "built"
  PROVE  /\ \A i \in 1..Len(blocks) : \E m \in 1..Len(blocks) : Laid[i] = blocks[m]
         /\ \A m \in 1..Len(blocks) : \E i \in 1..Len(blocks) : Laid[i] = blocks[m]
         /\ \A i, j \in 1..Len(blocks) : i < j => Laid[i].rank >= Laid[j].rank
         /\ \A i, j \in 1..Len(blocks) : Laid[i].id = Laid[j].id => i = j
<1>1. PICK n \in Nat : n = Len(blocks)
  BY BlocksDiffer
<1> DEFINE Sorts(p) == \A i, j \in 1..n : i < j => Before(blocks[p[i]], blocks[p[j]])
           order == CHOOSE p \in [1..n -> 1..n] : Sorts(p)
<1>2. Laid = [i \in 1..n |-> blocks[order[i]]]
  BY <1>1 DEF Laid
<1>3. order \in [1..n -> 1..n] /\ Sorts(order)
  BY <1>1, OrderExists
<1> HIDE DEF order
<1>4. \A i, j \in 1..n : i < j => Before(blocks[order[i]], blocks[order[j]])
  BY <1>3
<1>5. ASSUME NEW i \in 1..n, NEW j \in 1..n, order[i] = order[j] PROVE i = j
  <2>1. order[i] \in 1..n
    BY <1>3
  <2>2. ~Before(blocks[order[i]], blocks[order[i]])
    BY <1>1, <2>1, BeforeOrders
  <2> QED
    BY <1>4, <1>5, <2>2
<1>6. \A m \in 1..n : \E i \in 1..n : order[i] = m
  BY <1>3, <1>5, Permutes
<1>7. \A i \in 1..n : Laid[i] = blocks[order[i]] /\ order[i] \in 1..n
  BY <1>2, <1>3
<1>8. ASSUME NEW i \in 1..n, NEW j \in 1..n, i < j PROVE Laid[i].rank >= Laid[j].rank
  <2>1. Before(Laid[i], Laid[j]) /\ Laid[i].rank \in Nat /\ Laid[j].rank \in Nat
    BY <1>1, <1>4, <1>7, <1>8, BlocksDiffer, SMTT(20)
  <2> QED
    BY <2>1 DEF Before
<1>9. ASSUME NEW i \in 1..n, NEW j \in 1..n, Laid[i].id = Laid[j].id PROVE i = j
  <2>1. order[i] = order[j]
    BY <1>1, <1>7, <1>9, BlocksDiffer, SMTT(20)
  <2> QED
    BY <1>5, <2>1
<1>10. \A m \in 1..n : \E i \in 1..n : Laid[i] = blocks[m]
  BY <1>6, <1>7
<1>11. \A i \in 1..n : \E m \in 1..n : Laid[i] = blocks[m]
  BY <1>7
<1> HIDE DEF Sorts
<1> QED
  BY <1>1, <1>8, <1>9, <1>10, <1>11

-----------------------------------------------------------------------------
(* The columns *)

\* The segments of a block that is laid out.
LEMMA LaidShape ==
  ASSUME BuildInv, pc = "built", NEW n \in 1..Len(blocks)
  PROVE  /\ Laid[n].rank \in Nat /\ Laid[n].exactSeg \in Seq(Word)
         /\ Laid[n].approxSegs \in Seq(Seq(Word)) /\ Len(Laid[n].approxSegs) = Laid[n].rank
         /\ \A i \in 1..Laid[n].rank : /\ Laid[n].approxSegs[i] \in Seq(Word)
                                       /\ Len(Laid[n].approxSegs[i]) = Len(Laid[n].approxSegs[1])
<1>1. PICK m \in 1..Len(blocks) : Laid[n] = blocks[m]
  BY LaidOut
<1>2. PICK x, iss : x = Laid[n] /\ (Full(x, iss) \/ Vacant(x, iss))
  BY <1>1, BlocksDiffer
<1>3. CASE Full(x, iss)
  <2>1. /\ x.rank \in Nat /\ x.approxSegs \in Seq(Seq(Word)) /\ x.exactSeg \in Seq(Word)
        /\ Len(x.approxSegs) = x.rank
        /\ \A i \in 1..Len(x.approxSegs) :
              Roomy(x.approxSegs[i], x.approxM) /\ Len(x.approxSegs[i]) = Len(x.approxSegs[1])
    BY <1>3 DEF Full, Approx, Roomy
  <2> QED
    BY <1>2, <2>1 DEF Roomy
<1>4. CASE Vacant(x, iss)
  <2>1. x.rank = 0 /\ x.approxSegs = <<>> /\ x.exactSeg = <<>>
    BY <1>4 DEF Vacant
  <2>2. <<>> \in Seq(Word) /\ <<>> \in Seq(Seq(Word)) /\ Len(<<>>) = 0
    OBVIOUS
  <2> QED
    BY <1>2, <2>1, <2>2
<1> QED
  BY <1>2, <1>3, <1>4

\* A column, and a segment that begins in its bit off.
Stands(col, off, seg) ==
    \E at \in Nat : /\ off = B * at /\ at + Len(seg) <= Len(col)
                    /\ \A i \in 1..Len(seg) : col[at + i] = seg[i]

\* The exact filter.
LEMMA ExactStands ==
  ASSUME BuildInv, pc = "built"
  PROVE  /\ Built.Y \in Seq(Word)
         /\ \A n \in 1..Len(blocks) : Stands(Built.Y, gOff(n), Laid[n].exactSeg)
<1> DEFINE ss == [n \in 1..Len(blocks) |-> Laid[n].exactSeg]
<1>1. Len(blocks) \in Nat /\ Built.Y = SX!FlattenSeq(ss)
  BY BlocksDiffer DEF Built
<1>2. \A n \in 1..Len(blocks) : Laid[n].exactSeg \in Seq(Word)
  BY LaidShape
<1>3. ss \in Seq(Seq(Word)) /\ Len(ss) = Len(blocks)
  BY <1>1, <1>2
<1>4. \A n \in 1..Len(blocks) : ss[n] = Laid[n].exactSeg
  OBVIOUS
<1> HIDE DEF ss
<1>5. Built.Y \in Seq(Word)
  BY <1>1, <1>3, FlattenType
<1>6. ASSUME NEW n \in 1..Len(blocks) PROVE Stands(Built.Y, gOff(n), Laid[n].exactSeg)
  <2>1. \A m \in 1..(n - 1) : m \in 1..Len(blocks)
    BY <1>1
  <2>2. FirstOf(ss, n) = [m \in 1..(n - 1) |-> gSeg(Laid[m])]
    BY <1>4, <2>1 DEF FirstOf, gSeg
  <2>3. PICK at : at = Len(SX!FlattenSeq(FirstOf(ss, n)))
    OBVIOUS
  <2>4. gOff(n) = B * at
    BY <2>2, <2>3 DEF gOff
  <2>5. /\ at \in Nat /\ at + Len(ss[n]) <= Len(SX!FlattenSeq(ss))
        /\ \A i \in 1..Len(ss[n]) : SX!FlattenSeq(ss)[at + i] = ss[n][i]
    BY <1>3, <2>3, SegmentStands
  <2> QED
    BY <1>1, <1>4, <2>4, <2>5 DEF Stands
<1> QED
  BY <1>5, <1>6

\* Column i of the approximate filter: the blocks before one that has it have it
\* too, as ranks never rise, so the offset in the first column is the one in all.
LEMMA ApproxStands ==
  ASSUME BuildInv, pc = "built", NEW i \in Nat \ {0}
  PROVE  /\ Column(i) \in Seq(Word)
         /\ \A n \in 1..Len(blocks) : i <= Laid[n].rank =>
               Stands(Column(i), hOff(n), Laid[n].approxSegs[i])
<1> DEFINE seg(n) == IF Laid[n].rank >= i THEN Laid[n].approxSegs[i] ELSE <<>>
           ss == [n \in 1..Len(blocks) |-> seg(n)]
<1>1. Len(blocks) \in Nat /\ Column(i) = SX!FlattenSeq(ss)
  BY BlocksDiffer DEF Column
<1>2. ASSUME NEW n \in 1..Len(blocks) PROVE seg(n) \in Seq(Word)
  <2>1. CASE Laid[n].rank >= i
    <3>1. i \in 1..Laid[n].rank
      BY <2>1, LaidShape
    <3> QED
      BY <2>1, <3>1, LaidShape
  <2>2. CASE ~(Laid[n].rank >= i)
    BY <2>2
  <2> QED
    BY <2>1, <2>2
<1>3. ss \in Seq(Seq(Word)) /\ Len(ss) = Len(blocks)
  BY <1>1, <1>2
<1>4. \A n \in 1..Len(blocks) : ss[n] = seg(n)
  OBVIOUS
<1> HIDE DEF ss
<1>5. Column(i) \in Seq(Word)
  BY <1>1, <1>3, FlattenType
<1>6. ASSUME NEW n \in 1..Len(blocks), i <= Laid[n].rank
      PROVE  Stands(Column(i), hOff(n), Laid[n].approxSegs[i])
  <2> DEFINE hs == [m \in 1..(n - 1) |-> hSeg(Laid[m])]
             fs == FirstOf(ss, n)
  <2>0. n - 1 \in Nat /\ Laid[n].rank \in Nat
    BY <1>1, LaidShape
  <2>1. ASSUME NEW m \in 1..(n - 1)
        PROVE  /\ hs[m] \in Seq(Word) /\ fs[m] \in Seq(Word) /\ Len(hs[m]) = Len(fs[m])
    <3>1. m \in 1..Len(blocks) /\ m < n
      BY <1>1, <2>1
    <3>2. Laid[m].rank >= Laid[n].rank /\ Laid[m].rank \in Nat
      BY <3>1, LaidOut, LaidShape
    <3>3. Laid[m].rank > 0 /\ Laid[m].rank >= i /\ i \in 1..Laid[m].rank /\ 1 \in 1..Laid[m].rank
      BY <1>6, <2>0, <3>2
    <3>4. hs[m] = Laid[m].approxSegs[1] /\ fs[m] = Laid[m].approxSegs[i]
      BY <1>4, <3>1, <3>3 DEF hSeg, FirstOf
    <3>5. /\ Laid[m].approxSegs[1] \in Seq(Word) /\ Laid[m].approxSegs[i] \in Seq(Word)
          /\ Len(Laid[m].approxSegs[i]) = Len(Laid[m].approxSegs[1])
      BY <3>1, <3>3, LaidShape
    <3> QED
      BY <3>4, <3>5
  <2>2. hs \in Seq(Seq(Word)) /\ Len(hs) = n - 1
    BY <2>0, <2>1
  <2>3. fs \in Seq(Seq(Word)) /\ Len(fs) = n - 1
    <3>1. n \in 1..(Len(ss) + 1)
      BY <1>1, <1>3
    <3> QED
      BY <1>3, <3>1, FirstOfTyped
  <2>4. \A m \in 1..Len(hs) : Len(hs[m]) = Len(fs[m])
    BY <2>1, <2>2
  <2>5. hOff(n) = B * Len(SX!FlattenSeq(hs))
    BY DEF hOff
  <2> HIDE DEF hs, fs
  <2>6. Len(SX!FlattenSeq(hs)) = Len(SX!FlattenSeq(fs))
    BY <2>2, <2>3, <2>4, SameRoom
  <2>7. PICK at : at = Len(SX!FlattenSeq(fs))
    OBVIOUS
  <2>8. /\ at \in Nat /\ at + Len(ss[n]) <= Len(SX!FlattenSeq(ss))
        /\ \A j \in 1..Len(ss[n]) : SX!FlattenSeq(ss)[at + j] = ss[n][j]
    BY <1>3, <2>7, SegmentStands DEF fs
  <2>9. ss[n] = Laid[n].approxSegs[i]
    BY <1>4, <1>6, <2>0
  <2> QED
    BY <1>1, <2>5, <2>6, <2>7, <2>8, <2>9 DEF Stands
<1> QED
  BY <1>5, <1>6

\* There are as many columns as the block with the highest rank has.
LEMMA maxRankIs ==
  ASSUME BuildInv, pc = "built"
  PROVE  maxRank \in Nat /\ \A n \in 1..Len(blocks) : Laid[n].rank <= maxRank
<1> DEFINE R == {0} \cup {blocks[n].rank : n \in 1..Len(blocks)}
<1>1. Len(blocks) \in Nat /\ R \subseteq Nat
  BY BlocksDiffer
<1>2. ASSUME NEW n \in 1..Len(blocks) PROVE Laid[n].rank \in R
  <2>1. PICK m \in 1..Len(blocks) : Laid[n] = blocks[m]
    BY LaidOut
  <2> QED
    BY <2>1
<1>3. \E x \in R : \A y \in R : x >= y
  <2>1. CASE Len(blocks) = 0
    BY <2>1
  <2>2. CASE Len(blocks) # 0
    <3>1. 1 \in 1..Len(blocks) /\ Laid[1].rank \in R
      BY <1>1, <1>2, <2>2
    <3>2. ASSUME NEW n \in 1..Len(blocks) PROVE Laid[1].rank >= blocks[n].rank
      <4>1. PICK i \in 1..Len(blocks) : Laid[i] = blocks[n]
        BY LaidOut
      <4>2. i = 1 \/ 1 < i
        BY <1>1
      <4>3. Laid[1].rank \in Nat
        BY <3>1, LaidShape
      <4>4. 1 < i => Laid[1].rank >= Laid[i].rank
        BY <3>1, LaidOut
      <4>5. Laid[1].rank >= Laid[1].rank
        BY <4>3
      <4>6. Laid[1].rank >= Laid[i].rank
        BY <4>2, <4>4, <4>5
      <4> QED
        BY <4>1, <4>6
    <3>3. Laid[1].rank >= 0
      BY <3>1, LaidShape
    <3>4. \A y \in R : Laid[1].rank >= y
      BY <3>2, <3>3
    <3> QED
      BY <3>1, <3>4
  <2> QED
    BY <2>1, <2>2
<1>4. maxRank = Max(R)
  BY DEF maxRank
<1> HIDE DEF R
<1>5. maxRank \in R /\ \A y \in R : maxRank >= y
  BY <1>3, <1>4 DEF Max
<1> QED
  BY <1>1, <1>2, <1>5

-----------------------------------------------------------------------------
(* Queries *)

\* The coefficients of a serial of the universe, and the row a column of m rows
\* begins at.
LEMMA CoefTyped ==
  ASSUME BuildInv, NEW n \in 1..Len(issuers),
         NEW s \in Range(issuers[n].Revoked) \cup Range(issuers[n].NotRevoked)
  PROVE  /\ Coef(issuers[n], s) \in Vector
         /\ \A m \in Nat \ {0} : /\ High(Coef(issuers[n], s)) % m \in Nat
                                 /\ High(Coef(issuers[n], s)) % m < m
<1>1. issuers \in Filters
  BY DEF BuildInv, RibbonInv
<1>2. Hash(issuers[n].id, s) \in Vector
  BY <1>1, BuilderAssumption
<1>3. 0 \in 0..(W * B - 1)
  BY ClubcardAssumption
<1>4. Coef(issuers[n], s) \in Vector
  BY <1>2, <1>3 DEF Coef, Vector
<1>5. High(Coef(issuers[n], s)) \in Nat
  BY HighNat
<1> QED
  BY <1>4, <1>5

\* A query at a segment's offset in the column asks the segment.
LEMMA StandsAnswers ==
  ASSUME BuildInv, NEW n \in 1..Len(issuers),
         NEW s \in Range(issuers[n].Revoked) \cup Range(issuers[n].NotRevoked),
         NEW m \in Nat \ {0}, NEW col \in Seq(Word), NEW off, NEW seg, Roomy(seg, m),
         Stands(col, off, seg)
  PROVE  bitsXorIsZero(col, off + (High(Coef(issuers[n], s)) % m), Coef(issuers[n], s))
           <=> ~Excluded(seg, issuers[n], s, m)
<1>1. PICK at \in Nat : /\ off = B * at /\ at + Len(seg) <= Len(col)
                        /\ \A i \in 1..Len(seg) : col[at + i] = seg[i]
  BY DEF Stands
<1>2. PICK coef \in Vector : coef = Coef(issuers[n], s)
  BY CoefTyped
<1>3. PICK row \in Nat : row = High(Coef(issuers[n], s)) % m /\ row < m
  BY CoefTyped
<1>4. bitsXorIsZero(col, B * at + row, coef) <=> bitsXorIsZero(seg, row, coef)
  <2>1. PICK mm \in Nat : mm = m
    OBVIOUS
  <2>2. Roomy(seg, mm) /\ row < mm
    BY <1>3, <2>1
  <2> QED
    BY <1>1, <2>2, SegmentXor
<1> QED
  BY <1>1, <1>2, <1>3, <1>4 DEF Excluded

\* The block that a query finds.
LEMMA BlockFound ==
  ASSUME BuildInv, pc = "built", NEW n \in 1..Len(issuers)
  PROVE  /\ issuers[n].id \in DOMAIN Built.Blocks
         /\ \E i \in 1..Len(blocks) :
               Laid[i] = blocks[n] /\ Built.Blocks[issuers[n].id] = Meta(i)
<1>1. n \in 1..Len(blocks) /\ blocks[n].id = issuers[n].id
  BY BlocksDiffer
<1>2. PICK i \in 1..Len(blocks) : Laid[i] = blocks[n]
  BY <1>1, LaidOut
<1>3. \A j \in 1..Len(blocks) : Laid[j].id = issuers[n].id => j = i
  BY <1>1, <1>2, LaidOut
<1>4. (CHOOSE j \in 1..Len(blocks) : Laid[j].id = issuers[n].id) = i
  BY <1>1, <1>2, <1>3
<1>5. Built.Blocks = [id \in {blocks[j].id : j \in 1..Len(blocks)} |->
                         Meta(CHOOSE j \in 1..Len(blocks) : Laid[j].id = id)]
  BY DEF Built
<1>6. issuers[n].id \in {blocks[j].id : j \in 1..Len(blocks)}
  BY <1>1
<1> QED
  BY <1>2, <1>4, <1>5, <1>6

\* The approximate filter excludes what does not pass the segments of the block.
LEMMA ApproxAnswers ==
  ASSUME BuildInv, pc = "built", NEW n \in 1..Len(issuers), NEW i \in 1..Len(blocks),
         Laid[i] = blocks[n], Full(blocks[n], issuers[n]),
         NEW s \in Range(issuers[n].Revoked) \cup Range(issuers[n].NotRevoked)
  PROVE  ExcludedByX(Built, Meta(i), Coef(issuers[n], s)) <=> ~Passes(blocks[n], issuers[n], s)
<1> DEFINE x == blocks[n]
           row == High(Coef(issuers[n], s)) % x.approxM
<1>1. /\ x.rank \in Nat /\ x.approxM \in Nat \ {0} /\ Len(x.approxSegs) = x.rank
      /\ \A j \in 1..x.rank : Roomy(x.approxSegs[j], x.approxM)
  BY DEF Full, Approx
<1>2. /\ Meta(i).HRank = x.rank /\ Meta(i).HModulus = x.approxM
      /\ x.rank > 0 => Meta(i).HOffset = hOff(i)
  BY DEF Meta
<1>3. ASSUME NEW j \in 1..x.rank
      PROVE  bitsXorIsZero(Built.X[j], Meta(i).HOffset + row, Coef(issuers[n], s))
               <=> ~Excluded(x.approxSegs[j], issuers[n], s, x.approxM)
  <2>1. j \in Nat \ {0} /\ j <= x.rank /\ x.rank > 0
    BY <1>1
  <2>2. j \in 1..maxRank
    BY <1>1, <2>1, maxRankIs
  <2>3. Built.X[j] = Column(j)
    BY <2>2 DEF Built
  <2>4. Column(j) \in Seq(Word) /\ Stands(Column(j), hOff(i), x.approxSegs[j])
    BY <2>1, ApproxStands
  <2>5. PICK col \in Seq(Word) : col = Column(j)
    BY <2>4
  <2>6. PICK m \in Nat \ {0} : m = x.approxM
    BY <1>1
  <2>7. PICK seg, off : seg = x.approxSegs[j] /\ off = hOff(i)
    OBVIOUS
  <2>8. Roomy(seg, m) /\ Stands(col, off, seg)
    BY <1>1, <2>4, <2>5, <2>6, <2>7
  <2>9. bitsXorIsZero(col, off + (High(Coef(issuers[n], s)) % m), Coef(issuers[n], s))
          <=> ~Excluded(seg, issuers[n], s, m)
    BY <2>8, StandsAnswers
  <2> QED
    BY <1>2, <2>1, <2>3, <2>5, <2>6, <2>7, <2>9
<1> HIDE DEF x
<1>4. ExcludedByX(Built, Meta(i), Coef(issuers[n], s)) <=>
        \E j \in 1..x.rank : Excluded(x.approxSegs[j], issuers[n], s, x.approxM)
  BY <1>2, <1>3 DEF ExcludedByX
<1> QED
  BY <1>1, <1>4 DEF Passes, x

\* So does the exact one with its segment.
LEMMA ExactAnswers ==
  ASSUME BuildInv, pc = "built", NEW n \in 1..Len(issuers), NEW i \in 1..Len(blocks),
         Laid[i] = blocks[n], Full(blocks[n], issuers[n]),
         NEW s \in Range(issuers[n].Revoked) \cup Range(issuers[n].NotRevoked)
  PROVE  ExcludedByY(Built, Meta(i), Coef(issuers[n], s)) <=>
           Excluded(blocks[n].exactSeg, issuers[n], s, blocks[n].exactM)
<1> DEFINE x == blocks[n]
<1>1. x.exactM \in Nat \ {0} /\ x.exactM > 0 /\ Roomy(x.exactSeg, x.exactM)
  BY DEF Full
<1>2. Meta(i).GModulus = x.exactM /\ Meta(i).GOffset = gOff(i)
  BY <1>1 DEF Meta
<1>3. PICK col \in Seq(Word) : col = Built.Y
  BY ExactStands
<1>4. PICK m \in Nat \ {0} : m = x.exactM
  BY <1>1
<1>5. PICK seg, off : seg = x.exactSeg /\ off = gOff(i)
  OBVIOUS
<1>6. Roomy(seg, m) /\ Stands(col, off, seg)
  BY <1>1, <1>3, <1>4, <1>5, ExactStands
<1>7. bitsXorIsZero(col, off + (High(Coef(issuers[n], s)) % m), Coef(issuers[n], s))
        <=> ~Excluded(seg, issuers[n], s, m)
  BY <1>6, StandsAnswers
<1> QED
  BY <1>1, <1>2, <1>3, <1>4, <1>5, <1>7 DEF ExcludedByY

\* The membership test tells the serials of every issuer apart.
LEMMA FilterAnswers ==
  ASSUME BuildInv, pc = "built", NEW n \in 1..Len(issuers), NEW i \in 1..Len(blocks),
         Laid[i] = blocks[n],
         NEW s \in Range(issuers[n].Revoked) \cup Range(issuers[n].NotRevoked)
  PROVE  FilterContains(Built, Meta(i), Hash(issuers[n].id, s), s) <=> s \in Range(issuers[n].Revoked)
<1> DEFINE x == blocks[n]
           a == Coef(issuers[n], s)
<1>1. Aligned(Hash(issuers[n].id, s)) = a
  BY DEF Aligned, Coef
<1>2. /\ Meta(i).HModulus = x.approxM /\ Meta(i).Exceptions = x.exceptions
      /\ Meta(i).Inverted = x.inverted
  BY DEF Meta
<1>3. n \in 1..Len(blocks) /\ (Full(x, issuers[n]) \/ Vacant(x, issuers[n]))
  BY BlocksDiffer
<1>4. Range(issuers[n].Revoked) \cap Range(issuers[n].NotRevoked) = {}
  BY BuilderAssumption DEF BuildInv, RibbonInv
<1> DEFINE in == /\ Meta(i).HModulus # 0 /\ ~ExcludedByX(Built, Meta(i), a)
                 /\ ~ExcludedByY(Built, Meta(i), a) /\ s \notin Meta(i).Exceptions
<1>5. FilterContains(Built, Meta(i), Hash(issuers[n].id, s), s) <=> in # Meta(i).Inverted
  BY <1>1 DEF FilterContains
<1>6. CASE Full(x, issuers[n])
  <2>1. /\ x.approxM \in Nat \ {0} /\ x.inverted = FALSE
        /\ \A r \in Range(issuers[n].Revoked) :
              Passes(x, issuers[n], r) /\ ~Excluded(x.exactSeg, issuers[n], r, x.exactM)
              /\ r \notin x.exceptions
        /\ \A r \in Range(issuers[n].NotRevoked) :
              Passes(x, issuers[n], r) /\ r \notin x.exceptions
                 => Excluded(x.exactSeg, issuers[n], r, x.exactM)
    BY <1>6 DEF Full, Approx
  <2>2. ExcludedByX(Built, Meta(i), a) <=> ~Passes(x, issuers[n], s)
    BY <1>6, ApproxAnswers
  <2>3. ExcludedByY(Built, Meta(i), a) <=> Excluded(x.exactSeg, issuers[n], s, x.exactM)
    BY <1>6, ExactAnswers
  <2> HIDE DEF x, a
  <2>4. in <=> s \in Range(issuers[n].Revoked)
    BY <1>2, <1>4, <2>1, <2>2, <2>3
  <2>5. in \in BOOLEAN
    OBVIOUS
  <2> HIDE DEF in
  <2>6. Meta(i).Inverted = FALSE
    BY <1>2, <2>1
  <2>7. in # FALSE <=> in
    BY <2>5
  <2> QED
    BY <1>5, <2>4, <2>6, <2>7
<1>7. CASE Vacant(x, issuers[n])
  <2>1. /\ x.approxM = 0 /\ x.inverted \in BOOLEAN /\ (x.inverted <=> issuers[n].Revoked # <<>>)
        /\ issuers[n].Revoked = <<>> \/ issuers[n].NotRevoked = <<>>
    BY <1>7 DEF Vacant
  <2>2. in = FALSE
    BY <1>2, <2>1
  <2>3. Range(<<>>) = {}
    BY DEF Range
  <2>4. s \in Range(issuers[n].Revoked) <=> issuers[n].Revoked # <<>>
    BY <1>4, <2>1, <2>3
  <2>5. /\ Meta(i).Inverted = TRUE \/ Meta(i).Inverted = FALSE
        /\ Meta(i).Inverted = TRUE <=> s \in Range(issuers[n].Revoked)
    BY <1>2, <2>1, <2>4
  <2> HIDE DEF x, in
  <2>6. CASE Meta(i).Inverted = TRUE
    <3>1. in # Meta(i).Inverted
      BY <2>2, <2>6
    <3> QED
      BY <1>5, <2>5, <2>6, <3>1
  <2>7. CASE Meta(i).Inverted = FALSE
    BY <1>5, <2>2, <2>5, <2>7
  <2> QED
    BY <2>5, <2>6, <2>7
<1> QED
  BY <1>3, <1>6, <1>7

\* Contains answers for the first timestamp that the filter covers.
LEMMA ContainsAnswers ==
  ASSUME NEW filter, NEW id, NEW serial, NEW out \in Outside, NEW in \in AtEnds,
         id \in DOMAIN filter.Blocks
  PROVE  Contains([coverage |-> Coverage, filter |-> filter], NewKey(id, serial), <<out, in>>)
           = IF FilterContains(filter, filter.Blocks[id], Hash(id, serial), serial)
             THEN "Revoked" ELSE "Good"
<1> DEFINE c == [coverage |-> Coverage, filter |-> filter]
           key == NewKey(id, serial)
           ts == <<out, in>>
           answer == IF FilterContains(filter, filter.Blocks[id], Hash(id, serial), serial)
                     THEN "Revoked" ELSE "Good"
<1>1. c.coverage = Coverage /\ c.filter = filter
  OBVIOUS
<1>2. key.Issuer = id /\ key.Serial = serial /\ key.IssuerSerialHash = Hash(id, serial)
  BY DEF NewKey
<1>3. ~Covered(Coverage, out)
  BY DEF Covered, Coverage, Outside
<1>4. Covered(Coverage, in)
  BY DEF Covered, Coverage, AtEnds
<1> HIDE DEF c, key
<1>5. containsAt(c, key, out) = "NotCovered"
  BY <1>1, <1>3 DEF containsAt
<1>6. containsAt(c, key, in) = answer
  BY <1>1, <1>2, <1>4 DEF containsAt
<1>7. DOMAIN ts = {1, 2} /\ ts[1] = out /\ ts[2] = in
  OBVIOUS
<1>8. answer # "NotCovered"
  OBVIOUS
<1> HIDE DEF ts, answer
<1> DEFINE conclusive == {n \in DOMAIN ts : containsAt(c, key, ts[n]) # "NotCovered"}
<1>9. conclusive = {2}
  BY <1>5, <1>6, <1>7, <1>8
<1>10. Min({2}) = 2
  BY MinIsSmallest
<1>11. Contains(c, key, ts) = IF conclusive = {} THEN "NotCovered"
                              ELSE containsAt(c, key, ts[Min(conclusive)])
  BY DEF Contains
<1>12. Contains(c, key, ts) = answer
  BY <1>6, <1>7, <1>9, <1>10, <1>11
<1> QED
  BY <1>12 DEF c, key, ts, answer

\* Whatever the timestamps around it, the answer is the one of the filter.
LEMMA SaysOne ==
  ASSUME NEW filter, NEW id, NEW serial, id \in DOMAIN filter.Blocks
  PROVE  Says(filter, id, serial) =
           {IF FilterContains(filter, filter.Blocks[id], Hash(id, serial), serial)
            THEN "Revoked" ELSE "Good"}
<1> DEFINE said(out, in) ==
             Contains([coverage |-> Coverage, filter |-> filter], NewKey(id, serial), <<out, in>>)
<1>1. PICK answer : answer = IF FilterContains(filter, filter.Blocks[id], Hash(id, serial), serial)
                             THEN "Revoked" ELSE "Good"
  OBVIOUS
<1>2. \A out \in Outside : \A in \in AtEnds : said(out, in) = answer
  BY <1>1, ContainsAnswers
<1>3. \E out \in Outside : \E in \in AtEnds : TRUE
  BY DEF Outside, AtEnds
<1>4. Says(filter, id, serial) = {said(out, in) : out \in Outside, in \in AtEnds}
  BY DEF Says
<1> HIDE DEF said
<1>5. Says(filter, id, serial) = {answer}
  BY <1>2, <1>3, <1>4
<1> QED
  BY <1>1, <1>5

\* The filter that is laid out answers for all serials.
LEMMA BuiltAnswers ==
  ASSUME BuildInv
  PROVE  QueriesExact
<1>1. SUFFICES ASSUME pc = "built", NEW n \in 1..Len(issuers),
                      NEW s \in Range(issuers[n].Revoked) \cup Range(issuers[n].NotRevoked)
               PROVE  Says(Built, issuers[n].id, s)
                        = {IF s \in Range(issuers[n].Revoked) THEN "Revoked" ELSE "Good"}
  <2>1. issuers \in Filters
    BY DEF BuildInv, RibbonInv
  <2>2. \A n \in 1..Len(issuers) : Range(issuers[n].Revoked) \cap Range(issuers[n].NotRevoked) = {}
    BY <2>1, BuilderAssumption
  <2> QED
    BY <1>1, <2>2 DEF QueriesExact
<1>2. PICK i \in 1..Len(blocks) : Laid[i] = blocks[n] /\ Built.Blocks[issuers[n].id] = Meta(i)
  BY <1>1, BlockFound
<1>3. PICK f : f = Built
  OBVIOUS
<1>4. PICK id : id = issuers[n].id
  OBVIOUS
<1>5. id \in DOMAIN f.Blocks
  BY <1>1, <1>3, <1>4, BlockFound
<1>6. Says(f, id, s) = {IF FilterContains(f, f.Blocks[id], Hash(id, s), s)
                        THEN "Revoked" ELSE "Good"}
  BY <1>5, SaysOne
<1>7. FilterContains(Built, Meta(i), Hash(issuers[n].id, s), s) <=> s \in Range(issuers[n].Revoked)
  BY <1>1, <1>2, FilterAnswers
<1>8. FilterContains(f, f.Blocks[id], Hash(id, s), s) <=> s \in Range(issuers[n].Revoked)
  BY <1>2, <1>3, <1>4, <1>7
<1> QED
  BY <1>3, <1>4, <1>6, <1>8

-----------------------------------------------------------------------------
(* The theorems on the queries *)

\* The query side agrees with the builder for any word size, hashes, issuers,
\* random bits and layout: revoked serials are Revoked, the others Good.
THEOREM Builder_QueriesExact == Spec => []QueriesExact
<1>1. BuildInv => QueriesExact
  BY BuiltAnswers
<1> QED
  BY <1>1, Builder_BuildInv, PTL

\* bitsXorIsZero computes the dot product on every column that is built.
THEOREM Builder_IsDotProduct == Spec => []IsDotProduct
<1>1. BuildInv => IsDotProduct
  <2> SUFFICES ASSUME BuildInv, pc = "built", NEW column \in Range(Built.X) \cup {Built.Y},
                      NEW row \in 0..(B * Len(column) + 1), NEW coef \in Vector
               PROVE  bitsXorIsZero(column, row, coef) <=>
                        Cardinality({n \in coef : BitSet(column, row + n)}) % 2 = 0
    BY DEF IsDotProduct
  <2>1. column \in Seq(Word)
    <3>1. Built.X = [i \in 1..maxRank |-> Column(i)] /\ maxRank \in Nat
      BY maxRankIs DEF Built
    <3>2. \A i \in 1..maxRank : Column(i) \in Seq(Word)
      BY <3>1, ApproxStands
    <3>3. Built.Y \in Seq(Word)
      BY ExactStands
    <3> QED
      BY <3>1, <3>2, <3>3 DEF Range
  <2>2. row \in Nat
    OBVIOUS
  <2>3. bitsXorIsZero(column, row, coef) <=> ~Odd({n \in coef : BitSet(column, row + n)})
    BY <2>1, <2>2, DotProduct
  <2>4. Cardinality({n \in coef : BitSet(column, row + n)}) \in Nat
    BY VectorFinite, FS_Subset, FS_CardinalityType
  <2> QED
    BY <2>3, <2>4 DEF Odd
<1> QED
  BY <1>1, Builder_BuildInv, PTL
=============================================================================
