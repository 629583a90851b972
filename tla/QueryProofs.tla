---------------------------- MODULE QueryProofs ------------------------------
(***************************************************************************)
(* What crlite-query reads of a certificate and prints about it, for every *)
(* certificate, filter and command line.                                   *)
(***************************************************************************)
EXTENDS CrliteQuery, WireProofs, FiniteSetTheorems

-----------------------------------------------------------------------------
(* Values with a length, and with a tag, before them.                      *)

\* What has a length before it is the first part of the input.
LEMMA PrefixedTaken ==
  ASSUME NEW x \in Seq(Nat), HasPrefixed(x)
  PROVE  /\ Taken(x) \in Seq(Nat) /\ AfterPrefixed(x) \in Seq(Nat)
         /\ Len(Taken(x)) = x[1] /\ x[1] \in Nat
         /\ x = Prefixed(Taken(x)) \o AfterPrefixed(x)
<1>1. Len(x) >= 1 /\ Len(x) >= 1 + x[1]
  BY DEF HasPrefixed
<1>2. /\ x[1] \in Nat /\ 1 + x[1] \in 0..Len(x)
      /\ SubSeq(x, 2, 1 + x[1]) \in Seq(Nat) /\ Len(SubSeq(x, 2, 1 + x[1])) = x[1]
      /\ SubSeq(x, (1 + x[1]) + 1, Len(x)) \in Seq(Nat)
      /\ SubSeq(x, 1, 1 + x[1]) = Prefixed(SubSeq(x, 2, 1 + x[1]))
  BY <1>1, SeqTaken
<1>3. (1 + x[1]) + 1 = 2 + x[1]
  BY <1>2
<1>4. x = SubSeq(x, 1, 1 + x[1]) \o SubSeq(x, (1 + x[1]) + 1, Len(x))
  <2> DEFINE n == 1 + x[1]
  <2>1. n \in 0..Len(x)
    BY <1>2
  <2> HIDE DEF n
  <2>2. x = SubSeq(x, 1, n) \o SubSeq(x, n + 1, Len(x))
    BY <2>1, Split
  <2> QED
    BY <2>2 DEF n
<1> QED
  BY <1>2, <1>3, <1>4 DEF Taken, AfterPrefixed

\* It is taken when it is there.
LEMMA PrefixedAhead ==
  ASSUME NEW a \in Seq(Nat), NEW b \in Seq(Nat), NEW x, x = Prefixed(a) \o b
  PROVE  /\ x \in Seq(Nat) /\ HasPrefixed(x) /\ Taken(x) = a /\ AfterPrefixed(x) = b
         /\ x[1] = Len(a)
<1> DEFINE p == Prefixed(a)
<1>1. p \in Seq(Nat) /\ Len(p) = 1 + Len(a) /\ p[1] = Len(a) /\ Len(a) \in Nat
  BY PrefixedType
<1> HIDE DEF p
<1>2. /\ p \o b \in Seq(Nat) /\ Len(p \o b) = Len(p) + Len(b)
      /\ SubSeq(p \o b, 1, Len(p)) = p
      /\ SubSeq(p \o b, Len(p) + 1, Len(p \o b)) = b
      /\ \A i \in 1..Len(p) : (p \o b)[i] = p[i]
  <2>1. p \in Seq(Nat) /\ b \in Seq(Nat)
    BY <1>1
  <2> QED
    BY ONLY <2>1, AfterConcat
<1>3. x = p \o b
  BY DEF p
<1>4. x \in Seq(Nat) /\ Len(x) = 1 + Len(a) + Len(b) /\ x[1] = Len(a)
      /\ SubSeq(x, 1, 1 + Len(a)) = p /\ SubSeq(x, (1 + Len(a)) + 1, Len(x)) = b
  <2>1. Len(b) \in Nat /\ 1 \in 1..Len(p)
    BY <1>1
  <2> QED
    BY ONLY <1>1, <1>2, <1>3, <2>1
<1>5. HasPrefixed(x)
  <2>1. Len(b) \in Nat /\ Len(x) >= 1 /\ Len(x) >= 1 + x[1]
    BY <1>1, <1>4
  <2> QED
    BY <2>1 DEF HasPrefixed
<1>6. AfterPrefixed(x) = b
  <2>1. (1 + Len(a)) + 1 = 2 + x[1]
    BY <1>1, <1>4
  <2> QED
    BY <1>4, <2>1 DEF AfterPrefixed
<1>7. Taken(x) = a
  <2>1. /\ SubSeq(x, 2, 1 + x[1]) \in Seq(Nat)
        /\ SubSeq(x, 1, 1 + x[1]) = Prefixed(SubSeq(x, 2, 1 + x[1]))
    BY <1>4, <1>5, SeqTaken DEF HasPrefixed
  <2> DEFINE y == SubSeq(x, 2, 1 + x[1])
  <2>2. y \in Seq(Nat) /\ Prefixed(y) = Prefixed(a)
    BY <1>4, <2>1 DEF p
  <2> HIDE DEF y
  <2>3. y = a
    BY ONLY <2>2, a \in Seq(Nat), PrefixedInjective
  <2> QED
    BY <2>3 DEF y, Taken
<1> QED
  BY <1>4, <1>5, <1>6, <1>7

\* One cell before others.
LEMMA ConsElements ==
  ASSUME NEW h \in Seq(Nat), NEW y \in Seq(Nat), Len(h) = 1
  PROVE  /\ h \o y \in Seq(Nat) /\ Len(h \o y) = 1 + Len(y) /\ (h \o y)[1] = h[1]
         /\ \A i \in 1..Len(y) : (h \o y)[i + 1] = y[i]
<1>1. /\ Len(h \o y) = Len(h) + Len(y)
      /\ \A i \in 1..Len(h) : (h \o y)[i] = h[i] /\ i \in 1..Len(h \o y)
      /\ \A i \in 1..Len(y) : (h \o y)[Len(h) + i] = y[i] /\ Len(h) + i \in 1..Len(h \o y)
  BY ONLY h \in Seq(Nat), y \in Seq(Nat), ConcatElements
<1>2. h \o y \in Seq(Nat)
  BY ONLY h \in Seq(Nat), y \in Seq(Nat), AfterConcat
<1> DEFINE x == h \o y
<1> HIDE DEF x
<1>3. ASSUME NEW i \in 1..Len(y) PROVE x[i + 1] = y[i]
  <2>1. Len(h) + i = i + 1
    OBVIOUS
  <2> QED
    BY <1>1, <2>1 DEF x
<1>4. x[1] = h[1]
  <2>1. 1 \in 1..Len(h)
    OBVIOUS
  <2> QED
    BY <1>1, <2>1 DEF x
<1> QED
  BY <1>1, <1>2, <1>3, <1>4 DEF x

\* A value with tag and length is a list of cells.
LEMMA TLVType ==
  ASSUME NEW tag \in Nat, NEW x \in Seq(Nat)
  PROVE  /\ TLV(tag, x) \in Seq(Nat) /\ Len(TLV(tag, x)) = 2 + Len(x)
         /\ TLV(tag, x) = <<tag>> \o Prefixed(x)
         /\ TLV(tag, x)[1] = tag /\ TLV(tag, x)[2] = Len(x)
<1>1. Len(x) \in Nat
  OBVIOUS
<1>2. <<tag>> \in Seq(Nat) /\ <<Len(x)>> \in Seq(Nat) /\ <<tag, Len(x)>> = <<tag>> \o <<Len(x)>>
  BY <1>1
<1>3. TLV(tag, x) = (<<tag>> \o <<Len(x)>>) \o x
  BY <1>2 DEF TLV
<1>4. (<<tag>> \o <<Len(x)>>) \o x = <<tag>> \o (<<Len(x)>> \o x)
  BY ONLY <1>2, x \in Seq(Nat), CellsAssociative, ZenonT(30)
<1> DEFINE h == <<tag, Len(x)>>
<1>5. h \in Seq(Nat) /\ Len(h) = 2 /\ h[1] = tag /\ h[2] = Len(x)
  BY <1>1
<1> HIDE DEF h
<1>6. h \o x \in Seq(Nat) /\ Len(h \o x) = 2 + Len(x) /\ (h \o x)[1] = tag /\ (h \o x)[2] = Len(x)
  <2>1. /\ h \o x \in Seq(Nat) /\ Len(h \o x) = Len(h) + Len(x)
        /\ \A i \in 1..Len(h) : (h \o x)[i] = h[i]
    <3>1. h \in Seq(Nat)
      BY <1>5
    <3> QED
      BY ONLY x \in Seq(Nat), <3>1, AfterConcat
  <2>2. 1 \in 1..Len(h) /\ 2 \in 1..Len(h)
    BY <1>5
  <2> QED
    BY ONLY <1>5, <2>1, <2>2
<1> QED
  BY <1>3, <1>4, <1>6 DEF TLV, Prefixed, h

\* A tag comes off.
LEMMA TagOff ==
  ASSUME NEW tag \in Nat, NEW y \in Seq(Nat)
  PROVE  /\ <<tag>> \o y \in Seq(Nat) /\ <<tag>> \o y # <<>>
         /\ (<<tag>> \o y)[1] = tag /\ Tail(<<tag>> \o y) = y
<1> DEFINE h == <<tag>>
           x == h \o y
<1>1. h \in Seq(Nat) /\ Len(h) = 1 /\ h[1] = tag
  OBVIOUS
<1> HIDE DEF h
<1>2. x \in Seq(Nat) /\ Len(x) = 1 + Len(y) /\ x[1] = tag /\ \A i \in 1..Len(y) : x[i + 1] = y[i]
  BY <1>1, ConsElements
<1> HIDE DEF x
<1>3. x # <<>> /\ Tail(x) \in Seq(Nat) /\ Len(Tail(x)) = Len(y)
      /\ \A i \in 1..Len(y) : Tail(x)[i] = x[i + 1]
  BY <1>2
<1>4. Tail(x) = y
  BY <1>2, <1>3, SeqEqual
<1> QED
  BY <1>2, <1>3, <1>4 DEF x, h

\* What can be read as one is the first part of the input.
LEMMA TLVTaken ==
  ASSUME NEW tag \in Nat, NEW x \in Seq(Nat), HasTLV(x, tag)
  PROVE  /\ Body(x) \in Seq(Nat) /\ AfterTLV(x) \in Seq(Nat)
         /\ x = TLV(tag, Body(x)) \o AfterTLV(x)
<1>1. x # <<>> /\ x[1] = tag /\ HasPrefixed(Tail(x)) /\ Tail(x) \in Seq(Nat)
  BY DEF HasTLV, PeekASN1Tag
<1> DEFINE y == Tail(x)
<1>2. Body(x) \in Seq(Nat) /\ AfterTLV(x) \in Seq(Nat) /\ y = Prefixed(Body(x)) \o AfterTLV(x)
  BY <1>1, PrefixedTaken DEF Body, AfterTLV
<1>3. x = <<tag>> \o y
  <2>1. Len(x) >= 1 /\ Len(y) = Len(x) - 1 /\ y \in Seq(Nat) /\ \A i \in 1..(Len(x) - 1) : y[i] = x[i + 1]
    BY <1>1
  <2> HIDE DEF y
  <2> DEFINE h == <<tag>>
             v == h \o y
  <2>2. h \in Seq(Nat) /\ Len(h) = 1 /\ h[1] = tag
    OBVIOUS
  <2> HIDE DEF h
  <2>3. v \in Seq(Nat) /\ Len(v) = Len(x) /\ v[1] = tag /\ \A i \in 1..(Len(x) - 1) : v[i + 1] = y[i]
    <3>1. v \in Seq(Nat) /\ Len(v) = 1 + Len(y) /\ v[1] = tag /\ \A i \in 1..Len(y) : v[i + 1] = y[i]
      BY <2>1, <2>2, ConsElements
    <3>2. Len(x) \in Nat /\ 1 + Len(y) = Len(x)
      BY <2>1
    <3> HIDE DEF v
    <3> QED
      BY ONLY <2>1, <3>1, <3>2
  <2> HIDE DEF v
  <2>4. ASSUME NEW i \in 1..Len(x) PROVE x[i] = v[i]
    <3>1. i = 1 \/ (i - 1 \in 1..(Len(x) - 1) /\ (i - 1) + 1 = i)
      OBVIOUS
    <3> QED
      BY <1>1, <2>1, <2>3, <3>1
  <2>5. x = v
    BY <2>3, <2>4, SeqEqual
  <2> QED
    BY <2>5 DEF v, h
<1> DEFINE p == Prefixed(Body(x))
<1>4. p \in Seq(Nat) /\ <<tag>> \in Seq(Nat) /\ TLV(tag, Body(x)) = <<tag>> \o p
  <2>1. TLV(tag, Body(x)) = <<tag>> \o p
    BY <1>2, TLVType
  <2>2. p \in Seq(Nat)
    BY <1>2, PrefixedType
  <2> HIDE DEF p
  <2> QED
    BY <2>1, <2>2
<1>5. <<tag>> \o (p \o AfterTLV(x)) = (<<tag>> \o p) \o AfterTLV(x)
  <2> DEFINE h == <<tag>>
             z == AfterTLV(x)
  <2>1. z \in Seq(Nat) /\ p \in Seq(Nat) /\ h \in Seq(Nat)
    BY <1>2, <1>4
  <2> HIDE DEF p, h, z
  <2>2. (h \o p) \o z = h \o (p \o z)
    BY ONLY <2>1, CellsAssociative, ZenonT(30)
  <2> QED
    BY <2>2 DEF h, z
<1> QED
  BY <1>2, <1>3, <1>4, <1>5

\* It is read when it is there.
LEMMA TLVAhead ==
  ASSUME NEW tag \in Nat, NEW a \in Seq(Nat), NEW b \in Seq(Nat), NEW x, x = TLV(tag, a) \o b
  PROVE  x \in Seq(Nat) /\ HasTLV(x, tag) /\ Body(x) = a /\ AfterTLV(x) = b
<1> DEFINE p == Prefixed(a)
           y == p \o b
<1>1. p \in Seq(Nat) /\ <<tag>> \in Seq(Nat) /\ TLV(tag, a) = <<tag>> \o p
  <2>1. TLV(tag, a) = <<tag>> \o p
    BY TLVType
  <2>2. p \in Seq(Nat)
    BY PrefixedType
  <2> HIDE DEF p
  <2> QED
    BY <2>1, <2>2
<1>2. y \in Seq(Nat) /\ HasPrefixed(y) /\ Taken(y) = a /\ AfterPrefixed(y) = b
  BY PrefixedAhead
<1>3. (<<tag>> \o p) \o b = <<tag>> \o y
  <2> HIDE DEF p
  <2> QED
    BY <1>1, Associative
<1>4. x = <<tag>> \o y
  BY <1>1, <1>3
<1> HIDE DEF y
<1>5. x \in Seq(Nat) /\ x # <<>> /\ x[1] = tag /\ Tail(x) = y
  BY <1>2, <1>4, TagOff
<1> QED
  BY <1>2, <1>5 DEF HasTLV, PeekASN1Tag, Body, AfterTLV

\* The same for all values.
LEMMA TLVIsAhead ==
  \A tag \in Nat : \A a, b \in Seq(Nat) :
      LET x == TLV(tag, a) \o b
      IN  x \in Seq(Nat) /\ HasTLV(x, tag) /\ Body(x) = a /\ AfterTLV(x) = b
BY TLVAhead

\* And when nothing follows it.
LEMMA TLVAlone ==
  ASSUME NEW tag \in Nat, NEW a \in Seq(Nat)
  PROVE  LET x == TLV(tag, a) IN HasTLV(x, tag) /\ Body(x) = a /\ AfterTLV(x) = <<>>
<1> DEFINE x == TLV(tag, a)
           e == <<>>
<1>1. x \in Seq(Nat)
  BY TLVType
<1>2. e \in Seq(Nat)
  OBVIOUS
<1>3. x \o e = x
  <2> HIDE DEF x
  <2> QED
    BY ONLY <1>1
<1> HIDE DEF e
<1>4. HasTLV(x \o e, tag) /\ Body(x \o e) = a /\ AfterTLV(x \o e) = e
  BY ONLY tag \in Nat, a \in Seq(Nat), <1>2, TLVIsAhead, ZenonT(30)
<1> QED
  BY ONLY <1>3, <1>4, Zenon DEF e

-----------------------------------------------------------------------------
(* SCTs and lists of them.                                                 *)

\* A serialized SCT is a list of cells.
LEMMA SCTType ==
  ASSUME NEW t \in SCT
  PROVE  /\ SerializedSCT(t) \in Seq(Nat) /\ Prefixed(SerializedSCT(t)) \in Seq(Nat)
         /\ SerializedSCT(t) = <<t.version, t.LogID, t.Timestamp>>
                                \o (Prefixed(t.extensions) \o t.signature)
<1> DEFINE h == <<t.version, t.LogID, t.Timestamp>>
           e == Prefixed(t.extensions)
           g == t.signature
<1>1. t.version \in Nat /\ t.LogID \in Nat /\ t.Timestamp \in Nat
      /\ t.extensions \in Seq(Nat) /\ t.signature \in Seq(Nat)
  BY DEF SCT
<1>2. h \in Seq(Nat) /\ g \in Seq(Nat)
  BY <1>1
<1>3. e \in Seq(Nat)
  BY <1>1, PrefixedType
<1>4. SerializedSCT(t) = (h \o e) \o g
  BY DEF SerializedSCT
<1> HIDE DEF h, e, g
<1>5. h \o e \in Seq(Nat)
  BY ONLY <1>2, <1>3, AfterConcat
<1>6. (h \o e) \o g \in Seq(Nat)
  BY ONLY <1>2, <1>5, AfterConcat
<1>7. (h \o e) \o g = h \o (e \o g)
  BY ONLY <1>2, <1>3, CellsAssociative, ZenonT(30)
<1>8. SerializedSCT(t) \in Seq(Nat) /\ SerializedSCT(t) = h \o (e \o g)
  BY <1>4, <1>6, <1>7
<1>9. Prefixed(SerializedSCT(t)) \in Seq(Nat)
  BY <1>8, PrefixedType
<1> QED
  BY <1>8, <1>9 DEF h, e, g

\* So is a list of them.
LEMMA SCTsType ==
  ASSUME NEW v \in Seq(SCT)
  PROVE  /\ EncodeSCTs(v) \in Seq(Seq(Nat)) /\ Len(EncodeSCTs(v)) = Len(v)
         /\ \A n \in 1..Len(v) : EncodeSCTs(v)[n] = Prefixed(SerializedSCT(v[n]))
<1>1. ASSUME NEW n \in 1..Len(v) PROVE Prefixed(SerializedSCT(v[n])) \in Seq(Nat)
  <2>1. v[n] \in SCT
    OBVIOUS
  <2> QED
    BY <2>1, SCTType
<1> QED
  BY <1>1 DEF EncodeSCTs

\* One more SCT.
LEMMA SCTsAppend ==
  ASSUME NEW w \in Seq(SCT), NEW t \in SCT
  PROVE  EncodeSCTs(Append(w, t)) = Append(EncodeSCTs(w), Prefixed(SerializedSCT(t)))
<1>1. ASSUME NEW v \in Seq(SCT)
      PROVE  /\ EncodeSCTs(v) \in Seq(Seq(Nat)) /\ Len(EncodeSCTs(v)) = Len(v)
             /\ \A n \in 1..Len(v) : EncodeSCTs(v)[n] = Prefixed(SerializedSCT(v[n]))
  BY SCTsType
<1> DEFINE u == Append(w, t)
           a == EncodeSCTs(u)
           x == Prefixed(SerializedSCT(t))
           b == EncodeSCTs(w)
<1>2. u \in Seq(SCT) /\ Len(u) = Len(w) + 1 /\ u[Len(w) + 1] = t
      /\ \A n \in 1..Len(w) : u[n] = w[n]
  OBVIOUS
<1>3. x \in Seq(Nat)
  BY SCTType
<1> HIDE DEF u
<1>4. a \in Seq(Seq(Nat)) /\ Len(a) = Len(w) + 1 /\ b \in Seq(Seq(Nat)) /\ Len(b) = Len(w)
  BY <1>1, <1>2
<1>5. \A n \in 1..Len(w) : a[n] = b[n]
  <2>1. ASSUME NEW n \in 1..Len(w) PROVE a[n] = b[n]
    <3>1. n \in 1..Len(u)
      BY <1>2
    <3> QED
      BY <1>1, <1>2, <3>1
  <2> QED
    BY <2>1
<1>6. a[Len(w) + 1] = x
  <2>1. Len(w) + 1 \in 1..Len(u)
    BY <1>2
  <2> QED
    BY <1>1, <1>2, <2>1
<1> HIDE DEF a, b, x
<1>7. a = Append(b, x)
  BY <1>3, <1>4, <1>5, <1>6, AppendIs
<1> QED
  BY <1>7 DEF a, b, x, u

\* The fields that are kept of each.
LEMMA KeptType ==
  ASSUME NEW v \in Seq(SCT)
  PROVE  /\ Kept(v) \in Seq([LogID : Nat, Timestamp : Nat]) /\ Len(Kept(v)) = Len(v)
         /\ \A n \in 1..Len(v) :
               Kept(v)[n] = [LogID |-> v[n].LogID, Timestamp |-> v[n].Timestamp]
<1>1. ASSUME NEW n \in 1..Len(v) PROVE v[n].LogID \in Nat /\ v[n].Timestamp \in Nat
  <2>1. v[n] \in SCT
    OBVIOUS
  <2> QED
    BY <2>1 DEF SCT
<1> QED
  BY <1>1 DEF Kept

\* Of one more.
LEMMA KeptAppend ==
  ASSUME NEW w \in Seq(SCT), NEW t \in SCT
  PROVE  Kept(Append(w, t)) = Append(Kept(w), [LogID |-> t.LogID, Timestamp |-> t.Timestamp])
<1>1. ASSUME NEW v \in Seq(SCT)
      PROVE  /\ Kept(v) \in Seq([LogID : Nat, Timestamp : Nat]) /\ Len(Kept(v)) = Len(v)
             /\ \A n \in 1..Len(v) :
                   Kept(v)[n] = [LogID |-> v[n].LogID, Timestamp |-> v[n].Timestamp]
  BY KeptType
<1> DEFINE u == Append(w, t)
           a == Kept(u)
           x == [LogID |-> t.LogID, Timestamp |-> t.Timestamp]
           b == Kept(w)
           S == [LogID : Nat, Timestamp : Nat]
<1>2. u \in Seq(SCT) /\ Len(u) = Len(w) + 1 /\ u[Len(w) + 1] = t
      /\ \A n \in 1..Len(w) : u[n] = w[n]
  OBVIOUS
<1>3. x \in S
  BY DEF SCT
<1> HIDE DEF u
<1>4. a \in Seq(S) /\ Len(a) = Len(w) + 1 /\ b \in Seq(S) /\ Len(b) = Len(w)
  BY <1>1, <1>2
<1>5. \A n \in 1..Len(w) : a[n] = b[n]
  <2>1. ASSUME NEW n \in 1..Len(w) PROVE a[n] = b[n]
    <3>1. n \in 1..Len(u)
      BY <1>2
    <3>2. a[n] = [LogID |-> u[n].LogID, Timestamp |-> u[n].Timestamp]
      BY <1>1, <1>2, <3>1
    <3>3. b[n] = [LogID |-> w[n].LogID, Timestamp |-> w[n].Timestamp]
      BY <1>1
    <3> QED
      BY <1>2, <3>2, <3>3
  <2> QED
    BY <2>1
<1>6. a[Len(w) + 1] = x
  <2>1. Len(w) + 1 \in 1..Len(u)
    BY <1>2
  <2> QED
    BY <1>1, <1>2, <2>1
<1> HIDE DEF a, b, x, S
<1>7. a = Append(b, x)
  BY <1>3, <1>4, <1>5, <1>6, AppendIs
<1> QED
  BY <1>7 DEF a, b, x, u

\* The record that ReadSCT makes of the cells x of an SCT.
Decoded(x) ==
    LET ext == SubSeq(x, 4, Len(x))
    IN  [version |-> x[1], LogID |-> x[2], Timestamp |-> x[3],
         extensions |-> Taken(ext), signature |-> AfterPrefixed(ext)]

\* What passes the tests is an SCT.
LEMMA DecodedIsThere ==
  ASSUME NEW x \in Seq(Nat), Supported(x)
  PROVE  /\ Decoded(x) \in SCT /\ SerializedSCT(Decoded(x)) = x
         /\ Decoded(x).LogID = x[2] /\ Decoded(x).Timestamp = x[3]
<1> DEFINE ext == SubSeq(x, 4, Len(x))
           h == SubSeq(x, 1, 3)
<1>1. Len(x) >= 3 /\ x[1] = 0 /\ HasPrefixed(ext) /\ Len(x) \in Nat
  BY DEF Supported
<1>2. x[1] \in Nat /\ x[2] \in Nat /\ x[3] \in Nat
  BY <1>1
<1>3. h \in Seq(Nat) /\ ext \in Seq(Nat) /\ x = h \o ext /\ Len(h) = 3
  <2>1. \A n \in 0..Len(x) : SubSeq(x, 1, n) \in Seq(Nat) /\ SubSeq(x, n + 1, Len(x)) \in Seq(Nat)
          /\ Len(SubSeq(x, 1, n)) = n /\ x = SubSeq(x, 1, n) \o SubSeq(x, n + 1, Len(x))
    BY Split, ZenonT(30)
  <2>2. 3 \in 0..Len(x) /\ 3 + 1 = 4
    BY <1>1
  <2>3. SubSeq(x, 1, 3) \in Seq(Nat) /\ SubSeq(x, 3 + 1, Len(x)) \in Seq(Nat)
          /\ Len(SubSeq(x, 1, 3)) = 3 /\ x = SubSeq(x, 1, 3) \o SubSeq(x, 3 + 1, Len(x))
    BY <2>1, <2>2
  <2> QED
    BY <2>2, <2>3
<1>4. h = <<x[1], x[2], x[3]>>
  <2> DEFINE z == <<x[1], x[2], x[3]>>
  <2>1. h[1] = x[1] /\ h[2] = x[2] /\ h[3] = x[3]
    BY <1>1
  <2>2. z \in Seq(Nat) /\ Len(z) = 3 /\ z[1] = x[1] /\ z[2] = x[2] /\ z[3] = x[3]
    BY <1>2
  <2> HIDE DEF z, h
  <2>3. ASSUME NEW i \in 1..Len(z) PROVE h[i] = z[i]
    <3>1. i = 1 \/ i = 2 \/ i = 3
      BY <2>2
    <3> QED
      BY <2>1, <2>2, <3>1
  <2>4. h = z
    BY <1>3, <2>2, <2>3, SeqEqual
  <2> QED
    BY <2>4 DEF z
<1>5. Taken(ext) \in Seq(Nat) /\ AfterPrefixed(ext) \in Seq(Nat)
      /\ ext = Prefixed(Taken(ext)) \o AfterPrefixed(ext)
  BY <1>1, <1>3, PrefixedTaken
<1> HIDE DEF ext, h
<1> DEFINE t == [version |-> x[1], LogID |-> x[2], Timestamp |-> x[3],
                 extensions |-> Taken(ext), signature |-> AfterPrefixed(ext)]
<1>6. Decoded(x) = t
  BY DEF Decoded, ext
<1>7. t \in SCT /\ t.version = x[1] /\ t.LogID = x[2] /\ t.Timestamp = x[3]
      /\ t.extensions = Taken(ext) /\ t.signature = AfterPrefixed(ext)
  BY <1>1, <1>2, <1>5 DEF SCT
<1> HIDE DEF t
<1>8. SerializedSCT(t) = <<t.version, t.LogID, t.Timestamp>> \o (Prefixed(t.extensions) \o t.signature)
  BY <1>7, SCTType
<1>9. SerializedSCT(t) = h \o ext
  BY <1>4, <1>5, <1>7, <1>8
<1> QED
  BY <1>3, <1>6, <1>7, <1>9

\* A set of numbers has a least one.
LEMMA NatMin ==
  ASSUME NEW S \in SUBSET Nat, S # {}
  PROVE  Min(S) \in S /\ \A n \in S : Min(S) <= n
<1> DEFINE T == {n \in Nat : \A m \in 0..n : m \notin S}
<1>1. PICK x \in S : TRUE
  OBVIOUS
<1>2. \E n \in S : \A m \in S : n <= m
  <2> SUFFICES ASSUME \A n \in S : \E m \in S : m < n PROVE FALSE
    OBVIOUS
  <2>1. 0 \in T
    <3>1. 0 \notin S
      OBVIOUS
    <3> QED
      BY <3>1
  <2>2. ASSUME NEW n \in T PROVE n + 1 \in T
    <3>1. n + 1 \notin S
      OBVIOUS
    <3>2. \A m \in 0..(n + 1) : m \in 0..n \/ m = n + 1
      OBVIOUS
    <3> QED
      BY <3>1, <3>2
  <2>3. T \in SUBSET Nat
    OBVIOUS
  <2> HIDE DEF T
  <2>4. T = Nat
    BY <2>1, <2>2, <2>3, SetInduction
  <2>5. x \in T
    BY <2>4
  <2> QED
    BY <1>1, <2>5 DEF T
<1> QED
  BY <1>2 DEF Min

-----------------------------------------------------------------------------
(* What has been read stands in the certificate.                           *)

CertTypes ==
    /\ from \in Contents /\ cert \in Damage(from)
    /\ pc \in {"extension", "list", "scts", "extracted", "malformedSCT", "noSCTs", "malformedTBS"}
    /\ s \in Seq(Nat)
    /\ serial \in Seq(Nat)
    /\ wire \in Seq(SCT)

\* The SCTs read so far, and what is left of the list, make up the list.
Listed ==
    /\ out = Kept(wire)
    /\ pc = "extension" => wire = <<>>
    /\ pc = "list" =>
          /\ Matching # {} /\ Wrapped(raw)
          /\ Taken(Body(raw)) = SX!FlattenSeq(EncodeSCTs(wire)) \o s
    /\ pc \in {"scts", "extracted"} /\ Matching # {} => raw = SCTExtension(wire)

\* The serial stands at the k-th cell of tbs.
SerialAt(tbs, x, k) ==
    /\ k + 1 + Len(x) <= 2 + tbs[2]
    /\ SubSeq(tbs, k, k + 1 + Len(x)) = TLV(INTEGER, x)
    /\ k = 3 \/ (tbs[3] = VERSION /\ k = 5 + tbs[4])

SerialThere ==
    pc = "extracted" =>
        \E k \in 3..Len(cert.RawTBSCertificate) : SerialAt(cert.RawTBSCertificate, serial, k)

ReadInv == CertTypes /\ Listed /\ SerialThere

\* A certificate is made of cells, damaged or not.
LEMMA CertificateTypes ==
  ASSUME CertTypes
  PROVE  /\ cert.Extensions \in Seq(Extension) /\ cert.RawTBSCertificate \in Seq(Nat)
         /\ Matching # {} => raw \in Seq(Nat)
<1>1. cert.Extensions \in Seq(Extension) /\ cert.RawTBSCertificate \in Seq(Nat)
  BY CertificateAssumption DEF CertTypes
<1>2. ASSUME Matching # {} PROVE raw \in Seq(Nat)
  <2>1. Matching \in SUBSET Nat
    BY DEF Matching
  <2>2. Min(Matching) \in Matching
    BY <1>2, <2>1, NatMin
  <2>3. Min(Matching) \in 1..Len(cert.Extensions)
    BY <2>2 DEF Matching
  <2>4. cert.Extensions[Min(Matching)] \in Extension
    BY <1>1, <2>3
  <2> QED
    BY <2>4 DEF raw, Extension
<1> QED
  BY <1>1, <1>2

\* An empty list.
LEMMA NothingRead == EncodeSCTs(<<>>) = <<>> /\ Kept(<<>>) = <<>> /\ SX!FlattenSeq(EncodeSCTs(<<>>)) = <<>>
<1>1. EncodeSCTs(<<>>) = <<>> /\ Kept(<<>>) = <<>>
  BY DEF EncodeSCTs, Kept
<1> QED
  BY <1>1, FlattenEmpty

\* A refused certificate is not looked at again.
LEMMA RefuseReads ==
  ASSUME NEW why \in {"malformedSCT", "noSCTs", "malformedTBS"}, ReadInv, Refuse(why)
  PROVE  ReadInv'
<1>1. pc' = why /\ UNCHANGED <<from, cert, s, out, serial, wire>>
  BY DEF Refuse
<1>2. CertTypes'
  BY <1>1 DEF ReadInv, CertTypes
<1>3. Listed'
  BY <1>1 DEF ReadInv, Listed
<1>4. SerialThere'
  BY <1>1 DEF SerialThere
<1> QED
  BY <1>2, <1>3, <1>4 DEF ReadInv

\* Without the extension there are no SCTs.
LEMMA NoExtensionReads ==
  ASSUME ReadInv, NoExtension
  PROVE  ReadInv'
<1>1. pc' = "scts" /\ Matching = {} /\ UNCHANGED <<from, cert, s, out, serial, wire>>
  BY DEF NoExtension
<1>2. Matching' = {}
  BY <1>1 DEF Matching
<1>3. CertTypes'
  BY <1>1 DEF ReadInv, CertTypes
<1>4. Listed'
  BY <1>1, <1>2 DEF ReadInv, Listed
<1>5. SerialThere'
  BY <1>1 DEF SerialThere
<1> QED
  BY <1>3, <1>4, <1>5 DEF ReadInv

\* The two wrappers of the list.
LEMMA WrappedIs ==
  ASSUME NEW x \in Seq(Nat), Wrapped(x)
  PROVE  Taken(Body(x)) \in Seq(Nat) /\ x = TLV(OCTET_STRING, Prefixed(Taken(Body(x))))
<1>1. HasTLV(x, OCTET_STRING) /\ AfterTLV(x) = <<>> /\ HasPrefixed(Body(x))
      /\ AfterPrefixed(Body(x)) = <<>> /\ OCTET_STRING \in Nat
  BY DEF Wrapped, OCTET_STRING
<1> DEFINE y == Body(x)
           a == Taken(y)
           p == Prefixed(a)
           v == TLV(OCTET_STRING, y)
<1>2. y \in Seq(Nat) /\ x = v \o <<>>
  BY <1>1, TLVTaken
<1>3. a \in Seq(Nat) /\ y = p \o <<>>
  BY <1>1, <1>2, PrefixedTaken
<1>4. p \in Seq(Nat)
  BY <1>3, PrefixedType
<1>5. v \in Seq(Nat)
  BY <1>1, <1>2, TLVType
<1> HIDE DEF y, a, p, v
<1>6. p \o <<>> = p
  BY ONLY <1>4
<1>7. v \o <<>> = v
  BY ONLY <1>5
<1> QED
  BY <1>2, <1>3, <1>6, <1>7 DEF y, a, p, v

\* The list that is opened fills the extension.
LEMMA OpenListReads ==
  ASSUME ReadInv, OpenList
  PROVE  ReadInv'
<1>1. CASE Wrapped(raw) /\ s' = Taken(Body(raw)) /\ pc' = "list"
           /\ UNCHANGED <<from, cert, out, serial, wire>>
  <2>1. Matching # {} /\ Matching' = Matching /\ raw' = raw
    BY <1>1 DEF OpenList, Matching, raw
  <2>2. raw \in Seq(Nat) /\ s' \in Seq(Nat)
    BY <1>1, <2>1, CertificateTypes, WrappedIs DEF ReadInv
  <2>3. <<>> \o s' = s'
    BY ONLY <2>2
  <2>4. wire = <<>> /\ SX!FlattenSeq(EncodeSCTs(wire)) = <<>>
    BY NothingRead DEF OpenList, ReadInv, Listed
  <2>5. CertTypes'
    BY <1>1, <2>2 DEF ReadInv, CertTypes
  <2>6. Taken(Body(raw')) = SX!FlattenSeq(EncodeSCTs(wire')) \o s'
    BY <1>1, <2>1, <2>3, <2>4
  <2>7. Listed'
    BY <1>1, <2>1, <2>6 DEF ReadInv, Listed
  <2>8. SerialThere'
    BY <1>1 DEF SerialThere
  <2> QED
    BY <2>5, <2>7, <2>8 DEF ReadInv
<1>2. CASE Refuse("malformedSCT")
  BY <1>2, RefuseReads
<1> QED
  BY <1>1, <1>2 DEF OpenList

\* One more SCT has been read.
LEMMA ReadSCTReads ==
  ASSUME ReadInv, ReadSCT
  PROVE  ReadInv'
<1>1. CASE Refuse("malformedSCT")
  BY <1>1, RefuseReads
<1>2. CASE HasPrefixed(s) /\ Supported(Taken(s)) /\ ~Refuse("malformedSCT")
  <2> DEFINE x == Taken(s)
             t == Decoded(x)
             r == AfterPrefixed(s)
             f == SX!FlattenSeq(EncodeSCTs(wire))
             p == Prefixed(x)
  <2>1. s \in Seq(Nat) /\ wire \in Seq(SCT) /\ pc = "list"
    BY DEF ReadInv, CertTypes, ReadSCT
  <2>2. x \in Seq(Nat) /\ r \in Seq(Nat) /\ s = p \o r
    BY <1>2, <2>1, PrefixedTaken
  <2>3. t \in SCT /\ SerializedSCT(t) = x /\ t.LogID = x[2] /\ t.Timestamp = x[3]
    BY <1>2, <2>2, DecodedIsThere
  <2>4. /\ out' = Append(out, [LogID |-> t.LogID, Timestamp |-> t.Timestamp])
        /\ wire' = Append(wire, t) /\ s' = r /\ UNCHANGED <<from, cert, pc, serial>>
    BY <1>2, <2>3 DEF ReadSCT, Decoded
  <2>5. EncodeSCTs(wire) \in Seq(Seq(Nat)) /\ f \in Seq(Nat) /\ p \in Seq(Nat)
    BY <2>1, <2>2, SCTsType, FlattenType, PrefixedType
  <2>6. SX!FlattenSeq(EncodeSCTs(wire')) = f \o p
    <3>1. EncodeSCTs(wire') = Append(EncodeSCTs(wire), p)
      BY <2>1, <2>3, <2>4, SCTsAppend
    <3> QED
      BY <2>5, <3>1, FlattenAppend
  <2>7. Matching' = Matching /\ raw' = raw
    BY <2>4 DEF Matching, raw
  <2>8. Taken(Body(raw')) = SX!FlattenSeq(EncodeSCTs(wire')) \o s'
    <3>1. Taken(Body(raw)) = f \o (p \o r)
      BY <2>1, <2>2 DEF ReadInv, Listed
    <3> HIDE DEF f, p, r, x, t
    <3>2. (f \o p) \o r = f \o (p \o r)
      BY ONLY <2>2, <2>5, CellsAssociative, ZenonT(30)
    <3> QED
      BY <2>4, <2>6, <2>7, <3>1, <3>2
  <2>9. wire' \in Seq(SCT) /\ out' = Kept(wire')
    <3>1. out = Kept(wire)
      BY DEF ReadInv, Listed
    <3>2. Kept(Append(wire, t)) = Append(Kept(wire), [LogID |-> t.LogID, Timestamp |-> t.Timestamp])
      BY <2>1, <2>3, KeptAppend
    <3> HIDE DEF t, x
    <3> QED
      BY <2>1, <2>3, <2>4, <3>1, <3>2
  <2> HIDE DEF x, t, r, f, p
  <2>10. CertTypes'
    BY <2>2, <2>4, <2>9 DEF ReadInv, CertTypes
  <2>11. Listed'
    BY <2>1, <2>4, <2>7, <2>8, <2>9 DEF ReadInv, Listed
  <2>12. SerialThere'
    BY <2>1, <2>4 DEF SerialThere
  <2> QED
    BY <2>10, <2>11, <2>12 DEF ReadInv
<1> QED
  BY <1>1, <1>2 DEF ReadSCT

\* The list has been read to its end.
LEMMA ListEndsReads ==
  ASSUME ReadInv, ListEnds
  PROVE  ReadInv'
<1>1. pc = "list" /\ s = <<>> /\ pc' = "scts" /\ UNCHANGED <<from, cert, s, out, serial, wire>>
  BY DEF ListEnds
<1>2. Matching' = Matching /\ raw' = raw /\ Matching # {} /\ wire \in Seq(SCT) /\ Wrapped(raw)
  BY <1>1 DEF Matching, raw, ReadInv, Listed, CertTypes
<1> DEFINE f == SX!FlattenSeq(EncodeSCTs(wire))
<1>3. f \in Seq(Nat)
  BY <1>2, SCTsType, FlattenType
<1>4. Taken(Body(raw)) = f
  <2>1. Taken(Body(raw)) = f \o <<>>
    BY <1>1 DEF ReadInv, Listed
  <2> HIDE DEF f
  <2> QED
    BY <1>3, <2>1
<1>5. raw = SCTExtension(wire)
  <2>1. raw \in Seq(Nat)
    BY <1>2, CertificateTypes DEF ReadInv
  <2>2. raw = TLV(OCTET_STRING, Prefixed(Taken(Body(raw))))
    BY <1>2, <2>1, WrappedIs
  <2> QED
    BY <1>4, <2>2 DEF SCTExtension
<1>6. CertTypes'
  BY <1>1 DEF ReadInv, CertTypes
<1>7. SCTExtension(wire') = SCTExtension(wire)
  BY <1>1
<1>8. Listed'
  BY <1>1, <1>2, <1>5, <1>7 DEF ReadInv, Listed
<1>9. SerialThere'
  BY <1>1 DEF SerialThere
<1> QED
  BY <1>6, <1>8, <1>9 DEF ReadInv

\* A part m in the middle of the input.
LEMMA Middle ==
  ASSUME NEW p \in Seq(Nat), NEW m \in Seq(Nat), NEW y \in Seq(Nat), NEW w, w = p \o (m \o y)
  PROVE  /\ w \in Seq(Nat) /\ Len(w) = Len(p) + (Len(m) + Len(y))
         /\ SubSeq(w, Len(p) + 1, Len(p) + Len(m)) = m
         /\ \A i \in 1..Len(p) : w[i] = p[i]
         /\ \A i \in 1..Len(m) : w[Len(p) + i] = m[i]
<1> DEFINE q == m \o y
<1>1. q \in Seq(Nat) /\ Len(q) = Len(m) + Len(y)
  BY ONLY m \in Seq(Nat), y \in Seq(Nat), AfterConcat
<1>2. \A i \in 1..Len(m) : q[i] = m[i]
  BY ONLY m \in Seq(Nat), y \in Seq(Nat), AfterConcat
<1>3. w = p \o q
  OBVIOUS
<1> HIDE DEF q
<1>4. w \in Seq(Nat) /\ Len(w) = Len(p) + Len(q)
  BY ONLY <1>1, <1>3, p \in Seq(Nat), AfterConcat, ZenonT(30)
<1>5. /\ \A i \in 1..Len(p) : w[i] = p[i]
      /\ \A i \in 1..Len(q) : w[Len(p) + i] = q[i]
  BY ONLY <1>1, <1>3, p \in Seq(Nat), ConcatElements
<1>6. Len(p) \in Nat /\ Len(m) \in Nat /\ Len(y) \in Nat
  OBVIOUS
<1>7. \A i \in 1..Len(m) : w[Len(p) + i] = m[i]
  <2>1. \A i \in 1..Len(m) : i \in 1..Len(q)
    BY <1>1, <1>6
  <2> QED
    BY ONLY <1>2, <1>5, <2>1
<1> DEFINE a == Len(p)
           b == Len(m)
           c == SubSeq(w, a + 1, a + b)
<1>8. a \in Nat /\ b \in Nat /\ a + b <= Len(w) /\ w \in Seq(Nat)
  BY <1>1, <1>4, <1>6
<1> HIDE DEF a, b
<1>9. c \in Seq(Nat) /\ Len(c) = b /\ \A i \in 1..b : c[i] = w[a + i]
  BY ONLY <1>8, SMTT(20)
<1> HIDE DEF c
<1>10. c = m
  <2>1. ASSUME NEW i \in 1..Len(m) PROVE c[i] = m[i]
    BY <1>7, <1>9 DEF a, b
  <2> QED
    BY <1>9, <2>1, SeqEqual DEF b
<1> QED
  BY <1>1, <1>4, <1>5, <1>7, <1>10 DEF a, b, c

\* What RawSerial takes is the INTEGER behind the version, if there is one.
LEMMA SerialPlace ==
  ASSUME NEW tbs \in Seq(Nat), SerialReadable(tbs)
  PROVE  LET x == Body(AtSerial(Body(tbs)))
         IN  x \in Seq(Nat) /\ \E k \in 3..Len(tbs) : SerialAt(tbs, x, k)
<1> DEFINE inner == Body(tbs)
           r == AfterTLV(tbs)
           q == AtSerial(inner)
           x == Body(q)
           z == AfterTLV(q)
           m == TLV(INTEGER, x)
           u == TLV(VERSION, Body(inner))
           v == IF PeekASN1Tag(inner, VERSION) THEN u ELSE <<>>
           a == <<SEQUENCE, Len(inner)>>
<1>1. SEQUENCE \in Nat /\ VERSION \in Nat /\ INTEGER \in Nat
  BY DEF SEQUENCE, VERSION, INTEGER
<1>2. inner \in Seq(Nat) /\ r \in Seq(Nat) /\ tbs = TLV(SEQUENCE, inner) \o r
  BY <1>1, TLVTaken DEF SerialReadable
<1>3. q \in Seq(Nat) /\ v \in Seq(Nat) /\ inner = v \o q
      /\ (PeekASN1Tag(inner, VERSION) => Len(v) = 2 + v[2] /\ v[1] = VERSION)
      /\ (~PeekASN1Tag(inner, VERSION) => v = <<>>)
  <2>1. CASE PeekASN1Tag(inner, VERSION)
    <3>1. HasTLV(inner, VERSION)
      BY <2>1 DEF SerialReadable
    <3>2. Body(inner) \in Seq(Nat) /\ AfterTLV(inner) \in Seq(Nat) /\ inner = u \o AfterTLV(inner)
      BY <1>1, <1>2, <3>1, TLVTaken
    <3>3. u \in Seq(Nat) /\ Len(u) = 2 + Len(Body(inner)) /\ u[1] = VERSION /\ u[2] = Len(Body(inner))
      BY <1>1, <3>2, TLVType
    <3>4. q = AfterTLV(inner) /\ v = u
      BY <2>1 DEF AtSerial
    <3> HIDE DEF u, q, v
    <3> QED
      BY <2>1, <3>2, <3>3, <3>4
  <2>2. CASE ~PeekASN1Tag(inner, VERSION)
    <3>1. q = inner /\ v = <<>>
      BY <2>2 DEF AtSerial
    <3> HIDE DEF q, v, inner
    <3>2. <<>> \o inner = inner
      BY ONLY <1>2
    <3> QED
      BY <1>2, <2>2, <3>1, <3>2
  <2> QED
    BY <2>1, <2>2
<1>4. x \in Seq(Nat) /\ z \in Seq(Nat) /\ q = m \o z
  <2>1. HasTLV(q, INTEGER)
    BY DEF SerialReadable
  <2> QED
    BY <1>1, <1>3, <2>1, TLVTaken
<1>5. m \in Seq(Nat) /\ Len(m) = 2 + Len(x)
  BY <1>1, <1>4, TLVType
<1>6. a \in Seq(Nat) /\ Len(a) = 2 /\ TLV(SEQUENCE, inner) = a \o inner /\ a[2] = Len(inner)
  BY <1>1, <1>2 DEF TLV
<1> DEFINE p == a \o v
           y == z \o r
<1> HIDE DEF inner, r, q, x, z, m, u, v, a
<1>18. a \in Seq(Nat) /\ v \in Seq(Nat)
  BY <1>3, <1>6
<1>19. m \in Seq(Nat) /\ z \in Seq(Nat) /\ r \in Seq(Nat)
  BY <1>2, <1>4, <1>5
<1>7. p \in Seq(Nat) /\ Len(p) = Len(a) + Len(v) /\ (\A i \in 1..Len(a) : p[i] = a[i])
      /\ (\A i \in 1..Len(v) : p[Len(a) + i] = v[i])
  <2>1. p \in Seq(Nat)
    BY ONLY <1>18, AfterConcat
  <2>2. Len(p) = Len(a) + Len(v) /\ (\A i \in 1..Len(a) : p[i] = a[i])
        /\ (\A i \in 1..Len(v) : p[Len(a) + i] = v[i])
    BY ONLY <1>18, ConcatElements
  <2> QED
    BY ONLY <2>1, <2>2
<1>8. y \in Seq(Nat)
  BY ONLY <1>2, <1>4, AfterConcat
<1>9. tbs = p \o (m \o y)
  <2> DEFINE mz == m \o z
  <2>1. mz \in Seq(Nat)
    BY ONLY <1>4, <1>5, AfterConcat
  <2>2. a \o inner = a \o (v \o mz)
    BY <1>3, <1>4
  <2> HIDE DEF mz
  <2>3. (a \o v) \o mz = a \o (v \o mz)
    BY ONLY <1>18, <2>1, CellsAssociative, ZenonT(30)
  <2>4. tbs = (p \o mz) \o r
    BY <1>2, <1>6, <2>2, <2>3
  <2> HIDE DEF p
  <2>5. (p \o mz) \o r = p \o (mz \o r)
    <3>1. p \in Seq(Nat)
      BY <1>7
    <3> QED
      BY ONLY <1>19, <2>1, <3>1, CellsAssociative, ZenonT(30)
  <2>6. (m \o z) \o r = m \o (z \o r)
    BY ONLY <1>19, CellsAssociative, ZenonT(30)
  <2> QED
    BY <2>4, <2>5, <2>6 DEF mz
<1> HIDE DEF p, y
<1>10. /\ Len(tbs) = Len(p) + (Len(m) + Len(y))
       /\ SubSeq(tbs, Len(p) + 1, Len(p) + Len(m)) = m
       /\ \A i \in 1..Len(p) : tbs[i] = p[i]
  <2>1. p \in Seq(Nat)
    BY <1>7
  <2> QED
    BY ONLY <1>8, <1>9, <1>19, <2>1, Middle
<1> DEFINE k == Len(p) + 1
<1>11. Len(v) \in Nat /\ Len(x) \in Nat /\ Len(y) \in Nat /\ Len(z) \in Nat /\ Len(inner) = Len(v) + (Len(m) + Len(z))
  <2>1. Len(inner) = Len(v) + Len(q)
    BY ONLY <1>3, AfterConcat
  <2>2. Len(q) = Len(m) + Len(z)
    BY ONLY <1>4, <1>5, AfterConcat, ZenonT(30)
  <2>3. Len(v) \in Nat /\ Len(x) \in Nat /\ Len(y) \in Nat /\ Len(z) \in Nat
    BY <1>3, <1>4, <1>8
  <2> QED
    BY ONLY <2>1, <2>2, <2>3
<1>12. tbs[2] = Len(inner)
  <2>1. 2 \in 1..Len(a) /\ 2 \in 1..Len(p)
    BY <1>6, <1>7, <1>11
  <2> QED
    BY <1>6, <1>7, <1>10, <2>1
<1>13. k \in 3..Len(tbs) /\ k + 1 + Len(x) = Len(p) + Len(m) /\ k = 3 + Len(v)
  <2>1. Len(p) = 2 + Len(v) /\ Len(m) = 2 + Len(x) /\ Len(tbs) = Len(p) + (Len(m) + Len(y))
        /\ Len(v) \in Nat /\ Len(x) \in Nat /\ Len(y) \in Nat
    BY <1>5, <1>6, <1>7, <1>10, <1>11
  <2> QED
    BY ONLY <2>1
<1>14. k + 1 + Len(x) <= 2 + tbs[2]
  BY ONLY <1>5, <1>6, <1>7, <1>11, <1>12, <1>13
<1>15. SubSeq(tbs, k, k + 1 + Len(x)) = TLV(INTEGER, x)
  BY <1>10, <1>13 DEF m
<1>16. k = 3 \/ (tbs[3] = VERSION /\ k = 5 + tbs[4])
  <2>1. CASE PeekASN1Tag(inner, VERSION)
    <3>1. Len(v) = 2 + v[2] /\ v[1] = VERSION /\ v[2] \in Nat
      <4>1. Len(v) = 2 + v[2] /\ v[1] = VERSION
        BY <1>3, <2>1
      <4>2. v = u
        BY <2>1 DEF v
      <4>3. Body(inner) \in Seq(Nat)
        BY <1>1, <1>2, <2>1, TLVTaken DEF SerialReadable, inner
      <4>4. u[2] = Len(Body(inner))
        BY <1>1, <4>3, TLVType DEF u
      <4> QED
        BY <4>1, <4>2, <4>3, <4>4
    <3>2. 1 \in 1..Len(v) /\ 2 \in 1..Len(v) /\ 3 \in 1..Len(p) /\ 4 \in 1..Len(p)
      <4>1. Len(p) = 2 + Len(v)
        BY <1>6, <1>7
      <4> QED
        BY ONLY <3>1, <4>1, SMTT(20)
    <3>3. p[Len(a) + 1] = v[1] /\ p[Len(a) + 2] = v[2] /\ Len(a) + 1 = 3 /\ Len(a) + 2 = 4
      BY ONLY <1>6, <1>7, <3>2, SMTT(20)
    <3>4. tbs[3] = VERSION /\ tbs[4] = v[2]
      BY ONLY <1>10, <3>1, <3>2, <3>3
    <3>5. k = 3 + Len(v) /\ Len(v) = 2 + tbs[4] /\ tbs[4] \in Nat
      BY ONLY <1>13, <3>1, <3>4
    <3>6. k = 5 + tbs[4]
      <4> DEFINE w == tbs[4]
                 l == Len(v)
      <4>1. k = 3 + l /\ l = 2 + w /\ w \in Nat
        BY <3>5
      <4> HIDE DEF k, l, w
      <4>2. k = 5 + w
        BY ONLY <4>1
      <4> QED
        BY <4>2 DEF w
    <3> QED
      BY ONLY <3>4, <3>6, Zenon
  <2>2. CASE ~PeekASN1Tag(inner, VERSION)
    BY <1>3, <1>13, <2>2
  <2> QED
    BY <2>1, <2>2
<1> HIDE DEF k
<1>17. SerialAt(tbs, x, k)
  BY <1>14, <1>15, <1>16 DEF SerialAt
<1> QED
  BY <1>4, <1>13, <1>17 DEF x, q, inner

\* The serial stands at its place.
LEMMA RawSerialReads ==
  ASSUME ReadInv, RawSerial
  PROVE  ReadInv'
<1> DEFINE tbs == cert.RawTBSCertificate
<1>1. CASE SerialReadable(tbs) /\ serial' = Body(AtSerial(Body(tbs))) /\ pc' = "extracted"
           /\ UNCHANGED <<from, cert, s, out, wire>>
  <2>1. tbs \in Seq(Nat) /\ cert'.RawTBSCertificate = tbs
    BY <1>1, CertificateTypes DEF ReadInv
  <2>2. serial' \in Seq(Nat) /\ \E k \in 3..Len(tbs) : SerialAt(tbs, serial', k)
    BY <1>1, <2>1, SerialPlace
  <2>3. pc = "scts" /\ Matching' = Matching /\ raw' = raw
    BY <1>1 DEF RawSerial, Matching, raw
  <2>4. CertTypes'
    BY <1>1, <2>2 DEF ReadInv, CertTypes
  <2>5. SCTExtension(wire') = SCTExtension(wire)
    BY <1>1
  <2>6. Listed'
    BY <1>1, <2>3, <2>5 DEF ReadInv, Listed
  <2>7. SerialThere'
    BY <2>1, <2>2 DEF SerialThere
  <2> QED
    BY <2>4, <2>6, <2>7 DEF ReadInv
<1>2. CASE Refuse("malformedTBS")
  BY <1>2, RefuseReads
<1> QED
  BY <1>1, <1>2 DEF RawSerial

\* A step of main leaves what was read.
LEMMA UnchangedReads ==
  ASSUME ReadInv, UNCHANGED certVars
  PROVE  ReadInv'
<1>1. UNCHANGED <<from, cert, pc, s, out, serial, wire>>
  BY DEF certVars
<1>2. CertTypes'
  BY <1>1 DEF ReadInv, CertTypes
<1>3. Matching' = Matching /\ raw' = raw /\ SCTExtension(wire') = SCTExtension(wire)
      /\ SX!FlattenSeq(EncodeSCTs(wire')) = SX!FlattenSeq(EncodeSCTs(wire)) /\ Kept(wire') = Kept(wire)
  BY <1>1 DEF Matching, raw
<1>4. Listed'
  BY <1>1, <1>3 DEF ReadInv, Listed
<1>5. SerialThere'
  BY <1>1 DEF ReadInv, SerialThere
<1> QED
  BY <1>2, <1>4, <1>5 DEF ReadInv

\* A step of the program is one of the extraction, or leaves it alone.
LEMMA ExtractOrNot ==
  ASSUME [Next]_vars
  PROVE  Extract \/ UNCHANGED certVars
BY DEF Next, vars, ReadFilter, ReadIssuer, ReadEE, CheckSignature, CheckValidity, ExtractStep,
       ExtractFails, Query, Goto, Exit

\* Every step keeps the invariant.
LEMMA NextReads == ReadInv /\ [Next]_vars => ReadInv'
<1> SUFFICES ASSUME ReadInv, [Next]_vars PROVE ReadInv'
  OBVIOUS
<1>1. CASE NoExtension
  BY <1>1, NoExtensionReads
<1>2. CASE OpenList
  BY <1>2, OpenListReads
<1>3. CASE ReadSCT
  BY <1>3, ReadSCTReads
<1>4. CASE ListEnds
  BY <1>4, ListEndsReads
<1>5. CASE NoSCTs
  BY <1>5, RefuseReads DEF NoSCTs
<1>6. CASE RawSerial
  BY <1>6, RawSerialReads
<1>7. CASE UNCHANGED certVars
  BY <1>7, UnchangedReads
<1> QED
  BY <1>1, <1>2, <1>3, <1>4, <1>5, <1>6, <1>7, ExtractOrNot DEF Extract

\* Nothing has been read at first.
LEMMA InitReads == Init => ReadInv
<1> SUFFICES ASSUME Init PROVE ReadInv
  OBVIOUS
<1>1. from \in Contents /\ cert \in Damage(from) /\ pc = "extension" /\ s = <<>> /\ out = <<>>
      /\ serial = <<>> /\ wire = <<>>
  BY DEF Init, certInit
<1>2. CertTypes
  BY <1>1 DEF CertTypes
<1>3. Listed
  BY <1>1, NothingRead DEF Listed
<1>4. SerialThere
  BY <1>1 DEF SerialThere
<1> QED
  BY <1>2, <1>3, <1>4 DEF ReadInv

\* What EmbeddedSCTs and RawSerial return stands in the certificate, whatever
\* was done to it.
THEOREM ReadStandsThere == QuerySpec => []ReadIsThere
<1>1. ReadInv => ReadIsThere
  BY DEF ReadInv, Listed, SerialThere, SerialAt, ReadIsThere
<1> QED
  BY <1>1, InitReads, NextReads, PTL DEF QuerySpec

-----------------------------------------------------------------------------
(* An intact certificate is read back.                                     *)

\* The next SCT and the ones after it.
LEMMA SCTsTail ==
  ASSUME NEW r \in Seq(SCT), r # <<>>
  PROVE  /\ EncodeSCTs(r) \in Seq(Seq(Nat)) /\ EncodeSCTs(r) # <<>>
         /\ Head(EncodeSCTs(r)) = Prefixed(SerializedSCT(Head(r))) /\ Head(r) \in SCT
         /\ Tail(EncodeSCTs(r)) = EncodeSCTs(Tail(r)) /\ Tail(r) \in Seq(SCT)
<1>1. Head(r) = r[1] /\ Head(r) \in SCT /\ Tail(r) \in Seq(SCT) /\ Len(r) \in Nat \ {0}
      /\ Len(Tail(r)) = Len(r) - 1 /\ \A n \in 1..(Len(r) - 1) : Tail(r)[n] = r[n + 1]
  OBVIOUS
<1> DEFINE a == EncodeSCTs(r)
           b == EncodeSCTs(Tail(r))
<1>2. a \in Seq(Seq(Nat)) /\ Len(a) = Len(r)
      /\ \A n \in 1..Len(r) : a[n] = Prefixed(SerializedSCT(r[n]))
  BY SCTsType
<1>3. b \in Seq(Seq(Nat)) /\ Len(b) = Len(r) - 1
      /\ \A n \in 1..(Len(r) - 1) : b[n] = Prefixed(SerializedSCT(Tail(r)[n]))
  BY <1>1, SCTsType
<1> HIDE DEF a, b
<1>4. a # <<>> /\ Head(a) = a[1] /\ Tail(a) \in Seq(Seq(Nat)) /\ Len(Tail(a)) = Len(r) - 1
      /\ \A n \in 1..(Len(r) - 1) : Tail(a)[n] = a[n + 1]
  BY <1>1, <1>2
<1>5. ASSUME NEW n \in 1..(Len(r) - 1) PROVE Tail(a)[n] = b[n]
  <2>1. n + 1 \in 1..Len(r)
    BY <1>1
  <2>2. a[n + 1] = Prefixed(SerializedSCT(r[n + 1]))
    BY <1>2, <2>1
  <2> QED
    BY <1>1, <1>3, <1>4, <2>2
<1>6. Tail(a) = b
  BY <1>3, <1>4, <1>5, SeqEqual
<1>7. Head(a) = Prefixed(SerializedSCT(Head(r)))
  <2>1. 1 \in 1..Len(r)
    BY <1>1
  <2> QED
    BY <1>1, <1>2, <1>4, <2>1
<1> QED
  BY <1>1, <1>2, <1>4, <1>6, <1>7 DEF a, b

\* The fields of an SCT are found again.
LEMMA DecodedAhead ==
  ASSUME NEW t \in SCT
  PROVE  Supported(SerializedSCT(t)) /\ Decoded(SerializedSCT(t)) = t
<1> DEFINE h == <<t.version, t.LogID, t.Timestamp>>
           e == Prefixed(t.extensions) \o t.signature
           x == SerializedSCT(t)
<1>1. t.version = 0 /\ t.version \in Nat /\ t.LogID \in Nat /\ t.Timestamp \in Nat
      /\ t.extensions \in Seq(Nat) /\ t.signature \in Seq(Nat)
      /\ t = [version |-> t.version, LogID |-> t.LogID, Timestamp |-> t.Timestamp,
              extensions |-> t.extensions, signature |-> t.signature]
  BY DEF SCT
<1>2. e \in Seq(Nat) /\ HasPrefixed(e) /\ Taken(e) = t.extensions /\ AfterPrefixed(e) = t.signature
  <2>1. t.extensions \in Seq(Nat) /\ t.signature \in Seq(Nat)
    BY <1>1
  <2> HIDE DEF e
  <2>2. e = Prefixed(t.extensions) \o t.signature
    BY DEF e
  <2> QED
    BY ONLY <2>1, <2>2, PrefixedAhead, ZenonT(30)
<1>3. h \in Seq(Nat) /\ Len(h) = 3 /\ h[1] = 0 /\ h[2] = t.LogID /\ h[3] = t.Timestamp
  BY <1>1
<1>4. x = h \o e
  BY SCTType
<1> HIDE DEF h, e, x
<1>5. /\ x \in Seq(Nat) /\ Len(x) = Len(h) + Len(e)
      /\ SubSeq(x, Len(h) + 1, Len(x)) = e
      /\ \A i \in 1..Len(h) : x[i] = h[i]
  <2>1. h \in Seq(Nat) /\ e \in Seq(Nat)
    BY <1>2, <1>3
  <2> QED
    BY ONLY <1>4, <2>1, AfterConcat
<1>6. Len(x) >= 3 /\ SubSeq(x, 4, Len(x)) = e /\ x[1] = 0 /\ x[2] = t.LogID /\ x[3] = t.Timestamp
  <2>1. Len(e) \in Nat /\ Len(h) + 1 = 4 /\ 1 \in 1..Len(h) /\ 2 \in 1..Len(h) /\ 3 \in 1..Len(h)
    BY <1>2, <1>3
  <2>2. Len(x) = 3 + Len(e)
    BY <1>3, <1>5
  <2>3. Len(x) >= 3
    BY ONLY <2>1, <2>2
  <2> QED
    BY ONLY <1>3, <1>5, <2>1, <2>3
<1>7. Supported(x)
  BY <1>2, <1>6 DEF Supported
<1>8. Decoded(x) = t
  BY <1>1, <1>2, <1>6 DEF Decoded
<1> QED
  BY <1>7, <1>8 DEF x

\* The first SCT of a list is ahead.
LEMMA SCTAhead ==
  ASSUME NEW r \in Seq(SCT), r # <<>>, NEW y, y = SX!FlattenSeq(EncodeSCTs(r))
  PROVE  /\ y # <<>> /\ HasPrefixed(y) /\ Supported(Taken(y)) /\ Decoded(Taken(y)) = Head(r)
         /\ AfterPrefixed(y) = SX!FlattenSeq(EncodeSCTs(Tail(r)))
<1> DEFINE t == Head(r)
           x == SerializedSCT(t)
           z == SX!FlattenSeq(EncodeSCTs(Tail(r)))
<1>1. /\ EncodeSCTs(r) \in Seq(Seq(Nat)) /\ EncodeSCTs(r) # <<>>
      /\ Head(EncodeSCTs(r)) = Prefixed(x) /\ t \in SCT
      /\ Tail(EncodeSCTs(r)) = EncodeSCTs(Tail(r)) /\ Tail(r) \in Seq(SCT)
  BY SCTsTail
<1>2. x \in Seq(Nat)
  BY <1>1, SCTType
<1>3. z \in Seq(Nat)
  BY <1>1, SCTsType, FlattenType
<1>4. y = Prefixed(x) \o z
  <2>1. SX!FlattenSeq(EncodeSCTs(r)) = Head(EncodeSCTs(r)) \o SX!FlattenSeq(Tail(EncodeSCTs(r)))
    BY ONLY <1>1, FlattenCons
  <2> QED
    BY <1>1, <2>1
<1>5. Supported(x) /\ Decoded(x) = t
  BY <1>1, DecodedAhead
<1> HIDE DEF t, x, z
<1>6. y \in Seq(Nat) /\ HasPrefixed(y) /\ Taken(y) = x /\ AfterPrefixed(y) = z
  BY <1>2, <1>3, <1>4, PrefixedAhead
<1>7. y # <<>>
  BY <1>6 DEF HasPrefixed
<1> QED
  BY <1>5, <1>6, <1>7 DEF t, x, z

\* The only list.
List(f) == CHOOSE l \in f.scts : TRUE

\* The only list of a certificate.
LEMMA ListIs ==
  ASSUME NEW f \in Contents, f.scts # {}
  PROVE  List(f) \in f.scts /\ List(f) \in Seq(SCT) /\ \A l \in f.scts : l = List(f)
<1>1. List(f) \in f.scts
  BY DEF List
<1> QED
  BY <1>1, CertificateAssumption

\* The list is found behind the other extensions.
LEMMA IntactList ==
  ASSUME CertTypes, cert = Encode(from)
  PROVE  /\ from.scts = {} => Matching = {}
         /\ from.scts # {} => Matching # {} /\ raw = SCTExtension(List(from))
<1>1. from \in Contents /\ from.before \in Seq(Extension)
      /\ \A n \in 1..Len(from.before) : from.before[n].Id # embeddedSCTOID
  BY CertificateAssumption DEF CertTypes
<1> DEFINE b == from.before
           e == [Id |-> embeddedSCTOID, Value |-> SCTExtension(List(from))]
<1>2. CASE from.scts = {}
  <2>1. cert.Extensions = b \o <<>>
    BY <1>2 DEF Encode
  <2>2. b \o <<>> = b
    BY ONLY <1>1
  <2> QED
    BY <1>1, <1>2, <2>1, <2>2 DEF Matching
<1>3. CASE from.scts # {}
  <2>1. cert.Extensions = b \o <<e>>
    BY <1>3 DEF Encode, List
  <2>2. cert.Extensions \in Seq(Extension)
    BY CertificateTypes
  <2> DEFINE x == cert.Extensions
             k == Len(b) + 1
  <2>3. x = Append(b, e)
    BY <1>1, <2>1, AppendIsConcat
  <2> HIDE DEF e
  <2>4. Len(x) = k /\ x[k] = e /\ (\A n \in 1..Len(b) : x[n] = b[n]) /\ k \in Nat
    BY <1>1, <2>3
  <2>5. e.Id = embeddedSCTOID /\ e.Value = SCTExtension(List(from))
    BY DEF e
  <2> HIDE DEF x
  <2>6. Matching = {k}
    <3>1. k \in 1..Len(x) /\ x[k].Id = embeddedSCTOID
      BY <1>1, <2>4, <2>5
    <3>2. ASSUME NEW n \in 1..Len(x), x[n].Id = embeddedSCTOID PROVE n = k
      <4>1. n \in 1..Len(b) \/ n = k
        BY <1>1, <2>4
      <4> QED
        BY <1>1, <2>4, <3>2, <4>1
    <3>3. Matching = {n \in 1..Len(x) : x[n].Id = embeddedSCTOID}
      BY DEF Matching, x
    <3> QED
      BY <3>1, <3>2, <3>3
  <2>7. Min(Matching) = k
    <3>1. Matching \in SUBSET Nat /\ Matching # {}
      BY <2>4, <2>6
    <3>2. Min(Matching) \in Matching
      BY <3>1, NatMin
    <3> QED
      BY <2>6, <3>2
  <2>8. raw = e.Value
    BY <2>4, <2>7 DEF raw, x
  <2> QED
    BY <1>3, <2>5, <2>6, <2>8
<1> QED
  BY <1>2, <1>3

\* So is the serial, behind a version or without one.
LEMMA IntactSerial ==
  ASSUME CertTypes, cert = Encode(from)
  PROVE  /\ SerialReadable(cert.RawTBSCertificate)
         /\ Body(AtSerial(Body(cert.RawTBSCertificate))) = from.serial
<1>1. from \in Contents /\ from.version \in Seq(Nat) /\ from.serial \in Seq(Nat) /\ from.rest \in Seq(Nat)
      /\ (from.version # <<>> => HasTLV(from.version, VERSION) /\ AfterTLV(from.version) = <<>>)
  BY CertificateAssumption DEF CertTypes
<1>2. SEQUENCE \in Nat /\ VERSION \in Nat /\ INTEGER \in Nat /\ INTEGER # VERSION
  BY DEF SEQUENCE, VERSION, INTEGER
<1> DEFINE v == from.version
           n == TLV(INTEGER, from.serial)
           r == from.rest
           q == n \o r
           inner == (v \o n) \o r
           tbs == cert.RawTBSCertificate
<1>3. n \in Seq(Nat)
  BY <1>1, <1>2, TLVType
<1>4. q \in Seq(Nat) /\ HasTLV(q, INTEGER) /\ Body(q) = from.serial
  <2>1. from.serial \in Seq(Nat) /\ r \in Seq(Nat) /\ INTEGER \in Nat
    BY <1>1, <1>2
  <2> HIDE DEF q
  <2>2. q = TLV(INTEGER, from.serial) \o r
    BY DEF q
  <2> QED
    BY ONLY <2>1, <2>2, TLVIsAhead, Zenon
<1>5. v \in Seq(Nat) /\ r \in Seq(Nat)
  BY <1>1
<1>6. tbs = TLV(SEQUENCE, inner)
  BY DEF Encode, TBSCertificate
<1> HIDE DEF v, n, r, tbs
<1>7. inner = v \o q
  BY ONLY <1>3, <1>5, CellsAssociative, ZenonT(30)
<1> HIDE DEF inner, q
<1>8. inner \in Seq(Nat)
  BY ONLY <1>4, <1>5, <1>7, AfterConcat
<1>9. HasTLV(tbs, SEQUENCE) /\ Body(tbs) = inner
  <2> DEFINE w == TLV(SEQUENCE, inner)
  <2>1. w \in Seq(Nat)
    BY <1>2, <1>8, TLVType
  <2> HIDE DEF w
  <2>2. w = w \o <<>>
    BY ONLY <2>1
  <2>3. tbs = TLV(SEQUENCE, inner) \o <<>>
    BY <1>6, <2>2 DEF w
  <2>4. <<>> \in Seq(Nat)
    OBVIOUS
  <2> QED
    BY <1>2, <1>8, <2>3, <2>4, TLVAhead
<1>10. CASE v = <<>>
  <2>1. inner = q
    <3>1. <<>> \o q = q
      BY ONLY <1>4
    <3> QED
      BY <1>7, <1>10, <3>1
  <2>2. PeekASN1Tag(q, INTEGER)
    BY <1>4 DEF HasTLV
  <2>3. ~PeekASN1Tag(inner, VERSION)
    BY <1>2, <2>1, <2>2 DEF PeekASN1Tag
  <2>4. AtSerial(inner) = q
    BY <2>1, <2>3 DEF AtSerial
  <2> QED
    BY <1>4, <1>9, <2>3, <2>4 DEF SerialReadable, tbs
<1>11. CASE v # <<>>
  <2>1. HasTLV(v, VERSION) /\ AfterTLV(v) = <<>>
    BY <1>1, <1>11 DEF v
  <2> DEFINE w == TLV(VERSION, Body(v))
  <2>2. Body(v) \in Seq(Nat) /\ v = w \o <<>>
    BY <1>2, <1>5, <2>1, TLVTaken
  <2>3. v = w
    <3>1. w \in Seq(Nat)
      BY <1>2, <2>2, TLVType
    <3> HIDE DEF w
    <3>2. w \o <<>> = w
      BY ONLY <3>1
    <3> QED
      BY <2>2, <3>2
  <2>4. inner = TLV(VERSION, Body(v)) \o q
    BY <1>7, <2>3
  <2>5. HasTLV(inner, VERSION) /\ AfterTLV(inner) = q
    <3>1. VERSION \in Nat /\ Body(v) \in Seq(Nat) /\ q \in Seq(Nat)
      BY <1>2, <1>4, <2>2
    <3> QED
      BY ONLY <2>4, <3>1, TLVIsAhead, Zenon
  <2>6. AtSerial(inner) = q
    BY <2>5 DEF AtSerial, HasTLV
  <2> QED
    BY <1>4, <1>9, <2>5, <2>6 DEF SerialReadable, tbs
<1> QED
  BY <1>10, <1>11

\* What there is still to read of an intact certificate, and what was read.
AheadAt ==
    /\ pc \notin {"malformedSCT", "malformedTBS"}
    /\ pc = "list" => from.scts # {} /\ \E r \in Seq(SCT) :
          List(from) = wire \o r /\ s = SX!FlattenSeq(EncodeSCTs(r))
    /\ from.scts = {} => wire = <<>>
    /\ pc \in {"scts", "extracted"} => \A l \in from.scts : wire = l
    /\ pc = "noSCTs" => from.scts \subseteq {<<>>}
    /\ pc = "extracted" => serial = from.serial

Ahead == cert = Encode(from) => AheadAt

\* The list of an intact certificate is opened.
LEMMA OpenListAhead ==
  ASSUME ReadInv, cert = Encode(from), OpenList
  PROVE  AheadAt'
<1>1. CertTypes /\ pc = "extension" /\ wire = <<>> /\ Matching # {} /\ from \in Contents
  BY DEF OpenList, ReadInv, Listed, CertTypes
<1>2. from.scts # {} /\ raw = SCTExtension(List(from))
  BY <1>1, IntactList
<1> DEFINE l == List(from)
           y == SX!FlattenSeq(EncodeSCTs(l))
           p == Prefixed(y)
           e == <<>>
<1>3. l \in Seq(SCT)
  BY <1>1, <1>2, ListIs
<1>4. y \in Seq(Nat)
  BY <1>3, SCTsType, FlattenType
<1>5. p \in Seq(Nat) /\ raw = TLV(OCTET_STRING, p) /\ OCTET_STRING \in Nat
  BY <1>2, <1>4, PrefixedType DEF SCTExtension, OCTET_STRING
<1> HIDE DEF l, y, p
<1>6. HasTLV(raw, OCTET_STRING) /\ Body(raw) = p /\ AfterTLV(raw) = <<>>
  BY ONLY <1>5, TLVAlone
<1>7. HasPrefixed(p) /\ Taken(p) = y /\ AfterPrefixed(p) = <<>>
  <2>1. p = p \o <<>>
    BY ONLY <1>5
  <2>2. p = Prefixed(y) \o <<>> /\ <<>> \in Seq(Nat)
    BY <2>1 DEF p
  <2> QED
    BY <1>4, <2>2, PrefixedAhead
<1>8. Wrapped(raw) /\ Taken(Body(raw)) = y
  BY <1>6, <1>7 DEF Wrapped
<1>9. s' = y /\ pc' = "list" /\ from' = from /\ wire' = <<>>
  BY <1>1, <1>8 DEF OpenList
<1>10. <<>> \o l = l
  BY ONLY <1>3
<1>11. \E r \in Seq(SCT) : List(from') = wire' \o r /\ s' = SX!FlattenSeq(EncodeSCTs(r))
  <2>1. List(from') = wire' \o l /\ s' = SX!FlattenSeq(EncodeSCTs(l))
    BY <1>9, <1>10 DEF l, y
  <2> QED
    BY <1>3, <2>1
<1> QED
  BY <1>2, <1>9, <1>11 DEF AheadAt

\* Its next SCT is read and not refused.
LEMMA ReadSCTAhead ==
  ASSUME ReadInv, AheadAt, ReadSCT
  PROVE  AheadAt'
<1>1. pc = "list" /\ s # <<>> /\ wire \in Seq(SCT) /\ from.scts # {}
  BY DEF ReadSCT, ReadInv, CertTypes, AheadAt
<1>2. PICK r \in Seq(SCT) : List(from) = wire \o r /\ s = SX!FlattenSeq(EncodeSCTs(r))
  BY <1>1 DEF AheadAt
<1>3. r # <<>>
  BY <1>1, <1>2, NothingRead
<1>4. /\ HasPrefixed(s) /\ Supported(Taken(s)) /\ Decoded(Taken(s)) = Head(r)
      /\ AfterPrefixed(s) = SX!FlattenSeq(EncodeSCTs(Tail(r)))
  BY <1>2, <1>3, SCTAhead
<1>5. wire' = Append(wire, Head(r)) /\ s' = AfterPrefixed(s) /\ from' = from /\ pc' = pc
  <2>1. wire' = Append(wire, Decoded(Taken(s))) /\ s' = AfterPrefixed(s) /\ from' = from /\ pc' = pc
    BY <1>4 DEF ReadSCT, Decoded
  <2> QED
    BY <1>4, <2>1
<1>6. Tail(r) \in Seq(SCT) /\ wire \o r = Append(wire, Head(r)) \o Tail(r)
  BY <1>1, <1>3, MoveHead
<1>7. \E q \in Seq(SCT) : List(from') = wire' \o q /\ s' = SX!FlattenSeq(EncodeSCTs(q))
  <2>1. List(from') = wire' \o Tail(r) /\ s' = SX!FlattenSeq(EncodeSCTs(Tail(r)))
    BY <1>2, <1>4, <1>5, <1>6
  <2> QED
    BY <1>6, <2>1
<1> QED
  BY <1>1, <1>5, <1>7 DEF AheadAt

\* It ends when all SCTs have been read.
LEMMA ListEndsAhead ==
  ASSUME ReadInv, AheadAt, ListEnds
  PROVE  AheadAt'
<1>1. pc = "list" /\ s = <<>> /\ wire \in Seq(SCT) /\ from.scts # {} /\ from \in Contents
      /\ pc' = "scts" /\ from' = from /\ wire' = wire
  BY DEF ListEnds, ReadInv, CertTypes, AheadAt
<1>2. PICK r \in Seq(SCT) : List(from) = wire \o r /\ s = SX!FlattenSeq(EncodeSCTs(r))
  BY <1>1 DEF AheadAt
<1>3. r = <<>>
  BY <1>1, <1>2, SCTAhead
<1>4. List(from) = wire
  <2>1. wire \o <<>> = wire
    BY ONLY <1>1
  <2> QED
    BY <1>2, <1>3, <2>1
<1>5. \A l \in from.scts : wire = l
  BY <1>1, <1>4, ListIs
<1> QED
  BY <1>1, <1>5 DEF AheadAt

\* Every step keeps the rest of the list ahead.
LEMMA NextAhead == ReadInv /\ Ahead /\ [Next]_vars => Ahead'
<1> SUFFICES ASSUME ReadInv, Ahead, [Next]_vars PROVE Ahead'
  OBVIOUS
<1>1. from' = from /\ cert' = cert
  BY ExtractOrNot DEF certVars, Extract, NoExtension, OpenList, ReadSCT, ListEnds, NoSCTs, RawSerial, Refuse
<1>2. SUFFICES ASSUME AheadAt, cert = Encode(from) PROVE AheadAt'
  BY <1>1 DEF Ahead
<1>3. CertTypes /\ out = Kept(wire) /\ wire \in Seq(SCT)
  BY DEF ReadInv, CertTypes, Listed
<1>4. CASE NoExtension
  <2>1. from.scts = {}
    BY <1>2, <1>3, <1>4, IntactList DEF NoExtension
  <2>2. pc' = "scts" /\ wire' = <<>>
    BY <1>4 DEF NoExtension, ReadInv, Listed
  <2> QED
    BY <1>1, <2>1, <2>2 DEF AheadAt
<1>5. CASE OpenList
  BY <1>2, <1>5, OpenListAhead
<1>6. CASE ReadSCT
  BY <1>2, <1>6, ReadSCTAhead
<1>7. CASE ListEnds
  BY <1>2, <1>7, ListEndsAhead
<1>8. CASE NoSCTs
  <2>1. pc = "scts" /\ out = <<>> /\ pc' = "noSCTs" /\ wire' = wire
    BY <1>8 DEF NoSCTs, Refuse
  <2>2. wire = <<>>
    <3>1. Len(Kept(wire)) = Len(wire)
      BY <1>3, KeptType
    <3>2. Len(wire) = 0
      BY <1>3, <2>1, <3>1
    <3> QED
      BY ONLY <1>3, <3>2
  <2>3. from.scts \subseteq {<<>>}
    BY <1>2, <2>1, <2>2 DEF AheadAt
  <2> QED
    BY <1>1, <2>1, <2>2, <2>3 DEF AheadAt
<1>9. CASE RawSerial
  <2>1. SerialReadable(cert.RawTBSCertificate)
        /\ Body(AtSerial(Body(cert.RawTBSCertificate))) = from.serial
    BY <1>2, <1>3, IntactSerial
  <2>2. pc = "scts" /\ pc' = "extracted" /\ serial' = from.serial /\ wire' = wire
    BY <1>9, <2>1 DEF RawSerial
  <2> QED
    BY <1>1, <1>2, <2>2 DEF AheadAt
<1>10. CASE UNCHANGED certVars
  <2>1. from' = from /\ pc' = pc /\ wire' = wire /\ s' = s /\ serial' = serial
    BY <1>10 DEF certVars
  <2> QED
    BY <1>2, <2>1 DEF AheadAt
<1> QED
  BY <1>4, <1>5, <1>6, <1>7, <1>8, <1>9, <1>10, ExtractOrNot DEF Extract

\* EmbeddedSCTs and RawSerial read what an intact certificate was made of: its
\* SCTs in order and its serial to the byte.
THEOREM IntactReadBack == QuerySpec => []IntactIsRead
<1>1. Init => Ahead
  BY DEF Init, certInit, Ahead, AheadAt
<1>2. (ReadInv /\ Ahead) /\ [Next]_vars => (ReadInv /\ Ahead)'
  BY NextReads, NextAhead
<1>3. ReadInv /\ Ahead => IntactIsRead
  <2> SUFFICES ASSUME ReadInv, Ahead, cert = Encode(from) PROVE IntactIsRead
    BY DEF IntactIsRead
  <2>1. AheadAt /\ out = Kept(wire)
    BY DEF Ahead, ReadInv, Listed
  <2> QED
    BY <2>1 DEF AheadAt, IntactIsRead
<1> QED
  BY <1>1, <1>2, <1>3, InitReads, PTL DEF QuerySpec

-----------------------------------------------------------------------------
(* What is printed.                                                        *)

\* What main has made sure of on its way, and what it prints.
MainInv ==
    /\ args \in Args(from)
    /\ at \in {"validity", "extract", "exit 0"} => args.signer \in args.issuer
    /\ at \in {"extract", "exit 0"} => ~Expired
    /\ printed # <<>> =>
          /\ at = "exit 0" /\ pc = "extracted"
          /\ \E f \in args.filter, issuer \in args.issuer :
                printed = <<Contains(f, NewKey(issuer, serial), timestamps)>>

\* What the assumption says of the command line.
LEMMA MainTypes ==
  ASSUME MainInv, CertTypes
  PROVE  /\ \A i, j \in args.issuer : i = j
         /\ args.ee \in BOOLEAN
         /\ args.now \in Nat /\ args.NotBefore \in Nat /\ args.NotAfter \in Nat
         /\ \A f, g \in args.filter : f = g
         /\ \A f \in args.filter :
               /\ IsFiniteSet(DOMAIN f.coverage)
               /\ \A l \in DOMAIN f.coverage :
                     f.coverage[l].low \in Nat /\ f.coverage[l].high \in Nat
               /\ \A i \in DOMAIN f.filter.Blocks :
                     FilterContains(f.filter, f.filter.Blocks[i], Hash(i, from.serial), from.serial)
                         <=> from.serial \in f.revoked[i]
BY QueryAssumption DEF MainInv, CertTypes

\* Every step of main keeps what its tests have established.
LEMMA NextMain == ReadInv /\ MainInv /\ [Next]_vars => MainInv'
<1> SUFFICES ASSUME ReadInv, MainInv, [Next]_vars PROVE MainInv'
  OBVIOUS
<1>1. args' = args /\ from' = from
  BY ExtractOrNot DEF Next, vars, ReadFilter, ReadIssuer, ReadEE, CheckSignature, CheckValidity, ExtractStep,
       ExtractFails, Query, Goto, Exit, certVars, Extract, NoExtension, OpenList, ReadSCT, ListEnds,
       NoSCTs, RawSerial, Refuse
<1>2. Expired' = Expired
  BY <1>1 DEF Expired
<1>3. ASSUME Exit, at # "exit 0" PROVE MainInv'
  <2>1. at' = "exit 1" /\ printed' = printed /\ printed = <<>>
    BY <1>3 DEF Exit, MainInv
  <2> QED
    BY <1>1, <2>1 DEF MainInv
<1>4. ASSUME NEW next, Goto(next), at # "exit 0",
             next \in {"validity", "extract", "exit 0"} => args.signer \in args.issuer,
             next \in {"extract", "exit 0"} => ~Expired
      PROVE  MainInv'
  <2>1. at' = next /\ printed' = printed /\ printed = <<>>
    BY <1>4 DEF Goto, MainInv
  <2> QED
    BY <1>1, <1>2, <1>4, <2>1 DEF MainInv
<1>5. CASE ReadFilter
  BY <1>3, <1>4, <1>5 DEF ReadFilter
<1>6. CASE ReadIssuer
  BY <1>3, <1>4, <1>6 DEF ReadIssuer
<1>7. CASE ReadEE
  BY <1>3, <1>4, <1>7 DEF ReadEE
<1>8. CASE CheckSignature
  BY <1>3, <1>4, <1>8 DEF CheckSignature, SignedBy
<1>9. CASE CheckValidity
  <2>1. args.signer \in args.issuer
    BY <1>9 DEF CheckValidity, MainInv
  <2> QED
    BY <1>3, <1>4, <1>9, <2>1 DEF CheckValidity
<1>10. CASE ExtractStep
  <2>1. at = "extract" /\ at' = at /\ printed' = printed
    BY <1>10 DEF ExtractStep
  <2>2. printed = <<>>
    BY <2>1 DEF MainInv
  <2> QED
    BY <1>1, <1>2, <2>1, <2>2 DEF MainInv
<1>11. CASE ExtractFails
  BY <1>3, <1>11 DEF ExtractFails
<1>12. CASE Query
  <2>1. at = "extract" /\ pc = "extracted" /\ at' = "exit 0" /\ UNCHANGED certVars
    BY <1>12 DEF Query
  <2>2. pc' = pc /\ serial' = serial /\ out' = out
    BY <2>1 DEF certVars
  <2>3. timestamps' = timestamps
    BY <2>2 DEF timestamps
  <2>4. \E f \in args.filter, issuer \in args.issuer :
            printed' = <<Contains(f, NewKey(issuer, serial), timestamps)>>
    BY <1>12 DEF Query
  <2>5. \E f \in args'.filter, issuer \in args'.issuer :
            printed' = <<Contains(f, NewKey(issuer, serial'), timestamps')>>
    BY <1>1, <2>2, <2>3, <2>4
  <2> QED
    BY <1>1, <1>2, <2>1, <2>2, <2>5 DEF MainInv
<1>13. CASE UNCHANGED vars
  <2>1. at' = at /\ printed' = printed /\ pc' = pc /\ serial' = serial /\ out' = out
    BY <1>13 DEF vars, certVars
  <2>2. timestamps' = timestamps
    BY <2>1 DEF timestamps
  <2> QED
    BY <1>1, <1>2, <2>1, <2>2 DEF MainInv
<1> QED
  BY <1>5, <1>6, <1>7, <1>8, <1>9, <1>10, <1>11, <1>12, <1>13 DEF Next

\* None has been made at first.
LEMMA InitMain == Init => MainInv
BY DEF Init, certInit, MainInv

\* The status for the first pair that is covered is the one for any of them.
LEMMA ContainsIs ==
  ASSUME NEW c, NEW key, NEW n \in Nat, NEW ts, DOMAIN ts = 1..n
  PROVE  Contains(c, key, ts) =
             IF ~\E m \in 1..n : Covered(c.coverage, ts[m]) THEN "NotCovered"
             ELSE IF key.Issuer \notin DOMAIN c.filter.Blocks THEN "NotEnrolled"
             ELSE IF FilterContains(c.filter, c.filter.Blocks[key.Issuer], key.IssuerSerialHash, key.Serial)
             THEN "Revoked"
             ELSE "Good"
<1> DEFINE S == {m \in DOMAIN ts : containsAt(c, key, ts[m]) # "NotCovered"}
<1>1. S = {m \in 1..n : Covered(c.coverage, ts[m])}
  BY DEF containsAt
<1>2. CASE S = {}
  BY <1>1, <1>2 DEF Contains
<1>3. CASE S # {}
  <2>1. Min(S) \in S
    BY <1>1, <1>3, NatMin
  <2>2. Covered(c.coverage, ts[Min(S)]) /\ \E m \in 1..n : Covered(c.coverage, ts[m])
    BY <1>1, <2>1
  <2>3. Contains(c, key, ts) = containsAt(c, key, ts[Min(S)])
    BY <1>3 DEF Contains
  <2> QED
    BY <2>2, <2>3 DEF containsAt
<1> QED
  BY <1>2, <1>3

\* The pairs asked about are those of the SCTs read.
LEMMA TimestampsAre ==
  ASSUME ReadInv
  PROVE  /\ Len(wire) \in Nat /\ DOMAIN timestamps = 1..Len(wire) /\ Len(timestamps) = Len(wire)
         /\ \A n \in 1..Len(wire) :
               timestamps[n] = [LogId |-> wire[n].LogID, Timestamp |-> wire[n].Timestamp]
<1>1. wire \in Seq(SCT) /\ out = Kept(wire)
  BY DEF ReadInv, CertTypes, Listed
<1>2. out \in Seq([LogID : Nat, Timestamp : Nat]) /\ Len(out) = Len(wire) /\ Len(wire) \in Nat
      /\ \A n \in 1..Len(wire) : out[n] = [LogID |-> wire[n].LogID, Timestamp |-> wire[n].Timestamp]
  BY <1>1, KeptType
<1>3. ASSUME NEW n \in 1..Len(wire)
      PROVE  timestamps[n] = [LogId |-> wire[n].LogID, Timestamp |-> wire[n].Timestamp]
  <2>1. out[n].LogID = wire[n].LogID /\ out[n].Timestamp = wire[n].Timestamp
    <3>1. out[n] = [LogID |-> wire[n].LogID, Timestamp |-> wire[n].Timestamp]
      BY <1>2
    <3> QED
      BY ONLY <3>1
  <2> QED
    BY <1>2, <2>1 DEF timestamps
<1> QED
  BY <1>2, <1>3 DEF timestamps

\* crlite-query prints the truth about an intact certificate, if it prints.
THEOREM TruthPrinted == QuerySpec => []PrintsTruth
<1>1. Init => ReadInv /\ Ahead /\ MainInv
  BY InitReads, InitMain DEF Init, certInit, Ahead, AheadAt
<1>2. (ReadInv /\ Ahead /\ MainInv) /\ [Next]_vars => (ReadInv /\ Ahead /\ MainInv)'
  BY NextReads, NextAhead, NextMain
<1>3. ReadInv /\ Ahead /\ MainInv => PrintsTruth
  <2> SUFFICES ASSUME ReadInv, Ahead, MainInv, printed # <<>>, cert = Encode(from)
               PROVE  \E f \in args.filter, issuer \in args.issuer :
                          /\ printed = <<Truth(f, issuer)>>
                          /\ args.signer = issuer
                          /\ args.NotBefore <= args.now /\ args.now <= args.NotAfter
    BY DEF PrintsTruth
  <2>1. AheadAt /\ at = "exit 0" /\ pc = "extracted" /\ serial = from.serial
    BY DEF Ahead, AheadAt, MainInv
  <2>2. PICK f \in args.filter, issuer \in args.issuer :
            printed = <<Contains(f, NewKey(issuer, serial), timestamps)>>
    BY DEF MainInv
  <2>3. args.signer = issuer /\ args.NotBefore <= args.now /\ args.now <= args.NotAfter
    <3>1. CertTypes
      BY DEF ReadInv
    <3>2. args.signer \in args.issuer /\ ~Expired
      BY <2>1 DEF MainInv
    <3>3. args.now \in Nat /\ args.NotBefore \in Nat /\ args.NotAfter \in Nat
          /\ \A i, j \in args.issuer : i = j
      BY <3>1, MainTypes
    <3>4. args.NotBefore <= args.now /\ args.now <= args.NotAfter
      BY <3>2, <3>3 DEF Expired
    <3> QED
      BY <3>2, <3>3, <3>4
  <2> DEFINE key == NewKey(issuer, serial)
  <2>4. key.Issuer = issuer /\ key.Serial = from.serial /\ key.IssuerSerialHash = Hash(issuer, from.serial)
    BY <2>1 DEF NewKey
  <2> HIDE DEF key
  <2> DEFINE T == UNION {SX!ToSet(Kept(l)) : l \in from.scts}
             Pair(t) == [LogId |-> t.LogID, Timestamp |-> t.Timestamp]
  <2>5. /\ Len(wire) \in Nat /\ DOMAIN timestamps = 1..Len(wire)
        /\ \A n \in 1..Len(wire) : timestamps[n] = Pair(wire[n])
    BY TimestampsAre
  <2>6. (\E m \in 1..Len(wire) : Covered(f.coverage, timestamps[m]))
            <=> (\E t \in T : Covered(f.coverage, Pair(t)))
    <3>1. wire \in Seq(SCT)
      BY DEF ReadInv, CertTypes
    <3>2. Len(Kept(wire)) = Len(wire) /\ DOMAIN Kept(wire) = 1..Len(wire)
          /\ \A n \in 1..Len(wire) : Kept(wire)[n] = [LogID |-> wire[n].LogID, Timestamp |-> wire[n].Timestamp]
      BY <3>1, KeptType
    <3>3. SX!ToSet(Kept(wire)) = {Kept(wire)[n] : n \in 1..Len(wire)}
      BY <3>2 DEF SX!ToSet
    <3>4. \A n \in 1..Len(wire) : Pair(Kept(wire)[n]) = timestamps[n]
      BY <2>5, <3>2
    <3>5. CASE from.scts = {}
      <4>1. wire = <<>> /\ T = {}
        BY <2>1, <3>5 DEF AheadAt
      <4>2. 1..Len(wire) = {}
        BY <4>1
      <4> QED
        BY <4>1, <4>2
    <3>6. CASE from.scts # {}
      <4>1. from.scts = {wire}
        BY <2>1, <3>6 DEF AheadAt
      <4>2. T = SX!ToSet(Kept(wire))
        BY <4>1
      <4> HIDE DEF T
      <4> QED
        BY <3>3, <3>4, <4>2
    <3> QED
      BY <3>5, <3>6
  <2>7. Contains(f, key, timestamps) = Truth(f, issuer)
    <3>1. Contains(f, key, timestamps) =
             IF ~\E m \in 1..Len(wire) : Covered(f.coverage, timestamps[m]) THEN "NotCovered"
             ELSE IF key.Issuer \notin DOMAIN f.filter.Blocks THEN "NotEnrolled"
             ELSE IF FilterContains(f.filter, f.filter.Blocks[key.Issuer], key.IssuerSerialHash, key.Serial)
             THEN "Revoked"
             ELSE "Good"
      BY <2>5, ContainsIs
    <3>2. issuer \in DOMAIN f.filter.Blocks =>
              (FilterContains(f.filter, f.filter.Blocks[issuer], Hash(issuer, from.serial), from.serial)
                  <=> from.serial \in f.revoked[issuer])
      BY MainTypes DEF ReadInv
    <3>3. Truth(f, issuer) =
             IF ~\E t \in T : Covered(f.coverage, Pair(t)) THEN "NotCovered"
             ELSE IF issuer \notin DOMAIN f.filter.Blocks THEN "NotEnrolled"
             ELSE IF from.serial \in f.revoked[issuer] THEN "Revoked" ELSE "Good"
      BY DEF Truth
    <3> HIDE DEF T
    <3> QED
      BY <2>4, <2>6, <3>1, <3>2, <3>3
  <2> QED
    BY <2>2, <2>3, <2>7 DEF key
<1> QED
  BY <1>1, <1>2, <1>3, PTL DEF QuerySpec

\* A finite set of numbers has a greatest one.
LEMMA NatMax ==
  ASSUME NEW S \in SUBSET Nat, IsFiniteSet(S), S # {}
  PROVE  Max(S) \in S /\ \A n \in S : n <= Max(S)
<1> DEFINE T == {k \in Nat : \A R \in SUBSET Nat :
                    IsFiniteSet(R) /\ Cardinality(R) = k /\ R # {} => \E x \in R : \A y \in R : x >= y}
<1>1. 0 \in T
  BY FS_EmptySet
<1>2. ASSUME NEW k \in T PROVE k + 1 \in T
  <2> SUFFICES ASSUME NEW R \in SUBSET Nat, IsFiniteSet(R), Cardinality(R) = k + 1, R # {}
               PROVE  \E x \in R : \A y \in R : x >= y
    OBVIOUS
  <2>1. PICK x \in R : TRUE
    OBVIOUS
  <2> DEFINE Q == R \ {x}
  <2>2. IsFiniteSet(Q) /\ Cardinality(Q) = k
    <3>1. IsFiniteSet(R \ {x}) /\ Cardinality(R \ {x}) = Cardinality(R) - 1
      BY FS_RemoveElement
    <3>2. (k + 1) - 1 = k
      OBVIOUS
    <3> QED
      BY <3>1, <3>2
  <2>3. CASE Q = {}
    BY <2>3
  <2>4. CASE Q # {}
    <3>1. PICK z \in Q : \A y \in Q : z >= y
      BY <2>2, <2>4
    <3>2. x \in Nat /\ z \in Nat /\ \A y \in R : y \in Nat /\ (y = x \/ y \in Q)
      OBVIOUS
    <3>3. CASE x >= z
      BY <3>1, <3>2, <3>3
    <3>4. CASE z >= x
      BY <3>1, <3>2, <3>4
    <3> QED
      BY <3>2, <3>3, <3>4
  <2> QED
    BY <2>3, <2>4
<1>3. T \in SUBSET Nat
  OBVIOUS
<1> HIDE DEF T
<1>4. T = Nat
  BY <1>1, <1>2, <1>3, SetInduction
<1>5. Cardinality(S) \in T
  BY <1>4, FS_CardinalityType
<1>6. \E x \in S : \A y \in S : x >= y
  BY <1>5 DEF T
<1> QED
  BY <1>6 DEF Max

\* The newest cutoff is the largest of the logs, or zero.
LEMMA NewestIs ==
  ASSUME NEW f, IsFiniteSet(DOMAIN f.coverage), \A l \in DOMAIN f.coverage : f.coverage[l].high \in Nat
  PROVE  /\ NewestCoverageCutoff(f) \in Highs(f) \cup {0}
         /\ \A h \in Highs(f) : h \in Nat /\ h <= NewestCoverageCutoff(f)
<1> DEFINE D == DOMAIN f.coverage
           g == [l \in D |-> f.coverage[l].high]
<1>1. g \in Surjection(D, Highs(f))
  BY DEF Surjection, Highs
<1>2. IsFiniteSet(Highs(f))
  BY <1>1, FS_Surjection
<1>3. IsFiniteSet(Highs(f) \cup {0})
  BY <1>2, FS_AddElement
<1>4. Highs(f) \cup {0} \in SUBSET Nat
  BY DEF Highs
<1> QED
  BY <1>3, <1>4, NatMax DEF NewestCoverageCutoff

\* No filter answers for an SCT that is newer than its cutoffs say.
THEOREM CutoffsBound == QuerySpec => []CutoffsBoundAnswers
<1>1. ReadInv /\ MainInv => CutoffsBoundAnswers
  <2> SUFFICES ASSUME ReadInv, MainInv, NEW f \in args.filter, NEW n \in 1..Len(printed)
               PROVE
        /\ printed[n] # "NotCovered" => \E m \in 1..Len(timestamps) :
              LET cutoff == CoverageCutoffForLog(f, timestamps[m].LogId)
              IN  cutoff.ok /\ timestamps[m].Timestamp <= cutoff.Timestamp
        /\ \A l \in DOMAIN f.coverage :
              CoverageCutoffForLog(f, l).Timestamp <= NewestCoverageCutoff(f)
        /\ \/ NewestCoverageCutoff(f) = 0
           \/ \E l \in DOMAIN f.coverage :
                 CoverageCutoffForLog(f, l) = [Timestamp |-> NewestCoverageCutoff(f), ok |-> TRUE]
    BY DEF CutoffsBoundAnswers
  <2>1. IsFiniteSet(DOMAIN f.coverage) /\ \A l \in DOMAIN f.coverage : f.coverage[l].high \in Nat
    BY MainTypes DEF ReadInv
  <2>2. /\ NewestCoverageCutoff(f) \in Highs(f) \cup {0}
        /\ \A h \in Highs(f) : h \in Nat /\ h <= NewestCoverageCutoff(f)
    BY <2>1, NewestIs
  <2>3. ASSUME NEW l \in DOMAIN f.coverage
        PROVE  CoverageCutoffForLog(f, l).Timestamp <= NewestCoverageCutoff(f)
    BY <2>2 DEF CoverageCutoffForLog, Highs
  <2>4. \/ NewestCoverageCutoff(f) = 0
        \/ \E l \in DOMAIN f.coverage :
              CoverageCutoffForLog(f, l) = [Timestamp |-> NewestCoverageCutoff(f), ok |-> TRUE]
    BY <2>2 DEF CoverageCutoffForLog, Highs
  <2>5. ASSUME printed[n] # "NotCovered"
        PROVE  \E m \in 1..Len(timestamps) :
                  LET cutoff == CoverageCutoffForLog(f, timestamps[m].LogId)
                  IN  cutoff.ok /\ timestamps[m].Timestamp <= cutoff.Timestamp
    <3>1. printed # <<>>
      OBVIOUS
    <3>2. PICK g \in args.filter, issuer \in args.issuer :
              printed = <<Contains(g, NewKey(issuer, serial), timestamps)>>
      BY <3>1 DEF MainInv
    <3>3. g = f
      BY MainTypes DEF ReadInv
    <3>4. printed[n] = Contains(f, NewKey(issuer, serial), timestamps)
      <4>1. n = 1
        BY <3>2
      <4> QED
        BY <3>2, <3>3, <4>1
    <3>5. Len(wire) \in Nat /\ DOMAIN timestamps = 1..Len(wire) /\ Len(timestamps) = Len(wire)
      BY TimestampsAre
    <3>6. \E m \in 1..Len(wire) : Covered(f.coverage, timestamps[m])
      BY <2>5, <3>4, <3>5, ContainsIs
    <3> QED
      BY <3>5, <3>6 DEF Covered, CoverageCutoffForLog
  <2> QED
    BY <2>3, <2>4, <2>5
<1>2. Init => ReadInv /\ MainInv
  BY InitReads, InitMain
<1>3. (ReadInv /\ MainInv) /\ [Next]_vars => (ReadInv /\ MainInv)'
  BY NextReads, NextMain
<1> QED
  BY <1>1, <1>2, <1>3, PTL DEF QuerySpec
=============================================================================
