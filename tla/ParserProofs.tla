---------------------------- MODULE ParserProofs -----------------------------
(***************************************************************************)
(* What FromBytes makes of an input, for every filter and every input.     *)
(***************************************************************************)
EXTENDS Parser, WireProofs, FiniteSetTheorems

-----------------------------------------------------------------------------
(* One more entry of each kind, in the encoding and in what it means.      *)

\* The coverage entries as lists of cells.
LEMMA LogsType ==
  ASSUME NEW v \in Seq(Log)
  PROVE  /\ EncodeLogs(v) \in Seq(Seq(Nat)) /\ Len(EncodeLogs(v)) = Len(v)
         /\ \A n \in 1..Len(v) : EncodeLogs(v)[n] = <<v[n].log, v[n].low, v[n].high>>
<1>1. ASSUME NEW n \in 1..Len(v) PROVE <<v[n].log, v[n].low, v[n].high>> \in Seq(Nat)
  <2>1. v[n] \in Log
    OBVIOUS
  <2>2. v[n].log \in Nat /\ v[n].low \in Nat /\ v[n].high \in Nat
    BY <2>1 DEF Log
  <2> QED
    BY <2>2
<1> QED
  BY <1>1 DEF EncodeLogs

\* One more coverage entry.
LEMMA LogsAppend ==
  ASSUME NEW w \in Seq(Log), NEW e \in Log
  PROVE  /\ EncodeLogs(w) \in Seq(Seq(Nat)) /\ Len(EncodeLogs(w)) = Len(w)
         /\ EncodeLogs(Append(w, e)) = Append(EncodeLogs(w), <<e.log, e.low, e.high>>)
<1>1. ASSUME NEW v \in Seq(Log)
      PROVE  /\ EncodeLogs(v) \in Seq(Seq(Nat)) /\ Len(EncodeLogs(v)) = Len(v)
             /\ \A n \in 1..Len(v) : EncodeLogs(v)[n] = <<v[n].log, v[n].low, v[n].high>>
  BY LogsType
<1>2. Append(w, e) \in Seq(Log) /\ Len(Append(w, e)) = Len(w) + 1
  OBVIOUS
<1>3. \A n \in 1..Len(w) : Append(w, e)[n] = w[n]
  OBVIOUS
<1>4. Append(w, e)[Len(w) + 1] = e
  OBVIOUS
<1> DEFINE a == EncodeLogs(Append(w, e))
           x == <<e.log, e.low, e.high>>
           b == EncodeLogs(w)
<1>5. x \in Seq(Nat)
  BY DEF Log
<1>6. a \in Seq(Seq(Nat)) /\ Len(a) = Len(w) + 1 /\ b \in Seq(Seq(Nat)) /\ Len(b) = Len(w)
  BY <1>1, <1>2
<1>7. \A n \in 1..Len(w) : a[n] = b[n]
  <2>1. ASSUME NEW n \in 1..Len(w) PROVE a[n] = b[n]
    <3>1. n \in 1..Len(Append(w, e))
      BY <1>2
    <3> QED
      BY <1>1, <1>2, <1>3, <3>1
  <2> QED
    BY <2>1
<1>8. a[Len(w) + 1] = x
  <2>1. Len(w) + 1 \in 1..Len(Append(w, e))
    BY <1>2
  <2> QED
    BY <1>1, <1>2, <1>4, <2>1
<1> HIDE DEF a, b, x
<1>9. a = Append(b, x)
  BY <1>5, <1>6, <1>7, <1>8, AppendIs
<1> QED
  BY <1>6, <1>9 DEF a, b, x

\* Columns and exceptions as lists of cells.
LEMMA EachPrefixedType ==
  ASSUME NEW v \in Seq(Seq(Nat))
  PROVE  /\ EachPrefixed(v) \in Seq(Seq(Nat)) /\ Len(EachPrefixed(v)) = Len(v)
         /\ \A n \in 1..Len(v) : EachPrefixed(v)[n] = Prefixed(v[n])
<1>1. ASSUME NEW n \in 1..Len(v) PROVE Prefixed(v[n]) \in Seq(Nat)
  <2>1. v[n] \in Seq(Nat)
    OBVIOUS
  <2> QED
    BY <2>1, PrefixedType
<1> QED
  BY <1>1 DEF EachPrefixed

\* One more column or exception.
LEMMA PrefixedAppend ==
  ASSUME NEW w \in Seq(Seq(Nat)), NEW e \in Seq(Nat)
  PROVE  /\ EachPrefixed(w) \in Seq(Seq(Nat)) /\ Len(EachPrefixed(w)) = Len(w)
         /\ EachPrefixed(Append(w, e)) = Append(EachPrefixed(w), Prefixed(e))
<1>1. ASSUME NEW v \in Seq(Seq(Nat))
      PROVE  /\ EachPrefixed(v) \in Seq(Seq(Nat)) /\ Len(EachPrefixed(v)) = Len(v)
             /\ \A n \in 1..Len(v) : EachPrefixed(v)[n] = Prefixed(v[n])
  BY EachPrefixedType
<1>2. Append(w, e) \in Seq(Seq(Nat)) /\ Len(Append(w, e)) = Len(w) + 1
  OBVIOUS
<1>3. \A n \in 1..Len(w) : Append(w, e)[n] = w[n]
  OBVIOUS
<1>4. Append(w, e)[Len(w) + 1] = e
  OBVIOUS
<1> DEFINE a == EachPrefixed(Append(w, e))
           x == Prefixed(e)
           b == EachPrefixed(w)
<1>5. x \in Seq(Nat)
  BY PrefixedType
<1>6. a \in Seq(Seq(Nat)) /\ Len(a) = Len(w) + 1 /\ b \in Seq(Seq(Nat)) /\ Len(b) = Len(w)
  BY <1>1, <1>2
<1>7. \A n \in 1..Len(w) : a[n] = b[n]
  <2>1. ASSUME NEW n \in 1..Len(w) PROVE a[n] = b[n]
    <3>1. n \in 1..Len(Append(w, e))
      BY <1>2
    <3>2. a[n] = Prefixed(Append(w, e)[n])
      BY <1>1, <1>2, <3>1, Zenon
    <3>3. b[n] = Prefixed(w[n])
      BY <1>1, Zenon
    <3> QED
      BY <1>3, <3>2, <3>3, Zenon
  <2> QED
    BY <2>1
<1>8. a[Len(w) + 1] = x
  <2>1. Len(w) + 1 \in 1..Len(Append(w, e))
    BY <1>2
  <2> QED
    BY <1>1, <1>2, <1>4, <2>1
<1> HIDE DEF a, b, x
<1>9. a = Append(b, x)
  BY <1>5, <1>6, <1>7, <1>8, AppendIs, SMTT(20)
<1> QED
  BY <1>6, <1>9 DEF a, b, x

\* A list with its count is a list of cells.
LEMMA CountedType ==
  ASSUME NEW ss \in Seq(Seq(Nat))
  PROVE  /\ Counted(ss) \in Seq(Nat) /\ Counted(ss) = Begun(Len(ss), ss)
         /\ Len(Counted(ss)) = 1 + Len(SX!FlattenSeq(ss))
<1>1. SX!FlattenSeq(ss) \in Seq(Nat)
  BY FlattenType
<1>2. <<Len(ss)>> \in Seq(Nat) /\ Len(<<Len(ss)>>) = 1
  OBVIOUS
<1> QED
  BY <1>1, <1>2 DEF Counted, Begun

\* The fields of a block take seven cells.
LEMMA MetaType ==
  ASSUME NEW id \in Nat, NEW meta \in Meta
  PROVE  EncodeMeta(id, meta) \in Seq(Nat) /\ Len(EncodeMeta(id, meta)) = 7
<1>1. /\ meta.HModulus \in Nat /\ meta.HRank \in Nat /\ meta.HOffset \in Nat
      /\ meta.GModulus \in Nat /\ meta.GOffset \in Nat
  BY DEF Meta
<1>2. Flag(meta.Inverted) \in Nat
  BY DEF Flag
<1> QED
  BY <1>1, <1>2 DEF EncodeMeta

\* A block takes at least eight, the number readBlocks tests the count with.
LEMMA BlockType ==
  ASSUME NEW x \in Block
  PROVE  EncodeBlock(x) \in Seq(Nat) /\ Len(EncodeBlock(x)) >= 8
<1>1. x.id \in Nat /\ x.meta \in Meta /\ x.exceptions \in Seq(Seq(Nat))
  BY DEF Block
<1>2. EncodeMeta(x.id, x.meta) \in Seq(Nat) /\ Len(EncodeMeta(x.id, x.meta)) = 7
  BY <1>1, MetaType
<1>3. EachPrefixed(x.exceptions) \in Seq(Seq(Nat))
  BY <1>1, EachPrefixedType
<1>4. /\ Counted(EachPrefixed(x.exceptions)) \in Seq(Nat)
      /\ Len(Counted(EachPrefixed(x.exceptions))) >= 1
  <2>1. SX!FlattenSeq(EachPrefixed(x.exceptions)) \in Seq(Nat)
    BY <1>3, FlattenType
  <2>2. Len(SX!FlattenSeq(EachPrefixed(x.exceptions))) \in Nat
    BY <2>1
  <2> QED
    BY <1>3, <2>2, CountedType
<1> DEFINE h == EncodeMeta(x.id, x.meta)
           t == Counted(EachPrefixed(x.exceptions))
<1> HIDE DEF h, t
<1>5. h \in Seq(Nat) /\ t \in Seq(Nat)
  BY <1>2, <1>4 DEF h, t
<1>6. h \o t \in Seq(Nat) /\ Len(h \o t) = Len(h) + Len(t) /\ Len(t) \in Nat
  BY ONLY <1>5
<1>7. Len(h) = 7 /\ Len(t) >= 1
  BY <1>2, <1>4 DEF h, t
<1>8. Len(h \o t) >= 8
  BY <1>6, <1>7
<1> QED
  BY <1>6, <1>8 DEF EncodeBlock, h, t

\* The blocks as lists of cells.
LEMMA BlocksType ==
  ASSUME NEW v \in Seq(Block)
  PROVE  /\ EncodeBlocks(v) \in Seq(Seq(Nat)) /\ Len(EncodeBlocks(v)) = Len(v)
         /\ \A n \in 1..Len(v) : EncodeBlocks(v)[n] = EncodeBlock(v[n])
<1>1. ASSUME NEW n \in 1..Len(v) PROVE EncodeBlock(v[n]) \in Seq(Nat)
  <2>1. v[n] \in Block
    OBVIOUS
  <2> QED
    BY <2>1, BlockType
<1> QED
  BY <1>1 DEF EncodeBlocks

\* One more block.
LEMMA BlocksAppend ==
  ASSUME NEW w \in Seq(Block), NEW e \in Block
  PROVE  /\ EncodeBlocks(w) \in Seq(Seq(Nat)) /\ Len(EncodeBlocks(w)) = Len(w)
         /\ EncodeBlocks(Append(w, e)) = Append(EncodeBlocks(w), EncodeBlock(e))
<1>1. ASSUME NEW v \in Seq(Block)
      PROVE  /\ EncodeBlocks(v) \in Seq(Seq(Nat)) /\ Len(EncodeBlocks(v)) = Len(v)
             /\ \A n \in 1..Len(v) : EncodeBlocks(v)[n] = EncodeBlock(v[n])
  BY BlocksType
<1>2. Append(w, e) \in Seq(Block) /\ Len(Append(w, e)) = Len(w) + 1
  OBVIOUS
<1>3. \A n \in 1..Len(w) : Append(w, e)[n] = w[n]
  OBVIOUS
<1>4. Append(w, e)[Len(w) + 1] = e
  OBVIOUS
<1> DEFINE a == EncodeBlocks(Append(w, e))
           x == EncodeBlock(e)
           b == EncodeBlocks(w)
<1>5. x \in Seq(Nat)
  BY BlockType
<1>6. a \in Seq(Seq(Nat)) /\ Len(a) = Len(w) + 1 /\ b \in Seq(Seq(Nat)) /\ Len(b) = Len(w)
  BY <1>1, <1>2
<1>7. \A n \in 1..Len(w) : a[n] = b[n]
  <2>1. ASSUME NEW n \in 1..Len(w) PROVE a[n] = b[n]
    <3>1. n \in 1..Len(Append(w, e))
      BY <1>2
    <3> QED
      BY <1>1, <1>2, <1>3, <3>1
  <2> QED
    BY <2>1
<1>8. a[Len(w) + 1] = x
  <2>1. Len(w) + 1 \in 1..Len(Append(w, e))
    BY <1>2
  <2> QED
    BY <1>1, <1>2, <1>4, <2>1
<1> HIDE DEF a, b, x
<1>9. a = Append(b, x)
  BY <1>5, <1>6, <1>7, <1>8, AppendIs
<1> QED
  BY <1>6, <1>9 DEF a, b, x

\* What they mean: a key is listed once.
Once(logs) == \A m, n \in 1..Len(logs) : logs[m].log = logs[n].log => m = n
OnceIssuer(blocks) == \A m, n \in 1..Len(blocks) : blocks[m].id = blocks[n].id => m = n

\* A log that was not listed before adds its interval and changes no other.
LEMMA IntervalsAppend ==
  ASSUME NEW w \in Seq(Log), NEW e \in Log, Once(w), e.log \notin DOMAIN Intervals(w)
  PROVE  /\ Once(Append(w, e))
         /\ Intervals(Append(w, e))
               = Add(Intervals(w), e.log, [low |-> e.low, high |-> e.high])
<1> DEFINE v == Append(w, e)
<1>1. v \in Seq(Log) /\ Len(v) = Len(w) + 1 /\ v[Len(w) + 1] = e
  OBVIOUS
<1>2. \A n \in 1..Len(w) : v[n] = w[n]
  OBVIOUS
<1>3. \A n \in 1..Len(w) : w[n].log # e.log
  BY DEF Intervals
<1> HIDE DEF v
<1>4. Once(v)
  <2>1. SUFFICES ASSUME NEW m \in 1..Len(v), NEW n \in 1..Len(v), v[m].log = v[n].log
                 PROVE  m = n
    BY DEF Once
  <2>2. (m \in 1..Len(w) \/ m = Len(w) + 1) /\ (n \in 1..Len(w) \/ n = Len(w) + 1)
    BY <1>1
  <2> QED
    BY <1>1, <1>2, <1>3, <2>1, <2>2 DEF Once
<1>5. {v[n].log : n \in 1..Len(v)} = {w[n].log : n \in 1..Len(w)} \cup {e.log}
  <2>1. ASSUME NEW n \in 1..Len(v)
        PROVE  v[n].log \in {w[k].log : k \in 1..Len(w)} \cup {e.log}
    <3>1. n \in 1..Len(w) \/ n = Len(w) + 1
      BY <1>1
    <3> QED
      BY <1>1, <1>2, <3>1
  <2>2. \A n \in 1..Len(w) : w[n].log \in {v[k].log : k \in 1..Len(v)}
    BY <1>1, <1>2
  <2>3. e.log \in {v[k].log : k \in 1..Len(v)}
    <3>1. Len(w) + 1 \in 1..Len(v)
      BY <1>1
    <3> QED
      BY <1>1, <3>1
  <2> QED
    BY <2>1, <2>2, <2>3
<1>6. ASSUME NEW u \in Seq(Log), Once(u), NEW n \in 1..Len(u)
      PROVE  /\ u[n].log \in DOMAIN Intervals(u)
             /\ Intervals(u)[u[n].log] = [low |-> u[n].low, high |-> u[n].high]
  <2>1. u[n].log \in {u[k].log : k \in 1..Len(u)}
    OBVIOUS
  <2>2. (CHOOSE k \in 1..Len(u) : u[k].log = u[n].log) = n
    BY <1>6 DEF Once
  <2> QED
    BY <2>1, <2>2 DEF Intervals
<1>7. ASSUME NEW l \in DOMAIN Intervals(v)
      PROVE  Intervals(v)[l] = Add(Intervals(w), e.log, [low |-> e.low, high |-> e.high])[l]
  <2>1. PICK n \in 1..Len(v) : v[n].log = l
    BY DEF Intervals
  <2>2. Intervals(v)[l] = [low |-> v[n].low, high |-> v[n].high]
    BY <1>1, <1>4, <1>6, <2>1
  <2>3. CASE n \in 1..Len(w)
    <3>1. w[n].log = l /\ l # e.log /\ v[n] = w[n]
      BY <1>2, <1>3, <2>1, <2>3
    <3>2. l \in DOMAIN Intervals(w) /\ Intervals(w)[l] = [low |-> w[n].low, high |-> w[n].high]
      BY <1>6, <2>3, <3>1
    <3> QED
      BY <2>2, <3>1, <3>2 DEF Add
  <2>4. CASE n = Len(w) + 1
    <3>1. v[n] = e /\ l = e.log
      BY <1>1, <2>1, <2>4
    <3> QED
      BY <2>2, <3>1 DEF Add
  <2> QED
    BY <1>1, <2>3, <2>4
<1>8. DOMAIN Intervals(v) = DOMAIN Intervals(w) \cup {e.log}
  BY <1>5 DEF Intervals
<1>9. Intervals(v) = [l \in DOMAIN Intervals(v) |-> Intervals(v)[l]]
  BY DEF Intervals
<1>10. Intervals(v) = Add(Intervals(w), e.log, [low |-> e.low, high |-> e.high])
  BY <1>7, <1>8, <1>9 DEF Add
<1> QED
  BY <1>4, <1>10 DEF v

\* So does an issuer add its block.
LEMMA BlockMapAppend ==
  ASSUME NEW w \in Seq(Block), NEW e \in Block, OnceIssuer(w), e.id \notin DOMAIN BlockMap(w)
  PROVE  /\ OnceIssuer(Append(w, e))
         /\ BlockMap(Append(w, e))
               = Add(BlockMap(w), e.id, [meta |-> e.meta, Exceptions |-> Range(e.exceptions)])
<1> DEFINE v == Append(w, e)
<1>1. v \in Seq(Block) /\ Len(v) = Len(w) + 1 /\ v[Len(w) + 1] = e
  OBVIOUS
<1>2. \A n \in 1..Len(w) : v[n] = w[n]
  OBVIOUS
<1>3. \A n \in 1..Len(w) : w[n].id # e.id
  BY DEF BlockMap
<1> HIDE DEF v
<1>4. OnceIssuer(v)
  <2>1. SUFFICES ASSUME NEW m \in 1..Len(v), NEW n \in 1..Len(v), v[m].id = v[n].id
                 PROVE  m = n
    BY DEF OnceIssuer
  <2>2. (m \in 1..Len(w) \/ m = Len(w) + 1) /\ (n \in 1..Len(w) \/ n = Len(w) + 1)
    BY <1>1
  <2> QED
    BY <1>1, <1>2, <1>3, <2>1, <2>2 DEF OnceIssuer
<1>5. {v[n].id : n \in 1..Len(v)} = {w[n].id : n \in 1..Len(w)} \cup {e.id}
  <2>1. ASSUME NEW n \in 1..Len(v)
        PROVE  v[n].id \in {w[k].id : k \in 1..Len(w)} \cup {e.id}
    <3>1. n \in 1..Len(w) \/ n = Len(w) + 1
      BY <1>1
    <3> QED
      BY <1>1, <1>2, <3>1
  <2>2. \A n \in 1..Len(w) : w[n].id \in {v[k].id : k \in 1..Len(v)}
    BY <1>1, <1>2
  <2>3. e.id \in {v[k].id : k \in 1..Len(v)}
    <3>1. Len(w) + 1 \in 1..Len(v)
      BY <1>1
    <3> QED
      BY <1>1, <3>1
  <2> QED
    BY <2>1, <2>2, <2>3
<1>6. ASSUME NEW u \in Seq(Block), OnceIssuer(u), NEW n \in 1..Len(u)
      PROVE  /\ u[n].id \in DOMAIN BlockMap(u)
             /\ BlockMap(u)[u[n].id] = [meta |-> u[n].meta, Exceptions |-> Range(u[n].exceptions)]
  <2>1. u[n].id \in {u[k].id : k \in 1..Len(u)}
    OBVIOUS
  <2>2. (CHOOSE k \in 1..Len(u) : u[k].id = u[n].id) = n
    BY <1>6 DEF OnceIssuer
  <2> QED
    BY <2>1, <2>2 DEF BlockMap
<1>7. ASSUME NEW l \in DOMAIN BlockMap(v)
      PROVE  BlockMap(v)[l]
                = Add(BlockMap(w), e.id, [meta |-> e.meta, Exceptions |-> Range(e.exceptions)])[l]
  <2>1. PICK n \in 1..Len(v) : v[n].id = l
    BY DEF BlockMap
  <2>2. BlockMap(v)[l] = [meta |-> v[n].meta, Exceptions |-> Range(v[n].exceptions)]
    BY <1>1, <1>4, <1>6, <2>1
  <2>3. CASE n \in 1..Len(w)
    <3>1. w[n].id = l /\ l # e.id /\ v[n] = w[n]
      BY <1>2, <1>3, <2>1, <2>3
    <3>2. /\ l \in DOMAIN BlockMap(w)
          /\ BlockMap(w)[l] = [meta |-> w[n].meta, Exceptions |-> Range(w[n].exceptions)]
      BY <1>6, <2>3, <3>1
    <3> QED
      BY <2>2, <3>1, <3>2 DEF Add
  <2>4. CASE n = Len(w) + 1
    <3>1. v[n] = e /\ l = e.id
      BY <1>1, <2>1, <2>4
    <3> QED
      BY <2>2, <3>1 DEF Add
  <2> QED
    BY <1>1, <2>3, <2>4
<1>8. DOMAIN BlockMap(v) = DOMAIN BlockMap(w) \cup {e.id}
  BY <1>5 DEF BlockMap
<1>9. BlockMap(v) = [l \in DOMAIN BlockMap(v) |-> BlockMap(v)[l]]
  BY DEF BlockMap
<1>10. BlockMap(v) = Add(BlockMap(w), e.id, [meta |-> e.meta, Exceptions |-> Range(e.exceptions)])
  BY <1>7, <1>8, <1>9 DEF Add
<1> QED
  BY <1>4, <1>10 DEF v

\* Nothing is listed in an empty sequence.
LEMMA NothingListed ==
  /\ Intervals(<<>>) = <<>> /\ BlockMap(<<>>) = <<>>
  /\ EncodeLogs(<<>>) = <<>> /\ EncodeBlocks(<<>>) = <<>> /\ EachPrefixed(<<>>) = <<>>
<1>1. 1..Len(<<>>) = {}
  OBVIOUS
<1>2. \A f : DOMAIN f = {} /\ f = [x \in DOMAIN f |-> f[x]] => f = <<>>
  <2>1. ASSUME NEW f, DOMAIN f = {}, f = [x \in DOMAIN f |-> f[x]] PROVE f = <<>>
    <3>1. f = [x \in {} |-> f[x]]
      BY <2>1
    <3>2. <<>> = [x \in {} |-> f[x]]
      OBVIOUS
    <3> QED
      BY <3>1, <3>2
  <2> QED
    BY <2>1
<1>3. DOMAIN Intervals(<<>>) = {} /\ DOMAIN BlockMap(<<>>) = {}
  BY <1>1 DEF Intervals, BlockMap
<1>4. Intervals(<<>>) = [x \in DOMAIN Intervals(<<>>) |-> Intervals(<<>>)[x]]
  BY DEF Intervals
<1>5. BlockMap(<<>>) = [x \in DOMAIN BlockMap(<<>>) |-> BlockMap(<<>>)[x]]
  BY DEF BlockMap
<1>6. EncodeLogs(<<>>) = <<>>
  BY DEF EncodeLogs
<1>7. EncodeBlocks(<<>>) = <<>>
  BY DEF EncodeBlocks
<1>8. EachPrefixed(<<>>) = <<>>
  BY DEF EachPrefixed
<1> QED
  BY <1>2, <1>3, <1>4, <1>5, <1>6, <1>7, <1>8

-----------------------------------------------------------------------------
(* The invariant: at every point the input is what the history read of it  *)
(* encodes to, as far as it goes, and then what is left.                   *)

Head2(w) == <<4, 0>> \o Counted(EncodeLogs(w.coverage))
Head3(w) == Head2(w) \o Counted(EncodeBlocks(w.blocks))
Head4(w) == Head3(w) \o Counted(EachPrefixed(w.X))

InLogs == <<4, 0>> \o Begun(Len(wire.coverage) + left, EncodeLogs(wire.coverage))
InBlocks == Head2(wire) \o Begun(Len(wire.blocks) + left, EncodeBlocks(wire.blocks))
InBlock == EncodeMeta(block.id, block.meta)
           \o Begun(Len(block.listed) + serials, EachPrefixed(block.listed))
InColumns == Head3(wire) \o Begun(Len(wire.X) + left, EachPrefixed(wire.X))

TypeOK ==
    /\ from \in Contents /\ input \in Seq(Nat) /\ s \in Seq(Nat)
    /\ left \in Nat /\ serials \in Nat
    /\ wire \in [coverage : Seq(Log), blocks : Seq(Block), X : Seq(Seq(Nat)), Y : Seq(Nat)]
    /\ pc = "exceptions" =>
          /\ left > 0
          /\ block \in [id : Nat, meta : Meta, Exceptions : SUBSET Seq(Nat),
                        listed : Seq(Seq(Nat))]
          /\ block.Exceptions = Range(block.listed)

\* What is read last is not there before.
NotYet ==
    /\ pc \in {"version", "coverage"} => wire.coverage = <<>>
    /\ pc \in {"version", "coverage", "log", "index"} => wire.blocks = <<>>
    /\ pc \in {"version", "coverage", "log", "index", "block", "exceptions", "columns"} => wire.X = <<>>

\* The filter is what the history means.
Built ==
    /\ c = Meaning(wire)
    /\ Once(wire.coverage) /\ OnceIssuer(wire.blocks)
    /\ IsFiniteSet(DOMAIN c.coverage) /\ Cardinality(DOMAIN c.coverage) = Len(wire.coverage)
    /\ IsFiniteSet(DOMAIN c.Blocks) /\ Cardinality(DOMAIN c.Blocks) = Len(wire.blocks)
    /\ pc = "parsed" => validateBlocks(c)

\* The input is what was read and what is left.
Divided ==
    /\ pc = "version" => input = s
    /\ pc = "coverage" => input = <<4, 0>> \o s
    /\ pc = "log" => input = InLogs \o s
    /\ pc = "index" => input = Head2(wire) \o s
    /\ pc = "block" => input = InBlocks \o s
    /\ pc = "exceptions" => input = (InBlocks \o InBlock) \o s
    /\ pc = "columns" => input = Head3(wire) \o s
    /\ pc = "column" => input = InColumns \o s
    /\ pc = "exact" => input = Head4(wire) \o s
    /\ pc = "parsed" => input = Layout(wire)

ReadInv == TypeOK /\ NotYet /\ Built /\ Divided

\* What has been read is a list of cells.
LEMMA HeadTypes ==
  ASSUME TypeOK
  PROVE  /\ Head2(wire) \in Seq(Nat) /\ Head3(wire) \in Seq(Nat) /\ Head4(wire) \in Seq(Nat)
         /\ InLogs \in Seq(Nat) /\ InBlocks \in Seq(Nat) /\ InColumns \in Seq(Nat)
         /\ Len(wire.coverage) \in Nat /\ Len(wire.blocks) \in Nat /\ Len(wire.X) \in Nat
<1>1. /\ wire.coverage \in Seq(Log) /\ wire.blocks \in Seq(Block) /\ wire.X \in Seq(Seq(Nat))
      /\ left \in Nat
  BY DEF TypeOK
<1>2. /\ EncodeLogs(wire.coverage) \in Seq(Seq(Nat)) /\ EncodeBlocks(wire.blocks) \in Seq(Seq(Nat))
      /\ EachPrefixed(wire.X) \in Seq(Seq(Nat))
  BY <1>1, LogsType, BlocksType, EachPrefixedType
<1>3. Len(wire.coverage) \in Nat /\ Len(wire.blocks) \in Nat /\ Len(wire.X) \in Nat
  BY <1>1
<1>4. \A k \in Nat : \A ss \in Seq(Seq(Nat)) : Begun(k, ss) \in Seq(Nat)
  <2>1. <<>> \in Seq(Nat)
    OBVIOUS
  <2> QED
    BY <2>1, BegunAppend
<1>5. \A ss \in Seq(Seq(Nat)) : Counted(ss) \in Seq(Nat)
  BY CountedType
<1>6. \A a, b \in Seq(Nat) : a \o b \in Seq(Nat)
  OBVIOUS
<1>7. <<4, 0>> \in Seq(Nat)
  OBVIOUS
<1>8. Head2(wire) \in Seq(Nat)
  BY <1>2, <1>5, <1>6, <1>7 DEF Head2
<1>9. Head3(wire) \in Seq(Nat)
  BY <1>2, <1>5, <1>6, <1>8 DEF Head3
<1>10. Head4(wire) \in Seq(Nat)
  BY <1>2, <1>5, <1>6, <1>9 DEF Head4
<1>11. /\ Len(wire.coverage) + left \in Nat /\ Len(wire.blocks) + left \in Nat
       /\ Len(wire.X) + left \in Nat
  BY <1>1, <1>3
<1>12. InLogs \in Seq(Nat)
  BY <1>2, <1>4, <1>6, <1>7, <1>11 DEF InLogs
<1>13. InBlocks \in Seq(Nat)
  BY <1>2, <1>4, <1>6, <1>8, <1>11 DEF InBlocks
<1>14. InColumns \in Seq(Nat)
  BY <1>2, <1>4, <1>6, <1>9, <1>11 DEF InColumns
<1> QED
  BY <1>3, <1>8, <1>9, <1>10, <1>12, <1>13, <1>14

\* What is left of it, and its first cells.
LEMMA FirstCells ==
  ASSUME NEW x \in Seq(Nat), NEW n \in Nat, Len(x) >= n
  PROVE  /\ n \in 0..Len(x)
         /\ SubSeq(x, n + 1, Len(x)) \in Seq(Nat)
         /\ \A i \in 1..n : x[i] \in Nat
         /\ SubSeq(x, 1, n) \in Seq(Nat) /\ Len(SubSeq(x, 1, n)) = n
         /\ \A i \in 1..n : SubSeq(x, 1, n)[i] = x[i]
         /\ n = 1 => SubSeq(x, 1, n) = <<x[1]>>
         /\ n = 2 => SubSeq(x, 1, n) = <<x[1], x[2]>>
         /\ n = 3 => SubSeq(x, 1, n) = <<x[1], x[2], x[3]>>
<1>1. n \in 0..Len(x) /\ SubSeq(x, n + 1, Len(x)) \in Seq(Nat) /\ \A i \in 1..n : x[i] \in Nat
  OBVIOUS
<1>2. /\ SubSeq(x, 1, n) \in Seq(Nat) /\ Len(SubSeq(x, 1, n)) = n
      /\ \A i \in 1..n : SubSeq(x, 1, n)[i] = x[i]
  OBVIOUS
<1> DEFINE y == SubSeq(x, 1, n)
<1> HIDE DEF y
<1>3. y \in Seq(Nat) /\ Len(y) = n /\ \A i \in 1..n : y[i] = x[i]
  BY <1>2 DEF y
<1>4. n = 1 => y = <<x[1]>>
  BY <1>3
<1>5. n = 2 => y = <<x[1], x[2]>>
  BY <1>3
<1>6. n = 3 => y = <<x[1], x[2], x[3]>>
  BY <1>3
<1> QED
  BY <1>1, <1>2, <1>4, <1>5, <1>6 DEF y

\* A refused input is not looked at again.
LEMMA RefuseReads ==
  ASSUME ReadInv, NEW why \in {"malformed", "unsupported"}, Refuse(why)
  PROVE  ReadInv'
<1>1. pc' \notin {"version", "coverage", "log", "index", "block", "exceptions", "columns",
                  "column", "exact", "parsed"}
  BY DEF Refuse
<1>2. UNCHANGED <<from, input, s, left, serials, block, c, wire>>
  BY DEF Refuse
<1>3. TypeOK'
  BY <1>1, <1>2 DEF ReadInv, TypeOK
<1>4. NotYet'
  BY <1>1, <1>2 DEF ReadInv, NotYet
<1>5. Built'
  BY <1>1, <1>2 DEF ReadInv, Built
<1>6. Divided'
  BY <1>1 DEF Divided
<1> QED
  BY <1>3, <1>4, <1>5, <1>6 DEF ReadInv

\* The version has been read.
LEMMA ReadVersionReads ==
  ASSUME ReadInv, ReadVersion
  PROVE  ReadInv'
<1>1. CASE Has(2) /\ s[1] = 4 /\ s[2] = 0 /\ Drop(2) /\ pc' = "coverage"
           /\ UNCHANGED <<from, input, left, serials, block, c, wire>>
  <2>1. s \in Seq(Nat) /\ Len(s) >= 2 /\ input = s /\ pc = "version"
    BY <1>1 DEF ReadVersion, ReadInv, TypeOK, Divided, Has
  <2>2. s' = SubSeq(s, 2 + 1, Len(s)) /\ 2 \in 0..Len(s) /\ s' \in Seq(Nat)
        /\ SubSeq(s, 1, 2) = <<4, 0>>
    BY <1>1, <2>1, FirstCells DEF Drop
  <2>3. s = SubSeq(s, 1, 2) \o SubSeq(s, 2 + 1, Len(s))
    BY <2>1, <2>2, Split
  <2>4. TypeOK'
    BY <1>1, <2>2 DEF ReadInv, TypeOK
  <2>5. NotYet'
    BY <1>1, <2>1 DEF ReadInv, NotYet
  <2>6. Built'
    BY <1>1 DEF ReadInv, Built
  <2>7. input' = <<4, 0>> \o s'
    BY <1>1, <2>1, <2>2, <2>3
  <2>8. Divided'
    BY <1>1, <2>7 DEF Divided
  <2> QED
    BY <2>4, <2>5, <2>6, <2>8 DEF ReadInv
<1>2. CASE Refuse("unsupported") \/ Refuse("malformed")
  BY <1>2, RefuseReads
<1> QED
  BY <1>1, <1>2 DEF ReadVersion

\* A count is read after a.
LEMMA CountRead ==
  ASSUME NEW a \in Seq(Nat), NEW x \in Seq(Nat), Len(x) >= 1
  PROVE  /\ x[1] \in Nat /\ SubSeq(x, 1 + 1, Len(x)) \in Seq(Nat)
         /\ a \o x = (a \o Begun(0 + x[1], <<>>)) \o SubSeq(x, 1 + 1, Len(x))
<1>1. 1 \in 0..Len(x) /\ x[1] \in Nat /\ SubSeq(x, 1, 1) = <<x[1]>>
      /\ SubSeq(x, 1 + 1, Len(x)) \in Seq(Nat)
  BY FirstCells
<1>2. a \o x = (a \o SubSeq(x, 1, 1)) \o SubSeq(x, 1 + 1, Len(x))
  <2>1. \A n \in 0..Len(x) : a \o x = (a \o SubSeq(x, 1, n)) \o SubSeq(x, n + 1, Len(x))
    BY CellsConsume, ZenonT(30)
  <2> QED
    BY <1>1, <2>1
<1>3. Begun(0 + x[1], <<>>) = <<x[1]>>
  <2>1. 0 + x[1] = x[1]
    BY <1>1
  <2> QED
    BY <2>1, BegunEmpty
<1> QED
  BY <1>1, <1>2, <1>3

\* The number of coverage entries has been read.
LEMMA ReadCoverageCountReads ==
  ASSUME ReadInv, ReadCount("coverage", coverageEntrySize, "log")
  PROVE  ReadInv'
<1>1. CASE Has(1) /\ left' = s[1] /\ Drop(1) /\ pc' = "log"
           /\ UNCHANGED <<from, input, serials, block, c, wire>>
  <2>1. s \in Seq(Nat) /\ Len(s) >= 1 /\ input = <<4, 0>> \o s /\ pc = "coverage"
        /\ wire.coverage = <<>>
    BY <1>1 DEF ReadCount, ReadInv, TypeOK, Divided, NotYet, Has
  <2>2. <<4, 0>> \in Seq(Nat)
    OBVIOUS
  <2>3. s[1] \in Nat /\ s' = SubSeq(s, 1 + 1, Len(s)) /\ s' \in Seq(Nat)
        /\ input = (<<4, 0>> \o Begun(0 + s[1], <<>>)) \o s'
    BY <1>1, <2>1, <2>2, CountRead DEF Drop
  <2>4. TypeOK'
    BY <1>1, <2>3 DEF ReadInv, TypeOK
  <2>5. NotYet'
    BY <1>1, <2>1 DEF ReadInv, NotYet
  <2>6. Built'
    BY <1>1 DEF ReadInv, Built
  <2>7. InLogs' = <<4, 0>> \o Begun(0 + s[1], <<>>)
    <3>1. Len(wire'.coverage) = 0 /\ EncodeLogs(wire'.coverage) = <<>> /\ left' = s[1]
      BY <1>1, <2>1, NothingListed
    <3> QED
      BY <3>1 DEF InLogs
  <2>8. Divided'
    BY <1>1, <2>3, <2>7 DEF Divided
  <2> QED
    BY <2>4, <2>5, <2>6, <2>8 DEF ReadInv
<1>2. CASE Refuse("malformed")
  BY <1>2, RefuseReads
<1> QED
  BY <1>1, <1>2 DEF ReadCount

\* The number of blocks has been read.
LEMMA ReadIndexCountReads ==
  ASSUME ReadInv, ReadCount("index", minIndexEntrySize, "block")
  PROVE  ReadInv'
<1>1. CASE Has(1) /\ left' = s[1] /\ Drop(1) /\ pc' = "block"
           /\ UNCHANGED <<from, input, serials, block, c, wire>>
  <2>1. s \in Seq(Nat) /\ Len(s) >= 1 /\ input = Head2(wire) \o s /\ pc = "index"
        /\ wire.blocks = <<>>
    BY <1>1 DEF ReadCount, ReadInv, TypeOK, Divided, NotYet, Has
  <2>2. Head2(wire) \in Seq(Nat)
    BY HeadTypes DEF ReadInv
  <2>3. s[1] \in Nat /\ s' = SubSeq(s, 1 + 1, Len(s)) /\ s' \in Seq(Nat)
        /\ input = (Head2(wire) \o Begun(0 + s[1], <<>>)) \o s'
    BY <1>1, <2>1, <2>2, CountRead DEF Drop
  <2>4. TypeOK'
    BY <1>1, <2>3 DEF ReadInv, TypeOK
  <2>5. NotYet'
    BY <1>1, <2>1 DEF ReadInv, NotYet
  <2>6. Built'
    BY <1>1 DEF ReadInv, Built
  <2>7. InBlocks' = Head2(wire) \o Begun(0 + s[1], <<>>)
    <3>1. Len(wire'.blocks) = 0 /\ EncodeBlocks(wire'.blocks) = <<>> /\ left' = s[1]
      BY <1>1, <2>1, NothingListed
    <3> QED
      BY <1>1, <3>1 DEF InBlocks
  <2>8. Divided'
    BY <1>1, <2>3, <2>7 DEF Divided
  <2> QED
    BY <2>4, <2>5, <2>6, <2>8 DEF ReadInv
<1>2. CASE Refuse("malformed")
  BY <1>2, RefuseReads
<1> QED
  BY <1>1, <1>2 DEF ReadCount

\* The number of columns has been read.
LEMMA ReadColumnCountReads ==
  ASSUME ReadInv, ReadColumnCount
  PROVE  ReadInv'
<1>1. CASE Has(1) /\ left' = s[1] /\ Drop(1) /\ pc' = "column"
           /\ UNCHANGED <<from, input, serials, block, c, wire>>
  <2>1. s \in Seq(Nat) /\ Len(s) >= 1 /\ input = Head3(wire) \o s /\ pc = "columns"
        /\ wire.X = <<>>
    BY <1>1 DEF ReadColumnCount, ReadInv, TypeOK, Divided, NotYet, Has
  <2>2. Head3(wire) \in Seq(Nat)
    BY HeadTypes DEF ReadInv
  <2>3. s[1] \in Nat /\ s' = SubSeq(s, 1 + 1, Len(s)) /\ s' \in Seq(Nat)
        /\ input = (Head3(wire) \o Begun(0 + s[1], <<>>)) \o s'
    BY <1>1, <2>1, <2>2, CountRead DEF Drop
  <2>4. TypeOK'
    BY <1>1, <2>3 DEF ReadInv, TypeOK
  <2>5. NotYet'
    BY <1>1, <2>1 DEF ReadInv, NotYet
  <2>6. Built'
    BY <1>1 DEF ReadInv, Built
  <2>7. InColumns' = Head3(wire) \o Begun(0 + s[1], <<>>)
    <3>1. Len(wire'.X) = 0 /\ EachPrefixed(wire'.X) = <<>> /\ left' = s[1]
      BY <1>1, <2>1, NothingListed
    <3> QED
      BY <1>1, <3>1 DEF InColumns
  <2>8. Divided'
    BY <1>1, <2>3, <2>7 DEF Divided
  <2> QED
    BY <2>4, <2>5, <2>6, <2>8 DEF ReadInv
<1>2. CASE Refuse("malformed")
  BY <1>2, RefuseReads
<1> QED
  BY <1>1, <1>2 DEF ReadColumnCount

\* A loop that has read all it announced has read a counted sequence.
LEMMA LeaveReads ==
  ASSUME ReadInv,
         Leave("log", "index") \/ Leave("block", "columns") \/ Leave("column", "exact")
  PROVE  ReadInv'
<1>1. left = 0 /\ UNCHANGED <<from, input, s, left, serials, block, c, wire>>
  BY DEF Leave
<1>2. /\ wire.coverage \in Seq(Log) /\ wire.blocks \in Seq(Block) /\ wire.X \in Seq(Seq(Nat))
      /\ left \in Nat
  BY DEF ReadInv, TypeOK
<1>3. /\ EncodeLogs(wire.coverage) \in Seq(Seq(Nat))
      /\ Len(EncodeLogs(wire.coverage)) = Len(wire.coverage) + left
  BY <1>1, <1>2, LogsType
<1>4. /\ EncodeBlocks(wire.blocks) \in Seq(Seq(Nat))
      /\ Len(EncodeBlocks(wire.blocks)) = Len(wire.blocks) + left
  BY <1>1, <1>2, BlocksType
<1>5. /\ EachPrefixed(wire.X) \in Seq(Seq(Nat))
      /\ Len(EachPrefixed(wire.X)) = Len(wire.X) + left
  BY <1>1, <1>2, EachPrefixedType
<1>6. InLogs = Head2(wire)
  BY <1>3, CountedType DEF InLogs, Head2
<1>7. InBlocks = Head3(wire)
  BY <1>4, CountedType DEF InBlocks, Head3
<1>8. InColumns = Head4(wire)
  BY <1>5, CountedType DEF InColumns, Head4
<1>9. TypeOK' /\ NotYet' /\ Built'
  BY <1>1 DEF Leave, ReadInv, TypeOK, NotYet, Built
<1>10. Divided'
  <2>1. CASE Leave("log", "index")
    BY <1>1, <1>6, <2>1 DEF Leave, ReadInv, Divided
  <2>2. CASE Leave("block", "columns")
    BY <1>1, <1>7, <2>2 DEF Leave, ReadInv, Divided
  <2>3. CASE Leave("column", "exact")
    BY <1>1, <1>8, <2>3 DEF Leave, ReadInv, Divided
  <2> QED
    BY <2>1, <2>2, <2>3
<1> QED
  BY <1>9, <1>10 DEF ReadInv

\* One key more in a map.
LEMMA AddKey ==
  ASSUME NEW f, NEW x, NEW v, x \notin DOMAIN f, IsFiniteSet(DOMAIN f)
  PROVE  /\ IsFiniteSet(DOMAIN Add(f, x, v))
         /\ Cardinality(DOMAIN Add(f, x, v)) = Cardinality(DOMAIN f) + 1
<1>1. DOMAIN Add(f, x, v) = DOMAIN f \cup {x}
  BY DEF Add
<1> QED
  BY <1>1, FS_AddElement

\* The first n cells of what is left are one more item of a loop.
LEMMA ItemRead ==
  ASSUME NEW a \in Seq(Nat), NEW k \in Nat, NEW ss \in Seq(Seq(Nat)), NEW x \in Seq(Nat),
         NEW n \in 0..Len(x)
  PROVE  (a \o Begun(k, ss)) \o x
            = (a \o Begun(k, Append(ss, SubSeq(x, 1, n)))) \o SubSeq(x, n + 1, Len(x))
<1> DEFINE y == SubSeq(x, 1, n)
           b == a \o Begun(k, ss)
<1>1. y \in Seq(Nat)
  BY Split
<1>2. Begun(k, ss) \in Seq(Nat) /\ b \o y = a \o Begun(k, Append(ss, y))
  BY <1>1, BegunAppend
<1>3. b \in Seq(Nat)
  BY <1>2
<1> HIDE DEF b
<1>4. b \o x = (b \o SubSeq(x, 1, n)) \o SubSeq(x, n + 1, Len(x))
  BY ONLY <1>3, x \in Seq(Nat), n \in 0..Len(x), CellsConsume, ZenonT(30)
<1> QED
  BY <1>2, <1>4 DEF b

\* One more coverage entry has been read, of a log that is new.
LEMMA ReadCoverageReads ==
  ASSUME ReadInv, ReadCoverage
  PROVE  ReadInv'
<1>1. CASE /\ Has(3) /\ ~Duplicate(c.coverage, s[1])
           /\ c' = [c EXCEPT !.coverage = Add(@, s[1], [low |-> s[2], high |-> s[3]])]
           /\ wire' = [wire EXCEPT !.coverage =
                          Append(@, [log |-> s[1], low |-> s[2], high |-> s[3]])]
           /\ left' = left - 1
           /\ Drop(3)
           /\ UNCHANGED <<from, input, pc, serials, block>>
  <2> DEFINE e == [log |-> s[1], low |-> s[2], high |-> s[3]]
             w == wire.coverage
  <2>1. s \in Seq(Nat) /\ Len(s) >= 3 /\ pc = "log" /\ left \in Nat /\ left > 0
        /\ wire \in [coverage : Seq(Log), blocks : Seq(Block), X : Seq(Seq(Nat)), Y : Seq(Nat)]
        /\ input = (<<4, 0>> \o Begun(Len(w) + left, EncodeLogs(w))) \o s
        /\ c = Meaning(wire) /\ Once(w) /\ OnceIssuer(wire.blocks)
    BY <1>1 DEF ReadCoverage, ReadInv, TypeOK, Divided, Built, Has, InLogs
  <2>2. 3 \in 0..Len(s) /\ s[1] \in Nat /\ s[2] \in Nat /\ s[3] \in Nat
        /\ SubSeq(s, 1, 3) = <<s[1], s[2], s[3]>>
        /\ s' = SubSeq(s, 3 + 1, Len(s)) /\ s' \in Seq(Nat)
    <3>1. /\ 3 \in 0..Len(s) /\ SubSeq(s, 3 + 1, Len(s)) \in Seq(Nat)
          /\ \A i \in 1..3 : s[i] \in Nat
          /\ SubSeq(s, 1, 3) = <<s[1], s[2], s[3]>>
      BY ONLY <2>1, FirstCells
    <3>2. s[1] \in Nat /\ s[2] \in Nat /\ s[3] \in Nat
      BY <3>1
    <3> QED
      BY <1>1, <3>1, <3>2 DEF Drop
  <2>3. e \in Log /\ w \in Seq(Log) /\ wire'.coverage = Append(w, e) /\ wire'.blocks = wire.blocks
        /\ wire'.X = wire.X /\ wire'.Y = wire.Y
    BY <1>1, <2>1, <2>2 DEF Log
  <2>4. wire' \in [coverage : Seq(Log), blocks : Seq(Block), X : Seq(Seq(Nat)), Y : Seq(Nat)]
    <3>1. Append(w, e) \in Seq(Log)
      BY <2>3
    <3> HIDE DEF e
    <3>2. wire' = [wire EXCEPT !.coverage = Append(w, e)]
      BY <1>1 DEF e
    <3> QED
      BY <2>1, <3>1, <3>2
  <2>5. TypeOK'
    <3>1. left' = left - 1 /\ left \in Nat /\ left > 0
      BY <1>1, <2>1
    <3>2. left' \in Nat
      BY <3>1
    <3>3. pc' # "exceptions"
      BY <1>1, <2>1
    <3> QED
      BY <1>1, <2>2, <2>4, <3>2, <3>3 DEF ReadInv, TypeOK
  <2>6. NotYet'
    BY <1>1, <2>1, <2>3 DEF ReadInv, NotYet
  <2>7. c.coverage = Intervals(w) /\ e.log \notin DOMAIN Intervals(w)
    BY <1>1, <2>1 DEF Meaning, Duplicate
  <2>8. Once(wire'.coverage)
        /\ Intervals(wire'.coverage) = Add(Intervals(w), e.log, [low |-> e.low, high |-> e.high])
    BY <2>1, <2>3, <2>7, IntervalsAppend
  <2>9. Built'
    <3>1. c' = Meaning(wire')
      BY <1>1, <2>1, <2>3, <2>7, <2>8 DEF Meaning
    <3>2. c'.coverage = Add(c.coverage, s[1], [low |-> s[2], high |-> s[3]]) /\ c'.Blocks = c.Blocks
      BY <1>1, <2>1 DEF Meaning
    <3>3. /\ IsFiniteSet(DOMAIN c'.coverage)
          /\ Cardinality(DOMAIN c'.coverage) = Cardinality(DOMAIN c.coverage) + 1
      BY <1>1, <3>2, AddKey DEF Duplicate, ReadInv, Built
    <3>4. Len(wire'.coverage) = Len(w) + 1
      BY <2>3
    <3>5. pc' # "parsed"
      BY <1>1, <2>1
    <3> QED
      BY <2>3, <2>8, <3>1, <3>2, <3>3, <3>4, <3>5 DEF ReadInv, Built
  <2>10. input' = InLogs' \o s'
    <3>1. EncodeLogs(w) \in Seq(Seq(Nat)) /\ Len(w) \in Nat
          /\ EncodeLogs(wire'.coverage) = Append(EncodeLogs(w), SubSeq(s, 1, 3))
      BY <2>2, <2>3, LogsAppend, SMTT(20)
    <3>2. <<4, 0>> \in Seq(Nat)
      OBVIOUS
    <3>3. Len(w) + left \in Nat
      BY <2>1, <3>1
    <3>4. \A n \in 0..Len(s) :
             (<<4, 0>> \o Begun(Len(w) + left, EncodeLogs(w))) \o s
               = (<<4, 0>> \o Begun(Len(w) + left, Append(EncodeLogs(w), SubSeq(s, 1, n))))
                 \o SubSeq(s, n + 1, Len(s))
      BY <2>1, <3>1, <3>2, <3>3, ItemRead, ZenonT(30)
    <3>5. Len(wire'.coverage) + left' = Len(w) + left
      <4>1. Len(wire'.coverage) = Len(w) + 1
        BY <2>3
      <4> QED
        BY <1>1, <2>1, <3>1, <4>1
    <3> QED
      BY <1>1, <2>1, <2>2, <3>1, <3>4, <3>5 DEF InLogs
  <2>11. Divided'
    BY <1>1, <2>1, <2>10 DEF Divided
  <2> QED
    BY <2>5, <2>6, <2>9, <2>11 DEF ReadInv
<1>2. CASE Refuse("malformed")
  BY <1>2, RefuseReads
<1> QED
  BY <1>1, <1>2 DEF ReadCoverage

\* The test of a count of words leaves room for them.
LEMMA HasSeqTaken ==
  ASSUME s \in Seq(Nat), HasSeq
  PROVE  Len(s) >= 1 /\ Len(s) >= 1 + s[1]
<1>1. Len(s) >= 1 /\ s[1] * 1 <= Len(s) - 1 /\ s[1] \in Nat /\ Len(s) \in Nat
  BY DEF HasSeq, Has, Fits
<1> QED
  BY <1>1

\* One more column has been read.
LEMMA ReadColumnReads ==
  ASSUME ReadInv, ReadColumn
  PROVE  ReadInv'
<1>1. CASE /\ HasSeq
           /\ c' = [c EXCEPT !.X = Append(@, TakenSeq)]
           /\ wire' = [wire EXCEPT !.X = Append(@, TakenSeq)]
           /\ left' = left - 1
           /\ Drop(1 + s[1])
           /\ UNCHANGED <<from, input, pc, serials, block>>
  <2> DEFINE e == TakenSeq
             w == wire.X
             n == 1 + s[1]
  <2>1. s \in Seq(Nat) /\ pc = "column" /\ left \in Nat /\ left > 0
        /\ wire \in [coverage : Seq(Log), blocks : Seq(Block), X : Seq(Seq(Nat)), Y : Seq(Nat)]
        /\ input = (Head3(wire) \o Begun(Len(w) + left, EachPrefixed(w))) \o s
        /\ c = Meaning(wire)
    BY <1>1 DEF ReadColumn, ReadInv, TypeOK, Divided, Built, InColumns
  <2>2. n \in 0..Len(s) /\ e \in Seq(Nat) /\ SubSeq(s, 1, n) = Prefixed(e)
        /\ s' = SubSeq(s, n + 1, Len(s)) /\ s' \in Seq(Nat)
    <3>1. Len(s) >= 1 /\ Len(s) >= 1 + s[1]
      BY <1>1, <2>1, HasSeqTaken
    <3> QED
      BY <1>1, <2>1, <3>1, SeqTaken DEF Drop, TakenSeq
  <2> HIDE DEF e, n
  <2>3. w \in Seq(Seq(Nat)) /\ wire'.X = Append(w, e) /\ wire'.blocks = wire.blocks
        /\ wire'.coverage = wire.coverage /\ wire'.Y = wire.Y
        /\ wire' = [wire EXCEPT !.X = Append(w, e)]
    BY <1>1, <2>1 DEF e
  <2>4. wire' \in [coverage : Seq(Log), blocks : Seq(Block), X : Seq(Seq(Nat)), Y : Seq(Nat)]
    <3>1. Append(w, e) \in Seq(Seq(Nat))
      BY <2>2, <2>3
    <3> QED
      BY <2>1, <2>3, <3>1
  <2>5. TypeOK'
    <3>1. left' = left - 1 /\ left \in Nat /\ left > 0
      BY <1>1, <2>1
    <3>2. left' \in Nat
      BY <3>1
    <3>3. pc' # "exceptions"
      BY <1>1, <2>1
    <3> QED
      BY <1>1, <2>2, <2>4, <3>2, <3>3 DEF ReadInv, TypeOK
  <2>6. NotYet'
    BY <1>1, <2>1, <2>3 DEF ReadInv, NotYet
  <2>7. Built'
    <3>1. c' = Meaning(wire')
      BY <1>1, <2>1, <2>3 DEF Meaning, e
    <3>2. c'.coverage = c.coverage /\ c'.Blocks = c.Blocks
      BY <1>1, <2>1 DEF Meaning
    <3>3. pc' # "parsed"
      BY <1>1, <2>1
    <3> QED
      BY <2>3, <3>1, <3>2, <3>3 DEF ReadInv, Built
  <2>8. input' = InColumns' \o s'
    <3>1. EachPrefixed(w) \in Seq(Seq(Nat)) /\ Len(w) \in Nat
          /\ EachPrefixed(wire'.X) = Append(EachPrefixed(w), SubSeq(s, 1, n))
      <4>1. e \in Seq(Nat) /\ w \in Seq(Seq(Nat))
        BY <2>2, <2>3
      <4>2. EachPrefixed(w) \in Seq(Seq(Nat))
            /\ EachPrefixed(Append(w, e)) = Append(EachPrefixed(w), Prefixed(e))
        BY <4>1, PrefixedAppend
      <4> QED
        BY <2>2, <2>3, <4>1, <4>2, SMTT(20)
    <3>2. Head3(wire) \in Seq(Nat)
      BY HeadTypes DEF ReadInv
    <3>3. Len(w) + left \in Nat
      BY <2>1, <3>1
    <3>4. \A m \in 0..Len(s) :
             (Head3(wire) \o Begun(Len(w) + left, EachPrefixed(w))) \o s
               = (Head3(wire) \o Begun(Len(w) + left, Append(EachPrefixed(w), SubSeq(s, 1, m))))
                 \o SubSeq(s, m + 1, Len(s))
      BY <2>1, <3>1, <3>2, <3>3, ItemRead, ZenonT(30)
    <3>5. Len(wire'.X) + left' = Len(w) + left
      <4>1. Len(wire'.X) = Len(w) + 1
        BY <2>2, <2>3
      <4> QED
        BY <1>1, <2>1, <3>1, <4>1
    <3>6. Head3(wire)' = Head3(wire)
      BY <2>3 DEF Head3, Head2
    <3> QED
      BY <1>1, <2>1, <2>2, <3>1, <3>4, <3>5, <3>6 DEF InColumns
  <2>9. Divided'
    BY <1>1, <2>1, <2>8 DEF Divided
  <2> QED
    BY <2>5, <2>6, <2>7, <2>9 DEF ReadInv
<1>2. CASE Refuse("malformed")
  BY <1>2, RefuseReads
<1> QED
  BY <1>1, <1>2 DEF ReadColumn

\* The exact filter has been read and nothing is left.
LEMMA ReadExactReads ==
  ASSUME ReadInv, ReadExact
  PROVE  ReadInv'
<1>1. CASE /\ HasSeq
           /\ validateBlocks(c)
           /\ Len(s) = 1 + s[1]
           /\ c' = [c EXCEPT !.Y = TakenSeq]
           /\ wire' = [wire EXCEPT !.Y = TakenSeq]
           /\ Drop(1 + s[1])
           /\ pc' = "parsed"
           /\ UNCHANGED <<from, input, left, serials, block>>
  <2> DEFINE e == TakenSeq
  <2>1. s \in Seq(Nat) /\ pc = "exact"
        /\ wire \in [coverage : Seq(Log), blocks : Seq(Block), X : Seq(Seq(Nat)), Y : Seq(Nat)]
        /\ input = Head4(wire) \o s
        /\ c = Meaning(wire)
    BY <1>1 DEF ReadExact, ReadInv, TypeOK, Divided, Built
  <2>2. e \in Seq(Nat) /\ SubSeq(s, 1, 1 + s[1]) = Prefixed(e) /\ s' \in Seq(Nat)
    <3>1. Len(s) >= 1 /\ Len(s) >= 1 + s[1]
      BY <1>1, <2>1, HasSeqTaken
    <3> QED
      BY <1>1, <2>1, <3>1, SeqTaken DEF Drop, TakenSeq
  <2>3. s = Prefixed(e)
    <3>1. SubSeq(s, 1, Len(s)) = s
      BY <2>1
    <3> QED
      BY <1>1, <2>2, <3>1
  <2> HIDE DEF e
  <2>4. wire'.Y = e /\ wire'.blocks = wire.blocks
        /\ wire'.coverage = wire.coverage /\ wire'.X = wire.X
        /\ wire' = [wire EXCEPT !.Y = e]
    BY <1>1, <2>1 DEF e
  <2>5. wire' \in [coverage : Seq(Log), blocks : Seq(Block), X : Seq(Seq(Nat)), Y : Seq(Nat)]
    BY <2>1, <2>2, <2>4
  <2>6. TypeOK'
    BY <1>1, <2>2, <2>5 DEF ReadInv, TypeOK
  <2>7. NotYet'
    BY <1>1 DEF NotYet
  <2>8. Built'
    <3>1. c' = Meaning(wire')
      BY <1>1, <2>1, <2>4 DEF Meaning, e
    <3>2. c'.coverage = c.coverage /\ c'.Blocks = c.Blocks /\ c'.X = c.X
      BY <1>1, <2>1 DEF Meaning
    <3>3. validateBlocks(c')
      BY <1>1, <3>2 DEF validateBlocks
    <3> QED
      BY <2>4, <3>1, <3>2, <3>3 DEF ReadInv, Built
  <2>9. input' = Layout(wire')
    <3>1. Layout(wire') = Head4(wire') \o Prefixed(e)
      BY <2>4 DEF Layout, Head4, Head3, Head2
    <3>2. Head4(wire') = Head4(wire)
      BY <2>4 DEF Head4, Head3, Head2
    <3> QED
      BY <1>1, <2>1, <2>3, <3>1, <3>2
  <2>10. Divided'
    BY <1>1, <2>9 DEF Divided
  <2> QED
    BY <2>6, <2>7, <2>8, <2>10 DEF ReadInv
<1>2. CASE Refuse("malformed")
  BY <1>2, RefuseReads
<1> QED
  BY <1>1, <1>2 DEF ReadExact

\* The fields of a block before its exceptions, from the first cells of x.
MetaOf(x) == [HModulus |-> x[2], HRank |-> x[3], HOffset |-> x[4],
              GModulus |-> x[5], GOffset |-> x[6], Inverted |-> x[7] # 0]

\* Seven cells and one more.
LEMMA EightCells ==
  ASSUME NEW u \in Seq(Nat), Len(u) = 7, NEW d \in Nat
  PROVE  u \o <<d>> = <<u[1], u[2], u[3], u[4], u[5], u[6], u[7], d>>
<1> DEFINE z == Append(u, d)
<1>1. u \o <<d>> = z
  BY AppendIsConcat
<1>2. /\ Len(z) = Len(u) + 1 /\ z \in Seq(Nat) /\ z[Len(u) + 1] = d
      /\ \A i \in 1..Len(u) : z[i] = u[i]
  BY ONLY u \in Seq(Nat), d \in Nat
<1>3. Len(z) = 8 /\ z[8] = d /\ \A i \in 1..7 : z[i] = u[i]
  BY <1>2, SMTT(20)
<1> HIDE DEF z
<1>4. z = <<u[1], u[2], u[3], u[4], u[5], u[6], u[7], d>>
  BY <1>2, <1>3
<1> QED
  BY <1>1, <1>4

\* Eight cells hold the fields of a block and the number of its exceptions.
LEMMA MetaTaken ==
  ASSUME NEW x \in Seq(Nat), Len(x) >= 8, x[7] <= 1
  PROVE  /\ 8 \in 0..Len(x) /\ x[1] \in Nat /\ x[8] \in Nat /\ MetaOf(x) \in Meta
         /\ SubSeq(x, 8 + 1, Len(x)) \in Seq(Nat)
         /\ SubSeq(x, 1, 8) = EncodeMeta(x[1], MetaOf(x)) \o Begun(0 + x[8], <<>>)
<1>1. 8 \in 0..Len(x) /\ SubSeq(x, 8 + 1, Len(x)) \in Seq(Nat)
  OBVIOUS
<1>2. \A i \in 1..8 : x[i] \in Nat
  OBVIOUS
<1>3. /\ x[1] \in Nat /\ x[2] \in Nat /\ x[3] \in Nat /\ x[4] \in Nat
      /\ x[5] \in Nat /\ x[6] \in Nat /\ x[7] \in Nat /\ x[8] \in Nat
  BY <1>2
<1>4. MetaOf(x) \in Meta
  BY <1>3 DEF MetaOf, Meta
<1>5. Flag(MetaOf(x).Inverted) = x[7]
  <2>1. x[7] = 0 \/ x[7] = 1
    <3> DEFINE b == x[7]
    <3>1. b \in Nat /\ b <= 1
      BY <1>3
    <3> HIDE DEF b
    <3>2. b = 0 \/ b = 1
      BY ONLY <3>1
    <3> QED
      BY <3>2 DEF b
  <2>2. MetaOf(x).Inverted = (x[7] # 0)
    BY DEF MetaOf
  <2>3. x[7] = 0 => ~MetaOf(x).Inverted
    BY <2>2
  <2>4. x[7] = 1 => MetaOf(x).Inverted
    <3>1. x[7] = 1 => x[7] # 0
      OBVIOUS
    <3> QED
      BY <2>2, <3>1, Zenon
  <2> QED
    BY <2>1, <2>3, <2>4 DEF Flag
<1>6. EncodeMeta(x[1], MetaOf(x)) = <<x[1], x[2], x[3], x[4], x[5], x[6], x[7]>>
  BY <1>5 DEF EncodeMeta, MetaOf
<1>7. Begun(0 + x[8], <<>>) = <<x[8]>>
  <2>1. 0 + x[8] = x[8]
    BY <1>3
  <2> QED
    BY <2>1, BegunEmpty
<1>8. <<x[1], x[2], x[3], x[4], x[5], x[6], x[7]>> \o <<x[8]>>
        = <<x[1], x[2], x[3], x[4], x[5], x[6], x[7], x[8]>>
  <2> DEFINE v == <<x[1], x[2], x[3], x[4], x[5], x[6], x[7]>>
  <2>2. v \in Seq(Nat) /\ Len(v) = 7 /\ v[1] = x[1] /\ v[2] = x[2] /\ v[3] = x[3]
        /\ v[4] = x[4] /\ v[5] = x[5] /\ v[6] = x[6] /\ v[7] = x[7]
    BY <1>3
  <2> HIDE DEF v
  <2>3. v \o <<x[8]>> = <<v[1], v[2], v[3], v[4], v[5], v[6], v[7], x[8]>>
    BY <1>3, <2>2, EightCells
  <2> QED
    BY <2>2, <2>3 DEF v
<1>9. SubSeq(x, 1, 8) = <<x[1], x[2], x[3], x[4], x[5], x[6], x[7], x[8]>>
  <2> DEFINE y == SubSeq(x, 1, 8)
  <2>1. y \in Seq(Nat) /\ Len(y) = 8 /\ \A i \in 1..8 : y[i] = x[i]
    BY FirstCells
  <2> HIDE DEF y
  <2>2. y = <<x[1], x[2], x[3], x[4], x[5], x[6], x[7], x[8]>>
    BY <2>1
  <2> QED
    BY <2>2 DEF y
<1> QED
  BY <1>1, <1>3, <1>4, <1>6, <1>7, <1>8, <1>9

\* A block's fields have been read.
LEMMA ReadBlockReads ==
  ASSUME ReadInv, ReadBlock
  PROVE  ReadInv'
<1>1. CASE /\ Has(8) /\ s[7] <= 1
           /\ block' = [id |-> s[1],
                        meta |-> [HModulus |-> s[2], HRank |-> s[3], HOffset |-> s[4],
                                  GModulus |-> s[5], GOffset |-> s[6], Inverted |-> s[7] # 0],
                        Exceptions |-> {}, listed |-> <<>>]
           /\ serials' = s[8]
           /\ Drop(8)
           /\ pc' = "exceptions"
           /\ UNCHANGED <<from, input, left, c, wire>>
  <2>1. s \in Seq(Nat) /\ Len(s) >= 8 /\ pc = "block" /\ left \in Nat /\ left > 0
        /\ input = InBlocks \o s
    BY <1>1 DEF ReadBlock, ReadInv, TypeOK, Divided, Has
  <2>2. /\ 8 \in 0..Len(s) /\ s[1] \in Nat /\ s[8] \in Nat /\ MetaOf(s) \in Meta
        /\ SubSeq(s, 8 + 1, Len(s)) \in Seq(Nat)
        /\ SubSeq(s, 1, 8) = EncodeMeta(s[1], MetaOf(s)) \o Begun(0 + s[8], <<>>)
    BY <1>1, <2>1, MetaTaken
  <2>3. s' = SubSeq(s, 8 + 1, Len(s)) /\ block'.id = s[1] /\ block'.meta = MetaOf(s)
        /\ block'.listed = <<>> /\ block'.Exceptions = {}
        /\ block' = [id |-> s[1], meta |-> MetaOf(s), Exceptions |-> {}, listed |-> <<>>]
    BY <1>1 DEF Drop, MetaOf
  <2>4. TypeOK'
    <3>1. <<>> \in Seq(Seq(Nat)) /\ {} = Range(<<>>) /\ {} \in SUBSET Seq(Nat)
      BY DEF Range
    <3>2. block' \in [id : Nat, meta : Meta, Exceptions : SUBSET Seq(Nat), listed : Seq(Seq(Nat))]
      BY <2>2, <2>3, <3>1
    <3> QED
      BY <1>1, <2>1, <2>2, <2>3, <3>1, <3>2 DEF ReadInv, TypeOK
  <2>5. NotYet'
    BY <1>1, <2>1 DEF ReadInv, NotYet
  <2>6. Built'
    BY <1>1 DEF ReadInv, Built
  <2>7. InBlock' = SubSeq(s, 1, 8)
    <3>1. Len(block'.listed) + serials' = 0 + s[8]
      BY <1>1, <2>3
    <3>2. EachPrefixed(block'.listed) = <<>>
      BY <2>3, NothingListed
    <3> QED
      BY <2>2, <2>3, <3>1, <3>2 DEF InBlock
  <2>8. InBlocks' = InBlocks
    BY <1>1 DEF InBlocks
  <2>9. InBlocks \o s = (InBlocks \o SubSeq(s, 1, 8)) \o SubSeq(s, 8 + 1, Len(s))
    <3>1. InBlocks \in Seq(Nat)
      BY HeadTypes DEF ReadInv
    <3>2. \A n \in 0..Len(s) :
             InBlocks \o s = (InBlocks \o SubSeq(s, 1, n)) \o SubSeq(s, n + 1, Len(s))
      BY <2>1, <3>1, CellsConsume, ZenonT(30)
    <3> QED
      BY <2>2, <3>2
  <2>10. Divided'
    BY <1>1, <2>1, <2>3, <2>7, <2>8, <2>9 DEF Divided
  <2> QED
    BY <2>4, <2>5, <2>6, <2>10 DEF ReadInv
<1>2. CASE Refuse("malformed")
  BY <1>2, RefuseReads
<1> QED
  BY <1>1, <1>2 DEF ReadBlock

\* The set of a list with one more element.
LEMMA RangeAppend ==
  ASSUME NEW S, NEW w \in Seq(S), NEW e \in S
  PROVE  Range(Append(w, e)) = Range(w) \cup {e}
<1> DEFINE v == Append(w, e)
<1>1. DOMAIN w = 1..Len(w) /\ DOMAIN v = 1..(Len(w) + 1) /\ v[Len(w) + 1] = e
  OBVIOUS
<1>2. \A n \in 1..Len(w) : v[n] = w[n]
  OBVIOUS
<1>3. Len(w) \in Nat
  OBVIOUS
<1> HIDE DEF v
<1>4. \A n \in 1..(Len(w) + 1) : n \in 1..Len(w) \/ n = Len(w) + 1
  BY <1>3
<1>5. Len(w) + 1 \in 1..(Len(w) + 1) /\ \A n \in 1..Len(w) : n \in 1..(Len(w) + 1)
  BY <1>3
<1>6. Range(v) = Range(w) \cup {e}
  BY <1>1, <1>2, <1>4, <1>5 DEF Range
<1> QED
  BY <1>6 DEF v

\* One more exception has been read.
LEMMA ReadExceptionReads ==
  ASSUME ReadInv, ReadException
  PROVE  ReadInv'
<1>1. CASE /\ Has(1) /\ Has(1 + s[1])
           /\ block' = [block EXCEPT !.Exceptions = @ \cup {SubSeq(s, 2, 1 + s[1])},
                                     !.listed = Append(@, SubSeq(s, 2, 1 + s[1]))]
           /\ serials' = serials - 1
           /\ Drop(1 + s[1])
           /\ UNCHANGED <<from, input, pc, left, c, wire>>
  <2> DEFINE e == SubSeq(s, 2, 1 + s[1])
             w == block.listed
             n == 1 + s[1]
             M == EncodeMeta(block.id, block.meta)
  <2>1. s \in Seq(Nat) /\ pc = "exceptions" /\ serials \in Nat /\ serials > 0 /\ left > 0
        /\ block \in [id : Nat, meta : Meta, Exceptions : SUBSET Seq(Nat), listed : Seq(Seq(Nat))]
        /\ block.Exceptions = Range(w)
        /\ input = (InBlocks \o (M \o Begun(Len(w) + serials, EachPrefixed(w)))) \o s
    BY <1>1 DEF ReadException, ReadInv, TypeOK, Divided, InBlock
  <2>2. n \in 0..Len(s) /\ e \in Seq(Nat) /\ SubSeq(s, 1, n) = Prefixed(e)
        /\ s' = SubSeq(s, n + 1, Len(s)) /\ s' \in Seq(Nat)
    BY <1>1, <2>1, SeqTaken DEF Drop, Has
  <2> HIDE DEF e, n
  <2>3. block' = [block EXCEPT !.Exceptions = @ \cup {e}, !.listed = Append(@, e)]
    BY <1>1 DEF e
  <2>4. w \in Seq(Seq(Nat)) /\ block'.listed = Append(w, e) /\ block'.id = block.id
        /\ block'.meta = block.meta /\ block'.Exceptions = block.Exceptions \cup {e}
    BY <2>1, <2>3
  <2>5. TypeOK'
    <3>1. Append(w, e) \in Seq(Seq(Nat)) /\ block.Exceptions \cup {e} \in SUBSET Seq(Nat)
      BY <2>1, <2>2, <2>4
    <3>2. block' \in [id : Nat, meta : Meta, Exceptions : SUBSET Seq(Nat), listed : Seq(Seq(Nat))]
      BY <2>1, <2>3, <3>1
    <3>3. block'.Exceptions = Range(block'.listed)
      BY <2>1, <2>2, <2>4, RangeAppend
    <3>4. serials' = serials - 1
      BY <1>1
    <3>5. serials' \in Nat
      BY <2>1, <3>4
    <3> QED
      BY <1>1, <2>1, <2>2, <3>2, <3>3, <3>5 DEF ReadInv, TypeOK
  <2>6. NotYet'
    BY <1>1 DEF ReadInv, NotYet
  <2>7. Built'
    BY <1>1 DEF ReadInv, Built
  <2>8. EachPrefixed(w) \in Seq(Seq(Nat)) /\ Len(w) \in Nat
        /\ EachPrefixed(block'.listed) = Append(EachPrefixed(w), SubSeq(s, 1, n))
    <3>1. e \in Seq(Nat) /\ w \in Seq(Seq(Nat))
      BY <2>2, <2>4
    <3>2. EachPrefixed(w) \in Seq(Seq(Nat))
          /\ EachPrefixed(Append(w, e)) = Append(EachPrefixed(w), Prefixed(e))
      BY <3>1, PrefixedAppend
    <3> QED
      BY <2>2, <2>4, <3>1, <3>2
  <2>9. InBlocks \in Seq(Nat) /\ M \in Seq(Nat)
    <3>1. block.id \in Nat /\ block.meta \in Meta
      BY <2>1
    <3> QED
      BY <3>1, HeadTypes, MetaType DEF ReadInv
  <2>10. Len(w) + serials \in Nat
    BY <2>1, <2>8
  <2> DEFINE k == Len(w) + serials
             a == InBlocks
             b == Begun(k, EachPrefixed(w))
             d == Begun(k, Append(EachPrefixed(w), SubSeq(s, 1, n)))
  <2>11. b \in Seq(Nat) /\ d \in Seq(Nat)
    <3>1. SubSeq(s, 1, n) \in Seq(Nat)
      BY <2>2, PrefixedType
    <3>2. Append(EachPrefixed(w), SubSeq(s, 1, n)) \in Seq(Seq(Nat))
      BY <2>8, <3>1
    <3>3. <<>> \in Seq(Nat)
      OBVIOUS
    <3> QED
      BY <2>8, <2>10, <3>2, <3>3, BegunAppend
  <2>12. ((a \o M) \o b) \o s = ((a \o M) \o d) \o SubSeq(s, n + 1, Len(s))
    <3>1. a \o M \in Seq(Nat)
      BY <2>9
    <3>2. \A m \in 0..Len(s) :
             ((a \o M) \o Begun(k, EachPrefixed(w))) \o s
               = ((a \o M) \o Begun(k, Append(EachPrefixed(w), SubSeq(s, 1, m))))
                 \o SubSeq(s, m + 1, Len(s))
      BY <2>1, <2>8, <2>10, <3>1, ItemRead, ZenonT(30)
    <3> QED
      BY <2>2, <3>2
  <2> HIDE DEF a, b, d, M, k
  <2>13. (a \o M) \o b = a \o (M \o b) /\ (a \o M) \o d = a \o (M \o d)
    <3>1. a \in Seq(Nat) /\ M \in Seq(Nat) /\ b \in Seq(Nat) /\ d \in Seq(Nat)
      BY <2>9, <2>11 DEF a
    <3>2. (a \o M) \o b = a \o (M \o b)
      BY ONLY <3>1, SMTT(20)
    <3>3. (a \o M) \o d = a \o (M \o d)
      BY ONLY <3>1, SMTT(20)
    <3> QED
      BY <3>2, <3>3
  <2>14. InBlock' = M \o d /\ InBlocks' = a
    <3>1. Len(block'.listed) + serials' = k
      <4>1. Len(block'.listed) = Len(w) + 1
        BY <2>2, <2>4
      <4>2. serials' = serials - 1
        BY <1>1
      <4> QED
        BY <2>1, <2>8, <4>1, <4>2 DEF k
    <3>2. InBlock' = M \o d
      BY <2>4, <2>8, <3>1 DEF InBlock, M, d
    <3>3. InBlocks' = a
      BY <1>1 DEF InBlocks, a
    <3> QED
      BY <3>2, <3>3
  <2>15. input' = (InBlocks' \o InBlock') \o s'
    <3>1. input = (a \o (M \o b)) \o s
      BY <2>1 DEF a, M, b, k
    <3> QED
      BY <1>1, <2>2, <2>12, <2>13, <2>14, <3>1
  <2>16. Divided'
    BY <1>1, <2>1, <2>15 DEF Divided
  <2> QED
    BY <2>5, <2>6, <2>7, <2>16 DEF ReadInv
<1>2. CASE Refuse("malformed")
  BY <1>2, RefuseReads
<1> QED
  BY <1>1, <1>2 DEF ReadException

\* The block is complete, and its issuer is new.
LEMMA AddBlockReads ==
  ASSUME ReadInv, AddBlock
  PROVE  ReadInv'
<1>1. CASE /\ ~Duplicate(c.Blocks, block.id)
           /\ c' = [c EXCEPT !.Blocks = Add(@, block.id, [meta |-> block.meta,
                                                         Exceptions |-> block.Exceptions])]
           /\ wire' = [wire EXCEPT !.blocks = Append(@, [id |-> block.id, meta |-> block.meta,
                                                        exceptions |-> block.listed])]
           /\ left' = left - 1
           /\ pc' = "block"
           /\ block' = NoBlock
           /\ UNCHANGED <<from, input, s, serials>>
  <2> DEFINE e == [id |-> block.id, meta |-> block.meta, exceptions |-> block.listed]
             w == wire.blocks
  <2>1. s \in Seq(Nat) /\ pc = "exceptions" /\ serials = 0 /\ left \in Nat /\ left > 0
        /\ block \in [id : Nat, meta : Meta, Exceptions : SUBSET Seq(Nat), listed : Seq(Seq(Nat))]
        /\ block.Exceptions = Range(block.listed)
        /\ wire \in [coverage : Seq(Log), blocks : Seq(Block), X : Seq(Seq(Nat)), Y : Seq(Nat)]
        /\ input = (InBlocks \o InBlock) \o s
        /\ c = Meaning(wire) /\ Once(wire.coverage) /\ OnceIssuer(w)
    BY <1>1 DEF AddBlock, ReadInv, TypeOK, Divided, Built
  <2>2. e \in Block /\ e.id = block.id /\ e.meta = block.meta /\ e.exceptions = block.listed
    BY <2>1 DEF Block
  <2>3. wire' = [wire EXCEPT !.blocks = Append(w, e)]
    BY <1>1
  <2>4. EncodeBlock(e) = InBlock
    <3>1. block.listed \in Seq(Seq(Nat))
      BY <2>1
    <3>2. EachPrefixed(block.listed) \in Seq(Seq(Nat))
          /\ Len(EachPrefixed(block.listed)) = Len(block.listed) + serials
      BY <2>1, <3>1, EachPrefixedType
    <3> QED
      BY <2>2, <3>2, CountedType DEF EncodeBlock, InBlock
  <2> HIDE DEF e
  <2>5. w \in Seq(Block) /\ wire'.blocks = Append(w, e) /\ wire'.coverage = wire.coverage
        /\ wire'.X = wire.X /\ wire'.Y = wire.Y
    BY <2>1, <2>3
  <2>6. wire' \in [coverage : Seq(Log), blocks : Seq(Block), X : Seq(Seq(Nat)), Y : Seq(Nat)]
    <3>1. Append(w, e) \in Seq(Block)
      BY <2>2, <2>5
    <3> QED
      BY <2>1, <2>3, <3>1
  <2>7. TypeOK'
    <3>1. left' = left - 1
      BY <1>1
    <3>2. left' \in Nat
      BY <2>1, <3>1
    <3>3. pc' # "exceptions"
      BY <1>1
    <3> QED
      BY <1>1, <2>6, <3>2, <3>3 DEF ReadInv, TypeOK
  <2>8. NotYet'
    BY <1>1, <2>1, <2>5 DEF ReadInv, NotYet
  <2>9. c.Blocks = BlockMap(w) /\ e.id \notin DOMAIN BlockMap(w)
    BY <1>1, <2>1, <2>2 DEF Meaning, Duplicate
  <2>10. OnceIssuer(wire'.blocks)
         /\ BlockMap(wire'.blocks)
              = Add(BlockMap(w), e.id, [meta |-> e.meta, Exceptions |-> Range(e.exceptions)])
    BY <2>1, <2>2, <2>5, <2>9, BlockMapAppend
  <2>11. Built'
    <3>1. c'.Blocks = Add(c.Blocks, block.id, [meta |-> block.meta, Exceptions |-> block.Exceptions])
          /\ c'.coverage = c.coverage /\ c'.X = c.X /\ c'.Y = c.Y
      BY <1>1, <2>1 DEF Meaning
    <3>2. c'.Blocks = BlockMap(wire'.blocks)
      BY <2>1, <2>2, <2>9, <2>10, <3>1
    <3>3. c' = Meaning(wire')
      <4>1. c' = [c EXCEPT !.Blocks = BlockMap(wire'.blocks)]
        BY <1>1, <2>1, <3>1, <3>2 DEF Meaning
      <4> QED
        BY <2>1, <2>5, <4>1 DEF Meaning
    <3>4. /\ IsFiniteSet(DOMAIN c'.Blocks)
          /\ Cardinality(DOMAIN c'.Blocks) = Cardinality(DOMAIN c.Blocks) + 1
      BY <1>1, <3>1, AddKey DEF Duplicate, ReadInv, Built
    <3>5. Len(wire'.blocks) = Len(w) + 1
      BY <2>2, <2>5
    <3>6. pc' # "parsed"
      BY <1>1
    <3> QED
      BY <2>5, <2>10, <3>1, <3>3, <3>4, <3>5, <3>6 DEF ReadInv, Built
  <2>12. InBlocks' = InBlocks \o InBlock
    <3>1. EncodeBlocks(w) \in Seq(Seq(Nat)) /\ Len(w) \in Nat /\ EncodeBlock(e) \in Seq(Nat)
          /\ EncodeBlocks(wire'.blocks) = Append(EncodeBlocks(w), EncodeBlock(e))
      BY <2>2, <2>5, BlocksAppend, BlockType
    <3>2. Head2(wire) \in Seq(Nat)
      BY HeadTypes DEF ReadInv
    <3>3. Len(w) + left \in Nat
      BY <2>1, <3>1
    <3>4. (Head2(wire) \o Begun(Len(w) + left, EncodeBlocks(w))) \o EncodeBlock(e)
            = Head2(wire) \o Begun(Len(w) + left, Append(EncodeBlocks(w), EncodeBlock(e)))
      BY <3>1, <3>2, <3>3, BegunAppend
    <3>5. Len(wire'.blocks) + left' = Len(w) + left
      <4>1. Len(wire'.blocks) = Len(w) + 1
        BY <2>2, <2>5
      <4>2. left' = left - 1
        BY <1>1
      <4> QED
        BY <2>1, <3>1, <4>1, <4>2
    <3>6. Head2(wire)' = Head2(wire)
      BY <2>5 DEF Head2
    <3> QED
      BY <2>4, <3>1, <3>4, <3>5, <3>6 DEF InBlocks
  <2>13. Divided'
    BY <1>1, <2>1, <2>12 DEF Divided
  <2> QED
    BY <2>7, <2>8, <2>11, <2>13 DEF ReadInv
<1>2. CASE Refuse("malformed")
  BY <1>2, RefuseReads
<1> QED
  BY <1>1, <1>2 DEF AddBlock

\* Nothing has been read at first.
LEMMA InitReads == Init => ReadInv
<1> SUFFICES ASSUME Init PROVE ReadInv
  OBVIOUS
<1>1. from \in Contents /\ input \in Seq(Nat)
  BY ParserAssumption DEF Init
<1> DEFINE none == [coverage |-> <<>>, blocks |-> <<>>, X |-> <<>>, Y |-> <<>>]
<1>2. wire = none /\ c = Empty /\ pc = "version" /\ s = input /\ left = 0 /\ serials = 0
  BY DEF Init
<1>3. none.coverage = <<>> /\ none.blocks = <<>> /\ none.X = <<>> /\ none.Y = <<>>
  OBVIOUS
<1>4. /\ <<>> \in Seq(Log) /\ <<>> \in Seq(Block) /\ <<>> \in Seq(Seq(Nat)) /\ <<>> \in Seq(Nat)
      /\ Len(<<>>) = 0 /\ DOMAIN <<>> = {}
  OBVIOUS
<1>5. TypeOK
  BY <1>1, <1>2, <1>4 DEF TypeOK
<1>6. NotYet
  BY <1>2, <1>3 DEF NotYet
<1>7. Built
  <2>1. c = Meaning(wire)
    BY <1>2, <1>3, NothingListed DEF Meaning, Empty
  <2>2. Once(wire.coverage) /\ OnceIssuer(wire.blocks)
    BY <1>2, <1>3, <1>4 DEF Once, OnceIssuer
  <2>3. c.coverage = <<>> /\ c.Blocks = <<>>
    BY <1>2 DEF Empty
  <2>4. IsFiniteSet({}) /\ Cardinality({}) = 0
    BY FS_EmptySet
  <2>5. Len(wire.coverage) = 0 /\ Len(wire.blocks) = 0
    BY <1>2, <1>3, <1>4
  <2>6. /\ IsFiniteSet(DOMAIN c.coverage) /\ Cardinality(DOMAIN c.coverage) = Len(wire.coverage)
        /\ IsFiniteSet(DOMAIN c.Blocks) /\ Cardinality(DOMAIN c.Blocks) = Len(wire.blocks)
    BY <1>4, <2>3, <2>4, <2>5
  <2> QED
    BY <1>2, <2>1, <2>2, <2>6 DEF Built
<1>8. Divided
  BY <1>2 DEF Divided
<1> QED
  BY <1>5, <1>6, <1>7, <1>8 DEF ReadInv

\* Every step keeps the invariant.
LEMMA NextReads == ReadInv /\ [Next]_vars => ReadInv'
<1> SUFFICES ASSUME ReadInv, [Next]_vars PROVE ReadInv'
  OBVIOUS
<1>1. CASE ReadVersion
  BY <1>1, ReadVersionReads
<1>2. CASE ReadCount("coverage", coverageEntrySize, "log")
  BY <1>2, ReadCoverageCountReads
<1>3. CASE ReadCoverage
  BY <1>3, ReadCoverageReads
<1>4. CASE ReadCount("index", minIndexEntrySize, "block")
  BY <1>4, ReadIndexCountReads
<1>5. CASE ReadBlock
  BY <1>5, ReadBlockReads
<1>6. CASE ReadException
  BY <1>6, ReadExceptionReads
<1>7. CASE AddBlock
  BY <1>7, AddBlockReads
<1>8. CASE ReadColumnCount
  BY <1>8, ReadColumnCountReads
<1>9. CASE ReadColumn
  BY <1>9, ReadColumnReads
<1>10. CASE Leave("log", "index") \/ Leave("block", "columns") \/ Leave("column", "exact")
  BY <1>10, LeaveReads
<1>11. CASE ReadExact
  BY <1>11, ReadExactReads
<1>12. CASE UNCHANGED vars
  <2>1. TypeOK' /\ NotYet' /\ Built'
    BY <1>12 DEF vars, ReadInv, TypeOK, NotYet, Built
  <2>2. InLogs' = InLogs /\ InBlocks' = InBlocks /\ InBlock' = InBlock /\ InColumns' = InColumns
    BY <1>12 DEF vars, InLogs, InBlocks, InBlock, InColumns
  <2>3. Divided'
    BY <1>12, <2>2 DEF vars, ReadInv, Divided
  <2> QED
    BY <2>1, <2>3 DEF ReadInv
<1> QED
  BY <1>1, <1>2, <1>3, <1>4, <1>5, <1>6, <1>7, <1>8, <1>9, <1>10, <1>11, <1>12 DEF Next

\* A parsed input is, cell for cell, the encoding of what was read, and the
\* filter is what that encoding means: for every input, however long.
THEOREM ParsedFaithfully == Spec => []ParsedIsFaithful
<1>1. ReadInv => ParsedIsFaithful
  BY DEF ReadInv, Divided, Built, ParsedIsFaithful, validateBlocks
<1> QED
  BY <1>1, InitReads, NextReads, PTL DEF Spec

-----------------------------------------------------------------------------
(* An intact encoding: what is ahead of the parser is the rest of it.      *)

\* The encoding after its version, its coverage, its blocks and its columns.
Rest3(f) == Prefixed(f.Y)
Rest2(f) == Counted(EachPrefixed(f.X)) \o Rest3(f)
Rest1(f) == Counted(EncodeBlocks(f.blocks)) \o Rest2(f)
Rest0(f) == Counted(EncodeLogs(f.coverage)) \o Rest1(f)

AheadAt ==
    /\ ~Refused
    /\ pc = "version" => s = <<4, 0>> \o Rest0(from)
    /\ pc = "coverage" => s = Rest0(from)
    /\ pc = "log" => \E r \in Seq(Log) :
          /\ from.coverage = wire.coverage \o r /\ left = Len(r)
          /\ s = SX!FlattenSeq(EncodeLogs(r)) \o Rest1(from)
    /\ pc \in {"index", "block", "exceptions", "columns", "column", "exact", "parsed"} =>
          wire.coverage = from.coverage
    /\ pc = "index" => s = Rest1(from)
    /\ pc = "block" => \E r \in Seq(Block) :
          /\ from.blocks = wire.blocks \o r /\ left = Len(r)
          /\ s = SX!FlattenSeq(EncodeBlocks(r)) \o Rest2(from)
    /\ pc = "exceptions" => \E r \in Seq(Block), e \in Block, es \in Seq(Seq(Nat)) :
          /\ from.blocks = Append(wire.blocks, e) \o r /\ left = Len(r) + 1
          /\ block.id = e.id /\ block.meta = e.meta
          /\ e.exceptions = block.listed \o es /\ serials = Len(es)
          /\ s = SX!FlattenSeq(EachPrefixed(es))
                 \o (SX!FlattenSeq(EncodeBlocks(r)) \o Rest2(from))
    /\ pc \in {"columns", "column", "exact", "parsed"} => wire.blocks = from.blocks
    /\ pc = "columns" => s = Rest2(from)
    /\ pc = "column" => \E r \in Seq(Seq(Nat)) :
          /\ from.X = wire.X \o r /\ left = Len(r)
          /\ s = SX!FlattenSeq(EachPrefixed(r)) \o Rest3(from)
    /\ pc \in {"exact", "parsed"} => wire.X = from.X
    /\ pc = "exact" => s = Rest3(from)
    /\ pc = "parsed" => wire.Y = from.Y

Ahead == input = Layout(from) => AheadAt

\* The next coverage entry and the ones after it.
LEMMA LogsTail ==
  ASSUME NEW r \in Seq(Log), r # <<>>
  PROVE  /\ EncodeLogs(r) \in Seq(Seq(Nat)) /\ EncodeLogs(r) # <<>>
         /\ Head(EncodeLogs(r)) = <<Head(r).log, Head(r).low, Head(r).high>>
         /\ Tail(EncodeLogs(r)) = EncodeLogs(Tail(r)) /\ EncodeLogs(Tail(r)) \in Seq(Seq(Nat))
<1>1. Head(r) = r[1] /\ Tail(r) \in Seq(Log) /\ Len(r) \in Nat \ {0}
      /\ Len(Tail(r)) = Len(r) - 1 /\ \A n \in 1..(Len(r) - 1) : Tail(r)[n] = r[n + 1]
  OBVIOUS
<1> DEFINE a == EncodeLogs(r)
           b == EncodeLogs(Tail(r))
<1>2. a \in Seq(Seq(Nat)) /\ Len(a) = Len(r)
      /\ \A n \in 1..Len(r) : a[n] = <<r[n].log, r[n].low, r[n].high>>
  BY LogsType
<1>3. b \in Seq(Seq(Nat)) /\ Len(b) = Len(r) - 1
      /\ \A n \in 1..(Len(r) - 1) : b[n] = <<Tail(r)[n].log, Tail(r)[n].low, Tail(r)[n].high>>
  BY <1>1, LogsType
<1> HIDE DEF a, b
<1>4. a # <<>> /\ Head(a) = a[1] /\ Tail(a) \in Seq(Seq(Nat)) /\ Len(Tail(a)) = Len(r) - 1
      /\ \A n \in 1..(Len(r) - 1) : Tail(a)[n] = a[n + 1]
  BY <1>1, <1>2
<1>5. Head(a) = <<Head(r).log, Head(r).low, Head(r).high>>
  BY <1>1, <1>2, <1>4
<1>6. ASSUME NEW n \in 1..(Len(r) - 1) PROVE Tail(a)[n] = b[n]
  <2>1. n + 1 \in 1..Len(r)
    BY <1>1
  <2> QED
    BY <1>1, <1>2, <1>3, <1>4, <2>1
<1>7. Tail(a) = b
  <2> DEFINE u == Tail(a)
  <2>1. u \in Seq(Seq(Nat)) /\ b \in Seq(Seq(Nat)) /\ Len(u) = Len(b)
        /\ \A n \in 1..Len(u) : u[n] = b[n]
    BY <1>3, <1>4, <1>6
  <2> HIDE DEF u
  <2>2. u = b
    BY ONLY <2>1, SeqEqual
  <2> QED
    BY <2>2 DEF u
<1> QED
  BY <1>2, <1>3, <1>4, <1>5, <1>7 DEF a, b

\* The next column or exception and the ones after it.
LEMMA PrefixedTail ==
  ASSUME NEW r \in Seq(Seq(Nat)), r # <<>>
  PROVE  /\ EachPrefixed(r) \in Seq(Seq(Nat)) /\ EachPrefixed(r) # <<>>
         /\ Head(EachPrefixed(r)) = Prefixed(Head(r))
         /\ Tail(EachPrefixed(r)) = EachPrefixed(Tail(r)) /\ EachPrefixed(Tail(r)) \in Seq(Seq(Nat))
<1>1. Head(r) = r[1] /\ Tail(r) \in Seq(Seq(Nat)) /\ Len(r) \in Nat \ {0}
      /\ Len(Tail(r)) = Len(r) - 1 /\ \A n \in 1..(Len(r) - 1) : Tail(r)[n] = r[n + 1]
  OBVIOUS
<1> DEFINE a == EachPrefixed(r)
           b == EachPrefixed(Tail(r))
<1>2. a \in Seq(Seq(Nat)) /\ Len(a) = Len(r)
      /\ \A n \in 1..Len(r) : a[n] = Prefixed(r[n])
  BY EachPrefixedType
<1>3. b \in Seq(Seq(Nat)) /\ Len(b) = Len(r) - 1
      /\ \A n \in 1..(Len(r) - 1) : b[n] = Prefixed(Tail(r)[n])
  BY <1>1, EachPrefixedType
<1> HIDE DEF a, b
<1>4. a # <<>> /\ Head(a) = a[1] /\ Tail(a) \in Seq(Seq(Nat)) /\ Len(Tail(a)) = Len(r) - 1
      /\ \A n \in 1..(Len(r) - 1) : Tail(a)[n] = a[n + 1]
  BY <1>1, <1>2
<1>5. Head(a) = Prefixed(Head(r))
  BY <1>1, <1>2, <1>4
<1>6. ASSUME NEW n \in 1..(Len(r) - 1) PROVE Tail(a)[n] = b[n]
  <2>1. n + 1 \in 1..Len(r)
    BY <1>1
  <2> QED
    BY <1>1, <1>2, <1>3, <1>4, <2>1
<1>7. Tail(a) = b
  <2> DEFINE u == Tail(a)
  <2>1. u \in Seq(Seq(Nat)) /\ b \in Seq(Seq(Nat)) /\ Len(u) = Len(b)
        /\ \A n \in 1..Len(u) : u[n] = b[n]
    BY <1>3, <1>4, <1>6
  <2> HIDE DEF u
  <2>2. u = b
    BY ONLY <2>1, SeqEqual
  <2> QED
    BY <2>2 DEF u
<1> QED
  BY <1>2, <1>3, <1>4, <1>5, <1>7 DEF a, b

\* The next block and the ones after it.
LEMMA BlocksTail ==
  ASSUME NEW r \in Seq(Block), r # <<>>
  PROVE  /\ EncodeBlocks(r) \in Seq(Seq(Nat)) /\ EncodeBlocks(r) # <<>>
         /\ Head(EncodeBlocks(r)) = EncodeBlock(Head(r))
         /\ Tail(EncodeBlocks(r)) = EncodeBlocks(Tail(r)) /\ EncodeBlocks(Tail(r)) \in Seq(Seq(Nat))
<1>1. Head(r) = r[1] /\ Tail(r) \in Seq(Block) /\ Len(r) \in Nat \ {0}
      /\ Len(Tail(r)) = Len(r) - 1 /\ \A n \in 1..(Len(r) - 1) : Tail(r)[n] = r[n + 1]
  OBVIOUS
<1> DEFINE a == EncodeBlocks(r)
           b == EncodeBlocks(Tail(r))
<1>2. a \in Seq(Seq(Nat)) /\ Len(a) = Len(r)
      /\ \A n \in 1..Len(r) : a[n] = EncodeBlock(r[n])
  BY BlocksType
<1>3. b \in Seq(Seq(Nat)) /\ Len(b) = Len(r) - 1
      /\ \A n \in 1..(Len(r) - 1) : b[n] = EncodeBlock(Tail(r)[n])
  BY <1>1, BlocksType
<1> HIDE DEF a, b
<1>4. a # <<>> /\ Head(a) = a[1] /\ Tail(a) \in Seq(Seq(Nat)) /\ Len(Tail(a)) = Len(r) - 1
      /\ \A n \in 1..(Len(r) - 1) : Tail(a)[n] = a[n + 1]
  BY <1>1, <1>2
<1>5. Head(a) = EncodeBlock(Head(r))
  BY <1>1, <1>2, <1>4
<1>6. ASSUME NEW n \in 1..(Len(r) - 1) PROVE Tail(a)[n] = b[n]
  <2>1. n + 1 \in 1..Len(r)
    BY <1>1
  <2> QED
    BY <1>1, <1>2, <1>3, <1>4, <2>1
<1>7. Tail(a) = b
  <2> DEFINE u == Tail(a)
  <2>1. u \in Seq(Seq(Nat)) /\ b \in Seq(Seq(Nat)) /\ Len(u) = Len(b)
        /\ \A n \in 1..Len(u) : u[n] = b[n]
    BY <1>3, <1>4, <1>6
  <2> HIDE DEF u
  <2>2. u = b
    BY ONLY <2>1, SeqEqual
  <2> QED
    BY <2>2 DEF u
<1> QED
  BY <1>2, <1>3, <1>4, <1>5, <1>7 DEF a, b

\* What is to come is a list of cells.
LEMMA RestTypes ==
  ASSUME TypeOK
  PROVE  /\ Encodable(from)
         /\ EncodeLogs(from.coverage) \in Seq(Seq(Nat))
         /\ EncodeBlocks(from.blocks) \in Seq(Seq(Nat))
         /\ EachPrefixed(from.X) \in Seq(Seq(Nat))
         /\ Rest0(from) \in Seq(Nat) /\ Rest1(from) \in Seq(Nat)
         /\ Rest2(from) \in Seq(Nat) /\ Rest3(from) \in Seq(Nat)
         /\ Layout(from) = <<4, 0>> \o Rest0(from)
<1>1. Encodable(from)
  BY ParserAssumption DEF TypeOK
<1>2. /\ EncodeLogs(from.coverage) \in Seq(Seq(Nat))
      /\ EncodeBlocks(from.blocks) \in Seq(Seq(Nat))
      /\ EachPrefixed(from.X) \in Seq(Seq(Nat))
  BY <1>1, LogsType, BlocksType, EachPrefixedType DEF Encodable
<1> DEFINE h == <<4, 0>>
           a == Counted(EncodeLogs(from.coverage))
           b == Counted(EncodeBlocks(from.blocks))
           d == Counted(EachPrefixed(from.X))
           e == Prefixed(from.Y)
<1>3. h \in Seq(Nat)
  OBVIOUS
<1>4. a \in Seq(Nat) /\ b \in Seq(Nat) /\ d \in Seq(Nat)
  BY <1>2, CountedType
<1>5. e \in Seq(Nat)
  BY <1>1, PrefixedType DEF Encodable
<1>6. Layout(from) = (((h \o a) \o b) \o d) \o e
  BY DEF Layout
<1>7. /\ Rest3(from) = e /\ Rest2(from) = d \o e /\ Rest1(from) = b \o (d \o e)
      /\ Rest0(from) = a \o (b \o (d \o e))
  BY DEF Rest0, Rest1, Rest2, Rest3
<1> HIDE DEF h, a, b, d, e
<1>8. d \o e \in Seq(Nat)
  BY <1>4, <1>5
<1>9. b \o (d \o e) \in Seq(Nat)
  BY <1>4, <1>8
<1>10. a \o (b \o (d \o e)) \in Seq(Nat)
  BY <1>4, <1>9
<1>11. (((h \o a) \o b) \o d) \o e = h \o (a \o (b \o (d \o e)))
  <2>1. ASSUME NEW x \in Seq(Nat), NEW y \in Seq(Nat), NEW z \in Seq(Nat)
        PROVE  (x \o y) \o z = x \o (y \o z)
    BY CellsAssociative, ZenonT(30)
  <2>2. h \o a \in Seq(Nat)
    BY <1>3, <1>4
  <2>3. (h \o a) \o b \in Seq(Nat)
    BY <1>4, <2>2
  <2>4. (((h \o a) \o b) \o d) \o e = ((h \o a) \o b) \o (d \o e)
    BY <1>4, <1>5, <2>1, <2>3
  <2>5. ((h \o a) \o b) \o (d \o e) = (h \o a) \o (b \o (d \o e))
    BY <1>4, <1>8, <2>1, <2>2
  <2>6. (h \o a) \o (b \o (d \o e)) = h \o (a \o (b \o (d \o e)))
    BY <1>3, <1>4, <1>9, <2>1
  <2> QED
    BY <2>4, <2>5, <2>6
<1> QED
  BY <1>1, <1>2, <1>5, <1>6, <1>7, <1>8, <1>9, <1>10, <1>11 DEF h

\* The version passes.
LEMMA ReadVersionAhead ==
  ASSUME ReadInv, AheadAt, ReadVersion
  PROVE  AheadAt'
<1> DEFINE h == <<4, 0>>
           u == Rest0(from)
<1>1. pc = "version" /\ s = h \o u /\ u \in Seq(Nat)
  BY RestTypes DEF ReadVersion, AheadAt, ReadInv
<1>2. h \in Seq(Nat) /\ Len(h) = 2 /\ h[1] = 4 /\ h[2] = 0
  OBVIOUS
<1> HIDE DEF h, u
<1>3. /\ Len(h \o u) = Len(h) + Len(u)
      /\ SubSeq(h \o u, Len(h) + 1, Len(h \o u)) = u
      /\ \A i \in 1..Len(h) : (h \o u)[i] = h[i]
  <2>1. h \in Seq(Nat) /\ u \in Seq(Nat)
    BY <1>1, <1>2
  <2> QED
    BY ONLY <2>1, AfterConcat
<1>4. Len(u) \in Nat
  BY <1>1
<1>5. Len(s) >= 2 /\ SubSeq(s, 2 + 1, Len(s)) = u /\ s[1] = 4 /\ s[2] = 0
  BY ONLY <1>1, <1>2, <1>3, <1>4
<1>6. s' = u /\ pc' = "coverage" /\ UNCHANGED <<from, input, left, serials, block, c, wire>>
  BY <1>5 DEF ReadVersion, Has, Drop
<1> QED
  BY <1>6 DEF AheadAt, Refused, u

\* The number of coverage entries passes the test against what is left.
LEMMA ReadCoverageCountAhead ==
  ASSUME ReadInv, AheadAt, ReadCount("coverage", coverageEntrySize, "log")
  PROVE  AheadAt'
<1> DEFINE ss == EncodeLogs(from.coverage)
           u == Rest1(from)
<1>1. pc = "coverage" /\ s = Rest0(from) /\ u \in Seq(Nat) /\ ss \in Seq(Seq(Nat))
      /\ wire.coverage = <<>> /\ from.coverage \in Seq(Log)
  BY RestTypes DEF ReadCount, AheadAt, ReadInv, NotYet, Encodable
<1>2. s = (<<Len(ss)>> \o SX!FlattenSeq(ss)) \o u
  BY <1>1 DEF Rest0, Counted
<1>3. Len(ss) = Len(from.coverage) /\ \A i \in 1..Len(ss) : Len(ss[i]) >= 3
  <2>1. Len(ss) = Len(from.coverage)
        /\ \A i \in 1..Len(from.coverage) :
              ss[i] = <<from.coverage[i].log, from.coverage[i].low, from.coverage[i].high>>
    BY <1>1, LogsType
  <2>2. \A x, y, z : Len(<<x, y, z>>) >= 3
    OBVIOUS
  <2> HIDE DEF ss
  <2> QED
    BY <2>1, <2>2
<1>4. from.coverage = <<>> \o from.coverage
  BY <1>1
<1> HIDE DEF ss, u
<1>5. /\ Len(s) >= 1 /\ s[1] = Len(ss)
      /\ SubSeq(s, 1 + 1, Len(s)) = SX!FlattenSeq(ss) \o u
      /\ s[1] * 3 <= Len(s) - 1
  BY <1>1, <1>2, <1>3, CountAhead, ZenonT(30)
<1>6. Has(1) /\ Fits(s[1], coverageEntrySize)
  BY <1>5 DEF Has, Fits, coverageEntrySize
<1>7. s' = SubSeq(s, 1 + 1, Len(s)) /\ pc' = "log" /\ left' = s[1]
      /\ UNCHANGED <<from, input, serials, block, c, wire>>
  BY <1>6 DEF ReadCount, Drop
<1>8. \E r \in Seq(Log) : /\ from'.coverage = wire'.coverage \o r /\ left' = Len(r)
                          /\ s' = SX!FlattenSeq(EncodeLogs(r)) \o Rest1(from')
  <2>1. /\ from'.coverage \in Seq(Log) /\ from'.coverage = wire'.coverage \o from'.coverage
        /\ left' = Len(from'.coverage)
        /\ s' = SX!FlattenSeq(EncodeLogs(from'.coverage)) \o Rest1(from')
    BY <1>1, <1>3, <1>4, <1>5, <1>7 DEF ss, u
  <2> QED
    BY <2>1
<1> QED
  BY <1>7, <1>8 DEF AheadAt, Refused

\* So does the number of blocks.
LEMMA ReadIndexCountAhead ==
  ASSUME ReadInv, AheadAt, ReadCount("index", minIndexEntrySize, "block")
  PROVE  AheadAt'
<1> DEFINE ss == EncodeBlocks(from.blocks)
           u == Rest2(from)
<1>1. pc = "index" /\ s = Rest1(from) /\ u \in Seq(Nat) /\ ss \in Seq(Seq(Nat))
      /\ wire.blocks = <<>> /\ from.blocks \in Seq(Block) /\ wire.coverage = from.coverage
  BY RestTypes DEF ReadCount, AheadAt, ReadInv, NotYet, Encodable
<1>2. s = (<<Len(ss)>> \o SX!FlattenSeq(ss)) \o u
  BY <1>1 DEF Rest1, Counted
<1>3. Len(ss) = Len(from.blocks) /\ \A i \in 1..Len(ss) : Len(ss[i]) >= 8
  <2>1. Len(ss) = Len(from.blocks)
        /\ \A i \in 1..Len(from.blocks) : ss[i] = EncodeBlock(from.blocks[i])
    BY <1>1, BlocksType
  <2>2. \A i \in 1..Len(from.blocks) : from.blocks[i] \in Block
    BY <1>1
  <2> QED
    BY <2>1, <2>2, BlockType
<1>4. from.blocks = <<>> \o from.blocks
  BY <1>1
<1> HIDE DEF ss, u
<1>5. /\ Len(s) >= 1 /\ s[1] = Len(ss)
      /\ SubSeq(s, 1 + 1, Len(s)) = SX!FlattenSeq(ss) \o u
      /\ s[1] * 8 <= Len(s) - 1
  BY <1>1, <1>2, <1>3, CountAhead, ZenonT(30)
<1>6. Has(1) /\ Fits(s[1], minIndexEntrySize)
  BY <1>5 DEF Has, Fits, minIndexEntrySize
<1>7. s' = SubSeq(s, 1 + 1, Len(s)) /\ pc' = "block" /\ left' = s[1]
      /\ UNCHANGED <<from, input, serials, block, c, wire>>
  BY <1>6 DEF ReadCount, Drop
<1>8. \E r \in Seq(Block) : /\ from'.blocks = wire'.blocks \o r /\ left' = Len(r)
                            /\ s' = SX!FlattenSeq(EncodeBlocks(r)) \o Rest2(from')
  <2>1. /\ from'.blocks \in Seq(Block) /\ from'.blocks = wire'.blocks \o from'.blocks
        /\ left' = Len(from'.blocks)
        /\ s' = SX!FlattenSeq(EncodeBlocks(from'.blocks)) \o Rest2(from')
    BY <1>1, <1>3, <1>4, <1>5, <1>7 DEF ss, u
  <2> QED
    BY <2>1
<1> QED
  BY <1>1, <1>7, <1>8 DEF AheadAt, Refused

\* The number of columns is there.
LEMMA ReadColumnCountAhead ==
  ASSUME ReadInv, AheadAt, ReadColumnCount
  PROVE  AheadAt'
<1> DEFINE ss == EachPrefixed(from.X)
           u == Rest3(from)
<1>1. pc = "columns" /\ s = Rest2(from) /\ u \in Seq(Nat) /\ ss \in Seq(Seq(Nat))
      /\ wire.X = <<>> /\ from.X \in Seq(Seq(Nat))
      /\ wire.coverage = from.coverage /\ wire.blocks = from.blocks
  BY RestTypes DEF ReadColumnCount, AheadAt, ReadInv, NotYet, Encodable
<1>2. s = (<<Len(ss)>> \o SX!FlattenSeq(ss)) \o u
  BY <1>1 DEF Rest2, Counted
<1>3. Len(ss) = Len(from.X)
  BY <1>1, EachPrefixedType
<1>4. from.X = <<>> \o from.X
  BY <1>1
<1> HIDE DEF ss, u
<1>5. /\ Len(s) >= 1 /\ s[1] = Len(ss)
      /\ SubSeq(s, 1 + 1, Len(s)) = SX!FlattenSeq(ss) \o u
  BY <1>1, <1>2, CountAhead
<1>6. Has(1)
  BY <1>5 DEF Has
<1>7. s' = SubSeq(s, 1 + 1, Len(s)) /\ pc' = "column" /\ left' = s[1]
      /\ UNCHANGED <<from, input, serials, block, c, wire>>
  BY <1>6 DEF ReadColumnCount, Drop
<1>8. \E r \in Seq(Seq(Nat)) : /\ from'.X = wire'.X \o r /\ left' = Len(r)
                               /\ s' = SX!FlattenSeq(EachPrefixed(r)) \o Rest3(from')
  <2>1. /\ from'.X \in Seq(Seq(Nat)) /\ from'.X = wire'.X \o from'.X
        /\ left' = Len(from'.X)
        /\ s' = SX!FlattenSeq(EachPrefixed(from'.X)) \o Rest3(from')
    BY <1>1, <1>3, <1>4, <1>5, <1>7 DEF ss, u
  <2> QED
    BY <2>1
<1> QED
  BY <1>1, <1>7, <1>8 DEF AheadAt, Refused

\* After a loop the next part is ahead.
LEMMA LeaveAhead ==
  ASSUME ReadInv, AheadAt,
         Leave("log", "index") \/ Leave("block", "columns") \/ Leave("column", "exact")
  PROVE  AheadAt'
<1>1. left = 0 /\ UNCHANGED <<from, input, s, left, serials, block, c, wire>>
  BY DEF Leave
<1>2. /\ wire.coverage \in Seq(Log) /\ wire.blocks \in Seq(Block) /\ wire.X \in Seq(Seq(Nat))
      /\ Rest1(from) \in Seq(Nat) /\ Rest2(from) \in Seq(Nat) /\ Rest3(from) \in Seq(Nat)
  BY RestTypes DEF ReadInv, TypeOK
<1>3. CASE Leave("log", "index")
  <2>1. pc = "log" /\ pc' = "index"
    BY <1>3 DEF Leave
  <2>2. PICK r \in Seq(Log) : /\ from.coverage = wire.coverage \o r /\ left = Len(r)
                              /\ s = SX!FlattenSeq(EncodeLogs(r)) \o Rest1(from)
    BY <2>1 DEF AheadAt
  <2>3. r = <<>>
    BY <1>1, <2>2
  <2>4. wire.coverage \o <<>> = wire.coverage /\ <<>> \o Rest1(from) = Rest1(from)
    BY <1>2
  <2>5. wire.coverage = from.coverage /\ s = Rest1(from)
    BY <2>2, <2>3, <2>4, NothingListed, FlattenEmpty
  <2> QED
    BY <1>1, <2>1, <2>5 DEF AheadAt, Refused
<1>4. CASE Leave("block", "columns")
  <2>1. pc = "block" /\ pc' = "columns"
    BY <1>4 DEF Leave
  <2>2. PICK r \in Seq(Block) : /\ from.blocks = wire.blocks \o r /\ left = Len(r)
                                /\ s = SX!FlattenSeq(EncodeBlocks(r)) \o Rest2(from)
    BY <2>1 DEF AheadAt
  <2>3. r = <<>>
    BY <1>1, <2>2
  <2>4. wire.blocks \o <<>> = wire.blocks /\ <<>> \o Rest2(from) = Rest2(from)
    BY <1>2
  <2>5. wire.blocks = from.blocks /\ s = Rest2(from)
    BY <2>2, <2>3, <2>4, NothingListed, FlattenEmpty
  <2> QED
    BY <1>1, <2>1, <2>5 DEF AheadAt, Refused
<1>5. CASE Leave("column", "exact")
  <2>1. pc = "column" /\ pc' = "exact"
    BY <1>5 DEF Leave
  <2>2. PICK r \in Seq(Seq(Nat)) : /\ from.X = wire.X \o r /\ left = Len(r)
                                   /\ s = SX!FlattenSeq(EachPrefixed(r)) \o Rest3(from)
    BY <2>1 DEF AheadAt
  <2>3. r = <<>>
    BY <1>1, <2>2
  <2>4. wire.X \o <<>> = wire.X /\ <<>> \o Rest3(from) = Rest3(from)
    BY <1>2
  <2>5. wire.X = from.X /\ s = Rest3(from)
    BY <2>2, <2>3, <2>4, NothingListed, FlattenEmpty
  <2> QED
    BY <1>1, <2>1, <2>5 DEF AheadAt, Refused
<1> QED
  BY <1>3, <1>4, <1>5

\* The next coverage entry is read and not refused.
LEMMA ReadCoverageAhead ==
  ASSUME ReadInv, AheadAt, ReadCoverage
  PROVE  AheadAt'
<1> DEFINE w == wire.coverage
           u == Rest1(from)
<1>1. pc = "log" /\ left > 0 /\ w \in Seq(Log) /\ u \in Seq(Nat) /\ Encodable(from)
      /\ c = Meaning(wire) /\ s \in Seq(Nat)
      /\ wire \in [coverage : Seq(Log), blocks : Seq(Block), X : Seq(Seq(Nat)), Y : Seq(Nat)]
  BY RestTypes DEF ReadCoverage, ReadInv, TypeOK, Built
<1>2. PICK r \in Seq(Log) : /\ from.coverage = w \o r /\ left = Len(r)
                            /\ s = SX!FlattenSeq(EncodeLogs(r)) \o u
  BY <1>1 DEF AheadAt
<1>3. r # <<>>
  BY <1>1, <1>2
<1> DEFINE e == Head(r)
           x == <<e.log, e.low, e.high>>
<1>4. e \in Log /\ Tail(r) \in Seq(Log) /\ Len(Tail(r)) = left - 1 /\ left \in Nat
      /\ from.coverage = Append(w, e) \o Tail(r)
  <2>1. left \in Nat
    BY DEF ReadInv, TypeOK
  <2>2. Head(r) \in Log /\ Tail(r) \in Seq(Log) /\ Len(Tail(r)) = Len(r) - 1
        /\ w \o r = Append(w, Head(r)) \o Tail(r)
    BY <1>1, <1>3, MoveHead
  <2> QED
    BY <1>2, <2>1, <2>2
<1>5. /\ EncodeLogs(r) \in Seq(Seq(Nat)) /\ EncodeLogs(r) # <<>>
      /\ Head(EncodeLogs(r)) = x /\ Tail(EncodeLogs(r)) = EncodeLogs(Tail(r))
  BY <1>3, LogsTail
<1>6. Len(x) = 3 /\ x[1] = e.log /\ x[2] = e.low /\ x[3] = e.high
  OBVIOUS
<1> HIDE DEF w, u, e, x
<1>7. /\ Len(s) >= Len(x) /\ \A i \in 1..Len(x) : s[i] = x[i]
      /\ SubSeq(s, Len(x) + 1, Len(s)) = SX!FlattenSeq(EncodeLogs(Tail(r))) \o u
  <2> DEFINE ss == EncodeLogs(r)
  <2>1. ss \in Seq(Seq(Nat)) /\ ss # <<>> /\ u \in Seq(Nat) /\ s = SX!FlattenSeq(ss) \o u
    BY <1>1, <1>2, <1>5
  <2> HIDE DEF ss
  <2>2. /\ Len(s) >= Len(Head(ss)) /\ \A i \in 1..Len(Head(ss)) : s[i] = Head(ss)[i]
        /\ SubSeq(s, Len(Head(ss)) + 1, Len(s)) = SX!FlattenSeq(Tail(ss)) \o u
    BY <2>1, ItemAhead
  <2>3. Head(ss) = x /\ Tail(ss) = EncodeLogs(Tail(r))
    BY <1>5 DEF ss
  <2> QED
    BY ONLY <2>2, <2>3
<1>8. /\ Len(s) >= 3 /\ s[1] = e.log /\ s[2] = e.low /\ s[3] = e.high
      /\ SubSeq(s, 3 + 1, Len(s)) = SX!FlattenSeq(EncodeLogs(Tail(r))) \o u
  BY ONLY <1>6, <1>7, SMTT(20)
<1>9. e.log \notin DOMAIN Intervals(w)
  <2>1. SUFFICES ASSUME NEW n \in 1..Len(w), w[n].log = e.log PROVE FALSE
    BY DEF Intervals
  <2>2. w \in Seq(Log) /\ Append(w, e) \in Seq(Log) /\ Len(Append(w, e)) = Len(w) + 1
        /\ Append(w, e)[Len(w) + 1] = e /\ Append(w, e)[n] = w[n]
    BY <1>1, <1>4
  <2>3. Len(w) \in Nat /\ n \in 1..(Len(w) + 1) /\ Len(w) + 1 \in 1..(Len(w) + 1)
    BY <2>2
  <2>4. /\ n \in 1..Len(from.coverage) /\ Len(w) + 1 \in 1..Len(from.coverage)
        /\ from.coverage[n] = w[n] /\ from.coverage[Len(w) + 1] = e
    <3> DEFINE v == Append(w, e)
    <3>1. v \in Seq(Log) /\ Len(v) = Len(w) + 1 /\ v[Len(w) + 1] = e /\ v[n] = w[n]
      BY <2>2
    <3> HIDE DEF v
    <3>2. \A i \in 1..Len(v) : (v \o Tail(r))[i] = v[i] /\ i \in 1..Len(v \o Tail(r))
      BY <1>4, <3>1, ConcatElements
    <3> QED
      BY <1>4, <2>3, <3>1, <3>2 DEF v
  <2>5. n = Len(w) + 1
    BY <1>1, <2>1, <2>4 DEF Encodable
  <2> QED
    BY <2>2, <2>3, <2>5
<1>10. Has(3) /\ ~Duplicate(c.coverage, s[1])
  BY <1>1, <1>8, <1>9 DEF Has, Duplicate, Meaning, w
<1>11. /\ s' = SubSeq(s, 3 + 1, Len(s)) /\ pc' = pc /\ left' = left - 1 /\ from' = from
       /\ wire' = [wire EXCEPT !.coverage = Append(@, [log |-> s[1], low |-> s[2], high |-> s[3]])]
  BY <1>10 DEF ReadCoverage, Drop
<1>12. wire'.coverage = Append(w, e)
  <2>1. [log |-> s[1], low |-> s[2], high |-> s[3]] = e
    BY <1>4, <1>8 DEF Log
  <2> QED
    BY <1>1, <1>11, <2>1 DEF w
<1>13. \E q \in Seq(Log) : /\ from'.coverage = wire'.coverage \o q /\ left' = Len(q)
                           /\ s' = SX!FlattenSeq(EncodeLogs(q)) \o Rest1(from')
  <2>1. /\ from'.coverage = wire'.coverage \o Tail(r) /\ left' = Len(Tail(r))
        /\ s' = SX!FlattenSeq(EncodeLogs(Tail(r))) \o Rest1(from')
    BY <1>4, <1>8, <1>11, <1>12 DEF u
  <2> QED
    BY <1>4, <2>1
<1> QED
  BY <1>1, <1>11, <1>13 DEF AheadAt, Refused

\* A sequence with its length before it is ahead.
LEMMA TakenAhead ==
  ASSUME NEW ss \in Seq(Seq(Nat)), ss # <<>>, NEW u \in Seq(Nat), NEW e \in Seq(Nat),
         Head(ss) = Prefixed(e), s = SX!FlattenSeq(ss) \o u
  PROVE  /\ HasSeq /\ Has(1) /\ Has(1 + s[1]) /\ TakenSeq = e
         /\ SubSeq(s, (1 + s[1]) + 1, Len(s)) = SX!FlattenSeq(Tail(ss)) \o u
<1> DEFINE x == Prefixed(e)
<1>1. x \in Seq(Nat) /\ Len(x) = 1 + Len(e) /\ x[1] = Len(e) /\ Len(e) \in Nat
  BY PrefixedType
<1>2. /\ s \in Seq(Nat) /\ Len(s) >= Len(x) /\ \A i \in 1..Len(x) : s[i] = x[i]
      /\ SubSeq(s, 1, Len(x)) = x
      /\ SubSeq(s, Len(x) + 1, Len(s)) = SX!FlattenSeq(Tail(ss)) \o u
  <2>1. /\ s \in Seq(Nat) /\ Len(s) >= Len(Head(ss))
        /\ \A i \in 1..Len(Head(ss)) : s[i] = Head(ss)[i]
        /\ SubSeq(s, 1, Len(Head(ss))) = Head(ss)
        /\ SubSeq(s, Len(Head(ss)) + 1, Len(s)) = SX!FlattenSeq(Tail(ss)) \o u
    BY ONLY ss \in Seq(Seq(Nat)), ss # <<>>, u \in Seq(Nat), s = SX!FlattenSeq(ss) \o u, ItemAhead
  <2>2. Head(ss) = x
    OBVIOUS
  <2> HIDE DEF x
  <2> QED
    BY ONLY <2>1, <2>2
<1> HIDE DEF x
<1>3. s[1] = Len(e)
  BY ONLY <1>1, <1>2
<1>4. Len(x) = 1 + s[1] /\ Len(s) >= 1 + s[1] /\ Len(s) >= 1 /\ s[1] * 1 <= Len(s) - 1
  <2>1. Len(s) \in Nat
    BY <1>2
  <2> QED
    BY ONLY <1>1, <1>2, <1>3, <2>1
<1>5. HasSeq /\ Has(1) /\ Has(1 + s[1])
  BY <1>4 DEF HasSeq, Has, Fits
<1>6. TakenSeq = e
  <2>1. SubSeq(s, 1, 1 + s[1]) = Prefixed(SubSeq(s, 2, 1 + s[1]))
        /\ SubSeq(s, 2, 1 + s[1]) \in Seq(Nat)
    BY <1>2, <1>4, SeqTaken
  <2> DEFINE y == SubSeq(s, 2, 1 + s[1])
  <2>2. Prefixed(y) = Prefixed(e) /\ y \in Seq(Nat)
    BY <1>2, <1>4, <2>1 DEF x
  <2> HIDE DEF y
  <2>3. y = e
    BY ONLY <2>2, e \in Seq(Nat), PrefixedInjective
  <2> QED
    BY <2>3 DEF TakenSeq, y
<1> QED
  BY <1>2, <1>4, <1>5, <1>6

\* The next column is read and not refused.
LEMMA ReadColumnAhead ==
  ASSUME ReadInv, AheadAt, ReadColumn
  PROVE  AheadAt'
<1> DEFINE w == wire.X
           u == Rest3(from)
<1>1. pc = "column" /\ left > 0 /\ w \in Seq(Seq(Nat)) /\ u \in Seq(Nat)
      /\ s \in Seq(Nat) /\ wire.coverage = from.coverage /\ wire.blocks = from.blocks
      /\ wire \in [coverage : Seq(Log), blocks : Seq(Block), X : Seq(Seq(Nat)), Y : Seq(Nat)]
  BY RestTypes DEF ReadColumn, ReadInv, TypeOK, AheadAt
<1>2. PICK r \in Seq(Seq(Nat)) : /\ from.X = w \o r /\ left = Len(r)
                                 /\ s = SX!FlattenSeq(EachPrefixed(r)) \o u
  BY <1>1 DEF AheadAt
<1>3. r # <<>>
  BY <1>1, <1>2
<1> DEFINE e == Head(r)
           x == Prefixed(e)
<1>4. e \in Seq(Nat) /\ Tail(r) \in Seq(Seq(Nat)) /\ Len(Tail(r)) = left - 1 /\ left \in Nat
      /\ from.X = Append(w, e) \o Tail(r)
  <2>1. left \in Nat
    BY DEF ReadInv, TypeOK
  <2>2. Head(r) \in Seq(Nat) /\ Tail(r) \in Seq(Seq(Nat)) /\ Len(Tail(r)) = Len(r) - 1
        /\ w \o r = Append(w, Head(r)) \o Tail(r)
    BY <1>1, <1>3, MoveHead
  <2> QED
    BY <1>2, <2>1, <2>2
<1>5. /\ EachPrefixed(r) \in Seq(Seq(Nat)) /\ EachPrefixed(r) # <<>>
      /\ Head(EachPrefixed(r)) = x /\ Tail(EachPrefixed(r)) = EachPrefixed(Tail(r))
  BY <1>3, PrefixedTail
<1> HIDE DEF w, u, e
<1>6. /\ HasSeq /\ TakenSeq = e
      /\ SubSeq(s, (1 + s[1]) + 1, Len(s)) = SX!FlattenSeq(EachPrefixed(Tail(r))) \o u
  <2> DEFINE ss == EachPrefixed(r)
  <2>1. ss \in Seq(Seq(Nat)) /\ ss # <<>> /\ u \in Seq(Nat) /\ s = SX!FlattenSeq(ss) \o u
    BY <1>1, <1>2, <1>5
  <2>2. Head(ss) = Prefixed(e) /\ Tail(ss) = EachPrefixed(Tail(r))
    BY <1>5
  <2> HIDE DEF ss
  <2>3. /\ HasSeq /\ TakenSeq = e
        /\ SubSeq(s, (1 + s[1]) + 1, Len(s)) = SX!FlattenSeq(Tail(ss)) \o u
    BY <1>1, <1>4, <2>1, <2>2, TakenAhead
  <2> QED
    BY ONLY <2>2, <2>3
<1>7. /\ s' = SubSeq(s, (1 + s[1]) + 1, Len(s)) /\ pc' = pc /\ left' = left - 1 /\ from' = from
      /\ wire' = [wire EXCEPT !.X = Append(@, e)]
  BY <1>6 DEF ReadColumn, Drop
<1>8. wire'.X = Append(w, e) /\ wire'.coverage = wire.coverage /\ wire'.blocks = wire.blocks
  BY <1>1, <1>7 DEF w
<1>9. \E q \in Seq(Seq(Nat)) : /\ from'.X = wire'.X \o q /\ left' = Len(q)
                               /\ s' = SX!FlattenSeq(EachPrefixed(q)) \o Rest3(from')
  <2>1. /\ from'.X = wire'.X \o Tail(r) /\ left' = Len(Tail(r))
        /\ s' = SX!FlattenSeq(EachPrefixed(Tail(r))) \o Rest3(from')
    BY <1>4, <1>6, <1>7, <1>8 DEF u
  <2> QED
    BY <1>4, <2>1
<1> QED
  BY <1>1, <1>7, <1>8, <1>9 DEF AheadAt, Refused

\* The exact filter is read, and the ranks pass.
LEMMA ReadExactAhead ==
  ASSUME ReadInv, AheadAt, ReadExact
  PROVE  AheadAt'
<1> DEFINE y == from.Y
<1>1. pc = "exact" /\ s = Prefixed(y) /\ s \in Seq(Nat) /\ y \in Seq(Nat) /\ Encodable(from)
      /\ wire.coverage = from.coverage /\ wire.blocks = from.blocks /\ wire.X = from.X
      /\ c = Meaning(wire)
      /\ wire \in [coverage : Seq(Log), blocks : Seq(Block), X : Seq(Seq(Nat)), Y : Seq(Nat)]
  BY RestTypes DEF ReadExact, ReadInv, TypeOK, AheadAt, Rest3, Encodable, Built
<1> HIDE DEF y
<1>2. Len(s) = 1 + Len(y) /\ s[1] = Len(y) /\ Len(y) \in Nat
  <2>1. y \in Seq(Nat)
    BY <1>1
  <2>2. Len(Prefixed(y)) = 1 + Len(y) /\ Prefixed(y)[1] = Len(y) /\ Len(y) \in Nat
    BY ONLY <2>1, PrefixedType
  <2> QED
    BY <1>1, <2>2
<1>3. HasSeq /\ Len(s) = 1 + s[1]
  <2>1. s[1] * 1 = s[1] /\ Len(s) - 1 = s[1] /\ Len(s) >= 1 /\ Len(s) = 1 + s[1] /\ s[1] <= s[1]
    BY <1>2
  <2> QED
    BY <2>1 DEF HasSeq, Has, Fits
<1>4. TakenSeq = y
  <2> DEFINE h == <<Len(y)>>
  <2>1. h \in Seq(Nat) /\ Len(h) = 1 /\ s = h \o y
    BY <1>1, <1>2 DEF Prefixed
  <2> HIDE DEF h
  <2>2. SubSeq(h \o y, Len(h) + 1, Len(h \o y)) = y
    <3>1. h \in Seq(Nat) /\ y \in Seq(Nat)
      BY <1>1, <2>1
    <3> QED
      BY ONLY <3>1, AfterConcat
  <2>3. SubSeq(s, 1 + 1, Len(s)) = y
    BY ONLY <2>1, <2>2
  <2> QED
    BY <1>2, <2>3 DEF TakenSeq
<1>5. validateBlocks(c)
  <2>1. SUFFICES ASSUME NEW i \in DOMAIN c.Blocks PROVE c.Blocks[i].meta.HRank <= Len(c.X)
    BY DEF validateBlocks
  <2>2. c.Blocks = BlockMap(from.blocks) /\ c.X = from.X
    BY <1>1 DEF Meaning
  <2> DEFINE n == CHOOSE n \in 1..Len(from.blocks) : from.blocks[n].id = i
  <2>3. \E m \in 1..Len(from.blocks) : from.blocks[m].id = i
    BY <2>1, <2>2 DEF BlockMap
  <2>4. n \in 1..Len(from.blocks)
    BY <2>3
  <2>5. c.Blocks[i].meta = from.blocks[n].meta
    <3>1. c.Blocks[i] = [meta |-> from.blocks[n].meta, Exceptions |-> Range(from.blocks[n].exceptions)]
      BY <2>1, <2>2, ZenonT(30) DEF BlockMap
    <3> HIDE DEF n
    <3> QED
      BY ONLY <3>1
  <2> HIDE DEF n
  <2> QED
    BY <1>1, <2>2, <2>4, <2>5 DEF Encodable
<1>6. /\ pc' = "parsed" /\ from' = from /\ wire' = [wire EXCEPT !.Y = y]
  BY <1>3, <1>4, <1>5 DEF ReadExact
<1>7. wire'.Y = y /\ wire'.coverage = wire.coverage /\ wire'.blocks = wire.blocks
      /\ wire'.X = wire.X
  BY <1>1, <1>6
<1> QED
  BY <1>1, <1>6, <1>7 DEF AheadAt, Refused, y

\* A flag comes back from its cell.
LEMMA FlagRead ==
  ASSUME NEW b \in BOOLEAN
  PROVE  Flag(b) <= 1 /\ (Flag(b) # 0) = b
<1>1. CASE b
  <2>1. Flag(b) = 1
    BY <1>1 DEF Flag
  <2>2. Flag(b) <= 1 /\ Flag(b) # 0
    BY <2>1
  <2>3. (Flag(b) # 0) = b
    BY <1>1, <2>2, Zenon
  <2> QED
    BY <2>2, <2>3
<1>2. CASE ~b
  <2>1. Flag(b) = 0
    BY <1>2 DEF Flag
  <2>2. Flag(b) <= 1
    BY <2>1
  <2>3. (Flag(b) # 0) = b
    BY <1>2, <2>1, Zenon
  <2> QED
    BY <2>2, <2>3
<1> QED
  BY <1>1, <1>2

\* The beginning of a block is ahead.
LEMMA BlockAhead ==
  ASSUME NEW e \in Block, NEW v \in Seq(Nat), NEW x, x = EncodeBlock(e) \o v
  PROVE  /\ x \in Seq(Nat) /\ Len(x) >= 8 /\ x[1] = e.id /\ MetaOf(x) = e.meta /\ x[7] <= 1
         /\ x[8] = Len(e.exceptions)
         /\ SubSeq(x, 8 + 1, Len(x)) = SX!FlattenSeq(EachPrefixed(e.exceptions)) \o v
<1> DEFINE M == EncodeMeta(e.id, e.meta)
           ss == EachPrefixed(e.exceptions)
           n == Len(e.exceptions)
           f == SX!FlattenSeq(ss)
           h == <<n>>
<1>1. e.id \in Nat /\ e.meta \in Meta /\ e.exceptions \in Seq(Seq(Nat)) /\ n \in Nat
  BY DEF Block
<1>2. M \in Seq(Nat) /\ Len(M) = 7
  BY <1>1, MetaType
<1>3. ss \in Seq(Seq(Nat)) /\ Len(ss) = n
  BY <1>1, EachPrefixedType
<1>4. f \in Seq(Nat)
  BY <1>3, FlattenType
<1>5. h \in Seq(Nat)
  BY <1>1
<1>6. EncodeBlock(e) = M \o (h \o f)
  BY <1>3 DEF EncodeBlock, Counted
<1>7. M = <<e.id, e.meta.HModulus, e.meta.HRank, e.meta.HOffset, e.meta.GModulus, e.meta.GOffset,
            Flag(e.meta.Inverted)>>
  BY DEF EncodeMeta
<1>8. M \o h = <<M[1], M[2], M[3], M[4], M[5], M[6], M[7], n>>
  BY <1>1, <1>2, EightCells
<1> HIDE DEF M, f, h, n, ss
<1>9. x = (M \o h) \o (f \o v)
  <2>1. ASSUME NEW a \in Seq(Nat), NEW b \in Seq(Nat), NEW d \in Seq(Nat)
        PROVE  (a \o b) \o d = a \o (b \o d)
    BY ONLY a \in Seq(Nat), b \in Seq(Nat), d \in Seq(Nat), SMTT(20)
  <2>2. M \o h \in Seq(Nat)
    BY <1>2, <1>5
  <2>3. M \o (h \o f) = (M \o h) \o f
    BY <1>2, <1>4, <1>5, <2>1
  <2>4. ((M \o h) \o f) \o v = (M \o h) \o (f \o v)
    BY <1>4, <2>1, <2>2
  <2> QED
    BY <1>6, <2>3, <2>4
<1> DEFINE a == M \o h
           b == f \o v
<1>10. a \in Seq(Nat) /\ b \in Seq(Nat)
  BY <1>2, <1>4, <1>5
<1>11. Len(a) = 8 /\ a[1] = M[1] /\ a[2] = M[2] /\ a[3] = M[3] /\ a[4] = M[4] /\ a[5] = M[5]
       /\ a[6] = M[6] /\ a[7] = M[7] /\ a[8] = n
  BY <1>8
<1> HIDE DEF a, b
<1>12. /\ a \o b \in Seq(Nat) /\ Len(a \o b) = Len(a) + Len(b) /\ Len(b) \in Nat
       /\ SubSeq(a \o b, Len(a) + 1, Len(a \o b)) = b
       /\ \A i \in 1..Len(a) : (a \o b)[i] = a[i]
  <2>1. Len(b) \in Nat
    BY <1>10
  <2>2. /\ a \o b \in Seq(Nat) /\ Len(a \o b) = Len(a) + Len(b)
        /\ SubSeq(a \o b, Len(a) + 1, Len(a \o b)) = b
        /\ \A i \in 1..Len(a) : (a \o b)[i] = a[i]
    BY ONLY <1>10, AfterConcat
  <2> QED
    BY <2>1, <2>2
<1>13. x = a \o b
  BY <1>9 DEF a, b
<1>14. x \in Seq(Nat) /\ Len(x) >= 8 /\ SubSeq(x, 8 + 1, Len(x)) = b
  BY ONLY <1>11, <1>12, <1>13, SMTT(20)
<1>15. \A i \in 1..8 : x[i] = a[i]
  BY ONLY <1>11, <1>12, <1>13
<1>16. /\ x[1] = M[1] /\ x[2] = M[2] /\ x[3] = M[3] /\ x[4] = M[4] /\ x[5] = M[5]
       /\ x[6] = M[6] /\ x[7] = M[7] /\ x[8] = n
  BY ONLY <1>11, <1>15
<1>17. /\ x[1] = e.id /\ x[2] = e.meta.HModulus /\ x[3] = e.meta.HRank /\ x[4] = e.meta.HOffset
       /\ x[5] = e.meta.GModulus /\ x[6] = e.meta.GOffset /\ x[7] = Flag(e.meta.Inverted)
  BY ONLY <1>7, <1>16
<1>18. e.meta.Inverted \in BOOLEAN
  BY <1>1 DEF Meta
<1>19. x[7] <= 1 /\ (x[7] # 0) = e.meta.Inverted
  <2>1. Flag(e.meta.Inverted) <= 1 /\ (Flag(e.meta.Inverted) # 0) = e.meta.Inverted
    BY <1>18, FlagRead
  <2> QED
    BY <1>17, <2>1
<1>20. MetaOf(x) = e.meta
  <2>1. e.meta = [HModulus |-> e.meta.HModulus, HRank |-> e.meta.HRank, HOffset |-> e.meta.HOffset,
                  GModulus |-> e.meta.GModulus, GOffset |-> e.meta.GOffset,
                  Inverted |-> e.meta.Inverted]
    BY <1>1 DEF Meta
  <2> QED
    BY <1>17, <1>19, <2>1 DEF MetaOf
<1> QED
  BY <1>14, <1>16, <1>17, <1>19, <1>20 DEF b, f, n, ss

\* The next block's fields are read and not refused.
LEMMA ReadBlockAhead ==
  ASSUME ReadInv, AheadAt, ReadBlock
  PROVE  AheadAt'
<1> DEFINE w == wire.blocks
           u == Rest2(from)
<1>1. pc = "block" /\ left > 0 /\ left \in Nat /\ w \in Seq(Block) /\ u \in Seq(Nat)
      /\ wire.coverage = from.coverage
  BY RestTypes DEF ReadBlock, ReadInv, TypeOK, AheadAt
<1>2. PICK r \in Seq(Block) : /\ from.blocks = w \o r /\ left = Len(r)
                              /\ s = SX!FlattenSeq(EncodeBlocks(r)) \o u
  BY <1>1 DEF AheadAt
<1>3. r # <<>>
  BY <1>1, <1>2
<1> DEFINE e == Head(r)
           v == SX!FlattenSeq(EncodeBlocks(Tail(r))) \o u
<1>4. e \in Block /\ Tail(r) \in Seq(Block) /\ left = Len(Tail(r)) + 1
      /\ from.blocks = Append(w, e) \o Tail(r)
  <2>1. Head(r) \in Block /\ Tail(r) \in Seq(Block) /\ Len(Tail(r)) = Len(r) - 1
        /\ w \o r = Append(w, Head(r)) \o Tail(r)
    BY <1>1, <1>3, MoveHead
  <2> QED
    BY <1>1, <1>2, <2>1
<1>5. /\ EncodeBlocks(r) \in Seq(Seq(Nat)) /\ EncodeBlocks(r) # <<>>
      /\ Head(EncodeBlocks(r)) = EncodeBlock(e)
      /\ Tail(EncodeBlocks(r)) = EncodeBlocks(Tail(r)) /\ EncodeBlocks(Tail(r)) \in Seq(Seq(Nat))
  BY <1>3, BlocksTail
<1>6. s = EncodeBlock(e) \o v /\ v \in Seq(Nat)
  <2> DEFINE a == EncodeBlock(e)
             b == SX!FlattenSeq(EncodeBlocks(Tail(r)))
  <2>1. a \in Seq(Nat)
    BY <1>4, BlockType
  <2>2. b \in Seq(Nat)
    BY <1>5, FlattenType
  <2>3. SX!FlattenSeq(EncodeBlocks(r)) = a \o b
    <3> DEFINE ss == EncodeBlocks(r)
    <3>1. ss \in Seq(Seq(Nat)) /\ ss # <<>> /\ Head(ss) = a /\ Tail(ss) = EncodeBlocks(Tail(r))
      BY <1>5
    <3> HIDE DEF ss
    <3>2. SX!FlattenSeq(ss) = Head(ss) \o SX!FlattenSeq(Tail(ss))
      BY <3>1, FlattenCons
    <3> QED
      BY <3>1, <3>2 DEF ss
  <2>4. u \in Seq(Nat)
    BY <1>1
  <2> HIDE DEF a, b, u
  <2>5. (a \o b) \o u = a \o (b \o u)
    BY ONLY <2>1, <2>2, <2>4, SMTT(20)
  <2>6. b \o u \in Seq(Nat)
    BY ONLY <2>2, <2>4
  <2> QED
    BY <1>2, <2>3, <2>5, <2>6 DEF a, b
<1> HIDE DEF w, u, e, v
<1>7. /\ Len(s) >= 8 /\ s[1] = e.id /\ MetaOf(s) = e.meta /\ s[7] <= 1
      /\ s[8] = Len(e.exceptions)
      /\ SubSeq(s, 8 + 1, Len(s)) = SX!FlattenSeq(EachPrefixed(e.exceptions)) \o v
  BY <1>4, <1>6, BlockAhead
<1>8. /\ s' = SubSeq(s, 8 + 1, Len(s)) /\ pc' = "exceptions" /\ serials' = s[8]
      /\ block' = [id |-> s[1], meta |-> MetaOf(s), Exceptions |-> {}, listed |-> <<>>]
      /\ UNCHANGED <<from, input, left, c, wire>>
  BY <1>7 DEF ReadBlock, Has, Drop, MetaOf
<1>9. block'.id = e.id /\ block'.meta = e.meta /\ block'.listed = <<>>
  BY <1>7, <1>8
<1>10. e.exceptions \in Seq(Seq(Nat)) /\ e.exceptions = <<>> \o e.exceptions
  BY <1>4 DEF Block
<1>11. \E q \in Seq(Block), d \in Block, es \in Seq(Seq(Nat)) :
          /\ from'.blocks = Append(wire'.blocks, d) \o q /\ left' = Len(q) + 1
          /\ block'.id = d.id /\ block'.meta = d.meta
          /\ d.exceptions = block'.listed \o es /\ serials' = Len(es)
          /\ s' = SX!FlattenSeq(EachPrefixed(es))
                  \o (SX!FlattenSeq(EncodeBlocks(q)) \o Rest2(from'))
  <2>1. /\ from'.blocks = Append(wire'.blocks, e) \o Tail(r) /\ left' = Len(Tail(r)) + 1
        /\ block'.id = e.id /\ block'.meta = e.meta
        /\ e.exceptions = block'.listed \o e.exceptions /\ serials' = Len(e.exceptions)
        /\ s' = SX!FlattenSeq(EachPrefixed(e.exceptions))
                \o (SX!FlattenSeq(EncodeBlocks(Tail(r))) \o Rest2(from'))
    BY <1>4, <1>7, <1>8, <1>9, <1>10 DEF u, v, w
  <2> QED
    BY <1>4, <1>10, <2>1
<1> QED
  BY <1>1, <1>8, <1>11 DEF AheadAt, Refused

\* The next exception is read and not refused.
LEMMA ReadExceptionAhead ==
  ASSUME ReadInv, AheadAt, ReadException
  PROVE  AheadAt'
<1>1. pc = "exceptions" /\ serials > 0 /\ serials \in Nat /\ Rest2(from) \in Seq(Nat)
      /\ wire.coverage = from.coverage
      /\ block \in [id : Nat, meta : Meta, Exceptions : SUBSET Seq(Nat), listed : Seq(Seq(Nat))]
  BY RestTypes DEF ReadException, ReadInv, TypeOK, AheadAt
<1>2. PICK r \in Seq(Block), e \in Block, es \in Seq(Seq(Nat)) :
          /\ from.blocks = Append(wire.blocks, e) \o r /\ left = Len(r) + 1
          /\ block.id = e.id /\ block.meta = e.meta
          /\ e.exceptions = block.listed \o es /\ serials = Len(es)
          /\ s = SX!FlattenSeq(EachPrefixed(es))
                 \o (SX!FlattenSeq(EncodeBlocks(r)) \o Rest2(from))
  BY <1>1 DEF AheadAt
<1> DEFINE u == SX!FlattenSeq(EncodeBlocks(r)) \o Rest2(from)
           x == Head(es)
<1>3. es # <<>>
  BY <1>1, <1>2
<1>4. u \in Seq(Nat)
  <2>1. SX!FlattenSeq(EncodeBlocks(r)) \in Seq(Nat)
    BY BlocksType, FlattenType
  <2> QED
    BY <1>1, <2>1
<1>5. x \in Seq(Nat) /\ Tail(es) \in Seq(Seq(Nat)) /\ Len(Tail(es)) = serials - 1
      /\ e.exceptions = Append(block.listed, x) \o Tail(es)
  <2>1. block.listed \in Seq(Seq(Nat))
    BY <1>1
  <2>2. Head(es) \in Seq(Nat) /\ Tail(es) \in Seq(Seq(Nat)) /\ Len(Tail(es)) = Len(es) - 1
        /\ block.listed \o es = Append(block.listed, Head(es)) \o Tail(es)
    BY <1>3, <2>1, MoveHead
  <2> QED
    BY <1>2, <2>2
<1>6. /\ Has(1) /\ Has(1 + s[1]) /\ SubSeq(s, 2, 1 + s[1]) = x
      /\ SubSeq(s, (1 + s[1]) + 1, Len(s)) = SX!FlattenSeq(EachPrefixed(Tail(es))) \o u
  <2> DEFINE ss == EachPrefixed(es)
  <2>1. ss \in Seq(Seq(Nat)) /\ ss # <<>> /\ Head(ss) = Prefixed(x)
        /\ Tail(ss) = EachPrefixed(Tail(es))
    BY <1>3, PrefixedTail
  <2>2. s = SX!FlattenSeq(ss) \o u
    BY <1>2
  <2> HIDE DEF ss, u, x
  <2>3. /\ Has(1) /\ Has(1 + s[1]) /\ TakenSeq = x
        /\ SubSeq(s, (1 + s[1]) + 1, Len(s)) = SX!FlattenSeq(Tail(ss)) \o u
    BY <1>4, <1>5, <2>1, <2>2, TakenAhead
  <2> QED
    BY <2>1, <2>3 DEF TakenSeq
<1> HIDE DEF u, x
<1>7. /\ s' = SubSeq(s, (1 + s[1]) + 1, Len(s)) /\ pc' = pc /\ serials' = serials - 1
      /\ block' = [block EXCEPT !.Exceptions = @ \cup {x}, !.listed = Append(@, x)]
      /\ UNCHANGED <<from, input, left, c, wire>>
  BY <1>6 DEF ReadException, Drop
<1>8. block'.id = block.id /\ block'.meta = block.meta /\ block'.listed = Append(block.listed, x)
  BY <1>1, <1>7
<1>9. \E q \in Seq(Block), d \in Block, qs \in Seq(Seq(Nat)) :
          /\ from'.blocks = Append(wire'.blocks, d) \o q /\ left' = Len(q) + 1
          /\ block'.id = d.id /\ block'.meta = d.meta
          /\ d.exceptions = block'.listed \o qs /\ serials' = Len(qs)
          /\ s' = SX!FlattenSeq(EachPrefixed(qs))
                  \o (SX!FlattenSeq(EncodeBlocks(q)) \o Rest2(from'))
  <2>1. /\ from'.blocks = Append(wire'.blocks, e) \o r /\ left' = Len(r) + 1
        /\ block'.id = e.id /\ block'.meta = e.meta
        /\ e.exceptions = block'.listed \o Tail(es) /\ serials' = Len(Tail(es))
        /\ s' = SX!FlattenSeq(EachPrefixed(Tail(es)))
                \o (SX!FlattenSeq(EncodeBlocks(r)) \o Rest2(from'))
    BY <1>2, <1>5, <1>6, <1>7, <1>8 DEF u
  <2> QED
    BY <1>5, <2>1
<1> QED
  BY <1>1, <1>7, <1>9 DEF AheadAt, Refused

\* The block is added: its issuer is listed once.
LEMMA AddBlockAhead ==
  ASSUME ReadInv, AheadAt, AddBlock
  PROVE  AheadAt'
<1> DEFINE w == wire.blocks
<1>1. pc = "exceptions" /\ serials = 0 /\ Rest2(from) \in Seq(Nat) /\ Encodable(from)
      /\ wire.coverage = from.coverage /\ w \in Seq(Block) /\ c = Meaning(wire)
      /\ block \in [id : Nat, meta : Meta, Exceptions : SUBSET Seq(Nat), listed : Seq(Seq(Nat))]
      /\ wire \in [coverage : Seq(Log), blocks : Seq(Block), X : Seq(Seq(Nat)), Y : Seq(Nat)]
  BY RestTypes DEF AddBlock, ReadInv, TypeOK, AheadAt, Built
<1>2. PICK r \in Seq(Block), e \in Block, es \in Seq(Seq(Nat)) :
          /\ from.blocks = Append(w, e) \o r /\ left = Len(r) + 1
          /\ block.id = e.id /\ block.meta = e.meta
          /\ e.exceptions = block.listed \o es /\ serials = Len(es)
          /\ s = SX!FlattenSeq(EachPrefixed(es))
                 \o (SX!FlattenSeq(EncodeBlocks(r)) \o Rest2(from))
  BY <1>1 DEF AheadAt
<1> DEFINE u == SX!FlattenSeq(EncodeBlocks(r)) \o Rest2(from)
<1>3. es = <<>>
  BY <1>1, <1>2
<1>4. u \in Seq(Nat)
  <2>1. SX!FlattenSeq(EncodeBlocks(r)) \in Seq(Nat)
    BY BlocksType, FlattenType
  <2> QED
    BY <1>1, <2>1
<1>5. s = u
  <2> HIDE DEF u
  <2>1. <<>> \o u = u
    BY <1>4
  <2>2. s = <<>> \o u
    BY <1>2, <1>3, NothingListed, FlattenEmpty DEF u
  <2> QED
    BY <2>1, <2>2
<1>6. e = [id |-> block.id, meta |-> block.meta, exceptions |-> block.listed]
  <2>1. block.listed \o <<>> = block.listed
    BY <1>1
  <2>2. e.exceptions = block.listed
    BY <1>2, <1>3, <2>1
  <2>3. e = [id |-> e.id, meta |-> e.meta, exceptions |-> e.exceptions]
    BY DEF Block
  <2> QED
    BY <1>2, <2>2, <2>3
<1> HIDE DEF u
<1>7. e.id \notin DOMAIN BlockMap(w)
  <2>1. SUFFICES ASSUME NEW n \in 1..Len(w), w[n].id = e.id PROVE FALSE
    BY DEF BlockMap
  <2>2. w \in Seq(Block) /\ Append(w, e) \in Seq(Block) /\ Len(Append(w, e)) = Len(w) + 1
        /\ Append(w, e)[Len(w) + 1] = e /\ Append(w, e)[n] = w[n]
    BY <1>1
  <2>3. Len(w) \in Nat /\ n \in 1..(Len(w) + 1) /\ Len(w) + 1 \in 1..(Len(w) + 1)
    BY <2>2
  <2>4. /\ n \in 1..Len(from.blocks) /\ Len(w) + 1 \in 1..Len(from.blocks)
        /\ from.blocks[n] = w[n] /\ from.blocks[Len(w) + 1] = e
    <3> DEFINE v == Append(w, e)
    <3>1. v \in Seq(Block) /\ Len(v) = Len(w) + 1 /\ v[Len(w) + 1] = e /\ v[n] = w[n]
      BY <2>2
    <3> HIDE DEF v
    <3>2. \A i \in 1..Len(v) : (v \o r)[i] = v[i] /\ i \in 1..Len(v \o r)
      BY <3>1, ConcatElements
    <3> QED
      BY <1>2, <2>3, <3>1, <3>2 DEF v
  <2>5. n = Len(w) + 1
    BY <1>1, <2>1, <2>4 DEF Encodable
  <2> QED
    BY <2>2, <2>3, <2>5
<1>8. ~Duplicate(c.Blocks, block.id)
  BY <1>1, <1>2, <1>7 DEF Duplicate, Meaning
<1>9. /\ s' = s /\ pc' = "block" /\ left' = left - 1 /\ from' = from
      /\ wire' = [wire EXCEPT !.blocks = Append(w, e)]
  BY <1>6, <1>8 DEF AddBlock
<1>10. wire'.blocks = Append(w, e) /\ wire'.coverage = wire.coverage
  BY <1>1, <1>9
<1>11. \E q \in Seq(Block) : /\ from'.blocks = wire'.blocks \o q /\ left' = Len(q)
                             /\ s' = SX!FlattenSeq(EncodeBlocks(q)) \o Rest2(from')
  <2>1. Len(r) \in Nat
    OBVIOUS
  <2>2. left' = Len(r)
    BY <1>2, <1>9, <2>1
  <2>3. /\ from'.blocks = wire'.blocks \o r /\ left' = Len(r)
        /\ s' = SX!FlattenSeq(EncodeBlocks(r)) \o Rest2(from')
    BY <1>2, <1>5, <1>9, <1>10, <2>2 DEF u
  <2> QED
    BY <2>3
<1> QED
  BY <1>1, <1>9, <1>10, <1>11 DEF AheadAt, Refused

\* Every step keeps the rest of the encoding ahead.
LEMMA NextAhead == ReadInv /\ Ahead /\ [Next]_vars => Ahead'
<1> SUFFICES ASSUME ReadInv, Ahead, [Next]_vars PROVE Ahead'
  OBVIOUS
<1>1. from' = from /\ input' = input
  BY DEF Next, vars, ReadVersion, ReadCount, ReadCoverage, Leave, ReadBlock, ReadException,
         AddBlock, ReadColumnCount, ReadColumn, ReadExact, Refuse
<1>2. SUFFICES ASSUME AheadAt PROVE AheadAt'
  BY <1>1 DEF Ahead
<1>3. CASE ReadVersion
  BY <1>2, <1>3, ReadVersionAhead
<1>4. CASE ReadCount("coverage", coverageEntrySize, "log")
  BY <1>2, <1>4, ReadCoverageCountAhead
<1>5. CASE ReadCoverage
  BY <1>2, <1>5, ReadCoverageAhead
<1>6. CASE ReadCount("index", minIndexEntrySize, "block")
  BY <1>2, <1>6, ReadIndexCountAhead
<1>7. CASE ReadBlock
  BY <1>2, <1>7, ReadBlockAhead
<1>8. CASE ReadException
  BY <1>2, <1>8, ReadExceptionAhead
<1>9. CASE AddBlock
  BY <1>2, <1>9, AddBlockAhead
<1>10. CASE ReadColumnCount
  BY <1>2, <1>10, ReadColumnCountAhead
<1>11. CASE ReadColumn
  BY <1>2, <1>11, ReadColumnAhead
<1>12. CASE Leave("log", "index") \/ Leave("block", "columns") \/ Leave("column", "exact")
  BY <1>2, <1>12, LeaveAhead
<1>13. CASE ReadExact
  BY <1>2, <1>13, ReadExactAhead
<1>14. CASE UNCHANGED vars
  <2>1. /\ from' = from /\ s' = s /\ pc' = pc /\ left' = left
        /\ serials' = serials /\ block' = block /\ wire' = wire
    BY <1>14 DEF vars
  <2>2. pc' = "log" => \E r \in Seq(Log) :
            /\ from'.coverage = wire'.coverage \o r /\ left' = Len(r)
            /\ s' = SX!FlattenSeq(EncodeLogs(r)) \o Rest1(from')
    BY <1>2, <2>1 DEF AheadAt
  <2>3. pc' = "block" => \E r \in Seq(Block) :
            /\ from'.blocks = wire'.blocks \o r /\ left' = Len(r)
            /\ s' = SX!FlattenSeq(EncodeBlocks(r)) \o Rest2(from')
    BY <1>2, <2>1 DEF AheadAt
  <2>4. pc' = "exceptions" => \E r \in Seq(Block), e \in Block, es \in Seq(Seq(Nat)) :
            /\ from'.blocks = Append(wire'.blocks, e) \o r /\ left' = Len(r) + 1
            /\ block'.id = e.id /\ block'.meta = e.meta
            /\ e.exceptions = block'.listed \o es /\ serials' = Len(es)
            /\ s' = SX!FlattenSeq(EachPrefixed(es))
                    \o (SX!FlattenSeq(EncodeBlocks(r)) \o Rest2(from'))
    BY <1>2, <2>1 DEF AheadAt
  <2>5. pc' = "column" => \E r \in Seq(Seq(Nat)) :
            /\ from'.X = wire'.X \o r /\ left' = Len(r)
            /\ s' = SX!FlattenSeq(EachPrefixed(r)) \o Rest3(from')
    BY <1>2, <2>1 DEF AheadAt
  <2>6. ~Refused'
    BY <1>2, <2>1 DEF AheadAt, Refused
  <2>7. /\ pc' = "version" => s' = <<4, 0>> \o Rest0(from')
        /\ pc' = "coverage" => s' = Rest0(from')
        /\ pc' = "index" => s' = Rest1(from')
        /\ pc' = "columns" => s' = Rest2(from')
        /\ pc' = "exact" => s' = Rest3(from')
    BY <1>2, <2>1 DEF AheadAt
  <2>8. /\ pc' \in {"index", "block", "exceptions", "columns", "column", "exact", "parsed"} =>
              wire'.coverage = from'.coverage
        /\ pc' \in {"columns", "column", "exact", "parsed"} => wire'.blocks = from'.blocks
        /\ pc' \in {"exact", "parsed"} => wire'.X = from'.X
        /\ pc' = "parsed" => wire'.Y = from'.Y
    BY <1>2, <2>1 DEF AheadAt
  <2> QED
    BY ONLY <2>2, <2>3, <2>4, <2>5, <2>6, <2>7, <2>8 DEF AheadAt
<1> QED
  BY <1>3, <1>4, <1>5, <1>6, <1>7, <1>8, <1>9, <1>10, <1>11, <1>12, <1>13, <1>14 DEF Next

\* All of the encoding is ahead at first.
LEMMA InitAhead == Init => Ahead
<1> SUFFICES ASSUME Init, input = Layout(from) PROVE AheadAt
  BY DEF Ahead
<1>1. TypeOK
  BY InitReads DEF ReadInv
<1>2. s = <<4, 0>> \o Rest0(from) /\ pc = "version"
  BY <1>1, RestTypes DEF Init
<1> QED
  BY <1>2 DEF AheadAt, Refused

-----------------------------------------------------------------------------
(* What Bytes writes is the layout, as long as nothing is cut.             *)

\* A number that a field holds is kept.
LEMMA HeldNumber ==
  ASSUME NEW width \in Nat \ {0}, NEW n \in Nat, n < width
  PROVE  n % width = n
OBVIOUS

\* The same for all widths and numbers.
LEMMA HeldNumbers ==
  \A width \in Nat \ {0} : \A n \in Nat : n < width => n % width = n
BY HeldNumber

\* A count that its field holds is the count.
LEMMA CountHeld ==
  ASSUME NEW width \in Nat \ {0}, NEW ss \in Seq(Seq(Nat)), Len(ss) < width
  PROVE  CountedIn(width, ss) = Counted(ss)
<1>1. Len(ss) \in Nat
  OBVIOUS
<1>2. Len(ss) % width = Len(ss)
  BY <1>1, HeldNumber
<1> QED
  BY <1>2, Zenon DEF CountedIn, Counted

\* The fields of a block.
LEMMA MetaHeld ==
  ASSUME NEW id, NEW meta \in Meta, FieldsFit(meta)
  PROVE  EncodeMeta(id, Cut(meta)) = EncodeMeta(id, meta)
<1>1. /\ meta.HModulus \in Nat /\ meta.HRank \in Nat /\ meta.HOffset \in Nat
      /\ meta.GModulus \in Nat /\ meta.GOffset \in Nat
  BY DEF Meta
<1>2. /\ meta.HModulus % U32 = meta.HModulus /\ meta.HRank % U8 = meta.HRank
      /\ meta.HOffset % U32 = meta.HOffset /\ meta.GModulus % U32 = meta.GModulus
      /\ meta.GOffset % U32 = meta.GOffset
  BY <1>1, ParserAssumption, HeldNumbers, ZenonT(30) DEF FieldsFit
<1>3. /\ Cut(meta).HModulus = meta.HModulus % U32 /\ Cut(meta).HRank = meta.HRank % U8
      /\ Cut(meta).HOffset = meta.HOffset % U32 /\ Cut(meta).GModulus = meta.GModulus % U32
      /\ Cut(meta).GOffset = meta.GOffset % U32 /\ Cut(meta).Inverted = meta.Inverted
  BY DEF Cut, Meta
<1> QED
  BY <1>2, <1>3, Zenon DEF EncodeMeta

\* A block.
LEMMA BlockHeld ==
  ASSUME NEW x \in Block, FieldsFit(x.meta), Len(x.exceptions) < U16
  PROVE  WriteBlock(x) = EncodeBlock(x)
<1>1. x.meta \in Meta /\ x.exceptions \in Seq(Seq(Nat))
  BY DEF Block
<1>2. EncodeMeta(x.id, Cut(x.meta)) = EncodeMeta(x.id, x.meta)
  BY <1>1, MetaHeld
<1>3. EachPrefixed(x.exceptions) \in Seq(Seq(Nat)) /\ Len(EachPrefixed(x.exceptions)) < U16
  BY <1>1, EachPrefixedType
<1>4. CountedIn(U16, EachPrefixed(x.exceptions)) = Counted(EachPrefixed(x.exceptions))
  BY <1>3, CountHeld, ParserAssumption
<1> QED
  BY <1>2, <1>4, Zenon DEF WriteBlock, EncodeBlock

\* A column, or the exact filter.
LEMMA WordsHeld ==
  ASSUME NEW words \in Seq(Nat), Len(words) < U32
  PROVE  addU64Seq(words) = Prefixed(words)
<1>1. Len(words) \in Nat
  OBVIOUS
<1>2. Len(words) % U32 = Len(words)
  BY <1>1, HeldNumber, ParserAssumption
<1> QED
  BY <1>2, Zenon DEF addU64Seq, Prefixed

\* All of the filter.
LEMMA EncodeIsLayout ==
  ASSUME NEW f, Encodable(f), CountsFit(f)
  PROVE  Encode(f) = Layout(f)
<1>1. /\ f.coverage \in Seq(Log) /\ f.blocks \in Seq(Block)
      /\ f.X \in Seq(Seq(Nat)) /\ f.Y \in Seq(Nat)
  BY DEF Encodable
<1>2. CountedIn(U16, EncodeLogs(f.coverage)) = Counted(EncodeLogs(f.coverage))
  <2>1. EncodeLogs(f.coverage) \in Seq(Seq(Nat)) /\ Len(EncodeLogs(f.coverage)) < U16
    BY <1>1, LogsType DEF CountsFit
  <2> QED
    BY <2>1, CountHeld, ParserAssumption
<1>3. [n \in 1..Len(f.blocks) |-> WriteBlock(f.blocks[n])] = EncodeBlocks(f.blocks)
  <2>1. ASSUME NEW n \in 1..Len(f.blocks) PROVE WriteBlock(f.blocks[n]) = EncodeBlock(f.blocks[n])
    <3>1. f.blocks[n] \in Block
      BY <1>1
    <3> QED
      BY <3>1, BlockHeld DEF CountsFit
  <2> QED
    BY <2>1, Zenon DEF EncodeBlocks
<1>4. CountedIn(U32, EncodeBlocks(f.blocks)) = Counted(EncodeBlocks(f.blocks))
  <2>1. EncodeBlocks(f.blocks) \in Seq(Seq(Nat)) /\ Len(EncodeBlocks(f.blocks)) < U32
    BY <1>1, BlocksType DEF CountsFit
  <2> QED
    BY <2>1, CountHeld, ParserAssumption
<1>5. [n \in 1..Len(f.X) |-> addU64Seq(f.X[n])] = EachPrefixed(f.X)
  <2>1. ASSUME NEW n \in 1..Len(f.X) PROVE addU64Seq(f.X[n]) = Prefixed(f.X[n])
    <3>1. f.X[n] \in Seq(Nat)
      BY <1>1
    <3> QED
      BY <3>1, WordsHeld DEF CountsFit
  <2> QED
    BY <2>1, Zenon DEF EachPrefixed
<1>6. CountedIn(U8, EachPrefixed(f.X)) = Counted(EachPrefixed(f.X))
  <2>1. EachPrefixed(f.X) \in Seq(Seq(Nat)) /\ Len(EachPrefixed(f.X)) < U8
    BY <1>1, EachPrefixedType DEF CountsFit
  <2> QED
    BY <2>1, CountHeld, ParserAssumption
<1>7. addU64Seq(f.Y) = Prefixed(f.Y)
  BY <1>1, WordsHeld DEF CountsFit
<1> QED
  BY <1>2, <1>3, <1>4, <1>5, <1>6, <1>7, Zenon DEF Encode, Layout

\* FromBytes reads what Bytes wrote, for every filter whose counts, ranks and
\* offsets their fields can hold, whatever the widths of the fields are: an
\* intact encoding is never refused and parses to what it encodes.
THEOREM IntactReadBack == Spec => []ReadsBack
<1>1. Init => ReadInv /\ Ahead
  BY InitReads, InitAhead
<1>2. (ReadInv /\ Ahead) /\ [Next]_vars => (ReadInv /\ Ahead)'
  BY NextReads, NextAhead
<1>3. ReadInv /\ Ahead => ReadsBack
  <2> SUFFICES ASSUME ReadInv, Ahead, CountsFit(from), input = Encode(from)
               PROVE  ~Refused /\ (pc = "parsed" => c = Meaning(from))
    BY DEF ReadsBack
  <2>0. input = Layout(from)
    <3>1. Encodable(from)
      BY RestTypes DEF ReadInv
    <3> QED
      BY <3>1, EncodeIsLayout
  <2>1. AheadAt
    BY <2>0 DEF Ahead
  <2>2. c = Meaning(wire)
    BY DEF ReadInv, Built
  <2>3. pc = "parsed" => Meaning(wire) = Meaning(from)
    BY <2>1 DEF AheadAt, Meaning
  <2> QED
    BY <2>1, <2>2, <2>3 DEF AheadAt
<1> QED
  BY <1>1, <1>2, <1>3, PTL DEF Spec
=============================================================================
