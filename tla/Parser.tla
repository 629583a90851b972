------------------------------- MODULE Parser -------------------------------
(***************************************************************************)
(* crlite.FromBytes (crlite/parser.go) and the encoding it reads back,     *)
(* Filter.Bytes (internal/test/clubcard_encode.go).                        *)
(*                                                                         *)
(* The input is a sequence of cells; a cell is one field of the wire       *)
(* format, whatever its width, so that log ids, timestamps, counts, words  *)
(* and the bytes of a serial are all one cell long.  The sizes of entries  *)
(* that the code tests counts against are given in cells.  Each read of a  *)
(* field group is an action and so is each round of a loop.                *)
(***************************************************************************)
EXTENDS Wire, FiniteSets, Functions

CONSTANTS
    U8, U16, U32,   \* how many values the types have: 2^8, 2^16, 2^32
    Contents,       \* filter contents to encode
    Damage          \* Damage[f]: the inputs, intact or not, made of Encode(f)

-----------------------------------------------------------------------------
(* The wire format.  Contents are sequences in wire order: coverage        *)
(* entries, blocks, columns.                                               *)

Flag(bit) == IF bit THEN 1 ELSE 0

\* A sequence with its count before it.
Counted(seq) == <<Len(seq)>> \o SX!FlattenSeq(seq)

EachPrefixed(xs) == [n \in 1..Len(xs) |-> Prefixed(xs[n])]

EncodeMeta(id, meta) ==
    <<id, meta.HModulus, meta.HRank, meta.HOffset, meta.GModulus, meta.GOffset, Flag(meta.Inverted)>>

EncodeBlock(x) == EncodeMeta(x.id, x.meta) \o Counted(EachPrefixed(x.exceptions))

EncodeLogs(logs) == [n \in 1..Len(logs) |-> <<logs[n].log, logs[n].low, logs[n].high>>]
EncodeBlocks(blocks) == [n \in 1..Len(blocks) |-> EncodeBlock(blocks[n])]

Layout(f) ==
    <<4, 0>>
    \o Counted(EncodeLogs(f.coverage))
    \o Counted(EncodeBlocks(f.blocks))
    \o Counted(EachPrefixed(f.X))
    \o Prefixed(f.Y)

-----------------------------------------------------------------------------
(* What Bytes writes.  Its counts, moduli, offsets and ranks are ints and  *)
(* are cut to the width of their field.                                    *)

\* A sequence with its count before it, in a field of width values.
CountedIn(width, seq) == <<Len(seq) % width>> \o SX!FlattenSeq(seq)

Cut(meta) ==
    [meta EXCEPT !.HModulus = @ % U32, !.HRank = @ % U8, !.HOffset = @ % U32,
                 !.GModulus = @ % U32, !.GOffset = @ % U32]

WriteBlock(x) == EncodeMeta(x.id, Cut(x.meta)) \o CountedIn(U16, EachPrefixed(x.exceptions))

addU64Seq(words) == <<Len(words) % U32>> \o words

Encode(f) ==
    <<4, 0>>
    \o CountedIn(U16, EncodeLogs(f.coverage))
    \o CountedIn(U32, [n \in 1..Len(f.blocks) |-> WriteBlock(f.blocks[n])])
    \o CountedIn(U8, [n \in 1..Len(f.X) |-> addU64Seq(f.X[n])])
    \o addU64Seq(f.Y)

-----------------------------------------------------------------------------

\* What a parser should make of coverage entries, of blocks and of contents f.
Intervals(logs) ==
    [l \in {logs[n].log : n \in 1..Len(logs)} |->
        LET n == CHOOSE n \in 1..Len(logs) : logs[n].log = l
        IN  [low |-> logs[n].low, high |-> logs[n].high]]

BlockMap(blocks) ==
    [i \in {blocks[n].id : n \in 1..Len(blocks)} |->
        LET n == CHOOSE n \in 1..Len(blocks) : blocks[n].id = i
        IN  [meta |-> blocks[n].meta, Exceptions |-> Range(blocks[n].exceptions)]]

Meaning(f) ==
    [coverage |-> Intervals(f.coverage), Blocks |-> BlockMap(f.blocks), X |-> f.X, Y |-> f.Y]

\* Contents that Bytes encodes: fields are numbers, a log or an issuer is listed
\* once, for both are keys of maps, a block has no more rank than columns, and
\* no serial is so long that hashAll panics.
Meta == [HModulus : Nat, HRank : Nat, HOffset : Nat, GModulus : Nat, GOffset : Nat,
         Inverted : BOOLEAN]
Log == [log : Nat, low : Nat, high : Nat]
Block == [id : Nat, meta : Meta, exceptions : Seq(Seq(Nat))]

Encodable(f) ==
    /\ f.coverage \in Seq(Log) /\ f.blocks \in Seq(Block)
    /\ f.X \in Seq(Seq(Nat)) /\ f.Y \in Seq(Nat)
    /\ \A m, n \in 1..Len(f.coverage) : f.coverage[m].log = f.coverage[n].log => m = n
    /\ \A m, n \in 1..Len(f.blocks) : f.blocks[m].id = f.blocks[n].id => m = n
    /\ \A n \in 1..Len(f.blocks) :
          /\ f.blocks[n].meta.HRank <= Len(f.X)
          /\ \A m \in 1..Len(f.blocks[n].exceptions) : Len(f.blocks[n].exceptions[m]) < U8

ASSUME ParserAssumption ==
    /\ U8 \in Nat \ {0} /\ U16 \in Nat \ {0} /\ U32 \in Nat \ {0}
    /\ \A f \in Contents : Encodable(f) /\ \A e \in Damage[f] : e \in Seq(Nat)

-----------------------------------------------------------------------------

VARIABLES
    from,       \* the contents the input was made of
    input,      \* the input
    s,          \* what is left of it
    pc,         \* what is read next, or the outcome
    left,       \* rounds left of the loop over entries
    serials,    \* rounds left of the loop over a block's exceptions
    block,      \* the block that is read
    c,          \* the filter under construction
    wire        \* history: everything read so far, in wire order

vars == <<from, input, s, pc, left, serials, block, c, wire>>

-----------------------------------------------------------------------------
(* Reading *)

coverageEntrySize == 3
minIndexEntrySize == 8

Empty == [coverage |-> <<>>, Blocks |-> <<>>, X |-> <<>>, Y |-> <<>>]
NoBlock == [id |-> 0, meta |-> <<>>, Exceptions |-> {}, listed |-> <<>>]

Init ==
    /\ from \in Contents
    /\ input \in Damage[from]
    /\ s = input
    /\ pc = "version"
    /\ left = 0 /\ serials = 0
    /\ block = NoBlock
    /\ c = Empty
    /\ wire = [coverage |-> <<>>, blocks |-> <<>>, X |-> <<>>, Y |-> <<>>]

Has(n) == Len(s) >= n
Drop(n) == s' = SubSeq(s, n + 1, Len(s))
Add(f, x, v) == [y \in DOMAIN f \cup {x} |-> IF y = x THEN v ELSE f[y]]

\* A bug to detect: a read that failed is tried again.
RetryRead(why) == UNCHANGED vars

\* An error return of FromBytes.
Refuse(why) == pc' = why /\ UNCHANGED <<from, input, s, left, serials, block, c, wire>>

ReadVersion ==
    /\ pc = "version"
    /\ \/ /\ Has(2) /\ s[1] = 4 /\ s[2] = 0
          /\ Drop(2)
          /\ pc' = "coverage"
          /\ UNCHANGED <<from, input, left, serials, block, c, wire>>
       \/ Has(2) /\ s[1] # 4 /\ Refuse("unsupported")
       \/ ~Has(2) /\ Refuse("malformed")
       \/ Has(2) /\ s[1] = 4 /\ s[2] # 0 /\ Refuse("malformed")

\* A bug to detect: a count that the rest of the input just holds is refused.
FitsBelow(count, size) == count * size < Len(s) - 1

\* The test of a count against what remains after it.
Fits(count, size) == count * size <= Len(s) - 1

\* A count of entries, each of at least size cells, then a loop over them.
ReadCount(here, size, next) ==
    /\ pc = here
    /\ \/ /\ Has(1) /\ Fits(s[1], size)
          /\ left' = s[1]
          /\ Drop(1)
          /\ pc' = next
          /\ UNCHANGED <<from, input, serials, block, c, wire>>
       \/ ~(Has(1) /\ Fits(s[1], size)) /\ Refuse("malformed")

\* The loop is over.
Leave(here, next) ==
    /\ pc = here
    /\ left = 0
    /\ pc' = next
    /\ UNCHANGED <<from, input, s, left, serials, block, c, wire>>

\* A bug to detect: a later interval overwrites an earlier one.
NeverDuplicate(f, x) == FALSE

Duplicate(f, x) == x \in DOMAIN f

\* One round of readCoverage.
ReadCoverage ==
    /\ pc = "log"
    /\ left > 0
    /\ \/ /\ Has(3) /\ ~Duplicate(c.coverage, s[1])
          /\ c' = [c EXCEPT !.coverage = Add(@, s[1], [low |-> s[2], high |-> s[3]])]
          /\ wire' = [wire EXCEPT !.coverage =
                         Append(@, [log |-> s[1], low |-> s[2], high |-> s[3]])]
          /\ left' = left - 1
          /\ Drop(3)
          /\ UNCHANGED <<from, input, pc, serials, block>>
       \/ ~(Has(3) /\ ~Duplicate(c.coverage, s[1])) /\ Refuse("malformed")

\* readBlocks and readBlockMeta up to the exceptions.
ReadBlock ==
    /\ pc = "block"
    /\ left > 0
    /\ \/ /\ Has(8) /\ s[7] <= 1
          /\ block' = [id |-> s[1],
                       meta |-> [HModulus |-> s[2], HRank |-> s[3], HOffset |-> s[4],
                                 GModulus |-> s[5], GOffset |-> s[6], Inverted |-> s[7] # 0],
                       Exceptions |-> {}, listed |-> <<>>]
          /\ serials' = s[8]
          /\ Drop(8)
          /\ pc' = "exceptions"
          /\ UNCHANGED <<from, input, left, c, wire>>
       \/ ~(Has(8) /\ s[7] <= 1) /\ Refuse("malformed")

\* One exception of the block.
ReadException ==
    /\ pc = "exceptions"
    /\ serials > 0
    /\ \/ /\ Has(1) /\ Has(1 + s[1])
          /\ block' = [block EXCEPT !.Exceptions = @ \cup {SubSeq(s, 2, 1 + s[1])},
                                    !.listed = Append(@, SubSeq(s, 2, 1 + s[1]))]
          /\ serials' = serials - 1
          /\ Drop(1 + s[1])
          /\ UNCHANGED <<from, input, pc, left, c, wire>>
       \/ ~(Has(1) /\ Has(1 + s[1])) /\ Refuse("malformed")

\* The block is complete.
AddBlock ==
    /\ pc = "exceptions"
    /\ serials = 0
    /\ \/ /\ ~Duplicate(c.Blocks, block.id)
          /\ c' = [c EXCEPT !.Blocks = Add(@, block.id, [meta |-> block.meta,
                                                        Exceptions |-> block.Exceptions])]
          /\ wire' = [wire EXCEPT !.blocks = Append(@, [id |-> block.id, meta |-> block.meta,
                                                       exceptions |-> block.listed])]
          /\ left' = left - 1
          /\ pc' = "block"
          /\ block' = NoBlock
          /\ UNCHANGED <<from, input, s, serials>>
       \/ Duplicate(c.Blocks, block.id) /\ Refuse("malformed")

\* The number of columns; it is not tested against the input.
ReadColumnCount ==
    /\ pc = "columns"
    /\ \/ /\ Has(1)
          /\ left' = s[1]
          /\ Drop(1)
          /\ pc' = "column"
          /\ UNCHANGED <<from, input, serials, block, c, wire>>
       \/ ~Has(1) /\ Refuse("malformed")

\* A u64 sequence can be read (readU64Seq).
HasSeq == Has(1) /\ Fits(s[1], 1)
TakenSeq == SubSeq(s, 2, 1 + s[1])

ReadColumn ==
    /\ pc = "column"
    /\ left > 0
    /\ \/ /\ HasSeq
          /\ c' = [c EXCEPT !.X = Append(@, TakenSeq)]
          /\ wire' = [wire EXCEPT !.X = Append(@, TakenSeq)]
          /\ left' = left - 1
          /\ Drop(1 + s[1])
          /\ UNCHANGED <<from, input, pc, serials, block>>
       \/ ~HasSeq /\ Refuse("malformed")

validateBlocks(f) == \A i \in DOMAIN f.Blocks : f.Blocks[i].meta.HRank <= Len(f.X)

\* The exact filter, validateBlocks and the test for trailing bytes.
ReadExact ==
    /\ pc = "exact"
    /\ \/ /\ HasSeq
          /\ validateBlocks(c)
          /\ Len(s) = 1 + s[1]
          /\ c' = [c EXCEPT !.Y = TakenSeq]
          /\ wire' = [wire EXCEPT !.Y = TakenSeq]
          /\ Drop(1 + s[1])
          /\ pc' = "parsed"
          /\ UNCHANGED <<from, input, left, serials, block>>
       \/ ~(HasSeq /\ validateBlocks(c) /\ Len(s) = 1 + s[1]) /\ Refuse("malformed")

Next ==
    \/ ReadVersion
    \/ ReadCount("coverage", coverageEntrySize, "log")
    \/ ReadCoverage
    \/ Leave("log", "index")
    \/ ReadCount("index", minIndexEntrySize, "block")
    \/ ReadBlock \/ ReadException \/ AddBlock
    \/ Leave("block", "columns")
    \/ ReadColumnCount
    \/ ReadColumn
    \/ Leave("column", "exact")
    \/ ReadExact

Spec == Init /\ [][Next]_vars

\* FromBytes is sequential code that keeps running.
FairSpec == Spec /\ WF_vars(Next)

-----------------------------------------------------------------------------
(* Correctness *)

Refused == pc \in {"malformed", "unsupported"}

\* Nothing that Bytes cuts to a field's width is lost.
FieldsFit(meta) ==
    /\ meta.HModulus < U32 /\ meta.HOffset < U32 /\ meta.GModulus < U32 /\ meta.GOffset < U32
    /\ meta.HRank < U8

CountsFit(f) ==
    /\ Len(f.coverage) < U16 /\ Len(f.blocks) < U32 /\ Len(f.X) < U8 /\ Len(f.Y) < U32
    /\ \A n \in 1..Len(f.X) : Len(f.X[n]) < U32
    /\ \A n \in 1..Len(f.blocks) :
          FieldsFit(f.blocks[n].meta) /\ Len(f.blocks[n].exceptions) < U16

(***************************************************************************)
(* FromBytes reads what Bytes wrote: an intact encoding is never refused,  *)
(* by any of its tests of counts against the remaining input, and parses   *)
(* to the contents it encodes, every field in its place, up to the largest *)
(* counts and offsets the fields can hold.  Beyond them Bytes cuts what it *)
(* writes and does not panic, hence the condition.                         *)
(***************************************************************************)
ReadsBack ==
    CountsFit(from) /\ input = Encode(from) =>
        /\ pc = "parsed" => c = Meaning(from)
        /\ ~Refused

(***************************************************************************)
(* A parsed input is, cell for cell, the layout of what was read, and the  *)
(* filter is what that layout means: nothing is left unread, read          *)
(* into the wrong field or silently overwritten, and every rank Contains   *)
(* will use as a column count has that many columns.                       *)
(***************************************************************************)
ParsedIsFaithful ==
    pc = "parsed" =>
        /\ Layout(wire) = input
        /\ c = Meaning(wire)
        /\ Cardinality(DOMAIN c.coverage) = Len(wire.coverage)
        /\ Cardinality(DOMAIN c.Blocks) = Len(wire.blocks)
        /\ \A i \in DOMAIN c.Blocks : c.Blocks[i].meta.HRank <= Len(c.X)

(***************************************************************************)
(* FromBytes returns on every input, however large the counts it claims.   *)
(***************************************************************************)
ParseEnds == <>(pc = "parsed" \/ Refused)
=============================================================================
