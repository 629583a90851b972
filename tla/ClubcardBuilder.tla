--------------------------- MODULE ClubcardBuilder ---------------------------
(***************************************************************************)
(* The clubcard builder (internal/test/clubcard_encode.go): for each       *)
(* issuer it solves a linear system over GF(2), the ribbon, for the        *)
(* approximate filter and another one for the exact filter, then lays the  *)
(* solutions of all issuers out in shared columns.  The rounds of insert   *)
(* and of solve are actions; the random generator is a choice.             *)
(*                                                                         *)
(* An equation says that the bits of the solution at s + n, for n in a,    *)
(* sum up to b.  Rows are numbered from 1, solution bits from 0.           *)
(***************************************************************************)
EXTENDS Clubcard, Wire

CONSTANT Filters        \* the lists of issuers to build a filter for

ASSUME BuilderAssumption ==
    \A f \in Filters : f \in Seq(Range(f)) /\ \A n \in 1..Len(f) :
        /\ f[n].id \in Nat
        /\ f[n].Revoked \in Seq(Range(f[n].Revoked))
        /\ f[n].NotRevoked \in Seq(Range(f[n].NotRevoked))
        /\ \A s \in Range(f[n].Revoked) \cup Range(f[n].NotRevoked) : Hash(f[n].id, s) \in Vector
        /\ \A m \in 1..Len(f) : f[m].id = f[n].id => m = n
        /\ Range(f[n].Revoked) \cap Range(f[n].NotRevoked) = {}

VARIABLES
    issuers,    \* Filter.Issuers
    blocks,     \* the blocks built so far
    pc,         \* where buildBlock is
    b,          \* the block it builds
    universe,   \* the serials to insert into the present ribbon
    rows,       \* the ribbon
    eq,         \* the equation that insert works on
    k,          \* the serial it belongs to; in solve, the row at hand
    z           \* the column that solve fills in

vars == <<issuers, blocks, pc, b, universe, rows, eq, k, z>>

-----------------------------------------------------------------------------
(* Equations *)

Issuer == issuers[Len(blocks) + 1]
nR == Len(Issuer.Revoked)
nU == nR + Len(Issuer.NotRevoked)

ZeroEq == [s |-> 0, a |-> {}, b |-> 0]

isZero(e) == e.a = {}

\* The coefficient vector of a serial (hashAll).
Item(serial) == Hash(Issuer.id, serial) \cup {0}

equation(serial, m, rhs) == [s |-> High(Item(serial)) % m, a |-> Item(serial), b |-> rhs]

\* Bits that are added to a sum over GF(2).
Plus(x, y) == (x + y) % 2

\* Bugs to detect: the sum is lost; it is not aligned again.
AddForgotten(e, other) == e
AddUnaligned(e, other) ==
    [s |-> e.s, a |-> SymDiff(e.a, other.a), b |-> Plus(e.b, other.b)]

\* equation.add: the sum, shifted so that its lowest coefficient is at 0.
add(e, other) ==
    LET sum == SymDiff(e.a, other.a)
        low == IF sum = {} THEN 0 ELSE Min(sum)
    IN  [s |-> e.s + low, a |-> {n - low : n \in sum}, b |-> Plus(e.b, other.b)]

\* equation.eval, word for word the loop of bitsXorIsZero.
eval(e, col) == IF bitsXorIsZero(col, e.s, e.a) THEN 0 ELSE 1

-----------------------------------------------------------------------------
(* buildBlock *)

Zeros(n) == [m \in 1..n |-> {}]
newRibbon(m) == [n \in 1..m |-> ZeroEq]

\* A bug to detect: no room for the windows of the last rows.
SolutionUnpadded(n) == Zeros((n + B - 1) \div B)

\* The column solve starts from, for n rows.
Solution(n) == Zeros(((n + B - 1) \div B) + W)

NoBlock == [id |-> 0, inverted |-> FALSE, approxM |-> 0, rank |-> 0, approxSegs |-> <<>>,
            exactM |-> 0, exactSeg |-> <<>>, exceptions |-> {}]

\* bits.Len(n) - 1
Log2(n) == CHOOSE e \in 0..n : 2 ^ e <= n /\ n < 2 ^ (e + 1)

\* The block of the issuer before any ribbon is solved.
Sized ==
    [NoBlock EXCEPT !.id = Issuer.id,
                    !.inverted = nR > 0 /\ nR = nU,
                    !.approxM = IF nR = 0 \/ nR = nU THEN 0 ELSE nR + (nR \div 50),
                    !.rank = IF nR > 0 /\ 2 * nR < nU THEN Log2((nU - nR) \div nR) ELSE 0]

passesApprox(blk, serial) ==
    \A n \in 1..Len(blk.approxSegs) : eval(equation(serial, blk.approxM, 0), blk.approxSegs[n]) = 0

\* A bug to detect: the serials that are not revoked come first.
GoodFirst(serial) == <<serial>> \o universe

\* The universe with one more serial that the approximate filter lets through.
Extended(serial) == Append(universe, serial)

exactM(u) == Len(u) + (Len(u) \div 50)

\* The ribbon in hand is the one for the exact filter.
Exact == b.exactM > 0

M(blk) == IF blk.exactM > 0 THEN blk.exactM ELSE blk.approxM

\* The equation for the n-th serial of u.
EquationFor(blk, u, n) ==
    equation(u[n], M(blk), IF blk.exactM > 0 /\ n > nR THEN 1 ELSE 0)

\* Start on a ribbon for blk and the serials u.
StartRibbon(blk, u) ==
    /\ b' = blk
    /\ universe' = u
    /\ rows' = newRibbon(M(blk))
    /\ k' = 1
    /\ eq' = EquationFor(blk, u, 1)
    /\ pc' = "insert"
    /\ UNCHANGED <<issuers, blocks, z>>

\* The approximate filter of blk is done.  What the exact one has to tell apart
\* is all that passes, to begin with the serials that are revoked.
StartSelect(blk) ==
    /\ b' = blk
    /\ universe' = Issuer.Revoked
    /\ k' = 1
    /\ pc' = "select"
    /\ UNCHANGED <<issuers, blocks, rows, eq, z>>

\* The blocks that need no ribbon.
EmptyBlock == nR = 0 \/ nR = nU

buildBlock ==
    /\ pc = "block"
    /\ Len(blocks) < Len(issuers)
    /\ \/ /\ EmptyBlock
          /\ blocks' = Append(blocks, Sized)
          /\ UNCHANGED <<issuers, pc, b, universe, rows, eq, k, z>>
       \/ ~EmptyBlock /\ Sized.rank > 0 /\ StartRibbon(Sized, Issuer.Revoked)
       \/ ~EmptyBlock /\ Sized.rank = 0 /\ StartSelect(Sized)

\* One round of the loop over the serials that are not revoked.
Select ==
    /\ pc = "select"
    /\ k <= Len(Issuer.NotRevoked)
    /\ universe' = IF passesApprox(b, Issuer.NotRevoked[k]) THEN Extended(Issuer.NotRevoked[k])
                   ELSE universe
    /\ k' = k + 1
    /\ UNCHANGED <<issuers, blocks, pc, b, rows, eq, z>>

StartExact ==
    /\ pc = "select"
    /\ k > Len(Issuer.NotRevoked)
    /\ StartRibbon([b EXCEPT !.exactM = exactM(universe)], universe)

\* The rows, with enough of them for a row s.
RowsUpTo(s) ==
    [n \in 1..Max({Len(rows), s + 1}) |-> IF n <= Len(rows) THEN rows[n] ELSE ZeroEq]

\* insert returned: go on to the next serial, or to solve.
Inserted ==
    \/ /\ k < Len(universe)
       /\ k' = k + 1
       /\ eq' = EquationFor(b, universe, k + 1)
       /\ UNCHANGED <<pc, z>>
    \/ /\ k = Len(universe)
       /\ pc' = "solve"
       /\ k' = Len(rows')
       /\ z' = Solution(Len(rows'))
       /\ UNCHANGED eq

\* insert finds the row free.
Place ==
    /\ pc = "insert"
    /\ ~isZero(eq)
    /\ isZero(RowsUpTo(eq.s)[eq.s + 1])
    /\ rows' = [RowsUpTo(eq.s) EXCEPT ![eq.s + 1] = eq]
    /\ Inserted
    /\ UNCHANGED <<issuers, blocks, b, universe>>

\* insert finds the row taken and eliminates.
Eliminate ==
    /\ pc = "insert"
    /\ ~isZero(eq)
    /\ rows' = RowsUpTo(eq.s)
    /\ ~isZero(rows'[eq.s + 1])
    /\ eq' = add(eq, rows'[eq.s + 1])
    /\ UNCHANGED <<issuers, blocks, pc, b, universe, k, z>>

\* Nothing is left of the equation; if it has become 0 = 1 insert fails,
\* which only the exact filter records.
Vanish ==
    /\ pc = "insert"
    /\ isZero(eq)
    /\ b' = IF Exact /\ eq.b = 1 THEN [b EXCEPT !.exceptions = @ \cup {universe[k]}] ELSE b
    /\ rows' = rows
    /\ Inserted
    /\ UNCHANGED <<issuers, blocks, universe>>

\* z with bit n set.
SetBit(n) == [z EXCEPT ![(n \div B) + 1] = @ \cup {n % B}]

\* solve, one row after the other from the last; a free row is random.
SolveRow ==
    /\ pc = "solve"
    /\ k > 0
    /\ \E bit \in IF isZero(rows[k]) THEN {0, 1} ELSE {Plus(eval(rows[k], z), rows[k].b)} :
          z' = IF bit = 1 THEN SetBit(k - 1) ELSE z
    /\ k' = k - 1
    /\ UNCHANGED <<issuers, blocks, pc, b, universe, rows, eq>>

\* A column of the approximate filter is ready.
ApproxSolved ==
    /\ pc = "solve" /\ k = 0 /\ ~Exact
    /\ LET blk == [b EXCEPT !.approxSegs = Append(@, z)]
       IN  \/ /\ Len(blk.approxSegs) < b.rank
              /\ b' = blk
              /\ k' = Len(rows)
              /\ z' = Solution(Len(rows))
              /\ UNCHANGED <<issuers, blocks, pc, universe, rows, eq>>
           \/ Len(blk.approxSegs) = b.rank /\ StartSelect(blk)

\* The exact filter, and with it the block, is ready.
ExactSolved ==
    /\ pc = "solve" /\ k = 0 /\ Exact
    /\ blocks' = Append(blocks, [b EXCEPT !.exactSeg = z])
    /\ pc' = "block"
    /\ b' = NoBlock /\ universe' = <<>> /\ rows' = <<>> /\ eq' = ZeroEq /\ z' = <<>>
    /\ UNCHANGED <<issuers, k>>

-----------------------------------------------------------------------------
(* Filter.Bytes: the layout of the blocks *)

\* The order of the blocks in the columns.
Before(x, y) == x.rank > y.rank \/ (x.rank = y.rank /\ x.id < y.id)

\* The blocks in that order.
Laid ==
    LET n == Len(blocks)
        order == CHOOSE p \in [1..n -> 1..n] :
                    \A i, j \in 1..n : i < j => Before(blocks[p[i]], blocks[p[j]])
    IN  [i \in 1..n |-> blocks[order[i]]]

\* The words of block x in the first column of the approximate filter and in
\* the exact one.
hSeg(x) == IF x.rank > 0 THEN x.approxSegs[1] ELSE <<>>
gSeg(x) == x.exactSeg

\* The row at which block n begins in the approximate and in the exact filter.
hOff(n) == B * Len(SX!FlattenSeq([m \in 1..(n - 1) |-> hSeg(Laid[m])]))
gOff(n) == B * Len(SX!FlattenSeq([m \in 1..(n - 1) |-> gSeg(Laid[m])]))

Meta(n) ==
    [HOffset |-> IF Laid[n].rank > 0 THEN hOff(n) ELSE 0,
     HModulus |-> Laid[n].approxM,
     HRank |-> Laid[n].rank,
     GOffset |-> IF Laid[n].exactM > 0 THEN gOff(n) ELSE 0,
     GModulus |-> Laid[n].exactM,
     Exceptions |-> Laid[n].exceptions,
     Inverted |-> Laid[n].inverted]

maxRank == Max({0} \cup {blocks[n].rank : n \in 1..Len(blocks)})

\* Column i of the approximate filter.
Column(i) ==
    SX!FlattenSeq([n \in 1..Len(blocks) |->
                      IF Laid[n].rank >= i THEN Laid[n].approxSegs[i] ELSE <<>>])

\* The clubcard that the bytes describe.
Built ==
    [X |-> [i \in 1..maxRank |-> Column(i)],
     Y |-> SX!FlattenSeq([n \in 1..Len(blocks) |-> Laid[n].exactSeg]),
     Blocks |-> [id \in {blocks[n].id : n \in 1..Len(blocks)} |->
                    Meta(CHOOSE n \in 1..Len(blocks) : Laid[n].id = id)]]

Bytes ==
    /\ pc = "block"
    /\ Len(blocks) = Len(issuers)
    /\ pc' = "built"
    /\ UNCHANGED <<issuers, blocks, b, universe, rows, eq, k, z>>

-----------------------------------------------------------------------------
(* The builder *)

Init ==
    /\ issuers \in Filters
    /\ blocks = <<>>
    /\ pc = "block"
    /\ b = NoBlock
    /\ universe = <<>>
    /\ rows = <<>>
    /\ eq = ZeroEq
    /\ k = 0
    /\ z = <<>>

Next ==
    \/ buildBlock \/ Select \/ StartExact
    \/ Place \/ Eliminate \/ Vanish
    \/ SolveRow \/ ApproxSolved \/ ExactSolved
    \/ Bytes

Spec == Init /\ [][Next]_vars

\* The builder is sequential code that keeps running.
FairSpec == Spec /\ WF_vars(Next)

-----------------------------------------------------------------------------
(* Correctness *)

(***************************************************************************)
(* "Non-zero rows[i] always have s == i", and they are aligned: back       *)
(* substitution needs both, and elimination must bring it about however    *)
(* far it shifts an equation.                                              *)
(***************************************************************************)
RowsAligned ==
    /\ \A n \in 1..Len(rows) : ~isZero(rows[n]) => rows[n].s = n - 1 /\ 0 \in rows[n].a
    /\ pc = "insert" /\ ~isZero(eq) => 0 \in eq.a

(***************************************************************************)
(* "Revoked (homogeneous, b = 0) insertions never fail, so inserting them  *)
(* first guarantees exceptions only record not-revoked serials": otherwise *)
(* the query would call a revoked certificate good.                        *)
(***************************************************************************)
ExceptionsNotRevoked ==
    Len(blocks) < Len(issuers) => b.exceptions \subseteq Range(Issuer.NotRevoked)

\* The bit of column in row n; "rows past the end of column read as zero".
BitSet(column, n) == n \div B < Len(column) /\ n % B \in column[(n \div B) + 1]

(***************************************************************************)
(* bitsXorIsZero "reports whether the dot product of coef with the 256     *)
(* bits of column starting at rowOffset is 0 over GF(2)", across word      *)
(* boundaries and past the column's end, for every column that is built.   *)
(***************************************************************************)
IsDotProduct ==
    pc = "built" =>
        LET filter == Built
        IN  \A column \in Range(filter.X) \cup {filter.Y} :
              \A row \in 0..(B * Len(column) + 1), coef \in Vector :
                 bitsXorIsZero(column, row, coef) <=>
                     Cardinality({n \in coef : BitSet(column, row + n)}) % 2 = 0

\* A log the filter covers from 1 to 2, and SCTs outside and at its ends.
Coverage == [log \in {1} |-> [low |-> 1, high |-> 2]]
Outside == {[LogId |-> 1, Timestamp |-> 0], [LogId |-> 1, Timestamp |-> 3], [LogId |-> 2, Timestamp |-> 1]}
AtEnds == {[LogId |-> 1, Timestamp |-> 1], [LogId |-> 1, Timestamp |-> 2]}

\* What Contains says of serial, given an SCT list that ends in a covered one.
Says(filter, id, serial) ==
    {Contains([coverage |-> Coverage, filter |-> filter], NewKey(id, serial), <<out, in>>) :
        out \in Outside, in \in AtEnds}

(***************************************************************************)
(* The query side agrees with the builder: for every issuer and serial of  *)
(* the universe, whatever the hashes, the random bits, and the other       *)
(* issuers' blocks in the same columns, a revoked serial is Revoked and a  *)
(* serial that is not is Good.                                             *)
(***************************************************************************)
QueriesExact ==
    pc = "built" =>
        LET filter == Built
        IN  \A n \in 1..Len(issuers) :
              /\ \A s \in Range(issuers[n].Revoked) : Says(filter, issuers[n].id, s) = {"Revoked"}
              /\ \A s \in Range(issuers[n].NotRevoked) : Says(filter, issuers[n].id, s) = {"Good"}

(***************************************************************************)
(* The builder ends: elimination cannot go round in circles.               *)
(***************************************************************************)
BuildEnds == <>(pc = "built")
=============================================================================
