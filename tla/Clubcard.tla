------------------------------ MODULE Clubcard ------------------------------
(***************************************************************************)
(* The membership test of a clubcard filter (internal/clubcard.go) and the *)
(* query of a CRLite filter built on it (crlite/crlite.go).                *)
(*                                                                         *)
(* A word is the set of its bits, numbered from the least significant; a   *)
(* column is a sequence of words; a coefficient vector is the set of its   *)
(* bits over W words.  SHA-256 is whatever vector Hash assigns to a serial *)
(* of an issuer.                                                           *)
(***************************************************************************)
EXTENDS FiniteSetsExt, Sequences

CONSTANTS
    B,              \* bits of a word; 64 in the code
    W,              \* words of a coefficient vector
    Hash(_, _)      \* Hash(issuer, serial): SHA256(issuer || serial)

ASSUME ClubcardAssumption == B \in Nat \ {0} /\ W \in Nat \ {0}

Word == SUBSET (0..(B - 1))
Vector == SUBSET (0..(W * B - 1))

-----------------------------------------------------------------------------
(* Words *)

\* w >> k and w << k
ShiftRight(w, k) == {b - k : b \in {x \in w : x >= k}}
ShiftLeft(w, k) == {b + k : b \in {x \in w : x + k < B}}

\* Words compare as the numbers they stand for, and the number of a word is
\* that of the words below it.
Below(v, w) == \E b \in w \ v : \A c \in v \ w : c < b
Value(w) == Cardinality({v \in Word : Below(v, w)})

\* The i-th word of a vector, from 0.
Limb(a, i) == {b \in 0..(B - 1) : i * B + b \in a}

\* A bug to detect: the bits that come from the next word are left out.
WordOnly(column, i, shift) == ShiftRight(column[i + 1], shift)

\* B bits of column from bit shift of its word i on.
WordsAt(column, i, shift) ==
    ShiftRight(column[i + 1], shift) \cup
    IF shift # 0 /\ i + 1 < Len(column) THEN ShiftLeft(column[i + 2], B - shift) ELSE {}

\* The words of column that the loop of bitsXorIsZero visits.
Visited(column, limb) == limb..(Min({Len(column), limb + W}) - 1)

\* bits.OnesCount64(r) & 1 == 0, where r has the bits that an odd number of
\* rounds of the loop flip.
bitsXorIsZero(column, rowOffset, coef) ==
    LET limb == rowOffset \div B
        shift == rowOffset % B
        flips(b) == {i \in Visited(column, limb) :
                        b \in WordsAt(column, i, shift) \cap Limb(coef, i - limb)}
        r == {b \in 0..(B - 1) : Cardinality(flips(b)) % 2 = 1}
    IN  Cardinality(r) % 2 = 0

-----------------------------------------------------------------------------
(* Filter.Contains *)

\* aLimbs[0] |= 1
Aligned(a) == a \cup {0}

\* The value of the most significant word.
High(a) == Value(Limb(a, W - 1))

\* The approximate filter excludes the element with vector a.
ExcludedByX(f, meta, a) ==
    \E i \in 1..meta.HRank :
        ~bitsXorIsZero(f.X[i], meta.HOffset + (High(a) % meta.HModulus), a)

\* The exact filter does.
ExcludedByY(f, meta, a) ==
    /\ meta.GModulus # 0
    /\ ~bitsXorIsZero(f.Y, meta.GOffset + (High(a) % meta.GModulus), a)

\* Filter.Contains; an empty block includes nothing.
FilterContains(f, meta, hash, serial) ==
    LET a == Aligned(hash)
        in == /\ meta.HModulus # 0
              /\ ~ExcludedByX(f, meta, a)
              /\ ~ExcludedByY(f, meta, a)
              /\ serial \notin meta.Exceptions
    IN  in # meta.Inverted

-----------------------------------------------------------------------------
(* RevocationFilter.Contains.  A filter is its coverage and its clubcard; a *)
(* key is an issuer and a serial; t is a log id and a timestamp.            *)

NewKey(issuer, serial) ==
    [Issuer |-> issuer, Serial |-> serial, IssuerSerialHash |-> Hash(issuer, serial)]

Covered(coverage, t) ==
    /\ t.LogId \in DOMAIN coverage
    /\ coverage[t.LogId].low <= t.Timestamp
    /\ t.Timestamp <= coverage[t.LogId].high

containsAt(c, key, t) ==
    IF ~Covered(c.coverage, t) THEN "NotCovered"
    ELSE IF key.Issuer \notin DOMAIN c.filter.Blocks THEN "NotEnrolled"
    ELSE IF FilterContains(c.filter, c.filter.Blocks[key.Issuer], key.IssuerSerialHash, key.Serial)
    THEN "Revoked"
    ELSE "Good"

Contains(c, key, timestamps) ==
    LET conclusive == {n \in DOMAIN timestamps : containsAt(c, key, timestamps[n]) # "NotCovered"}
    IN  IF conclusive = {} THEN "NotCovered" ELSE containsAt(c, key, timestamps[Min(conclusive)])

Highs(c) == {c.coverage[l].high : l \in DOMAIN c.coverage}

\* A bug to detect: a running minimum.
OldestCutoff(c) == IF Highs(c) = {} THEN 0 ELSE Min(Highs(c))

NewestCoverageCutoff(c) == Max(Highs(c) \cup {0})

CoverageCutoffForLog(c, id) ==
    IF id \in DOMAIN c.coverage THEN [Timestamp |-> c.coverage[id].high, ok |-> TRUE]
    ELSE [Timestamp |-> 0, ok |-> FALSE]
=============================================================================
