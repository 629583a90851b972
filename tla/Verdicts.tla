------------------------------ MODULE Verdicts ------------------------------
(***************************************************************************)
(* What the cache holds and what may be concluded from it.                 *)
(*                                                                         *)
(* An index (index.bin) is a record: ok says whether NewIndexFromReader    *)
(* accepts it, sel[s] is the list of filter files its Lookup selects for   *)
(* the SCT s, and bad holds the SCTs whose log has a corrupt entry         *)
(* section, for which Lookup fails.  A filter file is known by its name,   *)
(* which stands for its contents, and by what Contains answers.            *)
(***************************************************************************)
EXTENDS Sequences, Functions

CONSTANTS
    SCT,        \* (log id, timestamp) pairs
    Filename,   \* names of filter files
    Index,      \* contents of index.bin
    Leaf,       \* chains passed to Check, by their leaf certificate
    Scts,       \* Scts[l]: the SCTs embedded in l, in order
    Defects,    \* Defects[l]: why Check rejects l before any lookup
    Answer      \* Answer[f][l]: what the filter file f says of l

Conclusions == {"Good", "NotCovered", "NotEnrolled", "Revoked"}

ASSUME VerdictAssumption ==
    /\ Index \subseteq [ok : BOOLEAN, sel : [SCT -> Seq(Filename)], bad : SUBSET SCT]
    /\ Scts \in [Leaf -> Seq(SCT)]
    /\ Defects \in [Leaf -> SUBSET {"ChainTooShort", "MalformedSCT", "MalformedTBS"}]
    /\ Answer \in [Filename -> [Leaf -> Conclusions \cup {"Malformed"}]]

-----------------------------------------------------------------------------
(* Results *)

Fail(e) == [status |-> "NotCovered", err |-> e]
Conclude(s) == [status |-> s, err |-> "nil"]

Errors == {"nil", "ChainTooShort", "MalformedSCT", "MalformedTBS", "Closed", "Lookup",
           "IO", "NotExist", "BadFilter", "Inconsistent", "Reopen"}
Result == [status : {"NotCovered", "Revoked", "NotRevoked"}, err : Errors]

\* Does Check get past its own tests of the chain?
Usable(l) == Defects[l] = {} /\ Scts[l] # <<>>

\* What Check returns when it does not.
Rejection(l) ==
    IF "ChainTooShort" \in Defects[l] THEN Fail("ChainTooShort")
    ELSE IF "MalformedSCT" \in Defects[l] THEN Fail("MalformedSCT")
    ELSE IF Scts[l] = <<>> THEN Conclude("NotCovered")
    ELSE Fail("MalformedTBS")

-----------------------------------------------------------------------------
(* Which results an index justifies *)

\* The filters that the index i selects for the SCTs of l.
Selected(i, l) == UNION {Range(i.sel[s]) : s \in Range(Scts[l])}

AnswersOf(F, l) == {Answer[f][l] : f \in F}

\* What Check documents about its results, for contents i of the index.
Justified(i, l, res) ==
    LET A == AnswersOf(Selected(i, l), l)
    IN  /\ res.status = "Revoked" => "Revoked" \in A
        /\ res.status = "NotRevoked" =>
              /\ "Good" \in A
              /\ A \subseteq {"Good", "NotCovered", "NotEnrolled"}
        /\ res = Conclude("NotCovered") =>
              /\ A \subseteq {"NotCovered", "NotEnrolled"}
              /\ A # {"NotCovered"}
        /\ res.err = "Inconsistent" => A = {"NotCovered"}
        /\ res.err \in {"nil", "Inconsistent"} /\ res.status # "Revoked" =>
              Range(Scts[l]) \cap i.bad = {}
=============================================================================
