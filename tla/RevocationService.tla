-------------------------- MODULE RevocationService --------------------------
(***************************************************************************)
(* What a Checker promises to its callers, without locks, readers, passes  *)
(* or filter files: a check gets its answer in one instant between its     *)
(* call and its return, from the index that is in use at that instant.     *)
(* The index in use only ever moves to a later publication, and after      *)
(* Close there is none.                                                    *)
(***************************************************************************)
EXTENDS Naturals, Verdicts

CONSTANTS
    Proc,       \* callers
    Atomic,     \* does the cache keep its atomicity contract?
    Patience    \* cache updates a check survives under that contract

VARIABLES
    pubs,       \* the indexes published so far
    cur,        \* which of them is in use; 0 when none is
    closed,     \* has Close run?
    asked,      \* callers that wait for an answer: what they asked, and when
    answers     \* the answers not yet taken by their callers

vars == <<pubs, cur, closed, asked, answers>>

Latest == Len(pubs)

Init ==
    /\ pubs = <<>>
    /\ cur = 0
    /\ closed = FALSE
    /\ asked = <<>>
    /\ answers = <<>>

Publish ==
    /\ \E i \in Index : pubs' = Append(pubs, i)
    /\ UNCHANGED <<cur, closed, asked, answers>>

\* The first index, or under the contract a strictly later one.
Advance ==
    /\ ~closed
    /\ Latest > 0 /\ pubs[Latest].ok
    /\ Atomic => Latest > cur
    /\ cur' = Latest
    /\ UNCHANGED <<pubs, closed, asked, answers>>

Without(p, f) == Restrict(f, DOMAIN f \ {p})
With(p, v, f) == [q \in DOMAIN f \cup {p} |-> IF q = p THEN v ELSE f[q]]

Ask(p, l) ==
    /\ cur > 0 \/ closed
    /\ p \notin DOMAIN asked \cup DOMAIN answers
    /\ IF Usable(l)
       THEN asked' = With(p, [leaf |-> l, since |-> Latest], asked) /\ UNCHANGED answers
       ELSE answers' = With(p, Rejection(l), answers) /\ UNCHANGED asked
    /\ UNCHANGED <<pubs, cur, closed>>

\* The answers a check may get now.
Answers(q) ==
    IF cur = 0 THEN {Fail("Closed")}
    ELSE {res \in {Conclude(s) : s \in {"Revoked", "NotRevoked", "NotCovered"}} \cup
                  {Fail(e) : e \in {"Lookup", "IO", "NotExist", "BadFilter", "Inconsistent", "Reopen"}} :
            /\ Justified(pubs[cur], q.leaf, res)
            /\ Atomic /\ res.err = "NotExist" => Latest >= q.since + Patience}

Reply(p) ==
    /\ p \in DOMAIN asked
    /\ \E res \in Answers(asked[p]) : answers' = With(p, res, answers)
    /\ asked' = Without(p, asked)
    /\ UNCHANGED <<pubs, cur, closed>>

Take(p) ==
    /\ p \in DOMAIN answers
    /\ answers' = Without(p, answers)
    /\ UNCHANGED <<pubs, cur, closed, asked>>

Shut ==
    /\ cur > 0
    /\ cur' = 0
    /\ closed' = TRUE
    /\ UNCHANGED <<pubs, asked, answers>>

Next ==
    \/ Publish
    \/ Advance
    \/ Shut
    \/ \E p \in Proc : Reply(p) \/ Take(p) \/ \E l \in Leaf : Ask(p, l)

Spec == Init /\ [][Next]_vars
=============================================================================
