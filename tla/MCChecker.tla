------------------------------ MODULE MCChecker ------------------------------
(***************************************************************************)
(* Instances of Checker about interleavings: few filters and leaves, two   *)
(* goroutines, and indexes that take turns so that every update removes a  *)
(* filter the one before it named.                                         *)
(***************************************************************************)
EXTENDS CheckerRefinement, TLC

CONSTANTS p1, p2, h1, h2, h3, h4, f1, f2, s1, l1, l2, l3

MCScts == [l \in Leaf |-> <<s1>>]
MCDefects == [l \in Leaf |-> {}]
MCAnswer == [f \in Filename |-> [l \in Leaf |-> IF f = f1 THEN "Good" ELSE "NotEnrolled"]]

IndexNaming(fs) == [ok |-> TRUE, sel |-> [s \in SCT |-> fs], bad |-> {}]

MCIndex == {IndexNaming(<<f1>>), IndexNaming(<<f2>>)}

\* For liveness one update is enough: its filter comes and goes.  All ways out
\* of a pass are there: a filter may revoke or be malformed, be named twice,
\* and the section of the index may be corrupt.
OneUpdate == {IndexNaming(<<f1, f1>>), [IndexNaming(<<>>) EXCEPT !.bad = SCT]}
AnyAnswer ==
    [f \in Filename |-> [l \in Leaf |->
        CASE l = l1 -> "Good" [] l = l2 -> "Revoked" [] l = l3 -> "Malformed"]]

Symmetry == Permutations(Proc) \cup Permutations(Handle)
=============================================================================
