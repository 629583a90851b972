------------------------------ MODULE MCVerdict ------------------------------
(***************************************************************************)
(* An instance of Checker about its results: one goroutine checks leaves   *)
(* for which two filters give every pair of answers, against indexes that  *)
(* select a filter for one SCT or for both, once or twice, have corrupt    *)
(* entry sections or are malformed, while the cache's writer ignores the   *)
(* atomicity contract.                                                     *)
(***************************************************************************)
EXTENDS CheckerRefinement, CheckerOpens, TLC

CONSTANTS p1, f1, f2, s1, s2, h1, h2, h3

Usual == [scts : {<<s1, s2>>}, defects : {{}},
          says : [Filename -> Conclusions \cup {"Malformed"}]]
Rejected == [scts : {<<>>, <<s1>>},
             defects : {{"ChainTooShort", "MalformedSCT"}, {"MalformedSCT"}, {"MalformedTBS"}},
             says : {[f \in Filename |-> "Revoked"]}]

MCLeaf == Usual \cup Rejected
MCScts == [l \in Leaf |-> l.scts]
MCDefects == [l \in Leaf |-> l.defects]
MCAnswer == [f \in Filename |-> [l \in Leaf |-> l.says[f]]]

Selecting(fs, gs, bad) ==
    [ok |-> TRUE, sel |-> (s1 :> fs) @@ (s2 :> gs), bad |-> bad]

MCIndex == {
    Selecting(<<f1>>, <<f2>>, {}),
    Selecting(<<f2, f1>>, <<f1>>, {}),
    Selecting(<<f1, f1>>, <<>>, {}),
    Selecting(<<>>, <<>>, {}),
    Selecting(<<f2>>, <<f1>>, {s2}),
    [Selecting(<<f1>>, <<>>, {}) EXCEPT !.ok = FALSE]}

Symmetry == Permutations(Handle)
=============================================================================
