----------------------------- MODULE MCReencode ------------------------------
(***************************************************************************)
(* Four source caches one after the other: an update that adds a filter    *)
(* and rewrites another, one that drops a filter and leaves another one    *)
(* undecodable, and one that is good again.                                *)
(***************************************************************************)
EXTENDS Reencode, TLC

C(fs, versions) == [manifest |-> fs, names |-> DOMAIN versions, files |-> versions]

MCCache == <<
    C(<<"a", "b">>, ("a" :> 1) @@ ("b" :> 1)),
    C(<<"c", "b", "a">>, ("c" :> 2) @@ ("b" :> 2) @@ ("a" :> 1)),
    C(<<"b", "a">>, ("b" :> 2) @@ ("a" :> 0)),
    C(<<"a", "c">>, ("a" :> 4) @@ ("c" :> 2))>>
=============================================================================
