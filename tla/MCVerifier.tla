----------------------------- MODULE MCVerifier ------------------------------
(***************************************************************************)
(* Handshakes with up to two chains: a leaf every filter revokes, one that *)
(* filter f1 revokes and f2 clears, one whose issuer is not enrolled and   *)
(* one without SCTs.  One reopen is enough here: MCChecker has two.        *)
(***************************************************************************)
EXTENDS Verifier

CONSTANTS p1, h1, h2, f1, f2, s1, revoked, changing, unenrolled, bare

MCScts == [l \in Leaf |-> IF l = bare THEN <<>> ELSE <<s1>>]
MCDefects == [l \in Leaf |-> {}]
MCAnswer ==
    [f \in Filename |-> [l \in Leaf |->
        IF l = revoked THEN "Revoked"
        ELSE IF l = changing THEN (IF f = f1 THEN "Revoked" ELSE "Good")
        ELSE "NotEnrolled"]]

Naming(f, ok) == [ok |-> ok, sel |-> [s \in SCT |-> <<f>>], bad |-> {}]
MCIndex == {Naming(f1, TRUE), Naming(f2, TRUE), Naming(f2, FALSE)}

Chains == {<<>>, <<bare>>, <<revoked>>, <<changing>>} \cup
          {<<a, b>> : a \in {changing, unenrolled}, b \in {revoked, unenrolled}}

MCRequests ==
    [caller : {"verifier"}, strict : BOOLEAN, chains : Chains]
    \cup [caller : {"Check"}, strict : {FALSE}, chains : {<<bare>>, <<changing>>}]
=============================================================================
