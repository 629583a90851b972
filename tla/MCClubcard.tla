----------------------------- MODULE MCClubcard -----------------------------
(***************************************************************************)
(* The builder on words of 2 bits and vectors of 2 words: every vector     *)
(* collides with others, so eliminations, exceptions and windows across    *)
(* word and block boundaries all happen.                                   *)
(***************************************************************************)
EXTENDS ClubcardBuilder

\* A serial is a number and the vector it hashes to.
MCHash(issuer, serial) == serial.h

Serials(n, from) == {[n |-> n, h |-> h] : h \in from}

\* Vectors with and without their lowest bit, with every high word.
Some == {{}, {1}, {0, 1}, {1, 2}, {0, 3}, {2, 3}, {0, 1, 2, 3}}
Few == {{0}, {1, 2}, {2, 3}}

OneIssuer(id, revoked, good) == [id |-> id, Revoked |-> revoked, NotRevoked |-> good]

\* Rank 0 and rank 1 blocks of one issuer.
Single ==
    {<<OneIssuer(1, <<r1, r2>>, <<g1>>)>> :
        r1 \in Serials(1, Some), r2 \in Serials(2, Some), g1 \in Serials(3, Some)}
    \cup {<<OneIssuer(1, <<r1>>, <<g1, g2>>)>> :
        r1 \in Serials(1, Some), g1 \in Serials(3, Some), g2 \in Serials(4, Some)}

\* Rank 2.
Ranked ==
    {<<OneIssuer(1, <<r1>>, <<g1, g2, g3, g4>>)>> :
        r1 \in Serials(1, Few), g1 \in Serials(3, Few), g2 \in Serials(4, Few),
        g3 \in Serials(5, Few), g4 \in Serials(6, {{1}})}

\* Two or three issuers that share the columns, empty blocks among them.
Shared ==
    {<<OneIssuer(2, <<r1>>, <<g1>>), OneIssuer(1, <<r2>>, <<g2, g3>>)>> :
        r1 \in Serials(1, Few), g1 \in Serials(3, Few),
        r2 \in Serials(1, Few), g2 \in Serials(3, Few), g3 \in Serials(4, Few)}
    \cup {<<OneIssuer(1, <<r1>>, <<g1>>), OneIssuer(2, <<r2>>, <<g2>>)>> :
        r1 \in Serials(1, Some), g1 \in Serials(3, Some),
        r2 \in Serials(1, Few), g2 \in Serials(3, Few)}
    \cup {<<OneIssuer(1, <<r1>>, <<>>), OneIssuer(3, <<>>, <<g1>>), OneIssuer(2, <<r1>>, <<g1>>)>> :
        r1 \in Serials(1, Few), g1 \in Serials(3, Few)}

MCFilters == Single \cup Ranked \cup Shared
=============================================================================
