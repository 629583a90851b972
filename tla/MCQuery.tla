------------------------------- MODULE MCQuery -------------------------------
(***************************************************************************)
(* crlite-query on two kinds of certificates.  Readable ones have serials  *)
(* that differ only in sign bytes, one revoked and one not, and meet every *)
(* command line.  Shapes, in all their parts, are intact or have one cell  *)
(* of either encoding changed, cut off, put in or taken out, and meet the  *)
(* command line where nothing is wrong.                                    *)
(***************************************************************************)
EXTENDS CrliteQuery

Sct(log, ts, exts, sig) ==
    [version |-> 0, LogID |-> log, Timestamp |-> ts, extensions |-> exts, signature |-> sig]

Serials == {<<5>>, <<0, 5>>, <<0, 0, 5>>}

Readable ==
    {[scts |-> l, before |-> <<>>, version |-> TLV(VERSION, <<2>>), serial |-> n, rest |-> <<>>] :
        n \in Serials,
        l \in {{}, {<<>>}} \cup {{[k \in 1..Len(ts) |-> Sct(ts[k][1], ts[k][2], <<>>, <<7>>)]} :
                ts \in {<<<<1, 3>>>>, <<<<1, 4>>>>, <<<<2, 1>>, <<1, 1>>>>, <<<<1, 1>>, <<2, 1>>>>,
                       <<<<2, 1>>, <<1, 0>>>>}}}

Lists == {<<>>, <<Sct(1, 2, <<>>, <<>>)>>,
          <<Sct(2, 0, <<3>>, <<1>>)>>,
          <<Sct(1, 1, <<>>, <<0, 2>>), Sct(1, 0, <<2, 0>>, <<1>>)>>}

OtherExtension == [Id |-> 15, Value |-> <<4, 0>>]

Shapes ==
    {[scts |-> l, before |-> b, version |-> v, serial |-> n, rest |-> r] :
        l \in {{}} \cup {{x} : x \in Lists}, b \in {<<>>, <<OtherExtension>>},
        v \in {<<>>, TLV(VERSION, <<2>>)}, n \in {<<5>>, <<0, 5>>}, r \in {<<>>, <<2, 1, 1>>}}

MCContents == Readable \cup Shapes

\* The cells that a changed place may get.
Cells == 0..5 \cup {SEQUENCE, VERSION}

Damaged(e) ==
    {[e EXCEPT ![k] = v] : k \in 1..Len(e), v \in Cells}
    \cup {SubSeq(e, 1, k) : k \in 0..Len(e)}
    \cup {SubSeq(e, 1, k) \o <<v>> \o SubSeq(e, k + 1, Len(e)) : k \in 0..Len(e), v \in {0, 1}}
    \cup {SubSeq(e, 1, k - 1) \o SubSeq(e, k + 1, Len(e)) : k \in 1..Len(e)}

\* A second list after the first; and damage to the list of a certificate or
\* to its TBSCertificate.
MCDamage(f) ==
    LET e == Encode(f)
        n == Len(e.Extensions)
    IN  {e, [e EXCEPT !.Extensions = @ \o <<[Id |-> embeddedSCTOID, Value |-> SCTExtension(<<>>)]>>]}
        \cup (IF f \notin Shapes \/ f.scts = {} \/ f.rest # <<>> \/ f.version # <<>> THEN {} ELSE
                 {[e EXCEPT !.Extensions[n].Value = v] : v \in Damaged(e.Extensions[n].Value)})
        \cup (IF f \notin Shapes \/ f.before # <<>> THEN {} ELSE
                 {[e EXCEPT !.RawTBSCertificate = v] : v \in Damaged(e.RawTBSCertificate)})

\* SHA-256 of issuer and serial.
MCHash(issuer, n) == {Len(n)} \cup {issuer}

MCBlock == [HModulus |-> 1, HRank |-> 0, HOffset |-> 0, GModulus |-> 1, GOffset |-> 0,
            Inverted |-> FALSE, Exceptions |-> {}]

\* A clubcard whose exact filter singles out the revoked serials of issuer 1.
Card(revoked) ==
    CHOOSE c \in {[X |-> <<>>, Y |-> <<w1, w2>>, Blocks |-> [i \in {1} |-> MCBlock]] :
                     w1 \in Word, w2 \in Word} :
        \A n \in Serials : FilterContains(c, MCBlock, MCHash(1, n), n) <=> n \in revoked

\* Log 1 is covered up to 3 and log 3 only at 0.
Filter(revoked) ==
    [coverage |-> [l \in {1, 3} |-> [low |-> l % 3, high |-> IF l = 1 THEN 3 ELSE 0]],
     filter |-> Card(revoked), revoked |-> [i \in {1} |-> revoked]]

Good == [filter |-> {Filter({<<0, 5>>})}, issuer |-> {1}, ee |-> TRUE, signer |-> 1,
         now |-> 5, NotBefore |-> 4, NotAfter |-> 6]

MCArgs(f) ==
    {Good} \cup
    (IF f \notin Readable THEN {} ELSE
        {[Good EXCEPT !.filter = {Filter(r)}] : r \in {{}, {<<5>>}, {<<5>>, <<0, 0, 5>>}}} \cup
        {[Good EXCEPT !.now = n] : n \in {3, 4, 6, 7}} \cup
        {[Good EXCEPT !.issuer = i, !.signer = g] : i \in {{}, {1}, {2}}, g \in {1, 2}} \cup
        {[Good EXCEPT !.filter = {}], [Good EXCEPT !.ee = FALSE]})
=============================================================================
