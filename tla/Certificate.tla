----------------------------- MODULE Certificate -----------------------------
(***************************************************************************)
(* What Check and crlite-query take from the leaf certificate before they  *)
(* ask a filter (upki/sct.go): the SCTs of its embedded list, and then the *)
(* raw bytes of its serial number.                                         *)
(*                                                                         *)
(* A certificate is its extensions and the DER of its TBSCertificate.  As  *)
(* in Parser a cell is one field whatever its width: a tag, a length, a    *)
(* log id, a timestamp, or one byte of a serial.  Each round of the loop   *)
(* over the list is an action.                                             *)
(***************************************************************************)
EXTENDS Wire, FiniteSetsExt

CONSTANTS
    Contents,       \* what certificates say
    Damage(_)       \* Damage(f): the certificates, intact or not, made of f

\* Tags of the ASN.1 types that are read.
INTEGER == 2
OCTET_STRING == 4
SEQUENCE == 48
VERSION == 160

\* The id of the extension with the embedded SCTs.
embeddedSCTOID == 11129

-----------------------------------------------------------------------------
(* The encoding (RFC 6962, RFC 5280) *)

TLV(tag, x) == <<tag, Len(x)>> \o x

SerializedSCT(t) == <<t.version, t.LogID, t.Timestamp>> \o Prefixed(t.extensions) \o t.signature

EncodeSCTs(scts) == [n \in 1..Len(scts) |-> Prefixed(SerializedSCT(scts[n]))]

SCTExtension(scts) == TLV(OCTET_STRING, Prefixed(SX!FlattenSeq(EncodeSCTs(scts))))

TBSCertificate(version, serial, rest) ==
    TLV(SEQUENCE, version \o TLV(INTEGER, serial) \o rest)

\* f.scts is a set of at most one list, for the extension may be absent.
Encode(f) ==
    [Extensions |-> f.before \o (IF f.scts = {} THEN <<>> ELSE
                        <<[Id |-> embeddedSCTOID,
                           Value |-> SCTExtension(CHOOSE l \in f.scts : TRUE)]>>),
     RawTBSCertificate |-> TBSCertificate(f.version, f.serial, f.rest)]

\* The fields of an SCT that are kept.
Kept(scts) == [n \in 1..Len(scts) |->
                  [LogID |-> scts[n].LogID, Timestamp |-> scts[n].Timestamp]]

-----------------------------------------------------------------------------

VARIABLES
    from,       \* what the certificate was made of
    cert,       \* the certificate
    pc,         \* what is read next, or the outcome
    s,          \* what is left of the list
    out,        \* the SCTs read so far
    serial,     \* what RawSerial returned
    wire        \* history: the SCTs read, with the fields that are dropped

certVars == <<from, cert, pc, s, out, serial, wire>>

certInit ==
    /\ from \in Contents
    /\ cert \in Damage(from)
    /\ pc = "extension"
    /\ s = <<>>
    /\ out = <<>>
    /\ serial = <<>>
    /\ wire = <<>>

\* cryptobyte: a value with its length before it, one with its tag as well,
\* and what follows either.
HasPrefixed(x) == Len(x) >= 1 /\ Len(x) >= 1 + x[1]
Taken(x) == SubSeq(x, 2, 1 + x[1])
AfterPrefixed(x) == SubSeq(x, 2 + x[1], Len(x))

PeekASN1Tag(x, tag) == x # <<>> /\ x[1] = tag
HasTLV(x, tag) == PeekASN1Tag(x, tag) /\ HasPrefixed(Tail(x))
Body(x) == Taken(Tail(x))
AfterTLV(x) == AfterPrefixed(Tail(x))

SCT == [version : {0}, LogID : Nat, Timestamp : Nat, extensions : Seq(Nat), signature : Seq(Nat)]
Extension == [Id : Nat, Value : Seq(Nat)]

\* A certificate may have a version, has at most one list, and was damaged,
\* if at all, in a way that crypto/x509 did not notice.
ASSUME CertificateAssumption ==
    \A f \in Contents :
        /\ \A l, m \in f.scts : l \in Seq(SCT) /\ l = m
        /\ f.before \in Seq(Extension)
        /\ \A n \in 1..Len(f.before) : f.before[n].Id # embeddedSCTOID
        /\ f.version \in Seq(Nat) /\ f.serial \in Seq(Nat) /\ f.rest \in Seq(Nat)
        /\ f.version # <<>> => HasTLV(f.version, VERSION) /\ AfterTLV(f.version) = <<>>
        /\ \A d \in Damage(f) :
              d.Extensions \in Seq(Extension) /\ d.RawTBSCertificate \in Seq(Nat)

-----------------------------------------------------------------------------
(* EmbeddedSCTs *)

\* Where the extensions with the id are; the first of them counts.
Matching == {n \in 1..Len(cert.Extensions) : cert.Extensions[n].Id = embeddedSCTOID}

raw == cert.Extensions[Min(Matching)].Value

Refuse(why) == pc' = why /\ UNCHANGED <<from, cert, s, out, serial, wire>>

NoExtension ==
    /\ pc = "extension"
    /\ Matching = {}
    /\ pc' = "scts"
    /\ UNCHANGED <<from, cert, s, out, serial, wire>>

\* A bug to detect: bytes after the list are not noticed.
TailIgnored(x) == HasTLV(x, OCTET_STRING) /\ HasPrefixed(Body(x))

\* The extension is one OCTET STRING and that is one list, without a rest.
Wrapped(x) ==
    /\ HasTLV(x, OCTET_STRING) /\ AfterTLV(x) = <<>>
    /\ HasPrefixed(Body(x)) /\ AfterPrefixed(Body(x)) = <<>>

OpenList ==
    /\ pc = "extension"
    /\ Matching # {}
    /\ \/ /\ Wrapped(raw)
          /\ s' = Taken(Body(raw))
          /\ pc' = "list"
          /\ UNCHANGED <<from, cert, out, serial, wire>>
       \/ ~Wrapped(raw) /\ Refuse("malformedSCT")

\* A bug to detect: the (usual) SCT without extensions is refused.
SupportedExtended(x) ==
    Len(x) >= 4 /\ x[1] = 0 /\ x[4] > 0 /\ HasPrefixed(SubSeq(x, 4, Len(x)))

\* A serialized SCT that the tests of the loop let through.
Supported(x) == Len(x) >= 3 /\ x[1] = 0 /\ HasPrefixed(SubSeq(x, 4, Len(x)))

ReadSCT ==
    /\ pc = "list"
    /\ s # <<>>
    /\ \/ /\ HasPrefixed(s) /\ Supported(Taken(s))
          /\ LET x == Taken(s)
                 ext == SubSeq(x, 4, Len(x))
             IN  /\ out' = Append(out, [LogID |-> x[2], Timestamp |-> x[3]])
                 /\ wire' = Append(wire, [version |-> x[1], LogID |-> x[2], Timestamp |-> x[3],
                                          extensions |-> Taken(ext), signature |-> AfterPrefixed(ext)])
          /\ s' = AfterPrefixed(s)
          /\ UNCHANGED <<from, cert, pc, serial>>
       \/ ~(HasPrefixed(s) /\ Supported(Taken(s))) /\ Refuse("malformedSCT")

ListEnds ==
    /\ pc = "list"
    /\ s = <<>>
    /\ pc' = "scts"
    /\ UNCHANGED <<from, cert, s, out, serial, wire>>

-----------------------------------------------------------------------------
(* RawSerial *)

\* The TBSCertificate from its serial number on.
AtSerial(inner) == IF PeekASN1Tag(inner, VERSION) THEN AfterTLV(inner) ELSE inner

SerialReadable(tbs) ==
    /\ HasTLV(tbs, SEQUENCE)
    /\ PeekASN1Tag(Body(tbs), VERSION) => HasTLV(Body(tbs), VERSION)
    /\ HasTLV(AtSerial(Body(tbs)), INTEGER)

\* Callers go on to the serial only when there are SCTs.
NoSCTs ==
    /\ pc = "scts"
    /\ out = <<>>
    /\ Refuse("noSCTs")

RawSerial ==
    /\ pc = "scts"
    /\ out # <<>>
    /\ \/ /\ SerialReadable(cert.RawTBSCertificate)
          /\ serial' = Body(AtSerial(Body(cert.RawTBSCertificate)))
          /\ pc' = "extracted"
          /\ UNCHANGED <<from, cert, s, out, wire>>
       \/ ~SerialReadable(cert.RawTBSCertificate) /\ Refuse("malformedTBS")

Extract == NoExtension \/ OpenList \/ ReadSCT \/ ListEnds \/ NoSCTs \/ RawSerial

-----------------------------------------------------------------------------
(* Correctness *)

(***************************************************************************)
(* An intact certificate gives back what it was made of: the SCTs of its   *)
(* list in order, whatever other extensions it has, and its serial to the  *)
(* byte, with or without a version before it; it is never refused.         *)
(***************************************************************************)
IntactIsRead ==
    cert = Encode(from) =>
        /\ pc \in {"scts", "extracted"} => \A l \in from.scts : out = Kept(l)
        /\ pc = "extracted" => serial = from.serial
        /\ pc \notin {"malformedSCT", "malformedTBS"}
        /\ pc = "noSCTs" => from.scts \subseteq {<<>>}

(***************************************************************************)
(* What EmbeddedSCTs returns stands in the extension: the SCTs, with the   *)
(* parts that are dropped, encode to it cell for cell, so no byte is left  *)
(* over or read twice at any of the three levels of lengths.  And the      *)
(* serial is the INTEGER at its place in the TBSCertificate.               *)
(***************************************************************************)
ReadIsThere ==
    /\ pc \in {"scts", "extracted"} /\ Matching # {} =>
          raw = SCTExtension(wire) /\ out = Kept(wire)
    /\ pc = "extracted" =>
          LET tbs == cert.RawTBSCertificate
          IN  \E k \in 3..Len(tbs) :
                 /\ k + 1 + Len(serial) <= 2 + tbs[2]
                 /\ SubSeq(tbs, k, k + 1 + Len(serial)) = TLV(INTEGER, serial)
                 /\ k = 3 \/ (tbs[3] = VERSION /\ k = 5 + tbs[4])
=============================================================================
