----------------------------- MODULE CrliteQuery -----------------------------
(***************************************************************************)
(* cmd/crlite-query: one end-entity certificate against one filter, from   *)
(* the files named on the command line to the status printed.  Certificate *)
(* and Clubcard are composed here, so that a serial goes all the way from  *)
(* the DER of the certificate to the hash that picks bits of the filter.   *)
(***************************************************************************)
EXTENDS Certificate, Clubcard

CONSTANTS
    Args(_)     \* Args(f): what the three arguments lead to, and the time of
                \* day, for a certificate made of f

\* args.filter and args.issuer are sets of at most one filter and one certificate:
\* empty when the file is not given, or cannot be read or parsed.  args.ee says
\* the same of the end-entity certificate, which is cert.

\* A filter comes with the serials its issuers have revoked, and tells whether
\* the serial it is asked about is one of them.
ASSUME QueryAssumption ==
    \A c \in Contents : \A a \in Args(c) :
        /\ \A i, j \in a.issuer : i = j
        /\ a.ee \in BOOLEAN
        /\ a.now \in Nat /\ a.NotBefore \in Nat /\ a.NotAfter \in Nat
        /\ \A f, g \in a.filter : f = g
        /\ \A f \in a.filter :
              /\ IsFiniteSet(DOMAIN f.coverage)
              /\ \A l \in DOMAIN f.coverage :
                    f.coverage[l].low \in Nat /\ f.coverage[l].high \in Nat
              /\ \A i \in DOMAIN f.filter.Blocks :
                    FilterContains(f.filter, f.filter.Blocks[i], Hash(i, c.serial), c.serial)
                        <=> c.serial \in f.revoked[i]

VARIABLES
    args,       \* the command line
    at,         \* the next thing main does
    printed     \* what it printed to standard output

vars == <<certVars, args, at, printed>>

Init ==
    /\ certInit
    /\ args \in Args(from)
    /\ at = "filter"
    /\ printed = <<>>

\* A message to standard error and os.Exit(1).
Exit == at' = "exit 1" /\ UNCHANGED <<certVars, args, printed>>

Goto(next) == at' = next /\ UNCHANGED <<certVars, args, printed>>

ReadFilter ==
    /\ at = "filter"
    /\ \/ args.filter # {} /\ Goto("issuer")
       \/ args.filter = {} /\ Exit

\* readCert for the issuer.
ReadIssuer ==
    /\ at = "issuer"
    /\ \/ args.issuer # {} /\ Goto("ee")
       \/ args.issuer = {} /\ Exit

\* readCert for the end-entity certificate.
ReadEE ==
    /\ at = "ee"
    /\ \/ args.ee /\ Goto("signature")
       \/ ~args.ee /\ Exit

\* ee.CheckSignatureFrom(issuer)
SignedBy(issuer) == args.signer = issuer

CheckSignature ==
    /\ at = "signature"
    /\ \E issuer \in args.issuer :
          \/ SignedBy(issuer) /\ Goto("validity")
          \/ ~SignedBy(issuer) /\ Exit

\* A bug to detect: a certificate is expired in its last second already.
ExpiresEarly == args.now < args.NotBefore \/ args.now >= args.NotAfter

Expired == args.now < args.NotBefore \/ args.now > args.NotAfter

CheckValidity ==
    /\ at = "validity"
    /\ \/ ~Expired /\ Goto("extract")
       \/ Expired /\ Exit

ExtractStep ==
    /\ at = "extract"
    /\ Extract
    /\ UNCHANGED <<args, at, printed>>

ExtractFails ==
    /\ at = "extract"
    /\ pc \in {"malformedSCT", "noSCTs", "malformedTBS"}
    /\ Exit

\* A bug to detect: only the first SCT is asked about.
FirstTimestamp == <<[LogId |-> out[1].LogID, Timestamp |-> out[1].Timestamp]>>

\* The (log id, timestamp) pairs the filter is asked about.
timestamps == [n \in 1..Len(out) |-> [LogId |-> out[n].LogID, Timestamp |-> out[n].Timestamp]]

Query ==
    /\ at = "extract"
    /\ pc = "extracted"
    /\ \E f \in args.filter, issuer \in args.issuer :
          printed' = <<Contains(f, NewKey(issuer, serial), timestamps)>>
    /\ at' = "exit 0"
    /\ UNCHANGED <<certVars, args>>

Next ==
    \/ ReadFilter \/ ReadIssuer \/ ReadEE \/ CheckSignature \/ CheckValidity
    \/ ExtractStep \/ ExtractFails \/ Query

QuerySpec == Init /\ [][Next]_vars

\* main is sequential code that keeps running.
FairSpec == QuerySpec /\ WF_vars(Next)

-----------------------------------------------------------------------------
(* Correctness *)

\* What a filter built for the revoked serials knows of an intact certificate:
\* the SCTs of the list decide only whether it covers it.
Truth(f, issuer) ==
    LET scts == UNION {SX!ToSet(Kept(l)) : l \in from.scts}
    IN  IF ~\E t \in scts : Covered(f.coverage, [LogId |-> t.LogID, Timestamp |-> t.Timestamp])
        THEN "NotCovered"
        ELSE IF issuer \notin DOMAIN f.filter.Blocks THEN "NotEnrolled"
        ELSE IF from.serial \in f.revoked[issuer] THEN "Revoked" ELSE "Good"

(***************************************************************************)
(* What is printed of a certificate is the truth about it: the status that *)
(* the revocation lists behind the filter give the serial as encoded, sign *)
(* byte included, of a certificate the issuer signed and that is valid     *)
(* now, whichever of its SCTs is the one the filter covers.                *)
(***************************************************************************)
PrintsTruth ==
    printed # <<>> /\ cert = Encode(from) =>
        \E f \in args.filter, issuer \in args.issuer :
            /\ printed = <<Truth(f, issuer)>>
            /\ args.signer = issuer
            /\ args.NotBefore <= args.now /\ args.now <= args.NotAfter

(***************************************************************************)
(* Every certificate that could be answered is: the program always comes   *)
(* to an end, and it does not fail for an intact certificate with SCTs     *)
(* when all its files are good, its signature is the issuer's and it is    *)
(* valid, on the first and the last second of its validity too.            *)
(***************************************************************************)
AnswersOrExits ==
    <>(\/ at = "exit 0" /\ printed # <<>>
       \/ /\ at = "exit 1" /\ printed = <<>>
          /\ \/ cert # Encode(from) \/ from.scts \subseteq {<<>>}
             \/ args.filter = {} \/ args.issuer = {} \/ ~args.ee
             \/ args.signer \notin args.issuer
             \/ args.now \notin args.NotBefore..args.NotAfter)

(***************************************************************************)
(* The cutoffs a caller judges a filter's freshness by bound what it can   *)
(* answer: a status other than NotCovered needs an SCT that is no newer    *)
(* than CoverageCutoffForLog of its log, and no log's cutoff is newer than *)
(* NewestCoverageCutoff, which is some log's or zero.                      *)
(***************************************************************************)
CutoffsBoundAnswers ==
    \A f \in args.filter : \A n \in 1..Len(printed) :
        /\ printed[n] # "NotCovered" => \E m \in 1..Len(timestamps) :
              LET cutoff == CoverageCutoffForLog(f, timestamps[m].LogId)
              IN  cutoff.ok /\ timestamps[m].Timestamp <= cutoff.Timestamp
        /\ \A l \in DOMAIN f.coverage :
              CoverageCutoffForLog(f, l).Timestamp <= NewestCoverageCutoff(f)
        /\ \/ NewestCoverageCutoff(f) = 0
           \/ \E l \in DOMAIN f.coverage :
                 CoverageCutoffForLog(f, l) = [Timestamp |-> NewestCoverageCutoff(f), ok |-> TRUE]
=============================================================================
