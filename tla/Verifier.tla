------------------------------ MODULE Verifier -------------------------------
(***************************************************************************)
(* The callers that open a Checker for one decision: the callback that     *)
(* cmd/upki-https gives to crypto/tls (verifier), which checks every       *)
(* verified chain and reduces the results to "connect or not", and the     *)
(* package function upki.Check.  Both run in one goroutine, Me, on a       *)
(* Checker of their own, over the cache directory that another program     *)
(* updates meanwhile.                                                      *)
(***************************************************************************)
EXTENDS Checker

CONSTANTS
    Me,         \* the goroutine of the call
    Requests    \* [caller, strict, chains]: the calls considered

ASSUME VerifierAssumption ==
    /\ Me \in Proc
    /\ Requests \subseteq [caller : {"verifier", "Check"}, strict : BOOLEAN, chains : Seq(Leaf)]
    /\ \A r \in Requests : r.caller = "Check" => Len(r.chains) = 1

VARIABLES
    req,            \* the call
    at,             \* where it is
    i,              \* the chain it is at
    sawNotRevoked,
    outcome,        \* what it returns; Check returns got[1]
    got,            \* history: what Check returned for each chain so far
    first           \* history: the publication the Checker was opened on

verVars == <<req, at, i, sawNotRevoked, outcome, got, first>>
allVars == <<vars, verVars>>

VerifierInit ==
    /\ Init
    /\ req \in Requests
    /\ at = "start"
    /\ i = 1
    /\ sawNotRevoked = FALSE
    /\ outcome = "none"
    /\ got = <<>>
    /\ first = 0

\* The call returns o before any Checker is there to close.
ReturnEarly(o) ==
    /\ at' = "returned"
    /\ outcome' = o
    /\ UNCHANGED <<req, i, sawNotRevoked, got, first>>

NoVerifiedChains ==
    /\ at = "start"
    /\ req.chains = <<>>
    /\ ReturnEarly("no verified chains")
    /\ UNCHANGED vars

\* NewChecker: the index is parsed or rejected, or cannot even be opened.
OpenCache(h) ==
    /\ at = "start"
    /\ req.chains # <<>>
    /\ NewCheckerWith(h)
    /\ \/ ~made' /\ ReturnEarly("no cache")
       \/ /\ made'
          /\ at' = "loop"
          /\ first' = Gen
          /\ UNCHANGED <<req, i, sawNotRevoked, outcome, got>>

OpenCacheFails ==
    /\ at = "start"
    /\ req.chains # <<>>
    /\ ReturnEarly("no cache")
    /\ UNCHANGED vars

-----------------------------------------------------------------------------
(* The loop over the chains *)

CheckChain ==
    /\ at = "loop"
    /\ i <= Len(req.chains)
    /\ Check(Me, req.chains[i])
    /\ at' = "check"
    /\ UNCHANGED <<req, i, sawNotRevoked, outcome, got, first>>

Checking ==
    /\ at = "check"
    /\ Step(Me) \/ CallLock(Me)
    /\ UNCHANGED verVars

\* A bug to detect: one chain that is not revoked settles it.
StopAtNotRevoked(res) == IF res.status = "NotRevoked" THEN Len(req.chains) + 1 ELSE i + 1

\* The chain after the one whose result was res.
NextChain(res) == i + 1

\* A bug to detect: whatever is no error counts as an answer.
SawNoError(res) == sawNotRevoked \/ res.err = "nil"

\* An error counts as unknown.
Saw(res) == sawNotRevoked \/ (res.err = "nil" /\ res.status = "NotRevoked")

\* A bug to detect: a return without the deferred Close.
NotDeferred == "returned"

\* Every return from here on runs the deferred checker.Close().
Deferred == "close"

Returns(o) == at' = Deferred /\ outcome' = o

\* Check has returned; the verifier's switch, or upki.Check's own return.
Reduce ==
    /\ at = "check"
    /\ Return(Me)
    /\ got' = Append(got, ret[Me])
    /\ \/ /\ req.caller = "Check"
          /\ Returns("result")
          /\ UNCHANGED <<i, sawNotRevoked>>
       \/ /\ req.caller = "verifier"
          /\ ret[Me] = Conclude("Revoked")
          /\ Returns("revoked")
          /\ UNCHANGED <<i, sawNotRevoked>>
       \/ /\ req.caller = "verifier"
          /\ ret[Me] # Conclude("Revoked")
          /\ at' = "loop"
          /\ i' = NextChain(ret[Me])
          /\ sawNotRevoked' = Saw(ret[Me])
          /\ UNCHANGED outcome
    /\ UNCHANGED <<req, first>>

LoopEnds ==
    /\ at = "loop"
    /\ i > Len(req.chains)
    /\ Returns(IF ~sawNotRevoked /\ req.strict THEN "strict" ELSE "accept")
    /\ UNCHANGED <<vars, req, i, sawNotRevoked, got, first>>

BeginClose ==
    /\ at = "close"
    /\ CallClose(Me)
    /\ at' = "closing"
    /\ UNCHANGED <<req, i, sawNotRevoked, outcome, got, first>>

Closing ==
    /\ at = "closing"
    /\ CallLock(Me) \/ Close(Me)
    /\ at' = IF pc'[Me] = "idle" THEN "returned" ELSE "closing"
    /\ UNCHANGED <<req, i, sawNotRevoked, outcome, got, first>>

CallStep ==
    \/ NoVerifiedChains
    \/ \E h \in FreeHandle : OpenCache(h)
    \/ OpenCacheFails
    \/ CheckChain \/ Checking \/ Reduce \/ LoopEnds
    \/ BeginClose \/ Closing

VerifierNext ==
    \/ CallStep
    \/ UpdateCache /\ UNCHANGED <<muVars, chkVars, verVars>>

VerifierSpec == VerifierInit /\ [][VerifierNext]_allVars

\* The goroutine of the TLS handshake keeps running.
VerifierFairSpec == VerifierSpec /\ WF_allVars(CallStep)

-----------------------------------------------------------------------------
(* Correctness *)

Returned == at = "returned"

\* The indexes that were current during the call, and chains they concern.
Current == {pubs[g] : g \in first..Gen}

\* The result res for the chain l follows from an index of that time.
Backed(l, res) ==
    IF Usable(l) THEN \E x \in Current : Justified(x, l, res) ELSE res = Rejection(l)

(***************************************************************************)
(* The reduction is sound in both directions: the connection is refused as *)
(* revoked only if an index that was current during the call leads to a    *)
(* filter that revokes a chain's leaf; under -strict it is accepted only   *)
(* if one leads to filters that clear a leaf; and upki.Check's result is   *)
(* one such an index justifies.                                            *)
(***************************************************************************)
DecisionBacked ==
    Returned =>
        /\ outcome = "revoked" => \E n \in 1..Len(req.chains) :
              Usable(req.chains[n]) /\ Backed(req.chains[n], Conclude("Revoked"))
        /\ outcome = "accept" /\ req.strict => \E n \in 1..Len(req.chains) :
              Usable(req.chains[n]) /\ Backed(req.chains[n], Conclude("NotRevoked"))
        /\ outcome = "result" => Backed(req.chains[1], got[1])

\* The contents x of the index lead to a filter that revokes l, and nothing
\* they lead to is corrupt.
Reveals(x, l) ==
    LET A == AnswersOf(Selected(x, l), l)
    IN  /\ x.ok /\ Range(Scts[l]) \cap x.bad = {}
        /\ Usable(l) /\ "Revoked" \in A /\ "Malformed" \notin A

(***************************************************************************)
(* Errors collapse to "unknown", which the default policy accepts: how far *)
(* that fails open.  A connection with a chain that every index of the     *)
(* time of the call reveals as revoked, wherever it is in the list, is let *)
(* through only if reading the cache failed, or if the cache was updated   *)
(* at least maxIndexReopens times under the check.                         *)
(***************************************************************************)
FailsOpenOnlyInTrouble ==
    Returned /\ outcome = "accept" /\ Reliable =>
        \A n \in 1..Len(req.chains) :
            (\A x \in Current : Reveals(x, req.chains[n])) =>
                /\ n \in DOMAIN got
                /\ \/ got[n].err \in {"IO", "Reopen"}
                   \/ got[n].err = "NotExist" /\ Gen >= first + maxIndexReopens

(***************************************************************************)
(* Whichever way the call ends, it leaves no reader open and the lock free *)
(* (the deferred Close).                                                   *)
(***************************************************************************)
ReturnsClean == Returned => hopen = {} /\ idx = Nil /\ readers = {} /\ writer = NoProc

(***************************************************************************)
(* The handshake is not held up for ever: the callback returns, however    *)
(* often the cache changes under its checks.                               *)
(***************************************************************************)
CallbackReturns == <>Returned
=============================================================================
