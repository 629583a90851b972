--------------------------- MODULE VerifierProofs ----------------------------
(***************************************************************************)
(* The callback of cmd/upki-https and upki.Check, over any cache history   *)
(* and any list of chains.  Every step of theirs is one of the Checker or  *)
(* none, so VerifierSpec implements the Checker's Spec and inherits its    *)
(* invariants.  What the decision rests on is not inductive: the results   *)
(* in got must remember which publication explains them (Told), and that   *)
(* one was current during the call because c.idx only ever moves to what   *)
(* is on disk (Fresh).                                                     *)
(***************************************************************************)
EXTENDS Verifier, CheckerProofs

\* The steps of the call, by whether there is a Checker with an index.
WithChecker == {"loop", "check", "close", "closing"}
Stage == WithChecker \cup {"start", "returned"}

\* The types of the verifier's own variables.
VerifierTypes ==
    /\ req \in Requests
    /\ at \in Stage
    /\ i \in Nat \ {0}
    /\ sawNotRevoked \in BOOLEAN
    /\ got \in Seq(Result)
    /\ first \in Nat

\* Only Me ever uses the Checker, so only Me can be the writer.
Alone ==
    /\ \A p \in Proc \ {Me} : pc[p] = "idle"
    /\ writer # NoProc => pc[writer] \in {"reopen", "close"}

\* Where the goroutine is inside the Checker, by where the call is.
Inside ==
    /\ at \in {"start", "loop", "close", "returned"} => pc[Me] = "idle"
    /\ at = "check" => InCheck(Me) \/ pc[Me] = "done"
    /\ at = "closing" => InClose(Me)
    /\ at = "start" => ~made
    /\ at \in {"start", "returned"} => idx = Nil
    /\ at \in WithChecker => made /\ idx # Nil

\* The index in use was current at some time since the Checker was opened.
Fresh ==
    /\ got # <<>> => first \in 1..Gen
    /\ at \in WithChecker => first \in 1..Gen /\ idx.gen >= first
    /\ at = "check" => call[Me].since >= first
    /\ at = "check" /\ pass[Me].idx # Nil => pass[Me].idx.gen >= first

\* The errors that only a defect of the index or of a filter brings about.
Explains(x, l, res) ==
    /\ res.err = "Lookup" => Range(Scts[l]) \cap x.bad # {}
    /\ res.err = "BadFilter" => "Malformed" \in AnswersOf(Selected(x, l), l)
    /\ res.err \notin {"Closed", "ChainTooShort", "MalformedSCT", "MalformedTBS"}

\* The check under way is that of the chain i.
AtChain ==
    at = "check" =>
        LET l == req.chains[i]
        IN  /\ i \in 1..Len(req.chains) /\ call[Me].leaf = l
            /\ ~Usable(l) => pc[Me] = "done" /\ ret[Me] = Rejection(l)
            /\ Usable(l) /\ pc[Me] = "done" =>
                  pass[Me].idx # Nil /\ Explains(Held(Me), l, ret[Me])

\* What the result res of the check of l may be, in a call that began at the
\* publication f, when P has been published.
Told(P, f, l, res) ==
    IF Usable(l)
    THEN /\ \E g \in 1..Len(P) : g >= f /\ Justified(P[g], l, res) /\ Explains(P[g], l, res)
         /\ Reliable /\ res.err = "NotExist" => Len(P) >= f + maxIndexReopens
         /\ res.status # "NotCovered" => res.err = "nil"
    ELSE res = Rejection(l)

\* The results so far, and what they make of the decision.
Results ==
    /\ Len(got) <= Len(req.chains)
    /\ \A n \in 1..Len(got) : Told(pubs, first, req.chains[n], got[n])
    /\ sawNotRevoked => \E n \in 1..Len(got) : got[n] = Conclude("NotRevoked")

Decided ==
    /\ at = "start" => got = <<>>
    /\ at \in {"start", "loop", "check"} =>
          /\ outcome = "none"
          /\ Len(got) = i - 1
          /\ \A n \in 1..Len(got) : got[n] # Conclude("Revoked")
    /\ outcome = "revoked" => \E n \in 1..Len(got) : got[n] = Conclude("Revoked")
    /\ outcome = "accept" =>
          /\ Len(got) = Len(req.chains)
          /\ \A n \in 1..Len(got) : got[n] # Conclude("Revoked")
          /\ req.strict => sawNotRevoked
    /\ outcome = "result" => Len(got) = 1

\* The inductive invariant, beside those of the Checker.
CallbackInv == VerifierTypes /\ Alone /\ Inside /\ Fresh /\ AtChain /\ Results /\ Decided

\* What the Checker's own proofs provide.
CheckerInv == SafeInv /\ VerdictInv /\ ChurnInv

-----------------------------------------------------------------------------
(* The call only takes steps of the Checker *)

\* The loop variable stays on the chains of the request.
AtRequest == req \in Requests /\ i \in Nat \ {0}

\* A chain the loop is at is a chain that Check can be called with.
LEMMA ChainIsLeaf ==
  ASSUME NEW r \in Requests, NEW n \in 1..Len(r.chains)
  PROVE  r.chains[n] \in Leaf
  BY VerifierAssumption

\* Every step of the callback is a step of the Checker, or leaves it alone.
LEMMA StepOfChecker ==
  ASSUME AtRequest, [VerifierNext]_allVars
  PROVE  [Next]_vars
<1>1. ASSUME NoVerifiedChains \/ OpenCacheFails \/ LoopEnds PROVE UNCHANGED vars
  BY <1>1 DEF NoVerifiedChains, OpenCacheFails, LoopEnds
<1>2. ASSUME NEW h \in FreeHandle, OpenCache(h) PROVE Next
  BY <1>2 DEF OpenCache, Next
<1>3. ASSUME CheckChain PROVE Next
  <2>1. Check(Me, req.chains[i]) /\ i \in 1..Len(req.chains)
    BY <1>3, VerifierAssumption DEF CheckChain, AtRequest
  <2>2. req.chains[i] \in Leaf /\ Me \in Proc
    BY <2>1, ChainIsLeaf, VerifierAssumption DEF AtRequest
  <2> QED
    BY <2>1, <2>2 DEF Next
<1>4. ASSUME Checking \/ Reduce \/ BeginClose \/ Closing PROVE Next
  <2>1. Step(Me) \/ CallLock(Me) \/ Return(Me) \/ CallClose(Me)
    BY <1>4 DEF Checking, Reduce, BeginClose, Closing, Step
  <2> QED
    BY <2>1, VerifierAssumption DEF Next
<1>5. ASSUME UpdateCache /\ UNCHANGED <<muVars, chkVars, verVars>> PROVE Next
  BY <1>5 DEF Next
<1>6. ASSUME UNCHANGED allVars PROVE UNCHANGED vars
  BY <1>6 DEF allVars
<1> QED
  BY <1>1, <1>2, <1>3, <1>4, <1>5, <1>6 DEF VerifierNext, CallStep

\* The loop variable only counts up.
LEMMA Next_AtRequest == AtRequest /\ [VerifierNext]_allVars => AtRequest'
<1> SUFFICES ASSUME AtRequest, [VerifierNext]_allVars PROVE AtRequest'
  OBVIOUS
<1>1. UNCHANGED <<req, i>> \/ (UNCHANGED req /\ i' = i + 1)
  BY DEF VerifierNext, CallStep, NoVerifiedChains, OpenCache, OpenCacheFails, CheckChain, Checking,
         Reduce, LoopEnds, BeginClose, Closing, ReturnEarly, NextChain, verVars, allVars
<1> QED
  BY <1>1 DEF AtRequest

\* The callback and upki.Check use the Checker as its specification allows: what
\* is proved of the Checker for any goroutines holds of the one they open.
THEOREM Verifier_UsesChecker == VerifierSpec => Spec
<1>1. VerifierInit => Init /\ AtRequest
  BY DEF VerifierInit, AtRequest
<1> QED
  BY <1>1, StepOfChecker, Next_AtRequest, PTL DEF VerifierSpec, Spec

\* The invariants of the Checker hold throughout the call.
LEMMA Verifier_CheckerInv == VerifierSpec => []CheckerInv
  BY Verifier_UsesChecker, CheckerVerdicts, CheckerChurn, PTL DEF CheckerInv

-----------------------------------------------------------------------------
(* Every step keeps the invariant *)

\* Nothing is opened and nothing is decided.
LEMMA Init_CallbackInv == VerifierInit => CallbackInv
<1> SUFFICES ASSUME VerifierInit PROVE CallbackInv
  OBVIOUS
<1>1. /\ at = "start" /\ i = 1 /\ sawNotRevoked = FALSE /\ outcome = "none" /\ got = <<>>
      /\ first = 0 /\ req \in Requests /\ Init /\ Me \in Proc
  BY VerifierAssumption DEF VerifierInit
<1>2. VerifierTypes
  <2>1. got \in Seq(Result) /\ i \in Nat \ {0} /\ first \in Nat
    BY <1>1
  <2> QED
    BY <1>1, <2>1, Zenon DEF VerifierTypes, Stage
<1>3. \A p \in Proc : pc[p] = "idle"
  BY <1>1 DEF Init
<1>4. writer = NoProc /\ idx = Nil /\ made = FALSE
  BY <1>1 DEF Init, muInit
<1>5. Alone /\ Inside /\ Fresh /\ AtChain
  BY <1>1, <1>3, <1>4 DEF Alone, Inside, Fresh, AtChain, WithChecker
<1>6. Len(req.chains) \in Nat
  BY <1>1, VerifierAssumption
<1>7. Results /\ Decided
  BY <1>1, <1>6 DEF Results, Decided
<1> QED
  BY <1>2, <1>5, <1>7 DEF CallbackInv

\* A result that was explained stays explained when more is published.
LEMMA Told_Frame ==
  ASSUME NEW P \in Seq(Index), NEW Q \in Seq(Index), NEW f \in Nat, NEW l, NEW res,
         Len(P) <= Len(Q), \A g \in 1..Len(P) : Q[g] = P[g], Told(P, f, l, res)
  PROVE  Told(Q, f, l, res)
<1>1. CASE ~Usable(l)
  BY <1>1 DEF Told
<1>2. CASE Usable(l)
  <2>1. PICK g \in 1..Len(P) : g >= f /\ Justified(P[g], l, res) /\ Explains(P[g], l, res)
    BY <1>2 DEF Told
  <2>2. g \in 1..Len(Q) /\ Q[g] = P[g]
    BY <2>1
  <2>3. Reliable /\ res.err = "NotExist" => Len(Q) >= f + maxIndexReopens
    BY <1>2, CheckerAssumption DEF Told
  <2> QED
    BY <1>2, <2>1, <2>2, <2>3 DEF Told
<1> QED
  BY <1>1, <1>2

\* Publications are only ever added.
LEMMA OnlyPublished ==
  ASSUME SafeInv, UpdateCache \/ UNCHANGED pubs
  PROVE  /\ pubs \in Seq(Index) /\ pubs' \in Seq(Index)
         /\ Gen \in Nat /\ Gen' \in Nat /\ Gen <= Gen'
         /\ \A g \in 1..Gen : pubs'[g] = pubs[g]
<1>1. pubs \in Seq(Index)
  BY DEF SafeInv, TypeOK, cacheTypeOK
<1>2. pubs' = pubs \/ \E x \in Index : pubs' = Append(pubs, x)
  BY DEF UpdateCache, WriteFilter, RemoveFilter, PublishIndex
<1> QED
  BY <1>1, <1>2 DEF Gen

\* The results stay explained while the call adds none.
LEMMA Results_Frame ==
  ASSUME SafeInv, CallbackInv, UpdateCache \/ UNCHANGED pubs,
         UNCHANGED <<req, sawNotRevoked, got, first>>
  PROVE  Results'
<1>1. \A n \in 1..Len(got) : Told(pubs', first', req'.chains[n], got'[n])
  <2> SUFFICES ASSUME NEW n \in 1..Len(got) PROVE Told(pubs', first, req.chains[n], got[n])
    OBVIOUS
  <2>1. Told(pubs, first, req.chains[n], got[n]) /\ first \in Nat
    BY DEF CallbackInv, Results, VerifierTypes
  <2> QED
    BY <2>1, OnlyPublished, Told_Frame DEF Gen
<1> QED
  BY <1>1 DEF CallbackInv, Results

\* Between two steps of the call the cache is updated, or nothing happens.
LEMMA UpdateCache_CallbackInv ==
  ASSUME SafeInv, CallbackInv, UpdateCache \/ UNCHANGED pubs,
         UNCHANGED <<muVars, chkVars, verVars>>
  PROVE  CallbackInv'
<1> USE DEF CallbackInv, verVars, chkVars, muVars
<1>1. VerifierTypes'
  BY DEF VerifierTypes
<1>2. Alone' /\ Inside'
  BY DEF Alone, Inside, InCheck, InClose
<1>3. Fresh'
  BY OnlyPublished DEF Fresh, VerifierTypes
<1>4. AtChain'
  <2>1. pass[Me].idx # Nil => Held(Me)' = Held(Me)
    BY OnlyPublished, VerifierAssumption DEF Held, SafeInv, HandleInv
  <2> QED
    BY <2>1 DEF AtChain
<1>5. Results'
  BY Results_Frame
<1>6. Decided'
  BY DEF Decided
<1> QED
  BY <1>1, <1>2, <1>3, <1>4, <1>5, <1>6

\* The returns before there is a Checker: no chains, or no cache.
LEMMA ReturnEarly_CallbackInv ==
  ASSUME CallbackInv, at = "start", NEW o, o \notin {"revoked", "accept", "result"},
         ReturnEarly(o), UNCHANGED <<muVars, pubs, pc>>, idx' = Nil
  PROVE  CallbackInv'
<1> USE DEF CallbackInv, ReturnEarly, muVars
<1>1. VerifierTypes'
  BY DEF VerifierTypes, Stage
<1>2. Alone' /\ Inside' /\ Fresh' /\ AtChain'
  BY DEF Alone, Inside, Fresh, AtChain, InCheck, InClose, WithChecker, Decided
<1>3. Results' /\ Decided'
  BY DEF Results, Decided
<1> QED
  BY <1>1, <1>2, <1>3

\* NewChecker succeeds, on the publication that is now on disk, or fails.
LEMMA OpenCache_CallbackInv ==
  ASSUME SafeInv, CallbackInv, NEW h \in FreeHandle, OpenCache(h)
  PROVE  CallbackInv'
<1>1. /\ at = "start" /\ Gen > 0 /\ UNCHANGED <<muVars, files, pubs, pc, call, pass, ret>>
      /\ made' = OnDisk.ok /\ idx' = IF OnDisk.ok THEN NewIndex(h) ELSE Nil
  BY DEF OpenCache, NewCheckerWith, cacheVars
<1>2. CASE ~made' /\ ReturnEarly("no cache")
  BY <1>1, <1>2, ReturnEarly_CallbackInv
<1>3. CASE made' /\ at' = "loop" /\ first' = Gen /\ UNCHANGED <<req, i, sawNotRevoked, outcome, got>>
  <2> USE <1>1, <1>3 DEF CallbackInv, muVars
  <2>1. Gen \in Nat \ {0} /\ Gen' = Gen
    BY Generations DEF Gen
  <2>2. idx' = NewIndex(h) /\ idx' # Nil /\ idx'.gen = Gen
    BY <2>1, CheckerAssumption DEF NewIndex, FreeHandle
  <2>3. VerifierTypes'
    BY <2>1 DEF VerifierTypes, Stage, WithChecker
  <2>4. Alone' /\ Inside' /\ Fresh' /\ AtChain'
    BY <2>1, <2>2 DEF Alone, Inside, Fresh, AtChain, InCheck, InClose, WithChecker, VerifierTypes
  <2>5. got = <<>>
    BY DEF Decided
  <2>6. Results' /\ Decided'
    BY <2>5 DEF Results, Decided
  <2> QED
    BY <2>3, <2>4, <2>6
<1> QED
  BY <1>2, <1>3 DEF OpenCache

\* The loop calls Check for the chain i: it is rejected at once or looked up.
LEMMA CheckChain_CallbackInv ==
  ASSUME SafeInv, CallbackInv, CheckChain
  PROVE  CallbackInv'
<1> DEFINE l == req.chains[i]
<1>1. /\ at = "loop" /\ at' = "check" /\ Check(Me, l) /\ i \in 1..Len(req.chains)
      /\ UNCHANGED <<req, i, sawNotRevoked, outcome, got, first>>
      /\ req \in Requests /\ Me \in Proc
  BY VerifierAssumption DEF CheckChain, CallbackInv, VerifierTypes
<1>2. /\ UNCHANGED <<muVars, cacheVars, made, idx, hopen, pass>>
      /\ call'[Me] = [leaf |-> l, reopens |-> 0, since |-> Gen]
      /\ pass[Me].idx = Nil /\ pc[Me] = "idle"
      /\ pc'[Me] = IF Usable(l) THEN "rlock" ELSE "done"
      /\ ~Usable(l) => ret'[Me] = Rejection(l)
      /\ \A p \in Proc \ {Me} : pc'[p] = pc[p]
  BY <1>1, LocalTypes DEF Check, SafeInv, CallInv
<1>3. Gen' = Gen /\ Gen \in Nat /\ first \in 1..Gen /\ idx # Nil /\ idx.gen >= first
  BY <1>1, <1>2, Generations DEF Gen, cacheVars, CallbackInv, Fresh, Inside, WithChecker
<1> USE <1>1, <1>2 DEF CallbackInv
<1>4. VerifierTypes'
  BY DEF VerifierTypes, Stage, WithChecker
<1>5. Alone'
  BY DEF Alone, muVars, SafeInv, TypeOK, muTypeOK
<1>6. Inside'
  BY DEF Inside, InCheck, WithChecker
<1>7. Fresh'
  BY <1>3 DEF Fresh, WithChecker
<1>8. AtChain'
  BY DEF AtChain
<1>9. Results'
  BY Results_Frame DEF cacheVars
<1>10. Decided'
  BY DEF Decided
<1> QED
  BY <1>4, <1>5, <1>6, <1>7, <1>8, <1>9, <1>10

\* The switch is done with all chains.
LEMMA LoopEnds_CallbackInv ==
  ASSUME SafeInv, CallbackInv, LoopEnds
  PROVE  CallbackInv'
<1>1. /\ at = "loop" /\ at' = "close" /\ i > Len(req.chains)
      /\ outcome' = IF ~sawNotRevoked /\ req.strict THEN "strict" ELSE "accept"
      /\ UNCHANGED <<muVars, cacheVars, chkVars, req, i, sawNotRevoked, got, first>>
  BY DEF LoopEnds, Returns, Deferred, vars
<1> USE <1>1 DEF CallbackInv
<1>2. VerifierTypes'
  BY DEF VerifierTypes, Stage, WithChecker
<1>3. Alone' /\ Inside'
  BY DEF Alone, Inside, muVars, chkVars, WithChecker
<1>4. Fresh' /\ AtChain'
  BY DEF Fresh, AtChain, WithChecker, cacheVars, chkVars, Gen
<1>5. Results'
  BY Results_Frame DEF cacheVars
<1>6. Decided'
  <2>1. /\ Len(got) = i - 1 /\ Len(got) <= Len(req.chains) /\ i \in Nat
        /\ Len(req.chains) \in Nat
    BY VerifierAssumption DEF Decided, Results, VerifierTypes
  <2>2. Len(got) = Len(req.chains)
    BY <2>1
  <2> QED
    BY <2>2 DEF Decided
<1> QED
  BY <1>2, <1>3, <1>4, <1>5, <1>6

-----------------------------------------------------------------------------
(* The check of a chain *)

\* Where a check is, the callback is the only one that could hold the lock.
LEMMA MyLock ==
  ASSUME SafeInv, CallbackInv, pc[Me] \notin {"reopen", "close"}
  PROVE  writer = NoProc
  BY DEF CallbackInv, Alone, SafeInv, TypeOK, muTypeOK

\* The errors of the filters and the lookups have their reason in the index held.
LEMMA EndExplained ==
  ASSUME CheckerInv, CallbackInv, at = "check", Ends(Me)
  PROVE  \E res \in Result :
            /\ Leave(Me, pass[Me].idx, res)
            /\ pass[Me].idx # Nil
            /\ Explains(Held(Me), call[Me].leaf, res)
<1> DEFINE l == call[Me].leaf
<1>1. SafeInv /\ VerdictInv /\ Me \in Proc /\ idx # Nil
  BY VerifierAssumption DEF CheckerInv, CallbackInv, Inside, WithChecker
<1>2. ~SnapshotClosed(Me)
  BY <1>1 DEF SnapshotClosed
<1>3. pc[Me] = "pass"
  BY <1>2 DEF Ends, LookupFails, IndexGone, MissingFilter, IOFails, BadFilter, FilterRevokes, Finish,
              AtLookup, AtQuery, AtFilter, Opens
<1>4. /\ pass[Me].idx # Nil /\ pass[Me].idx = idx /\ pass[Me] \in PassLocals
      /\ Covers(pass[Me], Held(Me), l) /\ idx.r \in hopen
  BY <1>1, <1>3, InPassFacts DEF VerdictInv, Progress, SafeInv, HandleInv
<1>5. CASE LookupFails(Me)
  <2>1. /\ pass[Me].todo # <<>> /\ Head(pass[Me].todo) \in Held(Me).bad
        /\ Leave(Me, pass[Me].idx, Fail("Lookup"))
    BY <1>4, <1>5 DEF LookupFails, AtLookup, Readable
  <2>2. pass[Me].todo \in Seq(SCT)
    BY <1>4 DEF PassLocals
  <2>3. Head(pass[Me].todo) \in Range(Scts[l])
    BY <1>4, <2>1, <2>2, RangeOfTail DEF Covers
  <2>4. Explains(Held(Me), l, Fail("Lookup"))
    BY <2>1, <2>3 DEF Explains, Fail
  <2>5. Fail("Lookup") \in Result
    BY FailResults DEF Errors
  <2> QED
    BY <1>4, <2>1, <2>4, <2>5
<1>6. CASE BadFilter(Me)
  <2>1. /\ pass[Me].names # <<>> /\ Answer[Head(pass[Me].names)][l] = "Malformed"
        /\ Leave(Me, pass[Me].idx, Fail("BadFilter"))
    BY <1>6 DEF BadFilter, Opens, AtQuery, AtFilter, Says, NextFilter
  <2>2. pass[Me].names \in Seq(Filename)
    BY <1>4 DEF PassLocals
  <2>3. Head(pass[Me].names) \in Selected(Held(Me), l)
    BY <1>4, <2>1, <2>2, RangeOfTail DEF Covers
  <2>4. Explains(Held(Me), l, Fail("BadFilter"))
    BY <2>1, <2>3 DEF Explains, Fail, AnswersOf
  <2>5. Fail("BadFilter") \in Result
    BY FailResults DEF Errors
  <2> QED
    BY <1>4, <2>1, <2>4, <2>5
<1>7. CASE IndexGone(Me) \/ MissingFilter(Me) \/ IOFails(Me)
  <2>1. PICK e \in {"NotExist", "IO"} : Leave(Me, pass[Me].idx, Fail(e))
    BY <1>7 DEF IndexGone, MissingFilter, IOFails
  <2>2. Explains(Held(Me), l, Fail(e)) /\ Fail(e) \in Result
    BY FailResults DEF Explains, Fail, Errors
  <2> QED
    BY <1>4, <2>1, <2>2
<1>8. CASE FilterRevokes(Me) \/ Finish(Me)
  <2>1. PICK res \in {Conclude("Revoked"), Outcome(pass[Me])} : Leave(Me, pass[Me].idx, res)
    BY <1>8 DEF FilterRevokes, Finish
  <2>2. res \in Result /\ res.err \in {"nil", "Inconsistent"}
    BY FailResults DEF Conclude, Outcome, Fail
  <2>3. Explains(Held(Me), l, res)
    BY <2>2 DEF Explains
  <2> QED
    BY <1>4, <2>1, <2>2, <2>3
<1> QED
  BY <1>2, <1>5, <1>6, <1>7, <1>8 DEF Ends

\* What a step inside Check does to what the callback relies on.
Follows ==
    /\ UNCHANGED <<pubs, made>>
    /\ \A p \in Proc \ {Me} : pc'[p] = pc[p]
    /\ InCheck(Me)' \/ pc'[Me] = "done"
    /\ call'[Me].leaf = call[Me].leaf /\ call'[Me].since = call[Me].since
    /\ idx' = idx \/ (idx' # Nil /\ idx'.gen = Gen)
    /\ pass'[Me].idx \in {pass[Me].idx, idx}
    /\ writer' # NoProc => writer' = Me /\ pc'[Me] = "reopen"
    /\ pc'[Me] = "done" =>
          pass'[Me].idx # Nil /\ Explains(Held(Me)', call[Me].leaf, ret'[Me])

\* The steps of a check that neither end a pass nor reopen.
LEMMA Plain_Follows ==
  ASSUME CheckerInv, CallbackInv, at = "check",
         CallRLock(Me) \/ Snapshot(Me) \/ Lookup(Me) \/ SkipSeen(Me) \/ FilterAnswers(Me)
           \/ CallLock(Me)
  PROVE  Follows
<1>1. SafeInv /\ Me \in Proc /\ idx # Nil
  BY VerifierAssumption DEF CheckerInv, CallbackInv, Inside, WithChecker
<1>2. /\ pc \in [Proc -> PC] /\ call \in [Proc -> CallLocals]
      /\ pass \in [Proc -> PassLocals] /\ ret \in [Proc -> Result]
  BY <1>1, LocalTypes
<1>3. UNCHANGED <<pubs, made, idx, call>>
  BY DEF CallRLock, Snapshot, Lookup, SkipSeen, FilterAnswers, CallLock, cacheVars
<1>4. \A p \in Proc \ {Me} : pc'[p] = pc[p]
  BY <1>2 DEF CallRLock, Snapshot, Lookup, SkipSeen, FilterAnswers, CallLock
<1>5. pc'[Me] \in {"enter", "pass", "reopen"} /\ (pc'[Me] = "reopen" => CallLock(Me))
  <2>1. CASE CallLock(Me)
    BY <1>1, <1>2, <2>1 DEF CallLock, CallbackInv, Inside, InCheck
  <2>2. CASE ~CallLock(Me)
    BY <1>1, <1>2, <2>2 DEF CallRLock, Snapshot, Lookup, SkipSeen, FilterAnswers, AtLookup, AtFilter,
                            Opens, AtQuery
  <2> QED
    BY <2>1, <2>2
<1>6. pass'[Me].idx \in {pass[Me].idx, idx}
  <2>1. CASE CallRLock(Me) \/ CallLock(Me)
    BY <2>1 DEF CallRLock, CallLock
  <2>2. CASE Snapshot(Me)
    BY <1>1, <1>2, <2>2 DEF Snapshot, NewPass
  <2>3. CASE Lookup(Me)
    BY <1>1, <1>2, <2>3 DEF Lookup, PassLocals
  <2>4. CASE SkipSeen(Me)
    BY <1>1, <1>2, <2>4 DEF SkipSeen, PassLocals
  <2>5. CASE FilterAnswers(Me)
    BY <1>1, <1>2, <2>5 DEF FilterAnswers, Tally
  <2> QED
    BY <2>1, <2>2, <2>3, <2>4, <2>5
<1>7. writer' # NoProc => writer' = Me /\ pc'[Me] = "reopen"
  <2>1. CASE CallLock(Me)
    BY <1>1, <1>2, <2>1 DEF CallLock, Lock, CallbackInv, Inside, InCheck
  <2>2. CASE ~CallLock(Me)
    <3>1. pc[Me] \in {"rlock", "enter", "pass"}
      BY <2>2 DEF CallRLock, Snapshot, Lookup, SkipSeen, FilterAnswers, AtLookup, AtFilter,
                  Opens, AtQuery
    <3>2. writer = NoProc /\ writer' = writer
      BY <1>1, <2>2, <3>1, MyLock
      DEF CallRLock, RLock, Snapshot, KeepLock, Lookup, SkipSeen, FilterAnswers, muVars
    <3> QED
      BY <3>2
  <2> QED
    BY <2>1, <2>2
<1> QED
  BY <1>3, <1>4, <1>5, <1>6, <1>7 DEF Follows, InCheck

\* The end of a pass.
LEMMA Ends_Follows ==
  ASSUME CheckerInv, CallbackInv, at = "check", Ends(Me)
  PROVE  Follows
<1>1. PICK res \in Result :
        /\ Leave(Me, pass[Me].idx, res)
        /\ pass[Me].idx # Nil
        /\ Explains(Held(Me), call[Me].leaf, res)
  BY EndExplained
<1>2. SafeInv /\ Me \in Proc
  BY VerifierAssumption DEF CheckerInv
<1>3. /\ pc \in [Proc -> PC] /\ pass \in [Proc -> PassLocals] /\ ret \in [Proc -> Result]
  BY <1>2, LocalTypes
<1>4. /\ UNCHANGED <<pubs, made, idx, call, writer>>
      /\ \A p \in Proc \ {Me} : pc'[p] = pc[p]
      /\ pc'[Me] \in {"reopenLock", "done"}
      /\ pass'[Me].idx = pass[Me].idx
      /\ ret'[Me] = res
  BY <1>1, <1>2, <1>3 DEF Leave, RUnlock, cacheVars, NewPass
<1>5. pc[Me] \in {"enter", "pass"}
  BY DEF Ends, SnapshotClosed, LookupFails, IndexGone, MissingFilter, IOFails, BadFilter, FilterRevokes,
         Finish, AtLookup, AtQuery, AtFilter, Opens
<1>6. writer = NoProc
  BY <1>2, <1>5, MyLock
<1>7. Held(Me)' = Held(Me)
  BY <1>4 DEF Held
<1> QED
  BY <1>1, <1>4, <1>6, <1>7 DEF Follows, InCheck

\* reopenIndex, whether it replaces the index, finds it replaced or fails.
LEMMA Reopen_Follows ==
  ASSUME CheckerInv, CallbackInv, at = "check",
         ReopenReplaced(Me) \/ \E h \in FreeHandle : ReopenIndex(Me, h) \/ ReopenFails(Me, h)
  PROVE  Follows
<1>1. SafeInv /\ Me \in Proc
  BY VerifierAssumption DEF CheckerInv
<1>2. /\ pc \in [Proc -> PC] /\ call \in [Proc -> CallLocals] /\ ret \in [Proc -> Result]
  BY <1>1, LocalTypes
<1>3. /\ pc[Me] = "reopen" /\ UNCHANGED <<pubs, made, pass>> /\ writer' = NoProc
      /\ \A p \in Proc \ {Me} : pc'[p] = pc[p]
  BY <1>1, <1>2 DEF ReopenReplaced, ReopenIndex, ReopenFails, Resume, Unlock, cacheVars
<1>4. pass[Me].idx # Nil
  BY <1>1, <1>3 DEF SafeInv, CallInv
<1>5. CASE ReopenReplaced(Me) \/ \E h \in FreeHandle : ReopenIndex(Me, h)
  <2>1. /\ pc'[Me] = "rlock" /\ call' = [call EXCEPT ![Me].reopens = @ + 1]
    BY <1>1, <1>2, <1>5 DEF ReopenReplaced, ReopenIndex, Resume
  <2>2. call'[Me].leaf = call[Me].leaf /\ call'[Me].since = call[Me].since
    BY <1>1, <1>2, <2>1 DEF CallLocals
  <2>3. idx' = idx \/ (idx' # Nil /\ idx'.gen = Gen)
    <3>1. ASSUME NEW h \in FreeHandle, ReopenIndex(Me, h) PROVE idx' # Nil /\ idx'.gen = Gen
      <4>1. NewIndex(h) \in IndexPtr /\ NewIndex(h).gen = Gen
        BY <1>1, Generations DEF NewIndex, IndexPtr, FreeHandle
      <4> QED
        BY <3>1, <4>1, CheckerAssumption DEF ReopenIndex, IndexPtr
    <3> QED
      BY <1>5, <3>1 DEF ReopenReplaced
  <2> QED
    BY <1>3, <2>1, <2>2, <2>3 DEF Follows, InCheck
<1>6. ASSUME NEW h \in FreeHandle, ReopenFails(Me, h) PROVE Follows
  <2>1. pc'[Me] = "done" /\ ret'[Me] = Fail("Reopen") /\ UNCHANGED <<idx, call>>
    BY <1>1, <1>2, <1>6 DEF ReopenFails
  <2>2. Explains(Held(Me), call[Me].leaf, Fail("Reopen")) /\ Held(Me)' = Held(Me)
    BY <1>3 DEF Explains, Fail, Held
  <2> QED
    BY <1>3, <1>4, <2>1, <2>2 DEF Follows
<1> QED
  BY <1>5, <1>6

\* A step inside Check: all of the above.
LEMMA Checking_CallbackInv ==
  ASSUME CheckerInv, CallbackInv, Checking
  PROVE  CallbackInv'
<1>1. at = "check" /\ (Step(Me) \/ CallLock(Me)) /\ UNCHANGED verVars
  BY DEF Checking
<1>2. pc[Me] # "done" /\ ~Close(Me)
  <2>1. ~Close(Me)
    BY <1>1 DEF Close, CallbackInv, Inside, InCheck
  <2> QED
    BY <1>1, <2>1
    DEF Step, CallRLock, Snapshot, SnapshotClosed, Lookup, LookupFails, IndexGone, SkipSeen,
        MissingFilter, IOFails, BadFilter, FilterRevokes, FilterAnswers, Finish, ReopenReplaced,
        ReopenIndex, ReopenFails, CallLock, AtLookup, AtFilter, AtQuery, Opens
<1>3. Follows
  BY <1>1, <1>2, Plain_Follows, Ends_Follows, Reopen_Follows DEF Step, Ends
<1>4. SafeInv /\ Me \in Proc
  BY VerifierAssumption DEF CheckerInv
<1>5. /\ first \in 1..Gen /\ idx # Nil /\ idx.gen >= first /\ call[Me].since >= first
      /\ pass[Me].idx # Nil => pass[Me].idx.gen >= first
      /\ made /\ i \in 1..Len(req.chains) /\ call[Me].leaf = req.chains[i]
      /\ Gen \in Nat
  BY <1>1, <1>4, Generations DEF CallbackInv, Inside, Fresh, AtChain, WithChecker
<1>6. Gen' = Gen
  BY <1>3 DEF Follows, Gen
<1> USE <1>1 DEF CallbackInv, verVars
<1>7. VerifierTypes'
  BY DEF VerifierTypes
<1>8. Alone'
  BY <1>3 DEF Alone, Follows
<1>9. Inside'
  BY <1>3, <1>5 DEF Inside, Follows, WithChecker
<1>10. Fresh'
  BY <1>3, <1>5, <1>6 DEF Fresh, Follows, WithChecker
<1>11. AtChain'
  BY <1>2, <1>3, <1>5 DEF AtChain, Follows
<1>12. Results'
  BY <1>3, <1>4, Results_Frame DEF Follows
<1>13. Decided'
  BY DEF Decided
<1> QED
  BY <1>7, <1>8, <1>9, <1>10, <1>11, <1>12, <1>13

-----------------------------------------------------------------------------
(* The result of a check, and Close *)

\* What Check returned for the chain i is one of the results it may return.
LEMMA ResultTold ==
  ASSUME CheckerInv, CallbackInv, at = "check", pc[Me] = "done"
  PROVE  Told(pubs, first, req.chains[i], ret[Me])
<1> DEFINE l == req.chains[i]
<1>1. SafeInv /\ VerdictInv /\ ChurnInv /\ Me \in Proc
  BY VerifierAssumption DEF CheckerInv
<1>2. CASE ~Usable(l)
  BY <1>2 DEF Told, CallbackInv, AtChain
<1>3. CASE Usable(l)
  <2>1. /\ pass[Me].idx # Nil /\ Explains(Held(Me), l, ret[Me]) /\ call[Me].leaf = l
        /\ pass[Me].idx.gen >= first /\ call[Me].since >= first /\ first \in Nat
    BY <1>3 DEF CallbackInv, AtChain, Fresh, VerifierTypes
  <2>2. /\ Justified(Held(Me), l, ret[Me])
        /\ ret[Me].status # "NotCovered" => ret[Me].err = "nil"
    BY <1>1, <2>1 DEF VerdictInv, Progress, Sound
  <2>3. pass[Me].idx.gen \in 1..Gen
    BY <1>1, <2>1 DEF SafeInv, HandleInv
  <2>4. Reliable /\ ret[Me].err = "NotExist" => Gen >= first + maxIndexReopens
    BY <1>1, <2>1, Generations DEF ChurnInv, Pace
  <2> QED
    BY <1>3, <2>1, <2>2, <2>3, <2>4 DEF Told, Held, Gen
<1> QED
  BY <1>2, <1>3

\* One more result: the verifier goes on to the next chain or returns.
LEMMA Reduce_CallbackInv ==
  ASSUME CheckerInv, CallbackInv, Reduce
  PROVE  CallbackInv'
<1> DEFINE res == ret[Me]
<1>1. /\ at = "check" /\ pc[Me] = "done" /\ got' = Append(got, res) /\ UNCHANGED <<req, first>>
      /\ UNCHANGED <<muVars, cacheVars, made, idx, hopen>>
      /\ pc' = [pc EXCEPT ![Me] = "idle"]
  BY DEF Reduce, Return
<1>2. /\ SafeInv /\ Me \in Proc /\ pc \in [Proc -> PC] /\ res \in Result
      /\ req \in Requests /\ Len(req.chains) \in Nat
  BY LocalTypes, VerifierAssumption DEF CheckerInv, CallbackInv, VerifierTypes
<1>3. /\ at' \in {"close", "loop"}
      /\ at' = "close" =>
            /\ UNCHANGED <<i, sawNotRevoked>>
            /\ \/ outcome' = "result" /\ req.caller = "Check"
               \/ outcome' = "revoked" /\ res = Conclude("Revoked")
      /\ at' = "loop" =>
            /\ i' = i + 1 /\ UNCHANGED outcome /\ res # Conclude("Revoked")
            /\ sawNotRevoked' = (sawNotRevoked \/ (res.err = "nil" /\ res.status = "NotRevoked"))
  BY DEF Reduce, Returns, Deferred, NextChain, Saw
<1>4. /\ i \in 1..Len(req.chains) /\ i \in Nat /\ got \in Seq(Result) /\ Len(got) = i - 1
      /\ sawNotRevoked \in BOOLEAN /\ outcome = "none" /\ first \in Nat
  BY <1>1 DEF CallbackInv, AtChain, VerifierTypes, Decided
<1>5. /\ got' \in Seq(Result) /\ Len(got') = i /\ got'[i] = res
      /\ \A n \in 1..Len(got) : got'[n] = got[n]
      /\ 1..Len(got') = (1..Len(got)) \cup {i}
  BY <1>1, <1>2, <1>4
<1>6. VerifierTypes'
  <2>1. i' \in Nat \ {0} /\ first' \in Nat /\ req' \in Requests /\ at' \in Stage
    BY <1>1, <1>2, <1>3, <1>4 DEF Stage, WithChecker
  <2>2. sawNotRevoked' \in BOOLEAN
    BY <1>3, <1>4, Zenon
  <2> QED
    BY <1>5, <2>1, <2>2 DEF VerifierTypes
<1>7. Alone'
  <2>1. writer = NoProc
    BY <1>1, <1>2, MyLock
  <2> QED
    BY <1>1, <1>2, <2>1 DEF Alone, CallbackInv, muVars
<1>8. Inside'
  BY <1>1, <1>2, <1>3 DEF Inside, CallbackInv, WithChecker
<1>9. Fresh' /\ AtChain'
  BY <1>1, <1>3 DEF Fresh, AtChain, CallbackInv, WithChecker, cacheVars, Gen
<1>10. Results'
  <2>1. \A n \in 1..Len(got') : Told(pubs', first', req'.chains[n], got'[n])
    <3> SUFFICES ASSUME NEW n \in 1..Len(got') PROVE Told(pubs, first, req.chains[n], got'[n])
      BY <1>1 DEF cacheVars
    <3>1. CASE n = i
      BY <1>1, <1>5, <3>1, ResultTold
    <3>2. CASE n \in 1..Len(got)
      BY <1>5, <3>2 DEF CallbackInv, Results
    <3> QED
      BY <1>5, <3>1, <3>2
  <2>2. sawNotRevoked' => \E n \in 1..Len(got') : got'[n] = Conclude("NotRevoked")
    <3> SUFFICES ASSUME sawNotRevoked' PROVE \E n \in 1..Len(got') : got'[n] = Conclude("NotRevoked")
      OBVIOUS
    <3>1. CASE sawNotRevoked
      BY <1>5, <3>1 DEF CallbackInv, Results
    <3>2. CASE ~sawNotRevoked
      <4>1. res.err = "nil" /\ res.status = "NotRevoked"
        BY <1>3, <3>2
      <4>2. res = Conclude("NotRevoked")
        BY <1>2, <4>1 DEF Result, Conclude
      <4> QED
        BY <1>5, <4>2
    <3> QED
      BY <3>1, <3>2
  <2>3. Len(got') <= Len(req'.chains)
    BY <1>1, <1>4, <1>5
  <2> QED
    BY <2>1, <2>2, <2>3 DEF Results
<1>11. Decided'
  <2>1. CASE at' = "loop"
    <3>1. \A n \in 1..Len(got') : got'[n] # Conclude("Revoked")
      BY <1>1, <1>3, <1>5, <2>1 DEF CallbackInv, Decided
    <3> QED
      BY <1>3, <1>4, <1>5, <2>1, <3>1 DEF Decided
  <2>2. CASE at' = "close"
    <3>1. outcome' = "revoked" => \E n \in 1..Len(got') : got'[n] = Conclude("Revoked")
      BY <1>3, <1>5, <2>2
    <3>2. outcome' = "result" => Len(got') = 1
      BY <1>2, <1>3, <1>4, <1>5, <2>2, VerifierAssumption
    <3>3. outcome' # "accept"
      BY <1>3, <2>2
    <3> QED
      BY <2>2, <3>1, <3>2, <3>3 DEF Decided
  <2> QED
    BY <1>3, <2>1, <2>2
<1> QED
  BY <1>6, <1>7, <1>8, <1>9, <1>10, <1>11 DEF CallbackInv

\* The deferred Close is called and waits for the lock.
LEMMA BeginClose_CallbackInv ==
  ASSUME SafeInv, CallbackInv, BeginClose
  PROVE  CallbackInv'
<1>1. /\ at = "close" /\ at' = "closing" /\ UNCHANGED <<req, i, sawNotRevoked, outcome, got, first>>
      /\ UNCHANGED <<muVars, cacheVars, made, idx>> /\ pc[Me] = "idle"
      /\ pc' = [pc EXCEPT ![Me] = "closeLock"]
      /\ Me \in Proc /\ pc \in [Proc -> PC]
  BY LocalTypes, VerifierAssumption DEF BeginClose, CallClose
<1>2. writer = NoProc
  BY <1>1, MyLock
<1> USE <1>1, <1>2 DEF CallbackInv
<1>3. VerifierTypes'
  BY DEF VerifierTypes, Stage, WithChecker
<1>4. Alone' /\ Inside'
  BY DEF Alone, Inside, InClose, muVars, WithChecker
<1>5. Fresh' /\ AtChain'
  BY DEF Fresh, AtChain, WithChecker, cacheVars, Gen
<1>6. Results'
  BY Results_Frame DEF cacheVars
<1>7. Decided'
  BY DEF Decided
<1> QED
  BY <1>3, <1>4, <1>5, <1>6, <1>7

\* Close gets the lock, closes the index and returns.
LEMMA Closing_CallbackInv ==
  ASSUME SafeInv, CallbackInv, Closing
  PROVE  CallbackInv'
<1>1. /\ at = "closing" /\ UNCHANGED <<req, i, sawNotRevoked, outcome, got, first>>
      /\ UNCHANGED pubs /\ made' = made
      /\ at' = IF pc'[Me] = "idle" THEN "returned" ELSE "closing"
      /\ Me \in Proc /\ pc \in [Proc -> PC] /\ pc[Me] \in {"closeLock", "close"}
  BY LocalTypes, VerifierAssumption
  DEF Closing, CallLock, Close, cacheVars, CallbackInv, Inside, InClose
<1>2. \/ /\ pc' = [pc EXCEPT ![Me] = "close"] /\ writer' = Me /\ UNCHANGED idx /\ at' = "closing"
      \/ /\ pc' = [pc EXCEPT ![Me] = "idle"] /\ writer' = NoProc /\ idx' = Nil /\ at' = "returned"
  <2>1. CASE CallLock(Me)
    BY <1>1, <2>1 DEF CallLock, Lock
  <2>2. CASE Close(Me)
    BY <1>1, <2>2 DEF Close, Unlock, ClosedIdx
  <2> QED
    BY <2>1, <2>2 DEF Closing
<1> USE <1>1, <1>2 DEF CallbackInv
<1>3. VerifierTypes'
  BY DEF VerifierTypes, Stage, WithChecker
<1>4. Alone'
  BY DEF Alone
<1>5. Inside'
  BY DEF Inside, InClose, WithChecker
<1>6. Fresh' /\ AtChain'
  BY DEF Fresh, AtChain, WithChecker, Gen
<1>7. Results'
  BY Results_Frame
<1>8. Decided'
  BY DEF Decided
<1> QED
  BY <1>3, <1>4, <1>5, <1>6, <1>7, <1>8

-----------------------------------------------------------------------------
(* The theorems *)

\* Every step of the call and of the cache; one case for each action.
LEMMA Next_CallbackInv == CheckerInv /\ CallbackInv /\ [VerifierNext]_allVars => CallbackInv'
<1> SUFFICES ASSUME CheckerInv, CallbackInv, [VerifierNext]_allVars PROVE CallbackInv'
  OBVIOUS
<1>1. SafeInv
  BY DEF CheckerInv
<1>2. ASSUME NoVerifiedChains \/ OpenCacheFails PROVE CallbackInv'
  <2>1. PICK o \in {"no verified chains", "no cache"} : ReturnEarly(o)
    BY <1>2 DEF NoVerifiedChains, OpenCacheFails
  <2>2. at = "start" /\ UNCHANGED vars /\ idx = Nil
    BY <1>2 DEF NoVerifiedChains, OpenCacheFails, CallbackInv, Inside
  <2> QED
    BY <2>1, <2>2, ReturnEarly_CallbackInv DEF vars, cacheVars, chkVars
<1>3. ASSUME NEW h \in FreeHandle, OpenCache(h) PROVE CallbackInv'
  BY <1>1, <1>3, OpenCache_CallbackInv
<1>4. ASSUME CheckChain \/ LoopEnds \/ BeginClose \/ Closing PROVE CallbackInv'
  BY <1>1, <1>4, CheckChain_CallbackInv, LoopEnds_CallbackInv, BeginClose_CallbackInv,
     Closing_CallbackInv
<1>5. ASSUME Checking \/ Reduce PROVE CallbackInv'
  BY <1>5, Checking_CallbackInv, Reduce_CallbackInv
<1>6. ASSUME \/ UpdateCache /\ UNCHANGED <<muVars, chkVars, verVars>>
             \/ UNCHANGED allVars
      PROVE  CallbackInv'
  BY <1>1, <1>6, UpdateCache_CallbackInv DEF allVars, vars, cacheVars
<1> QED
  BY <1>2, <1>3, <1>4, <1>5, <1>6 DEF VerifierNext, CallStep

\* The inductive invariant of the call holds in every state.
THEOREM Verifier_CallbackInv == VerifierSpec => [](CheckerInv /\ CallbackInv)
  BY Verifier_CheckerInv, Init_CallbackInv, Next_CallbackInv, PTL DEF VerifierSpec

\* Whichever way the callback or upki.Check returns, whatever the cache did
\* meanwhile, the Checker it opened is closed: no reader is open and the lock is
\* free.
THEOREM Verifier_ReturnsClean == VerifierSpec => []ReturnsClean
<1>1. CheckerInv /\ CallbackInv => ReturnsClean
  <2> SUFFICES ASSUME SafeInv, CallbackInv, Returned
               PROVE  hopen = {} /\ idx = Nil /\ readers = {} /\ writer = NoProc
    BY DEF CheckerInv, ReturnsClean
  <2>1. idx = Nil /\ pc[Me] = "idle"
    BY DEF CallbackInv, Inside, Returned
  <2>2. hopen = {}
    BY <2>1 DEF SafeInv, HandleInv
  <2>3. \A p \in Proc : pc[p] = "idle"
    BY <2>1 DEF CallbackInv, Alone
  <2>4. readers = {}
    BY <2>3 DEF SafeInv, LockInv, TypeOK, muTypeOK
  <2> QED
    BY <2>1, <2>2, <2>4, MyLock
<1> QED
  BY <1>1, Verifier_CallbackInv, PTL

\* A publication that explains a result was current during the call.
LEMMA ToldBacked ==
  ASSUME SafeInv, CallbackInv, NEW n \in 1..Len(got)
  PROVE  Backed(req.chains[n], got[n])
<1> DEFINE l == req.chains[n]
<1>1. Told(pubs, first, l, got[n]) /\ first \in Nat
  BY DEF CallbackInv, Results, VerifierTypes
<1>2. CASE ~Usable(l)
  BY <1>1, <1>2 DEF Told, Backed
<1>3. CASE Usable(l)
  <2>1. PICK g \in 1..Gen : g >= first /\ Justified(pubs[g], l, got[n])
    BY <1>1, <1>3 DEF Told, Gen
  <2>2. g \in first..Gen
    BY <1>1, <2>1, Generations
  <2>3. pubs[g] \in Current
    BY <2>2 DEF Current
  <2> QED
    BY <1>3, <2>1, <2>3 DEF Backed
<1> QED
  BY <1>2, <1>3

\* A chain that Check rejects by itself is neither revoked nor not revoked.
LEMMA RejectionInconclusive ==
  ASSUME NEW l
  PROVE  Rejection(l) \notin {Conclude("Revoked"), Conclude("NotRevoked")}
  BY DEF Rejection, Fail, Conclude

\* The decision of the callback, and the result of upki.Check, is one that an
\* index.bin published during the call, or current when it began, leads to: for
\* any list of chains, any number of reopens and any updates under them.
THEOREM Verifier_DecisionBacked == VerifierSpec => []DecisionBacked
<1>1. CheckerInv /\ CallbackInv => DecisionBacked
  <2> SUFFICES ASSUME SafeInv, CallbackInv, Returned PROVE DecisionBacked
    BY DEF CheckerInv, DecisionBacked
  <2>1. /\ Len(got) <= Len(req.chains) /\ Len(got) \in Nat /\ Len(req.chains) \in Nat
    BY VerifierAssumption DEF CallbackInv, Results, VerifierTypes
  <2>2. ASSUME NEW n \in 1..Len(got), NEW s \in {"Revoked", "NotRevoked"}, got[n] = Conclude(s)
        PROVE  \E m \in 1..Len(req.chains) :
                  Usable(req.chains[m]) /\ Backed(req.chains[m], Conclude(s))
    <3>1. Backed(req.chains[n], got[n])
      BY ToldBacked
    <3>2. Usable(req.chains[n])
      BY <2>2, <3>1, RejectionInconclusive DEF Backed
    <3> QED
      BY <2>1, <2>2, <3>1, <3>2
  <2>3. outcome = "revoked" => \E n \in 1..Len(req.chains) :
              Usable(req.chains[n]) /\ Backed(req.chains[n], Conclude("Revoked"))
    BY <2>2 DEF CallbackInv, Decided
  <2>4. outcome = "accept" /\ req.strict => \E n \in 1..Len(req.chains) :
              Usable(req.chains[n]) /\ Backed(req.chains[n], Conclude("NotRevoked"))
    BY <2>2 DEF CallbackInv, Decided, Results
  <2>5. outcome = "result" => Backed(req.chains[1], got[1])
    BY ToldBacked DEF CallbackInv, Decided
  <2> QED
    BY <2>3, <2>4, <2>5 DEF DecisionBacked
<1> QED
  BY <1>1, Verifier_CallbackInv, PTL

\* A chain that every index of the time of the call reveals as revoked gets no
\* answer but revoked, or one of the errors that excuse the callback.
LEMMA RevealedIsTold ==
  ASSUME SafeInv, CallbackInv, NEW n \in 1..Len(got), Reliable,
         \A x \in Current : Reveals(x, req.chains[n]), got[n] # Conclude("Revoked")
  PROVE  \/ got[n].err \in {"IO", "Reopen"}
         \/ got[n].err = "NotExist" /\ Gen >= first + maxIndexReopens
<1> DEFINE l == req.chains[n]
           res == got[n]
<1>1. Told(pubs, first, l, res) /\ first \in Nat /\ res \in Result
  BY DEF CallbackInv, Results, VerifierTypes
<1>2. Usable(l)
  <2>1. got # <<>> /\ Gen \in Nat
    BY Generations
  <2>2. first \in first..Gen
    BY <2>1 DEF CallbackInv, Fresh
  <2>3. pubs[first] \in Current
    BY <2>2 DEF Current
  <2> QED
    BY <2>3 DEF Reveals
<1>3. PICK g \in 1..Gen : g >= first /\ Justified(pubs[g], l, res) /\ Explains(pubs[g], l, res)
  BY <1>1, <1>2 DEF Told, Gen
<1>4. Reveals(pubs[g], l)
  BY <1>1, <1>3, Generations DEF Current
<1> DEFINE A == AnswersOf(Selected(pubs[g], l), l)
<1>5. "Revoked" \in A /\ "Malformed" \notin A /\ Range(Scts[l]) \cap pubs[g].bad = {}
  BY <1>4 DEF Reveals
<1>6. res.status # "NotRevoked" /\ res # Conclude("NotCovered") /\ res.err # "Inconsistent"
  BY <1>3, <1>5 DEF Justified
<1>7. res.err \notin {"Lookup", "BadFilter", "Closed", "ChainTooShort", "MalformedSCT", "MalformedTBS"}
  BY <1>3, <1>5 DEF Explains
<1>8. res.err # "nil"
  <2>1. res.err = "nil" => res \in {Conclude("Revoked"), Conclude("NotRevoked"), Conclude("NotCovered")}
    BY <1>1 DEF Result, Conclude
  <2>2. Conclude("NotRevoked").status = "NotRevoked"
    BY DEF Conclude
  <2> QED
    BY <1>6, <2>1, <2>2
<1>9. res.err \in {"IO", "Reopen", "NotExist"}
  BY <1>1, <1>6, <1>7, <1>8 DEF Result, Errors
<1> QED
  BY <1>1, <1>2, <1>9 DEF Told, Gen

\* Failing open is confined to a cache that cannot be read or that is updated
\* at least maxIndexReopens times under one check: a chain that all indexes of
\* the time of the call reveal as revoked is otherwise refused, wherever it is
\* in the list and whatever the others turned out to be.
THEOREM Verifier_FailsOpenOnlyInTrouble == VerifierSpec => []FailsOpenOnlyInTrouble
<1>1. CheckerInv /\ CallbackInv => FailsOpenOnlyInTrouble
  <2> SUFFICES ASSUME SafeInv, CallbackInv, outcome = "accept", Reliable,
                      NEW n \in 1..Len(req.chains), \A x \in Current : Reveals(x, req.chains[n])
               PROVE  /\ n \in DOMAIN got
                      /\ \/ got[n].err \in {"IO", "Reopen"}
                         \/ got[n].err = "NotExist" /\ Gen >= first + maxIndexReopens
    BY DEF CheckerInv, FailsOpenOnlyInTrouble
  <2>1. n \in 1..Len(got) /\ DOMAIN got = 1..Len(got) /\ got[n] # Conclude("Revoked")
    BY DEF CallbackInv, Decided, VerifierTypes
  <2> QED
    BY <2>1, RevealedIsTold
<1> QED
  BY <1>1, Verifier_CallbackInv, PTL
=============================================================================
