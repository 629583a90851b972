---------------------------- MODULE CheckerProofs ----------------------------
(***************************************************************************)
(* The Checker is safe for any number of goroutines, readers, filters and  *)
(* indexes, whatever order the writer of the cache works in.               *)
(* IndexHeldOpen and NoReaderLeak are not inductive: that nobody replaces  *)
(* c.idx under a pass follows from who may be inside c.mu (LockInv), and   *)
(* that a reader is closed exactly once follows from c.idx owning the only *)
(* open one (HandleInv).  CallInv carries what a check that is about to    *)
(* reopen must remember.                                                   *)
(***************************************************************************)
EXTENDS CheckerRefinement, CheckerOpens, TLAPS

\* Who holds or waits for c.mu, by where each goroutine is.
LockInv ==
    /\ \A p \in readers : pc[p] \in {"enter", "pass"}
    /\ \A p \in rwait : pc[p] = "enter" /\ p \notin readers
    /\ \A p \in Proc : pc[p] = "pass" => p \in readers
    /\ \A p \in Proc : pc[p] \in {"reopen", "close"} => writer = p

\* An index that is referred to was published; c.idx owns the only reader.
HandleInv ==
    /\ idx # Nil => idx.r \in hopen /\ idx.gen \in 1..Gen
    /\ \A h \in hopen : idx # Nil /\ h = idx.r
    /\ ~made => idx = Nil
    /\ \A p \in Proc : pass[p].idx # Nil => pass[p].idx.gen \in 1..Gen
    /\ \A p \in Proc : pc[p] = "pass" => pass[p].idx # Nil /\ pass[p].idx = idx

\* What a goroutine inside Check carries from one step to the next.
CallInv ==
    \A p \in Proc :
        /\ ~made => pc[p] = "idle"
        /\ InCheck(p) => call[p].leaf \in Leaf
        /\ pc[p] \in {"idle", "closeLock", "close"} => pass[p].idx = Nil
        /\ pc[p] \in {"reopenLock", "reopen"} =>
              call[p].reopens # maxIndexReopens /\ pass[p].idx # Nil

\* The inductive invariant.
SafeInv == TypeOK /\ LockInv /\ HandleInv /\ CallInv

\* Before NewCheckerWith there is no index, no reader and no call.
LEMMA Init_SafeInv == Init => SafeInv
<1> SUFFICES ASSUME Init PROVE SafeInv
  OBVIOUS
<1>1. muTypeOK
  BY DEF Init, muInit, muTypeOK
<1>2. cacheTypeOK
  BY DEF Init, cacheInit, cacheTypeOK
<1>3. made \in BOOLEAN /\ idx \in IndexPtr \cup {Nil} /\ hopen \subseteq Handle
  BY DEF Init
<1>4. pc \in [Proc -> PC] /\ \A p \in Proc : pc[p] = "idle"
  BY DEF Init, PC
<1>5. call \in [Proc -> CallLocals]
  BY CheckerAssumption DEF Init, NoCall, CallLocals
<1>6. pass \in [Proc -> PassLocals] /\ \A p \in Proc : pass[p].idx = Nil
  BY DEF Init, NewPass, PassLocals
<1>7. ret \in [Proc -> Result]
  BY DEF Init, Result, Conclude, Errors
<1>8. LockInv
  BY <1>4 DEF Init, muInit, LockInv
<1>9. HandleInv
  BY <1>4, <1>6 DEF Init, HandleInv
<1>10. CallInv
  BY <1>4, <1>6 DEF CallInv, InCheck
<1> QED
  BY <1>1, <1>2, <1>3, <1>4, <1>5, <1>6, <1>7, <1>8, <1>9, <1>10 DEF SafeInv, TypeOK

-----------------------------------------------------------------------------
(* Leave, the end of every pass, and Resume, the end of every reopen *)

\* checkOnce returning, whatever its result, keeps every variable in its type.
LEMMA Leave_Type ==
  ASSUME SafeInv, NEW p \in Proc, NEW i \in IndexPtr \cup {Nil}, NEW res \in Result,
         Leave(p, i, res)
  PROVE  TypeOK'
<1> USE DEF Leave, SafeInv, TypeOK
<1>1. muTypeOK' /\ cacheTypeOK'
  BY DEF RUnlock, muTypeOK, cacheTypeOK, cacheVars
<1>2. pc' \in [Proc -> PC]
  BY DEF PC
<1>3. NewPass(i, <<>>) \in PassLocals
  BY DEF NewPass, PassLocals
<1>4. pass' \in [Proc -> PassLocals] /\ ret' \in [Proc -> Result]
  BY <1>3
<1> QED
  BY <1>1, <1>2, <1>4

\* checkOnce returning with the index it held: the deferred RUnlock and the
\* loop test of Check keep the invariant.
LEMMA Leave_Inv ==
  ASSUME SafeInv, NEW p \in Proc, NEW i \in IndexPtr \cup {Nil}, NEW res \in Result,
         Leave(p, i, res), p \in readers, i = idx,
         res.err = "NotExist" => i # Nil
  PROVE  SafeInv'
<1>1. TypeOK'
  BY Leave_Type
<1>2. /\ pc' = [pc EXCEPT ![p] = IF Retries(p, res) THEN "reopenLock" ELSE "done"]
      /\ pass' = [pass EXCEPT ![p] = NewPass(i, <<>>)]
      /\ UNCHANGED <<cacheVars, made, idx, hopen, call, rwait, writer>>
      /\ readers' = readers \ {p}
      /\ pc \in [Proc -> PC] /\ pass \in [Proc -> PassLocals]
  BY DEF Leave, RUnlock, SafeInv, TypeOK
<1>3. pass'[p].idx = i
  BY <1>2 DEF NewPass
<1>4. LockInv'
  BY <1>2 DEF SafeInv, LockInv, PC, TypeOK, muTypeOK
<1>5. HandleInv'
  BY <1>2, <1>3 DEF SafeInv, HandleInv, cacheVars, Gen
<1>6. CallInv'
  <2>1. call[p].leaf \in Leaf /\ made'
    BY <1>2 DEF SafeInv, LockInv, CallInv, InCheck
  <2> QED
    BY <1>2, <1>3, <2>1 DEF SafeInv, CallInv, InCheck, Retries
<1> QED
  BY <1>1, <1>4, <1>5, <1>6 DEF SafeInv

\* reopenIndex returning nil: Unlock lets the queued readers in and the retry
\* is counted, which stays within maxIndexReopens because the loop test passed.
LEMMA Resume_Inv ==
  ASSUME SafeInv, NEW p \in Proc, pc[p] = "reopen", Writing(p), Resume(p),
         UNCHANGED <<cacheVars, made, pass, ret>>,
         idx' \in IndexPtr \cup {Nil}, hopen' \subseteq Handle, HandleInv'
  PROVE  SafeInv'
<1>1. /\ pc' = [pc EXCEPT ![p] = "rlock"]
      /\ call' = [call EXCEPT ![p].reopens = @ + 1]
      /\ readers' = rwait /\ rwait' = {} /\ writer' = NoProc
      /\ readers = {} /\ writer = p
      /\ pc \in [Proc -> PC] /\ call \in [Proc -> CallLocals]
  BY DEF Resume, Unlock, Writing, SafeInv, TypeOK
<1>2. call[p].reopens # maxIndexReopens
  BY DEF SafeInv, CallInv
<1>3. call' \in [Proc -> CallLocals]
  <2>1. call[p] \in CallLocals
    BY <1>1
  <2>2. call[p].reopens + 1 \in 0..maxIndexReopens
    BY <1>2, <2>1, CheckerAssumption DEF CallLocals
  <2>3. [call[p] EXCEPT !.reopens = @ + 1] \in CallLocals
    BY <2>1, <2>2 DEF CallLocals
  <2> QED
    BY <1>1, <2>3
<1>4. muTypeOK' /\ cacheTypeOK'
  BY <1>1 DEF SafeInv, TypeOK, muTypeOK, cacheTypeOK, cacheVars
<1>5. TypeOK'
  BY <1>1, <1>3, <1>4 DEF SafeInv, TypeOK, PC
<1>6. LockInv'
  BY <1>1 DEF SafeInv, LockInv, TypeOK, muTypeOK
<1>7. CallInv'
  BY <1>1 DEF SafeInv, CallInv, InCheck, CallLocals
<1> QED
  BY <1>5, <1>6, <1>7 DEF SafeInv

-----------------------------------------------------------------------------
(* Every step preserves the invariant *)

\* The results checkOnce can build are results, and its end never claims a
\* missing filter.
LEMMA FailResults ==
  /\ \A e \in Errors : Fail(e) \in Result
  /\ Conclude("Revoked") \in Result
  /\ \A ps : Outcome(ps) \in Result /\ Outcome(ps).err # "NotExist"
  BY DEF Fail, Conclude, Result, Errors, Outcome

\* The writer of the cache touches nothing of the Checker, and publications are
\* only ever added.
LEMMA UpdateCache_Inv ==
  ASSUME SafeInv, UpdateCache, UNCHANGED <<muVars, chkVars>>
  PROVE  SafeInv'
<1>1. /\ UNCHANGED <<made, idx, hopen, pc, call, pass, ret, readers, rwait, writer>>
  BY DEF muVars, chkVars
<1>2. cacheTypeOK' /\ Gen' \in Nat /\ Gen' >= Gen /\ Gen \in Nat
  <2>1. ASSUME NEW f \in Filename, WriteFilter(f) \/ RemoveFilter(f)
        PROVE  cacheTypeOK' /\ Gen' = Gen
    BY <2>1 DEF WriteFilter, RemoveFilter, SafeInv, TypeOK, cacheTypeOK, Gen
  <2>2. ASSUME NEW i \in Index, PublishIndex(i)
        PROVE  cacheTypeOK' /\ Gen' = Gen + 1
    BY <2>2 DEF PublishIndex, SafeInv, TypeOK, cacheTypeOK, Gen
  <2>3. Gen \in Nat
    BY DEF SafeInv, TypeOK, cacheTypeOK, Gen
  <2> QED
    BY <2>1, <2>2, <2>3 DEF UpdateCache
<1>3. TypeOK'
  BY <1>1, <1>2 DEF SafeInv, TypeOK, muTypeOK
<1>4. LockInv' /\ CallInv'
  BY <1>1 DEF SafeInv, LockInv, CallInv, InCheck
<1>5. HandleInv'
  BY <1>1, <1>2 DEF SafeInv, HandleInv, TypeOK, IndexPtr, PassLocals
<1> QED
  BY <1>3, <1>4, <1>5 DEF SafeInv

\* NewCheckerWith: a parsed index owns the reader it opened; a rejected one
\* closed it.
LEMMA NewCheckerWith_Inv ==
  ASSUME SafeInv, NEW h \in Handle, NewCheckerWith(h)
  PROVE  SafeInv'
<1>1. /\ UNCHANGED <<files, pubs, pc, call, pass, ret, readers, rwait, writer>>
      /\ ~made
      /\ idx = Nil
      /\ hopen = {}
  BY DEF NewCheckerWith, muVars, cacheVars, SafeInv, HandleInv
<1>2. Gen \in Nat /\ OnDisk.ok \in BOOLEAN
  BY VerdictAssumption DEF NewCheckerWith, SafeInv, TypeOK, cacheTypeOK, Gen, OnDisk
<1>3. TypeOK'
  <2>1. NewIndex(h) \in IndexPtr
    BY <1>2 DEF NewIndex, IndexPtr
  <2>2. muTypeOK' /\ cacheTypeOK'
    BY <1>1 DEF SafeInv, TypeOK, muTypeOK, cacheTypeOK
  <2>3. idx' \in IndexPtr \cup {Nil} /\ hopen' \subseteq Handle
    BY <1>1, <2>1 DEF NewCheckerWith, ReadersAfterOpen
  <2>4. made' \in BOOLEAN
    BY <1>2 DEF NewCheckerWith
  <2> QED
    BY <1>1, <2>2, <2>3, <2>4 DEF SafeInv, TypeOK
<1>4. LockInv' /\ CallInv'
  BY <1>1 DEF SafeInv, LockInv, CallInv, InCheck
<1>5. HandleInv'
  <2>1. CASE OnDisk.ok
    BY <1>1, <1>2, <2>1, CheckerAssumption
    DEF SafeInv, HandleInv, NewCheckerWith, ReadersAfterOpen, NewIndex, Gen
  <2>2. CASE ~OnDisk.ok
    BY <1>1, <1>2, <2>2
    DEF SafeInv, HandleInv, NewCheckerWith, ReadersAfterOpen, Gen
  <2> QED
    BY <2>1, <2>2
<1> QED
  BY <1>3, <1>4, <1>5 DEF SafeInv

\* The entry of Check: a chain that is rejected returns at once, any other goes
\* for the read lock.
LEMMA Check_Inv ==
  ASSUME SafeInv, NEW p \in Proc, NEW l \in Leaf, Check(p, l)
  PROVE  SafeInv'
<1>1. /\ UNCHANGED <<files, pubs, made, idx, hopen, pass, readers, rwait, writer>>
      /\ made /\ pc[p] = "idle"
      /\ call' = [call EXCEPT ![p] = [leaf |-> l, reopens |-> 0, since |-> Gen]]
      /\ pc' = [pc EXCEPT ![p] = IF Usable(l) THEN "rlock" ELSE "done"]
      /\ pc \in [Proc -> PC] /\ call \in [Proc -> CallLocals]
  BY DEF Check, muVars, cacheVars, SafeInv, TypeOK
<1>2. TypeOK'
  <2>1. [leaf |-> l, reopens |-> 0, since |-> Gen] \in CallLocals
    BY CheckerAssumption DEF CallLocals, Gen, SafeInv, TypeOK, cacheTypeOK
  <2>2. Rejection(l) \in Result
    BY DEF Rejection, Fail, Conclude, Result, Errors
  <2>3. muTypeOK' /\ cacheTypeOK'
    BY <1>1 DEF SafeInv, TypeOK, muTypeOK, cacheTypeOK
  <2>4. ret' \in [Proc -> Result]
    BY <2>2 DEF Check, SafeInv, TypeOK
  <2> QED
    BY <1>1, <2>1, <2>3, <2>4 DEF SafeInv, TypeOK, PC
<1>3. LockInv'
  BY <1>1 DEF SafeInv, LockInv, TypeOK, muTypeOK
<1>4. HandleInv'
  BY <1>1 DEF SafeInv, HandleInv, Gen
<1>5. CallInv'
  BY <1>1 DEF SafeInv, CallInv, InCheck
<1> QED
  BY <1>2, <1>3, <1>4, <1>5 DEF SafeInv

\* checkOnce asks for the read lock and has it, or queues behind a writer.
LEMMA CallRLock_Inv ==
  ASSUME SafeInv, NEW p \in Proc, CallRLock(p)
  PROVE  SafeInv'
<1>1. /\ UNCHANGED <<files, pubs, made, idx, hopen, call, pass, ret, writer>>
      /\ pc[p] = "rlock"
      /\ pc' = [pc EXCEPT ![p] = "enter"]
      /\ pc \in [Proc -> PC]
      /\ \/ readers' = readers \cup {p} /\ rwait' = rwait
         \/ readers' = readers /\ rwait' = rwait \cup {p}
  BY DEF CallRLock, RLock, cacheVars, SafeInv, TypeOK
<1>2. TypeOK'
  BY <1>1 DEF SafeInv, TypeOK, muTypeOK, cacheTypeOK, PC
<1>3. LockInv'
  BY <1>1 DEF SafeInv, LockInv, TypeOK, muTypeOK
<1>4. HandleInv' /\ CallInv'
  BY <1>1 DEF SafeInv, HandleInv, CallInv, InCheck, Gen
<1> QED
  BY <1>2, <1>3, <1>4 DEF SafeInv

\* checkOnce takes its snapshot of c.idx under the read lock, which no writer
\* can be inside of.
LEMMA Snapshot_Inv ==
  ASSUME SafeInv, NEW p \in Proc, Snapshot(p)
  PROVE  SafeInv'
<1>1. /\ UNCHANGED <<files, pubs, made, idx, hopen, call, ret, readers, rwait, writer>>
      /\ pc[p] = "enter" /\ p \in readers /\ idx # Nil
      /\ pass' = [pass EXCEPT ![p] = NewPass(idx, Scts[call[p].leaf])]
      /\ pc' = [pc EXCEPT ![p] = "pass"]
      /\ pc \in [Proc -> PC] /\ pass \in [Proc -> PassLocals]
  BY DEF Snapshot, KeepLock, Reading, muVars, cacheVars, SafeInv, TypeOK
<1>2. NewPass(idx, Scts[call[p].leaf]) \in PassLocals
  <2>1. Scts[call[p].leaf] \in Seq(SCT)
    BY <1>1, VerdictAssumption DEF SafeInv, CallInv, InCheck
  <2> QED
    BY <2>1 DEF NewPass, PassLocals, SafeInv, TypeOK
<1>3. pass'[p].idx = idx
  BY <1>1 DEF NewPass
<1>4. TypeOK'
  BY <1>1, <1>2 DEF SafeInv, TypeOK, muTypeOK, cacheTypeOK, PC
<1>5. LockInv'
  BY <1>1 DEF SafeInv, LockInv, TypeOK, muTypeOK
<1>6. HandleInv' /\ CallInv'
  BY <1>1, <1>3 DEF SafeInv, HandleInv, CallInv, InCheck, Gen
<1> QED
  BY <1>4, <1>5, <1>6 DEF SafeInv

\* The steps within a pass change only the names, todo and counts.
LEMMA InPass_Inv ==
  ASSUME SafeInv, NEW p \in Proc, NEW ps \in PassLocals, ps.idx = pass[p].idx,
         pass' = [pass EXCEPT ![p] = ps],
         UNCHANGED <<muVars, cacheVars, made, idx, hopen, pc, call, ret>>
  PROVE  SafeInv'
<1>1. pass \in [Proc -> PassLocals]
  BY DEF SafeInv, TypeOK
<1>2. TypeOK'
  BY <1>1 DEF SafeInv, TypeOK, muTypeOK, cacheTypeOK, muVars, cacheVars
<1>3. LockInv'
  BY DEF SafeInv, LockInv, muVars
<1>4. HandleInv' /\ CallInv'
  BY <1>1 DEF SafeInv, HandleInv, CallInv, InCheck, cacheVars, Gen
<1> QED
  BY <1>2, <1>3, <1>4 DEF SafeInv

\* What SafeInv says about a goroutine inside a pass.
LEMMA InPassFacts ==
  ASSUME SafeInv, NEW p \in Proc, pc[p] = "pass"
  PROVE  /\ p \in readers
         /\ pass[p] \in PassLocals
         /\ pass[p].idx # Nil /\ pass[p].idx = idx
         /\ idx \in IndexPtr
         /\ Held(p) \in Index
         /\ call[p].leaf \in Leaf
<1>1. pass[p].idx # Nil /\ pass[p].idx = idx /\ idx.gen \in 1..Gen
  BY DEF SafeInv, HandleInv
<1>2. pubs[pass[p].idx.gen] \in Index
  BY <1>1 DEF SafeInv, TypeOK, cacheTypeOK, Gen
<1> QED
  BY <1>1, <1>2 DEF SafeInv, LockInv, CallInv, InCheck, TypeOK, Held

\* A successful idx.Lookup of checkOnce.
LEMMA Lookup_Inv ==
  ASSUME SafeInv, NEW p \in Proc, Lookup(p)
  PROVE  SafeInv'
<1> DEFINE ps == [pass[p] EXCEPT !.names = Held(p).sel[Head(pass[p].todo)],
                                 !.todo = Tail(pass[p].todo)]
<1>1. pc[p] = "pass" /\ pass[p].todo # <<>>
  BY DEF Lookup, AtLookup
<1>2. pass[p] \in PassLocals /\ Held(p) \in Index
  BY <1>1, InPassFacts
<1>3. pass[p].todo \in Seq(SCT)
  BY <1>2 DEF PassLocals
<1>4. Head(pass[p].todo) \in SCT /\ Tail(pass[p].todo) \in Seq(SCT)
  BY <1>1, <1>3
<1>5. Held(p).sel[Head(pass[p].todo)] \in Seq(Filename)
  BY <1>2, <1>4, VerdictAssumption
<1>6. ps \in PassLocals /\ ps.idx = pass[p].idx
  BY <1>2, <1>4, <1>5 DEF PassLocals
<1>7. pass' = [pass EXCEPT ![p] = ps]
  BY DEF Lookup, SafeInv, TypeOK
<1>8. UNCHANGED <<muVars, cacheVars, made, idx, hopen, pc, call, ret>>
  BY DEF Lookup
<1> QED
  BY <1>6, <1>7, <1>8, InPass_Inv

\* checkOnce passing over a filter it has already queried.
LEMMA SkipSeen_Inv ==
  ASSUME SafeInv, NEW p \in Proc, SkipSeen(p)
  PROVE  SafeInv'
<1> DEFINE ps == [pass[p] EXCEPT !.names = Tail(pass[p].names)]
<1>1. pc[p] = "pass" /\ pass[p].names # <<>>
  BY DEF SkipSeen, AtFilter
<1>2. pass[p] \in PassLocals
  BY <1>1, InPassFacts
<1>3. Tail(pass[p].names) \in Seq(Filename)
  BY <1>1, <1>2 DEF PassLocals
<1>4. ps \in PassLocals /\ ps.idx = pass[p].idx
  BY <1>2, <1>3 DEF PassLocals
<1>5. pass' = [pass EXCEPT ![p] = ps]
  BY DEF SkipSeen, SafeInv, TypeOK
<1>6. UNCHANGED <<muVars, cacheVars, made, idx, hopen, pc, call, ret>>
  BY DEF SkipSeen
<1> QED
  BY <1>4, <1>5, <1>6, InPass_Inv

\* checkOnce counting a filter's answer that does not end the pass.
LEMMA FilterAnswers_Inv ==
  ASSUME SafeInv, NEW p \in Proc, FilterAnswers(p)
  PROVE  SafeInv'
<1> DEFINE ps == Tally(pass[p], Says(p))
<1>1. pc[p] = "pass" /\ pass[p].names # <<>>
  BY DEF FilterAnswers, Opens, AtQuery, AtFilter
<1>2. pass[p] \in PassLocals
  BY <1>1, InPassFacts
<1>3. Tail(pass[p].names) \in Seq(Filename) /\ Head(pass[p].names) \in Filename
  BY <1>1, <1>2 DEF PassLocals
<1>4. ps \in PassLocals /\ ps.idx = pass[p].idx
  BY <1>2, <1>3, SMTT(20) DEF PassLocals, Tally, Remembered
<1>5. pass' = [pass EXCEPT ![p] = ps]
  BY DEF FilterAnswers
<1>6. UNCHANGED <<muVars, cacheVars, made, idx, hopen, pc, call, ret>>
  BY DEF FilterAnswers
<1> QED
  BY <1>4, <1>5, <1>6, InPass_Inv

\* The steps that end a pass, and what each of them returns.
Ends(p) ==
    \/ SnapshotClosed(p)
    \/ LookupFails(p)
    \/ IndexGone(p)
    \/ MissingFilter(p)
    \/ IOFails(p)
    \/ BadFilter(p)
    \/ FilterRevokes(p)
    \/ Finish(p)

\* Every step with which a pass ends: a closed Checker, a failed lookup, a
\* missing, unreadable or bad filter, a revocation, or the end of the loops.
LEMMA Ends_Inv ==
  ASSUME SafeInv, NEW p \in Proc, Ends(p)
  PROVE  SafeInv'
<1>1. CASE SnapshotClosed(p)
  <2>1. Fail("Closed") \in Result /\ Fail("Closed").err # "NotExist"
    BY DEF Fail, Result, Errors
  <2>2. Leave(p, Nil, Fail("Closed")) /\ p \in readers /\ Nil = idx
    BY <1>1 DEF SnapshotClosed, Reading
  <2> QED
    BY <2>1, <2>2, Leave_Inv
<1>2. CASE ~SnapshotClosed(p)
  <2>1. pc[p] = "pass"
    BY <1>2 DEF Ends, LookupFails, IndexGone, MissingFilter, IOFails, BadFilter, FilterRevokes, Finish,
                AtLookup, AtQuery, AtFilter, Opens
  <2>2. p \in readers /\ pass[p].idx = idx /\ idx \in IndexPtr /\ idx # Nil
    BY <2>1, InPassFacts
  <2>3. PICK res \in Result : Leave(p, pass[p].idx, res)
    BY <1>2, FailResults
    DEF Ends, LookupFails, IndexGone, MissingFilter, IOFails, BadFilter, FilterRevokes, Finish, Errors
  <2> QED
    BY <2>2, <2>3, Leave_Inv
<1> QED
  BY <1>1, <1>2

\* reopenIndex finding that another check or Close replaced the index.
LEMMA ReopenReplaced_Inv ==
  ASSUME SafeInv, NEW p \in Proc, ReopenReplaced(p)
  PROVE  SafeInv'
<1>1. /\ pc[p] = "reopen" /\ Writing(p) /\ Resume(p)
      /\ UNCHANGED <<cacheVars, made, pass, ret>>
      /\ UNCHANGED <<idx, hopen>>
  BY DEF ReopenReplaced
<1>2. HandleInv'
  BY <1>1 DEF SafeInv, HandleInv, Resume, cacheVars, Gen, TypeOK
<1>3. idx' \in IndexPtr \cup {Nil} /\ hopen' \subseteq Handle
  BY <1>1 DEF SafeInv, TypeOK
<1> QED
  BY <1>1, <1>2, <1>3, Resume_Inv

\* reopenIndex installing a new index and closing the old one: no pass is under
\* way, so none holds the reader that is closed.
LEMMA ReopenIndex_Inv ==
  ASSUME SafeInv, NEW p \in Proc, NEW h \in FreeHandle, ReopenIndex(p, h)
  PROVE  SafeInv'
<1>1. /\ pc[p] = "reopen" /\ Writing(p) /\ Resume(p)
      /\ UNCHANGED <<cacheVars, made, pass, ret>>
      /\ idx' = [r |-> h, gen |-> Gen]
      /\ Gen > 0 /\ Gen \in Nat
      /\ h \in Handle
  BY DEF ReopenIndex, NewIndex, OpensIndex, FreeHandle, SafeInv, TypeOK, cacheTypeOK, Gen
<1>2. idx # Nil /\ idx \in IndexPtr
  BY <1>1 DEF ReopenIndex, Replaced, SafeInv, CallInv, TypeOK
<1>3. hopen = {idx.r} /\ idx.r # h
  BY <1>2 DEF SafeInv, HandleInv, FreeHandle
<1>4. hopen' = {h}
  BY <1>2, <1>3 DEF ReopenIndex, CloseIdx, ReadersAfterOpen
<1>5. idx' \in IndexPtr /\ idx' # Nil
  BY <1>1, CheckerAssumption DEF IndexPtr
<1>6. \A q \in Proc : pc'[q] # "pass"
  BY <1>1 DEF Resume, Writing, SafeInv, LockInv, TypeOK
<1>7. made
  BY <1>2 DEF SafeInv, HandleInv
<1>8. HandleInv'
  BY <1>1, <1>4, <1>5, <1>6, <1>7 DEF SafeInv, HandleInv, cacheVars, Gen
<1> QED
  BY <1>1, <1>4, <1>5, <1>8, Resume_Inv

\* reopenIndex failing keeps the old index and leaves no reader behind.
LEMMA ReopenFails_Inv ==
  ASSUME SafeInv, NEW p \in Proc, NEW h \in FreeHandle, ReopenFails(p, h)
  PROVE  SafeInv'
<1>1. /\ UNCHANGED <<files, pubs, made, idx, hopen, call, pass>>
      /\ pc[p] = "reopen"
      /\ readers = {} /\ writer = p
      /\ readers' = rwait /\ rwait' = {} /\ writer' = NoProc
      /\ pc' = [pc EXCEPT ![p] = "done"]
      /\ ret' = [ret EXCEPT ![p] = Fail("Reopen")]
      /\ pc \in [Proc -> PC] /\ ret \in [Proc -> Result]
  BY DEF ReopenFails, ReadersAfterOpen, Unlock, Writing, cacheVars, SafeInv, TypeOK
<1>2. Fail("Reopen") \in Result
  BY FailResults DEF Errors
<1>3. TypeOK'
  BY <1>1, <1>2 DEF SafeInv, TypeOK, muTypeOK, cacheTypeOK, PC
<1>4. LockInv'
  BY <1>1 DEF SafeInv, LockInv, TypeOK, muTypeOK
<1>5. HandleInv' /\ CallInv'
  BY <1>1 DEF SafeInv, HandleInv, CallInv, InCheck, Gen
<1> QED
  BY <1>3, <1>4, <1>5 DEF SafeInv

\* A goroutine asking for the write lock, to reopen or to close.
LEMMA CallLock_Inv ==
  ASSUME SafeInv, NEW p \in Proc, CallLock(p)
  PROVE  SafeInv'
<1>1. /\ UNCHANGED <<files, pubs, made, idx, hopen, call, pass, ret, readers, rwait>>
      /\ pc[p] \in {"reopenLock", "closeLock"}
      /\ writer = NoProc /\ writer' = p
      /\ pc' = [pc EXCEPT ![p] = IF pc[p] = "reopenLock" THEN "reopen" ELSE "close"]
      /\ pc \in [Proc -> PC]
  BY DEF CallLock, Lock, cacheVars, SafeInv, TypeOK
<1>2. TypeOK'
  BY <1>1 DEF SafeInv, TypeOK, muTypeOK, cacheTypeOK, PC
<1>3. LockInv'
  BY <1>1, NoProcAssumption DEF SafeInv, LockInv, TypeOK, muTypeOK
<1>4. HandleInv' /\ CallInv'
  BY <1>1 DEF SafeInv, HandleInv, CallInv, InCheck, Gen
<1> QED
  BY <1>2, <1>3, <1>4 DEF SafeInv

\* A caller calling Close.
LEMMA CallClose_Inv ==
  ASSUME SafeInv, NEW p \in Proc, CallClose(p)
  PROVE  SafeInv'
<1>1. /\ UNCHANGED <<files, pubs, made, idx, hopen, call, pass, ret, readers, rwait, writer>>
      /\ made /\ pc[p] = "idle"
      /\ pc' = [pc EXCEPT ![p] = "closeLock"]
      /\ pc \in [Proc -> PC]
  BY DEF CallClose, muVars, cacheVars, SafeInv, TypeOK
<1>2. TypeOK'
  BY <1>1 DEF SafeInv, TypeOK, muTypeOK, cacheTypeOK, PC
<1>3. LockInv'
  BY <1>1 DEF SafeInv, LockInv, TypeOK, muTypeOK
<1>4. HandleInv' /\ CallInv'
  BY <1>1 DEF SafeInv, HandleInv, CallInv, InCheck, Gen
<1> QED
  BY <1>2, <1>3, <1>4 DEF SafeInv

\* Close under the write lock: the only reader goes and c.idx with it.
LEMMA Close_Inv ==
  ASSUME SafeInv, NEW p \in Proc, Close(p)
  PROVE  SafeInv'
<1>1. /\ UNCHANGED <<files, pubs, made, call, pass, ret>>
      /\ pc[p] = "close"
      /\ readers = {} /\ writer = p
      /\ readers' = rwait /\ rwait' = {} /\ writer' = NoProc
      /\ pc' = [pc EXCEPT ![p] = "idle"]
      /\ pc \in [Proc -> PC]
      /\ idx' = Nil
  BY DEF Close, ClosedIdx, Unlock, Writing, cacheVars, SafeInv, TypeOK
<1>2. hopen' = {}
  <2>1. hopen = IF idx = Nil THEN {} ELSE {idx.r}
    BY DEF SafeInv, HandleInv
  <2> QED
    BY <2>1 DEF Close, CloseIdx
<1>3. TypeOK'
  BY <1>1, <1>2 DEF SafeInv, TypeOK, muTypeOK, cacheTypeOK, PC
<1>4. LockInv'
  BY <1>1 DEF SafeInv, LockInv, TypeOK, muTypeOK
<1>5. \A q \in Proc : pc'[q] # "pass"
  BY <1>1 DEF SafeInv, LockInv
<1>6. HandleInv' /\ CallInv'
  BY <1>1, <1>2, <1>5 DEF SafeInv, HandleInv, CallInv, InCheck, Gen
<1> QED
  BY <1>3, <1>4, <1>6 DEF SafeInv

\* The caller taking the result of Check.
LEMMA Return_Inv ==
  ASSUME SafeInv, NEW p \in Proc, Return(p)
  PROVE  SafeInv'
<1>1. /\ UNCHANGED <<files, pubs, made, idx, hopen, readers, rwait, writer>>
      /\ pc[p] = "done"
      /\ pc' = [pc EXCEPT ![p] = "idle"]
      /\ call' = [call EXCEPT ![p] = NoCall]
      /\ pass' = [pass EXCEPT ![p] = NewPass(Nil, <<>>)]
      /\ ret' = [ret EXCEPT ![p] = Conclude("NotCovered")]
      /\ pc \in [Proc -> PC] /\ pass \in [Proc -> PassLocals]
  BY DEF Return, muVars, cacheVars, SafeInv, TypeOK
<1>2. NewPass(Nil, <<>>) \in PassLocals /\ NewPass(Nil, <<>>).idx = Nil
  BY DEF NewPass, PassLocals
<1>3. NoCall \in CallLocals /\ Conclude("NotCovered") \in Result
  BY CheckerAssumption DEF NoCall, CallLocals, Conclude, Result, Errors
<1>4. TypeOK'
  BY <1>1, <1>2, <1>3 DEF SafeInv, TypeOK, muTypeOK, cacheTypeOK, PC
<1>5. LockInv'
  BY <1>1 DEF SafeInv, LockInv, TypeOK, muTypeOK
<1>6. HandleInv' /\ CallInv'
  BY <1>1, <1>2 DEF SafeInv, HandleInv, CallInv, InCheck, Gen
<1> QED
  BY <1>4, <1>5, <1>6 DEF SafeInv

\* Every step of the system keeps the invariant; one case for each action.
LEMMA Next_SafeInv == SafeInv /\ [Next]_vars => SafeInv'
<1> SUFFICES ASSUME SafeInv, [Next]_vars PROVE SafeInv'
  OBVIOUS
<1>1. CASE UpdateCache /\ UNCHANGED <<muVars, chkVars>>
  BY <1>1, UpdateCache_Inv
<1>2. ASSUME NEW h \in FreeHandle, NewCheckerWith(h) PROVE SafeInv'
  BY <1>2, NewCheckerWith_Inv DEF FreeHandle
<1>3. ASSUME NEW p \in Proc, NEW l \in Leaf, Check(p, l) PROVE SafeInv'
  BY <1>3, Check_Inv
<1>4. ASSUME NEW p \in Proc, CallClose(p) \/ CallLock(p) \/ Return(p) PROVE SafeInv'
  BY <1>4, CallClose_Inv, CallLock_Inv, Return_Inv
<1>5. ASSUME NEW p \in Proc, Step(p) PROVE SafeInv'
  <2>1. CASE Ends(p)
    BY <2>1, Ends_Inv
  <2>2. CASE CallRLock(p) \/ Snapshot(p) \/ Lookup(p) \/ SkipSeen(p) \/ FilterAnswers(p)
    BY <2>2, CallRLock_Inv, Snapshot_Inv, Lookup_Inv, SkipSeen_Inv, FilterAnswers_Inv
  <2>3. CASE ReopenReplaced(p) \/ Close(p)
    BY <2>3, ReopenReplaced_Inv, Close_Inv
  <2>4. ASSUME NEW h \in FreeHandle, ReopenIndex(p, h) \/ ReopenFails(p, h) PROVE SafeInv'
    BY <2>4, ReopenIndex_Inv, ReopenFails_Inv
  <2> QED
    BY <1>5, <2>1, <2>2, <2>3, <2>4 DEF Step, Ends
<1>6. CASE UNCHANGED vars
  BY <1>6 DEF vars, muVars, cacheVars, chkVars, SafeInv, TypeOK, muTypeOK, cacheTypeOK,
              LockInv, HandleInv, CallInv, InCheck, Gen
<1> QED
  BY <1>1, <1>2, <1>3, <1>4, <1>5, <1>6 DEF Next

\* The inductive invariant of the Checker holds in every state.
THEOREM CheckerSafe == Spec => []SafeInv
  BY Init_SafeInv, Next_SafeInv, PTL DEF Spec

\* Every variable keeps its type; in particular Check never counts more than
\* maxIndexReopens reopens.
THEOREM CheckerTypes == Spec => []TypeOK
<1>1. SafeInv => TypeOK
  BY DEF SafeInv
<1> QED
  BY <1>1, CheckerSafe, PTL

\* No reopen and no Close invalidates the index of a check under way, for any
\* number of goroutines: the snapshot c.idx of checkOnce is still c.idx and its
\* reader is open.
THEOREM CheckerHoldsIndexOpen == Spec => []IndexHeldOpen
<1>1. SafeInv => IndexHeldOpen
  BY DEF SafeInv, HandleInv, IndexHeldOpen
<1> QED
  BY <1>1, CheckerSafe, PTL

\* The Checker closes every index reader it opened but the one behind c.idx,
\* whatever races for reopenIndex and Close there are.
THEOREM CheckerLeaksNoReader == Spec => []NoReaderLeak
<1>1. SafeInv => NoReaderLeak
  BY DEF SafeInv, HandleInv, NoReaderLeak
<1> QED
  BY <1>1, CheckerSafe, PTL

\* Once Close has run no check that was waiting to reopen brings an index or a
\* reader back.
THEOREM CheckerCloseIsFinal == Spec => CloseIsFinal
<1>1. SafeInv /\ [Next]_vars => [made /\ idx = Nil => idx' = Nil /\ hopen' = {}]_vars
  <2> SUFFICES ASSUME SafeInv, Next, made, idx = Nil
               PROVE  idx' = Nil /\ hopen' = {}
    OBVIOUS
  <2>1. hopen = {}
    BY DEF SafeInv, HandleInv
  <2>2. ASSUME UNCHANGED <<idx, hopen>> PROVE idx' = Nil /\ hopen' = {}
    BY <2>1, <2>2
  <2>3. ASSUME NEW p \in Proc, NEW h \in FreeHandle, ReopenIndex(p, h) PROVE FALSE
    BY <2>3 DEF ReopenIndex, Replaced, SafeInv, CallInv
  <2>4. ASSUME NEW p \in Proc, NEW h \in FreeHandle, ReopenFails(p, h)
        PROVE  UNCHANGED <<idx, hopen>>
    BY <2>4 DEF ReopenFails, ReadersAfterOpen
  <2>5. ASSUME NEW p \in Proc, Close(p) PROVE idx' = Nil /\ hopen' = {}
    BY <2>1, <2>5 DEF Close, ClosedIdx, CloseIdx
  <2>6. ASSUME NEW h \in FreeHandle, NewCheckerWith(h) PROVE FALSE
    BY <2>6 DEF NewCheckerWith
  <2>7. CASE UpdateCache /\ UNCHANGED <<muVars, chkVars>>
    BY <2>2, <2>7 DEF chkVars
  <2>8. ASSUME NEW p \in Proc,
               Ends(p) \/ CallRLock(p) \/ Snapshot(p) \/ Lookup(p) \/ SkipSeen(p) \/ FilterAnswers(p)
                 \/ ReopenReplaced(p)
        PROVE  UNCHANGED <<idx, hopen>>
    BY <2>8 DEF Ends, SnapshotClosed, LookupFails, IndexGone, MissingFilter, IOFails, BadFilter,
                FilterRevokes, Finish, Leave, CallRLock, Snapshot, Lookup, SkipSeen,
                FilterAnswers, ReopenReplaced
  <2>9. ASSUME NEW p \in Proc,
               CallClose(p) \/ CallLock(p) \/ Return(p) \/ \E l \in Leaf : Check(p, l)
        PROVE  UNCHANGED <<idx, hopen>>
    BY <2>9 DEF CallClose, CallLock, Return, Check
  <2> QED
    BY <2>2, <2>3, <2>4, <2>5, <2>6, <2>7, <2>8, <2>9 DEF Next, Step, Ends
<1> QED
  BY <1>1, CheckerSafe, PTL DEF Spec, CloseIsFinal

-----------------------------------------------------------------------------
(* Facts that the proofs of the other invariants use *)

\* No local of q changes.
Same(q) == pc'[q] = pc[q] /\ call'[q] = call[q] /\ pass'[q] = pass[q] /\ ret'[q] = ret[q]

\* The types that let a step of p be told from what it does to the others.
LEMMA LocalTypes ==
  ASSUME SafeInv
  PROVE  /\ pc \in [Proc -> PC] /\ call \in [Proc -> CallLocals]
         /\ pass \in [Proc -> PassLocals] /\ ret \in [Proc -> Result]
  BY DEF SafeInv, TypeOK

\* Taking the head off a sequence takes one element from its range; the loops
\* of checkOnce over SCTs and filter names do so.
LEMMA RangeOfTail ==
  ASSUME NEW S, NEW s \in Seq(S), s # <<>>
  PROVE  /\ Head(s) \in Range(s)
         /\ Range(s) = {Head(s)} \cup Range(Tail(s))
<1>1. Len(s) \in Nat /\ Len(s) > 0 /\ DOMAIN s = 1..Len(s)
  OBVIOUS
<1>2. Head(s) = s[1] /\ Tail(s) \in Seq(S) /\ Len(Tail(s)) = Len(s) - 1
  OBVIOUS
<1>3. \A i \in 1..Len(s) - 1 : Tail(s)[i] = s[i + 1]
  OBVIOUS
<1>4. DOMAIN Tail(s) = 1..Len(s) - 1
  BY <1>2
<1>5. Head(s) \in Range(s)
  BY <1>1, <1>2 DEF Range
<1>6. ASSUME NEW x \in Range(Tail(s)) PROVE x \in Range(s)
  <2>1. PICK i \in 1..Len(s) - 1 : x = Tail(s)[i]
    BY <1>4 DEF Range
  <2>2. x = s[i + 1] /\ i + 1 \in 1..Len(s)
    BY <1>1, <1>3, <2>1
  <2> QED
    BY <1>1, <2>2 DEF Range
<1>7. ASSUME NEW x \in Range(s), x # Head(s) PROVE x \in Range(Tail(s))
  <2>1. PICK i \in 1..Len(s) : x = s[i]
    BY <1>1 DEF Range
  <2>2. i - 1 \in 1..Len(s) - 1
    BY <1>1, <1>2, <1>7, <2>1
  <2>3. x = Tail(s)[i - 1]
    BY <1>3, <2>1, <2>2
  <2> QED
    BY <1>4, <2>2, <2>3 DEF Range
<1> QED
  BY <1>5, <1>6, <1>7

-----------------------------------------------------------------------------
(***************************************************************************)
(* Under the cache atomicity contract every retry of Check is paid for by  *)
(* a publication.  MissingNeedsChurn is not inductive; Pace says how many  *)
(* publications a check with n reopens behind it must have seen, by where  *)
(* it is in its loop, and also when another check did the reopening for    *)
(* it.                                                                     *)
(***************************************************************************)

\* The contract holds of what is on disk now.
DiskComplete == Gen > 0 => Names(OnDisk) \subseteq files

\* How far the publications have moved on, by where a check is in its loop.
Pace(p) ==
    /\ InCheck(p) => call[p].since \in 0..Gen
    /\ pc[p] \in {"rlock", "enter", "pass"} /\ call[p].reopens > 0 /\ idx # Nil =>
          idx.gen + 1 >= call[p].since + call[p].reopens
    /\ pc[p] \in {"reopenLock", "reopen"} =>
          /\ pass[p].idx.gen < Gen
          /\ Gen >= call[p].since + call[p].reopens
          /\ idx # Nil /\ idx # pass[p].idx => idx.gen >= call[p].since + call[p].reopens
    /\ pc[p] = "pass" => Range(pass[p].names) \subseteq Names(Held(p))
    /\ pc[p] = "done" /\ ret[p].err = "NotExist" => Gen >= call[p].since + maxIndexReopens

\* The inductive invariant, beside SafeInv.
ChurnInv == Reliable => DiskComplete /\ \A p \in Proc : Pace(p)

\* Nothing is published and no check runs.
LEMMA Init_ChurnInv == Init => ChurnInv
<1> SUFFICES ASSUME Init PROVE ChurnInv
  OBVIOUS
<1>1. \A p \in Proc : pc[p] = "idle"
  BY DEF Init
<1>2. DiskComplete
  BY DEF Init, cacheInit, DiskComplete, Gen
<1> QED
  BY <1>1, <1>2 DEF ChurnInv, Pace, InCheck

-----------------------------------------------------------------------------
(* What a step leaves alone *)

\* The numbers that Pace compares are naturals, and c.idx was published.
LEMMA Generations ==
  ASSUME SafeInv
  PROVE  /\ Gen \in Nat
         /\ idx # Nil => idx.gen \in Nat /\ idx.gen <= Gen
         /\ maxIndexReopens \in Nat
         /\ \A q \in Proc : call[q].since \in Nat /\ call[q].reopens \in Nat
  BY CheckerAssumption
  DEF SafeInv, HandleInv, TypeOK, cacheTypeOK, Gen, IndexPtr, CallLocals

\* A goroutine that does not move, while c.idx and the cache stay, keeps its
\* pace.
LEMMA Pace_Frame ==
  ASSUME NEW q \in Proc, Pace(q), Same(q), UNCHANGED <<idx, pubs>>
  PROVE  Pace(q)'
  BY DEF Pace, Same, InCheck, Gen, Held

\* Under the write lock c.idx is replaced by what is on disk, or by nil.
LEMMA Pace_Swap ==
  ASSUME SafeInv, NEW q \in Proc, Pace(q), Same(q), UNCHANGED pubs,
         idx' = Nil \/ (idx # Nil /\ idx'.gen = Gen)
  PROVE  Pace(q)'
<1>1. /\ Gen \in Nat /\ Gen' = Gen
      /\ call[q].since \in Nat /\ call[q].reopens \in Nat
      /\ idx # Nil => idx.gen \in Nat /\ idx.gen <= Gen
  BY Generations DEF Gen
<1>2. InCheck(q) => call[q].since <= Gen
  BY <1>1 DEF Pace
<1>3. CASE idx' = Nil
  BY <1>3 DEF Pace, Same, InCheck, Gen, Held
<1>4. CASE idx' # Nil
  <2>1. idx # Nil /\ idx'.gen = Gen
    BY <1>4
  <2> QED
    BY <1>1, <1>2, <2>1 DEF Pace, Same, InCheck, Held
<1> QED
  BY <1>3, <1>4

\* A step of p is a step of ChurnInv if it is one of p's own Pace.
LEMMA OneMoves ==
  ASSUME SafeInv, Reliable, ChurnInv, NEW p \in Proc, UNCHANGED <<files, pubs>>,
         \A q \in Proc \ {p} : Same(q),
         UNCHANGED idx \/ idx' = Nil \/ (idx # Nil /\ idx'.gen = Gen),
         Pace(p)'
  PROVE  ChurnInv'
<1>1. \A q \in Proc \ {p} : Pace(q)'
  BY Pace_Frame, Pace_Swap DEF ChurnInv
<1>2. DiskComplete'
  BY DEF ChurnInv, DiskComplete, Gen, OnDisk
<1> QED
  BY <1>1, <1>2 DEF ChurnInv

\* The writer keeping the contract: index.bin names only files present, and no
\* update takes a check back.
LEMMA UpdateCache_Churn ==
  ASSUME SafeInv, Reliable, ChurnInv, UpdateCache, UNCHANGED <<muVars, chkVars>>
  PROVE  ChurnInv'
<1>1. UNCHANGED <<made, idx, hopen, pc, call, pass, ret>>
  BY DEF chkVars
<1>2. pubs \in Seq(Index) /\ Gen \in Nat
  BY DEF SafeInv, TypeOK, cacheTypeOK, Gen
<1>3. /\ Gen' \in Nat /\ Gen' >= Gen
      /\ \A g \in 1..Gen : pubs'[g] = pubs[g]
      /\ DiskComplete'
  <2>1. ASSUME NEW f \in Filename, WriteFilter(f)
        PROVE  pubs' = pubs /\ DiskComplete'
    BY <2>1 DEF WriteFilter, ChurnInv, DiskComplete, Gen, OnDisk
  <2>2. ASSUME NEW f \in Filename, RemoveFilter(f)
        PROVE  pubs' = pubs /\ DiskComplete'
    BY <2>2 DEF RemoveFilter, ChurnInv, DiskComplete, Gen, OnDisk, Reliable
  <2>3. ASSUME NEW i \in Index, PublishIndex(i)
        PROVE  /\ Gen' = Gen + 1
               /\ \A g \in 1..Gen : pubs'[g] = pubs[g]
               /\ DiskComplete'
    <3>1. Gen' = Gen + 1 /\ pubs'[Gen + 1] = i /\ \A g \in 1..Gen : pubs'[g] = pubs[g]
      BY <1>2, <2>3 DEF PublishIndex, Gen
    <3>2. OnDisk' = i
      BY <3>1 DEF OnDisk
    <3> QED
      BY <2>3, <3>1, <3>2 DEF PublishIndex, DiskComplete, Reliable
  <2> QED
    BY <1>2, <2>1, <2>2, <2>3 DEF UpdateCache, Gen
<1>4. ASSUME NEW q \in Proc PROVE Pace(q)'
  <2>1. Pace(q)
    BY DEF ChurnInv
  <2>2. pc[q] = "pass" => pass[q].idx.gen \in 1..Gen
    BY DEF SafeInv, HandleInv
  <2>3. pc[q] \in {"reopenLock", "reopen"} => pass[q].idx.gen \in 1..Gen
    BY DEF SafeInv, HandleInv, CallInv
  <2>4. pc[q] = "pass" => Held(q)' = Held(q)
    BY <1>1, <1>3, <2>2 DEF Held
  <2>5. call[q].since \in Nat /\ call[q].reopens \in Nat /\ maxIndexReopens \in Nat
    BY Generations
  <2>6. pc[q] = "pass" => (Range(pass[q].names) \subseteq Names(Held(q)))'
    BY <1>1, <2>1, <2>4 DEF Pace
  <2> QED
    BY <1>1, <1>2, <1>3, <2>1, <2>3, <2>5, <2>6, SMTT(20) DEF Pace, InCheck
<1> QED
  BY <1>3, <1>4 DEF ChurnInv

\* NewCheckerWith: no check runs yet.
LEMMA NewCheckerWith_Churn ==
  ASSUME SafeInv, Reliable, ChurnInv, NEW h \in Handle, NewCheckerWith(h)
  PROVE  ChurnInv'
<1>1. UNCHANGED <<files, pubs, pc>> /\ \A p \in Proc : pc[p] = "idle"
  BY DEF NewCheckerWith, cacheVars, SafeInv, CallInv
<1> QED
  BY <1>1 DEF ChurnInv, DiskComplete, Pace, InCheck, Gen, OnDisk

\* A check that starts notes the generation on disk and has not reopened yet.
LEMMA Check_Churn ==
  ASSUME SafeInv, Reliable, ChurnInv, NEW p \in Proc, NEW l \in Leaf, Check(p, l)
  PROVE  ChurnInv'
<1>1. UNCHANGED <<files, pubs, idx>> /\ \A q \in Proc \ {p} : Same(q)
  BY LocalTypes DEF Check, cacheVars, Same
<1>2. Rejection(l).err # "NotExist"
  BY DEF Rejection, Fail, Conclude
<1>3. /\ call'[p].since = Gen /\ call'[p].reopens = 0
      /\ pc'[p] = "rlock" \/ (pc'[p] = "done" /\ ret'[p].err # "NotExist")
  BY <1>2, LocalTypes DEF Check
<1>4. Gen' = Gen /\ Gen \in Nat
  BY <1>1, Generations DEF Gen
<1>5. Pace(p)'
  BY <1>3, <1>4 DEF Pace, InCheck
<1> QED
  BY <1>1, <1>5, OneMoves

\* Asking for the read lock changes no pace.
LEMMA CallRLock_Churn ==
  ASSUME SafeInv, Reliable, ChurnInv, NEW p \in Proc, CallRLock(p)
  PROVE  ChurnInv'
<1>1. UNCHANGED <<files, pubs, idx>> /\ \A q \in Proc \ {p} : Same(q)
  BY LocalTypes DEF CallRLock, cacheVars, Same
<1>2. /\ UNCHANGED <<call, pass, ret>>
      /\ pc[p] = "rlock" /\ pc'[p] = "enter"
  BY LocalTypes DEF CallRLock
<1>3. Pace(p)'
  BY <1>1, <1>2 DEF ChurnInv, Pace, InCheck, Gen
<1> QED
  BY <1>1, <1>3, OneMoves

\* The snapshot of c.idx starts with no filter to query.
LEMMA Snapshot_Churn ==
  ASSUME SafeInv, Reliable, ChurnInv, NEW p \in Proc, Snapshot(p)
  PROVE  ChurnInv'
<1>1. UNCHANGED <<files, pubs, idx>> /\ \A q \in Proc \ {p} : Same(q)
  BY LocalTypes DEF Snapshot, cacheVars, Same
<1>2. /\ UNCHANGED <<call, ret>>
      /\ pc[p] = "enter" /\ pc'[p] = "pass"
      /\ pass'[p].names = <<>>
  BY LocalTypes DEF Snapshot, NewPass
<1>3. Range(<<>>) = {}
  BY DEF Range
<1>4. Pace(p)'
  BY <1>1, <1>2, <1>3 DEF ChurnInv, Pace, InCheck, Gen
<1> QED
  BY <1>1, <1>4, OneMoves

\* Within a pass the names left to query come from the index held.
LEMMA InPass_Churn ==
  ASSUME SafeInv, Reliable, ChurnInv, NEW p \in Proc, pc[p] = "pass",
         UNCHANGED <<cacheVars, idx, pc, call, ret>>,
         \A q \in Proc \ {p} : pass'[q] = pass[q],
         pass'[p].idx = pass[p].idx,
         Range(pass'[p].names) \subseteq Names(Held(p))
  PROVE  ChurnInv'
<1>1. UNCHANGED <<files, pubs, idx>> /\ \A q \in Proc \ {p} : Same(q)
  BY DEF cacheVars, Same
<1>2. Held(p)' = Held(p)
  BY <1>1 DEF Held
<1>3. Pace(p)'
  BY <1>1, <1>2 DEF ChurnInv, Pace, InCheck, Gen
<1> QED
  BY <1>1, <1>3, OneMoves

\* The names that idx.Lookup returns are names of the index held.
LEMMA Lookup_Churn ==
  ASSUME SafeInv, Reliable, ChurnInv, NEW p \in Proc, Lookup(p)
  PROVE  ChurnInv'
<1> DEFINE s == Head(pass[p].todo)
<1>1. pc[p] = "pass" /\ pass[p].todo # <<>>
  BY DEF Lookup, AtLookup
<1>2. pass[p] \in PassLocals
  BY <1>1, InPassFacts
<1>3. s \in SCT \ Held(p).bad
  BY <1>1, <1>2 DEF PassLocals, Lookup, Readable
<1>4. /\ UNCHANGED <<cacheVars, idx, pc, call, ret>>
      /\ \A q \in Proc \ {p} : pass'[q] = pass[q]
      /\ pass'[p] = [pass[p] EXCEPT !.names = Held(p).sel[s], !.todo = Tail(@)]
  BY LocalTypes DEF Lookup
<1>5. pass'[p].idx = pass[p].idx /\ pass'[p].names = Held(p).sel[s]
  BY <1>2, <1>4 DEF PassLocals
<1>6. Range(pass'[p].names) \subseteq Names(Held(p))
  BY <1>3, <1>5 DEF Names
<1> QED
  BY <1>1, <1>4, <1>5, <1>6, InPass_Churn

\* Going on to the next filter leaves only names of the index held.
LEMMA Advance_Churn ==
  ASSUME SafeInv, Reliable, ChurnInv, NEW p \in Proc, SkipSeen(p) \/ FilterAnswers(p)
  PROVE  ChurnInv'
<1>1. pc[p] = "pass" /\ pass[p].names # <<>>
  BY DEF SkipSeen, FilterAnswers, Opens, AtQuery, AtFilter
<1>2. pass[p] \in PassLocals
  BY <1>1, InPassFacts
<1>3. /\ UNCHANGED <<cacheVars, idx, pc, call, ret>>
      /\ \A q \in Proc \ {p} : pass'[q] = pass[q]
  BY LocalTypes DEF SkipSeen, FilterAnswers
<1>4. pass'[p].idx = pass[p].idx /\ pass'[p].names = Tail(pass[p].names)
  <2>1. CASE SkipSeen(p)
    <3>1. pass'[p] = [pass[p] EXCEPT !.names = Tail(@)]
      BY <2>1, LocalTypes DEF SkipSeen
    <3> QED
      BY <1>2, <3>1 DEF PassLocals
  <2>2. CASE FilterAnswers(p)
    BY <2>2, LocalTypes DEF FilterAnswers, Tally
  <2> QED
    BY <2>1, <2>2
<1>5. Range(pass[p].names) \subseteq Names(Held(p))
  BY <1>1 DEF ChurnInv, Pace
<1>6. pass[p].names \in Seq(Filename)
  BY <1>2 DEF PassLocals
<1>7. Range(pass'[p].names) \subseteq Names(Held(p))
  BY <1>1, <1>4, <1>5, <1>6, RangeOfTail
<1> QED
  BY <1>1, <1>3, <1>4, <1>7, InPass_Churn

\* A pass that ends in any other way than on a missing filter.
LEMMA OtherEnd_Churn ==
  ASSUME SafeInv, Reliable, ChurnInv, NEW p \in Proc, NEW i, NEW res \in Result,
         Leave(p, i, res), res.err # "NotExist"
  PROVE  ChurnInv'
<1>1. UNCHANGED <<files, pubs, idx>> /\ \A q \in Proc \ {p} : Same(q)
  BY LocalTypes DEF Leave, cacheVars, Same
<1>2. pc'[p] = "done" /\ ret'[p] = res
  BY LocalTypes DEF Leave, Retries
<1>3. Pace(p)'
  BY <1>2 DEF Pace, InCheck
<1> QED
  BY <1>1, <1>3, OneMoves

(***************************************************************************)
(* The heart of the argument: the filter is missing, and the index on disk *)
(* names only filters that are there, so the index held is an older one.   *)
(***************************************************************************)
LEMMA MissingMeansSuperseded ==
  ASSUME SafeInv, Reliable, ChurnInv, NEW p \in Proc, MissingFilter(p)
  PROVE  idx # Nil /\ pass[p].idx = idx /\ idx.gen < Gen
<1>1. pc[p] = "pass" /\ pass[p].names # <<>> /\ NextFilter(p) \notin files
  BY DEF MissingFilter, AtQuery, AtFilter
<1>2. pass[p] \in PassLocals /\ pass[p].idx # Nil /\ pass[p].idx = idx
  BY <1>1, InPassFacts
<1>3. NextFilter(p) \in Names(Held(p))
  <2>1. pass[p].names \in Seq(Filename)
    BY <1>2 DEF PassLocals
  <2>2. Head(pass[p].names) \in Range(pass[p].names)
    BY <1>1, <2>1, RangeOfTail
  <2> QED
    BY <1>1, <2>2 DEF ChurnInv, Pace, NextFilter
<1>4. idx.gen \in 1..Gen /\ Gen \in Nat
  BY <1>2, Generations DEF SafeInv, HandleInv
<1>5. idx.gen # Gen
  BY <1>1, <1>2, <1>3, <1>4 DEF ChurnInv, DiskComplete, Held, OnDisk
<1> QED
  BY <1>2, <1>4, <1>5

\* A pass that ends on a missing filter was on an index older than the one on
\* disk, which is what the next reopen, or the error after the last one, needs.
LEMMA MissingFilter_Churn ==
  ASSUME SafeInv, Reliable, ChurnInv, NEW p \in Proc, MissingFilter(p)
  PROVE  ChurnInv'
<1>1. UNCHANGED <<files, pubs, idx>> /\ \A q \in Proc \ {p} : Same(q)
  BY LocalTypes DEF MissingFilter, Leave, cacheVars, Same
<1>2. pc[p] = "pass" /\ idx # Nil /\ pass[p].idx = idx /\ idx.gen < Gen
  BY MissingMeansSuperseded DEF MissingFilter, AtQuery, AtFilter
<1>3. /\ call' = call
      /\ pass'[p].idx = idx
      /\ pc'[p] = "reopenLock" \/ (pc'[p] = "done" /\ call[p].reopens = maxIndexReopens)
  BY <1>2, LocalTypes DEF MissingFilter, Leave, Retries, Fail, NewPass
<1>4. Gen >= call[p].since + call[p].reopens
  <2>1. Pace(p) /\ InCheck(p)
    BY <1>2 DEF ChurnInv, InCheck
  <2>2. /\ Gen \in Nat /\ idx.gen \in Nat
        /\ call[p].since \in Nat /\ call[p].reopens \in Nat
    BY <1>2, Generations
  <2> QED
    BY <1>2, <2>1, <2>2 DEF Pace
<1>5. Gen' = Gen /\ call[p].since \in 0..Gen
  BY <1>1, <1>2 DEF Gen, ChurnInv, Pace, InCheck
<1>6. Pace(p)'
  BY <1>1, <1>2, <1>3, <1>4, <1>5 DEF Pace, InCheck
<1> QED
  BY <1>1, <1>6, OneMoves

\* A retry after reopenIndex: c.idx is now the index on disk, or one another
\* check installed since, and that is one generation further.
LEMMA Reopen_Churn ==
  ASSUME SafeInv, Reliable, ChurnInv, NEW p \in Proc, pc[p] = "reopen", Resume(p),
         UNCHANGED <<files, pubs, pass, ret>>,
         \/ UNCHANGED idx /\ idx # pass[p].idx
         \/ idx # Nil /\ idx'.gen = Gen
  PROVE  ChurnInv'
<1>1. \A q \in Proc \ {p} : Same(q)
  BY LocalTypes DEF Resume, Same
<1>2. /\ pc'[p] = "rlock"
      /\ call'[p] = [call[p] EXCEPT !.reopens = @ + 1]
      /\ call[p] \in CallLocals
  BY LocalTypes DEF Resume
<1>3. call'[p].since = call[p].since /\ call'[p].reopens = call[p].reopens + 1
  BY <1>2 DEF CallLocals
<1>4. /\ Gen' = Gen /\ Gen \in Nat
      /\ call[p].since \in Nat /\ call[p].reopens \in Nat
      /\ idx # Nil => idx.gen \in Nat
  BY Generations DEF Gen
<1>5. /\ call[p].since \in 0..Gen
      /\ Gen >= call[p].since + call[p].reopens
      /\ idx # Nil /\ idx # pass[p].idx => idx.gen >= call[p].since + call[p].reopens
  BY DEF ChurnInv, Pace, InCheck
<1>6. idx' # Nil => idx'.gen \in Nat /\ idx'.gen >= call[p].since + call[p].reopens
  BY <1>4, <1>5
<1>7. Pace(p)'
  BY <1>2, <1>3, <1>4, <1>5, <1>6 DEF Pace, InCheck
<1> QED
  BY <1>1, <1>7, OneMoves

\* The remaining steps take p out of Check or leave it where it was.
LEMMA Plain_Churn ==
  ASSUME SafeInv, Reliable, ChurnInv, NEW p \in Proc,
         CallClose(p) \/ CallLock(p) \/ Return(p) \/ Close(p)
           \/ \E h \in FreeHandle : ReopenFails(p, h)
  PROVE  ChurnInv'
<1>1. UNCHANGED <<files, pubs>> /\ \A q \in Proc \ {p} : Same(q)
  BY LocalTypes DEF CallClose, CallLock, Return, Close, ReopenFails, cacheVars, Same
<1>2. UNCHANGED idx \/ idx' = Nil
  BY DEF CallClose, CallLock, Return, Close, ReopenFails, ClosedIdx
<1>3. \/ pc'[p] \in {"idle", "closeLock", "close"}
      \/ pc'[p] = "done" /\ ret'[p].err = "Reopen"
      \/ /\ pc[p] = "reopenLock" /\ pc'[p] = "reopen"
         /\ UNCHANGED <<idx, call, pass>>
  <2>1. CASE CallClose(p) \/ Return(p) \/ Close(p)
    BY <2>1, LocalTypes DEF CallClose, Return, Close
  <2>2. CASE CallLock(p)
    BY <2>2, LocalTypes DEF CallLock
  <2>3. CASE \E h \in FreeHandle : ReopenFails(p, h)
    BY <2>3, LocalTypes DEF ReopenFails, Fail
  <2> QED
    BY <2>1, <2>2, <2>3
<1>4. Gen' = Gen
  BY <1>1 DEF Gen
<1>5. Pace(p)'
  BY <1>3, <1>4 DEF ChurnInv, Pace, InCheck
<1> QED
  BY <1>1, <1>2, <1>5, OneMoves

\* Every step of the system keeps the pace of every check; one case for each
\* action.
LEMMA Next_ChurnInv == SafeInv /\ ChurnInv /\ [Next]_vars => ChurnInv'
<1> SUFFICES ASSUME SafeInv, ChurnInv, [Next]_vars, Reliable PROVE ChurnInv'
  BY DEF ChurnInv
<1>1. CASE UpdateCache /\ UNCHANGED <<muVars, chkVars>>
  BY <1>1, UpdateCache_Churn
<1>2. ASSUME NEW h \in FreeHandle, NewCheckerWith(h) PROVE ChurnInv'
  BY <1>2, NewCheckerWith_Churn DEF FreeHandle
<1>3. ASSUME NEW p \in Proc, NEW l \in Leaf, Check(p, l) PROVE ChurnInv'
  BY <1>3, Check_Churn
<1>4. ASSUME NEW p \in Proc,
             CallClose(p) \/ CallLock(p) \/ Return(p) \/ Close(p)
               \/ \E h \in FreeHandle : ReopenFails(p, h)
      PROVE  ChurnInv'
  BY <1>4, Plain_Churn
<1>5. ASSUME NEW p \in Proc,
             CallRLock(p) \/ Snapshot(p) \/ Lookup(p) \/ SkipSeen(p) \/ FilterAnswers(p)
      PROVE  ChurnInv'
  BY <1>5, CallRLock_Churn, Snapshot_Churn, Lookup_Churn, Advance_Churn
<1>6. ASSUME NEW p \in Proc, Ends(p) PROVE ChurnInv'
  <2>1. CASE MissingFilter(p)
    BY <2>1, MissingFilter_Churn
  <2>2. CASE ~MissingFilter(p)
    <3>1. ~IndexGone(p) /\ \A e \in Errors : Fail(e).err = e
      BY DEF Fail, IndexGone, Reliable
    <3>2. \E i : \E res \in Result : Leave(p, i, res) /\ res.err # "NotExist"
      BY <1>6, <2>2, <3>1, FailResults
      DEF Ends, SnapshotClosed, LookupFails, IOFails, BadFilter, FilterRevokes, Finish,
          Errors, Conclude
    <3> QED
      BY <3>2, OtherEnd_Churn
  <2> QED
    BY <2>1, <2>2
<1>7. ASSUME NEW p \in Proc, ReopenReplaced(p) PROVE ChurnInv'
  <2>1. /\ pc[p] = "reopen" /\ Resume(p) /\ UNCHANGED <<files, pubs, pass, ret, idx>>
        /\ idx # pass[p].idx
    BY <1>7 DEF ReopenReplaced, Replaced, cacheVars
  <2> QED
    BY <2>1, Reopen_Churn
<1>8. ASSUME NEW p \in Proc, NEW h \in FreeHandle, ReopenIndex(p, h) PROVE ChurnInv'
  <2>1. /\ pc[p] = "reopen" /\ Resume(p) /\ UNCHANGED <<files, pubs, pass, ret>>
        /\ idx # Nil /\ idx'.gen = Gen
    BY <1>8 DEF ReopenIndex, Replaced, NewIndex, cacheVars, SafeInv, CallInv
  <2> QED
    BY <2>1, Reopen_Churn
<1>9. CASE UNCHANGED vars
  BY <1>9 DEF vars, cacheVars, chkVars, ChurnInv, DiskComplete, Pace, InCheck, Gen, OnDisk, Held
<1> QED
  BY <1>1, <1>2, <1>3, <1>4, <1>5, <1>6, <1>7, <1>8, <1>9 DEF Next, Step, Ends

\* Both invariants hold in every state.
THEOREM CheckerChurn == Spec => [](SafeInv /\ ChurnInv)
  BY CheckerSafe, Init_ChurnInv, Next_ChurnInv, PTL DEF Spec

\* Under the contract Check returns an fs.ErrNotExist error only if the cache
\* was updated at least maxIndexReopens times during the call, whatever the
\* number of concurrent checks and of updates.
THEOREM CheckerMissingNeedsChurn == Spec => []MissingNeedsChurn
<1>1. ChurnInv => MissingNeedsChurn
  BY DEF ChurnInv, Pace, MissingNeedsChurn
<1> QED
  BY <1>1, CheckerChurn, PTL

\* Under the contract reopenIndex only ever installs an index.bin that was
\* published after the one it replaces.
THEOREM CheckerReopenMovesForward == Spec => ReopenMovesForward
<1>1. SafeInv /\ ChurnInv /\ [Next]_vars =>
        [Reliable /\ idx # Nil /\ idx' # Nil /\ idx' # idx => idx'.gen > idx.gen]_vars
  <2> SUFFICES ASSUME SafeInv, ChurnInv, Next, Reliable, idx # Nil, idx' # Nil, idx' # idx
               PROVE  idx'.gen > idx.gen
    OBVIOUS
  <2>1. PICK p \in Proc : \E h \in FreeHandle : ReopenIndex(p, h)
    <3>1. ASSUME NEW h \in FreeHandle, NewCheckerWith(h) PROVE FALSE
      BY <3>1 DEF NewCheckerWith, SafeInv, HandleInv
    <3>2. ~(UpdateCache /\ UNCHANGED <<muVars, chkVars>>)
      BY DEF chkVars
    <3>3. ASSUME NEW p \in Proc, Ends(p) \/ CallRLock(p) \/ Snapshot(p) \/ Lookup(p)
                 \/ SkipSeen(p) \/ FilterAnswers(p) \/ ReopenReplaced(p)
          PROVE  FALSE
      BY <3>3 DEF Ends, SnapshotClosed, LookupFails, IndexGone, MissingFilter, IOFails, BadFilter,
                  FilterRevokes, Finish, Leave, CallRLock, Snapshot, Lookup, SkipSeen,
                  FilterAnswers, ReopenReplaced
    <3>4. ASSUME NEW p \in Proc,
                 CallClose(p) \/ CallLock(p) \/ Return(p) \/ Close(p)
                   \/ (\E l \in Leaf : Check(p, l))
                   \/ (\E h \in FreeHandle : ReopenFails(p, h))
          PROVE  FALSE
      BY <3>4 DEF CallClose, CallLock, Return, Close, ClosedIdx, Check, ReopenFails
    <3> QED
      BY <3>1, <3>2, <3>3, <3>4 DEF Next, Step, Ends
  <2>2. pc[p] = "reopen" /\ pass[p].idx = idx /\ idx'.gen = Gen
    BY <2>1 DEF ReopenIndex, Replaced, NewIndex
  <2>3. idx.gen < Gen
    BY <2>2 DEF ChurnInv, Pace
  <2> QED
    BY <2>2, <2>3, Generations
<1> QED
  BY <1>1, CheckerChurn, PTL DEF Spec, ReopenMovesForward

-----------------------------------------------------------------------------
(***************************************************************************)
(* The result of Check is justified by the answers of all filters that one *)
(* published index selects.  VerdictSound is not inductive: Counted ties   *)
(* the flag and the two counters of checkOnce to the filters queried so    *)
(* far, and Covers says that no selected filter gets lost between the      *)
(* lists still to be worked through.  The contract of the cache is not     *)
(* needed.                                                                 *)
(***************************************************************************)

\* What the flag and the counters say about the filters queried so far.
Counted(ps, l) ==
    /\ \A f \in ps.seen : Answer[f][l] \in {"Good", "NotCovered", "NotEnrolled"}
    /\ ps.notRevoked <=> \E f \in ps.seen : Answer[f][l] = "Good"
    /\ ps.notCovered <= ps.queried
    /\ ps.queried = 0 <=> ps.seen = {}
    /\ ps.notCovered = ps.queried <=> \A f \in ps.seen : Answer[f][l] = "NotCovered"

\* Every filter the index i selects for l was queried, is in names, or will
\* be looked up for an SCT in todo.
Covers(ps, i, l) ==
    /\ Range(ps.todo) \subseteq Range(Scts[l])
    /\ ps.seen \cup Range(ps.names) \subseteq Selected(i, l)
    /\ \A s \in Range(Scts[l]) \ Range(ps.todo) :
          s \notin i.bad /\ Range(i.sel[s]) \subseteq ps.seen \cup Range(ps.names)

\* VerdictSound for one goroutine.
Sound(p) ==
    /\ pass[p].idx # Nil => Justified(Held(p), call[p].leaf, ret[p])
    /\ ret[p].status # "NotCovered" => ret[p].err = "nil" /\ pass[p].idx # Nil

\* What is known within a pass, and of a result.
Progress(p) ==
    /\ pc[p] = "pass" => Counted(pass[p], call[p].leaf) /\ Covers(pass[p], Held(p), call[p].leaf)
    /\ pc[p] = "done" => Sound(p)

\* The inductive invariant, beside SafeInv.
VerdictInv == \A p \in Proc : Progress(p)

-----------------------------------------------------------------------------
(* The pure part: what the counters and the outcome mean *)

\* An error of a lookup, a filter or the index claims nothing about the
\* certificate.
LEMMA FailJustified ==
  ASSUME NEW i, NEW l, NEW e \in Errors \ {"nil", "Inconsistent"}
  PROVE  Justified(i, l, Fail(e)) /\ Fail(e).status = "NotCovered"
  BY DEF Justified, Fail, Conclude

\* checkOnce starts with nothing seen and everything zero.
LEMMA NewPassCounted ==
  ASSUME NEW i, NEW l, NEW todo
  PROVE  Counted(NewPass(i, todo), l)
  BY DEF Counted, NewPass

\* One more answer: the flag and the counters still describe the filters seen.
LEMMA TallyCounted ==
  ASSUME NEW ps \in PassLocals, NEW l, Counted(ps, l), NEW f, f = Head(ps.names), f \notin ps.seen,
         Answer[f][l] \in {"Good", "NotCovered", "NotEnrolled"}
  PROVE  Counted(Tally(ps, Answer[f][l]), l)
<1> DEFINE a == Answer[f][l]
           qs == Tally(ps, a)
<1>1. /\ qs.seen = ps.seen \cup {f}
      /\ qs.queried = ps.queried + 1
      /\ qs.notCovered = IF a = "NotCovered" THEN ps.notCovered + 1 ELSE ps.notCovered
      /\ ps.queried \in Nat /\ ps.notCovered \in Nat
  BY DEF Tally, PassLocals
<1>2. qs.notRevoked <=> ps.notRevoked \/ a = "Good"
  BY DEF Tally, Remembered
<1>3. \A g \in qs.seen : Answer[g][l] \in {"Good", "NotCovered", "NotEnrolled"}
  BY <1>1 DEF Counted
<1>4. qs.notRevoked <=> \E g \in qs.seen : Answer[g][l] = "Good"
  BY <1>1, <1>2 DEF Counted
<1>5. qs.notCovered <= qs.queried
  BY <1>1 DEF Counted
<1>6. qs.queried = 0 <=> qs.seen = {}
  BY <1>1
<1>7. qs.notCovered = qs.queried <=> \A g \in qs.seen : Answer[g][l] = "NotCovered"
  BY <1>1 DEF Counted
<1> HIDE DEF qs
<1>8. Counted(qs, l)
  BY <1>3, <1>4, <1>5, <1>6, <1>7 DEF Counted
<1> QED
  BY <1>8 DEF qs

\* When nothing is left to look up or to query, what checkOnce concludes from
\* its flag and counters is what the selected filters say.
LEMMA OutcomeJustified ==
  ASSUME NEW ps \in PassLocals, NEW i, NEW l,
         Counted(ps, l), Covers(ps, i, l), ps.todo = <<>>, ps.names = <<>>
  PROVE  Justified(i, l, Outcome(ps)) /\ (Outcome(ps).status # "NotCovered" => Outcome(ps).err = "nil")
<1>1. Range(<<>>) = {}
  BY DEF Range
<1>2. Selected(i, l) = ps.seen /\ Range(Scts[l]) \cap i.bad = {}
  BY <1>1 DEF Covers, Selected
<1>3. ps.queried \in Nat /\ ps.notCovered \in Nat
  BY DEF PassLocals
<1> DEFINE A == AnswersOf(Selected(i, l), l)
<1>4. /\ A \subseteq {"Good", "NotCovered", "NotEnrolled"}
      /\ ps.notRevoked <=> "Good" \in A
      /\ ps.queried > 0 <=> A # {}
      /\ ps.notCovered = ps.queried <=> A \subseteq {"NotCovered"}
  <2>1. A = {Answer[f][l] : f \in ps.seen}
    BY <1>2 DEF AnswersOf
  <2>2. A \subseteq {"Good", "NotCovered", "NotEnrolled"}
    BY <2>1 DEF Counted
  <2>3. ps.notRevoked <=> "Good" \in A
    BY <2>1 DEF Counted
  <2>4. ps.queried > 0 <=> A # {}
    BY <2>1, <1>3 DEF Counted
  <2>5. ps.notCovered = ps.queried <=> A \subseteq {"NotCovered"}
    BY <2>1 DEF Counted
  <2> HIDE DEF A
  <2> QED
    BY <2>2, <2>3, <2>4, <2>5
<1>5. CASE ps.notRevoked
  BY <1>2, <1>4, <1>5 DEF Outcome, Justified, Conclude
<1>6. CASE ~ps.notRevoked /\ ps.queried > 0 /\ ps.notCovered = ps.queried
  BY <1>2, <1>4, <1>6 DEF Outcome, Justified, Conclude, Fail
<1>7. CASE ~ps.notRevoked /\ ~(ps.queried > 0 /\ ps.notCovered = ps.queried)
  BY <1>2, <1>4, <1>7 DEF Outcome, Justified, Conclude
<1> QED
  BY <1>5, <1>6, <1>7

-----------------------------------------------------------------------------
(* Every step preserves the invariant *)

\* No check runs.
LEMMA Init_VerdictInv == Init => VerdictInv
  BY DEF Init, VerdictInv, Progress

\* A published index never changes, so what was concluded from it stands.
LEMMA Progress_Frame ==
  ASSUME SafeInv, NEW q \in Proc, Progress(q), Same(q), \A g \in 1..Gen : pubs'[g] = pubs[g]
  PROVE  Progress(q)'
<1>1. pass[q].idx # Nil => Held(q)' = Held(q)
  BY DEF SafeInv, HandleInv, Held, Same
<1>2. pc[q] = "pass" => pass[q].idx # Nil
  BY DEF SafeInv, HandleInv
<1> QED
  BY <1>1, <1>2 DEF Progress, Sound, Same

\* A step of p keeps the invariant if it keeps it for p.
LEMMA OneConcludes ==
  ASSUME SafeInv, VerdictInv, NEW p \in Proc, UNCHANGED pubs,
         \A q \in Proc \ {p} : Same(q), Progress(p)'
  PROVE  VerdictInv'
  BY Progress_Frame DEF VerdictInv

\* The steps that leave p neither in a pass nor with a result.
LEMMA Elsewhere_Verdict ==
  ASSUME SafeInv, VerdictInv, NEW p \in Proc,
         CallClose(p) \/ CallLock(p) \/ Return(p) \/ Close(p) \/ CallRLock(p)
           \/ ReopenReplaced(p) \/ \E h \in FreeHandle : ReopenIndex(p, h)
  PROVE  VerdictInv'
<1>1. UNCHANGED pubs /\ \A q \in Proc \ {p} : Same(q)
  BY LocalTypes DEF CallClose, CallLock, Return, Close, CallRLock, ReopenReplaced, ReopenIndex,
                    Resume, cacheVars, Same
<1>2. pc'[p] \notin {"pass", "done"}
  <2>1. CASE CallClose(p) \/ Return(p) \/ Close(p) \/ CallRLock(p)
    BY <2>1, LocalTypes DEF CallClose, Return, Close, CallRLock
  <2>2. CASE CallLock(p)
    BY <2>2, LocalTypes DEF CallLock
  <2>3. CASE ReopenReplaced(p) \/ \E h \in FreeHandle : ReopenIndex(p, h)
    BY <2>3, LocalTypes DEF ReopenReplaced, ReopenIndex, Resume
  <2> QED
    BY <2>1, <2>2, <2>3
<1>3. Progress(p)'
  BY <1>2 DEF Progress
<1> QED
  BY <1>1, <1>3, OneConcludes

\* Check rejects the chain by itself, or starts.
LEMMA Check_Verdict ==
  ASSUME SafeInv, VerdictInv, NEW p \in Proc, NEW l \in Leaf, Check(p, l)
  PROVE  VerdictInv'
<1>1. UNCHANGED pubs /\ \A q \in Proc \ {p} : Same(q)
  BY LocalTypes DEF Check, cacheVars, Same
<1>2. pc'[p] = "rlock" \/ (pc'[p] = "done" /\ ret'[p].status = "NotCovered")
  <2>1. Rejection(l).status = "NotCovered"
    BY DEF Rejection, Fail, Conclude
  <2> QED
    BY <2>1, LocalTypes DEF Check
<1>3. pass' = pass /\ pass[p].idx = Nil
  BY DEF Check, SafeInv, CallInv
<1>4. Progress(p)'
  BY <1>2, <1>3 DEF Progress, Sound
<1> QED
  BY <1>1, <1>4, OneConcludes

\* A pass starts with all SCTs of the leaf to be looked up.
LEMMA Snapshot_Verdict ==
  ASSUME SafeInv, VerdictInv, NEW p \in Proc, Snapshot(p)
  PROVE  VerdictInv'
<1> DEFINE l == call[p].leaf
           ps == NewPass(idx, Scts[l])
<1>1. UNCHANGED pubs /\ \A q \in Proc \ {p} : Same(q)
  BY LocalTypes DEF Snapshot, cacheVars, Same
<1>2. pc'[p] = "pass" /\ pass'[p] = ps /\ call' = call
  BY LocalTypes DEF Snapshot
<1>3. Counted(ps, l)
  BY NewPassCounted
<1>4. \A i : Covers(ps, i, l)
  <2>1. ps.todo = Scts[l] /\ ps.names = <<>> /\ ps.seen = {} /\ Range(<<>>) = {}
    BY DEF NewPass, Range
  <2> QED
    BY <2>1 DEF Covers
<1> HIDE DEF ps
<1>5. Progress(p)'
  BY <1>2, <1>3, <1>4 DEF Progress
<1> QED
  BY <1>1, <1>5, OneConcludes

\* A step within a pass, from locals ps to locals qs.
LEMMA InPass_Verdict ==
  ASSUME SafeInv, VerdictInv, NEW p \in Proc, NEW qs,
         pc[p] = "pass", pass' = [pass EXCEPT ![p] = qs], qs.idx = pass[p].idx,
         UNCHANGED <<cacheVars, pc, call, ret>>,
         Counted(qs, call[p].leaf), Covers(qs, Held(p), call[p].leaf)
  PROVE  VerdictInv'
<1>1. UNCHANGED pubs /\ (\A q \in Proc \ {p} : Same(q)) /\ pass'[p] = qs
  BY LocalTypes DEF cacheVars, Same
<1>2. Held(p)' = Held(p)
  BY <1>1 DEF Held
<1>3. Progress(p)'
  BY <1>1, <1>2 DEF Progress
<1> QED
  BY <1>1, <1>3, OneConcludes

\* The SCT that was looked up leaves todo, and what its log's entries select
\* enters names.
LEMMA Lookup_Verdict ==
  ASSUME SafeInv, VerdictInv, NEW p \in Proc, Lookup(p)
  PROVE  VerdictInv'
<1> DEFINE ps == pass[p]
           i == Held(p)
           l == call[p].leaf
           s == Head(ps.todo)
           qs == [ps EXCEPT !.names = i.sel[s], !.todo = Tail(ps.todo)]
<1>1. pc[p] = "pass" /\ ps.names = <<>> /\ ps.todo # <<>> /\ s \notin i.bad
  BY DEF Lookup, AtLookup, Readable
<1>2. ps \in PassLocals /\ Counted(ps, l) /\ Covers(ps, i, l)
  BY <1>1, InPassFacts DEF VerdictInv, Progress
<1>3. /\ qs.idx = ps.idx /\ qs.names = i.sel[s] /\ qs.todo = Tail(ps.todo) /\ qs.seen = ps.seen
      /\ qs.notRevoked = ps.notRevoked /\ qs.queried = ps.queried /\ qs.notCovered = ps.notCovered
  BY <1>2 DEF PassLocals
<1>4. pass' = [pass EXCEPT ![p] = qs] /\ UNCHANGED <<cacheVars, pc, call, ret>>
  BY LocalTypes DEF Lookup
<1>5. Range(ps.todo) = {s} \cup Range(Tail(ps.todo)) /\ Range(ps.names) = {}
  <2>1. ps.todo \in Seq(SCT)
    BY <1>2 DEF PassLocals
  <2>2. Range(ps.todo) = {s} \cup Range(Tail(ps.todo))
    BY <1>1, <2>1, RangeOfTail
  <2>3. Range(ps.names) = {}
    BY <1>1 DEF Range
  <2> QED
    BY <2>2, <2>3
<1> HIDE DEF qs, ps, i, l, s
<1>6. Counted(qs, l)
  BY <1>2, <1>3 DEF Counted
<1>7. Range(i.sel[s]) \subseteq Selected(i, l)
  BY <1>2, <1>5 DEF Covers, Selected
<1>8. Covers(qs, i, l)
  BY <1>1, <1>2, <1>3, <1>5, <1>7 DEF Covers
<1> QED
  BY <1>1, <1>3, <1>4, <1>6, <1>8, InPass_Verdict DEF ps, i, l

\* The name at the head of names goes; it is among those seen from now on.
LEMMA TailCovers ==
  ASSUME NEW ps \in PassLocals, NEW qs, NEW i, NEW l, Covers(ps, i, l), ps.names # <<>>,
         qs.todo = ps.todo, qs.names = Tail(ps.names), qs.seen = ps.seen \cup {Head(ps.names)}
  PROVE  Covers(qs, i, l)
<1>1. ps.names \in Seq(Filename)
  BY DEF PassLocals
<1>2. Range(ps.names) = {Head(ps.names)} \cup Range(Tail(ps.names))
  BY <1>1, RangeOfTail
<1> QED
  BY <1>2 DEF Covers

\* A filter that is passed over was queried before.
LEMMA SkipSeen_Verdict ==
  ASSUME SafeInv, VerdictInv, NEW p \in Proc, SkipSeen(p)
  PROVE  VerdictInv'
<1> DEFINE ps == pass[p]
           l == call[p].leaf
           qs == [ps EXCEPT !.names = Tail(ps.names)]
<1>1. pc[p] = "pass" /\ ps.names # <<>> /\ Head(ps.names) \in ps.seen
  BY DEF SkipSeen, AtFilter, Seen, NextFilter
<1>2. ps \in PassLocals /\ Counted(ps, l) /\ Covers(ps, Held(p), l)
  BY <1>1, InPassFacts DEF VerdictInv, Progress
<1>3. /\ qs.idx = ps.idx /\ qs.names = Tail(ps.names) /\ qs.todo = ps.todo /\ qs.seen = ps.seen
      /\ qs.notRevoked = ps.notRevoked /\ qs.queried = ps.queried /\ qs.notCovered = ps.notCovered
  BY <1>2 DEF PassLocals
<1>4. pass' = [pass EXCEPT ![p] = qs] /\ UNCHANGED <<cacheVars, pc, call, ret>>
  BY LocalTypes DEF SkipSeen
<1> HIDE DEF qs
<1>5. Counted(qs, l)
  BY <1>2, <1>3 DEF Counted
<1>6. qs.seen = ps.seen \cup {Head(ps.names)}
  BY <1>1, <1>3
<1>7. Covers(qs, Held(p), l)
  BY <1>1, <1>2, <1>3, <1>6, TailCovers
<1> QED
  BY <1>1, <1>3, <1>4, <1>5, <1>7, InPass_Verdict

\* A filter that answered without revoking is counted and seen.
LEMMA FilterAnswers_Verdict ==
  ASSUME SafeInv, VerdictInv, NEW p \in Proc, FilterAnswers(p)
  PROVE  VerdictInv'
<1> DEFINE ps == pass[p]
           l == call[p].leaf
           f == Head(ps.names)
           qs == Tally(ps, Answer[f][l])
<1>1. /\ pc[p] = "pass" /\ ps.names # <<>> /\ f \notin ps.seen
      /\ Answer[f][l] \in {"Good", "NotCovered", "NotEnrolled"}
  BY DEF FilterAnswers, Opens, AtQuery, AtFilter, Seen, NextFilter, Says
<1>2. ps \in PassLocals /\ Counted(ps, l) /\ Covers(ps, Held(p), l)
  BY <1>1, InPassFacts DEF VerdictInv, Progress
<1>3. /\ qs.idx = ps.idx /\ qs.names = Tail(ps.names) /\ qs.todo = ps.todo
      /\ qs.seen = ps.seen \cup {f}
  BY DEF Tally
<1>4. pass' = [pass EXCEPT ![p] = qs] /\ UNCHANGED <<cacheVars, pc, call, ret>>
  BY DEF FilterAnswers, Says, NextFilter
<1>5. Counted(qs, l)
  BY <1>1, <1>2, TallyCounted
<1> HIDE DEF qs
<1>6. Covers(qs, Held(p), l)
  BY <1>1, <1>2, <1>3, TailCovers
<1> QED
  BY <1>1, <1>3, <1>4, <1>5, <1>6, InPass_Verdict

\* A pass ends with a result that the index it held justifies.
LEMMA Leave_Verdict ==
  ASSUME SafeInv, VerdictInv, NEW p \in Proc, NEW i, NEW res, Leave(p, i, res),
         i # Nil => Justified(pubs[i.gen], call[p].leaf, res),
         res.status # "NotCovered" => res.err = "nil" /\ i # Nil
  PROVE  VerdictInv'
<1>1. UNCHANGED pubs /\ \A q \in Proc \ {p} : Same(q)
  BY LocalTypes DEF Leave, cacheVars, Same
<1>2. /\ pass'[p].idx = i /\ ret'[p] = res /\ call' = call
      /\ pc'[p] \in {"reopenLock", "done"}
  BY LocalTypes DEF Leave, NewPass
<1>3. Progress(p)'
  BY <1>1, <1>2 DEF Progress, Sound, Held
<1> QED
  BY <1>1, <1>3, OneConcludes

\* Every result a pass ends with: an error, a revocation by a selected filter,
\* or the outcome of all of them.
LEMMA Ends_Verdict ==
  ASSUME SafeInv, VerdictInv, NEW p \in Proc, Ends(p)
  PROVE  VerdictInv'
<1> DEFINE l == call[p].leaf
<1>1. ASSUME NEW i, NEW e \in Errors \ {"nil", "Inconsistent"}, Leave(p, i, Fail(e))
      PROVE  VerdictInv'
  BY <1>1, FailJustified, Leave_Verdict
<1>2. CASE SnapshotClosed(p)
  BY <1>1, <1>2 DEF SnapshotClosed, Errors
<1>3. CASE LookupFails(p) \/ IndexGone(p) \/ MissingFilter(p) \/ IOFails(p) \/ BadFilter(p)
  BY <1>1, <1>3 DEF LookupFails, IndexGone, MissingFilter, IOFails, BadFilter, Errors
<1>4. CASE FilterRevokes(p)
  <2>1. /\ pc[p] = "pass" /\ pass[p].names # <<>>
        /\ Answer[Head(pass[p].names)][l] = "Revoked"
        /\ Leave(p, pass[p].idx, Conclude("Revoked"))
    BY <1>4 DEF FilterRevokes, Opens, AtQuery, AtFilter, Says, NextFilter
  <2>2. /\ pass[p].idx # Nil /\ pass[p].names \in Seq(Filename)
        /\ Covers(pass[p], Held(p), l)
    BY <2>1, InPassFacts DEF VerdictInv, Progress, PassLocals
  <2>3. Head(pass[p].names) \in Selected(Held(p), l)
    BY <2>1, <2>2, RangeOfTail DEF Covers
  <2>4. Justified(Held(p), l, Conclude("Revoked"))
    BY <2>1, <2>3 DEF Justified, AnswersOf, Conclude
  <2>5. Conclude("Revoked").err = "nil"
    BY DEF Conclude
  <2> QED
    BY <2>1, <2>2, <2>4, <2>5, Leave_Verdict DEF Held
<1>5. CASE Finish(p)
  <2>1. /\ pc[p] = "pass" /\ pass[p].names = <<>> /\ pass[p].todo = <<>>
        /\ Leave(p, pass[p].idx, Outcome(pass[p]))
    BY <1>5 DEF Finish
  <2>2. pass[p] \in PassLocals /\ pass[p].idx # Nil
        /\ Counted(pass[p], l) /\ Covers(pass[p], Held(p), l)
    BY <2>1, InPassFacts DEF VerdictInv, Progress
  <2>3. /\ Justified(Held(p), l, Outcome(pass[p]))
        /\ Outcome(pass[p]).status # "NotCovered" => Outcome(pass[p]).err = "nil"
    BY <2>1, <2>2, OutcomeJustified
  <2> QED
    BY <2>1, <2>2, <2>3, Leave_Verdict DEF Held
<1> QED
  BY <1>2, <1>3, <1>4, <1>5 DEF Ends

\* A failed reopenIndex is an error, which claims nothing.
LEMMA ReopenFails_Verdict ==
  ASSUME SafeInv, VerdictInv, NEW p \in Proc, NEW h \in FreeHandle, ReopenFails(p, h)
  PROVE  VerdictInv'
<1>1. UNCHANGED pubs /\ \A q \in Proc \ {p} : Same(q)
  BY LocalTypes DEF ReopenFails, cacheVars, Same
<1>2. pc'[p] = "done" /\ ret'[p] = Fail("Reopen") /\ pass' = pass /\ call' = call
  BY LocalTypes DEF ReopenFails
<1>3. /\ Justified(Held(p), call[p].leaf, Fail("Reopen"))
      /\ Fail("Reopen").status = "NotCovered"
  BY FailJustified DEF Errors
<1>4. Progress(p)'
  BY <1>1, <1>2, <1>3 DEF Progress, Sound, Held
<1> QED
  BY <1>1, <1>4, OneConcludes

\* Updates of the cache, and NewCheckerWith, change no published index.
LEMMA Cache_Verdict ==
  ASSUME SafeInv, VerdictInv,
         \/ UpdateCache /\ UNCHANGED <<muVars, chkVars>>
         \/ \E h \in FreeHandle : NewCheckerWith(h)
         \/ UNCHANGED vars
  PROVE  VerdictInv'
<1>1. \A q \in Proc : Same(q)
  BY DEF chkVars, vars, NewCheckerWith, Same
<1>2. \A g \in 1..Gen : pubs'[g] = pubs[g]
  <2>1. pubs \in Seq(Index)
    BY DEF SafeInv, TypeOK, cacheTypeOK
  <2>2. pubs' = pubs \/ \E i \in Index : pubs' = Append(pubs, i)
    BY DEF UpdateCache, WriteFilter, RemoveFilter, PublishIndex, NewCheckerWith, vars, cacheVars
  <2> QED
    BY <2>1, <2>2 DEF Gen
<1> QED
  BY <1>1, <1>2, Progress_Frame DEF VerdictInv

\* Every step of the system keeps the invariant; one case for each action.
LEMMA Next_VerdictInv == SafeInv /\ VerdictInv /\ [Next]_vars => VerdictInv'
<1> SUFFICES ASSUME SafeInv, VerdictInv, [Next]_vars PROVE VerdictInv'
  OBVIOUS
<1>1. CASE \/ UpdateCache /\ UNCHANGED <<muVars, chkVars>>
           \/ \E h \in FreeHandle : NewCheckerWith(h)
           \/ UNCHANGED vars
  BY <1>1, Cache_Verdict
<1>2. ASSUME NEW p \in Proc,
             CallClose(p) \/ CallLock(p) \/ Return(p) \/ Close(p) \/ CallRLock(p)
               \/ ReopenReplaced(p) \/ \E h \in FreeHandle : ReopenIndex(p, h)
      PROVE  VerdictInv'
  BY <1>2, Elsewhere_Verdict
<1>3. ASSUME NEW p \in Proc, NEW l \in Leaf, Check(p, l) PROVE VerdictInv'
  BY <1>3, Check_Verdict
<1>4. ASSUME NEW p \in Proc, Snapshot(p) \/ Lookup(p) \/ SkipSeen(p) \/ FilterAnswers(p)
      PROVE  VerdictInv'
  BY <1>4, Snapshot_Verdict, Lookup_Verdict, SkipSeen_Verdict, FilterAnswers_Verdict
<1>5. ASSUME NEW p \in Proc, Ends(p) PROVE VerdictInv'
  BY <1>5, Ends_Verdict
<1>6. ASSUME NEW p \in Proc, NEW h \in FreeHandle, ReopenFails(p, h) PROVE VerdictInv'
  BY <1>6, ReopenFails_Verdict
<1> QED
  BY <1>1, <1>2, <1>3, <1>4, <1>5, <1>6 DEF Next, Step, Ends

\* Both invariants hold in every state.
THEOREM CheckerVerdicts == Spec => [](SafeInv /\ VerdictInv)
  BY CheckerSafe, Init_VerdictInv, Next_VerdictInv, PTL DEF Spec

\* Check answers revoked only if a selected filter revokes, not revoked only if
\* one is conclusive and none of the selected ones revokes, is malformed or was
\* left out, and reports an inconsistent index only when all selected
\* filters disclaim the certificate, for any SCT list, any order of filters and
\* any attempt.
THEOREM CheckerVerdictSound == Spec => []VerdictSound
<1>1. VerdictInv => VerdictSound
  BY DEF VerdictInv, Progress, Sound, VerdictSound
<1> QED
  BY <1>1, CheckerVerdicts, PTL

-----------------------------------------------------------------------------
(***************************************************************************)
(* The Checker implements RevocationService.  Every step of a goroutine or *)
(* of the writer of the cache is one step of the service or none: a        *)
(* publication, a reopen, Close, a call, an answer or a return.  A check   *)
(* is answered in the step that ends its last pass, or in a failed         *)
(* reopenIndex; that this answer is one the index in use justifies needs   *)
(* VerdictInv (what the pass has seen), SafeInv (the index it holds is     *)
(* still c.idx) and ChurnInv (when a missing file may be an answer, and    *)
(* that a reopen advances).                                                *)
(***************************************************************************)

\* What is known of every state.
KnownInv == SafeInv /\ VerdictInv /\ ChurnInv

-----------------------------------------------------------------------------
(* The service speaks of the same certificates, indexes and results *)

\* Service and Checker agree on which chains are refused at once.
LEMMA SameWords ==
  ASSUME NEW l
  PROVE  /\ Service!Usable(l) <=> Usable(l)
         /\ Service!Rejection(l) = Rejection(l)
         /\ \A e : Service!Fail(e) = Fail(e)
         /\ \A s : Service!Conclude(s) = Conclude(s)
  BY DEF Service!Usable, Usable, Service!Rejection, Rejection, Service!Fail, Fail,
         Service!Conclude, Conclude

\* They agree on the results an index justifies.
LEMMA SameVerdicts ==
  ASSUME NEW i, NEW l, NEW res
  PROVE  Service!Justified(i, l, res) <=> Justified(i, l, res)
<1>1. Service!Selected(i, l) = Selected(i, l)
  BY DEF Service!Selected, Selected, Service!Range, Range
<1>2. Service!AnswersOf(Selected(i, l), l) = AnswersOf(Selected(i, l), l)
  BY DEF Service!AnswersOf, AnswersOf
<1>3. Service!Range(Scts[l]) = Range(Scts[l])
  BY DEF Service!Range, Range
<1>4. Service!Conclude("NotCovered") = Conclude("NotCovered")
  BY DEF Service!Conclude, Conclude
<1> QED
  BY <1>1, <1>2, <1>3, <1>4 DEF Service!Justified, Justified

-----------------------------------------------------------------------------
(* What the service sees of a step *)

\* A step that none of the callers waiting notices.
LEMMA AskedStays ==
  ASSUME \A q \in Proc : InCheck(q)' <=> InCheck(q),
         \A q \in Proc : InCheck(q) => call'[q].leaf = call[q].leaf /\ call'[q].since = call[q].since
  PROVE  Asked' = Asked
<1>1. Waiting' = Waiting
  BY DEF Waiting
<1>2. \A q \in Waiting : q \in Proc /\ InCheck(q)
  BY DEF Waiting
<1> QED
  BY <1>1, <1>2 DEF Asked

\* A step that leaves the results alone.
LEMMA GivenStays ==
  ASSUME \A q \in Proc : pc'[q] = "done" <=> pc[q] = "done",
         \A q \in Proc : pc[q] = "done" => ret'[q] = ret[q]
  PROVE  Given' = Given
<1>1. Answered' = Answered
  BY DEF Answered
<1>2. \A q \in Answered : q \in Proc /\ pc[q] = "done"
  BY DEF Answered
<1> QED
  BY <1>1, <1>2 DEF Given

\* p calls Check and waits.
LEMMA AskedGrows ==
  ASSUME NEW p \in Proc, InCheck(p)', \A q \in Proc \ {p} : Same(q)
  PROVE  Asked' = Service!With(p, [leaf |-> call'[p].leaf, since |-> call'[p].since], Asked)
<1>1. Waiting' = Waiting \cup {p}
  BY DEF Waiting, InCheck, Same
<1>2. DOMAIN Asked = Waiting /\ DOMAIN Asked' = Waiting'
  BY DEF Asked
<1>3. \A q \in Waiting \ {p} : q \in Proc \ {p}
  BY DEF Waiting
<1>4. \A q \in Waiting \ {p} : Asked'[q] = Asked[q]
  BY <1>1, <1>3 DEF Asked, Same
<1>5. Asked'[p] = [leaf |-> call'[p].leaf, since |-> call'[p].since]
  BY <1>1 DEF Asked
<1> QED
  BY <1>1, <1>2, <1>4, <1>5 DEF Service!With, Asked

\* p's check has its answer.
LEMMA AskedShrinks ==
  ASSUME NEW p \in Proc, ~InCheck(p)', \A q \in Proc \ {p} : Same(q)
  PROVE  Asked' = Service!Without(p, Asked)
<1>1. Waiting' = Waiting \ {p}
  BY DEF Waiting, InCheck, Same
<1>2. DOMAIN Asked = Waiting
  BY DEF Asked
<1>3. \A q \in Waiting \ {p} : q \in Proc \ {p}
  BY DEF Waiting
<1> QED
  BY <1>1, <1>2, <1>3 DEF Service!Without, Service!Restrict, Asked, Same

\* Check returns a result to p.
LEMMA GivenGrows ==
  ASSUME NEW p \in Proc, pc'[p] = "done", \A q \in Proc \ {p} : Same(q)
  PROVE  Given' = Service!With(p, ret'[p], Given)
<1>1. Answered' = Answered \cup {p}
  BY DEF Answered, Same
<1>2. DOMAIN Given = Answered /\ DOMAIN Given' = Answered'
  BY DEF Given
<1>3. \A q \in Answered \ {p} : q \in Proc \ {p}
  BY DEF Answered
<1>4. \A q \in Answered \ {p} : Given'[q] = Given[q]
  BY <1>1, <1>3 DEF Given, Same
<1>5. Given'[p] = ret'[p]
  BY <1>1 DEF Given
<1> QED
  BY <1>1, <1>2, <1>4, <1>5 DEF Service!With, Given

\* p takes its result.
LEMMA GivenShrinks ==
  ASSUME NEW p \in Proc, pc'[p] # "done", \A q \in Proc \ {p} : Same(q)
  PROVE  Given' = Service!Without(p, Given)
<1>1. Answered' = Answered \ {p}
  BY DEF Answered, Same
<1>2. DOMAIN Given = Answered
  BY DEF Given
<1>3. \A q \in Answered \ {p} : q \in Proc \ {p}
  BY DEF Answered
<1> QED
  BY <1>1, <1>2, <1>3 DEF Service!Without, Service!Restrict, Given, Same

\* Nothing is published and nobody has called.
LEMMA Init_Service == Init => Service!Init
<1> SUFFICES ASSUME Init PROVE Service!Init
  OBVIOUS
<1>1. Waiting = {} /\ Answered = {}
  BY DEF Init, Waiting, Answered, InCheck
<1>2. Asked = <<>> /\ Given = <<>>
  BY <1>1 DEF Asked, Given
<1>3. pubs = <<>> /\ idx = Nil /\ made = FALSE
  BY DEF Init, cacheInit
<1> QED
  BY <1>2, <1>3 DEF Service!Init, InUse

-----------------------------------------------------------------------------
(* Steps of the Checker as steps of the service *)

\* A step the service does not see.
LEMMA Unseen ==
  ASSUME UNCHANGED <<pubs, made, idx>>, Asked' = Asked, Given' = Given
  PROVE  UNCHANGED Service!vars
  BY DEF Service!vars, InUse

\* The service's own numbers.
LEMMA InUseFacts ==
  ASSUME SafeInv
  PROVE  /\ Service!Latest = Gen /\ Gen \in Nat /\ InUse \in Nat
         /\ idx # Nil => InUse = idx.gen /\ InUse \in 1..Gen
         /\ idx = Nil => InUse = 0
  BY Generations DEF Service!Latest, Gen, InUse, SafeInv, HandleInv

\* The writer of the cache: only index.bin shows.
LEMMA UpdateCache_Service ==
  ASSUME SafeInv, UpdateCache, UNCHANGED <<muVars, chkVars>>
  PROVE  Service!Publish \/ UNCHANGED Service!vars
<1>1. UNCHANGED <<made, idx, hopen, pc, call, pass, ret>>
  BY DEF chkVars
<1>2. Asked' = Asked /\ Given' = Given /\ InUse' = InUse
  <2>1. Asked' = Asked
    BY <1>1, AskedStays DEF InCheck
  <2>2. Given' = Given
    BY <1>1, GivenStays
  <2> QED
    BY <1>1, <2>1, <2>2 DEF InUse
<1>3. ASSUME NEW i \in Index, PublishIndex(i) PROVE Service!Publish
  BY <1>1, <1>2, <1>3 DEF PublishIndex, Service!Publish
<1>4. CASE UNCHANGED pubs
  BY <1>1, <1>2, <1>4, Unseen
<1> QED
  BY <1>3, <1>4 DEF UpdateCache, WriteFilter, RemoveFilter

\* NewCheckerWith puts the first index in use, or returns an error.
LEMMA NewCheckerWith_Service ==
  ASSUME SafeInv, NEW h \in FreeHandle, NewCheckerWith(h)
  PROVE  Service!Advance \/ UNCHANGED Service!vars
<1>1. /\ ~made /\ idx = Nil /\ Gen > 0
      /\ UNCHANGED <<pubs, pc, call, pass, ret>>
  BY DEF NewCheckerWith, cacheVars, SafeInv, HandleInv
<1>2. Asked' = Asked /\ Given' = Given
  BY <1>1, AskedStays, GivenStays DEF InCheck
<1>3. CASE ~OnDisk.ok
  <2>1. idx' = Nil /\ made' = made
    <3>1. OnDisk \in Index /\ OnDisk.ok \in BOOLEAN
      BY <1>1, VerdictAssumption DEF OnDisk, Gen, SafeInv, TypeOK, cacheTypeOK
    <3> QED
      BY <1>1, <1>3, <3>1 DEF NewCheckerWith, SafeInv, TypeOK
  <2> QED
    BY <1>1, <1>2, <2>1, Unseen
<1>4. CASE OnDisk.ok
  <2>1. idx' = NewIndex(h)
    BY <1>4 DEF NewCheckerWith
  <2>2. idx' # Nil /\ idx'.gen = Gen
    <3>1. NewIndex(h) \in IndexPtr /\ NewIndex(h).gen = Gen
      BY Generations DEF NewIndex, IndexPtr, FreeHandle
    <3> QED
      BY <2>1, <3>1, CheckerAssumption DEF IndexPtr
  <2>3. InUse = 0 /\ InUse' = Gen /\ Service!Latest = Gen /\ Gen \in Nat
    BY <1>1, <2>2, InUseFacts DEF InUse
  <2>4. pubs[Gen].ok
    BY <1>4 DEF OnDisk
  <2>5. (made /\ idx = Nil)' = (made /\ idx = Nil)
    BY <1>1, <2>2
  <2> QED
    BY <1>1, <1>2, <2>3, <2>4, <2>5 DEF Service!Advance
<1> QED
  BY <1>3, <1>4

\* Check is the question; a chain it rejects is answered at once.
LEMMA Check_Service ==
  ASSUME SafeInv, NEW p \in Proc, NEW l \in Leaf, Check(p, l)
  PROVE  Service!Ask(p, l)
<1>1. /\ made /\ pc[p] = "idle" /\ UNCHANGED <<pubs, made, idx>>
      /\ \A q \in Proc \ {p} : Same(q)
      /\ call'[p].leaf = l /\ call'[p].since = Gen
  BY LocalTypes DEF Check, cacheVars, Same
<1>2. p \notin DOMAIN Asked \cup DOMAIN Given
  BY <1>1 DEF Asked, Given, Waiting, Answered, InCheck
<1>3. InUse > 0 \/ (made /\ idx = Nil)
  BY <1>1, InUseFacts
<1>4. UNCHANGED <<pubs, InUse, made /\ idx = Nil>>
  BY <1>1 DEF InUse
<1>5. CASE Usable(l)
  <2>1. pc'[p] = "rlock" /\ ret' = ret
    BY <1>5, LocalTypes DEF Check
  <2>2. Asked' = Service!With(p, [leaf |-> l, since |-> Gen], Asked)
    BY <1>1, <2>1, AskedGrows DEF InCheck
  <2>3. Given' = Given
    BY <1>1, <2>1, GivenStays DEF Same
  <2> QED
    BY <1>2, <1>3, <1>4, <1>5, <2>2, <2>3, SameWords, InUseFacts DEF Service!Ask
<1>6. CASE ~Usable(l)
  <2>1. pc'[p] = "done" /\ ret'[p] = Rejection(l)
    BY <1>6, LocalTypes DEF Check
  <2>2. Given' = Service!With(p, Rejection(l), Given)
    BY <1>1, <2>1, GivenGrows
  <2>3. Asked' = Asked
    BY <1>1, <2>1, AskedStays DEF Same, InCheck
  <2> QED
    BY <1>2, <1>3, <1>4, <1>6, <2>2, <2>3, SameWords DEF Service!Ask
<1> QED
  BY <1>5, <1>6

\* The steps of a goroutine that its caller cannot tell from waiting.
LEMMA Inner_Service ==
  ASSUME SafeInv, NEW p \in Proc,
         CallRLock(p) \/ Snapshot(p) \/ Lookup(p) \/ SkipSeen(p) \/ FilterAnswers(p)
           \/ CallLock(p) \/ CallClose(p) \/ ReopenReplaced(p)
  PROVE  UNCHANGED Service!vars
<1>1. UNCHANGED <<pubs, made, idx, ret>> /\ \A q \in Proc \ {p} : Same(q)
  BY LocalTypes DEF CallRLock, Snapshot, Lookup, SkipSeen, FilterAnswers, CallLock, CallClose,
                    ReopenReplaced, Resume, cacheVars, Same
<1>2. pc[p] # "done" /\ pc'[p] # "done" /\ (InCheck(p)' <=> InCheck(p))
  <2>1. CASE CallRLock(p) \/ Snapshot(p) \/ ReopenReplaced(p)
    BY <2>1, LocalTypes DEF CallRLock, Snapshot, ReopenReplaced, Resume, InCheck
  <2>2. CASE Lookup(p) \/ SkipSeen(p) \/ FilterAnswers(p)
    BY <2>2 DEF Lookup, SkipSeen, FilterAnswers, AtLookup, AtFilter, Opens, AtQuery, InCheck
  <2>3. CASE CallLock(p) \/ CallClose(p)
    BY <2>3, LocalTypes DEF CallLock, CallClose, InCheck
  <2> QED
    BY <2>1, <2>2, <2>3
<1>3. call'[p].leaf = call[p].leaf /\ call'[p].since = call[p].since
  <2>1. CASE ReopenReplaced(p)
    BY <2>1, LocalTypes DEF ReopenReplaced, Resume, CallLocals
  <2>2. CASE ~ReopenReplaced(p)
    BY <2>2 DEF CallRLock, Snapshot, Lookup, SkipSeen, FilterAnswers, CallLock, CallClose
  <2> QED
    BY <2>1, <2>2
<1>4. Asked' = Asked
  BY <1>1, <1>2, <1>3, AskedStays DEF Same, InCheck
<1>5. Given' = Given
  BY <1>1, <1>2, GivenStays DEF Same
<1> QED
  BY <1>1, <1>4, <1>5, Unseen

-----------------------------------------------------------------------------
(* Answers *)

\* The results a pass on an index can end with.
LEMMA EndResults ==
  ASSUME SafeInv, NEW p \in Proc, Ends(p), ~SnapshotClosed(p)
  PROVE  \E res \in {Conclude(s) : s \in {"Revoked", "NotRevoked", "NotCovered"}} \cup
                    {Fail(e) : e \in {"Lookup", "IO", "NotExist", "BadFilter", "Inconsistent", "Reopen"}} :
            Leave(p, pass[p].idx, res)
<1>1. CASE LookupFails(p) \/ IndexGone(p) \/ MissingFilter(p) \/ IOFails(p) \/ BadFilter(p)
  <2>1. PICK e \in {"Lookup", "IO", "NotExist", "BadFilter"} : Leave(p, pass[p].idx, Fail(e))
    BY <1>1 DEF LookupFails, IndexGone, MissingFilter, IOFails, BadFilter
  <2> QED
    BY <2>1
<1>2. CASE FilterRevokes(p)
  BY <1>2 DEF FilterRevokes
<1>3. CASE Finish(p)
  <2>1. Outcome(pass[p]) \in {Conclude("NotRevoked"), Fail("Inconsistent"), Conclude("NotCovered")}
    BY DEF Outcome
  <2>2. Leave(p, pass[p].idx, Outcome(pass[p]))
    BY <1>3 DEF Finish
  <2> QED
    BY <2>1, <2>2
<1> QED
  BY <1>1, <1>2, <1>3 DEF Ends

\* A check that was waiting gets the answer res.
LEMMA Answer_Service ==
  ASSUME SafeInv, NEW p \in Proc, InCheck(p), NEW res,
         UNCHANGED <<pubs, made, idx>>, \A q \in Proc \ {p} : Same(q),
         pc'[p] = "done", ret'[p] = res,
         res \in Service!Answers([leaf |-> call[p].leaf, since |-> call[p].since])
  PROVE  Service!Reply(p)
<1>1. p \in DOMAIN Asked /\ Asked[p] = [leaf |-> call[p].leaf, since |-> call[p].since]
  BY DEF Asked, Waiting
<1>2. Asked' = Service!Without(p, Asked)
  BY AskedShrinks DEF InCheck
<1>3. Given' = Service!With(p, res, Given)
  BY GivenGrows
<1>4. UNCHANGED <<pubs, InUse, made /\ idx = Nil>>
  BY DEF InUse
<1> QED
  BY <1>1, <1>2, <1>3, <1>4 DEF Service!Reply

\* Which answers the service allows for a question, in the Checker's words.
LEMMA AnswerAllowed ==
  ASSUME SafeInv, idx # Nil, NEW p \in Proc,
         NEW res \in {Conclude(s) : s \in {"Revoked", "NotRevoked", "NotCovered"}} \cup
                     {Fail(e) : e \in {"Lookup", "IO", "NotExist", "BadFilter", "Inconsistent", "Reopen"}},
         Justified(pubs[idx.gen], call[p].leaf, res),
         Reliable /\ res.err = "NotExist" => Gen >= call[p].since + maxIndexReopens
  PROVE  res \in Service!Answers([leaf |-> call[p].leaf, since |-> call[p].since])
<1> DEFINE q == [leaf |-> call[p].leaf, since |-> call[p].since]
<1>1. InUse = idx.gen /\ InUse # 0 /\ Service!Latest = Gen
  BY InUseFacts
<1>2. Service!Justified(pubs[InUse], q.leaf, res)
  BY <1>1, SameVerdicts
<1>3. res \in {Service!Conclude(s) : s \in {"Revoked", "NotRevoked", "NotCovered"}} \cup
              {Service!Fail(e) : e \in {"Lookup", "IO", "NotExist", "BadFilter", "Inconsistent", "Reopen"}}
  BY SameWords
<1>4. Reliable /\ res.err = "NotExist" => Service!Latest >= q.since + maxIndexReopens
  BY <1>1
<1> QED
  BY <1>1, <1>2, <1>3, <1>4 DEF Service!Answers

\* checkOnce returning is the answer, unless Check is going to retry.
LEMMA Ends_Service ==
  ASSUME KnownInv, KnownInv', NEW p \in Proc, Ends(p)
  PROVE  Service!Reply(p) \/ UNCHANGED Service!vars
<1>1. SafeInv /\ pc[p] \in {"enter", "pass"} /\ InCheck(p)
  BY DEF KnownInv, Ends, SnapshotClosed, LookupFails, IndexGone, MissingFilter, IOFails, BadFilter,
         FilterRevokes, Finish, AtLookup, AtQuery, AtFilter, Opens, InCheck
<1>2. ASSUME NEW i, NEW res, Leave(p, i, res)
      PROVE  /\ UNCHANGED <<pubs, made, idx, call>> /\ \A q \in Proc \ {p} : Same(q)
             /\ ret'[p] = res /\ pass'[p].idx = i
             /\ pc'[p] = IF Retries(p, res) THEN "reopenLock" ELSE "done"
  BY <1>1, <1>2, LocalTypes DEF Leave, cacheVars, Same, NewPass
<1>3. CASE SnapshotClosed(p)
  <2>1. idx = Nil /\ Leave(p, Nil, Fail("Closed")) /\ ~Retries(p, Fail("Closed"))
    BY <1>3 DEF SnapshotClosed, Retries, Fail
  <2>2. Fail("Closed") \in Service!Answers([leaf |-> call[p].leaf, since |-> call[p].since])
    BY <1>1, <2>1, InUseFacts, SameWords DEF Service!Answers
  <2> QED
    BY <1>1, <1>2, <2>1, <2>2, Answer_Service
<1>4. CASE ~SnapshotClosed(p)
  <2>1. PICK res \in {Conclude(s) : s \in {"Revoked", "NotRevoked", "NotCovered"}} \cup
                     {Fail(e) : e \in {"Lookup", "IO", "NotExist", "BadFilter", "Inconsistent", "Reopen"}} :
                Leave(p, pass[p].idx, res)
    BY <1>1, <1>4, EndResults
  <2>2. pc[p] = "pass"
    BY <1>4 DEF Ends, LookupFails, IndexGone, MissingFilter, IOFails, BadFilter, FilterRevokes, Finish,
                AtLookup, AtQuery, AtFilter, Opens
  <2>3. pass[p].idx # Nil /\ pass[p].idx = idx
    BY <1>1, <2>2 DEF SafeInv, HandleInv
  <2>4. /\ UNCHANGED <<pubs, made, idx, call>> /\ \A q \in Proc \ {p} : Same(q)
        /\ ret'[p] = res /\ pass'[p].idx = idx
        /\ pc'[p] = IF Retries(p, res) THEN "reopenLock" ELSE "done"
    BY <1>2, <2>1, <2>3
  <2>5. CASE Retries(p, res)
    <3>1. pc'[p] = "reopenLock"
      BY <2>4, <2>5
    <3>2. Asked' = Asked
      BY <1>1, <2>4, <3>1, AskedStays DEF Same, InCheck
    <3>3. Given' = Given
      BY <1>1, <2>4, <3>1, GivenStays DEF Same
    <3> QED
      BY <2>4, <3>2, <3>3, Unseen
  <2>6. CASE ~Retries(p, res)
    <3>1. pc'[p] = "done"
      BY <2>4, <2>6
    <3>2. Justified(pubs[idx.gen], call[p].leaf, res)
      BY <2>3, <2>4, <3>1 DEF KnownInv, VerdictInv, Progress, Sound, Held
    <3>3. Reliable /\ res.err = "NotExist" => Gen >= call[p].since + maxIndexReopens
      BY <2>4, <3>1 DEF KnownInv, ChurnInv, Pace, Gen, Reliable
    <3>4. res \in Service!Answers([leaf |-> call[p].leaf, since |-> call[p].since])
      BY <1>1, <2>3, <3>2, <3>3, AnswerAllowed
    <3> QED
      BY <1>1, <2>4, <3>1, <3>4, Answer_Service
  <2> QED
    BY <2>5, <2>6
<1> QED
  BY <1>3, <1>4

\* A reopenIndex that fails is the answer too, and it found c.idx unchanged.
LEMMA ReopenFails_Service ==
  ASSUME SafeInv, NEW p \in Proc, NEW h \in FreeHandle, ReopenFails(p, h)
  PROVE  Service!Reply(p)
<1>1. /\ pc[p] = "reopen" /\ InCheck(p) /\ idx = pass[p].idx
      /\ UNCHANGED <<pubs, made, idx, call>> /\ \A q \in Proc \ {p} : Same(q)
      /\ pc'[p] = "done" /\ ret'[p] = Fail("Reopen")
  BY LocalTypes DEF ReopenFails, Replaced, InCheck, cacheVars, Same
<1>2. idx # Nil
  BY <1>1 DEF SafeInv, CallInv
<1>3. Justified(pubs[idx.gen], call[p].leaf, Fail("Reopen")) /\ Fail("Reopen").err # "NotExist"
  BY FailJustified DEF Errors, Fail
<1>4. Fail("Reopen") \in Service!Answers([leaf |-> call[p].leaf, since |-> call[p].since])
  BY <1>2, <1>3, AnswerAllowed
<1> QED
  BY <1>1, <1>4, Answer_Service

\* reopenIndex moves the service on; under the contract to a later index.
LEMMA ReopenIndex_Service ==
  ASSUME KnownInv, NEW p \in Proc, NEW h \in FreeHandle, ReopenIndex(p, h)
  PROVE  Service!Advance
<1>1. SafeInv
  BY DEF KnownInv
<1>2. /\ pc[p] = "reopen" /\ idx = pass[p].idx /\ Gen > 0 /\ OnDisk.ok
      /\ UNCHANGED <<pubs, made, ret>> /\ \A q \in Proc \ {p} : Same(q)
      /\ pc'[p] = "rlock"
      /\ call'[p].leaf = call[p].leaf /\ call'[p].since = call[p].since
  BY <1>1, LocalTypes DEF ReopenIndex, Replaced, OpensIndex, Resume, cacheVars, Same, CallLocals
<1>3. idx # Nil
  BY <1>1, <1>2 DEF SafeInv, CallInv
<1>4. idx' # Nil /\ idx'.gen = Gen
  <2>1. NewIndex(h) \in IndexPtr /\ NewIndex(h).gen = Gen
    BY <1>1, Generations DEF NewIndex, IndexPtr, FreeHandle
  <2> QED
    BY <2>1, CheckerAssumption DEF IndexPtr, ReopenIndex
<1>5. Reliable => Gen > InUse
  BY <1>1, <1>2, <1>3, InUseFacts DEF KnownInv, ChurnInv, Pace
<1>6. Asked' = Asked
  BY <1>2, AskedStays DEF Same, InCheck
<1>7. Given' = Given
  BY <1>2, GivenStays DEF Same
<1>8. InUse' = Gen /\ Service!Latest = Gen /\ pubs[Gen].ok
  BY <1>1, <1>2, <1>4, InUseFacts DEF InUse, OnDisk
<1>9. ~(made /\ idx = Nil) /\ ~(made /\ idx = Nil)'
  BY <1>3, <1>4
<1> QED
  BY <1>2, <1>5, <1>6, <1>7, <1>8, <1>9 DEF Service!Advance

\* Close ends the service; a second Close does nothing more.
LEMMA Close_Service ==
  ASSUME SafeInv, NEW p \in Proc, Close(p)
  PROVE  Service!Shut \/ UNCHANGED Service!vars
<1>1. /\ pc[p] = "close" /\ pc'[p] = "idle" /\ idx' = Nil
      /\ UNCHANGED <<pubs, made, call, ret>> /\ \A q \in Proc \ {p} : Same(q)
  BY LocalTypes DEF Close, ClosedIdx, cacheVars, Same
<1>2. made
  BY <1>1 DEF SafeInv, CallInv
<1>3. Asked' = Asked /\ Given' = Given
  <2>1. Asked' = Asked
    BY <1>1, AskedStays DEF Same, InCheck
  <2>2. Given' = Given
    BY <1>1, GivenStays DEF Same
  <2> QED
    BY <2>1, <2>2
<1>4. CASE idx = Nil
  BY <1>1, <1>3, <1>4, Unseen
<1>5. CASE idx # Nil
  <2>1. InUse > 0 /\ InUse' = 0 /\ (made /\ idx = Nil)' = TRUE
    BY <1>1, <1>2, <1>5, InUseFacts DEF InUse
  <2> QED
    BY <1>1, <1>3, <2>1 DEF Service!Shut
<1> QED
  BY <1>4, <1>5

\* The caller takes its result.
LEMMA Return_Service ==
  ASSUME SafeInv, NEW p \in Proc, Return(p)
  PROVE  Service!Take(p)
<1>1. /\ pc[p] = "done" /\ pc'[p] = "idle"
      /\ UNCHANGED <<pubs, made, idx>> /\ \A q \in Proc \ {p} : Same(q)
  BY LocalTypes DEF Return, cacheVars, Same
<1>2. p \in DOMAIN Given
  BY <1>1 DEF Given, Answered
<1>3. Given' = Service!Without(p, Given)
  BY <1>1, GivenShrinks
<1>4. Asked' = Asked
  BY <1>1, AskedStays DEF Same, InCheck
<1>5. UNCHANGED <<pubs, InUse, made /\ idx = Nil>>
  BY <1>1 DEF InUse
<1> QED
  BY <1>2, <1>3, <1>4, <1>5 DEF Service!Take

-----------------------------------------------------------------------------
(* The theorem *)

\* Every step of the Checker is a step of the service, or none.
LEMMA Next_Service ==
  KnownInv /\ KnownInv' /\ [Next]_vars => [Service!Next]_Service!vars
<1> SUFFICES ASSUME KnownInv, KnownInv', [Next]_vars PROVE Service!Next \/ UNCHANGED Service!vars
  OBVIOUS
<1>1. SafeInv
  BY DEF KnownInv
<1>2. CASE UpdateCache /\ UNCHANGED <<muVars, chkVars>>
  BY <1>1, <1>2, UpdateCache_Service DEF Service!Next
<1>3. ASSUME NEW h \in FreeHandle, NewCheckerWith(h) PROVE Service!Next \/ UNCHANGED Service!vars
  BY <1>1, <1>3, NewCheckerWith_Service DEF Service!Next
<1>4. ASSUME NEW p \in Proc, NEW l \in Leaf, Check(p, l) PROVE Service!Next
  BY <1>1, <1>4, Check_Service DEF Service!Next
<1>5. ASSUME NEW p \in Proc,
             CallRLock(p) \/ Snapshot(p) \/ Lookup(p) \/ SkipSeen(p) \/ FilterAnswers(p)
               \/ CallLock(p) \/ CallClose(p) \/ ReopenReplaced(p)
      PROVE  UNCHANGED Service!vars
  BY <1>1, <1>5, Inner_Service
<1>6. ASSUME NEW p \in Proc, Ends(p) PROVE Service!Next \/ UNCHANGED Service!vars
  BY <1>6, Ends_Service DEF Service!Next
<1>7. ASSUME NEW p \in Proc, NEW h \in FreeHandle, ReopenIndex(p, h) PROVE Service!Next
  BY <1>7, ReopenIndex_Service DEF Service!Next
<1>8. ASSUME NEW p \in Proc, NEW h \in FreeHandle, ReopenFails(p, h) PROVE Service!Next
  BY <1>1, <1>8, ReopenFails_Service DEF Service!Next
<1>9. ASSUME NEW p \in Proc, Close(p) PROVE Service!Next \/ UNCHANGED Service!vars
  BY <1>1, <1>9, Close_Service DEF Service!Next
<1>10. ASSUME NEW p \in Proc, Return(p) PROVE Service!Next
  BY <1>1, <1>10, Return_Service DEF Service!Next
<1>11. CASE UNCHANGED vars
  <2>1. UNCHANGED <<pubs, made, idx, pc, call, ret>>
    BY <1>11 DEF vars, cacheVars, chkVars
  <2>2. Asked' = Asked /\ Given' = Given
    BY <2>1, AskedStays, GivenStays DEF InCheck
  <2> QED
    BY <2>1, <2>2, Unseen
<1> QED
  BY <1>2, <1>3, <1>4, <1>5, <1>6, <1>7, <1>8, <1>9, <1>10, <1>11 DEF Next, Step, Ends

\* The Checker implements the service: for any number of goroutines, cache
\* updates, indexes and filters, every result of Check is one that the index
\* in use justified in one instant between the call and the return; under the
\* atomicity contract the index only advances and a missing file is an answer
\* only after maxIndexReopens updates; after Close there is no index.
THEOREM CheckerImplementsService == Spec => ImplementsService
<1>1. Spec => []KnownInv
  BY CheckerVerdicts, CheckerChurn, PTL DEF KnownInv
<1> QED
  BY <1>1, Init_Service, Next_Service, PTL DEF Spec, ImplementsService, Service!Spec

-----------------------------------------------------------------------------
(***************************************************************************)
(* One attempt of Check parses a filter file at most once: a file that is  *)
(* not in seen has not been parsed since the attempt began.                *)
(***************************************************************************)

Parsed(p, f) ==
    /\ parsed[p][f] \in {0, 1}
    /\ pc[p] = "pass" /\ f \notin pass[p].seen => parsed[p][f] = 0

OpensInv == \A p \in Proc, f \in Filename : Parsed(p, f)

\* What a step may do to a goroutine, as far as the parsing goes.
Moved(p) ==
    \/ pc'[p] = pc[p] /\ pass'[p] = pass[p]
    \/ pc[p] # "pass" /\ pc'[p] # "pass"
    \/ pc[p] = "enter" /\ pc'[p] = "pass"
    \/ pc[p] = "pass" /\ pc'[p] # "pass"
    \/ /\ pc[p] = "pass" /\ pc'[p] = "pass"
       /\ \/ ~Opens(p) /\ pass'[p].seen = pass[p].seen
          \/ Opens(p) /\ pass'[p].seen = pass[p].seen \cup {NextFilter(p)}

\* A step is one of these for each goroutine.
LEMMA NextMoves ==
  ASSUME SafeInv, [Next]_vars, NEW p \in Proc
  PROVE  Moved(p)
<1>1. pc \in [Proc -> PC] /\ pass \in [Proc -> PassLocals]
  BY DEF SafeInv, TypeOK
<1>2. CASE \/ UpdateCache /\ UNCHANGED <<muVars, chkVars>>
           \/ \E h \in FreeHandle : NewCheckerWith(h)
           \/ UNCHANGED vars
  BY <1>2 DEF chkVars, NewCheckerWith, vars, Moved
<1>3. ASSUME NEW q \in Proc, NEW l \in Leaf, Check(q, l) PROVE Moved(p)
  BY <1>1, <1>3 DEF Check, Moved
<1>4. ASSUME NEW q \in Proc, CallClose(q) \/ Close(q) PROVE Moved(p)
  BY <1>1, <1>4 DEF CallClose, Close, Moved
<1>5. ASSUME NEW q \in Proc, CallLock(q) PROVE Moved(p)
  BY <1>1, <1>5 DEF CallLock, Moved
<1>6. ASSUME NEW q \in Proc, Return(q) PROVE Moved(p)
  BY <1>1, <1>6 DEF Return, Moved
<1>7. ASSUME NEW q \in Proc, CallRLock(q) \/ Snapshot(q) PROVE Moved(p)
  BY <1>1, <1>7 DEF CallRLock, Snapshot, Moved
<1>8. ASSUME NEW q \in Proc, Lookup(q) PROVE Moved(p)
  <2>1. pc[q] = "pass" /\ ~Opens(q) /\ pc' = pc
    BY <1>8 DEF Lookup, AtLookup, Opens, AtQuery, AtFilter
  <2>2. pass'[q].seen = pass[q].seen /\ \A r \in Proc \ {q} : pass'[r] = pass[r]
    BY <1>1, <1>8 DEF Lookup, PassLocals
  <2> QED
    BY <2>1, <2>2 DEF Moved
<1>9. ASSUME NEW q \in Proc, SkipSeen(q) PROVE Moved(p)
  <2>1. pc[q] = "pass" /\ ~Opens(q) /\ pc' = pc
    BY <1>9 DEF SkipSeen, AtFilter, Opens, AtQuery
  <2>2. pass'[q].seen = pass[q].seen /\ \A r \in Proc \ {q} : pass'[r] = pass[r]
    BY <1>1, <1>9 DEF SkipSeen, PassLocals
  <2> QED
    BY <2>1, <2>2 DEF Moved
<1>10. ASSUME NEW q \in Proc, FilterAnswers(q) PROVE Moved(p)
  <2>1. pc[q] = "pass" /\ Opens(q) /\ pc' = pc
    BY <1>10 DEF FilterAnswers, Opens, AtQuery, AtFilter
  <2>2. pass'[q].seen = pass[q].seen \cup {NextFilter(q)} /\ \A r \in Proc \ {q} : pass'[r] = pass[r]
    BY <1>1, <1>10 DEF FilterAnswers, Tally, NextFilter
  <2> QED
    BY <2>1, <2>2 DEF Moved
<1>11. ASSUME NEW q \in Proc, Ends(q) PROVE Moved(p)
  <2>1. pc[q] \in {"enter", "pass"} /\ \E i, res : Leave(q, i, res)
    BY <1>11 DEF Ends, SnapshotClosed, LookupFails, IndexGone, MissingFilter, IOFails, BadFilter,
                 FilterRevokes, Finish, AtLookup, Opens, AtQuery, AtFilter
  <2> QED
    BY <1>1, <2>1 DEF Leave, Moved
<1>12. ASSUME NEW q \in Proc, ReopenReplaced(q) \/ \E h \in FreeHandle : ReopenIndex(q, h)
       PROVE  Moved(p)
  <2>1. pc[q] = "reopen" /\ Resume(q) /\ pass' = pass
    BY <1>12 DEF ReopenReplaced, ReopenIndex
  <2> QED
    BY <1>1, <2>1 DEF Resume, Moved
<1>13. ASSUME NEW q \in Proc, NEW h \in FreeHandle, ReopenFails(q, h) PROVE Moved(p)
  BY <1>1, <1>13 DEF ReopenFails, Moved
<1> QED
  BY <1>2, <1>3, <1>4, <1>5, <1>6, <1>7, <1>8, <1>9, <1>10, <1>11, <1>12, <1>13 DEF Next, Step, Ends

\* Every step keeps the counts.
LEMMA NextParses ==
  ASSUME SafeInv, OpensInv, OpensNext
  PROVE  OpensInv'
<1> SUFFICES ASSUME NEW p \in Proc, NEW f \in Filename PROVE Parsed(p, f)'
  BY DEF OpensInv
<1>1. Moved(p) /\ Parsed(p, f)
  BY NextMoves DEF OpensNext, OpensInv
<1>2. parsed'[p][f] = IF pc'[p] = "idle" \/ Begins(p) THEN 0
                      ELSE IF Parses(p, f) THEN parsed[p][f] + 1 ELSE parsed[p][f]
  BY DEF OpensNext, NotOpened, Tallied
<1>3. Parses(p, f) => pc[p] = "pass" /\ f = NextFilter(p) /\ f \notin pass[p].seen /\ Opens(p)
                      /\ pass'[p] # pass[p]
  BY DEF Parses, Opens, AtQuery, AtFilter, Seen
<1>4. CASE pc'[p] = "idle" \/ Begins(p)
  BY <1>2, <1>4 DEF Parsed
<1>5. CASE ~(pc'[p] = "idle" \/ Begins(p)) /\ ~Parses(p, f)
  <2>1. parsed'[p][f] = parsed[p][f]
    BY <1>2, <1>5
  <2>2. pc'[p] = "pass" => pc[p] = "pass" /\ pass[p].seen \subseteq pass'[p].seen
    BY <1>1, <1>5 DEF Moved, Begins
  <2> QED
    BY <1>1, <2>1, <2>2 DEF Parsed
<1>6. CASE ~(pc'[p] = "idle" \/ Begins(p)) /\ Parses(p, f)
  <2>1. parsed[p][f] = 0 /\ parsed'[p][f] = 1
    BY <1>1, <1>2, <1>3, <1>6 DEF Parsed
  <2>2. pc'[p] = "pass" => f \in pass'[p].seen
    BY <1>1, <1>3, <1>6 DEF Moved
  <2> QED
    BY <2>1, <2>2 DEF Parsed
<1> QED
  BY <1>4, <1>5, <1>6

\* The map seen of checkOnce keeps every attempt from parsing a file twice, for
\* any SCT list and any index, whatever the attempts before it parsed.
THEOREM CheckerOpensOnce == OpensSpec => []OpenedOncePerPass
<1>1. OpensInit => SafeInv /\ OpensInv
  <2> SUFFICES ASSUME OpensInit PROVE SafeInv /\ OpensInv
    OBVIOUS
  <2>1. SafeInv
    BY Init_SafeInv DEF OpensInit
  <2>2. \A p \in Proc, f \in Filename : parsed[p][f] = 0
    BY DEF OpensInit, NotOpened
  <2> QED
    BY <2>1, <2>2 DEF OpensInv, Parsed
<1>2. (SafeInv /\ OpensInv) /\ [OpensNext]_<<vars, opened, parsed>> => (SafeInv /\ OpensInv)'
  <2> SUFFICES ASSUME SafeInv, OpensInv, [OpensNext]_<<vars, opened, parsed>>
               PROVE  SafeInv' /\ OpensInv'
    OBVIOUS
  <2>1. CASE OpensNext
    BY <2>1, Next_SafeInv, NextParses DEF OpensNext
  <2>2. CASE UNCHANGED <<vars, opened, parsed>>
    <3>1. SafeInv'
      BY <2>2, Next_SafeInv
    <3>2. pc' = pc /\ pass' = pass /\ parsed' = parsed
      BY <2>2 DEF vars, chkVars
    <3> QED
      BY <3>1, <3>2 DEF OpensInv, Parsed
  <2> QED
    BY <2>1, <2>2
<1>3. SafeInv /\ OpensInv => OpenedOncePerPass
  BY DEF OpensInv, Parsed, OpenedOncePerPass
<1> QED
  BY <1>1, <1>2, <1>3, PTL DEF OpensSpec
=============================================================================
