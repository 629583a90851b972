------------------------------- MODULE Checker -------------------------------
(***************************************************************************)
(* upki.Checker (upki/check.go): goroutines call Check and Close on one    *)
(* Checker while another program updates the cache directory under it.     *)
(*                                                                         *)
(* c.idx points to an *internal.Index, modelled by the reader it owns and  *)
(* the generation of index.bin that reader was opened on: an open file     *)
(* keeps the contents it had, so the index answers from pubs[gen] for as   *)
(* long as it lives.  Readers are drawn from Handle and reused once        *)
(* nothing refers to them, as the allocator may reuse an address.          *)
(*                                                                         *)
(* A call to checkOnce is a sequence of steps, one for each index lookup   *)
(* and each filter file, so that cache updates, other checks, reopens and  *)
(* Close happen between any two of them.  The bodies of reopenIndex and    *)
(* Close run under the write lock and are one step each.                   *)
(***************************************************************************)
EXTENDS RWMutex, CacheDir

CONSTANTS
    Handle,             \* identities of open index readers
    Nil,                \* the nil pointer
    maxIndexReopens,    \* how often one Check reopens the index
    CustomIndex         \* may reads of the index fail as if a file were missing?

ASSUME CheckerAssumption ==
    /\ maxIndexReopens \in Nat
    /\ CustomIndex \in BOOLEAN
    /\ Nil \notin [r : Handle, gen : Nat]

VARIABLES
    made,       \* has NewCheckerWith returned a Checker?
    idx,        \* c.idx
    hopen,      \* index readers that are open
    pc,         \* where each goroutine is
    call,       \* locals of Check, and the generation on disk when it began
    pass,       \* locals of checkOnce
    ret         \* what Check returns

chkVars == <<made, idx, hopen, pc, call, pass, ret>>
vars == <<muVars, cacheVars, chkVars>>

-----------------------------------------------------------------------------
(* Values *)

IndexPtr == [r : Handle, gen : Nat]

\* The locals of checkOnce as it starts on the index i, with the SCTs in todo.
NewPass(i, todo) ==
    [idx |-> i, todo |-> todo, names |-> <<>>, seen |-> {},
     notRevoked |-> FALSE, queried |-> 0, notCovered |-> 0]

NoCall == [leaf |-> Nil, reopens |-> 0, since |-> 0]

\* The contents of the index that p's check holds.
Held(p) == pubs[pass[p].idx.gen]

Referenced == {idx} \cup {pass[p].idx : p \in Proc}
FreeHandle == {h \in Handle \ hopen : \A i \in Referenced : i # Nil => i.r # h}

-----------------------------------------------------------------------------
(* Opening the index *)

\* A bug to detect: the reader of a rejected index is not closed.
LeakOnFailedParse(h, parsed) == hopen \cup {h}

\* The open readers after openIndex read index.bin through h.
ReadersAfterOpen(h, parsed) == IF parsed THEN hopen \cup {h} ELSE hopen

\* openIndex succeeds with the contents now on disk.
OpensIndex == Gen > 0 /\ OnDisk.ok

NewIndex(h) == [r |-> h, gen |-> Gen]

NewCheckerWith(h) ==
    /\ ~made
    /\ Gen > 0
    /\ hopen' = ReadersAfterOpen(h, OnDisk.ok)
    /\ made' = OnDisk.ok
    /\ idx' = IF OnDisk.ok THEN NewIndex(h) ELSE Nil
    /\ UNCHANGED <<muVars, cacheVars, pc, call, pass, ret>>

-----------------------------------------------------------------------------
(* Check *)

Check(p, l) ==
    /\ made
    /\ pc[p] = "idle"
    /\ call' = [call EXCEPT ![p] = [leaf |-> l, reopens |-> 0, since |-> Gen]]
    /\ IF Usable(l)
       THEN /\ pc' = [pc EXCEPT ![p] = "rlock"]
            /\ UNCHANGED ret
       ELSE /\ pc' = [pc EXCEPT ![p] = "done"]
            /\ ret' = [ret EXCEPT ![p] = Rejection(l)]
    /\ UNCHANGED <<muVars, cacheVars, made, idx, hopen, pass>>

\* Bugs to detect: retries without a bound, or one too few.
RetriesForever(p, res) == res.err = "NotExist"
RetriesOneLess(p, res) == res.err = "NotExist" /\ call[p].reopens + 1 < maxIndexReopens

\* The test Check's loop makes of each result of checkOnce.
Retries(p, res) == res.err = "NotExist" /\ call[p].reopens # maxIndexReopens

\* A bug to detect: a return that leaves the read lock held.
LeaveLocked(p, i, res) ==
    /\ pass' = [pass EXCEPT ![p] = NewPass(i, <<>>)]
    /\ ret' = [ret EXCEPT ![p] = res]
    /\ pc' = [pc EXCEPT ![p] = IF Retries(p, res) THEN "reopenLock" ELSE "done"]
    /\ UNCHANGED <<muVars, cacheVars, made, idx, hopen, call>>

\* checkOnce returns res and the index i, and its deferred RUnlock runs.
Leave(p, i, res) ==
    /\ RUnlock(p)
    /\ pass' = [pass EXCEPT ![p] = NewPass(i, <<>>)]
    /\ ret' = [ret EXCEPT ![p] = res]
    /\ pc' = [pc EXCEPT ![p] = IF Retries(p, res) THEN "reopenLock" ELSE "done"]
    /\ UNCHANGED <<cacheVars, made, idx, hopen, call>>

CallRLock(p) ==
    /\ pc[p] = "rlock"
    /\ RLock(p)
    /\ pc' = [pc EXCEPT ![p] = "enter"]
    /\ UNCHANGED <<cacheVars, made, idx, hopen, call, pass, ret>>

\* A bug to detect: the lock protects only the read of c.idx.
ReleaseAfterSnapshot(p) == RUnlock(p)

\* checkOnce keeps the read lock for the whole pass.
KeepLock(p) == UNCHANGED muVars

\* The read lock is held: take the snapshot of c.idx.
Snapshot(p) ==
    /\ pc[p] = "enter"
    /\ Reading(p)
    /\ idx # Nil
    /\ pass' = [pass EXCEPT ![p] = NewPass(idx, Scts[call[p].leaf])]
    /\ pc' = [pc EXCEPT ![p] = "pass"]
    /\ KeepLock(p)
    /\ UNCHANGED <<cacheVars, made, idx, hopen, call, ret>>

SnapshotClosed(p) ==
    /\ pc[p] = "enter"
    /\ Reading(p)
    /\ idx = Nil
    /\ Leave(p, Nil, Fail("Closed"))

\* Between two filters: idx.Lookup for the next SCT.
AtLookup(p) == pc[p] = "pass" /\ pass[p].names = <<>> /\ pass[p].todo # <<>>

\* The entry section can be read and is well formed.
Readable(p) == pass[p].idx.r \in hopen /\ Head(pass[p].todo) \notin Held(p).bad

Lookup(p) ==
    /\ AtLookup(p)
    /\ Readable(p)
    /\ pass' = [pass EXCEPT ![p].names = Held(p).sel[Head(pass[p].todo)],
                            ![p].todo = Tail(@)]
    /\ UNCHANGED <<muVars, cacheVars, made, idx, hopen, pc, call, ret>>

LookupFails(p) ==
    /\ AtLookup(p)
    /\ ~Readable(p)
    /\ Leave(p, pass[p].idx, Fail("Lookup"))

\* The reader of a custom IndexOpener (a range request answered 404, say) may
\* fail with an error that matches fs.ErrNotExist; a DirOpener's never does.
IndexGone(p) ==
    /\ AtLookup(p)
    /\ CustomIndex
    /\ Leave(p, pass[p].idx, Fail("NotExist"))

-----------------------------------------------------------------------------
(* Querying the filters *)

AtFilter(p) == pc[p] = "pass" /\ pass[p].names # <<>>
NextFilter(p) == Head(pass[p].names)

\* A bug to detect: a filter is queried for every SCT that selects it.
NeverSeen(p) == FALSE

Seen(p) == NextFilter(p) \in pass[p].seen

SkipSeen(p) ==
    /\ AtFilter(p)
    /\ Seen(p)
    /\ pass' = [pass EXCEPT ![p].names = Tail(@)]
    /\ UNCHANGED <<muVars, cacheVars, made, idx, hopen, pc, call, ret>>

\* queryFilter is about to open the file.
AtQuery(p) == AtFilter(p) /\ ~Seen(p)

\* It opens the file, which is there.
Opens(p) == AtQuery(p) /\ NextFilter(p) \in files

MissingFilter(p) ==
    /\ AtQuery(p)
    /\ NextFilter(p) \notin files
    /\ Leave(p, pass[p].idx, Fail("NotExist"))

\* Any other failure to open or read a filter file or an entry section.
IOFails(p) ==
    /\ AtLookup(p) \/ AtQuery(p)
    /\ Leave(p, pass[p].idx, Fail("IO"))

Says(p) == Answer[NextFilter(p)][call[p].leaf]

BadFilter(p) ==
    /\ Opens(p)
    /\ Says(p) = "Malformed"
    /\ Leave(p, pass[p].idx, Fail("BadFilter"))

FilterRevokes(p) ==
    /\ Opens(p)
    /\ Says(p) = "Revoked"
    /\ Leave(p, pass[p].idx, Conclude("Revoked"))

\* A bug to detect: only the last filter decides about not revoked.
LastAnswerWins(ps, a) == a = "Good"

\* The flag notRevoked after a filter answered a.
Remembered(ps, a) == ps.notRevoked \/ a = "Good"

\* The locals of checkOnce after the filter at the head of names answered a.
Tally(ps, a) ==
    [idx |-> ps.idx,
     todo |-> ps.todo,
     names |-> Tail(ps.names),
     seen |-> ps.seen \cup {Head(ps.names)},
     notRevoked |-> Remembered(ps, a),
     queried |-> ps.queried + 1,
     notCovered |-> IF a = "NotCovered" THEN ps.notCovered + 1 ELSE ps.notCovered]

FilterAnswers(p) ==
    /\ Opens(p)
    /\ Says(p) \in {"Good", "NotCovered", "NotEnrolled"}
    /\ pass' = [pass EXCEPT ![p] = Tally(pass[p], Says(p))]
    /\ UNCHANGED <<muVars, cacheVars, made, idx, hopen, pc, call, ret>>

\* A bug to detect: any filter that does not cover makes the index suspect.
OutcomeAnyNotCovered(ps) ==
    IF ps.notRevoked THEN Conclude("NotRevoked")
    ELSE IF ps.notCovered > 0 THEN Fail("Inconsistent")
    ELSE Conclude("NotCovered")

\* The end of checkOnce, when no filter revoked and none failed.
Outcome(ps) ==
    IF ps.notRevoked THEN Conclude("NotRevoked")
    ELSE IF ps.queried > 0 /\ ps.notCovered = ps.queried THEN Fail("Inconsistent")
    ELSE Conclude("NotCovered")

Finish(p) ==
    /\ pc[p] = "pass"
    /\ pass[p].names = <<>>
    /\ pass[p].todo = <<>>
    /\ Leave(p, pass[p].idx, Outcome(pass[p]))

-----------------------------------------------------------------------------
(* reopenIndex and Close *)

\* c.mu.Lock(), by a check about to reopen or by Close.
CallLock(p) ==
    /\ pc[p] \in {"reopenLock", "closeLock"}
    /\ Lock(p)
    /\ pc' = [pc EXCEPT ![p] = IF pc[p] = "reopenLock" THEN "reopen" ELSE "close"]
    /\ UNCHANGED <<cacheVars, made, idx, hopen, call, pass, ret>>

\* Bugs to detect: reopening whatever c.idx is by now; only a nil check.
NeverReplaced(p) == FALSE
ReplacedOnlyByClose(p) == idx = Nil

\* Another check, or Close, replaced the index this check found stale.
Replaced(p) == idx # pass[p].idx

\* A bug to detect: a retry that is not counted.
ResumeUncounted(p) ==
    /\ Unlock
    /\ pc' = [pc EXCEPT ![p] = "rlock"]
    /\ UNCHANGED call

\* reopenIndex returns nil and Check's loop goes round.
Resume(p) ==
    /\ Unlock
    /\ pc' = [pc EXCEPT ![p] = "rlock"]
    /\ call' = [call EXCEPT ![p].reopens = @ + 1]

ReopenReplaced(p) ==
    /\ pc[p] = "reopen"
    /\ Writing(p)
    /\ Replaced(p)
    /\ Resume(p)
    /\ UNCHANGED <<cacheVars, made, idx, hopen, pass, ret>>

\* A bug to detect: the replaced index is never closed.
KeepOldReader(readers0) == readers0

\* The readers still open after c.idx.Close().
CloseIdx(readers0) == IF idx = Nil THEN readers0 ELSE readers0 \ {idx.r}

ReopenIndex(p, h) ==
    /\ pc[p] = "reopen"
    /\ Writing(p)
    /\ ~Replaced(p)
    /\ OpensIndex
    /\ hopen' = CloseIdx(ReadersAfterOpen(h, TRUE))
    /\ idx' = NewIndex(h)
    /\ Resume(p)
    /\ UNCHANGED <<cacheVars, made, pass, ret>>

\* The index cannot be opened, or it is malformed and its reader is closed.
ReopenFails(p, h) ==
    /\ pc[p] = "reopen"
    /\ Writing(p)
    /\ ~Replaced(p)
    /\ Unlock
    /\ \/ UNCHANGED hopen
       \/ Gen > 0 /\ ~OnDisk.ok /\ hopen' = ReadersAfterOpen(h, FALSE)
    /\ ret' = [ret EXCEPT ![p] = Fail("Reopen")]
    /\ pc' = [pc EXCEPT ![p] = "done"]
    /\ UNCHANGED <<cacheVars, made, idx, call, pass>>

CallClose(p) ==
    /\ made
    /\ pc[p] = "idle"
    /\ pc' = [pc EXCEPT ![p] = "closeLock"]
    /\ UNCHANGED <<muVars, cacheVars, made, idx, hopen, call, pass, ret>>

\* c.idx after Close.
ClosedIdx == Nil

Close(p) ==
    /\ pc[p] = "close"
    /\ Writing(p)
    /\ Unlock
    /\ hopen' = CloseIdx(hopen)
    /\ idx' = ClosedIdx
    /\ pc' = [pc EXCEPT ![p] = "idle"]
    /\ UNCHANGED <<cacheVars, made, call, pass, ret>>

\* The caller takes Check's result; its locals are gone.
Return(p) ==
    /\ pc[p] = "done"
    /\ pc' = [pc EXCEPT ![p] = "idle"]
    /\ call' = [call EXCEPT ![p] = NoCall]
    /\ pass' = [pass EXCEPT ![p] = NewPass(Nil, <<>>)]
    /\ ret' = [ret EXCEPT ![p] = Conclude("NotCovered")]
    /\ UNCHANGED <<muVars, cacheVars, made, idx, hopen>>

-----------------------------------------------------------------------------
(* The system *)

\* The steps a goroutine takes by itself once it is inside Check or Close.
Step(p) ==
    \/ CallRLock(p)
    \/ Snapshot(p)
    \/ SnapshotClosed(p)
    \/ Lookup(p)
    \/ LookupFails(p)
    \/ IndexGone(p)
    \/ SkipSeen(p)
    \/ MissingFilter(p)
    \/ IOFails(p)
    \/ BadFilter(p)
    \/ FilterRevokes(p)
    \/ FilterAnswers(p)
    \/ Finish(p)
    \/ ReopenReplaced(p)
    \/ \E h \in FreeHandle : ReopenIndex(p, h)
    \/ \E h \in FreeHandle : ReopenFails(p, h)
    \/ Close(p)

Init ==
    /\ muInit
    /\ cacheInit
    /\ made = FALSE
    /\ idx = Nil
    /\ hopen = {}
    /\ pc = [p \in Proc |-> "idle"]
    /\ call = [p \in Proc |-> NoCall]
    /\ pass = [p \in Proc |-> NewPass(Nil, <<>>)]
    /\ ret = [p \in Proc |-> Conclude("NotCovered")]

Next ==
    \/ UpdateCache /\ UNCHANGED <<muVars, chkVars>>
    \/ \E h \in FreeHandle : NewCheckerWith(h)
    \/ \E p \in Proc :
          \/ \E l \in Leaf : Check(p, l)
          \/ CallClose(p)
          \/ CallLock(p)
          \/ Step(p)
          \/ Return(p)

Spec == Init /\ [][Next]_vars

(***************************************************************************)
(* A goroutine inside Check or Close keeps running, and one that waits for *)
(* the write lock gets it among others that ask again and again: the mutex *)
(* writers queue on hands itself over to a waiter it has starved.  Nothing *)
(* obliges callers to call or the cache to be updated.                     *)
(***************************************************************************)
Fairness == \A p \in Proc : WF_vars(Step(p)) /\ SF_vars(CallLock(p))

FairSpec == Spec /\ Fairness

-----------------------------------------------------------------------------
(* Correctness *)

PC == {"idle", "rlock", "enter", "pass", "reopenLock", "reopen", "closeLock", "close", "done"}

CallLocals == [leaf : Leaf \cup {Nil}, reopens : 0..maxIndexReopens, since : Nat]

PassLocals == [idx : IndexPtr \cup {Nil}, todo : Seq(SCT), names : Seq(Filename),
               seen : SUBSET Filename, notRevoked : BOOLEAN, queried : Nat, notCovered : Nat]

\* The type of every variable of the Checker, its lock and the cache.
TypeOK ==
    /\ muTypeOK
    /\ cacheTypeOK
    /\ made \in BOOLEAN
    /\ idx \in IndexPtr \cup {Nil}
    /\ hopen \subseteq Handle
    /\ pc \in [Proc -> PC]
    /\ call \in [Proc -> CallLocals]
    /\ pass \in [Proc -> PassLocals]
    /\ ret \in [Proc -> Result]

(***************************************************************************)
(* Checker's claim that a reopen or a Close "can't invalidate the index    *)
(* mid-check": a pass that is under way works on the index c.idx still     *)
(* points to, and its reader is open.                                      *)
(***************************************************************************)
IndexHeldOpen ==
    \A p \in Proc : pc[p] = "pass" =>
        /\ pass[p].idx # Nil
        /\ pass[p].idx = idx
        /\ idx.r \in hopen

(***************************************************************************)
(* "The Checker owns each IndexReader that index returns": no reader stays *)
(* open but the one behind c.idx, whatever opens failed, whichever of      *)
(* several racing checks reopened the index, and once Close has run none.  *)
(***************************************************************************)
NoReaderLeak == \A h \in hopen : idx # Nil /\ idx.r = h

(***************************************************************************)
(* A result of Check follows from the answers of all filters that one      *)
(* published index selects, even when the pass it comes from was the third *)
(* attempt and the cache changed under it: a revoked answer wins, not      *)
(* revoked needs a conclusive filter and that no selected filter revokes,  *)
(* failed or was left out, and an index no filter agrees with is an error. *)
(***************************************************************************)
VerdictSound ==
    \A p \in Proc : pc[p] = "done" =>
        /\ pass[p].idx # Nil => Justified(Held(p), call[p].leaf, ret[p])
        /\ ret[p].status # "NotCovered" => ret[p].err = "nil" /\ pass[p].idx # Nil

\* A missing file can only mean that the cache moved on.
Reliable == Atomic /\ ~CustomIndex

(***************************************************************************)
(* Under the cache atomicity contract Check surfaces a missing filter only *)
(* after the cache was updated at least maxIndexReopens times since the    *)
(* call began: each retry found an index superseded that was current when  *)
(* the check before it, or another one, reopened it.                       *)
(***************************************************************************)
MissingNeedsChurn ==
    \A p \in Proc :
        Reliable /\ pc[p] = "done" /\ ret[p].err = "NotExist" =>
            Gen >= call[p].since + maxIndexReopens

(***************************************************************************)
(* reopenIndex replaces the index only by a newer one: a check that lost   *)
(* the race to reopen, or came late, never moves the Checker back or opens *)
(* the same index.bin again.  Needs the cache atomicity contract.          *)
(***************************************************************************)
ReopenMovesForward ==
    [][Reliable /\ idx # Nil /\ idx' # Nil /\ idx' # idx => idx'.gen > idx.gen]_vars

(***************************************************************************)
(* Close is final: a check that was about to reopen when Close ran does    *)
(* not bring the index back.                                               *)
(***************************************************************************)
CloseIsFinal == [][made /\ idx = Nil => idx' = Nil /\ hopen' = {}]_vars

(***************************************************************************)
(* What NewChecker says: the Checker "reopens the index automatically when *)
(* a concurrent cache update supersedes it".  Read as a promise to callers *)
(* it means that a check that begins after an update answers from it.      *)
(***************************************************************************)
AnswersFromUpdate ==
    \A p \in Proc : pc[p] = "done" /\ ret[p].err = "nil" /\ pass[p].idx # Nil =>
        pass[p].idx.gen >= call[p].since

InCheck(p) == pc[p] \in {"rlock", "enter", "pass", "reopenLock", "reopen"}
InClose(p) == pc[p] \in {"closeLock", "close"}

(***************************************************************************)
(* Every Check returns, however often the cache is updated under it and    *)
(* whatever order its writer uses: the retries are bounded and the lock is *)
(* never waited for in a circle.                                           *)
(***************************************************************************)
EveryCheckReturns == \A p \in Proc : InCheck(p) ~> pc[p] = "done"

(***************************************************************************)
(* Close returns although other goroutines never stop checking: their read *)
(* locks do not starve it.                                                 *)
(***************************************************************************)
CloseReturns == \A p \in Proc : InClose(p) ~> pc[p] = "idle"
=============================================================================
