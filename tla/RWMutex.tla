------------------------------- MODULE RWMutex -------------------------------
(***************************************************************************)
(* sync.RWMutex of the Go standard library, as Checker.mu uses it.  The    *)
(* lock is external to the repository; what is kept is what decides who    *)
(* runs: a writer announces itself, readers that come later queue up       *)
(* behind it, it enters once the earlier readers have left, and its Unlock *)
(* admits every reader that queued.                                        *)
(***************************************************************************)

CONSTANTS
    Proc,       \* the goroutines that share the lock
    NoProc      \* "no writer"

ASSUME NoProcAssumption == NoProc \notin Proc

VARIABLES
    readers,    \* goroutines that hold the read lock
    rwait,      \* goroutines blocked in RLock behind an announced writer
    writer      \* the goroutine that holds or announced the write lock

muVars == <<readers, rwait, writer>>

muTypeOK ==
    /\ readers \subseteq Proc
    /\ rwait \subseteq Proc
    /\ writer \in Proc \cup {NoProc}

muInit ==
    /\ readers = {}
    /\ rwait = {}
    /\ writer = NoProc

Reading(p) == p \in readers

Writing(p) == writer = p /\ readers = {}

RLock(p) ==
    IF writer = NoProc
    THEN /\ readers' = readers \cup {p}
         /\ UNCHANGED <<rwait, writer>>
    ELSE /\ rwait' = rwait \cup {p}
         /\ UNCHANGED <<readers, writer>>

RUnlock(p) ==
    /\ readers' = readers \ {p}
    /\ UNCHANGED <<rwait, writer>>

\* Announce p as the writer; it is inside once Writing(p).
Lock(p) ==
    /\ writer = NoProc
    /\ writer' = p
    /\ UNCHANGED <<readers, rwait>>

Unlock ==
    /\ writer' = NoProc
    /\ readers' = readers \cup rwait
    /\ rwait' = {}
=============================================================================
