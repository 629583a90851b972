------------------------------ MODULE CacheDir ------------------------------
(***************************************************************************)
(* The revocation cache directory, as the Checker sees it: index.bin and   *)
(* the filter files.  It is written by `upki fetch`, another program; the  *)
(* order of its writes is the cache atomicity contract that upki/check.go  *)
(* relies on (an index only names filter files present when it became      *)
(* visible) and that TestCheckerReopensIndexFromDisk replays: new filter   *)
(* files first, then the index, then the removal of files the new index    *)
(* no longer names.  With Atomic = FALSE the writer ignores the contract.  *)
(***************************************************************************)
EXTENDS Naturals, Verdicts

CONSTANTS
    MaxGen,     \* bound: how many times index.bin is published
    Atomic      \* does the writer keep the cache atomicity contract?

ASSUME CacheAssumption ==
    /\ MaxGen \in Nat
    /\ Atomic \in BOOLEAN

VARIABLES
    files,      \* the filter files present
    pubs        \* every index.bin published so far; the last one is on disk

cacheVars == <<files, pubs>>

Gen == Len(pubs)

OnDisk == pubs[Gen]

\* The filter files an index may lead a check to open.
Names(i) == UNION {Range(i.sel[s]) : s \in SCT \ i.bad}

cacheTypeOK ==
    /\ files \subseteq Filename
    /\ pubs \in Seq(Index)

cacheInit ==
    /\ files = {}
    /\ pubs = <<>>

WriteFilter(f) ==
    /\ f \notin files
    /\ files' = files \cup {f}
    /\ UNCHANGED pubs

PublishIndex(i) ==
    /\ Gen < MaxGen
    /\ Atomic => Names(i) \subseteq files
    /\ pubs' = Append(pubs, i)
    /\ UNCHANGED files

RemoveFilter(f) ==
    /\ f \in files
    /\ Atomic /\ Gen > 0 => f \notin Names(OnDisk)
    /\ files' = files \ {f}
    /\ UNCHANGED pubs

UpdateCache ==
    \/ \E f \in Filename : WriteFilter(f)
    \/ \E i \in Index : PublishIndex(i)
    \/ \E f \in Filename : RemoveFilter(f)
=============================================================================
