-------------------------- MODULE CheckerRefinement --------------------------
(***************************************************************************)
(* Checker implements RevocationService.  The index in use is the one c.idx*)
(* points to, and a check waits for its answer until checkOnce or          *)
(* reopenIndex returns what Check will return.                             *)
(***************************************************************************)
EXTENDS Checker

InUse == IF idx = Nil THEN 0 ELSE idx.gen

Waiting == {p \in Proc : InCheck(p)}
Asked == [p \in Waiting |-> [leaf |-> call[p].leaf, since |-> call[p].since]]

Answered == {p \in Proc : pc[p] = "done"}
Given == [p \in Answered |-> ret[p]]

Service == INSTANCE RevocationService WITH
    Patience <- maxIndexReopens,
    Atomic <- Reliable,
    cur <- InUse,
    closed <- made /\ idx = Nil,
    asked <- Asked,
    answers <- Given

(***************************************************************************)
(* The Checker, with its lock, its retries, its passes that other checks,  *)
(* reopens and cache updates interleave with, and its reuse of readers, is *)
(* an implementation of the one-instant service: every result of Check is  *)
(* one the index in use justified at some instant during the call.         *)
(***************************************************************************)
ImplementsService == Service!Spec
=============================================================================
