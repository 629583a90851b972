---------------------------- MODULE CheckerOpens -----------------------------
(***************************************************************************)
(* The Checker with a history of the filter files that were opened and     *)
(* parsed: by each call of Check, and by the present attempt of each call. *)
(***************************************************************************)
EXTENDS Checker

VARIABLES
    opened,     \* opened[p][f]: how often p's present call parsed f
    parsed      \* parsed[p][f]: how often p's last call of checkOnce parsed f

NotOpened == [f \in Filename |-> 0]

\* This step is p's queryFilter on f, and it got to read the file.
Parses(p, f) ==
    /\ Opens(p)
    /\ f = NextFilter(p)
    /\ pass'[p] # pass[p]
    /\ ret'[p].err # "IO"

\* The counts n of p after this step.
Tallied(p, n) == [f \in Filename |-> IF Parses(p, f) THEN n[f] + 1 ELSE n[f]]

\* In this step p's checkOnce makes its map seen.
Begins(p) == pc[p] = "enter" /\ pc'[p] = "pass"

OpensInit ==
    /\ Init
    /\ opened = [p \in Proc |-> NotOpened]
    /\ parsed = [p \in Proc |-> NotOpened]

OpensNext ==
    /\ Next
    /\ opened' = [p \in Proc |->
           IF pc'[p] = "idle" THEN NotOpened ELSE Tallied(p, opened[p])]
    /\ parsed' = [p \in Proc |->
           IF pc'[p] = "idle" \/ Begins(p) THEN NotOpened ELSE Tallied(p, parsed[p])]

OpensSpec == OpensInit /\ [][OpensNext]_<<vars, opened, parsed>>

-----------------------------------------------------------------------------
(* Correctness *)

\* However many SCTs and index entries select a filter file, one attempt of
\* Check parses it at most once (the map seen of checkOnce), whichever attempts
\* came before it and whatever they parsed.
OpenedOncePerPass ==
    \A p \in Proc, f \in Filename : parsed[p][f] <= 1

\* What the comment on Check says: "Each distinct filter file is opened and
\* parsed at most once per Check call."
OpenedOncePerCheck ==
    \A p \in Proc, f \in Filename : opened[p][f] <= 1
=============================================================================
