-------------------------------- MODULE Wire --------------------------------
(***************************************************************************)
(* Encodings as sequences of cells, for the filters of Parser and the      *)
(* certificates of Certificate.                                            *)
(***************************************************************************)
EXTENDS Naturals, Sequences

SX == INSTANCE SequencesExt

\* A value with its length before it.
Prefixed(x) == <<Len(x)>> \o x
=============================================================================
