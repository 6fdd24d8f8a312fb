---------------------------- MODULE MCReplacement ----------------------------
(* Small instances of Replacement for TLC.                                  *)
EXTENDS Replacement, TLC

CONSTANTS p1, p2, p3

\* A placement is only told apart by its output.
Interchangeable == Permutations(Placements)
AllPlans == Settings
=============================================================================
