--------------------------- MODULE MCRescheduling ---------------------------
(* Rescheduling on small instances. *)
EXTENDS Rescheduling, TLC

CONSTANTS c1, c2, r1

Symmetry == Permutations(Candidates)
=============================================================================
