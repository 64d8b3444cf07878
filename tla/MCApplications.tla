--------------------------- MODULE MCApplications ---------------------------
(* Applications on small instances. *)
EXTENDS Applications, TLC

CONSTANTS c1, c2, r1, r2

OneSlot == {1}
TwoSlots == {1, 2}

AllHandlers == {"apply", "release", "decide", "scan", "markPresent", "confirm"}
BookingHandlers == {"apply", "release", "decide"}
RebookHandlers == {"apply", "release"}

Symmetry == Permutations(Candidates) \cup Permutations(Requests)
=============================================================================
