----------------------------- MODULE MCCharging -----------------------------
(* Charging on small instances. *)
EXTENDS Charging, TLC

CONSTANTS c1, c2, w1, w2

OneCheckIn == {c1}
TwoCheckIns == {c1, c2}
OneWorker == {w1}
TwoWorkers == {w1, w2}

Symmetry == Permutations(CheckIns) \cup Permutations(Workers)
=============================================================================
