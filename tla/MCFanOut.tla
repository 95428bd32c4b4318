------------------------------ MODULE MCFanOut ------------------------------
(* Instances of FanOut for TLC. *)
EXTENDS FanOut, TLC

CONSTANTS w1, w2

WorkerSymmetry == Permutations(Worker)
=============================================================================
