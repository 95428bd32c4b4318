----------------------------- MODULE MCEventLog -----------------------------
(* Instances of EventLog for TLC: a root, its child and the child's child. *)
EXTENDS EventLog, TLC

CONSTANTS t1, t2, t3, r, m, l

MCParent == m :> r @@ l :> m
=============================================================================
