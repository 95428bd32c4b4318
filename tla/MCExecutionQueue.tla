-------------------------- MODULE MCExecutionQueue --------------------------
(* Instances of ExecutionQueue for TLC. *)
EXTENDS ExecutionQueue, TLC

CONSTANTS w1, w2

WorkerSymmetry == Permutations({w1, w2})

\* A background one-shot task that is older than a normal parent and a
\* high-priority agent.
MCPriority == 1 :> "background" @@ 2 :> "normal" @@ 3 :> "high"
MCSupports == [w \in {w1, w2} |-> {1, 2, 3}]
\* The same, when nobody supports the high-priority execution (a task that
\* needs a GPU, and no worker has one).
MCSupportsSome == w1 :> {1, 2} @@ w2 :> {1}

\* A background task beside one execution that is everything at once, for the
\* runs with more mishaps.
MCPriorityPair == 1 :> "background" @@ 2 :> "normal"
MCSupportsPair == [w \in {w1, w2} |-> {1, 2}]

\* A single one-shot execution.
MCPriorityOne == 1 :> "normal"
MCSupportsOne == [w \in {w1, w2} |-> {1}]
=============================================================================
