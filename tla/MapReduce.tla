----------------------------- MODULE MapReduce -----------------------------
(***************************************************************************)
(* What a fan-out promises: the chunks of a plan are mapped independently,   *)
(* each reports once, and an answer that is not an error is computed after     *)
(* all of them have, from all of them.  A merge that came out too large may    *)
(* be spread again.                                                         *)
(***************************************************************************)
EXTENDS Naturals

CONSTANT Chunk

VARIABLES stage,    \* "new", "mapping", "done" or "failed"
          part,     \* part[i]: "todo", "ok" or "lost"
          answer    \* "none", "full" (made of every chunk) or "error"

mrVars == <<stage, part, answer>>

AllTodo == [i \in Chunk |-> "todo"]

MRInit == stage = "new" /\ part = AllTodo /\ answer = "none"

Spread ==
  /\ \/ stage = "new"
     \/ stage = "mapping" /\ \A i \in Chunk : part[i] = "ok"
  /\ stage' = "mapping"
  /\ part' = AllTodo
  /\ UNCHANGED answer

Report(i) ==
  /\ stage = "mapping"
  /\ part[i] = "todo"
  /\ \E s \in {"ok", "lost"} : part' = [part EXCEPT ![i] = s]
  /\ UNCHANGED <<stage, answer>>

AllReported == stage = "mapping" /\ \A i \in Chunk : part[i] # "todo"

Merge ==
  /\ AllReported
  /\ stage' = "done"
  /\ answer' \in IF \A i \in Chunk : part[i] = "ok" THEN {"full", "error"} ELSE {"error"}
  /\ UNCHANGED part

\* Nothing could be planned.
GiveUp ==
  /\ stage = "new"
  /\ stage' = "done"
  /\ answer' = "error"
  /\ UNCHANGED part

\* The planning or the merge itself raises.
Fail ==
  /\ stage = "new" \/ AllReported
  /\ stage' = "failed"
  /\ UNCHANGED <<part, answer>>

MRNext == Spread \/ (\E i \in Chunk : Report(i)) \/ Merge \/ GiveUp \/ Fail

MRSpec == MRInit /\ [][MRNext]_mrVars
=============================================================================
