------------------------------- MODULE FanOut -------------------------------
(***************************************************************************)
(* A parent execution that spreads its chunks over child executions          *)
(* (lib/llm/map_reduce.py) and the workers that run parent and children and   *)
(* bring each child's outcome home (utils/process_execution.py,              *)
(* database/execution.py), one action per database transaction.              *)
(*                                                                         *)
(* A worker keeps, from one transaction to the next, what it read before:     *)
(* the checkpoint the claim returned, or the one it is about to write back.   *)
(* Writes to the parent made for a child carry no attempt and no version.     *)
(*                                                                         *)
(* Abstracted: chunk texts, leaf and reduce functions (so whether a result is *)
(* empty, and whether a merge comes out too large, is chosen freely),          *)
(* priorities (any queued row may be claimed: ExecutionQueue has the order),   *)
(* one-chunk inputs, and children that split their own chunk again.           *)
(***************************************************************************)
EXTENDS ExecutionRow, FiniteSets, Integers

CONSTANTS Chunks,        \* how many chunks a plan has
          MaxRetries,    \* chunk_max_retries
          Recursive,     \* recursive_merge
          MaxRounds,     \* bound on plans (the code has none)
          MaxChildren,   \* bound on children ever enqueued
          MaxMishaps     \* bound on the environment

ASSUME FanOutAssumption ==
  /\ Chunks \in Nat \ {0, 1}
  /\ MaxRetries \in Nat
  /\ Recursive \in BOOLEAN
  /\ {MaxRounds, MaxChildren, MaxMishaps} \subseteq Nat

Chunk == 1 .. Chunks
Child == 1 .. MaxChildren
Root    == 0             \* the parent
NoChild == 0             \* no child
Blank   == -1            \* `{}`, for a result that could not be read
Exec    == {Root} \cup Child

VARIABLES row,       \* row[x]: claim columns of the parent and of each child
          issued,    \* attempt ids given out
          spawned,   \* children 1..spawned exist
          chunkOf,   \* chunkOf[c]: `_chunk_idx` of child c
          ckpt,      \* the parent's checkpoint column
          answer,    \* the parent's result column
          pc, job,   \* the workers
          rounds, mishaps

vars == <<row, issued, spawned, chunkOf, ckpt, answer, pc, job, rounds, mishaps>>

\* results[i]: what stands for chunk i, the result of a child or `{}`.
\* failed: `failed_idx` is set.
Checkpoint == [merging : BOOLEAN, waiting : SUBSET Child,
               results : [Chunk -> Child \cup {NoChild, Blank}],
               retries : [Chunk -> Nat], failed : BOOLEAN]

Answer == {"none", "full", "partial", "error"}

\* mine: the children this job enqueued.  seen: the checkpoint it works with.
\* returned: whether the handler returned; answer: with what (the parent's).
\* lost: the child's result could not be read back.
Job == [exec : Exec, attempt : Nat, mine : SUBSET Child, seen : Checkpoint,
        returned : BOOLEAN, lost : BOOLEAN, answer : Answer]

Place == {"idle", "plan", "save", "suspend", "merge", "leaf", "result",
          "finish", "report", "integrate", "retry", "record", "restore", "wake"}

\* The checkpoint with which children `kids` are waited for.
Planned(merging, kids) ==
  [merging |-> merging, waiting |-> kids, results |-> [i \in Chunk |-> NoChild],
   retries |-> [i \in Chunk |-> 0], failed |-> FALSE]

NoCheckpoint == Planned(FALSE, {})

NoJob == [exec |-> Root, attempt |-> NoAttempt, mine |-> {}, seen |-> NoCheckpoint,
          returned |-> FALSE, lost |-> FALSE, answer |-> "none"]

Init ==
  /\ row = [x \in Exec |-> [status |-> "queued", phase |-> "none",
                            owner |-> NoWorker, attempt |-> NoAttempt]]
  /\ issued = 0 /\ spawned = 0
  /\ chunkOf = [c \in Child |-> 1]
  /\ ckpt = NoCheckpoint /\ answer = "none"
  /\ pc = [w \in Worker |-> "idle"]
  /\ job = [w \in Worker |-> NoJob]
  /\ rounds = 0 /\ mishaps = 0

Goto(w, place) == pc' = [pc EXCEPT ![w] = place]

\* The worker drops what it was doing.
Leave(w) == Goto(w, "idle") /\ job' = [job EXCEPT ![w] = NoJob]

Spawn(i) ==
  /\ spawned < MaxChildren
  /\ spawned' = spawned + 1
  /\ chunkOf' = [chunkOf EXCEPT ![spawned + 1] = i]

Plan == rounds < MaxRounds /\ rounds' = rounds + 1

children == <<spawned, chunkOf>>
bounds   == <<rounds, mishaps>>

-----------------------------------------------------------------------------
(* Running parent and children *)

\* The claim returns the row: a parent's handler sees the checkpoint as it is
\* now, and only that one.
Claim(w, x) ==
  /\ pc[w] = "idle"
  /\ x <= spawned
  /\ row[x].status = "queued"
  /\ issued' = issued + 1
  /\ row' = [row EXCEPT ![x] = ClaimRow(@, w, issued + 1)]
  /\ \/ x # Root /\ Goto(w, "leaf") /\ UNCHANGED rounds
     \/ x = Root /\ ckpt.merging /\ Goto(w, "merge") /\ UNCHANGED rounds
     \/ x = Root /\ ~ckpt.merging /\ Goto(w, "plan") /\ Plan
  /\ job' = [job EXCEPT ![w] = [NoJob EXCEPT !.exec = x, !.attempt = issued + 1,
                                  !.seen = IF x = Root THEN ckpt ELSE @]]
  /\ UNCHANGED <<children, ckpt, answer, mishaps>>

\* The loop of _plan_or_leaf: the children of chunks 1, 2, ... become visible to
\* the other workers one by one, before the parent says it waits for them.
Enqueue(w) ==
  /\ pc[w] = "plan"
  /\ LET i == Cardinality(job[w].mine) + 1 IN
       /\ Spawn(i)
       /\ Goto(w, IF i = Chunks THEN "save" ELSE "plan")
  /\ job' = [job EXCEPT ![w].mine = @ \cup {spawned + 1}]
  /\ UNCHANGED <<row, issued, ckpt, answer, bounds>>

Holding(w) == Holds(row[job[w].exec], job[w].attempt)

\* update_agent_state with the children's ids, fenced.
Save(w) ==
  /\ pc[w] = "save"
  /\ Holding(w)
  /\ ckpt' = Planned(TRUE, job[w].mine)
  /\ Goto(w, "suspend")
  /\ UNCHANGED <<row, issued, children, answer, job, bounds>>

Suspend(w) ==
  /\ pc[w] = "suspend"
  /\ Holding(w)
  /\ row' = [row EXCEPT ![Root] = SetStatus(@, "waiting", "none")]
  /\ Leave(w)
  /\ UNCHANGED <<issued, children, ckpt, answer, bounds>>

HasAll(s) == \A i \in Chunk : s.results[i] \in Child

\* Mutant of Merged: a chunk that failed is left out of the merge.
MergedAnyway(s) == IF HasAll(s) THEN "full" ELSE "partial"

\* _merge reads nothing but the checkpoint of its claim, and does not look at
\* `waiting_for_children`.
Merged(s) ==
  CASE s.failed               -> "error"
    [] ~s.failed /\ HasAll(s) -> "full"
    [] OTHER                  -> "partial"

\* Results that are all empty make an error, as does a handler's own `except`.
Merge(w) ==
  /\ pc[w] = "merge"
  /\ \E a \in {Merged(job[w].seen), "error"} :
       job' = [job EXCEPT ![w].answer = a, ![w].returned = TRUE]
  /\ Goto(w, "result")
  /\ UNCHANGED <<row, issued, children, ckpt, answer, bounds>>

\* A merge that came out too large is planned again, over new children.
MergeAgain(w) ==
  /\ pc[w] = "merge"
  /\ Recursive
  /\ ~job[w].seen.failed
  /\ \E i \in Chunk : job[w].seen.results[i] \in Child
  /\ Plan
  /\ Goto(w, "plan")
  /\ UNCHANGED <<row, issued, children, ckpt, answer, job, mishaps>>

LeafReturns(w) ==
  /\ pc[w] = "leaf"
  /\ job' = [job EXCEPT ![w].returned = TRUE]
  /\ Goto(w, "result")
  /\ UNCHANGED <<row, issued, children, ckpt, answer, bounds>>

\* Chunks are cut and filtered before the first child of a plan is enqueued.
Planning(w) == pc[w] = "plan" /\ job[w].mine = {}

HandlerRaises(w) ==
  /\ pc[w] \in {"leaf", "merge"} \/ Planning(w)
  /\ Goto(w, "finish")
  /\ UNCHANGED <<row, issued, children, ckpt, answer, job, bounds>>

\* The task's own `except` makes a result of what planning raised.
PlanningFails(w) ==
  /\ Planning(w)
  /\ job' = [job EXCEPT ![w].answer = "error", ![w].returned = TRUE]
  /\ Goto(w, "result")
  /\ UNCHANGED <<row, issued, children, ckpt, answer, bounds>>

\* update_execution_result; a child's result is only told from none.
StoreResult(w) ==
  /\ pc[w] = "result"
  /\ Holding(w)
  /\ answer' = IF job[w].exec = Root THEN job[w].answer ELSE answer
  /\ Goto(w, "finish")
  /\ UNCHANGED <<row, issued, children, ckpt, job, bounds>>

\* Mutant of Finish: the write is not fenced.
FinishUnfenced(w) ==
  /\ pc[w] = "finish"
  /\ row' = [row EXCEPT ![job[w].exec] =
               IF job[w].returned THEN SetStatus(@, "running", "backend_finalization")
                                  ELSE SetStatus(@, "failed", "none")]
  /\ IF job[w].exec = Root THEN Leave(w)
                           ELSE Goto(w, "report") /\ UNCHANGED job
  /\ UNCHANGED <<issued, children, ckpt, answer, bounds>>

\* The status that ends the job; only if it was written is the parent told.
Finish(w) ==
  /\ pc[w] = "finish"
  /\ Holding(w)
  /\ row' = [row EXCEPT ![job[w].exec] =
               IF job[w].returned THEN SetStatus(@, "running", "backend_finalization")
                                  ELSE SetStatus(@, "failed", "none")]
  /\ IF job[w].exec = Root THEN Leave(w)
                           ELSE Goto(w, "report") /\ UNCHANGED job
  /\ UNCHANGED <<issued, children, ckpt, answer, bounds>>

Fenced(w) ==
  /\ pc[w] \in {"save", "suspend", "result", "finish"}
  /\ ~Holding(w)
  /\ Leave(w)
  /\ UNCHANGED <<row, issued, children, ckpt, answer, bounds>>

-----------------------------------------------------------------------------
(* Telling the parent (_maybe_resume_parent, resume_parent_with_child) *)

\* The first read of the parent decides the path.  A parent that does not wait
\* for this child gets the checkpoint just read written back, and is woken; for
\* one that does, the result of a child that returned is read back.
Report(w) ==
  /\ pc[w] = "report"
  /\ \/ /\ job[w].exec \in ckpt.waiting
        /\ Goto(w, "integrate")
        /\ UNCHANGED job
     \/ /\ job[w].exec \notin ckpt.waiting
        /\ Goto(w, "restore")
        /\ job' = [job EXCEPT ![w].seen = ckpt]
  /\ UNCHANGED <<row, issued, children, ckpt, answer, bounds>>

\* Mutant of MayRetry: off by one.
MayRetryOnceMore(s, i) == s.retries[i] <= MaxRetries

MayRetry(s, i) == s.retries[i] < MaxRetries

\* The second read is the one that is updated and written back.
Integrate(w) ==
  /\ pc[w] = "integrate"
  /\ job[w].exec \in ckpt.waiting
  /\ job' = [job EXCEPT ![w].seen = ckpt]
  /\ Goto(w, IF ~job[w].returned /\ MayRetry(ckpt, chunkOf[job[w].exec])
               THEN "retry" ELSE "record")
  /\ UNCHANGED <<row, issued, children, ckpt, answer, bounds>>

Ignored(w) ==
  /\ pc[w] = "integrate"
  /\ job[w].exec \notin ckpt.waiting
  /\ Leave(w)
  /\ UNCHANGED <<row, issued, children, ckpt, answer, bounds>>

Retry(w) ==
  /\ pc[w] = "retry"
  /\ Spawn(chunkOf[job[w].exec])
  /\ job' = [job EXCEPT ![w].mine = {spawned + 1}]
  /\ Goto(w, "record")
  /\ UNCHANGED <<row, issued, ckpt, answer, bounds>>

\* Mutants of Integrated: the child stays among those waited for; a failed
\* child's empty result is taken for a result.
IntegratedButWaiting(s, c, i, got, kids) ==
  [s EXCEPT !.results[i] = got, !.waiting = @ \cup kids]
IntegratedAsResult(s, c, i, got, kids) ==
  [s EXCEPT !.waiting = (@ \ {c}) \cup kids, !.results[i] = c]

\* The checkpoint after child c of chunk i came home with `got` (NoChild: with an
\* error); kids are its retries.
Integrated(s, c, i, got, kids) ==
  [merging |-> s.merging,
   waiting |-> (s.waiting \ {c}) \cup kids,
   results |-> [s.results EXCEPT ![i] = IF got = NoChild /\ kids # {} THEN @ ELSE got],
   retries |-> [s.retries EXCEPT ![i] = @ + Cardinality(kids)],
   failed  |-> s.failed \/ (got = NoChild /\ kids = {})]

Got(j) == IF ~j.returned THEN NoChild ELSE IF j.lost THEN Blank ELSE j.exec

Outcome(w) == Integrated(job[w].seen, job[w].exec, chunkOf[job[w].exec],
                         Got(job[w]), job[w].mine)

\* Mutant of AfterRecord: every child wakes the parent.
AfterRecordAlways(w) == Goto(w, "wake") /\ UNCHANGED job

\* Whether the parent is woken depends on the copy, not on the row.
AfterRecord(w) ==
  IF Outcome(w).waiting = {} THEN Goto(w, "wake") /\ UNCHANGED job ELSE Leave(w)

Record(w) ==
  /\ pc[w] = "record"
  /\ ckpt' = Outcome(w)
  /\ AfterRecord(w)
  /\ UNCHANGED <<row, issued, children, answer, bounds>>

Restore(w) ==
  /\ pc[w] = "restore"
  /\ ckpt' = job[w].seen
  /\ Goto(w, "wake")
  /\ UNCHANGED <<row, issued, children, answer, job, bounds>>

\* wake_waiting_execution, whatever the parent is doing.
WakeParent(w) ==
  /\ pc[w] = "wake"
  /\ row' = [row EXCEPT ![Root] = WakeRow(@)]
  /\ Leave(w)
  /\ UNCHANGED <<issued, children, ckpt, answer, bounds>>

-----------------------------------------------------------------------------
(* Mishaps *)

Mishap == mishaps < MaxMishaps /\ mishaps' = mishaps + 1

\* enqueue_child_execution returns None in the middle of a plan, and the handler
\* returns an error as its result; or it finds no connection, and raises.  The
\* children enqueued so far stay.
EnqueueFails(w) ==
  /\ pc[w] = "plan"
  /\ Mishap
  /\ \/ /\ job' = [job EXCEPT ![w].answer = "error", ![w].returned = TRUE]
        /\ Goto(w, "result")
     \/ Goto(w, "finish") /\ UNCHANGED job
  /\ UNCHANGED <<row, issued, children, ckpt, answer, rounds>>

RetryFails(w) ==
  /\ pc[w] = "retry"
  /\ Mishap
  /\ Goto(w, "record")
  /\ UNCHANGED <<row, issued, children, ckpt, answer, job, rounds>>

\* The child's row cannot be read: `get_execution(...) or {}`, and the parent is
\* told of the success `{}`.
ChildUnread(w) ==
  /\ pc[w] = "report"
  /\ job[w].returned
  /\ job[w].exec \in ckpt.waiting
  /\ Mishap
  /\ job' = [job EXCEPT ![w].lost = TRUE]
  /\ Goto(w, "integrate")
  /\ UNCHANGED <<row, issued, children, ckpt, answer, rounds>>

\* A status cannot be written for want of a connection, which raises, and the
\* `except` of process_execution marks the execution failed.
NoConnection(w) ==
  /\ pc[w] \in {"suspend", "finish"}
  /\ Mishap
  /\ job' = [job EXCEPT ![w].returned = FALSE]
  /\ Goto(w, "finish")
  /\ UNCHANGED <<row, issued, children, ckpt, answer, rounds>>

\* Any other statement raises.  Whether the parent's checkpoint was written is
\* not looked at before the parent is woken.
StatementFails(w) ==
  /\ Mishap
  /\ \/ /\ pc[w] \in {"save", "suspend", "result", "finish", "report", "integrate", "wake"}
        /\ Leave(w)
     \/ pc[w] = "record" /\ AfterRecord(w)
     \/ pc[w] = "restore" /\ Goto(w, "wake") /\ UNCHANGED job
  /\ UNCHANGED <<row, issued, children, ckpt, answer, rounds>>

\* The process dies and is started again; one that stays down is one that takes
\* no more steps.
Crash(w) ==
  /\ pc[w] # "idle"
  /\ Mishap
  /\ Leave(w)
  /\ UNCHANGED <<row, issued, children, ckpt, answer, rounds>>

\* The backend gives an execution of a worker it believes dead back to the queue.
BackendRequeues(x) ==
  /\ Claimed(row[x])
  /\ Mishap
  /\ row' = [row EXCEPT ![x] = SetStatus(@, "queued", "none")]
  /\ UNCHANGED <<issued, children, ckpt, answer, pc, job, rounds>>

\* The backend finalizes the parent.  (What it does to a child that has reported,
\* no worker looks at.)
BackendCompletes ==
  /\ row[Root].phase = "backend_finalization"
  /\ row' = [row EXCEPT ![Root] = SetStatus(@, "completed", "none")]
  /\ UNCHANGED <<issued, children, ckpt, answer, pc, job, bounds>>

-----------------------------------------------------------------------------
WorkerStep(w) ==
  \/ \E x \in Exec : Claim(w, x)
  \/ Enqueue(w) \/ Save(w) \/ Suspend(w)
  \/ Merge(w) \/ MergeAgain(w) \/ LeafReturns(w) \/ HandlerRaises(w)
  \/ PlanningFails(w)
  \/ StoreResult(w) \/ Finish(w) \/ Fenced(w)
  \/ Report(w) \/ Integrate(w) \/ Ignored(w) \/ Retry(w)
  \/ Record(w) \/ Restore(w) \/ WakeParent(w)

Environment ==
  \/ \E w \in Worker : \/ EnqueueFails(w) \/ RetryFails(w) \/ StatementFails(w)
                       \/ Crash(w) \/ ChildUnread(w) \/ NoConnection(w)
  \/ \E x \in Exec : BackendRequeues(x)
  \/ BackendCompletes

Next == (\E w \in Worker : WorkerStep(w)) \/ Environment

Spec == Init /\ [][Next]_vars

\* Every live worker goes on; the backend finalizes what is handed to it.
FairSpec == Spec /\ (\A w \in Worker : WF_vars(WorkerStep(w))) /\ WF_vars(BackendCompletes)

-----------------------------------------------------------------------------
(* Properties *)

TypeOK ==
  /\ row \in [Exec -> ClaimColumns]
  /\ issued \in Nat /\ spawned \in 0 .. MaxChildren
  /\ chunkOf \in [Child -> Chunk]
  /\ ckpt \in Checkpoint /\ answer \in Answer
  /\ pc \in [Worker -> Place]
  /\ job \in [Worker -> Job]
  /\ rounds \in 0 .. MaxRounds /\ mishaps \in 0 .. MaxMishaps

Reported(c) == row[c].status = "failed" \/ row[c].phase = "backend_finalization"

Telling(w) == pc[w] \in {"report", "integrate", "retry", "record", "restore", "wake"}

HasReturned(c, i) == chunkOf[c] = i /\ row[c].phase = "backend_finalization"

\* However stale the checkpoints written back are, a result recorded for a chunk
\* is that of a child of that chunk that returned; and where nothing but `{}` is
\* recorded (process_execution.py:419: the child's row could not be read back, and
\* the merge takes the chunk for an empty one), such a child has returned as well:
\* a chunk whose children all failed is never merged as if it had succeeded.
ResultsAreGenuine ==
  \A i \in Chunk :
    LET r == ckpt.results[i] IN
      /\ r \in Child => HasReturned(r, i)
      /\ r = Blank => \E c \in Child : HasReturned(c, i)

\* A child tells its parent once, though two workers may have run it: whoever
\* tells has passed the fence of the child's last status, and nobody runs the
\* child again.
ToldOnce ==
  \A w \in Worker : Telling(w) =>
    /\ Reported(job[w].exec)
    /\ \A v \in Worker \ {w} :
         Telling(v) \/ (pc[v] = "leaf" /\ Holding(v)) => job[v].exec # job[w].exec

\* map_reduce.py:126-128: the merge runs "when the parent is woken after its
\* children finish": after all of them have, and reading what all of them left.
MergesAfterChildren ==
  \A w \in Worker :
    pc[w] = "merge" => /\ \A c \in job[w].seen.waiting : Reported(c)
                       /\ job[w].seen.waiting = {}

\* The children of a plan are accounted for: none is left out of the merge, and no
\* chunk is retried more than chunk_max_retries times, although a retry is enqueued
\* in one transaction and counted in another.
ChildrenAreCounted ==
  /\ MergesAfterChildren
  /\ \A i \in Chunk : Cardinality({c \in 1 .. spawned : chunkOf[c] = i})
                          <= rounds * (1 + MaxRetries)

\* A parent that suspended itself is resumed: no child's report is lost
\* (process_execution.py:349-351, "let _maybe_resume_parent handle each child
\* completion later").
ParentIsResumed == row[Root].status = "waiting" ~> row[Root].status # "waiting"

\* Whatever its children do, a plan comes to its end: the parent ends, or a merge
\* that came out too large is planned once more.  How often that happens is up to
\* the reduce function: map_reduce.py:292-298 counts no rounds.
PlansEnd == \A n \in 1 .. MaxRounds - 1 :
              rounds = n ~> (rounds > n \/ row[Root].status \in Terminal)

\* How far the fan-out is: what becomes of the parent, and of each chunk of its plan.
Stage == IF row[Root].status = "failed" THEN "failed"
         ELSE IF answer # "none" THEN "done"
         ELSE IF ckpt.merging THEN "mapping" ELSE "new"

Awaits(i) == \E c \in ckpt.waiting : chunkOf[c] = i

Part == [i \in Chunk |-> IF ~ckpt.merging \/ Awaits(i) THEN "todo"
                        ELSE IF ckpt.results[i] \in Child THEN "ok" ELSE "lost"]

\* The fan-out implements the abstract map-reduce.
MR == INSTANCE MapReduce WITH stage <- Stage, part <- Part
ImplementsMapReduce == MR!MRSpec
=============================================================================
