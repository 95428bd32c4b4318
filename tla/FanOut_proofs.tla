----------------------------- MODULE FanOut_proofs -----------------------------
(***************************************************************************)
(* Proofs about FanOut.  First what holds for any number of workers, with     *)
(* crashes, takeovers and stale checkpoints: a child tells its parent once,   *)
(* and a recorded result is genuine.  Then that one worker, when nothing goes  *)
(* wrong, counts every child and refines MapReduce.                          *)
(***************************************************************************)
EXTENDS FanOut, FiniteSetTheorems, TLAPS

USE NoWorkerAssumption, FanOutAssumption DEF NoAttempt, Root, NoChild, Blank

-----------------------------------------------------------------------------
(* The inductive invariant *)

Busy(w) == pc[w] # "idle"

\* Each row's attempt has been issued, and a row has one exactly while it is
\* claimed: one that has ended fences everybody off.
RowsAgree ==
  \A x \in Exec : /\ row[x].attempt <= issued
                  /\ Claimed(row[x]) <=> row[x].attempt # NoAttempt
                  /\ row[x].status = "queued" => row[x].phase = "none"

NotYetSpawned == \A x \in Exec : x > spawned => row[x].status = "queued"

\* An attempt fences the row of its own job only.
OwnAttempt(w) ==
  Busy(w) =>
    /\ job[w].attempt \in 1 .. issued
    /\ \A x \in Exec : row[x].attempt = job[w].attempt => x = job[w].exec

\* The parent is planned and merged, children are run and tell; a plan under way
\* has a next chunk.
InPlace(w) ==
  /\ pc[w] \in {"plan", "save", "suspend", "merge"} => job[w].exec = Root
  /\ pc[w] = "leaf" \/ Telling(w) => job[w].exec # Root
  /\ pc[w] = "merge" => job[w].mine = {}
  /\ pc[w] = "plan" =>
       job[w].mine \subseteq 1 .. spawned /\ Cardinality(job[w].mine) < Chunks

\* Who tells has ended the child and says how.
TellsTheEnd(w) ==
  Telling(w) =>
    /\ Reported(job[w].exec)
    /\ job[w].returned <=> row[job[w].exec].phase = "backend_finalization"

\* No two jobs share an attempt, no two tell of one child.
Apart(w, v) ==
  /\ Busy(w) /\ Busy(v) => job[w].attempt # job[v].attempt
  /\ Telling(w) /\ Telling(v) => job[w].exec # job[v].exec

Genuine(s) ==
  \A i \in Chunk : /\ s.results[i] \in Child => HasReturned(s.results[i], i)
                   /\ s.results[i] = Blank => \E c \in Child : HasReturned(c, i)

\* Of a worker's checkpoint too: it may be written back at any later time.
JobInv(w) == OwnAttempt(w) /\ InPlace(w) /\ TellsTheEnd(w) /\ Genuine(job[w].seen)

IInv ==
  /\ TypeOK /\ RowsAgree /\ NotYetSpawned /\ Genuine(ckpt)
  /\ \A w \in Worker : JobInv(w)
  /\ \A w, v \in Worker : w # v => Apart(w, v)

-----------------------------------------------------------------------------
(* Types *)

\* A set of children is finite, and one more child makes it larger by one.
LEMMA ChildrenAreFinite ==
  ASSUME NEW S \in SUBSET Child
  PROVE  /\ IsFiniteSet(S) /\ Cardinality(S) \in Nat
         /\ \A c \in Child \ S : Cardinality(S \cup {c}) = Cardinality(S) + 1
<1>1. IsFiniteSet(Child)
  BY FS_Interval DEF Child
<1>2. IsFiniteSet(S)
  BY <1>1, FS_Subset
<1> QED
  BY <1>2, FS_CardinalityType, FS_AddElement

LEMMA RowTypes ==
  ASSUME NEW r \in ClaimColumns
  PROVE  /\ \A w \in Worker, a \in Nat : ClaimRow(r, w, a) \in ClaimColumns
         /\ \A st \in Status, ph \in Phase : SetStatus(r, st, ph) \in ClaimColumns
         /\ WakeRow(r) \in ClaimColumns
<1>1. ASSUME NEW w \in Worker, NEW a \in Nat PROVE ClaimRow(r, w, a) \in ClaimColumns
  BY DEF ClaimColumns, Status, Phase, ClaimRow
<1>2. ASSUME NEW st \in Status, NEW ph \in Phase PROVE SetStatus(r, st, ph) \in ClaimColumns
  BY DEF ClaimColumns, SetStatus
<1>3. WakeRow(r) \in ClaimColumns
  BY <1>2 DEF Status, Phase, WakeRow
<1> QED  BY <1>1, <1>2, <1>3

LEMMA PlannedType ==
  ASSUME NEW merging \in BOOLEAN, NEW kids \in SUBSET Child
  PROVE  Planned(merging, kids) \in Checkpoint
<1>1. /\ [i \in Chunk |-> NoChild] \in [Chunk -> Child \cup {NoChild, Blank}]
      /\ [i \in Chunk |-> 0] \in [Chunk -> Nat]
  OBVIOUS
<1> QED  BY <1>1 DEF Planned, Checkpoint

LEMMA NoJobType == NoJob \in Job /\ NoCheckpoint \in Checkpoint
<1>1. NoCheckpoint \in Checkpoint
  BY PlannedType DEF NoCheckpoint
<1> QED
  BY <1>1 DEF NoJob, Job, Exec, Answer

\* What a child's outcome makes of a checkpoint is a checkpoint.
LEMMA IntegratedType ==
  ASSUME NEW s \in Checkpoint, NEW c \in Child, NEW i \in Chunk,
         NEW got \in Child \cup {NoChild, Blank}, NEW kids \in SUBSET Child
  PROVE  Integrated(s, c, i, got, kids) \in Checkpoint
<1>1. /\ s.merging \in BOOLEAN /\ s.waiting \in SUBSET Child /\ s.failed \in BOOLEAN
      /\ s.results \in [Chunk -> Child \cup {NoChild, Blank}] /\ s.retries \in [Chunk -> Nat]
  BY DEF Checkpoint
<1>2. [s.results EXCEPT ![i] = IF got = NoChild /\ kids # {} THEN @ ELSE got]
        \in [Chunk -> Child \cup {NoChild, Blank}]
  BY <1>1
<1>3. [s.retries EXCEPT ![i] = @ + Cardinality(kids)] \in [Chunk -> Nat]
  BY <1>1, ChildrenAreFinite
<1> QED
  BY <1>1, <1>2, <1>3 DEF Integrated, Checkpoint

\* The worker's place and job are all that Goto and Leave change.
LEMMA LeaveType ==
  ASSUME TypeOK, NEW w \in Worker
  PROVE  /\ Leave(w) => pc' \in [Worker -> Place] /\ job' \in [Worker -> Job]
         /\ \A p \in Place : Goto(w, p) => pc' \in [Worker -> Place]
  BY NoJobType DEF TypeOK, Leave, Goto, Place

\* A job keeps its types when one of its fields is replaced.
LEMMA JobTypes ==
  ASSUME NEW j \in Job
  PROVE  /\ \A m \in SUBSET Child : [j EXCEPT !.mine = m] \in Job
         /\ \A s \in Checkpoint : [j EXCEPT !.seen = s] \in Job
         /\ \A b \in BOOLEAN : [j EXCEPT !.returned = b] \in Job
         /\ [j EXCEPT !.lost = TRUE] \in Job /\ j.lost \in BOOLEAN
         /\ j.exec \in Exec /\ j.attempt \in Nat /\ j.mine \in SUBSET Child
         /\ j.seen \in Checkpoint /\ j.returned \in BOOLEAN /\ j.answer \in Answer
         /\ \A a \in Answer : [j EXCEPT !.answer = a, !.returned = TRUE] \in Job
  BY DEF Job

LEMMA TypeStep ==
  ASSUME TypeOK, \A w \in Worker : InPlace(w), [Next]_vars
  PROVE  TypeOK'
<1> USE DEF children, bounds
<1>a. /\ \A w \in Worker : job[w] \in Job
      /\ \A x \in Exec : row[x] \in ClaimColumns
      /\ Exec = {0} \cup Child /\ Child \subseteq Exec /\ Root \in Exec
  BY DEF TypeOK, Exec
<1>b. /\ {"queued", "running", "waiting", "completed", "failed"} \subseteq Status
      /\ {"none", "worker_execution", "backend_finalization"} \subseteq Phase
  BY DEF Status, Phase
\* A step that touches no row, no checkpoint and no child.
<1>1. ASSUME NEW w \in Worker, UNCHANGED <<row, issued, children, ckpt, answer>>,
             pc' \in [Worker -> Place], job' \in [Worker -> Job],
             rounds' \in 0 .. MaxRounds, mishaps' \in 0 .. MaxMishaps
      PROVE  TypeOK'
  BY <1>1 DEF TypeOK
<1>2. ASSUME NEW w \in Worker, Leave(w) \/ \E p \in Place : Goto(w, p) /\ UNCHANGED job
      PROVE  pc' \in [Worker -> Place] /\ job' \in [Worker -> Job]
  BY <1>2, LeaveType DEF TypeOK
<1>3. Mishap => mishaps' \in 0 .. MaxMishaps
  BY DEF TypeOK, Mishap
<1>4. Plan => rounds' \in 0 .. MaxRounds
  BY DEF TypeOK, Plan
<1>5. rounds \in 0 .. MaxRounds /\ mishaps \in 0 .. MaxMishaps
  BY DEF TypeOK
<1>6. ASSUME NEW i \in Chunk, Spawn(i)
      PROVE  /\ spawned' \in 0 .. MaxChildren /\ spawned + 1 \in Child
             /\ chunkOf' \in [Child -> Chunk]
  BY <1>6 DEF Spawn, TypeOK, Child
<1>11. ASSUME NEW w \in Worker, NEW x \in Exec, Claim(w, x) PROVE TypeOK'
  <2>1. issued' \in Nat /\ issued + 1 \in Nat  BY <1>11 DEF Claim, TypeOK
  <2>2. row' \in [Exec -> ClaimColumns]
    BY <1>11, <1>a, <2>1, RowTypes DEF Claim, TypeOK
  <2>3. pc' \in [Worker -> Place]
    BY <1>11 DEF Claim, TypeOK, Goto, Place
  <2>4. job' \in [Worker -> Job]
    <3>1. ckpt \in Checkpoint  BY DEF TypeOK
    <3>2. \A s \in Checkpoint :
            [NoJob EXCEPT !.exec = x, !.attempt = issued + 1, !.seen = s] \in Job
      BY <2>1, NoJobType DEF Job, NoJob
    <3>3. NoJob.seen \in Checkpoint  BY NoJobType DEF NoJob
    <3>4. [NoJob EXCEPT !.exec = x, !.attempt = issued + 1, !.seen = IF x = Root THEN ckpt ELSE @] \in Job
      BY <3>1, <3>2, <3>3
    <3> QED  BY <1>11, <3>4 DEF Claim, TypeOK
  <2>5. rounds' \in 0 .. MaxRounds  BY <1>11, <1>4, <1>5 DEF Claim
  <2> QED  BY <1>11, <2>1, <2>2, <2>3, <2>4, <2>5 DEF Claim, TypeOK
<1>12. ASSUME NEW w \in Worker, Enqueue(w) PROVE TypeOK'
  <2>1. Cardinality(job[w].mine) + 1 \in Chunk
    <3>1. Cardinality(job[w].mine) \in Nat  BY <1>a, ChildrenAreFinite, JobTypes
    <3>2. Cardinality(job[w].mine) < Chunks  BY <1>12 DEF Enqueue, InPlace
    <3> QED  BY <3>1, <3>2 DEF Chunk
  <2>2. Spawn(Cardinality(job[w].mine) + 1)  BY <1>12 DEF Enqueue
  <2>3. job[w].mine \cup {spawned + 1} \in SUBSET Child
    BY <2>1, <2>2, <1>6, <1>a, JobTypes
  <2>4. job' \in [Worker -> Job]
    <3>1. [job[w] EXCEPT !.mine = job[w].mine \cup {spawned + 1}] \in Job
      BY <2>3, <1>a, JobTypes
    <3> QED  BY <1>12, <3>1 DEF Enqueue, TypeOK
  <2>5. pc' \in [Worker -> Place]  BY <1>12 DEF Enqueue, Goto, TypeOK, Place
  <2> QED  BY <1>12, <2>1, <2>2, <1>6, <2>4, <2>5 DEF Enqueue, TypeOK
<1>13. ASSUME NEW w \in Worker, Save(w) \/ Record(w) \/ Restore(w) PROVE TypeOK'
  <2>1. ckpt' \in Checkpoint
    <3>1. CASE Save(w)  BY <3>1, <1>a, JobTypes, PlannedType DEF Save
    <3>2. CASE Record(w)
      <4>1. job[w].exec \in Child
        BY <3>2, <1>a, JobTypes DEF Record, InPlace, Telling
      <4>2. chunkOf[job[w].exec] \in Chunk  BY <4>1 DEF TypeOK
      <4>3. Got(job[w]) \in Child \cup {NoChild, Blank}  BY <4>1, <1>a, JobTypes DEF Got
      <4> QED  BY <3>2, <4>1, <4>2, <4>3, <1>a, JobTypes, IntegratedType DEF Record, Outcome
    <3>3. CASE Restore(w)  BY <3>3, <1>a, JobTypes DEF Restore
    <3> QED  BY <1>13, <3>1, <3>2, <3>3
  <2>2. pc' \in [Worker -> Place] /\ job' \in [Worker -> Job]
    <3>1. CASE Save(w)  BY <3>1, <1>2 DEF Save, Place
    <3>2. CASE Record(w)  BY <3>2, <1>2 DEF Record, AfterRecord, Place
    <3>3. CASE Restore(w)  BY <3>3, <1>2 DEF Restore, Place
    <3> QED  BY <1>13, <3>1, <3>2, <3>3
  <2> QED  BY <1>13, <2>1, <2>2 DEF Save, Record, Restore, TypeOK
<1>14. ASSUME NEW w \in Worker, Suspend(w) \/ WakeParent(w) PROVE TypeOK'
  <2>1. row' \in [Exec -> ClaimColumns]
    <3>1. CASE Suspend(w)  BY <3>1, <1>a, <1>b, RowTypes DEF Suspend, TypeOK
    <3>2. CASE WakeParent(w)  BY <3>2, <1>a, RowTypes DEF WakeParent, TypeOK
    <3> QED  BY <1>14, <3>1, <3>2
  <2>2. pc' \in [Worker -> Place] /\ job' \in [Worker -> Job]
    BY <1>14, <1>2 DEF Suspend, WakeParent
  <2> QED  BY <1>14, <2>1, <2>2 DEF Suspend, WakeParent, TypeOK
<1>15. ASSUME NEW w \in Worker, Finish(w) PROVE TypeOK'
  <2>1. row' \in [Exec -> ClaimColumns]
    BY <1>15, <1>a, <1>b, RowTypes, JobTypes DEF Finish, TypeOK
  <2>2. pc' \in [Worker -> Place] /\ job' \in [Worker -> Job]
    BY <1>15, <1>2 DEF Finish, Place
  <2> QED  BY <1>15, <2>1, <2>2 DEF Finish, TypeOK
<1>16. ASSUME NEW w \in Worker, Merge(w) \/ LeafReturns(w) \/ PlanningFails(w) PROVE TypeOK'
  <2>1. {Merged(job[w].seen), "error"} \subseteq Answer  BY DEF Merged, Answer
  <2>2. job' \in [Worker -> Job]
    <3>1. /\ [job[w] EXCEPT !.returned = TRUE] \in Job
          /\ \A a \in {Merged(job[w].seen), "error"} :
               [job[w] EXCEPT !.answer = a, !.returned = TRUE] \in Job
      BY <2>1, <1>a, JobTypes
    <3>2. \/ job' = [job EXCEPT ![w].returned = TRUE]
          \/ \E a \in {Merged(job[w].seen), "error"} :
               job' = [job EXCEPT ![w].answer = a, ![w].returned = TRUE]
      BY <1>16 DEF Merge, LeafReturns, PlanningFails
    <3> QED  BY <3>1, <3>2 DEF TypeOK
  <2>3. pc' \in [Worker -> Place]
    BY <1>16 DEF Merge, LeafReturns, PlanningFails, Goto, TypeOK, Place
  <2> QED  BY <1>16, <2>2, <2>3 DEF Merge, LeafReturns, PlanningFails, TypeOK
<1>17. ASSUME NEW w \in Worker, MergeAgain(w) \/ HandlerRaises(w) \/ RetryFails(w) PROVE TypeOK'
  BY <1>17, <1>2, <1>3, <1>4 DEF MergeAgain, HandlerRaises, RetryFails, Place, TypeOK
<1>18. ASSUME NEW w \in Worker, StoreResult(w) PROVE TypeOK'
  BY <1>18, <1>2, <1>a, JobTypes DEF StoreResult, Place, TypeOK
<1>19. ASSUME NEW w \in Worker, Fenced(w) \/ Ignored(w) \/ Crash(w) \/ StatementFails(w)
       PROVE  TypeOK'
  <2>1. pc' \in [Worker -> Place] /\ job' \in [Worker -> Job]
    BY <1>19, <1>2 DEF Fenced, Ignored, Crash, StatementFails, AfterRecord, Place
  <2> QED  BY <1>19, <2>1, <1>3 DEF Fenced, Ignored, Crash, StatementFails, TypeOK
<1>20. ASSUME NEW w \in Worker, Report(w) \/ Integrate(w) PROVE TypeOK'
  <2>1. [job[w] EXCEPT !.seen = ckpt] \in Job  BY <1>a, JobTypes DEF TypeOK
  <2>2. job' \in [Worker -> Job]  BY <1>20, <2>1 DEF Report, Integrate, TypeOK
  <2>3. pc' \in [Worker -> Place]  BY <1>20 DEF Report, Integrate, Goto, TypeOK, Place
  <2> QED  BY <1>20, <2>2, <2>3 DEF Report, Integrate, TypeOK
<1>21. ASSUME NEW w \in Worker, Retry(w) PROVE TypeOK'
  <2>1. job[w].exec \in Child
    BY <1>21, <1>a, JobTypes DEF Retry, InPlace, Telling
  <2>2. chunkOf[job[w].exec] \in Chunk /\ Spawn(chunkOf[job[w].exec])
    BY <1>21, <2>1 DEF Retry, TypeOK
  <2>3. {spawned + 1} \in SUBSET Child  BY <2>2, <1>6
  <2>4. [job[w] EXCEPT !.mine = {spawned + 1}] \in Job  BY <2>3, <1>a, JobTypes
  <2>5. job' \in [Worker -> Job]  BY <1>21, <2>4 DEF Retry, TypeOK
  <2>6. pc' \in [Worker -> Place]  BY <1>21 DEF Retry, Goto, TypeOK, Place
  <2> QED  BY <1>21, <2>2, <1>6, <2>5, <2>6 DEF Retry, TypeOK
<1>22. ASSUME NEW w \in Worker, EnqueueFails(w) \/ ChildUnread(w) \/ NoConnection(w) PROVE TypeOK'
  <2>1. "error" \in Answer  BY DEF Answer
  <2>2. /\ [job[w] EXCEPT !.answer = "error", !.returned = TRUE] \in Job
        /\ [job[w] EXCEPT !.returned = FALSE] \in Job /\ [job[w] EXCEPT !.lost = TRUE] \in Job
    BY <2>1, <1>a, JobTypes
  <2>3. job' \in [Worker -> Job]
    BY <1>22, <2>2 DEF EnqueueFails, ChildUnread, NoConnection, TypeOK
  <2>4. pc' \in [Worker -> Place]
    BY <1>22 DEF EnqueueFails, ChildUnread, NoConnection, Goto, TypeOK, Place
  <2> QED
    BY <1>22, <2>3, <2>4, <1>3 DEF EnqueueFails, ChildUnread, NoConnection, TypeOK
<1>23. ASSUME NEW x \in Exec, BackendRequeues(x) PROVE TypeOK'
  <2>1. row' \in [Exec -> ClaimColumns]
    BY <1>23, <1>a, <1>b, RowTypes DEF BackendRequeues, TypeOK
  <2> QED  BY <1>23, <2>1, <1>3 DEF BackendRequeues, TypeOK
<1>24. CASE BackendCompletes
  <2>1. row' \in [Exec -> ClaimColumns]
    BY <1>24, <1>a, <1>b, RowTypes DEF BackendCompletes, TypeOK
  <2> QED  BY <1>24, <2>1 DEF BackendCompletes, TypeOK
<1>25. CASE UNCHANGED vars
  BY <1>25 DEF vars, TypeOK
<1> QED
  BY <1>11, <1>12, <1>13, <1>14, <1>15, <1>16, <1>17, <1>18, <1>19, <1>20, <1>21, <1>22,
     <1>23, <1>24, <1>25 DEF Next, WorkerStep, Environment

-----------------------------------------------------------------------------
(* Any number of workers *)

\* What a step of w, or of the backend, leaves alone: the other jobs, the children
\* that are there and what is known of those that have ended.  A row changes hands
\* by losing its attempt or by a new one.
Steady(w) ==
  /\ \A v \in Worker \ {w} : pc'[v] = pc[v] /\ job'[v] = job[v]
  /\ issued' \in Nat /\ issued <= issued' /\ spawned' \in Nat /\ spawned <= spawned'
  /\ \A c \in 1 .. spawned : chunkOf'[c] = chunkOf[c]
  /\ \A x \in Exec : row'[x].attempt \in {row[x].attempt, NoAttempt} \/ row'[x].attempt > issued
  /\ \A x \in Child : Reported(x) => row'[x] = row[x]

\* What has returned stays so.
LEMMA ReturnedStays ==
  ASSUME IInv, NEW w, Steady(w), NEW c \in Child, NEW i \in Chunk, HasReturned(c, i)
  PROVE  HasReturned(c, i)'
<1>1. c \in Exec  BY DEF Exec
<1>2. chunkOf[c] = i /\ row[c].phase = "backend_finalization"  BY DEF HasReturned
<1>3. row'[c] = row[c]  BY <1>2 DEF Steady, Reported
<1>4. spawned \in Nat /\ c \in Nat \ {0}  BY DEF IInv, TypeOK, Child
<1>5. c \in 1 .. spawned  BY <1>1, <1>2, <1>4 DEF IInv, NotYetSpawned, RowsAgree
<1> QED  BY <1>2, <1>3, <1>5 DEF Steady, HasReturned

\* A checkpoint stays genuine, whoever holds a copy of it.
LEMMA GenuineStays ==
  ASSUME IInv, NEW w, Steady(w), NEW s \in Checkpoint, Genuine(s)
  PROVE  \A i \in Chunk : /\ s.results[i] \in Child => HasReturned(s.results[i], i)'
                          /\ s.results[i] = Blank => \E c \in Child : HasReturned(c, i)'
  BY ReturnedStays DEF Genuine

\* The other workers' part of the invariant.
LEMMA OthersStay ==
  ASSUME IInv, NEW w, Steady(w), NEW v \in Worker \ {w}
  PROVE  JobInv(v)'
<1>1. pc'[v] = pc[v] /\ job'[v] = job[v] /\ JobInv(v) /\ job[v] \in Job
      /\ job[v].exec \in Exec /\ issued \in Nat /\ spawned \in Nat
  BY DEF Steady, IInv, TypeOK, Job
<1>2. OwnAttempt(v)'
  BY <1>1 DEF JobInv, OwnAttempt, Busy, Steady
<1>3. InPlace(v)'
  <2>1. 1 .. spawned \subseteq 1 .. spawned'  BY <1>1 DEF Steady
  <2> QED  BY <1>1, <2>1 DEF JobInv, InPlace, Telling
<1>4. TellsTheEnd(v)'
  <2>1. SUFFICES ASSUME Telling(v) PROVE row'[job[v].exec] = row[job[v].exec]
    BY <1>1 DEF JobInv, TellsTheEnd, Telling, Reported
  <2>2. job[v].exec \in Child  BY <1>1, <2>1 DEF JobInv, InPlace, Exec
  <2> QED  BY <1>1, <2>1, <2>2 DEF JobInv, TellsTheEnd, Steady
<1>5. Genuine(job[v].seen)'
  <2>1. job[v].seen \in Checkpoint /\ Genuine(job[v].seen)  BY <1>1 DEF JobInv, Job
  <2> QED  BY <1>1, <2>1, GenuineStays DEF Genuine
<1> QED  BY <1>2, <1>3, <1>4, <1>5 DEF JobInv

\* To keep the invariant a worker need only look after its own job.
LEMMA WorkerStepKeeps ==
  ASSUME IInv, NEW w \in Worker, Steady(w), TypeOK', RowsAgree', NotYetSpawned',
         Genuine(ckpt)', JobInv(w)',
         Busy(w)' => job'[w].attempt > issued \/ (Busy(w) /\ job'[w].attempt = job[w].attempt),
         Telling(w)' =>
           \A v \in Worker \ {w} : Telling(v) => job[v].exec # job'[w].exec
  PROVE  IInv'
<1>1. \A v \in Worker : JobInv(v)'  BY OthersStay
<1>2. ASSUME NEW v \in Worker \ {w} PROVE Apart(w, v)' /\ Apart(v, w)'
  <2>1. pc'[v] = pc[v] /\ job'[v] = job[v] /\ Apart(w, v) /\ OwnAttempt(v) /\ issued \in Nat
        /\ job'[w].attempt \in Nat
    BY DEF Steady, IInv, JobInv, TypeOK, Job
  <2>2. Busy(w)' /\ Busy(v) => job'[w].attempt # job[v].attempt
    BY <2>1 DEF Apart, OwnAttempt
  <2> QED  BY <2>1, <2>2 DEF Apart, Busy, Telling
<1>3. ASSUME NEW u \in Worker \ {w}, NEW v \in Worker \ {w}, u # v PROVE Apart(u, v)'
  BY <1>3 DEF IInv, Apart, Steady, Busy, Telling
<1> QED  BY <1>1, <1>2, <1>3 DEF IInv

\* A worker that drops its job, or goes on with it, and leaves the tables alone but
\* for a new child.
Quiet(w) ==
  /\ UNCHANGED <<row, issued, ckpt>>
  /\ UNCHANGED children \/ \E i \in Chunk : Spawn(i)
  /\ \A v \in Worker \ {w} : pc'[v] = pc[v] /\ job'[v] = job[v]

GoesOn(w) ==
  /\ Busy(w)
  /\ job'[w].exec = job[w].exec /\ job'[w].attempt = job[w].attempt
  /\ job'[w].seen \in {job[w].seen, ckpt}

LEMMA IdleJobInv ==
  ASSUME NEW w \in Worker, (pc[w] = "idle" /\ job[w] = NoJob)'
  PROVE  JobInv(w)' /\ ~Busy(w)' /\ ~Telling(w)'
<1>1. \A i \in Chunk : NoJob.seen.results[i] = NoChild
  BY DEF NoJob, NoCheckpoint, Planned
<1>2. OwnAttempt(w)' /\ ~Busy(w)'  BY DEF OwnAttempt, Busy
<1>3. InPlace(w)' /\ TellsTheEnd(w)' /\ ~Telling(w)'  BY DEF InPlace, TellsTheEnd, Telling
<1>4. Genuine(job[w].seen)'  BY <1>1 DEF Genuine, Child
<1> QED  BY <1>2, <1>3, <1>4 DEF JobInv

LEMMA QuietIsSteady ==
  ASSUME IInv, NEW w, Quiet(w)
  PROVE  Steady(w) /\ RowsAgree' /\ NotYetSpawned' /\ Genuine(ckpt)'
<1>1. spawned \in Nat /\ issued \in Nat /\ chunkOf \in [Child -> Chunk]
      /\ (UNCHANGED children \/ \E i \in Chunk : Spawn(i))
  BY DEF IInv, TypeOK, Quiet
<1>2. spawned' \in Nat /\ spawned <= spawned' /\ \A c \in 1 .. spawned : chunkOf'[c] = chunkOf[c]
  <2>1. CASE UNCHANGED children  BY <1>1, <2>1 DEF children
  <2>2. ASSUME NEW i \in Chunk, Spawn(i) PROVE <1>2
    <3>1. spawned' = spawned + 1 /\ spawned < MaxChildren
          /\ chunkOf' = [chunkOf EXCEPT ![spawned + 1] = i]
      BY <2>2 DEF Spawn
    <3>2. \A c \in 1 .. spawned : c \in Child /\ c # spawned + 1  BY <3>1, <1>1 DEF Child
    <3> QED  BY <1>1, <3>1, <3>2
  <2> QED  BY <1>1, <2>1, <2>2
<1>3. Steady(w)  BY <1>1, <1>2 DEF Quiet, Steady
<1>4. RowsAgree'  BY DEF Quiet, IInv, RowsAgree
<1>5. NotYetSpawned'
  <2>1. \A x \in Exec : x \in Nat  BY DEF Exec, Child
  <2> QED  BY <1>1, <1>2, <2>1 DEF Quiet, IInv, NotYetSpawned
<1>6. Genuine(ckpt)'
  <2>1. ckpt \in Checkpoint /\ Genuine(ckpt) /\ ckpt' = ckpt  BY DEF IInv, TypeOK, Quiet
  <2> QED  BY <2>1, <1>3, GenuineStays DEF Genuine
<1> QED  BY <1>3, <1>4, <1>5, <1>6

LEMMA DropStep ==
  ASSUME IInv, TypeOK', NEW w \in Worker, Leave(w), UNCHANGED <<row, issued, ckpt, children>>
  PROVE  IInv'
<1>1. Quiet(w) /\ (pc[w] = "idle" /\ job[w] = NoJob)'
  BY DEF Quiet, Leave, Goto, IInv, TypeOK
<1> QED  BY <1>1, IdleJobInv, QuietIsSteady, WorkerStepKeeps

LEMMA QuietStep ==
  ASSUME IInv, TypeOK', NEW w \in Worker, Quiet(w), GoesOn(w), InPlace(w)',
         Telling(w)' => Telling(w) /\ job'[w].returned = job[w].returned
  PROVE  IInv'
<1>1. Steady(w) /\ RowsAgree' /\ NotYetSpawned' /\ Genuine(ckpt)'  BY QuietIsSteady
<1>2. row' = row /\ issued' = issued /\ JobInv(w) /\ Busy(w)
      /\ job'[w].exec = job[w].exec /\ job'[w].attempt = job[w].attempt
  BY DEF Quiet, GoesOn, IInv
<1>3. OwnAttempt(w)'  BY <1>2 DEF JobInv, OwnAttempt, Busy
<1>4. TellsTheEnd(w)'  BY <1>2 DEF JobInv, TellsTheEnd, Reported
<1>5. Genuine(job[w].seen)'
  <2>1. \A s \in {job[w].seen, ckpt} : s \in Checkpoint /\ Genuine(s)
    BY DEF IInv, JobInv, TypeOK, Job
  <2> QED  BY <2>1, <1>1, GenuineStays DEF Genuine, GoesOn
<1>6. JobInv(w)'  BY <1>3, <1>4, <1>5 DEF JobInv
<1>7. Telling(w)' => \A v \in Worker \ {w} : Telling(v) => job[v].exec # job'[w].exec
  BY <1>2 DEF IInv, Apart
<1> QED  BY <1>1, <1>2, <1>6, <1>7, WorkerStepKeeps

\* Steps of a worker between two writes.
LEMMA LocalSteps ==
  ASSUME IInv, TypeOK', NEW w \in Worker,
         \/ Enqueue(w) \/ Merge(w) \/ MergeAgain(w) \/ LeafReturns(w) \/ HandlerRaises(w)
         \/ StoreResult(w) \/ Fenced(w) \/ Report(w) \/ Integrate(w) \/ Ignored(w)
         \/ Retry(w) \/ EnqueueFails(w) \/ RetryFails(w) \/ Crash(w)
         \/ PlanningFails(w) \/ ChildUnread(w) \/ NoConnection(w)
  PROVE  IInv'
<1> USE DEF children
<1>1. /\ InPlace(w) /\ OwnAttempt(w) /\ job[w] \in Job /\ job[w].exec \in Exec
      /\ pc \in [Worker -> Place] /\ job \in [Worker -> Job]
      /\ spawned \in Nat /\ chunkOf \in [Child -> Chunk]
  BY DEF IInv, JobInv, TypeOK, Job
<1>2. CASE Fenced(w) \/ Ignored(w) \/ Crash(w)
  BY <1>2, DropStep DEF Fenced, Ignored, Crash
<1>3. CASE Enqueue(w)
  <2>1. job[w].mine \in SUBSET Child /\ Cardinality(job[w].mine) \in Nat
        /\ Cardinality(job[w].mine) < Chunks /\ job[w].mine \subseteq 1 .. spawned
    BY <1>1, <1>3, JobTypes, ChildrenAreFinite DEF Enqueue, InPlace
  <2>2. Cardinality(job[w].mine) + 1 \in Chunk  BY <2>1 DEF Chunk
  <2>3. Quiet(w) /\ GoesOn(w)
    BY <1>1, <1>3, <2>2 DEF Enqueue, Quiet, GoesOn, Goto, Busy
  <2>4. spawned' = spawned + 1 /\ spawned + 1 \in Child /\ spawned + 1 \notin job[w].mine
    BY <1>1, <1>3, <2>1 DEF Enqueue, Spawn, Child
  <2>5. Cardinality(job[w].mine \cup {spawned + 1}) = Cardinality(job[w].mine) + 1
    BY <2>1, <2>4, ChildrenAreFinite
  <2>6. job'[w].mine = job[w].mine \cup {spawned + 1} /\ job'[w].exec = Root
        /\ pc'[w] \in {"plan", "save"}
        /\ (pc'[w] = "plan" => Cardinality(job[w].mine) + 1 # Chunks)
    BY <1>1, <1>3 DEF Enqueue, Goto, InPlace
  <2>7. InPlace(w)'
    <3>1. job'[w].mine \subseteq 1 .. spawned'  BY <1>1, <2>1, <2>4, <2>6
    <3>2. pc'[w] = "plan" => Cardinality(job'[w].mine) < Chunks  BY <2>1, <2>5, <2>6
    <3> QED  BY <2>6, <3>1, <3>2 DEF InPlace, Telling
  <2> QED  BY <2>3, <2>6, <2>7, QuietStep DEF Telling
<1>4. CASE Merge(w) \/ LeafReturns(w) \/ PlanningFails(w) \/ EnqueueFails(w) \/ NoConnection(w)
  <2>1. Quiet(w) /\ GoesOn(w)
    <3>1. job'[w].exec = job[w].exec /\ job'[w].attempt = job[w].attempt
          /\ job'[w].seen = job[w].seen
      <4>1. \A a : [job EXCEPT ![w].answer = a, ![w].returned = TRUE][w]
                      = [job[w] EXCEPT !.answer = a, !.returned = TRUE]
        BY <1>1
      <4>2. \/ \E a : job'[w] = [job[w] EXCEPT !.answer = a, !.returned = TRUE]
            \/ \E b : job'[w] = [job[w] EXCEPT !.returned = b]
            \/ job'[w] = job[w]
        BY <1>1, <1>4, <4>1
           DEF Merge, LeafReturns, PlanningFails, EnqueueFails, NoConnection
      <4> QED  BY <1>1, <4>2 DEF Job
    <3>2. UNCHANGED <<row, issued, ckpt, children>> /\ pc[w] # "idle"
          /\ \A v \in Worker \ {w} : pc'[v] = pc[v] /\ job'[v] = job[v]
      BY <1>1, <1>4
         DEF Merge, LeafReturns, PlanningFails, Planning, EnqueueFails, NoConnection, Goto
    <3> QED  BY <3>1, <3>2 DEF Quiet, GoesOn, Busy
  <2>2. pc'[w] \in {"result", "finish"}
    BY <1>1, <1>4 DEF Merge, LeafReturns, PlanningFails, EnqueueFails, NoConnection, Goto
  <2> QED  BY <2>1, <2>2, QuietStep DEF InPlace, Telling
<1>5. CASE MergeAgain(w)
  <2>1. Quiet(w) /\ GoesOn(w) /\ pc[w] = "merge" /\ pc'[w] = "plan" /\ job'[w] = job[w]
        /\ spawned' = spawned
    BY <1>1, <1>5 DEF MergeAgain, Quiet, GoesOn, Goto, Busy
  <2>2. Cardinality({}) = 0 /\ 0 < Chunks  BY FS_EmptySet
  <2>3. InPlace(w)'  BY <1>1, <2>1, <2>2 DEF InPlace, Telling
  <2> QED  BY <2>1, <2>3, QuietStep DEF Telling
<1>6. CASE HandlerRaises(w) \/ StoreResult(w)
  <2>1. Quiet(w) /\ GoesOn(w) /\ pc'[w] = "finish"
    BY <1>1, <1>6 DEF HandlerRaises, Planning, StoreResult, Quiet, GoesOn, Goto, Busy
  <2> QED  BY <2>1, QuietStep DEF InPlace, Telling
<1>7. CASE Report(w) \/ Integrate(w) \/ Retry(w) \/ RetryFails(w) \/ ChildUnread(w)
  <2>1. pc[w] \in {"report", "integrate", "retry"}
        /\ pc'[w] \in {"integrate", "restore", "retry", "record"}
        /\ job'[w].returned = job[w].returned
        /\ job'[w].exec = job[w].exec /\ job'[w].attempt = job[w].attempt
        /\ job'[w].seen \in {job[w].seen, ckpt}
    <3>1. \/ job'[w] = job[w]
          \/ job'[w] = [job[w] EXCEPT !.seen = ckpt]
          \/ job'[w] = [job[w] EXCEPT !.mine = {spawned + 1}]
          \/ job'[w] = [job[w] EXCEPT !.lost = TRUE]
      BY <1>1, <1>7 DEF Report, Integrate, Retry, RetryFails, ChildUnread
    <3>2. /\ pc[w] \in {"report", "integrate", "retry"}
          /\ pc'[w] \in {"integrate", "restore", "retry", "record"}
      BY <1>1, <1>7 DEF Report, Integrate, Retry, RetryFails, ChildUnread, Goto
    <3> QED  BY <1>1, <3>1, <3>2 DEF Job
  <2>2. job[w].exec # Root /\ job[w].exec \in Child
    BY <1>1, <2>1 DEF InPlace, Telling, Exec
  <2>3. Quiet(w)
    <3>1. chunkOf[job[w].exec] \in Chunk  BY <1>1, <2>2
    <3> QED
      BY <1>1, <1>7, <3>1 DEF Report, Integrate, Retry, RetryFails, ChildUnread, Quiet, Goto
  <2>4. GoesOn(w)
    BY <2>1 DEF GoesOn, Busy
  <2>5. InPlace(w)'  BY <2>1, <2>2, <2>4 DEF InPlace, GoesOn
  <2> QED  BY <2>1, <2>3, <2>4, <2>5, QuietStep DEF Telling
<1> QED  BY <1>2, <1>3, <1>4, <1>5, <1>6, <1>7

\* A write to the checkpoint column: of a plan, or of a copy that is genuine.
LEMMA CheckpointSteps ==
  ASSUME IInv, TypeOK', NEW w \in Worker, Save(w) \/ Record(w) \/ Restore(w)
  PROVE  IInv'
<1> USE DEF children
<1>1. /\ JobInv(w) /\ job[w] \in Job /\ job[w].seen \in Checkpoint /\ job[w].exec \in Exec
      /\ job[w].mine \in SUBSET Child /\ job[w].returned \in BOOLEAN
      /\ pc \in [Worker -> Place] /\ job \in [Worker -> Job]
      /\ spawned \in Nat /\ issued \in Nat /\ chunkOf \in [Child -> Chunk]
      /\ RowsAgree /\ NotYetSpawned
  BY DEF IInv, TypeOK, Job
<1>2. UNCHANGED <<row, issued, children>>
      /\ \A v \in Worker \ {w} : pc'[v] = pc[v] /\ job'[v] = job[v]
  BY <1>1 DEF Save, Record, Restore, AfterRecord, Leave, Goto
<1>3. Steady(w)  BY <1>1, <1>2 DEF Steady
<1>4. RowsAgree' /\ NotYetSpawned'  BY <1>1, <1>2 DEF RowsAgree, NotYetSpawned
<1>5. Genuine(ckpt)'
  <2>1. CASE Save(w)
    <3>1. ckpt' = Planned(TRUE, job[w].mine)  BY <2>1 DEF Save
    <3> QED  BY <3>1 DEF Planned, Genuine, Child
  <2>2. CASE Restore(w)  BY <1>1, <1>2, <2>2 DEF Restore, JobInv, Genuine, HasReturned
  <2>3. CASE Record(w)
    <3> DEFINE c == job[w].exec  i == chunkOf[job[w].exec]  s == job[w].seen
    <3>1. c \in Child  BY <1>1, <2>3 DEF Record, JobInv, InPlace, Telling, Exec
    <3>2. job[w].returned => row[c].phase = "backend_finalization"
      BY <1>1, <2>3 DEF Record, JobInv, TellsTheEnd, Telling
    <3> DEFINE got == Got(job[w])
    <3>3. ckpt'.results = [s.results EXCEPT ![i] =
                              IF got = NoChild /\ job[w].mine # {} THEN @ ELSE got]
      BY <2>3 DEF Record, Outcome, Integrated
    <3>4. s.results \in [Chunk -> Child \cup {NoChild, Blank}] /\ Genuine(s)
          /\ got \in {c, NoChild, Blank} /\ (got # NoChild => job[w].returned)
      BY <1>1 DEF Checkpoint, JobInv, Got
    <3>5. ASSUME NEW k \in Chunk
          PROVE  /\ ckpt'.results[k] \in Child => HasReturned(ckpt'.results[k], k)
                 /\ ckpt'.results[k] = Blank => \E d \in Child : HasReturned(d, k)
      <4>1. CASE ckpt'.results[k] = s.results[k]
        BY <3>4, <4>1 DEF Genuine
      <4>2. CASE ckpt'.results[k] # s.results[k]
        <5>1. k = i /\ ckpt'.results[k] = got  BY <3>3, <3>4, <4>2
        <5>2. got # NoChild => HasReturned(c, k)  BY <3>2, <3>4, <5>1 DEF HasReturned
        <5> HIDE DEF got, c
        <5>3. NoChild \notin Child /\ Blank \notin Child  BY DEF Child
        <5> QED  BY <3>1, <3>4, <5>1, <5>2, <5>3
      <4> QED  BY <4>1, <4>2
    <3> QED  BY <1>2, <3>5 DEF Genuine, HasReturned
  <2> QED  BY <2>1, <2>2, <2>3
<1>6. CASE Leave(w)
  <2>1. (pc[w] = "idle" /\ job[w] = NoJob)'  BY <1>1, <1>6 DEF Leave, Goto
  <2> QED  BY <1>3, <1>4, <1>5, <2>1, IdleJobInv, WorkerStepKeeps
<1>7. CASE ~Leave(w)
  <2>1. /\ job' = job /\ Busy(w)
        /\ \/ pc[w] = "save" /\ pc'[w] = "suspend"
           \/ pc[w] \in {"record", "restore"} /\ pc'[w] = "wake"
    BY <1>1, <1>7 DEF Save, Record, Restore, AfterRecord, Goto, Busy
  <2>2. JobInv(w)'
    BY <1>1, <1>2, <2>1 DEF JobInv, OwnAttempt, InPlace, TellsTheEnd, Genuine, HasReturned, Busy,
       Telling, Reported
  <2>3. Telling(w)' => \A v \in Worker \ {w} : Telling(v) => job[v].exec # job'[w].exec
    BY <2>1 DEF Telling, IInv, Apart
  <2> QED  BY <1>3, <1>4, <1>5, <2>1, <2>2, <2>3, WorkerStepKeeps DEF Busy
<1> QED  BY <1>6, <1>7

\* A status write on a row of a child that has not ended, or on the parent's.
LEMMA RowIsSteady ==
  ASSUME IInv, TypeOK', NEW w, NEW x \in Exec, NEW r \in ClaimColumns,
         row' = [row EXCEPT ![x] = r], x <= spawned, x \in Child => ~Reported(x),
         r.attempt \in {row[x].attempt, NoAttempt} \/ r.attempt > issued,
         r.attempt <= issued', Claimed(r) <=> r.attempt # NoAttempt,
         r.status = "queued" => r.phase = "none",
         UNCHANGED <<children, ckpt>>, issued <= issued',
         \A v \in Worker \ {w} : pc'[v] = pc[v] /\ job'[v] = job[v]
  PROVE  Steady(w) /\ RowsAgree' /\ NotYetSpawned' /\ Genuine(ckpt)'
<1> USE DEF children
<1>1. /\ spawned \in Nat /\ issued \in Nat /\ issued' \in Nat /\ RowsAgree /\ NotYetSpawned
      /\ row \in [Exec -> ClaimColumns] /\ ckpt \in Checkpoint /\ Genuine(ckpt)
  BY DEF IInv, TypeOK
<1>2. \A y \in Exec : y # x => row'[y] = row[y] /\ row[y].attempt \in Nat
  BY <1>1 DEF ClaimColumns
<1>3. row'[x] = r  BY <1>1
<1>4. Steady(w)  BY <1>1, <1>2, <1>3 DEF Steady, Exec
<1>5. RowsAgree'  BY <1>1, <1>2, <1>3 DEF RowsAgree
<1>6. NotYetSpawned'
  <2>1. \A y \in Exec : y \in Nat  BY DEF Exec, Child
  <2> QED  BY <1>1, <1>2, <1>3, <2>1 DEF NotYetSpawned
<1>7. Genuine(ckpt)'  BY <1>1, <1>4, GenuineStays DEF Genuine
<1> QED  BY <1>4, <1>5, <1>6, <1>7

\* What the statements of execution.py make of attempt and claim.
LEMMA ClaimWrites ==
  ASSUME NEW r \in ClaimColumns, NEW w \in Worker, NEW a \in Nat \ {0}
  PROVE  /\ ClaimRow(r, w, a) \in ClaimColumns /\ ClaimRow(r, w, a).attempt = a
         /\ Claimed(ClaimRow(r, w, a)) /\ ClaimRow(r, w, a).status # "queued"
  BY RowTypes DEF ClaimColumns, ClaimRow, Claimed

LEMMA StatusWrites ==
  ASSUME NEW r \in ClaimColumns, NEW st \in {"queued", "waiting", "failed", "completed"}
  PROVE  /\ SetStatus(r, st, "none") \in ClaimColumns
         /\ SetStatus(r, st, "none").attempt = NoAttempt /\ ~Claimed(SetStatus(r, st, "none"))
         /\ SetStatus(r, st, "none").phase = "none" /\ SetStatus(r, st, "none").status = st
<1>1. st \in Status /\ "none" \in Phase  BY DEF Status, Phase
<1> QED  BY <1>1, RowTypes DEF ClaimColumns, SetStatus, Releases, Claimed, Terminal

LEMMA HandoverWrites ==
  ASSUME NEW r \in ClaimColumns
  PROVE  LET n == SetStatus(r, "running", "backend_finalization") IN
           /\ n \in ClaimColumns /\ n.attempt = NoAttempt /\ ~Claimed(n)
           /\ n.phase = "backend_finalization" /\ n.status = "running"
<1>1. "running" \in Status /\ "backend_finalization" \in Phase  BY DEF Status, Phase
<1> QED  BY <1>1, RowTypes DEF ClaimColumns, SetStatus, Releases, Claimed

LEMMA ClaimStep ==
  ASSUME IInv, TypeOK', NEW w \in Worker, NEW x \in Exec, Claim(w, x)
  PROVE  IInv'
<1> USE DEF children
<1> DEFINE r == ClaimRow(row[x], w, issued + 1)
<1>1. /\ issued \in Nat /\ issued' = issued + 1 /\ row \in [Exec -> ClaimColumns]
      /\ pc \in [Worker -> Place] /\ job \in [Worker -> Job] /\ RowsAgree
      /\ row[x] \in ClaimColumns /\ ckpt \in Checkpoint /\ Genuine(ckpt)
  BY DEF Claim, IInv, TypeOK
<1>2. row' = [row EXCEPT ![x] = r] /\ row[x].status = "queued" /\ x <= spawned
  BY DEF Claim
<1>3. r \in ClaimColumns /\ r.attempt = issued + 1 /\ Claimed(r) /\ r.status # "queued"
  <2>1. issued + 1 \in Nat \ {0}  BY <1>1
  <2> QED  BY <1>1, <2>1, ClaimWrites
<1>4. ~Reported(x)  BY <1>1, <1>2 DEF Reported, RowsAgree
<1>5. UNCHANGED <<children, ckpt>>
      /\ \A v \in Worker \ {w} : pc'[v] = pc[v] /\ job'[v] = job[v]
  BY <1>1 DEF Claim, Goto
<1>6. Steady(w) /\ RowsAgree' /\ NotYetSpawned' /\ Genuine(ckpt)'
  <2>1. r.attempt > issued /\ r.attempt <= issued' /\ issued <= issued'
        /\ r.attempt # NoAttempt /\ UNCHANGED <<children, ckpt>>
    BY <1>1, <1>3, <1>5
  <2> HIDE DEF r
  <2> QED  BY <1>2, <1>3, <1>4, <1>5, <2>1, RowIsSteady
<1>7. /\ job'[w].exec = x /\ job'[w].attempt = issued + 1 /\ job'[w].mine = {}
      /\ job'[w].seen = IF x = Root THEN ckpt ELSE NoCheckpoint
      /\ pc'[w] \in {"leaf", "merge", "plan"} /\ (pc'[w] = "leaf" <=> x # Root)
  <2>1. job'[w] = [NoJob EXCEPT !.exec = x, !.attempt = issued + 1,
                                !.seen = IF x = Root THEN ckpt ELSE @]
    BY <1>1 DEF Claim
  <2>2. pc'[w] \in {"leaf", "merge", "plan"} /\ (pc'[w] = "leaf" <=> x # Root)
    BY <1>1 DEF Claim, Goto
  <2> QED  BY <2>1, <2>2 DEF NoJob
<1>8. OwnAttempt(w)'
  <2>1. \A y \in Exec : y # x => row'[y] = row[y] /\ row[y].attempt \in Nat
                              /\ row[y].attempt <= issued
    BY <1>1, <1>2 DEF RowsAgree, ClaimColumns
  <2> QED  BY <1>1, <1>7, <2>1 DEF OwnAttempt
<1>9. InPlace(w)'
  <2>1. Cardinality({}) = 0 /\ 0 < Chunks  BY FS_EmptySet
  <2> QED  BY <1>7, <2>1 DEF InPlace, Telling
<1>10. ~Telling(w)'  BY <1>7 DEF Telling
<1>11. Genuine(job[w].seen)'
  <2>1. \A i \in Chunk : NoCheckpoint.results[i] = NoChild  BY DEF NoCheckpoint, Planned
  <2>2. CASE x = Root  BY <1>5, <1>6, <1>7, <2>2 DEF Genuine
  <2>3. CASE x # Root  BY <1>7, <2>1, <2>3 DEF Genuine, Child
  <2> QED  BY <2>2, <2>3
<1>12. JobInv(w)'  BY <1>8, <1>9, <1>10, <1>11 DEF JobInv, TellsTheEnd
<1> QED  BY <1>1, <1>6, <1>7, <1>10, <1>12, WorkerStepKeeps

\* Suspending the parent and waking it.
LEMMA ParentRowSteps ==
  ASSUME IInv, TypeOK', NEW w \in Worker, Suspend(w) \/ WakeParent(w)
  PROVE  IInv'
<1> USE DEF children
<1>1. /\ issued \in Nat /\ spawned \in Nat /\ row \in [Exec -> ClaimColumns]
      /\ pc \in [Worker -> Place] /\ job \in [Worker -> Job]
      /\ Root \in Exec /\ Root \notin Child /\ row[Root] \in ClaimColumns
  BY DEF IInv, TypeOK, Exec, Child
<1>2. Leave(w) /\ UNCHANGED <<issued, children, ckpt>>
  BY DEF Suspend, WakeParent
<1>3. PICK st \in {"waiting", "queued"} : row' = [row EXCEPT ![Root] = SetStatus(row[Root], st, "none")]
  BY DEF Suspend, WakeParent, WakeRow
<1>4. Steady(w) /\ RowsAgree' /\ NotYetSpawned' /\ Genuine(ckpt)'
  <2> DEFINE r == SetStatus(row[Root], st, "none")
  <2>1. r \in ClaimColumns /\ r.attempt = NoAttempt /\ ~Claimed(r) /\ r.phase = "none"
    BY <1>1, StatusWrites
  <2>2. \A v \in Worker \ {w} : pc'[v] = pc[v] /\ job'[v] = job[v]
    BY <1>1, <1>2 DEF Leave, Goto
  <2>3. Root <= spawned /\ r.attempt <= issued' /\ issued <= issued'  BY <1>1, <1>2, <2>1
  <2> QED  BY <1>1, <1>2, <1>3, <2>1, <2>2, <2>3, RowIsSteady
<1>5. (pc[w] = "idle" /\ job[w] = NoJob)'  BY <1>1, <1>2 DEF Leave, Goto
<1> QED  BY <1>4, <1>5, IdleJobInv, WorkerStepKeeps

LEMMA FinishStep ==
  ASSUME IInv, TypeOK', NEW w \in Worker, Finish(w)
  PROVE  IInv'
<1> USE DEF children
<1> DEFINE x == job[w].exec
           r == IF job[w].returned THEN SetStatus(row[x], "running", "backend_finalization")
                                   ELSE SetStatus(row[x], "failed", "none")
<1>1. /\ issued \in Nat /\ spawned \in Nat /\ row \in [Exec -> ClaimColumns]
      /\ pc \in [Worker -> Place] /\ job \in [Worker -> Job] /\ JobInv(w)
      /\ job[w] \in Job /\ x \in Exec /\ x \in Nat /\ row[x] \in ClaimColumns
      /\ job[w].returned \in BOOLEAN /\ RowsAgree /\ NotYetSpawned
  <2>1. /\ issued \in Nat /\ spawned \in 0 .. MaxChildren /\ row \in [Exec -> ClaimColumns]
        /\ pc \in [Worker -> Place] /\ job \in [Worker -> Job] /\ JobInv(w)
        /\ RowsAgree /\ NotYetSpawned
    BY DEF IInv, TypeOK
  <2>2. job[w] \in Job /\ x \in Exec /\ job[w].returned \in BOOLEAN
    BY <2>1 DEF Job
  <2>3. Exec \subseteq Nat
    BY DEF Exec, Child
  <2> HIDE DEF x
  <2> QED  BY <2>1, <2>2, <2>3
<1>2. row' = [row EXCEPT ![x] = r] /\ UNCHANGED <<issued, children, ckpt>> /\ pc[w] = "finish"
  BY DEF Finish
<1>3. Claimed(row[x])
  BY <1>1, <1>2 DEF Finish, Holding, Holds, JobInv, OwnAttempt, Busy, RowsAgree
<1>4. x <= spawned /\ ~Reported(x)
  BY <1>1, <1>3 DEF NotYetSpawned, Claimed, Reported
<1>5. /\ r \in ClaimColumns /\ r.attempt = NoAttempt /\ ~Claimed(r) /\ r.status # "queued"
      /\ job[w].returned => r.phase = "backend_finalization"
      /\ ~job[w].returned => r.phase = "none" /\ r.status = "failed"
  BY <1>1, StatusWrites, HandoverWrites
<1>6. Steady(w) /\ RowsAgree' /\ NotYetSpawned' /\ Genuine(ckpt)'
  <2>1. \A v \in Worker \ {w} : pc'[v] = pc[v] /\ job'[v] = job[v]
    BY <1>1 DEF Finish, Leave, Goto
  <2>2. r.attempt <= issued' /\ issued <= issued'  BY <1>1, <1>2, <1>5
  <2> QED  BY <1>1, <1>2, <1>4, <1>5, <2>1, <2>2, RowIsSteady
<1>7. CASE x = Root
  <2>1. (pc[w] = "idle" /\ job[w] = NoJob)'  BY <1>1, <1>7 DEF Finish, Leave, Goto
  <2> QED  BY <1>6, <2>1, IdleJobInv, WorkerStepKeeps
<1>8. CASE x # Root
  <2>1. job' = job /\ pc'[w] = "report" /\ row'[x] = r
    BY <1>1, <1>2, <1>8 DEF Finish, Goto
  <2>2. OwnAttempt(w)'  BY <1>1, <1>2, <1>5, <2>1 DEF JobInv, OwnAttempt, Busy
  <2>3. InPlace(w)'  BY <1>8, <2>1 DEF InPlace, Telling
  <2>4. TellsTheEnd(w)'  BY <1>1, <1>5, <2>1 DEF TellsTheEnd, Reported
  <2>5. Genuine(job[w].seen)'
    <3>1. job[w].seen \in Checkpoint /\ Genuine(job[w].seen)  BY <1>1 DEF JobInv, Job
    <3> QED  BY <1>6, <2>1, <3>1, GenuineStays DEF Genuine
  <2>6. \A v \in Worker \ {w} : Telling(v) => job[v].exec # x
    BY <1>4 DEF IInv, JobInv, TellsTheEnd
  <2> QED
    BY <1>2, <1>6, <2>1, <2>2, <2>3, <2>4, <2>5, <2>6, WorkerStepKeeps DEF JobInv, Busy
<1> QED  BY <1>7, <1>8

\* The backend moves no worker.
LEMMA BackendStep ==
  ASSUME IInv, TypeOK', BackendCompletes \/ \E x \in Exec : BackendRequeues(x)
  PROVE  IInv'
<1> USE DEF children
<1>1. /\ issued \in Nat /\ spawned \in Nat /\ row \in [Exec -> ClaimColumns]
      /\ Root \in Exec /\ Root \notin Child /\ NotYetSpawned
      /\ \A x \in Exec : x \in Nat /\ row[x] \in ClaimColumns
  <2>1. issued \in Nat /\ spawned \in Nat /\ row \in [Exec -> ClaimColumns] /\ NotYetSpawned
    BY DEF IInv, TypeOK
  <2>2. Root \in Exec /\ Root \notin Child /\ Exec \subseteq Nat
    BY DEF Exec, Child
  <2> QED  BY ONLY <2>1, <2>2
<1>2. UNCHANGED <<issued, children, ckpt, pc, job>>
  BY DEF BackendCompletes, BackendRequeues
<1>3. PICK x \in Exec, st \in {"queued", "completed"} :
        /\ row' = [row EXCEPT ![x] = SetStatus(row[x], st, "none")]
        /\ x = Root \/ Claimed(row[x])
  BY <1>1 DEF BackendCompletes, BackendRequeues
<1>4. Steady(NoWorker) /\ RowsAgree' /\ NotYetSpawned' /\ Genuine(ckpt)'
  <2> DEFINE r == SetStatus(row[x], st, "none")
  <2>1. r \in ClaimColumns /\ r.attempt = NoAttempt /\ ~Claimed(r) /\ r.phase = "none"
    BY <1>1, StatusWrites
  <2>2. x <= spawned /\ (x \in Child => ~Reported(x))
    BY <1>1, <1>3 DEF NotYetSpawned, Claimed, Reported
  <2>3. r.attempt <= issued' /\ issued <= issued'  BY <1>1, <1>2, <2>1
  <2> QED  BY <1>1, <1>2, <1>3, <2>1, <2>2, <2>3, RowIsSteady
<1>5. \A v \in Worker : JobInv(v)'  BY <1>4, OthersStay
<1>6. \A v, u \in Worker : v # u => Apart(v, u)'
  BY <1>2 DEF IInv, Apart, Busy, Telling
<1> QED  BY <1>4, <1>5, <1>6 DEF IInv

\* A statement that raises leaves the tables alone.
LEMMA StatementFailsStep ==
  ASSUME IInv, TypeOK', NEW w \in Worker, StatementFails(w)
  PROVE  IInv'
<1>1. CASE Leave(w)
  BY <1>1, DropStep DEF StatementFails
<1>2. CASE ~Leave(w)
  <2>1. /\ pc[w] \in {"record", "restore"} /\ Goto(w, "wake") /\ UNCHANGED job
        /\ UNCHANGED <<row, issued, children, ckpt>>
    BY <1>2 DEF StatementFails, AfterRecord
  <2>2. pc'[w] = "wake" /\ \A v \in Worker \ {w} : pc'[v] = pc[v]
    BY <2>1 DEF Goto, IInv, TypeOK
  <2>3. Quiet(w) /\ GoesOn(w)  BY <2>1, <2>2 DEF Quiet, GoesOn, Busy
  <2>4. InPlace(w)  BY DEF IInv, JobInv
  <2>5. InPlace(w)'  BY <2>1, <2>2, <2>4 DEF InPlace, Telling
  <2> QED  BY <2>1, <2>2, <2>3, <2>5, QuietStep DEF Telling
<1> QED  BY <1>1, <1>2

LEMMA InitIsGood == Init => IInv
<1> SUFFICES ASSUME Init PROVE IInv
  OBVIOUS
<1> USE DEF Init
<1>1. TypeOK
  <2>1. row \in [Exec -> ClaimColumns]  BY DEF ClaimColumns, Status, Phase
  <2>2. chunkOf \in [Child -> Chunk]  BY DEF Chunk
  <2>3. ckpt \in Checkpoint /\ answer \in Answer  BY NoJobType DEF Answer
  <2>4. pc \in [Worker -> Place] /\ job \in [Worker -> Job]  BY NoJobType DEF Place
  <2> QED  BY <2>1, <2>2, <2>3, <2>4 DEF TypeOK
<1>2. RowsAgree /\ NotYetSpawned
  BY DEF RowsAgree, NotYetSpawned, Claimed
<1>3. Genuine(NoCheckpoint)  BY DEF Genuine, Child, NoCheckpoint, Planned
<1>4. \A w \in Worker : JobInv(w) /\ ~Busy(w) /\ ~Telling(w)
  BY <1>3 DEF JobInv, OwnAttempt, InPlace, TellsTheEnd, Busy, Telling, NoJob
<1> QED  BY <1>1, <1>2, <1>3, <1>4 DEF IInv, Apart

LEMMA NextStep == IInv /\ [Next]_vars => IInv'
<1> SUFFICES ASSUME IInv, [Next]_vars PROVE IInv'
  OBVIOUS
<1>1. TypeOK'  BY TypeStep DEF IInv, JobInv
<1>2. CASE UNCHANGED vars
  BY <1>2, <1>1 DEF vars, IInv, RowsAgree, NotYetSpawned, Genuine, HasReturned, JobInv, OwnAttempt, InPlace,
     TellsTheEnd, Apart, Busy, Telling, Reported
<1>3. CASE Next
  BY <1>1, <1>3, ClaimStep, LocalSteps, CheckpointSteps, ParentRowSteps, FinishStep, BackendStep,
     StatementFailsStep DEF Next, WorkerStep, Environment
<1> QED  BY <1>2, <1>3

\* The invariant of every execution: any number of workers, crashes and takeovers.
THEOREM Invariant == Spec => []IInv
<1>1. Init => IInv  BY InitIsGood
<1>2. IInv /\ [Next]_vars => IInv'  BY NextStep
<1> QED  BY <1>1, <1>2, PTL DEF Spec

-----------------------------------------------------------------------------
(* What follows from it *)

\* Rows, checkpoints and what the workers hold keep their types.
THEOREM TypeCorrect == Spec => []TypeOK
<1>1. IInv => TypeOK  BY DEF IInv
<1> QED  BY <1>1, Invariant, PTL

\* Whatever copies of the checkpoint are written back, however late and by however
\* many workers, a chunk's recorded result is that of a child of this chunk that
\* returned, or the `{}` recorded for one that returned and could not be read back:
\* never of a chunk whose children all failed.
THEOREM GenuineResults == Spec => []ResultsAreGenuine
<1>1. IInv => ResultsAreGenuine  BY DEF IInv, Genuine, ResultsAreGenuine
<1> QED  BY <1>1, Invariant, PTL

\* A child whose worker was given up for dead and that is run twice reports once:
\* the write that ends the row is fenced by the attempt, and only who made it tells
\* the parent.
THEOREM ChildTellsOnce == Spec => []ToldOnce
<1>1. ASSUME IInv, NEW w \in Worker, Telling(w)
      PROVE  /\ Reported(job[w].exec)
             /\ \A v \in Worker \ {w} :
                  Telling(v) \/ (pc[v] = "leaf" /\ Holding(v)) => job[v].exec # job[w].exec
  <2>1. Reported(job[w].exec)  BY <1>1 DEF IInv, JobInv, TellsTheEnd
  <2>2. ASSUME NEW v \in Worker \ {w}, Telling(v) PROVE job[v].exec # job[w].exec
    BY <1>1, <2>2 DEF IInv, Apart
  <2>3. ASSUME NEW v \in Worker \ {w}, pc[v] = "leaf", Holding(v)
        PROVE  job[v].exec # job[w].exec
    <3>1. job[v].exec \in Exec /\ OwnAttempt(v) /\ RowsAgree  BY <1>1 DEF IInv, JobInv, TypeOK, Job
    <3>2. Claimed(row[job[v].exec])
      BY <2>3, <3>1 DEF Holding, Holds, OwnAttempt, Busy, RowsAgree
    <3> QED  BY <2>1, <3>2 DEF Reported, Claimed
  <2> QED  BY <2>1, <2>2, <2>3
<1>2. IInv => ToldOnce  BY <1>1 DEF ToldOnce
<1> QED  BY <1>2, Invariant, PTL

-----------------------------------------------------------------------------
(***************************************************************************)
(* Where one worker runs parent and children and nothing goes wrong: the only *)
(* deployment in which the code keeps what a map-reduce promises (the runs     *)
(* FanOutEarlyMerge and FanOutLostReport show what a second worker does to it). *)
(***************************************************************************)
(* The inductive invariant of one worker *)

OwnPlace == {"plan", "save", "suspend", "merge", "leaf", "result", "finish"}
ChildPlace == {"leaf", "result", "finish", "report", "integrate", "retry", "record"}

\* Nobody but the worker has a claim, and its own it never loses.
Undisturbed(w) ==
  /\ \A x \in Exec : Claimed(row[x]) => pc[w] \in OwnPlace /\ x = job[w].exec
  /\ pc[w] \in OwnPlace => row[job[w].exec].attempt = job[w].attempt

\* The parent waits as long as children run.
ParentWaits(w) ==
  /\ row[Root].status \in {"queued", "waiting", "failed"} =>
       answer = "none" /\ row[Root].phase # "backend_finalization"
  /\ ckpt.waiting # {} => row[Root].status = "waiting" \/ pc[w] = "suspend"
  /\ Busy(w) /\ job[w].exec # Root => row[Root].status = "waiting"

\* One child is waited for per chunk, and a chunk without result is awaited or has
\* failed for good.
ChunksAwaited ==
  /\ ckpt.waiting \subseteq 1 .. spawned
  /\ \A c, d \in ckpt.waiting : chunkOf[c] = chunkOf[d] => c = d
  /\ ckpt.waiting # {} \/ ckpt.failed => ckpt.merging
  /\ \A i \in Chunk : ckpt.merging /\ ckpt.results[i] = NoChild => ckpt.failed \/ Awaits(i)
  /\ ckpt.failed => \E i \in Chunk : ckpt.results[i] = NoChild /\ ~Awaits(i)

\* Every child that has not been run is waited for, or is about to be.
ChildrenAwaited(w) ==
  /\ \A c \in 1 .. spawned : row[c].status = "queued" =>
       c \in ckpt.waiting \/ (pc[w] \in {"plan", "save", "record"} /\ c \in job[w].mine)
  /\ pc[w] \in ChildPlace /\ job[w].exec # Root => job[w].exec \in ckpt.waiting

\* What the worker knows is what is so.
UpToDate(w) ==
  /\ pc[w] # "restore"
  /\ pc[w] \in {"retry", "record", "merge"} => job[w].seen = ckpt
  /\ pc[w] \in {"plan", "save", "merge", "wake"} => ckpt.waiting = {}
  /\ pc[w] \in {"plan", "save"} => ~ckpt.failed
  /\ pc[w] \in {"plan", "save", "suspend", "merge"} => answer = "none"
  /\ pc[w] = "merge" => ckpt.merging
  /\ pc[w] \in {"plan", "merge"} => ~job[w].returned
  /\ pc[w] \in {"result", "finish"} /\ job[w].exec = Root => ckpt.waiting = {}
  /\ pc[w] = "result" /\ job[w].exec = Root =>
       /\ job[w].returned /\ answer = "none"
       /\ job[w].answer = "error" \/ (ckpt.merging /\ job[w].answer = Merged(ckpt))
  /\ pc[w] = "finish" /\ job[w].exec = Root => (job[w].returned <=> answer # "none")

\* The children of a plan under way are those of the first chunks, one each.
PlanCovers(w) ==
  pc[w] \in {"plan", "save"} =>
    /\ job[w].mine \subseteq 1 .. spawned
    /\ \A c, d \in job[w].mine : chunkOf[c] = chunkOf[d] => c = d
    /\ \A i \in 1 .. Cardinality(job[w].mine) : \E c \in job[w].mine : chunkOf[c] = i
    /\ \A c \in job[w].mine : chunkOf[c] <= Cardinality(job[w].mine)
    /\ pc[w] = "save" => Cardinality(job[w].mine) = Chunks

Retried(w) == chunkOf[job[w].exec]

\* A retry is a new child of the same chunk, enqueued while the chunk may be retried.
RetryFits(w) ==
  /\ pc[w] \in ChildPlace \ {"record"} /\ job[w].exec # Root => job[w].mine = {}
  /\ pc[w] = "retry" => ~job[w].returned /\ ckpt.retries[Retried(w)] < MaxRetries
  /\ pc[w] = "record" /\ job[w].mine # {} =>
       /\ ~job[w].returned /\ ckpt.retries[Retried(w)] < MaxRetries
       /\ \E d \in 1 .. spawned : /\ job[w].mine = {d} /\ d \notin ckpt.waiting
                                  /\ chunkOf[d] = Retried(w)

OfChunk(i) == {c \in 1 .. spawned : chunkOf[c] = i}
Budget     == rounds * (1 + MaxRetries)

\* The retry that is enqueued but not yet counted.
Uncounted(w, i) == IF pc[w] = "record" /\ Retried(w) = i THEN Cardinality(job[w].mine) ELSE 0

\* Of the budget of its plans a chunk has left a child for this plan, if it is not
\* planned yet, and the retries not yet spent.
Counted(w, i) ==
  /\ ckpt.retries[i] <= MaxRetries
  /\ IF pc[w] \in {"plan", "save"}
       THEN Cardinality(OfChunk(i)) + MaxRetries + 1
              <= Budget + (IF i <= Cardinality(job[w].mine) THEN 1 ELSE 0)
     ELSE IF ckpt.merging
       THEN Cardinality(OfChunk(i)) + MaxRetries
              <= Budget + ckpt.retries[i] + Uncounted(w, i)
       ELSE Cardinality(OfChunk(i)) <= Budget

\* Every result could be read back.
NoneLost(w) == ~job[w].lost /\ \A i \in Chunk : ckpt.results[i] # Blank

SoleInv(w) ==
  /\ IInv /\ NoneLost(w)
  /\ Undisturbed(w) /\ ParentWaits(w)
  /\ ChunksAwaited /\ ChildrenAwaited(w)
  /\ UpToDate(w) /\ PlanCovers(w) /\ RetryFits(w)
  /\ \A i \in Chunk : Counted(w, i)
-----------------------------------------------------------------------------
(* The steps of a child between two writes *)

LEMMA Known ==
  ASSUME NEW w \in Worker, SoleInv(w)
  PROVE  /\ pc \in [Worker -> Place] /\ job \in [Worker -> Job] /\ job[w] \in Job
         /\ job[w].exec \in Exec /\ job[w].mine \in SUBSET Child /\ job[w].returned \in BOOLEAN
         /\ job[w].attempt \in Nat /\ job[w].seen \in Checkpoint
         /\ row \in [Exec -> ClaimColumns] /\ chunkOf \in [Child -> Chunk]
         /\ spawned \in Nat /\ spawned <= MaxChildren /\ issued \in Nat /\ rounds \in Nat
         /\ ckpt \in Checkpoint /\ ckpt.merging \in BOOLEAN /\ ckpt.failed \in BOOLEAN
         /\ ckpt.waiting \in SUBSET Child /\ ckpt.retries \in [Chunk -> Nat]
         /\ ckpt.results \in [Chunk -> Child \cup {NoChild, Blank}]
         /\ Root \in Exec /\ Exec = {Root} \cup Child /\ Root \notin Child
         /\ RowsAgree /\ NotYetSpawned /\ OwnAttempt(w) /\ InPlace(w) /\ TellsTheEnd(w)
         /\ answer \in Answer
<1>1. IInv  BY DEF SoleInv
<1>2. TypeOK /\ JobInv(w) /\ RowsAgree /\ NotYetSpawned  BY <1>1 DEF IInv
<1>3. job[w] \in Job /\ ckpt \in Checkpoint  BY <1>2 DEF TypeOK
<1>4. Root \in Exec /\ Exec = {Root} \cup Child /\ Root \notin Child  BY DEF Exec, Child
<1>5. /\ job[w].exec \in Exec /\ job[w].mine \in SUBSET Child /\ job[w].returned \in BOOLEAN
      /\ job[w].attempt \in Nat /\ job[w].seen \in Checkpoint
  BY <1>3, JobTypes
<1>6. /\ ckpt.merging \in BOOLEAN /\ ckpt.failed \in BOOLEAN
      /\ ckpt.waiting \in SUBSET Child /\ ckpt.retries \in [Chunk -> Nat]
      /\ ckpt.results \in [Chunk -> Child \cup {NoChild, Blank}]
  BY <1>3 DEF Checkpoint
<1> QED  BY <1>2, <1>3, <1>4, <1>5, <1>6 DEF TypeOK, JobInv

\* A child's job goes on: places and tables that matter to the others stay.
LEMMA ChildMoves ==
  ASSUME NEW w \in Worker, SoleInv(w), IInv', NoneLost(w)',
         UNCHANGED <<row, issued, children, ckpt, answer, rounds>>,
         pc[w] \in ChildPlace \ {"retry", "record"}, job[w].exec # Root,
         pc'[w] \in ChildPlace, pc'[w] \in OwnPlace => pc[w] \in OwnPlace,
         pc[w] \in OwnPlace => pc'[w] \in OwnPlace,
         job'[w].exec = job[w].exec, job'[w].attempt = job[w].attempt,
         job'[w].mine = job[w].mine,
         pc'[w] \in {"retry", "record"} => job'[w].seen = ckpt,
         pc'[w] = "retry" => ~job'[w].returned /\ ckpt.retries[Retried(w)] < MaxRetries
  PROVE  SoleInv(w)'
<1> USE DEF children
<1>1. job[w].mine = {} /\ job[w].exec \in ckpt.waiting
  BY DEF SoleInv, RetryFits, ChildrenAwaited, ChildPlace
<1>2. Undisturbed(w)'  BY DEF SoleInv, Undisturbed
<1>3. ParentWaits(w)'  BY DEF SoleInv, ParentWaits, Busy, ChildPlace
<1>4. ChunksAwaited'  BY DEF SoleInv, ChunksAwaited, Awaits
<1>5. ChildrenAwaited(w)'  BY <1>1 DEF SoleInv, ChildrenAwaited, ChildPlace
<1>6. UpToDate(w)'  BY DEF SoleInv, UpToDate, ChildPlace
<1>7. PlanCovers(w)'  BY DEF PlanCovers, ChildPlace
<1>8. RetryFits(w)'  BY <1>1 DEF RetryFits, Retried
<1>9. ASSUME NEW i \in Chunk PROVE Counted(w, i)'
  <2>1. Counted(w, i)  BY DEF SoleInv
  <2>2. Uncounted(w, i) = 0 /\ Uncounted(w, i)' = 0  BY <1>1, FS_EmptySet DEF Uncounted, ChildPlace
  <2>3. OfChunk(i)' = OfChunk(i) /\ Budget' = Budget  BY DEF OfChunk, Budget
  <2> QED  BY <2>1, <2>2, <2>3 DEF Counted, ChildPlace
<1> QED  BY <1>2, <1>3, <1>4, <1>5, <1>6, <1>7, <1>8, <1>9 DEF SoleInv
ChildMove(w) ==
  \/ LeafReturns(w) \/ Report(w) \/ Integrate(w)
  \/ HandlerRaises(w) /\ pc[w] = "leaf"
  \/ StoreResult(w) /\ job[w].exec # Root

LEMMA ChildMoveSteps ==
  ASSUME NEW w \in Worker, SoleInv(w), IInv', NoneLost(w)', ChildMove(w)
  PROVE  SoleInv(w)'
<1> USE DEF ChildMove
<1> USE DEF children, bounds
<1>1. /\ pc \in [Worker -> Place] /\ job \in [Worker -> Job] /\ job[w] \in Job /\ InPlace(w)
      /\ ckpt \in Checkpoint
  BY Known
<1>2. /\ UNCHANGED <<row, issued, children, ckpt, answer, rounds>>
      /\ pc[w] \in {"leaf", "report", "integrate", "result"} /\ job[w].exec # Root
  BY <1>1 DEF LeafReturns, HandlerRaises, Report, Integrate, StoreResult, InPlace, Telling
<1>3. job[w].exec \in ckpt.waiting
  BY <1>2 DEF SoleInv, ChildrenAwaited, ChildPlace
<1>4. \/ job'[w] = job[w]
      \/ job'[w] = [job[w] EXCEPT !.returned = TRUE]
      \/ job'[w] = [job[w] EXCEPT !.seen = ckpt]
  BY <1>1 DEF LeafReturns, HandlerRaises, Report, Integrate, StoreResult
<1>5. /\ job'[w].exec = job[w].exec /\ job'[w].attempt = job[w].attempt
      /\ job'[w].mine = job[w].mine
  BY <1>1, <1>4 DEF Job
<1>6. \/ pc[w] = "leaf" /\ pc'[w] \in {"result", "finish"}
      \/ pc[w] = "result" /\ pc'[w] = "finish"
      \/ pc[w] = "report" /\ pc'[w] = "integrate"
      \/ /\ pc[w] = "integrate" /\ job'[w] = [job[w] EXCEPT !.seen = ckpt]
         /\ \/ pc'[w] = "retry" /\ ~job[w].returned /\ MayRetry(ckpt, Retried(w))
            \/ pc'[w] = "record"
  BY <1>1, <1>3 DEF LeafReturns, HandlerRaises, Report, Integrate, StoreResult, Goto, Retried
<1>7. pc'[w] \in {"retry", "record"} => job'[w].seen = ckpt
  BY <1>1, <1>6 DEF Job
<1>8. pc'[w] = "retry" => ~job'[w].returned /\ ckpt.retries[Retried(w)] < MaxRetries
  BY <1>1, <1>6 DEF Job, MayRetry
<1>9. /\ pc[w] \in ChildPlace \ {"retry", "record"} /\ pc'[w] \in ChildPlace
      /\ pc'[w] \in OwnPlace <=> pc[w] \in OwnPlace
  BY <1>6 DEF ChildPlace, OwnPlace
<1> QED  BY <1>2, <1>5, <1>7, <1>8, <1>9, ChildMoves

\* Enqueueing a child: what is known of the others stays.
LEMMA OfChunkGrows ==
  ASSUME NEW w \in Worker, SoleInv(w), NEW k \in Chunk, Spawn(k), NEW i \in Chunk
  PROVE  /\ Cardinality(OfChunk(i)) \in Nat
         /\ Cardinality(OfChunk(i)') = Cardinality(OfChunk(i)) + (IF i = k THEN 1 ELSE 0)
<1>1. spawned \in Nat /\ spawned <= MaxChildren /\ chunkOf \in [Child -> Chunk]  BY Known
<1>2. spawned' = spawned + 1 /\ spawned + 1 \in Child /\ chunkOf' = [chunkOf EXCEPT ![spawned + 1] = k]
  BY <1>1 DEF Spawn, Child
<1>3. OfChunk(i) \in SUBSET Child /\ spawned + 1 \notin OfChunk(i)
  BY <1>1 DEF OfChunk, Child
<1>4. OfChunk(i)' = IF i = k THEN OfChunk(i) \cup {spawned + 1} ELSE OfChunk(i)
  <2>1. \A c \in 1 .. spawned : c \in Child /\ chunkOf'[c] = chunkOf[c]  BY <1>1, <1>2 DEF Child
  <2>2. 1 .. spawned' = (1 .. spawned) \cup {spawned + 1} /\ chunkOf'[spawned + 1] = k
    BY <1>1, <1>2
  <2> QED  BY <2>1, <2>2 DEF OfChunk
<1> QED  BY <1>2, <1>3, <1>4, ChildrenAreFinite

LEMMA RetryStep ==
  ASSUME NEW w \in Worker, SoleInv(w), IInv', NoneLost(w)', Retry(w)
  PROVE  SoleInv(w)'
<1> DEFINE x == job[w].exec  d == spawned + 1
<1>1. /\ pc \in [Worker -> Place] /\ job \in [Worker -> Job] /\ job[w] \in Job /\ InPlace(w)
      /\ ckpt \in Checkpoint /\ spawned \in Nat /\ chunkOf \in [Child -> Chunk]
      /\ job[w].exec \in Exec /\ Exec = {Root} \cup Child /\ ckpt.waiting \in SUBSET Child
      /\ spawned <= MaxChildren
  BY Known
<1>2. /\ pc[w] = "retry" /\ pc'[w] = "record" /\ x \in Child /\ chunkOf[x] \in Chunk
      /\ Spawn(chunkOf[x]) /\ UNCHANGED <<row, issued, ckpt, answer, rounds>>
      /\ job' = [job EXCEPT ![w].mine = {d}]
  BY <1>1 DEF Retry, Goto, InPlace, Telling, bounds
<1>3. /\ job'[w].exec = x /\ job'[w].attempt = job[w].attempt /\ job'[w].mine = {d}
      /\ job'[w].seen = job[w].seen /\ job'[w].returned = job[w].returned
  BY <1>1, <1>2 DEF Job
<1>4. /\ spawned' = d /\ d \in Child /\ chunkOf' = [chunkOf EXCEPT ![d] = chunkOf[x]]
      /\ x \in ckpt.waiting /\ ckpt.waiting \subseteq 1 .. spawned
      /\ \A c \in 1 .. spawned : c \in Child /\ c # d
  BY <1>1, <1>2 DEF Spawn, SoleInv, ChildrenAwaited, ChunksAwaited, ChildPlace, Child
<1>5. /\ \A c \in 1 .. spawned : chunkOf'[c] = chunkOf[c]
      /\ chunkOf'[d] = chunkOf[x] /\ Retried(w)' = Retried(w) /\ d \notin ckpt.waiting
  BY <1>1, <1>3, <1>4 DEF Retried
<1>6. \A i : Awaits(i)' <=> Awaits(i)  BY <1>2, <1>4, <1>5 DEF Awaits
<1>11. Undisturbed(w)'  BY <1>2, <1>3 DEF SoleInv, Undisturbed, OwnPlace
<1>12. ParentWaits(w)'  BY <1>2, <1>3 DEF SoleInv, ParentWaits, Busy
<1>13. ChunksAwaited'
  <2>1. ckpt' = ckpt /\ ckpt.waiting \subseteq 1 .. spawned'  BY <1>1, <1>2, <1>4
  <2>2. \A c, e \in ckpt.waiting : chunkOf'[c] = chunkOf'[e] => c = e
    BY <1>4, <1>5 DEF SoleInv, ChunksAwaited
  <2> QED  BY <2>1, <2>2, <1>6 DEF SoleInv, ChunksAwaited
<1>14. ChildrenAwaited(w)'
  <2>1. \A c \in 1 .. spawned' : c \in 1 .. spawned \/ c = d  BY <1>1, <1>4
  <2> QED  BY <1>2, <1>3, <1>4, <2>1 DEF SoleInv, ChildrenAwaited
<1>15. UpToDate(w)'  BY <1>2, <1>3 DEF SoleInv, UpToDate
<1>16. PlanCovers(w)'  BY <1>2 DEF PlanCovers
<1>17. RetryFits(w)'
  <2>1. ~job[w].returned /\ ckpt.retries[Retried(w)] < MaxRetries
    BY <1>2 DEF SoleInv, RetryFits
  <2>2. d \in 1 .. spawned' /\ chunkOf'[d] = Retried(w)'  BY <1>1, <1>4, <1>5 DEF Retried
  <2> QED  BY <1>2, <1>3, <1>5, <2>1, <2>2 DEF RetryFits
<1>18. ASSUME NEW i \in Chunk PROVE Counted(w, i)'
  <2>1. Counted(w, i) /\ Uncounted(w, i) = 0 /\ Budget' = Budget /\ ckpt.merging
    BY <1>2, <1>4 DEF SoleInv, Uncounted, Budget, ChunksAwaited
  <2>2. Uncounted(w, i)' = IF i = chunkOf[x] THEN 1 ELSE 0
    <3>1. Cardinality({d}) = 1  BY FS_Singleton
    <3>2. Retried(w)' = chunkOf[x]  BY <1>5 DEF Retried
    <3>3. pc'[w] = "record" /\ job'[w].mine = {d}  BY <1>2, <1>3
    <3> HIDE DEF d, x
    <3> QED  BY <3>1, <3>2, <3>3 DEF Uncounted
  <2>3. /\ Cardinality(OfChunk(i)) \in Nat
        /\ Cardinality(OfChunk(i)') = Cardinality(OfChunk(i)) + (IF i = chunkOf[x] THEN 1 ELSE 0)
    BY <1>2, OfChunkGrows
  <2>4. ckpt.retries[i] \in Nat /\ Budget \in Nat  BY Known DEF Budget
  <2> QED  BY <1>2, <2>1, <2>2, <2>3, <2>4 DEF Counted
<1> QED  BY <1>11, <1>12, <1>13, <1>14, <1>15, <1>16, <1>17, <1>18 DEF SoleInv
\* A child comes home: the checkpoint written back is the current one, updated.
LEMMA RecordStep ==
  ASSUME NEW w \in Worker, SoleInv(w), IInv', NoneLost(w)', Record(w)
  PROVE  SoleInv(w)'
<1> DEFINE x == job[w].exec  k == chunkOf[job[w].exec]  kids == job[w].mine
<1> USE DEF children, bounds
<1>1. /\ pc \in [Worker -> Place] /\ job \in [Worker -> Job] /\ job[w] \in Job /\ InPlace(w)
      /\ ckpt \in Checkpoint /\ spawned \in Nat /\ chunkOf \in [Child -> Chunk]
      /\ job[w].exec \in Exec /\ Exec = {Root} \cup Child /\ ckpt.waiting \in SUBSET Child
      /\ kids \in SUBSET Child /\ job[w].returned \in BOOLEAN /\ RowsAgree
      /\ ckpt.retries \in [Chunk -> Nat] /\ ckpt.results \in [Chunk -> Child \cup {NoChild, Blank}]
      /\ TellsTheEnd(w) /\ ckpt.merging \in BOOLEAN /\ ckpt.failed \in BOOLEAN
  BY Known
<1>2. /\ pc[w] = "record" /\ x \in Child /\ x # Root /\ k \in Chunk /\ x \in ckpt.waiting
      /\ UNCHANGED <<row, issued, children, answer, rounds>> /\ job[w].seen = ckpt
      /\ Reported(x) /\ ckpt.merging
  BY <1>1 DEF Record, InPlace, Telling, SoleInv, ChildrenAwaited, ChildPlace, UpToDate,
     TellsTheEnd, ChunksAwaited
<1>3. /\ ckpt'.merging = ckpt.merging
      /\ ckpt'.waiting = (ckpt.waiting \ {x}) \cup kids
      /\ ckpt'.results = [ckpt.results EXCEPT ![k] = IF ~job[w].returned /\ kids # {} THEN @
                                        ELSE IF job[w].returned THEN x ELSE NoChild]
      /\ ckpt'.retries = [ckpt.retries EXCEPT ![k] = @ + Cardinality(kids)]
      /\ ckpt'.failed = (ckpt.failed \/ (~job[w].returned /\ kids = {}))
  <2>1. Got(job[w]) = IF job[w].returned THEN x ELSE NoChild  BY DEF SoleInv, NoneLost, Got
  <2>2. Got(job[w]) = NoChild <=> ~job[w].returned  BY <1>1, <1>2, <2>1
  <2> QED  BY <1>2, <2>1, <2>2 DEF Record, Outcome, Integrated
<1>4. \/ pc'[w] = "wake" /\ ckpt'.waiting = {} /\ job' = job
      \/ pc'[w] = "idle" /\ job'[w] = NoJob
  BY <1>1, <1>2 DEF Record, AfterRecord, Leave, Goto
<1>5. /\ kids # {} => ~job[w].returned /\ ckpt.retries[k] < MaxRetries
      /\ kids = {} \/ \E d \in 1 .. spawned : kids = {d} /\ d \notin ckpt.waiting /\ chunkOf[d] = k
  BY <1>2 DEF SoleInv, RetryFits, Retried
<1>6. /\ ckpt.waiting \subseteq 1 .. spawned
      /\ \A c, d \in ckpt.waiting : chunkOf[c] = chunkOf[d] => c = d
      /\ \A i \in Chunk : ckpt.results[i] = NoChild => ckpt.failed \/ Awaits(i)
      /\ ckpt.failed => \E i \in Chunk : ckpt.results[i] = NoChild /\ ~Awaits(i)
  BY <1>2 DEF SoleInv, ChunksAwaited
\* Of the other chunks nothing changes; this one is awaited exactly if it is retried.
<1>7. ASSUME NEW i \in Chunk PROVE Awaits(i)' <=> IF i = k THEN kids # {} ELSE Awaits(i)
  <2>1. chunkOf' = chunkOf  BY <1>2
  <2>2. \A c \in kids : chunkOf[c] = k  BY <1>5
  <2> QED  BY <1>2, <1>3, <1>6, <2>1, <2>2 DEF Awaits
<1>11. Undisturbed(w)'
  BY <1>2, <1>4 DEF SoleInv, Undisturbed, OwnPlace
<1>12. ParentWaits(w)'
  <2>1. row[Root].status = "waiting"  BY <1>2 DEF SoleInv, ParentWaits, Busy
  <2> QED  BY <1>2, <2>1 DEF SoleInv, ParentWaits
<1>13. ChunksAwaited'
  <2>1. ckpt'.waiting \subseteq 1 .. spawned  BY <1>3, <1>5, <1>6
  <2>2. \A c, d \in ckpt'.waiting : chunkOf[c] = chunkOf[d] => c = d
    BY <1>2, <1>3, <1>5, <1>6
  <2>3. ASSUME NEW i \in Chunk, ckpt'.results[i] = NoChild PROVE ckpt'.failed \/ Awaits(i)'
    <3>1. CASE i = k
      <4>1. CASE kids # {}  BY <1>7, <3>1, <4>1
      <4>2. CASE kids = {} /\ ~job[w].returned  BY <1>3, <4>2
      <4>3. job[w].returned => ckpt'.results[i] = x  BY <1>1, <1>2, <1>3, <3>1
      <4> QED  BY <1>2, <2>3, <4>1, <4>2, <4>3
    <3>2. CASE i # k  BY <1>1, <1>3, <1>6, <1>7, <2>3, <3>2
    <3> QED  BY <3>1, <3>2
  <2>4. ASSUME ckpt'.failed PROVE \E i \in Chunk : ckpt'.results[i] = NoChild /\ ~Awaits(i)'
    <3>1. CASE ~job[w].returned /\ kids = {}
      <4>1. ckpt'.results[k] = NoChild  BY <1>1, <1>2, <1>3, <3>1
      <4> QED  BY <1>2, <1>7, <3>1, <4>1
    <3>2. CASE ckpt.failed
      <4>1. PICK i \in Chunk : ckpt.results[i] = NoChild /\ ~Awaits(i)  BY <1>6, <3>2
      <4>2. i # k  BY <1>2, <4>1 DEF Awaits
      <4>3. ckpt'.results[i] = NoChild  BY <1>1, <1>3, <4>1, <4>2
      <4> QED  BY <1>7, <4>1, <4>2, <4>3
    <3> QED  BY <1>3, <2>4, <3>1, <3>2
  <2> QED  BY <1>2, <1>3, <2>1, <2>2, <2>3, <2>4 DEF ChunksAwaited
<1>14. ChildrenAwaited(w)'
  <2>1. row[x].status # "queued"  BY <1>1, <1>2 DEF Reported, RowsAgree
  <2>2. \A c \in 1 .. spawned : row[c].status = "queued" => c \in ckpt.waiting \/ c \in kids
    BY <1>2 DEF SoleInv, ChildrenAwaited
  <2>3. \A c \in 1 .. spawned' : row'[c].status = "queued" => c \in ckpt'.waiting
    BY <1>2, <1>3, <2>1, <2>2
  <2>4. pc'[w] \notin ChildPlace  BY <1>4 DEF ChildPlace
  <2> QED  BY <2>3, <2>4 DEF ChildrenAwaited
<1>15. UpToDate(w)'  BY <1>4 DEF UpToDate
<1>16. PlanCovers(w)'  BY <1>4 DEF PlanCovers
<1>17. RetryFits(w)'  BY <1>4 DEF RetryFits, ChildPlace
<1>18. ASSUME NEW i \in Chunk PROVE Counted(w, i)'
  <2>1. Counted(w, i) /\ Budget' = Budget /\ OfChunk(i)' = OfChunk(i)
    BY <1>2 DEF SoleInv, Budget, OfChunk
  <2>2. Uncounted(w, i) = (IF i = k THEN Cardinality(kids) ELSE 0) /\ Uncounted(w, i)' = 0
    BY <1>2, <1>4 DEF Uncounted, Retried
  <2>3. Cardinality(kids) \in Nat /\ Cardinality(kids) <= 1 /\ (kids = {} => Cardinality(kids) = 0)
    <3>1. Cardinality({}) = 0 /\ \A d : Cardinality({d}) = 1  BY FS_Singleton, FS_EmptySet
    <3>2. kids = {} \/ \E d : kids = {d}  BY <1>5
    <3>3. CASE kids = {}  BY <3>1, <3>3
    <3>4. CASE kids # {}
      <4>1. PICK d : kids = {d}  BY <3>2, <3>4
      <4>2. Cardinality(kids) = 1  BY <3>1, <4>1
      <4> QED  BY <3>4, <4>2
    <3> QED  BY <3>3, <3>4
  <2>4. ckpt'.retries[i] = ckpt.retries[i] + (IF i = k THEN Cardinality(kids) ELSE 0)
    BY <1>1, <1>3, <2>3
  <2>5. OfChunk(i) \in SUBSET Child  BY Known DEF OfChunk, Child
  <2>6. Cardinality(OfChunk(i)) \in Nat /\ Budget \in Nat /\ ckpt.retries[i] \in Nat
    BY <2>5, ChildrenAreFinite, Known DEF Budget
  <2>7. ckpt'.retries[i] <= MaxRetries
    <3>1. ckpt.retries[i] <= MaxRetries  BY <2>1 DEF Counted
    <3>2. CASE kids = {} \/ i # k  BY <2>3, <2>4, <2>6, <3>1, <3>2
    <3>3. CASE kids # {} /\ i = k  BY <1>5, <2>3, <2>4, <2>6, <3>3
    <3> QED  BY <3>2, <3>3
  <2>8. Cardinality(OfChunk(i)) + MaxRetries <= Budget + ckpt'.retries[i]
    <3>1. Cardinality(OfChunk(i)) + MaxRetries <= Budget + ckpt.retries[i] + Uncounted(w, i)
      BY <1>2, <2>1 DEF Counted
    <3> QED  BY <2>2, <2>3, <2>4, <2>6, <3>1
  <2>9. Cardinality(OfChunk(i)') + MaxRetries <= Budget' + ckpt'.retries[i] + Uncounted(w, i)'
    <3>1. ckpt'.retries[i] \in Nat  BY <2>3, <2>4, <2>6
    <3> QED  BY <2>1, <2>2, <2>6, <2>8, <3>1
  <2> QED  BY <1>2, <1>3, <1>4, <2>7, <2>9 DEF Counted
<1> QED  BY <1>11, <1>12, <1>13, <1>14, <1>15, <1>16, <1>17, <1>18 DEF SoleInv
-----------------------------------------------------------------------------
(* Claims and plans *)

LEMMA BudgetGrows ==
  ASSUME NEW w \in Worker, SoleInv(w)
  PROVE  /\ Budget \in Nat /\ (rounds' = rounds => Budget' = Budget)
         /\ rounds' = rounds + 1 => Budget' = Budget + 1 + MaxRetries
<1>1. rounds \in Nat /\ MaxRetries \in Nat  BY Known
<1> QED  BY <1>1 DEF Budget

\* No chunk has had more children than its plans and retries allow.
LEMMA WithinBudget ==
  ASSUME NEW w \in Worker, SoleInv(w), NEW i \in Chunk
  PROVE  Cardinality(OfChunk(i)) \in Nat /\ Cardinality(OfChunk(i)) <= Budget
<1>1. Counted(w, i) /\ RetryFits(w) /\ MaxRetries \in Nat /\ i \in Nat  BY DEF SoleInv, Chunk
<1>2. OfChunk(i) \in SUBSET Child  BY Known DEF OfChunk, Child
<1>3. Cardinality(OfChunk(i)) \in Nat /\ Budget \in Nat /\ ckpt.retries[i] \in Nat
      /\ Cardinality(job[w].mine) \in Nat
  BY <1>2, ChildrenAreFinite, BudgetGrows, Known
<1>4. CASE pc[w] \in {"plan", "save"}  BY <1>1, <1>3, <1>4 DEF Counted
<1>5. CASE pc[w] \notin {"plan", "save"} /\ ckpt.merging
  <2>1. Cardinality(OfChunk(i)) + MaxRetries <= Budget + ckpt.retries[i] + Uncounted(w, i)
        /\ ckpt.retries[i] <= MaxRetries
    BY <1>1, <1>5 DEF Counted
  <2>2. CASE Uncounted(w, i) = 0  BY <1>1, <1>3, <2>1, <2>2
  <2>3. CASE Uncounted(w, i) # 0
    <3>1. pc[w] = "record" /\ Retried(w) = i /\ Uncounted(w, i) = Cardinality(job[w].mine)
      BY <2>3 DEF Uncounted
    <3>2. job[w].mine # {}  BY <2>3, <3>1, FS_EmptySet
    <3>3. ckpt.retries[i] < MaxRetries /\ \E d : job[w].mine = {d}
      BY <1>1, <3>1, <3>2 DEF RetryFits
    <3>4. Cardinality(job[w].mine) = 1  BY <3>3, FS_Singleton
    <3> QED  BY <1>1, <1>3, <2>1, <3>1, <3>3, <3>4
  <2> QED  BY <2>2, <2>3
<1>6. CASE pc[w] \notin {"plan", "save"} /\ ~ckpt.merging
  <2>1. Counted(w, i)  BY <1>1
  <2> QED  BY <1>3, <1>6, <2>1, Zenon DEF Counted
<1> QED  BY <1>3, <1>4, <1>5, <1>6

\* A plan begins with no children of its own: what is left of the budget of the plans
\* before it is enough.
LEMMA PlanIsCounted ==
  ASSUME NEW w \in Worker, SoleInv(w), Plan, UNCHANGED <<children, ckpt>>,
         pc'[w] = "plan", job'[w].mine = {}, NEW i \in Chunk
  PROVE  Counted(w, i)'
<1>1. Cardinality(OfChunk(i)) \in Nat /\ Cardinality(OfChunk(i)) <= Budget  BY WithinBudget
<1>2. Budget \in Nat /\ Budget' = Budget + 1 + MaxRetries /\ MaxRetries \in Nat
  BY BudgetGrows DEF Plan
<1>3. OfChunk(i)' = OfChunk(i)  BY DEF OfChunk, children
<1>4. Cardinality(job'[w].mine) = 0 /\ i \in Nat /\ ~(i <= 0)  BY FS_EmptySet DEF Chunk
<1>5. ckpt'.retries[i] <= MaxRetries  BY DEF SoleInv, Counted
<1> QED  BY <1>1, <1>2, <1>3, <1>4, <1>5 DEF Counted

\* Between plans the count stays with the tables.
LEMMA CountStays ==
  ASSUME NEW w \in Worker, SoleInv(w), UNCHANGED <<children, ckpt, rounds>>,
         pc[w] \notin {"plan", "save", "record"}, pc'[w] \notin {"plan", "save", "record"}
  PROVE  \A i \in Chunk : Counted(w, i)'
<1> SUFFICES ASSUME NEW i \in Chunk PROVE Counted(w, i)'
  OBVIOUS
<1>1. Counted(w, i)  BY DEF SoleInv
<1>2. OfChunk(i)' = OfChunk(i) /\ Budget' = Budget  BY DEF OfChunk, Budget, children
<1>3. Uncounted(w, i) = 0 /\ Uncounted(w, i)' = 0  BY DEF Uncounted
<1> QED  BY <1>1, <1>2, <1>3 DEF Counted

LEMMA ClaimStepAlone ==
  ASSUME NEW w \in Worker, SoleInv(w), IInv', NoneLost(w)', NEW x \in Exec, Claim(w, x)
  PROVE  SoleInv(w)'
<1> USE DEF children
<1> DEFINE r == ClaimRow(row[x], w, issued + 1)
<1>1. /\ pc \in [Worker -> Place] /\ job \in [Worker -> Job]
      /\ row \in [Exec -> ClaimColumns] /\ issued \in Nat /\ spawned \in Nat
      /\ Root \in Exec /\ Exec = {Root} \cup Child /\ Root \notin Child
  BY Known
<1>2. /\ pc[w] = "idle" /\ x <= spawned /\ row[x].status = "queued"
      /\ row' = [row EXCEPT ![x] = r] /\ UNCHANGED <<children, ckpt, answer>>
  BY DEF Claim
<1>3. job'[w] = [NoJob EXCEPT !.exec = x, !.attempt = issued + 1,
                              !.seen = IF x = Root THEN ckpt ELSE @]
  BY <1>1 DEF Claim
<1>4. /\ job'[w].exec = x /\ job'[w].attempt = issued + 1 /\ job'[w].mine = {}
      /\ ~job'[w].returned /\ (x = Root => job'[w].seen = ckpt)
  BY <1>3 DEF NoJob
<1>5. /\ r.attempt = issued + 1 /\ r.status = "running"
      /\ \A y \in Exec : row'[y] = IF y = x THEN r ELSE row[y]
  BY <1>1, <1>2 DEF ClaimRow, ClaimColumns
<1>6. \A y \in Exec : ~Claimed(row[y])
  BY <1>2 DEF SoleInv, Undisturbed, OwnPlace
<1>7. ChunksAwaited'
  BY <1>2 DEF SoleInv, ChunksAwaited, Awaits
<1>8. \A c \in 1 .. spawned : row[c].status = "queued" => c \in ckpt.waiting
  BY <1>2 DEF SoleInv, ChildrenAwaited
<1>9. \A c \in 1 .. spawned : c \in Exec /\ c \in Child
  <2>1. spawned <= MaxChildren  BY Known
  <2> QED  BY <1>1, <2>1 DEF Child
<1>10. CASE x # Root
  <2>1. pc'[w] = "leaf" /\ rounds' = rounds  BY <1>1, <1>10 DEF Claim, Goto
  <2>2. x \in ckpt.waiting
    <3>1. x \in 1 .. spawned  BY <1>1, <1>2, <1>10 DEF Child
    <3> QED  BY <1>2, <1>8, <3>1
  <2>3. row[Root].status = "waiting" /\ row'[Root] = row[Root]
    BY <1>1, <1>2, <1>5, <1>10, <2>2 DEF SoleInv, ParentWaits
  <2>4. Undisturbed(w)'
    BY <1>4, <1>5, <1>6, <2>1 DEF Undisturbed, OwnPlace
  <2>5. ParentWaits(w)'  BY <1>2, <2>3 DEF SoleInv, ParentWaits
  <2>6. ChildrenAwaited(w)'
    BY <1>2, <1>4, <1>5, <1>8, <1>9, <2>2 DEF ChildrenAwaited
  <2>7. UpToDate(w)' /\ PlanCovers(w)' /\ RetryFits(w)'
    BY <1>4, <2>1 DEF UpToDate, PlanCovers, RetryFits
  <2>8. \A i \in Chunk : Counted(w, i)'  BY <1>2, <2>1, CountStays
  <2> QED  BY <1>7, <2>4, <2>5, <2>6, <2>7, <2>8 DEF SoleInv
<1>11. CASE x = Root
  <2>1. \/ pc'[w] = "merge" /\ ckpt.merging /\ rounds' = rounds
        \/ pc'[w] = "plan" /\ ~ckpt.merging /\ Plan
    BY <1>1, <1>11 DEF Claim, Goto
  <2>2. ckpt.waiting = {} /\ answer = "none"
    BY <1>2, <1>11 DEF SoleInv, ParentWaits
  <2>3. row'[Root].status = "running"  BY <1>1, <1>5, <1>11
  <2>4. Undisturbed(w)'
    BY <1>4, <1>5, <1>6, <2>1 DEF Undisturbed, OwnPlace
  <2>5. ParentWaits(w)'  BY <1>2, <1>4, <1>11, <2>2, <2>3 DEF ParentWaits
  <2>6. ChildrenAwaited(w)'
    BY <1>1, <1>2, <1>4, <1>5, <1>8, <1>9, <1>11, <2>2 DEF ChildrenAwaited
  <2>7. UpToDate(w)'
    <3>1. ~ckpt.merging => ~ckpt.failed  BY DEF SoleInv, ChunksAwaited
    <3> QED  BY <1>2, <1>4, <1>11, <2>1, <2>2, <3>1 DEF UpToDate
  <2>8. PlanCovers(w)' /\ RetryFits(w)'
    <3>1. Cardinality({}) = 0  BY FS_EmptySet
    <3> QED  BY <1>4, <1>11, <2>1, <3>1 DEF PlanCovers, RetryFits, ChildPlace
  <2>9. \A i \in Chunk : Counted(w, i)'
    <3>1. CASE pc'[w] = "merge"  BY <1>2, <2>1, <3>1, CountStays
    <3>2. CASE pc'[w] = "plan"  BY <1>2, <1>4, <2>1, <3>2, PlanIsCounted
    <3> QED  BY <2>1, <3>1, <3>2
  <2> QED  BY <1>7, <2>4, <2>5, <2>6, <2>7, <2>8, <2>9 DEF SoleInv
<1> QED  BY <1>10, <1>11
\* A merge that came out too large is planned again: nothing is awaited, and the
\* results it was made of are complete.
LEMMA MergeAgainStep ==
  ASSUME NEW w \in Worker, SoleInv(w), IInv', NoneLost(w)', MergeAgain(w)
  PROVE  SoleInv(w)'
<1> USE DEF children
<1>1. /\ pc[w] = "merge" /\ pc'[w] = "plan" /\ job' = job /\ Plan
      /\ UNCHANGED <<row, issued, children, ckpt, answer>> /\ ~job[w].seen.failed
  BY Known DEF MergeAgain, Goto
<1>2. job[w].mine = {} /\ job[w].exec = Root  BY <1>1, Known DEF InPlace
<1>3. ckpt.waiting = {} /\ ~ckpt.failed /\ answer = "none" /\ ~job[w].returned
  BY <1>1 DEF SoleInv, UpToDate
<1>4. Undisturbed(w)'  BY <1>1 DEF SoleInv, Undisturbed, OwnPlace
<1>5. ParentWaits(w)'  BY <1>1, <1>2, <1>3 DEF SoleInv, ParentWaits
<1>6. ChunksAwaited'  BY <1>1 DEF SoleInv, ChunksAwaited, Awaits
<1>7. ChildrenAwaited(w)'  BY <1>1, <1>2 DEF SoleInv, ChildrenAwaited
<1>8. UpToDate(w)'  BY <1>1, <1>3 DEF UpToDate
<1>9. PlanCovers(w)' /\ RetryFits(w)'
  <2>1. Cardinality({}) = 0  BY FS_EmptySet
  <2> QED  BY <1>1, <1>2, <2>1 DEF PlanCovers, RetryFits, ChildPlace
<1>10. \A i \in Chunk : Counted(w, i)'  BY <1>1, <1>2, PlanIsCounted
<1> QED  BY <1>4, <1>5, <1>6, <1>7, <1>8, <1>9, <1>10 DEF SoleInv

\* A plan that is given up before its first child leaves the count as it was.
LEMMA PlanGivenUp ==
  ASSUME NEW w \in Worker, SoleInv(w), UNCHANGED <<children, ckpt, rounds>>,
         pc[w] = "plan", job[w].mine = {}, pc'[w] \in {"result", "finish"}
  PROVE  \A i \in Chunk : Counted(w, i)'
<1> SUFFICES ASSUME NEW i \in Chunk PROVE Counted(w, i)'
  OBVIOUS
<1>1. /\ Cardinality(OfChunk(i)) \in Nat /\ Budget \in Nat /\ ckpt.retries[i] \in Nat
      /\ MaxRetries \in Nat /\ i \in Nat /\ ~(i <= 0)
  BY WithinBudget, BudgetGrows, Known DEF Chunk
<1>2. Cardinality(job[w].mine) = 0  BY FS_EmptySet
<1>3. Counted(w, i)  BY DEF SoleInv
<1>4. Cardinality(OfChunk(i)) + MaxRetries + 1 <= Budget /\ ckpt.retries[i] <= MaxRetries
  BY <1>1, <1>2, <1>3 DEF Counted
<1>5. OfChunk(i)' = OfChunk(i) /\ Budget' = Budget  BY DEF OfChunk, Budget, children
<1>6. Uncounted(w, i)' = 0  BY DEF Uncounted
<1> QED  BY <1>1, <1>4, <1>5, <1>6 DEF Counted

\* The merge, and the ends of planning and merging in an error: what was read is
\* still what is there, and no child is left behind.
MergeEnds(w) == \/ Merge(w) \/ PlanningFails(w)
                \/ HandlerRaises(w) /\ pc[w] # "leaf"

LEMMA MergeSteps ==
  ASSUME NEW w \in Worker, SoleInv(w), IInv', NoneLost(w)', MergeEnds(w)
  PROVE  SoleInv(w)'
<1> USE DEF MergeEnds
<1> USE DEF children, bounds
<1>1. /\ pc \in [Worker -> Place] /\ job \in [Worker -> Job] /\ job[w] \in Job
      /\ pc[w] \in {"plan", "merge"} /\ pc'[w] \in {"result", "finish"}
      /\ UNCHANGED <<row, issued, children, ckpt, answer, rounds>>
  BY Known DEF Merge, PlanningFails, Planning, HandlerRaises, Goto
<1>2. job[w].mine = {} /\ job[w].exec = Root
  BY <1>1, Known DEF InPlace, Merge, PlanningFails, Planning, HandlerRaises
<1>3. /\ ckpt.waiting = {} /\ answer = "none" /\ ~job[w].returned
      /\ pc[w] = "merge" => job[w].seen = ckpt /\ ckpt.merging
  BY <1>1 DEF SoleInv, UpToDate
<1>4. /\ job'[w].exec = Root /\ job'[w].mine = {} /\ job'[w].attempt = job[w].attempt
      /\ \/ pc'[w] = "finish" /\ ~job'[w].returned
         \/ /\ pc'[w] = "result" /\ job'[w].returned
            /\ job'[w].answer = "error" \/ (ckpt.merging /\ job'[w].answer = Merged(ckpt))
  <2>1. CASE Merge(w) \/ PlanningFails(w)
    <3>1. \E a : /\ job'[w] = [job[w] EXCEPT !.answer = a, !.returned = TRUE]
                 /\ a = "error" \/ (ckpt.merging /\ a = Merged(ckpt))
      <4>1. \A a : [job EXCEPT ![w].answer = a, ![w].returned = TRUE][w]
                      = [job[w] EXCEPT !.answer = a, !.returned = TRUE]
        BY <1>1
      <4>2. CASE Merge(w)  BY <1>3, <4>1, <4>2 DEF Merge
      <4>3. CASE PlanningFails(w)  BY <4>1, <4>3 DEF PlanningFails
      <4> QED  BY <2>1, <4>2, <4>3
    <3>2. pc'[w] = "result"  BY <1>1, <2>1 DEF Merge, PlanningFails, Goto
    <3> QED  BY <1>1, <1>2, <3>1, <3>2 DEF Job
  <2>2. CASE HandlerRaises(w)  BY <1>1, <1>2, <1>3, <2>2 DEF HandlerRaises, Goto
  <2> QED  BY <2>1, <2>2
<1>5. Undisturbed(w)'  BY <1>1, <1>2, <1>4 DEF SoleInv, Undisturbed, OwnPlace
<1>6. ParentWaits(w)'  BY <1>1, <1>3, <1>4 DEF SoleInv, ParentWaits
<1>7. ChunksAwaited'  BY <1>1 DEF SoleInv, ChunksAwaited, Awaits
<1>8. ChildrenAwaited(w)'  BY <1>1, <1>2, <1>4 DEF SoleInv, ChildrenAwaited
<1>9. UpToDate(w)'
  <2>1. Merged(ckpt)' = Merged(ckpt)  BY <1>1 DEF Merged, HasAll
  <2> QED  BY <1>1, <1>3, <1>4, <2>1 DEF UpToDate
<1>10. PlanCovers(w)' /\ RetryFits(w)'  BY <1>4 DEF PlanCovers, RetryFits
<1>11. \A i \in Chunk : Counted(w, i)'
  <2>1. CASE pc[w] = "plan"  BY <1>1, <1>2, <2>1, PlanGivenUp
  <2>2. CASE pc[w] = "merge"
    <3>1. pc[w] \notin {"plan", "save", "record"} /\ pc'[w] \notin {"plan", "save", "record"}
      BY <1>1, <2>2
    <3> QED  BY <1>1, <3>1, CountStays
  <2> QED  BY <1>1, <2>1, <2>2
<1> QED  BY <1>5, <1>6, <1>7, <1>8, <1>9, <1>10, <1>11 DEF SoleInv

LEMMA EnqueueStep ==
  ASSUME NEW w \in Worker, SoleInv(w), IInv', NoneLost(w)', Enqueue(w)
  PROVE  SoleInv(w)'
<1> DEFINE kids == job[w].mine  n == Cardinality(job[w].mine)  d == spawned + 1
<1>1. /\ pc \in [Worker -> Place] /\ job \in [Worker -> Job] /\ job[w] \in Job
      /\ spawned \in Nat /\ spawned <= MaxChildren /\ chunkOf \in [Child -> Chunk]
      /\ kids \in SUBSET Child /\ pc[w] = "plan"
  BY Known DEF Enqueue
<1>2. kids \subseteq 1 .. spawned /\ n < Chunks /\ job[w].exec = Root
  BY <1>1, Known DEF InPlace
<1>3. n \in Nat /\ n + 1 \in Chunk /\ n + 1 <= Chunks
  BY <1>1, <1>2, ChildrenAreFinite DEF Chunk
<1>4. /\ Spawn(n + 1) /\ pc'[w] = (IF n + 1 = Chunks THEN "save" ELSE "plan")
      /\ job' = [job EXCEPT ![w].mine = kids \cup {d}]
      /\ UNCHANGED <<row, issued, ckpt, answer, rounds>>
  BY <1>1 DEF Enqueue, Goto, bounds
<1>5. /\ spawned' = d /\ d \in Child /\ chunkOf' = [chunkOf EXCEPT ![d] = n + 1]
      /\ d \notin kids /\ \A c \in 1 .. spawned : c \in Child /\ c # d
  BY <1>1, <1>2, <1>4 DEF Spawn, Child
<1>6. chunkOf'[d] = n + 1 /\ \A c \in 1 .. spawned : chunkOf'[c] = chunkOf[c]
  BY <1>1, <1>5
<1>7. /\ job'[w].exec = Root /\ job'[w].attempt = job[w].attempt /\ job'[w].mine = kids \cup {d}
      /\ job'[w].returned = job[w].returned
      /\ Cardinality(job'[w].mine) = n + 1
  <2>1. Cardinality(kids \cup {d}) = n + 1  BY <1>1, <1>5, ChildrenAreFinite
  <2> QED  BY <1>1, <1>2, <1>4, <2>1 DEF Job
<1>8. ckpt.waiting = {} /\ ~ckpt.failed /\ answer = "none" /\ ~job[w].returned
  BY <1>1 DEF SoleInv, UpToDate
<1>9. /\ \A c, e \in kids : chunkOf[c] = chunkOf[e] => c = e
      /\ \A i \in 1 .. n : \E c \in kids : chunkOf[c] = i
      /\ \A c \in kids : chunkOf[c] <= n /\ chunkOf[c] \in Nat
  BY <1>1 DEF SoleInv, PlanCovers, Chunk
<1>11. Undisturbed(w)'  BY <1>1, <1>2, <1>4, <1>7 DEF SoleInv, Undisturbed, OwnPlace
<1>12. ParentWaits(w)'  BY <1>4, <1>7, <1>8 DEF SoleInv, ParentWaits
<1>13. ChunksAwaited'  BY <1>4, <1>8 DEF SoleInv, ChunksAwaited, Awaits
<1>14. ChildrenAwaited(w)'
  <2>1. \A c \in 1 .. spawned' : c \in 1 .. spawned \/ c = d  BY <1>1, <1>5
  <2> QED  BY <1>1, <1>4, <1>7, <2>1 DEF SoleInv, ChildrenAwaited
<1>15. UpToDate(w)'  BY <1>4, <1>7, <1>8 DEF UpToDate
<1>16. PlanCovers(w)'
  <2>1. kids \cup {d} \subseteq 1 .. spawned'  BY <1>1, <1>2, <1>5
  <2>2. \A c, e \in kids \cup {d} : chunkOf'[c] = chunkOf'[e] => c = e
    <3>1. \A c \in kids : chunkOf'[c] = chunkOf[c]  BY <1>2, <1>6
    <3>2. \A c \in kids : chunkOf'[c] # n + 1  BY <1>3, <1>9, <3>1
    <3> QED  BY <1>6, <1>9, <3>1, <3>2
  <2>3. \A i \in 1 .. n + 1 : \E c \in kids \cup {d} : chunkOf'[c] = i
    <3>1. \A i \in 1 .. n + 1 : i \in 1 .. n \/ i = n + 1  BY <1>3
    <3> QED  BY <1>2, <1>6, <1>9, <3>1
  <2>4. \A c \in kids \cup {d} : chunkOf'[c] <= n + 1  BY <1>2, <1>3, <1>6, <1>9
  <2> QED  BY <1>4, <1>7, <2>1, <2>2, <2>3, <2>4 DEF PlanCovers
<1>17. RetryFits(w)'  BY <1>4 DEF RetryFits, ChildPlace
<1>18. ASSUME NEW i \in Chunk PROVE Counted(w, i)'
  <2>1. /\ Cardinality(OfChunk(i)) \in Nat
        /\ Cardinality(OfChunk(i)') = Cardinality(OfChunk(i)) + (IF i = n + 1 THEN 1 ELSE 0)
    BY <1>3, <1>4, OfChunkGrows
  <2>2. /\ Counted(w, i) /\ Budget' = Budget /\ Budget \in Nat /\ i \in Nat /\ MaxRetries \in Nat
    BY <1>4, BudgetGrows DEF SoleInv, Chunk
  <2>3. Cardinality(OfChunk(i)) + MaxRetries + 1 <= Budget + (IF i <= n THEN 1 ELSE 0)
        /\ ckpt.retries[i] <= MaxRetries
    BY <1>1, <2>2 DEF Counted
  <2>4. Cardinality(OfChunk(i)') + MaxRetries + 1 <= Budget + (IF i <= n + 1 THEN 1 ELSE 0)
    BY <1>3, <2>1, <2>2, <2>3
  <2> QED  BY <1>4, <1>7, <2>2, <2>3, <2>4 DEF Counted
<1> QED  BY <1>11, <1>12, <1>13, <1>14, <1>15, <1>16, <1>17, <1>18 DEF SoleInv
-----------------------------------------------------------------------------
(* Writes for the execution's own row *)

LEMMA OwnRowIsClaimed ==
  ASSUME NEW w \in Worker, SoleInv(w), pc[w] \in OwnPlace
  PROVE  Holding(w) /\ Claimed(row[job[w].exec])
<1>1. OwnAttempt(w) /\ RowsAgree /\ job[w].exec \in Exec /\ Undisturbed(w)
  BY Known DEF SoleInv
<1> QED  BY <1>1 DEF Holding, Holds, Undisturbed, OwnAttempt, Busy, OwnPlace, RowsAgree

LEMMA SaveStep ==
  ASSUME NEW w \in Worker, SoleInv(w), IInv', NoneLost(w)', Save(w)
  PROVE  SoleInv(w)'
<1> USE DEF children, bounds
<1> DEFINE kids == job[w].mine
<1>1. /\ pc[w] = "save" /\ pc'[w] = "suspend" /\ job' = job /\ ckpt' = Planned(TRUE, kids)
      /\ UNCHANGED <<row, issued, children, answer, rounds>>
  BY Known DEF Save, Goto
<1>2. job[w].exec = Root  BY <1>1, Known DEF InPlace
<1>3. /\ ckpt'.merging /\ ckpt'.waiting = kids /\ ~ckpt'.failed
      /\ \A i \in Chunk : ckpt'.retries[i] = 0
  BY <1>1 DEF Planned
<1>4. ckpt.waiting = {} /\ answer = "none"  BY <1>1 DEF SoleInv, UpToDate
<1>5. /\ kids \subseteq 1 .. spawned /\ Cardinality(kids) = Chunks
      /\ \A c, d \in kids : chunkOf[c] = chunkOf[d] => c = d
      /\ \A i \in Chunk : \E c \in kids : chunkOf[c] = i
  BY <1>1 DEF SoleInv, PlanCovers, Chunk
<1>6. Undisturbed(w)'  BY <1>1 DEF SoleInv, Undisturbed, OwnPlace
<1>7. ParentWaits(w)'  BY <1>1, <1>2 DEF SoleInv, ParentWaits
<1>8. ChunksAwaited'  BY <1>1, <1>3, <1>5 DEF ChunksAwaited, Awaits
<1>9. ChildrenAwaited(w)'  BY <1>1, <1>2, <1>3, <1>4 DEF SoleInv, ChildrenAwaited
<1>10. UpToDate(w)' /\ PlanCovers(w)' /\ RetryFits(w)'
  BY <1>1, <1>4 DEF UpToDate, PlanCovers, RetryFits, ChildPlace
<1>11. ASSUME NEW i \in Chunk PROVE Counted(w, i)'
  <2>1. /\ Counted(w, i) /\ Budget' = Budget /\ Budget \in Nat /\ i \in Nat /\ i <= Chunks
        /\ MaxRetries \in Nat
    BY <1>1, BudgetGrows DEF SoleInv, Chunk
  <2>2. OfChunk(i)' = OfChunk(i) /\ Cardinality(OfChunk(i)) \in Nat /\ Uncounted(w, i)' = 0
    BY <1>1, WithinBudget DEF OfChunk, Uncounted
  <2>3. Cardinality(OfChunk(i)) + MaxRetries + 1 <= Budget + 1
    BY <1>1, <1>5, <2>1 DEF Counted
  <2>4. Cardinality(OfChunk(i)) + MaxRetries <= Budget + 0 + 0  BY <2>1, <2>2, <2>3
  <2>5. Cardinality(OfChunk(i)') + MaxRetries <= Budget' + ckpt'.retries[i] + Uncounted(w, i)'
    BY <1>3, <2>1, <2>2, <2>4
  <2>6. ckpt'.retries[i] <= MaxRetries  BY <1>3, <2>1
  <2> QED  BY <1>1, <1>3, <2>5, <2>6 DEF Counted
<1> QED  BY <1>6, <1>7, <1>8, <1>9, <1>10, <1>11 DEF SoleInv

\* The parent's row goes from one unclaimed status to another, or from its own claim to
\* none, while the worker is left without a job.
LEMMA ParentRowSettles ==
  ASSUME NEW w \in Worker, SoleInv(w), IInv', NoneLost(w)', pc'[w] = "idle",
         UNCHANGED <<children, ckpt, answer, rounds>>,
         NEW r, row' = [row EXCEPT ![Root] = r], ~Claimed(r),
         \A x \in Child : ~Claimed(row[x]),
         r.status \in {"queued", "waiting", "failed"} => answer = "none" /\ r.phase = "none",
         ckpt.waiting # {} => r.status = "waiting",
         pc[w] \notin {"plan", "save", "record"}
  PROVE  SoleInv(w)'
<1> USE DEF children
<1>1. /\ row \in [Exec -> ClaimColumns] /\ Root \in Exec /\ Exec = {Root} \cup Child
      /\ Root \notin Child /\ spawned <= MaxChildren /\ spawned \in Nat
  BY Known
<1>2. row'[Root] = r /\ \A x \in Child : row'[x] = row[x]  BY <1>1
<1>3. \A c \in 1 .. spawned : c \in Child  BY <1>1 DEF Child
<1>4. Undisturbed(w)'  BY <1>1, <1>2 DEF Undisturbed, OwnPlace
<1>5. ParentWaits(w)'  BY <1>2 DEF ParentWaits, Busy
<1>6. ChunksAwaited'  BY DEF SoleInv, ChunksAwaited, Awaits
<1>7. ChildrenAwaited(w)'  BY <1>2, <1>3 DEF SoleInv, ChildrenAwaited, ChildPlace
<1>8. UpToDate(w)' /\ PlanCovers(w)' /\ RetryFits(w)'
  BY DEF UpToDate, PlanCovers, RetryFits, ChildPlace
<1>9. \A i \in Chunk : Counted(w, i)'
  <2>1. pc'[w] \notin {"plan", "save", "record"}  OBVIOUS
  <2> QED  BY <2>1, CountStays
<1> QED  BY <1>4, <1>5, <1>6, <1>7, <1>8, <1>9 DEF SoleInv

ParentSettles(w) == Suspend(w) \/ WakeParent(w) \/ (Finish(w) /\ job[w].exec = Root)

LEMMA ParentSettlesSteps ==
  ASSUME NEW w \in Worker, SoleInv(w), IInv', NoneLost(w)', ParentSettles(w)
  PROVE  SoleInv(w)'
<1> USE DEF ParentSettles
<1> USE DEF children, bounds
<1>1. /\ pc \in [Worker -> Place] /\ row[Root] \in ClaimColumns /\ InPlace(w)
      /\ Root \in Exec /\ Exec = {Root} \cup Child /\ Root \notin Child
  BY Known
<1>2. /\ pc'[w] = "idle" /\ UNCHANGED <<children, ckpt, answer, rounds>>
  BY <1>1 DEF Suspend, WakeParent, Finish, Leave, Goto
<1>3. CASE Suspend(w)
  <2>1. pc[w] = "suspend" /\ job[w].exec = Root /\ answer = "none"
        /\ row' = [row EXCEPT ![Root] = SetStatus(row[Root], "waiting", "none")]
    BY <1>1, <1>3 DEF Suspend, InPlace, SoleInv, UpToDate
  <2>2. \A x \in Child : ~Claimed(row[x])  BY <1>1, <2>1 DEF SoleInv, Undisturbed
  <2>3. /\ ~Claimed(SetStatus(row[Root], "waiting", "none"))
        /\ SetStatus(row[Root], "waiting", "none").status = "waiting"
        /\ SetStatus(row[Root], "waiting", "none").phase = "none"
    BY <1>1, StatusWrites
  <2> QED  BY <1>2, <2>1, <2>2, <2>3, ParentRowSettles
<1>4. CASE WakeParent(w)
  <2>1. pc[w] = "wake" /\ job[w].exec # Root /\ ckpt.waiting = {}
        /\ row' = [row EXCEPT ![Root] = SetStatus(row[Root], "queued", "none")]
    BY <1>1, <1>4 DEF WakeParent, WakeRow, InPlace, Telling, SoleInv, UpToDate
  <2>2. answer = "none" /\ \A x \in Child : ~Claimed(row[x])
    BY <1>1, <2>1 DEF SoleInv, Undisturbed, ParentWaits, OwnPlace, Busy
  <2>3. /\ ~Claimed(SetStatus(row[Root], "queued", "none"))
        /\ SetStatus(row[Root], "queued", "none").phase = "none"
    BY <1>1, StatusWrites
  <2> QED  BY <1>2, <2>1, <2>2, <2>3, ParentRowSettles
<1>5. CASE Finish(w) /\ job[w].exec = Root
  <2>1. pc[w] = "finish" /\ ckpt.waiting = {}
    BY <1>5 DEF Finish, SoleInv, UpToDate
  <2>2. \A x \in Child : ~Claimed(row[x])  BY <1>1, <1>5 DEF SoleInv, Undisturbed
  <2>3. PICK r : /\ row' = [row EXCEPT ![Root] = r] /\ ~Claimed(r)
                 /\ r.status \notin {"queued", "waiting"}
                 /\ r.status = "failed" => answer = "none" /\ r.phase = "none"
    <3>1. CASE job[w].returned
      BY <1>1, <1>5, <3>1, HandoverWrites DEF Finish
    <3>2. CASE ~job[w].returned
      <4>1. /\ ~Claimed(SetStatus(row[Root], "failed", "none"))
            /\ SetStatus(row[Root], "failed", "none").status = "failed"
            /\ SetStatus(row[Root], "failed", "none").phase = "none"
        BY <1>1, StatusWrites
      <4>2. row' = [row EXCEPT ![Root] = SetStatus(row[Root], "failed", "none")]
        BY <1>5, <3>2 DEF Finish
      <4>3. answer = "none"  BY <1>5, <2>1, <3>2 DEF SoleInv, UpToDate
      <4> QED  BY <4>1, <4>2, <4>3
    <3> QED  BY <3>1, <3>2
  <2> QED  BY <1>2, <2>1, <2>2, <2>3, ParentRowSettles
<1> QED  BY <1>3, <1>4, <1>5
\* The merge's answer is stored with the parent's claim.
LEMMA AnswerStep ==
  ASSUME NEW w \in Worker, SoleInv(w), IInv', NoneLost(w)', StoreResult(w), job[w].exec = Root
  PROVE  SoleInv(w)'
<1> USE DEF children, bounds
<1>1. /\ pc[w] = "result" /\ pc'[w] = "finish" /\ job' = job /\ answer' = job[w].answer
      /\ UNCHANGED <<row, issued, children, ckpt, rounds>>
  BY Known DEF StoreResult, Goto
<1>2. /\ ckpt.waiting = {} /\ job[w].returned
      /\ job[w].answer = "error" \/ job[w].answer = Merged(ckpt)
  BY <1>1 DEF SoleInv, UpToDate
<1>3. answer' # "none"  BY <1>1, <1>2 DEF Merged
<1>4. Claimed(row[Root])  BY <1>1, OwnRowIsClaimed DEF OwnPlace
<1>5. Undisturbed(w)'  BY <1>1 DEF SoleInv, Undisturbed, OwnPlace
<1>6. ParentWaits(w)'  BY <1>1, <1>2, <1>4 DEF ParentWaits, Claimed
<1>7. ChunksAwaited'  BY <1>1 DEF SoleInv, ChunksAwaited, Awaits
<1>8. ChildrenAwaited(w)'  BY <1>1 DEF SoleInv, ChildrenAwaited
<1>9. UpToDate(w)'  BY <1>1, <1>2, <1>3 DEF UpToDate
<1>10. PlanCovers(w)' /\ RetryFits(w)'  BY <1>1 DEF PlanCovers, RetryFits
<1>11. \A i \in Chunk : Counted(w, i)'
  <2>1. pc[w] \notin {"plan", "save", "record"} /\ pc'[w] \notin {"plan", "save", "record"}
    BY <1>1
  <2> QED  BY <1>1, <2>1, CountStays
<1> QED  BY <1>5, <1>6, <1>7, <1>8, <1>9, <1>10, <1>11 DEF SoleInv

\* A child has ended, and its worker sets out to tell.
LEMMA ChildFinishes ==
  ASSUME NEW w \in Worker, SoleInv(w), IInv', NoneLost(w)', Finish(w), job[w].exec # Root
  PROVE  SoleInv(w)'
<1> USE DEF children, bounds
<1> DEFINE x == job[w].exec
           r == IF job[w].returned THEN SetStatus(row[x], "running", "backend_finalization")
                                   ELSE SetStatus(row[x], "failed", "none")
<1>1. /\ pc[w] = "finish" /\ pc'[w] = "report" /\ job' = job /\ row' = [row EXCEPT ![x] = r]
      /\ UNCHANGED <<issued, children, ckpt, answer, rounds>>
  BY Known DEF Finish, Goto
<1>2. /\ row \in [Exec -> ClaimColumns] /\ x \in Exec /\ row[x] \in ClaimColumns
      /\ Exec = {Root} \cup Child /\ spawned <= MaxChildren /\ spawned \in Nat
  BY Known
<1>3. \A y \in Exec : row'[y] = IF y = x THEN r ELSE row[y]  BY <1>1, <1>2
<1>4. ~Claimed(r) /\ r.status # "queued"
  BY <1>2, StatusWrites, HandoverWrites
<1>5. row'[Root] = row[Root] /\ row[Root].status = "waiting" /\ x \in ckpt.waiting
  BY <1>1, <1>2, <1>3 DEF SoleInv, ParentWaits, ChildrenAwaited, Busy, ChildPlace
<1>6. Undisturbed(w)'
  <2>1. \A y \in Exec : ~Claimed(row'[y])  BY <1>3, <1>4 DEF SoleInv, Undisturbed
  <2> QED  BY <1>1, <2>1 DEF Undisturbed, OwnPlace
<1>7. ParentWaits(w)'  BY <1>1, <1>5 DEF SoleInv, ParentWaits
<1>8. ChunksAwaited'  BY <1>1 DEF SoleInv, ChunksAwaited, Awaits
<1>9. ChildrenAwaited(w)'
  <2>1. \A c \in 1 .. spawned : c \in Exec  BY <1>2 DEF Child
  <2> QED  BY <1>1, <1>3, <1>4, <1>5, <2>1 DEF SoleInv, ChildrenAwaited
<1>10. UpToDate(w)' /\ PlanCovers(w)' /\ RetryFits(w)'
  BY <1>1 DEF SoleInv, UpToDate, PlanCovers, RetryFits, ChildPlace
<1>11. \A i \in Chunk : Counted(w, i)'
  <2>1. pc[w] \notin {"plan", "save", "record"} /\ pc'[w] \notin {"plan", "save", "record"}
    BY <1>1
  <2> QED  BY <1>1, <2>1, CountStays
<1> QED  BY <1>6, <1>7, <1>8, <1>9, <1>10, <1>11 DEF SoleInv

\* The backend ends the parent only when no child is left and the worker is idle.
LEMMA ParentCompletes ==
  ASSUME NEW w \in Worker, SoleInv(w), IInv', NoneLost(w)', BackendCompletes
  PROVE  SoleInv(w)' /\ pc[w] = "idle" /\ answer' = answer
<1> USE DEF children, bounds
<1>1. /\ row[Root].phase = "backend_finalization"
      /\ row' = [row EXCEPT ![Root] = SetStatus(row[Root], "completed", "none")]
      /\ UNCHANGED <<children, ckpt, answer, pc, rounds>>
  BY DEF BackendCompletes
<1>2. row[Root].status \notin {"queued", "waiting"} /\ ~Claimed(row[Root])
  BY <1>1 DEF SoleInv, ParentWaits, Claimed
<1>3. pc[w] = "idle"
  <2>1. pc[w] \in Place /\ InPlace(w)  BY Known
  <2>2. CASE pc[w] \in OwnPlace
    BY <1>2, <2>1, <2>2, OwnRowIsClaimed DEF SoleInv, ParentWaits, Busy, OwnPlace
  <2>3. CASE Telling(w)
    BY <1>2, <2>1, <2>3 DEF SoleInv, ParentWaits, Busy, Telling, InPlace
  <2> QED  BY <2>1, <2>2, <2>3 DEF Place, OwnPlace, Telling
<1>4. \A x \in Child : ~Claimed(row[x])
  BY <1>3, Known DEF SoleInv, Undisturbed, OwnPlace
<1>5. ckpt.waiting = {}  BY <1>2, <1>3 DEF SoleInv, ParentWaits
<1>6. /\ ~Claimed(SetStatus(row[Root], "completed", "none"))
      /\ SetStatus(row[Root], "completed", "none").status = "completed"
  BY StatusWrites, Known
<1> QED  BY <1>1, <1>3, <1>4, <1>5, <1>6, ParentRowSettles

-----------------------------------------------------------------------------
(* The invariant of one worker without mishaps *)

\* The steps that remain: nothing fences the worker off and no statement fails.
LEMMA SoleSteps ==
  ASSUME NEW w, Worker = {w}, MaxMishaps = 0, SoleInv(w), Next
  PROVE  \/ \E x \in Exec : Claim(w, x)
         \/ Enqueue(w) \/ Save(w) \/ Suspend(w) \/ Merge(w) \/ MergeAgain(w) \/ LeafReturns(w)
         \/ HandlerRaises(w) \/ StoreResult(w) \/ Finish(w) \/ Report(w) \/ Integrate(w)
         \/ Retry(w) \/ Record(w) \/ WakeParent(w) \/ BackendCompletes \/ PlanningFails(w)
<1>1. ~Mishap
  <2>1. mishaps \in 0 .. 0  BY DEF SoleInv, IInv, TypeOK
  <2> QED  BY <2>1 DEF Mishap
<1>5. WorkerStep(w) \/ BackendCompletes
  BY <1>1 DEF Next, Environment, EnqueueFails, RetryFails, StatementFails, Crash, BackendRequeues,
             ChildUnread, NoConnection
<1>2. ~Fenced(w)  BY OwnRowIsClaimed DEF Fenced, OwnPlace
<1>3. ~Restore(w)  BY DEF SoleInv, UpToDate, Restore
<1>4. ~Ignored(w)
  <2>1. pc[w] = "integrate" => job[w].exec # Root  BY Known DEF InPlace, Telling
  <2> QED  BY <2>1 DEF SoleInv, ChildrenAwaited, ChildPlace, Ignored
<1> QED  BY <1>2, <1>3, <1>4, <1>5 DEF WorkerStep

\* Without a mishap nothing is lost on the way home.
LEMMA NoneLostStep ==
  ASSUME NEW w, Worker = {w}, MaxMishaps = 0, SoleInv(w), [Next]_vars
  PROVE  NoneLost(w)'
<1>1. /\ w \in Worker /\ job \in [Worker -> Job] /\ job[w] \in Job /\ NoneLost(w)
      /\ ckpt.results \in [Chunk -> Child \cup {NoChild, Blank}]
  BY Known DEF SoleInv
<1>2. ASSUME NEW s, s = NoCheckpoint \/ \E kids : s = Planned(TRUE, kids)
      PROVE  \A i \in Chunk : s.results[i] # Blank
  BY <1>2 DEF NoCheckpoint, Planned
<1>3. CASE UNCHANGED <<ckpt, job>>  BY <1>1, <1>3 DEF NoneLost
<1>4. CASE Record(w)
  <2>1. job[w].seen = ckpt /\ job[w].exec \in Child /\ job[w].returned \in BOOLEAN
        /\ Got(job[w]) # Blank
    <3>1. pc[w] = "record" /\ job[w].exec \in Child  BY <1>1, <1>4, Known DEF Record, InPlace, Telling
    <3>2. Blank \notin Child /\ Blank # NoChild  BY DEF Child
    <3> QED  BY <1>1, <3>1, <3>2, Known DEF SoleInv, UpToDate, NoneLost, Got
  <2>2. ckpt'.results = [ckpt.results EXCEPT ![chunkOf[job[w].exec]] =
                           IF Got(job[w]) = NoChild /\ job[w].mine # {} THEN @ ELSE Got(job[w])]
    BY <1>4, <2>1 DEF Record, Outcome, Integrated
  <2>3. \A i \in Chunk : ckpt'.results[i] \in {ckpt.results[i], Got(job[w])}
    BY <1>1, <2>2
  <2>4. \A i \in Chunk : ckpt'.results[i] # Blank  BY <1>1, <2>1, <2>3 DEF NoneLost
  <2>5. job'[w] \in {job[w], NoJob}  BY <1>1, <1>4 DEF Record, AfterRecord, Leave
  <2> QED  BY <1>1, <2>4, <2>5 DEF NoneLost, NoJob
<1>5. CASE Save(w)
  <2>1. \A i \in Chunk : ckpt'.results[i] # Blank  BY <1>2, <1>5 DEF Save
  <2> QED  BY <1>1, <1>5, <2>1 DEF Save, NoneLost
<1>6. ASSUME ckpt' = ckpt, job'[w].lost = job[w].lost \/ job'[w] = NoJob PROVE NoneLost(w)'
  BY <1>1, <1>6 DEF NoneLost, NoJob
<1>7. ASSUME NEW x \in Exec, Claim(w, x) PROVE NoneLost(w)'
  <2>1. job'[w] = [NoJob EXCEPT !.exec = x, !.attempt = issued + 1,
                                !.seen = IF x = Root THEN ckpt ELSE @]
    BY <1>1, <1>7 DEF Claim
  <2>2. ~job'[w].lost  BY <2>1 DEF NoJob
  <2> QED  BY <1>1, <1>7, <2>2 DEF Claim, NoneLost
<1>8. CASE Merge(w) \/ LeafReturns(w) \/ PlanningFails(w)
  <2>1. \A a : [job EXCEPT ![w].answer = a, ![w].returned = TRUE][w]
                  = [job[w] EXCEPT !.answer = a, !.returned = TRUE]
    BY <1>1
  <2>2. \/ \E a : job'[w] = [job[w] EXCEPT !.answer = a, !.returned = TRUE]
        \/ job'[w] = [job[w] EXCEPT !.returned = TRUE]
    BY <1>1, <1>8, <2>1 DEF Merge, LeafReturns, PlanningFails
  <2>3. job'[w].lost = job[w].lost  BY <1>1, <2>2 DEF Job
  <2> QED  BY <1>6, <1>8, <2>3 DEF Merge, LeafReturns, PlanningFails
<1>9. CASE Enqueue(w) \/ Report(w) \/ Integrate(w) \/ Retry(w)
  <2>1. \/ job'[w] = job[w]
        \/ \E m : job'[w] = [job[w] EXCEPT !.mine = m]
        \/ job'[w] = [job[w] EXCEPT !.seen = ckpt]
    BY <1>1, <1>9 DEF Enqueue, Report, Integrate, Retry
  <2>2. job'[w].lost = job[w].lost  BY <1>1, <2>1 DEF Job
  <2> QED  BY <1>6, <1>9, <2>2 DEF Enqueue, Report, Integrate, Retry
<1>10. CASE \/ Suspend(w) \/ MergeAgain(w) \/ HandlerRaises(w) \/ StoreResult(w) \/ Finish(w)
            \/ WakeParent(w) \/ BackendCompletes
  <2>1. ckpt' = ckpt /\ (job' = job \/ job'[w] = NoJob)
    BY <1>1, <1>10 DEF Suspend, MergeAgain, HandlerRaises, StoreResult, Finish, WakeParent,
       BackendCompletes, Leave
  <2> QED  BY <1>6, <2>1
<1>11. CASE UNCHANGED vars  BY <1>3, <1>11 DEF vars
<1> QED
  BY <1>1, <1>4, <1>5, <1>7, <1>8, <1>9, <1>10, <1>11, SoleSteps

LEMMA SoleStep ==
  ASSUME NEW w \in Worker, SoleInv(w), IInv', NoneLost(w)',
         \/ \E x \in Exec : Claim(w, x)
         \/ Enqueue(w) \/ Save(w) \/ Suspend(w) \/ Merge(w) \/ MergeAgain(w) \/ LeafReturns(w)
         \/ HandlerRaises(w) \/ StoreResult(w) \/ Finish(w) \/ Report(w) \/ Integrate(w)
         \/ Retry(w) \/ Record(w) \/ WakeParent(w) \/ BackendCompletes \/ PlanningFails(w)
  PROVE  SoleInv(w)'
<1>1. CASE \E x \in Exec : Claim(w, x)  BY <1>1, ClaimStepAlone
<1>2. CASE ChildMove(w)  BY <1>2, ChildMoveSteps
<1>3. CASE MergeEnds(w)  BY <1>3, MergeSteps
<1>4. CASE ParentSettles(w)  BY <1>4, ParentSettlesSteps
<1>5. CASE StoreResult(w) /\ job[w].exec = Root  BY <1>5, AnswerStep
<1>6. CASE Finish(w) /\ job[w].exec # Root  BY <1>6, ChildFinishes
<1>8. CASE MergeAgain(w)  BY <1>8, MergeAgainStep
<1>9. CASE Enqueue(w) \/ Save(w)  BY <1>9, EnqueueStep, SaveStep
<1>10. CASE Retry(w) \/ Record(w)  BY <1>10, RetryStep, RecordStep
<1>11. CASE BackendCompletes  BY <1>11, ParentCompletes
<1> QED
  BY <1>1, <1>2, <1>3, <1>4, <1>5, <1>6, <1>8, <1>9, <1>10, <1>11
     DEF ChildMove, MergeEnds, ParentSettles

LEMMA SoleNext ==
  ASSUME NEW w, Worker = {w}, MaxMishaps = 0, SoleInv(w), [Next]_vars
  PROVE  SoleInv(w)'
<1>1. IInv' /\ NoneLost(w)' /\ w \in Worker  BY NextStep, NoneLostStep DEF SoleInv
<1>2. CASE UNCHANGED vars
  <2>1. UNCHANGED <<row, issued, spawned, chunkOf, ckpt, answer, pc, job, rounds>>
    BY <1>2 DEF vars
  <2>2. Undisturbed(w)' /\ ParentWaits(w)'
    BY <2>1 DEF SoleInv, Undisturbed, ParentWaits, Busy
  <2>3. ChunksAwaited' /\ ChildrenAwaited(w)'
    BY <2>1 DEF SoleInv, ChunksAwaited, ChildrenAwaited, Awaits
  <2>4. UpToDate(w)' /\ PlanCovers(w)' /\ RetryFits(w)'
    BY <2>1 DEF SoleInv, UpToDate, PlanCovers, RetryFits, Retried, Merged, HasAll
  <2>5. \A i \in Chunk : Counted(w, i)'
    BY <2>1 DEF SoleInv, Counted, Uncounted, Retried, OfChunk, Budget
  <2> QED  BY <1>1, <2>2, <2>3, <2>4, <2>5 DEF SoleInv
<1>3. CASE Next  BY <1>1, <1>3, SoleSteps, SoleStep
<1> QED  BY <1>2, <1>3

LEMMA SoleInit ==
  ASSUME NEW w, Worker = {w}, Init
  PROVE  SoleInv(w)
<1> USE DEF Init
<1>1. IInv /\ NoneLost(w)
  <2>1. \A i \in Chunk : NoCheckpoint.results[i] # Blank  BY DEF NoCheckpoint, Planned
  <2> QED  BY <2>1, InitIsGood DEF NoneLost, NoJob
<1>2. ckpt = NoCheckpoint /\ pc[w] = "idle" /\ spawned = 0 /\ rounds = 0 /\ answer = "none"
  OBVIOUS
<1>3. /\ NoCheckpoint.waiting = {} /\ ~NoCheckpoint.merging /\ ~NoCheckpoint.failed
      /\ \A i \in Chunk : NoCheckpoint.retries[i] = 0
  BY DEF NoCheckpoint, Planned
<1>4. \A x \in Exec : row[x].status = "queued" /\ row[x].phase = "none"  OBVIOUS
<1>5. Undisturbed(w) /\ ParentWaits(w)
  BY <1>2, <1>3, <1>4 DEF Undisturbed, ParentWaits, Claimed, OwnPlace, Busy, Exec
<1>6. ChunksAwaited /\ ChildrenAwaited(w)
  BY <1>2, <1>3 DEF ChunksAwaited, ChildrenAwaited, ChildPlace
<1>7. UpToDate(w) /\ PlanCovers(w) /\ RetryFits(w)
  BY <1>2 DEF UpToDate, PlanCovers, RetryFits, ChildPlace
<1>8. ASSUME NEW i \in Chunk PROVE Counted(w, i)
  <2>1. OfChunk(i) = {}  BY <1>2 DEF OfChunk
  <2>2. Cardinality(OfChunk(i)) = 0 /\ Budget = 0  BY <1>2, <2>1, FS_EmptySet DEF Budget
  <2> QED  BY <1>2, <1>3, <2>2 DEF Counted
<1> QED  BY <1>1, <1>5, <1>6, <1>7, <1>8 DEF SoleInv

\* The invariant of every execution with one worker in which nothing goes wrong.
THEOREM InvariantAlone ==
  ASSUME NEW w, Worker = {w}, MaxMishaps = 0
  PROVE  Spec => []SoleInv(w)
<1>1. Init => SoleInv(w)  BY SoleInit
<1>2. SoleInv(w) /\ [Next]_vars => SoleInv(w)'  BY SoleNext
<1> QED  BY <1>1, <1>2, PTL DEF Spec

\* One worker merges only after all children have come home, and chunk_max_retries
\* bounds the children of a chunk for any number of chunks, retries and rounds, though
\* a retry is enqueued in one transaction and counted in a later one.
THEOREM ChildrenCounted ==
  ASSUME NEW w, Worker = {w}, MaxMishaps = 0
  PROVE  Spec => []ChildrenAreCounted
<1>1. SoleInv(w) => MergesAfterChildren
  BY DEF SoleInv, UpToDate, MergesAfterChildren
<1>2. SoleInv(w) => \A i \in Chunk : Cardinality({c \in 1 .. spawned : chunkOf[c] = i})
                                        <= rounds * (1 + MaxRetries)
  BY WithinBudget DEF OfChunk, Budget
<1>3. SoleInv(w) => ChildrenAreCounted  BY <1>1, <1>2 DEF ChildrenAreCounted
<1> QED  BY <1>3, InvariantAlone, PTL
-----------------------------------------------------------------------------
(* One worker implements the map-reduce *)

\* Nothing the abstract fan-out sees has changed.
LEMMA Unseen ==
  ASSUME NEW w \in Worker, SoleInv(w), UNCHANGED <<ckpt, answer>>,
         row'[Root].status = "failed" <=> row[Root].status = "failed",
         \A c \in 1 .. spawned : chunkOf'[c] = chunkOf[c]
  PROVE  UNCHANGED MR!mrVars
<1>1. Stage' = Stage  BY DEF Stage
<1>2. \A i \in Chunk : Awaits(i)' <=> Awaits(i)  BY DEF Awaits, SoleInv, ChunksAwaited
<1>3. Part' = Part  BY <1>2 DEF Part
<1> QED  BY <1>1, <1>3 DEF MR!mrVars

\* Spawning leaves the chunks of the children there as they are.
LEMMA SpawnKeeps ==
  ASSUME NEW w \in Worker, SoleInv(w), NEW i, Spawn(i)
  PROVE  \A c \in 1 .. spawned : chunkOf'[c] = chunkOf[c]
<1>1. spawned \in Nat /\ chunkOf \in [Child -> Chunk] /\ spawned <= MaxChildren  BY Known
<1>2. \A c \in 1 .. spawned : c \in Child /\ c # spawned + 1  BY <1>1 DEF Child
<1> QED  BY <1>1, <1>2 DEF Spawn

\* The plan that is saved is one of every chunk, and follows none or a complete one.
LEMMA SaveMaps ==
  ASSUME NEW w \in Worker, SoleInv(w), Save(w)
  PROVE  MR!Spread
<1>1. /\ pc[w] = "save" /\ ckpt' = Planned(TRUE, job[w].mine)
      /\ UNCHANGED <<row, chunkOf, answer>> /\ job[w].exec = Root
  BY Known DEF Save, InPlace, children
<1>2. row[Root].status = "running"  BY <1>1, OwnRowIsClaimed DEF OwnPlace, Claimed
<1>3. ckpt.waiting = {} /\ ~ckpt.failed /\ answer = "none"  BY <1>1 DEF SoleInv, UpToDate
<1>4. Stage = (IF ckpt.merging THEN "mapping" ELSE "new") /\ Stage' = "mapping"
  BY <1>1, <1>2, <1>3 DEF Stage, Planned
<1>5. ckpt.merging => \A i \in Chunk : Part[i] = "ok"
  BY <1>3, Known DEF SoleInv, ChunksAwaited, NoneLost, Awaits, Part
<1>6. \A i \in Chunk : Awaits(i)'
  <2>1. ckpt'.waiting = job[w].mine  BY <1>1 DEF Planned
  <2>2. \A i \in Chunk : \E c \in job[w].mine : chunkOf[c] = i
    BY <1>1 DEF SoleInv, PlanCovers, Chunk
  <2> QED  BY <1>1, <2>1, <2>2 DEF Awaits
<1>7. Part' = [i \in Chunk |-> "todo"]  BY <1>6 DEF Part
<1> QED  BY <1>1, <1>4, <1>5, <1>7 DEF MR!Spread, MR!AllTodo

\* A child that comes home reports its chunk, or leaves it to its retry.
LEMMA RecordMaps ==
  ASSUME NEW w \in Worker, SoleInv(w), Record(w)
  PROVE  (\E i \in Chunk : MR!Report(i)) \/ UNCHANGED MR!mrVars
<1> DEFINE x == job[w].exec  k == chunkOf[job[w].exec]  kids == job[w].mine
<1>1. /\ chunkOf \in [Child -> Chunk] /\ x \in Exec /\ Exec = {Root} \cup Child
      /\ ckpt.results \in [Chunk -> Child \cup {NoChild, Blank}] /\ InPlace(w)
      /\ job[w].returned \in BOOLEAN
  BY Known
<1>2. /\ pc[w] = "record" /\ x \in Child /\ x # Root /\ k \in Chunk /\ x \in ckpt.waiting
      /\ UNCHANGED <<row, chunkOf, answer>> /\ job[w].seen = ckpt /\ ckpt.merging
  BY <1>1 DEF Record, children, InPlace, Telling, SoleInv, ChildrenAwaited, ChildPlace, UpToDate,
     ChunksAwaited
<1>3. /\ ckpt'.merging = ckpt.merging
      /\ ckpt'.waiting = (ckpt.waiting \ {x}) \cup kids
      /\ ckpt'.results = [ckpt.results EXCEPT ![k] = IF Got(job[w]) = NoChild /\ kids # {} THEN @
                                                    ELSE Got(job[w])]
  BY <1>2 DEF Record, Outcome, Integrated
<1>4. row[Root].status = "waiting" /\ answer = "none"
  BY <1>2 DEF SoleInv, ParentWaits, Busy
<1>5. Stage = "mapping" /\ Stage' = "mapping"  BY <1>2, <1>3, <1>4 DEF Stage
<1>6. \A c \in kids : chunkOf[c] = k  BY <1>2 DEF SoleInv, RetryFits, Retried
<1>7. ASSUME NEW i \in Chunk PROVE Awaits(i)' <=> IF i = k THEN kids # {} ELSE Awaits(i)
  <2>1. \A c, d \in ckpt.waiting : chunkOf[c] = chunkOf[d] => c = d
    BY DEF SoleInv, ChunksAwaited
  <2> QED  BY <1>2, <1>3, <1>6, <2>1 DEF Awaits
<1>8. Awaits(k) /\ Part[k] = "todo"  BY <1>2 DEF Awaits, Part
<1>9. \A i \in Chunk : i # k => ckpt'.results[i] = ckpt.results[i]  BY <1>1, <1>2, <1>3
<1>10. CASE kids = {}
  <2>1. PICK s \in {"ok", "lost"} : s = (IF ckpt'.results[k] \in Child THEN "ok" ELSE "lost")
    OBVIOUS
  <2>2. \A i \in Chunk : Awaits(i)' <=> i # k /\ Awaits(i)  BY <1>7, <1>10
  <2>3. Part' = [Part EXCEPT ![k] = s]
    <3> DEFINE P(i) == IF i = k THEN s ELSE Part[i]
    <3>1. ASSUME NEW i \in Chunk
          PROVE (IF ~ckpt'.merging \/ Awaits(i)' THEN "todo"
                 ELSE IF ckpt'.results[i] \in Child THEN "ok" ELSE "lost") = P(i)
      BY <1>2, <1>3, <1>9, <2>1, <2>2 DEF Part
    <3>2. Part' = [i \in Chunk |-> P(i)]  BY <3>1 DEF Part
    <3>3. [Part EXCEPT ![k] = s] = [i \in Chunk |-> P(i)]  BY DEF Part
    <3> QED  BY <3>2, <3>3
  <2> QED  BY <1>2, <1>5, <1>8, <2>3 DEF MR!Report
<1>11. CASE kids # {}
  <2>1. \A i \in Chunk : Awaits(i)' <=> Awaits(i)  BY <1>2, <1>7, <1>8, <1>11
  <2>2. Part' = Part  BY <1>2, <1>3, <1>8, <1>9, <2>1 DEF Part
  <2> QED  BY <1>2, <1>5, <2>2 DEF MR!mrVars
<1> QED  BY <1>10, <1>11

\* With nothing awaited every chunk has reported, and it lacks a result exactly if the
\* fan-out has failed.
LEMMA MergeSees ==
  ASSUME NEW w \in Worker, SoleInv(w), ckpt.merging, ckpt.waiting = {}, answer = "none",
         row[Root].status = "running"
  PROVE  /\ Stage = "mapping" /\ \A i \in Chunk : Part[i] # "todo"
         /\ Merged(ckpt) = IF \A i \in Chunk : Part[i] = "ok" THEN "full" ELSE "error"
<1>1. Stage = "mapping"  BY DEF Stage
<1>2. \A i \in Chunk : ~Awaits(i)  BY DEF Awaits
<1>3. \A i \in Chunk : Part[i] = IF ckpt.results[i] \in Child THEN "ok" ELSE "lost"
  BY <1>2 DEF Part
<1>4. ckpt.failed <=> ~HasAll(ckpt)
  <2>1. \A i \in Chunk : ckpt.results[i] \in Child <=> ckpt.results[i] # NoChild
    BY Known DEF SoleInv, NoneLost, Child
  <2> QED  BY <1>2, <2>1 DEF SoleInv, ChunksAwaited, HasAll
<1>5. Merged(ckpt) = IF \A i \in Chunk : Part[i] = "ok" THEN "full" ELSE "error"
  <2>1. HasAll(ckpt) <=> \A i \in Chunk : Part[i] = "ok"  BY <1>3 DEF HasAll
  <2> QED  BY <1>4, <2>1 DEF Merged
<1> QED  BY <1>1, <1>3, <1>5

LEMMA AnswerMaps ==
  ASSUME NEW w \in Worker, SoleInv(w), StoreResult(w), job[w].exec = Root
  PROVE  MR!Merge \/ MR!GiveUp
<1>1. /\ pc[w] = "result" /\ answer' = job[w].answer /\ UNCHANGED <<row, chunkOf, ckpt>>
  BY DEF StoreResult, children
<1>2. /\ ckpt.waiting = {} /\ answer = "none"
      /\ job[w].answer = "error" \/ (ckpt.merging /\ job[w].answer = Merged(ckpt))
  BY <1>1 DEF SoleInv, UpToDate
<1>3. row[Root].status = "running"  BY <1>1, OwnRowIsClaimed DEF OwnPlace, Claimed
<1>4. Stage' = "done"  BY <1>1, <1>2, <1>3 DEF Stage, Merged
<1>5. Part' = Part  BY <1>1 DEF Part, Awaits
<1>6. CASE ckpt.merging
  <2>1. /\ Stage = "mapping" /\ \A i \in Chunk : Part[i] # "todo"
        /\ Merged(ckpt) = IF \A i \in Chunk : Part[i] = "ok" THEN "full" ELSE "error"
    BY <1>2, <1>3, <1>6, MergeSees
  <2>2. answer' \in IF \A i \in Chunk : Part[i] = "ok" THEN {"full", "error"} ELSE {"error"}
    BY <1>1, <1>2, <2>1
  <2> QED  BY <1>4, <1>5, <2>1, <2>2 DEF MR!Merge, MR!AllReported
<1>7. CASE ~ckpt.merging
  <2>1. Stage = "new"  BY <1>2, <1>3, <1>7 DEF Stage
  <2> QED  BY <1>1, <1>2, <1>4, <1>5, <1>7, <2>1 DEF MR!GiveUp
<1> QED  BY <1>6, <1>7 DEF SoleInv

LEMMA FinishMaps ==
  ASSUME NEW w \in Worker, SoleInv(w), Finish(w)
  PROVE  MR!Fail \/ UNCHANGED MR!mrVars
<1>1. /\ pc[w] = "finish" /\ UNCHANGED <<chunkOf, ckpt, answer>>
      /\ row \in [Exec -> ClaimColumns] /\ Root \in Exec /\ job[w].exec \in Exec
  BY Known DEF Finish, children
<1>2. CASE job[w].exec # Root
  <2>1. row'[Root] = row[Root]  BY <1>1, <1>2 DEF Finish
  <2> QED  BY <1>1, <2>1, Unseen
<1>3. CASE job[w].exec = Root
  <2>1. row[Root].status = "running"  BY <1>1, <1>3, OwnRowIsClaimed DEF OwnPlace, Claimed
  <2>2. CASE job[w].returned
    <3>1. row'[Root].status = "running"
      BY <1>1, <1>3, <2>2, HandoverWrites DEF Finish
    <3> QED  BY <1>1, <2>1, <3>1, Unseen
  <2>3. CASE ~job[w].returned
    <3>1. row'[Root] = SetStatus(row[Root], "failed", "none")
      BY <1>1, <1>3, <2>3 DEF Finish
    <3>2. row'[Root].status = "failed"  BY <1>1, <3>1, StatusWrites
    <3>3. ckpt.waiting = {} /\ answer = "none"
      BY <1>1, <1>3, <2>3 DEF SoleInv, UpToDate
    <3>4. Stage = "new" \/ (Stage = "mapping" /\ \A i \in Chunk : Part[i] # "todo")
      <4>1. CASE ckpt.merging  BY <2>1, <3>3, <4>1, MergeSees
      <4>2. CASE ~ckpt.merging  BY <2>1, <3>3, <4>2 DEF Stage
      <4> QED  BY <4>1, <4>2
    <3>5. Stage' = "failed" /\ Part' = Part  BY <1>1, <3>2 DEF Stage, Part, Awaits
    <3> QED  BY <1>1, <3>4, <3>5 DEF MR!Fail, MR!AllReported
  <2> QED  BY <2>2, <2>3
<1> QED  BY <1>2, <1>3

\* The remaining steps are unseen.
LEMMA QuietMaps ==
  ASSUME NEW w \in Worker, SoleInv(w),
         \/ \E x \in Exec : Claim(w, x)
         \/ Enqueue(w) \/ Suspend(w) \/ Merge(w) \/ MergeAgain(w) \/ LeafReturns(w)
         \/ HandlerRaises(w) \/ Report(w) \/ Integrate(w) \/ Retry(w) \/ WakeParent(w)
         \/ BackendCompletes \/ PlanningFails(w)
  PROVE  UNCHANGED MR!mrVars
<1> USE DEF children
<1>1. row \in [Exec -> ClaimColumns] /\ Root \in Exec /\ row[Root] \in ClaimColumns  BY Known
<1>2. UNCHANGED <<ckpt, answer>>
  BY DEF Claim, Enqueue, Suspend, Merge, MergeAgain, LeafReturns, PlanningFails, HandlerRaises, Report,
     Integrate, Retry, WakeParent, BackendCompletes
<1>3. \A c \in 1 .. spawned : chunkOf'[c] = chunkOf[c]
  <2>1. CASE UNCHANGED chunkOf  BY <2>1
  <2>2. CASE \E i : Spawn(i)  BY <2>2, SpawnKeeps
  <2> QED
    BY <2>1, <2>2 DEF Claim, Enqueue, Suspend, Merge, MergeAgain, LeafReturns, PlanningFails, HandlerRaises,
       Report, Integrate, Retry, WakeParent, BackendCompletes
<1>4. row'[Root].status = "failed" <=> row[Root].status = "failed"
  <2>1. CASE UNCHANGED row  BY <2>1
  <2>2. ASSUME NEW x \in Exec, Claim(w, x) PROVE <1>4
    <3>1. row[x].status = "queued" /\ row' = [row EXCEPT ![x] = ClaimRow(row[x], w, issued + 1)]
      BY <2>2 DEF Claim
    <3>2. ClaimRow(row[x], w, issued + 1).status = "running"
      BY <1>1 DEF ClaimRow, ClaimColumns
    <3> QED  BY <1>1, <3>1, <3>2
  <2>3. ASSUME NEW st \in {"waiting", "queued", "completed"}, row[Root].status # "failed",
               row' = [row EXCEPT ![Root] = SetStatus(row[Root], st, "none")]
        PROVE  <1>4
    BY <1>1, <2>3, StatusWrites
  <2>4. CASE Suspend(w)
    <3>1. job[w].exec = Root /\ pc[w] = "suspend"  BY <2>4, Known DEF Suspend, InPlace
    <3>2. row[Root].status # "failed"  BY <3>1, OwnRowIsClaimed DEF OwnPlace, Claimed
    <3> QED  BY <2>3, <2>4, <3>2 DEF Suspend
  <2>5. CASE WakeParent(w)
    <3>1. row[Root].status # "failed"
      BY <2>5, Known DEF WakeParent, InPlace, Telling, SoleInv, ParentWaits, Busy
    <3> QED  BY <2>3, <2>5, <3>1 DEF WakeParent, WakeRow
  <2>6. CASE BackendCompletes
    <3>1. row[Root].status # "failed"  BY <2>6 DEF BackendCompletes, SoleInv, ParentWaits
    <3> QED  BY <2>3, <2>6, <3>1 DEF BackendCompletes
  <2> QED
    BY <2>1, <2>2, <2>4, <2>5, <2>6 DEF Enqueue, Merge, MergeAgain, LeafReturns, PlanningFails, HandlerRaises,
       Report, Integrate, Retry
<1> QED  BY <1>2, <1>3, <1>4, Unseen

\* With one worker and without mishaps the fan-out is the abstract map-reduce: it ends
\* in an error before anything is enqueued, or after every chunk of the plan has
\* reported for good, and an answer that is no error is made of every chunk.
THEOREM MapReduceRefinement ==
  ASSUME NEW w, Worker = {w}, MaxMishaps = 0
  PROVE  Spec => ImplementsMapReduce
<1>1. Init => MR!MRInit
  <2> SUFFICES ASSUME Init PROVE MR!MRInit
    OBVIOUS
  <2>1. answer = "none" /\ row[Root].status = "queued" /\ ~ckpt.merging
    BY DEF Init, NoCheckpoint, Planned, Exec
  <2> QED  BY <2>1 DEF MR!MRInit, MR!AllTodo, Stage, Part
<1>2. SoleInv(w) /\ [Next]_vars => [MR!MRNext]_(MR!mrVars)
  <2> SUFFICES ASSUME SoleInv(w), [Next]_vars PROVE [MR!MRNext]_(MR!mrVars)
    OBVIOUS
  <2>1. w \in Worker  OBVIOUS
  <2>2. CASE UNCHANGED vars
    <3>1. UNCHANGED <<row, ckpt, answer, chunkOf>>  BY <2>2 DEF vars
    <3> QED  BY <2>1, <3>1, Unseen
  <2>3. CASE Save(w)  BY <2>1, <2>3, SaveMaps DEF MR!MRNext
  <2>4. CASE Record(w)  BY <2>1, <2>4, RecordMaps DEF MR!MRNext
  <2>5. CASE StoreResult(w)
    <3>1. CASE job[w].exec = Root  BY <2>1, <2>5, <3>1, AnswerMaps DEF MR!MRNext
    <3>2. CASE job[w].exec # Root
      <4>1. UNCHANGED <<row, ckpt, answer, chunkOf>>
        BY <2>5, <3>2 DEF StoreResult, children
      <4> QED  BY <2>1, <4>1, Unseen
    <3> QED  BY <3>1, <3>2
  <2>6. CASE Finish(w)  BY <2>1, <2>6, FinishMaps DEF MR!MRNext
  <2> QED  BY <2>1, <2>2, <2>3, <2>4, <2>5, <2>6, SoleSteps, QuietMaps
<1> QED  BY <1>1, <1>2, InvariantAlone, PTL DEF Spec, ImplementsMapReduce, MR!MRSpec
=============================================================================
