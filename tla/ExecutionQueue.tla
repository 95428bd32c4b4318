--------------------------- MODULE ExecutionQueue ---------------------------
(***************************************************************************)
(* Worker processes sharing the executions table: the poll loop of          *)
(* executions.py, the claim of database/execution.py and the writes          *)
(* utils/process_execution.py and agent/loop.py make for the claimed row.    *)
(*                                                                         *)
(* What a handler computes is abstracted to how it ends: it returns a        *)
(* result, raises, suspends its execution until its children finish, or (an  *)
(* agent) goes back to the queue for its next step.  What happens to a      *)
(* parent when a child finishes is FanOut's subject; here a parent may be    *)
(* woken at any time, as the code allows.                                   *)
(*                                                                         *)
(* `mishaps` counts the things nobody plans for (crashes, failed statements, *)
(* cancellations, takeovers by the backend, stray wake-ups); MaxMishaps      *)
(* bounds them and MaxTurns bounds how often a row is put back by its own    *)
(* handler.                                                                 *)
(***************************************************************************)
EXTENDS ExecutionRow

CONSTANTS Exec,         \* executions, numbered in (available_at, created_at) order
          Priority,     \* Priority[e]
          Supports,     \* Supports[w]: executions whose task type w supports
          Parents,      \* executions whose handler enqueues children
          Stepped,      \* executions run by an agent, one step per claim
          MaxTurns,     \* bound on re-queueing and suspending by the handler
          MaxMishaps    \* bound on the environment

ASSUME QueueAssumption ==
  /\ Exec \subseteq Nat
  /\ Exec # {}
  /\ Priority \in [Exec -> {"high", "normal", "background"}]
  /\ Supports \in [Worker -> SUBSET Exec]
  /\ Parents \subseteq Exec
  /\ Stepped \subseteq Exec
  /\ MaxTurns \in Nat
  /\ MaxMishaps \in Nat

VARIABLES row,       \* row[e]: the row of execution e
          issued,    \* number of attempt ids given to committed claims
          pc,        \* pc[w]: where worker w is in its loop
          job,       \* job[w]: what w claimed, and how its handler ended
          bgOk,      \* bgOk[w]: w's last answer of _is_background_eligible
          offPeak,   \* the hour is within the configured background window
          mishaps

rowVars == <<row, issued>>
envVars == <<offPeak, mishaps>>
vars == <<row, issued, pc, job, bgOk, offPeak, mishaps>>

Outcome == {"none", "return", "raise", "suspend", "continue"}
Place   == {"idle", "select", "claiming", "handler", "store", "release", "dead"}

\* author: the attempt whose result the `result` column holds.
\* turns: how often the handler put the row back (the `step` column of an agent).
Row == [status  : Status, phase : Phase, owner : Worker \cup {NoWorker},
        attempt : Nat, author : Nat, turns : Nat]
Job == [exec : Exec, attempt : Nat, outcome : Outcome]

NewRow == [status |-> "queued", phase |-> "none", owner |-> NoWorker,
           attempt |-> NoAttempt, author |-> NoAttempt, turns |-> 0]

NoJob == [exec |-> CHOOSE e \in Exec : TRUE, attempt |-> NoAttempt,
          outcome |-> "none"]

Init ==
  /\ row = [e \in Exec |-> NewRow]
  /\ issued = 0
  /\ pc = [w \in Worker |-> "idle"]
  /\ job = [w \in Worker |-> NoJob]
  /\ bgOk = [w \in Worker |-> FALSE]
  /\ offPeak \in BOOLEAN
  /\ mishaps = 0

\* Worker w goes back to its loop: the variables of the iteration are gone.
BackToLoop(w, place) ==
  /\ pc' = [pc EXCEPT ![w] = place]
  /\ job' = [job EXCEPT ![w] = NoJob]
  /\ bgOk' = [bgOk EXCEPT ![w] = FALSE]

-----------------------------------------------------------------------------
(* Claiming *)

Rank(e) == CASE Priority[e] = "high"   -> 0
             [] Priority[e] = "normal" -> 1
             [] OTHER                  -> 2

\* Mutant of Precedes: the oldest first, whatever its priority.
PrecedesByAge(e, f) == e < f

\* ORDER BY priority, available_at, created_at
Precedes(e, f) == Rank(e) < Rank(f) \/ (Rank(e) = Rank(f) /\ e < f)

\* The row lock of a claim that has not committed yet.
Locked(e) == \E w \in Worker : pc[w] = "claiming" /\ job[w].exec = e

\* Mutant of Candidates: no FOR UPDATE SKIP LOCKED.
CandidatesUnlocked(w) ==
  {e \in Supports[w] : /\ row[e].status = "queued"
                       /\ Priority[e] = "background" => bgOk[w]}

\* Rows the SELECT ... FOR UPDATE SKIP LOCKED of worker w can return.
Candidates(w) ==
  {e \in Supports[w] : /\ row[e].status = "queued"
                       /\ Priority[e] = "background" => bgOk[w]
                       /\ ~Locked(e)}

\* _is_background_eligible counts queued work of every type, of any worker.
QueueIdle == \A e \in Exec : row[e].status = "queued" => Priority[e] = "background"

\* Mutant of CheckBackground: the background window is not looked at.
CheckIdleOnly(w) ==
  /\ pc[w] = "idle"
  /\ Supports[w] # {}
  /\ bgOk' = [bgOk EXCEPT ![w] = QueueIdle]
  /\ pc' = [pc EXCEPT ![w] = "select"]
  /\ UNCHANGED <<rowVars, job, envVars>>

\* The claim's first statement.  A worker that supports nothing never gets here.
CheckBackground(w) ==
  /\ pc[w] = "idle"
  /\ Supports[w] # {}
  /\ bgOk' = [bgOk EXCEPT ![w] = offPeak \/ QueueIdle]
  /\ pc' = [pc EXCEPT ![w] = "select"]
  /\ UNCHANGED <<rowVars, job, envVars>>

\* Its second statement, which may run long after the first: the best row free
\* to take is locked.
SelectRow(w) ==
  /\ pc[w] = "select"
  /\ \E e \in Candidates(w) :
       /\ \A f \in Candidates(w) \ {e} : Precedes(e, f)
       /\ job' = [job EXCEPT ![w] = [NoJob EXCEPT !.exec = e]]
  /\ pc' = [pc EXCEPT ![w] = "claiming"]
  /\ bgOk' = [bgOk EXCEPT ![w] = FALSE]
  /\ UNCHANGED <<rowVars, envVars>>

SelectNothing(w) ==
  /\ pc[w] = "select"
  /\ Candidates(w) = {}
  /\ BackToLoop(w, "idle")
  /\ UNCHANGED <<rowVars, envVars>>

CommitClaim(w) ==
  /\ pc[w] = "claiming"
  /\ issued' = issued + 1
  /\ row' = [row EXCEPT ![job[w].exec] = ClaimRow(@, w, issued + 1)]
  /\ job' = [job EXCEPT ![w].attempt = issued + 1]
  /\ pc' = [pc EXCEPT ![w] = "handler"]
  /\ UNCHANGED <<bgOk, envVars>>

-----------------------------------------------------------------------------
(* Running the handler and recording how it ended *)

\* The handler (or agent step) runs without a transaction of its own.
HandlerEnds(w, o) ==
  /\ pc[w] = "handler"
  /\ o # "none"
  /\ o = "suspend" => job[w].exec \in Parents
  /\ o = "continue" => job[w].exec \in Stepped
  /\ o \in {"suspend", "continue"} => row[job[w].exec].turns < MaxTurns
  /\ job' = [job EXCEPT ![w].outcome = o]
  /\ pc' = [pc EXCEPT ![w] = IF o = "raise" THEN "release" ELSE "store"]
  /\ UNCHANGED <<rowVars, bgOk, envVars>>

Holding(w) == Holds(row[job[w].exec], job[w].attempt)

\* The two columns a handler's outcome is stored in.
WithResult(r, a)  == [r EXCEPT !.author = a]
WithCheckpoint(r) == [r EXCEPT !.turns = @ + 1]

\* Mutant of StoreResult: the write is not fenced.
StoreResultUnfenced(w) ==
  /\ pc[w] = "store"
  /\ job[w].outcome = "return"
  /\ row' = [row EXCEPT ![job[w].exec] = WithResult(@, job[w].attempt)]
  /\ pc' = [pc EXCEPT ![w] = "release"]
  /\ UNCHANGED <<issued, job, bgOk, envVars>>

\* update_execution_result
StoreResult(w) ==
  /\ pc[w] = "store"
  /\ job[w].outcome = "return"
  /\ Holding(w)
  /\ row' = [row EXCEPT ![job[w].exec] = WithResult(@, job[w].attempt)]
  /\ pc' = [pc EXCEPT ![w] = "release"]
  /\ UNCHANGED <<issued, job, bgOk, envVars>>

\* update_agent_progress or update_agent_state
StoreCheckpoint(w) ==
  /\ pc[w] = "store"
  /\ job[w].outcome # "return"
  /\ Holding(w)
  /\ row' = [row EXCEPT ![job[w].exec] = WithCheckpoint(@)]
  /\ pc' = [pc EXCEPT ![w] = "release"]
  /\ UNCHANGED <<issued, job, bgOk, envVars>>

\* Mutants of Recorded: status and phase swapped; the claim is kept.
RecordedSwapped(r, o) == SetStatus(r, "backend_finalization", "running")
RecordedAsRunning(r, o) == SetStatus(r, "running", "worker_execution")

\* How each outcome is recorded by update_execution_status.
Recorded(r, o) ==
  CASE o = "return"   -> SetStatus(r, "running", "backend_finalization")
    [] o = "raise"    -> SetStatus(r, "failed", "none")
    [] o = "suspend"  -> SetStatus(r, "waiting", "none")
    [] o = "continue" -> SetStatus(r, "queued", "none")

\* Mutant of Release: the write is not fenced.
ReleaseUnfenced(w) ==
  /\ pc[w] = "release"
  /\ row' = [row EXCEPT ![job[w].exec] = Recorded(@, job[w].outcome)]
  /\ BackToLoop(w, "idle")
  /\ UNCHANGED <<issued, envVars>>

Release(w) ==
  /\ pc[w] = "release"
  /\ Holding(w)
  /\ row' = [row EXCEPT ![job[w].exec] = Recorded(@, job[w].outcome)]
  /\ BackToLoop(w, "idle")
  /\ UNCHANGED <<issued, envVars>>

\* A fenced write that matches no row: the rest of the job is dropped.
Fenced(w) ==
  /\ pc[w] \in {"store", "release"}
  /\ ~Holding(w)
  /\ BackToLoop(w, "idle")
  /\ UNCHANGED <<rowVars, envVars>>

-----------------------------------------------------------------------------
(* Mishaps *)

Mishap == mishaps < MaxMishaps /\ mishaps' = mishaps + 1

\* A statement raises; the method rolls back, reports nothing done, and the
\* worker goes on with its loop.
StatementFails(w) ==
  /\ pc[w] \in {"select", "claiming", "store", "release"}
  /\ Mishap
  /\ BackToLoop(w, "idle")
  /\ UNCHANGED <<rowVars, offPeak>>

\* The process dies, or exits on SIGTERM in the middle of a handler: it leaves
\* its rows as they are.
Crash(w) ==
  /\ pc[w] # "dead"
  /\ Mishap
  /\ BackToLoop(w, "dead")
  /\ UNCHANGED <<rowVars, offPeak>>

Restart(w) ==
  /\ pc[w] = "dead"
  /\ BackToLoop(w, "idle")
  /\ UNCHANGED <<rowVars, envVars>>

\* The backend ends an execution that waits for it.
BackendCompletes(e) ==
  /\ row[e].phase = "backend_finalization"
  /\ row' = [row EXCEPT ![e] = SetStatus(@, "completed", "none")]
  /\ UNCHANGED <<issued, pc, job, bgOk, envVars>>

\* The backend cancels an execution that has not ended.
BackendCancels(e) ==
  /\ row[e].status \notin Terminal
  /\ ~Locked(e)
  /\ Mishap
  /\ row' = [row EXCEPT ![e] = SetStatus(@, "cancelled", "none")]
  /\ UNCHANGED <<issued, pc, job, bgOk, offPeak>>

\* The backend takes a claimed execution away from a worker it believes dead.
BackendRequeues(e) ==
  /\ Claimed(row[e])
  /\ Mishap
  /\ row' = [row EXCEPT ![e] = SetStatus(@, "queued", "none")]
  /\ UNCHANGED <<issued, pc, job, bgOk, offPeak>>

\* A child of e finished: its worker wakes e, whatever e is doing.
Wake(e) ==
  /\ e \in Parents
  /\ ~Locked(e)
  /\ \/ row[e].status = "waiting" /\ UNCHANGED mishaps
     \/ row[e].status # "waiting" /\ Mishap
  /\ row' = [row EXCEPT ![e] = WakeRow(@)]
  /\ UNCHANGED <<issued, pc, job, bgOk, offPeak>>

ClockTurns ==
  /\ offPeak' = ~offPeak
  /\ UNCHANGED <<rowVars, pc, job, bgOk, mishaps>>

-----------------------------------------------------------------------------
WorkerStep(w) ==
  \/ CheckBackground(w) \/ SelectRow(w) \/ SelectNothing(w) \/ CommitClaim(w)
  \/ \E o \in Outcome : HandlerEnds(w, o)
  \/ StoreResult(w) \/ StoreCheckpoint(w) \/ Release(w) \/ Fenced(w)

Environment ==
  \/ \E w \in Worker : StatementFails(w) \/ Crash(w) \/ Restart(w)
  \/ \E e \in Exec : BackendCompletes(e) \/ BackendCancels(e)
                       \/ BackendRequeues(e) \/ Wake(e)
  \/ ClockTurns

Next == (\E w \in Worker : WorkerStep(w)) \/ Environment

Spec == Init /\ [][Next]_vars

\* A live worker keeps polling and its handlers end.  Children of a suspended
\* execution finish and wake it.  The background window opens every night and
\* lasts for hours, a poll for a second: a worker that keeps coming back to its
\* loop polls inside the window again and again (stated outright, as the clock
\* of the model does not know how long its states last).
Fairness ==
  /\ \A w \in Worker : WF_vars(WorkerStep(w))
  /\ \A e \in Exec : WF_vars(row[e].status = "waiting" /\ Wake(e))
  /\ WF_vars(ClockTurns)
  /\ \A w \in Worker :
       []<>(pc[w] = "idle") => []<><<offPeak /\ CheckBackground(w)>>_vars

FairSpec == Spec /\ Fairness

-----------------------------------------------------------------------------
(* Properties *)

TypeOK ==
  /\ row \in [Exec -> Row]
  /\ issued \in Nat
  /\ pc \in [Worker -> Place]
  /\ job \in [Worker -> Job]
  /\ bgOk \in [Worker -> BOOLEAN]
  /\ offPeak \in BOOLEAN
  /\ mishaps \in Nat

Working(w) == pc[w] \in {"handler", "store", "release"}

\* The row of a claimed execution names the worker and the attempt that claimed
\* it, and no row names one otherwise: whatever releases, fails, cancels, takes
\* over or wakes a row also takes the claim's columns off it.
ClaimColumnsAgree ==
  \A e \in Exec :
    /\ Claimed(row[e]) <=> row[e].attempt # NoAttempt
    /\ Claimed(row[e]) <=> row[e].owner \in Worker

\* Of several workers that work on the same execution (one was presumed dead,
\* or the parent was woken under it), at most one passes the attempt fence.
SingleHolder ==
  \A w, v \in Worker :
    /\ w # v /\ Working(w) /\ Working(v)
    /\ job[w].exec = job[v].exec
    /\ Holding(w)
    => ~Holding(v)

\* Atomic claiming (README: "prevent two workers from running the same
\* execution"): until something goes wrong no execution runs in two workers.
NoDoubleRun ==
  mishaps = 0 =>
    \A w, v \in Worker :
      w # v /\ Working(w) /\ Working(v) => job[w].exec # job[v].exec

\* What is handed to the backend is the result of the attempt that hands it
\* over, never one an earlier attempt left in the row.
HandedOver(r) == r.phase = "backend_finalization"
HandOverOwnResult ==
  [][\A e \in Exec : HandedOver(row'[e]) /\ ~HandedOver(row[e])
                        => row[e].author = row[e].attempt]_vars

\* The result the backend is finalizing, or has finalized, is not replaced under
\* it by a worker that was slow, and a leaf execution that ended stays ended.
SettledIsFinal ==
  [][\A e \in Exec :
       /\ HandedOver(row[e]) => row'[e].author = row[e].author
       /\ e \notin Parents /\ row[e].status \in Terminal
            => row'[e].status = row[e].status]_vars

\* Background work yields: although idleness is checked in an earlier statement
\* than the one that picks the row, no worker starts a background execution
\* while it could have taken a high or normal one.
BackgroundYields ==
  [][\A w \in Worker :
       pc[w] = "select" /\ pc'[w] = "claiming" /\ Priority[job'[w].exec] = "background"
         => \A f \in Supports[w] :
              row[f].status = "queued" /\ ~Locked(f) => Priority[f] = "background"]_vars

\* The queue implements the lease: attempts acquire, write, settle and release.
L == INSTANCE Lease WITH
       holder  <- [e \in Exec |-> row[e].attempt],
       draft   <- [e \in Exec |-> row[e].author],
       settled <- [e \in Exec |-> IF HandedOver(row[e]) \/ row[e].status = "completed"
                                  THEN row[e].author ELSE NoAttempt],
       fresh   <- issued
ImplementsLease == L!LeaseSpec

\* Every claimed execution is released by the worker that claimed it.
ClaimIsReleased == \A e \in Exec : Claimed(row[e]) ~> ~Claimed(row[e])

\* No execution that some worker supports stays in the queue for ever: background
\* work gets its turn although work nobody supports keeps the queue non-empty.
QueuedIsServed ==
  \A e \in UNION {Supports[w] : w \in Worker} :
    row[e].status = "queued" ~> row[e].status # "queued"

\* README, "Heartbeat & recovery": the execution of a worker that dies while it
\* runs is queued again.
DeadWorkersExecutionIsRequeued ==
  \A e \in Exec, w \in Worker :
    Claimed(row[e]) /\ row[e].owner = w /\ pc[w] = "dead" ~> row[e].status = "queued"
=============================================================================
