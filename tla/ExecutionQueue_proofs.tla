----------------------- MODULE ExecutionQueue_proofs -----------------------
(***************************************************************************)
(* Proofs that ExecutionQueue keeps its invariants, for any number of       *)
(* workers and executions, any priorities and any bounds.                   *)
(***************************************************************************)
EXTENDS ExecutionQueue, TLAPS

USE NoWorkerAssumption, QueueAssumption DEF NoAttempt

-----------------------------------------------------------------------------
(* The inductive invariant *)

\* Attempt ids in use have been issued, and no two jobs share one.
AttemptsIssued ==
  /\ \A e \in Exec : row[e].attempt <= issued
  /\ \A w \in Worker : Working(w) => job[w].attempt \in 1..issued
  /\ \A w, v \in Worker :
       w # v /\ Working(w) /\ Working(v) => job[w].attempt # job[v].attempt

\* A row picked by an uncommitted claim is still queued, and picked once.
ClaimingIsExclusive ==
  /\ \A w \in Worker : pc[w] = "claiming" => row[job[w].exec].status = "queued"
  /\ \A w, v \in Worker :
       w # v /\ pc[w] = "claiming" /\ pc[v] = "claiming" => job[w].exec # job[v].exec

\* A worker about to hand a result over, and still holding the row, stored it.
ReturnIsStored ==
  \A w \in Worker :
    pc[w] = "release" /\ job[w].outcome = "return" /\ Holding(w)
      => row[job[w].exec].author = job[w].attempt

\* A handler that ended says how; only "raise" skips the store.
OutcomeKnown ==
  \A w \in Worker :
    /\ pc[w] = "store" => job[w].outcome \in {"return", "suspend", "continue"}
    /\ pc[w] = "release" => job[w].outcome # "none"

\* Nobody takes a row away from its worker before the first mishap.
UndisturbedHolds ==
  mishaps = 0 => \A w \in Worker : Working(w) => Holding(w)

\* Only a running row has a phase.
PhaseOfStatus == \A e \in Exec : row[e].status # "running" => row[e].phase = "none"

IInv ==
  /\ TypeOK
  /\ ClaimColumnsAgree
  /\ AttemptsIssued
  /\ ClaimingIsExclusive
  /\ OutcomeKnown
  /\ ReturnIsStored
  /\ UndisturbedHolds
  /\ PhaseOfStatus

-----------------------------------------------------------------------------
(* Types *)

\* What the row operators return is a row again.
LEMMA SetStatusType ==
  ASSUME NEW r \in Row, NEW st \in Status, NEW ph \in Phase
  PROVE  SetStatus(r, st, ph) \in Row
  BY DEF Row, SetStatus

LEMMA ClaimRowType ==
  ASSUME NEW r \in Row, NEW w \in Worker, NEW a \in Nat
  PROVE  ClaimRow(r, w, a) \in Row
  BY DEF Row, Status, Phase, ClaimRow

LEMMA StoredRowType ==
  ASSUME NEW r \in Row, NEW a \in Nat
  PROVE  WithResult(r, a) \in Row /\ WithCheckpoint(r) \in Row
  BY DEF Row, WithResult, WithCheckpoint

\* Whatever way a handler ends, recording it leaves a row.
LEMMA RecordedType ==
  ASSUME NEW r \in Row, NEW o \in Outcome \ {"none"}
  PROVE  Recorded(r, o) \in Row
<1>1. /\ {"running", "failed", "waiting", "queued"} \subseteq Status
      /\ {"none", "backend_finalization"} \subseteq Phase
  BY DEF Status, Phase
<1>2. o \in {"return", "raise", "suspend", "continue"}
  BY DEF Outcome
<1> QED
  BY <1>1, <1>2, SetStatusType DEF Recorded

LEMMA NoJobType == NoJob \in Job
  BY DEF NoJob, Job, Outcome

\* Going back to the loop keeps the types of the iteration's variables.
LEMMA BackToLoopType ==
  ASSUME TypeOK, NEW w \in Worker, NEW p \in Place, BackToLoop(w, p)
  PROVE  /\ pc' \in [Worker -> Place]
         /\ job' \in [Worker -> Job]
         /\ bgOk' \in [Worker -> BOOLEAN]
  BY NoJobType DEF TypeOK, BackToLoop

TypeInv == TypeOK /\ OutcomeKnown

\* One step keeps the types.  That a handler's outcome is known when it is
\* recorded is needed: update_execution_status gets no status otherwise.
LEMMA TypeStep == TypeInv /\ [Next]_vars => TypeInv'
  <1> SUFFICES ASSUME TypeInv, [Next]_vars PROVE TypeInv'
    OBVIOUS
  <1> USE DEF TypeInv, TypeOK, OutcomeKnown, rowVars, envVars, Mishap
  <1>1. ASSUME NEW w \in Worker, CheckBackground(w) PROVE TypeInv'
    BY <1>1 DEF CheckBackground, QueueIdle, Place
  <1>2. ASSUME NEW w \in Worker, SelectRow(w) PROVE TypeInv'
    <2>1. \A e \in Exec : [NoJob EXCEPT !.exec = e] \in Job
      BY NoJobType DEF Job, NoJob
    <2>2. PICK e \in Exec : job' = [job EXCEPT ![w] = [NoJob EXCEPT !.exec = e]]
      BY <1>2 DEF SelectRow, Candidates
    <2>3. job' \in [Worker -> Job]
      BY <2>1, <2>2
    <2>4. \A v \in Worker : v # w => job'[v] = job[v] /\ pc'[v] = pc[v]
      BY <1>2, <2>2 DEF SelectRow
    <2> QED
      BY <1>2, <2>3, <2>4 DEF SelectRow, Place
  <1>3. ASSUME NEW w \in Worker, SelectNothing(w) PROVE TypeInv'
    BY <1>3, BackToLoopType DEF SelectNothing, BackToLoop, Place
  <1>4. ASSUME NEW w \in Worker, CommitClaim(w) PROVE TypeInv'
    <2>1. job[w].exec \in Exec /\ issued + 1 \in Nat
      BY DEF Job
    <2>2. row' \in [Exec -> Row]
      BY <1>4, <2>1, ClaimRowType DEF CommitClaim
    <2>3. job' \in [Worker -> Job]
      BY <1>4, <2>1 DEF CommitClaim, Job
    <2> QED
      BY <1>4, <2>1, <2>2, <2>3 DEF CommitClaim, Place
  <1>5. ASSUME NEW w \in Worker, NEW o \in Outcome, HandlerEnds(w, o) PROVE TypeInv'
    BY <1>5 DEF HandlerEnds, Place, Job, Outcome
  <1>6. ASSUME NEW w \in Worker, StoreResult(w) \/ StoreCheckpoint(w) PROVE TypeInv'
    <2>1. job[w].exec \in Exec /\ job[w].attempt \in Nat
      BY DEF Job
    <2>2. row' \in [Exec -> Row]
      <3>1. \A e \in Exec : row[e] \in Row
        OBVIOUS
      <3>2. CASE StoreResult(w)
        <4>1. WithResult(row[job[w].exec], job[w].attempt) \in Row
          BY <2>1, <3>1, StoredRowType
        <4> QED
          BY <2>1, <3>2, <4>1 DEF StoreResult
      <3>3. CASE StoreCheckpoint(w)
        <4>1. WithCheckpoint(row[job[w].exec]) \in Row
          BY <2>1, <3>1, StoredRowType
        <4> QED
          BY <2>1, <3>3, <4>1 DEF StoreCheckpoint
      <3> QED
        BY <1>6, <3>2, <3>3
    <2> QED
      BY <1>6, <2>2 DEF StoreResult, StoreCheckpoint, Place
  <1>7. ASSUME NEW w \in Worker, Release(w) PROVE TypeInv'
    <2>1. row' \in [Exec -> Row]
      BY <1>7, RecordedType DEF Release, Job
    <2> QED
      BY <1>7, <2>1, BackToLoopType DEF Release, BackToLoop, Place
  <1>8. ASSUME NEW w \in Worker, Fenced(w) PROVE TypeInv'
    BY <1>8, BackToLoopType DEF Fenced, BackToLoop, Place
  <1>9. ASSUME NEW w \in Worker, StatementFails(w) \/ Crash(w) \/ Restart(w)
        PROVE  TypeInv'
    BY <1>9, BackToLoopType DEF StatementFails, Crash, Restart, BackToLoop, Place
  <1>10. ASSUME NEW e \in Exec, NEW st \in Status,
                row' = [row EXCEPT ![e] = SetStatus(@, st, "none")],
                mishaps' \in Nat, UNCHANGED <<issued, pc, job, bgOk, offPeak>>
         PROVE  TypeInv'
    BY <1>10, SetStatusType DEF Phase
  <1>11. ASSUME NEW e \in Exec,
                BackendCompletes(e) \/ BackendCancels(e) \/ BackendRequeues(e) \/ Wake(e)
         PROVE  TypeInv'
    <2>1. /\ {"completed", "cancelled", "queued"} \subseteq Status
          /\ mishaps + 1 \in Nat
      BY DEF Status
    <2>2. CASE BackendCompletes(e)
      BY <1>10, <2>1, <2>2 DEF BackendCompletes
    <2>3. CASE BackendCancels(e)
      BY <1>10, <2>1, <2>3 DEF BackendCancels
    <2>4. CASE BackendRequeues(e)
      BY <1>10, <2>1, <2>4 DEF BackendRequeues
    <2>5. CASE Wake(e)
      BY <1>10, <2>1, <2>5 DEF Wake, WakeRow
    <2> QED
      BY <1>11, <2>2, <2>3, <2>4, <2>5
  <1>12. CASE ClockTurns
    BY <1>12 DEF ClockTurns
  <1>13. CASE UNCHANGED vars
    BY <1>13 DEF vars
  <1> QED
    BY <1>1, <1>2, <1>3, <1>4, <1>5, <1>6, <1>7, <1>8, <1>9, <1>11, <1>12, <1>13
       DEF Next, WorkerStep, Environment

\* Every state has the types the table and the worker's variables have
\* (database/execution.py, executions.py).
THEOREM TypeInvariant == Spec => []TypeOK
<1>1. Init => TypeInv
  BY NoJobType
     DEF Init, TypeInv, TypeOK, OutcomeKnown, NewRow, Row, Status, Phase, Place
<1>2. TypeInv => TypeOK
  BY DEF TypeInv
<1> QED
  BY <1>1, <1>2, TypeStep, PTL DEF Spec

-----------------------------------------------------------------------------
(* Safety *)

\* What the row operators write, column by column.
LEMMA SetStatusColumns ==
  ASSUME NEW r \in Row, NEW st \in Status, NEW ph \in Phase
  PROVE  LET s == SetStatus(r, st, ph) IN
         /\ s.status = st /\ s.phase = ph
         /\ s.author = r.author /\ s.turns = r.turns
         /\ Releases(st, ph) => s.owner = NoWorker /\ s.attempt = NoAttempt
  BY DEF Row, SetStatus

LEMMA ClaimRowColumns ==
  ASSUME NEW r \in Row, NEW w \in Worker, NEW a \in Nat
  PROVE  LET s == ClaimRow(r, w, a) IN
         /\ s.status = "running" /\ s.phase = "worker_execution"
         /\ s.owner = w /\ s.attempt = a /\ s.author = r.author
  BY DEF Row, ClaimRow

\* Every outcome gives the row up, and only a return hands it over.
LEMMA RecordedColumns ==
  ASSUME NEW r \in Row, NEW o \in Outcome \ {"none"}
  PROVE  LET s == Recorded(r, o) IN
         /\ s.owner = NoWorker /\ s.attempt = NoAttempt /\ s.author = r.author
         /\ s.phase \in {"none", "backend_finalization"}
         /\ HandedOver(s) <=> o = "return"
         /\ HandedOver(s) => s.status = "running"
         /\ s.status # "running" => s.phase = "none"
<1>1. o \in {"return", "raise", "suspend", "continue"}
  BY DEF Outcome
<1> QED
  BY <1>1 DEF Row, Recorded, SetStatus, Releases, Terminal, HandedOver

\* What the inductive invariant says beyond the types.
SafetyInv ==
  /\ ClaimColumnsAgree
  /\ AttemptsIssued
  /\ ClaimingIsExclusive
  /\ ReturnIsStored
  /\ UndisturbedHolds
  /\ PhaseOfStatus

\* The types these proofs use, by column.
LEMMA Columns ==
  ASSUME TypeInv
  PROVE  /\ issued \in Nat
         /\ \A e \in Exec : row[e] \in Row /\ row[e].attempt \in Nat
         /\ \A w \in Worker : job[w].exec \in Exec /\ job[w].attempt \in Nat
  BY DEF TypeInv, TypeOK, Row, Job

\* A worker that passes its fence is the only one to pass it for that row, and
\* the row is claimed.
LEMMA HolderIsAlone ==
  ASSUME TypeInv, AttemptsIssued, ClaimColumnsAgree, NEW w \in Worker, Working(w)
  PROVE  /\ job[w].attempt # NoAttempt
         /\ Holding(w) => Claimed(row[job[w].exec])
         /\ \A v \in Worker : w # v /\ Working(v) /\ Holding(w) /\ Holding(v)
              => job[w].exec # job[v].exec
<1>1. job[w].attempt # NoAttempt
  BY Columns DEF AttemptsIssued
<1> QED
  BY <1>1, Columns DEF AttemptsIssued, ClaimColumnsAgree, Holding, Holds

\* Steps of a worker that change neither the table nor what another worker does,
\* and after which the worker either has no job or still has the one it had.
LEMMA LocalStep ==
  ASSUME TypeInv, TypeInv', SafetyInv, NEW w \in Worker,
         UNCHANGED <<row, issued>>, mishaps' = 0 => mishaps = 0,
         \A v \in Worker : v # w => pc'[v] = pc[v] /\ job'[v] = job[v],
         \/ pc'[w] \in {"idle", "select", "dead"}
         \/ /\ pc[w] = "handler" /\ pc'[w] \in {"store", "release"}
            /\ job'[w].exec = job[w].exec /\ job'[w].attempt = job[w].attempt
            /\ pc'[w] = "release" => job'[w].outcome = "raise"
  PROVE  SafetyInv'
  BY DEF SafetyInv, ClaimColumnsAgree, AttemptsIssued, ClaimingIsExclusive,
         ReturnIsStored, UndisturbedHolds, PhaseOfStatus, Working, Holding, Holds,
         Claimed, TypeInv, TypeOK

\* Steps that take row e from whoever had it.
LEMMA TakenStep ==
  ASSUME TypeInv, TypeInv', SafetyInv, NEW e \in Exec,
         UNCHANGED <<issued, pc, job>>, ~Locked(e),
         \A f \in Exec : f # e => row'[f] = row[f],
         row'[e].attempt = NoAttempt, row'[e].owner = NoWorker,
         row'[e].phase = "none", row'[e].status # "running",
         mishaps' = 0 => mishaps = 0 /\ ~Claimed(row[e])
  PROVE  SafetyInv'
<1> USE DEF SafetyInv
<1>1. \A w \in Worker :
        /\ Working(w)' <=> Working(w)
        /\ Working(w) => job[w].attempt # NoAttempt
        /\ job[w].exec # e => (Holding(w)' <=> Holding(w))
        /\ job[w].exec = e /\ Working(w) => ~Holding(w)'
  BY Columns, HolderIsAlone DEF Working, Holding, Holds
<1>2. ClaimColumnsAgree'
  BY DEF ClaimColumnsAgree, Claimed
<1>3. AttemptsIssued'
  BY Columns DEF AttemptsIssued, Working
<1>4. ClaimingIsExclusive'
  BY Columns DEF ClaimingIsExclusive, Locked
<1>5. ReturnIsStored'
  BY <1>1, Columns DEF ReturnIsStored, Working
<1>6. UndisturbedHolds'
  <2> SUFFICES ASSUME mishaps' = 0, NEW w \in Worker, Working(w)'
               PROVE  Holding(w)'
    BY DEF UndisturbedHolds
  <2>1. Working(w) /\ Holding(w) /\ ~Claimed(row[e])
    BY <1>1 DEF UndisturbedHolds
  <2>2. job[w].exec # e
    BY <2>1, HolderIsAlone
  <2> QED
    BY <1>1, <2>1, <2>2
<1>7. PhaseOfStatus'
  BY DEF PhaseOfStatus
<1> QED
  BY <1>2, <1>3, <1>4, <1>5, <1>6, <1>7

\* Steps in which worker w, holding its row, writes to it: the result or the
\* checkpoint, or how the handler ended.
LEMMA StoreStep ==
  ASSUME TypeInv, TypeInv', SafetyInv, NEW w \in Worker,
         StoreResult(w) \/ StoreCheckpoint(w)
  PROVE  SafetyInv'
<1> USE DEF SafetyInv
<1> DEFINE x == job[w].exec
<1>1. /\ x \in Exec /\ pc[w] = "store" /\ Working(w) /\ Holding(w)
      /\ UNCHANGED <<issued, job, bgOk, offPeak, mishaps>>
      /\ pc' = [pc EXCEPT ![w] = "release"]
      /\ \A v \in Worker : Working(v)' <=> Working(v)
  BY DEF StoreResult, StoreCheckpoint, envVars, Working, Job, TypeInv, TypeOK
<1>2. /\ \A e \in Exec : e # x => row'[e] = row[e]
      /\ row'[x].status = row[x].status /\ row'[x].phase = row[x].phase
      /\ row'[x].owner = row[x].owner /\ row'[x].attempt = row[x].attempt
      /\ job[w].outcome = "return" => row'[x].author = job[w].attempt
  BY <1>1 DEF StoreResult, StoreCheckpoint, WithResult, WithCheckpoint, Row, TypeInv, TypeOK
<1>3. \A v \in Worker : Holding(v)' <=> Holding(v)
  BY <1>1, <1>2, Columns DEF Holding, Holds
<1>4. \A v \in Worker : v # w /\ Working(v) /\ Holding(v) => job[v].exec # x
  BY <1>1, HolderIsAlone
<1>5. ClaimColumnsAgree'
  BY <1>2 DEF ClaimColumnsAgree, Claimed
<1>6. AttemptsIssued'
  BY <1>1, <1>2 DEF AttemptsIssued
<1>7. ClaimingIsExclusive'
  BY <1>1, <1>2, Columns DEF ClaimingIsExclusive
<1>8. ReturnIsStored'
  <2> SUFFICES ASSUME NEW v \in Worker, pc'[v] = "release", job[v].outcome = "return",
                      Holding(v)
               PROVE  row'[job[v].exec].author = job[v].attempt
    BY <1>1, <1>3 DEF ReturnIsStored
  <2>1. CASE v = w
    BY <1>2, <2>1
  <2>2. CASE v # w
    <3>1. pc[v] = "release" /\ job[v].exec # x
      BY <1>1, <1>4, <2>2 DEF Working
    <3> QED
      BY <1>2, <3>1, Columns DEF ReturnIsStored
  <2> QED
    BY <2>1, <2>2
<1>9. UndisturbedHolds'
  BY <1>1, <1>3 DEF UndisturbedHolds
<1>10. PhaseOfStatus'
  BY <1>2 DEF PhaseOfStatus
<1> QED
  BY <1>5, <1>6, <1>7, <1>8, <1>9, <1>10

LEMMA ReleaseStep ==
  ASSUME TypeInv, TypeInv', SafetyInv, NEW w \in Worker, Release(w)
  PROVE  SafetyInv'
<1> USE DEF SafetyInv
<1> DEFINE x == job[w].exec
<1>1. /\ x \in Exec /\ row[x] \in Row /\ pc[w] = "release" /\ Working(w) /\ Holding(w)
      /\ job[w].outcome \in Outcome \ {"none"}
      /\ UNCHANGED <<issued, offPeak, mishaps>>
      /\ pc'[w] = "idle"
      /\ \A v \in Worker : v # w => pc'[v] = pc[v] /\ job'[v] = job[v]
  BY DEF Release, BackToLoop, envVars, Working, Job, OutcomeKnown, TypeInv, TypeOK
<1>2. /\ \A e \in Exec : e # x => row'[e] = row[e]
      /\ row'[x] = Recorded(row[x], job[w].outcome)
  BY <1>1 DEF Release, TypeInv, TypeOK
<1>3. /\ row'[x].owner = NoWorker /\ row'[x].attempt = NoAttempt
      /\ row'[x].phase # "worker_execution"
      /\ row'[x].status # "running" => row'[x].phase = "none"
  BY <1>1, <1>2, RecordedColumns
<1>4. \A v \in Worker : v # w /\ Working(v) /\ Holding(v) => job[v].exec # x
  BY <1>1, HolderIsAlone
<1>5. row[x].status = "running"
  BY <1>1, HolderIsAlone DEF Claimed
<1>6. \A v \in Worker : Working(v)' => v # w /\ Working(v) /\ job'[v] = job[v]
  BY <1>1 DEF Working
<1>7. ClaimColumnsAgree'
  BY <1>2, <1>3 DEF ClaimColumnsAgree, Claimed
<1>8. AttemptsIssued'
  <2>1. \A e \in Exec : row'[e].attempt <= issued
    <3>1. 0 <= issued
      BY Columns
    <3> QED
      BY <1>2, <1>3, <3>1 DEF AttemptsIssued
  <2>2. \A v \in Worker : Working(v)' => job'[v].attempt \in 1..issued
    BY <1>6 DEF AttemptsIssued
  <2>3. \A v, u \in Worker : v # u /\ Working(v)' /\ Working(u)'
          => job'[v].attempt # job'[u].attempt
    BY <1>6 DEF AttemptsIssued
  <2> QED
    BY <1>1, <2>1, <2>2, <2>3 DEF AttemptsIssued
<1>9. ClaimingIsExclusive'
  <2>1. \A v \in Worker : pc'[v] = "claiming" =>
          /\ v # w /\ pc[v] = "claiming" /\ job'[v] = job[v]
          /\ job[v].exec \in Exec /\ job[v].exec # x
    BY <1>1, <1>5, Columns DEF ClaimingIsExclusive
  <2> QED
    BY <1>2, <2>1 DEF ClaimingIsExclusive
<1>10. \A v \in Worker : Working(v)' =>
         /\ job[v].attempt # NoAttempt
         /\ job[v].exec # x => (Holding(v)' <=> Holding(v))
         /\ job[v].exec = x => ~Holding(v) /\ ~Holding(v)'
  <2> SUFFICES ASSUME NEW v \in Worker, Working(v)'
               PROVE  /\ job[v].attempt # NoAttempt
                      /\ job[v].exec # x => (Holding(v)' <=> Holding(v))
                      /\ job[v].exec = x => ~Holding(v) /\ ~Holding(v)'
    OBVIOUS
  <2>1. v # w /\ Working(v) /\ job'[v] = job[v] /\ job[v].exec \in Exec
    BY <1>6, Columns
  <2>2. job[v].attempt # NoAttempt
    BY <2>1, HolderIsAlone
  <2> QED
    BY <1>2, <1>3, <1>4, <2>1, <2>2 DEF Holding, Holds
<1>11. ReturnIsStored'
  <2> SUFFICES ASSUME NEW v \in Worker, pc'[v] = "release", job'[v].outcome = "return",
                      Holding(v)'
               PROVE  row'[job'[v].exec].author = job'[v].attempt
    BY DEF ReturnIsStored
  <2>1. Working(v)' /\ v # w /\ pc[v] = "release" /\ job'[v] = job[v]
    BY <1>1 DEF Working
  <2>2. job[v].exec \in Exec /\ job[v].exec # x /\ Holding(v)
    BY <1>10, <2>1, Columns
  <2> QED
    BY <1>2, <2>1, <2>2 DEF ReturnIsStored
<1>12. UndisturbedHolds'
  BY <1>1, <1>6, <1>10 DEF UndisturbedHolds
<1>13. PhaseOfStatus'
  BY <1>2, <1>3 DEF PhaseOfStatus
<1> QED
  BY <1>7, <1>8, <1>9, <1>11, <1>12, <1>13

LEMMA SelectStep ==
  ASSUME TypeInv, TypeInv', SafetyInv, NEW w \in Worker, SelectRow(w)
  PROVE  SafetyInv'
<1> USE DEF SafetyInv
<1>1. PICK x \in Candidates(w) : job' = [job EXCEPT ![w] = [NoJob EXCEPT !.exec = x]]
  BY DEF SelectRow
<1>2. /\ x \in Exec /\ row[x].status = "queued" /\ ~Locked(x)
      /\ job'[w].exec = x
  BY <1>1 DEF Candidates, NoJob, TypeInv, TypeOK
<1>3. /\ UNCHANGED <<row, issued, offPeak, mishaps>>
      /\ pc'[w] = "claiming"
      /\ \A v \in Worker : v # w => pc'[v] = pc[v] /\ job'[v] = job[v]
  BY <1>1 DEF SelectRow, rowVars, envVars, TypeInv, TypeOK
<1>4. ClaimColumnsAgree' /\ PhaseOfStatus'
  BY <1>3 DEF ClaimColumnsAgree, PhaseOfStatus
<1>5. AttemptsIssued'
  BY <1>3 DEF AttemptsIssued, Working
<1>6. ClaimingIsExclusive'
  BY <1>2, <1>3 DEF ClaimingIsExclusive, Locked
<1>7. ReturnIsStored' /\ UndisturbedHolds'
  BY <1>3 DEF ReturnIsStored, UndisturbedHolds, Working, Holding, Holds
<1> QED
  BY <1>4, <1>5, <1>6, <1>7

LEMMA CommitStep ==
  ASSUME TypeInv, TypeInv', SafetyInv, NEW w \in Worker, CommitClaim(w)
  PROVE  SafetyInv'
<1> USE DEF SafetyInv
<1> DEFINE x == job[w].exec
<1>1. /\ x \in Exec /\ row[x] \in Row /\ pc[w] = "claiming"
      /\ issued' = issued + 1 /\ UNCHANGED <<offPeak, mishaps>>
      /\ pc'[w] = "handler" /\ job'[w].exec = x /\ job'[w].attempt = issued + 1
      /\ \A v \in Worker : v # w => pc'[v] = pc[v] /\ job'[v] = job[v]
  BY DEF CommitClaim, envVars, Job, TypeInv, TypeOK
<1>2. /\ \A e \in Exec : e # x => row'[e] = row[e]
      /\ row'[x].status = "running" /\ row'[x].phase = "worker_execution"
      /\ row'[x].owner = w /\ row'[x].attempt = issued + 1
  BY <1>1, Columns, ClaimRowColumns DEF CommitClaim, TypeInv, TypeOK
<1>3. row[x].status = "queued" /\ row[x].attempt = NoAttempt
  BY <1>1 DEF ClaimingIsExclusive, ClaimColumnsAgree, Claimed
<1>4. \A v \in Worker : Working(v)' =>
        \/ v = w
        \/ v # w /\ Working(v) /\ job'[v] = job[v] /\ job[v].attempt \in 1..issued
  BY <1>1 DEF Working, AttemptsIssued
<1>5. ASSUME NEW v \in Worker, v # w, Working(v)
      PROVE  Holding(v)' <=> Holding(v)
  <2>1. /\ job'[v] = job[v] /\ job[v].exec \in Exec
        /\ job[v].attempt # NoAttempt /\ job[v].attempt # issued + 1
    BY <1>1, <1>5, Columns, HolderIsAlone DEF AttemptsIssued
  <2> QED
    BY <1>2, <1>3, <2>1 DEF Holding, Holds
<1>6. ClaimColumnsAgree'
  <2>1. issued + 1 # NoAttempt
    BY Columns
  <2> QED
    BY <1>2, <2>1 DEF ClaimColumnsAgree, Claimed
<1>7. AttemptsIssued'
  BY <1>1, <1>2, <1>4, Columns DEF AttemptsIssued
<1>8. ClaimingIsExclusive'
  <2>1. \A v \in Worker : pc'[v] = "claiming" =>
          /\ v # w /\ pc[v] = "claiming" /\ job'[v] = job[v]
          /\ job[v].exec \in Exec /\ job[v].exec # x
    BY <1>1, Columns DEF ClaimingIsExclusive
  <2>2. ASSUME NEW v \in Worker, pc'[v] = "claiming"
        PROVE  row'[job'[v].exec].status = "queued"
    <3>1. row'[job[v].exec] = row[job[v].exec]
      BY <1>2, <2>1, <2>2
    <3>2. row[job[v].exec].status = "queued"
      BY <2>1, <2>2 DEF ClaimingIsExclusive
    <3>3. job'[v] = job[v]
      BY <2>1, <2>2
    <3> QED
      BY <3>1, <3>2, <3>3
  <2>3. \A v, u \in Worker : v # u /\ pc'[v] = "claiming" /\ pc'[u] = "claiming"
          => job'[v].exec # job'[u].exec
    BY <2>1 DEF ClaimingIsExclusive
  <2> QED
    BY <2>2, <2>3 DEF ClaimingIsExclusive
<1>9. ReturnIsStored'
  <2> SUFFICES ASSUME NEW v \in Worker, pc'[v] = "release", job'[v].outcome = "return",
                      Holding(v)'
               PROVE  row'[job'[v].exec].author = job'[v].attempt
    BY DEF ReturnIsStored
  <2>1. v # w /\ pc[v] = "release" /\ Working(v) /\ job'[v] = job[v]
    BY <1>1 DEF Working
  <2>2. Holding(v) /\ job[v].exec \in Exec
    BY <1>5, <2>1, Columns
  <2>3. job[v].exec # x
    BY <1>3, <2>1, <2>2, HolderIsAlone DEF Claimed
  <2> QED
    BY <1>2, <2>1, <2>2, <2>3 DEF ReturnIsStored
<1>10. UndisturbedHolds'
  BY <1>1, <1>2, <1>4, <1>5 DEF UndisturbedHolds, Holding, Holds
<1>11. PhaseOfStatus'
  BY <1>2 DEF PhaseOfStatus
<1> QED
  BY <1>6, <1>7, <1>8, <1>9, <1>10, <1>11

\* Every step of the system keeps the safety part of the invariant.
LEMMA SafetyStep ==
  ASSUME TypeInv, TypeInv', SafetyInv, [Next]_vars
  PROVE  SafetyInv'
<1>1. ASSUME NEW w \in Worker,
             CheckBackground(w) \/ SelectNothing(w) \/ Fenced(w) \/ Restart(w)
               \/ StatementFails(w) \/ Crash(w)
      PROVE  SafetyInv'
  <2>1. /\ UNCHANGED <<row, issued>>
        /\ mishaps' = mishaps \/ mishaps' = mishaps + 1
        /\ \A v \in Worker : v # w => pc'[v] = pc[v] /\ job'[v] = job[v]
        /\ pc'[w] \in {"idle", "select", "dead"}
    BY <1>1 DEF CheckBackground, SelectNothing, Fenced, Restart, StatementFails,
                Crash, BackToLoop, Mishap, rowVars, envVars, TypeInv, TypeOK
  <2>2. mishaps' = 0 => mishaps = 0
    BY <2>1 DEF TypeInv, TypeOK
  <2> QED
    BY <2>1, <2>2, LocalStep
<1>2. ASSUME NEW w \in Worker, NEW o \in Outcome, HandlerEnds(w, o)
      PROVE  SafetyInv'
  <2>1. /\ UNCHANGED <<row, issued, mishaps>>
        /\ \A v \in Worker : v # w => pc'[v] = pc[v] /\ job'[v] = job[v]
        /\ pc[w] = "handler" /\ pc'[w] \in {"store", "release"}
        /\ job'[w].exec = job[w].exec /\ job'[w].attempt = job[w].attempt
        /\ pc'[w] = "release" => job'[w].outcome = "raise"
    BY <1>2 DEF HandlerEnds, rowVars, envVars, Job, TypeInv, TypeOK
  <2> QED
    BY <2>1, LocalStep
<1>3. ASSUME NEW w \in Worker,
             SelectRow(w) \/ CommitClaim(w) \/ StoreResult(w) \/ StoreCheckpoint(w)
               \/ Release(w)
      PROVE  SafetyInv'
  BY <1>3, SelectStep, CommitStep, StoreStep, ReleaseStep
<1>4. ASSUME NEW e \in Exec,
             BackendCompletes(e) \/ BackendCancels(e) \/ BackendRequeues(e) \/ Wake(e)
      PROVE  SafetyInv'
  <2>1. PICK st \in {"completed", "cancelled", "queued"} :
          row' = [row EXCEPT ![e] = SetStatus(@, st, "none")]
    BY <1>4 DEF BackendCompletes, BackendCancels, BackendRequeues, Wake, WakeRow
  <2>2. /\ row'[e] = SetStatus(row[e], st, "none") /\ row[e] \in Row
        /\ \A f \in Exec : f # e => row'[f] = row[f]
    BY <2>1 DEF TypeInv, TypeOK
  <2>3. st \in Status /\ "none" \in Phase /\ Releases(st, "none") /\ st # "running"
    BY DEF Status, Phase, Releases, Terminal
  <2>4. /\ row'[e].attempt = NoAttempt /\ row'[e].owner = NoWorker
        /\ row'[e].phase = "none" /\ row'[e].status # "running"
    BY <2>2, <2>3, SetStatusColumns
  <2>5. UNCHANGED <<issued, pc, job>>
    BY <1>4 DEF BackendCompletes, BackendCancels, BackendRequeues, Wake
  <2>6. ~Locked(e)
    <3>1. CASE BackendCompletes(e) \/ BackendRequeues(e)
      <4>1. row[e].status # "queued"
        BY <3>1 DEF BackendCompletes, BackendRequeues, Claimed, SafetyInv, PhaseOfStatus
      <4> QED
        BY <4>1 DEF Locked, SafetyInv, ClaimingIsExclusive
    <3>2. CASE BackendCancels(e) \/ Wake(e)
      BY <3>2 DEF BackendCancels, Wake
    <3> QED
      BY <1>4, <3>1, <3>2
  <2>7. mishaps' = 0 => mishaps = 0 /\ ~Claimed(row[e])
    <3>1. CASE BackendCompletes(e)
      BY <3>1 DEF BackendCompletes, envVars, Claimed
    <3>2. CASE Wake(e) /\ row[e].status = "waiting"
      BY <3>2 DEF Wake, Mishap, Claimed
    <3>3. CASE mishaps' = mishaps + 1
      BY <3>3 DEF TypeInv, TypeOK
    <3> QED
      BY <1>4, <3>1, <3>2, <3>3 DEF BackendCancels, BackendRequeues, Wake, Mishap
  <2> QED
    BY <2>2, <2>4, <2>5, <2>6, <2>7, TakenStep
<1>5. ASSUME UNCHANGED <<row, issued, pc, job, mishaps>>
      PROVE  SafetyInv'
  BY <1>5 DEF SafetyInv, ClaimColumnsAgree, AttemptsIssued, ClaimingIsExclusive,
              ReturnIsStored, UndisturbedHolds, PhaseOfStatus, Working, Holding
<1>6. CASE ClockTurns \/ UNCHANGED vars
  BY <1>5, <1>6 DEF ClockTurns, rowVars, vars
<1> QED
  BY <1>1, <1>2, <1>3, <1>4, <1>6 DEF Next, WorkerStep, Environment

LEMMA SafetyInit ==
  ASSUME Init
  PROVE  TypeInv /\ SafetyInv
<1>1. TypeInv
  BY NoJobType
     DEF Init, TypeInv, TypeOK, OutcomeKnown, NewRow, Row, Status, Phase, Place
<1>2. /\ issued = 0 /\ \A e \in Exec : row[e] = NewRow
      /\ \A w \in Worker : pc[w] = "idle"
  BY DEF Init
<1> QED
  BY <1>1, <1>2
     DEF NewRow, SafetyInv, ClaimColumnsAgree, AttemptsIssued, ClaimingIsExclusive,
         ReturnIsStored, UndisturbedHolds, PhaseOfStatus, Working, Claimed

\* The inductive invariant holds in every reachable state.
THEOREM Invariance == Spec => [](TypeInv /\ SafetyInv)
<1>1. TypeInv /\ SafetyInv /\ [Next]_vars => (TypeInv /\ SafetyInv)'
  BY TypeStep, SafetyStep
<1> QED
  BY <1>1, SafetyInit, PTL DEF Spec

\* A row names a worker and an attempt exactly while it is claimed
\* (claim_pending_execution, update_execution_status).
THEOREM ClaimColumnsTheorem == Spec => []ClaimColumnsAgree
<1>1. SafetyInv => ClaimColumnsAgree
  BY DEF SafetyInv
<1> QED
  BY <1>1, Invariance, PTL

\* Of any number of workers on one execution at most one passes the attempt
\* fence (AND attempt_id = %s in every write of database/execution.py).
THEOREM SingleHolderTheorem == Spec => []SingleHolder
<1>1. TypeInv /\ SafetyInv => SingleHolder
  BY HolderIsAlone DEF SafetyInv, SingleHolder
<1> QED
  BY <1>1, Invariance, PTL

\* Before the first mishap no execution runs in two workers: the promise the
\* README makes of FOR UPDATE SKIP LOCKED.
THEOREM NoDoubleRunTheorem == Spec => []NoDoubleRun
<1>1. TypeInv /\ SafetyInv => NoDoubleRun
  BY HolderIsAlone DEF SafetyInv, UndisturbedHolds, NoDoubleRun
<1> QED
  BY <1>1, Invariance, PTL

-----------------------------------------------------------------------------
(* What a step does to the table *)

OnlyRow(e) == \A f \in Exec : f # e => row'[f] = row[f]

\* An execution is claimed.
Claims(e) ==
  /\ OnlyRow(e) /\ issued' = issued + 1
  /\ row[e].status = "queued"
  /\ row'[e].status = "running" /\ row'[e].phase = "worker_execution"
  /\ row'[e].attempt = issued + 1 /\ row'[e].author = row[e].author

\* The holder stores its result.
StoresResult(e) ==
  /\ OnlyRow(e) /\ issued' = issued
  /\ Claimed(row[e]) /\ Claimed(row'[e])
  /\ row'[e].attempt = row[e].attempt /\ row'[e].author = row[e].attempt

\* The holder stores a checkpoint.
StoresCheckpoint(e) ==
  /\ OnlyRow(e) /\ issued' = issued
  /\ Claimed(row[e]) /\ Claimed(row'[e])
  /\ row'[e].attempt = row[e].attempt /\ row'[e].author = row[e].author

\* The holder gives the row up.
GivesUp(e) ==
  /\ OnlyRow(e) /\ issued' = issued
  /\ Claimed(row[e])
  /\ row'[e].attempt = NoAttempt /\ row'[e].author = row[e].author
  /\ row'[e].status # "completed"
  /\ HandedOver(row'[e]) => row[e].author = row[e].attempt

\* The backend, or a finished child, puts the row in another status.
Takes(e) ==
  /\ OnlyRow(e) /\ issued' = issued
  /\ row'[e].attempt = NoAttempt /\ row'[e].author = row[e].author
  /\ row'[e].phase = "none"
  /\ row'[e].status = "completed" => HandedOver(row[e])
  /\ row[e].status \in Terminal => e \in Parents

RowStep == \E e \in Exec : \/ Claims(e) \/ StoresResult(e) \/ StoresCheckpoint(e)
                           \/ GivesUp(e) \/ Takes(e)

LEMMA HolderSteps ==
  ASSUME TypeInv, SafetyInv, NEW w \in Worker,
         StoreResult(w) \/ StoreCheckpoint(w) \/ Release(w)
  PROVE  RowStep
<1> DEFINE x == job[w].exec
<1>1. /\ x \in Exec /\ row[x] \in Row /\ issued' = issued
      /\ Working(w) /\ Holding(w) /\ Claimed(row[x])
      /\ row[x].attempt = job[w].attempt
  <2>1. x \in Exec /\ row[x] \in Row /\ issued' = issued /\ Working(w) /\ Holding(w)
    BY Columns DEF StoreResult, StoreCheckpoint, Release, Working
  <2> QED
    BY <2>1, HolderIsAlone DEF SafetyInv, Holding, Holds
<1>2. CASE StoreResult(w)
  <2>1. OnlyRow(x) /\ row'[x] = WithResult(row[x], job[w].attempt)
    BY <1>1, <1>2 DEF StoreResult, OnlyRow, TypeInv, TypeOK
  <2>2. StoresResult(x)
    BY <1>1, <2>1 DEF StoresResult, WithResult, Claimed, Row
  <2> QED
    BY <1>1, <2>2 DEF RowStep
<1>3. CASE StoreCheckpoint(w)
  <2>1. OnlyRow(x) /\ row'[x] = WithCheckpoint(row[x])
    BY <1>1, <1>3 DEF StoreCheckpoint, OnlyRow, TypeInv, TypeOK
  <2>2. StoresCheckpoint(x)
    BY <1>1, <2>1 DEF StoresCheckpoint, WithCheckpoint, Claimed, Row
  <2> QED
    BY <1>1, <2>2 DEF RowStep
<1>4. CASE Release(w)
  <2>1. /\ OnlyRow(x) /\ row'[x] = Recorded(row[x], job[w].outcome)
        /\ job[w].outcome \in Outcome \ {"none"} /\ pc[w] = "release"
    BY <1>1, <1>4 DEF Release, OnlyRow, OutcomeKnown, Job, TypeInv, TypeOK
  <2>2. job[w].outcome = "return" => row[x].author = row[x].attempt
    BY <1>1, <2>1 DEF SafetyInv, ReturnIsStored
  <2>3. row'[x].status # "completed"
    <3>1. job[w].outcome \in {"return", "raise", "suspend", "continue"}
      BY <2>1 DEF Outcome
    <3> QED
      BY <1>1, <2>1, <3>1 DEF Recorded, SetStatus, Row
  <2>4. GivesUp(x)
    BY <1>1, <2>1, <2>2, <2>3, RecordedColumns DEF GivesUp
  <2> QED
    BY <1>1, <2>4 DEF RowStep
<1> QED
  BY <1>2, <1>3, <1>4

LEMMA TakingSteps ==
  ASSUME TypeInv, SafetyInv, NEW e \in Exec,
         BackendCompletes(e) \/ BackendCancels(e) \/ BackendRequeues(e) \/ Wake(e)
  PROVE  RowStep
<1>1. PICK st \in {"completed", "cancelled", "queued"} :
        /\ row' = [row EXCEPT ![e] = SetStatus(@, st, "none")]
        /\ st = "completed" => BackendCompletes(e)
  BY DEF BackendCompletes, BackendCancels, BackendRequeues, Wake, WakeRow
<1>2. /\ row'[e] = SetStatus(row[e], st, "none") /\ row[e] \in Row
      /\ OnlyRow(e)
  BY <1>1 DEF OnlyRow, TypeInv, TypeOK
<1>3. st \in Status /\ "none" \in Phase /\ Releases(st, "none")
  BY DEF Status, Phase, Releases, Terminal
<1>4. /\ row'[e].attempt = NoAttempt /\ row'[e].author = row[e].author
      /\ row'[e].phase = "none" /\ row'[e].status = st
  BY <1>2, <1>3, SetStatusColumns
<1>5. st = "completed" => HandedOver(row[e])
  BY <1>1 DEF BackendCompletes, HandedOver
<1>6. issued' = issued
  BY DEF BackendCompletes, BackendCancels, BackendRequeues, Wake
<1>7. row[e].status \in Terminal => e \in Parents
  BY DEF BackendCompletes, BackendCancels, BackendRequeues, Wake, Claimed, Terminal,
         SafetyInv, PhaseOfStatus
<1>8. Takes(e)
  BY <1>2, <1>4, <1>5, <1>6, <1>7 DEF Takes
<1> QED
  BY <1>8 DEF RowStep

LEMMA TableStep ==
  ASSUME TypeInv, SafetyInv, [Next]_vars
  PROVE  RowStep \/ UNCHANGED <<row, issued>>
<1>1. ASSUME NEW w \in Worker, CommitClaim(w)
      PROVE  RowStep
  <2> DEFINE x == job[w].exec
  <2>1. /\ x \in Exec /\ row[x] \in Row /\ issued + 1 \in Nat
        /\ row[x].status = "queued" /\ issued' = issued + 1
    BY <1>1, Columns DEF CommitClaim, SafetyInv, ClaimingIsExclusive
  <2>2. OnlyRow(x) /\ row'[x] = ClaimRow(row[x], w, issued + 1)
    BY <1>1, <2>1 DEF CommitClaim, OnlyRow, TypeInv, TypeOK
  <2>3. Claims(x)
    BY <2>1, <2>2, ClaimRowColumns DEF Claims
  <2> QED
    BY <2>1, <2>3 DEF RowStep
<1>2. ASSUME NEW w \in Worker,
             CheckBackground(w) \/ SelectRow(w) \/ SelectNothing(w) \/ Fenced(w)
               \/ Restart(w) \/ StatementFails(w) \/ Crash(w)
      PROVE  UNCHANGED <<row, issued>>
  BY <1>2 DEF CheckBackground, SelectRow, SelectNothing, Fenced, Restart,
              StatementFails, Crash, rowVars
<1>3. ASSUME NEW w \in Worker, NEW o \in Outcome, HandlerEnds(w, o)
      PROVE  UNCHANGED <<row, issued>>
  BY <1>3 DEF HandlerEnds, rowVars
<1>4. CASE ClockTurns \/ UNCHANGED vars
  BY <1>4 DEF ClockTurns, rowVars, vars
<1> QED
  BY <1>1, <1>2, <1>3, <1>4, HolderSteps, TakingSteps
     DEF Next, WorkerStep, Environment

\* What is handed to the backend is the result of the attempt that hands it over
\* (update_execution_result before the finalization of process_execution).
THEOREM HandOverTheorem == Spec => HandOverOwnResult
<1> DEFINE A == \A e \in Exec : HandedOver(row'[e]) /\ ~HandedOver(row[e])
                                  => row[e].author = row[e].attempt
<1>1. TypeInv /\ SafetyInv /\ [Next]_vars => A
  <2> SUFFICES ASSUME TypeInv, SafetyInv, [Next]_vars,
                      NEW e \in Exec, HandedOver(row'[e]), ~HandedOver(row[e])
               PROVE  row[e].author = row[e].attempt
    OBVIOUS
  <2>1. PICK x \in Exec : \/ Claims(x) \/ StoresResult(x) \/ StoresCheckpoint(x)
                          \/ GivesUp(x) \/ Takes(x)
    BY TableStep DEF RowStep
  <2>2. OnlyRow(x)
    BY <2>1 DEF Claims, StoresResult, StoresCheckpoint, GivesUp, Takes
  <2>3. x = e
    BY <2>2 DEF OnlyRow
  <2>4. GivesUp(e)
    BY <2>1, <2>3 DEF Claims, StoresResult, StoresCheckpoint, Takes, HandedOver, Claimed
  <2> QED
    BY <2>4 DEF GivesUp
<1>2. TypeInv /\ SafetyInv /\ [Next]_vars => [A]_vars
  BY <1>1
<1> QED
  BY <1>2, Invariance, PTL DEF Spec, HandOverOwnResult

\* A result under finalization is not replaced, and an ended execution that is
\* no parent stays ended (the attempt fence of update_execution_result and
\* update_execution_status).
THEOREM SettledTheorem == Spec => SettledIsFinal
<1> DEFINE A == \A e \in Exec :
                  /\ HandedOver(row[e]) => row'[e].author = row[e].author
                  /\ e \notin Parents /\ row[e].status \in Terminal
                       => row'[e].status = row[e].status
<1>1. TypeInv /\ SafetyInv /\ [Next]_vars => A
  <2> SUFFICES ASSUME TypeInv, SafetyInv, [Next]_vars, NEW e \in Exec
               PROVE  /\ HandedOver(row[e]) => row'[e].author = row[e].author
                      /\ e \notin Parents /\ row[e].status \in Terminal
                           => row'[e].status = row[e].status
    OBVIOUS
  <2>1. CASE row'[e] = row[e]
    BY <2>1
  <2>2. CASE row'[e] # row[e]
    <3>1. PICK x \in Exec : \/ Claims(x) \/ StoresResult(x) \/ StoresCheckpoint(x)
                            \/ GivesUp(x) \/ Takes(x)
      BY <2>2, TableStep DEF RowStep
    <3>2. OnlyRow(x)
      BY <3>1 DEF Claims, StoresResult, StoresCheckpoint, GivesUp, Takes
    <3>3. x = e
      BY <2>2, <3>2 DEF OnlyRow
    <3> QED
      BY <3>1, <3>3 DEF Claims, StoresResult, StoresCheckpoint, GivesUp, Takes,
                        HandedOver, Claimed, Terminal
  <2> QED
    BY <2>1, <2>2
<1>2. TypeInv /\ SafetyInv /\ [Next]_vars => [A]_vars
  BY <1>1
<1> QED
  BY <1>2, Invariance, PTL DEF Spec, SettledIsFinal

\* A background execution starts only when its worker could take nothing better,
\* for any priorities (the ORDER BY of claim_pending_execution).
THEOREM BackgroundYieldsTheorem == Spec => BackgroundYields
<1> DEFINE A == \A w \in Worker :
                  pc[w] = "select" /\ pc'[w] = "claiming"
                    /\ Priority[job'[w].exec] = "background"
                  => \A f \in Supports[w] :
                       row[f].status = "queued" /\ ~Locked(f) => Priority[f] = "background"
<1>1. TypeInv /\ [Next]_vars => A
  <2> SUFFICES ASSUME TypeInv, [Next]_vars, NEW w \in Worker,
                      pc[w] = "select", pc'[w] = "claiming",
                      Priority[job'[w].exec] = "background",
                      NEW f \in Supports[w], row[f].status = "queued", ~Locked(f),
                      Priority[f] # "background"
               PROVE  FALSE
    OBVIOUS
  <2>1. SelectRow(w)
    BY DEF Next, WorkerStep, Environment, CheckBackground, SelectRow, SelectNothing,
           CommitClaim, HandlerEnds, StoreResult, StoreCheckpoint, Release, Fenced,
           StatementFails, Crash, Restart, BackendCompletes, BackendCancels,
           BackendRequeues, Wake, ClockTurns, BackToLoop, vars, TypeInv, TypeOK
  <2>2. PICK e \in Candidates(w) :
          /\ \A g \in Candidates(w) \ {e} : Precedes(e, g)
          /\ job' = [job EXCEPT ![w] = [NoJob EXCEPT !.exec = e]]
    BY <2>1 DEF SelectRow
  <2>3. job'[w].exec = e /\ e \in Exec /\ f \in Exec
    BY <2>2 DEF NoJob, Candidates, TypeInv, TypeOK
  <2>4. f \in Candidates(w) \ {e}
    BY <2>3 DEF Candidates
  <2>5. Rank(e) = 2 /\ Rank(f) \in {0, 1}
    BY <2>3 DEF Rank
  <2> QED
    BY <2>2, <2>4, <2>5 DEF Precedes
<1>2. TypeInv /\ SafetyInv /\ [Next]_vars => [A]_vars
  BY <1>1
<1> QED
  BY <1>2, Invariance, PTL DEF Spec, BackgroundYields

-----------------------------------------------------------------------------
(* The queue implements the lease *)

LEMMA LeaseStep ==
  ASSUME TypeInv, SafetyInv, NEW e \in Exec,
         Claims(e) \/ StoresResult(e) \/ StoresCheckpoint(e) \/ GivesUp(e) \/ Takes(e)
  PROVE  [L!LeaseNext]_(L!leaseVars)
<1> DEFINE Settled(r) == IF HandedOver(r) \/ r.status = "completed"
                         THEN r.author ELSE NoAttempt
           holder  == [f \in Exec |-> row[f].attempt]
           draft   == [f \in Exec |-> row[f].author]
           settled == [f \in Exec |-> Settled(row[f])]
           holder1  == [f \in Exec |-> row'[f].attempt]
           draft1   == [f \in Exec |-> row'[f].author]
           settled1 == [f \in Exec |-> Settled(row'[f])]
<1>1. OnlyRow(e)
  BY DEF Claims, StoresResult, StoresCheckpoint, GivesUp, Takes
<1>2. /\ holder1  = [holder EXCEPT ![e] = row'[e].attempt]
      /\ draft1   = [draft EXCEPT ![e] = row'[e].author]
      /\ settled1 = [settled EXCEPT ![e] = Settled(row'[e])]
  BY <1>1 DEF OnlyRow
<1>3. /\ holder[e] = row[e].attempt /\ draft[e] = row[e].author
      /\ settled[e] = Settled(row[e])
      /\ [holder EXCEPT ![e] = row[e].attempt] = holder
      /\ [draft EXCEPT ![e] = row[e].author] = draft
      /\ [settled EXCEPT ![e] = Settled(row[e])] = settled
  OBVIOUS
<1>4. /\ Claimed(row[e]) => row[e].attempt # NoAttempt /\ Settled(row[e]) = NoAttempt
      /\ ~Claimed(row[e]) => row[e].attempt = NoAttempt
  BY DEF SafetyInv, ClaimColumnsAgree, Claimed, HandedOver
<1> HIDE DEF holder, draft, settled, holder1, draft1, settled1, Settled
<1>5. CASE Claims(e)
  <2>1. Settled(row[e]) = NoAttempt /\ Settled(row'[e]) = NoAttempt /\ holder[e] = 0
    BY <1>3, <1>4, <1>5 DEF Claims, HandedOver, Claimed, SafetyInv, PhaseOfStatus, Settled
  <2>2. /\ holder1 = [holder EXCEPT ![e] = issued + 1]
        /\ draft1 = draft /\ settled1 = settled /\ issued' = issued + 1
    BY <1>2, <1>3, <1>5, <2>1 DEF Claims
  <2> QED
    BY <2>1, <2>2
       DEF L!LeaseNext, L!Acquire, HandedOver, holder, draft, settled, holder1, draft1,
           settled1, Settled
<1>6. CASE StoresResult(e)
  <2>1. Settled(row'[e]) = NoAttempt
    BY <1>6 DEF StoresResult, Claimed, HandedOver, Settled
  <2>2. /\ holder[e] # 0 /\ draft1 = [draft EXCEPT ![e] = holder[e]]
        /\ holder1 = holder /\ settled1 = settled /\ issued' = issued
    BY <1>2, <1>3, <1>4, <1>6, <2>1 DEF StoresResult
  <2> QED
    BY <2>2 DEF L!LeaseNext, L!Write, HandedOver, holder, draft, settled, holder1, draft1,
                  settled1, Settled
<1>7. CASE StoresCheckpoint(e)
  <2>1. Settled(row'[e]) = NoAttempt
    BY <1>7 DEF StoresCheckpoint, Claimed, HandedOver, Settled
  <2>2. /\ draft1 = draft /\ holder1 = holder /\ settled1 = settled /\ issued' = issued
    BY <1>2, <1>3, <1>4, <1>7, <2>1 DEF StoresCheckpoint
  <2> QED
    BY <2>2 DEF L!leaseVars, HandedOver, holder, draft, settled, holder1, draft1,
                  settled1, Settled
<1>8. CASE GivesUp(e)
  <2>1. CASE HandedOver(row'[e])
    <3>1. Settled(row'[e]) = row[e].attempt
      BY <1>8, <2>1 DEF GivesUp, Settled
    <3>2. /\ holder[e] # 0 /\ draft[e] = holder[e]
          /\ settled1 = [settled EXCEPT ![e] = holder[e]]
          /\ holder1 = [holder EXCEPT ![e] = 0]
          /\ draft1 = draft /\ issued' = issued
      BY <1>2, <1>3, <1>4, <1>8, <2>1, <3>1 DEF GivesUp
    <3> QED
      BY <3>2 DEF L!LeaseNext, L!Settle, HandedOver, holder, draft, settled, holder1, draft1,
                  settled1, Settled
  <2>2. CASE ~HandedOver(row'[e])
    <3>1. Settled(row'[e]) = 0
      BY <1>8, <2>2 DEF GivesUp, Settled
    <3>2. /\ holder1 = [holder EXCEPT ![e] = 0]
          /\ settled1 = [settled EXCEPT ![e] = 0]
          /\ draft1 = draft /\ issued' = issued
      BY <1>2, <1>3, <1>8, <3>1 DEF GivesUp
    <3> QED
      BY <3>2 DEF L!LeaseNext, L!Release, HandedOver, holder, draft, settled, holder1, draft1,
                  settled1, Settled
  <2> QED
    BY <2>1, <2>2
<1>9. CASE Takes(e)
  <2>1. CASE row'[e].status = "completed"
    <3>1. Settled(row[e]) = row[e].author /\ Settled(row'[e]) = row[e].author
          /\ row[e].attempt = NoAttempt
      BY <1>4, <1>9, <2>1 DEF Takes, HandedOver, Claimed, Settled
    <3>2. /\ draft1 = draft /\ holder1 = holder /\ settled1 = settled /\ issued' = issued
      BY <1>2, <1>3, <1>9, <3>1 DEF Takes
    <3> QED
      BY <3>2 DEF L!leaseVars, HandedOver, holder, draft, settled, holder1, draft1,
                  settled1, Settled
  <2>2. CASE row'[e].status # "completed"
    <3>1. Settled(row'[e]) = 0
      BY <1>9, <2>2 DEF Takes, HandedOver, Settled
    <3>2. /\ holder1 = [holder EXCEPT ![e] = 0]
          /\ settled1 = [settled EXCEPT ![e] = 0]
          /\ draft1 = draft /\ issued' = issued
      BY <1>2, <1>3, <1>9, <3>1 DEF Takes
    <3> QED
      BY <3>2 DEF L!LeaseNext, L!Release, HandedOver, holder, draft, settled, holder1, draft1,
                  settled1, Settled
  <2> QED
    BY <2>1, <2>2
<1> QED
  BY <1>5, <1>6, <1>7, <1>8, <1>9

\* Claims with attempt ids implement the abstract lease: one holder at a time,
\* and what is settled is the draft of the attempt that settles it.
THEOREM LeaseRefinement == Spec => ImplementsLease
<1>1. Init => L!LeaseInit
  BY DEF Init, L!LeaseInit, NewRow, HandedOver
<1>2. TypeInv /\ SafetyInv /\ [Next]_vars => [L!LeaseNext]_(L!leaseVars)
  <2> SUFFICES ASSUME TypeInv, SafetyInv, [Next]_vars
               PROVE  [L!LeaseNext]_(L!leaseVars)
    OBVIOUS
  <2>1. CASE RowStep
    BY <2>1, LeaseStep DEF RowStep
  <2>2. CASE UNCHANGED <<row, issued>>
    BY <2>2 DEF L!leaseVars, HandedOver
  <2> QED
    BY <2>1, <2>2, TableStep
<1> QED
  BY <1>1, <1>2, Invariance, PTL DEF Spec, ImplementsLease, L!LeaseSpec
=============================================================================
