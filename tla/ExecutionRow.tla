---------------------------- MODULE ExecutionRow ----------------------------
(***************************************************************************)
(* A row of the `executions` table and the transitions database/execution.py *)
(* makes on it.  Every operator is one committed transaction (or one        *)
(* autocommitted UPDATE) on one row; who may call it when is the business   *)
(* of the modules that extend this one.                                     *)
(*                                                                         *)
(* Abstracted: timestamps, `completion_kind`, `completion_reason` and       *)
(* `error` (set together with a terminal status and read by nobody in the   *)
(* worker), owner and workspace columns, and the JSON of payloads.  An      *)
(* `attempt_id` (uuid4) is a positive number never issued before.           *)
(***************************************************************************)
EXTENDS Naturals

CONSTANTS Worker,     \* worker processes (WORKER_ID)
          NoWorker    \* NULL in claimed_by

ASSUME NoWorkerAssumption == NoWorker \notin Worker

NoAttempt == 0        \* NULL in attempt_id

Status == {"queued", "running", "waiting", "completed", "failed", "cancelled"}
Phase  == {"none", "worker_execution", "backend_finalization"}

Terminal == {"completed", "failed", "cancelled"}

\* The columns that record who may act on the row.
ClaimColumns == [status  : Status,
                 phase   : Phase,
                 owner   : Worker \cup {NoWorker},
                 attempt : Nat]

\* A claim is what the fence of a worker's writes compares with.
Claimed(r) == r.status = "running" /\ r.phase = "worker_execution"

\* Mutant of Releases: finalization by the backend is forgotten.
ReleasesNotBackend(status, phase) == status \in {"queued", "waiting"} \cup Terminal

\* `released`: whether writing this status gives up the claim.
Releases(status, phase) ==
  \/ status \in {"queued", "waiting"}
  \/ phase = "backend_finalization"
  \/ status \in Terminal

\* The UPDATE of update_execution_status.  It looks at no earlier status.
SetStatus(r, status, phase) ==
  [r EXCEPT !.status  = status,
            !.phase   = phase,
            !.owner   = IF Releases(status, phase) THEN NoWorker ELSE @,
            !.attempt = IF Releases(status, phase) THEN NoAttempt ELSE @]

\* The UPDATE of claim_pending_execution.
ClaimRow(r, w, a) ==
  [r EXCEPT !.status = "running", !.phase = "worker_execution",
            !.owner = w, !.attempt = a]

\* Mutants of Holds: any claim will do; an unclaimed row will do as well.
HoldsAnyClaim(r, a) == r.attempt # NoAttempt
HoldsOrFree(r, a) == r.attempt \in {a, NoAttempt}

\* The fence `AND attempt_id = %s` of every write a worker makes for its own
\* execution: a write that matches no row reports False and changes nothing.
Holds(r, a) == r.attempt = a

\* Mutant of WakeRow: status and phase swapped.
WakeRowSwapped(r) == SetStatus(r, "none", "queued")

\* wake_waiting_execution: the status update with no attempt, hence no fence.
WakeRow(r) == SetStatus(r, "queued", "none")
=============================================================================
