------------------------------ MODULE AgentStep ------------------------------
(***************************************************************************)
(* An execution-bound agent (agent/loop.py, the agent path of                 *)
(* utils/process_execution.py): each claim of the execution takes one step,    *)
(* asks the model, may run one tool, stores the transcript and gives the row   *)
(* back to the queue, until the model finishes or the budget is used up.       *)
(*                                                                         *)
(* A tool request is a member of Tool or UnknownTool, a name with its          *)
(* arguments; an entry of the transcript remembers the request and whether     *)
(* the tool was run.  That a step may wait for a child execution is left out:  *)
(* no tool of the repository answers `_sub_agent_pending`.                     *)
(***************************************************************************)
EXTENDS ExecutionRow, Sequences, SequencesExt

CONSTANTS Tool,          \* requests the agent may make and have run
          UnknownTool,   \* a request for a tool it has not got
          MaxSteps,      \* the execution's max_steps
          MaxMishaps     \* bound on crashes, takeovers and exceptions

AgentStepAssumption ==
  UnknownTool \notin Tool /\ MaxSteps \in Nat \ {0} /\ MaxMishaps \in Nat

VARIABLES row,       \* the execution
          issued,    \* attempts issued so far
          pc, job,   \* the workers: where they are, what they read when they claimed
          told,      \* the attempts whose workers told the parent that it ended
          mishaps

vars == <<row, issued, pc, job, told, mishaps>>

Invalid == "invalid"     \* a decision that cannot be parsed
Entry   == [request : Tool \cup {UnknownTool, Invalid}, ran : BOOLEAN]
Place   == {"idle", "step", "progress", "requeue", "result", "handover", "fail", "ask"}

NewRow == [status |-> "queued", phase |-> "none", owner |-> NoWorker,
           attempt |-> NoAttempt, step |-> 0, transcript |-> <<>>, result |-> NoAttempt]

NoJob == [attempt |-> NoAttempt, step |-> 0, transcript |-> <<>>]

Init ==
  /\ row = NewRow
  /\ issued = 0
  /\ pc = [w \in Worker |-> "idle"]
  /\ job = [w \in Worker |-> NoJob]
  /\ told = {}
  /\ mishaps = 0

Leave(w) == pc' = [pc EXCEPT ![w] = "idle"] /\ job' = [job EXCEPT ![w] = NoJob]
GoTo(w, place) == pc' = [pc EXCEPT ![w] = place]
Holding(w) == Holds(row, job[w].attempt)

\* The claim returns the row: its step and checkpoint are what the step works on.
Claim(w) ==
  /\ pc[w] = "idle"
  /\ row.status = "queued"
  /\ issued' = issued + 1
  /\ row' = ClaimRow(row, w, issued + 1)
  /\ job' = [job EXCEPT ![w] = [attempt |-> issued + 1, step |-> row.step,
                                transcript |-> row.transcript]]
  /\ GoTo(w, "step")
  /\ UNCHANGED <<told, mishaps>>

-----------------------------------------------------------------------------
(* run_one_step *)

\* Mutant of Recorded: an invalid decision costs no step.
RecordedIfValid(j, e) ==
  [j EXCEPT !.step = IF e.request = Invalid THEN @ ELSE @ + 1,
            !.transcript = Append(@, e)]

Recorded(j, e) == [j EXCEPT !.step = @ + 1, !.transcript = Append(@, e)]

Records(w, request, ran) ==
  /\ job' = [job EXCEPT ![w] = Recorded(@, [request |-> request, ran |-> ran])]
  /\ GoTo(w, "progress")

\* The model repeats the request of the step before.
Repeats(w, request) ==
  job[w].transcript # <<>> /\ Last(job[w].transcript).request = request

\* The budget is not used up and the model is asked: it may answer nonsense, name
\* a tool, or finish; a repeated or unknown request only gets an observation.
AnswerInvalid(w) == Records(w, Invalid, FALSE)
RunTool(w, t) == ~Repeats(w, t) /\ Records(w, t, TRUE)
RefuseTool(w, t) == (Repeats(w, t) \/ t = UnknownTool) /\ Records(w, t, FALSE)
FinishStep(w) == GoTo(w, "result") /\ UNCHANGED job

\* Mutant of Step: the budget is looked at one step late.
StepLate(w) ==
  /\ pc[w] = "step"
  /\ \/ job[w].step > MaxSteps /\ FinishStep(w)
     \/ /\ job[w].step <= MaxSteps
        /\ \/ AnswerInvalid(w) \/ FinishStep(w)
           \/ \E t \in Tool : RunTool(w, t)
           \/ \E t \in Tool \cup {UnknownTool} : RefuseTool(w, t)
  /\ UNCHANGED <<row, issued, told, mishaps>>

\* Without budget the result is the model's forced answer, or the last entry of
\* the transcript when the model fails or answers nonsense: the step finishes.
Step(w) ==
  /\ pc[w] = "step"
  /\ \/ job[w].step >= MaxSteps /\ FinishStep(w)
     \/ /\ job[w].step < MaxSteps
        /\ \/ AnswerInvalid(w) \/ FinishStep(w)
           \/ \E t \in Tool : RunTool(w, t)
           \/ \E t \in Tool \cup {UnknownTool} : RefuseTool(w, t)
  /\ UNCHANGED <<row, issued, told, mishaps>>

\* Mutant of StoreProgress: the write is not fenced.
StoreProgressUnfenced(w) ==
  /\ pc[w] = "progress"
  /\ row' = [row EXCEPT !.step = job[w].step, !.transcript = job[w].transcript]
  /\ GoTo(w, "requeue")
  /\ UNCHANGED <<issued, job, told, mishaps>>

\* update_agent_progress
StoreProgress(w) ==
  /\ pc[w] = "progress"
  /\ Holding(w)
  /\ row' = [row EXCEPT !.step = job[w].step, !.transcript = job[w].transcript]
  /\ GoTo(w, "requeue")
  /\ UNCHANGED <<issued, job, told, mishaps>>

Requeue(w) ==
  /\ pc[w] = "requeue"
  /\ Holding(w)
  /\ row' = SetStatus(row, "queued", "none")
  /\ Leave(w)
  /\ UNCHANGED <<issued, told, mishaps>>

\* _finalize: the result, and, if it was written, the hand-over to the backend.
StoreResult(w) ==
  /\ pc[w] = "result"
  /\ Holding(w)
  /\ row' = [row EXCEPT !.result = job[w].attempt]
  /\ GoTo(w, "handover")
  /\ UNCHANGED <<issued, job, told, mishaps>>

HandOver(w) ==
  /\ pc[w] = "handover"
  /\ Holding(w)
  /\ row' = SetStatus(row, "running", "backend_finalization")
  /\ GoTo(w, "ask")
  /\ UNCHANGED <<issued, job, told, mishaps>>

\* A write that matches no row.  After a result or hand-over that was refused the
\* step still reports "finished", and the row is asked how it ended.
Fenced(w) ==
  /\ pc[w] \in {"progress", "requeue", "result", "handover", "fail"}
  /\ ~Holding(w)
  /\ IF pc[w] \in {"result", "handover"}
     THEN GoTo(w, "ask") /\ UNCHANGED job
     ELSE Leave(w)
  /\ UNCHANGED <<row, issued, told, mishaps>>

-----------------------------------------------------------------------------
(* process_execution *)

\* Mutant of Ended: the row's phase is not looked at.
EndedIfFree(r) == r.attempt = NoAttempt

\* The row another look finds, perhaps after another attempt or the backend
\* has changed it.
Ended(r) ==
  /\ r.attempt = NoAttempt
  /\ r.phase = "backend_finalization" \/ r.status = "failed"

Ask(w) ==
  /\ pc[w] = "ask"
  /\ told' = IF Ended(row) THEN told \cup {job[w].attempt} ELSE told
  /\ Leave(w)
  /\ UNCHANGED <<row, issued, mishaps>>

\* The exception's status is written under the fence; the parent is told of it
\* if it was.
Fail(w) ==
  /\ pc[w] = "fail"
  /\ Holding(w)
  /\ row' = SetStatus(row, "failed", "none")
  /\ told' = told \cup {job[w].attempt}
  /\ Leave(w)
  /\ UNCHANGED <<issued, mishaps>>

-----------------------------------------------------------------------------
(* Mishaps and the backend *)

Mishap == mishaps < MaxMishaps /\ mishaps' = mishaps + 1

\* The model cannot be reached, or is not configured.
StepRaises(w) ==
  /\ pc[w] = "step"
  /\ Mishap
  /\ GoTo(w, "fail")
  /\ UNCHANGED <<row, issued, job, told>>

Crash(w) ==
  /\ pc[w] # "idle"
  /\ Mishap
  /\ Leave(w)
  /\ UNCHANGED <<row, issued, told>>

BackendRequeues ==
  /\ Claimed(row)
  /\ Mishap
  /\ row' = SetStatus(row, "queued", "none")
  /\ UNCHANGED <<issued, pc, job, told>>

BackendCompletes ==
  /\ row.phase = "backend_finalization"
  /\ row' = SetStatus(row, "completed", "none")
  /\ UNCHANGED <<issued, pc, job, told, mishaps>>

-----------------------------------------------------------------------------
WorkerStep(w) ==
  \/ Claim(w) \/ Step(w) \/ StoreProgress(w) \/ Requeue(w) \/ StoreResult(w)
  \/ HandOver(w) \/ Fenced(w) \/ Ask(w) \/ Fail(w)

Next ==
  \/ \E w \in Worker : WorkerStep(w) \/ StepRaises(w) \/ Crash(w)
  \/ BackendRequeues \/ BackendCompletes

Spec == Init /\ [][Next]_vars

\* A worker goes on with what it is doing, and polls.
Fairness == \A w \in Worker : WF_vars(WorkerStep(w))

-----------------------------------------------------------------------------
(* Properties *)

TypeOK ==
  /\ row \in [status : Status, phase : Phase, owner : Worker \cup {NoWorker},
              attempt : Nat, step : 0 .. MaxSteps, transcript : Seq(Entry), result : Nat]
  /\ issued \in Nat
  /\ pc \in [Worker -> Place]
  /\ job \in [Worker -> [attempt : Nat, step : 0 .. MaxSteps, transcript : Seq(Entry)]]
  /\ told \subseteq 1 .. issued
  /\ mishaps \in 0 .. MaxMishaps

\* The stored transcript is the history of the steps that counted: it grows by
\* one entry a step and is never rewritten by an attempt that was taken over, and
\* no tool is run for the same request in two steps in a row.
KeepsHistory ==
  /\ IsPrefix(row.transcript, row'.transcript)
  /\ row'.step = Len(row'.transcript)
  /\ \A i \in 2 .. Len(row'.transcript) :
       row'.transcript[i].ran
         => row'.transcript[i].request # row'.transcript[i - 1].request
TranscriptIsHistory == [][KeepsHistory]_vars

\* The parent is told only of an execution that has ended, and whose result or
\* failure is stored: even by a stale attempt that asks about another's end.
ToldOfTheEnd ==
  told # {} =>
    \/ row.status = "failed"
    \/ row.result # NoAttempt /\ (row.phase = "backend_finalization" \/ row.status = "completed")

\* The budget ends the execution, whatever the model answers, unless something
\* goes wrong.
HasEnded  == mishaps > 0 \/ row.phase = "backend_finalization" \/ row.status \in Terminal
AgentEnds == <>HasEnded
=============================================================================
