------------------------------ MODULE AgentLoop ------------------------------
(***************************************************************************)
(* One chat turn: the handler (tasks/assistant_chat, tasks/agent_chat), the    *)
(* loop of model calls and tool calls it runs (agents/loop.py), and the same   *)
(* loop run as a tool by another agent (AgentSpec.run_as_tool).                *)
(*                                                                         *)
(* Operations (model calls and tool calls) are numbered as they start.  facts  *)
(* are the events recorded of them, and the backend has the first `durable`:   *)
(* module Evidence shows that its log is always a prefix of what was emitted.  *)
(* Prompts, answers and warnings are left out; what the model and the backend  *)
(* decide is any choice they have.                                             *)
(***************************************************************************)
EXTENDS Integers, Sequences

CONSTANTS MaxRounds,  \* max_rounds
          MaxCalls,   \* bound on the tool calls of one answer
          MaxOps,     \* bound on the operations at which tools are still asked for
          MaxFaults   \* bound on failing flushes, model calls and tools

ASSUME AgentLoopAssumption ==
  MaxRounds \in Nat /\ MaxCalls \in Nat /\ MaxOps \in Nat /\ MaxFaults \in Nat

VARIABLES kind,        \* a turn with tools, one without, or a subagent's run
          attempt,     \* of run_as_tool
          pc, purpose, \* where the run is, and what its model call is for
          round, repaired,   \* round_idx, output_repair_used
          calls,       \* the tool requests still to be worked through
          unanswered,  \* tool calls in `messages` without a result
          completed,   \* completed_operations
          card,        \* pending_confirmation
          ops, facts, durable,
          result, source, listed,  \* what the run returns, who wrote it, on what
          faults, flushFailed

turn     == <<round, repaired, calls, unanswered, completed, card>>
evidence == <<ops, facts, durable>>
answer   == <<result, source, listed>>
failures == <<faults, flushFailed>>
vars == <<kind, attempt, pc, purpose, turn, evidence, answer, failures>>

Started(n)  == [what |-> "started", op |-> n]
Finished(n) == [what |-> "finished", op |-> n]
Message     == [what |-> "message", op |-> 0]

Op    == [what : {"inference", "leaf", "agent"}, ok : BOOLEAN]
Fact  == [what : {"started", "finished", "message"}, op : Nat]
Batch == UNION {[1 .. n -> {"leaf", "agent"}] : n \in 1 .. MaxCalls}

Init ==
  /\ kind \in {"agent", "direct", "sub"} /\ attempt = 0
  /\ pc = "start" /\ purpose = "none"
  /\ round = 0 /\ repaired = FALSE
  /\ calls = <<>> /\ unanswered = 0
  /\ completed = {} /\ card = FALSE
  /\ ops = <<>> /\ facts = <<>> /\ durable = 0
  /\ result = "none" /\ source = "model" /\ listed = {}
  /\ faults = 0 /\ flushFailed = FALSE

-----------------------------------------------------------------------------
(* Where a run goes *)

Go(place, for) ==
  pc' = place /\ purpose' = for /\ UNCHANGED <<attempt, turn, answer>>

End(value) ==
  /\ pc' = "ended" /\ purpose' = "none" /\ result' = value
  /\ UNCHANGED <<attempt, turn, source, listed>>

\* An exception: the structured answer and the memory do without the model, a
\* subagent is run once more on the messages it has, a handler reports an error.
Raise ==
  \/ purpose = "coerce" /\ End("structured")
  \/ purpose = "memory" /\ Go("finish", "none")
  \/ kind # "sub" /\ purpose # "memory" /\ Go("report", "none")
  \/ /\ kind = "sub" /\ purpose # "coerce" /\ attempt = 0
     /\ attempt' = 1 /\ pc' = "start" /\ purpose' = "none"
     /\ round' = 0 /\ repaired' = FALSE
     /\ calls' = <<>> /\ completed' = {} /\ card' = FALSE
     /\ UNCHANGED <<unanswered, answer>>
  \/ kind = "sub" /\ purpose # "coerce" /\ attempt = 1 /\ End("error")

Fault == faults < MaxFaults /\ faults' = faults + 1

\* flush_evidence.  When it fails some of the facts may have got through; the
\* others stay buffered.
Flushed    == durable' = Len(facts') /\ UNCHANGED flushFailed
NotFlushed == durable' \in durable .. Len(facts') /\ flushFailed' = TRUE

Flush(next, otherwise) ==
  \/ Flushed /\ UNCHANGED faults /\ next
  \/ NotFlushed /\ Fault /\ otherwise

-----------------------------------------------------------------------------
(* The loop *)

\* ProgressLoopContext.start: a grant, the policy, and a flush, of a turn only.
Start ==
  /\ pc = "start"
  /\ UNCHANGED <<kind, ops, facts>>
  /\ \/ kind = "agent" /\ Flush(Go("round", "none"), Raise)
     \/ kind = "direct" /\ Flush(Go("begin", "direct"), Raise)
     \/ kind = "sub" /\ Go("round", "none") /\ UNCHANGED <<durable, failures>>

NextRound ==
  /\ pc = "round" /\ round < MaxRounds
  /\ round' = round + 1
  /\ pc' = "begin" /\ purpose' = "normal"
  /\ UNCHANGED <<kind, attempt, repaired, calls, unanswered, completed, card, evidence,
                 answer, failures>>

Invalid == Go("invalid", "none")

Reply(by, work) ==
  /\ pc' = "message" /\ purpose' = "none"
  /\ source' = by /\ listed' = work
  /\ UNCHANGED <<attempt, turn, result>>

\* _deterministic_partial, _deterministic_loop_partial
Partial(by) == IF completed = {} THEN Invalid ELSE Reply(by, completed)

\* No answer that leaves a confirmation card unmentioned.
WithoutModel == IF card THEN Invalid ELSE Partial("template")

\* Rounds or tool calls are used up.  The grant may hold no closing call.
Close ==
  /\ pc = "close" \/ (pc = "round" /\ round = MaxRounds)
  /\ \/ kind = "sub" /\ Go("begin", "coerce")
     \/ kind # "sub" /\ (Go("begin", "closing") \/ WithoutModel)
  /\ UNCHANGED <<kind, evidence, failures>>

-----------------------------------------------------------------------------
(* A model call: start_inference, the request, finish_inference *)

\* The backend denies the reservation.
InferenceDenied ==
  /\ pc = "begin" /\ purpose \in {"normal", "repair", "closing", "direct"} /\ kind # "sub"
  /\ \/ purpose = "direct" /\ Go("report", "none")
     \/ purpose # "direct" /\ Invalid
     \/ purpose = "closing" /\ WithoutModel
  /\ UNCHANGED <<kind, evidence, failures>>

\* Mutant of BeginInference: the start is recorded and not flushed.
BeginUnflushed ==
  /\ pc = "begin"
  /\ ops' = Append(ops, [what |-> "inference", ok |-> FALSE])
  /\ facts' = Append(facts, Started(Len(ops) + 1))
  /\ Go("calling", purpose)
  /\ UNCHANGED <<kind, durable, failures>>

BeginInference ==
  /\ pc = "begin"
  /\ ops' = Append(ops, [what |-> "inference", ok |-> FALSE])
  /\ facts' = Append(facts, Started(Len(ops) + 1))
  /\ Flush(Go("calling", purpose), Raise)
  /\ UNCHANGED kind

\* The last operation ends and this is recorded.
Finish(ok) ==
  /\ ops' = [ops EXCEPT ![Len(ops)].ok = ok]
  /\ facts' = Append(facts, Finished(Len(ops)))
  /\ UNCHANGED kind

Requests ==
  \E batch \in Batch :
    /\ Len(ops) + Len(batch) <= MaxOps
    /\ calls' = batch
    /\ unanswered' = unanswered + Len(batch)
    /\ pc' = "tool" /\ purpose' = "none"
    /\ UNCHANGED <<attempt, round, repaired, completed, card, answer>>

Text ==
  \/ kind # "sub" /\ Reply("model", {})
  \/ kind = "sub" /\ (End("structured") \/ Go("begin", "coerce"))

\* One repair of an empty answer, if the grant has one.
Empty ==
  \/ kind = "sub" /\ Go("begin", "coerce")
  \/ kind # "sub" /\ Invalid
  \/ /\ kind = "agent" /\ purpose = "normal" /\ ~ repaired
     /\ repaired' = TRUE
     /\ pc' = "begin" /\ purpose' = "repair"
     /\ UNCHANGED <<attempt, round, calls, unanswered, completed, card, answer>>

Answered ==
  \/ purpose \in {"normal", "repair"} /\ (Requests \/ Text \/ Empty)
  \/ purpose = "direct" /\ (Reply("model", {}) \/ Invalid)
  \/ purpose = "closing" /\ (Reply("model", {}) \/ WithoutModel)
  \/ purpose = "coerce" /\ End("structured")
  \/ purpose = "memory" /\ Go("finish", "none")

ModelAnswers ==
  /\ pc = "calling"
  /\ Finish(TRUE)
  /\ Flush(Answered, Raise)

ModelFails ==
  /\ pc = "calling"
  /\ Finish(FALSE)
  /\ Fault /\ (Flushed \/ NotFlushed)
  /\ Raise

-----------------------------------------------------------------------------
(* A tool call: start_tool, dispatch, observe_tool_result, finish_tool *)

StartTool ==
  /\ pc = "tool" /\ calls # <<>>
  /\ ops' = Append(ops, [what |-> Head(calls), ok |-> FALSE])
  /\ facts' = Append(facts, Started(Len(ops) + 1))
  /\ Flush(Go("dispatch", "none"), Raise)
  /\ UNCHANGED kind

\* Mutants of Skipped: only the call that was denied is answered; one too many is.
SkippedFirst   == 1
SkippedOneMore == Len(calls) + 1

Skipped == Len(calls)

\* ToolBudgetDenied: the calls that are left are answered as skipped.
ToolDenied ==
  /\ pc = "tool" /\ calls # <<>> /\ kind = "agent"
  /\ unanswered' = unanswered - Skipped
  /\ calls' = <<>>
  /\ pc' = "close"
  /\ UNCHANGED <<kind, attempt, purpose, round, repaired, completed, card, evidence, answer,
                 failures>>

\* ToolLoopGuardBlocked: the call is answered as blocked.
ToolBlocked ==
  /\ pc = "tool" /\ calls # <<>> /\ kind = "agent"
  /\ unanswered' = unanswered - 1
  /\ calls' = Tail(calls)
  /\ UNCHANGED <<kind, attempt, pc, purpose, round, repaired, completed, card, evidence,
                 answer, failures>>

\* ToolLoopGuardTerminated
LoopDetected ==
  /\ pc = "tool" /\ calls # <<>> /\ kind = "agent"
  /\ Partial("loop_template")
  /\ UNCHANGED <<kind, evidence, failures>>

\* The reservation gets no answer, which the loop does not catch for a tool.
ReservationFails ==
  /\ pc = "tool" /\ calls # <<>> /\ kind = "agent"
  /\ Fault /\ Raise
  /\ UNCHANGED <<kind, evidence, flushFailed>>

\* Mutant of Completes: a tool that reported an error counts as completed work.
CompletesAnyway(op, ok) == ops[op].what = "leaf"

\* Only leaf tools that reported no error.  Some have nothing to show.
Completes(op, ok) == ops[op].what = "leaf" /\ ok

\* The tool returns.  A subagent yields as soon as a card waits for the user.
ToolReturned(ok, parked) ==
  /\ unanswered' = unanswered - 1
  /\ calls' = Tail(calls)
  /\ card' = (card \/ parked)
  /\ completed' \in {completed} \cup
       (IF Completes(Len(ops), ok) THEN {completed \cup {Len(ops)}} ELSE {})
  /\ IF kind = "sub" /\ parked
     THEN pc' = "ended" /\ result' = "structured" /\ UNCHANGED <<source, listed>>
     ELSE pc' = "tool" /\ UNCHANGED answer
  /\ UNCHANGED <<attempt, purpose, round, repaired>>

ToolReturns ==
  /\ pc = "dispatch"
  /\ \E ok, parked \in BOOLEAN :
       /\ parked => ok /\ ops[Len(ops)].what = "leaf"
       /\ Finish(ok)
       /\ Flush(ToolReturned(ok, parked), Raise)

\* Mutant of ToolRaises: the exception leaves the operation open.
ToolRaisesOpen == pc = "dispatch" /\ Fault /\ Raise /\ UNCHANGED <<kind, evidence, flushFailed>>

ToolRaises ==
  /\ pc = "dispatch"
  /\ Finish(FALSE)
  /\ Fault /\ (Flushed \/ NotFlushed)
  /\ Raise

ToolsDone ==
  /\ pc = "tool" /\ calls = <<>>
  /\ Go("round", "none")
  /\ UNCHANGED <<kind, evidence, failures>>

-----------------------------------------------------------------------------
(* The handler *)

\* record_final_message.  The assistant then looks for something to remember.
FinalMessage ==
  /\ pc = "message"
  /\ facts' = Append(facts, Message)
  /\ \/ Go("finish", "none")
     \/ kind = "agent" /\ source = "model" /\ Go("begin", "memory")
  /\ UNCHANGED <<kind, ops, durable, failures>>

\* Mutant of ReturnReply: the last flush is left out.
ReturnUnflushed ==
  pc = "finish" /\ End("reply") /\ UNCHANGED <<kind, evidence, failures>>

ReturnReply ==
  /\ pc = "finish"
  /\ UNCHANGED <<kind, ops, facts>>
  /\ Flush(End("reply"), Go("report", "none"))

ReturnInvalid ==
  /\ pc = "invalid"
  /\ UNCHANGED <<kind, ops, facts>>
  /\ Flush(End("error"), Go("report", "none"))

\* An except clause: it flushes too, and if this raises the execution fails.
Report ==
  /\ pc = "report"
  /\ UNCHANGED <<kind, ops, facts>>
  /\ Flush(End("error"), End("raised"))

Next ==
  \/ Start \/ NextRound \/ Close
  \/ InferenceDenied \/ BeginInference \/ ModelAnswers \/ ModelFails
  \/ StartTool \/ ToolDenied \/ ToolBlocked \/ LoopDetected \/ ReservationFails
  \/ ToolReturns \/ ToolRaises \/ ToolsDone
  \/ FinalMessage \/ ReturnReply \/ ReturnInvalid \/ Report

Spec == Init /\ [][Next]_vars
-----------------------------------------------------------------------------
(* Properties *)

TypeOK ==
  /\ kind \in {"agent", "direct", "sub"} /\ attempt \in {0, 1}
  /\ pc \in {"start", "round", "begin", "calling", "tool", "dispatch", "close",
             "message", "finish", "invalid", "report", "ended"}
  /\ purpose \in {"none", "normal", "repair", "closing", "direct", "coerce", "memory"}
  /\ round \in 0 .. MaxRounds /\ repaired \in BOOLEAN
  /\ calls \in Seq({"leaf", "agent"}) /\ unanswered \in Nat
  /\ completed \subseteq 1 .. Len(ops) /\ card \in BOOLEAN
  /\ ops \in Seq(Op) /\ facts \in Seq(Fact) /\ durable \in 0 .. Len(facts)
  /\ result \in {"none", "reply", "structured", "error", "raised"}
  /\ source \in {"model", "template", "loop_template"}
  /\ listed \subseteq 1 .. Len(ops)
  /\ faults \in 0 .. MaxFaults /\ flushFailed \in BOOLEAN

Durable(fact) == \E i \in 1 .. durable : facts[i] = fact

\* The model is never asked to go on from a conversation in which it called a tool
\* and has no result: denied, blocked and failing calls are answered too.  A
\* subagent's second attempt is excepted, it starts from whatever the first left.
AnsweredBeforeInference ==
  pc \in {"begin", "calling"} /\ attempt = 0 => unanswered = 0

\* No model runs and no tool acts unless its start, and all that came before, is at
\* the backend; what was not dispatched is not on record as finished.
EvidenceBeforeEffect ==
  pc \in {"calling", "dispatch"} =>
    /\ durable = Len(facts) /\ Durable(Started(Len(ops)))
    /\ \A i \in 1 .. durable : facts[i] # Finished(Len(ops))

\* An answer written from the template lists work, all of it done by leaf tools
\* without an error and on record, and passes over no confirmation card that one of
\* the turn's own tools has shown, unless the loop guard stopped the turn.
PartialListsDurableWork ==
  source # "model" =>
    /\ listed # {}
    /\ \A op \in listed : ops[op].what = "leaf" /\ ops[op].ok /\ Durable(Finished(op))
    /\ source = "template" => ~ card

\* Whatever model calls and tools do, once a run has ended its operations are on
\* record as finished, unless a flush failed.
OperationsClosed ==
  pc = "ended" /\ ~ flushFailed => \A op \in 1 .. Len(ops) : Durable(Finished(op))

\* A handler returns a reply only with the message on record, and nothing is
\* remembered of a turn whose message is not.
AnswerIsDurable ==
  result = "reply" \/ (pc = "calling" /\ purpose = "memory") => Durable(Message)
=============================================================================
