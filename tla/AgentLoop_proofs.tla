--------------------------- MODULE AgentLoop_proofs ---------------------------
(***************************************************************************)
(* Proofs about AgentLoop: whatever the model answers, however many rounds,   *)
(* tool calls and failures a turn has, and wherever its exceptions lead, the   *)
(* conversation stays well-formed and the evidence comes before the effect.   *)
(***************************************************************************)
EXTENDS AgentLoop, TLAPS

USE AgentLoopAssumption

-----------------------------------------------------------------------------
(* The inductive invariant *)

\* A run has a purpose while it calls the model, and a result when it has ended.
Placed ==
  /\ purpose # "none" => pc \in {"begin", "calling"}
  /\ result # "none" => pc = "ended"

\* In a first attempt the calls without a result are those still to be worked
\* through, and none is left when the model is to be called.
CallsCounted ==
  /\ unanswered >= Len(calls)
  /\ attempt = 0 => unanswered = Len(calls)
  /\ pc \in {"start", "round", "begin", "calling", "close"} => calls = <<>>
  /\ pc = "message" /\ source = "model" => calls = <<>>
  /\ pc = "dispatch" => calls # <<>>

Underway == pc \in {"calling", "dispatch"}

Recorded(fact) == \E i \in 1 .. Len(facts) : facts[i] = fact

\* Facts are about operations there are; the one under way has begun on record and
\* has not ended; every other one has, unless a flush failed.
EvidenceKept ==
  /\ \A i \in 1 .. Len(facts) : facts[i].op <= Len(ops)
  /\ Underway => /\ Len(ops) > 0 /\ durable = Len(facts)
                 /\ Recorded(Started(Len(ops))) /\ ~ Recorded(Finished(Len(ops)))
  /\ \A op \in 1 .. Len(ops) :
       Recorded(Finished(op)) \/ flushFailed \/ (Underway /\ op = Len(ops))
  /\ pc = "ended" => durable = Len(facts) \/ flushFailed

\* A leaf tool's work, done without an error and on record for good.
Done(op) ==
  op \in 1 .. Len(ops) /\ ops[op].what = "leaf" /\ ops[op].ok /\ Durable(Finished(op))

\* A template is filled in with done work, and ends the turn.
WorkDone ==
  /\ \A op \in completed : Done(op)
  /\ source = "model" => listed = {}
  /\ source # "model" =>
       /\ pc \in {"message", "finish", "report", "ended"}
       /\ listed # {} /\ \A op \in listed : Done(op)
       /\ source = "template" => ~ card

\* What follows the message has it on record.
MessageRecorded ==
  /\ purpose = "memory" \/ pc = "finish" => Recorded(Message)
  /\ result = "reply" => Durable(Message)

IInv == TypeOK /\ Placed /\ CallsCounted /\ EvidenceKept /\ WorkDone /\ MessageRecorded

-----------------------------------------------------------------------------
(* Types *)

ControlOK ==
  /\ attempt \in {0, 1}
  /\ pc \in {"start", "round", "begin", "calling", "tool", "dispatch", "close",
             "message", "finish", "invalid", "report", "ended"}
  /\ purpose \in {"none", "normal", "repair", "closing", "direct", "coerce", "memory"}
  /\ round \in 0 .. MaxRounds /\ repaired \in BOOLEAN
  /\ calls \in Seq({"leaf", "agent"}) /\ unanswered \in Nat
  /\ completed \subseteq 1 .. Len(ops) /\ card \in BOOLEAN
  /\ result \in {"none", "reply", "structured", "error", "raised"}
  /\ source \in {"model", "template", "loop_template"}
  /\ listed \subseteq 1 .. Len(ops)

EvidenceOK == ops \in Seq(Op) /\ facts \in Seq(Fact) /\ durable \in 0 .. Len(facts)

FailuresOK == faults \in 0 .. MaxFaults /\ flushFailed \in BOOLEAN

\* The operations and the facts grow.
OpsGrow == Len(ops) <= Len(ops') /\ Len(ops') \in Nat

LEMMA TypeParts ==
  TypeOK <=> kind \in {"agent", "direct", "sub"} /\ ControlOK /\ EvidenceOK /\ FailuresOK
BY DEF TypeOK, ControlOK, EvidenceOK, FailuresOK

\* What a run goes on to is in place, whatever it was doing.
LEMMA GoOK ==
  ASSUME TypeOK, OpsGrow, NEW place, NEW for,
         place \in {"start", "round", "begin", "calling", "tool", "dispatch", "close",
                    "message", "finish", "invalid", "report", "ended"},
         for \in {"none", "normal", "repair", "closing", "direct", "coerce", "memory"},
         Go(place, for)
  PROVE  ControlOK'
BY DEF TypeOK, OpsGrow, Go, ControlOK, turn, answer

LEMMA EndOK ==
  ASSUME TypeOK, OpsGrow, NEW value \in {"reply", "structured", "error", "raised"},
         End(value)
  PROVE  ControlOK'
BY DEF TypeOK, OpsGrow, End, ControlOK, turn

LEMMA RaiseOK ==
  ASSUME TypeOK, OpsGrow, Raise
  PROVE  ControlOK'
<1>1. CASE kind = "sub" /\ purpose # "coerce" /\ attempt = 0
           /\ attempt' = 1 /\ pc' = "start" /\ purpose' = "none"
           /\ round' = 0 /\ repaired' = FALSE
           /\ calls' = <<>> /\ completed' = {} /\ card' = FALSE
           /\ UNCHANGED <<unanswered, answer>>
  <2>1. calls' \in Seq({"leaf", "agent"})
    BY <1>1
  <2>2. 0 \in 0 .. MaxRounds
    OBVIOUS
  <2>3. /\ round' \in 0 .. MaxRounds /\ repaired' \in BOOLEAN /\ card' \in BOOLEAN
        /\ attempt' \in {0, 1} /\ completed' \subseteq 1 .. Len(ops')
    BY <1>1, <2>2
  <2>4. listed' \subseteq 1 .. Len(ops') /\ unanswered' \in Nat
    BY <1>1 DEF TypeOK, OpsGrow, answer
  <2> QED  BY <1>1, <2>1, <2>3, <2>4 DEF TypeOK, ControlOK, answer
<1>2. CASE End("structured") \/ End("error")
  BY <1>2, EndOK
<1>3. CASE Go("finish", "none") \/ Go("report", "none")
  BY <1>3, GoOK
<1> QED  BY <1>1, <1>2, <1>3 DEF Raise

LEMMA ReplyOK ==
  ASSUME TypeOK, OpsGrow, NEW by \in {"model", "template", "loop_template"},
         NEW work, work \subseteq 1 .. Len(ops), Reply(by, work)
  PROVE  ControlOK'
BY DEF TypeOK, OpsGrow, Reply, ControlOK, turn

LEMMA PartialOK ==
  ASSUME TypeOK, OpsGrow, NEW by \in {"model", "template", "loop_template"}, Partial(by)
  PROVE  ControlOK'
<1>1. CASE Invalid
  BY <1>1, GoOK DEF Invalid
<1>2. CASE Reply(by, completed)
  BY <1>2, ReplyOK DEF TypeOK
<1> QED  BY <1>1, <1>2 DEF Partial

LEMMA WithoutModelOK ==
  ASSUME TypeOK, OpsGrow, WithoutModel
  PROVE  ControlOK'
BY GoOK, PartialOK DEF WithoutModel, Invalid

LEMMA AnsweredOK ==
  ASSUME TypeOK, OpsGrow, Answered
  PROVE  ControlOK'
<1>1. CASE Requests
  <2>1. PICK batch \in Batch : calls' = batch /\ unanswered' = unanswered + Len(batch)
                               /\ pc' = "tool" /\ purpose' = "none"
                               /\ UNCHANGED <<attempt, round, repaired, completed, card, answer>>
    BY <1>1 DEF Requests
  <2>2. batch \in Seq({"leaf", "agent"})
    BY DEF Batch
  <2>3. Len(batch) \in Nat
    BY <2>2
  <2> QED  BY <2>1, <2>2, <2>3 DEF TypeOK, OpsGrow, ControlOK, answer
<1>2. CASE Text
  BY <1>2, GoOK, EndOK, ReplyOK DEF Text
<1>3. CASE Empty
  <2>1. CASE repaired' = TRUE /\ pc' = "begin" /\ purpose' = "repair"
             /\ UNCHANGED <<attempt, round, calls, unanswered, completed, card, answer>>
    BY <2>1 DEF TypeOK, OpsGrow, ControlOK, answer
  <2>2. CASE Go("begin", "coerce") \/ Invalid
    BY <2>2, GoOK DEF Invalid
  <2> QED  BY <1>3, <2>1, <2>2 DEF Empty
<1>4. CASE Reply("model", {})
  BY <1>4, ReplyOK
<1>5. CASE Invalid
  BY <1>5, GoOK DEF Invalid
<1> QED  BY <1>1, <1>2, <1>3, <1>4, <1>5, WithoutModelOK, GoOK, EndOK DEF Answered

-----------------------------------------------------------------------------
(* What a step adds to the evidence *)

Begins ==
  \E what \in {"inference", "leaf", "agent"} :
    /\ ops' = Append(ops, [what |-> what, ok |-> FALSE])
    /\ facts' = Append(facts, Started(Len(ops) + 1))

Ends == \E ok \in BOOLEAN : Finish(ok)

Says == ops' = ops /\ facts' = Append(facts, Message)

Keeps == UNCHANGED <<ops, facts>>

\* Only a step of the run itself begins or ends its operation; what has begun
\* without a complete flush is not under way, and neither is anything lost then.
Adds ==
  /\ durable' \in durable .. Len(facts')
  /\ flushFailed' \in BOOLEAN /\ (flushFailed => flushFailed')
  /\ pc' = "ended" => durable' = Len(facts') \/ flushFailed'
  /\ \/ Keeps /\ ~ Underway /\ ~ Underway'
     \/ Says /\ ~ Underway /\ ~ Underway'
     \/ Begins /\ ~ Underway /\ Underway' /\ durable' = Len(facts')
     \/ Begins /\ ~ Underway /\ ~ Underway' /\ flushFailed'
     \/ Ends /\ Underway /\ ~ Underway'

\* Facts are added at the end.
FactsGrow ==
  /\ facts' \in Seq(Fact) /\ Len(facts') \in Nat /\ Len(facts) \in Nat
  /\ Len(facts) <= Len(facts')
  /\ \A i \in 1 .. Len(facts) : facts'[i] = facts[i]

\* An operation that is not the last stays as it is.
OpsStay ==
  /\ ops' \in Seq(Op) /\ Len(ops) \in Nat
  /\ \A op \in 1 .. Len(ops) : op < Len(ops) \/ ~ Underway => ops'[op] = ops[op]

\* What is appended to a sequence comes last, what was there stays.
LEMMA Appended ==
  ASSUME NEW S, NEW s \in Seq(S), NEW e \in S
  PROVE  /\ Append(s, e) \in Seq(S)
         /\ Len(Append(s, e)) = Len(s) + 1 /\ Len(s) \in Nat
         /\ \A i \in 1 .. Len(s) : Append(s, e)[i] = s[i]
         /\ Append(s, e)[Len(s) + 1] = e
OBVIOUS

LEMMA BeginsGrows ==
  ASSUME TypeOK, Begins
  PROVE  /\ FactsGrow /\ OpsStay /\ OpsGrow
         /\ Len(ops') = Len(ops) + 1 /\ Len(facts') = Len(facts) + 1
         /\ facts'[Len(facts')] = Started(Len(ops'))
<1>1. PICK what \in {"inference", "leaf", "agent"} :
        /\ ops' = Append(ops, [what |-> what, ok |-> FALSE])
        /\ facts' = Append(facts, Started(Len(ops) + 1))
  BY DEF Begins
<1>2. [what |-> what, ok |-> FALSE] \in Op
  BY DEF Op
<1>3. ops \in Seq(Op) /\ facts \in Seq(Fact) /\ Len(ops) \in Nat
  BY DEF TypeOK
<1>4. Started(Len(ops) + 1) \in Fact
  BY <1>3 DEF Started, Fact
<1>5. /\ ops' \in Seq(Op) /\ Len(ops') = Len(ops) + 1
      /\ \A op \in 1 .. Len(ops) : ops'[op] = ops[op]
  BY <1>1, <1>2, <1>3, Appended
<1>6. /\ facts' \in Seq(Fact) /\ Len(facts') = Len(facts) + 1 /\ Len(facts) \in Nat
      /\ \A i \in 1 .. Len(facts) : facts'[i] = facts[i]
      /\ facts'[Len(facts) + 1] = Started(Len(ops) + 1)
  BY <1>1, <1>3, <1>4, Appended
<1>7. FactsGrow /\ OpsStay /\ OpsGrow
  BY <1>3, <1>5, <1>6 DEF FactsGrow, OpsStay, OpsGrow
<1> QED  BY <1>5, <1>6, <1>7

LEMMA EndsGrows ==
  ASSUME IInv, Underway, Ends
  PROVE  /\ FactsGrow /\ OpsStay /\ OpsGrow
         /\ Len(ops') = Len(ops) /\ Len(facts') = Len(facts) + 1
         /\ facts'[Len(facts')] = Finished(Len(ops))
<1>1. PICK ok \in BOOLEAN : Finish(ok)
  BY DEF Ends
<1>2. ops \in Seq(Op) /\ facts \in Seq(Fact) /\ Len(ops) \in Nat /\ Len(ops) > 0
  BY DEF IInv, TypeOK, EvidenceKept
<1>3. Finished(Len(ops)) \in Fact
  BY <1>2 DEF Finished, Fact
<1>4. [ops[Len(ops)] EXCEPT !.ok = ok] \in Op
  <2>1. ops[Len(ops)] \in Op
    BY <1>2
  <2> QED  BY <2>1 DEF Op
<1>5. /\ ops' \in Seq(Op) /\ Len(ops') = Len(ops)
      /\ \A op \in 1 .. Len(ops) : op < Len(ops) => ops'[op] = ops[op]
  <2>1. ops' = [ops EXCEPT ![Len(ops)] = [ops[Len(ops)] EXCEPT !.ok = ok]]
    BY <1>1 DEF Finish
  <2> QED  BY <1>2, <1>4, <2>1
<1>6. /\ facts' \in Seq(Fact) /\ Len(facts') = Len(facts) + 1 /\ Len(facts) \in Nat
      /\ \A i \in 1 .. Len(facts) : facts'[i] = facts[i]
      /\ facts'[Len(facts) + 1] = Finished(Len(ops))
  BY <1>1, <1>2, <1>3, Appended DEF Finish
<1>7. FactsGrow /\ OpsStay /\ OpsGrow
  BY <1>2, <1>5, <1>6 DEF FactsGrow, OpsStay, OpsGrow
<1> QED  BY <1>5, <1>6, <1>7

LEMMA SaysGrows ==
  ASSUME TypeOK, Says
  PROVE  /\ FactsGrow /\ OpsStay /\ OpsGrow
         /\ Len(ops') = Len(ops) /\ Len(facts') = Len(facts) + 1
         /\ facts'[Len(facts')] = Message
<1>1. ops \in Seq(Op) /\ facts \in Seq(Fact) /\ Len(ops) \in Nat
  BY DEF TypeOK
<1>2. Message \in Fact
  BY DEF Message, Fact
<1>3. /\ facts' \in Seq(Fact) /\ Len(facts') = Len(facts) + 1 /\ Len(facts) \in Nat
      /\ \A i \in 1 .. Len(facts) : facts'[i] = facts[i]
      /\ facts'[Len(facts) + 1] = Message
  BY <1>1, <1>2, Appended DEF Says
<1> QED  BY <1>1, <1>3 DEF Says, FactsGrow, OpsStay, OpsGrow

LEMMA KeepsGrows ==
  ASSUME TypeOK, Keeps
  PROVE  FactsGrow /\ OpsStay /\ OpsGrow
BY DEF TypeOK, Keeps, FactsGrow, OpsStay, OpsGrow

LEMMA AddsGrows ==
  ASSUME IInv, Adds
  PROVE  FactsGrow /\ OpsStay /\ OpsGrow
BY BeginsGrows, EndsGrows, SaysGrows, KeepsGrows DEF IInv, Adds

-----------------------------------------------------------------------------
(* What each step adds *)

\* An exception takes the run away from its operation, and ends it only where the
\* structured answer or a subagent gives up.
LEMMA RaiseAway ==
  ASSUME Raise
  PROVE  /\ ~ Underway'
         /\ pc' \in {"start", "finish", "report", "ended"}
         /\ pc' = "ended" => kind = "sub" \/ purpose = "coerce"
BY DEF Raise, End, Go, Underway

LEMMA ReplyAway ==
  ASSUME NEW by, Partial(by) \/ WithoutModel
  PROVE  ~ Underway' /\ pc' # "ended"
BY DEF WithoutModel, Partial, Invalid, Reply, Go, Underway

LEMMA AnsweredAway ==
  ASSUME Answered
  PROVE  ~ Underway'
BY ReplyAway DEF Answered, Requests, Text, Empty, Invalid, Reply, Go, End, Underway

\* The two ways a flush ends.
LEMMA FlushAdds ==
  ASSUME TypeOK, Len(facts') \in Nat, Len(facts) <= Len(facts'), Flushed \/ NotFlushed
  PROVE  /\ durable' \in durable .. Len(facts')
         /\ flushFailed' \in BOOLEAN /\ (flushFailed => flushFailed')
         /\ durable' = Len(facts') \/ flushFailed'
         /\ NotFlushed => flushFailed'
<1>1. durable \in Nat /\ Len(facts) \in Nat /\ durable <= Len(facts)
  BY DEF TypeOK
<1>2. durable' \in durable .. Len(facts')
  BY <1>1 DEF Flushed, NotFlushed
<1>3. /\ flushFailed' \in BOOLEAN /\ (flushFailed => flushFailed')
      /\ durable' = Len(facts') \/ flushFailed'
      /\ NotFlushed => flushFailed'
  BY Zenon DEF TypeOK, Flushed, NotFlushed
<1> QED  BY <1>2, <1>3

LEMMA BeginAdds ==
  ASSUME TypeOK, Begins, pc \in {"begin", "tool"}, NEW place \in {"calling", "dispatch"},
         NEW for, Flush(Go(place, for), Raise)
  PROVE  Adds
<1>1. Len(facts') \in Nat /\ Len(facts) <= Len(facts')
  BY BeginsGrows DEF FactsGrow
<1>2. ~ Underway
  BY DEF Underway
<1>3. CASE Flushed /\ Go(place, for)
  <2>1. Underway' /\ pc' # "ended" /\ durable' = Len(facts')
    BY <1>3 DEF Go, Underway, Flushed
  <2> QED  BY <1>1, <1>2, <1>3, <2>1, FlushAdds DEF Adds
<1>4. CASE NotFlushed /\ Raise
  BY <1>1, <1>2, <1>4, FlushAdds, RaiseAway DEF Adds
<1> QED  BY <1>3, <1>4 DEF Flush

LEMMA EndAdds ==
  ASSUME IInv, Underway, Ends, Flushed \/ NotFlushed, ~ Underway'
  PROVE  Adds
BY EndsGrows, FlushAdds DEF IInv, FactsGrow, Adds

LEMMA KeepAdds ==
  ASSUME TypeOK, Keeps, ~ Underway, ~ Underway', Flushed \/ NotFlushed
  PROVE  Adds
BY KeepsGrows, FlushAdds DEF FactsGrow, Adds

LEMMA IdleAdds ==
  ASSUME TypeOK, Keeps, ~ Underway, ~ Underway', UNCHANGED <<durable, flushFailed>>, pc' # "ended"
  PROVE  Adds
BY DEF TypeOK, Keeps, Adds

LEMMA NextAdds ==
  ASSUME IInv, Next
  PROVE  Adds /\ UNCHANGED kind
<1>0. TypeOK /\ Placed
  BY DEF IInv
<1>1. CASE Start
  <2>1. CASE Flushed \/ NotFlushed
    BY <1>0, <1>1, <2>1, KeepAdds, RaiseAway DEF Start, Flush, Keeps, Underway, Go
  <2>2. CASE Go("round", "none") /\ UNCHANGED <<durable, failures>>
    BY <1>0, <1>1, <2>2, IdleAdds DEF Start, Keeps, Underway, Go, failures
  <2> QED  BY <1>1, <2>1, <2>2 DEF Start, Flush
<1>2. CASE NextRound
  BY <1>0, <1>2, IdleAdds DEF NextRound, Keeps, Underway, evidence, failures
<1>3. CASE Close
  BY <1>0, <1>3, IdleAdds, ReplyAway DEF Close, Go, Keeps, Underway, evidence, failures
<1>4. CASE InferenceDenied
  BY <1>0, <1>4, IdleAdds, ReplyAway
     DEF InferenceDenied, Invalid, Go, Keeps, Underway, evidence, failures
<1>5. CASE BeginInference
  BY <1>0, <1>5, BeginAdds DEF BeginInference, Begins
<1>6. CASE ModelAnswers
  BY <1>6, EndAdds, RaiseAway, AnsweredAway DEF ModelAnswers, Flush, Ends, Finish, Underway
<1>7. CASE ModelFails
  BY <1>7, EndAdds, RaiseAway DEF ModelFails, Ends, Finish, Underway
<1>8. CASE StartTool
  <2>1. Head(calls) \in {"inference", "leaf", "agent"}
    BY <1>0, <1>8 DEF TypeOK, StartTool
  <2> QED  BY <1>0, <1>8, <2>1, BeginAdds DEF StartTool, Begins
<1>9. CASE ToolDenied \/ ToolBlocked
  BY <1>0, <1>9, IdleAdds DEF ToolDenied, ToolBlocked, Keeps, Underway, evidence, failures
<1>10. CASE LoopDetected
  BY <1>0, <1>10, IdleAdds, ReplyAway DEF LoopDetected, Keeps, Underway, evidence, failures
<1>11. CASE ReservationFails
  BY <1>0, <1>11, IdleAdds, RaiseAway
     DEF ReservationFails, Placed, Keeps, Underway, evidence
<1>12. CASE ToolReturns
  <2>1. PICK ok, parked \in BOOLEAN : Finish(ok) /\ Flush(ToolReturned(ok, parked), Raise)
    BY <1>12 DEF ToolReturns
  <2>2. Ends /\ Underway
    BY <1>12, <2>1 DEF ToolReturns, Ends, Underway
  <2>3. ~ Underway' /\ (Flushed \/ NotFlushed)
    BY <2>1, RaiseAway DEF Flush, ToolReturned, Underway
  <2> QED  BY <2>1, <2>2, <2>3, EndAdds DEF Finish
<1>13. CASE ToolRaises
  BY <1>13, EndAdds, RaiseAway DEF ToolRaises, Ends, Finish, Underway
<1>14. CASE ToolsDone
  BY <1>0, <1>14, IdleAdds DEF ToolsDone, Go, Keeps, Underway, evidence, failures
<1>15. CASE FinalMessage
  <2>1. /\ Says /\ ~ Underway /\ ~ Underway' /\ pc' # "ended"
        /\ UNCHANGED <<kind, durable, failures>>
    BY <1>15 DEF FinalMessage, Says, Go, Underway
  <2>2. Len(facts') \in Nat /\ Len(facts) <= Len(facts')
    BY <1>0, <2>1, SaysGrows DEF FactsGrow
  <2> QED  BY <1>0, <2>1, <2>2 DEF TypeOK, Adds, failures
<1>16. CASE ReturnReply \/ ReturnInvalid \/ Report
  BY <1>0, <1>16, KeepAdds
     DEF ReturnReply, ReturnInvalid, Report, Flush, Go, End, Keeps, Underway
<1> QED
  BY <1>1, <1>2, <1>3, <1>4, <1>5, <1>6, <1>7, <1>8, <1>9, <1>10, <1>11, <1>12, <1>13,
     <1>14, <1>15, <1>16 DEF Next

\* Every step leaves the run somewhere it can be.
LEMMA NextControlOK ==
  ASSUME IInv, Next, OpsGrow
  PROVE  ControlOK'
<1>0. TypeOK /\ CallsCounted
  BY DEF IInv
<1>1. CASE Raise
  BY <1>0, <1>1, RaiseOK
<1>2. CASE Answered
  BY <1>0, <1>2, AnsweredOK
<1>3. CASE WithoutModel \/ Partial("loop_template")
  BY <1>0, <1>3, WithoutModelOK, PartialOK
<1>4. CASE \E place \in {"round", "begin", "calling", "dispatch", "finish", "invalid", "report"},
              for \in {"none", "normal", "repair", "closing", "direct", "coerce", "memory"} :
             Go(place, for)
  BY <1>0, <1>4, GoOK
<1>5. CASE End("reply") \/ End("error") \/ End("raised")
  BY <1>0, <1>5, EndOK
<1>6. CASE NextRound
  BY <1>0, <1>6 DEF NextRound, TypeOK, OpsGrow, ControlOK, answer
<1>7. CASE ToolDenied \/ ToolBlocked
  <2>1. calls \in Seq({"leaf", "agent"}) /\ calls # <<>> /\ unanswered \in Nat /\ unanswered >= Len(calls)
    BY <1>0, <1>7 DEF ToolDenied, ToolBlocked, TypeOK, CallsCounted
  <2>2. Len(calls) \in Nat /\ Len(calls) > 0 /\ Tail(calls) \in Seq({"leaf", "agent"})
    BY <2>1
  <2>3. CASE ToolDenied
    <3>1. calls' = <<>> /\ unanswered' \in Nat
      BY <2>1, <2>2, <2>3 DEF ToolDenied, Skipped
    <3> QED  BY <1>0, <2>3, <3>1 DEF ToolDenied, TypeOK, OpsGrow, ControlOK, answer
  <2>4. CASE ToolBlocked
    <3>1. calls' \in Seq({"leaf", "agent"}) /\ unanswered' \in Nat
      BY <2>1, <2>2, <2>4 DEF ToolBlocked
    <3> QED  BY <1>0, <2>4, <3>1 DEF ToolBlocked, TypeOK, OpsGrow, ControlOK, answer
  <2> QED  BY <1>7, <2>3, <2>4
<1>8. CASE ToolReturns /\ ~ Raise
  <2>1. PICK ok, parked \in BOOLEAN : ToolReturned(ok, parked)
    BY <1>8 DEF ToolReturns, Flush
  <2>2. calls # <<>> /\ Len(ops) \in Nat /\ Len(ops) > 0
    BY <1>0, <1>8 DEF IInv, TypeOK, EvidenceKept, CallsCounted, ToolReturns, Underway
  <2>3. calls' \in Seq({"leaf", "agent"}) /\ unanswered' \in Nat
    BY <1>0, <2>1, <2>2 DEF ToolReturned, TypeOK, CallsCounted
  <2>4. completed' \subseteq 1 .. Len(ops')
    BY <1>0, <2>1, <2>2 DEF ToolReturned, TypeOK, OpsGrow
  <2>5. /\ pc' \in {"ended", "tool"} /\ card' \in BOOLEAN
        /\ UNCHANGED <<attempt, purpose, round, repaired, source, listed>>
        /\ result' \in {result, "structured"}
    BY <1>0, <2>1 DEF ToolReturned, TypeOK, answer
  <2> QED  BY <1>0, <2>3, <2>4, <2>5 DEF TypeOK, OpsGrow, ControlOK
<1> QED
  BY <1>0, <1>1, <1>2, <1>3, <1>4, <1>5, <1>6, <1>7, <1>8
     DEF Next, Start, Close, InferenceDenied, BeginInference, ModelAnswers, ModelFails, StartTool,
         LoopDetected, ReservationFails, ToolReturns, ToolRaises, ToolsDone, FinalMessage,
         ReturnReply, ReturnInvalid, Report, Flush, Invalid, TypeOK

LEMMA TypeStep ==
  ASSUME IInv, Next
  PROVE  TypeOK'
<1>1. Adds /\ kind' = kind
  BY NextAdds
<1>2. FactsGrow /\ OpsStay /\ OpsGrow
  BY <1>1, AddsGrows
<1>3. ControlOK'
  BY <1>2, NextControlOK
<1>4. EvidenceOK'
  BY <1>1, <1>2 DEF IInv, TypeOK, Adds, FactsGrow, OpsStay, EvidenceOK
<1>5. faults' \in 0 .. MaxFaults
  <2>1. UNCHANGED faults \/ Fault
    BY DEF Next, Start, NextRound, Close, InferenceDenied, BeginInference, ModelAnswers, ModelFails,
           StartTool, ToolDenied, ToolBlocked, LoopDetected, ReservationFails, ToolReturns,
           ToolRaises, ToolsDone, FinalMessage, ReturnReply, ReturnInvalid, Report, Flush, failures
  <2> QED  BY <2>1 DEF Fault, IInv, TypeOK
<1> QED  BY <1>1, <1>3, <1>4, <1>5, TypeParts DEF IInv, TypeOK, ControlOK, EvidenceOK, Adds

-----------------------------------------------------------------------------
(* The place of a run and the calls it has to answer *)

\* Nothing happens after the end.
LEMMA StillRunning ==
  ASSUME IInv, Next
  PROVE  pc # "ended" /\ result = "none"
<1>1. pc # "ended"
  BY DEF Next, Start, NextRound, Close, InferenceDenied, BeginInference, ModelAnswers, ModelFails,
         StartTool, ToolDenied, ToolBlocked, LoopDetected, ReservationFails, ToolReturns,
         ToolRaises, ToolsDone, FinalMessage, ReturnReply, ReturnInvalid, Report
<1> QED  BY <1>1 DEF IInv, Placed

LEMMA RaiseControl ==
  ASSUME TypeOK, CallsCounted, result = "none", Raise
  PROVE  Placed' /\ CallsCounted'
<1>0. Len(calls) \in Nat /\ unanswered \in Nat /\ unanswered >= Len(calls)
  BY DEF TypeOK, CallsCounted
<1>1. CASE /\ attempt' = 1 /\ pc' = "start" /\ purpose' = "none" /\ calls' = <<>>
           /\ UNCHANGED <<unanswered, answer>>
  <2>1. Len(calls') = 0 /\ unanswered' >= Len(calls')
    BY <1>0, <1>1
  <2> QED  BY <1>1, <2>1 DEF Placed, CallsCounted, answer
<1>2. CASE End("structured") \/ End("error")
  BY <1>0, <1>2 DEF End, turn, Placed, CallsCounted
<1>3. CASE Go("finish", "none") \/ Go("report", "none")
  BY <1>0, <1>3 DEF Go, turn, answer, Placed, CallsCounted
<1> QED  BY <1>1, <1>2, <1>3 DEF Raise

LEMMA ReplyControl ==
  ASSUME TypeOK, CallsCounted, result = "none", NEW by, NEW work, Reply(by, work),
         by = "model" => calls = <<>>
  PROVE  Placed' /\ CallsCounted'
BY DEF CallsCounted, Placed, Reply, turn

LEMMA InvalidControl ==
  ASSUME TypeOK, CallsCounted, result = "none", Invalid
  PROVE  Placed' /\ CallsCounted'
BY DEF CallsCounted, Placed, Invalid, Go, turn, answer

LEMMA WithoutModelControl ==
  ASSUME TypeOK, CallsCounted, result = "none", WithoutModel \/ Partial("loop_template")
  PROVE  Placed' /\ CallsCounted'
BY ReplyControl, InvalidControl DEF WithoutModel, Partial

LEMMA AnsweredControl ==
  ASSUME TypeOK, CallsCounted, result = "none", pc = "calling", Answered
  PROVE  Placed' /\ CallsCounted'
<1>0. calls = <<>> /\ Len(calls) = 0 /\ unanswered \in Nat /\ (attempt = 0 => unanswered = 0)
  BY DEF TypeOK, CallsCounted
<1>1. CASE Requests
  <2>1. PICK batch \in Batch : calls' = batch /\ unanswered' = unanswered + Len(batch)
                               /\ pc' = "tool" /\ purpose' = "none"
                               /\ UNCHANGED <<attempt, round, repaired, completed, card, answer>>
    BY <1>1 DEF Requests
  <2>2. Len(batch) \in Nat
    BY DEF Batch
  <2>3. /\ unanswered' >= Len(calls')
        /\ attempt' = 0 => unanswered' = Len(calls')
    BY <1>0, <2>1, <2>2
  <2> QED  BY <2>1, <2>3 DEF Placed, CallsCounted, answer
<1>2. CASE \E for \in {"coerce"} : Go("begin", for)
  BY <1>0, <1>2 DEF Go, turn, answer, Placed, CallsCounted
<1>3. CASE End("structured")
  BY <1>0, <1>3 DEF End, turn, Placed, CallsCounted
<1>4. CASE Reply("model", {})
  BY <1>0, <1>4, ReplyControl
<1>5. CASE Empty
  <2>1. CASE repaired' = TRUE /\ pc' = "begin" /\ purpose' = "repair"
             /\ UNCHANGED <<attempt, round, calls, unanswered, completed, card, answer>>
    BY <1>0, <2>1 DEF Placed, CallsCounted, answer
  <2> QED  BY <1>2, <1>5, <2>1, InvalidControl DEF Empty
<1>6. CASE Go("finish", "none")
  BY <1>0, <1>6 DEF Go, turn, answer, Placed, CallsCounted
<1> QED
  BY <1>1, <1>2, <1>3, <1>4, <1>5, <1>6, InvalidControl, WithoutModelControl DEF Answered, Text

\* Each tool call gets one result: by its return, or as blocked, or with all the
\* others as skipped.
LEMMA ControlStep ==
  ASSUME IInv, Next
  PROVE  Placed' /\ CallsCounted'
<1>0. /\ TypeOK /\ Placed /\ CallsCounted /\ result = "none"
      /\ Len(calls) \in Nat /\ unanswered \in Nat /\ unanswered >= Len(calls)
  BY StillRunning DEF IInv, TypeOK, CallsCounted
<1>1. CASE Raise
  BY <1>0, <1>1, RaiseControl
<1>2. CASE pc = "calling" /\ Answered
  BY <1>0, <1>2, AnsweredControl
<1>3. CASE WithoutModel \/ Partial("loop_template")
  BY <1>0, <1>3, WithoutModelControl
<1>4. CASE \E place \in {"finish", "invalid", "report"} : Go(place, "none")
  BY <1>0, <1>4 DEF Go, turn, answer, Placed, CallsCounted
<1>5. CASE End("reply") \/ End("error") \/ End("raised")
  BY <1>0, <1>5 DEF End, turn, Placed, CallsCounted
<1>6. CASE pc \in {"start", "round", "close", "message", "begin"} /\ (pc = "message" => source = "model")
           /\ \E for : Go("begin", for) \/ Go("calling", for)
  BY <1>0, <1>6 DEF Go, turn, answer, Placed, CallsCounted
<1>7. CASE (pc = "start" \/ (pc = "tool" /\ calls = <<>>)) /\ Go("round", "none")
  BY <1>0, <1>7 DEF Go, turn, answer, Placed, CallsCounted
<1>8. CASE pc = "tool" /\ calls # <<>> /\ Go("dispatch", "none")
  BY <1>0, <1>8 DEF Go, turn, answer, Placed, CallsCounted
<1>9. CASE NextRound
  BY <1>0, <1>9 DEF NextRound, answer, Placed, CallsCounted
<1>10. CASE ToolDenied
  <2>1. calls' = <<>> /\ Len(calls') = 0
    BY <1>10 DEF ToolDenied
  <2>2. unanswered' >= Len(calls') /\ (attempt' = 0 => unanswered' = Len(calls'))
    BY <1>0, <1>10, <2>1 DEF ToolDenied, Skipped, CallsCounted
  <2> QED  BY <1>0, <1>10, <2>1, <2>2 DEF ToolDenied, answer, Placed, CallsCounted
<1>11. CASE ToolBlocked \/ (ToolReturns /\ ~ Raise)
  <2>1. calls # <<>> /\ Len(calls) > 0 /\ Len(Tail(calls)) = Len(calls) - 1
    BY <1>0, <1>11 DEF ToolBlocked, ToolReturns, TypeOK, CallsCounted
  <2>2. /\ unanswered' = unanswered - 1 /\ calls' = Tail(calls) /\ attempt' = attempt
        /\ pc' \in {"tool", "ended"} /\ (result' # "none" => pc' = "ended") /\ purpose' = "none"
    <3>1. CASE ToolBlocked
      BY <1>0, <3>1 DEF ToolBlocked, Placed, answer
    <3>2. CASE ToolReturns /\ ~ Raise
      <4>1. PICK ok, parked \in BOOLEAN : ToolReturned(ok, parked)
        BY <3>2 DEF ToolReturns, Flush
      <4>2. pc = "dispatch" /\ purpose = "none"
        BY <1>0, <3>2 DEF ToolReturns, Placed
      <4> QED  BY <1>0, <4>1, <4>2 DEF ToolReturned, answer
    <3> QED  BY <1>11, <3>1, <3>2
  <2>3. unanswered' >= Len(calls') /\ (attempt' = 0 => unanswered' = Len(calls'))
    <3>1. Len(calls') = Len(calls) - 1
      BY <2>1, <2>2
    <3>2. attempt' = 0 => unanswered = Len(calls)
      BY <1>0, <2>2 DEF CallsCounted
    <3> QED  BY <1>0, <2>2, <3>1, <3>2
  <2> QED  BY <2>2, <2>3 DEF Placed, CallsCounted
<1> QED
  BY <1>1, <1>2, <1>3, <1>4, <1>5, <1>6, <1>7, <1>8, <1>9, <1>10, <1>11
     DEF Next, Start, Close, InferenceDenied, BeginInference, ModelAnswers, ModelFails, StartTool,
         LoopDetected, ReservationFails, ToolReturns, ToolRaises, ToolsDone, FinalMessage,
         ReturnReply, ReturnInvalid, Report, Flush, Invalid

-----------------------------------------------------------------------------
(* The evidence *)

\* What is on record stays there, and so does what the backend has.
LEMMA RecordedStays ==
  ASSUME IInv, Adds, NEW fact
  PROVE  /\ Recorded(fact) => Recorded(fact)'
         /\ Durable(fact) => Durable(fact)'
<1>1. FactsGrow
  BY AddsGrows
<1>2. /\ Len(facts) \in Nat /\ Len(facts') \in Nat /\ Len(facts) <= Len(facts')
      /\ \A i \in 1 .. Len(facts) : facts'[i] = facts[i]
  BY <1>1 DEF FactsGrow
<1>3. durable \in 0 .. Len(facts) /\ durable' \in durable .. Len(facts')
  BY DEF IInv, TypeOK, Adds
<1>4. ASSUME Recorded(fact) PROVE Recorded(fact)'
  BY <1>2, <1>4 DEF Recorded
<1>5. ASSUME Durable(fact) PROVE Durable(fact)'
  <2>1. PICK i \in 1 .. durable : facts[i] = fact
    BY <1>5 DEF Durable
  <2>2. i \in 1 .. durable' /\ facts'[i] = fact
    BY <1>2, <1>3, <2>1
  <2> QED  BY <2>2 DEF Durable
<1> QED  BY <1>4, <1>5

\* With a complete flush the backend has all there is on record.
LEMMA FlushedIsDurable ==
  ASSUME durable = Len(facts), NEW fact, Recorded(fact)
  PROVE  Durable(fact)
BY DEF Recorded, Durable

LEMMA EvidenceStep ==
  ASSUME IInv, Adds, TypeOK'
  PROVE  EvidenceKept'
<1>0. /\ EvidenceKept /\ TypeOK /\ FactsGrow /\ OpsStay /\ OpsGrow
      /\ Len(ops) \in Nat /\ Len(facts) \in Nat
  BY AddsGrows DEF IInv, TypeOK
<1>1. CASE Keeps /\ ~ Underway /\ ~ Underway'
  <2>1. /\ \A i \in 1 .. Len(facts') : facts'[i].op <= Len(ops')
        /\ \A op \in 1 .. Len(ops') : Recorded(Finished(op))' \/ flushFailed'
    <3>1. \A op \in 1 .. Len(ops) : Recorded(Finished(op)) \/ flushFailed
      BY <1>0, <1>1 DEF EvidenceKept
    <3>2. \A op \in 1 .. Len(ops) : Recorded(Finished(op))' \/ flushFailed'
      BY <3>1, RecordedStays DEF Adds
    <3> QED  BY <1>0, <1>1, <3>2 DEF Keeps, EvidenceKept
  <2> QED  BY <1>1, <2>1 DEF Adds, EvidenceKept
<1>2. CASE Says /\ ~ Underway /\ ~ Underway'
  <2>1. Len(ops') = Len(ops) /\ Len(facts') = Len(facts) + 1 /\ facts'[Len(facts')] = Message
    BY <1>0, <1>2, SaysGrows
  <2>2. \A i \in 1 .. Len(facts') : facts'[i].op <= Len(ops')
    BY <1>0, <2>1 DEF EvidenceKept, FactsGrow, Message
  <2>3. \A op \in 1 .. Len(ops) : Recorded(Finished(op)) \/ flushFailed
    BY <1>0, <1>2 DEF EvidenceKept
  <2>4. \A op \in 1 .. Len(ops') : Recorded(Finished(op))' \/ flushFailed'
    BY <2>1, <2>3, RecordedStays DEF Adds
  <2> QED  BY <1>2, <2>2, <2>4 DEF Adds, EvidenceKept
<1>3. CASE Begins /\ ~ Underway
  <2>1. /\ Len(ops') = Len(ops) + 1 /\ Len(facts') = Len(facts) + 1
        /\ facts'[Len(facts')] = Started(Len(ops'))
    BY <1>0, <1>3, BeginsGrows
  <2>2. \A i \in 1 .. Len(facts') : facts'[i].op <= Len(ops')
    <3>1. \A i \in 1 .. Len(facts) : facts'[i].op <= Len(ops)
      BY <1>0 DEF EvidenceKept, FactsGrow
    <3>2. facts'[Len(facts')].op = Len(ops')
      BY <2>1 DEF Started
    <3>3. \A i \in 1 .. Len(facts) : facts'[i].op \in Nat
      <4>1. \A i \in 1 .. Len(facts) : facts'[i] \in Fact
        BY <1>0 DEF FactsGrow
      <4> QED  BY <4>1 DEF Fact
    <3>4. \A i \in 1 .. Len(facts) : facts'[i].op <= Len(ops')
      BY <1>0, <2>1, <3>1, <3>3
    <3> QED  BY <1>0, <2>1, <3>2, <3>4
  <2>3. Recorded(Started(Len(ops)))'
    BY <1>0, <2>1 DEF Recorded, FactsGrow
  <2>4. ~ Recorded(Finished(Len(ops)))'
    <3>1. \A i \in 1 .. Len(facts) : facts'[i].op <= Len(ops)
      BY <1>0 DEF EvidenceKept, FactsGrow
    <3>2. \A i \in 1 .. Len(facts) : facts'[i] # Finished(Len(ops'))
      BY <1>0, <2>1, <3>1 DEF Finished
    <3>3. facts'[Len(facts')] # Finished(Len(ops'))
      BY <2>1 DEF Started, Finished
    <3> QED  BY <1>0, <2>1, <3>2, <3>3 DEF Recorded
  <2>5. Underway' => durable' = Len(facts')
    BY <1>3, <2>1 DEF Adds, Ends, Finish, Keeps, Says
  <2>6. \A op \in 1 .. Len(ops) : Recorded(Finished(op)) \/ flushFailed
    BY <1>0, <1>3 DEF EvidenceKept
  <2>7. \A op \in 1 .. Len(ops) : Recorded(Finished(op))' \/ flushFailed'
    BY <2>6, RecordedStays DEF Adds
  <2>8. Underway' \/ flushFailed'
    BY <1>0, <1>3, <2>1 DEF Adds, Keeps, Says
  <2>9. \A op \in 1 .. Len(ops') :
          Recorded(Finished(op))' \/ flushFailed' \/ (Underway' /\ op = Len(ops'))
    BY <1>0, <2>1, <2>7, <2>8
  <2> QED  BY <1>0, <2>1, <2>2, <2>3, <2>4, <2>5, <2>9 DEF Adds, EvidenceKept
<1>4. CASE Ends /\ Underway /\ ~ Underway'
  <2>1. /\ Len(ops') = Len(ops) /\ Len(facts') = Len(facts) + 1 /\ Len(ops) > 0
        /\ facts'[Len(facts')] = Finished(Len(ops))
    BY <1>0, <1>4, EndsGrows DEF EvidenceKept
  <2>2. \A i \in 1 .. Len(facts') : facts'[i].op <= Len(ops')
    BY <1>0, <2>1 DEF EvidenceKept, FactsGrow, Finished
  <2>3. \A op \in 1 .. Len(ops) : Recorded(Finished(op)) \/ flushFailed \/ op = Len(ops)
    BY <1>0 DEF EvidenceKept
  <2>4. \E i \in 1 .. Len(facts') : facts'[i] = Finished(Len(ops))
    BY <1>0, <2>1
  <2>5. \A op \in 1 .. Len(ops') : Recorded(Finished(op))' \/ flushFailed'
    <3> TAKE op \in 1 .. Len(ops')
    <3>1. CASE op = Len(ops)
      BY <2>4, <3>1 DEF Recorded
    <3>2. CASE op # Len(ops)
      BY <2>1, <2>3, <3>2, RecordedStays DEF Adds
    <3> QED  BY <3>1, <3>2
  <2> QED  BY <1>4, <2>2, <2>5 DEF Adds, EvidenceKept
<1> QED  BY <1>1, <1>2, <1>3, <1>4 DEF Adds

-----------------------------------------------------------------------------
(* The work of leaf tools *)

\* Done work stays done: the operation under way, which alone may change, is not.
LEMMA DoneStays ==
  ASSUME IInv, Adds, NEW op, Done(op)
  PROVE  Done(op)'
<1>1. op \in 1 .. Len(ops) /\ Durable(Finished(op)) /\ durable \in 0 .. Len(facts)
  BY DEF Done, IInv, TypeOK
<1>2. OpsStay /\ OpsGrow /\ Len(ops) \in Nat
  BY AddsGrows DEF OpsStay
<1>3. op < Len(ops) \/ ~ Underway
  <2>1. CASE Underway /\ op = Len(ops)
    <3>1. ~ Recorded(Finished(op))
      BY <2>1 DEF IInv, EvidenceKept
    <3>2. Recorded(Finished(op))
      BY <1>1 DEF Durable, Recorded, IInv, TypeOK
    <3> QED  BY <3>1, <3>2
  <2> QED  BY <1>1, <1>2, <2>1
<1>4. ops'[op] = ops[op] /\ op \in 1 .. Len(ops')
  BY <1>1, <1>2, <1>3 DEF OpsStay, OpsGrow
<1>5. Durable(Finished(op))'
  BY <1>1, RecordedStays
<1> QED  BY <1>4, <1>5 DEF Done

\* A tool that returned without an error, and whose end is flushed, is done work.
LEMMA ReturnedIsDone ==
  ASSUME IInv, Adds, pc = "dispatch", NEW ok \in BOOLEAN, Finish(ok), Flushed,
         Completes(Len(ops), ok)
  PROVE  \A op : op = Len(ops) => Done(op)'
<1>1. Underway /\ Ends /\ ops \in Seq(Op) /\ Len(ops) \in Nat /\ Len(ops) > 0
  BY DEF Underway, Ends, IInv, TypeOK, EvidenceKept
<1>2. Len(ops') = Len(ops) /\ facts'[Len(facts')] = Finished(Len(ops)) /\ Len(facts') = Len(facts) + 1
  BY <1>1, EndsGrows
<1>3. ops'[Len(ops)].what = "leaf" /\ ops'[Len(ops)].ok
  <2>1. ops[Len(ops)] \in Op
    BY <1>1
  <2>2. ops'[Len(ops)] = [ops[Len(ops)] EXCEPT !.ok = ok]
    BY <1>1 DEF Finish
  <2> QED  BY <2>1, <2>2 DEF Completes, Op
<1>4. durable' = Len(facts') /\ Len(facts) \in Nat
  BY DEF Flushed, IInv, TypeOK
<1>5. \A op : op = Len(ops) => Durable(Finished(op))'
  BY <1>2, <1>4 DEF Durable
<1> QED  BY <1>1, <1>2, <1>3, <1>5 DEF Done

\* Where completed work goes in one step, and what is listed of it.
Writes ==
  \/ UNCHANGED <<source, listed>> /\ (source # "model" =>
       /\ pc' \in {"message", "finish", "report", "ended"} /\ (source = "template" => card' = card))
  \/ source' = "model" /\ listed' = {}
  \/ /\ source' \in {"template", "loop_template"} /\ listed' = completed /\ completed # {}
     /\ pc' = "message" /\ (source' = "template" => ~ card')

LEMMA WriteStep ==
  ASSUME IInv, Adds, Writes, \A op \in completed' : op \in completed \/ Done(op)'
  PROVE  WorkDone'
<1>0. WorkDone /\ source \in {"model", "template", "loop_template"}
  BY DEF IInv, TypeOK
<1>1. \A op : Done(op) => Done(op)'
  BY DoneStays
<1>2. \A op \in completed : Done(op)'
  BY <1>0, <1>1 DEF WorkDone
<1>3. \A op \in completed' : Done(op)'
  BY <1>2
<1>4. CASE UNCHANGED <<source, listed>> /\ source = "model"
  BY <1>0, <1>3, <1>4 DEF WorkDone
<1>5. CASE UNCHANGED <<source, listed>> /\ source # "model"
           /\ pc' \in {"message", "finish", "report", "ended"}
           /\ (source = "template" => card' = card)
  <2>1. \A op \in listed : Done(op)'
    BY <1>0, <1>1, <1>5 DEF WorkDone
  <2> QED  BY <1>0, <1>3, <1>5, <2>1 DEF WorkDone
<1>6. CASE source' = "model" /\ listed' = {}
  BY <1>3, <1>6 DEF WorkDone
<1>7. CASE /\ source' \in {"template", "loop_template"} /\ listed' = completed /\ completed # {}
           /\ pc' = "message" /\ (source' = "template" => ~ card')
  BY <1>2, <1>3, <1>7 DEF WorkDone
<1> QED  BY <1>4, <1>5, <1>6, <1>7 DEF Writes

\* Only a reply is written on something, and only once.
LEMMA NextWrites ==
  ASSUME IInv, Next
  PROVE  Writes
<1>0. /\ source \in {"model", "template", "loop_template"}
      /\ source # "model" => pc \in {"message", "finish", "report", "ended"}
  BY DEF IInv, TypeOK, WorkDone
<1>1. CASE FinalMessage \/ ReturnReply \/ Report
  BY <1>1 DEF FinalMessage, ReturnReply, Report, Flush, Go, End, turn, answer, Writes
<1>2. CASE ~ (FinalMessage \/ ReturnReply \/ Report)
  <2>0. source = "model"
    BY <1>0, <1>2 DEF Next, Start, NextRound, Close, InferenceDenied, BeginInference, ModelAnswers,
         ModelFails, StartTool, ToolDenied, ToolBlocked, LoopDetected, ReservationFails,
         ToolReturns, ToolRaises, ToolsDone, ReturnInvalid
  <2>1. CASE UNCHANGED <<source, listed>>
    BY <2>0, <2>1 DEF Writes
  <2>2. CASE Reply("model", {})
    BY <2>2 DEF Reply, Writes
  <2>3. CASE WithoutModel \/ Partial("loop_template")
    BY <2>0, <2>3 DEF WithoutModel, Partial, Invalid, Go, Reply, turn, answer, Writes
  <2>4. CASE Raise
    BY <2>1, <2>4 DEF Raise, End, Go, answer
  <2>5. CASE Answered
    BY <2>1, <2>2, <2>3, <2>5
       DEF Answered, Requests, Text, Empty, Invalid, Go, End, answer
  <2> QED
    BY <1>2, <2>1, <2>2, <2>3, <2>4, <2>5
       DEF Next, Start, NextRound, Close, InferenceDenied, BeginInference, ModelAnswers,
           ModelFails, StartTool, ToolDenied, ToolBlocked, LoopDetected, ReservationFails,
           ToolReturns, ToolReturned, ToolRaises, ToolsDone, ReturnInvalid, Flush, Invalid, Go,
           End, answer
<1> QED  BY <1>1, <1>2

\* Work is added by a tool's return only.
LEMMA Completed ==
  ASSUME IInv, Adds, Next
  PROVE  \A op \in completed' : op \in completed \/ Done(op)'
<1>1. CASE completed' \subseteq completed
  BY <1>1
<1>2. CASE pc = "dispatch" /\ \E ok, parked \in BOOLEAN :
             Finish(ok) /\ Flushed /\ ToolReturned(ok, parked)
  <2>1. PICK ok, parked \in BOOLEAN : Finish(ok) /\ Flushed /\ ToolReturned(ok, parked)
    BY <1>2
  <2>2. CASE Completes(Len(ops), ok)
    <3>1. \A op : op = Len(ops) => Done(op)'
      BY <1>2, <2>1, <2>2, ReturnedIsDone
    <3>2. completed' \subseteq completed \cup {Len(ops)}
      BY <2>1 DEF ToolReturned
    <3> QED  BY <3>1, <3>2
  <2>3. CASE ~ Completes(Len(ops), ok)
    BY <1>1, <2>1, <2>3 DEF ToolReturned
  <2> QED  BY <2>2, <2>3
<1>3. CASE Raise
  BY <1>1, <1>3 DEF Raise, Go, End, turn
<1>4. CASE WithoutModel \/ Partial("loop_template")
  BY <1>1, <1>4 DEF WithoutModel, Partial, Invalid, Go, Reply, turn
<1>5. CASE Answered
  BY <1>1, <1>4, <1>5 DEF Answered, Requests, Text, Empty, Invalid, Go, Reply, End, turn
<1> QED
  BY <1>1, <1>2, <1>3, <1>4, <1>5
     DEF Next, Start, NextRound, Close, InferenceDenied, BeginInference, ModelAnswers, ModelFails,
         StartTool, ToolDenied, ToolBlocked, LoopDetected, ReservationFails, ToolReturns,
         ToolRaises, ToolsDone, FinalMessage, ReturnReply, ReturnInvalid, Report, Flush, Invalid,
         Go, End, turn

LEMMA WorkStep ==
  ASSUME IInv, Adds, Next
  PROVE  WorkDone'
BY NextWrites, Completed, WriteStep

-----------------------------------------------------------------------------
(* The final message *)

LEMMA MessageStep ==
  ASSUME IInv, Adds, Next
  PROVE  MessageRecorded'
<1>0. result = "none" /\ TypeOK /\ (purpose = "memory" \/ pc = "finish" => Recorded(Message))
  BY StillRunning DEF IInv, MessageRecorded
<1>1. /\ Recorded(Message) => Recorded(Message)'
      /\ Durable(Message) => Durable(Message)'
  BY RecordedStays
<1>2. purpose' = "memory" \/ pc' = "finish" => FinalMessage \/ purpose = "memory" \/ pc = "finish"
  BY DEF Next, Start, NextRound, Close, InferenceDenied, BeginInference, ModelAnswers, ModelFails,
         StartTool, ToolDenied, ToolBlocked, LoopDetected, ReservationFails, ToolReturns,
         ToolReturned, ToolRaises, ToolsDone, ReturnReply, ReturnInvalid, Report, Flush,
         Invalid, Go, End, Raise, Answered, Requests, Text, Empty, WithoutModel, Partial, Reply
<1>3. FinalMessage => Recorded(Message)'
  <2>1. ASSUME FinalMessage PROVE Says
    BY <2>1 DEF FinalMessage, Says
  <2>2. ASSUME Says PROVE Recorded(Message)'
    <3>1. Len(facts') \in Nat /\ Len(facts') > 0 /\ facts'[Len(facts')] = Message
      BY <1>0, <2>2, SaysGrows DEF FactsGrow
    <3> QED  BY <3>1 DEF Recorded
  <2> QED  BY <2>1, <2>2
<1>4. result' = "reply" => ReturnReply /\ Flushed
  BY <1>0
     DEF Next, Start, NextRound, Close, InferenceDenied, BeginInference, ModelAnswers, ModelFails,
         StartTool, ToolDenied, ToolBlocked, LoopDetected, ReservationFails, ToolReturns,
         ToolReturned, ToolRaises, ToolsDone, FinalMessage, ReturnReply, ReturnInvalid, Report,
         Flush, Invalid, Go, End, Raise, Answered, Requests, Text, Empty, WithoutModel, Partial,
         Reply, answer
<1>5. ReturnReply /\ Flushed => Durable(Message)'
  <2>1. ASSUME ReturnReply, Flushed PROVE Durable(Message)'
    <3>1. Recorded(Message)' /\ durable' = Len(facts')
      BY <1>0, <1>1, <2>1 DEF ReturnReply, Flushed
    <3> QED  BY <3>1 DEF Recorded, Durable
  <2> QED  BY <2>1
<1> QED  BY <1>0, <1>1, <1>2, <1>3, <1>4, <1>5 DEF MessageRecorded

-----------------------------------------------------------------------------
(* The invariant *)

LEMMA InitIsGood ==
  ASSUME Init
  PROVE  IInv
<1>1. /\ Len(ops) = 0 /\ Len(facts) = 0 /\ Len(calls) = 0
      /\ ops \in Seq(Op) /\ facts \in Seq(Fact) /\ calls \in Seq({"leaf", "agent"})
  BY DEF Init
<1>2. ControlOK
  <2>1. round \in 0 .. MaxRounds /\ attempt \in {0, 1} /\ unanswered \in Nat
    BY DEF Init
  <2> QED  BY <1>1, <2>1 DEF Init, ControlOK
<1>3. EvidenceOK /\ FailuresOK
  <2>1. durable \in 0 .. Len(facts) /\ faults \in 0 .. MaxFaults
    BY <1>1 DEF Init
  <2> QED  BY <1>1, <2>1 DEF Init, EvidenceOK, FailuresOK
<1>4. TypeOK
  BY <1>2, <1>3, TypeParts DEF Init
<1>5. Placed /\ CallsCounted /\ WorkDone /\ MessageRecorded
  BY <1>1 DEF Init, Placed, CallsCounted, WorkDone, MessageRecorded
<1>6. EvidenceKept
  BY <1>1 DEF Init, EvidenceKept, Underway
<1> QED  BY <1>4, <1>5, <1>6 DEF IInv

LEMMA NextStep ==
  ASSUME IInv, Next
  PROVE  IInv'
BY NextAdds, TypeStep, ControlStep, EvidenceStep, WorkStep, MessageStep DEF IInv

LEMMA Stutter ==
  ASSUME IInv, UNCHANGED vars
  PROVE  IInv'
BY DEF IInv, TypeOK, Placed, CallsCounted, Underway, Recorded, EvidenceKept, Done, WorkDone,
       MessageRecorded, Durable, vars, turn, evidence, answer, failures

-----------------------------------------------------------------------------
(* Theorems: for any number of rounds, of calls in one answer, of operations and of *)
(* failures                                                                        *)

\* The inductive invariant: the calls a run has to answer are counted, its facts tell
\* of the operations there are, its completed work is done, its message on record.
THEOREM Invariant == Spec => []IInv
<1>1. Init => IInv
  BY InitIsGood
<1>2. IInv /\ [Next]_vars => IInv'
  BY NextStep, Stutter
<1> QED  BY <1>1, <1>2, PTL DEF Spec

\* A run's variables keep their types: what is listed are operations there were, and
\* the backend never has more than was recorded.
THEOREM TypeCorrect == Spec => []TypeOK
<1>1. IInv => TypeOK
  BY DEF IInv
<1> QED  BY <1>1, Invariant, PTL

\* Every path through AgentLoop.run that leads to a model call answers each tool call
\* first: the results, the blocked calls and the skipped ones add up.
THEOREM CallsAnswered == Spec => []AnsweredBeforeInference
<1>1. IInv => AnsweredBeforeInference
  <2>1. calls = <<>> => Len(calls) = 0
    OBVIOUS
  <2> QED  BY <2>1 DEF IInv, CallsCounted, AnsweredBeforeInference
<1> QED  BY <1>1, Invariant, PTL

\* start_inference and start_tool let nothing act before its start is at the backend,
\* however the earlier flushes went.
THEOREM EvidenceFirst == Spec => []EvidenceBeforeEffect
<1>1. IInv => EvidenceBeforeEffect
  <2> SUFFICES ASSUME IInv, Underway PROVE
        /\ durable = Len(facts) /\ Durable(Started(Len(ops)))
        /\ \A i \in 1 .. durable : facts[i] # Finished(Len(ops))
    BY DEF EvidenceBeforeEffect, Underway
  <2>1. /\ durable = Len(facts) /\ Recorded(Started(Len(ops)))
        /\ ~ Recorded(Finished(Len(ops)))
    BY DEF IInv, EvidenceKept
  <2> QED  BY <2>1, FlushedIsDurable DEF Recorded
<1> QED  BY <1>1, Invariant, PTL

\* The deterministic partial answers list leaf tools' work that is done and on record,
\* whatever operations and failures came between it and the answer.
THEOREM PartialIsDurable == Spec => []PartialListsDurableWork
<1>1. IInv => PartialListsDurableWork
  BY DEF IInv, WorkDone, Done, PartialListsDurableWork
<1> QED  BY <1>1, Invariant, PTL

\* finish_inference and finish_tool are reached on every path, exceptions included: a
\* run that has ended leaves no operation open, unless a flush failed.
THEOREM NoneLeftOpen == Spec => []OperationsClosed
<1>1. IInv => OperationsClosed
  <2> SUFFICES ASSUME IInv, pc = "ended", ~ flushFailed, NEW op \in 1 .. Len(ops)
               PROVE  Durable(Finished(op))
    BY DEF OperationsClosed
  <2>1. Recorded(Finished(op)) /\ durable = Len(facts)
    BY DEF IInv, EvidenceKept, Underway
  <2> QED  BY <2>1, FlushedIsDurable
<1> QED  BY <1>1, Invariant, PTL

\* record_final_message precedes the reply and the memory extraction, and the flush of
\* either has taken the message to the backend.
THEOREM ReplyIsRecorded == Spec => []AnswerIsDurable
<1>1. IInv => AnswerIsDurable
  <2>1. ASSUME IInv, pc = "calling", purpose = "memory" PROVE Durable(Message)
    <3>1. Recorded(Message) /\ durable = Len(facts)
      BY <2>1 DEF IInv, MessageRecorded, EvidenceKept, Underway
    <3> QED  BY <3>1, FlushedIsDurable
  <2>2. ASSUME IInv, result = "reply" PROVE Durable(Message)
    BY <2>2 DEF IInv, MessageRecorded
  <2> QED  BY <2>1, <2>2 DEF AnswerIsDurable
<1> QED  BY <1>1, Invariant, PTL
===============================================================================
