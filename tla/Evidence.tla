------------------------------ MODULE Evidence ------------------------------
(***************************************************************************)
(* The evidence one handler run sends to the backend                         *)
(* (lib/execution/emitter.py, lib/execution/ingest_client.py): artifacts and  *)
(* events are buffered, flushed in batches, posted at most twice, and kept    *)
(* for the next flush when the post raises.  A reservation of budget flushes  *)
(* first and is posted when the buffers are empty; a grant is asked for with   *)
(* whatever is still buffered.                                                *)
(*                                                                         *)
(* The n-th event is n (its producerSequence), the k-th decision -k, and what *)
(* the backend knew before the run 0.  The buffers are what was made but not  *)
(* yet flushed.  The backend keeps each id once; a request nobody waits for   *)
(* any more may still be served.                                              *)
(***************************************************************************)
EXTENDS Integers, Sequences

CONSTANTS ArtifactBatch, EventBatch,  \* 100 and 200 in the code
          MaxEvents, MaxDecisions,    \* bounds on one run of a handler
          MaxFaults                   \* posts that get no answer, or a refusal

ASSUME EvidenceAssumption ==
  /\ ArtifactBatch \in Nat \ {0} /\ EventBatch \in Nat \ {0}
  /\ MaxEvents \in Nat /\ MaxDecisions \in Nat /\ MaxFaults \in Nat

VARIABLES artifacts, flushedArtifacts,  \* numbers of artifacts made and flushed
          events, flushedEvents,        \* the events made, how many are flushed
          accepted,                     \* accepted_events
          lastEvent,                    \* last_event_id
          asked,                        \* how many events decision k must come after
          goal, post, attempt,          \* the flush or reservation under way
          stored, log,                  \* the backend: artifacts, batches of ids
          late, faults                  \* requests given up, faults so far

worker  == <<artifacts, flushedArtifacts, events, flushedEvents, accepted, lastEvent, asked>>
client  == <<goal, post, attempt>>
backend == <<stored, log>>
vars == <<worker, client, backend, late, faults>>

Event   == [cause : Int, refs : SUBSET (Nat \ {0})]
Request == [kind : {"artifacts", "events", "decision"}, lo : Nat \ {0}, hi : Nat]
NoPost  == [kind |-> "none", lo |-> 0, hi |-> 0]

Init ==
  /\ artifacts = 0 /\ flushedArtifacts = 0
  /\ events = <<>> /\ flushedEvents = 0 /\ accepted = 0
  /\ lastEvent = 0
  /\ asked = <<>>
  /\ goal = "none" /\ post = NoPost /\ attempt = 0
  /\ stored = {} /\ log = <<>>
  /\ late = {} /\ faults = 0

-----------------------------------------------------------------------------
(* What the handler does between posts *)

Idle == goal = "none"

\* Mutant of Caused: last_event_id moves before the event is built.
CausedBySelf(c) == IF c = 0 THEN Len(events) + 1 ELSE c

\* causedByEventId: the event the caller names (0: none), or the last one.
Caused(c) == IF c = 0 THEN lastEvent ELSE c

\* record_artifact n times, then emit.  An artifact that is too large is neither
\* made nor named.  The caller names an event this run has emitted.
Build(c, n) ==
  /\ Idle
  /\ Len(events) < MaxEvents
  /\ artifacts' = artifacts + n
  /\ events' = Append(events, [cause |-> Caused(c), refs |-> artifacts + 1 .. artifacts + n])
  /\ UNCHANGED <<flushedArtifacts, flushedEvents, accepted, asked, client, backend, late, faults>>

Emit(c, n) ==
  /\ Build(c, n)
  /\ lastEvent' = Len(events) + 1

\* The policy snapshot is emitted beside the chain of causes.
RecordProgressPolicy ==
  /\ Build(0, 0)
  /\ UNCHANGED lastEvent

Flush ==
  /\ Idle
  /\ goal' = "flush"
  /\ UNCHANGED <<worker, post, attempt, backend, late, faults>>

Ask(purpose, informed) ==
  /\ Idle
  /\ Len(asked) < MaxDecisions
  /\ goal' = purpose
  /\ asked' = Append(asked, informed)
  /\ UNCHANGED <<artifacts, flushedArtifacts, events, flushedEvents, accepted,
                 lastEvent, post, attempt, backend, late, faults>>

\* reserve_operation_budget: a new operation id, after everything built so far.
Reserve == Ask("decision", Len(events))

\* request_progress_grant does not flush: only what was flushed before is there.
RequestGrant == Ask("grant", flushedEvents)

-----------------------------------------------------------------------------
(* flush, and the request of a decision after it *)

Least(a, b) == IF a < b THEN a ELSE b

PendingArtifacts == flushedArtifacts < artifacts
PendingEvents    == flushedEvents < Len(events)

ArtifactRequest ==
  [kind |-> "artifacts", lo |-> flushedArtifacts + 1,
   hi |-> Least(artifacts, flushedArtifacts + ArtifactBatch)]

\* Mutant of EventRequest: the newest events are sent first.
NewestRequest ==
  [kind |-> "events",
   lo |-> IF Len(events) - EventBatch < flushedEvents THEN flushedEvents + 1
          ELSE Len(events) - EventBatch + 1,
   hi |-> Len(events)]

EventRequest ==
  [kind |-> "events", lo |-> flushedEvents + 1,
   hi |-> Least(Len(events), flushedEvents + EventBatch)]

DecisionRequest == [kind |-> "decision", lo |-> Len(asked), hi |-> Len(asked)]

\* Mutant of Drained: a reservation does not wait for the evidence before it.
DrainedOrDecision == goal = "decision" \/ ~ (PendingArtifacts \/ PendingEvents)

Drained == ~ (PendingArtifacts \/ PendingEvents)

Flushing == goal \in {"flush", "decision"}

Send(request) ==
  /\ post = NoPost
  /\ post' = request
  /\ attempt' = 0
  /\ UNCHANGED <<worker, goal, backend, late, faults>>

\* Mutant of PostEvents: events first.
PostEventsFirst == Flushing /\ PendingEvents /\ Send(EventRequest)

PostArtifacts == Flushing /\ PendingArtifacts /\ Send(ArtifactRequest)
PostEvents    == Flushing /\ ~ PendingArtifacts /\ PendingEvents /\ Send(EventRequest)
PostDecision  == goal = "decision" /\ Drained /\ Send(DecisionRequest)
PostGrant     == goal = "grant" /\ Send(DecisionRequest)

FlushEnds ==
  /\ goal = "flush" /\ post = NoPost /\ Drained
  /\ goal' = "none"
  /\ UNCHANGED <<worker, post, attempt, backend, late, faults>>

-----------------------------------------------------------------------------
(* The backend *)

Known == UNION {log[i] : i \in 1 .. Len(log)}

\* What is new of a batch is appended, in the order of the batch.
Learn(ids) ==
  log' = IF ids \subseteq Known THEN log ELSE Append(log, ids \ Known)

Serve(request) ==
  \/ /\ request.kind = "artifacts"
     /\ stored' = stored \cup (request.lo .. request.hi)
     /\ UNCHANGED log
  \/ /\ request.kind = "events"
     /\ Learn(request.lo .. request.hi)
     /\ UNCHANGED stored
  \/ /\ request.kind = "decision"
     /\ Learn({- request.lo})
     /\ UNCHANGED stored

-----------------------------------------------------------------------------
(* ExecutionIngestClient.post *)

\* Mutant of Deleted: one event too many is deleted.
DeletedOneMore(request) == request.hi + 1

\* del pending[:len(batch)]
Deleted(request) == request.hi

\* Mutant of Counted: duplicates are not counted.
CountedNew(request) ==
  accepted + (IF request.lo .. request.hi \subseteq Known THEN 0 ELSE request.hi - request.lo + 1)

\* accepted plus duplicates: the backend counts the whole batch.
Counted(request) == accepted + (request.hi - request.lo + 1)

Consume(request) ==
  \/ /\ request.kind = "artifacts"
     /\ flushedArtifacts' = request.hi
     /\ UNCHANGED <<events, flushedEvents, accepted, lastEvent, goal>>
  \/ /\ request.kind = "events"
     /\ flushedEvents' = Deleted(request)
     /\ accepted' = Counted(request)
     /\ UNCHANGED <<events, flushedArtifacts, lastEvent, goal>>
  \/ /\ request.kind = "decision"
     /\ lastEvent' = - request.lo
     /\ goal' = "none"
     /\ UNCHANGED <<events, flushedArtifacts, flushedEvents, accepted>>

Answered ==
  /\ post # NoPost
  /\ Serve(post)
  /\ Consume(post)
  /\ post' = NoPost /\ attempt' = 0
  /\ UNCHANGED <<artifacts, asked, late, faults>>

\* The post raises: the buffers keep what they have.
Raise == goal' = "none" /\ post' = NoPost /\ attempt' = 0

\* A timeout or a broken connection.  The first one is tried again.
Unanswered ==
  /\ post # NoPost
  /\ faults < MaxFaults
  /\ faults' = faults + 1
  /\ late' = late \cup {post}
  /\ \/ attempt = 0 /\ attempt' = 1 /\ UNCHANGED <<goal, post>>
     \/ attempt = 1 /\ Raise
  /\ UNCHANGED <<worker, backend>>

\* A status of 400 or more is not tried again.
Refused ==
  /\ post # NoPost
  /\ faults < MaxFaults
  /\ faults' = faults + 1
  /\ Raise
  /\ UNCHANGED <<worker, backend, late>>

Arrive(request) ==
  /\ Serve(request)
  /\ late' = late \ {request}
  /\ UNCHANGED <<worker, client, faults>>

Next ==
  \/ \E c \in 0 .. Len(events), n \in 0 .. 2 : Emit(c, n)
  \/ RecordProgressPolicy \/ Flush \/ Reserve \/ RequestGrant
  \/ PostArtifacts \/ PostEvents \/ PostDecision \/ PostGrant \/ FlushEnds
  \/ Answered \/ Unanswered \/ Refused
  \/ \E request \in late : Arrive(request)

Spec == Init /\ [][Next]_vars
-----------------------------------------------------------------------------
(* Properties *)

TypeOK ==
  /\ artifacts \in Nat /\ flushedArtifacts \in 0 .. artifacts
  /\ events \in Seq(Event) /\ flushedEvents \in 0 .. Len(events)
  /\ accepted \in Nat
  /\ lastEvent \in Int
  /\ asked \in Seq(Nat)
  /\ goal \in {"none", "flush", "decision", "grant"}
  /\ post \in Request \cup {NoPost}
  /\ attempt \in {0, 1}
  /\ stored \subseteq Nat
  /\ log \in Seq(SUBSET Int)
  /\ late \subseteq Request
  /\ faults \in 0 .. MaxFaults

\* The backend's log has the run's events once each, in the order in which they
\* were emitted and without a gap, whatever was resent, refused or served late.
OrderKept ==
  /\ \A i, j \in 1 .. Len(log) : i # j => log[i] \cap log[j] = {}
  /\ \A i \in 1 .. Len(log) : \A n \in log[i] :
       \A m \in 1 .. n - 1 : \E j \in 1 .. i : m \in log[j]

\* What the contract's validator asks of a bundle: a cause is in the log before
\* its effect, a decision of the backend too.
CausesPrecede ==
  \A i \in 1 .. Len(log) : \A n \in log[i] : n > 0 =>
    \/ events[n].cause = 0
    \/ events[n].cause < n /\ \E j \in 1 .. i : events[n].cause \in log[j]

\* And no event is in the log that names an artifact the backend does not have.
ArtifactsPrecede ==
  \A i \in 1 .. Len(log) : \A n \in log[i] : n > 0 => events[n].refs \subseteq stored

\* What has left the buffers is at the backend, and the summary of the run counts
\* each of its events once, resent or not.
NothingLost ==
  /\ 1 .. flushedArtifacts \subseteq stored
  /\ 1 .. flushedEvents \subseteq Known
  /\ accepted = flushedEvents

\* The backend decides on a reservation with everything the run built before it
\* asked, and on a grant with everything it had flushed, also when the request is
\* served late.
EvidenceBeforeDecision ==
  \A i \in 1 .. Len(log) : \A id \in log[i] : id < 0 =>
    \A m \in 1 .. asked[- id] : \E j \in 1 .. i - 1 : m \in log[j]
=============================================================================
