------------------------------ MODULE EventLog ------------------------------
(***************************************************************************)
(* The event log of one root execution (database/execution.py): every        *)
(* status change and every enqueued child appends an event in its own         *)
(* transaction, after locking the row it changes and then the root's row,     *)
(* whose columns last_sequence and last_event_id are the head of the log.     *)
(*                                                                         *)
(* One action per statement that takes a lock or reads; what a transaction     *)
(* wrote becomes visible when it commits (READ COMMITTED).  Which status      *)
(* follows which is left open: ExecutionQueue has the fences.  Event ids are   *)
(* positions in the log, hashes and envelopes are left out.                   *)
(***************************************************************************)
EXTENDS Naturals, Sequences, FiniteSetsExt, BundleContract

CONSTANTS Tx, NoTx,     \* connections, each with at most one transaction
          Exec, Root,   \* the executions of one tree and its root
          Parent,       \* Parent[x] for x # Root
          NextStatus,   \* statuses update_execution_status is called with
          MaxEvents     \* bound on the length of the log

ASSUME EventLogAssumption ==
  /\ NoTx \notin Tx
  /\ Root \in Exec
  /\ Parent \in [Exec \ {Root} -> Exec]
  /\ NextStatus \subseteq {"queued", "running", "waiting", "completed", "failed", "cancelled"}
  /\ MaxEvents \in Nat

VARIABLES status,   \* status[x], "absent" before x is enqueued
          head,     \* the root's last_sequence and last_event_id
          log,      \* committed events, in the order of their commits
          held,     \* held[x]: the transaction that has row x FOR UPDATE
          pc, tx    \* the transactions

vars == <<status, head, log, held, pc, tx>>

Status == {"absent", "queued", "running", "waiting", "completed", "failed", "cancelled"}
Terminal == {"completed", "failed", "cancelled"}
Op     == {"claim", "transition", "enqueue"}

\* An event, and the part of it a transaction has worked out so far.  on: the row
\* the producer's name is made of; exec: the execution the event is about.
Event == [op : Op, on : Exec, exec : Exec, from : Status, to : Status,
          seq : Nat, cause : Nat, pseq : Nat]

NoEvent == [op |-> "claim", on |-> Root, exec |-> Root, from |-> "absent",
            to |-> "absent", seq |-> 0, cause |-> 0, pseq |-> 0]

Init ==
  /\ status = [x \in Exec |-> IF x = Root THEN "queued" ELSE "absent"]
  /\ head = [sequence |-> 0, event |-> 0]
  /\ log = <<>>
  /\ held = [x \in Exec |-> NoTx]
  /\ pc = [t \in Tx |-> "idle"]
  /\ tx = [t \in Tx |-> NoEvent]

-----------------------------------------------------------------------------
(* The row a transaction is about *)

Free(x) == held[x] = NoTx

Begin(t, x, event) ==
  /\ pc[t] = "idle"
  /\ Len(log) < MaxEvents
  /\ Free(x)
  /\ held' = [held EXCEPT ![x] = t]
  /\ tx' = [tx EXCEPT ![t] = event]
  /\ pc' = [pc EXCEPT ![t] = "locked"]
  /\ UNCHANGED <<status, head, log>>

\* Mutant of Claim: the event says the phase where the status belongs.
ClaimAsPhase(t, x) ==
  /\ status[x] = "queued"
  /\ Begin(t, x, [NoEvent EXCEPT !.on = x, !.exec = x, !.from = "queued",
                                 !.to = "worker_execution", !.op = "claim"])

\* SELECT ... FOR UPDATE SKIP LOCKED takes a queued row nobody has locked.
Claim(t, x) ==
  /\ status[x] = "queued"
  /\ Begin(t, x, [NoEvent EXCEPT !.on = x, !.exec = x, !.from = "queued",
                                 !.to = "running", !.op = "claim"])

\* SELECT ... FOR UPDATE waits for the row, then reads its status.
Transition(t, x, s) ==
  /\ status[x] # "absent"
  /\ Begin(t, x, [NoEvent EXCEPT !.on = x, !.exec = x, !.from = status[x],
                                 !.to = s, !.op = "transition"])

\* enqueue_child_execution locks the parent; the child has a new id.
Enqueue(t, c) ==
  /\ c # Root
  /\ status[c] = "absent" /\ status[Parent[c]] # "absent"
  /\ \A u \in Tx : pc[u] # "idle" => tx[u].exec # c
  /\ Begin(t, Parent[c], [NoEvent EXCEPT !.on = Parent[c], !.exec = c,
                                         !.to = "queued", !.op = "enqueue"])

-----------------------------------------------------------------------------
(* _append_event *)

\* Mutant of LockRoot: the root's row is read, not locked.
ReadRoot(t) ==
  /\ pc[t] = "locked"
  /\ tx' = [tx EXCEPT ![t].seq = head.sequence + 1, ![t].cause = head.event]
  /\ pc' = [pc EXCEPT ![t] = "rooted"]
  /\ UNCHANGED <<status, head, log, held>>

\* Mutant of LockRoot: a connection of its own appends the event, and waits for a
\* root its own transaction has locked.
LockRootElsewhere(t) ==
  /\ pc[t] = "locked"
  /\ held[Root] = NoTx
  /\ held' = [held EXCEPT ![Root] = t]
  /\ tx' = [tx EXCEPT ![t].seq = head.sequence + 1, ![t].cause = head.event]
  /\ pc' = [pc EXCEPT ![t] = "rooted"]
  /\ UNCHANGED <<status, head, log>>

LockRoot(t) ==
  /\ pc[t] = "locked"
  /\ held[Root] \in {NoTx, t}
  /\ held' = [held EXCEPT ![Root] = t]
  /\ tx' = [tx EXCEPT ![t].seq = head.sequence + 1, ![t].cause = head.event]
  /\ pc' = [pc EXCEPT ![t] = "rooted"]
  /\ UNCHANGED <<status, head, log>>

\* Numbers given to the producer of e so far.  A claim's producer is new: its name
\* holds the attempt.
Numbers(e) ==
  {log[i].pseq : i \in {j \in 1 .. Len(log) :
                         e.op # "claim" /\ log[j].op = e.op /\ log[j].on = e.on}}

\* Mutant of NextOf: the + 1 is forgotten.
LastOf(e) == Max({0} \cup Numbers(e))

\* COALESCE(MAX(producer_sequence), 0) + 1
NextOf(e) == Max({0} \cup Numbers(e)) + 1

CountProducer(t) ==
  /\ pc[t] = "rooted"
  /\ tx' = [tx EXCEPT ![t].pseq = NextOf(tx[t])]
  /\ pc' = [pc EXCEPT ![t] = "counted"]
  /\ UNCHANGED <<status, head, log, held>>

Unlock(t) == [x \in Exec |-> IF held[x] = t THEN NoTx ELSE held[x]]

End(t) ==
  /\ held' = Unlock(t)
  /\ tx' = [tx EXCEPT ![t] = NoEvent]
  /\ pc' = [pc EXCEPT ![t] = "idle"]

\* Mutant of Commit: the status is not written with its event.
CommitEventOnly(t) ==
  /\ pc[t] = "counted"
  /\ log' = Append(log, tx[t])
  /\ head' = [sequence |-> tx[t].seq, event |-> Len(log) + 1]
  /\ End(t)
  /\ UNCHANGED status

\* The row, the event and the head of the log become visible together.
Commit(t) ==
  /\ pc[t] = "counted"
  /\ status' = [status EXCEPT ![tx[t].exec] = tx[t].to]
  /\ log' = Append(log, tx[t])
  /\ head' = [sequence |-> tx[t].seq, event |-> Len(log) + 1]
  /\ End(t)

\* Any statement may raise: nothing of the transaction is seen.
Rollback(t) ==
  /\ pc[t] # "idle"
  /\ End(t)
  /\ UNCHANGED <<status, head, log>>

-----------------------------------------------------------------------------
Proceed(t) == LockRoot(t) \/ CountProducer(t) \/ Commit(t)

Next ==
  \E t \in Tx :
    \/ \E x \in Exec : Claim(t, x) \/ Enqueue(t, x)
    \/ \E x \in Exec, s \in NextStatus : Transition(t, x, s)
    \/ Proceed(t) \/ Rollback(t)

Spec == Init /\ [][Next]_vars

\* A transaction goes on, and PostgreSQL grants a row to its waiters in turn.
FairSpec == Spec /\ \A t \in Tx : SF_vars(Proceed(t))

-----------------------------------------------------------------------------
(* Properties *)

TypeOK ==
  /\ status \in [Exec -> Status]
  /\ head \in [sequence : Nat, event : Nat]
  /\ log \in Seq(Event)
  /\ held \in [Exec -> Tx \cup {NoTx}]
  /\ pc \in [Tx -> {"idle", "locked", "rooted", "counted"}]
  /\ tx \in [Tx -> Event]

\* The log as validate.py reads it.  The producer of a claim is new, its name holds
\* the attempt; that of a transition or an enqueued child is made of the row.
Exported ==
  [i \in 1 .. Len(log) |->
     [sequence |-> log[i].seq, eventId |-> i, cause |-> log[i].cause,
      producer |-> IF log[i].op = "claim" THEN <<"claim", i>> ELSE <<log[i].op, log[i].on>>,
      producerSequence |-> log[i].pseq,
      terminal |-> log[i].to \in Terminal]]

\* The root has ended alone and for good: no event is about another execution, and
\* none starts from a terminal status.
EndedAlone ==
  /\ status[Root] \in Terminal
  /\ \A i \in 1 .. Len(log) : log[i].exec = Root /\ log[i].from \notin Terminal

\* At any time the events are in the order validate.py asks for: commits follow the
\* sequence without a gap or a duplicate, each event is caused by the one committed
\* before it, every producer numbers its own events upwards, and the root's columns
\* are the head of the log.  Once a root without children has ended, the log also
\* ends in its one terminal event, so nothing of the order is missing; the rule does
\* not hold of a tree in which a child has ended, nor of a row that is run again.
LogMeetsContract ==
  /\ InOrder(Exported, 1)
  /\ \A i \in 1 .. Len(log) : log[i].cause = i - 1
  /\ head = [sequence |-> Len(log), event |-> Len(log)]
  /\ EndedAlone => EndsOnce(Exported)

\* The events of an execution tell its whole history: each starts from the status
\* the one before it reached, and the last one reached the status it has.
HistoryIsAChain ==
  \A x \in Exec :
    LET own == {i \in 1 .. Len(log) : log[i].exec = x} IN
      /\ \A i, j \in own :
           i < j /\ (\A k \in own : k <= i \/ j <= k) => log[j].from = log[i].to
      /\ \A i \in own : (\A k \in own : k <= i) => status[x] = log[i].to

\* No two transactions wait for each other: each that began comes to an end.
TransactionsEnd == \A t \in Tx : pc[t] # "idle" ~> pc[t] = "idle"
=============================================================================
