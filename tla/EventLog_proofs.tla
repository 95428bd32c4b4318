---------------------------- MODULE EventLog_proofs ----------------------------
(***************************************************************************)
(* For any tree, any number of connections and any length of the log: the     *)
(* events are in the contract's order, the log of a root that ended alone ends  *)
(* as the contract asks, and the log tells every execution's history.          *)
(*                                                                         *)
(* The argument: a transaction has locked the row it is about, so the status   *)
(* it has read is still there when it commits, and no two transactions are      *)
(* about one execution (Rows); from LockRoot on it holds the root's row, so     *)
(* nobody else appends, and what it has read of the head is still true          *)
(* (RootHeld).                                                               *)
(***************************************************************************)
EXTENDS EventLog, WellFoundedInduction, TLAPS

Busy(t) == pc[t] # "idle"

\* What the row lock protects.  The child of an enqueue is not there yet; its own
\* row cannot be locked, and the id it gets is new.
Row(t) ==
  /\ held[tx[t].on] = t
  /\ tx[t].from = status[tx[t].exec]
  /\ tx[t].to # "absent"
  /\ tx[t].op = "enqueue" => status[tx[t].exec] = "absent"
  /\ tx[t].op # "enqueue" => tx[t].exec = tx[t].on /\ status[tx[t].exec] # "absent"

Rows ==
  \A t \in Tx : Busy(t) =>
    /\ Row(t)
    /\ \A u \in Tx \ {t} : Busy(u) => tx[u].exec # tx[t].exec

\* What the lock on the root protects.
RootHeld ==
  \A t \in Tx :
    /\ pc[t] \in {"rooted", "counted"} =>
         held[Root] = t /\ tx[t].seq = Len(log) + 1 /\ tx[t].cause = Len(log)
    /\ pc[t] = "counted" =>
         /\ tx[t].pseq \in 1 .. Len(log) + 1
         /\ \A n \in Numbers(tx[t]) : n < tx[t].pseq

\* A producer has no more events than the log, so the largest number exists.
NumbersAreBounded == \A i \in 1 .. Len(log) : log[i].pseq <= i

\* LogMeetsContract, said of the events themselves.
LogInv ==
  /\ head = [sequence |-> Len(log), event |-> Len(log)]
  /\ \A i \in 1 .. Len(log) :
       /\ log[i].seq = i /\ log[i].cause = i - 1 /\ log[i].pseq > 0
       /\ log[i].op # "claim" =>
            \A j \in 1 .. i - 1 :
              log[j].op = log[i].op /\ log[j].on = log[i].on => log[j].pseq < log[i].pseq

\* A root nothing has been said of is as it was enqueued.
LogIsThere == log = <<>> => status[Root] = "queued"

IInv ==
  /\ TypeOK /\ Rows /\ RootHeld /\ NumbersAreBounded
  /\ LogInv /\ HistoryIsAChain /\ LogIsThere

-----------------------------------------------------------------------------
\* A bounded set of numbers has a largest one.
LEMMA MaxIsLargest ==
  ASSUME NEW S \in SUBSET Nat, S # {}, NEW b \in Nat, \A n \in S : n <= b
  PROVE  Max(S) \in S /\ \A n \in S : n <= Max(S)
<1> DEFINE T == {k \in Nat : \A n \in S : n <= k}
<1>1. \E k \in T : \A j \in T : ~ (<<j, k>> \in OpToRel(<, Nat))
  <2>1. T \subseteq Nat /\ T # {}  OBVIOUS
  <2> HIDE DEF T
  <2> QED  BY <2>1, WFMin, NatLessThanWellFounded, Zenon
<1>2. PICK k \in T : \A j \in T : ~ (j < k)
  BY <1>1 DEF OpToRel
<1>3. k \in S
  <2>1. SUFFICES ASSUME k \notin S PROVE FALSE  OBVIOUS
  <2>2. \A n \in S : n < k  BY <2>1, <1>2
  <2>3. k # 0
    <3>1. PICK n \in S : TRUE  OBVIOUS
    <3>2. n \in Nat /\ n < k  BY <2>2
    <3> QED  BY <3>2
  <2>4. k - 1 \in T  BY <2>2, <2>3, <1>2
  <2> QED  BY <2>4, <1>2
<1>4. \A n \in S : k >= n  BY <1>2
<1>5. \A j \in S : (\A n \in S : j >= n) => j = k  BY <1>3, <1>4
<1>6. Max(S) = k  BY <1>3, <1>4, <1>5 DEF Max
<1> QED  BY <1>3, <1>4, <1>6

\* The number a producer is given is above all it has had.
LEMMA NextOfIsNew ==
  ASSUME TypeOK, NumbersAreBounded, NEW e \in Event
  PROVE  NextOf(e) \in 1 .. Len(log) + 1 /\ \A n \in Numbers(e) : n < NextOf(e)
<1> DEFINE S == {0} \cup Numbers(e)
<1>1. log \in Seq(Event) /\ Len(log) \in Nat  BY DEF TypeOK
<1>2. \A i \in 1 .. Len(log) : log[i].pseq \in Nat
  <2>1. \A i \in 1 .. Len(log) : log[i] \in Event  BY <1>1
  <2> QED  BY <2>1 DEF Event
<1>3. \A n \in S : n \in Nat /\ n <= Len(log)
  BY <1>1, <1>2 DEF Numbers, NumbersAreBounded
<1>4. Max(S) \in S /\ \A n \in S : n <= Max(S)
  <2>1. S \in SUBSET Nat /\ S # {}  BY <1>3
  <2> HIDE DEF S
  <2> QED  BY <2>1, <1>1, <1>3, MaxIsLargest
<1>5. NextOf(e) = Max(S) + 1  BY DEF NextOf
<1> HIDE DEF S
<1>6. Max(S) \in Nat /\ Max(S) <= Len(log)  BY <1>3, <1>4
<1>7. \A n \in S : n < Max(S) + 1  BY <1>3, <1>4, <1>6
<1>8. Numbers(e) \subseteq S  BY DEF S
<1>9. Max(S) + 1 \in 1 .. Len(log) + 1  BY <1>1, <1>6
<1> QED  BY <1>5, <1>7, <1>8, <1>9

-----------------------------------------------------------------------------
\* What is said of the events is what validate.py asks of the exported log.
LEMMA LogInvIsContract ==
  ASSUME TypeOK, LogInv, HistoryIsAChain, LogIsThere
  PROVE  LogMeetsContract
<1>1. Len(log) \in Nat /\ \A i \in 1 .. Len(log) : log[i] \in Event
  <2>1. log \in Seq(Event)  BY DEF TypeOK
  <2> QED  BY <2>1
<1> DEFINE producer(i) == IF log[i].op = "claim" THEN <<"claim", i>> ELSE <<log[i].op, log[i].on>>
<1>2. /\ DOMAIN Exported = 1 .. Len(log)
      /\ \A i \in 1 .. Len(log) :
           /\ Exported[i].sequence = i /\ Exported[i].eventId = i
           /\ Exported[i].cause = i - 1 /\ Exported[i].producer = producer(i)
           /\ Exported[i].producerSequence = log[i].pseq
           /\ Exported[i].terminal = (log[i].to \in Terminal)
  BY <1>1 DEF Exported, LogInv
<1>3. ASSUME NEW i \in 1 .. Len(log), NEW j \in 1 .. i - 1, producer(j) = producer(i)
      PROVE  log[j].pseq < log[i].pseq
  <2>1. j \in 1 .. Len(log) /\ j # i  BY <1>1
  <2>2. log[i].op # "claim" /\ log[j].op = log[i].op /\ log[j].on = log[i].on
    BY <1>3, <2>1
  <2> QED  BY <2>2 DEF LogInv
<1> HIDE DEF producer
<1>4. InSequence(Exported, 1)  BY <1>1, <1>2 DEF InSequence
<1>5. CausesPrecede(Exported)
  <2>1. ASSUME NEW i \in 1 .. Len(log)
        PROVE  /\ \A j \in 1 .. i - 1 : Exported[j].eventId # Exported[i].eventId
               /\ Exported[i].cause # NoCause =>
                    \E j \in 1 .. i - 1 : Exported[j].eventId = Exported[i].cause
    <3>1. \A j \in 1 .. i - 1 : Exported[j].eventId = j /\ j # i  BY <1>1, <1>2
    <3>2. ASSUME i - 1 # 0 PROVE i - 1 \in 1 .. i - 1  BY <1>1, <3>2
    <3> QED  BY <1>2, <3>1, <3>2 DEF NoCause
  <2> QED  BY <1>2, <2>1 DEF CausesPrecede
<1>6. ProducersAscend(Exported)
  <2>1. ASSUME NEW i \in 1 .. Len(log)
        PROVE  /\ Exported[i].producerSequence > 0
               /\ \A j \in 1 .. i - 1 : Exported[j].producer = Exported[i].producer
                    => Exported[j].producerSequence < Exported[i].producerSequence
    <3>1. \A j \in 1 .. i - 1 : j \in 1 .. Len(log)  BY <1>1
    <3>2. ASSUME NEW j \in 1 .. i - 1, Exported[j].producer = Exported[i].producer
          PROVE  Exported[j].producerSequence < Exported[i].producerSequence
      <4>1. producer(j) = producer(i)  BY <1>2, <3>1, <3>2
      <4> QED  BY <1>2, <1>3, <3>1, <4>1
    <3>3. Exported[i].producerSequence > 0  BY <1>2 DEF LogInv
    <3> QED  BY <3>2, <3>3
  <2> QED  BY <1>2, <2>1 DEF ProducersAscend
<1>7. ASSUME EndedAlone PROVE EndsOnce(Exported)
  <2> DEFINE n == Len(log)
  <2>1. n \in Nat /\ n # 0 /\ Root \in Exec
    <3>1. status[Root] # "queued"  BY <1>7 DEF EndedAlone, Terminal
    <3>2. log # <<>>  BY <3>1 DEF LogIsThere
    <3>3. log \in Seq(Event)  BY DEF TypeOK
    <3> QED  BY <3>2, <3>3, EventLogAssumption
  <2>2. \A i \in 1 .. n : log[i].exec = Root  BY <1>7 DEF EndedAlone
  <2>3. {i \in 1 .. n : log[i].exec = Root} = 1 .. n  BY <2>2
  <2>4. /\ \A i, j \in 1 .. n : i < j /\ (\A k \in 1 .. n : k <= i \/ j <= k) => log[j].from = log[i].to
        /\ \A i \in 1 .. n : (\A k \in 1 .. n : k <= i) => status[Root] = log[i].to
    BY <2>1, <2>3 DEF HistoryIsAChain
  <2>5. log[n].to \in Terminal
    <3>1. n \in 1 .. n /\ \A k \in 1 .. n : k <= n  BY <2>1
    <3>2. status[Root] = log[n].to  BY <2>4, <3>1
    <3> QED  BY <3>2, <1>7 DEF EndedAlone
  <2>6. ASSUME NEW i \in 1 .. n, i # n PROVE log[i].to \notin Terminal
    <3>1. i + 1 \in 1 .. n /\ i < i + 1 /\ \A k \in 1 .. n : k <= i \/ i + 1 <= k  BY <2>1, <2>6
    <3>2. log[i + 1].from = log[i].to  BY <2>4, <3>1
    <3> QED  BY <3>1, <3>2, <1>7 DEF EndedAlone
  <2>7. Exported # <<>> /\ Len(Exported) = n /\ DOMAIN Exported = 1 .. n
    BY <1>2, <2>1 DEF Exported
  <2>8. \A i \in 1 .. n : Exported[i].terminal <=> i = n  BY <1>2, <2>5, <2>6
  <2> HIDE DEF n
  <2> QED  BY <2>7, <2>8 DEF EndsOnce
<1> QED  BY <1>4, <1>5, <1>6, <1>7 DEF LogMeetsContract, InOrder, LogInv

-----------------------------------------------------------------------------
\* A root that has just been queued, and an empty log.
LEMMA InitIsGood ==
  ASSUME Init
  PROVE  IInv
<1> USE EventLogAssumption DEF Init
<1>1. NoEvent \in Event  BY DEF NoEvent, Event, Op, Status
<1>2. log = <<>> /\ Len(log) = 0  OBVIOUS
<1>3. TypeOK  BY <1>1, <1>2 DEF TypeOK, Status
<1>4. Rows /\ RootHeld  BY DEF Rows, RootHeld, Busy
<1>5. NumbersAreBounded /\ LogInv  BY <1>2 DEF NumbersAreBounded, LogInv
<1>6. HistoryIsAChain
  <2>1. \A x \in Exec : {i \in 1 .. Len(log) : log[i].exec = x} = {}  BY <1>2
  <2> QED  BY <2>1 DEF HistoryIsAChain
<1>7. LogIsThere  BY DEF LogIsThere
<1> QED  BY <1>3, <1>4, <1>5, <1>6, <1>7 DEF IInv

\* The log is what it was as long as nobody commits.
LEMMA LogStays ==
  ASSUME IInv, UNCHANGED <<status, head, log>>
  PROVE  NumbersAreBounded' /\ LogInv' /\ HistoryIsAChain' /\ LogIsThere'
<1>1. log' = log /\ status' = status /\ head' = head  OBVIOUS
<1>2. NumbersAreBounded' /\ LogInv'  BY <1>1 DEF IInv, NumbersAreBounded, LogInv
<1>3. HistoryIsAChain'  BY <1>1 DEF IInv, HistoryIsAChain
<1>4. LogIsThere'  BY <1>1 DEF IInv, LogIsThere
<1> QED  BY <1>2, <1>3, <1>4

\* A transaction that begins holds the row it is about, and nobody else is about
\* the same execution.
LEMMA BeginStep ==
  ASSUME IInv, NEW t \in Tx, NEW x \in Exec, NEW e \in Event, Begin(t, x, e),
         e.on = x, e.from = status[e.exec], e.to # "absent",
         e.op = "enqueue" =>
           status[e.exec] = "absent" /\ \A u \in Tx : pc[u] # "idle" => tx[u].exec # e.exec,
         e.op # "enqueue" => e.exec = x /\ status[x] # "absent"
  PROVE  IInv'
<1> USE DEF Begin
<1>1. TypeOK'
  <2>1. held' \in [Exec -> Tx \cup {NoTx}]  BY DEF IInv, TypeOK
  <2>2. pc' \in [Tx -> {"idle", "locked", "rooted", "counted"}]  BY DEF IInv, TypeOK
  <2>3. tx' \in [Tx -> Event]  BY DEF IInv, TypeOK
  <2> QED  BY <2>1, <2>2, <2>3 DEF IInv, TypeOK
<1>2. /\ tx'[t] = e /\ pc'[t] = "locked" /\ held'[x] = t
      /\ \A u \in Tx \ {t} : tx'[u] = tx[u] /\ pc'[u] = pc[u]
      /\ \A y \in Exec \ {x} : held'[y] = held[y]
  BY DEF IInv, TypeOK
<1>3. held[x] \notin Tx  BY EventLogAssumption DEF Free
<1>4. \A u \in Tx \ {t} : Busy(u) => tx[u].exec # e.exec
  <2>1. SUFFICES ASSUME NEW u \in Tx \ {t}, Busy(u), e.op # "enqueue" PROVE tx[u].exec # x
    BY DEF Busy
  <2>2. tx[u].op = "enqueue" => status[tx[u].exec] = "absent"  BY <2>1 DEF IInv, Rows, Row
  <2>3. tx[u].op # "enqueue" => tx[u].exec = tx[u].on /\ held[tx[u].on] = u
    BY <2>1 DEF IInv, Rows, Row
  <2> QED  BY <1>3, <2>1, <2>2, <2>3
<1>5. Rows'
  <2>1. ASSUME NEW u \in Tx, Busy(u)' PROVE Row(u)'
    <3>1. CASE u = t  BY <3>1, <1>2 DEF Row
    <3>2. CASE u # t
      <4>1. Row(u)  BY <3>2, <2>1, <1>2 DEF IInv, Rows, Busy
      <4>2. tx[u].on \in Exec \ {x}
        <5>1. tx[u] \in Event  BY DEF IInv, TypeOK
        <5> QED  BY <4>1, <5>1, <1>3 DEF Row, Event
      <4> QED  BY <3>2, <4>1, <4>2, <1>2 DEF Row
    <3> QED  BY <3>1, <3>2
  <2>2. ASSUME NEW u \in Tx, NEW v \in Tx \ {u}, Busy(u)', Busy(v)'
        PROVE  tx'[v].exec # tx'[u].exec
    BY <2>2, <1>2, <1>4 DEF IInv, Rows, Busy
  <2> QED  BY <2>1, <2>2 DEF Rows, Busy
<1>6. RootHeld'
  <2>1. ASSUME NEW u \in Tx, pc'[u] \in {"rooted", "counted"}
        PROVE  u # t /\ pc[u] = pc'[u] /\ tx'[u] = tx[u] /\ held[Root] = u /\ held'[Root] = u
    BY <2>1, <1>2, <1>3, EventLogAssumption DEF IInv, RootHeld
  <2> QED  BY <2>1 DEF IInv, RootHeld, Numbers
<1>7. NumbersAreBounded' /\ LogInv' /\ HistoryIsAChain' /\ LogIsThere'
  <2>1. UNCHANGED <<status, head, log>>  OBVIOUS
  <2> QED  BY <2>1, LogStays
<1> QED  BY <1>1, <1>5, <1>6, <1>7 DEF IInv

\* A claim is about the row it has locked.
LEMMA ClaimStep ==
  ASSUME IInv, NEW t \in Tx, NEW x \in Exec, Claim(t, x)
  PROVE  IInv'
<1> DEFINE e == [NoEvent EXCEPT !.on = x, !.exec = x, !.from = "queued",
                                !.to = "running", !.op = "claim"]
<1>1. e \in Event /\ e.on = x /\ e.exec = x /\ e.from = "queued" /\ e.to = "running"
      /\ e.op = "claim"
  BY EventLogAssumption DEF NoEvent, Event, Op, Status
<1>2. Begin(t, x, e) /\ status[x] = "queued"  BY DEF Claim
<1> HIDE DEF e
<1> QED  BY <1>1, <1>2, BeginStep

\* So is a change of status; the status it reads is under the lock.
LEMMA TransitionStep ==
  ASSUME IInv, NEW t \in Tx, NEW x \in Exec, NEW s \in NextStatus, Transition(t, x, s)
  PROVE  IInv'
<1> DEFINE e == [NoEvent EXCEPT !.on = x, !.exec = x, !.from = status[x],
                                !.to = s, !.op = "transition"]
<1>1. e \in Event /\ e.on = x /\ e.exec = x /\ e.from = status[x] /\ e.to # "absent"
      /\ e.op = "transition"
  <2>1. status[x] \in Status  BY DEF IInv, TypeOK
  <2> QED  BY <2>1, EventLogAssumption DEF NoEvent, Event, Op, Status
<1>2. Begin(t, x, e) /\ status[x] # "absent"  BY DEF Transition
<1> HIDE DEF e
<1> QED  BY <1>1, <1>2, BeginStep

\* An enqueue has locked the parent, and the child's id is new.
LEMMA EnqueueStep ==
  ASSUME IInv, NEW t \in Tx, NEW c \in Exec, Enqueue(t, c)
  PROVE  IInv'
<1> DEFINE e == [NoEvent EXCEPT !.on = Parent[c], !.exec = c, !.to = "queued", !.op = "enqueue"]
<1>1. Parent[c] \in Exec  BY EventLogAssumption DEF Enqueue
<1>2. e \in Event /\ e.on = Parent[c] /\ e.exec = c /\ e.from = "absent" /\ e.to = "queued"
      /\ e.op = "enqueue"
  BY <1>1, EventLogAssumption DEF NoEvent, Event, Op, Status
<1>3. /\ Begin(t, Parent[c], e) /\ status[c] = "absent"
      /\ \A u \in Tx : pc[u] # "idle" => tx[u].exec # c
  BY DEF Enqueue
<1> HIDE DEF e
<1> QED  BY <1>1, <1>2, <1>3, BeginStep

-----------------------------------------------------------------------------
\* From here on the transaction holds the root's row.
LEMMA LockRootStep ==
  ASSUME IInv, NEW t \in Tx, LockRoot(t)
  PROVE  IInv'
<1>0. tx[t] \in Event /\ Len(log) \in Nat /\ Root \in Exec
  BY EventLogAssumption DEF IInv, TypeOK
<1>1. /\ pc[t] = "locked" /\ pc'[t] = "rooted"
      /\ held'[Root] = t /\ held[Root] \in {NoTx, t}
      /\ \A u \in Tx \ {t} : tx'[u] = tx[u] /\ pc'[u] = pc[u]
      /\ \A y \in Exec \ {Root} : held'[y] = held[y]
  BY <1>0 DEF LockRoot, IInv, TypeOK
<1>a. tx'[t] = [tx[t] EXCEPT !.seq = Len(log) + 1, !.cause = Len(log)]
  BY DEF LockRoot, IInv, TypeOK, LogInv
<1>c. UNCHANGED <<status, head, log>>  BY DEF LockRoot
<1>b. Len(log) + 1 \in Nat  BY <1>0
<1>2. /\ tx'[t] \in Event /\ tx'[t].seq = Len(log) + 1 /\ tx'[t].cause = Len(log)
      /\ tx'[t].on = tx[t].on /\ tx'[t].exec = tx[t].exec /\ tx'[t].op = tx[t].op
      /\ tx'[t].from = tx[t].from /\ tx'[t].to = tx[t].to
  <2> DEFINE e == [tx[t] EXCEPT !.seq = Len(log) + 1]
  <2>1. e \in Event /\ e.seq = Len(log) + 1 /\ e.on = tx[t].on /\ e.exec = tx[t].exec
        /\ e.op = tx[t].op /\ e.from = tx[t].from /\ e.to = tx[t].to
    BY <1>0, <1>b DEF Event
  <2>2. tx'[t] = [e EXCEPT !.cause = Len(log)]  BY <1>a
  <2> HIDE DEF e
  <2> QED  BY <1>0, <2>1, <2>2 DEF Event
<1>3. TypeOK'
  <2>1. held' \in [Exec -> Tx \cup {NoTx}]  BY DEF LockRoot, IInv, TypeOK
  <2>2. pc' \in [Tx -> {"idle", "locked", "rooted", "counted"}]  BY DEF LockRoot, IInv, TypeOK
  <2>3. tx' \in [Tx -> Event]  BY <1>1, <1>2 DEF LockRoot, IInv, TypeOK
  <2> QED  BY <1>c, <2>1, <2>2, <2>3 DEF IInv, TypeOK
<1>4. Rows'
  <2>1. ASSUME NEW u \in Tx, Busy(u)' PROVE Row(u)'
    <3>1. Row(u)  BY <2>1, <1>1 DEF IInv, Rows, Busy
    <3>2. tx[u].on \in Exec
      <4>1. tx[u] \in Event  BY DEF IInv, TypeOK
      <4> QED  BY <4>1 DEF Event
    <3>3. held'[tx[u].on] = u
      <4>1. held[tx[u].on] = u  BY <3>1 DEF Row
      <4> QED  BY <4>1, <3>2, <1>1, EventLogAssumption
    <3>4. /\ tx'[u].on = tx[u].on /\ tx'[u].exec = tx[u].exec /\ tx'[u].op = tx[u].op
          /\ tx'[u].from = tx[u].from /\ tx'[u].to = tx[u].to
      BY <1>1, <1>2
    <3>5. status' = status  BY <1>c
    <3> QED  BY <3>1, <3>3, <3>4, <3>5, Zenon DEF Row
  <2>2. ASSUME NEW u \in Tx, NEW v \in Tx \ {u}, Busy(u)', Busy(v)'
        PROVE  tx'[v].exec # tx'[u].exec
    <3>1. tx[v].exec # tx[u].exec  BY <2>2, <1>1 DEF IInv, Rows, Busy
    <3> QED  BY <3>1, <1>1, <1>2
  <2> QED  BY <2>1, <2>2 DEF Rows, Busy
<1>5. RootHeld'
  <2>1. ASSUME NEW u \in Tx \ {t}, pc'[u] \in {"rooted", "counted"} PROVE FALSE
    BY <2>1, <1>1, EventLogAssumption DEF IInv, RootHeld
  <2>2. log' = log  BY <1>c
  <2> QED  BY <2>1, <2>2, <1>1, <1>2 DEF RootHeld
<1>6. NumbersAreBounded' /\ LogInv' /\ HistoryIsAChain' /\ LogIsThere'
  BY <1>c, LogStays
<1> QED  BY <1>3, <1>4, <1>5, <1>6 DEF IInv

\* The number is counted under the root's lock, so nobody else can be given it.
LEMMA CountProducerStep ==
  ASSUME IInv, NEW t \in Tx, CountProducer(t)
  PROVE  IInv'
<1> USE DEF CountProducer
<1>0. tx[t] \in Event /\ Len(log) \in Nat  BY DEF IInv, TypeOK
<1>1. /\ tx'[t] = [tx[t] EXCEPT !.pseq = NextOf(tx[t])]
      /\ pc[t] = "rooted" /\ pc'[t] = "counted" /\ held' = held
      /\ \A u \in Tx \ {t} : tx'[u] = tx[u] /\ pc'[u] = pc[u]
  BY DEF IInv, TypeOK
<1>2. NextOf(tx[t]) \in 1 .. Len(log) + 1 /\ \A n \in Numbers(tx[t]) : n < NextOf(tx[t])
  BY <1>0, NextOfIsNew DEF IInv
<1>3. /\ tx'[t] \in Event /\ tx'[t].seq = tx[t].seq /\ tx'[t].cause = tx[t].cause
      /\ tx'[t].on = tx[t].on /\ tx'[t].exec = tx[t].exec /\ tx'[t].op = tx[t].op
      /\ tx'[t].from = tx[t].from /\ tx'[t].to = tx[t].to
      /\ tx'[t].pseq = NextOf(tx[t])
  BY <1>0, <1>1, <1>2 DEF Event
<1>4. TypeOK'
  <2>1. pc' \in [Tx -> {"idle", "locked", "rooted", "counted"}]  BY DEF IInv, TypeOK
  <2>2. tx' \in [Tx -> Event]  BY <1>1, <1>3 DEF IInv, TypeOK
  <2> QED  BY <2>1, <2>2 DEF IInv, TypeOK
<1>5. Rows'
  <2>1. ASSUME NEW u \in Tx, Busy(u)' PROVE Row(u)'
    <3>1. Row(u)  BY <2>1, <1>1 DEF IInv, Rows, Busy
    <3> QED  BY <3>1, <1>1, <1>3 DEF Row
  <2>2. ASSUME NEW u \in Tx, NEW v \in Tx \ {u}, Busy(u)', Busy(v)'
        PROVE  tx'[v].exec # tx'[u].exec
    BY <2>2, <1>1, <1>3 DEF IInv, Rows, Busy
  <2> QED  BY <2>1, <2>2 DEF Rows, Busy
<1>6. RootHeld'
  <2>1. log' = log  OBVIOUS
  <2>2. \A u \in Tx : Numbers(tx[u])' = Numbers(tx[u])  BY <2>1, <1>1, <1>3 DEF Numbers
  <2>3. ASSUME NEW u \in Tx \ {t}, pc'[u] \in {"rooted", "counted"}
        PROVE  held[Root] = u /\ held[Root] = t
    BY <2>3, <1>1 DEF IInv, RootHeld
  <2>4. held'[Root] = t /\ tx'[t].seq = Len(log') + 1 /\ tx'[t].cause = Len(log')
    BY <2>1, <1>1, <1>3 DEF IInv, RootHeld
  <2>5. tx'[t].pseq \in 1 .. Len(log') + 1 /\ \A n \in Numbers(tx[t])' : n < tx'[t].pseq
    BY <2>1, <2>2, <1>2, <1>3
  <2> QED  BY <2>3, <2>4, <2>5, <1>1 DEF RootHeld
<1>7. NumbersAreBounded' /\ LogInv' /\ HistoryIsAChain' /\ LogIsThere'
  <2>1. UNCHANGED <<status, head, log>>  OBVIOUS
  <2> QED  BY <2>1, LogStays
<1> QED  BY <1>4, <1>5, <1>6, <1>7 DEF IInv

-----------------------------------------------------------------------------
\* A transaction that ends gives its rows back; nobody else notices.
LEMMA EndStep ==
  ASSUME IInv, NEW t \in Tx, End(t)
  PROVE  /\ pc'[t] = "idle" /\ tx'[t] = NoEvent
         /\ \A u \in Tx \ {t} : tx'[u] = tx[u] /\ pc'[u] = pc[u]
         /\ \A u \in Tx \ {t}, x \in Exec : held[x] = u => held'[x] = u
         /\ held' \in [Exec -> Tx \cup {NoTx}]
         /\ pc' \in [Tx -> {"idle", "locked", "rooted", "counted"}]
         /\ tx' \in [Tx -> Event]
<1>1. NoEvent \in Event  BY EventLogAssumption DEF NoEvent, Event, Op, Status
<1>2. /\ pc'[t] = "idle" /\ tx'[t] = NoEvent
      /\ \A u \in Tx \ {t} : tx'[u] = tx[u] /\ pc'[u] = pc[u]
  BY DEF End, IInv, TypeOK
<1>3. \A u \in Tx \ {t}, x \in Exec : held[x] = u => held'[x] = u
  BY DEF End, Unlock
<1>4. held' \in [Exec -> Tx \cup {NoTx}]  BY DEF End, Unlock, IInv, TypeOK
<1>5. pc' \in [Tx -> {"idle", "locked", "rooted", "counted"}]  BY DEF End, IInv, TypeOK
<1>6. tx' \in [Tx -> Event]  BY <1>1 DEF End, IInv, TypeOK
<1> QED  BY <1>2, <1>3, <1>4, <1>5, <1>6

\* A rollback frees rows and changes nothing else.
LEMMA RollbackStep ==
  ASSUME IInv, NEW t \in Tx, Rollback(t)
  PROVE  IInv'
<1>1. End(t) /\ UNCHANGED <<status, head, log>>  BY DEF Rollback
<1>2. /\ pc'[t] = "idle"
      /\ \A u \in Tx \ {t} : tx'[u] = tx[u] /\ pc'[u] = pc[u]
      /\ \A u \in Tx \ {t}, x \in Exec : held[x] = u => held'[x] = u
  BY <1>1, EndStep
<1>3. TypeOK'  BY <1>1, EndStep DEF IInv, TypeOK
<1>4. \A u \in Tx : tx[u].on \in Exec
  <2>1. \A u \in Tx : tx[u] \in Event  BY DEF IInv, TypeOK
  <2> QED  BY <2>1 DEF Event
<1>5. Rows'
  <2>1. ASSUME NEW u \in Tx, Busy(u)' PROVE Row(u)'
    <3>1. u # t /\ Row(u)  BY <2>1, <1>2 DEF IInv, Rows, Busy
    <3>2. held'[tx[u].on] = u  BY <3>1, <1>2, <1>4 DEF Row
    <3> QED  BY <3>1, <3>2, <1>1, <1>2 DEF Row
  <2>2. ASSUME NEW u \in Tx, NEW v \in Tx \ {u}, Busy(u)', Busy(v)'
        PROVE  tx'[v].exec # tx'[u].exec
    BY <2>2, <1>2 DEF IInv, Rows, Busy
  <2> QED  BY <2>1, <2>2 DEF Rows, Busy
<1>6. RootHeld'
  <2>1. ASSUME NEW u \in Tx, pc'[u] \in {"rooted", "counted"}
        PROVE  u # t /\ pc[u] = pc'[u] /\ tx'[u] = tx[u] /\ held'[Root] = u
    BY <2>1, <1>2, EventLogAssumption DEF IInv, RootHeld
  <2>2. log' = log  BY <1>1
  <2> QED  BY <2>1, <2>2 DEF IInv, RootHeld, Numbers
<1>7. NumbersAreBounded' /\ LogInv' /\ HistoryIsAChain' /\ LogIsThere'  BY <1>1, LogStays
<1> QED  BY <1>3, <1>5, <1>6, <1>7 DEF IInv

\* The event of the only transaction that holds the root goes to the end of the log.
LEMMA CommitStep ==
  ASSUME IInv, NEW t \in Tx, Commit(t)
  PROVE  IInv'
<1> DEFINE e == tx[t]  n == Len(log) + 1
<1>1. End(t) /\ pc[t] = "counted"  BY DEF Commit
<1>2. /\ pc'[t] = "idle"
      /\ \A u \in Tx \ {t} : tx'[u] = tx[u] /\ pc'[u] = pc[u]
      /\ \A u \in Tx \ {t}, x \in Exec : held[x] = u => held'[x] = u
  BY <1>1, EndStep
<1>3. /\ log \in Seq(Event) /\ e \in Event /\ Len(log) \in Nat
      /\ \A u \in Tx : tx[u].on \in Exec /\ tx[u].exec \in Exec
  <2>1. \A u \in Tx : tx[u] \in Event  BY DEF IInv, TypeOK
  <2>2. log \in Seq(Event)  BY DEF IInv, TypeOK
  <2> QED  BY <2>1, <2>2 DEF Event
<1>4. /\ log' \in Seq(Event) /\ Len(log') = n /\ log'[n] = e
      /\ \A i \in 1 .. Len(log) : log'[i] = log[i]
  BY <1>3 DEF Commit
<1>5. /\ status'[e.exec] = e.to /\ \A x \in Exec \ {e.exec} : status'[x] = status[x]
      /\ e.to # "absent" /\ e.from = status[e.exec]
  BY <1>1, <1>3 DEF Commit, IInv, TypeOK, Rows, Row, Busy
<1>6. /\ e.seq = n /\ e.cause = n - 1 /\ e.pseq \in 1 .. n
      /\ \A k \in Numbers(e) : k < e.pseq
      /\ held[Root] = t
  BY <1>1, <1>3 DEF IInv, RootHeld
<1> HIDE DEF e, n
<1>n. n \in Nat /\ 1 .. Len(log') = 1 .. Len(log) \cup {n} /\ n \notin 1 .. Len(log)
  BY <1>3, <1>4 DEF n
<1>7. TypeOK'
  <2>1. e.to \in Status /\ e.seq \in Nat  BY <1>3 DEF Event
  <2>2. status' \in [Exec -> Status]  BY <2>1 DEF Commit, IInv, TypeOK, e
  <2>3. head' \in [sequence : Nat, event : Nat]  BY <2>1, <1>3 DEF Commit, e
  <2> QED  BY <2>2, <2>3, <1>1, <1>4, EndStep DEF TypeOK
<1>8. Rows'
  <2>1. ASSUME NEW u \in Tx, Busy(u)' PROVE Row(u)'
    <3>1. u # t /\ Row(u) /\ tx[u].exec # e.exec
      BY <2>1, <1>1, <1>2 DEF IInv, Rows, Busy, e
    <3>2. held'[tx[u].on] = u  BY <3>1, <1>2, <1>3 DEF Row
    <3>3. tx'[u] = tx[u] /\ status'[tx[u].exec] = status[tx[u].exec]
      BY <3>1, <1>2, <1>3, <1>5
    <3> QED  BY <3>1, <3>2, <3>3 DEF Row
  <2>2. ASSUME NEW u \in Tx, NEW v \in Tx \ {u}, Busy(u)', Busy(v)'
        PROVE  tx'[v].exec # tx'[u].exec
    BY <2>2, <1>2 DEF IInv, Rows, Busy
  <2> QED  BY <2>1, <2>2 DEF Rows, Busy
<1>9. RootHeld'
  <2>1. ASSUME NEW u \in Tx, pc'[u] \in {"rooted", "counted"} PROVE FALSE
    BY <2>1, <1>2, <1>6 DEF IInv, RootHeld
  <2> QED  BY <2>1 DEF RootHeld
<1>10. NumbersAreBounded'
  BY <1>4, <1>6, <1>n DEF IInv, NumbersAreBounded
<1>11. LogInv'
  <2>1. head' = [sequence |-> n, event |-> n]  BY <1>6 DEF Commit, e, n
  <2>2. ASSUME NEW i \in 1 .. Len(log')
        PROVE  /\ log'[i].seq = i /\ log'[i].cause = i - 1 /\ log'[i].pseq > 0
               /\ log'[i].op # "claim" =>
                    \A j \in 1 .. i - 1 :
                      log'[j].op = log'[i].op /\ log'[j].on = log'[i].on
                        => log'[j].pseq < log'[i].pseq
    <3>1. CASE i \in 1 .. Len(log)
      <4>1. \A j \in 1 .. i - 1 : j \in 1 .. Len(log)  BY <3>1, <1>3
      <4> QED  BY <3>1, <4>1, <1>4 DEF IInv, LogInv
    <3>2. CASE i = n
      <4>1. \A j \in 1 .. n - 1 : j \in 1 .. Len(log)  BY <1>3 DEF n
      <4>2. ASSUME NEW j \in 1 .. Len(log), e.op # "claim", log[j].op = e.op, log[j].on = e.on
            PROVE  log[j].pseq < e.pseq
        <5>1. log[j].pseq \in Numbers(e)  BY <4>2 DEF Numbers
        <5> QED  BY <5>1, <1>6
      <4>3. e.pseq > 0  BY <1>6, <1>n
      <4> QED  BY <3>2, <4>1, <4>2, <4>3, <1>4, <1>6
    <3> QED  BY <3>1, <3>2, <1>n
  <2> QED  BY <2>1, <2>2, <1>4 DEF LogInv
<1>12. HistoryIsAChain'
  <2> DEFINE Own(x) == {i \in 1 .. Len(log) : log[i].exec = x}
             Own2(x) == {i \in 1 .. Len(log') : log'[i].exec = x}
  <2>1. \A x \in Exec : Own2(x) = Own(x) \cup IF x = e.exec THEN {n} ELSE {}
    BY <1>4, <1>n
  <2>2. ASSUME NEW x \in Exec
        PROVE  /\ \A i, j \in Own(x) :
                    i < j /\ (\A k \in Own(x) : k <= i \/ j <= k) => log[j].from = log[i].to
               /\ \A i \in Own(x) : (\A k \in Own(x) : k <= i) => status[x] = log[i].to
    BY DEF IInv, HistoryIsAChain
  <2>3. \A x \in Exec : \A i \in Own(x) : i \in 1 .. Len(log) /\ i < n /\ log'[i] = log[i]
    BY <1>3, <1>4 DEF n
  <2> HIDE DEF Own, Own2
  <2>4. ASSUME NEW x \in Exec
        PROVE  /\ \A i, j \in Own2(x) :
                    i < j /\ (\A k \in Own2(x) : k <= i \/ j <= k) => log'[j].from = log'[i].to
               /\ \A i \in Own2(x) : (\A k \in Own2(x) : k <= i) => status'[x] = log'[i].to
    <3>1. CASE x # e.exec
      <4>1. Own2(x) = Own(x) /\ status'[x] = status[x]  BY <3>1, <2>1, <1>5
      <4> QED  BY <4>1, <2>2, <2>3
    <3>2. CASE x = e.exec
      <4>1. Own2(x) = Own(x) \cup {n}  BY <3>2, <2>1
      <4>2. ASSUME NEW i \in Own2(x), NEW j \in Own2(x), i < j,
                   \A k \in Own2(x) : k <= i \/ j <= k
            PROVE  log'[j].from = log'[i].to
        <5>1. i \in Own(x)  BY <4>1, <4>2, <2>3, <1>n
        <5>2. CASE j = n
          <6>1. \A k \in Own(x) : k <= i  BY <4>1, <4>2, <5>2, <2>3, <1>3, <1>n
          <6>2. status[x] = log[i].to  BY <6>1, <5>1, <2>2
          <6> QED  BY <6>2, <5>1, <5>2, <3>2, <2>3, <1>4, <1>5
        <5>3. CASE j # n
          <6>1. j \in Own(x)  BY <4>1, <5>3
          <6>2. log[j].from = log[i].to  BY <6>1, <5>1, <4>1, <4>2, <2>2
          <6> QED  BY <6>1, <6>2, <5>1, <2>3
        <5> QED  BY <5>2, <5>3
      <4>3. ASSUME NEW i \in Own2(x), \A k \in Own2(x) : k <= i
            PROVE  status'[x] = log'[i].to
        <5>1. n <= i  BY <4>1, <4>3
        <5>2. i = n  BY <5>1, <4>1, <2>3, <1>3, <1>n
        <5> QED  BY <5>2, <3>2, <1>4, <1>5
      <4> QED  BY <4>2, <4>3
    <3> QED  BY <3>1, <3>2
  <2> QED  BY <2>4 DEF HistoryIsAChain, Own2
<1>13. LogIsThere'  BY <1>4, <1>n DEF LogIsThere
<1> QED  BY <1>7, <1>8, <1>9, <1>10, <1>11, <1>12, <1>13 DEF IInv

-----------------------------------------------------------------------------
\* Every step of the log's transactions keeps the invariant.
LEMMA NextStep ==
  ASSUME IInv, [Next]_vars
  PROVE  IInv'
<1>1. ASSUME Next PROVE IInv'
  <2>1. PICK t \in Tx :
          \/ \E x \in Exec : Claim(t, x) \/ Enqueue(t, x)
          \/ \E x \in Exec, s \in NextStatus : Transition(t, x, s)
          \/ LockRoot(t) \/ CountProducer(t) \/ Commit(t) \/ Rollback(t)
    BY <1>1, Zenon DEF Next, Proceed
  <2>2. CASE \E x \in Exec : Claim(t, x)  BY <2>2, ClaimStep, Zenon
  <2>3. CASE \E x \in Exec : Enqueue(t, x)  BY <2>3, EnqueueStep, Zenon
  <2>4. CASE \E x \in Exec, s \in NextStatus : Transition(t, x, s)
    BY <2>4, TransitionStep, Zenon
  <2>5. CASE LockRoot(t)  BY <2>5, LockRootStep, Zenon
  <2>6. CASE CountProducer(t)  BY <2>6, CountProducerStep, Zenon
  <2>7. CASE Commit(t)  BY <2>7, CommitStep, Zenon
  <2>8. CASE Rollback(t)  BY <2>8, RollbackStep, Zenon
  <2> QED  BY <2>1, <2>2, <2>3, <2>4, <2>5, <2>6, <2>7, <2>8, Zenon
<1>2. ASSUME UNCHANGED vars PROVE IInv'
  <2>1. /\ status' = status /\ head' = head /\ log' = log
        /\ held' = held /\ pc' = pc /\ tx' = tx
    BY <1>2 DEF vars
  <2>2. TypeOK'  BY <2>1 DEF IInv, TypeOK
  <2>3. Rows'  BY <2>1 DEF IInv, Rows, Row, Busy
  <2>4. RootHeld'  BY <2>1 DEF IInv, RootHeld, Numbers
  <2>5. NumbersAreBounded' /\ LogInv' /\ HistoryIsAChain' /\ LogIsThere'  BY <2>1, LogStays
  <2> QED  BY <2>2, <2>3, <2>4, <2>5 DEF IInv
<1> QED  BY <1>1, <1>2

\* The invariant holds in every reachable state: what a transaction of
\* execution.py has read is protected by the rows it has locked.
THEOREM Invariance == Spec => []IInv
<1>1. Init => IInv  BY InitIsGood
<1>2. IInv /\ [Next]_vars => IInv'  BY NextStep
<1> QED  BY <1>1, <1>2, PTL DEF Spec

\* Rows, locks and events have their types, whatever the tree.
THEOREM TypeCorrect == Spec => []TypeOK
<1>1. IInv => TypeOK  BY DEF IInv
<1> QED  BY <1>1, Invariance, PTL

\* At any time the events are in the order validate.py asks for: no gap and no
\* duplicate in the sequence, causes before effects, producers numbered upwards; and
\* the log of a root that has ended alone ends in its one terminal event.
THEOREM LogMeetsTheContract == Spec => []LogMeetsContract
<1>1. IInv => LogMeetsContract  BY LogInvIsContract DEF IInv
<1> QED  BY <1>1, Invariance, PTL

\* The events of an execution tell every status it has had, in order.
THEOREM HistoryIsComplete == Spec => []HistoryIsAChain
<1>1. IInv => HistoryIsAChain  BY DEF IInv
<1> QED  BY <1>1, Invariance, PTL
=============================================================================
