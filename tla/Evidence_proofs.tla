--------------------------- MODULE Evidence_proofs ---------------------------
(***************************************************************************)
(* For every batch size and every bound: the backend's log of a run's         *)
(* evidence is in order, closed under causes and artifacts, nothing leaves    *)
(* the buffers before it is there, and decisions come after the evidence.     *)
(*                                                                         *)
(* The argument: every request, answered or given up, was made when all that   *)
(* precedes it was known (Sound), and that stays true while the log grows      *)
(* (SoundIsStable), so serving it at any later time keeps the log's            *)
(* properties (ServeKeepsLog).                                                *)
(***************************************************************************)
EXTENDS Evidence, TLAPS

\* A request may be served now or at any later time.
Sound(r) ==
  /\ r.kind = "artifacts" => r.hi <= artifacts
  /\ r.kind = "events" =>
       /\ r.hi <= Len(events)
       /\ 1 .. r.lo - 1 \subseteq Known
       /\ \A n \in r.lo .. r.hi : events[n].refs \subseteq stored
  /\ r.kind = "decision" =>
       /\ r.lo \in 1 .. Len(asked)
       /\ 1 .. asked[r.lo] \subseteq Known

KnownAreMade ==
  \A id \in Known : id \in 1 .. Len(events) \/ - id \in 1 .. Len(asked)

\* A cause of the n-th event, given what the backend knows.
CauseFor(known, c, n) == c = 0 \/ c \in 1 .. n - 1 \/ (c < 0 /\ c \in known)

Causes ==
  /\ \A n \in 1 .. Len(events) : CauseFor(Known, events[n].cause, n)
  /\ CauseFor(Known, lastEvent, Len(events) + 1)

RefsAreMade == \A n \in 1 .. Len(events) : events[n].refs \subseteq 1 .. artifacts

AskedAfter == \A k \in 1 .. Len(asked) : asked[k] <= Len(events)

\* The post under way is the head of a buffer.
PostIsHead ==
  /\ post.kind = "artifacts" => post.lo = flushedArtifacts + 1 /\ post.hi >= post.lo
  /\ post.kind = "events" => post.lo = flushedEvents + 1 /\ post.hi >= post.lo

DecisionIsAsked ==
  /\ goal \in {"decision", "grant"} => Len(asked) >= 1
  /\ goal = "grant" => asked[Len(asked)] <= flushedEvents

Requests == \A r \in late \cup {post} : r = NoPost \/ Sound(r)

LogInv == OrderKept /\ CausesPrecede /\ ArtifactsPrecede /\ EvidenceBeforeDecision

IInv ==
  /\ TypeOK /\ NothingLost /\ KnownAreMade /\ Causes /\ RefsAreMade /\ AskedAfter
  /\ PostIsHead /\ DecisionIsAsked /\ Requests /\ LogInv

-----------------------------------------------------------------------------
(* Growth *)

\* What a step may do to what requests and properties are about.
Grows ==
  /\ Known \subseteq Known' /\ stored \subseteq stored'
  /\ artifacts <= artifacts'
  /\ Len(events) <= Len(events')
  /\ \A n \in 1 .. Len(events) : events'[n] = events[n]
  /\ Len(asked) <= Len(asked')
  /\ \A k \in 1 .. Len(asked) : asked'[k] = asked[k]

LEMMA SoundIsStable ==
  ASSUME TypeOK, TypeOK', Grows, NEW r \in Request, Sound(r)
  PROVE  Sound(r)'
<1>a. artifacts \in Nat /\ artifacts' \in Nat /\ Len(events) \in Nat /\ Len(events') \in Nat
  <2>1. artifacts \in Nat /\ artifacts' \in Nat  BY DEF TypeOK
  <2>2. events \in Seq(Event) /\ events' \in Seq(Event)  BY DEF TypeOK
  <2> QED  BY <2>1, <2>2
<1>b. Len(asked) \in Nat /\ Len(asked') \in Nat
  <2>1. asked \in Seq(Nat) /\ asked' \in Seq(Nat)  BY DEF TypeOK
  <2> QED  BY <2>1
<1> USE DEF Request
<1>1. r.kind = "artifacts" => r.hi <= artifacts'
  BY <1>a DEF Sound, Grows
<1>2. ASSUME r.kind = "events"
      PROVE  /\ r.hi <= Len(events')
             /\ 1 .. r.lo - 1 \subseteq Known'
             /\ \A n \in r.lo .. r.hi : events'[n].refs \subseteq stored'
  <2>1. r.hi <= Len(events') /\ 1 .. r.lo - 1 \subseteq Known'
    BY <1>2, <1>a DEF Sound, Grows
  <2>2. ASSUME NEW n \in r.lo .. r.hi PROVE events'[n].refs \subseteq stored'
    <3>1. n \in 1 .. Len(events)  BY <1>2, <1>a DEF Sound
    <3>2. events[n].refs \subseteq stored  BY <1>2 DEF Sound
    <3> QED  BY <3>1, <3>2 DEF Grows
  <2> QED  BY <2>1, <2>2
<1>3. ASSUME r.kind = "decision"
      PROVE  r.lo \in 1 .. Len(asked') /\ 1 .. asked'[r.lo] \subseteq Known'
  <2>1. r.lo \in 1 .. Len(asked) /\ 1 .. asked[r.lo] \subseteq Known
    BY <1>3 DEF Sound
  <2>2. asked'[r.lo] = asked[r.lo]  BY <2>1 DEF Grows
  <2>3. Known \subseteq Known' /\ Len(asked) <= Len(asked')  BY DEF Grows
  <2> QED  BY <1>b, <2>1, <2>2, <2>3
<1> QED  BY <1>1, <1>2, <1>3 DEF Sound

\* What learning a batch does to the log.
LEMMA LearnLog ==
  ASSUME log \in Seq(SUBSET Int), NEW ids \in SUBSET Int, Learn(ids)
  PROVE  /\ log' \in Seq(SUBSET Int)
         /\ Known' = Known \cup ids
         /\ \/ log' = log
            \/ /\ Len(log') = Len(log) + 1
               /\ \A i \in 1 .. Len(log) : log'[i] = log[i]
               /\ log'[Len(log) + 1] = ids \ Known
<1>1. CASE ids \subseteq Known
  <2>1. log' = log  BY <1>1 DEF Learn
  <2>2. Known' = Known  BY <2>1 DEF Known
  <2> QED  BY <1>1, <2>1, <2>2
<1>2. CASE ~ (ids \subseteq Known)
  <2>1. log' = Append(log, ids \ Known)  BY <1>2 DEF Learn
  <2>2. /\ log' \in Seq(SUBSET Int)
        /\ Len(log') = Len(log) + 1
        /\ \A i \in 1 .. Len(log) : log'[i] = log[i]
        /\ log'[Len(log) + 1] = ids \ Known
    <3> DEFINE new == ids \ Known
    <3>1. new \in SUBSET Int  OBVIOUS
    <3> HIDE DEF new
    <3>2. /\ Append(log, new) \in Seq(SUBSET Int)
          /\ Len(Append(log, new)) = Len(log) + 1
          /\ \A i \in 1 .. Len(log) : Append(log, new)[i] = log[i]
          /\ Append(log, new)[Len(log) + 1] = new
      BY <3>1
    <3> QED  BY <2>1, <3>2 DEF new
  <2>3. Known' = Known \cup (ids \ Known)
    <3>1. Len(log) \in Nat  OBVIOUS
    <3>2. ASSUME NEW id, id \in Known' PROVE id \in Known \cup (ids \ Known)
      <4>1. PICK i \in 1 .. Len(log') : id \in log'[i]  BY <3>2 DEF Known
      <4>2. i \in 1 .. Len(log) \/ i = Len(log) + 1  BY <2>2, <3>1
      <4> QED  BY <2>2, <4>1, <4>2 DEF Known
    <3>3. ASSUME NEW id, id \in Known PROVE id \in Known'
      <4>1. PICK i \in 1 .. Len(log) : id \in log[i]  BY <3>3 DEF Known
      <4>2. i \in 1 .. Len(log') /\ id \in log'[i]  BY <2>2, <3>1, <4>1
      <4> QED  BY <4>2 DEF Known
    <3>4. ASSUME NEW id, id \in ids \ Known PROVE id \in Known'
      <4>1. Len(log) + 1 \in 1 .. Len(log') /\ id \in log'[Len(log) + 1]
        BY <2>2, <3>1, <3>4
      <4> QED  BY <4>1 DEF Known
    <3> QED  BY <3>2, <3>3, <3>4
  <2> QED  BY <2>2, <2>3
<1> QED  BY <1>1, <1>2

\* Serving a sound request keeps what the log promises, and it is known then.
LEMMA ServeKeepsLog ==
  ASSUME TypeOK, KnownAreMade, Causes, RefsAreMade, LogInv, AskedAfter,
         NEW r \in Request, Sound(r), Serve(r), UNCHANGED <<events, asked>>
  PROVE  /\ LogInv'
         /\ log' \in Seq(SUBSET Int) /\ stored' \subseteq Nat
         /\ Known \subseteq Known' /\ stored \subseteq stored'
         /\ r.kind = "artifacts" => Known' = Known /\ r.lo .. r.hi \subseteq stored'
         /\ r.kind = "events" => Known' = Known \cup (r.lo .. r.hi)
         /\ r.kind = "decision" => Known' = Known \cup {- r.lo}
<1> USE DEF Request
<1>t. /\ log \in Seq(SUBSET Int) /\ Len(log) \in Nat /\ Len(events) \in Nat
      /\ stored \subseteq Nat /\ events \in Seq(Event) /\ asked \in Seq(Nat)
  BY DEF TypeOK
<1>1. CASE r.kind = "artifacts"
  <2>1. log' = log /\ stored' = stored \cup (r.lo .. r.hi)  BY <1>1 DEF Serve
  <2>2. Known' = Known  BY <2>1 DEF Known
  <2>3. LogInv'
    BY <2>1 DEF LogInv, OrderKept, CausesPrecede, ArtifactsPrecede, EvidenceBeforeDecision
  <2>4. r.lo .. r.hi \subseteq Nat  OBVIOUS
  <2>5. r.kind # "events" /\ r.kind # "decision"  BY <1>1
  <2>6. log' \in Seq(SUBSET Int)  BY <1>t, <2>1
  <2> QED  BY <1>t, <2>1, <2>2, <2>3, <2>4, <2>5, <2>6
<1>2. CASE r.kind = "events"
  <2> DEFINE ids == r.lo .. r.hi
  <2>1. Learn(ids) /\ stored' = stored  BY <1>2 DEF Serve
  <2>2. ids \in SUBSET Int  BY DEF Request
  <2>3. /\ log' \in Seq(SUBSET Int)
        /\ Known' = Known \cup ids
        /\ \/ log' = log
           \/ /\ Len(log') = Len(log) + 1
              /\ \A i \in 1 .. Len(log) : log'[i] = log[i]
              /\ log'[Len(log) + 1] = ids \ Known
    BY <1>t, <2>1, <2>2, LearnLog
  <2>4. CASE log' = log
    <3>1. LogInv'
      BY <2>4, <2>1 DEF LogInv, OrderKept, CausesPrecede, ArtifactsPrecede,
                        EvidenceBeforeDecision
    <3> QED  BY <1>2, <1>t, <2>1, <2>3, <3>1
  <2>5. CASE /\ Len(log') = Len(log) + 1
             /\ \A i \in 1 .. Len(log) : log'[i] = log[i]
             /\ log'[Len(log) + 1] = ids \ Known
    <3> DEFINE top == Len(log) + 1
    <3>k. \A i \in 1 .. Len(log') : i \in 1 .. Len(log) \/ i = top  BY <1>t, <2>5
    <3>l. \A i \in 1 .. Len(log) : i \in 1 .. Len(log') /\ log'[i] = log[i]  BY <1>t, <2>5
    <3>m. top \in 1 .. Len(log') /\ log'[top] = ids \ Known  BY <1>t, <2>5
    <3>n. \A id \in Known : \E j \in 1 .. Len(log) : id \in log[j]  BY DEF Known
    <3>s. \A i \in 1 .. Len(log) : log[i] \subseteq Known  BY DEF Known
    <3>f. /\ r.hi <= Len(events) /\ 1 .. r.lo - 1 \subseteq Known
          /\ \A n \in ids : events[n].refs \subseteq stored
      BY <1>2 DEF Sound
    <3> HIDE DEF top
    <3>1. OrderKept'
      <4>1. ASSUME NEW i \in 1 .. Len(log'), NEW j \in 1 .. Len(log'), i # j
            PROVE  log'[i] \cap log'[j] = {}
        <5>1. CASE i \in 1 .. Len(log) /\ j \in 1 .. Len(log)
          BY <4>1, <5>1, <3>l DEF LogInv, OrderKept
        <5>2. CASE i = top /\ j \in 1 .. Len(log)  BY <5>2, <3>l, <3>m, <3>s
        <5>3. CASE j = top /\ i \in 1 .. Len(log)  BY <5>3, <3>l, <3>m, <3>s
        <5> QED  BY <4>1, <5>1, <5>2, <5>3, <3>k
      <4>2. ASSUME NEW i \in 1 .. Len(log'), NEW n \in log'[i], NEW m \in 1 .. n - 1
            PROVE  \E j \in 1 .. i : m \in log'[j]
        <5>1. CASE i \in 1 .. Len(log)
          <6>1. n \in log[i]  BY <4>2, <5>1, <3>l
          <6>2. PICK j \in 1 .. i : m \in log[j]
            BY <4>2, <5>1, <6>1 DEF LogInv, OrderKept
          <6>3. j \in 1 .. Len(log)  BY <1>t, <5>1
          <6> QED  BY <6>2, <6>3, <3>l
        <5>2. CASE i = top
          <6>1. n \in ids  BY <4>2, <5>2, <3>m
          <6>2. m \in Known \/ m \in ids \ Known  BY <4>2, <6>1, <3>f
          <6>3. CASE m \in Known
            <7>1. PICK j \in 1 .. Len(log) : m \in log[j]  BY <6>3, <3>n
            <7>2. j \in 1 .. i  BY <1>t, <5>2 DEF top
            <7> QED  BY <7>1, <7>2, <3>l
          <6>4. CASE m \in ids \ Known
            <7>1. i \in 1 .. i  BY <4>2, <1>t
            <7> QED  BY <5>2, <6>4, <7>1, <3>m
          <6> QED  BY <6>2, <6>3, <6>4
        <5> QED  BY <3>k, <5>1, <5>2
      <4> QED  BY <4>1, <4>2 DEF OrderKept
    <3>2. CausesPrecede'
      <4> SUFFICES ASSUME NEW i \in 1 .. Len(log'), NEW n \in log'[i], n > 0
                   PROVE  \/ events[n].cause = 0
                          \/ /\ events[n].cause < n
                             /\ \E j \in 1 .. i : events[n].cause \in log'[j]
        BY DEF CausesPrecede
      <4>1. CASE i \in 1 .. Len(log)
        <5>1. n \in log[i]  BY <4>1, <3>l
        <5>2. CASE events[n].cause = 0  BY <5>2
        <5>3. CASE events[n].cause # 0
          <6>1. PICK j \in 1 .. i : events[n].cause < n /\ events[n].cause \in log[j]
            BY <4>1, <5>1, <5>3 DEF LogInv, CausesPrecede
          <6>2. j \in 1 .. Len(log)  BY <1>t, <4>1
          <6> QED  BY <6>1, <6>2, <3>l
        <5> QED  BY <5>2, <5>3
      <4>2. CASE i = top
        <5>1. n \in ids /\ n \in 1 .. Len(events)  BY <4>2, <3>m, <3>f, <1>t
        <5> DEFINE c == events[n].cause
        <5>2. CauseFor(Known, c, n)  BY <5>1 DEF Causes
        <5>3. c \in Int
          <6>1. events[n] \in Event  BY <5>1, <1>t
          <6> QED  BY <6>1 DEF Event
        <5> HIDE DEF c
        <5>4. CASE c = 0  BY <5>4 DEF c
        <5>5. CASE c \in Known /\ c < n
          <6>1. PICK j \in 1 .. Len(log) : c \in log[j]  BY <5>5, <3>n
          <6>2. j \in 1 .. i  BY <1>t, <4>2 DEF top
          <6> QED  BY <6>1, <6>2, <5>5, <3>l DEF c
        <5>6. CASE c \in ids \ Known /\ c < n
          <6>1. i \in 1 .. i  BY <1>t
          <6> QED  BY <5>6, <4>2, <6>1, <3>m DEF c
        <5>7. c = 0 \/ (c < n /\ (c \in Known \/ c \in ids))
          BY <5>1, <5>2, <5>3, <3>f DEF CauseFor
        <5> QED  BY <5>4, <5>5, <5>6, <5>7
      <4> QED  BY <3>k, <4>1, <4>2
    <3>3. ArtifactsPrecede'
      <4> SUFFICES ASSUME NEW i \in 1 .. Len(log'), NEW n \in log'[i], n > 0
                   PROVE  events[n].refs \subseteq stored
        BY <2>1 DEF ArtifactsPrecede
      <4>1. CASE i \in 1 .. Len(log)  BY <4>1, <3>l DEF LogInv, ArtifactsPrecede
      <4>2. CASE i = top  BY <4>2, <3>m, <3>f
      <4> QED  BY <3>k, <4>1, <4>2
    <3>4. EvidenceBeforeDecision'
      <4> SUFFICES ASSUME NEW i \in 1 .. Len(log'), NEW id \in log'[i], id < 0,
                          NEW m \in 1 .. asked[- id]
                   PROVE  \E j \in 1 .. i - 1 : m \in log'[j]
        BY DEF EvidenceBeforeDecision
      <4>1. i \in 1 .. Len(log)
        <5>1. \A n \in ids : n > 0  OBVIOUS
        <5> QED  BY <3>k, <3>m, <5>1
      <4>2. PICK j \in 1 .. i - 1 : m \in log[j]
        BY <4>1, <3>l DEF LogInv, EvidenceBeforeDecision
      <4>3. j \in 1 .. Len(log)  BY <1>t, <4>1
      <4> QED  BY <4>2, <4>3, <3>l
    <3>5. LogInv'  BY <3>1, <3>2, <3>3, <3>4 DEF LogInv
    <3> QED  BY <1>2, <1>t, <2>1, <2>3, <3>5
  <2> QED  BY <2>3, <2>4, <2>5
<1>3. CASE r.kind = "decision"
  <2> DEFINE d == - r.lo
  <2>1. Learn({d}) /\ stored' = stored  BY <1>3 DEF Serve
  <2>2. {d} \in SUBSET Int /\ d < 0  BY DEF Request
  <2>3. /\ log' \in Seq(SUBSET Int)
        /\ Known' = Known \cup {d}
        /\ \/ log' = log
           \/ /\ Len(log') = Len(log) + 1
              /\ \A i \in 1 .. Len(log) : log'[i] = log[i]
              /\ log'[Len(log) + 1] = {d} \ Known
    BY <1>t, <2>1, <2>2, LearnLog
  <2>4. CASE log' = log
    <3>1. LogInv'
      BY <2>4, <2>1 DEF LogInv, OrderKept, CausesPrecede, ArtifactsPrecede,
                        EvidenceBeforeDecision
    <3> QED  BY <1>3, <1>t, <2>1, <2>3, <3>1
  <2>5. CASE /\ Len(log') = Len(log) + 1
             /\ \A i \in 1 .. Len(log) : log'[i] = log[i]
             /\ log'[Len(log) + 1] = {d} \ Known
    <3> DEFINE top == Len(log) + 1
    <3>k. \A i \in 1 .. Len(log') : i \in 1 .. Len(log) \/ i = top  BY <1>t, <2>5
    <3>l. \A i \in 1 .. Len(log) : i \in 1 .. Len(log') /\ log'[i] = log[i]  BY <1>t, <2>5
    <3>m. top \in 1 .. Len(log') /\ log'[top] = {d} \ Known  BY <1>t, <2>5
    <3>n. \A id \in Known : \E j \in 1 .. Len(log) : id \in log[j]  BY DEF Known
    <3>s. \A i \in 1 .. Len(log) : log[i] \subseteq Known  BY DEF Known
    <3>f. 1 .. asked[- d] \subseteq Known
      <4>1. - d = r.lo  BY DEF Request
      <4> QED  BY <1>3, <4>1 DEF Sound
    <3>o. \A j \in 1 .. Len(log) : j \in 1 .. top - 1  BY <1>t
    <3> HIDE DEF top, d
    <3>1. OrderKept'
      <4>1. ASSUME NEW i \in 1 .. Len(log'), NEW j \in 1 .. Len(log'), i # j
            PROVE  log'[i] \cap log'[j] = {}
        <5>1. CASE i \in 1 .. Len(log) /\ j \in 1 .. Len(log)
          BY <4>1, <5>1, <3>l DEF LogInv, OrderKept
        <5>2. CASE i = top /\ j \in 1 .. Len(log)  BY <5>2, <3>l, <3>m, <3>s
        <5>3. CASE j = top /\ i \in 1 .. Len(log)  BY <5>3, <3>l, <3>m, <3>s
        <5> QED  BY <4>1, <5>1, <5>2, <5>3, <3>k
      <4>2. ASSUME NEW i \in 1 .. Len(log'), NEW n \in log'[i], NEW m \in 1 .. n - 1
            PROVE  \E j \in 1 .. i : m \in log'[j]
        <5>1. i \in 1 .. Len(log)
          <6>1. CASE i = top
            <7>1. n = d  BY <6>1, <4>2, <3>m
            <7> QED  BY <7>1, <4>2, <2>2
          <6> QED  BY <6>1, <3>k
        <5>2. n \in log[i]  BY <4>2, <5>1, <3>l
        <5>3. PICK j \in 1 .. i : m \in log[j]
          BY <4>2, <5>1, <5>2 DEF LogInv, OrderKept
        <5>4. j \in 1 .. Len(log)  BY <1>t, <5>1
        <5> QED  BY <5>3, <5>4, <3>l
      <4> QED  BY <4>1, <4>2 DEF OrderKept
    <3>2. CausesPrecede'
      <4> SUFFICES ASSUME NEW i \in 1 .. Len(log'), NEW n \in log'[i], n > 0
                   PROVE  \/ events[n].cause = 0
                          \/ /\ events[n].cause < n
                             /\ \E j \in 1 .. i : events[n].cause \in log'[j]
        BY DEF CausesPrecede
      <4>1. i \in 1 .. Len(log)
        <5>1. CASE i = top
          <6>1. n = d  BY <5>1, <3>m
          <6> QED  BY <6>1, <2>2
        <5> QED  BY <5>1, <3>k
      <4>2. n \in log[i]  BY <4>1, <3>l
      <4>3. CASE events[n].cause = 0  BY <4>3
      <4>4. CASE events[n].cause # 0
        <5>1. PICK j \in 1 .. i : events[n].cause < n /\ events[n].cause \in log[j]
          BY <4>1, <4>2, <4>4 DEF LogInv, CausesPrecede
        <5>2. j \in 1 .. Len(log)  BY <1>t, <4>1
        <5> QED  BY <5>1, <5>2, <3>l
      <4> QED  BY <4>3, <4>4
    <3>3. ArtifactsPrecede'
      <4> SUFFICES ASSUME NEW i \in 1 .. Len(log'), NEW n \in log'[i], n > 0
                   PROVE  events[n].refs \subseteq stored
        BY <2>1 DEF ArtifactsPrecede
      <4>1. CASE i \in 1 .. Len(log)  BY <4>1, <3>l DEF LogInv, ArtifactsPrecede
      <4>2. CASE i = top
        <5>1. n = d  BY <4>2, <3>m
        <5> QED  BY <5>1, <2>2
      <4> QED  BY <3>k, <4>1, <4>2
    <3>4. EvidenceBeforeDecision'
      <4> SUFFICES ASSUME NEW i \in 1 .. Len(log'), NEW id \in log'[i], id < 0,
                          NEW m \in 1 .. asked[- id]
                   PROVE  \E j \in 1 .. i - 1 : m \in log'[j]
        BY DEF EvidenceBeforeDecision
      <4>1. CASE i \in 1 .. Len(log)
        <5>1. PICK j \in 1 .. i - 1 : m \in log[j]
          BY <4>1, <3>l DEF LogInv, EvidenceBeforeDecision
        <5>2. j \in 1 .. Len(log)  BY <1>t, <4>1
        <5> QED  BY <5>1, <5>2, <3>l
      <4>2. CASE i = top
        <5>1. id = d  BY <4>2, <3>m
        <5>2. m \in Known  BY <5>1, <3>f
        <5>3. PICK j \in 1 .. Len(log) : m \in log[j]  BY <5>2, <3>n
        <5> QED  BY <5>3, <4>2, <3>l, <3>o
      <4> QED  BY <3>k, <4>1, <4>2
    <3>5. LogInv'  BY <3>1, <3>2, <3>3, <3>4 DEF LogInv
    <3> QED  BY <1>3, <1>t, <2>1, <2>3, <3>5 DEF d
  <2> QED  BY <2>3, <2>4, <2>5
<1> QED  BY <1>1, <1>2, <1>3 DEF Serve

-----------------------------------------------------------------------------
(* The steps *)

LEMMA UnchangedKnown == UNCHANGED log => Known' = Known
  BY DEF Known

\* Steps of the run that do not touch the backend keep the log's properties.
LEMMA GrowingKeepsLog ==
  ASSUME TypeOK, KnownAreMade, LogInv, Grows, UNCHANGED backend
  PROVE  LogInv'
<1>t. Len(events) \in Nat /\ Len(asked) \in Nat /\ log \in Seq(SUBSET Int)
  BY DEF TypeOK
<1>u. log' = log /\ stored' = stored  BY DEF backend
<1>k. \A i \in 1 .. Len(log) : log[i] \subseteq Known  BY DEF Known
<1>e. \A i \in 1 .. Len(log) : \A n \in log[i] : n > 0 => events'[n] = events[n]
  <2> SUFFICES ASSUME NEW i \in 1 .. Len(log), NEW n \in log[i], n > 0
               PROVE  events'[n] = events[n]
    OBVIOUS
  <2>1. n \in Int /\ n \in Known  BY <1>k, <1>t
  <2>2. n \in 1 .. Len(events)  BY <2>1, <1>t DEF KnownAreMade
  <2> QED  BY <2>2 DEF Grows
<1>a. \A i \in 1 .. Len(log) : \A n \in log[i] : n < 0 => asked'[- n] = asked[- n]
  <2> SUFFICES ASSUME NEW i \in 1 .. Len(log), NEW n \in log[i], n < 0
               PROVE  asked'[- n] = asked[- n]
    OBVIOUS
  <2>1. n \in Int /\ n \in Known  BY <1>k, <1>t
  <2>2. - n \in 1 .. Len(asked)  BY <2>1, <1>t DEF KnownAreMade
  <2> QED  BY <2>2 DEF Grows
<1>1. OrderKept'  BY <1>u DEF LogInv, OrderKept
<1>2. CausesPrecede'  BY <1>u, <1>e DEF LogInv, CausesPrecede
<1>3. ArtifactsPrecede'  BY <1>u, <1>e DEF LogInv, ArtifactsPrecede
<1>4. EvidenceBeforeDecision'  BY <1>u, <1>a DEF LogInv, EvidenceBeforeDecision
<1> QED  BY <1>1, <1>2, <1>3, <1>4 DEF LogInv

\* Requests stay sound when no new one is made.
LEMMA RequestsAreStable ==
  ASSUME TypeOK, TypeOK', Grows, Requests,
         late' \cup {post'} \subseteq late \cup {post, NoPost}
  PROVE  Requests'
<1> SUFFICES ASSUME NEW r \in late' \cup {post'}, r # NoPost
             PROVE  Sound(r)'
  BY DEF Requests
<1>1. r \in Request /\ Sound(r)  BY DEF Requests, TypeOK
<1> QED  BY <1>1, SoundIsStable

LEMMA InitIInv == Init => IInv
<1> SUFFICES ASSUME Init PROVE IInv  OBVIOUS
<1> USE DEF Init
<1>1. Known = {}  BY DEF Known
<1>2. TypeOK  BY EvidenceAssumption DEF TypeOK
<1>3. NothingLost /\ KnownAreMade  BY <1>1 DEF NothingLost, KnownAreMade
<1>4. Causes /\ RefsAreMade /\ AskedAfter  BY DEF Causes, CauseFor, RefsAreMade, AskedAfter
<1>5. PostIsHead /\ DecisionIsAsked /\ Requests
  BY DEF PostIsHead, DecisionIsAsked, Requests, NoPost
<1>6. LogInv
  BY DEF LogInv, OrderKept, CausesPrecede, ArtifactsPrecede, EvidenceBeforeDecision
<1> QED  BY <1>2, <1>3, <1>4, <1>5, <1>6 DEF IInv

\* An event is built and buffered.
LEMMA BuildStep ==
  ASSUME IInv, NEW c \in 0 .. Len(events), NEW n \in 0 .. 2, Build(c, n),
         lastEvent' \in {lastEvent, Len(events) + 1}
  PROVE  IInv'
<1> DEFINE e == [cause |-> Caused(c), refs |-> artifacts + 1 .. artifacts + n]
<1>t. /\ artifacts \in Nat /\ Len(events) \in Nat /\ events \in Seq(Event)
      /\ lastEvent \in Int
  BY DEF IInv, TypeOK
<1>u. /\ artifacts' = artifacts + n /\ events' = Append(events, e)
      /\ UNCHANGED <<flushedArtifacts, flushedEvents, accepted, asked, goal, post, attempt,
                     stored, log, late, faults>>
  BY DEF Build, client, backend
<1>e. e \in Event
  <2>1. Caused(c) \in Int  BY <1>t DEF Caused
  <2>2. artifacts + 1 .. artifacts + n \subseteq Nat \ {0}  BY <1>t
  <2> QED  BY <2>1, <2>2 DEF Event
<1>r. e.refs = artifacts + 1 .. artifacts + n /\ e.cause = Caused(c)  OBVIOUS
<1> HIDE DEF e
<1>v. /\ events' \in Seq(Event) /\ Len(events') = Len(events) + 1
      /\ \A m \in 1 .. Len(events) : events'[m] = events[m]
      /\ events'[Len(events) + 1] = e
  BY <1>t, <1>u, <1>e
<1>k. Known' = Known  BY <1>u, UnchangedKnown
<1>g. Grows  BY <1>t, <1>u, <1>v, <1>k DEF Grows, IInv, TypeOK
<1>1. TypeOK'
  <2>1. lastEvent' \in Int  BY <1>t
  <2>2. flushedArtifacts' \in 0 .. artifacts' /\ flushedEvents' \in 0 .. Len(events')
    BY <1>t, <1>u, <1>v DEF IInv, TypeOK
  <2>3. artifacts' \in Nat  BY <1>t, <1>u
  <2> QED  BY <1>u, <1>v, <2>1, <2>2, <2>3 DEF IInv, TypeOK
<1>2. NothingLost'  BY <1>u, <1>k DEF IInv, NothingLost
<1>3. KnownAreMade'
  BY <1>t, <1>u, <1>v, <1>k DEF IInv, KnownAreMade
<1>4. Causes'
  <2>1. ASSUME NEW m \in 1 .. Len(events') PROVE CauseFor(Known', events'[m].cause, m)
    <3>1. CASE m \in 1 .. Len(events)
      <4>1. CauseFor(Known, events[m].cause, m)  BY <3>1 DEF IInv, Causes
      <4>2. events'[m] = events[m]  BY <3>1, <1>v
      <4> QED  BY <4>1, <4>2, <1>k DEF CauseFor
    <3>2. CASE m = Len(events) + 1
      <4>1. CauseFor(Known, lastEvent, m)  BY <3>2 DEF IInv, Causes
      <4>2. Caused(c) = lastEvent \/ (Caused(c) = c /\ c \in 1 .. m - 1)
        BY <3>2, <1>t DEF Caused
      <4>3. CauseFor(Known, Caused(c), m)  BY <4>1, <4>2 DEF CauseFor
      <4>4. events'[m].cause = Caused(c)  BY <3>2, <1>v, <1>r
      <4> QED  BY <4>3, <4>4, <1>k DEF CauseFor
    <3> QED  BY <3>1, <3>2, <1>t, <1>v
  <2>2. CauseFor(Known', lastEvent', Len(events') + 1)
    <3>1. CASE lastEvent' = lastEvent
      <4>1. CauseFor(Known, lastEvent, Len(events) + 1)  BY DEF IInv, Causes
      <4> QED  BY <3>1, <4>1, <1>k, <1>t, <1>v DEF CauseFor
    <3>2. CASE lastEvent' = Len(events) + 1
      BY <3>2, <1>t, <1>v DEF CauseFor
    <3> QED  BY <3>1, <3>2
  <2> QED  BY <2>1, <2>2 DEF Causes
<1>5. RefsAreMade'
  <2> SUFFICES ASSUME NEW m \in 1 .. Len(events')
               PROVE  events'[m].refs \subseteq 1 .. artifacts'
    BY DEF RefsAreMade
  <2>1. CASE m \in 1 .. Len(events)
    <3>1. events[m].refs \subseteq 1 .. artifacts  BY <2>1 DEF IInv, RefsAreMade
    <3>2. 1 .. artifacts \subseteq 1 .. artifacts'  BY <1>t, <1>u
    <3> QED  BY <3>1, <3>2, <2>1, <1>v
  <2>2. CASE m = Len(events) + 1
    <3>1. artifacts + 1 .. artifacts + n \subseteq 1 .. artifacts'  BY <1>t, <1>u
    <3> QED  BY <3>1, <2>2, <1>v, <1>r
  <2> QED  BY <2>1, <2>2, <1>t, <1>v
<1>6. AskedAfter'
  <2>1. \A k \in 1 .. Len(asked) : asked[k] \in Nat  BY DEF IInv, TypeOK
  <2> QED  BY <2>1, <1>t, <1>u, <1>v DEF IInv, AskedAfter
<1>7. PostIsHead' /\ DecisionIsAsked'  BY <1>u DEF IInv, PostIsHead, DecisionIsAsked
<1>8. Requests'  BY <1>1, <1>g, <1>u, RequestsAreStable DEF IInv
<1>9. LogInv'  BY <1>g, <1>u, GrowingKeepsLog DEF IInv, backend
<1> QED  BY <1>1, <1>2, <1>3, <1>4, <1>5, <1>6, <1>7, <1>8, <1>9 DEF IInv

\* Steps of the client alone: nothing is built and the backend is not heard of.
LEMMA ClientStep ==
  ASSUME IInv, TypeOK', UNCHANGED <<worker, backend>>, PostIsHead', DecisionIsAsked',
         Requests'
  PROVE  IInv'
<1>u. UNCHANGED <<artifacts, flushedArtifacts, events, flushedEvents, accepted, lastEvent,
                  asked, stored, log>>
  BY DEF worker, backend
<1>k. Known' = Known  BY <1>u, UnchangedKnown
<1>1. NothingLost' /\ KnownAreMade' /\ RefsAreMade' /\ AskedAfter'
  BY <1>u, <1>k DEF IInv, NothingLost, KnownAreMade, RefsAreMade, AskedAfter
<1>2. Causes'  BY <1>u, <1>k DEF IInv, Causes, CauseFor
<1>3. LogInv'
  BY <1>u DEF IInv, LogInv, OrderKept, CausesPrecede, ArtifactsPrecede, EvidenceBeforeDecision
<1> QED  BY <1>1, <1>2, <1>3 DEF IInv

\* A post of the head of a buffer, or of a decision.
LEMMA SendStep ==
  ASSUME IInv, NEW r \in Request, Sound(r), Send(r),
         r.kind = "artifacts" => r.lo = flushedArtifacts + 1 /\ r.hi >= r.lo,
         r.kind = "events" => r.lo = flushedEvents + 1 /\ r.hi >= r.lo
  PROVE  IInv'
<1>u. /\ post' = r /\ attempt' = 0
      /\ UNCHANGED <<artifacts, flushedArtifacts, events, flushedEvents, accepted, lastEvent,
                     asked, goal, stored, log, late, faults>>
  BY DEF Send, worker, backend
<1>1. TypeOK'  BY <1>u DEF IInv, TypeOK
<1>2. PostIsHead' /\ DecisionIsAsked'
  BY <1>u DEF IInv, PostIsHead, DecisionIsAsked
<1>3. Requests'
  <2>k. Known' = Known  BY <1>u, UnchangedKnown
  <2>t. artifacts \in Nat /\ Len(events) \in Nat /\ Len(asked) \in Nat  BY DEF IInv, TypeOK
  <2>g. Grows  BY <1>u, <2>k, <2>t DEF Grows
  <2> SUFFICES ASSUME NEW q \in late' \cup {post'}, q # NoPost PROVE Sound(q)'
    BY DEF Requests
  <2>1. q \in Request /\ Sound(q)  BY <1>u DEF IInv, Requests, TypeOK
  <2> QED  BY <2>1, <2>g, <1>1, SoundIsStable DEF IInv
<1> QED  BY <1>u, <1>1, <1>2, <1>3, ClientStep DEF worker, backend

LEMMA PostArtifactsStep == IInv /\ PostArtifacts => IInv'
<1> SUFFICES ASSUME IInv, PostArtifacts PROVE IInv'  OBVIOUS
<1> DEFINE r == ArtifactRequest
<1>t. flushedArtifacts \in Nat /\ artifacts \in Nat /\ flushedArtifacts < artifacts
  BY DEF IInv, TypeOK, PostArtifacts, PendingArtifacts
<1>1. /\ r.kind = "artifacts" /\ r.lo = flushedArtifacts + 1
      /\ r.hi >= r.lo /\ r.hi <= artifacts /\ r \in Request
  BY <1>t, EvidenceAssumption DEF ArtifactRequest, Least, Request
<1>2. Sound(r)
  <2>1. r.kind # "events" /\ r.kind # "decision"  BY <1>1
  <2> QED  BY <1>1, <2>1 DEF Sound
<1>3. Send(r)  BY DEF PostArtifacts
<1>4. r.kind # "events"  BY <1>1
<1> HIDE DEF r
<1> QED  BY <1>1, <1>2, <1>3, <1>4, SendStep

LEMMA PostEventsStep == IInv /\ PostEvents => IInv'
<1> SUFFICES ASSUME IInv, PostEvents PROVE IInv'  OBVIOUS
<1> DEFINE r == EventRequest
<1>t. /\ flushedArtifacts \in Nat /\ artifacts \in Nat /\ flushedArtifacts = artifacts
      /\ flushedEvents \in Nat /\ Len(events) \in Nat /\ flushedEvents < Len(events)
  BY DEF IInv, TypeOK, PostEvents, PendingEvents, PendingArtifacts
<1>1. /\ r.kind = "events" /\ r.lo = flushedEvents + 1
      /\ r.hi >= r.lo /\ r.hi <= Len(events) /\ r \in Request
  BY <1>t, EvidenceAssumption DEF EventRequest, Least, Request
<1>2. Sound(r)
  <2>1. 1 .. r.lo - 1 \subseteq Known
    <3>1. r.lo - 1 = flushedEvents  BY <1>1, <1>t
    <3> QED  BY <3>1 DEF IInv, NothingLost
  <2>2. ASSUME NEW n \in r.lo .. r.hi PROVE events[n].refs \subseteq stored
    <3>1. r.lo >= 1 /\ r.hi \in Nat  BY <1>1, <1>t DEF Request
    <3>2. n \in 1 .. Len(events)  BY <1>1, <3>1, <1>t
    <3>3. events[n].refs \subseteq 1 .. artifacts  BY <3>2 DEF IInv, RefsAreMade
    <3> QED  BY <3>3, <1>t DEF IInv, NothingLost
  <2>3. r.kind # "artifacts" /\ r.kind # "decision"  BY <1>1
  <2> HIDE DEF r
  <2> QED  BY <1>1, <2>1, <2>2, <2>3 DEF Sound
<1>3. Send(r)  BY DEF PostEvents
<1>4. r.kind # "artifacts"  BY <1>1
<1> HIDE DEF r
<1> QED  BY <1>1, <1>2, <1>3, <1>4, SendStep

\* The request of a decision is sound when what it promises was flushed.
LEMMA SendDecision ==
  ASSUME IInv, Send(DecisionRequest), goal \in {"decision", "grant"},
         asked[Len(asked)] <= flushedEvents
  PROVE  IInv'
<1> DEFINE r == DecisionRequest
<1>t. flushedEvents \in Nat /\ Len(asked) \in Nat /\ asked \in Seq(Nat)
  BY DEF IInv, TypeOK
<1>a. Len(asked) >= 1  BY DEF IInv, DecisionIsAsked
<1>1. r.kind = "decision" /\ r.lo = Len(asked) /\ r \in Request
  BY <1>t, <1>a DEF DecisionRequest, Request
<1>2. Sound(r)
  <2>1. r.lo \in 1 .. Len(asked)  BY <1>1, <1>a, <1>t
  <2>2. asked[r.lo] \in Nat /\ asked[r.lo] <= flushedEvents  BY <1>t, <1>1, <2>1
  <2>3. 1 .. asked[r.lo] \subseteq Known
    <3>1. 1 .. asked[r.lo] \subseteq 1 .. flushedEvents  BY <1>t, <2>2
    <3> QED  BY <3>1 DEF IInv, NothingLost
  <2>4. r.kind # "artifacts" /\ r.kind # "events"  BY <1>1
  <2> HIDE DEF r
  <2> QED  BY <2>1, <2>3, <2>4 DEF Sound
<1>3. r.kind # "artifacts" /\ r.kind # "events"  BY <1>1
<1>4. Send(r)  OBVIOUS
<1> HIDE DEF r
<1> QED  BY <1>1, <1>2, <1>3, <1>4, SendStep

LEMMA PostDecisionStep == IInv /\ PostDecision => IInv'
<1> SUFFICES ASSUME IInv, PostDecision PROVE IInv'  OBVIOUS
<1>1. flushedEvents = Len(events)
  BY DEF IInv, TypeOK, PostDecision, Drained, PendingEvents
<1>2. Len(asked) \in 1 .. Len(asked)
  BY DEF IInv, TypeOK, DecisionIsAsked, PostDecision
<1>3. asked[Len(asked)] <= flushedEvents  BY <1>1, <1>2 DEF IInv, AskedAfter
<1> QED  BY <1>3, SendDecision DEF PostDecision

LEMMA PostGrantStep == IInv /\ PostGrant => IInv'
  BY SendDecision DEF PostGrant, IInv, DecisionIsAsked

\* A decision is asked for.
LEMMA AskStep ==
  ASSUME IInv, NEW purpose \in {"decision", "grant"}, NEW informed \in 0 .. Len(events),
         Ask(purpose, informed), purpose = "grant" => informed = flushedEvents
  PROVE  IInv'
<1>t. asked \in Seq(Nat) /\ Len(events) \in Nat /\ Len(asked) \in Nat /\ artifacts \in Nat
  BY DEF IInv, TypeOK
<1>u. /\ goal' = purpose /\ asked' = Append(asked, informed)
      /\ UNCHANGED <<artifacts, flushedArtifacts, events, flushedEvents, accepted, lastEvent,
                     post, attempt, stored, log, late, faults>>
  BY DEF Ask, backend
<1>i. informed \in Nat /\ informed <= Len(events)  BY <1>t
<1>v. /\ asked' \in Seq(Nat) /\ Len(asked') = Len(asked) + 1
      /\ \A k \in 1 .. Len(asked) : asked'[k] = asked[k]
      /\ asked'[Len(asked) + 1] = informed
  BY <1>t, <1>u, <1>i
<1>k. Known' = Known  BY <1>u, UnchangedKnown
<1>g. Grows  BY <1>t, <1>u, <1>v, <1>k DEF Grows
<1>1. TypeOK'  BY <1>u, <1>v DEF IInv, TypeOK
<1>2. NothingLost' /\ RefsAreMade' /\ PostIsHead'
  BY <1>u, <1>k DEF IInv, NothingLost, RefsAreMade, PostIsHead
<1>3. KnownAreMade'  BY <1>t, <1>u, <1>v, <1>k DEF IInv, KnownAreMade
<1>4. Causes'  BY <1>u, <1>k DEF IInv, Causes, CauseFor
<1>5. AskedAfter'
  <2> SUFFICES ASSUME NEW k \in 1 .. Len(asked') PROVE asked'[k] <= Len(events')
    BY DEF AskedAfter
  <2>1. CASE k \in 1 .. Len(asked)  BY <2>1, <1>u, <1>v DEF IInv, AskedAfter
  <2>2. CASE k = Len(asked) + 1  BY <2>2, <1>t, <1>u, <1>v, <1>i
  <2> QED  BY <2>1, <2>2, <1>t, <1>v
<1>6. Requests'  BY <1>1, <1>g, <1>u, RequestsAreStable DEF IInv
<1>7. LogInv'  BY <1>g, <1>u, GrowingKeepsLog DEF IInv, backend
<1>8. DecisionIsAsked'
  <2>1. flushedEvents \in Nat  BY DEF IInv, TypeOK
  <2>2. Len(asked') >= 1 /\ asked'[Len(asked')] = informed  BY <1>t, <1>v
  <2>3. goal' = "grant" => informed <= flushedEvents'  BY <1>u, <1>i, <2>1
  <2> QED  BY <2>2, <2>3 DEF DecisionIsAsked
<1> QED  BY <1>1, <1>2, <1>3, <1>4, <1>5, <1>6, <1>7, <1>8 DEF IInv

\* Flushes begin and end, posts are given up.
LEMMA ClientSteps ==
  ASSUME IInv, Flush \/ FlushEnds \/ Unanswered \/ Refused
  PROVE  IInv'
<1>u. /\ UNCHANGED <<worker, backend>>
      /\ post' \in {post, NoPost} /\ late' \subseteq late \cup {post}
      /\ goal' \in {goal, "none", "flush"}
  BY DEF Flush, FlushEnds, Unanswered, Refused, Raise
<1>w. UNCHANGED <<artifacts, flushedArtifacts, events, flushedEvents, accepted, lastEvent,
                  asked, stored, log>>
  BY <1>u DEF worker, backend
<1>n. late' \subseteq Request
  <2>1. CASE Unanswered
    <3>1. post \in Request  BY <2>1 DEF IInv, TypeOK, Unanswered
    <3> QED  BY <3>1, <1>u DEF IInv, TypeOK
  <2>2. CASE Flush \/ FlushEnds \/ Refused
    <3>1. late' = late  BY <2>2 DEF Flush, FlushEnds, Refused
    <3> QED  BY <3>1 DEF IInv, TypeOK
  <2> QED  BY <2>1, <2>2
<1>f. faults' \in 0 .. MaxFaults /\ attempt' \in {0, 1}
  BY EvidenceAssumption DEF Flush, FlushEnds, Unanswered, Refused, Raise, IInv, TypeOK
<1>1. TypeOK'
  <2>1. post' \in Request \cup {NoPost} /\ goal' \in {"none", "flush", "decision", "grant"}
    BY <1>u DEF IInv, TypeOK
  <2> QED  BY <2>1, <1>w, <1>n, <1>f DEF IInv, TypeOK
<1>k. Known' = Known  BY <1>w, UnchangedKnown
<1>g. Grows
  <2>1. artifacts \in Nat /\ Len(events) \in Nat /\ Len(asked) \in Nat  BY DEF IInv, TypeOK
  <2> QED  BY <2>1, <1>w, <1>k DEF Grows
<1>2. Requests'  BY <1>1, <1>g, <1>u, RequestsAreStable DEF IInv
<1>3. PostIsHead'
  BY <1>u, <1>w DEF IInv, PostIsHead, NoPost
<1>4. DecisionIsAsked'  BY <1>u, <1>w DEF IInv, DecisionIsAsked
<1> QED  BY <1>u, <1>1, <1>2, <1>3, <1>4, ClientStep

\* The backend serves a sound request, now or late.
LEMMA ServeStep ==
  ASSUME IInv, NEW r \in Request, Sound(r), Serve(r), UNCHANGED <<artifacts, events, asked>>
  PROVE  /\ Grows /\ LogInv' /\ KnownAreMade' /\ RefsAreMade' /\ AskedAfter'
         /\ log' \in Seq(SUBSET Int) /\ stored' \subseteq Nat
         /\ r.kind = "artifacts" => r.lo .. r.hi \subseteq stored'
         /\ r.kind = "events" => r.lo .. r.hi \subseteq Known'
         /\ r.kind = "decision" => - r.lo \in Known'
<1> USE DEF Request
<1>t. artifacts \in Nat /\ Len(events) \in Nat /\ Len(asked) \in Nat
  BY DEF IInv, TypeOK
<1>1. /\ LogInv'
      /\ log' \in Seq(SUBSET Int) /\ stored' \subseteq Nat
      /\ Known \subseteq Known' /\ stored \subseteq stored'
      /\ r.kind = "artifacts" => Known' = Known /\ r.lo .. r.hi \subseteq stored'
      /\ r.kind = "events" => Known' = Known \cup (r.lo .. r.hi)
      /\ r.kind = "decision" => Known' = Known \cup {- r.lo}
  BY ServeKeepsLog DEF IInv
<1>2. Grows  BY <1>1, <1>t DEF Grows
<1>3. RefsAreMade' /\ AskedAfter'  BY DEF IInv, RefsAreMade, AskedAfter
<1>4. KnownAreMade'
  <2> SUFFICES ASSUME NEW id \in Known'
               PROVE  id \in 1 .. Len(events) \/ - id \in 1 .. Len(asked)
    BY DEF KnownAreMade
  <2>1. CASE id \in Known  BY <2>1 DEF IInv, KnownAreMade
  <2>2. CASE r.kind = "events" /\ id \in r.lo .. r.hi
    BY <2>2, <1>t DEF Sound
  <2>3. CASE r.kind = "decision" /\ id = - r.lo
    <3>1. - id = r.lo  BY <2>3
    <3> QED  BY <2>3, <3>1 DEF Sound
  <2> QED  BY <1>1, <2>1, <2>2, <2>3
<1> QED  BY <1>1, <1>2, <1>3, <1>4

\* A request that was given up is served.
LEMMA ArriveStep ==
  ASSUME IInv, NEW r \in late, Arrive(r)
  PROVE  IInv'
<1>u. /\ Serve(r) /\ late' \subseteq late
      /\ UNCHANGED <<artifacts, flushedArtifacts, events, flushedEvents, accepted, lastEvent,
                     asked, goal, post, attempt, faults>>
  BY DEF Arrive, worker, client
<1>r. r \in Request /\ Sound(r)
  <2>1. r \in Request  BY DEF IInv, TypeOK
  <2>2. r # NoPost  BY <2>1 DEF Request, NoPost
  <2> QED  BY <2>1, <2>2 DEF IInv, Requests
<1>s. /\ Grows /\ LogInv' /\ KnownAreMade' /\ RefsAreMade' /\ AskedAfter'
      /\ log' \in Seq(SUBSET Int) /\ stored' \subseteq Nat
  BY <1>u, <1>r, ServeStep
<1>1. TypeOK'  BY <1>u, <1>s DEF IInv, TypeOK
<1>2. NothingLost'  BY <1>u, <1>s DEF IInv, NothingLost, Grows
<1>3. Causes'  BY <1>u, <1>s DEF IInv, Causes, CauseFor, Grows
<1>4. Requests'  BY <1>1, <1>s, <1>u, RequestsAreStable DEF IInv
<1>5. PostIsHead' /\ DecisionIsAsked'  BY <1>u DEF IInv, PostIsHead, DecisionIsAsked
<1> QED  BY <1>s, <1>1, <1>2, <1>3, <1>4, <1>5 DEF IInv

\* A post is answered.
LEMMA AnsweredStep == IInv /\ Answered => IInv'
<1> SUFFICES ASSUME IInv, Answered PROVE IInv'  OBVIOUS
<1>u. /\ Serve(post) /\ Consume(post) /\ post' = NoPost /\ attempt' = 0
      /\ UNCHANGED <<artifacts, asked, late, faults>> /\ events' = events
  BY DEF Answered, Consume
<1>r. post \in Request /\ Sound(post)
  <2>1. post # NoPost  BY DEF Answered
  <2> QED  BY <2>1 DEF IInv, TypeOK, Requests
<1>p. /\ post.lo \in Nat /\ post.lo >= 1 /\ post.hi \in Nat
      /\ post.kind \in {"artifacts", "events", "decision"}
  BY <1>r DEF Request
<1>s. /\ Grows /\ LogInv' /\ KnownAreMade' /\ RefsAreMade' /\ AskedAfter'
      /\ log' \in Seq(SUBSET Int) /\ stored' \subseteq Nat
      /\ post.kind = "artifacts" => post.lo .. post.hi \subseteq stored'
      /\ post.kind = "events" => post.lo .. post.hi \subseteq Known'
      /\ post.kind = "decision" => - post.lo \in Known'
  BY <1>u, <1>r, ServeStep
<1>t. /\ artifacts \in Nat /\ Len(events) \in Nat
      /\ flushedArtifacts \in 0 .. artifacts /\ flushedEvents \in 0 .. Len(events)
      /\ lastEvent \in Int /\ goal \in {"none", "flush", "decision", "grant"}
  BY DEF IInv, TypeOK
<1>n. 1 .. flushedArtifacts \subseteq stored /\ 1 .. flushedEvents \subseteq Known
      /\ accepted = flushedEvents
  BY DEF IInv, NothingLost
<1>g. Known \subseteq Known' /\ stored \subseteq stored'  BY <1>s DEF Grows
<1>a. CASE post.kind = "artifacts"
  <2>1. /\ flushedArtifacts' = post.hi
        /\ UNCHANGED <<flushedEvents, accepted, lastEvent, goal>>
    BY <1>u, <1>a DEF Consume
  <2>2. post.lo = flushedArtifacts + 1 /\ post.hi <= artifacts
    BY <1>r, <1>a DEF IInv, PostIsHead, Sound
  <2>3. TypeOK'
    <3>1. flushedArtifacts' \in 0 .. artifacts'  BY <1>u, <1>p, <1>t, <2>1, <2>2
    <3> QED  BY <1>u, <1>s, <2>1, <3>1 DEF IInv, TypeOK
  <2>4. NothingLost'
    <3>1. \A m \in 1 .. post.hi : m \in 1 .. flushedArtifacts \/ m \in post.lo .. post.hi
      BY <1>p, <1>t, <2>2
    <3>2. 1 .. flushedArtifacts' \subseteq stored'  BY <1>a, <1>s, <1>g, <1>n, <2>1, <3>1
    <3> QED  BY <1>g, <1>n, <2>1, <3>2 DEF NothingLost
  <2>5. Causes'  BY <1>u, <1>g, <2>1 DEF IInv, Causes, CauseFor
  <2>6. DecisionIsAsked'  BY <1>u, <2>1 DEF IInv, DecisionIsAsked
  <2> QED  BY <2>3, <2>4, <2>5, <2>6, <1>u, <1>s, RequestsAreStable
           DEF IInv, PostIsHead, NoPost
<1>b. CASE post.kind = "events"
  <2>1. /\ flushedEvents' = post.hi
        /\ accepted' = accepted + (post.hi - post.lo + 1)
        /\ UNCHANGED <<flushedArtifacts, lastEvent, goal>>
    BY <1>u, <1>b DEF Consume, Deleted, Counted
  <2>2. post.lo = flushedEvents + 1 /\ post.hi <= Len(events)
    BY <1>r, <1>b DEF IInv, PostIsHead, Sound
  <2>3. accepted' = flushedEvents'  BY <1>n, <1>p, <1>t, <2>1, <2>2
  <2>4. TypeOK'
    <3>1. flushedEvents' \in 0 .. Len(events') /\ accepted' \in Nat
      BY <1>u, <1>p, <1>t, <2>1, <2>2, <2>3
    <3> QED  BY <1>u, <1>s, <2>1, <3>1 DEF IInv, TypeOK
  <2>5. NothingLost'
    <3>1. \A m \in 1 .. post.hi : m \in 1 .. flushedEvents \/ m \in post.lo .. post.hi
      BY <1>p, <1>t, <2>2
    <3>2. 1 .. flushedEvents' \subseteq Known'  BY <1>b, <1>s, <1>g, <1>n, <2>1, <3>1
    <3> QED  BY <1>g, <1>n, <2>1, <2>3, <3>2 DEF NothingLost
  <2>6. Causes'  BY <1>u, <1>g, <2>1 DEF IInv, Causes, CauseFor
  <2>7. DecisionIsAsked'
    <3>1. goal = "grant" => asked[Len(asked)] <= post.hi
      <4>1. asked \in Seq(Nat)  BY DEF IInv, TypeOK
      <4>2. SUFFICES ASSUME goal = "grant" PROVE asked[Len(asked)] <= post.hi
        OBVIOUS
      <4>3. Len(asked) \in 1 .. Len(asked) /\ asked[Len(asked)] <= flushedEvents
        BY <4>1, <4>2 DEF IInv, DecisionIsAsked
      <4>4. asked[Len(asked)] \in Nat /\ flushedEvents <= post.hi
        <5>1. post.hi >= post.lo  BY <1>b DEF IInv, PostIsHead
        <5> QED  BY <4>1, <4>3, <5>1, <1>p, <1>t, <2>2
      <4> QED  BY <4>3, <4>4, <1>p, <1>t
    <3> QED  BY <1>u, <2>1, <3>1 DEF IInv, DecisionIsAsked
  <2> QED  BY <2>4, <2>5, <2>6, <2>7, <1>u, <1>s, RequestsAreStable
           DEF IInv, PostIsHead, NoPost
<1>c. CASE post.kind = "decision"
  <2>1. /\ lastEvent' = - post.lo /\ goal' = "none"
        /\ UNCHANGED <<flushedArtifacts, flushedEvents, accepted>>
    BY <1>u, <1>c DEF Consume
  <2>2. TypeOK'
    <3>1. lastEvent' \in Int  BY <1>p, <2>1
    <3> QED  BY <1>u, <1>s, <2>1, <3>1 DEF IInv, TypeOK
  <2>3. NothingLost'  BY <1>g, <1>n, <2>1 DEF NothingLost
  <2>4. Causes'
    <3>1. lastEvent' < 0 /\ lastEvent' \in Known'  BY <1>c, <1>p, <1>s, <2>1
    <3> QED  BY <1>u, <1>g, <3>1 DEF IInv, Causes, CauseFor
  <2>5. DecisionIsAsked'  BY <2>1 DEF DecisionIsAsked
  <2> QED  BY <2>2, <2>3, <2>4, <2>5, <1>u, <1>s, RequestsAreStable
           DEF IInv, PostIsHead, NoPost
<1> QED  BY <1>a, <1>b, <1>c, <1>p

\* A step of another specification's, or none.
LEMMA StutterStep == IInv /\ UNCHANGED vars => IInv'
<1> SUFFICES ASSUME IInv, UNCHANGED vars PROVE IInv'  OBVIOUS
<1>u. UNCHANGED <<worker, client, backend, late, faults>>  BY DEF vars
<1>k. Known' = Known  BY <1>u, UnchangedKnown DEF backend
<1>1. TypeOK' /\ PostIsHead' /\ DecisionIsAsked'
  BY <1>u DEF worker, client, backend, IInv, TypeOK, PostIsHead, DecisionIsAsked
<1>2. Requests'
  <2>1. artifacts \in Nat /\ Len(events) \in Nat /\ Len(asked) \in Nat  BY DEF IInv, TypeOK
  <2>2. Grows  BY <2>1, <1>k, <1>u DEF Grows, worker, backend
  <2> QED  BY <2>2, <1>1, <1>u, RequestsAreStable DEF IInv, client
<1> QED  BY <1>1, <1>2, <1>u, ClientStep

LEMMA NextIInv == IInv /\ [Next]_vars => IInv'
<1> SUFFICES ASSUME IInv, [Next]_vars PROVE IInv'  OBVIOUS
<1>1. ASSUME NEW c \in 0 .. Len(events), NEW n \in 0 .. 2, Emit(c, n) PROVE IInv'
  BY <1>1, BuildStep DEF Emit
<1>2. CASE RecordProgressPolicy
  <2>1. 0 \in 0 .. Len(events) /\ 0 \in 0 .. 2  BY DEF IInv, TypeOK
  <2>2. Build(0, 0) /\ lastEvent' \in {lastEvent, Len(events) + 1}
    BY <1>2 DEF RecordProgressPolicy
  <2> QED  BY <2>1, <2>2, BuildStep
<1>3. CASE Reserve \/ RequestGrant
  <2>1. Len(events) \in 0 .. Len(events) /\ flushedEvents \in 0 .. Len(events)
    BY DEF IInv, TypeOK
  <2>2. Ask("decision", Len(events)) \/ Ask("grant", flushedEvents)
    BY <1>3 DEF Reserve, RequestGrant
  <2> QED  BY <2>1, <2>2, AskStep
<1>4. CASE PostArtifacts  BY <1>4, PostArtifactsStep
<1>5. CASE PostEvents  BY <1>5, PostEventsStep
<1>6. CASE PostDecision \/ PostGrant  BY <1>6, PostDecisionStep, PostGrantStep
<1>7. CASE Flush \/ FlushEnds \/ Unanswered \/ Refused  BY <1>7, ClientSteps
<1>8. CASE Answered  BY <1>8, AnsweredStep
<1>9. ASSUME NEW r \in late, Arrive(r) PROVE IInv'  BY <1>9, ArriveStep
<1>10. CASE UNCHANGED vars  BY <1>10, StutterStep
<1> QED
  BY <1>1, <1>2, <1>3, <1>4, <1>5, <1>6, <1>7, <1>8, <1>9, <1>10 DEF Next

-----------------------------------------------------------------------------
(* The theorems *)

\* Every request of a run, answered or given up, can be served at any later time.
THEOREM Invariance == Spec => []IInv
<1>1. Init => IInv  BY InitIInv
<1>2. IInv /\ [Next]_vars => IInv'  BY NextIInv
<1> QED  BY <1>1, <1>2, PTL DEF Spec

\* The buffers, the requests and the log keep their types.
THEOREM TypeCorrect == Spec => []TypeOK
<1>1. IInv => TypeOK  BY DEF IInv
<1> QED  BY <1>1, Invariance, PTL

\* The log has the events once each, in the order of the run and without a gap.
THEOREM EventsStayInOrder == Spec => []OrderKept
<1>1. IInv => OrderKept  BY DEF IInv, LogInv
<1> QED  BY <1>1, Invariance, PTL

\* A cause, an event of the run or a decision of the backend, is in the log before
\* its effect.
THEOREM CausesComeFirst == Spec => []CausesPrecede
<1>1. IInv => CausesPrecede  BY DEF IInv, LogInv
<1> QED  BY <1>1, Invariance, PTL

\* An event is in the log only with every artifact it names.
THEOREM ArtifactsComeFirst == Spec => []ArtifactsPrecede
<1>1. IInv => ArtifactsPrecede  BY DEF IInv, LogInv
<1> QED  BY <1>1, Invariance, PTL

\* What a flush removes from the buffers is at the backend, and counted once.
THEOREM FlushLosesNothing == Spec => []NothingLost
<1>1. IInv => NothingLost  BY DEF IInv
<1> QED  BY <1>1, Invariance, PTL

\* The backend decides on a budget after all that the run did before it asked.
THEOREM DecisionsAreInformed == Spec => []EvidenceBeforeDecision
<1>1. IInv => EvidenceBeforeDecision  BY DEF IInv, LogInv
<1> QED  BY <1>1, Invariance, PTL
=============================================================================
