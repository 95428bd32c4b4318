-------------------------- MODULE MCProcesses_proofs --------------------------
(***************************************************************************)
(* Proofs about the processes around the queue, for any number of workers,     *)
(* documents, chunks, frames and symbols: the workers table, the engine, its    *)
(* clients and the voice pool; then what executions write and send: the steps   *)
(* of an agent, the vectors of a source, the graph of a resource, the texts of  *)
(* a voice session and a streamed reply; and that every part keeps its types.   *)
(***************************************************************************)
EXTENDS MCProcesses, FiniteSetTheorems, WellFoundedInduction, TLAPS

USE ProcessesAssumption

-----------------------------------------------------------------------------
(* The workers table *)

RegistryInv == Registry!TypeOK /\ Registry!RunningIsOnline

LEMMA RegistryTypes ==
  ASSUME Registry!TypeOK
  PROVE  /\ entry \in [Id -> [status : {"none", "online", "offline"}, fresh : BOOLEAN]]
         /\ stage \in [Proc -> {"down", "registered", "polling"}]
         /\ beating \in [Proc -> BOOLEAN] /\ broken \in [Proc -> BOOLEAN]
         /\ orphaned \in [Proc -> BOOLEAN] /\ ends \in 0 .. MaxEnds
         /\ IdOf \in [Proc -> Id] /\ MaxEnds \in Nat
BY DEF Registry!TypeOK, Registry!WorkerRegistryAssumption

LEMMA RegistryInit == Init => RegistryInv
<1> SUFFICES ASSUME Init PROVE RegistryInv
  OBVIOUS
<1>1. Registry!Init
  BY DEF Init
<1>2. Registry!TypeOK
  BY <1>1 DEF Registry!Init, Registry!TypeOK, Registry!WorkerRegistryAssumption
<1>3. Registry!RunningIsOnline
  BY <1>1 DEF Registry!Init, Registry!RunningIsOnline
<1> QED  BY <1>2, <1>3 DEF RegistryInv

\* Only a shutdown takes an id offline, and it counts its other processes as orphaned.
LEMMA RegistryNext ==
  ASSUME RegistryInv, Registry!RegistryStep
  PROVE  RegistryInv'
<1>0. /\ entry \in [Id -> [status : {"none", "online", "offline"}, fresh : BOOLEAN]]
      /\ stage \in [Proc -> {"down", "registered", "polling"}]
      /\ beating \in [Proc -> BOOLEAN] /\ broken \in [Proc -> BOOLEAN]
      /\ orphaned \in [Proc -> BOOLEAN] /\ ends \in 0 .. MaxEnds
      /\ IdOf \in [Proc -> Id] /\ MaxEnds \in Nat /\ Registry!RunningIsOnline
  BY RegistryTypes DEF RegistryInv
<1>1. ASSUME NEW p \in Proc, Registry!Register(p)
      PROVE  RegistryInv'
  BY <1>0, <1>1 DEF RegistryInv, Registry!TypeOK, Registry!RunningIsOnline, Registry!Register,
                    Registry!Registered, Registry!Online
<1>2. ASSUME NEW p \in Proc, Registry!StartHeartbeat(p)
      PROVE  RegistryInv'
  BY <1>0, <1>2 DEF RegistryInv, Registry!TypeOK, Registry!RunningIsOnline, Registry!StartHeartbeat
<1>3. ASSUME NEW p \in Proc, Registry!Heartbeat(p)
      PROVE  RegistryInv'
  BY <1>0, <1>3 DEF RegistryInv, Registry!TypeOK, Registry!RunningIsOnline, Registry!Heartbeat
<1>4. ASSUME NEW p \in Proc, Registry!LoseConnection(p) \/ Registry!Reconnect(p)
      PROVE  RegistryInv'
  <2>1. /\ UNCHANGED <<entry, stage, orphaned>> /\ ends' \in 0 .. MaxEnds
        /\ beating' \in [Proc -> BOOLEAN] /\ broken' \in [Proc -> BOOLEAN]
    <3>1. CASE Registry!LoseConnection(p)
      BY <1>0, <3>1 DEF Registry!LoseConnection, Registry!End
    <3>2. CASE Registry!Reconnect(p)
      BY <1>0, <3>2 DEF Registry!Reconnect
    <3> QED  BY <1>4, <3>1, <3>2
  <2> QED  BY <1>0, <2>1 DEF RegistryInv, Registry!TypeOK, Registry!RunningIsOnline
<1>5. ASSUME NEW i \in Id, Registry!Lapse(i)
      PROVE  RegistryInv'
  BY <1>0, <1>5 DEF RegistryInv, Registry!TypeOK, Registry!RunningIsOnline, Registry!Lapse
<1>6. ASSUME NEW p \in Proc, Registry!Shutdown(p)
      PROVE  RegistryInv'
  <2>1. /\ stage' = [stage EXCEPT ![p] = "down"] /\ beating' = [beating EXCEPT ![p] = FALSE]
        /\ UNCHANGED broken /\ ends' = ends + 1 /\ ends < MaxEnds
    BY <1>6 DEF Registry!Shutdown, Registry!Gone, Registry!End
  <2>2. CASE UNCHANGED <<entry, orphaned>>
    <3>1. Registry!TypeOK'
      BY <1>0, <2>1, <2>2 DEF Registry!TypeOK
    <3>2. Registry!RunningIsOnline'
      BY <1>0, <2>1, <2>2 DEF Registry!RunningIsOnline
    <3> QED  BY <3>1, <3>2 DEF RegistryInv
  <2>3. CASE /\ entry' = [entry EXCEPT ![IdOf[p]].status = "offline"]
             /\ orphaned' = [q \in Proc |-> orphaned[q] \/ (IdOf[q] = IdOf[p] /\ stage[q] # "down")]
    <3>1. Registry!TypeOK'
      BY <1>0, <2>1, <2>3 DEF Registry!TypeOK
    <3>2. Registry!RunningIsOnline'
      BY <1>0, <2>1, <2>3 DEF Registry!RunningIsOnline
    <3> QED  BY <3>1, <3>2 DEF RegistryInv
  <2> QED  BY <1>6, <2>2, <2>3 DEF Registry!Shutdown
<1>7. ASSUME NEW p \in Proc, Registry!Killed(p)
      PROVE  RegistryInv'
  BY <1>0, <1>7 DEF RegistryInv, Registry!TypeOK, Registry!RunningIsOnline, Registry!Killed,
                    Registry!Gone, Registry!End
<1> QED  BY <1>1, <1>2, <1>3, <1>4, <1>5, <1>6, <1>7 DEF Registry!RegistryStep

LEMMA RegistryStutter ==
  ASSUME RegistryInv, UNCHANGED registryVars
  PROVE  RegistryInv'
BY DEF RegistryInv, Registry!TypeOK, Registry!RunningIsOnline, registryVars

-----------------------------------------------------------------------------
(* The supervisor of the voice workers *)

PoolInv == Pool!TypeOK /\ Pool!PoolIsCollected

LEMMA PoolInit == Init => PoolInv
BY DEF Init, Pool!Init, PoolInv, Pool!TypeOK, Pool!PoolIsCollected, Pool!InPool

\* A worker is listed as soon as it runs, and taken off the list when it is gone.
LEMMA PoolNext ==
  ASSUME PoolInv, Pool!PoolStep
  PROVE  PoolInv'
<1> USE DEF PoolInv, Pool!TypeOK, Pool!PoolIsCollected, Pool!InPool
<1>1. CASE Pool!SpawnWorker
  BY <1>1 DEF Pool!SpawnWorker
<1>2. CASE Pool!Supervise
  BY <1>2 DEF Pool!Supervise
<1>3. CASE Pool!Watch
  BY <1>3 DEF Pool!Watch, Pool!Watched
<1>4. CASE Pool!Signal
  BY <1>4 DEF Pool!Signal
<1>5. CASE Pool!Collect
  BY <1>5 DEF Pool!Collect
<1>6. ASSUME NEW p \in Pool!Ports, Pool!WorkerEnds(p) PROVE PoolInv'
  BY <1>6 DEF Pool!WorkerEnds
<1> QED  BY <1>1, <1>2, <1>3, <1>4, <1>5, <1>6 DEF Pool!PoolStep

LEMMA PoolStutter ==
  ASSUME PoolInv, UNCHANGED poolVars
  PROVE  PoolInv'
BY DEF PoolInv, Pool!TypeOK, Pool!PoolIsCollected, Pool!InPool, poolVars

-----------------------------------------------------------------------------
(* The starters of the engine *)

Critical(c) == call[c] \in {"recheck", "spawn", "register", "poll", "probe"}

\* Who runs holds the port.
PortHeld ==
  /\ \A i \in 1 .. MaxServers : Engine!Runs(i) => port = i
  /\ port # 0 => Engine!Runs(port)

\* A process remembers a server of its own.
OwnChild ==
  \A p \in Process : child[p] # 0 => /\ server[child[p]].by = p
                                     /\ server[child[p]].state # "new"

OneAtATime == \A c \in Caller : Critical(c) => lock[Home[c]] = c

Waits(p) == \E c \in Caller : Home[c] = p /\ lock[p] = c /\ call[c] \in {"register", "poll", "probe"}

\* A server that is loading has somebody who waits for it, and one that runs is not
\* replaced, as long as every health check is answered in time.
NotForgotten ==
  /\ \A p \in Process :
       process[p] = "up" /\ child[p] # 0 /\ server[child[p]].state = "loading" => Waits(p)
  /\ \A c \in Caller :
       call[c] = "spawn" /\ Engine!Up(c) /\ child[Home[c]] # 0 => ~ Engine!Runs(child[Home[c]])

EngineInv ==
  /\ Engine!TypeOK /\ PortHeld /\ OwnChild /\ OneAtATime
  /\ late \/ NotForgotten
  /\ Engine!EngineIsOwned

LEMMA EngineTypes ==
  ASSUME Engine!TypeOK
  PROVE  /\ server \in [1 .. MaxServers ->
              [by : Process \cup {Manager}, state : {"new", "loading", "ready", "doomed", "dead"}]]
         /\ port \in 0 .. MaxServers /\ child \in [Process -> 0 .. MaxServers]
         /\ readyUrl \in [Process -> BOOLEAN] /\ lock \in [Process -> Caller \cup {"nobody"}]
         /\ call \in [Caller -> {"idle", "lock", "recheck", "spawn", "register", "poll", "probe",
                                 "served", "raised"}]
         /\ polls \in [Caller -> 0 .. MaxPolls]
         /\ process \in [Process -> {"up", "ended", "killed"}]
         /\ registered \in [Process -> BOOLEAN]
         /\ faults \in 0 .. MaxFaults /\ late \in BOOLEAN
         /\ Home \in [Caller -> Process] /\ Manager \notin Process /\ "nobody" \notin Caller
         /\ MaxServers \in Nat /\ MaxPolls \in Nat /\ MaxFaults \in Nat
BY DEF Engine!TypeOK, Engine!Nobody, Engine!LlamaServerAssumption

LEMMA EngineInit == Init => EngineInv
<1> SUFFICES ASSUME Init PROVE EngineInv
  OBVIOUS
<1>1. Engine!Init
  BY DEF Init
<1>2. Engine!TypeOK
  <2>1. /\ 0 \in 0 .. MaxServers /\ 0 \in 0 .. MaxPolls /\ 0 \in 0 .. MaxFaults
        /\ Home \in [Caller -> Process]
    BY DEF Engine!LlamaServerAssumption
  <2>2. server \in [1 .. MaxServers ->
          [by : Process \cup {Manager}, state : {"new", "loading", "ready", "doomed", "dead"}]]
    BY <1>1 DEF Engine!Init, Engine!NotYet
  <2> QED  BY <1>1, <2>1, <2>2 DEF Engine!Init, Engine!TypeOK, Engine!Nobody
<1>3. PortHeld /\ OwnChild /\ OneAtATime /\ Engine!EngineIsOwned
  BY <1>1 DEF Engine!Init, Engine!NotYet, Engine!Runs, PortHeld, OwnChild, OneAtATime, Critical,
              Engine!EngineIsOwned
<1>4. NotForgotten
  BY <1>1 DEF Engine!Init, NotForgotten, Engine!LlamaServerAssumption
<1> QED  BY <1>2, <1>3, <1>4 DEF EngineInv

\* The server that is started is a new one, and runs only if the port is free.
LEMMA NewServer ==
  ASSUME Engine!TypeOK, NEW p \in Process \cup {Manager}, Engine!NextServer(p)
  PROVE  \E i \in 1 .. MaxServers :
           /\ server[i].state = "new"
           /\ server' = [server EXCEPT ![i] = [by |-> p,
                            state |-> IF port = 0 THEN "loading" ELSE "doomed"]]
           /\ port' = IF port = 0 THEN i ELSE port
           /\ child' = IF p \in Process THEN [child EXCEPT ![p] = i] ELSE child
<1>1. PICK i \in 1 .. MaxServers :
        /\ \A j \in 1 .. MaxServers : j < i <=> j \in Engine!Started
        /\ server' = [server EXCEPT ![i] = [by |-> p,
                         state |-> IF port = 0 THEN "loading" ELSE "doomed"]]
        /\ port' = IF port = 0 THEN i ELSE port
        /\ child' = IF p \in Process THEN [child EXCEPT ![p] = i] ELSE child
  BY DEF Engine!NextServer
<1>2. server[i].state = "new"
  BY <1>1, EngineTypes DEF Engine!Started
<1> QED  BY <1>1, <1>2

LEMMA NewServerKeeps ==
  ASSUME EngineInv, NEW p \in Process \cup {Manager}, Engine!NextServer(p)
  PROVE  /\ PortHeld' /\ OwnChild'
         /\ server' \in [1 .. MaxServers ->
              [by : Process \cup {Manager}, state : {"new", "loading", "ready", "doomed", "dead"}]]
         /\ port' \in 0 .. MaxServers /\ child' \in [Process -> 0 .. MaxServers]
<1>0. Engine!TypeOK /\ PortHeld /\ OwnChild
  BY DEF EngineInv
<1>1. PICK i \in 1 .. MaxServers :
        /\ server[i].state = "new"
        /\ server' = [server EXCEPT ![i] = [by |-> p,
                         state |-> IF port = 0 THEN "loading" ELSE "doomed"]]
        /\ port' = IF port = 0 THEN i ELSE port
        /\ child' = IF p \in Process THEN [child EXCEPT ![p] = i] ELSE child
  BY <1>0, NewServer
<1>2. /\ server' \in [1 .. MaxServers ->
            [by : Process \cup {Manager}, state : {"new", "loading", "ready", "doomed", "dead"}]]
      /\ port' \in 0 .. MaxServers /\ child' \in [Process -> 0 .. MaxServers]
  BY <1>0, <1>1, EngineTypes
<1>3. PortHeld'
  BY <1>0, <1>1, EngineTypes DEF PortHeld, Engine!Runs
<1>4. OwnChild'
  BY <1>0, <1>1, EngineTypes DEF OwnChild
<1> QED  BY <1>2, <1>3, <1>4

LEMMA StoppedKeeps ==
  ASSUME EngineInv, NEW p \in Process, Engine!Stopped(p)
  PROVE  /\ PortHeld' /\ OwnChild'
         /\ server' \in [1 .. MaxServers ->
              [by : Process \cup {Manager}, state : {"new", "loading", "ready", "doomed", "dead"}]]
         /\ port' \in 0 .. MaxServers /\ child' \in [Process -> 0 .. MaxServers]
         /\ child' = [child EXCEPT ![p] = 0]
         /\ \A i \in 1 .. MaxServers :
              /\ server'[i].by = server[i].by
              /\ Engine!Runs(i)' => Engine!Runs(i) /\ i # child[p]
              /\ server'[i].state = "loading" => server[i].state = "loading"
<1>0. Engine!TypeOK /\ PortHeld /\ OwnChild
  BY DEF EngineInv
<1>1. child' = [child EXCEPT ![p] = 0]
  BY DEF Engine!Stopped
<1>2. CASE /\ child[p] # 0 /\ Engine!Runs(child[p])
           /\ server' = [server EXCEPT ![child[p]].state = "dead"] /\ port' = 0
  <2>1. child[p] \in 1 .. MaxServers
    BY <1>0, <1>2, EngineTypes
  <2>2. /\ server' \in [1 .. MaxServers ->
              [by : Process \cup {Manager}, state : {"new", "loading", "ready", "doomed", "dead"}]]
        /\ port' \in 0 .. MaxServers /\ child' \in [Process -> 0 .. MaxServers]
    <3>1. server' \in [1 .. MaxServers ->
            [by : Process \cup {Manager}, state : {"new", "loading", "ready", "doomed", "dead"}]]
      <4>1. server[child[p]] \in [by : Process \cup {Manager},
                                  state : {"new", "loading", "ready", "doomed", "dead"}]
        BY <1>0, <2>1, EngineTypes
      <4>2. [server[child[p]] EXCEPT !.state = "dead"] \in
              [by : Process \cup {Manager}, state : {"new", "loading", "ready", "doomed", "dead"}]
        BY <4>1
      <4>3. server' = [server EXCEPT ![child[p]] = [server[child[p]] EXCEPT !.state = "dead"]]
        BY <1>2
      <4> HIDE <1>2
      <4> QED  BY <1>0, <4>2, <4>3, EngineTypes
    <3>2. 0 \in 0 .. MaxServers
      BY <1>0, EngineTypes
    <3>3. child' \in [Process -> 0 .. MaxServers]
      BY <1>0, <1>1, <3>2, EngineTypes
    <3> QED  BY <1>2, <3>1, <3>2, <3>3
  <2>3. \A i \in 1 .. MaxServers :
          /\ server'[i].by = server[i].by
          /\ i = child[p] => server'[i].state = "dead"
          /\ i # child[p] => server'[i] = server[i]
    BY <1>0, <1>2, <2>1, EngineTypes
  <2>4. PortHeld'
    BY <1>0, <1>2, <2>1, <2>3 DEF PortHeld, Engine!Runs
  <2>5. OwnChild'
    <3> SUFFICES ASSUME NEW q \in Process, child'[q] # 0
                 PROVE  server'[child'[q]].by = q /\ server'[child'[q]].state # "new"
      BY DEF OwnChild
    <3>1. q # p /\ child'[q] = child[q] /\ child[q] \in 1 .. MaxServers
      BY <1>0, <1>1, EngineTypes
    <3>2. server[child[q]].by = q /\ server[child[q]].state # "new"
      BY <1>0, <3>1 DEF OwnChild
    <3>3. CASE child[q] = child[p]
      BY <1>0, <1>2, <3>1, <3>2, <3>3 DEF OwnChild
    <3>4. CASE child[q] # child[p]
      BY <2>3, <3>1, <3>2, <3>4
    <3> QED  BY <3>3, <3>4
  <2>6. \A i \in 1 .. MaxServers :
          /\ Engine!Runs(i)' => Engine!Runs(i) /\ i # child[p]
          /\ server'[i].state = "loading" => server[i].state = "loading"
    BY <2>3 DEF Engine!Runs
  <2> QED  BY <1>1, <2>2, <2>3, <2>4, <2>5, <2>6
<1>3. CASE ~ (child[p] # 0 /\ Engine!Runs(child[p])) /\ UNCHANGED <<server, port>>
  <2>1. PortHeld'
    BY <1>0, <1>3 DEF PortHeld, Engine!Runs
  <2>2. OwnChild'
    BY <1>0, <1>1, <1>3, EngineTypes DEF OwnChild
  <2>3. child' \in [Process -> 0 .. MaxServers]
    BY <1>0, <1>1, EngineTypes
  <2>4. \A i \in 1 .. MaxServers : Engine!Runs(i)' => Engine!Runs(i) /\ i # child[p]
    BY <1>3 DEF Engine!Runs
  <2> QED  BY <1>0, <1>1, <1>3, <2>1, <2>2, <2>3, <2>4, EngineTypes
<1> QED  BY <1>2, <1>3 DEF Engine!Stopped

\* A caller that only looks around leaves the servers, and who owns them, alone.
LEMMA ServersUntouched ==
  ASSUME EngineInv, UNCHANGED <<server, port, child, process, registered>>, late => late'
  PROVE  PortHeld' /\ OwnChild' /\ Engine!EngineIsOwned'
BY DEF EngineInv, PortHeld, OwnChild, Engine!EngineIsOwned, Engine!Abandoned, Engine!Runs

\* A caller in the critical section is the only one of its process.
LEMMA OnlyOne ==
  ASSUME OneAtATime, NEW c \in Caller, NEW d \in Caller,
         Critical(c), Critical(d), Home[c] = Home[d]
  PROVE  c = d
BY DEF OneAtATime

LEMMA EngineCalls ==
  ASSUME EngineInv, NEW c \in Caller,
         Engine!Ensure(c) \/ Engine!Lock(c) \/ Engine!CallAgain(c)
  PROVE  EngineInv'
<1>0. Engine!TypeOK /\ OneAtATime /\ (late \/ NotForgotten)
  BY DEF EngineInv
<1>1. /\ UNCHANGED <<server, port, child, process, registered, late>>
      /\ call' = [call EXCEPT ![c] = call'[c]]
      /\ call[c] \in {"idle", "lock", "served", "raised"}
      /\ call'[c] \in {"idle", "lock", "served", "recheck"}
  BY <1>0, EngineTypes DEF Engine!Ensure, Engine!Lock, Engine!CallAgain, Engine!At, Engine!Goto
<1>2. \/ lock' = lock /\ call'[c] # "recheck"
      \/ lock[Home[c]] = "nobody" /\ lock' = [lock EXCEPT ![Home[c]] = c]
  BY <1>0, EngineTypes
     DEF Engine!Ensure, Engine!Lock, Engine!CallAgain, Engine!Goto, Engine!At, Engine!Nobody
<1>3. Engine!TypeOK'
  <2>1. call' \in [Caller -> {"idle", "lock", "recheck", "spawn", "register", "poll", "probe",
                             "served", "raised"}]
    BY <1>0, <1>1, EngineTypes
  <2>2. lock' \in [Process -> Caller \cup {"nobody"}]
    <3>1. lock \in [Process -> Caller \cup {"nobody"}]
      BY <1>0, EngineTypes
    <3> QED  BY ONLY <1>2, <3>1, c \in Caller
  <2>3. UNCHANGED <<readyUrl, polls, faults>>
    BY DEF Engine!Ensure, Engine!Lock, Engine!CallAgain
  <2> QED  BY <1>0, <1>1, <2>1, <2>2, <2>3 DEF Engine!TypeOK, Engine!Nobody
<1>4. /\ \A p \in Process : lock[p] # "nobody" => lock'[p] = lock[p]
      /\ \A d \in Caller : d # c => call'[d] = call[d]
  BY <1>0, <1>1, <1>2, EngineTypes
<1>5. OneAtATime'
  <2> SUFFICES ASSUME NEW d \in Caller, Critical(d)' PROVE lock'[Home[d]] = d
    BY DEF OneAtATime
  <2>1. CASE d = c
    BY <1>0, <1>1, <1>2, <2>1, EngineTypes DEF Critical
  <2>2. CASE d # c
    <3>1. Critical(d) /\ Home[d] \in Process
      BY <1>0, <1>4, <2>2, EngineTypes DEF Critical
    <3>2. lock[Home[d]] = d /\ d # "nobody"
      BY <1>0, <3>1, EngineTypes DEF OneAtATime
    <3> QED  BY <1>4, <3>1, <3>2
  <2> QED  BY <2>1, <2>2
<1>6. late \/ NotForgotten'
  <2> SUFFICES ASSUME ~ late PROVE NotForgotten'
    OBVIOUS
  <2>1. \A p \in Process : Waits(p) => Waits(p)'
    <3> SUFFICES ASSUME NEW p \in Process, NEW d \in Caller, Home[d] = p, lock[p] = d,
                        call[d] \in {"register", "poll", "probe"}
                 PROVE  lock'[p] = d /\ call'[d] \in {"register", "poll", "probe"}
      BY DEF Waits
    <3> QED  BY <1>0, <1>1, <1>4, EngineTypes
  <2>2. \A d \in Caller : call'[d] = "spawn" => call[d] = "spawn"
    BY <1>1, <1>4
  <2> QED  BY <1>0, <1>1, <2>1, <2>2 DEF NotForgotten, Engine!Runs, Engine!Up
<1> QED  BY <1>1, <1>3, <1>5, <1>6, ServersUntouched DEF EngineInv

\* The steps under the lock that start or stop no server.
LEMMA EngineLooks ==
  ASSUME EngineInv, NEW c \in Caller,
         Engine!Recheck(c) \/ Engine!CannotSpawn(c) \/ Engine!PollChild(c) \/ Engine!Probe(c)
  PROVE  EngineInv'
<1> DEFINE p == Home[c]
<1>0. Engine!TypeOK /\ OneAtATime /\ PortHeld /\ (late \/ NotForgotten)
  BY DEF EngineInv
<1>1. /\ UNCHANGED <<server, port, child, process, registered, late, faults>>
      /\ call' = [call EXCEPT ![c] = call'[c]]
      /\ Critical(c)
      /\ call'[c] \in {"served", "spawn", "raised", "poll", "probe"}
      /\ readyUrl' \in [Process -> BOOLEAN]
  BY <1>0, EngineTypes
     DEF Engine!Recheck, Engine!CannotSpawn, Engine!PollChild, Engine!Probe, Engine!At, Engine!Goto,
         Engine!Served, Engine!Failed, Critical
<1>2. \/ call'[c] \in {"served", "raised"} /\ lock' = [lock EXCEPT ![p] = "nobody"]
      \/ call'[c] \in {"spawn", "register", "poll", "probe"} /\ lock' = lock
  BY <1>0, EngineTypes
     DEF Engine!Recheck, Engine!CannotSpawn, Engine!PollChild, Engine!Probe, Engine!Goto,
         Engine!Served, Engine!Failed, Engine!Unlock, Engine!Nobody
<1>3. polls' \in [Caller -> 0 .. MaxPolls]
  <2>1. CASE polls' = polls
    BY <1>0, <2>1, EngineTypes
  <2>2. CASE Engine!PollChild(c)
    <3>1. polls[c] \in Nat /\ polls[c] < MaxPolls /\ MaxPolls \in Nat
      BY <1>0, <2>2, EngineTypes DEF Engine!PollChild
    <3>2. polls[c] + 1 \in 0 .. MaxPolls
      BY <3>1
    <3>3. polls' = [polls EXCEPT ![c] = polls[c] + 1]
      BY <2>2 DEF Engine!PollChild
    <3> QED  BY <1>0, <3>2, <3>3, EngineTypes
  <2> QED  BY <2>1, <2>2 DEF Engine!Recheck, Engine!CannotSpawn, Engine!Probe
<1>4. Engine!TypeOK'
  <2>1. call' \in [Caller -> {"idle", "lock", "recheck", "spawn", "register", "poll", "probe",
                             "served", "raised"}]
    BY <1>0, <1>1, EngineTypes
  <2>2. lock' \in [Process -> Caller \cup {"nobody"}]
    BY <1>0, <1>2, EngineTypes
  <2> QED  BY <1>0, <1>1, <1>3, <2>1, <2>2 DEF Engine!TypeOK, Engine!Nobody
<1>5. /\ \A d \in Caller : d # c => call'[d] = call[d]
      /\ \A q \in Process : q # p => lock'[q] = lock[q]
      /\ p \in Process /\ lock[p] = c
  BY <1>0, <1>1, <1>2, EngineTypes DEF OneAtATime
<1>6. OneAtATime'
  <2> SUFFICES ASSUME NEW d \in Caller, Critical(d)' PROVE lock'[Home[d]] = d
    BY DEF OneAtATime
  <2>1. CASE d = c
    BY <1>1, <1>2, <1>5, <2>1 DEF Critical
  <2>2. CASE d # c
    <3>1. Critical(d)
      BY <1>5, <2>2 DEF Critical
    <3>2. Home[d] # p
      BY <1>0, <1>1, <2>2, <3>1, OnlyOne
    <3> QED  BY <1>0, <1>5, <3>1, <3>2, EngineTypes DEF OneAtATime
  <2> QED  BY <2>1, <2>2
<1>7. late \/ NotForgotten'
  <2> SUFFICES ASSUME ~ late PROVE NotForgotten'
    OBVIOUS
  <2>0. NotForgotten
    BY <1>0
  <2>1. ASSUME NEW q \in Process, process[q] = "up", child[q] # 0, server[child[q]].state = "loading"
        PROVE  Waits(q)'
    <3>1. PICK d \in Caller : Home[d] = q /\ lock[q] = d /\ call[d] \in {"register", "poll", "probe"}
      BY <2>0, <2>1 DEF NotForgotten, Waits
    <3>2. CASE d = c
      <4>1. child[q] \in 1 .. MaxServers
        BY <1>0, <2>1, EngineTypes
      <4>2. port = child[q]
        BY <1>0, <2>1, <4>1 DEF PortHeld, Engine!Runs
      <4>3. ~ Engine!Alive
        BY <2>1, <4>2 DEF Engine!Alive
      <4>4. call'[c] \in {"register", "poll", "probe"}
        BY <1>0, <2>1, <3>1, <3>2, <4>3, EngineTypes
           DEF Engine!Recheck, Engine!CannotSpawn, Engine!PollChild, Engine!Probe, Engine!Goto,
               Engine!At
      <4> QED  BY <1>2, <3>1, <3>2, <4>4 DEF Waits
    <3>3. CASE d # c
      BY <1>5, <3>1, <3>3 DEF Waits
    <3> QED  BY <3>2, <3>3
  <2>2. ASSUME NEW d \in Caller, call'[d] = "spawn", Engine!Up(d), child[Home[d]] # 0
        PROVE  ~ Engine!Runs(child[Home[d]])
    <3>1. CASE d # c
      BY <1>5, <2>0, <2>2, <3>1 DEF NotForgotten
    <3>2. CASE d = c
      <4> SUFFICES ASSUME Engine!Runs(child[p]) PROVE FALSE
        BY <3>2
      <4>1. child[p] \in 1 .. MaxServers
        BY <1>0, <1>5, <2>2, <3>2, EngineTypes
      <4>2. port = child[p] /\ port # 0
        BY <1>0, <2>2, <3>2, <4>1 DEF PortHeld
      <4>3. call[c] = "recheck" /\ ~ Engine!Alive
        BY <1>0, <2>2, <3>2, EngineTypes
           DEF Engine!Recheck, Engine!CannotSpawn, Engine!PollChild, Engine!Probe, Engine!Goto,
               Engine!Served, Engine!Failed, Engine!At
      <4>4. server[child[p]].state = "loading"
        BY <4>2, <4>3 DEF Engine!Runs, Engine!Alive
      <4>5. Waits(p)
        BY <1>5, <2>0, <2>2, <3>2, <4>4 DEF NotForgotten, Engine!Up
      <4> QED  BY <1>5, <4>3, <4>5 DEF Waits
    <3> QED  BY <3>1, <3>2
  <2> QED  BY <1>1, <2>1, <2>2 DEF NotForgotten, Engine!Runs, Engine!Up
<1> QED  BY <1>1, <1>4, <1>6, <1>7, ServersUntouched DEF EngineInv

\* Steps that leave the callers where they are and their locks.
LEMMA CallersUntouched ==
  ASSUME Engine!TypeOK, OneAtATime, UNCHANGED <<readyUrl, lock, call, polls>>
  PROVE  OneAtATime' /\ \A p \in Process : Waits(p)' = Waits(p)
BY DEF OneAtATime, Critical, Waits

\* A server that is started while the check of the url says that none answers, and
\* while none of the process's own runs, is not in the way of the one that is known.
LEMMA EngineSpawns ==
  ASSUME EngineInv, NEW c \in Caller, Engine!Spawn(c)
  PROVE  EngineInv'
<1> DEFINE p == Home[c]
<1>0. Engine!TypeOK /\ OneAtATime /\ PortHeld /\ OwnChild /\ (late \/ NotForgotten)
  BY DEF EngineInv
<1>1. /\ p \in Process /\ Engine!NextServer(p) /\ process[p] = "up"
      /\ call[c] = "spawn" /\ call' = [call EXCEPT ![c] = "register"]
      /\ UNCHANGED <<readyUrl, lock, polls, process, registered, faults, late>>
  BY <1>0, EngineTypes DEF Engine!Spawn, Engine!At, Engine!Up, Engine!Goto
<1>2. PICK i \in 1 .. MaxServers :
        /\ server[i].state = "new"
        /\ server' = [server EXCEPT ![i] = [by |-> p,
                         state |-> IF port = 0 THEN "loading" ELSE "doomed"]]
        /\ port' = IF port = 0 THEN i ELSE port
        /\ child' = [child EXCEPT ![p] = i]
  BY <1>0, <1>1, NewServer
<1>3. /\ \A j \in 1 .. MaxServers : j # i => server'[j] = server[j]
      /\ \A q \in Process : q # p => child'[q] = child[q]
      /\ \A d \in Caller : d # c => call'[d] = call[d]
      /\ server'[i].by = p /\ child'[p] = i /\ call'[c] = "register" /\ lock[p] = c
      /\ i # 0
  BY <1>0, <1>1, <1>2, EngineTypes DEF OneAtATime, Critical
<1>4. Engine!TypeOK'
  <2>1. call' \in [Caller -> {"idle", "lock", "recheck", "spawn", "register", "poll", "probe",
                             "served", "raised"}]
    BY <1>0, <1>1, EngineTypes
  <2>4. /\ server' \in [1 .. MaxServers ->
             [by : Process \cup {Manager}, state : {"new", "loading", "ready", "doomed", "dead"}]]
        /\ port' \in 0 .. MaxServers /\ child' \in [Process -> 0 .. MaxServers]
    BY <1>1, NewServerKeeps
  <2> QED  BY <1>0, <1>1, <2>1, <2>4 DEF Engine!TypeOK
<1>5. OneAtATime'
  BY <1>0, <1>1, <1>3 DEF OneAtATime, Critical
<1>6. late \/ NotForgotten'
  <2> SUFFICES ASSUME ~ late PROVE NotForgotten'
    OBVIOUS
  <2>0. NotForgotten
    BY <1>0
  <2>1. ASSUME NEW q \in Process, process[q] = "up", child'[q] # 0,
               server'[child'[q]].state = "loading"
        PROVE  Waits(q)'
    <3>1. CASE q = p
      BY <1>1, <1>3, <3>1 DEF Waits
    <3>2. CASE q # p
      <4>1. child[q] \in 1 .. MaxServers /\ child[q] # i /\ child'[q] = child[q]
        BY <1>0, <1>2, <1>3, <2>1, <3>2, EngineTypes DEF OwnChild
      <4>2. PICK d \in Caller : Home[d] = q /\ lock[q] = d /\ call[d] \in {"register", "poll", "probe"}
        BY <1>3, <2>0, <2>1, <4>1 DEF NotForgotten, Waits
      <4> QED  BY <1>1, <1>3, <3>2, <4>2 DEF Waits
    <3> QED  BY <3>1, <3>2
  <2>2. ASSUME NEW d \in Caller, call'[d] = "spawn", process[Home[d]] = "up", child'[Home[d]] # 0
        PROVE  server'[child'[Home[d]]].state \notin {"loading", "ready"}
    <3>1. d # c /\ call[d] = "spawn" /\ Home[d] \in Process
      BY <1>0, <1>3, <2>2, EngineTypes
    <3>2. Home[d] # p
      BY <1>0, <1>1, <3>1, OnlyOne DEF Critical
    <3>3. child'[Home[d]] = child[Home[d]] /\ child[Home[d]] \in 1 .. MaxServers
      BY <1>0, <1>3, <2>2, <3>1, <3>2, EngineTypes
    <3>4. server'[child[Home[d]]] = server[child[Home[d]]]
      BY <1>0, <1>2, <1>3, <2>2, <3>1, <3>3 DEF OwnChild
    <3> QED  BY <2>0, <2>2, <3>1, <3>3, <3>4 DEF NotForgotten, Engine!Runs, Engine!Up
  <2> QED  BY <1>1, <2>1, <2>2 DEF NotForgotten, Engine!Runs, Engine!Up
<1>7. late \/ Engine!EngineIsOwned'
  <2> SUFFICES ASSUME ~ late, NEW j \in 1 .. MaxServers,
                      server'[j].state \in {"loading", "ready"}, server'[j].by \in Process
               PROVE  \/ Engine!Abandoned(server'[j].by)
                      \/ process[server'[j].by] = "up" /\ child'[server'[j].by] = j
    BY <1>1 DEF Engine!EngineIsOwned, Engine!Abandoned, Engine!Runs
  <2>1. CASE j = i
    BY <1>1, <1>3, <2>1
  <2>2. CASE j # i
    <3>1. /\ Engine!Runs(j) /\ server'[j] = server[j]
          /\ \/ Engine!Abandoned(server[j].by)
             \/ process[server[j].by] = "up" /\ child[server[j].by] = j
      BY <1>3, <2>2 DEF Engine!Runs, Engine!EngineIsOwned, EngineInv
    <3>2. CASE server[j].by = p
      <4>1. child[p] = j /\ child[p] # 0
        BY <1>1, <3>1, <3>2 DEF Engine!Abandoned
      <4>2. ~ Engine!Runs(child[p])
        BY <1>0, <1>1, <4>1 DEF NotForgotten, Engine!Up
      <4> QED  BY <3>1, <4>1, <4>2
    <3>3. CASE server[j].by # p
      BY <1>3, <3>1, <3>3
    <3> QED  BY <3>2, <3>3
  <2> QED  BY <2>1, <2>2
<1>8. PortHeld' /\ OwnChild'
  BY <1>1, NewServerKeeps
<1>9. Engine!EngineIsOwned'
  BY <1>1, <1>7 DEF Engine!EngineIsOwned
<1> QED  BY <1>1, <1>4, <1>5, <1>6, <1>8, <1>9 DEF EngineInv

LEMMA EngineRegisters ==
  ASSUME EngineInv, NEW c \in Caller, Engine!Register(c)
  PROVE  EngineInv'
<1>0. Engine!TypeOK /\ OneAtATime /\ (late \/ NotForgotten)
  BY DEF EngineInv
<1>1. /\ Home[c] \in Process /\ process[Home[c]] = "up" /\ registered' = [registered EXCEPT ![Home[c]] = TRUE]
      /\ call[c] = "register" /\ call' = [call EXCEPT ![c] = "poll"]
      /\ polls' = [polls EXCEPT ![c] = 0]
      /\ UNCHANGED <<server, port, child, readyUrl, lock, process, faults, late>>
  BY <1>0, EngineTypes DEF Engine!Register, Engine!At, Engine!Up, Engine!Goto
<1>2. /\ \A d \in Caller : d # c => call'[d] = call[d]
      /\ call'[c] = "poll"
      /\ \A q \in Process : q # Home[c] => registered'[q] = registered[q]
  BY <1>0, <1>1, EngineTypes
<1>3. Engine!TypeOK'
  <2>1. call' \in [Caller -> {"idle", "lock", "recheck", "spawn", "register", "poll", "probe",
                             "served", "raised"}]
    BY <1>0, <1>1, EngineTypes
  <2>2. 0 \in 0 .. MaxPolls
    BY <1>0, EngineTypes
  <2>3. polls' \in [Caller -> 0 .. MaxPolls] /\ registered' \in [Process -> BOOLEAN]
    BY <1>0, <1>1, <2>2, EngineTypes
  <2> QED  BY <1>0, <1>1, <2>1, <2>3 DEF Engine!TypeOK
<1>4. OneAtATime'
  BY <1>0, <1>1, <1>2 DEF OneAtATime, Critical
<1>5. late \/ NotForgotten'
  <2>1. \A p \in Process : Waits(p) => Waits(p)'
    BY <1>1, <1>2 DEF Waits
  <2>2. \A d \in Caller : call'[d] = "spawn" => call[d] = "spawn"
    BY <1>2
  <2> QED  BY <1>0, <1>1, <2>1, <2>2 DEF NotForgotten, Engine!Runs, Engine!Up
<1>6. PortHeld' /\ OwnChild'
  BY <1>1 DEF EngineInv, PortHeld, OwnChild, Engine!Runs
<1>7. Engine!EngineIsOwned'
  <2>1. \A p \in Process : Engine!Abandoned(p) => Engine!Abandoned(p)'
    BY <1>1, <1>2 DEF Engine!Abandoned
  <2>2. late \/ \A i \in 1 .. MaxServers :
          Engine!Runs(i) /\ server[i].by \in Process =>
            \/ Engine!Abandoned(server[i].by)
            \/ process[server[i].by] = "up" /\ child[server[i].by] = i
    BY DEF EngineInv, Engine!EngineIsOwned
  <2>3. \A i \in 1 .. MaxServers :
          Engine!Runs(i) /\ server[i].by \in Process /\ Engine!Abandoned(server[i].by)
            => Engine!Abandoned(server[i].by)'
    BY <1>1, <2>1 DEF Engine!Abandoned
  <2> QED  BY <1>1, <2>2, <2>3 DEF Engine!EngineIsOwned, Engine!Runs
<1> QED  BY <1>1, <1>3, <1>4, <1>5, <1>6, <1>7 DEF EngineInv

LEMMA EngineTimesOut ==
  ASSUME EngineInv, NEW c \in Caller, Engine!StartupTimeout(c)
  PROVE  EngineInv'
<1> DEFINE p == Home[c]
<1>0. Engine!TypeOK /\ OneAtATime /\ (late \/ NotForgotten)
  BY DEF EngineInv
<1>1. /\ p \in Process /\ Engine!Stopped(p)
      /\ call[c] = "poll" /\ call' = [call EXCEPT ![c] = "raised"]
      /\ lock' = [lock EXCEPT ![p] = "nobody"]
      /\ UNCHANGED <<readyUrl, polls, process, registered, faults, late>>
  BY <1>0, EngineTypes DEF Engine!StartupTimeout, Engine!At, Engine!Goto, Engine!Failed,
                           Engine!Unlock, Engine!Nobody
<1>2. /\ \A d \in Caller : d # c => call'[d] = call[d]
      /\ \A q \in Process : q # p => lock'[q] = lock[q]
      /\ call'[c] = "raised" /\ lock[p] = c
  BY <1>0, <1>1, EngineTypes DEF OneAtATime, Critical
<1>3. /\ PortHeld' /\ OwnChild'
      /\ server' \in [1 .. MaxServers ->
           [by : Process \cup {Manager}, state : {"new", "loading", "ready", "doomed", "dead"}]]
      /\ port' \in 0 .. MaxServers /\ child' \in [Process -> 0 .. MaxServers]
      /\ child' = [child EXCEPT ![p] = 0]
      /\ \A i \in 1 .. MaxServers :
           /\ server'[i].by = server[i].by
           /\ Engine!Runs(i)' => Engine!Runs(i) /\ i # child[p]
           /\ server'[i].state = "loading" => server[i].state = "loading"
  BY <1>1, StoppedKeeps
<1>4. Engine!TypeOK'
  <2>1. call' \in [Caller -> {"idle", "lock", "recheck", "spawn", "register", "poll", "probe",
                             "served", "raised"}]
    BY <1>0, <1>1, EngineTypes
  <2>2. lock' \in [Process -> Caller \cup {"nobody"}]
    BY <1>0, <1>1, EngineTypes
  <2> QED  BY <1>0, <1>1, <1>3, <2>1, <2>2 DEF Engine!TypeOK, Engine!Nobody
<1>5. \A d \in Caller : d # c /\ Critical(d) => Home[d] # p
  BY <1>0, <1>1, OnlyOne DEF Critical
<1>6. OneAtATime'
  <2> SUFFICES ASSUME NEW d \in Caller, Critical(d)' PROVE lock'[Home[d]] = d
    BY DEF OneAtATime
  <2>1. d # c /\ Critical(d)
    BY <1>2 DEF Critical
  <2> QED  BY <1>0, <1>2, <1>5, <2>1, EngineTypes DEF OneAtATime
<1>7. /\ \A q \in Process : q # p => child'[q] = child[q]
      /\ child'[p] = 0
  BY <1>0, <1>1, <1>3, EngineTypes
<1>8. late \/ NotForgotten'
  <2> SUFFICES ASSUME ~ late PROVE NotForgotten'
    OBVIOUS
  <2>0. NotForgotten
    BY <1>0
  <2>1. ASSUME NEW q \in Process, process[q] = "up", child'[q] # 0,
               server'[child'[q]].state = "loading"
        PROVE  Waits(q)'
    <3>1. q # p /\ child[q] \in 1 .. MaxServers /\ child'[q] = child[q]
      BY <1>0, <1>7, <2>1, EngineTypes
    <3>2. PICK d \in Caller : Home[d] = q /\ lock[q] = d /\ call[d] \in {"register", "poll", "probe"}
      BY <1>3, <2>0, <2>1, <3>1 DEF NotForgotten, Waits
    <3> QED  BY <1>1, <1>2, <3>1, <3>2 DEF Waits
  <2>2. ASSUME NEW d \in Caller, call'[d] = "spawn", process[Home[d]] = "up", child'[Home[d]] # 0
        PROVE  server'[child'[Home[d]]].state \notin {"loading", "ready"}
    <3>1. d # c /\ call[d] = "spawn" /\ Home[d] \in Process /\ Home[d] # p
      BY <1>0, <1>2, <1>7, <2>2, EngineTypes
    <3>2. child'[Home[d]] = child[Home[d]] /\ child[Home[d]] \in 1 .. MaxServers
      BY <1>0, <1>7, <2>2, <3>1, EngineTypes
    <3>3. ~ Engine!Runs(child[Home[d]])
      BY <2>0, <2>2, <3>1, <3>2 DEF NotForgotten, Engine!Up
    <3>4. server'[child[Home[d]]].state \notin {"loading", "ready"}
      BY <1>3, <3>2, <3>3 DEF Engine!Runs
    <3> QED  BY <3>2, <3>4
  <2> QED  BY <1>1, <2>1, <2>2 DEF NotForgotten, Engine!Runs, Engine!Up
<1>9. Engine!EngineIsOwned'
  <2> SUFFICES ASSUME ~ late, NEW j \in 1 .. MaxServers, Engine!Runs(j)', server'[j].by \in Process
               PROVE  \/ Engine!Abandoned(server'[j].by)
                      \/ process[server'[j].by] = "up" /\ child'[server'[j].by] = j
    BY <1>1 DEF Engine!EngineIsOwned, Engine!Abandoned
  <2>1. /\ Engine!Runs(j) /\ j # child[p] /\ server'[j].by = server[j].by
        /\ \/ Engine!Abandoned(server[j].by)
           \/ process[server[j].by] = "up" /\ child[server[j].by] = j
    BY <1>3 DEF Engine!EngineIsOwned, EngineInv
  <2> QED  BY <1>7, <2>1
<1> QED  BY <1>1, <1>3, <1>4, <1>6, <1>8, <1>9 DEF EngineInv

LEMMA EngineManager ==
  ASSUME EngineInv, Engine!ManagerStarts
  PROVE  EngineInv'
<1>0. Engine!TypeOK /\ OneAtATime /\ OwnChild /\ (late \/ NotForgotten)
  BY DEF EngineInv
<1>1. /\ Engine!NextServer(Manager)
      /\ UNCHANGED <<readyUrl, lock, call, polls, process, registered, faults, late>>
  BY DEF Engine!ManagerStarts
<1>2. PICK i \in 1 .. MaxServers :
        /\ server[i].state = "new"
        /\ server' = [server EXCEPT ![i] = [by |-> Manager,
                         state |-> IF port = 0 THEN "loading" ELSE "doomed"]]
        /\ child' = child
  BY <1>0, <1>1, NewServer, EngineTypes
<1>3. /\ \A j \in 1 .. MaxServers : j # i => server'[j] = server[j]
      /\ server'[i].by \notin Process
  BY <1>0, <1>2, EngineTypes
<1>4. \A p \in Process : child[p] # 0 =>
        child[p] \in 1 .. MaxServers /\ server'[child[p]] = server[child[p]]
  BY <1>0, <1>2, <1>3, EngineTypes DEF OwnChild
<1>5. OneAtATime' /\ \A p \in Process : Waits(p)' = Waits(p)
  BY <1>0, <1>1, CallersUntouched
<1>6. late \/ NotForgotten'
  <2> SUFFICES ASSUME ~ late PROVE NotForgotten'
    OBVIOUS
  <2>1. \A p \in Process : process[p] = "up" /\ child[p] # 0
          /\ server'[child[p]].state = "loading" => Waits(p)'
    BY <1>0, <1>4, <1>5 DEF NotForgotten
  <2>2. \A c \in Caller : call[c] = "spawn" /\ process[Home[c]] = "up" /\ child[Home[c]] # 0
          => server'[child[Home[c]]].state \notin {"loading", "ready"}
    BY <1>0, <1>4, EngineTypes DEF NotForgotten, Engine!Runs, Engine!Up
  <2> QED  BY <1>1, <1>2, <2>1, <2>2 DEF NotForgotten, Engine!Runs, Engine!Up
<1>7. Engine!EngineIsOwned'
  BY <1>1, <1>2, <1>3 DEF EngineInv, Engine!EngineIsOwned, Engine!Abandoned, Engine!Runs
<1>8. /\ PortHeld' /\ OwnChild'
      /\ server' \in [1 .. MaxServers ->
           [by : Process \cup {Manager}, state : {"new", "loading", "ready", "doomed", "dead"}]]
      /\ port' \in 0 .. MaxServers /\ child' \in [Process -> 0 .. MaxServers]
  BY <1>1, NewServerKeeps
<1>9. Engine!TypeOK'
  BY <1>0, <1>1, <1>8 DEF Engine!TypeOK
<1> QED  BY <1>1, <1>5, <1>6, <1>7, <1>8, <1>9 DEF EngineInv

\* A server that ends, or answers at last, is the same one, of the same process.
LEMMA EngineServers ==
  ASSUME EngineInv, NEW i \in 1 .. MaxServers,
         Engine!PortTaken(i) \/ Engine!Load(i) \/ Engine!ServerDies(i)
  PROVE  EngineInv'
<1>0. Engine!TypeOK /\ PortHeld /\ OwnChild /\ OneAtATime /\ (late \/ NotForgotten)
  BY DEF EngineInv
<1>1. UNCHANGED <<child, readyUrl, lock, call, polls, process, registered, late>>
  BY DEF Engine!PortTaken, Engine!Load, Engine!ServerDies
<1>2. PICK s \in {"ready", "dead"} :
        /\ server' = [server EXCEPT ![i].state = s]
        /\ \/ server[i].state = "doomed" /\ s = "dead" /\ port' = port
           \/ server[i].state = "loading" /\ s = "ready" /\ port' = port
           \/ Engine!Runs(i) /\ s = "dead" /\ port' = 0
  BY DEF Engine!PortTaken, Engine!Load, Engine!ServerDies
<1>3. /\ server'[i].by = server[i].by /\ server'[i].state = s
      /\ \A j \in 1 .. MaxServers : j # i => server'[j] = server[j]
  BY <1>0, <1>2, EngineTypes
<1>4. Engine!TypeOK'
  <2>1. server[i] \in [by : Process \cup {Manager},
                       state : {"new", "loading", "ready", "doomed", "dead"}]
    BY <1>0, EngineTypes
  <2>2. [server[i] EXCEPT !.state = s] \in
          [by : Process \cup {Manager}, state : {"new", "loading", "ready", "doomed", "dead"}]
    BY <2>1
  <2>3. server' = [server EXCEPT ![i] = [server[i] EXCEPT !.state = s]]
    BY <1>2
  <2>4. server' \in [1 .. MaxServers ->
          [by : Process \cup {Manager}, state : {"new", "loading", "ready", "doomed", "dead"}]]
    BY <1>0, <2>2, <2>3, EngineTypes
  <2>5. port' \in 0 .. MaxServers
    BY <1>0, <1>2, EngineTypes
  <2>6. faults' \in 0 .. MaxFaults
    BY <1>0, EngineTypes DEF Engine!PortTaken, Engine!Load, Engine!ServerDies, Engine!Fault
  <2> QED  BY <1>0, <1>1, <2>4, <2>5, <2>6 DEF Engine!TypeOK
<1>5. PortHeld'
  <2>0. \A j \in 1 .. MaxServers : server[j].state \in {"loading", "ready"} => port = j
    BY <1>0 DEF PortHeld, Engine!Runs
  <2>5. port # 0 => port \in 1 .. MaxServers /\ server[port].state \in {"loading", "ready"}
    BY <1>0, EngineTypes DEF PortHeld, Engine!Runs
  <2>1. CASE port' = port /\ server[i].state = "doomed" /\ s = "dead"
    <3>1. \A j \in 1 .. MaxServers : server'[j].state \in {"loading", "ready"} => port = j
      BY <1>3, <2>0, <2>1
    <3>2. port # 0 => port # i
      BY <2>1, <2>5
    <3>3. port # 0 => server'[port] = server[port]
      BY <1>3, <2>5, <3>2
    <3> QED  BY <2>1, <2>5, <3>1, <3>3 DEF PortHeld, Engine!Runs
  <2>2. CASE port' = port /\ server[i].state = "loading" /\ s = "ready"
    <3>1. port = i
      BY <2>0, <2>2
    <3>2. \A j \in 1 .. MaxServers : server'[j].state \in {"loading", "ready"} => port = j
      BY <1>3, <2>0, <3>1
    <3>3. server'[port].state = "ready"
      BY <1>3, <2>2, <3>1
    <3> QED  BY <2>2, <3>2, <3>3 DEF PortHeld, Engine!Runs
  <2>3. CASE Engine!Runs(i) /\ s = "dead" /\ port' = 0
    BY <1>0, <1>3, <2>3, EngineTypes DEF PortHeld, Engine!Runs
  <2> QED  BY <1>2, <2>1, <2>2, <2>3
<1>6. \A p \in Process : child[p] # 0 =>
        /\ child[p] \in 1 .. MaxServers
        /\ server'[child[p]].by = server[child[p]].by /\ server'[child[p]].state # "new"
  <2> SUFFICES ASSUME NEW p \in Process, child[p] # 0
               PROVE  /\ child[p] \in 1 .. MaxServers
                      /\ server'[child[p]].by = server[child[p]].by
                      /\ server'[child[p]].state # "new"
    OBVIOUS
  <2>1. child[p] \in 1 .. MaxServers /\ server[child[p]].state # "new"
    BY <1>0, EngineTypes DEF OwnChild
  <2>2. CASE child[p] = i
    BY <1>3, <2>1, <2>2
  <2>3. CASE child[p] # i
    BY <1>3, <2>1, <2>3
  <2> QED  BY <2>1, <2>2, <2>3
<1>7. OwnChild'
  BY <1>0, <1>1, <1>6 DEF OwnChild
<1>8. OneAtATime' /\ \A p \in Process : Waits(p)' = Waits(p)
  BY <1>0, <1>1, CallersUntouched
<1>9. \A j \in 1 .. MaxServers :
        /\ server'[j].by = server[j].by
        /\ server'[j].state = "loading" => server[j].state = "loading"
        /\ server'[j].state \in {"loading", "ready"} => server[j].state \in {"loading", "ready"}
  <2> SUFFICES ASSUME NEW j \in 1 .. MaxServers
               PROVE  /\ server'[j].by = server[j].by
                      /\ server'[j].state = "loading" => server[j].state = "loading"
                      /\ server'[j].state \in {"loading", "ready"}
                           => server[j].state \in {"loading", "ready"}
    OBVIOUS
  <2>1. CASE j = i
    BY <1>2, <1>3, <2>1
  <2>2. CASE j # i
    BY <1>3, <2>2
  <2> QED  BY <2>1, <2>2
<1>10. late \/ NotForgotten'
  <2> SUFFICES ASSUME ~ late PROVE NotForgotten'
    OBVIOUS
  <2>1. \A p \in Process : process[p] = "up" /\ child[p] # 0
          /\ server'[child[p]].state = "loading" => Waits(p)'
    BY <1>0, <1>6, <1>8, <1>9 DEF NotForgotten
  <2>2. \A c \in Caller : call[c] = "spawn" /\ process[Home[c]] = "up" /\ child[Home[c]] # 0
          => server'[child[Home[c]]].state \notin {"loading", "ready"}
    BY <1>0, <1>6, <1>9, EngineTypes DEF NotForgotten, Engine!Runs, Engine!Up
  <2> QED  BY <1>1, <2>1, <2>2 DEF NotForgotten, Engine!Runs, Engine!Up
<1>11. Engine!EngineIsOwned'
  BY <1>1, <1>9 DEF EngineInv, Engine!EngineIsOwned, Engine!Abandoned, Engine!Runs
<1> QED  BY <1>1, <1>4, <1>5, <1>7, <1>8, <1>10, <1>11 DEF EngineInv

LEMMA EngineLate ==
  ASSUME EngineInv, NEW c \in Caller, Engine!AnswersLate(c)
  PROVE  EngineInv'
<1>0. Engine!TypeOK /\ OneAtATime
  BY DEF EngineInv
<1>1. /\ UNCHANGED <<server, port, child, readyUrl, lock, polls, process, registered>> /\ late'
      /\ \/ call[c] = "idle" /\ call' = [call EXCEPT ![c] = "lock"]
         \/ call[c] = "recheck" /\ call' = [call EXCEPT ![c] = "spawn"]
         \/ call[c] = "probe" /\ call' = [call EXCEPT ![c] = "poll"]
      /\ faults' \in 0 .. MaxFaults /\ late' \in BOOLEAN
  <2>1. faults' \in 0 .. MaxFaults
    BY <1>0, EngineTypes DEF Engine!AnswersLate, Engine!Fault
  <2> QED  BY <2>1 DEF Engine!AnswersLate, Engine!At, Engine!Goto
<1>2. call' \in [Caller -> {"idle", "lock", "recheck", "spawn", "register", "poll", "probe",
                            "served", "raised"}]
  BY <1>0, <1>1, EngineTypes
<1>3. Engine!TypeOK'
  BY <1>0, <1>1, <1>2 DEF Engine!TypeOK
<1>4. \A d \in Caller : Critical(d)' => Critical(d)
  BY <1>0, <1>1, EngineTypes DEF Critical
<1>5. OneAtATime'
  BY <1>0, <1>1, <1>4 DEF OneAtATime
<1> QED  BY <1>1, <1>3, <1>5, ServersUntouched DEF EngineInv

LEMMA EngineEnds ==
  ASSUME EngineInv, NEW p \in Process, Engine!ProcessEnds(p), registered[p]
  PROVE  EngineInv'
<1>0. Engine!TypeOK /\ OneAtATime /\ (late \/ NotForgotten)
  BY DEF EngineInv
<1>1. /\ Engine!Stopped(p) /\ process[p] = "up"
      /\ process' = [process EXCEPT ![p] = "ended"]
      /\ UNCHANGED <<readyUrl, lock, call, polls, registered, late>>
  BY DEF Engine!ProcessEnds
<1>2. /\ process'[p] = "ended" /\ \A q \in Process : q # p => process'[q] = process[q]
      /\ process' \in [Process -> {"up", "ended", "killed"}]
      /\ faults' \in 0 .. MaxFaults
  BY <1>0, <1>1, EngineTypes DEF Engine!ProcessEnds, Engine!Fault
<1>3. /\ PortHeld' /\ OwnChild'
      /\ server' \in [1 .. MaxServers ->
           [by : Process \cup {Manager}, state : {"new", "loading", "ready", "doomed", "dead"}]]
      /\ port' \in 0 .. MaxServers /\ child' \in [Process -> 0 .. MaxServers]
      /\ child' = [child EXCEPT ![p] = 0]
      /\ \A i \in 1 .. MaxServers :
           /\ server'[i].by = server[i].by
           /\ Engine!Runs(i)' => Engine!Runs(i) /\ i # child[p]
           /\ server'[i].state = "loading" => server[i].state = "loading"
  BY <1>1, StoppedKeeps
<1>4. Engine!TypeOK'
  BY <1>0, <1>1, <1>2, <1>3 DEF Engine!TypeOK
<1>5. \A q \in Process : q # p => child'[q] = child[q]
  BY <1>0, <1>3, EngineTypes
<1>6. OneAtATime' /\ \A q \in Process : Waits(q)' = Waits(q)
  BY <1>0, <1>1, CallersUntouched
<1>7. late \/ NotForgotten'
  <2> SUFFICES ASSUME ~ late PROVE NotForgotten'
    OBVIOUS
  <2>1. ASSUME NEW q \in Process, process'[q] = "up", child'[q] # 0,
               server'[child'[q]].state = "loading"
        PROVE  Waits(q)'
    <3>1. q # p /\ child[q] \in 1 .. MaxServers /\ child'[q] = child[q] /\ process[q] = "up"
      BY <1>0, <1>2, <1>5, <2>1, EngineTypes
    <3> QED  BY <1>0, <1>3, <1>6, <2>1, <3>1 DEF NotForgotten
  <2>2. ASSUME NEW d \in Caller, call'[d] = "spawn", process'[Home[d]] = "up", child'[Home[d]] # 0
        PROVE  server'[child'[Home[d]]].state \notin {"loading", "ready"}
    <3>1. call[d] = "spawn" /\ Home[d] \in Process /\ Home[d] # p /\ process[Home[d]] = "up"
      BY <1>0, <1>1, <1>2, <2>2, EngineTypes
    <3>2. child'[Home[d]] = child[Home[d]] /\ child[Home[d]] \in 1 .. MaxServers
      BY <1>0, <1>5, <2>2, <3>1, EngineTypes
    <3>3. ~ Engine!Runs(child[Home[d]])
      BY <1>0, <2>2, <3>1, <3>2 DEF NotForgotten, Engine!Up
    <3>4. server'[child[Home[d]]].state \notin {"loading", "ready"}
      BY <1>3, <3>2, <3>3 DEF Engine!Runs
    <3> QED  BY <3>2, <3>4
  <2> QED  BY <2>1, <2>2 DEF NotForgotten, Engine!Runs, Engine!Up
<1>8. Engine!EngineIsOwned'
  <2> SUFFICES ASSUME ~ late, NEW j \in 1 .. MaxServers, Engine!Runs(j)', server'[j].by \in Process
               PROVE  \/ Engine!Abandoned(server[j].by)'
                      \/ process'[server'[j].by] = "up" /\ child'[server'[j].by] = j
    BY <1>1 DEF Engine!EngineIsOwned
  <2>1. /\ Engine!Runs(j) /\ j # child[p] /\ server'[j].by = server[j].by
        /\ \/ Engine!Abandoned(server[j].by)
           \/ process[server[j].by] = "up" /\ child[server[j].by] = j
    BY <1>3 DEF Engine!EngineIsOwned, EngineInv
  <2>2. server[j].by # p
    BY <1>1, <2>1 DEF Engine!Abandoned
  <2> QED  BY <1>1, <1>2, <1>5, <2>1, <2>2 DEF Engine!Abandoned
<1> QED  BY <1>1, <1>3, <1>4, <1>6, <1>7, <1>8 DEF EngineInv

\* Nobody calls stop: what runs goes on running, and its process is not there to know.
LEMMA EngineAbandons ==
  ASSUME EngineInv, NEW p \in Process,
         Engine!ProcessKilled(p) \/ (Engine!ProcessEnds(p) /\ ~ registered[p])
  PROVE  EngineInv'
<1>0. Engine!TypeOK /\ OneAtATime /\ PortHeld /\ OwnChild /\ (late \/ NotForgotten)
  BY DEF EngineInv
<1>1. UNCHANGED <<server, port, child, readyUrl, lock, call, polls, registered, late>>
  BY DEF Engine!ProcessKilled, Engine!ProcessEnds
<1>2. /\ \/ process'[p] = "killed"
         \/ process'[p] = "ended" /\ ~ registered[p]
      /\ \A q \in Process : q # p => process'[q] = process[q]
      /\ process' \in [Process -> {"up", "ended", "killed"}]
      /\ faults' \in 0 .. MaxFaults
  <2>1. PICK s \in {"ended", "killed"} :
          process' = [process EXCEPT ![p] = s] /\ (s = "ended" => ~ registered[p])
    BY DEF Engine!ProcessKilled, Engine!ProcessEnds
  <2>2. faults' = faults + 1 /\ faults < MaxFaults
    BY DEF Engine!ProcessKilled, Engine!ProcessEnds, Engine!Fault
  <2>3. faults' \in 0 .. MaxFaults
    BY <1>0, <2>2, EngineTypes
  <2>4. process' \in [Process -> {"up", "ended", "killed"}]
    BY <1>0, <2>1, EngineTypes
  <2>5. process'[p] = s /\ \A q \in Process : q # p => process'[q] = process[q]
    BY <1>0, <2>1, EngineTypes
  <2> QED  BY <2>1, <2>3, <2>4, <2>5
<1>3. Engine!TypeOK'
  BY <1>0, <1>1, <1>2 DEF Engine!TypeOK
<1>4. OneAtATime' /\ \A q \in Process : Waits(q)' = Waits(q)
  BY <1>0, <1>1, CallersUntouched
<1>5. PortHeld' /\ OwnChild'
  BY <1>0, <1>1 DEF PortHeld, OwnChild, Engine!Runs
<1>6. late \/ NotForgotten'
  <2>1. \A q \in Process : process'[q] = "up" => process[q] = "up"
    BY <1>2
  <2>2. \A d \in Caller : Home[d] \in Process
    BY <1>0, EngineTypes
  <2> QED  BY <1>0, <1>1, <1>4, <2>1, <2>2 DEF NotForgotten, Engine!Runs, Engine!Up
<1>7. Engine!EngineIsOwned'
  BY <1>1, <1>2 DEF EngineInv, Engine!EngineIsOwned, Engine!Abandoned, Engine!Runs
<1> QED  BY <1>1, <1>3, <1>4, <1>5, <1>6, <1>7 DEF EngineInv

LEMMA EngineNext ==
  ASSUME EngineInv, Engine!EngineStep
  PROVE  EngineInv'
BY EngineCalls, EngineLooks, EngineSpawns, EngineTimesOut, EngineManager, EngineServers,
   EngineRegisters, EngineLate, EngineEnds, EngineAbandons
   DEF Engine!EngineStep, Engine!EnsureStep

LEMMA EngineStutter ==
  ASSUME EngineInv, UNCHANGED engineVars
  PROVE  EngineInv'
BY DEF EngineInv, engineVars, Engine!TypeOK, PortHeld, OwnChild, OneAtATime, Critical, Waits,
       NotForgotten, Engine!EngineIsOwned, Engine!Abandoned, Engine!Runs, Engine!Up

-----------------------------------------------------------------------------
(* The clients of the engine *)

Less == {ss \in Nat \X Nat : ss[1] < ss[2]}

\* A set of numbers that is not empty has a least one.
LEMMA LeastNumber ==
  ASSUME NEW T, T \subseteq Nat, T # {}
  PROVE  \E x \in T : \A y \in T : x <= y
<1>1. IsWellFoundedOn(Less, Nat)
  BY NatLessThanWellFounded DEF OpToRel, Less
<1>2. PICK x \in T : \A y \in T : ~ (<<y, x>> \in Less)
  BY <1>1, WFMin
<1>3. \A y \in T : ~ (y < x)
  <2> TAKE y \in T
  <2>1. <<y, x>> \in Nat \X Nat /\ <<y, x>>[1] = y /\ <<y, x>>[2] = x
    OBVIOUS
  <2> QED  BY <1>2, <2>1 DEF Less
<1> QED  BY <1>3

\* A client that is known cites the number of its adapter in the engine it was built for.
Numbered ==
  \A a \in Adapter \cup {None} : client[a].known =>
    /\ client[a].id = None <=> a = None
    /\ a # None /\ engine.up /\ client[a].engine = engine.number =>
         /\ client[a].id + 1 \in 1 .. Len(engine.loaded)
         /\ FileName[engine.loaded[client[a].id + 1]] = FileName[a]

ClientInv ==
  /\ Client!TypeOK
  /\ engine \in [number : Nat, up : BOOLEAN, loaded : Seq(OnDisk)]
  /\ Len(engine.loaded) <= Tasks
  /\ Numbered
  /\ execution.at = "request" => client[execution.adapter].known
  /\ Client!AdapterIsTheTasks

LEMMA ClientTypes ==
  ASSUME Client!TypeOK
  PROVE  /\ deployed \in [1 .. Tasks -> Adapter \cup {None}]
         /\ engine.number \in Nat /\ engine.up \in BOOLEAN /\ engine.loaded \in Seq(OnDisk)
         /\ client \in [Adapter \cup {None} ->
              [known : BOOLEAN, id : (0 .. Tasks) \cup {None}, engine : 0 .. engine.number]]
         /\ execution \in [at : {"idle", "params", "resolve", "request"}, adapter : Adapter \cup {None}]
         /\ changes \in 0 .. MaxChanges
         /\ None \notin Adapter /\ None \notin 0 .. Tasks /\ OnDisk \subseteq Adapter
         /\ OwnAdapter \in [1 .. Tasks -> Adapter \cup {None}]
         /\ Tasks \in Nat /\ MaxChanges \in Nat
BY DEF Client!TypeOK, Client!MaybeAdapter, Client!MaybeId, Client!Task, Client!AdapterClientAssumption

\* The number an engine gives an adapter is that of one with the same file name.
LEMMA LoraId ==
  ASSUME NEW loaded \in Seq(OnDisk), NEW a \in Adapter,
         Client!LoraAdapterId(loaded, a) # None
  PROVE  /\ Client!LoraAdapterId(loaded, a) \in 0 .. Len(loaded) - 1
         /\ Client!LoraAdapterId(loaded, a) + 1 \in 1 .. Len(loaded)
         /\ FileName[loaded[Client!LoraAdapterId(loaded, a) + 1]] = FileName[a]
<1> DEFINE places == {i \in DOMAIN loaded : FileName[loaded[i]] = FileName[a]}
<1>1. places # {} /\ Client!LoraAdapterId(loaded, a) = (CHOOSE i \in places : \A k \in places : i <= k) - 1
  BY DEF Client!LoraAdapterId
<1>2. places \subseteq 1 .. Len(loaded) /\ Len(loaded) \in Nat
  OBVIOUS
<1>3. \E i \in places : \A k \in places : i <= k
  <2>1. places \subseteq Nat
    BY <1>2
  <2> HIDE DEF places
  <2> QED  BY <1>1, <2>1, LeastNumber
<1>4. (CHOOSE i \in places : \A k \in places : i <= k) \in places
  <2> HIDE DEF places
  <2> QED  BY <1>3
<1>5. PICK i \in 1 .. Len(loaded) :
        FileName[loaded[i]] = FileName[a] /\ Client!LoraAdapterId(loaded, a) = i - 1
  <2> DEFINE i == CHOOSE i \in places : \A k \in places : i <= k
  <2>1. i \in places /\ Client!LoraAdapterId(loaded, a) = i - 1
    BY <1>1, <1>4
  <2> HIDE DEF i
  <2> QED  BY <1>2, <2>1
<1> QED  BY <1>2, <1>5

\* What an engine loads: paths that name a file, each once, no more than there are tasks.
LEMMA LoadedAre ==
  ASSUME Client!TypeOK, NEW paths \in Client!DeployedAdapters
  PROVE  paths \in Seq(OnDisk) /\ Client!IsInjective(paths) /\ Len(paths) <= Tasks
<1> DEFINE D == {deployed[t] : t \in 1 .. Tasks}
           n == Cardinality(Client!Deployed)
<1>0. n = Client!Cardinality(Client!Deployed)
  BY DEF Cardinality, Client!Cardinality
<1>1. IsFiniteSet(1 .. Tasks) /\ Cardinality(1 .. Tasks) = Tasks
  <2>1. 1 \in Int /\ Tasks \in Int /\ Tasks \in Nat
    BY ClientTypes
  <2>2. /\ IsFiniteSet(1 .. Tasks)
        /\ Cardinality(1 .. Tasks) = IF 1 > Tasks THEN 0 ELSE Tasks - 1 + 1
    BY <2>1, FS_Interval
  <2> QED  BY <2>1, <2>2
<1>2. IsFiniteSet(D) /\ Cardinality(D) <= Cardinality(1 .. Tasks)
  <2>1. deployed \in Surjection(1 .. Tasks, D)
    BY ClientTypes DEF Surjection
  <2> QED  BY <1>1, <2>1, FS_Surjection
<1>3. IsFiniteSet(Client!Deployed) /\ n <= Cardinality(D)
  <2>1. Client!Deployed \in SUBSET D
    BY DEF Client!Deployed, Client!Task
  <2> QED  BY <1>2, <2>1, FS_Subset
<1>4. n \in Nat /\ n <= Tasks
  <2>1. n \in Nat /\ Cardinality(D) \in Nat
    BY <1>2, <1>3, FS_CardinalityType
  <2> HIDE DEF n, D
  <2> QED  BY <1>1, <1>2, <1>3, <2>1, ClientTypes
<1>5. /\ paths \in [1 .. n -> Client!Deployed]
      /\ \A i, k \in 1 .. n : i < k => Client!Precedes(paths[i], paths[k])
  <2>1. /\ paths \in [1 .. n -> Client!Deployed]
        /\ \A i, k \in DOMAIN paths : i < k => Client!Precedes(paths[i], paths[k])
    BY <1>0 DEF Client!DeployedAdapters
  <2> HIDE DEF n
  <2>2. DOMAIN paths = 1 .. n
    BY <2>1
  <2> QED  BY <2>1, <2>2
<1> HIDE DEF n
<1>6. Client!Deployed \subseteq OnDisk
  BY DEF Client!Deployed
<1>7. paths \in Seq(OnDisk) /\ Len(paths) = n
  BY <1>4, <1>5, <1>6
<1>8. \A i, k \in 1 .. n : i < k => paths[i] # paths[k]
  BY <1>5, ClientTypes DEF Client!Precedes, Client!Task
<1>9. Client!IsInjective(paths)
  BY <1>4, <1>5, <1>8 DEF Client!IsInjective
<1> QED  BY <1>4, <1>7, <1>9

LEMMA ClientInit == Init => ClientInv
<1> SUFFICES ASSUME Init PROVE ClientInv
  OBVIOUS
<1>1. Client!Init
  BY DEF Init
<1>2. Tasks \in Nat /\ 0 \in 0 .. Tasks /\ 0 \in 0 .. MaxChanges /\ <<>> \in Seq(OnDisk)
  BY DEF Client!AdapterClientAssumption
<1>3. /\ engine = [number |-> 0, up |-> FALSE, loaded |-> <<>>]
      /\ client = [a \in Adapter \cup {None} |-> [known |-> FALSE, id |-> None, engine |-> 0]]
      /\ execution = [at |-> "idle", adapter |-> None] /\ changes = 0
      /\ deployed = [t \in 1 .. Tasks |-> None]
      /\ reply.wanted = None /\ reply.got = None
  BY <1>1 DEF Client!Init, Client!NoClient, Client!Waiting, Client!MaybeAdapter, Client!Task,
              Client!NoReply
<1>4. engine \in [number : Nat, up : BOOLEAN, loaded : Seq(OnDisk)] /\ engine.number = 0
      /\ engine.loaded = <<>> /\ Len(engine.loaded) <= Tasks
  BY <1>2, <1>3
<1>5. Client!IsInjective(engine.loaded)
  BY <1>4 DEF Client!IsInjective
<1>6. client \in [Adapter \cup {None} ->
              [known : BOOLEAN, id : (0 .. Tasks) \cup {None}, engine : 0 .. engine.number]]
  BY <1>3, <1>4
<1>7. Client!TypeOK
  BY <1>2, <1>3, <1>4, <1>5, <1>6 DEF Client!TypeOK, Client!MaybeAdapter, Client!MaybeId, Client!Task
<1>8. Numbered /\ execution.at # "request"
  BY <1>3 DEF Numbered
<1>9. Client!AdapterIsTheTasks
  BY <1>3 DEF Client!AdapterIsTheTasks
<1> QED  BY <1>4, <1>7, <1>8, <1>9 DEF ClientInv

\* The parts of the invariant that a step can leave as they are.
LEMMA ClientKeeps ==
  ASSUME ClientInv, UNCHANGED <<engine, client>>,
         deployed' \in [1 .. Tasks -> Adapter \cup {None}],
         execution' \in [at : {"idle", "params", "resolve", "request"}, adapter : Adapter \cup {None}],
         execution'.at = "request" => client[execution'.adapter].known,
         {reply'.wanted, reply'.got} \subseteq Adapter \cup {None},
         Client!AdapterIsTheTasks', changes' \in 0 .. MaxChanges
  PROVE  ClientInv'
<1>1. Client!TypeOK'
  BY DEF ClientInv, Client!TypeOK, Client!MaybeAdapter, Client!MaybeId, Client!Task,
         Client!IsInjective
<1>2. Numbered'
  BY DEF ClientInv, Numbered
<1> QED  BY <1>1, <1>2 DEF ClientInv

\* An engine that starts has a new number, which no client has yet.
LEMMA EngineStarts ==
  ASSUME ClientInv, Client!Start, UNCHANGED <<deployed, client, reply>>,
         execution' \in [at : {"idle", "params", "resolve", "request"}, adapter : Adapter \cup {None}],
         execution'.at = "request" => client[execution'.adapter].known,
         changes' \in 0 .. MaxChanges
  PROVE  ClientInv'
<1>0. Client!TypeOK /\ Numbered
  BY DEF ClientInv
<1>1. PICK paths \in Client!DeployedAdapters :
        engine' = [number |-> engine.number + 1, up |-> TRUE, loaded |-> paths]
  BY DEF Client!Start
<1>2. paths \in Seq(OnDisk) /\ Client!IsInjective(paths) /\ Len(paths) <= Tasks
  BY <1>0, LoadedAre
<1>3. engine.number \in Nat /\ engine.number + 1 \in Nat
  BY <1>0, ClientTypes
<1>4. /\ engine' \in [number : Nat, up : BOOLEAN, loaded : Seq(OnDisk)]
      /\ engine'.number = engine.number + 1 /\ engine'.up = TRUE /\ engine'.loaded = paths
  BY <1>1, <1>2, <1>3
<1>5. 0 .. engine.number \subseteq 0 .. engine'.number
  BY <1>3, <1>4
<1>6. client' \in [Adapter \cup {None} ->
              [known : BOOLEAN, id : (0 .. Tasks) \cup {None}, engine : 0 .. engine'.number]]
  <2>1. /\ client' \in [Adapter \cup {None} ->
              [known : BOOLEAN, id : (0 .. Tasks) \cup {None}, engine : 0 .. engine.number]]
    BY <1>0, ClientTypes
  <2> QED  BY <1>5, <2>1
<1>7. Client!IsInjective(engine'.loaded)
  BY <1>2, <1>4
<1>8. Client!TypeOK'
  BY <1>0, <1>2, <1>4, <1>6, <1>7, ClientTypes
     DEF Client!TypeOK, Client!MaybeAdapter, Client!MaybeId, Client!Task, Client!IsInjective
<1>9. \A a \in Adapter \cup {None} : client[a].engine # engine'.number
  BY <1>0, <1>3, <1>4, ClientTypes
<1>10. Numbered'
  BY <1>0, <1>9 DEF Numbered
<1>11. Client!AdapterIsTheTasks'
  BY DEF ClientInv, Client!AdapterIsTheTasks
<1> QED  BY <1>2, <1>4, <1>8, <1>10, <1>11 DEF ClientInv

LEMMA ClientBegins ==
  ASSUME ClientInv, NEW t \in Client!Task, Client!Begin(t)
  PROVE  ClientInv'
<1>0. Client!TypeOK
  BY DEF ClientInv
<1>1. Client!LoraOf(Client!TaskConfig(t)) \in Adapter \cup {None}
  BY <1>0, ClientTypes DEF Client!LoraOf, Client!TaskConfig, Client!Task
<1>2. /\ execution' \in [at : {"idle", "params", "resolve", "request"}, adapter : Adapter \cup {None}]
      /\ execution'.at # "request"
  BY <1>1 DEF Client!Begin
<1>3. reply'.wanted = None /\ reply'.got = None
  BY DEF Client!Begin, Client!NoReply
<1>4. Client!AdapterIsTheTasks'
  BY <1>3 DEF Client!AdapterIsTheTasks
<1> QED  BY <1>0, <1>2, <1>3, <1>4, ClientTypes, ClientKeeps DEF Client!Begin

LEMMA ClientGets ==
  ASSUME ClientInv, Client!GetClient
  PROVE  ClientInv'
<1>0. Client!TypeOK
  BY DEF ClientInv
<1>1. /\ execution' \in [at : {"idle", "params", "resolve", "request"}, adapter : Adapter \cup {None}]
      /\ execution'.adapter = execution.adapter
      /\ execution'.at = "request" => client[execution.adapter].known
  BY <1>0, ClientTypes DEF Client!GetClient, Client!Goto, Client!Known, Client!Adapted
<1>2. Client!AdapterIsTheTasks /\ {reply.wanted, reply.got} \subseteq Adapter \cup {None}
  BY <1>0 DEF ClientInv, Client!TypeOK, Client!MaybeAdapter
<1>3. CASE UNCHANGED engine
  <2>1. Client!AdapterIsTheTasks'
    BY <1>2 DEF Client!AdapterIsTheTasks, Client!GetClient
  <2> QED  BY <1>0, <1>1, <1>2, <1>3, <2>1, ClientTypes, ClientKeeps DEF Client!GetClient
<1>4. CASE Client!Start
  BY <1>0, <1>1, <1>4, ClientTypes, EngineStarts DEF Client!GetClient
<1> QED  BY <1>3, <1>4 DEF Client!GetClient

\* A client is built for the engine that is asked, and cites its number.
LEMMA ClientResolves ==
  ASSUME ClientInv, Client!Resolve
  PROVE  ClientInv'
<1> DEFINE a == execution.adapter
           id == IF a = None THEN None ELSE Client!LoraAdapterId(engine.loaded, a)
<1>0. Client!TypeOK /\ Numbered
  BY DEF ClientInv
<1>1. /\ a \in Adapter \cup {None}
      /\ a # None => engine.up /\ Client!LoraAdapterId(engine.loaded, a) # None
      /\ client' = [client EXCEPT ![a] = [known |-> TRUE, engine |-> engine.number, id |-> id]]
      /\ execution' = [execution EXCEPT !.at = "request"]
      /\ UNCHANGED <<deployed, engine, reply, changes>>
  BY <1>0, ClientTypes DEF Client!Resolve, Client!Goto, Client!Adapted
<1>2. a # None => /\ id \in 0 .. Len(engine.loaded) - 1
                  /\ id + 1 \in 1 .. Len(engine.loaded)
                  /\ FileName[engine.loaded[id + 1]] = FileName[a]
  <2> SUFFICES ASSUME a # None
               PROVE  /\ id \in 0 .. Len(engine.loaded) - 1
                      /\ id + 1 \in 1 .. Len(engine.loaded)
                      /\ FileName[engine.loaded[id + 1]] = FileName[a]
    OBVIOUS
  <2>1. engine.loaded \in Seq(OnDisk)
    BY <1>0, ClientTypes
  <2>2. a \in Adapter /\ id = Client!LoraAdapterId(engine.loaded, a) /\ id # None
    BY <1>1
  <2> HIDE DEF a, id
  <2> QED  BY <2>1, <2>2, LoraId
<1>3. Len(engine.loaded) \in Nat /\ Len(engine.loaded) <= Tasks
  BY <1>0, ClientTypes DEF ClientInv
<1>4. id \in (0 .. Tasks) \cup {None} /\ (id = None <=> a = None)
  <2>1. CASE a = None
    BY <2>1
  <2>2. CASE a # None
    <3> HIDE DEF id
    <3>1. id \in 0 .. Tasks
      BY <1>0, <1>2, <1>3, <2>2, ClientTypes
    <3> QED  BY <1>0, <2>2, <3>1, ClientTypes
  <2> QED  BY <2>1, <2>2
<1> HIDE DEF id
<1>5. /\ client'[a] = [known |-> TRUE, engine |-> engine.number, id |-> id]
      /\ \A b \in Adapter \cup {None} : b # a => client'[b] = client[b]
      /\ client' \in [Adapter \cup {None} ->
              [known : BOOLEAN, id : (0 .. Tasks) \cup {None}, engine : 0 .. engine.number]]
  <2>1. engine.number \in 0 .. engine.number
    BY <1>0, ClientTypes
  <2>2. [known |-> TRUE, engine |-> engine.number, id |-> id] \in
          [known : BOOLEAN, id : (0 .. Tasks) \cup {None}, engine : 0 .. engine.number]
    BY <1>4, <2>1
  <2> HIDE DEF a
  <2> QED  BY <1>0, <1>1, <2>2, ClientTypes
<1>6. /\ execution' \in [at : {"idle", "params", "resolve", "request"}, adapter : Adapter \cup {None}]
      /\ execution'.adapter = a
  BY <1>0, <1>1, ClientTypes
<1>7. Client!TypeOK'
  BY <1>0, <1>1, <1>5, <1>6
     DEF Client!TypeOK, Client!MaybeAdapter, Client!MaybeId, Client!Task, Client!IsInjective
<1>8. Numbered'
  <2> SUFFICES ASSUME NEW b \in Adapter \cup {None}, client'[b].known
               PROVE  /\ client'[b].id = None <=> b = None
                      /\ b # None /\ engine.up /\ client'[b].engine = engine.number =>
                           /\ client'[b].id + 1 \in 1 .. Len(engine.loaded)
                           /\ FileName[engine.loaded[client'[b].id + 1]] = FileName[b]
    BY <1>1 DEF Numbered
  <2>1. CASE b = a
    BY <1>2, <1>4, <1>5, <2>1
  <2>2. CASE b # a
    BY <1>0, <1>5, <2>2 DEF Numbered
  <2> QED  BY <2>1, <2>2
<1>9. Client!AdapterIsTheTasks'
  BY <1>1 DEF ClientInv, Client!AdapterIsTheTasks
<1> QED  BY <1>1, <1>5, <1>6, <1>7, <1>8, <1>9 DEF ClientInv

LEMMA ClientLeaves ==
  ASSUME ClientInv, Client!NotLoaded \/ Client!End
  PROVE  ClientInv'
<1>0. Client!TypeOK
  BY DEF ClientInv
<1>1. /\ execution' = [at |-> "idle", adapter |-> None]
      /\ UNCHANGED <<deployed, engine, client, reply, changes>>
  BY DEF Client!NotLoaded, Client!End, Client!Gone, Client!Waiting
<1>2. /\ execution' \in [at : {"idle", "params", "resolve", "request"}, adapter : Adapter \cup {None}]
      /\ execution'.at # "request"
  BY <1>1
<1>3. {reply'.wanted, reply'.got} \subseteq Adapter \cup {None}
  BY <1>0, <1>1 DEF Client!TypeOK, Client!MaybeAdapter
<1>4. Client!AdapterIsTheTasks'
  BY <1>1 DEF ClientInv, Client!AdapterIsTheTasks
<1> QED  BY <1>0, <1>1, <1>2, <1>3, <1>4, ClientTypes, ClientKeeps

\* The number cited is that of the adapter, as long as the engine is the same one.
LEMMA ClientRequests ==
  ASSUME ClientInv, Client!Request
  PROVE  ClientInv'
<1> DEFINE a == execution.adapter
           c == client[a]
<1>0. Client!TypeOK /\ Numbered
  BY DEF ClientInv
<1>1. /\ execution.at = "request" /\ a \in Adapter \cup {None} /\ c.known
      /\ engine.up
      /\ c.id # None => c.id < Len(engine.loaded)
      /\ UNCHANGED <<deployed, engine, client, execution, changes>>
  BY <1>0, ClientTypes DEF ClientInv, Client!Request, Client!At, Client!Served, Client!Known,
                           Client!Adapted
<1>2. /\ reply'.wanted = a /\ reply'.loaded = engine.loaded
      /\ reply'.got = IF c.id = None THEN None ELSE engine.loaded[c.id + 1]
      /\ reply'.replaced = (c.engine # engine.number)
  BY DEF Client!Request, Client!Cite, Client!Applied, Client!Known, Client!Adapted
<1>3. c.id = None <=> a = None
  BY <1>0, <1>1 DEF Numbered
<1>4. CASE a = None
  <2>1. reply'.got = None
    BY <1>2, <1>3, <1>4
  <2>2. Client!AdapterIsTheTasks'
    BY <1>2, <1>4, <2>1 DEF Client!AdapterIsTheTasks
  <2> QED  BY <1>0, <1>1, <1>2, <1>4, <2>1, <2>2, ClientTypes, ClientKeeps
<1>5. CASE a # None
  <2>1. c.id \in 0 .. Tasks /\ c.id + 1 \in 1 .. Len(engine.loaded)
    <3>1. c.id \in (0 .. Tasks) \cup {None}
      BY <1>0, <1>1, ClientTypes
    <3>2. Tasks \in Nat /\ Len(engine.loaded) \in Nat
      BY <1>0, ClientTypes
    <3> HIDE DEF c
    <3> QED  BY <1>1, <1>3, <1>5, <3>1, <3>2
  <2>2. reply'.got = engine.loaded[c.id + 1] /\ reply'.got \in Adapter /\ reply'.got # None
    BY <1>0, <1>2, <1>3, <1>5, <2>1, ClientTypes
  <2>3. CASE c.engine = engine.number
    <3>1. FileName[engine.loaded[c.id + 1]] = FileName[a]
      BY <1>0, <1>1, <1>5, <2>3 DEF Numbered
    <3>2. c.id + 1 \in DOMAIN reply'.loaded
      BY <1>0, <1>2, <2>1, ClientTypes
    <3>3. Client!AdapterIsTheTasks'
      <4> DEFINE i == c.id + 1
      <4>1. i \in DOMAIN reply'.loaded /\ reply'.loaded[i] = reply'.got
            /\ FileName[reply'.loaded[i]] = FileName[reply'.wanted]
        BY <1>2, <2>2, <3>1, <3>2
      <4> HIDE DEF i
      <4> QED  BY <1>2, <1>5, <2>2, <4>1 DEF Client!AdapterIsTheTasks
    <3> QED  BY <1>0, <1>1, <1>2, <2>2, <3>3, ClientTypes, ClientKeeps
  <2>4. CASE c.engine # engine.number
    <3>1. Client!AdapterIsTheTasks'
      BY <1>2, <1>5, <2>2, <2>4 DEF Client!AdapterIsTheTasks
    <3> QED  BY <1>0, <1>1, <1>2, <2>2, <3>1, ClientTypes, ClientKeeps
  <2> QED  BY <2>3, <2>4
<1> QED  BY <1>4, <1>5

LEMMA ClientChanges ==
  ASSUME Client!TypeOK, Client!Changes
  PROVE  changes' \in 0 .. MaxChanges
BY ClientTypes DEF Client!Changes

LEMMA ClientDeploys ==
  ASSUME ClientInv, NEW t \in Client!Task, NEW a \in Adapter \cup {None}, Client!Deploy(t, a)
  PROVE  ClientInv'
<1>0. Client!TypeOK
  BY DEF ClientInv
<1>1. /\ deployed' \in [1 .. Tasks -> Adapter \cup {None}] /\ changes' \in 0 .. MaxChanges
      /\ UNCHANGED <<engine, client, execution, reply>>
  BY <1>0, ClientTypes, ClientChanges DEF Client!Deploy
<1>2. {reply'.wanted, reply'.got} \subseteq Adapter \cup {None}
  BY <1>0, <1>1 DEF Client!TypeOK, Client!MaybeAdapter
<1>3. Client!AdapterIsTheTasks'
  BY <1>1 DEF ClientInv, Client!AdapterIsTheTasks
<1>4. execution'.at = "request" => client[execution'.adapter].known
  BY <1>1 DEF ClientInv
<1> QED  BY <1>0, <1>1, <1>2, <1>3, <1>4, ClientTypes, ClientKeeps

LEMMA ClientRestarted ==
  ASSUME ClientInv, Client!EngineRestarts
  PROVE  ClientInv'
<1>0. Client!TypeOK /\ (execution.at = "request" => client[execution.adapter].known)
  BY DEF ClientInv
<1> QED  BY <1>0, ClientTypes, ClientChanges, EngineStarts DEF Client!EngineRestarts

LEMMA ClientEngineEnds ==
  ASSUME ClientInv, Client!EngineEnds
  PROVE  ClientInv'
<1>0. Client!TypeOK /\ Numbered
  BY DEF ClientInv
<1>1. /\ UNCHANGED <<deployed, client, execution, reply>> /\ changes' \in 0 .. MaxChanges
      /\ engine' = [engine EXCEPT !.up = FALSE, !.loaded = <<>>]
  BY <1>0, ClientChanges DEF Client!EngineEnds
<1>2. <<>> \in Seq(OnDisk) /\ Len(<<>>) = 0 /\ 0 <= Tasks
  BY <1>0, ClientTypes
<1>3. /\ engine' \in [number : Nat, up : BOOLEAN, loaded : Seq(OnDisk)]
      /\ engine'.number = engine.number /\ engine'.up = FALSE /\ engine'.loaded = <<>>
  BY <1>1, <1>2 DEF ClientInv
<1>4. Client!TypeOK'
  BY <1>0, <1>1, <1>3
     DEF Client!TypeOK, Client!MaybeAdapter, Client!MaybeId, Client!Task, Client!IsInjective
<1>5. Numbered'
  BY <1>0, <1>1, <1>3 DEF Numbered
<1>6. Client!AdapterIsTheTasks'
  BY <1>1 DEF ClientInv, Client!AdapterIsTheTasks
<1> QED  BY <1>1, <1>2, <1>3, <1>4, <1>5, <1>6 DEF ClientInv

LEMMA ClientWorkerRestarts ==
  ASSUME ClientInv, Client!WorkerRestarts
  PROVE  ClientInv'
<1>0. Client!TypeOK
  BY DEF ClientInv
<1>1. /\ client' = [a \in Adapter \cup {None} |-> [known |-> FALSE, id |-> None, engine |-> 0]]
      /\ execution' = [at |-> "idle", adapter |-> None]
      /\ reply'.wanted = None /\ reply'.got = None
      /\ UNCHANGED <<deployed, engine>> /\ changes' \in 0 .. MaxChanges
  BY <1>0, ClientChanges DEF Client!WorkerRestarts, Client!NoClient, Client!NoReply, Client!Gone,
                             Client!Waiting
<1>2. 0 \in 0 .. engine.number
  BY <1>0, ClientTypes
<1>3. client' \in [Adapter \cup {None} ->
              [known : BOOLEAN, id : (0 .. Tasks) \cup {None}, engine : 0 .. engine.number]]
  BY <1>1, <1>2
<1>4. Client!TypeOK'
  BY <1>0, <1>1, <1>3
     DEF Client!TypeOK, Client!MaybeAdapter, Client!MaybeId, Client!Task, Client!IsInjective
<1>5. Numbered' /\ Client!AdapterIsTheTasks'
  BY <1>1 DEF Numbered, Client!AdapterIsTheTasks
<1> QED  BY <1>1, <1>4, <1>5 DEF ClientInv

LEMMA ClientNext ==
  ASSUME ClientInv, Client!ClientStep
  PROVE  ClientInv'
BY ClientBegins, ClientGets, ClientResolves, ClientLeaves, ClientRequests, ClientDeploys,
   ClientRestarted, ClientEngineEnds, ClientWorkerRestarts
   DEF Client!ClientStep

LEMMA ClientStutter ==
  ASSUME ClientInv, UNCHANGED clientVars
  PROVE  ClientInv'
BY DEF ClientInv, clientVars, Client!TypeOK, Client!IsInjective, Numbered, Client!AdapterIsTheTasks

-----------------------------------------------------------------------------
(* Theorems *)

\* Whatever part a step is about, each of them takes a step of its own or none.
LEMMA PartSteps ==
  ASSUME [Next]_vars
  PROVE  /\ Registry!RegistryStep \/ UNCHANGED registryVars
         /\ Pool!PoolStep \/ UNCHANGED poolVars
         /\ Engine!EngineStep \/ UNCHANGED engineVars
         /\ Client!ClientStep \/ UNCHANGED clientVars
         /\ Agent!Next \/ UNCHANGED agentVars
         /\ Store!StoreStep \/ UNCHANGED storeVars
         /\ Graph!GraphStep \/ UNCHANGED graphVars
         /\ Think!ThinkStep \/ UNCHANGED thinkVars
         /\ Session!SessionStep \/ UNCHANGED sessionVars
BY DEF Next, AgentPart, EnginePart, RegistryPart, PoolPart, ClientPart, StorePart, GraphPart,
       ThinkPart, SessionPart, vars

\* A worker that runs is registered as online, whatever processes share its id, end
\* or restart; and the supervisor of the voice workers has every one of them in its
\* list until it is gone.
THEOREM WorkersAccounted == Spec => []WorkersAreAccountedFor
<1>1. Init => RegistryInv /\ PoolInv
  BY RegistryInit, PoolInit
<1>2. RegistryInv /\ PoolInv /\ [Next]_vars => (RegistryInv /\ PoolInv)'
  <2> SUFFICES ASSUME RegistryInv, PoolInv, [Next]_vars PROVE RegistryInv' /\ PoolInv'
    OBVIOUS
  <2>1. Registry!RegistryStep \/ UNCHANGED registryVars
    BY PartSteps
  <2>2. Pool!PoolStep \/ UNCHANGED poolVars
    BY PartSteps
  <2> QED  BY <2>1, <2>2, RegistryNext, RegistryStutter, PoolNext, PoolStutter
<1>3. RegistryInv /\ PoolInv => WorkersAreAccountedFor
  BY DEF RegistryInv, PoolInv, WorkersAreAccountedFor
<1> QED  BY <1>1, <1>2, <1>3, PTL DEF Spec

\* A llama-server that runs is still known to the process that started it, or that
\* process was killed, or a health check was answered too late; and a task is answered
\* with its own adapter, whatever is deployed and however often engine and worker
\* restart.
THEOREM EngineKnown == Spec => []EngineIsKnown
<1>1. Init => EngineInv /\ ClientInv
  BY EngineInit, ClientInit
<1>2. EngineInv /\ ClientInv /\ [Next]_vars => (EngineInv /\ ClientInv)'
  <2> SUFFICES ASSUME EngineInv, ClientInv, [Next]_vars PROVE EngineInv' /\ ClientInv'
    OBVIOUS
  <2>1. Engine!EngineStep \/ UNCHANGED engineVars
    BY PartSteps
  <2>2. Client!ClientStep \/ UNCHANGED clientVars
    BY PartSteps
  <2> QED  BY <2>1, <2>2, EngineNext, EngineStutter, ClientNext, ClientStutter
<1>3. EngineInv /\ ClientInv => EngineIsKnown
  BY DEF EngineInv, ClientInv, EngineIsKnown
<1> QED  BY <1>1, <1>2, <1>3, PTL DEF Spec


-----------------------------------------------------------------------------
(* The steps of an agent *)

NoRepeats(s) == \A i \in 2 .. Len(s) : s[i].ran => s[i].request # s[i - 1].request

Acts(w) == pc[w] # "idle"

\* The row's attempt has been issued, and every worker has one of its own.
AttemptsOfAgents ==
  /\ row.attempt <= issued
  /\ Agent!Claimed(row) <=> row.attempt # 0
  /\ \A w \in Worker : Acts(w) => job[w].attempt \in 1 .. issued
  /\ \A w, v \in Worker : w # v /\ Acts(w) /\ Acts(v) => job[w].attempt # job[v].attempt

\* A transcript has one entry a step, and the worker that holds the row adds to it.
HistoryKept ==
  /\ row.step = Len(row.transcript) /\ NoRepeats(row.transcript)
  /\ \A w \in Worker : Acts(w) => job[w].step = Len(job[w].transcript) /\ NoRepeats(job[w].transcript)
  /\ \A w \in Worker : pc[w] \in {"step", "progress"} /\ job[w].attempt = row.attempt
                         => Agent!IsPrefix(row.transcript, job[w].transcript)

\* The backend is given what has a result.
ResultFirst ==
  /\ row.phase = "backend_finalization" => row.status = "running" /\ row.result # 0
  /\ \A w \in Worker : pc[w] = "handover" => row.result # 0

AgentInv ==
  /\ Agent!TypeOK /\ AttemptsOfAgents /\ HistoryKept /\ ResultFirst /\ Agent!ToldOfTheEnd

AgentRow ==
  [status : {"queued", "running", "waiting", "completed", "failed", "cancelled"},
   phase : {"none", "worker_execution", "backend_finalization"},
   owner : Worker \cup {NoWorker}, attempt : Nat, step : 0 .. MaxSteps,
   transcript : Seq(Agent!Entry), result : Nat]

AgentJob == [attempt : Nat, step : 0 .. MaxSteps, transcript : Seq(Agent!Entry)]

LEMMA AgentTypes ==
  ASSUME Agent!TypeOK
  PROVE  /\ row \in AgentRow /\ issued \in Nat
         /\ pc \in [Worker -> {"idle", "step", "progress", "requeue", "result", "handover",
                               "fail", "ask"}]
         /\ job \in [Worker -> AgentJob] /\ told \subseteq 1 .. issued
         /\ mishaps \in 0 .. MaxMishaps /\ MaxMishaps \in Nat /\ MaxSteps \in Nat
BY DEF Agent!TypeOK, Agent!Status, Agent!Phase, Agent!Place, AgentRow, AgentJob,
       Agent!AgentStepAssumption

LEMMA PrefixOfItself ==
  ASSUME NEW S, NEW s \in Seq(S)
  PROVE  Agent!IsPrefix(s, s)
BY DEF Agent!IsPrefix

\* What is a prefix of a sequence is one of any that goes on from it.
LEMMA PrefixOfAppend ==
  ASSUME NEW S, NEW s \in Seq(S), NEW t \in Seq(S), NEW e \in S, Agent!IsPrefix(s, t)
  PROVE  Agent!IsPrefix(s, Append(t, e))
<1>1. Len(s) <= Len(t) /\ SubSeq(s, 1, Len(s)) = SubSeq(t, 1, Len(s))
  BY DEF Agent!IsPrefix
<1>2. SubSeq(Append(t, e), 1, Len(s)) = SubSeq(t, 1, Len(s))
  BY <1>1
<1> QED  BY <1>1, <1>2 DEF Agent!IsPrefix

\* An entry that was run does not repeat the request before it.
LEMMA NoRepeatsAppend ==
  ASSUME NEW t \in Seq(Agent!Entry), NoRepeats(t), NEW e \in Agent!Entry,
         t # <<>> /\ e.ran => t[Len(t)].request # e.request
  PROVE  NoRepeats(Append(t, e)) /\ Append(t, e) \in Seq(Agent!Entry)
         /\ Len(Append(t, e)) = Len(t) + 1
<1>1. Len(Append(t, e)) = Len(t) + 1 /\ Append(t, e) \in Seq(Agent!Entry) /\ Len(t) \in Nat
  OBVIOUS
<1>2. ASSUME NEW i \in 2 .. Len(t) + 1, Append(t, e)[i].ran
      PROVE  Append(t, e)[i].request # Append(t, e)[i - 1].request
  <2>1. CASE i = Len(t) + 1
    <3>1. Append(t, e)[i] = e /\ i - 1 = Len(t) /\ Append(t, e)[i - 1] = t[Len(t)] /\ t # <<>>
      BY <1>1, <1>2, <2>1
    <3> QED  BY <1>2, <3>1
  <2>2. CASE i # Len(t) + 1
    <3>1. i \in 2 .. Len(t) /\ Append(t, e)[i] = t[i] /\ Append(t, e)[i - 1] = t[i - 1]
      BY <1>1, <1>2, <2>2
    <3> QED  BY <1>2, <3>1 DEF NoRepeats
  <2> QED  BY <2>1, <2>2
<1> QED  BY <1>1, <1>2 DEF NoRepeats

LEMMA AgentInit == Init => AgentInv
<1> SUFFICES ASSUME Init PROVE AgentInv
  OBVIOUS
<1>1. /\ row = [status |-> "queued", phase |-> "none", owner |-> NoWorker,
                attempt |-> 0, step |-> 0, transcript |-> <<>>, result |-> 0]
      /\ issued = 0 /\ pc = [w \in Worker |-> "idle"] /\ told = {} /\ mishaps = 0
      /\ job = [w \in Worker |-> [attempt |-> 0, step |-> 0, transcript |-> <<>>]]
  BY DEF Init, Agent!Init, Agent!NewRow, Agent!NoJob, Agent!NoAttempt
<1>2. 0 \in 0 .. MaxSteps /\ 0 \in 0 .. MaxMishaps /\ <<>> \in Seq(Agent!Entry)
  BY DEF Agent!AgentStepAssumption
<1>3. row \in AgentRow
  BY <1>1, <1>2 DEF AgentRow
<1>4. job \in [Worker -> AgentJob]
  BY <1>1, <1>2 DEF AgentJob
<1>5. Agent!TypeOK
  BY <1>1, <1>2, <1>3, <1>4
     DEF Agent!TypeOK, Agent!Status, Agent!Phase, Agent!Place, AgentRow, AgentJob
<1>6. AttemptsOfAgents
  BY <1>1 DEF AttemptsOfAgents, Acts, Agent!Claimed
<1>7. HistoryKept
  BY <1>1 DEF HistoryKept, NoRepeats, Acts
<1>8. ResultFirst /\ Agent!ToldOfTheEnd
  BY <1>1 DEF ResultFirst, Agent!ToldOfTheEnd
<1> QED  BY <1>5, <1>6, <1>7, <1>8 DEF AgentInv

\* A step that adds nothing to a transcript and takes no claim: what it may do to the
\* row and to the workers.
LEMMA AgentMoves ==
  ASSUME AgentInv, row' \in AgentRow, UNCHANGED issued,
         row'.step = row.step, row'.transcript = row.transcript,
         row'.attempt \in {row.attempt, 0}, Agent!Claimed(row') <=> row'.attempt # 0,
         row.result # 0 => row'.result # 0,
         row'.phase = "backend_finalization" => row'.status = "running" /\ row'.result # 0,
         pc' \in [Worker -> {"idle", "step", "progress", "requeue", "result", "handover",
                             "fail", "ask"}],
         job' \in [Worker -> AgentJob], told' \subseteq 1 .. issued, mishaps' \in 0 .. MaxMishaps,
         \A v \in Worker :
           \/ pc'[v] = "idle"
           \/ /\ Acts(v) /\ job'[v] = job[v]
              /\ pc'[v] \in {"step", "progress"} => pc'[v] = pc[v]
              /\ pc'[v] = "handover" => row'.result # 0
  PROVE  Agent!TypeOK' /\ AttemptsOfAgents' /\ HistoryKept' /\ ResultFirst'
<1>0. Agent!TypeOK /\ AttemptsOfAgents /\ HistoryKept /\ ResultFirst
  BY DEF AgentInv
<1>1. Agent!TypeOK'
  BY DEF Agent!TypeOK, Agent!Status, Agent!Phase, Agent!Place, AgentRow, AgentJob,
         AgentInv
<1>2. AttemptsOfAgents'
  <2>1. row'.attempt <= issued
    BY <1>0, AgentTypes DEF AttemptsOfAgents, AgentRow
  <2>2. \A v \in Worker : pc'[v] # "idle" => Acts(v) /\ job'[v] = job[v]
    OBVIOUS
  <2> QED  BY <1>0, <2>1, <2>2 DEF AttemptsOfAgents, Acts, Agent!Claimed
<1>3. HistoryKept'
  <2>1. ASSUME NEW v \in Worker, pc'[v] # "idle"
        PROVE  job'[v].step = Len(job'[v].transcript) /\ NoRepeats(job'[v].transcript)
    BY <1>0, <2>1 DEF HistoryKept
  <2>2. ASSUME NEW v \in Worker, pc'[v] \in {"step", "progress"}, job'[v].attempt = row'.attempt
        PROVE  Agent!IsPrefix(row'.transcript, job'[v].transcript)
    <3>1. Acts(v) /\ job'[v] = job[v] /\ pc'[v] = pc[v]
      BY <2>2
    <3>2. job[v].attempt # 0
      BY <1>0, <3>1, AgentTypes DEF AttemptsOfAgents
    <3>3. job[v].attempt = row.attempt
      BY <2>2, <3>1, <3>2
    <3> QED  BY <1>0, <2>2, <3>1, <3>3 DEF HistoryKept
  <2> QED  BY <1>0, <2>1, <2>2 DEF HistoryKept, Acts, NoRepeats, Agent!IsPrefix
<1>4. ResultFirst'
  BY <1>0 DEF ResultFirst
<1> QED  BY <1>1, <1>2, <1>3, <1>4

\* What an update of the status leaves of the row, and whether of the claim.
LEMMA AgentStatus ==
  ASSUME row \in AgentRow,
         NEW s \in {"queued", "running", "waiting", "completed", "failed", "cancelled"},
         NEW p \in {"none", "worker_execution", "backend_finalization"},
         row' = Agent!SetStatus(row, s, p)
  PROVE  /\ row' \in AgentRow /\ row'.status = s /\ row'.phase = p
         /\ row'.step = row.step /\ row'.transcript = row.transcript /\ row'.result = row.result
         /\ row'.attempt = IF Agent!Releases(s, p) THEN 0 ELSE row.attempt
BY DEF AgentRow, Agent!SetStatus, Agent!NoAttempt

LEMMA AgentClaims ==
  ASSUME AgentInv, NEW w \in Worker, Agent!Claim(w)
  PROVE  AgentInv' /\ row'.transcript = row.transcript
<1>0. Agent!TypeOK /\ AttemptsOfAgents /\ HistoryKept /\ ResultFirst /\ Agent!ToldOfTheEnd
  BY DEF AgentInv
<1> DEFINE j == [attempt |-> issued + 1, step |-> row.step, transcript |-> row.transcript]
<1>1. /\ pc[w] = "idle" /\ row.status = "queued" /\ issued' = issued + 1
      /\ row' = [row EXCEPT !.status = "running", !.phase = "worker_execution",
                            !.owner = w, !.attempt = issued + 1]
      /\ job' = [job EXCEPT ![w] = j] /\ pc' = [pc EXCEPT ![w] = "step"]
      /\ UNCHANGED <<told, mishaps>>
  BY DEF Agent!Claim, Agent!ClaimRow, Agent!GoTo
<1>2. /\ row \in AgentRow /\ issued \in Nat /\ issued + 1 \in Nat
      /\ pc \in [Worker -> {"idle", "step", "progress", "requeue", "result", "handover",
                            "fail", "ask"}]
      /\ job \in [Worker -> AgentJob] /\ told \subseteq 1 .. issued
  BY <1>0, AgentTypes
<1>3. /\ row' \in AgentRow /\ row'.attempt = issued + 1
      /\ row'.status = "running" /\ row'.phase = "worker_execution"
      /\ row'.step = row.step /\ row'.transcript = row.transcript /\ row'.result = row.result
  BY <1>1, <1>2 DEF AgentRow
<1>4. j \in AgentJob
  BY <1>2 DEF AgentRow, AgentJob
<1> HIDE DEF j
<1>5. /\ job' \in [Worker -> AgentJob] /\ job'[w] = j
      /\ \A v \in Worker : v # w => job'[v] = job[v] /\ pc'[v] = pc[v]
      /\ pc' \in [Worker -> {"idle", "step", "progress", "requeue", "result", "handover",
                             "fail", "ask"}]
      /\ pc'[w] = "step"
  BY <1>1, <1>2, <1>4
<1>6. j.attempt = issued + 1 /\ j.step = row.step /\ j.transcript = row.transcript
  BY DEF j
<1>7. Agent!TypeOK'
  <2>1. told' \subseteq 1 .. issued'
    BY <1>1, <1>2
  <2> QED  BY <1>0, <1>1, <1>2, <1>3, <1>5, <2>1
           DEF Agent!TypeOK, Agent!Status, Agent!Phase, Agent!Place, AgentRow, AgentJob
<1>8. AttemptsOfAgents'
  <2>1. \A v \in Worker : v # w /\ pc'[v] # "idle" =>
          job'[v].attempt \in 1 .. issued /\ job'[v].attempt # issued + 1
    BY <1>0, <1>2, <1>5 DEF AttemptsOfAgents, Acts
  <2>2. \A v \in Worker : pc'[v] # "idle" => job'[v].attempt \in 1 .. issued'
    BY <1>1, <1>2, <1>5, <1>6, <2>1
  <2>3. \A v, u \in Worker : v # u /\ pc'[v] # "idle" /\ pc'[u] # "idle"
          => job'[v].attempt # job'[u].attempt
    <3> SUFFICES ASSUME NEW v \in Worker, NEW u \in Worker, v # u, pc'[v] # "idle",
                        pc'[u] # "idle"
                 PROVE  job'[v].attempt # job'[u].attempt
      OBVIOUS
    <3>1. CASE v = w
      BY <1>5, <1>6, <2>1, <3>1
    <3>2. CASE u = w
      BY <1>5, <1>6, <2>1, <3>2
    <3>3. CASE v # w /\ u # w
      BY <1>0, <1>5, <3>3 DEF AttemptsOfAgents, Acts
    <3> QED  BY <3>1, <3>2, <3>3
  <2>4. Agent!Claimed(row') /\ row'.attempt # 0 /\ row'.attempt <= issued'
    BY <1>1, <1>2, <1>3 DEF Agent!Claimed
  <2> QED  BY <2>2, <2>3, <2>4 DEF AttemptsOfAgents, Acts, Agent!Claimed
<1>9. HistoryKept'
  <2>1. row'.step = Len(row'.transcript) /\ NoRepeats(row'.transcript)
    BY <1>0, <1>3 DEF HistoryKept
  <2>2. \A v \in Worker : pc'[v] # "idle" =>
          job'[v].step = Len(job'[v].transcript) /\ NoRepeats(job'[v].transcript)
    BY <1>0, <1>3, <1>5, <1>6, <2>1 DEF HistoryKept, Acts
  <2>3. Agent!IsPrefix(row.transcript, row.transcript)
    BY <1>2, PrefixOfItself DEF AgentRow
  <2>4. ASSUME NEW v \in Worker, pc'[v] \in {"step", "progress"}, job'[v].attempt = row'.attempt
        PROVE  Agent!IsPrefix(row'.transcript, job'[v].transcript)
    <3>1. v = w
      BY <1>0, <1>2, <1>3, <1>5, <2>4 DEF AttemptsOfAgents, Acts
    <3> QED  BY <1>3, <1>5, <1>6, <2>3, <3>1
  <2> QED  BY <2>1, <2>2, <2>4 DEF HistoryKept, Acts, NoRepeats, Agent!IsPrefix
<1>10. ResultFirst'
  BY <1>0, <1>3, <1>5 DEF ResultFirst
<1>11. told = {} /\ Agent!ToldOfTheEnd'
  <2>1. row.phase # "backend_finalization"
    BY <1>0, <1>1 DEF ResultFirst
  <2>2. told = {}
    BY <1>0, <1>1, <2>1 DEF Agent!ToldOfTheEnd
  <2> QED  BY <1>1, <2>2 DEF Agent!ToldOfTheEnd
<1> QED  BY <1>3, <1>7, <1>8, <1>9, <1>10, <1>11 DEF AgentInv

\* A request is recorded in what the worker read; the row is as it was.
LEMMA AgentRecords ==
  ASSUME AgentInv, NEW w \in Worker, pc[w] = "step", job[w].step < MaxSteps,
         NEW request, NEW ran \in BOOLEAN,
         [request |-> request, ran |-> ran] \in Agent!Entry,
         ran => ~ Agent!Repeats(w, request),
         Agent!Records(w, request, ran), UNCHANGED <<row, issued, told, mishaps>>
  PROVE  AgentInv'
<1>0. Agent!TypeOK /\ AttemptsOfAgents /\ HistoryKept /\ ResultFirst /\ Agent!ToldOfTheEnd
  BY DEF AgentInv
<1> DEFINE e == [request |-> request, ran |-> ran]
           t == job[w].transcript
           j == [job[w] EXCEPT !.step = job[w].step + 1, !.transcript = Append(t, e)]
<1>1. /\ row \in AgentRow /\ issued \in Nat /\ MaxSteps \in Nat
      /\ pc \in [Worker -> {"idle", "step", "progress", "requeue", "result", "handover",
                            "fail", "ask"}]
      /\ job \in [Worker -> AgentJob]
  BY <1>0, AgentTypes
<1>2. job' = [job EXCEPT ![w] = j] /\ pc' = [pc EXCEPT ![w] = "progress"]
  BY DEF Agent!Records, Agent!Recorded, Agent!GoTo
<1>3. /\ e \in Agent!Entry /\ t \in Seq(Agent!Entry) /\ NoRepeats(t) /\ job[w].step = Len(t)
      /\ t # <<>> /\ e.ran => t[Len(t)].request # e.request
  BY <1>0, <1>1 DEF HistoryKept, Acts, AgentJob, Agent!Repeats, Agent!Last
<1> HIDE DEF e
<1>4. /\ NoRepeats(Append(t, e)) /\ Append(t, e) \in Seq(Agent!Entry)
      /\ Len(Append(t, e)) = Len(t) + 1
  BY <1>3, NoRepeatsAppend
<1>5. /\ j \in AgentJob /\ j.attempt = job[w].attempt /\ j.transcript = Append(t, e)
      /\ j.step = Len(Append(t, e))
  <2>1. job[w].step + 1 \in 0 .. MaxSteps
    BY <1>1 DEF AgentJob
  <2> QED  BY <1>1, <1>3, <1>4, <2>1 DEF AgentJob
<1> HIDE DEF t, j
<1>6. /\ job' \in [Worker -> AgentJob] /\ job'[w] = j
      /\ \A v \in Worker : v # w => job'[v] = job[v] /\ pc'[v] = pc[v]
      /\ pc' \in [Worker -> {"idle", "step", "progress", "requeue", "result", "handover",
                             "fail", "ask"}]
      /\ pc'[w] = "progress"
  BY <1>1, <1>2, <1>5
<1>7. Agent!TypeOK'
  BY <1>0, <1>6 DEF Agent!TypeOK, Agent!Place, AgentJob
<1>8. AttemptsOfAgents'
  <2>1. \A v \in Worker : job'[v].attempt = job[v].attempt /\ (pc'[v] # "idle" <=> Acts(v))
    BY <1>5, <1>6 DEF Acts
  <2> QED  BY <1>0, <2>1 DEF AttemptsOfAgents, Acts, Agent!Claimed
<1>9. HistoryKept'
  <2>1. \A v \in Worker : pc'[v] # "idle" =>
          job'[v].step = Len(job'[v].transcript) /\ NoRepeats(job'[v].transcript)
    BY <1>0, <1>4, <1>5, <1>6 DEF HistoryKept, Acts
  <2>2. job[w].attempt = row.attempt => Agent!IsPrefix(row.transcript, Append(t, e))
    <3> SUFFICES ASSUME job[w].attempt = row.attempt
                 PROVE  Agent!IsPrefix(row.transcript, Append(t, e))
      OBVIOUS
    <3>1. Agent!IsPrefix(row.transcript, t)
      BY <1>0 DEF HistoryKept, t
    <3>2. row.transcript \in Seq(Agent!Entry)
      BY <1>1 DEF AgentRow
    <3> QED  BY <1>3, <3>1, <3>2, PrefixOfAppend
  <2>3. ASSUME NEW v \in Worker, pc'[v] \in {"step", "progress"}, job'[v].attempt = row.attempt
        PROVE  Agent!IsPrefix(row.transcript, job'[v].transcript)
    BY <1>0, <1>5, <1>6, <2>2, <2>3 DEF HistoryKept
  <2> QED  BY <1>0, <2>1, <2>3 DEF HistoryKept, Acts, NoRepeats, Agent!IsPrefix
<1>10. ResultFirst' /\ Agent!ToldOfTheEnd'
  BY <1>0, <1>6 DEF ResultFirst, Agent!ToldOfTheEnd
<1> QED  BY <1>7, <1>8, <1>9, <1>10 DEF AgentInv
LEMMA AgentSteps ==
  ASSUME AgentInv, NEW w \in Worker, Agent!Step(w)
  PROVE  AgentInv'
<1>0. Agent!TypeOK /\ AttemptsOfAgents /\ HistoryKept /\ ResultFirst /\ Agent!ToldOfTheEnd
  BY DEF AgentInv
<1>1. /\ pc[w] = "step" /\ UNCHANGED <<row, issued, told, mishaps>>
      /\ row \in AgentRow /\ told \subseteq 1 .. issued /\ mishaps \in 0 .. MaxMishaps
      /\ pc \in [Worker -> {"idle", "step", "progress", "requeue", "result", "handover",
                            "fail", "ask"}]
      /\ job \in [Worker -> AgentJob]
  BY <1>0, AgentTypes DEF Agent!Step
<1>2. CASE Agent!FinishStep(w)
  <2>1. pc' = [pc EXCEPT ![w] = "result"] /\ job' = job
    BY <1>2 DEF Agent!FinishStep, Agent!GoTo
  <2>2. /\ pc' \in [Worker -> {"idle", "step", "progress", "requeue", "result", "handover",
                            "fail", "ask"}]
        /\ pc'[w] = "result" /\ \A v \in Worker : v # w => pc'[v] = pc[v]
    BY <1>1, <2>1
  <2>3. \A v \in Worker :
           \/ pc'[v] = "idle"
           \/ /\ Acts(v) /\ job'[v] = job[v]
              /\ pc'[v] \in {"step", "progress"} => pc'[v] = pc[v]
              /\ pc'[v] = "handover" => row'.result # 0
    BY <1>0, <1>1, <2>1, <2>2 DEF Acts, ResultFirst
  <2>4. /\ Agent!Claimed(row') <=> row'.attempt # 0
        /\ row'.phase = "backend_finalization" => row'.status = "running" /\ row'.result # 0
    BY <1>0, <1>1 DEF AttemptsOfAgents, ResultFirst, Agent!Claimed
  <2>5. Agent!TypeOK' /\ AttemptsOfAgents' /\ HistoryKept' /\ ResultFirst'
    BY <1>1, <2>1, <2>2, <2>3, <2>4, AgentMoves
  <2> QED  BY <1>0, <1>1, <2>5 DEF AgentInv, Agent!ToldOfTheEnd
<1>3. CASE job[w].step < MaxSteps /\ Agent!AnswerInvalid(w)
  <2>1. [request |-> "invalid", ran |-> FALSE] \in Agent!Entry
    BY DEF Agent!Entry, Agent!Invalid
  <2>2. Agent!Records(w, "invalid", FALSE)
    BY <1>3 DEF Agent!AnswerInvalid, Agent!Invalid
  <2> QED  BY <1>1, <1>3, <2>1, <2>2, AgentRecords
<1>4. ASSUME job[w].step < MaxSteps, NEW t \in Tool, Agent!RunTool(w, t)
      PROVE  AgentInv'
  <2>1. [request |-> t, ran |-> TRUE] \in Agent!Entry
    BY DEF Agent!Entry
  <2> QED  BY <1>1, <1>4, <2>1, AgentRecords DEF Agent!RunTool
<1>5. ASSUME job[w].step < MaxSteps, NEW t \in Tool \cup {UnknownTool}, Agent!RefuseTool(w, t)
      PROVE  AgentInv'
  <2>1. [request |-> t, ran |-> FALSE] \in Agent!Entry
    BY DEF Agent!Entry
  <2> QED  BY <1>1, <1>5, <2>1, AgentRecords DEF Agent!RefuseTool
<1> QED  BY <1>2, <1>3, <1>4, <1>5 DEF Agent!Step

\* Only the worker that holds the row adds to the transcript, and what it adds to is
\* what it read.
LEMMA AgentStores ==
  ASSUME AgentInv, NEW w \in Worker, Agent!StoreProgress(w)
  PROVE  AgentInv' /\ Agent!IsPrefix(row.transcript, row'.transcript)
<1>0. Agent!TypeOK /\ AttemptsOfAgents /\ HistoryKept /\ ResultFirst /\ Agent!ToldOfTheEnd
  BY DEF AgentInv
<1>1. /\ pc[w] = "progress" /\ row.attempt = job[w].attempt
      /\ row' = [row EXCEPT !.step = job[w].step, !.transcript = job[w].transcript]
      /\ pc' = [pc EXCEPT ![w] = "requeue"]
      /\ UNCHANGED <<issued, job, told, mishaps>>
  BY DEF Agent!StoreProgress, Agent!Holding, Agent!Holds, Agent!GoTo
<1>2. /\ row \in AgentRow /\ job[w] \in AgentJob /\ issued \in Nat
      /\ pc \in [Worker -> {"idle", "step", "progress", "requeue", "result", "handover",
                            "fail", "ask"}]
  BY <1>0, AgentTypes
<1>3. /\ row' \in AgentRow /\ row'.attempt = row.attempt /\ row'.result = row.result
      /\ row'.status = row.status /\ row'.phase = row.phase
      /\ row'.step = job[w].step /\ row'.transcript = job[w].transcript
  BY <1>1, <1>2 DEF AgentRow, AgentJob
<1>4. /\ pc' \in [Worker -> {"idle", "step", "progress", "requeue", "result", "handover",
                             "fail", "ask"}]
      /\ pc'[w] = "requeue" /\ \A v \in Worker : v # w => pc'[v] = pc[v]
  BY <1>1, <1>2
<1>5. Agent!TypeOK'
  BY <1>0, <1>1, <1>3, <1>4
     DEF Agent!TypeOK, Agent!Status, Agent!Phase, Agent!Place, AgentRow
<1>6. \A v \in Worker : pc'[v] # "idle" <=> Acts(v)
  BY <1>1, <1>4 DEF Acts
<1>7. AttemptsOfAgents'
  BY <1>0, <1>1, <1>3, <1>6 DEF AttemptsOfAgents, Acts, Agent!Claimed
<1>8. HistoryKept'
  <2>1. row'.step = Len(row'.transcript) /\ NoRepeats(row'.transcript)
    BY <1>0, <1>1, <1>3 DEF HistoryKept, Acts
  <2>2. \A v \in Worker : pc'[v] # "idle" =>
          job[v].step = Len(job[v].transcript) /\ NoRepeats(job[v].transcript)
    BY <1>0, <1>6 DEF HistoryKept
  <2>3. \A v \in Worker : ~ (pc'[v] \in {"step", "progress"} /\ job[v].attempt = row'.attempt)
    BY <1>0, <1>1, <1>3, <1>4 DEF AttemptsOfAgents, Acts
  <2> QED  BY <1>1, <2>1, <2>2, <2>3 DEF HistoryKept, Acts, NoRepeats, Agent!IsPrefix
<1>9. ResultFirst'
  BY <1>0, <1>3, <1>4 DEF ResultFirst
<1>10. Agent!ToldOfTheEnd'
  BY <1>0, <1>1, <1>3 DEF Agent!ToldOfTheEnd
<1>11. Agent!IsPrefix(row.transcript, row'.transcript)
  BY <1>0, <1>1, <1>3 DEF HistoryKept
<1> QED  BY <1>5, <1>7, <1>8, <1>9, <1>10, <1>11 DEF AgentInv

\* Steps that give the row back: the worker that holds it, or the backend, says how.
LEMMA AgentGivesBack ==
  ASSUME AgentInv, NEW w \in Worker,
         Agent!Requeue(w) \/ Agent!HandOver(w) \/ Agent!Fail(w)
  PROVE  AgentInv' /\ row'.transcript = row.transcript
<1>0. Agent!TypeOK /\ AttemptsOfAgents /\ HistoryKept /\ ResultFirst /\ Agent!ToldOfTheEnd
  BY DEF AgentInv
<1>1. /\ row \in AgentRow /\ job \in [Worker -> AgentJob] /\ issued \in Nat
      /\ told \subseteq 1 .. issued /\ mishaps \in 0 .. MaxMishaps
      /\ pc \in [Worker -> {"idle", "step", "progress", "requeue", "result", "handover",
                            "fail", "ask"}]
  BY <1>0, AgentTypes
<1>2. /\ row.attempt = job[w].attempt /\ Acts(w) /\ UNCHANGED <<issued, mishaps>>
  BY DEF Agent!Requeue, Agent!HandOver, Agent!Fail, Agent!Holding, Agent!Holds, Acts
<1>3. row.status = "running" /\ row.phase = "worker_execution"
  BY <1>0, <1>1, <1>2 DEF AttemptsOfAgents, Agent!Claimed
<1>4. told = {}
  BY <1>0, <1>3 DEF Agent!ToldOfTheEnd
<1>5. PICK s \in {"queued", "running", "failed"}, p \in {"none", "backend_finalization"} :
        /\ row' = Agent!SetStatus(row, s, p)
        /\ \/ s = "queued" /\ p = "none" /\ told' = told
           \/ s = "running" /\ p = "backend_finalization" /\ told' = told /\ pc[w] = "handover"
           \/ s = "failed" /\ p = "none" /\ told' = told \cup {job[w].attempt}
  BY DEF Agent!Requeue, Agent!HandOver, Agent!Fail
<1>6. /\ row' \in AgentRow /\ row'.status = s /\ row'.phase = p
      /\ row'.step = row.step /\ row'.transcript = row.transcript /\ row'.result = row.result
      /\ row'.attempt = IF Agent!Releases(s, p) THEN 0 ELSE row.attempt
  BY <1>1, <1>5, AgentStatus
<1>7. row'.attempt = 0 /\ ~ Agent!Claimed(row')
  BY <1>5, <1>6 DEF Agent!Releases, Agent!Terminal, Agent!Claimed
<1>8. row'.phase = "backend_finalization" => row'.status = "running" /\ row'.result # 0
  BY <1>0, <1>5, <1>6 DEF ResultFirst
<1>9. /\ pc' = [pc EXCEPT ![w] = pc'[w]] /\ pc'[w] \in {"idle", "ask"}
      /\ \/ pc'[w] = "idle"
            /\ job' = [job EXCEPT ![w] = [attempt |-> 0, step |-> 0, transcript |-> <<>>]]
         \/ job' = job
  BY <1>1 DEF Agent!Requeue, Agent!HandOver, Agent!Fail, Agent!Leave, Agent!GoTo, Agent!NoJob,
              Agent!NoAttempt
<1>10. /\ pc' \in [Worker -> {"idle", "step", "progress", "requeue", "result", "handover",
                              "fail", "ask"}]
       /\ job' \in [Worker -> AgentJob]
       /\ \A v \in Worker : v # w => pc'[v] = pc[v] /\ job'[v] = job[v]
       /\ pc'[w] # "idle" => job'[w] = job[w]
  <2>1. [attempt |-> 0, step |-> 0, transcript |-> <<>>] \in AgentJob
    BY DEF AgentJob, Agent!AgentStepAssumption
  <2>2. pc' \in [Worker -> {"idle", "step", "progress", "requeue", "result", "handover",
                            "fail", "ask"}]
    BY <1>1, <1>9
  <2>3. job' \in [Worker -> AgentJob]
    BY <1>1, <1>9, <2>1
  <2>4. \A v \in Worker : v # w => pc'[v] = pc[v] /\ job'[v] = job[v]
    BY <1>1, <1>9
  <2> QED  BY <1>9, <2>2, <2>3, <2>4
<1>11. \A v \in Worker :
           \/ pc'[v] = "idle"
           \/ /\ Acts(v) /\ job'[v] = job[v]
              /\ pc'[v] \in {"step", "progress"} => pc'[v] = pc[v]
              /\ pc'[v] = "handover" => row'.result # 0
  BY <1>0, <1>2, <1>6, <1>9, <1>10 DEF Acts, ResultFirst
<1>12. told' \subseteq 1 .. issued
  BY <1>0, <1>1, <1>2, <1>5 DEF AttemptsOfAgents
<1>13. Agent!TypeOK' /\ AttemptsOfAgents' /\ HistoryKept' /\ ResultFirst'
  BY <1>1, <1>2, <1>6, <1>7, <1>8, <1>10, <1>11, <1>12, AgentMoves
<1>14. Agent!ToldOfTheEnd'
  BY <1>4, <1>5, <1>6 DEF Agent!ToldOfTheEnd
<1> QED  BY <1>6, <1>13, <1>14 DEF AgentInv

LEMMA AgentResult ==
  ASSUME AgentInv, NEW w \in Worker, Agent!StoreResult(w)
  PROVE  AgentInv' /\ row'.transcript = row.transcript
<1>0. Agent!TypeOK /\ AttemptsOfAgents /\ HistoryKept /\ ResultFirst /\ Agent!ToldOfTheEnd
  BY DEF AgentInv
<1>1. /\ pc[w] = "result" /\ row.attempt = job[w].attempt
      /\ row' = [row EXCEPT !.result = job[w].attempt]
      /\ pc' = [pc EXCEPT ![w] = "handover"]
      /\ UNCHANGED <<issued, job, told, mishaps>>
  BY DEF Agent!StoreResult, Agent!Holding, Agent!Holds, Agent!GoTo
<1>2. /\ row \in AgentRow /\ job \in [Worker -> AgentJob] /\ issued \in Nat
      /\ told \subseteq 1 .. issued /\ mishaps \in 0 .. MaxMishaps
      /\ pc \in [Worker -> {"idle", "step", "progress", "requeue", "result", "handover",
                            "fail", "ask"}]
  BY <1>0, AgentTypes
<1>3. job[w].attempt \in Nat /\ job[w].attempt # 0
  BY <1>0, <1>1, <1>2 DEF AttemptsOfAgents, Acts
<1>4. /\ row' \in AgentRow /\ row'.attempt = row.attempt /\ row'.result # 0
      /\ row'.status = row.status /\ row'.phase = row.phase
      /\ row'.step = row.step /\ row'.transcript = row.transcript
  BY <1>1, <1>2, <1>3 DEF AgentRow
<1>5. /\ pc' \in [Worker -> {"idle", "step", "progress", "requeue", "result", "handover",
                             "fail", "ask"}]
      /\ pc'[w] = "handover" /\ \A v \in Worker : v # w => pc'[v] = pc[v]
  BY <1>1, <1>2
<1>6. \A v \in Worker :
           \/ pc'[v] = "idle"
           \/ /\ Acts(v) /\ job'[v] = job[v]
              /\ pc'[v] \in {"step", "progress"} => pc'[v] = pc[v]
              /\ pc'[v] = "handover" => row'.result # 0
  BY <1>1, <1>4, <1>5 DEF Acts
<1>7. /\ Agent!Claimed(row') <=> row'.attempt # 0
      /\ row'.phase = "backend_finalization" => row'.status = "running"
  BY <1>0, <1>4 DEF AttemptsOfAgents, ResultFirst, Agent!Claimed
<1>8. Agent!TypeOK' /\ AttemptsOfAgents' /\ HistoryKept' /\ ResultFirst'
  BY <1>1, <1>2, <1>4, <1>5, <1>6, <1>7, AgentMoves
<1>9. Agent!ToldOfTheEnd'
  BY <1>0, <1>1, <1>4 DEF Agent!ToldOfTheEnd, Agent!NoAttempt
<1> QED  BY <1>4, <1>8, <1>9 DEF AgentInv

\* Steps of a worker that leave the row alone; one that asks how it ended may tell.
LEMMA AgentLooks ==
  ASSUME AgentInv, NEW w \in Worker,
         Agent!Fenced(w) \/ Agent!Ask(w) \/ Agent!StepRaises(w) \/ Agent!Crash(w)
  PROVE  AgentInv' /\ row' = row
<1>0. Agent!TypeOK /\ AttemptsOfAgents /\ HistoryKept /\ ResultFirst /\ Agent!ToldOfTheEnd
  BY DEF AgentInv
<1>1. /\ row \in AgentRow /\ job \in [Worker -> AgentJob] /\ issued \in Nat
      /\ told \subseteq 1 .. issued /\ mishaps \in 0 .. MaxMishaps /\ MaxMishaps \in Nat
      /\ pc \in [Worker -> {"idle", "step", "progress", "requeue", "result", "handover",
                            "fail", "ask"}]
  BY <1>0, AgentTypes
<1>2. UNCHANGED <<row, issued>> /\ Acts(w)
  BY DEF Agent!Fenced, Agent!Ask, Agent!StepRaises, Agent!Crash, Acts
<1>3. mishaps' \in 0 .. MaxMishaps
  <2>1. mishaps < MaxMishaps => mishaps + 1 \in 0 .. MaxMishaps
    BY <1>1
  <2> QED  BY <1>1, <2>1 DEF Agent!Fenced, Agent!Ask, Agent!StepRaises, Agent!Crash, Agent!Mishap
<1>4. /\ pc' = [pc EXCEPT ![w] = pc'[w]] /\ pc'[w] \in {"idle", "ask", "fail"}
      /\ \/ pc'[w] = "idle"
            /\ job' = [job EXCEPT ![w] = [attempt |-> 0, step |-> 0, transcript |-> <<>>]]
         \/ job' = job
  BY <1>1 DEF Agent!Fenced, Agent!Ask, Agent!StepRaises, Agent!Crash, Agent!Leave, Agent!GoTo,
              Agent!NoJob, Agent!NoAttempt
<1>5. /\ pc' \in [Worker -> {"idle", "step", "progress", "requeue", "result", "handover",
                              "fail", "ask"}]
      /\ job' \in [Worker -> AgentJob]
      /\ \A v \in Worker : v # w => pc'[v] = pc[v] /\ job'[v] = job[v]
      /\ pc'[w] # "idle" => job'[w] = job[w]
  <2>1. [attempt |-> 0, step |-> 0, transcript |-> <<>>] \in AgentJob
    BY DEF AgentJob, Agent!AgentStepAssumption
  <2>2. pc' \in [Worker -> {"idle", "step", "progress", "requeue", "result", "handover",
                            "fail", "ask"}]
    BY <1>1, <1>4
  <2>3. job' \in [Worker -> AgentJob]
    BY <1>1, <1>4, <2>1
  <2>4. \A v \in Worker : v # w => pc'[v] = pc[v] /\ job'[v] = job[v]
    BY <1>1, <1>4
  <2> QED  BY <1>4, <2>2, <2>3, <2>4
<1>6. \A v \in Worker :
           \/ pc'[v] = "idle"
           \/ /\ Acts(v) /\ job'[v] = job[v]
              /\ pc'[v] \in {"step", "progress"} => pc'[v] = pc[v]
              /\ pc'[v] = "handover" => row'.result # 0
  BY <1>0, <1>2, <1>4, <1>5 DEF Acts, ResultFirst
<1>7. \/ told' = told
      \/ /\ told' = told \cup {job[w].attempt} /\ row.attempt = 0
         /\ row.phase = "backend_finalization" \/ row.status = "failed"
  BY DEF Agent!Fenced, Agent!Ask, Agent!StepRaises, Agent!Crash, Agent!Ended, Agent!NoAttempt
<1>8. told' \subseteq 1 .. issued
  BY <1>0, <1>1, <1>2, <1>7 DEF AttemptsOfAgents
<1>9. /\ Agent!Claimed(row') <=> row'.attempt # 0
      /\ row'.phase = "backend_finalization" => row'.status = "running" /\ row'.result # 0
  BY <1>0, <1>2 DEF AttemptsOfAgents, ResultFirst, Agent!Claimed
<1>10. Agent!TypeOK' /\ AttemptsOfAgents' /\ HistoryKept' /\ ResultFirst'
  BY <1>1, <1>2, <1>3, <1>5, <1>6, <1>8, <1>9, AgentMoves
<1>11. Agent!ToldOfTheEnd'
  BY <1>0, <1>2, <1>7 DEF Agent!ToldOfTheEnd, ResultFirst, Agent!NoAttempt
<1> QED  BY <1>2, <1>10, <1>11 DEF AgentInv

LEMMA AgentBackend ==
  ASSUME AgentInv, Agent!BackendRequeues \/ Agent!BackendCompletes
  PROVE  AgentInv' /\ row'.transcript = row.transcript
<1>0. Agent!TypeOK /\ AttemptsOfAgents /\ HistoryKept /\ ResultFirst /\ Agent!ToldOfTheEnd
  BY DEF AgentInv
<1>1. /\ row \in AgentRow /\ job \in [Worker -> AgentJob] /\ issued \in Nat
      /\ told \subseteq 1 .. issued /\ mishaps \in 0 .. MaxMishaps /\ MaxMishaps \in Nat
      /\ pc \in [Worker -> {"idle", "step", "progress", "requeue", "result", "handover",
                            "fail", "ask"}]
  BY <1>0, AgentTypes
<1>2. UNCHANGED <<issued, pc, job, told>>
  BY DEF Agent!BackendRequeues, Agent!BackendCompletes
<1>3. mishaps' \in 0 .. MaxMishaps
  <2>1. mishaps < MaxMishaps => mishaps + 1 \in 0 .. MaxMishaps
    BY <1>1
  <2> QED  BY <1>1, <2>1 DEF Agent!BackendRequeues, Agent!BackendCompletes, Agent!Mishap
<1>4. PICK s \in {"queued", "completed"} :
        /\ row' = Agent!SetStatus(row, s, "none")
        /\ \/ s = "queued" /\ Agent!Claimed(row)
           \/ s = "completed" /\ row.phase = "backend_finalization"
  BY DEF Agent!BackendRequeues, Agent!BackendCompletes
<1>5. /\ row' \in AgentRow /\ row'.status = s /\ row'.phase = "none"
      /\ row'.step = row.step /\ row'.transcript = row.transcript /\ row'.result = row.result
      /\ row'.attempt = IF Agent!Releases(s, "none") THEN 0 ELSE row.attempt
  BY <1>1, <1>4, AgentStatus
<1>6. row'.attempt = 0 /\ ~ Agent!Claimed(row')
  BY <1>4, <1>5 DEF Agent!Releases, Agent!Terminal, Agent!Claimed
<1>7. \A v \in Worker :
           \/ pc'[v] = "idle"
           \/ /\ Acts(v) /\ job'[v] = job[v]
              /\ pc'[v] \in {"step", "progress"} => pc'[v] = pc[v]
              /\ pc'[v] = "handover" => row'.result # 0
  BY <1>0, <1>2, <1>5 DEF Acts, ResultFirst
<1>8. Agent!TypeOK' /\ AttemptsOfAgents' /\ HistoryKept' /\ ResultFirst'
  BY <1>1, <1>2, <1>3, <1>5, <1>6, <1>7, AgentMoves
<1>9. Agent!ToldOfTheEnd'
  BY <1>0, <1>2, <1>4, <1>5 DEF Agent!ToldOfTheEnd, ResultFirst, Agent!Claimed, Agent!NoAttempt
<1> QED  BY <1>5, <1>8, <1>9 DEF AgentInv

\* A step keeps the invariant, and what is stored of the history.
LEMMA AgentNext ==
  ASSUME AgentInv, Agent!Next
  PROVE  AgentInv' /\ Agent!KeepsHistory
<1>0. row.transcript \in Seq(Agent!Entry)
  BY AgentTypes DEF AgentInv, AgentRow
<1>1. Agent!IsPrefix(row.transcript, row.transcript)
  BY <1>0, PrefixOfItself
<1>2. AgentInv' /\ Agent!IsPrefix(row.transcript, row'.transcript)
  <2>1. ASSUME NEW w \in Worker, Agent!Step(w)
        PROVE  AgentInv' /\ row'.transcript = row.transcript
    BY <2>1, AgentSteps DEF Agent!Step
  <2> QED  BY <1>1, <2>1, AgentClaims, AgentStores, AgentGivesBack, AgentResult, AgentLooks,
              AgentBackend
           DEF Agent!Next, Agent!WorkerStep
<1>3. row'.step = Len(row'.transcript) /\ NoRepeats(row'.transcript)
  BY <1>2 DEF AgentInv, HistoryKept, NoRepeats
<1> QED  BY <1>2, <1>3 DEF Agent!KeepsHistory, NoRepeats

LEMMA AgentStutter ==
  ASSUME AgentInv, UNCHANGED agentVars
  PROVE  AgentInv'
BY DEF AgentInv, agentVars, Agent!TypeOK, AttemptsOfAgents, HistoryKept, ResultFirst, Acts,
       NoRepeats, Agent!IsPrefix, Agent!Claimed, Agent!ToldOfTheEnd
-----------------------------------------------------------------------------
(* The vectors of a source *)

Works(w) == busy[w] # [job |-> 0]

StoreWork == [job : 1 .. MaxJobs, source : Document \cup Memory, kind : {"full", "empty", "delete"},
              at : {"delete", "upsert", "return"}]

\* A job is done by one worker, and is no newer than the last that was claimed.
JobsApart ==
  /\ \A w \in Ingester : Works(w) => busy[w].job <= jobs
  /\ \A w, v \in Ingester : w # v /\ Works(w) /\ Works(v) => busy[w].job # busy[v].job

\* As long as no other job of the source overlaps with its newest one, whoever works
\* on the source does that one.
OneWriter ==
  \A w \in Ingester : Works(w) /\ newest[busy[w].source].clean =>
    /\ ~ newest[busy[w].source].ended
    /\ newest[busy[w].source].job = busy[w].job
    /\ newest[busy[w].source].kind = busy[w].kind

\* What the job has left of the source, but for a memory without text.
Wrote(rows, s, j, kind) ==
  \/ {c \in rows : c.source = s} = IF kind = "full" THEN Store!Points(s, j) ELSE {}
  \/ s \in Memory /\ kind = "empty"

WrittenSoFar ==
  /\ \A w \in Ingester : Works(w) =>
       /\ busy[w].at = "upsert" => busy[w].kind = "full"
       /\ busy[w].source \in Memory /\ busy[w].at = "delete" => busy[w].kind = "delete"
       /\ newest[busy[w].source].clean /\ busy[w].at = "upsert" /\ busy[w].source \notin Memory
            => Store!Of(busy[w].source) = {}
       /\ newest[busy[w].source].clean /\ busy[w].at = "return"
            => Wrote(chunks, busy[w].source, busy[w].job, busy[w].kind)
  /\ \A s \in Document \cup Memory :
       newest[s].ended /\ newest[s].clean => Wrote(chunks, s, newest[s].job, newest[s].kind)

OneVector == \A c, d \in chunks : c.source = d.source /\ c.source \in Memory => c = d

StoreInv ==
  /\ Store!TypeOK /\ busy \in [Ingester -> {[job |-> 0]} \cup StoreWork]
  /\ JobsApart /\ OneWriter /\ WrittenSoFar /\ OneVector

LEMMA StoreTypes ==
  ASSUME StoreInv
  PROVE  /\ chunks \subseteq [source : Document \cup Memory, job : 1 .. MaxJobs, part : 1 .. Parts]
         /\ busy \in [Ingester -> {[job |-> 0]} \cup StoreWork]
         /\ newest \in [Document \cup Memory ->
              [job : 0 .. MaxJobs, kind : {"full", "empty", "delete"},
               ended : BOOLEAN, clean : BOOLEAN]]
         /\ jobs \in 0 .. MaxJobs /\ storeFaults \in 0 .. MaxStoreFaults
         /\ Parts \in Nat \ {0} /\ MaxJobs \in Nat /\ MaxStoreFaults \in Nat
         /\ Document \cap Memory = {}
BY DEF StoreInv, Store!TypeOK, Store!Source, Store!Kinds, Store!VectorStoreAssumption

LEMMA StoreTypesOK ==
  ASSUME chunks \subseteq [source : Document \cup Memory, job : 1 .. MaxJobs, part : 1 .. Parts],
         busy \in [Ingester -> {[job |-> 0]} \cup StoreWork],
         newest \in [Document \cup Memory ->
              [job : 0 .. MaxJobs, kind : {"full", "empty", "delete"},
               ended : BOOLEAN, clean : BOOLEAN]],
         jobs \in 0 .. MaxJobs, storeFaults \in 0 .. MaxStoreFaults
  PROVE  Store!TypeOK
BY DEF Store!TypeOK, Store!Source, Store!Kinds, Store!Idle, StoreWork

\* The cardinality of the module that is instantiated is that of the library.
LEMMA StoreCardinality ==
  ASSUME NEW S
  PROVE  Store!Cardinality(S) = Cardinality(S)
BY DEF Store!Cardinality, Cardinality

LEMMA StoreInSync == StoreInv => Store!VectorsInSync
<1> SUFFICES ASSUME StoreInv, NEW s \in Document \cup Memory, newest[s].ended, newest[s].clean
             PROVE  \/ Store!Of(s) = IF newest[s].kind = "full" THEN Store!Points(s, newest[s].job)
                                     ELSE {}
                    \/ s \in Memory /\ newest[s].kind = "empty" /\ Store!Cardinality(Store!Of(s)) <= 1
  BY DEF Store!VectorsInSync, Store!Source
<1>1. Wrote(chunks, s, newest[s].job, newest[s].kind)
  BY DEF StoreInv, WrittenSoFar
<1>2. CASE s \in Memory /\ newest[s].kind = "empty"
  <2>1. \A c, d \in Store!Of(s) : c = d
    BY <1>2 DEF StoreInv, OneVector, Store!Of
  <2>2. CASE Store!Of(s) = {}
    <3>1. Cardinality(Store!Of(s)) = 0
      BY <2>2, FS_EmptySet
    <3> QED  BY <1>2, <3>1, StoreCardinality
  <2>3. CASE Store!Of(s) # {}
    <3>1. PICK c : Store!Of(s) = {c}
      BY <2>1, <2>3
    <3>2. Cardinality(Store!Of(s)) = 1
      BY <3>1, FS_Singleton
    <3> QED  BY <1>2, <3>2, StoreCardinality
  <2> QED  BY <2>2, <2>3
<1> QED  BY <1>1, <1>2 DEF Wrote, Store!Of

LEMMA StoreInit == Init => StoreInv
<1> SUFFICES ASSUME Init PROVE StoreInv
  OBVIOUS
<1>1. /\ chunks = {} /\ busy = [w \in Ingester |-> [job |-> 0]] /\ jobs = 0 /\ storeFaults = 0
      /\ newest = [s \in Document \cup Memory |->
                     [job |-> 0, kind |-> "delete", ended |-> TRUE, clean |-> TRUE]]
  BY DEF Init, Store!Init, Store!Idle, Store!NoJob, Store!Source
<1>2. 0 \in 0 .. MaxJobs /\ 0 \in 0 .. MaxStoreFaults
  BY DEF Store!VectorStoreAssumption
<1>3. Store!TypeOK /\ busy \in [Ingester -> {[job |-> 0]} \cup StoreWork]
  BY <1>1, <1>2, StoreTypesOK
<1>4. \A w \in Ingester : ~ Works(w)
  BY <1>1 DEF Works
<1>5. JobsApart /\ OneWriter /\ OneVector
  BY <1>1, <1>4 DEF JobsApart, OneWriter, OneVector
<1>6. \A s \in Document \cup Memory : Store!Of(s) = {} /\ newest[s].kind = "delete"
  BY <1>1 DEF Store!Of
<1>7. WrittenSoFar
  BY <1>4, <1>6 DEF WrittenSoFar, Wrote, Store!Of
<1> QED  BY <1>3, <1>5, <1>7 DEF StoreInv

\* What a worker may do to the vectors of its source and to what is said of its job.
LEMMA StoreGoesOn ==
  ASSUME StoreInv, NEW w \in Ingester, Works(w), NEW x \in {"upsert", "return"},
         busy' = [busy EXCEPT ![w].at = x], x = "upsert" => busy[w].kind = "full",
         jobs' = jobs, storeFaults' \in 0 .. MaxStoreFaults,
         chunks' \subseteq [source : Document \cup Memory, job : 1 .. MaxJobs, part : 1 .. Parts],
         {c \in chunks' : c.source # busy[w].source} = {c \in chunks : c.source # busy[w].source},
         OneVector',
         newest' = newest \/ (newest' = [newest EXCEPT ![busy[w].source].clean = FALSE]),
         newest' = newest /\ newest[busy[w].source].clean =>
           /\ x = "upsert" /\ busy[w].source \notin Memory
                => {c \in chunks' : c.source = busy[w].source} = {}
           /\ x = "return" => Wrote(chunks', busy[w].source, busy[w].job, busy[w].kind)
  PROVE  StoreInv'
<1> DEFINE s == busy[w].source
<1>1. /\ busy[w] \in StoreWork /\ s \in Document \cup Memory
      /\ busy \in [Ingester -> {[job |-> 0]} \cup StoreWork]
      /\ newest \in [Document \cup Memory ->
              [job : 0 .. MaxJobs, kind : {"full", "empty", "delete"},
               ended : BOOLEAN, clean : BOOLEAN]]
      /\ jobs \in 0 .. MaxJobs /\ \A j \in 1 .. MaxJobs : j # 0
  BY StoreTypes DEF Works, StoreWork
<1>2. /\ busy'[w] = [busy[w] EXCEPT !.at = x] /\ \A v \in Ingester : v # w => busy'[v] = busy[v]
      /\ busy'[w] \in StoreWork
      /\ busy' \in [Ingester -> {[job |-> 0]} \cup StoreWork]
  <2>1. [busy[w] EXCEPT !.at = x] \in StoreWork
    BY <1>1 DEF StoreWork
  <2>2. busy' = [busy EXCEPT ![w] = [busy[w] EXCEPT !.at = x]]
    OBVIOUS
  <2> QED  BY <1>1, <2>1, <2>2
<1>3. /\ busy'[w].job = busy[w].job /\ busy'[w].source = s /\ busy'[w].kind = busy[w].kind
      /\ busy'[w].at = x /\ Works(w)'
  BY <1>1, <1>2 DEF Works, StoreWork
<1>4. /\ newest' \in [Document \cup Memory ->
              [job : 0 .. MaxJobs, kind : {"full", "empty", "delete"},
               ended : BOOLEAN, clean : BOOLEAN]]
      /\ \A u \in Document \cup Memory :
           /\ newest'[u].job = newest[u].job /\ newest'[u].kind = newest[u].kind
           /\ newest'[u].ended = newest[u].ended
           /\ newest'[u].clean => newest[u].clean
           /\ u # s => newest'[u] = newest[u]
      /\ newest'[s].clean => newest' = newest
  <2>1. CASE newest' = newest
    BY <1>1, <2>1
  <2>2. CASE newest' = [newest EXCEPT ![s].clean = FALSE]
    <3>1. newest[s] \in [job : 0 .. MaxJobs, kind : {"full", "empty", "delete"},
                         ended : BOOLEAN, clean : BOOLEAN]
      BY <1>1
    <3>2. newest' = [newest EXCEPT ![s] = [newest[s] EXCEPT !.clean = FALSE]]
      BY <2>2
    <3>3. [newest[s] EXCEPT !.clean = FALSE] \in
            [job : 0 .. MaxJobs, kind : {"full", "empty", "delete"},
             ended : BOOLEAN, clean : BOOLEAN]
      BY <3>1
    <3>4. /\ newest'[s] = [newest[s] EXCEPT !.clean = FALSE]
          /\ \A u \in Document \cup Memory : u # s => newest'[u] = newest[u]
          /\ newest' \in [Document \cup Memory ->
               [job : 0 .. MaxJobs, kind : {"full", "empty", "delete"},
                ended : BOOLEAN, clean : BOOLEAN]]
      BY <1>1, <3>2, <3>3
    <3>5. /\ newest'[s].job = newest[s].job /\ newest'[s].kind = newest[s].kind
          /\ newest'[s].ended = newest[s].ended /\ ~ newest'[s].clean
      BY <3>1, <3>4
    <3> QED  BY <3>4, <3>5
  <2> QED  BY <2>1, <2>2
<1>5. Store!TypeOK'
  BY <1>1, <1>2, <1>4, StoreTypesOK
     DEF Store!TypeOK, Store!Source, Store!Kinds, Store!Idle, StoreWork
<1>6. \A v \in Ingester : (Works(v)' <=> Works(v)) /\ busy'[v].job = busy[v].job
                          /\ busy'[v].source = busy[v].source /\ busy'[v].kind = busy[v].kind
  BY <1>2, <1>3 DEF Works
<1>7. JobsApart'
  BY <1>6 DEF StoreInv, JobsApart
<1>8. \A v \in Ingester : Works(v) => busy[v].source \in Document \cup Memory
  BY <1>1 DEF Works, StoreWork
<1>9. OneWriter'
  BY <1>4, <1>6, <1>8 DEF StoreInv, OneWriter
<1>10. \A u \in Document \cup Memory :
         u # s => {c \in chunks' : c.source = u} = {c \in chunks : c.source = u}
  OBVIOUS
<1>11. \A v \in Ingester : v # w /\ Works(v) /\ newest[busy[v].source].clean => busy[v].source # s
  BY <1>1 DEF StoreInv, OneWriter, JobsApart
<1>12. ~ (newest[s].ended /\ newest[s].clean)
  BY DEF StoreInv, OneWriter
<1>13. ASSUME NEW v \in Ingester, Works(v)
       PROVE  /\ busy'[v].at = "upsert" => busy[v].kind = "full"
              /\ busy[v].source \in Memory /\ busy'[v].at = "delete" => busy[v].kind = "delete"
              /\ newest'[busy[v].source].clean /\ busy'[v].at = "upsert" /\ busy[v].source \notin Memory
                   => {c \in chunks' : c.source = busy[v].source} = {}
              /\ newest'[busy[v].source].clean /\ busy'[v].at = "return"
                   => Wrote(chunks', busy[v].source, busy[v].job, busy[v].kind)
  <2>1. CASE v = w
    BY <1>3, <1>4, <2>1 DEF Store!Of
  <2>2. CASE v # w
    <3>1. busy'[v] = busy[v]
      BY <1>2, <2>2
    <3>2. newest'[busy[v].source].clean =>
            /\ newest[busy[v].source].clean /\ busy[v].source # s
            /\ {c \in chunks' : c.source = busy[v].source} = {c \in chunks : c.source = busy[v].source}
      BY <1>4, <1>8, <1>10, <1>11, <1>13, <2>2
    <3> QED  BY <1>13, <3>1, <3>2 DEF StoreInv, WrittenSoFar, Wrote, Store!Of
  <2> QED  BY <2>1, <2>2
<1>14. ASSUME NEW u \in Document \cup Memory, newest'[u].ended, newest'[u].clean
       PROVE  Wrote(chunks', u, newest[u].job, newest[u].kind)
  <2>1. u # s /\ newest[u].ended /\ newest[u].clean
    BY <1>4, <1>12, <1>14
  <2> QED  BY <1>10, <2>1 DEF StoreInv, WrittenSoFar, Wrote
<1>15. WrittenSoFar'
  BY <1>4, <1>6, <1>13, <1>14 DEF WrittenSoFar, Store!Of
<1> QED  BY <1>2, <1>5, <1>7, <1>9, <1>15 DEF StoreInv

\* A worker that is busy, and the source and the job it is busy with.
LEMMA StoreWorker ==
  ASSUME StoreInv, NEW w \in Ingester, Works(w)
  PROVE  /\ busy[w] \in StoreWork /\ busy[w].source \in Document \cup Memory
         /\ busy[w].job \in 1 .. MaxJobs /\ busy[w].kind \in {"full", "empty", "delete"}
         /\ newest[busy[w].source].clean \in BOOLEAN
BY StoreTypes DEF Works, StoreWork

LEMMA StoreDeletes ==
  ASSUME StoreInv, NEW w \in Ingester, Store!Delete(w)
  PROVE  StoreInv'
<1> DEFINE s == busy[w].source
           x == IF busy[w].kind = "full" THEN "upsert" ELSE "return"
<1>1. /\ Works(w) /\ busy[w].at = "delete" /\ chunks' = chunks \ Store!Of(s)
      /\ busy' = [busy EXCEPT ![w].at = x] /\ UNCHANGED <<newest, jobs, storeFaults>>
  BY DEF Store!Delete, Store!Busy, Store!Idle, Store!AfterDelete, Store!At, Works
<1>2. chunks' \subseteq chunks /\ {c \in chunks' : c.source = s} = {}
  BY <1>1 DEF Store!Of
<1>3. {c \in chunks' : c.source # s} = {c \in chunks : c.source # s}
  BY <1>1 DEF Store!Of
<1>4. OneVector'
  BY <1>2 DEF StoreInv, OneVector
<1>5. x = "return" => Wrote(chunks', s, busy[w].job, busy[w].kind)
  BY <1>2 DEF Wrote
<1>6. storeFaults' \in 0 .. MaxStoreFaults
      /\ chunks' \subseteq [source : Document \cup Memory, job : 1 .. MaxJobs, part : 1 .. Parts]
  BY <1>1, <1>2, StoreTypes
<1>7. x \in {"upsert", "return"} /\ (x = "upsert" => busy[w].kind = "full")
  OBVIOUS
<1> HIDE DEF x
<1> QED  BY <1>1, <1>2, <1>3, <1>4, <1>5, <1>6, <1>7, StoreGoesOn

LEMMA StoreUpserts ==
  ASSUME StoreInv, NEW w \in Ingester, Store!Upsert(w)
  PROVE  StoreInv'
<1> DEFINE s == busy[w].source
           j == busy[w].job
           kept == IF s \in Memory THEN chunks \ Store!Of(s) ELSE chunks
<1>1. /\ Works(w) /\ busy[w].at = "upsert" /\ chunks' = kept \cup Store!Points(s, j)
      /\ busy' = [busy EXCEPT ![w].at = "return"] /\ UNCHANGED <<newest, jobs, storeFaults>>
  BY DEF Store!Upsert, Store!Busy, Store!Idle, Store!At, Works
<1>2. /\ s \in Document \cup Memory /\ j \in 1 .. MaxJobs /\ busy[w].kind = "full"
      /\ Parts \in Nat \ {0}
      /\ chunks \subseteq [source : Document \cup Memory, job : 1 .. MaxJobs, part : 1 .. Parts]
  BY <1>1, StoreWorker, StoreTypes DEF StoreInv, WrittenSoFar
<1>3. /\ \A c \in Store!Points(s, j) : c.source = s
      /\ Store!Points(s, j) \subseteq
           [source : Document \cup Memory, job : 1 .. MaxJobs, part : 1 .. Parts]
      /\ s \in Memory => Store!Points(s, j) = {[source |-> s, job |-> j, part |-> 1]}
  <2>1. 1 .. (IF s \in Memory THEN 1 ELSE Parts) \subseteq 1 .. Parts
    BY <1>2
  <2>2. s \in Memory => 1 .. (IF s \in Memory THEN 1 ELSE Parts) = {1}
    OBVIOUS
  <2> QED  BY <1>2, <2>1, <2>2 DEF Store!Points
<1>4. {c \in chunks' : c.source # s} = {c \in chunks : c.source # s}
  BY <1>1, <1>3 DEF Store!Of
<1>5. OneVector'
  <2> SUFFICES ASSUME NEW c \in chunks', NEW d \in chunks', c.source = d.source, c.source \in Memory
               PROVE  c = d
    BY DEF OneVector
  <2>1. CASE c.source = s
    BY <1>1, <1>3, <2>1 DEF Store!Of
  <2>2. CASE c.source # s
    BY <1>4, <2>2 DEF StoreInv, OneVector
  <2> QED  BY <2>1, <2>2
<1>6. newest[s].clean => {c \in chunks' : c.source = s} = Store!Points(s, j)
  <2> SUFFICES ASSUME newest[s].clean PROVE {c \in chunks' : c.source = s} = Store!Points(s, j)
    OBVIOUS
  <2>1. {c \in kept : c.source = s} = {}
    BY <1>1 DEF StoreInv, WrittenSoFar, Store!Of
  <2> HIDE DEF kept
  <2> QED  BY <1>1, <1>3, <2>1
<1>7. newest[s].clean => Wrote(chunks', s, j, busy[w].kind)
  BY <1>2, <1>6 DEF Wrote
<1>8. chunks' \subseteq [source : Document \cup Memory, job : 1 .. MaxJobs, part : 1 .. Parts]
  BY <1>1, <1>2, <1>3
<1>9. storeFaults' \in 0 .. MaxStoreFaults
  BY <1>1, StoreTypes
<1> QED  BY <1>1, <1>4, <1>5, <1>7, <1>8, <1>9, StoreGoesOn

\* A statement that fails is remembered of the job it was for.
LEMMA StoreUnclean ==
  ASSUME StoreInv, NEW w \in Ingester, Works(w), Store!Unclean(w)
  PROVE  /\ newest' = newest \/ (newest' = [newest EXCEPT ![busy[w].source].clean = FALSE])
         /\ ~ (newest' = newest /\ newest[busy[w].source].clean)
<1> DEFINE s == busy[w].source
<1>1. newest' = [newest EXCEPT ![s].clean = newest[s].clean /\ newest[s].job # busy[w].job]
  BY DEF Store!Unclean
<1>2. /\ newest \in [Document \cup Memory ->
              [job : 0 .. MaxJobs, kind : {"full", "empty", "delete"},
               ended : BOOLEAN, clean : BOOLEAN]]
      /\ s \in Document \cup Memory /\ newest[s].clean \in BOOLEAN
  BY StoreTypes, StoreWorker
<1>3. newest[s].clean => newest[s].job = busy[w].job
  BY DEF StoreInv, OneWriter
<1>4. newest' = [newest EXCEPT ![s].clean = FALSE]
  <2>1. (newest[s].clean /\ newest[s].job # busy[w].job) = FALSE
    BY <1>2, <1>3
  <2> QED  BY <1>1, <2>1
<1>5. newest'[s].clean = FALSE
  BY <1>2, <1>4
<1> QED  BY <1>4, <1>5

LEMMA StoreFault ==
  ASSUME StoreInv, Store!Fault
  PROVE  storeFaults' \in 0 .. MaxStoreFaults
BY StoreTypes DEF Store!Fault

LEMMA StoreDeleteFails ==
  ASSUME StoreInv, NEW w \in Ingester, Store!DeleteFails(w)
  PROVE  StoreInv'
<1> DEFINE x == IF busy[w].kind = "full" THEN "upsert" ELSE "return"
<1>1. /\ Works(w) /\ Store!Unclean(w) /\ busy' = [busy EXCEPT ![w].at = x]
      /\ UNCHANGED <<chunks, jobs>> /\ storeFaults' \in 0 .. MaxStoreFaults
  BY StoreFault
     DEF Store!DeleteFails, Store!Busy, Store!Idle, Store!AfterDelete, Store!At, Works
<1>2. x \in {"upsert", "return"} /\ (x = "upsert" => busy[w].kind = "full")
  OBVIOUS
<1> HIDE DEF x
<1>3. OneVector'
  BY <1>1 DEF StoreInv, OneVector
<1>4. chunks' \subseteq [source : Document \cup Memory, job : 1 .. MaxJobs, part : 1 .. Parts]
  BY <1>1, StoreTypes
<1> QED  BY <1>1, <1>2, <1>3, <1>4, StoreUnclean, StoreGoesOn

LEMMA StoreUpsertFails ==
  ASSUME StoreInv, NEW w \in Ingester, Store!UpsertFails(w)
  PROVE  StoreInv'
<1> DEFINE s == busy[w].source
           all == Store!Points(s, busy[w].job)
<1>1. /\ Works(w) /\ Store!Unclean(w) /\ busy' = [busy EXCEPT ![w].at = "return"]
      /\ UNCHANGED jobs /\ storeFaults' \in 0 .. MaxStoreFaults
  BY StoreFault DEF Store!UpsertFails, Store!Busy, Store!Idle, Store!At, Works
<1>2. PICK n \in 0 .. Store!Cardinality(all) - 1 :
        chunks' = chunks \cup {c \in all : c.part <= n}
  BY DEF Store!UpsertFails
<1>3. /\ s \in Document \cup Memory /\ busy[w].job \in 1 .. MaxJobs /\ Parts \in Nat \ {0}
      /\ chunks \subseteq [source : Document \cup Memory, job : 1 .. MaxJobs, part : 1 .. Parts]
  BY <1>1, StoreWorker, StoreTypes
<1>4. /\ \A c \in all : c.source = s
      /\ all \subseteq [source : Document \cup Memory, job : 1 .. MaxJobs, part : 1 .. Parts]
      /\ s \in Memory => all = {[source |-> s, job |-> busy[w].job, part |-> 1]}
  <2>1. 1 .. (IF s \in Memory THEN 1 ELSE Parts) \subseteq 1 .. Parts
    BY <1>3
  <2>2. s \in Memory => 1 .. (IF s \in Memory THEN 1 ELSE Parts) = {1}
    OBVIOUS
  <2> QED  BY <1>3, <2>1, <2>2 DEF Store!Points
<1> HIDE DEF all
<1>5. s \in Memory => chunks' = chunks
  <2> SUFFICES ASSUME s \in Memory PROVE {c \in all : c.part <= n} = {}
    BY <1>2
  <2>1. Store!Cardinality(all) = 1
    BY <1>4, FS_Singleton, StoreCardinality
  <2>2. n = 0
    BY <1>2, <2>1
  <2>3. \A c \in all : c.part = 1
    BY <1>4
  <2> QED  BY <2>2, <2>3
<1>6. chunks' \subseteq [source : Document \cup Memory, job : 1 .. MaxJobs, part : 1 .. Parts]
  BY <1>2, <1>3, <1>4
<1>7. {c \in chunks' : c.source # s} = {c \in chunks : c.source # s}
  BY <1>2, <1>4
<1>8. OneVector'
  <2> SUFFICES ASSUME NEW c \in chunks', NEW d \in chunks', c.source = d.source, c.source \in Memory
               PROVE  c = d
    BY DEF OneVector
  <2>1. c \in chunks /\ d \in chunks
    BY <1>5, <1>7
  <2> QED  BY <2>1 DEF StoreInv, OneVector
<1> QED  BY <1>1, <1>6, <1>7, <1>8, StoreUnclean, StoreGoesOn

\* The end of a job: what it wrote is what the source has, if it was alone with it.
LEMMA StoreLeaves ==
  ASSUME StoreInv, NEW w \in Ingester, Works(w), busy' = [busy EXCEPT ![w] = [job |-> 0]],
         chunks' = chunks, jobs' = jobs, storeFaults' \in 0 .. MaxStoreFaults,
         \/ newest' = newest
         \/ /\ newest' = [newest EXCEPT ![busy[w].source].ended =
                            newest[busy[w].source].ended
                            \/ newest[busy[w].source].job = busy[w].job]
            /\ busy[w].at = "return"
  PROVE  StoreInv'
<1> DEFINE s == busy[w].source
           rest == [Document \cup Memory ->
              [job : 0 .. MaxJobs, kind : {"full", "empty", "delete"},
               ended : BOOLEAN, clean : BOOLEAN]]
<1>1. /\ newest \in rest /\ s \in Document \cup Memory
      /\ busy \in [Ingester -> {[job |-> 0]} \cup StoreWork]
      /\ jobs \in 0 .. MaxJobs
      /\ chunks \subseteq [source : Document \cup Memory, job : 1 .. MaxJobs, part : 1 .. Parts]
  BY StoreTypes, StoreWorker
<1>2. /\ busy' \in [Ingester -> {[job |-> 0]} \cup StoreWork]
      /\ ~ Works(w)' /\ \A v \in Ingester : v # w => busy'[v] = busy[v]
  BY <1>1 DEF Works
<1>3. \A v \in Ingester : Works(v)' => Works(v) /\ v # w /\ busy'[v] = busy[v]
  BY <1>2 DEF Works
<1>4. /\ newest' \in rest
      /\ \A u \in Document \cup Memory :
           /\ newest'[u].job = newest[u].job /\ newest'[u].kind = newest[u].kind
           /\ newest'[u].clean = newest[u].clean
           /\ u # s => newest'[u] = newest[u]
           /\ newest'[u].ended => newest[u].ended
                \/ (u = s /\ newest[s].job = busy[w].job /\ busy[w].at = "return")
  <2>1. CASE newest' = newest
    BY <1>1, <2>1
  <2>2. CASE /\ newest' = [newest EXCEPT ![s].ended =
                             newest[s].ended \/ newest[s].job = busy[w].job]
             /\ busy[w].at = "return"
    <3> DEFINE b == (newest[s].ended \/ newest[s].job = busy[w].job)
    <3>1. newest[s] \in [job : 0 .. MaxJobs, kind : {"full", "empty", "delete"},
                         ended : BOOLEAN, clean : BOOLEAN]
      BY <1>1
    <3>2. b \in BOOLEAN
      BY <3>1
    <3>3. newest' = [newest EXCEPT ![s] = [newest[s] EXCEPT !.ended = b]]
      BY <2>2
    <3>4. b => newest[s].ended \/ newest[s].job = busy[w].job
      OBVIOUS
    <3> HIDE DEF b
    <3>5. [newest[s] EXCEPT !.ended = b] \in
            [job : 0 .. MaxJobs, kind : {"full", "empty", "delete"},
             ended : BOOLEAN, clean : BOOLEAN]
      BY <3>1, <3>2
    <3>6. /\ newest'[s] = [newest[s] EXCEPT !.ended = b]
          /\ \A u \in Document \cup Memory : u # s => newest'[u] = newest[u]
          /\ newest' \in rest
      BY <1>1, <3>3, <3>5
    <3>7. /\ newest'[s].job = newest[s].job /\ newest'[s].kind = newest[s].kind
          /\ newest'[s].clean = newest[s].clean /\ newest'[s].ended = b
      BY <3>1, <3>6
    <3> QED  BY <2>2, <3>4, <3>6, <3>7
  <2> QED  BY <2>1, <2>2
<1>5. Store!TypeOK'
  BY <1>1, <1>2, <1>4
     DEF Store!TypeOK, Store!Source, Store!Kinds, Store!Idle, StoreWork
<1>6. JobsApart'
  BY <1>3 DEF StoreInv, JobsApart
<1>7. \A v \in Ingester : Works(v) => busy[v].source \in Document \cup Memory
  BY StoreWorker
<1>8. \A v \in Ingester : v # w /\ Works(v) /\ newest[busy[v].source].clean => busy[v].source # s
  BY <1>1 DEF StoreInv, OneWriter, JobsApart
<1>9. OneWriter'
  BY <1>3, <1>4, <1>7, <1>8 DEF StoreInv, OneWriter
<1>10. ASSUME NEW u \in Document \cup Memory, newest'[u].ended, newest'[u].clean
       PROVE  Wrote(chunks, u, newest[u].job, newest[u].kind)
  <2>1. CASE newest[u].ended
    BY <1>4, <1>10, <2>1 DEF StoreInv, WrittenSoFar
  <2>2. CASE u = s /\ newest[s].job = busy[w].job /\ busy[w].at = "return"
    <3>1. newest[s].kind = busy[w].kind
      BY <1>4, <1>10, <2>2 DEF StoreInv, OneWriter
    <3> QED  BY <1>4, <1>10, <2>2, <3>1 DEF StoreInv, WrittenSoFar
  <2> QED  BY <1>4, <1>10, <2>1, <2>2
<1>11. WrittenSoFar'
  <2>1. \A v \in Ingester : Works(v)' =>
       /\ busy'[v].at = "upsert" => busy'[v].kind = "full"
       /\ busy'[v].source \in Memory /\ busy'[v].at = "delete" => busy'[v].kind = "delete"
       /\ newest'[busy'[v].source].clean /\ busy'[v].at = "upsert" /\ busy'[v].source \notin Memory
            => Store!Of(busy[v].source) = {}
       /\ newest'[busy'[v].source].clean /\ busy'[v].at = "return"
            => Wrote(chunks, busy'[v].source, busy'[v].job, busy'[v].kind)
    <3> SUFFICES ASSUME NEW v \in Ingester, Works(v)'
                 PROVE  /\ busy[v].at = "upsert" => busy[v].kind = "full"
                        /\ busy[v].source \in Memory /\ busy[v].at = "delete"
                             => busy[v].kind = "delete"
                        /\ newest'[busy[v].source].clean /\ busy[v].at = "upsert"
                           /\ busy[v].source \notin Memory => Store!Of(busy[v].source) = {}
                        /\ newest'[busy[v].source].clean /\ busy[v].at = "return"
                             => Wrote(chunks, busy[v].source, busy[v].job, busy[v].kind)
      BY <1>3
    <3>1. Works(v) /\ newest'[busy[v].source].clean = newest[busy[v].source].clean
      BY <1>3, <1>4, <1>7
    <3> QED  BY <3>1 DEF StoreInv, WrittenSoFar
  <2> QED  BY <1>3, <1>4, <1>10, <2>1 DEF WrittenSoFar, Store!Of
<1>12. OneVector'
  BY DEF StoreInv, OneVector
<1> QED  BY <1>2, <1>5, <1>6, <1>9, <1>11, <1>12 DEF StoreInv

LEMMA StoreReturns ==
  ASSUME StoreInv, NEW w \in Ingester, Store!Return(w)
  PROVE  StoreInv'
<1>1. /\ Works(w) /\ busy' = [busy EXCEPT ![w] = [job |-> 0]] /\ chunks' = chunks /\ jobs' = jobs
      /\ storeFaults' = storeFaults /\ busy[w].at = "return"
      /\ newest' = [newest EXCEPT ![busy[w].source].ended =
                            newest[busy[w].source].ended
                            \/ newest[busy[w].source].job = busy[w].job]
  BY DEF Store!Return, Store!Busy, Store!Idle, Works
<1>2. storeFaults' \in 0 .. MaxStoreFaults
  BY <1>1, StoreTypes
<1> QED  BY <1>1, <1>2, StoreLeaves

LEMMA StoreAbandons ==
  ASSUME StoreInv, NEW w \in Ingester, Store!Abandon(w)
  PROVE  StoreInv'
BY StoreFault, StoreLeaves DEF Store!Abandon, Store!Idle, Works

\* The newest job of a source is clean if nobody else works on it when it begins.
LEMMA StoreClaims ==
  ASSUME StoreInv, NEW w \in Ingester, NEW s \in Document \cup Memory,
         NEW kind \in {"full", "empty", "delete"}, Store!Claim(w, s, kind)
  PROVE  StoreInv'
<1> DEFINE r == [job |-> jobs + 1, source |-> s, kind |-> kind, at |-> Store!FirstStep(s, kind)]
           n == [job |-> jobs + 1, kind |-> kind, ended |-> FALSE, clean |-> ~ Store!Overlaps(s)]
<1>1. /\ busy[w] = [job |-> 0] /\ jobs < MaxJobs /\ jobs' = jobs + 1
      /\ busy' = [busy EXCEPT ![w] = r] /\ newest' = [newest EXCEPT ![s] = n]
      /\ UNCHANGED <<chunks, storeFaults>>
  BY DEF Store!Claim, Store!Idle
<1>2. /\ newest \in [Document \cup Memory ->
              [job : 0 .. MaxJobs, kind : {"full", "empty", "delete"},
               ended : BOOLEAN, clean : BOOLEAN]]
      /\ busy \in [Ingester -> {[job |-> 0]} \cup StoreWork]
      /\ jobs \in 0 .. MaxJobs /\ MaxJobs \in Nat /\ storeFaults \in 0 .. MaxStoreFaults
      /\ chunks \subseteq [source : Document \cup Memory, job : 1 .. MaxJobs, part : 1 .. Parts]
      /\ Document \cap Memory = {}
  BY StoreTypes
<1>3. jobs + 1 \in 1 .. MaxJobs /\ jobs + 1 \in 0 .. MaxJobs
  BY <1>1, <1>2
<1>4. Store!FirstStep(s, kind) \in {"delete", "upsert", "return"}
  BY DEF Store!FirstStep
<1>5. Store!Overlaps(s) \in BOOLEAN
  BY DEF Store!Overlaps
<1>6. r \in StoreWork /\ r.job = jobs + 1 /\ r.source = s /\ r.kind = kind
      /\ r.at = Store!FirstStep(s, kind)
  BY <1>3, <1>4 DEF StoreWork
<1>7. n \in [job : 0 .. MaxJobs, kind : {"full", "empty", "delete"},
             ended : BOOLEAN, clean : BOOLEAN]
      /\ n.job = jobs + 1 /\ n.kind = kind /\ n.ended = FALSE /\ n.clean = (~ Store!Overlaps(s))
  BY <1>3, <1>5
<1> HIDE DEF r, n
<1>8. /\ busy'[w] = r /\ \A v \in Ingester : v # w => busy'[v] = busy[v]
      /\ busy' \in [Ingester -> {[job |-> 0]} \cup StoreWork]
      /\ newest'[s] = n /\ \A u \in Document \cup Memory : u # s => newest'[u] = newest[u]
      /\ newest' \in [Document \cup Memory ->
              [job : 0 .. MaxJobs, kind : {"full", "empty", "delete"},
               ended : BOOLEAN, clean : BOOLEAN]]
  BY <1>1, <1>2, <1>6, <1>7
<1>9. Store!TypeOK'
  BY <1>1, <1>2, <1>3, <1>8
     DEF Store!TypeOK, Store!Source, Store!Kinds, Store!Idle, StoreWork
<1>10. \A v \in Ingester : v # w => (Works(v)' <=> Works(v))
  BY <1>8 DEF Works
<1>11. \A v \in Ingester : Works(v) => /\ busy[v].source \in Document \cup Memory
                                       /\ busy[v].job \in 1 .. MaxJobs /\ busy[v].job <= jobs
  BY StoreWorker DEF StoreInv, JobsApart
<1>12. JobsApart'
  <2>1. \A v \in Ingester : Works(v)' => busy'[v].job <= jobs'
    BY <1>1, <1>2, <1>6, <1>8, <1>10, <1>11
  <2>2. \A v \in Ingester : v # w /\ Works(v)' => busy'[v].job # busy'[w].job
    BY <1>2, <1>6, <1>8, <1>10, <1>11
  <2>3. \A v, u \in Ingester : v # u /\ Works(v)' /\ Works(u)' => busy'[v].job # busy'[u].job
    BY <1>8, <1>10, <2>2 DEF StoreInv, JobsApart
  <2> QED  BY <2>1, <2>3 DEF JobsApart
<1>13. \A v \in Ingester : v # w /\ Works(v) /\ n.clean => busy[v].source # s
  BY <1>7 DEF Store!Overlaps, Store!Idle, Works
<1>14. OneWriter'
  <2> SUFFICES ASSUME NEW v \in Ingester, Works(v)', newest'[busy'[v].source].clean
               PROVE  /\ ~ newest'[busy'[v].source].ended
                      /\ newest'[busy'[v].source].job = busy'[v].job
                      /\ newest'[busy'[v].source].kind = busy'[v].kind
    BY DEF OneWriter
  <2>1. CASE v = w
    BY <1>6, <1>7, <1>8, <2>1
  <2>2. CASE v # w
    <3>1. Works(v) /\ busy'[v] = busy[v] /\ busy[v].source \in Document \cup Memory
      BY <1>8, <1>10, <1>11, <2>2
    <3>2. busy[v].source # s
      BY <1>8, <1>13, <2>2, <3>1
    <3> QED  BY <1>8, <3>1, <3>2 DEF StoreInv, OneWriter
  <2> QED  BY <2>1, <2>2
<1>15. WrittenSoFar'
  <2>1. ASSUME NEW v \in Ingester, Works(v)'
        PROVE  /\ busy'[v].at = "upsert" => busy'[v].kind = "full"
               /\ busy'[v].source \in Memory /\ busy'[v].at = "delete" => busy'[v].kind = "delete"
               /\ newest'[busy'[v].source].clean /\ busy'[v].at = "upsert"
                  /\ busy'[v].source \notin Memory
                    => {c \in chunks : c.source = busy'[v].source} = {}
               /\ newest'[busy'[v].source].clean /\ busy'[v].at = "return"
                    => Wrote(chunks, busy'[v].source, busy'[v].job, busy'[v].kind)
    <3>1. CASE v = w
      BY <1>6, <1>8, <3>1 DEF Store!FirstStep, Wrote
    <3>2. CASE v # w
      <4>1. Works(v) /\ busy'[v] = busy[v] /\ busy[v].source \in Document \cup Memory
        BY <1>8, <1>10, <1>11, <2>1, <3>2
      <4>2. newest'[busy[v].source].clean => busy[v].source # s /\ newest[busy[v].source].clean
        BY <1>8, <1>13, <3>2, <4>1
      <4> QED  BY <4>1, <4>2 DEF StoreInv, WrittenSoFar, Store!Of
    <3> QED  BY <3>1, <3>2
  <2>2. ASSUME NEW u \in Document \cup Memory, newest'[u].ended, newest'[u].clean
        PROVE  Wrote(chunks, u, newest'[u].job, newest'[u].kind)
    <3>1. u # s
      BY <1>7, <1>8, <2>2
    <3> QED  BY <1>8, <2>2, <3>1 DEF StoreInv, WrittenSoFar
  <2> QED  BY <1>1, <2>1, <2>2 DEF WrittenSoFar, Store!Of
<1>16. OneVector'
  BY <1>1 DEF StoreInv, OneVector
<1> QED  BY <1>8, <1>9, <1>12, <1>14, <1>15, <1>16 DEF StoreInv

LEMMA StoreNext ==
  ASSUME StoreInv, Store!StoreStep
  PROVE  StoreInv'
BY StoreClaims, StoreDeletes, StoreUpserts, StoreReturns, StoreDeleteFails, StoreUpsertFails,
   StoreAbandons
   DEF Store!StoreStep, Store!Source, Store!Kinds

LEMMA StoreStutter ==
  ASSUME StoreInv, UNCHANGED storeVars
  PROVE  StoreInv'
<1>1. UNCHANGED <<chunks, busy, newest, jobs, storeFaults>>
  BY DEF storeVars
<1>2. Store!TypeOK'
  BY <1>1 DEF StoreInv, Store!TypeOK
<1>3. JobsApart' /\ OneWriter' /\ OneVector'
  BY <1>1 DEF StoreInv, JobsApart, OneWriter, OneVector, Works
<1>4. WrittenSoFar'
  BY <1>1 DEF StoreInv, WrittenSoFar, Works, Store!Of
<1> QED  BY <1>1, <1>2, <1>3, <1>4 DEF StoreInv

-----------------------------------------------------------------------------
(* The graph of a resource *)

\* A finite set of numbers that is not empty has a greatest one: a smallest set without
\* one would leave another when one of its numbers is taken out.
LEMMA GreatestNumber ==
  ASSUME NEW S, S \subseteq Nat, IsFiniteSet(S), S # {}
  PROVE  \E x \in S : \A y \in S : y <= x
<1> DEFINE Without(X) == X \subseteq S /\ X # {} /\ ~ \E x \in X : \A y \in X : y <= x
           Sizes == {n \in Nat : \E X \in SUBSET S : Without(X) /\ Cardinality(X) = n}
<1> SUFFICES ASSUME ~ \E x \in S : \A y \in S : y <= x PROVE FALSE
  OBVIOUS
<1>1. \A X \in SUBSET S : IsFiniteSet(X) /\ Cardinality(X) \in Nat
  BY FS_Subset, FS_CardinalityType
<1>2. Without(S)
  OBVIOUS
<1>3. Sizes # {}
  BY <1>1, <1>2
<1>4. PICK n \in Sizes : \A m \in Sizes : n <= m
  <2> HIDE DEF Sizes
  <2>1. Sizes \subseteq Nat
    BY DEF Sizes
  <2> QED  BY <1>3, <2>1, LeastNumber
<1>5. PICK X \in SUBSET S : Without(X) /\ Cardinality(X) = n
  BY <1>4
<1>6. PICK x \in X : TRUE
  BY <1>5
<1>7. IsFiniteSet(X \ {x}) /\ Cardinality(X \ {x}) = Cardinality(X) - 1
  BY <1>1, <1>5, <1>6, FS_RemoveElement
<1>8. n \in Nat /\ Cardinality(X \ {x}) = n - 1 /\ Cardinality(X \ {x}) \in Nat
  BY <1>1, <1>5, <1>7
<1>9. ~ Without(X \ {x})
  <2> SUFFICES ASSUME Without(X \ {x}) PROVE FALSE
    OBVIOUS
  <2>1. n - 1 \in Sizes
    BY <1>8
  <2> HIDE DEF Sizes, Without
  <2> QED  BY <1>4, <1>8, <2>1
<1>10. CASE X \ {x} = {}
  <2>1. X = {x}
    BY <1>6, <1>10
  <2>2. x \in Nat
    BY <1>5, <1>6
  <2> QED  BY <1>5, <2>1, <2>2
<1>11. CASE X \ {x} # {}
  <2>1. PICK m \in X \ {x} : \A y \in X \ {x} : y <= m
    BY <1>5, <1>9, <1>11
  <2>2. X \subseteq Nat /\ m \in Nat /\ x \in Nat
    BY <1>5, <1>6, <2>1
  <2>3. CASE x <= m
    <3>1. \A y \in X : y <= m
      BY <2>1, <2>3
    <3> QED  BY <1>5, <2>1, <3>1
  <2>4. CASE m <= x
    <3>1. \A y \in X : y <= x
      BY <2>1, <2>2, <2>4
    <3> QED  BY <1>5, <1>6, <3>1
  <2> QED  BY <2>2, <2>3, <2>4
<1> QED  BY <1>10, <1>11

\* A claim that names two different entities of the payload.
GraphClaim ==
  {r \in [subject : Entity, predicate : Predicate, object : Entity, confidence : Confidence] :
     r.subject # r.object}

\* What the chunks have found together.
FoundClaims == UNION {found[c] : c \in Chunk}

\* The graph has an edge of the claim's triple that is at least as certain.
HasEdge(rows, r) == \E d \in rows : d.triple = Graph!Triple(r) /\ d.confidence >= r.confidence

GraphPhases ==
  /\ nodes # {} => at # "chunks" /\ failed = {} /\ enabled
  /\ at \in {"entities", "edges"} =>
       failed = {} /\ enabled /\ merged = Graph!Deduplicated(FoundClaims)
  /\ at = "ended" /\ ~ result.error =>
       result.relationships = merged /\ merged = Graph!Deduplicated(FoundClaims)
  /\ merged \subseteq FoundClaims
  /\ \A r, q \in merged : Graph!Triple(r) = Graph!Triple(q) => r = q
  /\ at = "chunks" => merged = {} /\ result.relationships = {}
  /\ at = "entities" =>
       toWrite \subseteq Entity /\ \A r \in FoundClaims : {r.subject, r.object} \subseteq nodes \cup toWrite
  /\ at = "edges" =>
       /\ toWrite \subseteq merged /\ \A r \in FoundClaims : {r.subject, r.object} \subseteq nodes
       /\ ~ touched => \A r \in merged : r \in toWrite \/ HasEdge(edges, r)
  /\ at = "ended" /\ ~ result.error /\ ~ touched /\ enabled => \A r \in FoundClaims : HasEdge(edges, r)

GraphInv ==
  /\ Graph!TypeOK /\ found \in [Chunk -> SUBSET GraphClaim]
  /\ GraphPhases /\ Graph!OneEdgePerTriple

LEMMA GraphTypes ==
  ASSUME GraphInv
  PROVE  /\ enabled \in BOOLEAN /\ at \in {"chunks", "entities", "edges", "ended"}
         /\ answered \subseteq Chunk /\ failed \subseteq Chunk \ answered
         /\ found \in [Chunk -> SUBSET GraphClaim]
         /\ found \in [Chunk -> SUBSET UNION Answers]
         /\ result \in [relationships : {{}, merged}, error : BOOLEAN]
         /\ nodes \subseteq Entity /\ edges \subseteq Graph!Edge
         /\ modifies \in 0 .. MaxModifies /\ touched \in BOOLEAN /\ renamed \in BOOLEAN
         /\ merged \subseteq GraphClaim /\ FoundClaims \subseteq GraphClaim
         /\ MaxModifies \in Nat /\ Confidence \subseteq Nat /\ 1 \in Confidence
<1>1. /\ enabled \in BOOLEAN /\ at \in {"chunks", "entities", "edges", "ended"}
      /\ answered \subseteq Chunk /\ failed \subseteq Chunk \ answered
      /\ found \in [Chunk -> SUBSET GraphClaim]
      /\ found \in [Chunk -> SUBSET UNION Answers]
      /\ result \in [relationships : {{}, merged}, error : BOOLEAN]
      /\ nodes \subseteq Entity /\ edges \subseteq Graph!Edge
      /\ modifies \in 0 .. MaxModifies /\ touched \in BOOLEAN /\ renamed \in BOOLEAN
      /\ merged \subseteq FoundClaims
  BY DEF GraphInv, Graph!TypeOK, GraphPhases
<1>2. FoundClaims \subseteq GraphClaim
  BY <1>1 DEF FoundClaims
<1> QED  BY <1>1, <1>2 DEF Graph!RelationshipGraphAssumption

\* Of the claims of one triple the best is kept, and only that one.
LEMMA BestIsKept ==
  ASSUME NEW claims, claims \subseteq GraphClaim, NEW q \in claims
  PROVE  \E r \in Graph!Deduplicated(claims) :
           Graph!Triple(r) = Graph!Triple(q) /\ r.confidence >= q.confidence
<1> DEFINE same == {r \in claims : Graph!Triple(r) = Graph!Triple(q)}
           values == {r.confidence : r \in same}
<1>1. values \subseteq Confidence /\ values # {} /\ \A r \in same : r.confidence \in Confidence
  BY DEF GraphClaim
<1>2. Confidence \subseteq Nat /\ IsFiniteSet(Confidence)
  BY DEF Graph!RelationshipGraphAssumption, Graph!IsFiniteSet, IsFiniteSet
<1>3. PICK m \in values : \A y \in values : y <= m
  <2> HIDE DEF values
  <2>1. IsFiniteSet(values) /\ values \subseteq Nat
    BY <1>1, <1>2, FS_Subset
  <2> QED  BY <1>1, <2>1, GreatestNumber
<1>4. PICK r \in same : r.confidence = m
  BY <1>3
<1>5. \A p \in claims : Graph!Triple(p) = Graph!Triple(r) => p.confidence <= r.confidence
  BY <1>3, <1>4
<1>6. r \in Graph!Deduplicated(claims)
  BY <1>4, <1>5 DEF Graph!Deduplicated
<1>7. q.confidence <= r.confidence /\ q.confidence \in Nat /\ r.confidence \in Nat
  BY <1>1, <1>2, <1>4, <1>5
<1> QED  BY <1>4, <1>6, <1>7

LEMMA OneIsKept ==
  ASSUME NEW claims, claims \subseteq GraphClaim
  PROVE  /\ Graph!Deduplicated(claims) \subseteq claims
         /\ \A r, q \in Graph!Deduplicated(claims) : Graph!Triple(r) = Graph!Triple(q) => r = q
<1>1. Graph!Deduplicated(claims) \subseteq claims
  BY DEF Graph!Deduplicated
<1>2. ASSUME NEW r \in Graph!Deduplicated(claims), NEW q \in Graph!Deduplicated(claims),
             Graph!Triple(r) = Graph!Triple(q)
      PROVE  r = q
  <2>1. /\ r \in GraphClaim /\ q \in GraphClaim
        /\ r.confidence <= q.confidence /\ q.confidence <= r.confidence
    BY <1>1, <1>2 DEF Graph!Deduplicated
  <2>2. r.confidence \in Nat /\ q.confidence \in Nat
    BY <2>1 DEF GraphClaim, Graph!RelationshipGraphAssumption
  <2>3. r.confidence = q.confidence
    BY <2>1, <2>2
  <2>4. r.subject = q.subject /\ r.predicate = q.predicate /\ r.object = q.object
    BY <1>2 DEF Graph!Triple
  <2> QED  BY <2>1, <2>3, <2>4 DEF GraphClaim
<1> QED  BY <1>1, <1>2

\* A claim's triple is one of the graph.
LEMMA TripleOfClaim ==
  ASSUME NEW r \in GraphClaim
  PROVE  /\ Graph!Triple(r) \in Graph!Triples
         /\ Graph!Triple(r)[1] = r.subject /\ Graph!Triple(r)[3] = r.object
         /\ r.confidence \in Confidence /\ r.confidence \in Nat
BY DEF Graph!Triple, Graph!Triples, GraphClaim, Graph!RelationshipGraphAssumption

\* What a MERGE leaves of the edges.
LEMMA EdgesMerged ==
  ASSUME GraphInv, NEW t \in Graph!Triples, NEW confidence \in Confidence,
         Graph!MergeEdge(t, confidence)
  PROVE  /\ edges' \subseteq Graph!Edge
         /\ Graph!OneEdgePerTriple => renamed \/ \A d, f \in edges' : d.triple = f.triple => d = f
         /\ \A d \in edges : d.triple # t => d \in edges'
         /\ {t[1], t[3]} \subseteq nodes => \E d \in edges' : d.triple = t /\ d.confidence = confidence
<1> DEFINE old == Graph!EdgesOf(t)
           new == [triple |-> t, born |-> <<t, modifies>>, confidence |-> confidence]
           set == {[d EXCEPT !.confidence = confidence] : d \in old}
<1>1. /\ edges \subseteq Graph!Edge /\ modifies \in 0 .. MaxModifies
      /\ renamed \/ \A d, f \in edges : d.triple = f.triple => d = f
  BY GraphTypes DEF GraphInv, Graph!OneEdgePerTriple
<1>2. old \subseteq edges /\ \A d \in edges : d \in old <=> d.triple = t
  BY DEF Graph!EdgesOf
<1>3. new \in Graph!Edge /\ new.triple = t /\ new.confidence = confidence
  BY <1>1 DEF Graph!Edge
<1>4. \A d \in old : /\ [d EXCEPT !.confidence = confidence] \in Graph!Edge
                     /\ [d EXCEPT !.confidence = confidence].triple = t
                     /\ [d EXCEPT !.confidence = confidence].confidence = confidence
  BY <1>1, <1>2 DEF Graph!Edge
<1>5. CASE ~ {t[1], t[3]} \subseteq nodes
  <2>1. edges' = edges
    BY <1>5 DEF Graph!MergeEdge
  <2> QED  BY <1>1, <1>5, <2>1
<1>6. CASE {t[1], t[3]} \subseteq nodes /\ old = {}
  <2>1. edges' = (edges \ old) \cup {new}
    BY <1>6 DEF Graph!MergeEdge
  <2> HIDE DEF new
  <2> QED  BY <1>1, <1>2, <1>3, <1>6, <2>1
<1>7. CASE {t[1], t[3]} \subseteq nodes /\ old # {}
  <2>1. edges' = (edges \ old) \cup set
    BY <1>7 DEF Graph!MergeEdge
  <2>2. /\ set \subseteq Graph!Edge
        /\ \A d \in set : d.triple = t /\ d.confidence = confidence
    BY <1>4
  <2>3. set # {}
    BY <1>7
  <2>4. (\A d, f \in old : d = f) => \A d, f \in set : d = f
    OBVIOUS
  <2>5. renamed \/ \A d, f \in old : d = f
    BY <1>1, <1>2
  <2> HIDE DEF set
  <2> QED  BY <1>1, <1>2, <1>7, <2>1, <2>2, <2>3, <2>4, <2>5
<1> QED  BY <1>5, <1>6, <1>7

LEMMA GraphReturned == GraphInv => Graph!ReturnedIsStored
<1> SUFFICES ASSUME GraphInv, at = "ended" PROVE
       /\ ~ result.error /\ ~ touched /\ enabled =>
            \A c \in Chunk : \A r \in found[c] :
              \E d \in edges : d.triple = Graph!Triple(r) /\ d.confidence >= r.confidence
       /\ ~ result.error =>
            \A c \in Chunk : \A r \in found[c] :
              \E q \in result.relationships :
                Graph!Triple(q) = Graph!Triple(r) /\ q.confidence >= r.confidence
       /\ failed # {} \/ ~ enabled => nodes = {}
       /\ \A r, q \in result.relationships : Graph!Triple(r) = Graph!Triple(q) => r = q
  BY DEF Graph!ReturnedIsStored
<1>1. \A c \in Chunk : found[c] \subseteq FoundClaims
  BY DEF FoundClaims
<1>2. result.relationships = {} \/ result.relationships = merged
  BY GraphTypes
<1>3. ASSUME ~ result.error, NEW c \in Chunk, NEW r \in found[c]
      PROVE  \E q \in result.relationships :
               Graph!Triple(q) = Graph!Triple(r) /\ q.confidence >= r.confidence
  <2>1. result.relationships = Graph!Deduplicated(FoundClaims)
    BY <1>3 DEF GraphInv, GraphPhases
  <2>2. r \in FoundClaims /\ FoundClaims \subseteq GraphClaim
    BY <1>1, <1>3, GraphTypes
  <2> QED  BY <2>1, <2>2, BestIsKept
<1>4. /\ ~ result.error /\ ~ touched /\ enabled =>
           \A c \in Chunk : \A r \in found[c] :
             \E d \in edges : d.triple = Graph!Triple(r) /\ d.confidence >= r.confidence
      /\ failed # {} \/ ~ enabled => nodes = {}
      /\ \A r, q \in result.relationships : Graph!Triple(r) = Graph!Triple(q) => r = q
  BY <1>1, <1>2 DEF GraphInv, GraphPhases, HasEdge
<1> QED  BY <1>3, <1>4

LEMMA GraphInit == Init => GraphInv
<1> SUFFICES ASSUME Init PROVE GraphInv
  OBVIOUS
<1>1. /\ enabled \in BOOLEAN
      /\ answered = {} /\ failed = {} /\ found = [c \in Chunk |-> {}] /\ at = "chunks"
      /\ toWrite = {} /\ merged = {} /\ result = [relationships |-> {}, error |-> TRUE]
      /\ nodes = {} /\ edges = {} /\ modifies = 0 /\ touched = FALSE /\ renamed = FALSE
  BY DEF Init, Graph!Init, Graph!NoResult
<1>2. 0 \in 0 .. MaxModifies
  BY DEF Graph!RelationshipGraphAssumption
<1>3. Graph!TypeOK
  BY <1>1, <1>2 DEF Graph!TypeOK
<1>4. found \in [Chunk -> SUBSET GraphClaim]
  BY <1>1
<1>5. GraphPhases /\ Graph!OneEdgePerTriple
  BY <1>1 DEF GraphPhases, Graph!OneEdgePerTriple
<1> QED  BY <1>3, <1>4, <1>5 DEF GraphInv

LEMMA GraphChunks ==
  ASSUME GraphInv, NEW c \in Chunk, Graph!ChunkAnswers(c) \/ Graph!ChunkFails(c)
  PROVE  GraphInv'
<1>1. /\ at = "chunks" /\ at' = "chunks" /\ c \notin answered \cup failed
      /\ UNCHANGED <<enabled, toWrite, merged, result, nodes, edges, modifies, touched, renamed>>
  BY DEF Graph!ChunkAnswers, Graph!ChunkFails
<1>2. answered' \subseteq Chunk /\ failed' \subseteq Chunk \ answered'
  BY <1>1, GraphTypes DEF Graph!ChunkAnswers, Graph!ChunkFails
<1>3. found' \in [Chunk -> SUBSET GraphClaim] /\ found' \in [Chunk -> SUBSET UNION Answers]
  <2>1. CASE Graph!ChunkAnswers(c)
    <3>1. PICK said \in Answers \cup {{}} : found' = [found EXCEPT ![c] = Graph!Valid(said)]
      BY <2>1 DEF Graph!ChunkAnswers
    <3>2. Graph!Valid(said) \subseteq said /\ said \subseteq UNION Answers
      BY DEF Graph!Valid
    <3>3. Graph!Valid(said) \subseteq GraphClaim
      <4>1. said \subseteq [subject : Entity \cup {Unknown}, predicate : Predicate,
                            object : Entity \cup {Unknown}, confidence : Confidence]
        BY DEF Graph!RelationshipGraphAssumption
      <4> QED  BY <4>1 DEF Graph!Valid, GraphClaim
    <3> QED  BY <3>1, <3>2, <3>3, GraphTypes
  <2>2. CASE Graph!ChunkFails(c)
    BY <2>2, GraphTypes DEF Graph!ChunkFails
  <2> QED  BY <2>1, <2>2
<1>4. nodes = {} /\ merged = {} /\ result.relationships = {}
  BY <1>1 DEF GraphInv, GraphPhases
<1>5. Graph!TypeOK'
  BY <1>1, <1>2, <1>3, GraphTypes DEF Graph!TypeOK
<1>6. GraphPhases'
  BY <1>1, <1>4 DEF GraphPhases
<1>7. Graph!OneEdgePerTriple'
  BY <1>1 DEF GraphInv, Graph!OneEdgePerTriple
<1> QED  BY <1>3, <1>5, <1>6, <1>7 DEF GraphInv

\* Nothing is written, and the answer is an error.
LEMMA GraphMergeFails ==
  ASSUME GraphInv, Graph!MergeFailed \/ Graph!GraphUnreachable
  PROVE  GraphInv'
<1>1. /\ at = "chunks" /\ at' = "ended"
      /\ result' = [relationships |-> {}, error |-> TRUE]
      /\ UNCHANGED <<enabled, answered, failed, found, toWrite, merged, nodes, edges, touched, renamed>>
      /\ modifies' \in 0 .. MaxModifies
  <2>1. CASE Graph!MergeFailed
    BY <2>1, GraphTypes DEF Graph!MergeFailed, Graph!Ends, Graph!chunkVars
  <2>2. CASE Graph!GraphUnreachable
    <3>1. modifies' = modifies + 1 /\ modifies < MaxModifies
      BY <2>2 DEF Graph!GraphUnreachable
    <3>2. modifies' \in 0 .. MaxModifies
      BY <3>1, GraphTypes
    <3> QED  BY <2>2, <3>2 DEF Graph!GraphUnreachable, Graph!Ends, Graph!chunkVars
  <2> QED  BY <2>1, <2>2
<1>2. nodes = {} /\ merged = {}
  BY <1>1 DEF GraphInv, GraphPhases
<1>3. result' \in [relationships : {{}, merged'}, error : BOOLEAN]
  BY <1>1
<1>4. Graph!TypeOK'
  BY <1>1, <1>3, GraphTypes DEF Graph!TypeOK
<1>5. GraphPhases'
  BY <1>1, <1>2 DEF GraphPhases
<1>6. Graph!OneEdgePerTriple' /\ found' \in [Chunk -> SUBSET GraphClaim]
  BY <1>1 DEF GraphInv, Graph!OneEdgePerTriple
<1> QED  BY <1>4, <1>5, <1>6 DEF GraphInv

LEMMA GraphMerges ==
  ASSUME GraphInv, Graph!Merge
  PROVE  GraphInv'
<1>1. /\ at = "chunks" /\ answered = Chunk /\ touched' = FALSE
      /\ UNCHANGED <<enabled, answered, failed, found, nodes, edges, modifies, renamed>>
      /\ merged' = Graph!Deduplicated(FoundClaims)
  BY DEF Graph!Merge, Graph!chunkVars, FoundClaims
<1>2. /\ nodes = {} /\ failed = {} /\ result.relationships = {}
  BY <1>1, GraphTypes DEF GraphInv, GraphPhases
<1>3. FoundClaims' = FoundClaims /\ FoundClaims \subseteq GraphClaim
  BY <1>1, GraphTypes DEF FoundClaims
<1>4. /\ merged' \subseteq FoundClaims
      /\ \A r, q \in merged' : Graph!Triple(r) = Graph!Triple(q) => r = q
  BY <1>1, <1>3, OneIsKept
<1>5. CASE FoundClaims = {} \/ ~ enabled
  <2>1. /\ at' = "ended" /\ UNCHANGED toWrite
        /\ result' = [relationships |-> merged', error |-> FALSE]
    BY <1>5 DEF Graph!Merge, Graph!Ends, FoundClaims
  <2>2. result' \in [relationships : {{}, merged'}, error : BOOLEAN]
    BY <2>1
  <2>3. Graph!TypeOK'
    BY <1>1, <2>1, <2>2, GraphTypes DEF Graph!TypeOK
  <2>4. GraphPhases'
    BY <1>1, <1>2, <1>3, <1>4, <1>5, <2>1 DEF GraphPhases
  <2> QED  BY <1>1, <2>3, <2>4 DEF GraphInv, Graph!OneEdgePerTriple
<1>6. CASE FoundClaims # {} /\ enabled
  <2>1. at' = "entities" /\ UNCHANGED result /\ toWrite' = UNION {{r.subject, r.object} : r \in FoundClaims}
    BY <1>6 DEF Graph!Merge, FoundClaims
  <2>2. result' \in [relationships : {{}, merged'}, error : BOOLEAN]
    <3>1. result.error \in BOOLEAN /\ result = [relationships |-> result.relationships, error |-> result.error]
      BY GraphTypes
    <3> QED  BY <1>2, <2>1, <3>1
  <2>3. Graph!TypeOK'
    BY <1>1, <2>1, <2>2, GraphTypes DEF Graph!TypeOK
  <2>4. toWrite' \subseteq Entity /\ \A r \in FoundClaims : {r.subject, r.object} \subseteq toWrite'
    BY <1>3, <2>1 DEF GraphClaim
  <2>5. GraphPhases'
    BY <1>1, <1>2, <1>3, <1>4, <1>6, <2>1, <2>4 DEF GraphPhases
  <2> QED  BY <1>1, <2>3, <2>5 DEF GraphInv, Graph!OneEdgePerTriple
<1> QED  BY <1>5, <1>6

LEMMA GraphStatementFails ==
  ASSUME GraphInv, Graph!StatementFails
  PROVE  GraphInv'
<1>1. /\ at \in {"entities", "edges"} /\ at' = "ended" /\ modifies < MaxModifies
      /\ modifies' = modifies + 1 /\ result' = [relationships |-> merged, error |-> TRUE]
      /\ UNCHANGED <<enabled, answered, failed, found, toWrite, merged, nodes, edges, touched, renamed>>
  BY DEF Graph!StatementFails, Graph!Ends, Graph!chunkVars
<1>2. modifies' \in 0 .. MaxModifies
  BY <1>1, GraphTypes
<1>3. result' \in [relationships : {{}, merged'}, error : BOOLEAN]
  BY <1>1
<1>4. Graph!TypeOK'
  BY <1>1, <1>2, <1>3, GraphTypes DEF Graph!TypeOK
<1>5. FoundClaims' = FoundClaims
  BY <1>1 DEF FoundClaims
<1>6. GraphPhases'
  BY <1>1, <1>5 DEF GraphInv, GraphPhases
<1>7. Graph!OneEdgePerTriple' /\ found' \in [Chunk -> SUBSET GraphClaim]
  BY <1>1 DEF GraphInv, Graph!OneEdgePerTriple
<1> QED  BY <1>4, <1>6, <1>7 DEF GraphInv

LEMMA GraphEntity ==
  ASSUME GraphInv, NEW e \in Entity, Graph!UpsertEntity(e)
  PROVE  GraphInv'
<1>1. /\ at = "entities" /\ e \in toWrite /\ nodes' = nodes \cup {e}
      /\ UNCHANGED <<enabled, answered, failed, found, merged, result, edges, modifies, touched, renamed>>
  BY DEF Graph!UpsertEntity, Graph!chunkVars
<1>2. /\ failed = {} /\ enabled
      /\ merged = Graph!Deduplicated(FoundClaims) /\ merged \subseteq FoundClaims
      /\ \A r, q \in merged : Graph!Triple(r) = Graph!Triple(q) => r = q
      /\ toWrite \subseteq Entity
      /\ \A r \in FoundClaims : {r.subject, r.object} \subseteq nodes \cup toWrite
  BY <1>1 DEF GraphInv, GraphPhases
<1>3. FoundClaims' = FoundClaims
  BY <1>1 DEF FoundClaims
<1>4. nodes' \subseteq Entity
  BY <1>1, GraphTypes
<1>5. Graph!OneEdgePerTriple' /\ found' \in [Chunk -> SUBSET GraphClaim]
  BY <1>1 DEF GraphInv, Graph!OneEdgePerTriple
<1>6. CASE toWrite = {e}
  <2>1. at' = "edges" /\ toWrite' = merged
    BY <1>6 DEF Graph!UpsertEntity
  <2>2. Graph!TypeOK'
    BY <1>1, <1>4, <2>1, GraphTypes DEF Graph!TypeOK
  <2>3. GraphPhases'
    BY <1>1, <1>2, <1>3, <1>6, <2>1 DEF GraphPhases
  <2> QED  BY <1>5, <2>2, <2>3 DEF GraphInv
<1>7. CASE toWrite # {e}
  <2>1. at' = "entities" /\ toWrite' = toWrite \ {e}
    BY <1>1, <1>7 DEF Graph!UpsertEntity
  <2>2. Graph!TypeOK'
    BY <1>1, <1>4, <2>1, GraphTypes DEF Graph!TypeOK
  <2>3. GraphPhases'
    BY <1>1, <1>2, <1>3, <2>1 DEF GraphPhases
  <2> QED  BY <1>5, <2>2, <2>3 DEF GraphInv
<1> QED  BY <1>6, <1>7

\* Another edge than the claim's own is left alone by its MERGE.
LEMMA GraphRelationship ==
  ASSUME GraphInv, NEW r \in merged, Graph!UpsertRelationship(r)
  PROVE  GraphInv'
<1>1. /\ at = "edges" /\ r \in toWrite /\ Graph!MergeEdge(Graph!Triple(r), r.confidence)
      /\ toWrite' = toWrite \ {r}
      /\ UNCHANGED <<enabled, answered, failed, found, merged, nodes, modifies, touched, renamed>>
  BY DEF Graph!UpsertRelationship, Graph!chunkVars
<1>2. /\ failed = {} /\ enabled
      /\ merged = Graph!Deduplicated(FoundClaims) /\ merged \subseteq FoundClaims
      /\ \A p, q \in merged : Graph!Triple(p) = Graph!Triple(q) => p = q
      /\ toWrite \subseteq merged
      /\ \A q \in FoundClaims : {q.subject, q.object} \subseteq nodes
      /\ ~ touched => \A q \in merged : q \in toWrite \/ HasEdge(edges, q)
  BY <1>1 DEF GraphInv, GraphPhases
<1>3. FoundClaims' = FoundClaims
  BY <1>1 DEF FoundClaims
<1>4. /\ r \in GraphClaim /\ Graph!Triple(r) \in Graph!Triples
      /\ {Graph!Triple(r)[1], Graph!Triple(r)[3]} \subseteq nodes
      /\ r.confidence \in Confidence /\ r.confidence \in Nat
  BY <1>2, GraphTypes, TripleOfClaim
<1>5. /\ edges' \subseteq Graph!Edge
      /\ Graph!OneEdgePerTriple => renamed \/ \A d, f \in edges' : d.triple = f.triple => d = f
      /\ \A d \in edges : d.triple # Graph!Triple(r) => d \in edges'
      /\ \E d \in edges' : d.triple = Graph!Triple(r) /\ d.confidence = r.confidence
  BY <1>1, <1>4, EdgesMerged
<1>6. Graph!OneEdgePerTriple' /\ found' \in [Chunk -> SUBSET GraphClaim]
  BY <1>1, <1>5 DEF GraphInv, Graph!OneEdgePerTriple
<1>7. HasEdge(edges', r)
  BY <1>4, <1>5 DEF HasEdge
<1>8. ~ touched => \A q \in merged : q \in toWrite' \/ HasEdge(edges', q)
  <2> SUFFICES ASSUME ~ touched, NEW q \in merged, q \notin toWrite' PROVE HasEdge(edges', q)
    OBVIOUS
  <2>1. CASE q = r
    BY <1>7, <2>1
  <2>2. CASE q # r
    <3>1. HasEdge(edges, q) /\ Graph!Triple(q) # Graph!Triple(r)
      BY <1>1, <1>2, <2>2
    <3> QED  BY <1>5, <3>1 DEF HasEdge
  <2> QED  BY <2>1, <2>2
<1>9. CASE toWrite = {r}
  <2>1. at' = "ended" /\ result' = [relationships |-> merged, error |-> FALSE]
    BY <1>9 DEF Graph!UpsertRelationship, Graph!Ends
  <2>2. result' \in [relationships : {{}, merged'}, error : BOOLEAN]
    BY <1>1, <2>1
  <2>3. Graph!TypeOK'
    BY <1>1, <1>5, <2>1, <2>2, GraphTypes DEF Graph!TypeOK
  <2>4. ~ touched => \A q \in FoundClaims : HasEdge(edges', q)
    <3> SUFFICES ASSUME ~ touched, NEW q \in FoundClaims PROVE HasEdge(edges', q)
      OBVIOUS
    <3>1. PICK p \in merged : Graph!Triple(p) = Graph!Triple(q) /\ p.confidence >= q.confidence
      BY <1>2, GraphTypes, BestIsKept
    <3>2. p \notin toWrite'
      BY <1>1, <1>9
    <3>3. PICK d \in edges' : d.triple = Graph!Triple(p) /\ d.confidence >= p.confidence
      BY <1>8, <3>2 DEF HasEdge
    <3>4. p \in GraphClaim /\ q \in GraphClaim /\ d \in Graph!Edge
      BY <1>5, GraphTypes
    <3>5. p.confidence \in Nat /\ q.confidence \in Nat /\ d.confidence \in Nat
      BY <3>4, GraphTypes DEF GraphClaim, Graph!Edge
    <3>6. d.triple = Graph!Triple(q) /\ d.confidence >= q.confidence
      BY <3>1, <3>3, <3>5
    <3> QED  BY <3>6 DEF HasEdge
  <2>5. GraphPhases'
    BY <1>1, <1>2, <1>3, <2>1, <2>4 DEF GraphPhases
  <2> QED  BY <1>6, <2>3, <2>5 DEF GraphInv
<1>10. CASE toWrite # {r}
  <2>1. at' = "edges" /\ UNCHANGED result
    BY <1>1, <1>10 DEF Graph!UpsertRelationship
  <2>2. Graph!TypeOK'
    BY <1>1, <1>5, <2>1, GraphTypes DEF Graph!TypeOK
  <2>3. GraphPhases'
    BY <1>1, <1>2, <1>3, <1>8, <2>1 DEF GraphPhases
  <2> QED  BY <1>6, <2>2, <2>3 DEF GraphInv
<1> QED  BY <1>9, <1>10

\* What every change of the user's leaves alone.
LEMMA GraphUserModifies ==
  ASSUME GraphInv, Graph!Modify, edges' \subseteq Graph!Edge, renamed' \in BOOLEAN,
         Graph!OneEdgePerTriple'
  PROVE  GraphInv'
<1>1. /\ touched' = TRUE /\ modifies < MaxModifies /\ modifies' = modifies + 1
      /\ UNCHANGED <<enabled, answered, failed, found, at, toWrite, merged, result, nodes>>
  BY DEF Graph!Modify, Graph!chunkVars
<1>2. modifies' \in 0 .. MaxModifies
  BY <1>1, GraphTypes
<1>3. Graph!TypeOK'
  BY <1>1, <1>2, GraphTypes DEF Graph!TypeOK
<1>4. FoundClaims' = FoundClaims
  BY <1>1 DEF FoundClaims
<1>5. GraphPhases'
  BY <1>1, <1>4 DEF GraphInv, GraphPhases
<1>6. found' \in [Chunk -> SUBSET GraphClaim]
  BY <1>1, GraphTypes
<1> QED  BY <1>3, <1>5, <1>6 DEF GraphInv

LEMMA GraphCreates ==
  ASSUME GraphInv, NEW t \in Graph!Triples, Graph!CreateRelationship(t)
  PROVE  GraphInv'
<1>1. Graph!Modify /\ Graph!MergeEdge(t, 1) /\ UNCHANGED renamed
  BY DEF Graph!CreateRelationship
<1>2. 1 \in Confidence
  BY GraphTypes
<1>3. /\ edges' \subseteq Graph!Edge
      /\ Graph!OneEdgePerTriple => renamed \/ \A d, f \in edges' : d.triple = f.triple => d = f
  BY <1>1, <1>2, EdgesMerged
<1>4. Graph!OneEdgePerTriple' /\ renamed' \in BOOLEAN
  BY <1>1, <1>3, GraphTypes DEF GraphInv, Graph!OneEdgePerTriple
<1> QED  BY <1>1, <1>3, <1>4, GraphUserModifies

LEMMA GraphDeletes ==
  ASSUME GraphInv, Graph!DeleteByResource \/ \E t \in Graph!Triples : Graph!DeleteRelationship(t)
  PROVE  GraphInv'
<1>1. Graph!Modify /\ edges' \subseteq edges /\ UNCHANGED renamed
  BY DEF Graph!DeleteByResource, Graph!DeleteRelationship
<1>2. edges' \subseteq Graph!Edge /\ renamed' \in BOOLEAN
  BY <1>1, GraphTypes
<1>3. Graph!OneEdgePerTriple'
  BY <1>1 DEF GraphInv, Graph!OneEdgePerTriple
<1> QED  BY <1>1, <1>2, <1>3, GraphUserModifies

LEMMA GraphUpdates ==
  ASSUME GraphInv, NEW t \in Graph!Triples, NEW new \in Predicate \ {t[2]},
         Graph!UpdateRelationship(t, new)
  PROVE  GraphInv'
<1> DEFINE old == Graph!EdgesOf(t)
           set == {[d EXCEPT !.triple = <<t[1], new, t[3]>>] : d \in old}
<1>1. Graph!Modify /\ edges' = (edges \ old) \cup set /\ renamed' = (renamed \/ old # {})
  BY DEF Graph!UpdateRelationship
<1>2. <<t[1], new, t[3]>> \in Graph!Triples
  BY DEF Graph!Triples
<1>3. \A d \in old : d \in Graph!Edge
  BY GraphTypes DEF Graph!EdgesOf
<1>4. set \subseteq Graph!Edge
  BY <1>2, <1>3 DEF Graph!Edge
<1>5. edges' \subseteq Graph!Edge
  <2> HIDE DEF set, old
  <2> QED  BY <1>1, <1>4, GraphTypes
<1>6. renamed' \in BOOLEAN /\ renamed \in BOOLEAN
  <2> HIDE DEF old
  <2> QED  BY <1>1, GraphTypes
<1>7. Graph!OneEdgePerTriple'
  <2>1. CASE old = {}
    <3>1. edges' = edges
      BY <1>1, <2>1
    <3>2. renamed \/ \A d, f \in edges : d.triple = f.triple => d = f
      BY DEF GraphInv, Graph!OneEdgePerTriple
    <3>3. renamed => renamed'
      BY <1>1
    <3> QED  BY <3>1, <3>2, <3>3 DEF Graph!OneEdgePerTriple
  <2>2. CASE old # {}
    <3>1. renamed' = TRUE
      BY <1>1, <2>2
    <3> QED  BY <3>1 DEF Graph!OneEdgePerTriple
  <2> QED  BY <2>1, <2>2
<1> QED  BY <1>1, <1>5, <1>6, <1>7, GraphUserModifies

LEMMA GraphNext ==
  ASSUME GraphInv, Graph!GraphStep
  PROVE  GraphInv'
BY GraphChunks, GraphMergeFails, GraphMerges, GraphStatementFails, GraphEntity, GraphRelationship,
   GraphCreates, GraphDeletes, GraphUpdates DEF Graph!GraphStep

LEMMA GraphStutter ==
  ASSUME GraphInv, UNCHANGED graphVars
  PROVE  GraphInv'
<1>1. UNCHANGED <<enabled, answered, failed, found, at, toWrite, merged, result, nodes, edges,
                  modifies, touched, renamed>>
  BY DEF graphVars
<1>2. FoundClaims' = FoundClaims
  BY <1>1 DEF FoundClaims
<1>3. Graph!TypeOK'
  BY <1>1, GraphTypes DEF Graph!TypeOK
<1>4. GraphPhases'
  BY <1>1, <1>2 DEF GraphInv, GraphPhases
<1>5. Graph!OneEdgePerTriple' /\ found' \in [Chunk -> SUBSET GraphClaim]
  BY <1>1 DEF GraphInv, Graph!OneEdgePerTriple
<1> QED  BY <1>3, <1>4, <1>5 DEF GraphInv

-----------------------------------------------------------------------------
(* The voice session *)

Audio(messages) == {i \in 1 .. Len(messages) : messages[i] = "audio"}

Messages == {"audio", "nonsense", "stop", "cancel", "close"}

\* The frames that wait to be read are frames that were sent.
FramesAreSent == buffer + Cardinality(Audio(inbox)) <= sent

\* As long as the handler reads there is no final text, and nothing is stable.
TextsOfTheSession ==
  /\ open => final = Session!Nothing /\ stableText = Session!NoText
  /\ running # Session!NoRun => open /\ running.frames = buffer
  /\ windowText = Session!NoText \/ windowText \in partials

SessionInv == Session!TypeOK /\ FramesAreSent /\ TextsOfTheSession /\ Session!TextsDoNotRepeat

LEMMA SessionTypes ==
  ASSUME SessionInv
  PROVE  /\ inbox \in Seq(Messages) /\ sent \in 0 .. MaxFrames /\ buffer \in 0 .. MaxFrames
         /\ sinceLastRun \in 0 .. Quarter - 1
         /\ stableText \in Seq(0 .. MaxFrames) /\ windowText \in Seq(0 .. MaxFrames)
         /\ final \in Seq(0 .. MaxFrames)
         /\ running \in [frames : 0 .. MaxFrames, isFinal : BOOLEAN]
         /\ partials \subseteq Seq(0 .. MaxFrames) /\ open \in BOOLEAN
         /\ MaxFrames \in Nat /\ Quarter \in Nat \ {0}
BY DEF SessionInv, Session!TypeOK, Session!VoiceSessionAssumption, Messages

LEMMA AudioIsFinite ==
  ASSUME NEW messages \in Seq(Messages)
  PROVE  IsFiniteSet(Audio(messages)) /\ Cardinality(Audio(messages)) \in Nat
<1>1. IsFiniteSet(1 .. Len(messages))
  BY FS_Interval
<1> QED  BY <1>1, FS_Subset, FS_CardinalityType DEF Audio

\* What is added to the inbox waits, whatever it is.
LEMMA AudioAppended ==
  ASSUME NEW messages \in Seq(Messages), NEW kind \in Messages
  PROVE  /\ Cardinality(Audio(Append(messages, "audio"))) = Cardinality(Audio(messages)) + 1
         /\ kind # "audio" => Audio(Append(messages, kind)) = Audio(messages)
<1> DEFINE n == Len(messages) + 1
<1>1. /\ n \in Nat /\ n \notin Audio(messages)
      /\ Audio(Append(messages, "audio")) = Audio(messages) \cup {n}
  BY DEF Audio
<1>2. kind # "audio" => Audio(Append(messages, kind)) = Audio(messages)
  BY DEF Audio
<1> QED  BY <1>1, <1>2, AudioIsFinite, FS_AddElement

\* Who reads a frame takes one of those that wait; the others move up.
LEMMA AudioRead ==
  ASSUME NEW messages \in Seq(Messages), messages # <<>>
  PROVE  Cardinality(Audio(Tail(messages))) =
           Cardinality(Audio(messages)) - (IF Head(messages) = "audio" THEN 1 ELSE 0)
<1> DEFINE others == Audio(messages) \ {1}
           moved  == [i \in others |-> i - 1]
<1>1. /\ Len(messages) \in Nat /\ Len(messages) >= 1
      /\ Tail(messages) \in Seq(Messages) /\ Len(Tail(messages)) = Len(messages) - 1
      /\ \A i \in 1 .. Len(Tail(messages)) : Tail(messages)[i] = messages[i + 1]
  OBVIOUS
<1>2. \A i \in others : i \in 2 .. Len(messages) /\ messages[i] = "audio"
  BY <1>1 DEF Audio
<1>3. \A i \in others : i - 1 \in Audio(Tail(messages))
  <2> SUFFICES ASSUME NEW i \in others PROVE i - 1 \in Audio(Tail(messages))
    OBVIOUS
  <2>1. i \in Nat /\ i - 1 \in 1 .. Len(Tail(messages)) /\ (i - 1) + 1 = i
    BY <1>1, <1>2
  <2>2. Tail(messages)[i - 1] = messages[i]
    BY <1>1, <2>1
  <2> QED  BY <1>2, <2>1, <2>2 DEF Audio
<1>4. \A k \in Audio(Tail(messages)) : k \in Nat /\ k + 1 \in others /\ (k + 1) - 1 = k
  <2> SUFFICES ASSUME NEW k \in Audio(Tail(messages))
               PROVE  k \in Nat /\ k + 1 \in others /\ (k + 1) - 1 = k
    OBVIOUS
  <2>1. k \in 1 .. Len(Tail(messages)) /\ Tail(messages)[k] = "audio"
    BY DEF Audio
  <2>2. k \in Nat /\ k + 1 \in 2 .. Len(messages) /\ messages[k + 1] = "audio" /\ (k + 1) - 1 = k
    BY <1>1, <2>1
  <2> QED  BY <2>2 DEF Audio
<1>5. moved \in Bijection(others, Audio(Tail(messages)))
  <2>1. moved \in [others -> Audio(Tail(messages))]
    BY <1>3
  <2>2. \A a, b \in others : moved[a] = moved[b] => a = b
    BY <1>2
  <2>3. \A k \in Audio(Tail(messages)) : \E i \in others : moved[i] = k
    BY <1>4
  <2> HIDE DEF moved, others
  <2> QED  BY <2>1, <2>2, <2>3 DEF Bijection, Injection, Surjection, IsInjective
<1>6. IsFiniteSet(others)
  BY AudioIsFinite, FS_Subset
<1>7. Cardinality(Audio(Tail(messages))) = Cardinality(others)
  <2> HIDE DEF moved, others
  <2> QED  BY <1>5, <1>6, FS_Bijection DEF ExistsBijection
<1>8. Head(messages) = messages[1]
  OBVIOUS
<1>9. CASE messages[1] = "audio"
  <2>1. 1 \in Audio(messages)
    BY <1>1, <1>9 DEF Audio
  <2>2. Cardinality(others) = Cardinality(Audio(messages)) - 1
    BY <2>1, AudioIsFinite, FS_RemoveElement
  <2> QED  BY <1>7, <1>8, <1>9, <2>2
<1>10. CASE messages[1] # "audio"
  <2>1. others = Audio(messages)
    BY <1>10 DEF Audio
  <2>2. Cardinality(Audio(messages)) \in Nat
    BY AudioIsFinite
  <2>3. Cardinality(Audio(Tail(messages))) = Cardinality(Audio(messages))
    BY <1>7, <2>1
  <2>4. Cardinality(Audio(messages)) - 0 = Cardinality(Audio(messages))
    BY <2>2
  <2> QED  BY <1>8, <1>10, <2>3, <2>4
<1> QED  BY <1>9, <1>10

LEMMA SessionInit == Init => SessionInv
<1> SUFFICES ASSUME Init PROVE SessionInv
  OBVIOUS
<1>1. /\ inbox = <<>> /\ sent = 0 /\ buffer = 0 /\ sinceLastRun = 0
      /\ stableText = <<>> /\ windowText = <<>> /\ running = [frames |-> 0, isFinal |-> FALSE]
      /\ partials = {} /\ final = <<0>> /\ open = TRUE
  BY DEF Init, Session!Init, Session!NoText, Session!NoRun, Session!Nothing
<1>2. 0 \in 0 .. MaxFrames /\ 0 \in 0 .. Quarter - 1
  BY DEF Session!VoiceSessionAssumption
<1>3. <<0>> \in Seq(0 .. MaxFrames) /\ Len(<<0>>) = 1
  BY <1>2
<1>4. Session!TypeOK
  BY <1>1, <1>2, <1>3 DEF Session!TypeOK
<1>5. FramesAreSent
  <2>1. Audio(inbox) = {}
    BY <1>1 DEF Audio
  <2>2. Cardinality(Audio(inbox)) = 0
    BY <2>1, FS_EmptySet
  <2> QED  BY <1>1, <2>2 DEF FramesAreSent
<1>6. TextsOfTheSession /\ Session!TextsDoNotRepeat
  BY <1>1, <1>3 DEF TextsOfTheSession, Session!TextsDoNotRepeat, Session!NoText, Session!NoRun, Session!Nothing
<1> QED  BY <1>4, <1>5, <1>6 DEF SessionInv

LEMMA SessionSends ==
  ASSUME SessionInv, Session!ClientSends
  PROVE  SessionInv'
<1>1. UNCHANGED <<buffer, sinceLastRun, stableText, windowText, running, partials, final, open>>
  BY DEF Session!ClientSends
<1>2. inbox' \in Seq(Messages) /\ sent' \in 0 .. MaxFrames /\ FramesAreSent'
  <2>1. Cardinality(Audio(inbox)) \in Nat
    BY AudioIsFinite, SessionTypes
  <2>2. CASE sent < MaxFrames /\ sent' = sent + 1 /\ inbox' = Append(inbox, "audio")
    <3>1. inbox' \in Seq(Messages) /\ sent' \in 0 .. MaxFrames
      BY <2>2, SessionTypes DEF Messages
    <3>2. Cardinality(Audio(inbox')) = Cardinality(Audio(inbox)) + 1
      BY <2>2, AudioAppended, SessionTypes DEF Messages
    <3>3. buffer \in Nat /\ sent \in Nat /\ buffer + Cardinality(Audio(inbox)) <= sent
      BY SessionTypes DEF SessionInv, FramesAreSent
    <3>4. buffer' = buffer /\ sent' = sent + 1
      BY <1>1, <2>2
    <3>5. buffer' + Cardinality(Audio(inbox')) <= sent'
      BY ONLY <2>1, <3>2, <3>3, <3>4
    <3> QED  BY <3>1, <3>5 DEF FramesAreSent
  <2>3. CASE /\ \E kind \in {"nonsense", "stop", "cancel", "close"} : inbox' = Append(inbox, kind)
             /\ UNCHANGED sent
    <3>1. PICK kind \in {"nonsense", "stop", "cancel", "close"} : inbox' = Append(inbox, kind)
      BY <2>3
    <3>2. kind \in Messages /\ kind # "audio"
      BY DEF Messages
    <3>3. inbox' \in Seq(Messages) /\ Audio(inbox') = Audio(inbox)
      BY <3>1, <3>2, AudioAppended, SessionTypes
    <3> QED  BY <1>1, <2>3, <3>3, SessionTypes DEF SessionInv, FramesAreSent
  <2> QED  BY <2>2, <2>3 DEF Session!ClientSends
<1>3. Session!TypeOK'
  BY <1>1, <1>2, SessionTypes DEF Session!TypeOK, Messages
<1>4. TextsOfTheSession' /\ Session!TextsDoNotRepeat'
  BY <1>1 DEF SessionInv, TextsOfTheSession, Session!TextsDoNotRepeat
<1> QED  BY <1>2, <1>3, <1>4 DEF SessionInv

\* What a message that was read leaves of the inbox.
LEMMA SessionReads ==
  ASSUME SessionInv, NEW kind, Session!Reads(kind)
  PROVE  /\ open /\ running = Session!NoRun
         /\ inbox' \in Seq(Messages)
         /\ Cardinality(Audio(inbox)) \in Nat /\ Cardinality(Audio(inbox')) \in Nat
         /\ kind = "audio" => Cardinality(Audio(inbox')) = Cardinality(Audio(inbox)) - 1
         /\ kind # "audio" => Cardinality(Audio(inbox')) = Cardinality(Audio(inbox))
<1>1. /\ open /\ running = Session!NoRun
      /\ inbox # <<>> /\ Head(inbox) = kind /\ inbox' = Tail(inbox)
  BY DEF Session!Reads
<1>2. inbox \in Seq(Messages) /\ Tail(inbox) \in Seq(Messages)
  BY <1>1, SessionTypes
<1>3. /\ Cardinality(Audio(inbox)) \in Nat /\ Cardinality(Audio(inbox')) \in Nat
      /\ Cardinality(Audio(inbox')) = Cardinality(Audio(inbox)) - (IF kind = "audio" THEN 1 ELSE 0)
  BY <1>1, <1>2, AudioIsFinite, AudioRead
<1> QED  BY <1>1, <1>2, <1>3

LEMMA SessionReadsAudio ==
  ASSUME SessionInv, Session!ReadAudio
  PROVE  SessionInv'
<1>1. /\ Session!Reads("audio") /\ buffer' = buffer + 1
      /\ UNCHANGED <<sent, stableText, windowText, partials, final, open>>
  BY DEF Session!ReadAudio
<1>2. /\ open /\ running = Session!NoRun /\ inbox' \in Seq(Messages)
      /\ Cardinality(Audio(inbox)) \in Nat /\ Cardinality(Audio(inbox')) \in Nat
      /\ Cardinality(Audio(inbox')) = Cardinality(Audio(inbox)) - 1
  BY <1>1, SessionReads
<1>3. FramesAreSent' /\ buffer' \in 0 .. MaxFrames
  <2>1. buffer + Cardinality(Audio(inbox)) <= sent /\ buffer \in Nat /\ sent \in Nat /\ sent <= MaxFrames
    BY SessionTypes DEF SessionInv, FramesAreSent
  <2>2. buffer' + Cardinality(Audio(inbox')) <= sent' /\ buffer' <= sent'
    BY <1>1, <1>2, <2>1
  <2>3. buffer' \in 0 .. MaxFrames
    BY <1>1, <2>1, <2>2, SessionTypes
  <2> QED  BY <2>2, <2>3 DEF FramesAreSent
<1>4. /\ sinceLastRun' \in 0 .. Quarter - 1
      /\ running' \in [frames : 0 .. MaxFrames, isFinal : BOOLEAN]
      /\ running' # Session!NoRun => running'.frames = buffer'
  <2>1. CASE sinceLastRun + 1 >= Quarter
    <3>1. sinceLastRun' = 0 /\ running' = [frames |-> buffer', isFinal |-> FALSE]
      BY <1>1, <2>1 DEF Session!ReadAudio
    <3>2. 0 \in 0 .. Quarter - 1
      BY SessionTypes
    <3> QED  BY <1>3, <3>1, <3>2
  <2>2. CASE ~ (sinceLastRun + 1 >= Quarter)
    <3>1. sinceLastRun' = sinceLastRun + 1 /\ running' = running
      BY <2>2 DEF Session!ReadAudio
    <3>2. sinceLastRun + 1 \in 0 .. Quarter - 1
      BY <2>2, SessionTypes
    <3> QED  BY <1>2, <3>1, <3>2, SessionTypes
  <2> QED  BY <2>1, <2>2
<1>5. Session!TypeOK'
  BY <1>1, <1>2, <1>3, <1>4, SessionTypes DEF Session!TypeOK, Messages
<1>6. TextsOfTheSession' /\ Session!TextsDoNotRepeat'
  BY <1>1, <1>2, <1>4 DEF SessionInv, TextsOfTheSession, Session!TextsDoNotRepeat
<1> QED  BY <1>3, <1>5, <1>6 DEF SessionInv

\* The window's text has been sent, and is all there is while the handler reads.
LEMMA SessionText ==
  ASSUME SessionInv, open
  PROVE  /\ stableText \o windowText = windowText /\ Len(windowText) <= 1
         /\ windowText = <<>> \/ windowText \in partials
<1>1. stableText = <<>> /\ windowText \in Seq(0 .. MaxFrames)
  BY SessionTypes DEF SessionInv, TextsOfTheSession, Session!NoText
<1>2. windowText = <<>> \/ windowText \in partials
  BY DEF SessionInv, TextsOfTheSession, Session!NoText
<1>3. Len(windowText) <= 1
  BY <1>2 DEF SessionInv, Session!TextsDoNotRepeat
<1> QED  BY <1>1, <1>2, <1>3

LEMMA SessionReadsOther ==
  ASSUME SessionInv,
         Session!ReadStop \/ Session!ReadCancel \/ Session!ReadNonsense
  PROVE  SessionInv'
<1>1. /\ UNCHANGED <<sent, sinceLastRun, stableText, windowText, partials>>
      /\ \E kind \in {"stop", "cancel", "nonsense"} : Session!Reads(kind)
  BY DEF Session!ReadStop, Session!ReadCancel, Session!ReadNonsense
<1>2. /\ open /\ running = Session!NoRun /\ inbox' \in Seq(Messages)
      /\ Cardinality(Audio(inbox')) = Cardinality(Audio(inbox)) /\ Cardinality(Audio(inbox)) \in Nat
  BY <1>1, SessionReads
<1>3. final = Session!Nothing
  BY <1>2 DEF SessionInv, TextsOfTheSession
<1>4. CASE Session!ReadStop /\ buffer = 0
  <2>1. /\ final' = windowText /\ open' = FALSE /\ UNCHANGED <<running, buffer>>
    BY <1>2, <1>4, SessionText DEF Session!ReadStop, Session!accumulatedText
  <2>2. Session!TypeOK' /\ FramesAreSent'
    BY <1>1, <1>2, <2>1, SessionTypes DEF SessionInv, FramesAreSent, Session!TypeOK, Messages
  <2>3. TextsOfTheSession' /\ Session!TextsDoNotRepeat'
    BY <1>1, <1>2, <2>1, SessionText
       DEF SessionInv, TextsOfTheSession, Session!TextsDoNotRepeat, Session!NoText
  <2> QED  BY <2>2, <2>3 DEF SessionInv
<1>5. CASE Session!ReadStop /\ buffer # 0
  <2>1. /\ running' = [frames |-> buffer, isFinal |-> TRUE] /\ UNCHANGED <<final, open, buffer>>
    BY <1>5 DEF Session!ReadStop
  <2>2. Session!TypeOK' /\ FramesAreSent'
    BY <1>1, <1>2, <2>1, SessionTypes DEF SessionInv, FramesAreSent, Session!TypeOK, Messages
  <2>3. TextsOfTheSession' /\ Session!TextsDoNotRepeat'
    BY <1>1, <1>2, <2>1 DEF SessionInv, TextsOfTheSession, Session!TextsDoNotRepeat
  <2> QED  BY <2>2, <2>3 DEF SessionInv
<1>6. CASE Session!ReadCancel
  <2>1. buffer' = 0 /\ open' = FALSE /\ UNCHANGED <<running, final>>
    BY <1>6 DEF Session!ReadCancel
  <2>2. FramesAreSent'
    <3>1. buffer + Cardinality(Audio(inbox)) <= sent /\ buffer \in Nat /\ sent \in Nat
      BY SessionTypes DEF SessionInv, FramesAreSent
    <3>2. 0 + Cardinality(Audio(inbox')) <= sent
      BY <1>2, <3>1
    <3> QED  BY <1>1, <2>1, <3>2 DEF FramesAreSent
  <2>4. Session!TypeOK'
    <3>1. 0 \in 0 .. MaxFrames
      BY SessionTypes
    <3> QED  BY <1>1, <1>2, <2>1, <3>1, SessionTypes DEF Session!TypeOK, Messages
  <2>3. TextsOfTheSession' /\ Session!TextsDoNotRepeat'
    BY <1>1, <1>2, <1>3, <2>1 DEF SessionInv, TextsOfTheSession, Session!TextsDoNotRepeat
  <2> QED  BY <2>2, <2>3, <2>4 DEF SessionInv
<1>7. CASE Session!ReadNonsense
  <2>1. UNCHANGED <<buffer, open, running, final>>
    BY <1>7 DEF Session!ReadNonsense
  <2>2. Session!TypeOK' /\ FramesAreSent'
    BY <1>1, <1>2, <2>1, SessionTypes DEF SessionInv, FramesAreSent, Session!TypeOK, Messages
  <2>3. TextsOfTheSession' /\ Session!TextsDoNotRepeat'
    BY <1>1, <1>2, <2>1 DEF SessionInv, TextsOfTheSession, Session!TextsDoNotRepeat
  <2> QED  BY <2>2, <2>3 DEF SessionInv
<1> QED  BY <1>4, <1>5, <1>6, <1>7

LEMMA SessionTranscribes ==
  ASSUME SessionInv, Session!Transcribed
  PROVE  SessionInv'
<1>1. /\ running # Session!NoRun /\ running' = Session!NoRun
      /\ UNCHANGED <<inbox, sent, buffer, sinceLastRun>>
  BY DEF Session!Transcribed
<1>2. /\ open /\ running.frames = buffer /\ stableText = <<>> /\ final = Session!Nothing
  BY <1>1 DEF SessionInv, TextsOfTheSession, Session!NoText
<1>3. PICK text \in {<<running.frames>>, <<>>} :
        /\ Session!Folded(text) /\ Session!Emit(stableText' \o windowText')
  BY DEF Session!Transcribed, Session!NoText
<1>4. text \in Seq(0 .. MaxFrames) /\ Len(text) <= 1 /\ (text = <<>> \/ text = <<buffer>>)
  <2>1. running.frames \in 0 .. MaxFrames
    BY SessionTypes
  <2>2. CASE text = <<running.frames>>
    BY <1>2, <2>1, <2>2
  <2>3. CASE text = <<>>
    BY <2>3
  <2> QED  BY <1>3, <2>2, <2>3
<1>5. <<>> \o text = text /\ text \o <<>> = text /\ <<>> \in Seq(0 .. MaxFrames)
  BY <1>4
<1>6. running' \in [frames : 0 .. MaxFrames, isFinal : BOOLEAN]
  BY <1>1, SessionTypes DEF Session!NoRun
<1>7. FramesAreSent'
  BY <1>1 DEF SessionInv, FramesAreSent
<1>8. CASE running.isFinal
  <2>1. /\ stableText' = text /\ windowText' = <<>> /\ final' = text /\ open' = FALSE
        /\ UNCHANGED partials
    BY <1>2, <1>3, <1>5, <1>8 DEF Session!Folded, Session!Emit, Session!NoText
  <2>2. Session!TypeOK'
    BY <1>1, <1>4, <1>5, <1>6, <2>1, SessionTypes DEF Session!TypeOK, Messages
  <2>3. TextsOfTheSession'
    BY <1>1, <2>1 DEF TextsOfTheSession, Session!NoText
  <2>4. Session!TextsDoNotRepeat'
    BY <1>1, <1>4, <2>1 DEF SessionInv, Session!TextsDoNotRepeat, Session!NoText
  <2> QED  BY <1>7, <2>2, <2>3, <2>4 DEF SessionInv
<1>9. CASE ~ running.isFinal
  <2>1. /\ stableText' = <<>> /\ windowText' = text /\ partials' = partials \cup {text}
        /\ UNCHANGED <<final, open>>
    BY <1>2, <1>3, <1>5, <1>9 DEF Session!Folded, Session!Emit
  <2>2. Session!TypeOK'
    BY <1>1, <1>4, <1>5, <1>6, <2>1, SessionTypes DEF Session!TypeOK, Messages
  <2>3. TextsOfTheSession'
    BY <1>1, <1>2, <2>1 DEF TextsOfTheSession, Session!NoText
  <2>4. Session!TextsDoNotRepeat'
    BY <1>1, <1>4, <2>1 DEF SessionInv, Session!TextsDoNotRepeat, Session!NoText
  <2> QED  BY <1>7, <2>2, <2>3, <2>4 DEF SessionInv
<1> QED  BY <1>8, <1>9

LEMMA SessionDoesNotDecode ==
  ASSUME SessionInv, Session!NotDecoded
  PROVE  SessionInv'
<1>1. /\ running # Session!NoRun /\ running' = Session!NoRun
      /\ UNCHANGED <<inbox, sent, buffer, sinceLastRun, stableText, windowText>>
  BY DEF Session!NotDecoded
<1>2. open
  BY <1>1 DEF SessionInv, TextsOfTheSession
<1>3. /\ UNCHANGED partials
      /\ (final' = windowText /\ open' = FALSE) \/ UNCHANGED <<final, open>>
  BY <1>2, SessionText DEF Session!NotDecoded, Session!Emit, Session!accumulatedText
<1>4. running' \in [frames : 0 .. MaxFrames, isFinal : BOOLEAN]
  BY <1>1, SessionTypes DEF Session!NoRun
<1>5. Session!TypeOK' /\ FramesAreSent'
  BY <1>1, <1>3, <1>4, SessionTypes DEF SessionInv, FramesAreSent, Session!TypeOK, Messages
<1>6. TextsOfTheSession'
  BY <1>1, <1>3 DEF SessionInv, TextsOfTheSession
<1>7. Session!TextsDoNotRepeat'
  BY <1>1, <1>2, <1>3, SessionText DEF SessionInv, Session!TextsDoNotRepeat, Session!NoText
<1> QED  BY <1>5, <1>6, <1>7 DEF SessionInv

LEMMA SessionDisconnects ==
  ASSUME SessionInv, Session!Disconnects
  PROVE  SessionInv'
<1>1. /\ open' = FALSE /\ running' = Session!NoRun
      /\ UNCHANGED <<sent, buffer, sinceLastRun, stableText, windowText, partials, final>>
  BY DEF Session!Disconnects
<1>2. inbox' \in Seq(Messages) /\ FramesAreSent'
  <2>1. CASE Session!Reads("close")
    BY <1>1, <2>1, SessionReads DEF SessionInv, FramesAreSent
  <2>2. CASE UNCHANGED inbox
    BY <1>1, <2>2, SessionTypes DEF SessionInv, FramesAreSent
  <2> QED  BY <2>1, <2>2 DEF Session!Disconnects
<1>3. running' \in [frames : 0 .. MaxFrames, isFinal : BOOLEAN]
  BY <1>1, SessionTypes DEF Session!NoRun
<1>4. Session!TypeOK'
  BY <1>1, <1>2, <1>3, SessionTypes DEF Session!TypeOK, Messages
<1>5. TextsOfTheSession' /\ Session!TextsDoNotRepeat'
  BY <1>1 DEF SessionInv, TextsOfTheSession, Session!TextsDoNotRepeat
<1> QED  BY <1>2, <1>4, <1>5 DEF SessionInv

LEMMA SessionNext ==
  ASSUME SessionInv, Session!SessionStep
  PROVE  SessionInv'
BY SessionSends, SessionReadsAudio, SessionReadsOther, SessionTranscribes, SessionDoesNotDecode,
   SessionDisconnects DEF Session!SessionStep

LEMMA SessionStutter ==
  ASSUME SessionInv, UNCHANGED sessionVars
  PROVE  SessionInv'
<1>1. UNCHANGED <<inbox, sent, buffer, sinceLastRun, stableText, windowText, running, partials,
                  final, open>>
  BY DEF sessionVars
<1>2. Session!TypeOK' /\ FramesAreSent'
  BY <1>1 DEF SessionInv, Session!TypeOK, FramesAreSent
<1>3. TextsOfTheSession' /\ Session!TextsDoNotRepeat'
  BY <1>1 DEF SessionInv, TextsOfTheSession, Session!TextsDoNotRepeat
<1> QED  BY <1>2, <1>3 DEF SessionInv

-----------------------------------------------------------------------------
(* The streamed reply *)

\* Inside and InBlock of the filter, of any text.
InsideOf(text, i, lost) ==
  \E o \in 1 .. i - 2 :
    /\ Think!Begins("think>", text, o)
    /\ \A c \in o + 2 .. i - 2 : Think!Begins("/think>", text, c) => c \in lost

InBlockOf(text, i, lost) ==
  InsideOf(text, i, lost) \/ Think!Begins("think>", text, i) \/ Think!Begins("think>", text, i - 1)

ShownIn(shown, i) == \E k \in DOMAIN shown : shown[k].at = i

\* What the filter has not looked at yet, and how much it has.
Pending  == IF feeding THEN buf ELSE heldBack
LookedAt == Len(raw) - Len(Pending)

PendingIsTheRest ==
  /\ \A i \in 1 .. Len(raw) : raw[i].at = i
  /\ Len(Pending) <= Len(raw)
  /\ \A k \in 1 .. Len(Pending) : Pending[k] = raw[LookedAt + k]
  /\ ~ feeding /\ heldBack # <<>> => ~ inThink

InOrder(shown, text, upTo) ==
  /\ \A j, k \in DOMAIN shown : j < k => shown[j].at < shown[k].at
  /\ \A k \in DOMAIN shown : shown[k].at \in 1 .. upTo /\ shown[k] = text[shown[k].at]

\* Of what was looked at exactly the text outside the blocks was let through, and the
\* filter knows whether the rest begins in a block.
ShownSoFar ==
  /\ InOrder(visible, raw, LookedAt)
  /\ \A i \in 1 .. LookedAt : ShownIn(visible, i) <=> ~ InBlockOf(raw, i, cutAt)
  /\ inThink <=> InsideOf(raw, LookedAt + 1, cutAt)

\* No tag is half looked at, but a closing one that was cut.
NoHalfTag ==
  /\ LookedAt > 0 /\ raw[LookedAt].is = "<" =>
       IF inThink THEN LookedAt \in cutAt
       ELSE LookedAt < Len(raw) /\ raw[LookedAt + 1].is # "think>"
  /\ Len(raw) > 0 /\ raw[Len(raw)].is = "<" => Len(raw) \in cutAt
  /\ \A c \in cutAt : c <= LookedAt \/ c = Len(raw) \/ (~ inThink /\ c = LookedAt + 1)

ThinkInv == Think!TypeOK /\ PendingIsTheRest /\ ShownSoFar /\ NoHalfTag

LEMMA ThinkTypes ==
  ASSUME ThinkInv
  PROVE  /\ raw \in Seq(Think!Symbol) /\ visible \in Seq(Think!Symbol) /\ buf \in Seq(Think!Symbol)
         /\ heldBack \in Seq(Think!Symbol) /\ Pending \in Seq(Think!Symbol)
         /\ heldBack = <<>> \/ Len(heldBack) = 1
         /\ inThink \in BOOLEAN /\ feeding \in BOOLEAN /\ cutAt \subseteq 1 .. MaxLength
         /\ LookedAt \in 0 .. Len(raw) /\ Len(raw) \in Nat /\ Len(Pending) \in Nat
         /\ MaxLength \in Nat /\ MaxPiece \in Nat
<1>1. /\ raw \in Seq(Think!Symbol) /\ visible \in Seq(Think!Symbol) /\ buf \in Seq(Think!Symbol)
      /\ inThink \in BOOLEAN /\ feeding \in BOOLEAN /\ cutAt \subseteq 1 .. MaxLength
      /\ heldBack \in {<<>>} \cup {<<s>> : s \in {s \in Think!Symbol : s.is = "<"}}
      /\ MaxLength \in Nat /\ MaxPiece \in Nat
  BY DEF ThinkInv, Think!TypeOK, Think!ThinkFilterAssumption
<1>2. heldBack \in Seq(Think!Symbol) /\ (heldBack = <<>> \/ Len(heldBack) = 1)
  <2>1. CASE heldBack = <<>>
    BY <2>1
  <2>2. CASE heldBack # <<>>
    <3>1. PICK s \in Think!Symbol : heldBack = <<s>>
      BY <1>1, <2>2
    <3> QED  BY <3>1
  <2> QED  BY <2>1, <2>2
<1>3. Pending \in Seq(Think!Symbol)
  BY <1>1, <1>2 DEF Pending
<1>4. LookedAt \in 0 .. Len(raw) /\ Len(raw) \in Nat /\ Len(Pending) \in Nat
  BY <1>1, <1>3 DEF ThinkInv, PendingIsTheRest, LookedAt
<1> QED  BY <1>1, <1>2, <1>3, <1>4

LEMMA Joined ==
  ASSUME NEW S, NEW s \in Seq(S), NEW t \in Seq(S)
  PROVE  /\ s \o t \in Seq(S) /\ Len(s \o t) = Len(s) + Len(t)
         /\ \A i \in 1 .. Len(s) : (s \o t)[i] = s[i]
         /\ \A i \in 1 .. Len(t) : (s \o t)[Len(s) + i] = t[i]
<1>1. s \o t \in Seq(S) /\ Len(s \o t) = Len(s) + Len(t) /\ Len(s) \in Nat /\ Len(t) \in Nat
  OBVIOUS
<1>2. ASSUME NEW i \in 1 .. Len(s)
      PROVE  (s \o t)[i] = s[i]
  <2>1. i \in 1 .. Len(s) + Len(t) /\ i <= Len(s)
    BY <1>1
  <2> QED  BY <2>1
<1>3. ASSUME NEW i \in 1 .. Len(t)
      PROVE  (s \o t)[Len(s) + i] = t[i]
  <2>1. Len(s) + i \in 1 .. Len(s) + Len(t) /\ ~ Len(s) + i <= Len(s) /\ (Len(s) + i) - Len(s) = i
    BY <1>1
  <2>2. (s \o t)[Len(s) + i] = t[(Len(s) + i) - Len(s)]
    BY <2>1
  <2> QED  BY <2>1, <2>2
<1> QED  BY <1>1, <1>2, <1>3

\* The text let through is the stretch of the reply that comes next.
LEMMA Extended ==
  ASSUME ThinkInv, feeding, NEW m \in 0 .. Len(buf), NEW shown,
         shown = visible \o SubSeq(buf, 1, m)
  PROVE  /\ shown \in Seq(Think!Symbol) /\ InOrder(shown, raw, LookedAt + m)
         /\ \A i \in Nat : ShownIn(shown, i) <=> ShownIn(visible, i) \/ i \in LookedAt + 1 .. LookedAt + m
<1> DEFINE n == Len(visible)
           more == SubSeq(buf, 1, m)
<1>1. /\ raw \in Seq(Think!Symbol) /\ visible \in Seq(Think!Symbol) /\ buf \in Seq(Think!Symbol)
      /\ n \in Nat /\ LookedAt \in Nat /\ m \in Nat /\ Len(buf) \in Nat
      /\ LookedAt + Len(buf) = Len(raw)
      /\ n = Len(visible) /\ shown = visible \o more
  BY ThinkTypes DEF LookedAt, Pending
<1>2. /\ \A i \in 1 .. Len(raw) : raw[i].at = i
      /\ \A k \in 1 .. Len(buf) : buf[k] = raw[LookedAt + k]
  BY DEF ThinkInv, PendingIsTheRest, Pending
<1>3. /\ more \in Seq(Think!Symbol) /\ Len(more) = m
      /\ \A k \in 1 .. m : more[k] = raw[LookedAt + k] /\ more[k].at = LookedAt + k
  <2>1. more \in Seq(Think!Symbol) /\ Len(more) = m /\ \A k \in 1 .. m : more[k] = buf[k]
    BY <1>1
  <2>2. ASSUME NEW k \in 1 .. m
        PROVE  more[k] = raw[LookedAt + k] /\ more[k].at = LookedAt + k
    <3>1. k \in 1 .. Len(buf) /\ LookedAt + k \in 1 .. Len(raw)
      BY <1>1
    <3> HIDE DEF more
    <3> QED  BY <1>2, <2>1, <3>1
  <2> HIDE DEF more
  <2> QED  BY <2>1, <2>2
<1>a. n \in Nat /\ m \in Nat /\ LookedAt \in Nat
  BY <1>1
<1> HIDE DEF n, more
<1>4. /\ shown \in Seq(Think!Symbol) /\ Len(shown) = n + m
      /\ \A k \in 1 .. n : shown[k] = visible[k]
      /\ \A k \in 1 .. m : shown[n + k] = raw[LookedAt + k] /\ shown[n + k].at = LookedAt + k
  <2>1. shown \in Seq(Think!Symbol) /\ Len(shown) = n + m
        /\ \A k \in 1 .. n : shown[k] = visible[k]
    BY <1>1, <1>3
  <2>2. ASSUME NEW k \in 1 .. m
        PROVE  shown[n + k] = more[k]
    <3>1. /\ k \in Nat /\ n + k \in 1 .. Len(visible) + Len(more) /\ ~ n + k <= Len(visible)
          /\ (n + k) - Len(visible) = k
      BY <1>1, <1>3
    <3>2. (visible \o more)[n + k] = more[(n + k) - Len(visible)]
      <4>1. visible \in Seq(Think!Symbol) /\ more \in Seq(Think!Symbol)
        BY <1>1, <1>3
      <4> QED  BY <3>1, <4>1
    <3> QED  BY <1>1, <3>1, <3>2
  <2> QED  BY <1>3, <2>1, <2>2
<1>5. /\ \A j, k \in 1 .. n : j < k => visible[j].at < visible[k].at
      /\ \A k \in 1 .. n : visible[k].at \in 1 .. LookedAt /\ visible[k] = raw[visible[k].at]
  <2>1. DOMAIN visible = 1 .. n
    BY <1>1
  <2> QED  BY <2>1 DEF ThinkInv, ShownSoFar, InOrder
<1>6. \A k \in 1 .. n + m : k \in 1 .. n \/ (k - n \in 1 .. m /\ k = n + (k - n) /\ k > n)
  BY <1>1
<1>7. \A k \in 1 .. n + m : k > n => /\ shown[k] = raw[LookedAt + (k - n)]
                                     /\ shown[k].at = LookedAt + (k - n)
  <2> SUFFICES ASSUME NEW k \in 1 .. n + m, k > n
               PROVE  /\ shown[k] = raw[LookedAt + (k - n)]
                      /\ shown[k].at = LookedAt + (k - n)
    OBVIOUS
  <2>1. k - n \in 1 .. m /\ k = n + (k - n)
    BY <1>a
  <2>2. /\ shown[n + (k - n)] = raw[LookedAt + (k - n)]
        /\ shown[n + (k - n)].at = LookedAt + (k - n)
    BY <1>4, <2>1
  <2> QED  BY <2>1, <2>2
<1>8. DOMAIN shown = 1 .. n + m /\ DOMAIN visible = 1 .. n
  BY <1>1, <1>4
<1>9. \A j, k \in DOMAIN shown : j < k => shown[j].at < shown[k].at
  <2> SUFFICES ASSUME NEW j \in 1 .. n + m, NEW k \in 1 .. n + m, j < k
               PROVE  shown[j].at < shown[k].at
    BY <1>8
  <2>1. CASE k <= n
    BY <1>1, <1>4, <1>5, <2>1
  <2>2. CASE k > n /\ j <= n
    <3>1. shown[j].at \in 1 .. LookedAt
      BY <1>1, <1>4, <1>5, <2>2
    <3>2. shown[k].at = LookedAt + (k - n)
      BY <1>7, <2>2
    <3>3. LookedAt + (k - n) \in Int /\ LookedAt < LookedAt + (k - n) /\ LookedAt \in Int
      BY <1>1, <2>2
    <3>4. shown[j].at \in Int /\ shown[j].at <= LookedAt
      BY ONLY <1>a, <3>1
    <3> QED  BY ONLY <3>2, <3>3, <3>4
  <2>3. CASE k > n /\ j > n
    <3>1. shown[j].at = LookedAt + (j - n) /\ shown[k].at = LookedAt + (k - n)
      BY <1>7, <2>3
    <3>2. LookedAt + (j - n) \in Int /\ LookedAt + (k - n) \in Int
          /\ LookedAt + (j - n) < LookedAt + (k - n)
      <4>1. j \in Int /\ k \in Int /\ j < k
        BY <1>a
      <4> QED  BY ONLY <1>a, <4>1
    <3> QED  BY ONLY <3>1, <3>2
  <2>4. k <= n \/ (k > n /\ j <= n) \/ (k > n /\ j > n)
    BY <1>a
  <2> QED  BY <2>1, <2>2, <2>3, <2>4
<1>10. \A k \in DOMAIN shown : shown[k].at \in 1 .. LookedAt + m /\ shown[k] = raw[shown[k].at]
  <2> SUFFICES ASSUME NEW k \in 1 .. n + m
               PROVE  shown[k].at \in 1 .. LookedAt + m /\ shown[k] = raw[shown[k].at]
    BY <1>8
  <2>1. CASE k <= n
    BY <1>1, <1>4, <1>5, <2>1
  <2>2. CASE k > n
    <3>1. LookedAt + (k - n) \in 1 .. LookedAt + m
      BY <1>1, <2>2
    <3> QED  BY <1>7, <2>2, <3>1
  <2> QED  BY <1>1, <2>1, <2>2
<1>11. ASSUME NEW i \in Nat
       PROVE  ShownIn(shown, i) <=> ShownIn(visible, i) \/ i \in LookedAt + 1 .. LookedAt + m
  <2>1. ASSUME NEW k \in 1 .. n + m, shown[k].at = i
        PROVE  ShownIn(visible, i) \/ i \in LookedAt + 1 .. LookedAt + m
    <3>1. CASE k <= n
      <4>1. k \in DOMAIN visible /\ visible[k].at = i
        BY <1>a, <1>4, <1>8, <2>1, <3>1
      <4> QED  BY <4>1 DEF ShownIn
    <3>2. CASE k > n
      <4>1. LookedAt + (k - n) \in LookedAt + 1 .. LookedAt + m
        BY <1>1, <3>2
      <4> QED  BY <1>7, <2>1, <3>2, <4>1
    <3> QED  BY <1>1, <3>1, <3>2
  <2>2. ASSUME NEW k \in 1 .. n, visible[k].at = i
        PROVE  ShownIn(shown, i)
    <3>1. k \in DOMAIN shown /\ shown[k].at = i
      BY <1>1, <1>4, <1>8, <2>2
    <3> QED  BY <3>1 DEF ShownIn
  <2>3. ASSUME i \in LookedAt + 1 .. LookedAt + m
        PROVE  ShownIn(shown, i)
    <3>1. i - LookedAt \in 1 .. m /\ n + (i - LookedAt) \in 1 .. n + m
          /\ LookedAt + (i - LookedAt) = i
      BY <1>1, <2>3
    <3>2. shown[n + (i - LookedAt)].at = i
      BY <1>4, <3>1
    <3> QED  BY <1>8, <3>1, <3>2 DEF ShownIn
  <2> QED  BY <1>8, <2>1, <2>2, <2>3 DEF ShownIn
<1> QED  BY <1>4, <1>9, <1>10, <1>11 DEF InOrder

\* Outside a block, up to the next opening tag, nothing is in one.
LEMMA StaysOutside ==
  ASSUME ThinkInv, ~ inThink, NEW m \in LookedAt .. Len(raw),
         \A o \in LookedAt + 1 .. m : ~ Think!Begins("think>", raw, o)
  PROVE  /\ \A q \in LookedAt + 1 .. m : ~ InBlockOf(raw, q, cutAt)
         /\ ~ InsideOf(raw, m + 1, cutAt)
<1>1. LookedAt \in Nat /\ m \in Nat /\ Len(raw) \in Nat /\ LookedAt <= m
  BY ThinkTypes
<1>2. ~ Think!Begins("think>", raw, LookedAt)
  BY <1>1 DEF ThinkInv, NoHalfTag, Think!Begins
<1>3. \A o \in LookedAt .. m : ~ Think!Begins("think>", raw, o)
  <2> SUFFICES ASSUME NEW o \in LookedAt .. m PROVE ~ Think!Begins("think>", raw, o)
    OBVIOUS
  <2>1. o = LookedAt \/ o \in LookedAt + 1 .. m
    BY <1>1
  <2> QED  BY <1>2, <2>1
<1>4. ASSUME NEW q \in LookedAt + 1 .. m + 1, InsideOf(raw, q, cutAt)
      PROVE  FALSE
  <2>1. PICK o \in 1 .. q - 2 :
          /\ Think!Begins("think>", raw, o)
          /\ \A c \in o + 2 .. q - 2 : Think!Begins("/think>", raw, c) => c \in cutAt
    BY <1>4 DEF InsideOf
  <2>2. o \in Nat /\ q \in Nat /\ (o \in 1 .. LookedAt - 1 \/ o \in LookedAt .. m)
    BY <1>1, <2>1
  <2>3. o \in 1 .. (LookedAt + 1) - 2
    BY <1>1, <1>3, <2>1, <2>2
  <2>4. \A c \in o + 2 .. (LookedAt + 1) - 2 : c \in o + 2 .. q - 2
    BY <1>1, <2>2
  <2>5. InsideOf(raw, LookedAt + 1, cutAt)
    BY <2>1, <2>3, <2>4 DEF InsideOf
  <2> QED  BY <2>5 DEF ThinkInv, ShownSoFar
<1>5. ASSUME NEW q \in LookedAt + 1 .. m
      PROVE  ~ InBlockOf(raw, q, cutAt)
  <2>1. q \in LookedAt + 1 .. m + 1 /\ q \in LookedAt .. m /\ q - 1 \in LookedAt .. m
    BY <1>1
  <2> QED  BY <1>3, <1>4, <2>1 DEF InBlockOf
<1>6. m + 1 \in LookedAt + 1 .. m + 1
  BY <1>1
<1> QED  BY <1>4, <1>5, <1>6

\* In a block, up to the next closing tag, everything is.
LEMMA StaysInside ==
  ASSUME ThinkInv, inThink, NEW m \in LookedAt .. Len(raw),
         \A c \in LookedAt + 1 .. m - 1 : ~ Think!Begins("/think>", raw, c)
  PROVE  \A q \in LookedAt + 1 .. m + 1 : InsideOf(raw, q, cutAt)
<1>1. LookedAt \in Nat /\ m \in Nat /\ Len(raw) \in Nat
  BY ThinkTypes
<1>2. PICK o \in 1 .. (LookedAt + 1) - 2 :
        /\ Think!Begins("think>", raw, o)
        /\ \A c \in o + 2 .. (LookedAt + 1) - 2 : Think!Begins("/think>", raw, c) => c \in cutAt
  BY DEF ThinkInv, ShownSoFar, InsideOf
<1>3. LookedAt > 0 /\ Think!Begins("/think>", raw, LookedAt) => LookedAt \in cutAt
  BY DEF ThinkInv, NoHalfTag, Think!Begins
<1>4. ASSUME NEW q \in LookedAt + 1 .. m + 1
      PROVE  InsideOf(raw, q, cutAt)
  <2>1. o \in Nat /\ q \in Nat /\ o \in 1 .. q - 2 /\ LookedAt > 0
    BY <1>1, <1>2
  <2>2. ASSUME NEW c \in o + 2 .. q - 2, Think!Begins("/think>", raw, c)
        PROVE  c \in cutAt
    <3>1. c \in o + 2 .. (LookedAt + 1) - 2 \/ c = LookedAt \/ c \in LookedAt + 1 .. m - 1
      BY <1>1, <2>1
    <3> QED  BY <1>2, <1>3, <2>1, <2>2, <3>1
  <2> QED  BY <1>2, <2>1, <2>2 DEF InsideOf
<1> QED  BY <1>4

\* What the buffer holds is the rest of the reply.
LEMMA BeginsInTheRest ==
  ASSUME ThinkInv, feeding, NEW tag
  PROVE  \A j \in 1 .. Len(buf) :
           Think!Begins(tag, buf, j) <=> Think!Begins(tag, raw, LookedAt + j)
<1>1. /\ LookedAt \in Nat /\ Len(buf) \in Nat /\ Len(raw) \in Nat
      /\ LookedAt + Len(buf) = Len(raw)
  BY ThinkTypes DEF LookedAt, Pending
<1>2. \A k \in 1 .. Len(buf) : buf[k] = raw[LookedAt + k]
  BY DEF ThinkInv, PendingIsTheRest, Pending
<1> SUFFICES ASSUME NEW j \in 1 .. Len(buf)
             PROVE  Think!Begins(tag, buf, j) <=> Think!Begins(tag, raw, LookedAt + j)
  OBVIOUS
<1>3. /\ (LookedAt + j) + 1 = LookedAt + (j + 1)
      /\ j \in 1 .. Len(buf) - 1 <=> LookedAt + j \in 1 .. Len(raw) - 1
      /\ j \in 1 .. Len(buf) - 1 => j + 1 \in 1 .. Len(buf)
  BY <1>1
<1> QED  BY <1>2, <1>3 DEF Think!Begins

LEMMA LooksFurther ==
  ASSUME ThinkInv, feeding, UNCHANGED raw,
         NEW d \in 0 .. Len(buf), Pending' = SubSeq(buf, d + 1, Len(buf))
  PROVE  /\ LookedAt' = LookedAt + d /\ LookedAt + d \in LookedAt .. Len(raw)
         /\ Len(Pending') \in Nat /\ Len(Pending') <= Len(raw)
         /\ \A k \in 1 .. Len(Pending') : Pending'[k] = raw[(LookedAt + d) + k]
<1>1. /\ LookedAt \in Nat /\ Len(buf) \in Nat /\ Len(raw) \in Nat /\ d \in Nat
      /\ LookedAt + Len(buf) = Len(raw) /\ buf \in Seq(Think!Symbol)
  BY ThinkTypes DEF LookedAt, Pending
<1>2. \A k \in 1 .. Len(buf) : buf[k] = raw[LookedAt + k]
  BY DEF ThinkInv, PendingIsTheRest, Pending
<1>3. Len(Pending') = Len(buf) - d /\ \A k \in 1 .. Len(buf) - d : Pending'[k] = buf[d + k]
  BY <1>1
<1>4. LookedAt' = LookedAt + d
  <2>1. LookedAt' = Len(raw) - Len(Pending')
    BY DEF LookedAt
  <2>2. Len(Pending') = Len(buf) - d
    BY <1>3
  <2>3. LookedAt \in Nat /\ Len(buf) \in Nat /\ Len(raw) \in Nat /\ d \in Nat
        /\ LookedAt + Len(buf) = Len(raw)
    BY <1>1
  <2> QED  BY ONLY <2>1, <2>2, <2>3
<1>5. ASSUME NEW k \in 1 .. Len(buf) - d
      PROVE  Pending'[k] = raw[(LookedAt + d) + k]
  <2>1. d + k \in 1 .. Len(buf) /\ LookedAt + (d + k) = (LookedAt + d) + k
    BY <1>1
  <2>2. Pending'[k] = buf[d + k]
    BY <1>3
  <2> QED  BY ONLY <1>2, <2>1, <2>2
<1> QED  BY ONLY <1>1, <1>3, <1>4, <1>5

\* What is let through and what is dropped are told apart so far, however the step
\* that went on to place upTo did it.
LEMMA ShownFurther ==
  ASSUME ThinkInv, UNCHANGED <<raw, cutAt>>, LookedAt' \in LookedAt .. Len(raw),
         NEW m \in LookedAt .. LookedAt', InOrder(visible', raw, m),
         \A i \in Nat : ShownIn(visible', i) <=> ShownIn(visible, i) \/ i \in LookedAt + 1 .. m,
         \A q \in LookedAt + 1 .. m : ~ InBlockOf(raw, q, cutAt),
         \A q \in m + 1 .. LookedAt' : InBlockOf(raw, q, cutAt),
         inThink' <=> InsideOf(raw, LookedAt' + 1, cutAt)
  PROVE  ShownSoFar'
<1>1. LookedAt \in Nat /\ m \in Nat /\ LookedAt' \in Nat /\ Len(raw) \in Nat
  BY ThinkTypes
<1>2. /\ InOrder(visible, raw, LookedAt)
      /\ \A i \in 1 .. LookedAt : ShownIn(visible, i) <=> ~ InBlockOf(raw, i, cutAt)
  BY DEF ThinkInv, ShownSoFar
<1>3. InOrder(visible', raw, LookedAt')
  <2>1. \A k \in DOMAIN visible' : visible'[k].at \in 1 .. m => visible'[k].at \in 1 .. LookedAt'
    BY <1>1
  <2> QED  BY <2>1 DEF InOrder
<1>4. ASSUME NEW i \in 1 .. LookedAt'
      PROVE  ShownIn(visible', i) <=> ~ InBlockOf(raw, i, cutAt)
  <2>1. i \in Nat /\ (i \in 1 .. LookedAt \/ i \in LookedAt + 1 .. m \/ i \in m + 1 .. LookedAt')
    BY <1>1
  <2>2. CASE i \in 1 .. LookedAt
    <3>1. i \notin LookedAt + 1 .. m
      BY <1>1, <2>2
    <3> QED  BY <1>2, <2>1, <2>2, <3>1
  <2>3. CASE i \in LookedAt + 1 .. m
    BY <2>1, <2>3
  <2>4. CASE i \in m + 1 .. LookedAt'
    <3>1. i \notin 1 .. LookedAt /\ i \notin LookedAt + 1 .. m
      BY <1>1, <2>4
    <3>2. ~ ShownIn(visible, i)
      BY <1>2, <3>1 DEF InOrder, ShownIn
    <3> QED  BY <2>1, <2>4, <3>1, <3>2
  <2> QED  BY <2>1, <2>2, <2>3, <2>4
<1> QED  BY <1>3, <1>4 DEF ShownSoFar

LEMMA NothingMoreShown ==
  ASSUME ThinkInv, UNCHANGED visible
  PROVE  /\ InOrder(visible', raw, LookedAt)
         /\ \A i \in Nat : ShownIn(visible', i) <=> ShownIn(visible, i) \/ i \in LookedAt + 1 .. LookedAt
<1>1. \A i \in Nat : i \notin LookedAt + 1 .. LookedAt
  BY ThinkTypes
<1>2. InOrder(visible, raw, LookedAt)
  BY DEF ThinkInv, ShownSoFar
<1> QED  BY <1>1, <1>2

LEMMA ThinkLeavesBlock ==
  ASSUME ThinkInv, Think!LeavesBlock
  PROVE  ThinkInv'
<1>1. /\ feeding /\ inThink /\ ~ inThink' /\ inThink' \in BOOLEAN
      /\ UNCHANGED <<raw, visible, heldBack, feeding, cutAt>>
  BY DEF Think!LeavesBlock
<1>2. PICK i \in DOMAIN buf : Think!Found("/think>", buf, i) /\ buf' = Think!After(buf, i)
  BY DEF Think!LeavesBlock
<1> DEFINE p == LookedAt + i
<1>3. /\ LookedAt \in Nat /\ Len(raw) \in Nat /\ Len(buf) \in Nat /\ LookedAt + Len(buf) = Len(raw)
      /\ buf \in Seq(Think!Symbol) /\ DOMAIN buf = 1 .. Len(buf)
  BY <1>1, ThinkTypes DEF LookedAt, Pending
<1>4. /\ i \in Nat /\ i >= 1 /\ i + 1 <= Len(buf) /\ p \in LookedAt + 1 .. Len(raw) - 1
      /\ Think!Begins("/think>", raw, p)
      /\ \A c \in LookedAt + 1 .. p - 1 : ~ Think!Begins("/think>", raw, c)
  <2>1. Think!Begins("/think>", buf, i) /\ \A j \in 1 .. i - 1 : ~ Think!Begins("/think>", buf, j)
    BY <1>2 DEF Think!Found
  <2>2. i \in Nat /\ i >= 1 /\ i + 1 <= Len(buf) /\ i \in 1 .. Len(buf)
    BY <1>2, <1>3, <2>1 DEF Think!Begins
  <2>3. ASSUME NEW c \in LookedAt + 1 .. p - 1
        PROVE  ~ Think!Begins("/think>", raw, c)
    <3>1. c - LookedAt \in 1 .. i - 1 /\ c - LookedAt \in 1 .. Len(buf) /\ LookedAt + (c - LookedAt) = c
      BY <1>3, <2>2
    <3> QED  BY <1>1, <2>1, <3>1, BeginsInTheRest
  <2> QED  BY <1>1, <1>3, <2>1, <2>2, <2>3, BeginsInTheRest
<1> HIDE DEF p
<1>5. /\ Pending' = SubSeq(buf, (i + 1) + 1, Len(buf)) /\ i + 1 \in 0 .. Len(buf)
      /\ LookedAt + (i + 1) = p + 1 /\ buf' \in Seq(Think!Symbol)
  <2>1. (i + 1) + 1 = i + 2 /\ i + 1 \in 0 .. Len(buf) /\ LookedAt + (i + 1) = p + 1
    BY <1>3, <1>4 DEF p
  <2>2. buf' = SubSeq(buf, i + 2, Len(buf)) /\ Pending' = buf'
    BY <1>1, <1>2 DEF Pending, Think!After
  <2>3. buf' \in Seq(Think!Symbol)
    BY <1>3, <1>4, <2>2
  <2> QED  BY <2>1, <2>2, <2>3
<1>6. /\ LookedAt' = p + 1 /\ LookedAt' \in LookedAt .. Len(raw) /\ PendingIsTheRest'
  <2>1. /\ LookedAt' = p + 1 /\ LookedAt' \in LookedAt .. Len(raw)
        /\ Len(Pending') \in Nat /\ Len(Pending') <= Len(raw)
        /\ \A k \in 1 .. Len(Pending') : Pending'[k] = raw[LookedAt' + k]
    BY <1>1, <1>5, LooksFurther
  <2> QED  BY <1>1, <2>1 DEF ThinkInv, PendingIsTheRest
<1>7. Think!TypeOK'
  BY <1>1, <1>5 DEF ThinkInv, Think!TypeOK
<1>8. \A q \in LookedAt + 1 .. p + 1 : InBlockOf(raw, q, cutAt)
  <2>1. p \in LookedAt .. Len(raw)
    BY <1>3, <1>4
  <2> QED  BY <1>1, <1>4, <2>1, StaysInside DEF InBlockOf
<1>9. ~ InsideOf(raw, (p + 1) + 1, cutAt)
  <2> SUFFICES ASSUME InsideOf(raw, (p + 1) + 1, cutAt)  PROVE FALSE
    OBVIOUS
  <2>1. p \in Nat /\ p < Len(raw) /\ p > LookedAt
    BY <1>3, <1>4
  <2>2. PICK o \in 1 .. p :
          /\ Think!Begins("think>", raw, o)
          /\ \A c \in o + 2 .. p : Think!Begins("/think>", raw, c) => c \in cutAt
    <3>1. ((p + 1) + 1) - 2 = p
      BY <2>1
    <3> QED  BY <3>1 DEF InsideOf
  <2>3. p \notin cutAt
    BY <1>1, <1>3, <2>1 DEF ThinkInv, NoHalfTag
  <2>4. o # p /\ o + 1 # p
    BY <1>4, <2>1, <2>2 DEF Think!Begins
  <2>5. p \in o + 2 .. p
    BY <2>1, <2>2, <2>4
  <2> QED  BY <1>4, <2>2, <2>3, <2>5
<1>10. ShownSoFar'
  <2>1. LookedAt \in LookedAt .. LookedAt' /\ \A q \in LookedAt + 1 .. LookedAt : FALSE
    BY <1>3, <1>6
  <2> QED  BY <1>1, <1>6, <1>8, <1>9, <2>1, NothingMoreShown, ShownFurther
<1>11. NoHalfTag'
  <2>1. raw[LookedAt'].is # "<"
    BY <1>4, <1>6 DEF Think!Begins
  <2>2. \A c \in cutAt : c <= LookedAt' \/ c = Len(raw)
    <3>1. \A c \in cutAt : c \in Int /\ (c <= LookedAt \/ c = Len(raw))
      BY <1>1, ThinkTypes DEF ThinkInv, NoHalfTag
    <3> QED  BY <1>3, <1>6, <3>1
  <2> QED  BY <1>1, <2>1, <2>2 DEF ThinkInv, NoHalfTag
<1> QED  BY <1>6, <1>7, <1>10, <1>11 DEF ThinkInv

LEMMA ThinkStaysInBlock ==
  ASSUME ThinkInv, Think!StaysInBlock
  PROVE  ThinkInv'
<1>1. /\ feeding /\ inThink /\ buf' = <<>> /\ Think!Missing("/think>", buf)
      /\ UNCHANGED <<raw, visible, inThink, heldBack, feeding, cutAt>>
  BY DEF Think!StaysInBlock
<1>2. /\ LookedAt \in Nat /\ Len(raw) \in Nat /\ Len(buf) \in Nat /\ LookedAt + Len(buf) = Len(raw)
      /\ buf \in Seq(Think!Symbol) /\ DOMAIN buf = 1 .. Len(buf)
  BY <1>1, ThinkTypes DEF LookedAt, Pending
<1>3. Pending' = <<>> /\ LookedAt' = Len(raw)
  BY <1>1, <1>2 DEF Pending, LookedAt
<1>4. Think!TypeOK'
  <2>1. <<>> \in Seq(Think!Symbol)
    OBVIOUS
  <2> QED  BY <1>1, <2>1 DEF ThinkInv, Think!TypeOK
<1>5. PendingIsTheRest'
  BY <1>1, <1>2, <1>3 DEF ThinkInv, PendingIsTheRest
<1>6. \A q \in LookedAt + 1 .. Len(raw) + 1 : InsideOf(raw, q, cutAt)
  <2>1. ASSUME NEW c \in LookedAt + 1 .. Len(raw) - 1
        PROVE  ~ Think!Begins("/think>", raw, c)
    <3>1. c - LookedAt \in 1 .. Len(buf) /\ LookedAt + (c - LookedAt) = c
      BY <1>2
    <3>2. ~ Think!Begins("/think>", buf, c - LookedAt)
      BY <1>1, <1>2, <3>1 DEF Think!Missing
    <3> QED  BY <1>1, <3>1, <3>2, BeginsInTheRest
  <2>2. Len(raw) \in LookedAt .. Len(raw)
    BY <1>2
  <2> QED  BY <1>1, <2>1, <2>2, StaysInside
<1>7. ShownSoFar'
  <2>1. /\ LookedAt \in LookedAt .. LookedAt' /\ LookedAt' \in LookedAt .. Len(raw)
        /\ \A q \in LookedAt + 1 .. LookedAt : FALSE
        /\ LookedAt' + 1 \in LookedAt + 1 .. Len(raw) + 1
        /\ \A q \in LookedAt + 1 .. LookedAt' : q \in LookedAt + 1 .. Len(raw) + 1
    BY <1>2, <1>3
  <2>2. /\ \A q \in LookedAt + 1 .. LookedAt' : InBlockOf(raw, q, cutAt)
        /\ InsideOf(raw, LookedAt' + 1, cutAt)
    BY <1>6, <2>1 DEF InBlockOf
  <2> QED  BY <1>1, <2>1, <2>2, NothingMoreShown, ShownFurther
<1>8. NoHalfTag'
  <2>1. \A c \in cutAt : c <= LookedAt' \/ c = Len(raw)
    <3>1. \A c \in cutAt : c \in Int /\ (c <= LookedAt \/ c = Len(raw))
      BY <1>1, ThinkTypes DEF ThinkInv, NoHalfTag
    <3> QED  BY <1>2, <1>3, <3>1
  <2> QED  BY <1>1, <1>3, <2>1 DEF ThinkInv, NoHalfTag
<1> QED  BY <1>4, <1>5, <1>7, <1>8 DEF ThinkInv

LEMMA ThinkEntersBlock ==
  ASSUME ThinkInv, Think!EntersBlock
  PROVE  ThinkInv'
<1>1. /\ feeding /\ ~ inThink /\ inThink' /\ inThink' \in BOOLEAN
      /\ UNCHANGED <<raw, heldBack, feeding, cutAt>>
  BY DEF Think!EntersBlock
<1>2. PICK i \in DOMAIN buf :
        /\ Think!Found("think>", buf, i) /\ visible' = visible \o Think!Before(buf, i)
        /\ buf' = Think!After(buf, i)
  BY DEF Think!EntersBlock
<1> DEFINE p == LookedAt + i
<1>3. /\ LookedAt \in Nat /\ Len(raw) \in Nat /\ Len(buf) \in Nat /\ LookedAt + Len(buf) = Len(raw)
      /\ buf \in Seq(Think!Symbol) /\ DOMAIN buf = 1 .. Len(buf)
  BY <1>1, ThinkTypes DEF LookedAt, Pending
<1>4. /\ i \in Nat /\ i >= 1 /\ i + 1 <= Len(buf) /\ p \in LookedAt + 1 .. Len(raw) - 1
      /\ Think!Begins("think>", raw, p)
      /\ \A o \in LookedAt + 1 .. p - 1 : ~ Think!Begins("think>", raw, o)
  <2>1. Think!Begins("think>", buf, i) /\ \A j \in 1 .. i - 1 : ~ Think!Begins("think>", buf, j)
    BY <1>2 DEF Think!Found
  <2>2. i \in Nat /\ i >= 1 /\ i + 1 <= Len(buf) /\ i \in 1 .. Len(buf)
    BY <1>2, <1>3, <2>1 DEF Think!Begins
  <2>3. ASSUME NEW c \in LookedAt + 1 .. p - 1
        PROVE  ~ Think!Begins("think>", raw, c)
    <3>1. c - LookedAt \in 1 .. i - 1 /\ c - LookedAt \in 1 .. Len(buf) /\ LookedAt + (c - LookedAt) = c
      BY <1>3, <2>2
    <3> QED  BY <1>1, <2>1, <3>1, BeginsInTheRest
  <2> QED  BY <1>1, <1>3, <2>1, <2>2, <2>3, BeginsInTheRest
<1>5. /\ visible' = visible \o SubSeq(buf, 1, i - 1) /\ i - 1 \in 0 .. Len(buf)
      /\ LookedAt + (i - 1) = p - 1
  <2>1. i - 1 \in 0 .. Len(buf) /\ LookedAt + (i - 1) = p - 1
    <3>1. LookedAt \in Nat /\ Len(buf) \in Nat /\ i \in Nat /\ i >= 1 /\ i + 1 <= Len(buf)
      BY <1>3, <1>4
    <3> QED  BY ONLY <3>1
  <2> QED  BY <1>2, <2>1 DEF Think!Before
<1> HIDE DEF p
<1>6. /\ Pending' = SubSeq(buf, (i + 1) + 1, Len(buf)) /\ i + 1 \in 0 .. Len(buf)
      /\ LookedAt + (i + 1) = p + 1 /\ buf' \in Seq(Think!Symbol)
  <2>1. (i + 1) + 1 = i + 2 /\ i + 1 \in 0 .. Len(buf) /\ LookedAt + (i + 1) = p + 1
    BY <1>3, <1>4 DEF p
  <2>2. buf' = SubSeq(buf, i + 2, Len(buf)) /\ Pending' = buf'
    BY <1>1, <1>2 DEF Pending, Think!After
  <2>3. buf' \in Seq(Think!Symbol)
    BY <1>3, <1>4, <2>2
  <2> QED  BY <2>1, <2>2, <2>3
<1>7. /\ LookedAt' = p + 1 /\ LookedAt' \in LookedAt .. Len(raw) /\ PendingIsTheRest'
  <2>1. /\ LookedAt' = p + 1 /\ LookedAt' \in LookedAt .. Len(raw)
        /\ Len(Pending') \in Nat /\ Len(Pending') <= Len(raw)
        /\ \A k \in 1 .. Len(Pending') : Pending'[k] = raw[LookedAt' + k]
    BY <1>1, <1>6, LooksFurther
  <2> QED  BY <1>1, <2>1 DEF ThinkInv, PendingIsTheRest
<1>8. /\ visible' \in Seq(Think!Symbol) /\ InOrder(visible', raw, p - 1)
      /\ \A j \in Nat : ShownIn(visible', j) <=> ShownIn(visible, j) \/ j \in LookedAt + 1 .. p - 1
  <2>1. /\ visible' \in Seq(Think!Symbol) /\ InOrder(visible', raw, LookedAt + (i - 1))
        /\ \A j \in Nat : ShownIn(visible', j) <=>
                          ShownIn(visible, j) \/ j \in LookedAt + 1 .. LookedAt + (i - 1)
    BY <1>1, <1>5, Extended
  <2> QED  BY <1>5, <2>1
<1>9. Think!TypeOK'
  BY <1>1, <1>6, <1>8 DEF ThinkInv, Think!TypeOK
<1>10. \A q \in LookedAt + 1 .. p - 1 : ~ InBlockOf(raw, q, cutAt)
  <2>1. p - 1 \in LookedAt .. Len(raw)
    BY <1>3, <1>4
  <2> QED  BY <1>1, <1>4, <2>1, StaysOutside
<1>11. \A q \in (p - 1) + 1 .. p + 1 : InBlockOf(raw, q, cutAt)
  <2>1. \A q \in (p - 1) + 1 .. p + 1 : q = p \/ q - 1 = p
    BY <1>3, <1>4
  <2> QED  BY <1>4, <2>1 DEF InBlockOf
<1>12. InsideOf(raw, (p + 1) + 1, cutAt)
  <2>1. p \in 1 .. ((p + 1) + 1) - 2 /\ \A c \in p + 2 .. ((p + 1) + 1) - 2 : FALSE
    BY <1>3, <1>4
  <2> QED  BY <1>4, <2>1 DEF InsideOf
<1>13. ShownSoFar'
  <2>1. p - 1 \in LookedAt .. LookedAt'
    BY <1>3, <1>4, <1>7
  <2> QED  BY <1>1, <1>7, <1>8, <1>10, <1>11, <1>12, <2>1, ShownFurther
<1>14. NoHalfTag'
  <2>1. raw[LookedAt'].is # "<"
    BY <1>4, <1>7 DEF Think!Begins
  <2>2. \A c \in cutAt : c <= LookedAt' \/ c = Len(raw)
    <3>1. \A c \in cutAt : c \in Int /\ (c <= LookedAt \/ c = Len(raw) \/ c = LookedAt + 1)
      BY <1>1, ThinkTypes DEF ThinkInv, NoHalfTag
    <3> QED  BY <1>3, <1>4, <1>7, <3>1
  <2> QED  BY <1>1, <2>1, <2>2 DEF ThinkInv, NoHalfTag
<1> QED  BY <1>7, <1>9, <1>13, <1>14 DEF ThinkInv

LEMMA AtOrNext ==
  ASSUME NEW l \in Int, NEW m \in Int, l <= m, NEW c \in Int, c <= l \/ c = l + 1
  PROVE  c <= m \/ c = m + 1
OBVIOUS

LEMMA ThinkLetsThrough ==
  ASSUME ThinkInv, Think!LetsThrough
  PROVE  ThinkInv'
<1>1. /\ feeding /\ ~ inThink /\ buf # <<>> /\ Think!Missing("think>", buf)
      /\ buf' = <<>> /\ feeding' = FALSE /\ UNCHANGED <<raw, inThink, cutAt>>
  BY DEF Think!LetsThrough
<1>2. /\ LookedAt \in Nat /\ Len(raw) \in Nat /\ Len(buf) \in Nat /\ LookedAt + Len(buf) = Len(raw)
      /\ buf \in Seq(Think!Symbol) /\ DOMAIN buf = 1 .. Len(buf)
      /\ \A k \in 1 .. Len(buf) : buf[k] = raw[LookedAt + k]
  BY <1>1, ThinkTypes DEF LookedAt, Pending, ThinkInv, PendingIsTheRest
<1>3. Len(buf) \in 1 .. Len(raw) /\ LookedAt + (Len(buf) - 1) = Len(raw) - 1 /\ Len(buf) - 1 \in 0 .. Len(buf)
  <2>1. Len(buf) # 0
    BY <1>1, <1>2
  <2>2. LookedAt \in Nat /\ Len(raw) \in Nat /\ Len(buf) \in Nat /\ LookedAt + Len(buf) = Len(raw)
    BY <1>2
  <2> QED  BY ONLY <2>1, <2>2
<1>4. buf[Len(buf)] = raw[Len(raw)] /\ buf[Len(buf)] \in Think!Symbol
  <2>1. Len(buf) \in 1 .. Len(buf)
    BY <1>2, <1>3
  <2> QED  BY <1>2, <2>1
<1>5. \A o \in LookedAt + 1 .. Len(raw) : ~ Think!Begins("think>", raw, o)
  <2>1. ASSUME NEW o \in LookedAt + 1 .. Len(raw)
        PROVE  ~ Think!Begins("think>", raw, o)
    <3>1. o - LookedAt \in 1 .. Len(buf) /\ LookedAt + (o - LookedAt) = o
      BY <1>2
    <3>2. ~ Think!Begins("think>", buf, o - LookedAt)
      BY <1>1, <1>2, <3>1 DEF Think!Missing
    <3> QED  BY <1>1, <3>1, <3>2, BeginsInTheRest
  <2> QED  BY <2>1
<1>6. <<>> \in Seq(Think!Symbol)
  OBVIOUS
\* All of the buffer but its last `held` symbols is let through.
<1>7. ASSUME NEW held \in {0, 1}, visible' = visible \o SubSeq(buf, 1, Len(buf) - held),
             heldBack' = IF held = 0 THEN <<>> ELSE <<buf[Len(buf)]>>,
             buf[Len(buf)].is = "<" <=> held = 1
      PROVE  ThinkInv'
  <2>1. Len(buf) - held \in 0 .. Len(buf) /\ LookedAt + (Len(buf) - held) = Len(raw) - held
        /\ Len(raw) - held \in LookedAt .. Len(raw)
    <3>1. held = 0 \/ held = 1
      OBVIOUS
    <3>2. LookedAt \in Nat /\ Len(raw) \in Nat /\ Len(buf) \in Nat /\ LookedAt + Len(buf) = Len(raw)
          /\ Len(buf) >= 1
      BY <1>2, <1>3
    <3> QED  BY ONLY <3>1, <3>2
  <2>2. /\ Pending' = heldBack' /\ Len(heldBack') = held
        /\ LookedAt' = Len(raw) - held
    BY <1>1, <1>7 DEF Pending, LookedAt
  <2>3. /\ visible' \in Seq(Think!Symbol) /\ InOrder(visible', raw, Len(raw) - held)
        /\ \A j \in Nat : ShownIn(visible', j) <=>
                          ShownIn(visible, j) \/ j \in LookedAt + 1 .. Len(raw) - held
    <3>1. /\ visible' \in Seq(Think!Symbol) /\ InOrder(visible', raw, LookedAt + (Len(buf) - held))
          /\ \A j \in Nat : ShownIn(visible', j) <=>
                            ShownIn(visible, j) \/ j \in LookedAt + 1 .. LookedAt + (Len(buf) - held)
      BY <1>1, <1>7, <2>1, Extended
    <3> QED  BY <2>1, <3>1
  <2>4. Think!TypeOK'
    <3>1. heldBack' \in {<<>>} \cup {<<s>> : s \in {s \in Think!Symbol : s.is = "<"}}
      BY <1>4, <1>7
    <3> QED  BY <1>1, <1>6, <2>3, <3>1 DEF ThinkInv, Think!TypeOK
  <2>5. PendingIsTheRest'
    <3>1. \A k \in 1 .. Len(Pending') : Pending'[k] = raw[LookedAt' + k]
      <4>1. CASE held = 0
        BY <2>2, <4>1
      <4>2. CASE held = 1
        <5>1. (Len(raw) - 1) + 1 = Len(raw) /\ heldBack'[1] = buf[Len(buf)]
          BY <1>2, <1>7, <4>2
        <5>2. \A k \in 1 .. Len(Pending') : k = 1
          BY <2>2, <4>2
        <5> QED  BY <1>4, <2>2, <4>2, <5>1, <5>2
      <4> QED  BY <4>1, <4>2
    <3>2. Len(Pending') <= Len(raw)
      BY <1>3, <2>2
    <3> QED  BY <1>1, <3>1, <3>2 DEF ThinkInv, PendingIsTheRest
  <2>6. /\ \A q \in LookedAt + 1 .. Len(raw) - held : ~ InBlockOf(raw, q, cutAt)
        /\ ~ InsideOf(raw, (Len(raw) - held) + 1, cutAt)
    <3>1. \A o \in LookedAt + 1 .. Len(raw) - held : o \in LookedAt + 1 .. Len(raw)
      BY <1>2
    <3> QED  BY <1>1, <1>5, <2>1, <3>1, StaysOutside
  <2>7. ShownSoFar'
    <3>1. /\ LookedAt' \in LookedAt .. Len(raw) /\ Len(raw) - held \in LookedAt .. LookedAt'
          /\ \A q \in (Len(raw) - held) + 1 .. LookedAt' : FALSE
      <4>1. Len(raw) - held \in Int /\ LookedAt \in Int
        BY <1>2
      <4> QED  BY <2>1, <2>2, <4>1
    <3> QED  BY <1>1, <2>2, <2>3, <2>6, <3>1, ShownFurther
  <2>8. NoHalfTag'
    <3>1. ASSUME LookedAt' > 0, raw[LookedAt'].is = "<"
          PROVE  LookedAt' < Len(raw) /\ raw[LookedAt' + 1].is # "think>"
      <4>1. held = 1
        <5>1. held = 0 => LookedAt' = Len(raw)
          BY <1>2, <2>2
        <5> QED  BY <1>4, <1>7, <3>1, <5>1
      <4>2. LookedAt' + 1 = Len(raw) /\ LookedAt' < Len(raw)
        BY <1>2, <2>2, <4>1
      <4> QED  BY <1>4, <1>7, <4>1, <4>2
    <3>2. \A c \in cutAt : c <= LookedAt' \/ c = Len(raw) \/ c = LookedAt' + 1
      <4>1. \A c \in cutAt : c \in Int /\ (c <= LookedAt \/ c = Len(raw) \/ c = LookedAt + 1)
        BY <1>1, ThinkTypes DEF ThinkInv, NoHalfTag
      <4>2. LookedAt <= LookedAt' /\ LookedAt' \in Int /\ LookedAt \in Int
        BY <1>2, <2>1, <2>2
      <4>3. ASSUME NEW c \in Int, c <= LookedAt \/ c = LookedAt + 1
            PROVE  c <= LookedAt' \/ c = LookedAt' + 1
        BY ONLY <4>2, <4>3, c \in Int, AtOrNext
      <4> QED  BY <4>1, <4>3
    <3> QED  BY <1>1, <3>1, <3>2 DEF ThinkInv, NoHalfTag
  <2> QED  BY <2>4, <2>5, <2>7, <2>8 DEF ThinkInv
<1>8. Think!Last(buf) = buf[Len(buf)] /\ Think!Front(buf) = SubSeq(buf, 1, Len(buf) - 1)
  BY DEF Think!Last, Think!Front
<1>9. CASE Think!EndsInside(buf)
  <2>1. visible' = visible \o SubSeq(buf, 1, Len(buf) - 1) /\ heldBack' = <<buf[Len(buf)]>>
    BY <1>8, <1>9 DEF Think!LetsThrough
  <2> QED  BY <1>7, <1>8, <1>9, <2>1 DEF Think!EndsInside
<1>10. CASE ~ Think!EndsInside(buf)
  <2>1. visible' = visible \o buf /\ heldBack' = <<>>
    BY <1>10 DEF Think!LetsThrough
  <2>2. SubSeq(buf, 1, Len(buf) - 0) = buf
    BY <1>2
  <2> QED  BY <1>7, <1>8, <1>10, <2>1, <2>2 DEF Think!EndsInside
<1> QED  BY <1>9, <1>10

LEMMA ThinkReturns ==
  ASSUME ThinkInv, Think!Returns
  PROVE  ThinkInv'
<1>1. /\ feeding /\ buf = <<>> /\ heldBack' = <<>> /\ feeding' = FALSE
      /\ UNCHANGED <<raw, visible, inThink, buf, cutAt>>
  BY DEF Think!Returns
<1>2. Pending' = Pending /\ Pending = <<>> /\ LookedAt' = LookedAt
  BY <1>1 DEF Pending, LookedAt
<1>3. Think!TypeOK'
  BY <1>1 DEF ThinkInv, Think!TypeOK
<1>4. PendingIsTheRest'
  BY <1>1, <1>2 DEF ThinkInv, PendingIsTheRest
<1>5. ShownSoFar' /\ NoHalfTag'
  BY <1>1, <1>2 DEF ThinkInv, ShownSoFar, NoHalfTag
<1> QED  BY <1>3, <1>4, <1>5 DEF ThinkInv

\* More text changes nothing of what was looked at: neither the blocks nor the tags.
LEMMA MoreText ==
  ASSUME NEW text \in Seq(Think!Symbol), NEW longer \in Seq(Think!Symbol), NEW lost, NEW more,
         Len(text) <= Len(longer), \A i \in 1 .. Len(text) : longer[i] = text[i],
         \A c \in 1 .. Len(text) - 1 : c \in more <=> c \in lost
  PROVE  /\ \A tag : \A i \in 1 .. Len(text) - 1 :
              Think!Begins(tag, longer, i) <=> Think!Begins(tag, text, i)
         /\ \A tag : \A i \in Int : Think!Begins(tag, text, i) => Think!Begins(tag, longer, i)
         /\ \A i \in 1 .. Len(text) + 1 : InsideOf(longer, i, more) <=> InsideOf(text, i, lost)
<1>1. Len(text) \in Nat /\ Len(longer) \in Nat
  OBVIOUS
<1>2. ASSUME NEW tag, NEW i \in 1 .. Len(text) - 1
      PROVE  Think!Begins(tag, longer, i) <=> Think!Begins(tag, text, i)
  <2>1. i \in 1 .. Len(text) /\ i + 1 \in 1 .. Len(text) /\ i \in 1 .. Len(longer) - 1
    BY <1>1
  <2> QED  BY <2>1 DEF Think!Begins
<1>3. ASSUME NEW tag, NEW i \in Int, Think!Begins(tag, text, i)
      PROVE  Think!Begins(tag, longer, i)
  BY <1>2, <1>3 DEF Think!Begins
<1>4. ASSUME NEW i \in 1 .. Len(text) + 1
      PROVE  InsideOf(longer, i, more) <=> InsideOf(text, i, lost)
  <2>1. \A o \in 1 .. i - 2 : o \in 1 .. Len(text) - 1 /\ \A c \in o + 2 .. i - 2 : c \in 1 .. Len(text) - 1
    BY <1>1
  <2>2. ASSUME NEW o \in 1 .. i - 2
        PROVE  /\ Think!Begins("think>", longer, o) <=> Think!Begins("think>", text, o)
               /\ \A c \in o + 2 .. i - 2 : /\ Think!Begins("/think>", longer, c) <=> Think!Begins("/think>", text, c)
                                            /\ c \in more <=> c \in lost
    BY <1>2, <2>1
  <2> QED  BY <2>2 DEF InsideOf
<1> QED  BY <1>2, <1>3, <1>4

LEMMA ThinkFeeds ==
  ASSUME ThinkInv, NEW n \in 1 .. MaxPiece, NEW kinds \in [1 .. n -> Think!Kind], Think!Feed(kinds)
  PROVE  ThinkInv'
<1> DEFINE piece == [i \in DOMAIN kinds |-> [at |-> Len(raw) + i, is |-> kinds[i]]]
<1>1. /\ ~ feeding /\ feeding' = TRUE /\ Len(raw) + Len(piece) <= MaxLength
      /\ raw' = raw \o piece /\ buf' = heldBack \o piece
      /\ cutAt' = cutAt \cup {i \in {Len(raw) + Len(piece)} : Think!EndsInside(piece)}
      /\ UNCHANGED <<visible, inThink, heldBack>>
  BY DEF Think!Feed, Think!Buffered
<1>2. n \in Nat /\ n >= 1 /\ Len(raw) \in Nat /\ MaxLength \in Nat /\ raw \in Seq(Think!Symbol)
      /\ heldBack \in Seq(Think!Symbol) /\ (heldBack = <<>> \/ Len(heldBack) = 1)
      /\ LookedAt \in 0 .. Len(raw) /\ LookedAt + Len(heldBack) = Len(raw) /\ Len(heldBack) \in Nat
  BY <1>1, ThinkTypes DEF LookedAt, Pending
<1>3. /\ DOMAIN piece = 1 .. n /\ \A i \in 1 .. n : piece[i] = [at |-> Len(raw) + i, is |-> kinds[i]]
      /\ \A i \in 1 .. n : kinds[i] \in Think!Kind
  OBVIOUS
<1> HIDE DEF piece
<1>4. Len(piece) = n
  <2>1. piece \in [1 .. n -> [at : Nat, is : Think!Kind]]
    <3>1. \A i \in 1 .. n : piece[i] \in [at : Nat, is : Think!Kind]
      BY <1>2, <1>3
    <3>2. piece = [i \in 1 .. n |-> piece[i]]
      BY DEF piece
    <3> QED  BY <3>1, <3>2
  <2> QED  BY <1>2, <2>1
<1>5. piece \in Seq(Think!Symbol)
  <2>1. ASSUME NEW i \in 1 .. n
        PROVE  piece[i] \in Think!Symbol
    <3>1. Len(raw) + i \in 1 .. MaxLength
      BY <1>1, <1>2, <1>4
    <3> QED  BY <1>3, <3>1 DEF Think!Symbol
  <2>2. piece = [i \in 1 .. n |-> piece[i]]
    BY DEF piece
  <2>3. piece \in [1 .. n -> Think!Symbol]
    BY <2>1, <2>2
  <2> QED  BY ONLY <1>2, <2>3
<1> DEFINE m == Len(raw)
<1>6. /\ raw' \in Seq(Think!Symbol) /\ Len(raw') = m + n
      /\ \A i \in 1 .. m : raw'[i] = raw[i]
      /\ \A i \in 1 .. n : raw'[m + i] = piece[i] /\ raw'[m + i].at = m + i
  <2>1. /\ raw' \in Seq(Think!Symbol) /\ Len(raw') = m + Len(piece)
        /\ \A i \in 1 .. m : raw'[i] = raw[i]
        /\ \A i \in 1 .. Len(piece) : raw'[m + i] = piece[i]
    BY <1>1, <1>2, <1>5, Joined
  <2> QED  BY <1>3, <1>4, <2>1
<1>7. /\ buf' \in Seq(Think!Symbol) /\ Len(buf') = Len(heldBack) + n
      /\ \A k \in 1 .. Len(heldBack) : buf'[k] = heldBack[k]
      /\ \A i \in 1 .. n : buf'[Len(heldBack) + i] = piece[i]
  <2>1. /\ buf' \in Seq(Think!Symbol) /\ Len(buf') = Len(heldBack) + Len(piece)
        /\ \A k \in 1 .. Len(heldBack) : buf'[k] = heldBack[k]
        /\ \A i \in 1 .. Len(piece) : buf'[Len(heldBack) + i] = piece[i]
    BY <1>1, <1>2, <1>5, Joined
  <2> QED  BY <1>4, <2>1
<1>8. Pending' = buf' /\ LookedAt' = LookedAt /\ LookedAt \in Nat
  <2>1. LookedAt' = Len(raw') - Len(buf') /\ Pending' = buf'
    BY <1>1 DEF LookedAt, Pending
  <2>2. /\ Len(raw') = Len(raw) + n /\ Len(buf') = Len(heldBack) + n
        /\ LookedAt \in Nat /\ Len(raw) \in Nat /\ n \in Nat /\ Len(heldBack) \in Nat
        /\ LookedAt + Len(heldBack) = Len(raw)
    BY <1>2, <1>6, <1>7
  <2>3. Len(raw') - Len(buf') = LookedAt
    BY ONLY <2>2
  <2> QED  BY <2>1, <2>2, <2>3
<1>9. \A k \in 1 .. Len(heldBack) : heldBack[k] = raw[LookedAt + k]
  BY <1>1 DEF ThinkInv, PendingIsTheRest, Pending
<1>10. PendingIsTheRest'
  <2>1. ASSUME NEW i \in 1 .. m + n
        PROVE  raw'[i].at = i
    <3>1. i \in 1 .. m \/ (i - m \in 1 .. n /\ m + (i - m) = i)
      BY <1>2
    <3> QED  BY <1>6, <3>1 DEF ThinkInv, PendingIsTheRest
  <2>2. ASSUME NEW k \in 1 .. Len(heldBack) + n
        PROVE  buf'[k] = raw'[LookedAt + k]
    <3>1. CASE k \in 1 .. Len(heldBack)
      <4>1. LookedAt + k \in 1 .. m
        BY <1>2, <3>1
      <4> QED  BY <1>6, <1>7, <1>9, <3>1, <4>1
    <3>2. CASE k \notin 1 .. Len(heldBack)
      <4>1. k - Len(heldBack) \in 1 .. n /\ Len(heldBack) + (k - Len(heldBack)) = k
            /\ m + (k - Len(heldBack)) = LookedAt + k
        BY <1>2, <3>2
      <4> QED  BY <1>6, <1>7, <4>1
    <3> QED  BY <3>1, <3>2
  <2>3. Len(buf') <= Len(raw')
    BY <1>2, <1>6, <1>7
  <2> QED  BY <1>1, <1>6, <1>7, <1>8, <2>1, <2>2, <2>3 DEF PendingIsTheRest
<1>11. \A c \in Int : c \in cutAt' <=> c \in cutAt \/ (c = m + n /\ raw'[m + n].is = "<")
  <2>1. Think!EndsInside(piece) <=> raw'[m + n].is = "<"
    <3>1. n \in 1 .. n /\ Think!Last(piece) = piece[n]
      BY <1>2, <1>4 DEF Think!Last
    <3> QED  BY <1>6, <3>1 DEF Think!EndsInside
  <2> QED  BY <1>1, <1>4, <2>1
<1>12. Think!TypeOK'
  <2>1. cutAt' \subseteq 1 .. MaxLength
    <3>1. m + n \in 1 .. MaxLength
      BY <1>1, <1>2, <1>4
    <3> QED  BY <1>1, <1>4, <3>1 DEF ThinkInv, Think!TypeOK
  <2> QED  BY <1>1, <1>6, <1>7, <2>1 DEF ThinkInv, Think!TypeOK
<1>13. /\ \A tag : \A i \in 1 .. m - 1 :
            Think!Begins(tag, raw', i) <=> Think!Begins(tag, raw, i)
       /\ \A tag : \A i \in Int : Think!Begins(tag, raw, i) => Think!Begins(tag, raw', i)
       /\ \A i \in 1 .. m + 1 : InsideOf(raw', i, cutAt') <=> InsideOf(raw, i, cutAt)
  <2>1. \A c \in 1 .. m - 1 : c \in Int /\ c # m + n
    BY <1>2
  <2>2. m <= Len(raw') /\ \A c \in 1 .. m - 1 : c \in cutAt' <=> c \in cutAt
    <3>1. m <= Len(raw')
      BY <1>2, <1>6
    <3>2. \A c \in 1 .. m - 1 : c \in cutAt' <=> c \in cutAt
      BY <1>11, <2>1
    <3> QED  BY <3>1, <3>2
  <2>3. /\ raw \in Seq(Think!Symbol) /\ raw' \in Seq(Think!Symbol) /\ Len(raw) = m
        /\ \A i \in 1 .. m : raw'[i] = raw[i]
    BY <1>2, <1>6
  <2> QED  BY <2>2, <2>3, MoreText
\* Half a tag that was looked at is in a block, and so is the other half.
<1>14. ASSUME NEW i \in 1 .. LookedAt
       PROVE  InBlockOf(raw', i, cutAt') <=> InBlockOf(raw, i, cutAt)
  <2>1. i \in Int /\ i <= m /\ i \in 1 .. m + 1 /\ (i \in 1 .. m - 1 \/ i = m)
        /\ (i - 1 \in 1 .. m - 1 \/ i - 1 < 1)
    BY <1>2
  <2>2. Think!Begins("think>", raw', i - 1) <=> Think!Begins("think>", raw, i - 1)
    <3>1. CASE i - 1 \in 1 .. m - 1
      BY <1>13, <3>1
    <3>2. CASE i - 1 < 1
      <4>1. i - 1 \notin 1 .. Len(raw) - 1 /\ i - 1 \notin 1 .. Len(raw') - 1
        BY <2>1, <3>2
      <4> QED  BY <4>1 DEF Think!Begins
    <3> QED  BY <2>1, <3>1, <3>2
  <2>3. CASE i \in 1 .. m - 1
    BY <1>13, <2>1, <2>2, <2>3 DEF InBlockOf
  <2>4. CASE i = m
    <3>1. ASSUME Think!Begins("think>", raw', i)
          PROVE  InBlockOf(raw, i, cutAt)
      <4>1. LookedAt = m /\ raw[LookedAt].is = "<" /\ LookedAt > 0
        BY <1>2, <1>6, <2>4, <3>1 DEF Think!Begins
      <4>2. inThink
        BY <1>2, <4>1 DEF ThinkInv, NoHalfTag
      <4>3. InsideOf(raw, m + 1, cutAt)
        BY <4>1, <4>2 DEF ThinkInv, ShownSoFar
      <4>4. PICK o \in 1 .. (m + 1) - 2 :
              /\ Think!Begins("think>", raw, o)
              /\ \A c \in o + 2 .. (m + 1) - 2 : Think!Begins("/think>", raw, c) => c \in cutAt
        BY <4>3 DEF InsideOf
      <4>5. o = i - 1 \/ (o \in 1 .. i - 2 /\ \A c \in o + 2 .. i - 2 : c \in o + 2 .. (m + 1) - 2)
        BY <1>2, <2>4
      <4> QED  BY <4>4, <4>5 DEF InBlockOf, InsideOf
    <3> QED  BY <1>13, <2>1, <2>2, <3>1 DEF InBlockOf
  <2> QED  BY <2>1, <2>3, <2>4
<1>15. ShownSoFar'
  <2>1. InOrder(visible, raw', LookedAt)
    <3>1. \A i \in 1 .. LookedAt : raw'[i] = raw[i]
      BY <1>2, <1>6
    <3> QED  BY <3>1 DEF ThinkInv, ShownSoFar, InOrder
  <2>2. LookedAt + 1 \in 1 .. m + 1
    BY <1>2
  <2>3. InsideOf(raw', LookedAt + 1, cutAt') <=> InsideOf(raw, LookedAt + 1, cutAt)
    BY <1>13, <2>2
  <2> QED  BY <1>1, <1>8, <1>14, <2>1, <2>3 DEF ThinkInv, ShownSoFar
<1>16. NoHalfTag'
  <2>1. LookedAt > 0 /\ raw'[LookedAt].is = "<" =>
          IF inThink THEN LookedAt \in cutAt'
          ELSE LookedAt < Len(raw') /\ raw'[LookedAt + 1].is # "think>"
    <3> SUFFICES ASSUME LookedAt > 0, raw'[LookedAt].is = "<"
                 PROVE  IF inThink THEN LookedAt \in cutAt'
                        ELSE LookedAt < Len(raw') /\ raw'[LookedAt + 1].is # "think>"
      OBVIOUS
    <3>1. raw[LookedAt].is = "<"
      BY <1>2, <1>6
    <3>2. CASE inThink
      BY <1>1, <3>1, <3>2 DEF ThinkInv, NoHalfTag
    <3>3. CASE ~ inThink
      <4>1. LookedAt < m /\ raw[LookedAt + 1].is # "think>"
        BY <3>1, <3>3 DEF ThinkInv, NoHalfTag
      <4>2. LookedAt + 1 \in 1 .. m /\ LookedAt < Len(raw')
        BY <1>2, <1>6, <4>1
      <4> QED  BY <1>6, <3>3, <4>1, <4>2
    <3> QED  BY <3>2, <3>3
  <2>2. raw'[Len(raw')].is = "<" => Len(raw') \in cutAt'
    BY <1>2, <1>6, <1>11
  <2>3. ASSUME NEW c \in cutAt'
        PROVE  c <= LookedAt \/ c = Len(raw') \/ (~ inThink /\ c = LookedAt + 1)
    <3>1. c \in Int
      BY <1>12 DEF Think!TypeOK
    <3>2. CASE c \in cutAt
      <4>1. c <= LookedAt \/ c = m \/ (~ inThink /\ c = LookedAt + 1)
        BY <3>2 DEF ThinkInv, NoHalfTag
      <4>2. heldBack = <<>> => LookedAt = m
        BY <1>2
      <4>3. heldBack # <<>> => m = LookedAt + 1 /\ ~ inThink
        BY <1>1, <1>2 DEF ThinkInv, PendingIsTheRest
      <4>4. m <= m
        BY <1>2
      <4> QED  BY <4>1, <4>2, <4>3, <4>4
    <3> QED  BY <1>6, <1>11, <3>1, <3>2
  <2> QED  BY <1>1, <1>8, <2>1, <2>2, <2>3 DEF NoHalfTag
<1> QED  BY <1>10, <1>12, <1>15, <1>16 DEF ThinkInv

LEMMA ThinkInit == Init => ThinkInv
<1> SUFFICES ASSUME Init PROVE ThinkInv
  OBVIOUS
<1>1. /\ raw = <<>> /\ visible = <<>> /\ inThink = FALSE /\ heldBack = <<>>
      /\ feeding = FALSE /\ buf = <<>> /\ cutAt = {}
  BY DEF Init, Think!Init
<1>2. Pending = <<>> /\ LookedAt = 0
  BY <1>1 DEF Pending, LookedAt
<1>3. Think!TypeOK
  <2>1. <<>> \in Seq(Think!Symbol) /\ {} \subseteq 1 .. MaxLength /\ FALSE \in BOOLEAN
    OBVIOUS
  <2> QED  BY <1>1, <2>1 DEF Think!TypeOK
<1>5. PendingIsTheRest
  BY <1>1, <1>2 DEF PendingIsTheRest
<1>6. NoHalfTag
  BY <1>1, <1>2 DEF NoHalfTag
<1>4. ShownSoFar
  BY <1>1, <1>2 DEF ShownSoFar, InOrder, InsideOf
<1> QED  BY <1>3, <1>4, <1>5, <1>6 DEF ThinkInv

LEMMA ThinkNext ==
  ASSUME ThinkInv, Think!ThinkStep
  PROVE  ThinkInv'
BY ThinkFeeds, ThinkLeavesBlock, ThinkStaysInBlock, ThinkEntersBlock, ThinkLetsThrough,
   ThinkReturns DEF Think!ThinkStep

LEMMA ThinkStutter ==
  ASSUME ThinkInv, UNCHANGED thinkVars
  PROVE  ThinkInv'
<1>1. UNCHANGED <<raw, visible, inThink, heldBack, feeding, buf, cutAt>>
  BY DEF thinkVars
<1>2. Pending' = Pending /\ LookedAt' = LookedAt
  BY <1>1 DEF Pending, LookedAt
<1>3. Think!TypeOK' /\ PendingIsTheRest'
  BY <1>1, <1>2 DEF ThinkInv, Think!TypeOK, PendingIsTheRest
<1>4. ShownSoFar' /\ NoHalfTag'
  BY <1>1, <1>2 DEF ThinkInv, ShownSoFar, NoHalfTag
<1> QED  BY <1>3, <1>4 DEF ThinkInv

LEMMA ThinkShows ==
  ASSUME ThinkInv
  PROVE  Think!ShowsWhatIsOutside
<1>1. /\ LookedAt \in 0 .. Len(raw) /\ Len(raw) \in Nat /\ raw \in Seq(Think!Symbol)
      /\ heldBack \in Seq(Think!Symbol) /\ (heldBack = <<>> \/ Len(heldBack) = 1)
      /\ DOMAIN raw = 1 .. Len(raw)
  BY ThinkTypes
<1>2. /\ \A j, k \in DOMAIN visible : j < k => visible[j].at < visible[k].at
      /\ \A k \in DOMAIN visible : visible[k].at \in 1 .. LookedAt /\ visible[k] = raw[visible[k].at]
      /\ \A i \in 1 .. LookedAt : ShownIn(visible, i) <=> ~ InBlockOf(raw, i, cutAt)
  BY DEF ThinkInv, ShownSoFar, InOrder
<1>3. \A i \in 1 .. Len(raw) : Think!InBlock(i, cutAt) <=> InBlockOf(raw, i, cutAt)
  BY DEF Think!InBlock, Think!Inside, InBlockOf, InsideOf
<1>4. \A i \in 1 .. Len(raw) : Think!InBlock(i, {}) => Think!InBlock(i, cutAt)
  BY DEF Think!InBlock, Think!Inside
<1>5. ASSUME NEW k \in DOMAIN visible
      PROVE  \E i \in DOMAIN raw : visible[k] = raw[i] /\ ~ Think!InBlock(i, {})
  <2>1. ShownIn(visible, visible[k].at)
    BY DEF ShownIn
  <2>2. visible[k].at \in 1 .. LookedAt /\ visible[k].at \in 1 .. Len(raw)
    BY <1>1, <1>2
  <2>3. ~ Think!InBlock(visible[k].at, {})
    BY <1>2, <1>3, <1>4, <2>1, <2>2
  <2> QED  BY <1>1, <1>2, <2>2, <2>3
<1>6. ASSUME ~ feeding, NEW i \in DOMAIN raw
      PROVE  Think!Shown(i) \/ Think!InBlock(i, cutAt) \/ heldBack = <<raw[i]>>
  <2>1. CASE i \in 1 .. LookedAt
    <3>1. ShownIn(visible, i) => Think!Shown(i)
      BY <1>2 DEF ShownIn, Think!Shown
    <3> QED  BY <1>1, <1>2, <1>3, <2>1, <3>1
  <2>2. CASE i \notin 1 .. LookedAt
    <3>1. Len(raw) = LookedAt + Len(heldBack) /\ Len(heldBack) \in Nat
      BY <1>1, <1>6 DEF LookedAt, Pending
    <3>2. Len(heldBack) = 1 /\ i = LookedAt + 1
      <4>1. i \in 1 .. Len(raw) /\ Len(heldBack) \in {0, 1}
        BY <1>1
      <4>2. LookedAt \in Nat /\ Len(raw) \in Nat
        BY <1>1
      <4>3. i \in Nat /\ LookedAt < i /\ i <= LookedAt + Len(heldBack)
        BY ONLY <2>2, <3>1, <4>1, <4>2
      <4>4. Len(heldBack) # 0
        BY <4>2, <4>3
      <4>5. Len(heldBack) = 1
        BY <4>1, <4>4
      <4> QED  BY <4>2, <4>3, <4>5
    <3>3. heldBack[1] = raw[LookedAt + 1]
      <4>1. Pending = heldBack /\ 1 \in 1 .. Len(heldBack)
        BY <1>6, <3>2 DEF Pending
      <4> QED  BY <4>1 DEF ThinkInv, PendingIsTheRest
    <3>4. heldBack = <<heldBack[1]>>
      <4>1. heldBack # <<>>
        BY <3>2
      <4>2. PICK s \in Think!Symbol : heldBack = <<s>>
        BY <4>1 DEF ThinkInv, Think!TypeOK
      <4> QED  BY <4>2
    <3> QED  BY <3>2, <3>3, <3>4
  <2> QED  BY <2>1, <2>2
<1> QED  BY <1>2, <1>5, <1>6 DEF Think!ShowsWhatIsOutside

-----------------------------------------------------------------------------
(* Theorems *)

\* The stored transcript of an agent only grows, by the steps that counted, and the
\* parent is told only of an end that is stored, through crashes, takeovers and
\* attempts that come back late.
THEOREM AgentStepsCount == Spec => StepsCountOnce
<1>1. Init => AgentInv
  BY AgentInit
<1>2. AgentInv /\ [Next]_vars => AgentInv'
  <2> SUFFICES ASSUME AgentInv, [Next]_vars PROVE AgentInv'
    OBVIOUS
  <2>1. Agent!Next \/ UNCHANGED agentVars
    BY PartSteps
  <2> QED  BY <2>1, AgentNext, AgentStutter
<1>3. AgentInv /\ [Next]_vars => [Agent!KeepsHistory]_vars
  <2> SUFFICES ASSUME AgentInv, [Next]_vars PROVE Agent!KeepsHistory \/ UNCHANGED vars
    OBVIOUS
  <2>2. CASE Agent!Next
    BY <2>2, AgentNext
  <2>3. CASE UNCHANGED agentVars
    <3>1. row' = row /\ row.transcript \in Seq(Agent!Entry)
      BY <2>3, AgentTypes DEF agentVars, AgentInv, AgentRow
    <3>2. Agent!IsPrefix(row.transcript, row'.transcript)
      BY <3>1, PrefixOfItself
    <3>3. row'.step = Len(row'.transcript) /\ NoRepeats(row'.transcript)
      BY <3>1 DEF AgentInv, HistoryKept
    <3> QED  BY <3>2, <3>3 DEF Agent!KeepsHistory, NoRepeats
  <2> QED  BY <2>2, <2>3, PartSteps
<1>4. AgentInv => Agent!ToldOfTheEnd
  BY DEF AgentInv
<1> QED  BY <1>1, <1>2, <1>3, <1>4, PTL DEF Spec, StepsCountOnce

\* Once the newest execution of a source has returned, and no statement of it failed
\* and none overlapped with it, the tables hold exactly what it wrote.
THEOREM VectorsAreInSync == Spec => []VectorsInSync
<1>1. Init => StoreInv
  BY StoreInit
<1>2. StoreInv /\ [Next]_vars => StoreInv'
  <2> SUFFICES ASSUME StoreInv, [Next]_vars PROVE StoreInv'
    OBVIOUS
  <2>1. Store!StoreStep \/ UNCHANGED storeVars
    BY PartSteps
  <2> QED  BY <2>1, StoreNext, StoreStutter
<1>3. StoreInv => VectorsInSync
  BY StoreInSync DEF VectorsInSync
<1> QED  BY <1>1, <1>2, <1>3, PTL DEF Spec

\* An extraction that returns without an error returns every relationship that was
\* found, each triple once and with the highest confidence any chunk gave it; where
\* there is a graph it has stored them, unless the user changed the graph meanwhile.
\* One whose chunk has failed, or that has no graph, has written nothing; and a triple
\* has one edge as long as no predicate was renamed.
THEOREM GraphHoldsWhatWasFound == Spec => []GraphIsWhatWasFound
<1>1. Init => GraphInv
  BY GraphInit
<1>2. GraphInv /\ [Next]_vars => GraphInv'
  <2> SUFFICES ASSUME GraphInv, [Next]_vars PROVE GraphInv'
    OBVIOUS
  <2>1. Graph!GraphStep \/ UNCHANGED graphVars
    BY PartSteps
  <2> QED  BY <2>1, GraphNext, GraphStutter
<1>3. GraphInv => GraphIsWhatWasFound
  BY GraphReturned DEF GraphInv, GraphIsWhatWasFound
<1> QED  BY <1>1, <1>2, <1>3, PTL DEF Spec

\* However the text is cut into pieces, the user sees it in its order and never a word
\* or a tag of a reasoning block; between two pieces nothing else is held back but half
\* a tag, and what follows a closing tag that came in two pieces.
THEOREM UserSeesWhatIsOutside == Spec => []UserSeesTheText
<1>1. Init => ThinkInv
  BY ThinkInit
<1>2. ThinkInv /\ [Next]_vars => ThinkInv'
  <2> SUFFICES ASSUME ThinkInv, [Next]_vars PROVE ThinkInv'
    OBVIOUS
  <2>1. Think!ThinkStep \/ UNCHANGED thinkVars
    BY PartSteps
  <2> QED  BY <2>1, ThinkNext, ThinkStutter
<1>3. ThinkInv => UserSeesTheText
  BY ThinkShows DEF UserSeesTheText
<1> QED  BY <1>1, <1>2, <1>3, PTL DEF Spec

\* No text of a live transcription repeats audio, and the final one is the transcript
\* of what was heard before the stop, a text that was sent before, or empty.
THEOREM TranscriptsDoNotRepeat == Spec => []TranscriptRepeatsNothing
<1>1. Init => SessionInv
  BY SessionInit
<1>2. SessionInv /\ [Next]_vars => SessionInv'
  <2> SUFFICES ASSUME SessionInv, [Next]_vars PROVE SessionInv'
    OBVIOUS
  <2>1. Session!SessionStep \/ UNCHANGED sessionVars
    BY PartSteps
  <2> QED  BY <2>1, SessionNext, SessionStutter
<1>3. SessionInv => TranscriptRepeatsNothing
  BY DEF SessionInv, TranscriptRepeatsNothing
<1> QED  BY <1>1, <1>2, <1>3, PTL DEF Spec

\* Every part keeps its types, whichever of them runs: the invariants of the parts
\* together.
THEOREM TypeCorrect == Spec => []TypeOK
<1> DEFINE IInv == RegistryInv /\ PoolInv /\ EngineInv /\ ClientInv /\ AgentInv
                   /\ StoreInv /\ GraphInv /\ ThinkInv /\ SessionInv
<1>1. Init => IInv
  BY RegistryInit, PoolInit, EngineInit, ClientInit, AgentInit, StoreInit,
     GraphInit, ThinkInit, SessionInit
<1>2. IInv /\ [Next]_vars => IInv'
  <2> SUFFICES ASSUME IInv, [Next]_vars PROVE IInv'
    OBVIOUS
  <2>2. RegistryInv' /\ PoolInv' /\ EngineInv' /\ ClientInv'
    BY PartSteps, RegistryNext, RegistryStutter, PoolNext, PoolStutter, EngineNext, EngineStutter,
       ClientNext, ClientStutter
  <2>3. AgentInv' /\ StoreInv' /\ GraphInv' /\ ThinkInv' /\ SessionInv'
    BY PartSteps, AgentNext, AgentStutter, StoreNext, StoreStutter, GraphNext, GraphStutter,
       ThinkNext, ThinkStutter, SessionNext, SessionStutter
  <2> QED  BY <2>2, <2>3
<1>3. IInv => TypeOK
  BY DEF RegistryInv, PoolInv, EngineInv, ClientInv, AgentInv, StoreInv, GraphInv,
         ThinkInv, SessionInv, TypeOK
<1> QED  BY <1>1, <1>2, <1>3, PTL DEF Spec
===============================================================================
