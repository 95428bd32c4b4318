----------------------------- MODULE LlamaServer -----------------------------
(***************************************************************************)
(* The shared inference engine (services/llama_server.py): whoever needs it    *)
(* first starts it, everybody else uses what answers, and each process stops   *)
(* the server it has started when it ends.                                     *)
(*                                                                         *)
(* Servers are numbered in the order they are started.  A server takes the     *)
(* port when it is started, loads the model and then answers; one that finds   *)
(* the port taken ends soon, but may still be seen running.                    *)
(***************************************************************************)
EXTENDS Naturals, FiniteSets

CONSTANTS Process,      \* the workers
          Manager,      \* the service manager, which may start an engine too
          Caller, Home, \* threads, and the process each belongs to
          MaxServers,   \* bound on the servers started
          MaxPolls,     \* rounds of the waiting loop before STARTUP_TIMEOUT_S is over
          MaxFaults     \* bound on deaths of servers and processes, and on late answers

LlamaServerAssumption ==
  /\ Manager \notin Process /\ Home \in [Caller -> Process] /\ "nobody" \notin Caller
  /\ MaxServers \in Nat \ {0} /\ MaxPolls \in Nat \ {0} /\ MaxFaults \in Nat

VARIABLES server,     \* server i: who started it and how far it is
          port,       \* the server that holds the port, 0 for none
          child,      \* _child of each process, 0 for None
          readyUrl,   \* _ready_url of each process is set
          lock,       \* the caller in the critical section of each process
          call,       \* where each caller is in ensure_server
          polls,      \* rounds its waiting loop has made
          process,    \* each process is "up", "ended" in order or "killed"
          registered, \* atexit of each process knows stop
          faults,
          late        \* a health check was answered too late

engineVars == <<server, port, child, readyUrl, lock, call, polls, process, registered,
                faults, late>>

Nobody == "nobody"
NotYet == [by |-> Manager, state |-> "new"]
Alive  == port # 0 /\ server[port].state = "ready"
Runs(i) == server[i].state \in {"loading", "ready"}
Started == {i \in 1 .. MaxServers : server[i].state # "new"}
Up(c) == process[Home[c]] = "up"

Init ==
  /\ server = [i \in 1 .. MaxServers |-> NotYet]
  /\ port = 0
  /\ child = [p \in Process |-> 0]
  /\ readyUrl = [p \in Process |-> FALSE]
  /\ lock = [p \in Process |-> Nobody]
  /\ call = [c \in Caller |-> "idle"]
  /\ polls = [c \in Caller |-> 0]
  /\ process = [p \in Process |-> "up"]
  /\ registered = [p \in Process |-> FALSE]
  /\ faults = 0
  /\ late = FALSE

At(c, place) == call[c] = place /\ Up(c)
Goto(c, place) == call' = [call EXCEPT ![c] = place]
Unlock(c) == lock' = [lock EXCEPT ![Home[c]] = Nobody]

-----------------------------------------------------------------------------
(* ensure_server *)

\* The quick way out, without the lock: this process has seen the engine answer.
Ensure(c) ==
  /\ At(c, "idle")
  /\ Goto(c, IF readyUrl[Home[c]] /\ Alive THEN "served" ELSE "lock")
  /\ UNCHANGED <<server, port, child, readyUrl, lock, polls, process, faults, late, registered>>

Lock(c) ==
  /\ At(c, "lock")
  /\ lock[Home[c]] = Nobody
  /\ lock' = [lock EXCEPT ![Home[c]] = c]
  /\ Goto(c, "recheck")
  /\ UNCHANGED <<server, port, child, readyUrl, polls, process, faults, late, registered>>

Served(c) ==
  /\ readyUrl' = [readyUrl EXCEPT ![Home[c]] = TRUE]
  /\ Unlock(c)
  /\ Goto(c, "served")

Recheck(c) ==
  /\ At(c, "recheck")
  /\ IF Alive THEN Served(c) ELSE Goto(c, "spawn") /\ UNCHANGED <<readyUrl, lock>>
  /\ UNCHANGED <<server, port, child, polls, process, faults, late, registered>>

Failed(c) == Unlock(c) /\ Goto(c, "raised")

\* No binary, or no model file.
CannotSpawn(c) ==
  /\ At(c, "spawn")
  /\ Failed(c)
  /\ UNCHANGED <<server, port, child, readyUrl, polls, process, faults, late, registered>>

NextServer(p) ==
  \E i \in 1 .. MaxServers :
    /\ \A j \in 1 .. MaxServers : j < i <=> j \in Started
    /\ server' = [server EXCEPT ![i] = [by |-> p,
                     state |-> IF port = 0 THEN "loading" ELSE "doomed"]]
    /\ port' = IF port = 0 THEN i ELSE port
    /\ child' = IF p \in Process THEN [child EXCEPT ![p] = i] ELSE child

\* Popen, in a session of its own.
Spawn(c) ==
  /\ At(c, "spawn")
  /\ NextServer(Home[c])
  /\ Goto(c, "register")
  /\ UNCHANGED <<readyUrl, lock, polls, process, faults, late, registered>>

\* From here on an end in order stops the child; the clock starts.
Register(c) ==
  /\ At(c, "register")
  /\ registered' = [registered EXCEPT ![Home[c]] = TRUE]
  /\ polls' = [polls EXCEPT ![c] = 0]
  /\ Goto(c, "poll")
  /\ UNCHANGED <<server, port, child, readyUrl, lock, process, faults, late>>

\* Mutant of PollChild: the loop has no deadline.
PollForever(c) ==
  /\ At(c, "poll")
  /\ IF server[child[Home[c]]].state = "dead"
     THEN Failed(c)
     ELSE Goto(c, "probe") /\ UNCHANGED lock
  /\ UNCHANGED <<server, port, child, readyUrl, polls, process, faults, late, registered>>

\* The waiting loop asks whether the child has died before it asks the url.
PollChild(c) ==
  /\ At(c, "poll")
  /\ polls[c] < MaxPolls
  /\ polls' = [polls EXCEPT ![c] = @ + 1]
  /\ IF server[child[Home[c]]].state = "dead"
     THEN Failed(c)
     ELSE Goto(c, "probe") /\ UNCHANGED lock
  /\ UNCHANGED <<server, port, child, readyUrl, process, faults, late, registered>>

Probe(c) ==
  /\ At(c, "probe")
  /\ IF Alive THEN Served(c) ELSE Goto(c, "poll") /\ UNCHANGED <<readyUrl, lock>>
  /\ UNCHANGED <<server, port, child, polls, process, faults, late, registered>>

\* stop: the child is ended, by force if need be, and forgotten.
Stopped(p) ==
  LET i == child[p] IN
    /\ child' = [child EXCEPT ![p] = 0]
    /\ IF i # 0 /\ Runs(i)
       THEN server' = [server EXCEPT ![i].state = "dead"] /\ port' = 0
       ELSE UNCHANGED <<server, port>>

\* Mutant of StartupTimeout: the child is left running.
TimeoutOnly(c) ==
  /\ At(c, "poll")
  /\ polls[c] = MaxPolls
  /\ child' = [child EXCEPT ![Home[c]] = 0]
  /\ Failed(c)
  /\ UNCHANGED <<server, port, readyUrl, polls, process, faults, late, registered>>

StartupTimeout(c) ==
  /\ At(c, "poll")
  /\ polls[c] = MaxPolls
  /\ Stopped(Home[c])
  /\ Failed(c)
  /\ UNCHANGED <<readyUrl, polls, process, faults, late, registered>>

\* The client has its url, or the execution its error; a later one calls again.
CallAgain(c) ==
  /\ At(c, "served") \/ At(c, "raised")
  /\ Goto(c, "idle")
  /\ UNCHANGED <<server, port, child, readyUrl, lock, polls, process, faults, late, registered>>

-----------------------------------------------------------------------------
(* The other starter, the servers, and what goes wrong *)

\* main: `python -m services.llama_server`.
ManagerStarts ==
  /\ ~Alive
  /\ NextServer(Manager)
  /\ UNCHANGED <<readyUrl, lock, call, polls, process, faults, late, registered>>

PortTaken(i) ==
  /\ server[i].state = "doomed"
  /\ server' = [server EXCEPT ![i].state = "dead"]
  /\ UNCHANGED <<port, child, readyUrl, lock, call, polls, process, faults, late, registered>>

Load(i) ==
  /\ server[i].state = "loading"
  /\ server' = [server EXCEPT ![i].state = "ready"]
  /\ UNCHANGED <<port, child, readyUrl, lock, call, polls, process, faults, late, registered>>

Fault == faults < MaxFaults /\ faults' = faults + 1

ServerDies(i) ==
  /\ Runs(i)
  /\ Fault
  /\ server' = [server EXCEPT ![i].state = "dead"]
  /\ port' = 0
  /\ UNCHANGED <<child, readyUrl, lock, call, polls, process, late, registered>>

\* A busy engine does not answer /health within the two seconds of is_alive.
AnswersLate(c) ==
  /\ Fault
  /\ late' = TRUE
  /\ \/ At(c, "idle") /\ Goto(c, "lock")
     \/ At(c, "recheck") /\ Goto(c, "spawn")
     \/ At(c, "probe") /\ Goto(c, "poll")
  /\ UNCHANGED <<server, port, child, readyUrl, lock, polls, process, registered>>

\* SIGTERM makes the worker exit wherever it is; atexit calls stop, if it knows it.
ProcessEnds(p) ==
  /\ process[p] = "up"
  /\ Fault
  /\ process' = [process EXCEPT ![p] = "ended"]
  /\ IF registered[p] THEN Stopped(p) ELSE UNCHANGED <<server, port, child>>
  /\ UNCHANGED <<readyUrl, lock, call, polls, late, registered>>

\* The child is in a session of its own and survives.
ProcessKilled(p) ==
  /\ process[p] = "up"
  /\ Fault
  /\ process' = [process EXCEPT ![p] = "killed"]
  /\ UNCHANGED <<server, port, child, readyUrl, lock, call, polls, late, registered>>

-----------------------------------------------------------------------------
EnsureStep(c) ==
  \/ Lock(c) \/ Recheck(c) \/ CannotSpawn(c) \/ Spawn(c) \/ Register(c)
  \/ PollChild(c) \/ Probe(c) \/ StartupTimeout(c)

EngineStep ==
  \/ \E c \in Caller : Ensure(c) \/ EnsureStep(c) \/ CallAgain(c) \/ AnswersLate(c)
  \/ ManagerStarts
  \/ \E i \in 1 .. MaxServers : PortTaken(i) \/ Load(i) \/ ServerDies(i)
  \/ \E p \in Process : ProcessEnds(p) \/ ProcessKilled(p)

Spec == Init /\ [][EngineStep]_engineVars

\* A thread goes on with its call; a lock that is free often enough is obtained.
Fairness == \A c \in Caller : WF_engineVars(EnsureStep(c)) /\ SF_engineVars(Lock(c))

-----------------------------------------------------------------------------
(* Properties *)

TypeOK ==
  /\ server \in [1 .. MaxServers ->
       [by : Process \cup {Manager}, state : {"new", "loading", "ready", "doomed", "dead"}]]
  /\ port \in 0 .. MaxServers
  /\ child \in [Process -> 0 .. MaxServers]
  /\ readyUrl \in [Process -> BOOLEAN]
  /\ lock \in [Process -> Caller \cup {Nobody}]
  /\ call \in [Caller -> {"idle", "lock", "recheck", "spawn", "register", "poll", "probe",
                          "served", "raised"}]
  /\ polls \in [Caller -> 0 .. MaxPolls]
  /\ process \in [Process -> {"up", "ended", "killed"}]
  /\ registered \in [Process -> BOOLEAN]
  /\ faults \in 0 .. MaxFaults
  /\ late \in BOOLEAN

\* A process that is gone without having called stop: it was killed, or the signal
\* came before the first of its callers had registered stop.
Abandoned(p) ==
  \/ process[p] = "killed"
  \/ process[p] = "ended" /\ ~registered[p]

\* stop ends every server this process has started: one that runs is still the
\* _child of its process, unless that process is gone without having called stop.
\* A health check answered too late breaks this: the next call then starts a
\* second server, which cannot have the port, and forgets the first.
EngineIsOwned ==
  late \/ \A i \in 1 .. MaxServers :
            Runs(i) /\ server[i].by \in Process =>
              \/ Abandoned(server[i].by)
              \/ process[server[i].by] = "up" /\ child[server[i].by] = i

\* A call of ensure_server returns or raises, whatever becomes of the servers:
\* the thread that waits for the lock is not kept out for ever.
Returned(c) == call[c] \in {"served", "raised"} \/ ~Up(c)
EnsureEnds  == \A c \in Caller : call[c] = "lock" ~> Returned(c)
=============================================================================
