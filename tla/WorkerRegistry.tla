---------------------------- MODULE WorkerRegistry ----------------------------
(***************************************************************************)
(* The workers table (worker/identity.py, executions.py): a worker process      *)
(* registers under the id of its data directory, sends heartbeats from a        *)
(* thread of its own, and marks its id offline when it is asked to stop.        *)
(***************************************************************************)
EXTENDS Naturals

CONSTANTS Proc,        \* worker processes
          Id, IdOf,    \* what .worker_id holds for each: two may share one
          MaxEnds      \* bound on the ends of processes and the losses of connections

WorkerRegistryAssumption == IdOf \in [Proc -> Id] /\ MaxEnds \in Nat

VARIABLES entry,    \* the workers table: the status and the freshness of each id
          stage,    \* how far main has come in each process
          beating,  \* its heartbeat thread is alive
          broken,   \* the thread's connection is broken
          orphaned, \* another process with this id went offline since it registered
          ends

registryVars == <<entry, stage, beating, broken, orphaned, ends>>

Init ==
  /\ entry = [i \in Id |-> [status |-> "none", fresh |-> FALSE]]
  /\ stage = [p \in Proc |-> "down"]
  /\ beating = [p \in Proc |-> FALSE]
  /\ broken = [p \in Proc |-> FALSE]
  /\ orphaned = [p \in Proc |-> FALSE]
  /\ ends = 0

Online == [status |-> "online", fresh |-> TRUE]
End    == ends < MaxEnds /\ ends' = ends + 1

\* Mutant of Registered: a row that is there keeps its status.
RegisteredIfNew(i) ==
  [entry EXCEPT ![i] = IF @.status = "none" THEN Online ELSE [@ EXCEPT !.fresh = TRUE]]

\* INSERT ... ON CONFLICT (id) DO UPDATE
Registered(i) == [entry EXCEPT ![i] = Online]

Register(p) ==
  /\ stage[p] = "down"
  /\ entry' = Registered(IdOf[p])
  /\ stage' = [stage EXCEPT ![p] = "registered"]
  /\ orphaned' = [orphaned EXCEPT ![p] = FALSE]
  /\ UNCHANGED <<beating, broken, ends>>

\* The heartbeat thread is started, then the signal handlers are installed.
StartHeartbeat(p) ==
  /\ stage[p] = "registered"
  /\ stage' = [stage EXCEPT ![p] = "polling"]
  /\ beating' = [beating EXCEPT ![p] = TRUE]
  /\ broken' = [broken EXCEPT ![p] = FALSE]
  /\ UNCHANGED <<entry, orphaned, ends>>

\* The UPDATE touches last_heartbeat only: an id that is offline stays offline.
Heartbeat(p) ==
  /\ beating[p]
  /\ ~broken[p]
  /\ entry' = [entry EXCEPT ![IdOf[p]].fresh = TRUE]
  /\ UNCHANGED <<stage, beating, broken, orphaned, ends>>

LoseConnection(p) ==
  /\ beating[p]
  /\ End
  /\ broken' = [broken EXCEPT ![p] = TRUE]
  /\ UNCHANGED <<entry, stage, beating, orphaned>>

\* After a failed heartbeat the thread connects again; if that fails the
\* exception leaves the loop and the thread ends, and the worker goes on.
Reconnect(p) ==
  /\ beating[p]
  /\ broken[p]
  /\ broken' = [broken EXCEPT ![p] = FALSE]
  /\ \/ UNCHANGED beating
     \/ beating' = [beating EXCEPT ![p] = FALSE]
  /\ UNCHANGED <<entry, stage, orphaned, ends>>

\* Nothing was heard of an id for longer than a heartbeat interval.
Lapse(i) ==
  /\ entry[i].fresh
  /\ \A p \in Proc : IdOf[p] = i => stage[p] # "registered" /\ (~beating[p] \/ broken[p])
  /\ entry' = [entry EXCEPT ![i].fresh = FALSE]
  /\ UNCHANGED <<stage, beating, broken, orphaned, ends>>

Gone(p) ==
  /\ stage' = [stage EXCEPT ![p] = "down"]
  /\ beating' = [beating EXCEPT ![p] = FALSE]
  /\ UNCHANGED broken

\* SIGTERM or SIGINT: deregister_worker swallows what goes wrong.
Shutdown(p) ==
  /\ stage[p] = "polling"
  /\ End
  /\ Gone(p)
  /\ \/ UNCHANGED <<entry, orphaned>>
     \/ /\ entry' = [entry EXCEPT ![IdOf[p]].status = "offline"]
        /\ orphaned' = [q \in Proc |-> orphaned[q] \/ (IdOf[q] = IdOf[p] /\ stage[q] # "down")]

\* A crash, or a signal before the handlers are installed.
Killed(p) ==
  /\ stage[p] # "down"
  /\ End
  /\ Gone(p)
  /\ UNCHANGED <<entry, orphaned>>

RegistryStep ==
  \/ \E p \in Proc :
       \/ Register(p) \/ StartHeartbeat(p) \/ Heartbeat(p) \/ LoseConnection(p)
       \/ Reconnect(p) \/ Shutdown(p) \/ Killed(p)
  \/ \E i \in Id : Lapse(i)

Spec == Init /\ [][RegistryStep]_registryVars

-----------------------------------------------------------------------------
TypeOK ==
  /\ entry \in [Id -> [status : {"none", "online", "offline"}, fresh : BOOLEAN]]
  /\ stage \in [Proc -> {"down", "registered", "polling"}]
  /\ {beating, broken, orphaned} \subseteq [Proc -> BOOLEAN]
  /\ ends \in 0 .. MaxEnds

\* A worker that runs is registered as online, also after a restart under the id
\* of an earlier life.  The exception is a process that shares its id with one
\* that was shut down: it stays offline although it claims work, since a heartbeat
\* does not repair it.
RunningIsOnline ==
  \A p \in Proc : stage[p] # "down" => entry[IdOf[p]].status = "online" \/ orphaned[p]
=============================================================================
