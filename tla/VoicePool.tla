------------------------------ MODULE VoicePool ------------------------------
(***************************************************************************)
(* The supervisor of the voice workers (voice/run_pool.py): one process per      *)
(* port, watched until a signal or until all have ended.                        *)
(***************************************************************************)
EXTENDS Naturals

CONSTANT Workers   \* --workers

VoicePoolAssumption == Workers \in Nat \ {0}

VARIABLES worker,         \* by port: "new", "up", "signalled" or "gone"
          procs,          \* the ports in the supervisor's list, which is in their order
          supervisor,     \* "spawning", "watching", "stopping", "ended" or "killed"
          stopRequested

poolVars == <<worker, procs, supervisor, stopRequested>>

Ports == 1 .. Workers
InPool(p) == worker[p] \in {"up", "signalled"}

Init ==
  /\ worker = [p \in Ports |-> "new"]
  /\ procs = {}
  /\ supervisor = "spawning"
  /\ stopRequested = FALSE

SpawnWorker ==
  /\ supervisor = "spawning"
  /\ \E p \in Ports \ procs :
       /\ \A q \in Ports : q < p => q \in procs
       /\ worker' = [worker EXCEPT ![p] = "up"]
       /\ procs' = procs \cup {p}
  /\ UNCHANGED <<supervisor, stopRequested>>

\* The handlers are installed when every worker has been spawned.
Supervise ==
  /\ supervisor = "spawning"
  /\ procs = Ports
  /\ supervisor' = "watching"
  /\ UNCHANGED <<worker, procs, stopRequested>>

\* Mutant of Watched: the dead are kept and the living dropped.
WatchedDead == {p \in procs : ~ InPool(p)}

Watched == {p \in procs : InPool(p)}

\* A round of the loop; it ends without workers or after a signal.
Watch ==
  /\ supervisor = "watching"
  /\ IF procs # {} /\ ~stopRequested
     THEN procs' = Watched /\ UNCHANGED supervisor
     ELSE supervisor' = "stopping" /\ UNCHANGED procs
  /\ UNCHANGED <<worker, stopRequested>>

\* _forward passes the signal on; before it is installed a signal ends the supervisor.
Signal ==
  /\ supervisor \in {"spawning", "watching"}
  /\ IF supervisor = "spawning"
     THEN supervisor' = "killed" /\ UNCHANGED <<worker, stopRequested>>
     ELSE /\ stopRequested' = TRUE
          /\ worker' = [p \in Ports |-> IF worker[p] = "up" /\ p \in procs
                                        THEN "signalled" ELSE worker[p]]
          /\ UNCHANGED supervisor
  /\ UNCHANGED procs

\* Each worker that is left is waited for, and killed if it does not end in time.
Collect ==
  /\ supervisor = "stopping"
  /\ \/ procs = {} /\ supervisor' = "ended" /\ UNCHANGED <<worker, procs>>
     \/ \E p \in procs :
          /\ \A q \in procs : p <= q
          /\ worker' = [worker EXCEPT ![p] = "gone"]
          /\ procs' = procs \ {p}
          /\ UNCHANGED supervisor
  /\ UNCHANGED stopRequested

WorkerEnds(p) ==
  /\ InPool(p)
  /\ worker' = [worker EXCEPT ![p] = "gone"]
  /\ UNCHANGED <<procs, supervisor, stopRequested>>

PoolStep ==
  \/ SpawnWorker \/ Supervise \/ Watch \/ Signal \/ Collect
  \/ \E p \in Ports : WorkerEnds(p)

Spec == Init /\ [][PoolStep]_poolVars

-----------------------------------------------------------------------------
TypeOK ==
  /\ worker \in [Ports -> {"new", "up", "signalled", "gone"}]
  /\ procs \subseteq Ports
  /\ supervisor \in {"spawning", "watching", "stopping", "ended", "killed"}
  /\ stopRequested \in BOOLEAN

\* No worker outlives a supervisor that has ended in order, and each port is held
\* by a worker the supervisor still has in its list.
PoolIsCollected ==
  /\ supervisor = "ended" => \A p \in Ports : ~InPool(p)
  /\ supervisor # "killed" => \A p \in Ports : InPool(p) => p \in procs
=============================================================================
