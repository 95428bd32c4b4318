----------------------------- MODULE AdapterClient -----------------------------
(***************************************************************************)
(* The clients of the engine and the adapters deployed on tasks                 *)
(* (services/llm_service.py, services/llama_server.py, lib/llm/config.py): the  *)
(* engine loads the adapters that are deployed when it starts, a worker caches   *)
(* one client per adapter, and every request cites the number the adapter had    *)
(* when its client was built.                                                   *)
(*                                                                         *)
(* One worker that runs one execution after the other; all tasks use one model  *)
(* and one scale.  Tasks are numbered in their order in deployments.json, and    *)
(* engines in the order they are started.                                       *)
(***************************************************************************)
EXTENDS Naturals, FiniteSets, Sequences, Functions

CONSTANTS Tasks,       \* how many tasks there are
          Adapter,     \* adapters, as absolute paths
          None,        \* no adapter, and no number of one
          FileName,    \* the last part of each path
          OnDisk,      \* the paths that name a file
          OwnAdapter,  \* what the entry of each task in tasks.json names
          MaxChanges   \* bound on deployments and restarts

Task == 1 .. Tasks

AdapterClientAssumption ==
  /\ Tasks \in Nat
  /\ None \notin Adapter /\ None \notin 0 .. Tasks /\ OnDisk \subseteq Adapter
  /\ OwnAdapter \in [Task -> Adapter \cup {None}]
  /\ DOMAIN FileName = Adapter /\ MaxChanges \in Nat

VARIABLES deployed,    \* deployments.json
          engine,      \* the engine: its number, whether it runs, what it has loaded
          client,      \* _llm_cache, by adapter
          execution,   \* how far the worker is with an execution, and its adapter
          reply,       \* the last answer to a request of this execution
          changes

clientVars == <<deployed, engine, client, execution, reply, changes>>

NoClient == [known |-> FALSE, id |-> None, engine |-> 0]
NoReply  == [wanted |-> None, got |-> None, loaded |-> <<>>, replaced |-> FALSE]
Waiting  == [at |-> "idle", adapter |-> None]

Init ==
  /\ deployed = [t \in Task |-> None]
  /\ engine = [number |-> 0, up |-> FALSE, loaded |-> <<>>]
  /\ client = [a \in Adapter \cup {None} |-> NoClient]
  /\ execution = Waiting
  /\ reply = NoReply
  /\ changes = 0

\* get_task_config: the entry of the task, with the adapter deployed on it.
TaskConfig(t) == [lora_path |-> deployed[t], lora_model |-> OwnAdapter[t]]

\* llm_params_for: the path comes before the name of the entry.
LoraOf(config) == IF config.lora_path # None THEN config.lora_path ELSE config.lora_model

\* _deployed_adapters: each path once, without those that name no file, in the
\* order of the first task each is deployed on.
Deployed == {deployed[t] : t \in Task} \cap OnDisk
Precedes(a, b) == \E t \in Task : deployed[t] = a /\ \A u \in Task : deployed[u] = b => t < u
DeployedAdapters ==
  {paths \in [1 .. Cardinality(Deployed) -> Deployed] :
     \A i, k \in DOMAIN paths : i < k => Precedes(paths[i], paths[k])}

\* Mutant of LoraAdapterId: the adapters are counted from the last.
IdFromTheLast(loaded, a) ==
  LET places == {i \in DOMAIN loaded : FileName[loaded[i]] = FileName[a]}
  IN  IF places = {} THEN None ELSE Len(loaded) - (CHOOSE i \in places : \A k \in places : i <= k)

\* lora_adapter_id: the first adapter with this path, or with its file name.
LoraAdapterId(loaded, a) ==
  LET places == {i \in DOMAIN loaded : FileName[loaded[i]] = FileName[a]}
  IN  IF places = {} THEN None ELSE (CHOOSE i \in places : \A k \in places : i <= k) - 1

-----------------------------------------------------------------------------
(* An execution of the worker *)

At(place) == execution.at = place
Goto(place) == execution' = [execution EXCEPT !.at = place]
Gone == execution' = Waiting
Adapted == execution.adapter
Known == client[Adapted]

\* The configuration of the task is read when its execution begins.
Begin(t) ==
  /\ At("idle")
  /\ execution' = [at |-> "params", adapter |-> LoraOf(TaskConfig(t))]
  /\ reply' = NoReply
  /\ UNCHANGED <<deployed, engine, client, changes>>

Start ==
  \E paths \in DeployedAdapters :
    engine' = [number |-> engine.number + 1, up |-> TRUE, loaded |-> paths]

\* get_llm_service: a client from the cache asks nothing; a new one ensures that
\* there is an engine.
GetClient ==
  /\ At("params")
  /\ IF Known.known
     THEN Goto("request") /\ UNCHANGED engine
     ELSE Goto("resolve") /\ IF engine.up THEN UNCHANGED engine ELSE Start
  /\ UNCHANGED <<deployed, client, reply, changes>>

\* The number the engine has given the adapter, which is asked for only now.
Resolve ==
  /\ At("resolve")
  /\ Adapted # None => engine.up /\ LoraAdapterId(engine.loaded, Adapted) # None
  /\ client' = [client EXCEPT ![Adapted] =
                  [known |-> TRUE, engine |-> engine.number,
                   id |-> IF Adapted = None THEN None ELSE LoraAdapterId(engine.loaded, Adapted)]]
  /\ Goto("request")
  /\ UNCHANGED <<deployed, engine, reply, changes>>

\* The engine has not got the adapter, or does not say: no client is built.
NotLoaded ==
  /\ At("resolve")
  /\ Adapted # None
  /\ Gone
  /\ UNCHANGED <<deployed, engine, client, reply, changes>>

\* The engine applies the adapter with the number the request cites.
Served == engine.up /\ (Known.id # None => Known.id < Len(engine.loaded))
Applied == IF Known.id = None THEN None ELSE engine.loaded[Known.id + 1]

\* Mutant of Cite: an adapter is applied to the engine once, for everybody.
CiteOnce ==
  reply' = [wanted |-> Adapted, loaded |-> engine.loaded,
            got |-> IF engine.loaded = <<>> THEN None ELSE engine.loaded[Len(engine.loaded)],
            replaced |-> Known.engine # engine.number]

\* _lora_field: every request cites the number, and a task without one cites none.
Cite ==
  reply' = [wanted |-> Adapted, got |-> Applied, loaded |-> engine.loaded,
            replaced |-> Known.engine # engine.number]

\* generate, chat, chat_with_tools and chat_stream.
Request ==
  /\ At("request")
  /\ Served
  /\ Cite
  /\ UNCHANGED <<deployed, engine, client, execution, changes>>

\* The execution is over, or a request of it raises: nobody answers in time, or the
\* engine has no such number.  `ask` makes another request before it gives up.
End ==
  /\ At("request")
  /\ Gone
  /\ UNCHANGED <<deployed, engine, client, reply, changes>>

-----------------------------------------------------------------------------
(* What changes around it *)

Changes == changes < MaxChanges /\ changes' = changes + 1

\* Deploying an adapter is an interactive action, as is taking it back.
Deploy(t, a) ==
  /\ deployed[t] # a
  /\ deployed' = [deployed EXCEPT ![t] = a]
  /\ Changes
  /\ UNCHANGED <<engine, client, execution, reply>>

\* manage llama restart
EngineRestarts ==
  /\ engine.up
  /\ Start
  /\ Changes
  /\ UNCHANGED <<deployed, client, execution, reply>>

EngineEnds ==
  /\ engine.up
  /\ engine' = [engine EXCEPT !.up = FALSE, !.loaded = <<>>]
  /\ Changes
  /\ UNCHANGED <<deployed, client, execution, reply>>

\* The cache is a global of the process: only a new process begins without it.
WorkerRestarts ==
  /\ client' = [a \in Adapter \cup {None} |-> NoClient]
  /\ Gone
  /\ reply' = NoReply
  /\ Changes
  /\ UNCHANGED <<deployed, engine>>

-----------------------------------------------------------------------------
ClientStep ==
  \/ \E t \in Task : Begin(t)
  \/ GetClient \/ Resolve \/ NotLoaded \/ Request \/ End
  \/ \E t \in Task, a \in Adapter \cup {None} : Deploy(t, a)
  \/ EngineRestarts \/ EngineEnds \/ WorkerRestarts

Spec == Init /\ [][ClientStep]_clientVars

-----------------------------------------------------------------------------
(* Properties *)

MaybeAdapter == Adapter \cup {None}
MaybeId == (0 .. Tasks) \cup {None}

TypeOK ==
  /\ deployed \in [Task -> MaybeAdapter]
  /\ engine.number \in Nat /\ engine.up \in BOOLEAN
  /\ engine.loaded \in Seq(OnDisk) /\ IsInjective(engine.loaded)
  /\ client \in [MaybeAdapter -> [known : BOOLEAN, id : MaybeId, engine : 0 .. engine.number]]
  /\ execution \in [at : {"idle", "params", "resolve", "request"}, adapter : MaybeAdapter]
  /\ {reply.wanted, reply.got} \subseteq MaybeAdapter
  /\ changes \in 0 .. MaxChanges

\* A task with an adapter is never answered by the plain model, nor one without by
\* an adapter; and the adapter is the task's own, unless the engine was replaced
\* since the client was built or has loaded another of the same file name.
AdapterIsTheTasks ==
  /\ reply.wanted = None <=> reply.got = None
  /\ \/ reply.got = reply.wanted
     \/ reply.replaced
     \/ \E i \in DOMAIN reply.loaded :
          reply.loaded[i] # reply.wanted /\ FileName[reply.loaded[i]] = FileName[reply.wanted]
=============================================================================
