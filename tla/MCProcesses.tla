----------------------------- MODULE MCProcesses -----------------------------
(* One instance each of the processes around the queue, of the stores that executions
   write and of the texts that are sent while they come into being: `part` says which
   of them a behaviour is about, and the others stay as they are. *)
EXTENDS Naturals, FiniteSets, Sequences

CONSTANTS Worker, NoWorker, Tool, UnknownTool, MaxSteps, MaxMishaps,
          Process, Manager, Caller, Home, MaxServers, MaxPolls, MaxFaults,
          Proc, Id, IdOf, MaxEnds,
          Workers,
          Tasks, Adapter, None, FileName, OnDisk, OwnAdapter, MaxChanges,
          Ingester, Document, Memory, Parts, MaxJobs, MaxStoreFaults,
          Entity, Unknown, Predicate, Confidence, Chunk, Answers, MaxModifies,
          MaxLength, MaxPiece, Quarter, MaxFrames

VARIABLES part,
          row, issued, pc, job, told, mishaps,
          server, port, child, readyUrl, lock, call, polls, process, registered, faults, late,
          entry, stage, beating, broken, orphaned, ends,
          worker, procs, supervisor, stopRequested,
          deployed, engine, client, execution, reply, changes,
          chunks, busy, newest, jobs, storeFaults,
          answered, failed, found, at, toWrite, merged, result, nodes, edges,
          enabled, modifies, touched, renamed,
          raw, visible, inThink, heldBack, feeding, buf, cutAt,
          inbox, sent, buffer, sinceLastRun, stableText, windowText, running,
          partials, final, open

Agent    == INSTANCE AgentStep
Engine   == INSTANCE LlamaServer
Registry == INSTANCE WorkerRegistry
Pool     == INSTANCE VoicePool
Client   == INSTANCE AdapterClient
Store    == INSTANCE VectorStore
Graph    == INSTANCE RelationshipGraph
Think    == INSTANCE ThinkFilter
Session  == INSTANCE VoiceSession

ASSUME ProcessesAssumption ==
  /\ Agent!AgentStepAssumption /\ Engine!LlamaServerAssumption
  /\ Registry!WorkerRegistryAssumption /\ Pool!VoicePoolAssumption
  /\ Client!AdapterClientAssumption
  /\ Store!VectorStoreAssumption /\ Graph!RelationshipGraphAssumption
  /\ Think!ThinkFilterAssumption /\ Session!VoiceSessionAssumption

agentVars == <<row, issued, pc, job, told, mishaps>>
engineVars == <<server, port, child, readyUrl, lock, call, polls, process, registered,
                faults, late>>
registryVars == <<entry, stage, beating, broken, orphaned, ends>>
poolVars == <<worker, procs, supervisor, stopRequested>>
clientVars == <<deployed, engine, client, execution, reply, changes>>
storeVars  == <<chunks, busy, newest, jobs, storeFaults>>
graphVars  == <<answered, failed, found, at, toWrite, merged, result, nodes, edges,
                enabled, modifies, touched, renamed>>
thinkVars  == <<raw, visible, inThink, heldBack, feeding, buf, cutAt>>
sessionVars == <<inbox, sent, buffer, sinceLastRun, stableText, windowText, running,
                 partials, final, open>>
vars == <<part, agentVars, engineVars, registryVars, poolVars, clientVars, storeVars, graphVars,
          thinkVars, sessionVars>>

\* Callers are the threads of one worker; the first two processes share an id; two
\* adapters share a file name, and the second task names one of them in tasks.json.
MCHome == [c \in Caller |-> CHOOSE p \in Process : TRUE]
MCIdOf == [p \in Proc |-> IF p = "p3" THEN "i2" ELSE "i1"]
MCFileName == [a \in Adapter |-> IF a \in {"a", "copy of a"} THEN "a" ELSE a]
MCOwnAdapter == [t \in 1 .. Tasks |-> IF t = 2 THEN "b" ELSE None]
Said(s, p, o, c) == [subject |-> s, predicate |-> p, object |-> o, confidence |-> c]
MCAnswers ==
  SUBSET {Said("a", "p", "b", 1), Said("a", "p", "b", 2), Said("b", "q", "a", 1)}
  \cup {{Said("a", "p", "a", 2), Said("a", "q", "x", 2), Said("a", "q", "b", 2)}}

Init ==
  /\ part \in {"agent", "engine", "registry", "pool", "client", "store", "graph", "think",
              "session"}
  /\ Agent!Init /\ Engine!Init /\ Registry!Init /\ Pool!Init /\ Client!Init
  /\ Store!Init /\ Graph!Init /\ Think!Init /\ Session!Init
  /\ part # "graph" => enabled

AgentPart ==
  /\ part = "agent" /\ Agent!Next
  /\ UNCHANGED <<part, engineVars, registryVars, poolVars, clientVars, storeVars, graphVars,
                 thinkVars, sessionVars>>

EnginePart ==
  /\ part = "engine" /\ Engine!EngineStep
  /\ UNCHANGED <<part, agentVars, registryVars, poolVars, clientVars, storeVars, graphVars,
                 thinkVars, sessionVars>>

RegistryPart ==
  /\ part = "registry" /\ Registry!RegistryStep
  /\ UNCHANGED <<part, agentVars, engineVars, poolVars, clientVars, storeVars, graphVars,
                 thinkVars, sessionVars>>

PoolPart ==
  /\ part = "pool" /\ Pool!PoolStep
  /\ UNCHANGED <<part, agentVars, engineVars, registryVars, clientVars, storeVars, graphVars,
                 thinkVars, sessionVars>>

ClientPart ==
  /\ part = "client" /\ Client!ClientStep
  /\ UNCHANGED <<part, agentVars, engineVars, registryVars, poolVars, storeVars, graphVars,
                 thinkVars, sessionVars>>

StorePart ==
  /\ part = "store" /\ Store!StoreStep
  /\ UNCHANGED <<part, agentVars, engineVars, registryVars, poolVars, clientVars, graphVars,
                 thinkVars, sessionVars>>

GraphPart ==
  /\ part = "graph" /\ Graph!GraphStep
  /\ UNCHANGED <<part, agentVars, engineVars, registryVars, poolVars, clientVars, storeVars,
                 thinkVars, sessionVars>>

ThinkPart ==
  /\ part = "think" /\ Think!ThinkStep
  /\ UNCHANGED <<part, agentVars, engineVars, registryVars, poolVars, clientVars, storeVars,
                 graphVars, sessionVars>>

SessionPart ==
  /\ part = "session" /\ Session!SessionStep
  /\ UNCHANGED <<part, agentVars, engineVars, registryVars, poolVars, clientVars, storeVars,
                 graphVars, thinkVars>>

Next ==
  \/ AgentPart \/ EnginePart \/ RegistryPart \/ PoolPart \/ ClientPart
  \/ StorePart \/ GraphPart \/ ThinkPart \/ SessionPart

\* The fairness of AgentStep and LlamaServer, each in the behaviours it is about.
Fairness ==
  /\ \A w \in Worker : WF_agentVars(part = "agent" /\ Agent!WorkerStep(w))
  /\ \A c \in Caller :
       /\ WF_engineVars(part = "engine" /\ Engine!EnsureStep(c))
       /\ SF_engineVars(part = "engine" /\ Engine!Lock(c))

Spec == Init /\ [][Next]_vars /\ Fairness

\* The states of each process are what its module says they are.
TypeOK ==
  /\ Agent!TypeOK /\ Engine!TypeOK /\ Registry!TypeOK /\ Pool!TypeOK /\ Client!TypeOK
  /\ Store!TypeOK /\ Graph!TypeOK /\ Think!TypeOK /\ Session!TypeOK

\* The transcript of an agent is the history of the steps that counted, and its
\* parent is told of the end only when there is one (agent/loop.py).
StepsCountOnce == [][Agent!KeepsHistory]_vars /\ []Agent!ToldOfTheEnd

\* An agent's budget ends it, and a call for the engine returns or raises.
CallsEnd ==
  /\ <>(part # "agent" \/ Agent!HasEnded)
  /\ \A c \in Caller : call[c] = "lock" ~> Engine!Returned(c)

\* Every llama-server that runs can be stopped by the process that started it, and
\* answers a task with the task's own adapter (services/llama_server.py, llm_service.py).
EngineIsKnown == Engine!EngineIsOwned /\ Client!AdapterIsTheTasks

\* A worker that runs is registered as online, and a voice worker that runs is in
\* the list of the supervisor that will collect it.
WorkersAreAccountedFor == Registry!RunningIsOnline /\ Pool!PoolIsCollected

\* The vector tables hold what the newest execution of each source wrote
\* (database/rag.py, tasks/ingest, tasks/indexed_file, tasks/memory).
VectorsInSync == Store!VectorsInSync

\* The graph, where there is one, holds what an extraction returned, each triple once
\* (tasks/relationship_extraction, database/graph_db.py).
GraphIsWhatWasFound == Graph!ReturnedIsStored /\ Graph!OneEdgePerTriple

\* The streamed reply is the text outside the reasoning blocks, in its order
\* (lib/backend/stream.py).
UserSeesTheText == Think!ShowsWhatIsOutside

\* The live transcript repeats no audio (voice/live_worker.py).
TranscriptRepeatsNothing == Session!TextsDoNotRepeat
=============================================================================
