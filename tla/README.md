# Verification of documents-models

`documents-models` is a background worker: one or more processes poll a PostgreSQL table of
executions, claim them, run the AI task each describes and write the result back. This directory
holds TLA+ models of the worker, the TLC configurations that check them on small instances, and
proofs, checked by TLAPS, of the properties that matter most. Source paths are relative to `src/`.

## 1. Inventory

| Component | State it keeps | Operations | What is hard | What makes it correct |
|---|---|---|---|---|
| **Execution queue** `database/execution.py` | one row per execution: `status`, `phase`, `claimed_by`, `attempt_id`, `result`, `checkpoint`, `step` | `claim_pending_execution`, `update_execution_status`, `update_execution_result`, `update_agent_progress`, `update_agent_state`, `wake_waiting_execution` | many workers; a worker presumed dead still writes; crash between two statements; `update_*` report False and are only logged | an execution runs in one worker; late writes are fenced off; what is handed over is what its attempt computed; background work yields but is served |
| **Worker loop** `executions.py` | nothing but the job at hand | poll, process, exit on SIGTERM | `sys.exit` in the middle of a handler; crash | a claimed execution does not stay claimed |
| **Dispatcher** `utils/process_execution.py` | – | run the handler, store, finalize, tell the parent | several transactions per outcome | the parent is told once, after the child's end is durable |
| **Map-reduce fan-out** `lib/llm/map_reduce.py`, `resume_parent_with_child` | the parent's checkpoint: children waited for, results, retries, `failed_idx` | plan, enqueue, suspend, integrate, retry, merge, plan again | children run while the parent still enqueues; read-change-write of the checkpoint with no lock; unfenced wake-up | merge after all children; every report counts once; retries are bounded; every plan ends |
| **Event log** `_append_event` | `execution_events`, `last_sequence` and `last_event_id` on the root's row | append, inside every transition | transactions on different rows of one tree | dense, causal, complete history; a root that ended alone ends the log; no deadlock |
| **Agent steps** `agent/loop.py` | `checkpoint` (transcript), `step` | one model call and at most one tool call per claim | repeated decisions, step budget, forced finish | the budget ends every agent |
| **Conversational agent loop** `agents/loop.py`, `lib/framework`, `tasks/assistant_chat`, `tasks/agent_chat` | messages, completed operations, a pending card, the round | model call, repair, tool batch, closing call, partial answer, final message, memory | a batch stopped half way, a flush that fails at any point, a subagent run twice | the conversation stays answered, nothing acts before it is on record, a partial answer tells the truth |
| **Telemetry** `lib/execution/emitter.py`, `ingest_client.py` | buffers of artifacts and events, the last event, one connection | build, flush, reserve, ask for a grant | an answer lost after the batch was stored, a request served after its client gave up, a flush that fails half way | the backend's log is ordered and causal, nothing is lost, decisions are informed |
| **Worker registry** `worker/identity.py`, `executions.py` | row in `workers`, `.worker_id` file, heartbeat thread | register, beat, reconnect, deregister | a reconnect that fails ends the thread; two processes with one id | a worker that runs is registered as online |
| **Inference engine** `services/llama_server.py` | `_child`, `_ready_url` of each process, one port | `ensure_server`, `_spawn`, `stop` | threads and processes race to start; the engine dies; an answer that comes too late | a call ends; every engine a process started is stopped by it |
| **LLM clients** `services/llm_service.py`, `lib/llm/config.py` | cache of clients with url and adapter id, `deployments.json` | get a client, resolve the adapter, cite it in a request | engine restarted, deployments changed, equal file names | a request runs with the task's own adapter |
| **Replies** `lib/llm/json.py`, `agents/memory_agent` | – | find the JSON in a reply, ask again, validate | brackets in strings, prose around, ids made up | what is read is what the model said |
| **Streaming** `lib/backend/stream.py` | filter state, held back text | feed a piece, flush | a tag split over pieces, the tail of the stream | no reasoning is shown, no answer text is lost |
| **Voice workers** `voice/*` | pool of processes; one session per worker: inbox, buffer, windows, texts | spawn, supervise, forward a signal; frames, partial and final texts | a member ends; frames arrive while a window is transcribed | no worker is left over; the transcript repeats no audio |
| **Text chunking, unit filters** `lib/llm/text.py`, `unit_filters.py`, `relevance.py`, `services/*` | – | split, pack, overlap, filter, ask the model which units count | texts without separators, documents taken for HTML, filters that drop everything, a reply that cannot be read | what is read of a document is in its chunks, once and in order; a filter drops for a reason |
| **Vector store** `database/rag.py`, `tasks/ingest`, `indexed_file`, `memory` | chunks by source | delete, insert, replace | two executions for one source; a statement that fails between the delete and the insert | the newest ingestion is what is found |
| **Relationship graph** `tasks/relationship_*`, `database/graph_db.py` | nodes, edges | extract per chunk, merge, persist, modify | statements committed one by one, a failing chunk | what was returned is stored, each triple once, if there is a graph |
| **Document tasks** `tasks/dates`, `keywords`, `entities`, `key_points`, `dataset_extraction`, `translate` | – | what the replies for the chunks become: locate, resolve, merge, refine, normalise | chunk offsets, repeats, a model that gives everything back | results are what the document and the replies justify |
| **Contract** `contracts/execution/v1/validate.py` | – | check a bundle of events | – | order, causes, one terminal state |
| **Other task handlers**, **tools**, **configuration** | – | pure functions, single HTTP calls, start-up reads | – | not modelled, see section 7 |

Workers interact only through the database: the rows are the shared state, and row locks and the
attempt id are the only synchronisation. The backend creates the root executions, finalizes
those in phase `backend_finalization`, and may cancel or requeue; it is not in this repository and
is modelled as an environment.

## 2. Modules

| Module | Models | Notes |
|---|---|---|
| `ExecutionRow` | the columns a claim touches and the UPDATEs on them | pure operators, shared by the next two |
| `ExecutionQueue` | poll, claim, handler, store, release, mishaps, backend | `row[e]` is the row, `pc[w]`/`job[w]` the local state of a worker between two transactions |
| `Lease` | what claims with attempt ids promise | abstract; `ExecutionQueue` implements it (`ImplementsLease`) |
| `ExecutionQueue_proofs` | – | TLAPS proofs, section 6 |
| `FanOut_proofs` | – | TLAPS proofs: for any workers, and for the one-worker deployment |
| `FanOut` | a parent, its children, and the workers that run them and report | one action per transaction; `job[w].seen` is the copy of the checkpoint a worker works with |
| `MapReduce` | what a fan-out promises | abstract; `FanOut` with one worker implements it (`ImplementsMapReduce`) |
| `EventLog` | `_append_event` and the transactions around it | one action per lock or read; a transaction's writes appear at its commit |
| `Evidence` | the emitter of one handler run, the client that posts for it, and the backend's log | one action per operation of the handler and per outcome of a post; checked as it is, without an MC module |
| `Evidence_proofs` | – | TLAPS proofs, section 6 |
| `AgentLoop` | one chat turn, or one subagent's run: the handler, the loop, the model and tool calls | one action per outcome of a model call or a tool call; checked as it is |
| `AgentLoop_proofs` | – | TLAPS proofs, section 6 |
| `EventLog_proofs` | – | TLAPS proofs, section 6 |
| `BundleContract` | the rules of `validate.py` about order, causes, histories and the terminal state | pure operators; `EventLog` is shown to meet them (`LogMeetsContract`), the last one for a root that ended alone |
| `AgentStep` | an execution-bound agent: claim, `run_one_step`, the writes after it, what the parent is told | extends `ExecutionRow`; a step number and a transcript are added to the row |
| `LlamaServer` | `ensure_server` and what it starts, with threads, a manager, deaths, late answers | servers are numbered; `port` is the one that holds the port |
| `AdapterClient` | the cached clients, the adapters an engine has loaded, what a request cites | an engine knows its adapters by position, as llama-server does |
| `WorkerRegistry` | the `workers` table and the processes that write it | one action per statement |
| `VoicePool` | `run_pool.py`: the supervisor and its workers | |
| `VectorStore` | the tables of vectors and the executions that write them | one action per statement; sources are documents, files or memories |
| `RelationshipGraph` | extraction, merge, persistence, modification of a graph | one action per chunk and per statement; `enabled` says whether there is a graph |
| `ThinkFilter` | the filter of `stream.py` | one action per round of the loop of `feed`; `raw` is what the model sent, `visible` what the user was shown |
| `VoiceSession` | one session of `live_worker.py` | a text is the sequence of transcripts it was put together from, each the number of frames it covers |
| `MCProcesses` | composes the nine above | `part` says which of them a behaviour is about; the others stutter |
| `MCProcesses_proofs` | – | TLAPS proofs, section 6: all nine parts |
| `Chunking`, `UnitFilters` | how a document is cut and which units are kept | pure operators |
| `Dates`, `Lists`, `DatasetExtraction`, `Translation`, `Replies` | what the document tasks make of replies; `Lists` is keywords, entities and key points | pure operators, each with its reference definition |
| `DocumentTexts` | `Chunking`, `UnitFilters` and `Dates` of one document | what `DocumentTexts_proofs` is about |
| `MCDocuments` | `DocumentTexts` and the tasks on lists, tables, items and replies | a "task" is one call of pure operators on the input `given` |
| `DocumentTexts_proofs`, `MCDocuments_proofs` | – | TLAPS proofs, section 6 |
| `MCExecutionQueue`, `MCFanOut`, `MCEventLog` | instances for TLC | priorities, supported tasks, the tree, symmetry |

A module that is part of another one states what it needs of its constants as `<Module>Assumption`;
`MCProcesses` and `MCDocuments` ASSUME these.

How the queue corresponds to the code: `CheckBackground` is `_is_background_eligible`, `SelectRow`
the `SELECT ... FOR UPDATE SKIP LOCKED`, `CommitClaim` the UPDATE and commit. The claim is split
there because eligibility is read in an earlier statement and because another worker may poll while
the lock is held (`Locked`). `HandlerEnds` is the handler, which holds no transaction; `StoreResult`,
`StoreCheckpoint` and `Release` are the fenced writes after it, `Fenced` their other outcome, and
`StatementFails` an exception in any of them, which the methods of `Execution` swallow.

How the fan-out corresponds to the code: `Enqueue` runs once per chunk, `Save` and `Suspend` are the
two fenced writes of lines 356-358 of the dispatcher; a child's report is `Report` (the first read of
the parent, `_maybe_resume_parent`), `Integrate` (the second read, `resume_parent_with_child`),
`Retry`, `Record` (the unfenced write back) and `WakeParent`; `Restore` and `WakeParent` are what the
single-child path does to a parent that does not wait for the child. Planning may raise, which fails the
execution, or return an error as its result (`Planning`, `PlanningFails`). A statement that raises is
swallowed (`StatementFails`), unless there is no connection to begin with: then a status cannot be
written, and the dispatcher's `except` marks the execution failed (`NoConnection`), or the child cannot
be read back, and the code goes on with `{}` for its result, which is `Blank` here (`ChildUnread`).

How the evidence corresponds to the code: the n-th event is the number n (its `producerSequence`), and
the buffers are what was made and not yet flushed, so `del pending[:len(batch)]` moves `flushedEvents`.
`Build` is `record_artifact` as often as the caller needs (at most twice), then `emit`;
`RecordProgressPolicy` restores `last_event_id` afterwards. `Reserve` is a flush followed by the post
of `reserve_operation_budget`; `RequestGrant` posts at once, as `request_progress_grant` does. A post
ends in `Answered`, `Unanswered` (a timeout or a broken connection, tried twice; the request may still
`Arrive`) or `Refused` (a status of 400 or more, not tried again); when it raises, the buffers keep
the batch and a later flush sends it again, perhaps with more in it. What the backend does with a
request (`Serve`, `Learn`) is not in this repository: that it stores an event once by its id and
answers a repeated batch as duplicates is read off the client, which adds `duplicates` to what was
accepted.

How the loop corresponds to the code: `pc` is the place in `run_agent_loop` or in the handler, `purpose`
the `inference_name` of the model call it is about to make. `Start` is `ProgressLoopContext.start`;
`NextRound` the head of the `for`, `BeginInference` and `ModelAnswers` or `ModelFails` are
`_begin_inference` and `_finish_inference` around the request, `Answered` says what the loop does with
the answer. `StartTool`, `ToolReturns` and `ToolRaises` are a tool call with its records and flushes,
`ToolDenied`, `ToolBlocked` and `LoopDetected` the three refusals of `start_tool`. `Close` and
`WithoutModel` are the end of the loop. `Raise` is where an exception lands: swallowed by
`_coerce_output` or `extract_memory_action`, caught by `run_as_tool`, which runs the loop once more on
the same messages, or by the handler's `except`. Of the emitter only `facts` and `durable` are kept:
`Evidence` shows that what the backend has is a prefix of what was emitted. A subagent that runs inside
a turn is one operation of that turn; its own run is checked separately (`kind = "sub"`).

How the agent steps correspond to the code: `Step` is `run_one_step` up to its first write (the model
and the tool hold no transaction), `StoreProgress` and `Requeue` the two fenced writes of a step that
goes on, `StoreResult` and `HandOver` those of `_finalize`, `Ask` the look at the row with which
`process_execution` decides whether the parent is told, `Fail` its `except`.

How the processes correspond to the code: a call of `ensure_server` is `Ensure` (the way out without
the lock), `Lock`, `Recheck`, `Spawn`, then `PollChild` and `Probe` in turn until `StartupTimeout`;
`Stopped` is `stop`, run by a timeout and by `atexit`, which knows of the engine only after
`Register`. In `AdapterClient` an execution reads the configuration of its task (`Begin`), gets its client
(`GetClient`, which starts the engine only when the cache has none), asks the engine for the number of its
adapter (`Resolve`, `NotLoaded`), and every `Request` cites the number the client keeps; `Deploy`,
`EngineRestarts` and `EngineEnds` change the deployments and the engine.
`StartHeartbeat` comes before the signal handlers in `executions.py`, so `Killed` from "registered" is
a signal as well as a crash. In `VoicePool` the handlers come after the last spawn.

How the documents correspond to the code: an execution of `VectorStore` deletes the vectors of its source in
one transaction and inserts its chunks in another, and either may fail; `upsert_points` swallows its
failure. `RelationshipGraph` answers a chunk with any set of claims of `Answers` or an exception, merges,
and then writes node by node and edge by edge, each statement committed alone; without a graph it returns
what it found and writes nothing. `ThinkFilter` is fed pieces of symbols (`Feed`); a tag is two symbols, so
that a piece may end inside one, and each way through the `while` of `feed` is an action: `LeavesBlock` and
`StaysInBlock` in a reasoning block, `EntersBlock` and `LetsThrough` outside, `Returns` when the buffer is
used up. In `VoiceSession` a window is transcribed (`Transcribed`, `NotDecoded`) outside the event loop
while frames go on arriving in the inbox. A text of `Chunking` is a sequence of words, each with the
separator after it, which is all the recursive split looks at; a document is the blocks of its lines and, if
a `<` and a `>` make the code take it for HTML, the elements the parser finds, each with all of the text
inside it, and what is outside of them. `Offsets` of `Dates` looks for a chunk by its first `HeadLength`
words (200 characters in the code). An expression of `Dates` is a sequence of words that mean a day,
something relative, something else or a price; a candidate of `Lists` is a key with a capital letter or not.
What language and embedding models answer is an input, drawn from sets that hold an obedient answer, wrong
ones, useless ones and none; what refines key points may reply with any lines, shorter, longer or made up,
and each use of the embedding service may find it down.

Definitions named in a comment "Mutant of ..." are deliberate faults: each property was checked to
fail when the definition is replaced by its mutant. They are part of no specification.

## 3. Runs

| Run | Question | Instance | Result |
|---|---|---|---|
| `queue_safety` | do claims, fences and hand-over hold up, and implement the lease | 2 workers; a background task older than a normal execution that may do everything; 1 turn; 3 mishaps | passes, 0.7 million states |
| `queue_liveness` | is everything released and served | 2 workers, 3 executions, one of them supported by nobody; no mishaps | passes |
| `queue_dead_worker` | is a dead worker's execution requeued, as the README says | 1 execution, 1 mishap | **violated** |
| `fanout_alone` | does the fan-out keep its promise when nothing races | 1 worker, 2 chunks, 1 retry, 3 plans, 12 children | passes |
| `fanout_races` | what survives every race | 2 workers, 2 chunks, 1 retry, 2 plans, 3 children, 1 mishap | passes |
| `fanout_early_merge` | does a merge wait for the children | 2 workers, 2 chunks, no mishap | **violated** |
| `fanout_lost_report` | is a suspended parent resumed | 2 workers, 1 plan, no mishap | **violated** |
| `event_log` | does the log of a tree meet the contract and tell each history; is there a deadlock | 3 connections, root, child, grandchild, 4 events | passes |
| `evidence` | is the backend's log ordered, causal and complete whatever happens to the posts | batches of 1 artifact and 2 events, 3 events with up to 2 artifacts each, 1 decision, 2 faults | passes, 0.8 million states |
| `agent_loop` | is the conversation answered, are effects and answers on record, do partial answers tell the truth | 2 rounds, 2 calls in an answer, 6 operations, 2 faults | passes, 0.36 million states |
| `processes` | do a stepwise agent, the engine, its clients, the registry and the voice pool survive deaths, races and restarts; are stores, graph, stream and transcript what was written and sent | see below | passes, 0.45 million states |
| `documents` | do chunking, filters and the document tasks keep what they are given | see below | passes, 0.14 million states |

### Why these bounds

Two workers are the smallest number that can hold, lose and retake one execution; the fence compares ids, so
a third worker adds no new comparison, and the proofs of section 6 cover any number. Three mishaps allow a
takeover of a running execution, a stray wake-up and a crash in one behaviour. In the fan-out two chunks
give two reports that can meet, and two plans the children of an abandoned plan. How often a merge plans
again is not bounded in the code (`map_reduce.py:292-298`), so `fanout_alone` asks that every plan ends, in
a merge or an error, and not that the parent does; three plans give two that are followed by another, and
`MaxChildren` (12) is what they need. In `fanout_races` `MaxChildren` bounds the ids ever given out, and a
plan that would need more stops the model there, which is why safety alone is checked with it. Larger
instances of `fanout_races` (4 children: 6 million states; 2 plans without retries: 8.7 million) pass as
well but take minutes. In `evidence` three events and batches of two give a flush of two batches, and a
batch sent again after it has grown; two faults give a post that raises after both its attempts, or two
requests given up; two decisions (5 million states) pass as well, and the proofs cover any number. In
`agent_loop` two calls in an answer give a batch stopped between them, two rounds a conversation that goes
on after it, two faults an exception whose own flush fails, or two failing attempts of a subagent; `MaxOps`
stops requests for tools, not the calls that end a turn; without it the run passes too but takes three
minutes. In `processes`: two workers on one agent with two steps and two mishaps (a takeover, and a crash of
the one that took over); two threads of a worker and the manager, three servers, two faults; two tasks, one
of which names an adapter in `tasks.json`; four adapters, two of them with one file name and one that is on
no disk; three deployments, restarts or ends; three workers, two of them with one id, three ends; three
voice workers. One process is enough for the engine, since a second one is to the first what the manager is.
Of what they write: two workers that ingest one document and one memory, two chunks each, four executions,
one failing statement, which is enough for an older execution to end after a newer one; two chunks with
claims that repeat and contradict each other, two modifications; streams of six symbols in pieces of up to
three, so that every split of a tag occurs (with seven, where a block can be left by a second closing tag
after one that was cut, `ThinkFilter` passes alone in seconds); five frames and windows of two quarters. In
`documents`: texts of up to five words; documents of headings, list items with a paragraph in them, cells,
loose text and tags without text, taken for HTML or not; lists of two and up to four candidates from seven;
up to three units and four filters; three words and expressions; tables of two columns; three items in
batches of one to three; values of two levels with brackets, quotes and escapes in their strings. `MaxTurns`
is the model's step budget; `MaxEvents` the length of the log.

Deadlock is checked in the queue, where a poll is always possible. In `FanOut` polls that find
nothing are left out, so a model whose work is done stops; in `EventLog` the log is full at
`MaxEvents`; a run of `AgentLoop` ends, and so do the parts of `MCProcesses` and the one call of
`MCDocuments`. That transactions of `EventLog` do not wait for each other is
the property `TransactionsEnd`.

### Fairness

* Every live worker goes on: its loop has no exit but a signal, and handlers end
  (`WF` on `WorkerStep`).
* Children finish and wake a suspended execution (`WF` on `Wake` of a waiting row, in the queue
  only; in `FanOut` this is exactly what is in question and nothing is assumed).
* The background window opens every night (`WF` on `ClockTurns`). It lasts hours and a poll a second,
  so a worker that returns to its loop again and again polls inside it; the model's clock does not
  know how long a state lasts, and this is stated as an assumption of `Fairness`.
* PostgreSQL grants a row lock to its waiters in turn (`SF` on `Proceed` in `EventLog`).
* The backend finalizes what is handed to it (`WF` on `BackendCompletes` in `FanOut`).
* A worker goes on with its agent step and polls again (`WF` on `WorkerStep` in `AgentStep`), and a
  thread goes on with its call of `ensure_server` (`WF` on `EnsureStep`): the loop sleeps and has a
  deadline, and each probe has a timeout. A `threading.Lock` that is free again and again is obtained
  (`SF` on `Lock`). Nothing is assumed of servers: that a call ends rests on the deadline alone.

The liveness runs have no mishaps: a crash, or an exception in an update of the status, does leave a
row `running` for ever (see the findings).

## 4. What the checks show

With one worker, the design does what it says: the merge runs after all children, on all of their
results, a chunk is retried at most `chunk_max_retries` times per plan, and every plan ends, in the
parent's end or in another plan. With several workers, claims and fences hold in every interleaving and
after every mishap, and the result a parent keeps for a chunk is always that of a child of this chunk that
returned, reported once, or `{}` where such a child could not be read back.

The log of a tree is dense and causal and tells each execution's whole history. The contract also wants a
bundle to end in its one terminal state: this holds of the log of a root that ended alone, and of no tree in
which a child has ended or a row was run again (`EndedAlone`), whose log the validator rejects.

The evidence of a run survives every loss, refusal, repetition and delay of its posts: since one post
is under way at a time, artifacts go before events, and a batch leaves the buffer only when it was
answered, whatever arrives late finds everything it depends on already stored. `request_progress_grant`
does not flush, so after a flush that failed a grant may be decided without the evidence that failed;
`EvidenceBeforeDecision` says exactly how much each kind of decision knows.

A chat turn keeps its promises whatever model, tools, budget and posts do, with the exceptions its
properties name: a subagent's second attempt may start from a conversation with unanswered calls, the
answer of a turn the loop guard stopped may not mention a card, and a flush that failed for good leaves
operations open. The message of a turn is on record before anything is remembered of it only because
the model call in between flushes.

A stepwise agent counts every step once: a transcript grows by one entry a step whatever attempt
writes it, no tool runs for the same request in two steps in a row, the parent is told only of an end
that is stored, and the budget ends the agent whatever the model answers (`StepsCountOnce`,
`CallsEnd`). Whoever needs the engine gets it or an error; every engine a process started is stopped by
it unless it was killed or a health check came too late; a request runs with its task's own adapter unless
engine or deployments changed after the client was made (`EngineIsKnown`).

The vectors of a source are those of its newest execution unless executions overlapped or a statement failed
(`VectorsInSync`, which names each exception), the graph, where there is one, holds what was returned
(`GraphIsWhatWasFound`), a stream shows what is outside the reasoning blocks and in its order, with one
exception that `UserSeesTheText` names, no text of a live transcription repeats audio
(`TranscriptRepeatsNothing`), cutting and filtering keep what was read of a document (`TextIsKept`), and the
tasks' results are what their reference definitions say (`TaskResultsAreClean`, one conjunct per task).
These two hold many claims each; beside the mutants in `PROJECT.json` their other parts were seen to fail on
mutants that the modules keep: `LocateForward`, `AsksOneMore` (`Dates`), `CountAll`
(`Lists`), `BuildAnchored`, `NormalizeAll` (`DatasetExtraction`), `PutAtStart` (`Translation`),
`BalancedInStrings`, `NamedAny` (`Replies`), and for `EngineIsKnown` `TimeoutOnly` (`LlamaServer`) and
`IdFromTheLast` (`AdapterClient`).

### Findings

1. **A dead worker's execution is not requeued.** `README.md:45-46` and `docs/architecture.md:42`
   promise it; `requeue_stale_executions` does not exist.
2. **Early merge.** Children become claimable one by one while their parent still enqueues. A child
   that finishes before `update_agent_state` takes the single-child path, writes the old checkpoint
   back and wakes the parent unfenced, which then plans again or merges without the results. The same
   wake-up, by a child of an abandoned plan, puts a completed parent back in the queue.
3. **A lost report.** Two children that report at once read the same checkpoint; the second write
   erases the first, both see a child still waiting, and the parent waits for ever.

### Noticed while modelling

Where the code does something a reader would not expect and no run is about it, the property that is
nearest excepts it and says so.

* Queue: the parent of an agent is never told if the backend finalizes between hand-over and `Ask`
  (`utils/process_execution.py:286-293`); an exception in a status update leaves the row running. A
  parent that has completed can be queued again by a child of an abandoned plan; `SettledIsFinal` is
  about leaf executions.
* Fan-out: a child whose row cannot be read back after it returned counts as the result `{}`
  (`utils/process_execution.py:419-430`), and the merge goes on without its chunk; nothing bounds the
  plans of a recursive merge (`lib/llm/map_reduce.py:292-298`).
* Chat: `_summarize` (`agents/loop.py:555`) runs between a tool's effect and the record of its end; it
  only reads the result and is given no failure here. If it raised, the operation would stay open.
* Engine: SIGTERM between `Popen` and `atexit.register` (`services/llama_server.py:389-390`) leaves the
  engine running, which `EngineIsOwned` excepts (`Abandoned`); a cached client never starts an engine that
  died (`ensure_server` runs when a client is made); an answer to `/health` after two seconds makes
  `ensure_server` start a second server and forget the first.
* Adapters: `reset_cache` says "Call it after restarting the engine" and nobody does, so ids go
  stale; `lora_adapter_id` takes the first that matches by path or by file name, its docstring says the
  path first; `lora_model` and `lora_path` of `tasks.json` (`docs/creating-tasks.md:185-192`) reach
  no engine, which serves `deployments.json` only, so such a task always raises;
  `services/llm_service.py:16-17` says adapters are not applied.
* Voice pool: after a worker ended the warning names the wrong port; a signal before the handlers
  are installed leaves the workers without a supervisor.
* Stream: a `</think>` split over two pieces is not recognised and hides what follows, up to the next
  closing tag if there is one; half an opening tag at
  the end is never shown.
* Vectors: overlapping ingestions of a source leave the chunks of both; `upsert_points` answers False
  and nobody looks; a memory that is emptied keeps its old vector; `tasks/indexed_file` passes a
  string where `semantic_chunk_text` takes a list.
* Graph: persisting commits statement by statement; `update_relationship` can make two edges of a triple.
* Graph: with no graph to write to the extraction returns its relationships without an error and stores
  nothing (`tasks/relationship_extraction/relationship_extraction.py:135-142`).
* Chunking: a text with a `<` and a `>` is taken for HTML. If it has headings, whatever is outside of
  headings, paragraphs, list items, quotations and preformatted blocks is not read
  (`lib/llm/text.py:190-216`); if it has none, nested elements are read more than once and ordered by
  tag (`clean_html_text`); a bare link `<https://...>` is a tag and its text is lost. The fallback of
  `chunk_units` is at least 50 words, more than a small budget; its docstring says that no chunk is larger
  than `max_size` and that the fallback defaults to it.
* Key points: `_refine_chunked` takes any lines for its answer and repeats for ever when there are always
  more of them than `refine_chunk_size`; without embeddings points that mean the same stay.
* Dataset: a text, a date or a selection is neither converted nor checked.
* Dates: an expression repeated in a chunk has one entry. Filters: the copy that is kept of a unit may be
  the one a form filter drops. Dataset: an undescribed column blocks a described one of the same key that
  comes later. Replies: of an array of objects in prose the first object is returned; the memory agent
  may forget snippets that were passed on but left out of the prompt, though the comment at
  `agents/memory_agent/__init__.py:185-186` speaks of ids the model saw.
* Voice session: the final text is empty when the last window is silent.

## 5. Plan

Done, in this order: `ExecutionRow`, `ExecutionQueue`, `Lease` and their proofs; `FanOut`, `MapReduce`;
`EventLog`, `BundleContract` and the proofs; `Evidence` and its proofs; `AgentLoop`; `AgentStep`, `LlamaServer`,
`AdapterClient`, `WorkerRegistry`, `VoicePool` (`MCProcesses`); the document modules (`MCDocuments`);
`FanOut_proofs`, `AgentLoop_proofs`, `MCProcesses_proofs`; `DocumentTexts_proofs`, `MCDocuments_proofs`.

Left:

1. Proofs: that the value of a reply is found in its prose (`JsonIsFound`, `ObjectIsFound`), the main part
   of `TaskResultsAreClean` with no theorem, by induction over the depth of brackets.
2. A chat turn composed with the run of its subagent, for the card a subagent shows and the turn does
   not see.
3. The fan-out of relationship extraction composed with `FanOut`; children that split their own chunk.

## 6. Proofs

`ExecutionQueue_proofs` proves, for any set of workers, any executions, priorities, supported tasks
and bounds, assuming only `NoWorkerAssumption` (the null worker is no worker) and `QueueAssumption`
(the constants have their types):

* `TypeInvariant`, `ClaimColumnsTheorem`, `SingleHolderTheorem`, `NoDoubleRunTheorem` (invariants);
* `HandOverTheorem`, `SettledTheorem`, `BackgroundYieldsTheorem` (action properties);
* `LeaseRefinement`: `Spec => L!LeaseSpec`.

None of these is inductive. The invariant (`IInv`, split into `TypeInv` and `SafetyInv`) adds: attempt
ids in use have been issued and no two jobs share one (`AttemptsIssued`: else a new claim could pass
an old fence); a row under an uncommitted claim is still queued and under one claim only
(`ClaimingIsExclusive`); a worker about to hand over, and still holding, has stored its own result
(`ReturnIsStored`); without mishaps every worker at work holds its row (`UndisturbedHolds`); only a
running row has a phase (`PhaseOfStatus`). `HolderIsAlone` is the heart: a job's attempt is never
null, so passing the fence means the row is claimed by exactly that attempt. The step lemmas follow
the kinds of step: those that touch no row (`LocalStep`), the holder's writes (`StoreStep`,
`ReleaseStep`), claims (`SelectStep`, `CommitStep`), and the environment's (`TakenStep`). The action
properties and the refinement rest on `TableStep`, which says what any step does to the table.

`Evidence_proofs` proves all six invariants of `Evidence` for any batch sizes and bounds, from
`EvidenceAssumption` (batches are not empty). The invariant (`IInv`) says of every request, under way
or given up, that it is `Sound`: an event batch only has events that exist, all earlier events are
known, and so are the artifacts it names; a decision comes after what it promises. `SoundIsStable`
shows that this survives every growth of the log and the buffers, and `ServeKeepsLog` that serving a
sound request, at any time and any number of times, keeps the log ordered, causal and complete. The
other parts tie the request under way to the head of its buffer (`PostIsHead`) and the causes of
events not yet sent to what is known (`Causes`: a decision is a cause only once it is in the log).

`EventLog_proofs` proves, for any tree of executions, any number of connections and any length of the
log, from `EventLogAssumption` (the constants have their types, the null transaction is none), that
the log meets the contract (`LogMeetsTheContract`) and tells every execution's history
(`HistoryIsComplete`). Neither is inductive: what a transaction will write was read several steps
earlier. The invariant adds what its locks protect meanwhile: `Rows`, that a transaction under way
holds the row it is about, so the status it has read is still there when it commits, and that no two
are about one execution (for a child that does not exist yet: its id is new); `RootHeld`, that from
`LockRoot` on it holds the root, so nobody else appends and the sequence, the cause and the producer's
number are still the next ones. `NumbersAreBounded` makes the producer's maximum exist (`MaxIsLargest`,
by well-founded minimality of the upper bounds). `BeginStep` covers the three ways to begin, and
`CommitStep` is the only step that touches the log.

`FanOut_proofs` proves, for any number of workers, chunks, plans, retries and mishaps, from
`FanOutAssumption` and `NoWorkerAssumption`, what survives every race: `TypeCorrect`, `GenuineResults`
and `ChildTellsOnce`. A checkpoint may be written back long after it was read, so `ResultsAreGenuine`
is inductive only if it holds of every copy a worker still has (`Genuine(job[w].seen)`); it lasts since
a child's chunk and its hand-over are never taken back (`GenuineStays`). That a child tells once rests
on the fence: an attempt fences the row of its own job only (`OwnAttempt`), a row that has ended has
no attempt (`RowsAgree`), hence of two workers that ran a child only one gets past `Finish`
(`FinishStep`), and its report is true (`TellsTheEnd`). Steps that change no row are covered together
(`QuietStep`, `CheckpointSteps`), those that do by what they leave alone (`Steady`).

It also proves `ChildrenCounted` and `MapReduceRefinement` for one worker and no
mishap, with any chunks, plans and retries. The two hypotheses (`Worker = {w}`, `MaxMishaps = 0`) are
needed: `fanout_early_merge` and `fanout_lost_report` are counterexamples with two workers and no
mishap. The invariant (`SoleInv`) says that only the worker's own job is claimed (`Undisturbed`), that
the parent waits while children run (`ParentWaits`), that what the worker knows of the checkpoint is so
(`UpToDate`), and that children, chunks and retries agree in every state, also between the transaction
that enqueues a child and the one that records it (`ChunksAwaited`, `ChildrenAwaited`, `PlanCovers`,
`RetryFits`). `Counted` is the bound on the children of a chunk with what is left of its budget: one
child for a plan under way that has not come to it, and the retries not spent, less one that is
enqueued and not yet counted. With `SoleInv` every step maps to a step of `MapReduce` or a stutter, one
lemma per write (`SaveMaps`, `RecordMaps`, `MergeSees`, `AnswerMaps`, `FinishMaps`, `QuietMaps`).

`AgentLoop_proofs` proves all safety properties of `AgentLoop`, for any rounds, calls, operations and
faults, from `AgentLoopAssumption` (the bounds are numbers). The parts of the invariant are: no call is
unanswered but those still to be worked through (`CallsCounted`); the operation under way has begun on
record and not ended, and every other one has ended unless a flush failed (`EvidenceKept`); what a
template lists is done (`WorkDone`); what follows the message has it on record (`MessageRecorded`).
`NextAdds` says what each action adds to the evidence, in five cases, and the proofs about facts need
no more of it (`EvidenceStep`, `DoneStays`, `RecordedStays`); `ControlStep` is about calls and answers.

`MCProcesses_proofs` proves, for every part of `MCProcesses`, its type invariant
(`TypeCorrect`) and its safety property, from `ProcessesAssumption`, the conjunction of the parts'
assumptions: the constants have their types, the null values are none of the others, and confidences
are a finite set of numbers with the default among them. `PartSteps` reduces a step to one of each part
or a stutter, so each part has its own invariant:

* registry and voice pool (`WorkersAccounted`): `RegistryInv` and `PoolInv`, inductive with their types;
* engine (`EngineKnown`): who runs holds the port (`PortHeld`), one caller per process is past the
  lock (`OneAtATime`), a process remembers only its own servers (`OwnChild`), and, as long as no health
  check came too late, a server that is loading has a caller who waits for it and none that runs is
  about to be replaced (`NotForgotten`);
* clients (`EngineKnown`): a client that was built for the engine that runs cites a position at which
  it has loaded an adapter of the right file name (`Numbered`). `LeastNumber`, by well-founded
  minimality, makes the first match of `lora_adapter_id` exist;
* agents (`AgentStepsCount`): attempts are issued and not shared, step and transcript have one length
  in the row and in every job, and the transcript of whoever passes the fence extends the row's
  (`HistoryKept`); what is handed over has a result (`ResultFirst`);
* vectors (`VectorsAreInSync`): a source whose newest execution is undisturbed is written by that one
  only (`OneWriter`), and holds what it has written so far (`WrittenSoFar`);
* graph (`GraphHoldsWhatWasFound`): phase by phase, where there is a graph, each merged claim is still to be
  written or has its edge (`GraphPhases`). That merging keeps every triple uses that a finite set of
  confidences has a greatest;
* stream (`UserSeesWhatIsOutside`): the buffer and what is held back are the rest of the text
  (`PendingIsTheRest`), of what was looked at exactly the text outside the blocks was shown, and
  `_in_think` says whether the rest begins in a block (`ShownSoFar`); no tag is half looked at but a
  closing one that was cut (`NoHalfTag`);
* transcripts (`TranscriptsDoNotRepeat`): while the handler reads nothing is stable, so a partial text
  is one window's, and no more frames are in the buffer and the inbox than were sent
  (`TextsOfTheSession`, `FramesAreSent`).

`DocumentTexts_proofs` and `MCDocuments_proofs` prove what the tasks on documents compute, for texts,
lists and replies of any length, from `DocumentsAssumption` (ranges of the constants) and, where a
theorem says so, from the shape of its inputs (words are separated, units are numbered in their order):

* chunks: what is read of a document is in its units, by the three ways `SectionUnits` may go, and each
  word of these in one chunk (`UnitsKept`); overlaps are bounded (`OverlapBounded`);
* filters fail open (`FailOpen`), and the model drops only what it saw (`OnlyWhatItSaw`);
* dates of one chunk (`DatesAreExact`) and of all (`DatesAreMerged`);
* retries (`TheFirstCounts`), entities (`EntitiesUnique`), keywords
  (`MostFrequentAreKept`), key points (`PointsAreDistinct`), rows and columns (`RowsAreAnchored`,
  `ProposedAreDescribed`), translations (`ItemsAreTranslated`);
* `TextKept`: `Spec => []TextIsKept`, from the theorems about chunks and filters.

Induction is over a set of numbers that holds 0 and is closed under successors (`Upwards`, from
`LeastNumber` by well-founded minimality). `Recursion` and `FoldExists` show with it that a recursive
function and a fold exist and satisfy their equations; a loop of the code then has an invariant, which
is proved of the fold after k elements. What each loop needs:

* `_recursive_split` and the greedy loop of `chunk_units`: what is cut so far and what is in the buffer
  are, put together, the parts looked at (and an overlap is a stretch of the text, so it lies where
  the chunk before it ends);
* filters: each keeps a part of the units in their order, so any list of them does; a unit's place in
  a batch is its place in the document. Sorting by rank puts an element where the number of those
  before it says;
* dates: every entry stands where it says (`Stands`), no two at one place (`Once`), a date that was seen
  has an entry (`SeenHaveEntries`), and the model was asked once for each entry it decided
  (`WithinBudget`). A chunk lies in the text at its offset, so places of a chunk are places of the document;
* key points: a reply is a list of candidates whatever it holds, so a round, and any number of them, gives
  a list of candidates or does not end (`RoundIs`, `RefineChunkedIs`). What is proved of the result rests
  on what is done after the last round, with the embedding service or without it (`ComparesIs`,
  `FilledUpIs`);
* translations: what is said of pieces in a row is what is said of each, in a row (`Each`,
  `EachFlatten`), and after k batches the first k times `size` pieces are translated (`DoneTo`).

The modules the theorems are about use folds and recursive functions, since tlapm expands neither
RECURSIVE operators nor `SelectSeq`. `MCDocuments` extends them instead of making instances: tlapm copies
all that a module extends, `SequencesExt` above all, into each of its instances.

Model-checked only:

* liveness (`ClaimIsReleased`, `QueuedIsServed`, `PlansEnd`, `TransactionsEnd`, `CallsEnd`), which
  needs fairness and ENABLED, out of the prover's reach;
* `TaskResultsAreClean` as one invariant: its parts about dates, keywords, key points, entities,
  datasets, translations and retries are the theorems above, for inputs of any length; those about
  replies in prose (`JsonIsFound`, `ObjectIsFound`) are checked for values of two levels, and that the
  memory agent names only ids it was given (`MemoryIsWhatWasSent`) for its few decisions.

## 7. Not modelled

* Other task handlers, tools, prompts and warnings: functions of their inputs, or single HTTP calls;
  how a handler ends is an outcome of the models above.
* Configuration, hardware detection and setup: read once at start.
* Searches in the vector tables and the graph: they change nothing.
* The numbers of a budget or a grant: the backend decides, and its answer is a choice of `AgentLoop`
  and `Evidence`. Redaction and measurements of the emitter.
* The rules of `validate.py` about shapes, artifacts and measurements.
* Command lines and metrics of the engine, sampling parameters, the clean-up of single characters, the
  arithmetic of calendars, speech recognition.
* Timestamps, `completion_kind`, `error` and `completion_reason` are written together with a status and
  read by no worker.

`PROJECT.json` lists every component with its reason, and every hazard with the properties that cover
it or the reason none does.
