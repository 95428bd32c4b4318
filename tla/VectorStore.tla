----------------------------- MODULE VectorStore -----------------------------
(***************************************************************************)
(* The vector tables (database/rag.py) and the executions that fill them:       *)
(* ingest-content and indexed-file-ingest delete the chunks of a source and     *)
(* insert the new ones under fresh ids, memory-ingest writes one vector in       *)
(* place.  Statements are committed one by one, and their errors are logged.    *)
(***************************************************************************)
EXTENDS Naturals, FiniteSets

CONSTANTS Ingester,      \* workers that run these executions
          Document,      \* sources cut into chunks: resources, docs, indexed files
          Memory,        \* memory entries, one vector each
          Parts,         \* chunks of a document
          MaxJobs,       \* bound on the executions
          MaxStoreFaults \* bound on failed statements and crashes

VectorStoreAssumption ==
  /\ Document \cap Memory = {}
  /\ Parts \in Nat \ {0} /\ MaxJobs \in Nat /\ MaxStoreFaults \in Nat

VARIABLES chunks,      \* rows of the tables: source, the job that wrote it, part
          busy,        \* what each worker does, and how far it is
          newest,      \* by source: the job that began last, how it went
          jobs,        \* executions claimed so far
          storeFaults

storeVars == <<chunks, busy, newest, jobs, storeFaults>>

Source == Document \cup Memory
Idle   == [job |-> 0]
Kinds  == {"full", "empty", "delete"}
NoJob  == [job |-> 0, kind |-> "delete", ended |-> TRUE, clean |-> TRUE]

Init ==
  /\ chunks = {}
  /\ busy = [w \in Ingester |-> Idle]
  /\ newest = [s \in Source |-> NoJob]
  /\ jobs = 0
  /\ storeFaults = 0

Of(s)      == {c \in chunks : c.source = s}
Points(s, j) == {[source |-> s, job |-> j, part |-> i] :
                   i \in 1 .. IF s \in Memory THEN 1 ELSE Parts}
Busy(w, at) == busy[w] # Idle /\ busy[w].at = at
At(w, at)  == busy' = [busy EXCEPT ![w].at = at]
Fault      == storeFaults < MaxStoreFaults /\ storeFaults' = storeFaults + 1

\* What has happened to the job is remembered as long as it is the newest.
Unclean(w) ==
  LET s == busy[w].source IN
    newest' = [newest EXCEPT ![s].clean = @ /\ newest[s].job # busy[w].job]

Overlaps(s) == \E w \in Ingester : busy[w] # Idle /\ busy[w].source = s

\* Where each kind of execution starts: a memory is written without a deletion, and
\* one without name or body is skipped.
FirstStep(s, kind) ==
  IF s \notin Memory \/ kind = "delete" THEN "delete"
  ELSE IF kind = "full" THEN "upsert" ELSE "return"

Claim(w, s, kind) ==
  /\ busy[w] = Idle
  /\ jobs < MaxJobs
  /\ jobs' = jobs + 1
  /\ busy' = [busy EXCEPT ![w] = [job |-> jobs + 1, source |-> s, kind |-> kind,
                                  at |-> FirstStep(s, kind)]]
  /\ newest' = [newest EXCEPT ![s] = [job |-> jobs + 1, kind |-> kind, ended |-> FALSE,
                                      clean |-> ~Overlaps(s)]]
  /\ UNCHANGED <<chunks, storeFaults>>

AfterDelete(w) == At(w, IF busy[w].kind = "full" THEN "upsert" ELSE "return")

\* Mutant of Delete: only a source that is ingested anew is deleted.
DeleteIfFull(w) ==
  /\ Busy(w, "delete")
  /\ chunks' = IF busy[w].kind = "full" THEN chunks \ Of(busy[w].source) ELSE chunks
  /\ AfterDelete(w)
  /\ UNCHANGED <<newest, jobs, storeFaults>>

\* delete_by_column, delete_points
Delete(w) ==
  /\ Busy(w, "delete")
  /\ chunks' = chunks \ Of(busy[w].source)
  /\ AfterDelete(w)
  /\ UNCHANGED <<newest, jobs, storeFaults>>

\* upsert_points: ids of chunks are new, the id of a memory is its key.
Upsert(w) ==
  LET s == busy[w].source
      kept == IF s \in Memory THEN chunks \ Of(s) ELSE chunks
  IN  /\ Busy(w, "upsert")
      /\ chunks' = kept \cup Points(s, busy[w].job)
      /\ At(w, "return")
      /\ UNCHANGED <<newest, jobs, storeFaults>>

Return(w) ==
  LET s == busy[w].source IN
    /\ Busy(w, "return")
    /\ newest' = [newest EXCEPT ![s].ended = @ \/ newest[s].job = busy[w].job]
    /\ busy' = [busy EXCEPT ![w] = Idle]
    /\ UNCHANGED <<chunks, jobs, storeFaults>>

\* The statement raises, the error is logged, False is returned and not looked at.
DeleteFails(w) ==
  /\ Busy(w, "delete")
  /\ Fault
  /\ AfterDelete(w)
  /\ Unclean(w)
  /\ UNCHANGED <<chunks, jobs>>

\* Some of the rows may have been written.
UpsertFails(w) ==
  /\ Busy(w, "upsert")
  /\ Fault
  /\ LET all == Points(busy[w].source, busy[w].job) IN
       \E n \in 0 .. Cardinality(all) - 1 :
         chunks' = chunks \cup {c \in all : c.part <= n}
  /\ At(w, "return")
  /\ Unclean(w)
  /\ UNCHANGED jobs

\* The worker dies, or the embedding model raises; a new execution may follow.
Abandon(w) ==
  /\ busy[w] # Idle
  /\ Fault
  /\ busy' = [busy EXCEPT ![w] = Idle]
  /\ UNCHANGED <<chunks, newest, jobs>>

StoreStep ==
  \E w \in Ingester :
    \/ \E s \in Source : \E kind \in Kinds : Claim(w, s, kind)
    \/ Delete(w) \/ Upsert(w) \/ Return(w)
    \/ DeleteFails(w) \/ UpsertFails(w) \/ Abandon(w)

Spec == Init /\ [][StoreStep]_storeVars

-----------------------------------------------------------------------------
TypeOK ==
  /\ chunks \subseteq [source : Source, job : 1 .. MaxJobs, part : 1 .. Parts]
  /\ \A w \in Ingester : busy[w] # Idle =>
       busy[w] \in [job : 1 .. MaxJobs, source : Source, kind : Kinds,
                    at : {"delete", "upsert", "return"}]
  /\ newest \in [Source -> [job : 0 .. MaxJobs, kind : Kinds,
                            ended : BOOLEAN, clean : BOOLEAN]]
  /\ jobs \in 0 .. MaxJobs
  /\ storeFaults \in 0 .. MaxStoreFaults

\* Once the newest execution of a source has returned, the store holds exactly
\* what it wrote, whatever was lost or left behind by those before it.  Two things
\* break this, although the execution reports success: a statement of it failed,
\* or another one of the same source overlapped with it (then the chunks of both
\* stay).  A memory that was emptied keeps the vector it had.
VectorsInSync ==
  \A s \in Source :
    newest[s].ended /\ newest[s].clean =>
      \/ Of(s) = IF newest[s].kind = "full" THEN Points(s, newest[s].job) ELSE {}
      \/ s \in Memory /\ newest[s].kind = "empty" /\ Cardinality(Of(s)) <= 1
=============================================================================
