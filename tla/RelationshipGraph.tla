-------------------------- MODULE RelationshipGraph --------------------------
(***************************************************************************)
(* relationship-extraction for one resource and the graph it writes             *)
(* (tasks/relationship_extraction, database/graph_db.py), with a user who        *)
(* modifies the resource's relationships meanwhile (tasks/relationship_modify).  *)
(*                                                                         *)
(* How the chunks become executions of their own is FanOut's: here a chunk       *)
(* answers once, or has failed for good.  The statements on the graph are        *)
(* committed one by one.                                                        *)
(***************************************************************************)
EXTENDS Naturals, FiniteSets

CONSTANTS Entity,       \* the entities of the payload
          Unknown,      \* a name that is not among them
          Predicate,
          Confidence,   \* a finite set of numbers; 1 is what a user's relationship gets
          Chunk,
          Answers,      \* what the model may say of a chunk: sets of claims
          MaxModifies   \* bound on the user's changes, and on failed statements

RelationshipGraphAssumption ==
  /\ Unknown \notin Entity
  /\ Confidence \subseteq Nat /\ IsFiniteSet(Confidence) /\ 1 \in Confidence
  /\ \A said \in Answers : said \subseteq
       [subject : Entity \cup {Unknown}, predicate : Predicate,
        object : Entity \cup {Unknown}, confidence : Confidence]
  /\ MaxModifies \in Nat

VARIABLES enabled,    \* whether there is a graph: GRAPH_ENABLED, and its driver is installed
          answered, failed,   \* the chunks that have ended, well or for good
          found,     \* by chunk: its validated claims
          at,        \* the execution: "chunks", "entities", "edges" or "ended"
          toWrite,   \* entities, then claims that are still to be written
          merged,    \* the deduplicated claims
          result,    \* what was returned: relationships and whether there was an error
          nodes, edges,   \* the graph
          modifies, touched,   \* the user's changes, and whether there was one since the merge
          renamed

graphVars == <<enabled, answered, failed, found, at, toWrite, merged, result,
               nodes, edges, modifies, touched, renamed>>
chunkVars == <<enabled, answered, failed, found>>

NoResult == [relationships |-> {}, error |-> TRUE]

Init ==
  /\ enabled \in BOOLEAN
  /\ answered = {} /\ failed = {}
  /\ found = [c \in Chunk |-> {}]
  /\ at = "chunks"
  /\ toWrite = {} /\ merged = {}
  /\ result = NoResult
  /\ nodes = {} /\ edges = {}
  /\ modifies = 0 /\ touched = FALSE /\ renamed = FALSE

Triple(r) == <<r.subject, r.predicate, r.object>>

\* _validate_relationships: both ends are known and different.
Valid(claims) == {r \in claims : {r.subject, r.object} \subseteq Entity /\ r.subject # r.object}

\* Mutant of Deduplicated: the comparison is the wrong way round.
DeduplicatedFirst(claims) ==
  {r \in claims : \A q \in claims : Triple(q) = Triple(r) => q.confidence >= r.confidence}

\* _deduplicate: of the claims of one triple the one with the highest confidence.
Deduplicated(claims) ==
  {r \in claims : \A q \in claims : Triple(q) = Triple(r) => q.confidence <= r.confidence}

\* A chunk whose model call fails is a chunk without relationships.
ChunkAnswers(c) ==
  /\ at = "chunks"
  /\ c \notin answered \cup failed
  /\ answered' = answered \cup {c}
  /\ \E said \in Answers \cup {{}} : found' = [found EXCEPT ![c] = Valid(said)]
  /\ UNCHANGED <<enabled, failed, at, toWrite, merged, result, nodes, edges, modifies, touched, renamed>>

\* Its execution has failed and its retries are used up.
ChunkFails(c) ==
  /\ at = "chunks"
  /\ c \notin answered \cup failed
  /\ failed' = failed \cup {c}
  /\ UNCHANGED <<enabled, answered, found, at, toWrite, merged, result, nodes, edges, modifies, touched, renamed>>

Ends(relationships, error) ==
  result' = [relationships |-> relationships, error |-> error] /\ at' = "ended"

\* Mutant of MergeFailed: what the other chunks found is written all the same.
MergeWhatIsThere ==
  /\ at = "chunks"
  /\ failed # {}
  /\ LET all == UNION {found[c] : c \in Chunk}
     IN merged' = Deduplicated(all) /\ toWrite' = UNION {{r.subject, r.object} : r \in all}
  /\ at' = "entities"
  /\ UNCHANGED <<chunkVars, result, nodes, edges, modifies, touched, renamed>>

\* _phase_merge with failed_idx
MergeFailed ==
  /\ at = "chunks"
  /\ failed # {}
  /\ Ends({}, TRUE)
  /\ UNCHANGED <<chunkVars, toWrite, merged, nodes, edges, modifies, touched, renamed>>

\* Mutant of Merge: without a graph the execution goes on as if there was one.
MergeUnasked ==
  /\ at = "chunks"
  /\ answered = Chunk
  /\ LET all == UNION {found[c] : c \in Chunk} IN
       /\ all # {}
       /\ merged' = Deduplicated(all)
       /\ toWrite' = UNION {{r.subject, r.object} : r \in all}
  /\ at' = "entities"
  /\ touched' = FALSE
  /\ UNCHANGED <<chunkVars, result, nodes, edges, modifies, renamed>>

\* _phase_merge: _deduplicate, then _persist_to_graph from its first statement on.
\* Without a graph, or with nothing to store, the relationships are returned as they are.
Merge ==
  /\ at = "chunks"
  /\ answered = Chunk
  /\ LET all == UNION {found[c] : c \in Chunk} IN
       /\ merged' = Deduplicated(all)
       /\ IF all = {} \/ ~enabled
          THEN Ends(merged', FALSE) /\ UNCHANGED toWrite
          ELSE /\ at' = "entities"
               /\ toWrite' = UNION {{r.subject, r.object} : r \in all}
               /\ UNCHANGED result
  /\ touched' = FALSE
  /\ UNCHANGED <<chunkVars, nodes, edges, modifies, renamed>>

\* get_graph cannot connect: the handler answers an error and no relationships.
GraphUnreachable ==
  /\ at = "chunks"
  /\ answered = Chunk /\ \E c \in Chunk : found[c] # {}
  /\ enabled /\ modifies < MaxModifies
  /\ modifies' = modifies + 1
  /\ Ends({}, TRUE)
  /\ UNCHANGED <<chunkVars, toWrite, merged, nodes, edges, touched, renamed>>

UpsertEntity(e) ==
  /\ at = "entities"
  /\ e \in toWrite
  /\ nodes' = nodes \cup {e}
  /\ IF toWrite = {e}
     THEN at' = "edges" /\ toWrite' = merged
     ELSE toWrite' = toWrite \ {e} /\ UNCHANGED at
  /\ UNCHANGED <<chunkVars, merged, result, edges, modifies, touched, renamed>>

EdgesOf(t) == {d \in edges : d.triple = t}

\* MERGE finds the edges of the triple between two nodes that are there, or makes one.
MergeEdge(t, confidence) ==
  edges' = IF ~{t[1], t[3]} \subseteq nodes THEN edges
           ELSE (edges \ EdgesOf(t)) \cup
                IF EdgesOf(t) = {} THEN {[triple |-> t, born |-> <<t, modifies>>, confidence |-> confidence]}
                ELSE {[d EXCEPT !.confidence = confidence] : d \in EdgesOf(t)}

UpsertRelationship(r) ==
  /\ at = "edges"
  /\ r \in toWrite
  /\ MergeEdge(Triple(r), r.confidence)
  /\ toWrite' = toWrite \ {r}
  /\ IF toWrite = {r} THEN Ends(merged, FALSE) ELSE UNCHANGED <<at, result>>
  /\ UNCHANGED <<chunkVars, merged, nodes, modifies, touched, renamed>>

\* A statement raises: what has been written stays, the relationships are returned
\* with an error.
StatementFails ==
  /\ at \in {"entities", "edges"}
  /\ modifies < MaxModifies
  /\ modifies' = modifies + 1
  /\ Ends(merged, TRUE)
  /\ UNCHANGED <<chunkVars, toWrite, merged, nodes, edges, touched, renamed>>

-----------------------------------------------------------------------------
(* relationship-modify *)

Modify ==
  /\ enabled
  /\ modifies < MaxModifies
  /\ modifies' = modifies + 1
  /\ touched' = TRUE
  /\ UNCHANGED <<chunkVars, at, toWrite, merged, result, nodes>>

Triples == {t \in Entity \X Predicate \X Entity : t[1] # t[3]}

CreateRelationship(t) == Modify /\ MergeEdge(t, 1) /\ UNCHANGED renamed

\* The edge of the old predicate gets the new one, whether there is one already or not.
UpdateRelationship(t, new) ==
  /\ Modify
  /\ edges' = (edges \ EdgesOf(t)) \cup
              {[d EXCEPT !.triple = <<t[1], new, t[3]>>] : d \in EdgesOf(t)}
  /\ renamed' = (renamed \/ EdgesOf(t) # {})

DeleteRelationship(t) == Modify /\ edges' = edges \ EdgesOf(t) /\ UNCHANGED renamed
DeleteByResource == Modify /\ edges' = {} /\ UNCHANGED renamed

GraphStep ==
  \/ \E c \in Chunk : ChunkAnswers(c) \/ ChunkFails(c)
  \/ MergeFailed \/ Merge \/ GraphUnreachable \/ StatementFails
  \/ \E e \in Entity : UpsertEntity(e)
  \/ \E r \in merged : UpsertRelationship(r)
  \/ \E t \in Triples :
       \/ CreateRelationship(t) \/ DeleteRelationship(t)
       \/ \E new \in Predicate \ {t[2]} : UpdateRelationship(t, new)
  \/ DeleteByResource

Spec == Init /\ [][GraphStep]_graphVars

-----------------------------------------------------------------------------
Edge == [triple : Triples, born : Triples \X (0 .. MaxModifies), confidence : Confidence]

TypeOK ==
  /\ enabled \in BOOLEAN
  /\ at \in {"chunks", "entities", "edges", "ended"}
  /\ answered \subseteq Chunk /\ failed \subseteq Chunk \ answered
  /\ found \in [Chunk -> SUBSET UNION Answers]
  /\ result \in [relationships : {{}, merged}, error : BOOLEAN]
  /\ nodes \subseteq Entity
  /\ edges \subseteq Edge
  /\ modifies \in 0 .. MaxModifies
  /\ {touched, renamed} \subseteq BOOLEAN

\* Where there is a graph, an extraction that returns without an error has stored
\* every relationship it returns, each triple once and with the highest confidence
\* any chunk gave it, unless the user has changed the graph meanwhile; without one it
\* returns the same relationships, without an error too, and nothing is stored.  One
\* whose chunk has failed has written nothing, whatever the other chunks found.
ReturnedIsStored ==
  at = "ended" =>
    /\ ~result.error /\ ~touched /\ enabled =>
         \A c \in Chunk : \A r \in found[c] :
           \E d \in edges : d.triple = Triple(r) /\ d.confidence >= r.confidence
    /\ ~result.error =>
         \A c \in Chunk : \A r \in found[c] :
           \E q \in result.relationships : Triple(q) = Triple(r) /\ q.confidence >= r.confidence
    /\ failed # {} \/ ~enabled => nodes = {}
    /\ \A r, q \in result.relationships : Triple(r) = Triple(q) => r = q

\* A triple has one edge, unless the user has renamed one: an update of a
\* predicate to one that exists leaves two edges with the same triple.
OneEdgePerTriple ==
  renamed \/ \A d, f \in edges : d.triple = f.triple => d = f
=============================================================================
