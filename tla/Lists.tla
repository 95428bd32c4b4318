-------------------------------- MODULE Lists --------------------------------
(***************************************************************************)
(* How the lists the chunks of a document give are merged into the result of     *)
(* keywords, key-point and entity-extraction (tasks/keywords, tasks/key_points,   *)
(* tasks/entities).                                                              *)
(*                                                                         *)
(* A candidate is a text in one of the cases it may be written in: its `key` is    *)
(* the lowercase text.  The keys are numbers, and so are the topics the embedding   *)
(* finds in them: two candidates are similar if their topics are next to each       *)
(* other, which is not transitive.                                                 *)
(***************************************************************************)
EXTENDS Naturals, Sequences, SequencesExt, FiniteSets

CONSTANTS MaxItems,     \* max_items
          RefineChunk,  \* refine_chunk_size
          Topic,        \* the topic of each key
          Usable        \* keys with min_words to max_words words

ListsAssumption ==
  /\ {MaxItems, RefineChunk} \subseteq Nat \ {0}
  /\ Topic \in [DOMAIN Topic -> Nat] /\ Usable \subseteq DOMAIN Topic

Shorter(m, n) == IF m < n THEN m ELSE n
First(list, n) == SubSeq(list, 1, Shorter(n, Len(list)))

\* The candidates whose key was not there before.
Distinct(list) ==
  LET keep(out, c) == IF \E i \in DOMAIN out : out[i].key = c.key THEN out ELSE Append(out, c)
  IN  FoldLeft(keep, <<>>, list)

-----------------------------------------------------------------------------
(* keywords *)

\* Mutant of Count: a chunk counts as often as it repeats a candidate.
CountAll(lists, key) ==
  Cardinality({p \in UNION {{i} \X DOMAIN lists[i] : i \in DOMAIN lists} :
                 lists[p[1]][p[2]].key = key})

\* The chunks that gave a candidate.
Count(lists, key) ==
  Cardinality({i \in DOMAIN lists : \E k \in DOMAIN lists[i] : lists[i][k].key = key})

\* _merge_candidates: by the number of chunks, then by first appearance.
MergeCandidates(lists) ==
  LET firsts == Distinct(FlattenSeq(lists))
      before(i, k) == \/ Count(lists, firsts[i].key) > Count(lists, firsts[k].key)
                      \/ Count(lists, firsts[i].key) = Count(lists, firsts[k].key) /\ i < k
      at(n) == CHOOSE i \in DOMAIN firsts :
                 Cardinality({k \in DOMAIN firsts : before(k, i)}) = n - 1
  IN  First([n \in DOMAIN firsts |-> firsts[at(n)]], MaxItems)

\* _merge_pipeline of keywords: sentences of the document if the model gave nothing.
Keywords(lists, sentences) ==
  LET merged == MergeCandidates(lists)
  IN  IF merged # <<>> THEN merged ELSE First(Distinct(sentences), MaxItems)

-----------------------------------------------------------------------------
(* key-point *)

\* A run of the merge meets a `model`, what answered it and what: whether it is asked to
\* refine at all (`refines`), whether the embedding service answers when the candidates
\* are compared (`merge`), after refining (`refined`) and for the chunks (`rank`), and
\* what the model replies: in each of the `rounds` a list for each piece, and the `last`
\* one.  A call that fails and a reply without a line count as an empty list.
Reply(replies, i) == IF i \in DOMAIN replies THEN replies[i] ELSE <<>>

Similar(c, d) == Topic[c.key] <= Topic[d.key] + 1 /\ Topic[d.key] <= Topic[c.key] + 1

\* _semantic_dedupe, which keeps all where the embedding service is not `up`.
SemanticDedupe(list, up) ==
  LET keep(out, c) == IF \E i \in DOMAIN out : Similar(out[i], c) THEN out ELSE Append(out, c)
  IN  IF up THEN FoldLeft(keep, <<>>, list) ELSE list

\* _refine_chunk takes whatever lines the model replies with.
RefineOnce(list, reply) == IF list = <<>> \/ reply = <<>> THEN list ELSE reply

Pieces(list) ==
  [i \in 1 .. (Len(list) + RefineChunk - 1) \div RefineChunk |->
     SubSeq(list, (i - 1) * RefineChunk + 1, Shorter(i * RefineChunk, Len(list)))]

\* A round of _refine_chunked over a list longer than a piece.
RefineRound(list, round) ==
  LET pieces == Pieces(list)
  IN  SemanticDedupe(Distinct(FlattenSeq(
        [i \in DOMAIN pieces |-> RefineOnce(pieces[i], Reply(round.replies, i))])), round.up)

\* The rounds until the list fits into one piece.  Nothing makes it shorter, or bounds
\* the rounds: `NoEnd` if those of the model are not enough.
NoEnd == <<[key |-> 0]>>

RefineChunked(list, model) ==
  LET after[n \in 0 .. Len(model.rounds)] ==
        IF n = 0 THEN list
        ELSE IF Len(after[n - 1]) <= RefineChunk THEN after[n - 1]
        ELSE RefineRound(after[n - 1], model.rounds[n])
      cut == after[Len(model.rounds)]
  IN  IF Len(cut) <= RefineChunk THEN RefineOnce(cut, model.last) ELSE NoEnd

InWords(list) ==
  LET keep(out, c) == IF c.key \in Usable THEN Append(out, c) ELSE out
  IN  FoldLeft(keep, <<>>, list)

\* _rank_by_centrality: here the closer to topic 0 the more central.
Ranked(list, up) ==
  LET before(i, k) == \/ Topic[list[i].key] < Topic[list[k].key]
                      \/ Topic[list[i].key] = Topic[list[k].key] /\ i < k
      at(n) == CHOOSE i \in DOMAIN list : Cardinality({k \in DOMAIN list : before(k, i)}) = n - 1
  IN  IF up THEN [n \in DOMAIN list |-> list[at(n)]] ELSE list

Deduped(lists, model) ==
  SemanticDedupe(InWords(Distinct(FlattenSeq(lists))), model.merge)

Refines(deduped, model) == model.refines /\ Len(deduped) > MaxItems

\* What is left to be ranked, NoEnd if refining does not end.
Refined(deduped, model) ==
  LET Checked(refined) ==
        IF refined = NoEnd THEN NoEnd ELSE SemanticDedupe(InWords(refined), model.refined)
  IN  IF Refines(deduped, model) THEN Checked(RefineChunked(deduped, model)) ELSE deduped

\* Whether what is left was compared by its embeddings.
Compared(deduped, model) == IF Refines(deduped, model) THEN model.refined ELSE model.merge

\* Filled up with sentences of the document.
FilledUp(refined, sentences, up) ==
  IF refined = NoEnd THEN NoEnd
  ELSE First(Distinct(First(Distinct(Ranked(refined, up)), MaxItems) \o InWords(sentences)),
             MaxItems)

\* _merge_pipeline of key-point
KeyPoints(lists, sentences, model) ==
  LET deduped == Deduped(lists, model)
  IN  FilledUp(Refined(deduped, model), sentences, Compared(deduped, model) /\ model.rank)

-----------------------------------------------------------------------------
(* entity-extraction *)

\* _extract_entities keeps an allowed label, with a capital unless it is exempt.
Proper(e) == e.label # "other" /\ (e.label = "PERSON" => e.capital)

\* _dedupe keeps the first entity of each key.
Entities(lists) ==
  LET keep(out, e) == IF Proper(e) /\ \A i \in DOMAIN out : out[i].key # e.key
                      THEN Append(out, e) ELSE out
  IN  FoldLeft(keep, <<>>, FlattenSeq(lists))

-----------------------------------------------------------------------------
Places(lists) == UNION {{i} \X DOMAIN lists[i] : i \in DOMAIN lists}
DistinctKeys(list) == \A i, k \in DOMAIN list : list[i].key = list[k].key => i = k

FirstOf(lists, key) ==
  CHOOSE p \in Places(lists) : lists[p[1]][p[2]].key = key /\
    \A q \in Places(lists) : lists[q[1]][q[2]].key = key =>
      p[1] < q[1] \/ (p[1] = q[1] /\ p[2] <= q[2])
Sooner(p, q) == p[1] < q[1] \/ (p[1] = q[1] /\ p[2] < q[2])

GivenBy(lists, key) == {i \in DOMAIN lists : key \in {lists[i][k].key : k \in DOMAIN lists[i]}}

\* Candidate c, which is not a keyword, has no better claim than keyword k.
NoBetter(lists, c, k) ==
  \/ Cardinality(GivenBy(lists, k.key)) > Cardinality(GivenBy(lists, c.key))
  \/ /\ Cardinality(GivenBy(lists, k.key)) = Cardinality(GivenBy(lists, c.key))
     /\ Sooner(FirstOf(lists, k.key), FirstOf(lists, c.key))

MostFrequent(keywords, lists, sentences) ==
  /\ Len(keywords) <= MaxItems /\ DistinctKeys(keywords)
  /\ (FlattenSeq(lists) # <<>> \/ sentences # <<>>) => keywords # <<>>
  /\ \A p \in Places(lists) :
       LET c == lists[p[1]][p[2]] IN
         \/ \A i \in DOMAIN keywords : c.key # keywords[i].key /\ NoBetter(lists, c, keywords[i])
         \/ \E i \in DOMAIN keywords :
              /\ keywords[i].key = c.key
              /\ p = FirstOf(lists, c.key) => keywords[i] = c

\* Keywords: none twice and not too many; none is left out that more chunks gave
\* than one that is in, nor, of those as many gave, one that came first; and each
\* is written as it was when it first came.
KeywordsAreMostFrequent(lists, sentences) ==
  MostFrequent(Keywords(lists, sentences), lists, sentences)

DistinctPoints(points, deduped, given, sentences, model) ==
  LET Said(i) == \A k \in DOMAIN sentences : sentences[k].key # points[i].key
      Stands(i, c) == IF model.merge THEN Similar(points[i], c) ELSE points[i].key = c.key
  IN  points # NoEnd =>
        /\ Len(points) <= MaxItems /\ DistinctKeys(points)
        /\ \A i \in DOMAIN points : points[i].key \in Usable
        /\ Compared(deduped, model) =>
             \A i, k \in DOMAIN points :
               i # k /\ Said(i) /\ Said(k) => ~Similar(points[i], points[k])
        /\ ~Refines(deduped, model) /\ Len(points) < MaxItems =>
             \A c \in given : \E i \in DOMAIN points : Stands(i, c)

\* Key points: whatever the model replies, and whether or not the embedding service
\* answers, none comes twice, none is too long or too short, and there are not too many;
\* no two that the model gave are similar if what was left could be compared; and unless
\* the model was asked to refine them, none that it gave is left out, but for one similar
\* to it (one with its key if nothing could be compared), while there is room.
KeyPointsAreDistinct(lists, sentences, model) ==
  DistinctPoints(KeyPoints(lists, sentences, model), Deduped(lists, model),
                 {c \in ToSet(FlattenSeq(lists)) : c.key \in Usable}, sentences, model)

\* Entities: one entry for each word that a chunk gave a label it may have, with the
\* first such label, whatever the labels the others gave it, and no other entry.
EntitiesAreUnique(lists) ==
  LET entities == Entities(lists)
      all == FlattenSeq(lists)
      IsFirstOf(k) == \A j \in 1 .. k - 1 : Proper(all[j]) => all[j].key # all[k].key
  IN  /\ DistinctKeys(entities)
      /\ \A n \in DOMAIN entities : \E k \in DOMAIN all : Proper(all[k]) /\ entities[n] = all[k]
      /\ \A k \in DOMAIN all : Proper(all[k]) =>
           \E n \in DOMAIN entities :
             entities[n].key = all[k].key /\ (IsFirstOf(k) => entities[n] = all[k])
=============================================================================
