-------------------------- MODULE MCDocuments_proofs --------------------------
(***************************************************************************)
(* Proofs about what the tasks on documents make of replies of the model:       *)
(* retries, entities, keywords, datasets, key points, translations,             *)
(* for documents and replies of any length; and about an invariant of           *)
(* MCDocuments.  The induction is that of DocumentTexts_proofs.                 *)
(***************************************************************************)
EXTENDS MCDocuments, DocumentTexts_proofs

-----------------------------------------------------------------------------
(* The replies of the model (Replies) *)

\* Where a set of numbers has its least one.
LEMMA LeastIs ==
  ASSUME NEW T, T \subseteq Nat, T # {}
  PROVE  Min(T) \in T /\ \A y \in T : Min(T) <= y
<1>1. \E x \in T : \A y \in T : x <= y
  BY LeastNumber
<1> QED  BY <1>1 DEF Min

\* The first text that is a value is the one that is taken.
LEMMA FirstJsonIs ==
  ASSUME NEW n \in Nat, NEW texts, DOMAIN texts = 1 .. n
  PROVE  \/ /\ \A i \in 1 .. n : texts[i] \notin Json
            /\ FirstJson(texts) = NoValue
         \/ \E i \in 1 .. n : /\ texts[i] \in Json /\ FirstJson(texts) = texts[i]
                              /\ \A j \in 1 .. i - 1 : texts[j] \notin Json
<1> DEFINE T == {i \in DOMAIN texts : texts[i] \in Json}
<1>1. FirstJson(texts) = IF T = {} THEN NoValue ELSE texts[Min(T)]
  BY DEF FirstJson
<1>2. T \subseteq 1 .. n /\ \A i \in 1 .. n : i \in T <=> texts[i] \in Json
  OBVIOUS
<1> HIDE DEF T
<1>3. CASE T = {}
  BY ONLY <1>1, <1>2, <1>3
<1>4. CASE T # {}
  <2>1. T \subseteq Nat
    BY ONLY <1>2, n \in Nat
  <2>2. PICK i \in T : i = Min(T) /\ \A y \in T : i <= y
    BY ONLY <1>4, <2>1, LeastIs
  <2>3. i \in 1 .. n /\ texts[i] \in Json
    BY ONLY <1>2, <2>2
  <2>4. ASSUME NEW j \in 1 .. i - 1 PROVE texts[j] \notin Json
    BY ONLY <1>2, <2>2, <2>3, <2>4, n \in Nat
  <2> QED  BY ONLY <1>1, <1>4, <2>2, <2>3, <2>4
<1> QED  BY ONLY <1>3, <1>4

\* When replies that hold no value are asked for again, the value of the first reply
\* that holds one counts, and one counts if any of them holds one (chat_json).
THEOREM TheFirstCounts ==
  ASSUME NEW replies, DOMAIN replies \subseteq Nat \ {0}, MaxRetries \in Nat,
         NoValue \notin Json
  PROVE  RetriesFindTheFirst(replies)
<1> DEFINE texts == [n \in 1 .. MaxRetries + 1 |-> ParseJson(replies[n])]
<1>1. ChatJson(replies) = FirstJson(texts)
  BY DEF ChatJson
<1>2. \A n \in 1 .. MaxRetries + 1 : texts[n] = ParseJson(replies[n])
  OBVIOUS
<1>3. DOMAIN texts = 1 .. MaxRetries + 1 /\ MaxRetries + 1 \in Nat
  OBVIOUS
<1>4. ASSUME NEW text PROVE ParseJson(text) \in Json \cup {NoValue}
  <2> DEFINE tries == <<StripFences(text),
                        ExtractOutermost(StripFences(text), "{", "}"),
                        ExtractOutermost(StripFences(text), "[", "]")>>
  <2>1. ParseJson(text) = FirstJson(tries)
    BY DEF ParseJson, ParseStripped
  <2> DEFINE three == 3
  <2>2. DOMAIN tries = 1 .. three /\ three \in Nat
    OBVIOUS
  <2> HIDE DEF tries, three
  <2> QED  BY ONLY <2>1, <2>2, FirstJsonIs
<1> HIDE DEF texts
<1>5. ASSUME NEW n \in DOMAIN replies, n <= MaxRetries + 1,
             ParseJson(replies[n]) # NoValue
      PROVE  \/ ChatJson(replies) = ParseJson(replies[n])
             \/ \E k \in 1 .. n - 1 : ParseJson(replies[k]) # NoValue
  <2>1. n \in 1 .. MaxRetries + 1
    BY ONLY <1>5, DOMAIN replies \subseteq Nat \ {0}, MaxRetries \in Nat
  <2>2. texts[n] \in Json
    BY ONLY <1>2, <1>4, <1>5, <2>1
  <2> DEFINE m == MaxRetries + 1
  <2>6. /\ m \in Nat /\ n \in 1 .. m /\ DOMAIN texts = 1 .. m
    BY ONLY <1>3, <2>1
  <2> HIDE DEF m
  <2>7. PICK i \in 1 .. m :
          /\ texts[i] \in Json /\ FirstJson(texts) = texts[i]
          /\ \A j \in 1 .. i - 1 : texts[j] \notin Json
    BY ONLY <2>2, <2>6, FirstJsonIs
  <2>3. i \in 1 .. MaxRetries + 1
    BY ONLY <2>7 DEF m
  <2>4. i = n \/ i \in 1 .. n - 1 \/ n \in 1 .. i - 1
    BY ONLY <2>1, <2>3, MaxRetries \in Nat
  <2>5. ParseJson(replies[i]) # NoValue
    BY ONLY <1>2, <2>3, <2>7, NoValue \notin Json
  <2> QED  BY ONLY <1>1, <1>2, <2>1, <2>2, <2>3, <2>4, <2>5, <2>7
<1> QED  BY ONLY <1>5 DEF RetriesFindTheFirst

-----------------------------------------------------------------------------
(* Lists: the candidates whose key was not there before *)

DistinctAdd(out, c) == IF \E i \in DOMAIN out : out[i].key = c.key THEN out ELSE Append(out, c)
DistinctSteps(list, h) ==
  h[0] = <<>> /\ \A i \in 1 .. Len(list) : h[i] = DistinctAdd(h[i - 1], list[i])
DistinctAfter(L, list, last) ==
  \E h \in [0 .. Len(list) -> Seq(L)] : DistinctSteps(list, h) /\ last = h[Len(list)]

LEMMA DistinctAddType ==
  ASSUME NEW L, NEW c, c \in L, NEW out, out \in Seq(L)
  PROVE  DistinctAdd(out, c) \in Seq(L)
<1>1. Append(out, c) \in Seq(L)
  BY ONLY c \in L, out \in Seq(L), AppendIs
<1> QED  BY ONLY <1>1, out \in Seq(L) DEF DistinctAdd

\* The loop over the candidates.
LEMMA DistinctFold ==
  ASSUME NEW L, NEW list, list \in Seq(L)
  PROVE  DistinctAfter(L, list, Distinct(list))
<1> DEFINE n == Len(list)
           V == Seq(L)
           v == <<>>
           step(out, e) == DistinctAdd(out, e)
           F == [i \in 1 .. n |-> [out \in V |-> step(out, list[i])]]
           Is(f) == f = [S \in SUBSET DOMAIN list |->
                           IF S = {} THEN v ELSE step(f[S \ {Max(S)}], list[Max(S)])]
           iter == CHOOSE f : Is(f)
<1>1. n \in Nat /\ v \in V
  BY ONLY list \in Seq(L), LenProperties, EmptySeq
<1>2. \A i \in 1 .. n : \A out \in V : step(out, list[i]) \in V
  <2> TAKE i \in 1 .. n
  <2> TAKE out \in V
  <2>1. list[i] \in L
    BY ONLY list \in Seq(L), ElementOfSeq, i \in 1 .. n
  <2> QED  BY ONLY <2>1, out \in V, DistinctAddType
<1>3. F \in [1 .. n -> [V -> V]]
  <2> HIDE DEF step, V, n
  <2> QED  BY ONLY <1>2
<1>4. \A S \in SUBSET (1 .. n) : S # {} => Max(S) \in 1 .. n /\ S \ {Max(S)} \in SUBSET (1 .. n)
  <2> HIDE DEF n
  <2> QED  BY ONLY <1>1, MaxIn
<1>5. PICK g \in [SUBSET (1 .. n) -> V] :
        \A S \in SUBSET (1 .. n) : g[S] = IF S = {} THEN v ELSE F[Max(S)][g[S \ {Max(S)}]]
  <2> HIDE DEF F, V, n, v
  <2>1. Folded(V, n, v, F)
    BY ONLY <1>1, <1>3, FoldExists
  <2> QED  BY ONLY <2>1 DEF Folded, Folds
<1>6. DOMAIN list = 1 .. n
  <2>1. DOMAIN list = 1 .. n
    BY ONLY list \in Seq(L), LenProperties
  <2> QED  BY ONLY <2>1
<1>7. Is(g)
  <2> HIDE DEF step, V, n, v
  <2>1. ASSUME NEW S \in SUBSET (1 .. n)
        PROVE  g[S] = IF S = {} THEN v ELSE step(g[S \ {Max(S)}], list[Max(S)])
    <3>1. CASE S = {}
      BY ONLY <1>5, <3>1, S \in SUBSET (1 .. n)
    <3>2. CASE S # {}
      BY ONLY <1>4, <1>5, <3>2, S \in SUBSET (1 .. n)
    <3> QED  BY ONLY <3>1, <3>2
  <2> QED  BY ONLY <1>5, <1>6, <2>1
<1>8. Is(iter)
  <2> HIDE DEF Is
  <2> QED  BY <1>7
<1>9. Distinct(list) = iter[1 .. n]
  BY <1>6 DEF Distinct, FoldLeft, MapThenFoldSet, DistinctAdd
<1>10. /\ iter[{}] = v
       /\ \A S \in SUBSET (1 .. n) :
            S # {} /\ iter[S \ {Max(S)}] \in V => iter[S] = F[Max(S)][iter[S \ {Max(S)}]]
  <2> HIDE DEF step, V, iter, n, v
  <2>1. \A S \in SUBSET (1 .. n) :
          iter[S] = IF S = {} THEN v ELSE step(iter[S \ {Max(S)}], list[Max(S)])
    BY ONLY <1>6, <1>8
  <2> QED  BY ONLY <1>4, <2>1
<1>11. PICK h \in [0 .. n -> V] :
         /\ h[0] = v /\ \A i \in 1 .. n : h[i] = F[i][h[i - 1]]
         /\ iter[1 .. n] = h[n]
  <2> HIDE DEF F, V, iter, n, v
  <2>1. FoldsIn(V, n, v, F, iter)
    BY ONLY <1>10 DEF FoldsIn
  <2>2. IteratedTo(V, n, v, F, iter[1 .. n])
    BY ONLY <1>1, <1>3, <2>1, FoldGoesOn
  <2> QED  BY ONLY <2>2 DEF IteratedTo, Iterates
<1>12. \A i \in 1 .. n : h[i] = step(h[i - 1], list[i])
  <2> HIDE DEF step, V
  <2> TAKE i \in 1 .. n
  <2> HIDE DEF n
  <2>1. h[i - 1] \in V
    <3>1. i - 1 \in 0 .. n
      BY ONLY <1>1, i \in 1 .. n
    <3> QED  BY ONLY <1>11, <3>1
  <2> QED  BY ONLY <1>11, <2>1, i \in 1 .. n
<1>13. DistinctSteps(list, h)
  BY ONLY <1>11, <1>12 DEF DistinctSteps
<1> HIDE DEF iter
<1> QED  BY ONLY <1>9, <1>11, <1>13 DEF DistinctAfter

\* Of the candidates up to the i-th, the first of each key, in their order.
FirstAt(list, j) == \A k \in 1 .. j - 1 : list[k].key # list[j].key
EarlierIn(list, i, a, b) ==
  \A q \in 1 .. i : list[q].key = b.key => \E p \in 1 .. q - 1 : list[p].key = a.key
FirstOnesOf(list, i, out) ==
  /\ \A a \in 1 .. Len(out) : \E j \in 1 .. i : out[a] = list[j] /\ FirstAt(list, j)
  /\ \A j \in 1 .. i : \E a \in 1 .. Len(out) : out[a].key = list[j].key
  /\ \A a, b \in 1 .. Len(out) : a < b => EarlierIn(list, i, out[a], out[b])
KeysDiffer(out) == \A a, b \in 1 .. Len(out) : out[a].key = out[b].key => a = b
DistinctIn(L, list, i, out) == out \in Seq(L) /\ KeysDiffer(out) /\ FirstOnesOf(list, i, out)

LEMMA DistinctAddKeeps ==
  ASSUME NEW L, NEW list, list \in Seq(L), NEW i \in 1 .. Len(list),
         NEW out, DistinctIn(L, list, i - 1, out)
  PROVE  DistinctIn(L, list, i, DistinctAdd(out, list[i]))
<1> DEFINE c == list[i]
           m == Len(out)
<1>1. /\ out \in Seq(L) /\ KeysDiffer(out)
      /\ \A a \in 1 .. m : \E j \in 1 .. i - 1 : out[a] = list[j] /\ FirstAt(list, j)
      /\ \A j \in 1 .. i - 1 : \E a \in 1 .. m : out[a].key = list[j].key
      /\ \A a, b \in 1 .. m : a < b => EarlierIn(list, i - 1, out[a], out[b])
  BY ONLY DistinctIn(L, list, i - 1, out) DEF DistinctIn, FirstOnesOf
<1>2. c \in L /\ Len(list) \in Nat /\ i \in Nat \ {0} /\ m \in Nat /\ DOMAIN out = 1 .. m
  BY ONLY <1>1, list \in Seq(L), LenProperties, ElementOfSeq, i \in 1 .. Len(list)
<1>3. /\ \A j \in 1 .. i : j \in 1 .. i - 1 \/ j = i
      /\ \A j \in 1 .. i - 1 : j \in 1 .. i
      /\ i \in 1 .. i
  BY ONLY <1>2
<1>4. CASE \E a \in 1 .. m : out[a].key = c.key
  <2>1. PICK d \in 1 .. m : out[d].key = c.key
    BY ONLY <1>4
  <2>2. DistinctAdd(out, c) = out
    BY ONLY <1>2, <1>4 DEF DistinctAdd
  <2>3. \A a \in 1 .. m : \E j \in 1 .. i : out[a] = list[j] /\ FirstAt(list, j)
    BY ONLY <1>1, <1>3
  <2>4. \A j \in 1 .. i : \E a \in 1 .. m : out[a].key = list[j].key
    BY ONLY <1>1, <1>3, <2>1
  <2>5. ASSUME NEW a \in 1 .. m, NEW b \in 1 .. m, a < b PROVE EarlierIn(list, i, out[a], out[b])
    <3> SUFFICES ASSUME NEW q \in 1 .. i, list[q].key = out[b].key
        PROVE  \E p \in 1 .. q - 1 : list[p].key = out[a].key
      BY DEF EarlierIn
    <3>1. EarlierIn(list, i - 1, out[a], out[b])
      BY ONLY <1>1, <2>5
    <3>2. CASE q \in 1 .. i - 1
      BY ONLY <3>1, <3>2, list[q].key = out[b].key DEF EarlierIn
    <3>3. CASE q = i
      <4>1. PICK j \in 1 .. i - 1 : out[b] = list[j]
        BY ONLY <1>1
      <4>2. PICK p \in 1 .. j - 1 : list[p].key = out[a].key
        BY ONLY <3>1, <4>1 DEF EarlierIn
      <4>3. p \in 1 .. q - 1
        BY ONLY <1>2, <3>3, <4>1, <4>2
      <4> QED  BY ONLY <4>2, <4>3
    <3> QED  BY ONLY <1>3, <3>2, <3>3
  <2> QED  BY ONLY <1>1, <2>2, <2>3, <2>4, <2>5 DEF DistinctIn, FirstOnesOf
<1>5. CASE \A a \in 1 .. m : out[a].key # c.key
  <2> DEFINE l == Append(out, c)
  <2>1. DistinctAdd(out, c) = l
    BY ONLY <1>2, <1>5 DEF DistinctAdd
  <2>2. l \in Seq(L) /\ Appended(out, c, l)
    BY ONLY <1>1, <1>2, AppendIs
  <2>3. Len(l) = m + 1 /\ l[m + 1] = c /\ \A a \in 1 .. m : l[a] = out[a]
    BY ONLY <2>2 DEF Appended
  <2> HIDE DEF l
  <2>4. /\ \A a \in 1 .. m + 1 : a \in 1 .. m \/ a = m + 1
        /\ \A a \in 1 .. m : a \in 1 .. m + 1 /\ a < m + 1
        /\ m + 1 \in 1 .. m + 1
        /\ \A a, b \in 1 .. m + 1 : a < b => a \in 1 .. m
    BY ONLY <1>2
  <2>5. KeysDiffer(l)
    <3>1. \A a, b \in 1 .. m : out[a].key = out[b].key => a = b
      BY ONLY <1>1 DEF KeysDiffer
    <3> QED  BY ONLY <1>5, <2>3, <2>4, <3>1 DEF KeysDiffer
  <2>6. FirstAt(list, i)
    <3>1. ASSUME NEW k \in 1 .. i - 1 PROVE list[k].key # list[i].key
      BY ONLY <1>1, <1>5, <3>1
    <3> QED  BY ONLY <3>1 DEF FirstAt
  <2>7. \A a \in 1 .. m + 1 : \E j \in 1 .. i : l[a] = list[j] /\ FirstAt(list, j)
    BY ONLY <1>1, <1>3, <2>3, <2>4, <2>6
  <2>8. \A j \in 1 .. i : \E a \in 1 .. m + 1 : l[a].key = list[j].key
    BY ONLY <1>1, <1>3, <2>3, <2>4
  <2>9. ASSUME NEW a \in 1 .. m + 1, NEW b \in 1 .. m + 1, a < b PROVE EarlierIn(list, i, l[a], l[b])
    <3> SUFFICES ASSUME NEW q \in 1 .. i, list[q].key = l[b].key
        PROVE  \E p \in 1 .. q - 1 : list[p].key = l[a].key
      BY DEF EarlierIn
    <3>1. a \in 1 .. m
      BY ONLY <2>4, <2>9
    <3>2. PICK j \in 1 .. i - 1 : out[a] = list[j]
      BY ONLY <1>1, <3>1
    <3>3. CASE q = i
      BY ONLY <2>3, <3>1, <3>2, <3>3
    <3>4. CASE q \in 1 .. i - 1
      <4>1. b \in 1 .. m
        <5>1. PICK d \in 1 .. m : out[d].key = list[q].key
          BY ONLY <1>1, <3>4
        <5>2. b # m + 1
          BY ONLY <1>5, <2>3, <5>1, list[q].key = l[b].key
        <5> QED  BY ONLY <2>4, <5>2
      <4>2. EarlierIn(list, i - 1, out[a], out[b])
        BY ONLY <1>1, <2>9, <3>1, <4>1
      <4> QED  BY ONLY <2>3, <3>1, <3>4, <4>1, <4>2, list[q].key = l[b].key DEF EarlierIn
    <3> QED  BY ONLY <1>3, <3>3, <3>4
  <2> QED  BY ONLY <2>1, <2>2, <2>3, <2>5, <2>7, <2>8, <2>9 DEF DistinctIn, FirstOnesOf
<1> QED  BY ONLY <1>2, <1>4, <1>5

\* Distinct gives the first candidate of each key, in their order.
LEMMA DistinctIs ==
  ASSUME NEW L, NEW list, list \in Seq(L)
  PROVE  DistinctIn(L, list, Len(list), Distinct(list))
<1> DEFINE n == Len(list)
<1>1. n \in Nat
  BY ONLY list \in Seq(L), LenProperties
<1>2. DistinctAfter(L, list, Distinct(list))
  BY ONLY list \in Seq(L), DistinctFold
<1>3. PICK h \in [0 .. n -> Seq(L)] : DistinctSteps(list, h) /\ Distinct(list) = h[n]
  BY ONLY <1>2 DEF DistinctAfter
<1>4. h[0] = <<>> /\ \A i \in 1 .. n : h[i] = DistinctAdd(h[i - 1], list[i])
  BY ONLY <1>3 DEF DistinctSteps
<1> HIDE DEF n
<1> DEFINE S == {i \in 0 .. n : DistinctIn(L, list, i, h[i])}
<1>5. 0 \in S
  <2>1. <<>> \in Seq(L) /\ Len(<<>>) = 0 /\ \A a \in 1 .. 0 : FALSE
    BY EmptySeq
  <2>2. DistinctIn(L, list, 0, <<>>)
    BY ONLY <2>1 DEF DistinctIn, KeysDiffer, FirstOnesOf
  <2> QED  BY ONLY <1>1, <1>4, <2>2
<1>6. \A k \in 0 .. n - 1 : k \in S => k + 1 \in S
  <2> SUFFICES ASSUME NEW k \in 0 .. n - 1, k \in S PROVE k + 1 \in S
    OBVIOUS
  <2>1. k + 1 \in 1 .. n /\ (k + 1) - 1 = k /\ k + 1 \in 0 .. n
    BY ONLY <1>1, k \in 0 .. n - 1
  <2>2. h[k + 1] = DistinctAdd(h[k], list[k + 1])
    BY ONLY <1>4, <2>1
  <2>3. DistinctIn(L, list, (k + 1) - 1, h[k])
    BY ONLY <2>1, k \in S
  <2>4. DistinctIn(L, list, k + 1, h[k + 1])
    BY ONLY <2>1, <2>2, <2>3, list \in Seq(L), DistinctAddKeeps DEF n
  <2> QED  BY ONLY <2>1, <2>4
<1>7. \A k \in 0 .. n : k \in S
  <2> HIDE DEF S
  <2> QED  BY ONLY <1>1, <1>5, <1>6, Upwards
<1>8. n \in 0 .. n
  BY ONLY <1>1
<1> QED  BY ONLY <1>3, <1>7, <1>8 DEF n

-----------------------------------------------------------------------------
(* Entities *)

EntityAdd(out, e) ==
  IF Proper(e) /\ \A i \in DOMAIN out : out[i].key # e.key THEN Append(out, e) ELSE out
EntitySteps(all, h) ==
  h[0] = <<>> /\ \A i \in 1 .. Len(all) : h[i] = EntityAdd(h[i - 1], all[i])
EntitiesAfter(E, all, last) ==
  \E h \in [0 .. Len(all) -> Seq(E)] : EntitySteps(all, h) /\ last = h[Len(all)]

LEMMA EntityAddType ==
  ASSUME NEW E, NEW e, e \in E, NEW out, out \in Seq(E)
  PROVE  EntityAdd(out, e) \in Seq(E)
<1>1. Append(out, e) \in Seq(E)
  BY ONLY e \in E, out \in Seq(E), AppendIs
<1> QED  BY ONLY <1>1, out \in Seq(E) DEF EntityAdd

\* The loop over the entities of all chunks.
LEMMA EntitiesFold ==
  ASSUME NEW E, NEW lists, NEW all, all = FlattenSeq(lists), all \in Seq(E)
  PROVE  EntitiesAfter(E, all, Entities(lists))
<1> DEFINE n == Len(all)
           V == Seq(E)
           v == <<>>
           step(out, e) == EntityAdd(out, e)
           F == [i \in 1 .. n |-> [out \in V |-> step(out, all[i])]]
           Is(f) == f = [S \in SUBSET DOMAIN all |->
                           IF S = {} THEN v ELSE step(f[S \ {Max(S)}], all[Max(S)])]
           iter == CHOOSE f : Is(f)
<1>1. n \in Nat /\ v \in V
  BY ONLY all \in Seq(E), LenProperties, EmptySeq
<1>2. \A i \in 1 .. n : \A out \in V : step(out, all[i]) \in V
  <2> TAKE i \in 1 .. n
  <2> TAKE out \in V
  <2>1. all[i] \in E
    BY ONLY all \in Seq(E), ElementOfSeq, i \in 1 .. n
  <2> QED  BY ONLY <2>1, out \in V, EntityAddType
<1>3. F \in [1 .. n -> [V -> V]]
  <2> HIDE DEF step, V, n
  <2> QED  BY ONLY <1>2
<1>4. \A S \in SUBSET (1 .. n) : S # {} => Max(S) \in 1 .. n /\ S \ {Max(S)} \in SUBSET (1 .. n)
  <2> HIDE DEF n
  <2> QED  BY ONLY <1>1, MaxIn
<1>5. PICK g \in [SUBSET (1 .. n) -> V] :
        \A S \in SUBSET (1 .. n) : g[S] = IF S = {} THEN v ELSE F[Max(S)][g[S \ {Max(S)}]]
  <2> HIDE DEF F, V, n, v
  <2>1. Folded(V, n, v, F)
    BY ONLY <1>1, <1>3, FoldExists
  <2> QED  BY ONLY <2>1 DEF Folded, Folds
<1>6. DOMAIN all = 1 .. n
  <2>1. DOMAIN all = 1 .. n
    BY ONLY all \in Seq(E), LenProperties
  <2> QED  BY ONLY <2>1
<1>7. Is(g)
  <2> HIDE DEF step, V, n, v
  <2>1. ASSUME NEW S \in SUBSET (1 .. n)
        PROVE  g[S] = IF S = {} THEN v ELSE step(g[S \ {Max(S)}], all[Max(S)])
    <3>1. CASE S = {}
      BY ONLY <1>5, <3>1, S \in SUBSET (1 .. n)
    <3>2. CASE S # {}
      BY ONLY <1>4, <1>5, <3>2, S \in SUBSET (1 .. n)
    <3> QED  BY ONLY <3>1, <3>2
  <2> QED  BY ONLY <1>5, <1>6, <2>1
<1>8. Is(iter)
  <2> HIDE DEF Is
  <2> QED  BY <1>7
<1>9. Entities(lists) = iter[1 .. n]
  BY <1>6 DEF Entities, FoldLeft, MapThenFoldSet, EntityAdd, Proper
<1>10. /\ iter[{}] = v
       /\ \A S \in SUBSET (1 .. n) :
            S # {} /\ iter[S \ {Max(S)}] \in V => iter[S] = F[Max(S)][iter[S \ {Max(S)}]]
  <2> HIDE DEF step, V, iter, n, v
  <2>1. \A S \in SUBSET (1 .. n) :
          iter[S] = IF S = {} THEN v ELSE step(iter[S \ {Max(S)}], all[Max(S)])
    BY ONLY <1>6, <1>8
  <2> QED  BY ONLY <1>4, <2>1
<1>11. PICK h \in [0 .. n -> V] :
         /\ h[0] = v /\ \A i \in 1 .. n : h[i] = F[i][h[i - 1]]
         /\ iter[1 .. n] = h[n]
  <2> HIDE DEF F, V, iter, n, v
  <2>1. FoldsIn(V, n, v, F, iter)
    BY ONLY <1>10 DEF FoldsIn
  <2>2. IteratedTo(V, n, v, F, iter[1 .. n])
    BY ONLY <1>1, <1>3, <2>1, FoldGoesOn
  <2> QED  BY ONLY <2>2 DEF IteratedTo, Iterates
<1>12. \A i \in 1 .. n : h[i] = step(h[i - 1], all[i])
  <2> HIDE DEF step, V
  <2> TAKE i \in 1 .. n
  <2> HIDE DEF n
  <2>1. h[i - 1] \in V
    <3>1. i - 1 \in 0 .. n
      BY ONLY <1>1, i \in 1 .. n
    <3> QED  BY ONLY <1>11, <3>1
  <2> QED  BY ONLY <1>11, <2>1, i \in 1 .. n
<1>13. EntitySteps(all, h)
  BY ONLY <1>11, <1>12 DEF EntitySteps
<1> HIDE DEF iter
<1> QED  BY ONLY <1>9, <1>11, <1>13 DEF EntitiesAfter

FirstProper(all, j) == \A q \in 1 .. j - 1 : Proper(all[q]) => all[q].key # all[j].key
EntitiesIn(E, all, i, out) ==
  /\ out \in Seq(E) /\ KeysDiffer(out)
  /\ \A a \in 1 .. Len(out) : \E j \in 1 .. i : Proper(all[j]) /\ out[a] = all[j]
  /\ \A j \in 1 .. i : Proper(all[j]) =>
       \E a \in 1 .. Len(out) :
         out[a].key = all[j].key /\ (FirstProper(all, j) => out[a] = all[j])

LEMMA EntityAddKeeps ==
  ASSUME NEW E, NEW all, all \in Seq(E), NEW i \in 1 .. Len(all),
         NEW out, EntitiesIn(E, all, i - 1, out)
  PROVE  EntitiesIn(E, all, i, EntityAdd(out, all[i]))
<1> DEFINE e == all[i]
           m == Len(out)
<1>1. /\ out \in Seq(E) /\ \A a, b \in 1 .. m : out[a].key = out[b].key => a = b
      /\ \A a \in 1 .. m : \E j \in 1 .. i - 1 : Proper(all[j]) /\ out[a] = all[j]
      /\ \A j \in 1 .. i - 1 : Proper(all[j]) =>
           \E a \in 1 .. m : out[a].key = all[j].key /\ (FirstProper(all, j) => out[a] = all[j])
  BY ONLY EntitiesIn(E, all, i - 1, out) DEF EntitiesIn, KeysDiffer
<1>2. e \in E /\ Len(all) \in Nat /\ i \in Nat \ {0} /\ m \in Nat /\ DOMAIN out = 1 .. m
  BY ONLY <1>1, all \in Seq(E), LenProperties, ElementOfSeq, i \in 1 .. Len(all)
<1>3. /\ \A j \in 1 .. i : j \in 1 .. i - 1 \/ j = i
      /\ \A j \in 1 .. i - 1 : j \in 1 .. i
      /\ i \in 1 .. i
  BY ONLY <1>2
<1>4. CASE Proper(e) /\ \A a \in 1 .. m : out[a].key # e.key
  <2> DEFINE l == Append(out, e)
  <2>1. EntityAdd(out, e) = l
    BY ONLY <1>2, <1>4 DEF EntityAdd
  <2>2. l \in Seq(E) /\ Appended(out, e, l)
    BY ONLY <1>1, <1>2, AppendIs
  <2>3. Len(l) = m + 1 /\ l[m + 1] = e /\ \A a \in 1 .. m : l[a] = out[a]
    BY ONLY <2>2 DEF Appended
  <2> HIDE DEF l
  <2>4. /\ \A a \in 1 .. m + 1 : a \in 1 .. m \/ a = m + 1
        /\ \A a \in 1 .. m : a \in 1 .. m + 1
        /\ m + 1 \in 1 .. m + 1
    BY ONLY <1>2
  <2>5. KeysDiffer(l)
    <3>1. ASSUME NEW a \in 1 .. m + 1, NEW b \in 1 .. m + 1, l[a].key = l[b].key PROVE a = b
      <4>1. CASE a = m + 1 /\ b \in 1 .. m
        BY ONLY <1>4, <2>3, <3>1, <4>1
      <4>2. CASE b = m + 1 /\ a \in 1 .. m
        BY ONLY <1>4, <2>3, <3>1, <4>2
      <4>3. CASE a \in 1 .. m /\ b \in 1 .. m
        BY ONLY <1>1, <2>3, <3>1, <4>3
      <4> QED  BY ONLY <2>4, <4>1, <4>2, <4>3
    <3> QED  BY ONLY <2>3, <3>1 DEF KeysDiffer
  <2>6. ASSUME NEW j \in 1 .. i, Proper(all[j])
        PROVE  \E a \in 1 .. m + 1 : l[a].key = all[j].key /\ (FirstProper(all, j) => l[a] = all[j])
    <3>1. CASE j = i
      BY ONLY <2>3, <2>4, <3>1
    <3>2. CASE j \in 1 .. i - 1
      <4>1. PICK a \in 1 .. m : out[a].key = all[j].key /\ (FirstProper(all, j) => out[a] = all[j])
        BY ONLY <1>1, <2>6, <3>2
      <4>2. a \in 1 .. m + 1 /\ l[a] = out[a]
        BY ONLY <2>3, <2>4, a \in 1 .. m
      <4> QED  BY ONLY <4>1, <4>2
    <3> QED  BY ONLY <1>3, <3>1, <3>2, j \in 1 .. i
  <2>7. ASSUME NEW a \in 1 .. m + 1
        PROVE  \E j \in 1 .. i : Proper(all[j]) /\ l[a] = all[j]
    <3>1. CASE a = m + 1
      BY ONLY <1>3, <1>4, <2>3, <3>1
    <3>2. CASE a \in 1 .. m
      <4>1. PICK j \in 1 .. i - 1 : Proper(all[j]) /\ out[a] = all[j]
        BY ONLY <1>1, <3>2
      <4>2. j \in 1 .. i /\ l[a] = out[a]
        BY ONLY <1>3, <2>3, <3>2, j \in 1 .. i - 1
      <4> QED  BY ONLY <4>1, <4>2
    <3> QED  BY ONLY <2>4, <3>1, <3>2, a \in 1 .. m + 1
  <2> QED  BY ONLY <2>1, <2>2, <2>3, <2>5, <2>6, <2>7 DEF EntitiesIn
<1>5. CASE ~(Proper(e) /\ \A a \in 1 .. m : out[a].key # e.key)
  <2>1. EntityAdd(out, e) = out
    BY ONLY <1>2, <1>5 DEF EntityAdd
  <2>2. ASSUME NEW j \in 1 .. i, Proper(all[j])
        PROVE  \E a \in 1 .. m : out[a].key = all[j].key /\ (FirstProper(all, j) => out[a] = all[j])
    <3>1. CASE j \in 1 .. i - 1
      BY ONLY <1>1, <2>2, <3>1
    <3>2. CASE j = i
      <4>1. PICK a \in 1 .. m : out[a].key = e.key
        BY ONLY <1>5, <2>2, <3>2
      <4>2. PICK q \in 1 .. i - 1 : Proper(all[q]) /\ out[a] = all[q]
        BY ONLY <1>1
      <4>3. ~FirstProper(all, i)
        BY ONLY <4>1, <4>2 DEF FirstProper
      <4> QED  BY ONLY <3>2, <4>1, <4>3
    <3> QED  BY ONLY <1>3, <3>1, <3>2, j \in 1 .. i
  <2>3. \A a \in 1 .. m : \E j \in 1 .. i : Proper(all[j]) /\ out[a] = all[j]
    BY ONLY <1>1, <1>3
  <2> QED  BY ONLY <1>1, <2>1, <2>2, <2>3 DEF EntitiesIn, KeysDiffer
<1> QED  BY ONLY <1>4, <1>5

LEMMA EntitiesAre ==
  ASSUME NEW E, NEW lists, NEW all, all = FlattenSeq(lists), all \in Seq(E)
  PROVE  EntitiesIn(E, all, Len(all), Entities(lists))
<1> DEFINE n == Len(all)
<1>1. n \in Nat
  BY ONLY all \in Seq(E), LenProperties
<1>2. EntitiesAfter(E, all, Entities(lists))
  BY ONLY all = FlattenSeq(lists), all \in Seq(E), EntitiesFold
<1>3. PICK h \in [0 .. n -> Seq(E)] : EntitySteps(all, h) /\ Entities(lists) = h[n]
  BY ONLY <1>2 DEF EntitiesAfter
<1>4. h[0] = <<>> /\ \A i \in 1 .. n : h[i] = EntityAdd(h[i - 1], all[i])
  BY ONLY <1>3 DEF EntitySteps
<1> HIDE DEF n
<1> DEFINE S == {i \in 0 .. n : EntitiesIn(E, all, i, h[i])}
<1>5. 0 \in S
  <2>1. <<>> \in Seq(E) /\ Len(<<>>) = 0 /\ \A a \in 1 .. 0 : FALSE
    BY EmptySeq
  <2>2. EntitiesIn(E, all, 0, <<>>)
    BY ONLY <2>1 DEF EntitiesIn, KeysDiffer
  <2> QED  BY ONLY <1>1, <1>4, <2>2
<1>6. \A k \in 0 .. n - 1 : k \in S => k + 1 \in S
  <2> SUFFICES ASSUME NEW k \in 0 .. n - 1, k \in S PROVE k + 1 \in S
    OBVIOUS
  <2>1. k + 1 \in 1 .. n /\ (k + 1) - 1 = k /\ k + 1 \in 0 .. n
    BY ONLY <1>1, k \in 0 .. n - 1
  <2>2. h[k + 1] = EntityAdd(h[k], all[k + 1])
    BY ONLY <1>4, <2>1
  <2>3. EntitiesIn(E, all, (k + 1) - 1, h[k])
    BY ONLY <2>1, k \in S
  <2>4. EntitiesIn(E, all, k + 1, h[k + 1])
    BY ONLY <2>1, <2>2, <2>3, all \in Seq(E), EntityAddKeeps DEF n
  <2> QED  BY ONLY <2>1, <2>4
<1>7. \A k \in 0 .. n : k \in S
  <2> HIDE DEF S
  <2> QED  BY ONLY <1>1, <1>5, <1>6, Upwards
<1>8. n \in 0 .. n
  BY ONLY <1>1
<1> QED  BY ONLY <1>3, <1>7, <1>8 DEF n

\* The entities of a document: one for each word that a chunk gave a label it may have,
\* with the first such label, and no other (_extract_entities and _dedupe of
\* tasks/entities).
THEOREM EntitiesUnique ==
  ASSUME NEW E, NEW lists, lists \in Seq(Seq(E))
  PROVE  EntitiesAreUnique(lists)
<1> DEFINE all == FlattenSeq(lists)
           out == Entities(lists)
<1>1. all = FlattenSeq(lists)
  OBVIOUS
<1>2. all \in Seq(E)
  BY ONLY <1>1, lists \in Seq(Seq(E)), FlattenType
<1>3. EntitiesIn(E, all, Len(all), out)
  BY ONLY <1>2, EntitiesAre
<1> HIDE DEF all, out
<1>4. /\ out \in Seq(E) /\ KeysDiffer(out)
      /\ \A a \in 1 .. Len(out) : \E j \in 1 .. Len(all) : Proper(all[j]) /\ out[a] = all[j]
      /\ \A j \in 1 .. Len(all) : Proper(all[j]) =>
           \E a \in 1 .. Len(out) :
             out[a].key = all[j].key /\ (FirstProper(all, j) => out[a] = all[j])
  BY ONLY <1>3 DEF EntitiesIn
<1>5. DOMAIN all = 1 .. Len(all) /\ DOMAIN out = 1 .. Len(out)
  BY ONLY <1>2, <1>4, LenProperties
<1>6. DistinctKeys(out)
  BY ONLY <1>4, <1>5 DEF DistinctKeys, KeysDiffer
<1>7. \A n \in DOMAIN out : \E k \in DOMAIN all : Proper(all[k]) /\ out[n] = all[k]
  BY ONLY <1>4, <1>5
<1>8. \A k \in DOMAIN all : Proper(all[k]) =>
        \E n \in DOMAIN out :
          /\ out[n].key = all[k].key
          /\ (\A j \in 1 .. k - 1 : Proper(all[j]) => all[j].key # all[k].key) => out[n] = all[k]
  BY ONLY <1>4, <1>5 DEF FirstProper
<1> QED  BY ONLY <1>6, <1>7, <1>8 DEF EntitiesAreUnique, out, all

-----------------------------------------------------------------------------
(* Keywords *)

IsFirst(list, k, f) ==
  /\ Len(f) \in Nat /\ Len(f) <= k /\ Len(f) <= Len(list) /\ (Len(f) = k \/ Len(f) = Len(list))
  /\ \A i \in 1 .. Len(f) : i \in 1 .. Len(list) /\ f[i] = list[i]
LEMMA FirstIs ==
  ASSUME NEW L, NEW list, list \in Seq(L), NEW k, k \in Nat
  PROVE  First(list, k) \in Seq(L) /\ IsFirst(list, k, First(list, k))
<1> DEFINE m == IF k < Len(list) THEN k ELSE Len(list)
           f == SubSeq(list, 1, m)
<1>1. Len(list) \in Nat
  BY ONLY list \in Seq(L), LenProperties
<1>2. First(list, k) = f
  BY DEF First, Shorter
<1>3. m \in Nat /\ m <= k /\ m <= Len(list) /\ (m = k \/ m = Len(list))
  BY ONLY <1>1, k \in Nat
<1> HIDE DEF m
<1>4. 1 \in 1 .. Len(list) + 1 /\ m \in 1 - 1 .. Len(list)
  BY ONLY <1>1, <1>3
<1>5. /\ f \in Seq(L) /\ Len(f) = IF 1 <= m THEN m - 1 + 1 ELSE 0
      /\ \A i \in 1 .. m - 1 + 1 : f[i] = list[1 + i - 1]
  BY ONLY <1>4, list \in Seq(L), SubSeqProperties
<1>6. Len(f) = m
  BY ONLY <1>3, <1>5
<1>7. \A i \in 1 .. m : i \in 1 .. m - 1 + 1 /\ 1 + i - 1 = i /\ i \in 1 .. Len(list)
  BY ONLY <1>1, <1>3
<1> HIDE DEF f
<1>8. \A i \in 1 .. m : i \in 1 .. Len(list) /\ f[i] = list[i]
  BY ONLY <1>5, <1>7
<1> QED  BY ONLY <1>2, <1>3, <1>5, <1>6, <1>8 DEF IsFirst

\* Places are ordered as their positions in a row.
PosOf(off, p) == off[p[1] - 1] + p[2]
LEMMA PlacesAre ==
  ASSUME NEW L, NEW lists, lists \in Seq(Seq(L)), NEW p
  PROVE  p \in Places(lists) <=>
           \E i \in 1 .. Len(lists) : \E j \in 1 .. Len(lists[i]) : p = <<i, j>>
<1>1. /\ DOMAIN lists = 1 .. Len(lists)
      /\ \A i \in 1 .. Len(lists) : DOMAIN lists[i] = 1 .. Len(lists[i])
  BY ONLY lists \in Seq(Seq(L)), LenProperties, ElementOfSeq
<1>2. p \in Places(lists) <=> \E i \in DOMAIN lists : p \in {i} \X DOMAIN lists[i]
  BY DEF Places
<1>3. \A i : p \in {i} \X DOMAIN lists[i] <=> \E j \in DOMAIN lists[i] : p = <<i, j>>
  OBVIOUS
<1> QED  BY ONLY <1>1, <1>2, <1>3

InPlace(lists, off, all, p) ==
  /\ p[1] \in 1 .. Len(lists) /\ p[2] \in 1 .. Len(lists[p[1]]) /\ p = <<p[1], p[2]>>
  /\ PosOf(off, p) \in 1 .. Len(all) /\ all[PosOf(off, p)] = lists[p[1]][p[2]]
LEMMA PlaceIs ==
  ASSUME NEW L, NEW lists, lists \in Seq(Seq(L)), NEW all, NEW off, OffsetsOf(lists, off),
         PlacedTo(lists, Len(lists), all, off), NEW p, p \in Places(lists)
  PROVE  InPlace(lists, off, all, p)
<1>0. PICK i \in 1 .. Len(lists) : \E j \in 1 .. Len(lists[i]) : p = <<i, j>>
  BY ONLY lists \in Seq(Seq(L)), p \in Places(lists), PlacesAre
<1>1. PICK j \in 1 .. Len(lists[i]) : p = <<i, j>>
  BY ONLY <1>0
<1>2. p[1] = i /\ p[2] = j
  BY ONLY <1>1
<1>3. Len(lists) \in Nat /\ Len(lists[i]) \in Nat
  BY ONLY lists \in Seq(Seq(L)), i \in 1 .. Len(lists), LenProperties, ElementOfSeq
<1>4. off[i - 1] + j \in 1 .. Len(all)
  BY ONLY <1>3, OffsetsOf(lists, off), PlacedTo(lists, Len(lists), all, off), PlaceInRange
<1>5. all[off[i - 1] + j] = lists[i][j]
  BY ONLY PlacedTo(lists, Len(lists), all, off) DEF PlacedTo
<1> QED  BY ONLY <1>1, <1>2, <1>4, <1>5 DEF InPlace, PosOf

LEMMA PairsInOrder ==
  ASSUME NEW i \in Nat, NEW k \in Nat, NEW a \in Nat, NEW b \in Nat, NEW x \in Nat, NEW y \in Nat,
         NEW j \in 1 .. x, NEW m \in 1 .. y,
         i = k => a = b, i < k => a + x <= b, k < i => b + y <= a
  PROVE  (i < k \/ (i = k /\ j < m)) <=> a + j < b + m
  OBVIOUS

LEMMA PlacesInOrder ==
  ASSUME NEW lists, Len(lists) \in Nat, NEW off, OffsetsOf(lists, off),
         NEW i \in 1 .. Len(lists), Len(lists[i]) \in Nat, NEW j \in 1 .. Len(lists[i]),
         NEW k \in 1 .. Len(lists), Len(lists[k]) \in Nat, NEW m \in 1 .. Len(lists[k])
  PROVE  (i < k \/ (i = k /\ j < m)) <=> off[i - 1] + j < off[k - 1] + m
<1>1. /\ i \in 0 .. Len(lists) /\ i - 1 \in 0 .. Len(lists)
      /\ k \in 0 .. Len(lists) /\ k - 1 \in 0 .. Len(lists)
      /\ (i < k => i <= k - 1) /\ (k < i => k <= i - 1) /\ (i < k \/ i = k \/ k < i)
  OBVIOUS
<1>2. /\ off[i] = off[i - 1] + Len(lists[i]) /\ off[k] = off[k - 1] + Len(lists[k])
      /\ off[i - 1] \in Nat /\ off[k - 1] \in Nat /\ off[i] \in Nat /\ off[k] \in Nat
  BY ONLY <1>1, OffsetsOf(lists, off), i \in 1 .. Len(lists), k \in 1 .. Len(lists) DEF OffsetsOf
<1>3. (i < k => off[i] <= off[k - 1]) /\ (k < i => off[k] <= off[i - 1])
  BY ONLY <1>1, OffsetsOf(lists, off) DEF OffsetsOf
<1>4. /\ i \in Nat /\ k \in Nat /\ (i = k => off[i - 1] = off[k - 1])
      /\ (i < k => off[i - 1] + Len(lists[i]) <= off[k - 1])
      /\ (k < i => off[k - 1] + Len(lists[k]) <= off[i - 1])
  BY ONLY <1>1, <1>2, <1>3
<1> DEFINE a == off[i - 1]
           b == off[k - 1]
           x == Len(lists[i])
           y == Len(lists[k])
<1>5. /\ i \in Nat /\ k \in Nat /\ a \in Nat /\ b \in Nat /\ x \in Nat /\ y \in Nat
      /\ j \in 1 .. x /\ m \in 1 .. y
      /\ (i = k => a = b) /\ (i < k => a + x <= b) /\ (k < i => b + y <= a)
  BY ONLY <1>2, <1>4, Len(lists[i]) \in Nat, Len(lists[k]) \in Nat,
     j \in 1 .. Len(lists[i]), m \in 1 .. Len(lists[k])
<1> HIDE DEF a, b, x, y
<1>6. (i < k \/ (i = k /\ j < m)) <=> a + j < b + m
  BY ONLY <1>5, PairsInOrder
<1> QED  BY ONLY <1>6 DEF a, b

\* Where a key comes first in the lists, and where in all of them in a row.
ComesFirst(lists, off, all, key, p) ==
  /\ p \in Places(lists) /\ InPlace(lists, off, all, p)
  /\ all[PosOf(off, p)].key = key
  /\ \A x \in 1 .. Len(all) : all[x].key = key => PosOf(off, p) <= x
LEMMA FirstPlaceIs ==
  ASSUME NEW L, NEW lists, lists \in Seq(Seq(L)), NEW all, NEW off, OffsetsOf(lists, off),
         PlacedTo(lists, Len(lists), all, off), NEW key,
         \E x \in 1 .. Len(all) : all[x].key = key
  PROVE  ComesFirst(lists, off, all, key, FirstOf(lists, key))
<1> DEFINE n == Len(lists)
           P(p) == /\ lists[p[1]][p[2]].key = key
                   /\ \A q \in Places(lists) : lists[q[1]][q[2]].key = key =>
                        p[1] < q[1] \/ (p[1] = q[1] /\ p[2] <= q[2])
           T == {x \in 1 .. Len(all) : all[x].key = key}
<1>1. n \in Nat /\ \A i \in 1 .. n : Len(lists[i]) \in Nat
  BY ONLY lists \in Seq(Seq(L)), LenProperties, ElementOfSeq
<1>2. \A p \in Places(lists) : InPlace(lists, off, all, p)
  BY ONLY lists \in Seq(Seq(L)), OffsetsOf(lists, off), PlacedTo(lists, Len(lists), all, off), PlaceIs
<1>3. \A p, q \in Places(lists) :
        (p[1] < q[1] \/ (p[1] = q[1] /\ p[2] < q[2])) <=> PosOf(off, p) < PosOf(off, q)
  <2> TAKE p, q \in Places(lists)
  <2>1. /\ p[1] \in 1 .. n /\ p[2] \in 1 .. Len(lists[p[1]])
        /\ q[1] \in 1 .. n /\ q[2] \in 1 .. Len(lists[q[1]])
    BY ONLY <1>2, p \in Places(lists), q \in Places(lists) DEF InPlace
  <2> QED  BY ONLY <1>1, <2>1, OffsetsOf(lists, off), PlacesInOrder DEF PosOf
<1>4. PICK x \in T : \A y \in T : x <= y
  <2>1. T \subseteq Nat
    OBVIOUS
  <2>2. T # {}
    BY ONLY \E x \in 1 .. Len(all) : all[x].key = key
  <2> QED  BY ONLY <2>1, <2>2, LeastNumber
<1>17. PICK i \in 1 .. n : \E j \in 1 .. Len(lists[i]) : x = off[i - 1] + j
  BY ONLY <1>4, PlacedTo(lists, Len(lists), all, off) DEF PlacedTo
<1>5. PICK j \in 1 .. Len(lists[i]) : x = off[i - 1] + j
  BY ONLY <1>17
<1>6. <<i, j>> \in Places(lists)
  BY ONLY <1>5, lists \in Seq(Seq(L)), PlacesAre
<1>7. PosOf(off, <<i, j>>) = x /\ lists[i][j].key = key
  <2>1. PosOf(off, <<i, j>>) = x
    BY ONLY <1>5 DEF PosOf
  <2>2. all[x] = lists[i][j]
    BY ONLY <1>2, <1>6, <2>1 DEF InPlace
  <2> QED  BY ONLY <1>4, <2>1, <2>2
<1>8. \A p \in Places(lists) : PosOf(off, p) \in Nat /\ p[1] \in Nat /\ p[2] \in Nat
                                    /\ lists[p[1]][p[2]] = all[PosOf(off, p)]
                                    /\ PosOf(off, p) \in 1 .. Len(all)
  BY ONLY <1>2 DEF InPlace
<1>9. P(<<i, j>>)
  <2>1. ASSUME NEW q \in Places(lists), lists[q[1]][q[2]].key = key
        PROVE  i < q[1] \/ (i = q[1] /\ j <= q[2])
    <3>1. PosOf(off, q) \in T
      BY ONLY <1>8, <2>1
    <3>2. ~(PosOf(off, q) < x)
      BY ONLY <1>4, <3>1
    <3>3. ~(q[1] < i \/ (q[1] = i /\ q[2] < j))
      BY ONLY <1>3, <1>6, <1>7, <3>2, <2>1
    <3> QED  BY ONLY <1>8, <2>1, <3>3, i \in 1 .. n, j \in 1 .. Len(lists[i])
  <2> QED  BY ONLY <1>7, <2>1
<1> DEFINE f == CHOOSE p \in Places(lists) : P(p)
<1>10. FirstOf(lists, key) = f
  BY DEF FirstOf
<1>11. f \in Places(lists) /\ P(f)
  <2> HIDE DEF P
  <2> QED  BY ONLY <1>6, <1>9
<1> HIDE DEF f
<1>12. all[PosOf(off, f)].key = key
  BY ONLY <1>8, <1>11
<1>13. ~(i < f[1] \/ (i = f[1] /\ j < f[2]))
  <2>1. f[1] < i \/ (f[1] = i /\ f[2] <= j)
    BY ONLY <1>6, <1>7, <1>11
  <2> QED  BY ONLY <1>8, <1>11, <2>1, i \in 1 .. n, j \in 1 .. Len(lists[i])
<1>14. ~(x < PosOf(off, f))
  BY ONLY <1>3, <1>6, <1>7, <1>11, <1>13
<1>15. PosOf(off, f) <= x
  BY ONLY <1>4, <1>8, <1>11, <1>14
<1>16. \A y \in 1 .. Len(all) : all[y].key = key => PosOf(off, f) <= y
  <2> TAKE y \in 1 .. Len(all)
  <2>1. all[y].key = key => x <= y
    BY ONLY <1>4
  <2> QED  BY ONLY <1>4, <1>8, <1>11, <1>15, <2>1
<1> QED  BY ONLY <1>2, <1>10, <1>11, <1>12, <1>16 DEF ComesFirst

\* By the number of lists that gave a candidate, then by first appearance.
CountBefore(lists, firsts, i, k) ==
  \/ Count(lists, firsts[i].key) > Count(lists, firsts[k].key)
  \/ Count(lists, firsts[i].key) = Count(lists, firsts[k].key) /\ i < k
ByCount(lists, firsts) ==
  {p \in (1 .. Len(firsts)) \X (1 .. Len(firsts)) : CountBefore(lists, firsts, p[1], p[2])}

LEMMA CountType ==
  ASSUME NEW L, NEW lists, lists \in Seq(Seq(L)), NEW key
  PROVE  /\ Count(lists, key) \in Nat
         /\ Cardinality(GivenBy(lists, key)) = Count(lists, key)
<1> DEFINE S == {i \in DOMAIN lists : \E k \in DOMAIN lists[i] : lists[i][k].key = key}
<1>1. DOMAIN lists = 1 .. Len(lists) /\ Len(lists) \in Nat
  BY ONLY lists \in Seq(Seq(L)), LenProperties
<1>2. S \in SUBSET (1 .. Len(lists))
  BY ONLY <1>1
<1>3. IsFiniteSet(1 .. Len(lists))
  BY ONLY <1>1, FS_Interval
<1>4. Count(lists, key) = Cardinality(S)
  BY DEF Count
<1>5. GivenBy(lists, key) = S
  BY DEF GivenBy
<1> HIDE DEF S
<1>6. IsFiniteSet(S)
  BY ONLY <1>2, <1>3, FS_Subset
<1>7. Cardinality(S) \in Nat
  BY ONLY <1>6, FS_CardinalityType
<1> QED  BY ONLY <1>4, <1>5, <1>7

LEMMA ByCountIs ==
  ASSUME NEW L, NEW lists, lists \in Seq(Seq(L)), NEW firsts, Len(firsts) \in Nat
  PROVE  /\ StrictOrder(Len(firsts), ByCount(lists, firsts))
         /\ \A i, k \in 1 .. Len(firsts) :
              <<i, k>> \in ByCount(lists, firsts) <=> CountBefore(lists, firsts, i, k)
<1> DEFINE n == Len(firsts)
           R == ByCount(lists, firsts)
           cnt == [i \in 1 .. n |-> Count(lists, firsts[i].key)]
<1>1. \A i \in 1 .. n : cnt[i] = Count(lists, firsts[i].key) /\ cnt[i] \in Nat
  BY ONLY lists \in Seq(Seq(L)), CountType
<1> HIDE DEF cnt
<1>2. \A i, k \in 1 .. n : <<i, k>> \in R <=> CountBefore(lists, firsts, i, k)
  BY DEF ByCount
<1>3. \A i, k \in 1 .. n :
        <<i, k>> \in R <=> cnt[i] > cnt[k] \/ (cnt[i] = cnt[k] /\ i < k)
  <2> SUFFICES ASSUME NEW i \in 1 .. n, NEW k \in 1 .. n
      PROVE  <<i, k>> \in R <=> cnt[i] > cnt[k] \/ (cnt[i] = cnt[k] /\ i < k)
    OBVIOUS
  <2>1. cnt[i] = Count(lists, firsts[i].key) /\ cnt[k] = Count(lists, firsts[k].key)
    BY ONLY <1>1
  <2>2. CountBefore(lists, firsts, i, k) <=> cnt[i] > cnt[k] \/ (cnt[i] = cnt[k] /\ i < k)
    BY ONLY <2>1 DEF CountBefore
  <2>3. <<i, k>> \in R <=> CountBefore(lists, firsts, i, k)
    BY ONLY <1>2
  <2> HIDE DEF R
  <2> QED  BY ONLY <2>2, <2>3
<1> HIDE DEF R
<1>4. \A i \in 1 .. n : ~(<<i, i>> \in R)
  BY ONLY <1>1, <1>3
<1>5. \A i, k \in 1 .. n : i # k => <<i, k>> \in R \/ <<k, i>> \in R
  BY ONLY <1>1, <1>3
<1>6. \A i, j, k \in 1 .. n : <<i, j>> \in R /\ <<j, k>> \in R => <<i, k>> \in R
  <2> SUFFICES ASSUME NEW i \in 1 .. n, NEW j \in 1 .. n, NEW k \in 1 .. n,
                      <<i, j>> \in R, <<j, k>> \in R
      PROVE  <<i, k>> \in R
    OBVIOUS
  <2>1. cnt[i] \in Nat /\ cnt[j] \in Nat /\ cnt[k] \in Nat
    BY ONLY <1>1
  <2>2. cnt[i] > cnt[j] \/ (cnt[i] = cnt[j] /\ i < j)
    BY ONLY <1>3, <<i, j>> \in R
  <2>3. cnt[j] > cnt[k] \/ (cnt[j] = cnt[k] /\ j < k)
    BY ONLY <1>3, <<j, k>> \in R
  <2>4. cnt[i] > cnt[k] \/ (cnt[i] = cnt[k] /\ i < k)
    BY ONLY <2>1, <2>2, <2>3, i \in 1 .. n, j \in 1 .. n, k \in 1 .. n
  <2> QED  BY ONLY <1>3, <2>4
<1>7. StrictOrder(n, R)
  BY ONLY <1>4, <1>5, <1>6 DEF StrictOrder
<1> QED  BY ONLY <1>2, <1>7 DEF n, R

MergedBy(L, lists, firsts, at, merged) ==
  /\ SortedBy(Len(firsts), ByCount(lists, firsts), at)
  /\ Len(merged) \in Nat /\ Len(merged) <= MaxItems /\ Len(merged) <= Len(firsts)
  /\ Len(merged) = MaxItems \/ Len(merged) = Len(firsts)
  /\ \A r \in 1 .. Len(merged) : r \in 1 .. Len(firsts) /\ merged[r] = firsts[at[r]]
MergedFrom(L, lists, firsts, merged) ==
  merged \in Seq(L) /\ \E at : MergedBy(L, lists, firsts, at, merged)

\* The candidates of all lists, sorted and cut.
LEMMA MergedIs ==
  ASSUME NEW L, NEW lists, lists \in Seq(Seq(L)), MaxItems \in Nat,
         NEW firsts, firsts = Distinct(FlattenSeq(lists)), firsts \in Seq(L)
  PROVE  MergedFrom(L, lists, firsts, MergeCandidates(lists))
<1> DEFINE n == Len(firsts)
           R == ByCount(lists, firsts)
           RankedAt(r) == CHOOSE i \in DOMAIN firsts :
                      Cardinality({k \in DOMAIN firsts : CountBefore(lists, firsts, k, i)}) = r - 1
           at == [r \in 1 .. n |-> RankedAt(r)]
           sorted == [r \in DOMAIN firsts |-> firsts[RankedAt(r)]]
           merged == MergeCandidates(lists)
<1>1. merged = First(sorted, MaxItems)
  BY ONLY firsts = Distinct(FlattenSeq(lists)) DEF MergeCandidates, CountBefore
<1>2. n \in Nat /\ DOMAIN firsts = 1 .. n
  BY ONLY firsts \in Seq(L), LenProperties
<1>3. /\ StrictOrder(n, R)
      /\ \A i, k \in 1 .. n : <<i, k>> \in R <=> CountBefore(lists, firsts, i, k)
  BY ONLY <1>2, lists \in Seq(Seq(L)), ByCountIs
<1>4. \A i \in 1 .. n : Cardinality({k \in DOMAIN firsts : CountBefore(lists, firsts, k, i)})
                          = RankOf(n, R, i)
  <2> TAKE i \in 1 .. n
  <2>1. {k \in DOMAIN firsts : CountBefore(lists, firsts, k, i)} = Below(n, R, i)
    BY ONLY <1>2, <1>3 DEF Below
  <2> QED  BY ONLY <2>1 DEF RankOf
<1>5. \A r \in 1 .. n : (\E i \in 1 .. n : RankOf(n, R, i) = r - 1)
                          => at[r] \in 1 .. n /\ RankOf(n, R, at[r]) = r - 1
  <2> SUFFICES ASSUME NEW r \in 1 .. n, NEW i \in 1 .. n, RankOf(n, R, i) = r - 1
      PROVE  at[r] \in 1 .. n /\ RankOf(n, R, at[r]) = r - 1
    OBVIOUS
  <2> DEFINE Q(x) == Cardinality({k \in DOMAIN firsts : CountBefore(lists, firsts, k, x)}) = r - 1
             c == CHOOSE x \in DOMAIN firsts : Q(x)
  <2>1. at[r] = c
    OBVIOUS
  <2>2. \A x \in 1 .. n : Q(x) <=> RankOf(n, R, x) = r - 1
    BY ONLY <1>4
  <2> HIDE DEF Q
  <2>3. c \in 1 .. n /\ Q(c)
    BY ONLY <1>2, <2>2, RankOf(n, R, i) = r - 1
  <2> HIDE DEF c
  <2> QED  BY ONLY <2>1, <2>2, <2>3
<1>6. /\ sorted = [r \in 1 .. n |-> firsts[at[r]]]
  BY ONLY <1>2
<1> HIDE DEF at, sorted, merged, R
<1>7. SortedBy(n, R, at)
  BY ONLY <1>2, <1>3, <1>5, SortedByRank
<1>8. \A i \in 1 .. n : firsts[i] \in L
  BY ONLY firsts \in Seq(L), ElementOfSeq
<1>9. sorted \in Seq(L) /\ Len(sorted) = n
  <2>1. \A r \in 1 .. n : firsts[at[r]] \in L
    BY ONLY <1>7, <1>8 DEF SortedBy
  <2> HIDE DEF n
  <2> QED  BY ONLY <1>2, <1>6, <2>1
<1>10. merged \in Seq(L) /\ IsFirst(sorted, MaxItems, merged)
  BY ONLY <1>1, <1>9, MaxItems \in Nat, FirstIs
<1>11. \A r \in 1 .. Len(merged) : r \in 1 .. n /\ merged[r] = firsts[at[r]]
  BY ONLY <1>6, <1>9, <1>10 DEF IsFirst
<1>12. MergedBy(L, lists, firsts, at, merged)
  BY ONLY <1>7, <1>9, <1>10, <1>11 DEF MergedBy, IsFirst, n, R
<1> QED  BY ONLY <1>10, <1>12 DEF MergedFrom, merged

LEMMA MergedDiffers ==
  ASSUME NEW L, NEW lists, lists \in Seq(Seq(L)), NEW firsts, Len(firsts) \in Nat,
         KeysDiffer(firsts), NEW at, NEW merged, MergedBy(L, lists, firsts, at, merged)
  PROVE  KeysDiffer(merged)
<1> DEFINE n == Len(firsts)
           R == ByCount(lists, firsts)
<1>1. StrictOrder(n, R)
  BY ONLY lists \in Seq(Seq(L)), Len(firsts) \in Nat, ByCountIs
<1>2. SortedBy(n, R, at) /\ \A r \in 1 .. Len(merged) : r \in 1 .. n /\ merged[r] = firsts[at[r]]
  BY ONLY MergedBy(L, lists, firsts, at, merged) DEF MergedBy
<1> HIDE DEF R
<1>3. \A r \in 1 .. n : at[r] \in 1 .. n /\ \A q \in 1 .. n : r < q => at[r] # at[q]
  BY ONLY <1>1, <1>2 DEF StrictOrder, SortedBy
<1>4. SUFFICES ASSUME NEW r \in 1 .. Len(merged), NEW q \in 1 .. Len(merged),
                      merged[r].key = merged[q].key
      PROVE  r = q
  BY DEF KeysDiffer
<1>5. /\ r \in 1 .. n /\ q \in 1 .. n
      /\ merged[r] = firsts[at[r]] /\ merged[q] = firsts[at[q]]
  BY ONLY <1>2, r \in 1 .. Len(merged), q \in 1 .. Len(merged)
<1>6. at[r] \in 1 .. n /\ at[q] \in 1 .. n
  BY ONLY <1>3, <1>5
<1>7. at[r] = at[q]
  BY ONLY <1>4, <1>5, <1>6, KeysDiffer(firsts) DEF KeysDiffer
<1>8. ~(r < q) /\ ~(q < r)
  BY ONLY <1>3, <1>7, <1>5
<1> HIDE DEF n
<1> QED  BY ONLY <1>5, <1>8

\* The first of the candidates of a key is the one that is kept.
LEMMA FirstIsKept ==
  ASSUME NEW lists, NEW off, NEW all, NEW p, NEW key, ComesFirst(lists, off, all, key, p),
         NEW j \in 1 .. Len(all), FirstAt(all, j), all[j].key = key
  PROVE  all[j] = lists[p[1]][p[2]]
<1> DEFINE x == PosOf(off, p)
<1>1. /\ x \in 1 .. Len(all) /\ all[x] = lists[p[1]][p[2]] /\ all[x].key = key /\ x <= j
  BY ONLY ComesFirst(lists, off, all, key, p), j \in 1 .. Len(all), all[j].key = key
     DEF ComesFirst, InPlace
<1> HIDE DEF x
<1>2. ~(x \in 1 .. j - 1)
  BY ONLY <1>1, FirstAt(all, j), all[j].key = key DEF FirstAt
<1>3. x = j
  BY ONLY <1>1, <1>2, j \in 1 .. Len(all)
<1> QED  BY ONLY <1>1, <1>3

LEMMA SoonerIs ==
  ASSUME NEW L, NEW lists, lists \in Seq(Seq(L)), NEW off, OffsetsOf(lists, off), NEW all,
         NEW a, NEW b, EarlierIn(all, Len(all), a, b),
         NEW p, ComesFirst(lists, off, all, a.key, p), NEW q, ComesFirst(lists, off, all, b.key, q)
  PROVE  Sooner(p, q)
<1> DEFINE x == PosOf(off, p)
           y == PosOf(off, q)
<1>1. /\ p[1] \in 1 .. Len(lists) /\ p[2] \in 1 .. Len(lists[p[1]])
      /\ x \in 1 .. Len(all) /\ \A z \in 1 .. Len(all) : all[z].key = a.key => x <= z
  BY ONLY ComesFirst(lists, off, all, a.key, p) DEF ComesFirst, InPlace
<1>2. /\ q[1] \in 1 .. Len(lists) /\ q[2] \in 1 .. Len(lists[q[1]])
      /\ y \in 1 .. Len(all) /\ all[y].key = b.key
  BY ONLY ComesFirst(lists, off, all, b.key, q) DEF ComesFirst, InPlace
<1>3. Len(lists) \in Nat /\ \A i \in 1 .. Len(lists) : Len(lists[i]) \in Nat
  BY ONLY lists \in Seq(Seq(L)), LenProperties, ElementOfSeq
<1>4. (p[1] < q[1] \/ (p[1] = q[1] /\ p[2] < q[2])) <=> x < y
  BY ONLY <1>1, <1>2, <1>3, OffsetsOf(lists, off), PlacesInOrder DEF PosOf
<1> HIDE DEF x, y
<1>5. PICK z \in 1 .. y - 1 : all[z].key = a.key
  BY ONLY <1>2, EarlierIn(all, Len(all), a, b) DEF EarlierIn
<1>6. z \in 1 .. Len(all) /\ z < y
  BY ONLY <1>2, <1>5
<1>7. x < y
  BY ONLY <1>1, <1>2, <1>5, <1>6
<1> QED  BY ONLY <1>4, <1>7 DEF Sooner

\* What a candidate is owed: the keywords hold it, or all of them have a better claim.
Owed(lists, keywords, p) ==
  LET c == lists[p[1]][p[2]] IN
    \/ \A i \in DOMAIN keywords : c.key # keywords[i].key /\ NoBetter(lists, c, keywords[i])
    \/ \E i \in DOMAIN keywords :
         /\ keywords[i].key = c.key
         /\ p = FirstOf(lists, c.key) => keywords[i] = c

LEMMA KeptAsFirst ==
  ASSUME NEW L, NEW lists, lists \in Seq(Seq(L)), NEW off, OffsetsOf(lists, off),
         NEW all, PlacedTo(lists, Len(lists), all, off), all \in Seq(L),
         NEW firsts, DistinctIn(L, all, Len(all), firsts),
         NEW at, NEW merged, MergedBy(L, lists, firsts, at, merged),
         NEW p, p \in Places(lists),
         NEW r \in 1 .. Len(merged), firsts[at[r]].key = lists[p[1]][p[2]].key
  PROVE  /\ merged[r].key = lists[p[1]][p[2]].key
         /\ p = FirstOf(lists, lists[p[1]][p[2]].key) => merged[r] = lists[p[1]][p[2]]
<1> DEFINE c == lists[p[1]][p[2]]
           n == Len(firsts)
<1>1. merged[r] = firsts[at[r]] /\ at[r] \in 1 .. n
  BY ONLY MergedBy(L, lists, firsts, at, merged), r \in 1 .. Len(merged) DEF MergedBy, SortedBy
<1>2. PICK j \in 1 .. Len(all) : firsts[at[r]] = all[j] /\ FirstAt(all, j)
  BY ONLY <1>1, DistinctIn(L, all, Len(all), firsts) DEF DistinctIn, FirstOnesOf
<1>3. all[j].key = c.key
  BY ONLY <1>2, firsts[at[r]].key = lists[p[1]][p[2]].key
<1>4. ComesFirst(lists, off, all, c.key, FirstOf(lists, c.key))
  BY ONLY <1>3, lists \in Seq(Seq(L)), OffsetsOf(lists, off),
          PlacedTo(lists, Len(lists), all, off), FirstPlaceIs
<1>5. ASSUME p = FirstOf(lists, c.key)
      PROVE  merged[r] = c
  <2>1. ComesFirst(lists, off, all, c.key, p)
    BY ONLY <1>4, <1>5
  <2> QED  BY ONLY <1>1, <1>2, <1>3, <2>1, FirstIsKept
<1> QED  BY ONLY <1>1, <1>5, firsts[at[r]].key = lists[p[1]][p[2]].key

LEMMA BetterThanLeftOut ==
  ASSUME NEW L, NEW lists, lists \in Seq(Seq(L)), NEW off, OffsetsOf(lists, off),
         NEW all, PlacedTo(lists, Len(lists), all, off), all \in Seq(L),
         NEW firsts, DistinctIn(L, all, Len(all), firsts),
         NEW i \in 1 .. Len(firsts), NEW d \in 1 .. Len(firsts),
         CountBefore(lists, firsts, i, d), NEW c, c.key = firsts[d].key
  PROVE  NoBetter(lists, c, firsts[i])
<1> DEFINE k == firsts[i]
           b == firsts[d]
<1>1. /\ Count(lists, k.key) \in Nat /\ Count(lists, b.key) \in Nat
      /\ Cardinality(GivenBy(lists, k.key)) = Count(lists, k.key)
      /\ Cardinality(GivenBy(lists, b.key)) = Count(lists, b.key)
  BY ONLY lists \in Seq(Seq(L)), CountType
<1>2. ASSUME i < d
      PROVE  Sooner(FirstOf(lists, k.key), FirstOf(lists, b.key))
  <2>1. EarlierIn(all, Len(all), k, b)
    BY ONLY <1>2, i \in 1 .. Len(firsts), d \in 1 .. Len(firsts),
            DistinctIn(L, all, Len(all), firsts) DEF DistinctIn, FirstOnesOf
  <2>2. /\ \E j \in 1 .. Len(all) : all[j].key = k.key
        /\ \E j \in 1 .. Len(all) : all[j].key = b.key
    BY ONLY i \in 1 .. Len(firsts), d \in 1 .. Len(firsts),
            DistinctIn(L, all, Len(all), firsts) DEF DistinctIn, FirstOnesOf
  <2>3. ComesFirst(lists, off, all, k.key, FirstOf(lists, k.key))
    BY ONLY <2>2, lists \in Seq(Seq(L)), OffsetsOf(lists, off),
            PlacedTo(lists, Len(lists), all, off), FirstPlaceIs
  <2>4. ComesFirst(lists, off, all, b.key, FirstOf(lists, b.key))
    BY ONLY <2>2, lists \in Seq(Seq(L)), OffsetsOf(lists, off),
            PlacedTo(lists, Len(lists), all, off), FirstPlaceIs
  <2> HIDE DEF k, b
  <2> QED  BY ONLY <2>1, <2>3, <2>4, lists \in Seq(Seq(L)), OffsetsOf(lists, off), SoonerIs
<1>3. \/ Count(lists, k.key) > Count(lists, b.key)
      \/ Count(lists, k.key) = Count(lists, b.key) /\ i < d
  BY ONLY CountBefore(lists, firsts, i, d) DEF CountBefore
<1>4. c.key = b.key
  BY ONLY c.key = firsts[d].key
<1> HIDE DEF k, b
<1>5. NoBetter(lists, c, k)
  BY ONLY <1>1, <1>2, <1>3, <1>4 DEF NoBetter
<1> QED  BY ONLY <1>5 DEF k

LEMMA OwedByMerged ==
  ASSUME NEW L, NEW lists, lists \in Seq(Seq(L)), NEW off, OffsetsOf(lists, off),
         NEW all, PlacedTo(lists, Len(lists), all, off), all \in Seq(L),
         NEW firsts, DistinctIn(L, all, Len(all), firsts),
         NEW at, NEW merged, merged \in Seq(L), MergedBy(L, lists, firsts, at, merged),
         NEW p, p \in Places(lists)
  PROVE  Owed(lists, merged, p)
<1> DEFINE c == lists[p[1]][p[2]]
           n == Len(firsts)
           R == ByCount(lists, firsts)
<1>1. PosOf(off, p) \in 1 .. Len(all) /\ all[PosOf(off, p)] = c
  BY ONLY lists \in Seq(Seq(L)), OffsetsOf(lists, off), PlacedTo(lists, Len(lists), all, off),
          p \in Places(lists), PlaceIs DEF InPlace
<1>2. PICK d \in 1 .. n : firsts[d].key = c.key
  BY ONLY <1>1, DistinctIn(L, all, Len(all), firsts) DEF DistinctIn, FirstOnesOf
<1>3. /\ SortedBy(n, R, at) /\ Len(merged) \in Nat
      /\ \A r \in 1 .. Len(merged) : r \in 1 .. n /\ merged[r] = firsts[at[r]]
  BY ONLY MergedBy(L, lists, firsts, at, merged) DEF MergedBy
<1>4. n \in Nat /\ DOMAIN merged = 1 .. Len(merged)
  BY ONLY merged \in Seq(L), DistinctIn(L, all, Len(all), firsts), LenProperties DEF DistinctIn
<1>5. PICK r \in 1 .. n : at[r] = d
  BY ONLY <1>2, <1>3 DEF SortedBy
<1>6. CASE r \in 1 .. Len(merged)
  <2>1. firsts[at[r]].key = c.key
    BY ONLY <1>2, <1>5
  <2>2. merged[r].key = c.key /\ (p = FirstOf(lists, c.key) => merged[r] = c)
    BY ONLY <1>6, <2>1, lists \in Seq(Seq(L)), OffsetsOf(lists, off), all \in Seq(L),
            PlacedTo(lists, Len(lists), all, off), DistinctIn(L, all, Len(all), firsts),
            MergedBy(L, lists, firsts, at, merged), p \in Places(lists), KeptAsFirst
  <2> QED  BY ONLY <1>4, <1>6, <2>2 DEF Owed
<1>7. CASE ~(r \in 1 .. Len(merged))
  <2>1. ASSUME NEW i \in 1 .. Len(merged)
        PROVE  c.key # merged[i].key /\ NoBetter(lists, c, merged[i])
    <3>1. i < r /\ i \in 1 .. n
      BY ONLY <1>3, <1>4, <1>5, <1>7, i \in 1 .. Len(merged)
    <3>2. at[i] \in 1 .. n /\ <<at[i], d>> \in R
      BY ONLY <1>3, <1>5, <3>1 DEF SortedBy
    <3>3. StrictOrder(n, R) /\ CountBefore(lists, firsts, at[i], d)
      BY ONLY <1>2, <1>4, <3>2, lists \in Seq(Seq(L)), ByCountIs
    <3>4. merged[i] = firsts[at[i]]
      BY ONLY <1>3, i \in 1 .. Len(merged)
    <3>5. at[i] # d
      BY ONLY <1>2, <3>2, <3>3 DEF StrictOrder
    <3>6. c.key # merged[i].key
      BY ONLY <1>2, <3>2, <3>4, <3>5, DistinctIn(L, all, Len(all), firsts) DEF DistinctIn, KeysDiffer
    <3>7. NoBetter(lists, c, firsts[at[i]])
      BY ONLY <1>2, <3>2, <3>3, lists \in Seq(Seq(L)), OffsetsOf(lists, off), all \in Seq(L),
              PlacedTo(lists, Len(lists), all, off), DistinctIn(L, all, Len(all), firsts),
              BetterThanLeftOut
    <3> QED  BY ONLY <3>4, <3>6, <3>7
  <2> HIDE DEF c
  <2>2. \A i \in DOMAIN merged : c.key # merged[i].key /\ NoBetter(lists, c, merged[i])
    BY ONLY <1>4, <2>1
  <2> QED  BY ONLY <2>2 DEF Owed, c
<1> QED  BY ONLY <1>6, <1>7

\* The keywords of a document are the candidates most chunks gave, each as it was
\* first written, or the first sentences if no chunk gave any (Lists!Keywords,
\* _merge_candidates and _merge_pipeline of tasks/keywords): none twice, not too
\* many, and none left out that has a better claim.
THEOREM MostFrequentAreKept ==
  ASSUME NEW L, NEW lists, lists \in Seq(Seq(L)), NEW sentences, sentences \in Seq(L),
         MaxItems \in Nat \ {0}
  PROVE  KeywordsAreMostFrequent(lists, sentences)
<1> DEFINE all == FlattenSeq(lists)
           firsts == Distinct(all)
           merged == MergeCandidates(lists)
           told == Distinct(sentences)
           keywords == Keywords(lists, sentences)
           n == Len(lists)
<1>1. all \in Seq(L) /\ Placed(lists, all)
  BY ONLY lists \in Seq(Seq(L)), FlattenType, FlattenPlaces
<1>2. PICK off : OffsetsOf(lists, off) /\ PlacedTo(lists, n, all, off)
  BY ONLY <1>1 DEF Placed
<1>3. DistinctIn(L, all, Len(all), firsts) /\ DistinctIn(L, sentences, Len(sentences), told)
  BY ONLY <1>1, sentences \in Seq(L), DistinctIs
<1>4. firsts \in Seq(L) /\ told \in Seq(L) /\ KeysDiffer(firsts) /\ KeysDiffer(told)
  BY ONLY <1>3 DEF DistinctIn
<1>5. MergedFrom(L, lists, firsts, merged)
  BY ONLY <1>4, lists \in Seq(Seq(L)), MaxItems \in Nat \ {0}, MergedIs
<1>6. keywords = IF merged # <<>> THEN merged ELSE First(told, MaxItems)
  BY DEF Keywords
<1> HIDE DEF firsts, merged, told, keywords, all
<1>7. PICK at : MergedBy(L, lists, firsts, at, merged)
  BY ONLY <1>5 DEF MergedFrom
<1>8. /\ Len(all) \in Nat /\ Len(sentences) \in Nat /\ Len(firsts) \in Nat /\ Len(told) \in Nat
      /\ all # <<>> => Len(all) # 0
      /\ sentences # <<>> => Len(sentences) # 0
  BY ONLY <1>1, <1>4, sentences \in Seq(L), LenProperties, EmptySeq
<1>9. merged \in Seq(L) /\ Len(merged) \in Nat /\ (merged = <<>> <=> Len(merged) = 0)
  <2>1. merged \in Seq(L)
    BY ONLY <1>5 DEF MergedFrom
  <2> QED  BY ONLY <2>1, LenProperties, EmptySeq
<1>10. /\ all # <<>> => Len(firsts) # 0
       /\ sentences # <<>> => Len(told) # 0
  <2>1. /\ \A j \in 1 .. Len(all) : \E a \in 1 .. Len(firsts) : firsts[a].key = all[j].key
        /\ \A j \in 1 .. Len(sentences) : \E a \in 1 .. Len(told) : told[a].key = sentences[j].key
    BY ONLY <1>3 DEF DistinctIn, FirstOnesOf
  <2>2. Len(all) # 0 => 1 \in 1 .. Len(all)
    BY ONLY <1>8
  <2>3. Len(sentences) # 0 => 1 \in 1 .. Len(sentences)
    BY ONLY <1>8
  <2>4. (Len(firsts) = 0 => 1 .. Len(firsts) = {}) /\ (Len(told) = 0 => 1 .. Len(told) = {})
    BY ONLY <1>8
  <2> QED  BY ONLY <1>8, <2>1, <2>2, <2>3, <2>4
<1>11. merged = <<>> => all = <<>>
  BY ONLY <1>7, <1>9, <1>10, MaxItems \in Nat \ {0} DEF MergedBy
<1>12. CASE merged # <<>>
  <2>1. Len(merged) <= MaxItems
    BY ONLY <1>7 DEF MergedBy
  <2>2. KeysDiffer(merged)
    BY ONLY <1>4, <1>7, <1>8, lists \in Seq(Seq(L)), MergedDiffers
  <2>3. DistinctKeys(merged)
    BY ONLY <1>9, <2>2, LenProperties DEF KeysDiffer, DistinctKeys
  <2>4. \A p \in Places(lists) : Owed(lists, merged, p)
    BY ONLY <1>1, <1>2, <1>3, <1>7, <1>9, lists \in Seq(Seq(L)), OwedByMerged
  <2>5. keywords = merged
    BY ONLY <1>6, <1>12
  <2> QED  BY ONLY <1>12, <2>1, <2>3, <2>4, <2>5
           DEF KeywordsAreMostFrequent, MostFrequent, Owed, keywords
<1>13. CASE merged = <<>>
  <2>1. keywords = First(told, MaxItems)
    BY ONLY <1>6, <1>13
  <2>2. keywords \in Seq(L) /\ IsFirst(told, MaxItems, keywords)
    BY ONLY <1>4, <2>1, MaxItems \in Nat \ {0}, FirstIs
  <2>3. Len(keywords) <= MaxItems /\ KeysDiffer(keywords)
    BY ONLY <1>4, <2>2 DEF IsFirst, KeysDiffer
  <2>4. DistinctKeys(keywords)
    BY ONLY <2>2, <2>3, LenProperties DEF KeysDiffer, DistinctKeys
  <2>5. sentences # <<>> => keywords # <<>>
    <3>1. sentences # <<>> => Len(keywords) # 0
      BY ONLY <1>8, <1>10, <2>2, MaxItems \in Nat \ {0} DEF IsFirst
    <3> QED  BY ONLY <2>2, <3>1, EmptySeq
  <2>6. all = <<>>
    BY ONLY <1>11, <1>13
  <2>7. \A p \in Places(lists) : Owed(lists, keywords, p)
    <3>1. 1 .. Len(all) = {}
      BY ONLY <2>6, EmptySeq
    <3>2. \A p \in Places(lists) : InPlace(lists, off, all, p)
      BY ONLY <1>2, lists \in Seq(Seq(L)), PlaceIs
    <3> QED  BY ONLY <3>1, <3>2 DEF InPlace
  <2> QED  BY ONLY <2>3, <2>4, <2>5, <2>6, <2>7
           DEF KeywordsAreMostFrequent, MostFrequent, Owed, keywords, all
<1> QED  BY ONLY <1>12, <1>13

-----------------------------------------------------------------------------
(* Rows and columns of datasets *)

Value == {"word", "number", "truth", "null"}
CellsOf(reply) == \A key \in DOMAIN reply.cells : reply.cells[key].value \in Value
OfType(type, value) ==
  /\ type = "number" => value \in {"null", "number"}
  /\ type = "boolean" => value \in {"null", "truth"}

LEMMA ValueIsOfType ==
  ASSUME NEW reply, CellsOf(reply), NEW field
  PROVE  OfType(field.type, ValueIn(reply, field))
<1>1. CASE field.key \in DOMAIN reply.cells /\ reply.cells[field.key].form = "object"
  <2> DEFINE value == reply.cells[field.key].value
  <2>1. value \in Value
    BY ONLY <1>1, CellsOf(reply) DEF CellsOf
  <2>2. ValueIn(reply, field) = Coerced(value, field.type)
    BY ONLY <1>1 DEF ValueIn
  <2> HIDE DEF value
  <2>3. OfType(field.type, Coerced(value, field.type))
    BY ONLY <2>1 DEF OfType, Coerced, Null, Value
  <2> QED  BY ONLY <2>2, <2>3
<1>2. CASE ~(field.key \in DOMAIN reply.cells /\ reply.cells[field.key].form = "object")
  <2>1. ValueIn(reply, field) = "null"
    BY ONLY <1>2 DEF ValueIn, Null
  <2> QED  BY ONLY <2>1 DEF OfType
<1> QED  BY ONLY <1>1, <1>2

\* A row for `fields` of which no two have one key.
RowOf(fields, result) ==
  /\ result.ok = TRUE /\ DOMAIN result.row = {f.key : f \in fields}
  /\ \A f \in fields :
       /\ OfType(f.type, result.row[f.key])
       /\ f.key \in result.anchored <=> result.row[f.key] # Null

LEMMA BuiltIs ==
  ASSUME NEW fields, \A f, g \in fields : f.key = g.key => f = g,
         NEW reply, CellsOf(reply)
  PROVE  RowOf(fields, BuildResult(fields, reply))
<1> DEFINE keys == {f.key : f \in fields}
           FieldOf(key) == CHOOSE f \in fields : f.key = key
           row == [key \in keys |-> ValueIn(reply, FieldOf(key))]
           anchored == {key \in keys : row[key] # Null}
           result == BuildResult(fields, reply)
<1>1. result = [ok |-> TRUE, row |-> row, anchored |-> anchored]
  BY DEF BuildResult
<1>2. \A f \in fields : f.key \in keys /\ row[f.key] = ValueIn(reply, f)
  <2> TAKE f \in fields
  <2>1. FieldOf(f.key) \in fields /\ FieldOf(f.key).key = f.key
    OBVIOUS
  <2>2. FieldOf(f.key) = f
    BY <2>1
  <2> QED  BY <2>2
<1>3. DOMAIN row = keys
  OBVIOUS
<1>4. \A f \in fields : OfType(f.type, row[f.key])
  BY ONLY <1>2, CellsOf(reply), ValueIsOfType
<1> HIDE DEF row, result
<1>5. \A f \in fields : f.key \in anchored <=> row[f.key] # Null
  BY ONLY <1>2
<1> HIDE DEF anchored
<1>6. result.ok = TRUE /\ result.row = row /\ result.anchored = anchored
  BY ONLY <1>1
<1>7. RowOf(fields, result)
  BY ONLY <1>3, <1>4, <1>5, <1>6 DEF RowOf
<1> QED  BY ONLY <1>7 DEF result

LEMMA WantedIs ==
  ASSUME NEW schema, NEW asked
  PROVE  Wanted(schema, asked) = {schema[i] : i \in {j \in DOMAIN schema :
            schema[j].described /\ (asked = {} \/ schema[j].key \in asked)}}
  BY DEF Wanted, ToSet, Min

\* A row of a dataset has a value or null for each column that is described and asked
\* for, which is anchored if and only if it is a value, and a number or a truth value if
\* the column is one of numbers or of truth values (what the reply gives for other columns
\* is taken as it comes); one usable reply of the two is enough for a row
\* (extract_dataset_row, _build_result and _coerce_value of tasks/dataset_extraction).
THEOREM RowsAreAnchored ==
  ASSUME NEW readable \in BOOLEAN, NEW model \in BOOLEAN, NEW asked, NEW schema,
         \A i, j \in DOMAIN schema : schema[i].key = schema[j].key => i = j,
         NEW replies, \A i \in 1 .. 2 : CellsOf(replies[i])
  PROVE  RowIsAnchored(readable, schema, asked, model, replies)
<1> DEFINE chosen == {j \in DOMAIN schema :
                        schema[j].described /\ (asked = {} \/ schema[j].key \in asked)}
           fields == {schema[i] : i \in chosen}
           keys   == {schema[i].key : i \in chosen}
           parsed == {i \in 1 .. 2 : replies[i].form = "json"}
           result == ExtractRow(readable, schema, asked, model, replies)
<1>1. Wanted(schema, asked) = fields /\ ParsedReplies(replies) = parsed
  BY ONLY WantedIs DEF ParsedReplies
<1>2. /\ \A f, g \in fields : f.key = g.key => f = g
      /\ keys = {f.key : f \in fields} /\ (keys = {} <=> fields = {})
  BY ONLY \A i, j \in DOMAIN schema : schema[i].key = schema[j].key => i = j
<1>3. \A i \in DOMAIN schema : schema[i].key \in keys => schema[i] \in fields
  BY ONLY \A i, j \in DOMAIN schema : schema[i].key = schema[j].key => i = j
<1>4. parsed # {} => Min(parsed) \in 1 .. 2
  <2>1. parsed \subseteq Nat /\ parsed \subseteq 1 .. 2
    OBVIOUS
  <2> HIDE DEF parsed
  <2> QED  BY ONLY <2>1, LeastIs, WantedIs
<1> DEFINE built == BuildResult(fields, replies[Min(parsed)])
<1>5. result = CASE ~readable -> Failure
                 [] readable /\ fields = {} -> [ok |-> TRUE, row |-> <<>>, anchored |-> {}]
                 [] readable /\ fields # {} /\ (~model \/ parsed = {}) -> Failure
                 [] OTHER -> built
  BY ONLY <1>1 DEF ExtractRow
<1>6. parsed # {} <=> \E i \in 1 .. 2 : replies[i].form = "json"
  OBVIOUS
<1> HIDE DEF chosen, fields, keys, parsed, result, built
<1>7. /\ result.ok = (readable /\ (keys = {} \/ (model /\ parsed # {})))
      /\ ~result.ok => result.anchored = {}
      /\ result.ok => RowOf(fields, result)
  <2>1. CASE ~readable
    <3>1. result.ok = FALSE /\ result.anchored = {}
      BY ONLY <1>5, <2>1 DEF Failure
    <3> QED  BY ONLY <2>1, <3>1
  <2>2. CASE readable /\ fields = {}
    <3>1. result = [ok |-> TRUE, row |-> <<>>, anchored |-> {}]
      BY ONLY <1>5, <2>2
    <3>2. result.ok = TRUE /\ DOMAIN result.row = {}
      BY ONLY <3>1
    <3>3. RowOf(fields, result)
      BY ONLY <2>2, <3>2 DEF RowOf
    <3> QED  BY ONLY <1>2, <2>2, <3>2, <3>3
  <2>3. CASE readable /\ fields # {} /\ (~model \/ parsed = {})
    <3>1. result.ok = FALSE /\ result.anchored = {}
      BY ONLY <1>5, <2>3 DEF Failure
    <3> QED  BY ONLY <1>2, <2>3, <3>1
  <2>4. CASE readable /\ fields # {} /\ model /\ parsed # {}
    <3>1. result = built
      BY ONLY <1>5, <2>4
    <3>2. RowOf(fields, result)
      BY ONLY <1>2, <1>4, <2>4, <3>1, \A i \in 1 .. 2 : CellsOf(replies[i]), BuiltIs DEF built
    <3> QED  BY ONLY <2>4, <3>2 DEF RowOf
  <2> QED  BY ONLY <2>1, <2>2, <2>3, <2>4
<1>8. result.ok => DOMAIN result.row = keys
  BY ONLY <1>2, <1>7 DEF RowOf
<1>9. result.ok => \A i \in DOMAIN schema : schema[i].key \in keys =>
        /\ schema[i].type = "number" => result.row[schema[i].key] \in {Null, "number"}
        /\ schema[i].type = "boolean" => result.row[schema[i].key] \in {Null, "truth"}
        /\ schema[i].key \in result.anchored <=> result.row[schema[i].key] # Null
  BY ONLY <1>3, <1>7 DEF RowOf, OfType, Null
<1> QED  BY ONLY <1>6, <1>7, <1>8, <1>9
         DEF RowIsAnchored, result, keys, chosen

FirstProposal(raw, i) ==
  raw[i].object /\ \A j \in 1 .. i - 1 : raw[j].object => raw[j].key # raw[i].key
ColumnAdd(raw, out, i) ==
  IF FirstProposal(raw, i) /\ raw[i].described THEN Append(out, raw[i]) ELSE out
ColumnSteps(raw, h) ==
  h[0] = <<>> /\ \A i \in 1 .. Len(raw) : h[i] = ColumnAdd(raw, h[i - 1], i)
ColumnsAfter(P, raw, last) ==
  \E h \in [0 .. Len(raw) -> Seq(P)] : ColumnSteps(raw, h) /\ last = h[Len(raw)]

LEMMA ColumnAddType ==
  ASSUME NEW P, NEW raw, raw \in Seq(P), NEW i \in 1 .. Len(raw), NEW out, out \in Seq(P)
  PROVE  ColumnAdd(raw, out, i) \in Seq(P)
<1>1. raw[i] \in P
  BY ONLY raw \in Seq(P), ElementOfSeq, i \in 1 .. Len(raw)
<1>2. Append(out, raw[i]) \in Seq(P)
  BY ONLY <1>1, out \in Seq(P), AppendIs
<1> QED  BY ONLY <1>2, out \in Seq(P) DEF ColumnAdd

\* The loop over the proposals.
LEMMA ColumnsFold ==
  ASSUME NEW P, NEW raw, raw \in Seq(P)
  PROVE  ColumnsAfter(P, raw, NormalizeColumns(raw))
<1> DEFINE n == Len(raw)
           idx == [i \in DOMAIN raw |-> i]
           V == Seq(P)
           v == <<>>
           step(out, e) == ColumnAdd(raw, out, e)
           F == [i \in 1 .. n |-> [out \in V |-> step(out, idx[i])]]
           Is(f) == f = [S \in SUBSET DOMAIN idx |->
                           IF S = {} THEN v ELSE step(f[S \ {Max(S)}], idx[Max(S)])]
           iter == CHOOSE f : Is(f)
<1>0. n \in Nat /\ DOMAIN idx = 1 .. n /\ \A i \in 1 .. n : idx[i] = i
  BY ONLY raw \in Seq(P), LenProperties
<1>1. n \in Nat /\ v \in V
  BY ONLY <1>0, EmptySeq
<1>2. \A i \in 1 .. n : \A out \in V : step(out, idx[i]) \in V
  <2> TAKE i \in 1 .. n
  <2> TAKE out \in V
  <2>1. idx[i] = i /\ i \in 1 .. Len(raw)
    BY ONLY <1>0, i \in 1 .. n
  <2> QED  BY ONLY <2>1, out \in V, raw \in Seq(P), ColumnAddType
<1>3. F \in [1 .. n -> [V -> V]]
  <2> HIDE DEF step, V, n
  <2> QED  BY ONLY <1>2
<1>4. \A S \in SUBSET (1 .. n) : S # {} => Max(S) \in 1 .. n /\ S \ {Max(S)} \in SUBSET (1 .. n)
  <2> HIDE DEF n
  <2> QED  BY ONLY <1>1, MaxIn
<1>5. PICK g \in [SUBSET (1 .. n) -> V] :
        \A S \in SUBSET (1 .. n) : g[S] = IF S = {} THEN v ELSE F[Max(S)][g[S \ {Max(S)}]]
  <2> HIDE DEF F, V, n, v
  <2>1. Folded(V, n, v, F)
    BY ONLY <1>1, <1>3, FoldExists
  <2> QED  BY ONLY <2>1 DEF Folded, Folds
<1>6. DOMAIN idx = 1 .. n
  <2>1. DOMAIN idx = 1 .. n
    BY ONLY <1>0
  <2> QED  BY ONLY <2>1
<1>7. Is(g)
  <2> HIDE DEF step, V, n, v
  <2>1. ASSUME NEW S \in SUBSET (1 .. n)
        PROVE  g[S] = IF S = {} THEN v ELSE step(g[S \ {Max(S)}], idx[Max(S)])
    <3>1. CASE S = {}
      BY ONLY <1>5, <3>1, S \in SUBSET (1 .. n)
    <3>2. CASE S # {}
      BY ONLY <1>4, <1>5, <3>2, S \in SUBSET (1 .. n)
    <3> QED  BY ONLY <3>1, <3>2
  <2> QED  BY ONLY <1>5, <1>6, <2>1
<1>8. Is(iter)
  <2> HIDE DEF Is
  <2> QED  BY <1>7
<1>9. NormalizeColumns(raw) = iter[1 .. n]
  BY <1>6 DEF NormalizeColumns, FoldLeft, MapThenFoldSet, ColumnAdd, FirstProposal, idx
<1>10. /\ iter[{}] = v
       /\ \A S \in SUBSET (1 .. n) :
            S # {} /\ iter[S \ {Max(S)}] \in V => iter[S] = F[Max(S)][iter[S \ {Max(S)}]]
  <2> HIDE DEF step, V, iter, n, v
  <2>1. \A S \in SUBSET (1 .. n) :
          iter[S] = IF S = {} THEN v ELSE step(iter[S \ {Max(S)}], idx[Max(S)])
    BY ONLY <1>6, <1>8
  <2> QED  BY ONLY <1>4, <2>1
<1>11. PICK h \in [0 .. n -> V] :
         /\ h[0] = v /\ \A i \in 1 .. n : h[i] = F[i][h[i - 1]]
         /\ iter[1 .. n] = h[n]
  <2> HIDE DEF F, V, iter, n, v
  <2>1. FoldsIn(V, n, v, F, iter)
    BY ONLY <1>10 DEF FoldsIn
  <2>2. IteratedTo(V, n, v, F, iter[1 .. n])
    BY ONLY <1>1, <1>3, <2>1, FoldGoesOn
  <2> QED  BY ONLY <2>2 DEF IteratedTo, Iterates
<1>12. \A i \in 1 .. n : h[i] = step(h[i - 1], idx[i])
  <2> HIDE DEF step, V
  <2> TAKE i \in 1 .. n
  <2> HIDE DEF n
  <2>1. h[i - 1] \in V
    <3>1. i - 1 \in 0 .. n
      BY ONLY <1>1, i \in 1 .. n
    <3> QED  BY ONLY <1>11, <3>1
  <2> QED  BY ONLY <1>11, <2>1, i \in 1 .. n
<1>13. ColumnSteps(raw, h)
  <2>1. \A i \in 1 .. n : h[i] = ColumnAdd(raw, h[i - 1], i)
    <3> HIDE DEF idx, n
    <3> QED  BY ONLY <1>0, <1>12
  <2> QED  BY ONLY <1>11, <2>1 DEF ColumnSteps
<1> HIDE DEF iter
<1> QED  BY ONLY <1>9, <1>11, <1>13 DEF ColumnsAfter

ColumnsIn(P, raw, i, out) ==
  /\ out \in Seq(P) /\ KeysDiffer(out)
  /\ \A a \in 1 .. Len(out) :
       out[a].described /\ \E j \in 1 .. i : out[a] = raw[j] /\ FirstProposal(raw, j)
  /\ \A j \in 1 .. i : FirstProposal(raw, j) /\ raw[j].described =>
       \E a \in 1 .. Len(out) : out[a].key = raw[j].key

LEMMA ColumnAddKeeps ==
  ASSUME NEW P, NEW raw, raw \in Seq(P), NEW i \in 1 .. Len(raw),
         NEW out, ColumnsIn(P, raw, i - 1, out)
  PROVE  ColumnsIn(P, raw, i, ColumnAdd(raw, out, i))
<1> DEFINE e == raw[i]
           m == Len(out)
<1>1. /\ out \in Seq(P) /\ \A a, b \in 1 .. m : out[a].key = out[b].key => a = b
      /\ \A a \in 1 .. m :
           out[a].described /\ \E j \in 1 .. i - 1 : out[a] = raw[j] /\ FirstProposal(raw, j)
      /\ \A j \in 1 .. i - 1 : FirstProposal(raw, j) /\ raw[j].described =>
           \E a \in 1 .. m : out[a].key = raw[j].key
  BY ONLY ColumnsIn(P, raw, i - 1, out) DEF ColumnsIn, KeysDiffer
<1>2. e \in P /\ Len(raw) \in Nat /\ i \in Nat \ {0} /\ m \in Nat
  BY ONLY <1>1, raw \in Seq(P), LenProperties, ElementOfSeq, i \in 1 .. Len(raw)
<1>3. /\ \A j \in 1 .. i : j \in 1 .. i - 1 \/ j = i
      /\ \A j \in 1 .. i - 1 : j \in 1 .. i
      /\ i \in 1 .. i
  BY ONLY <1>2
<1>4. CASE FirstProposal(raw, i) /\ e.described
  <2> DEFINE l == Append(out, e)
  <2>1. ColumnAdd(raw, out, i) = l
    BY ONLY <1>4 DEF ColumnAdd
  <2>2. l \in Seq(P) /\ Appended(out, e, l)
    BY ONLY <1>1, <1>2, AppendIs
  <2>3. Len(l) = m + 1 /\ l[m + 1] = e /\ \A a \in 1 .. m : l[a] = out[a]
    BY ONLY <2>2 DEF Appended
  <2> HIDE DEF l
  <2>4. /\ \A a \in 1 .. m + 1 : a \in 1 .. m \/ a = m + 1
        /\ \A a \in 1 .. m : a \in 1 .. m + 1
        /\ m + 1 \in 1 .. m + 1
    BY ONLY <1>2
  <2>5. \A a \in 1 .. m : out[a].key # e.key
    <3> TAKE a \in 1 .. m
    <3>1. PICK j \in 1 .. i - 1 : out[a] = raw[j] /\ FirstProposal(raw, j)
      BY ONLY <1>1
    <3>2. raw[j].object
      BY ONLY <3>1 DEF FirstProposal
    <3>3. raw[j].key # raw[i].key
      BY ONLY <1>4, <3>2, j \in 1 .. i - 1 DEF FirstProposal
    <3> QED  BY ONLY <3>1, <3>3
  <2>6. KeysDiffer(l)
    <3> SUFFICES ASSUME NEW a \in 1 .. m + 1, NEW b \in 1 .. m + 1, l[a].key = l[b].key
        PROVE  a = b
      BY <2>3 DEF KeysDiffer
    <3>1. CASE a \in 1 .. m /\ b \in 1 .. m
      BY ONLY <1>1, <2>3, <3>1, l[a].key = l[b].key
    <3>2. CASE a = m + 1 \/ b = m + 1
      BY ONLY <2>3, <2>4, <2>5, <3>2, l[a].key = l[b].key, a \in 1 .. m + 1, b \in 1 .. m + 1
    <3> QED  BY ONLY <2>4, <3>1, <3>2, a \in 1 .. m + 1, b \in 1 .. m + 1
  <2>7. \A a \in 1 .. m + 1 :
          l[a].described /\ \E j \in 1 .. i : l[a] = raw[j] /\ FirstProposal(raw, j)
    BY ONLY <1>1, <1>3, <1>4, <2>3, <2>4
  <2>8. \A j \in 1 .. i : FirstProposal(raw, j) /\ raw[j].described =>
          \E a \in 1 .. m + 1 : l[a].key = raw[j].key
    BY ONLY <1>1, <1>3, <2>3, <2>4
  <2> QED  BY ONLY <2>1, <2>2, <2>3, <2>6, <2>7, <2>8 DEF ColumnsIn
<1>5. CASE ~(FirstProposal(raw, i) /\ e.described)
  <2>1. ColumnAdd(raw, out, i) = out
    BY ONLY <1>5 DEF ColumnAdd
  <2>2. \A j \in 1 .. i : FirstProposal(raw, j) /\ raw[j].described =>
          \E a \in 1 .. m : out[a].key = raw[j].key
    BY ONLY <1>1, <1>3, <1>5
  <2>3. \A a \in 1 .. m :
          out[a].described /\ \E j \in 1 .. i : out[a] = raw[j] /\ FirstProposal(raw, j)
    BY ONLY <1>1, <1>3
  <2> QED  BY ONLY <1>1, <2>1, <2>2, <2>3 DEF ColumnsIn, KeysDiffer
<1> QED  BY ONLY <1>4, <1>5

LEMMA ColumnsAre ==
  ASSUME NEW P, NEW raw, raw \in Seq(P)
  PROVE  ColumnsIn(P, raw, Len(raw), NormalizeColumns(raw))
<1> DEFINE n == Len(raw)
<1>1. n \in Nat
  BY ONLY raw \in Seq(P), LenProperties
<1>2. ColumnsAfter(P, raw, NormalizeColumns(raw))
  BY ONLY raw \in Seq(P), ColumnsFold
<1>3. PICK h \in [0 .. n -> Seq(P)] : ColumnSteps(raw, h) /\ NormalizeColumns(raw) = h[n]
  BY ONLY <1>2 DEF ColumnsAfter
<1>4. h[0] = <<>> /\ \A i \in 1 .. n : h[i] = ColumnAdd(raw, h[i - 1], i)
  BY ONLY <1>3 DEF ColumnSteps
<1> HIDE DEF n
<1> DEFINE S == {i \in 0 .. n : ColumnsIn(P, raw, i, h[i])}
<1>5. 0 \in S
  <2>1. <<>> \in Seq(P) /\ Len(<<>>) = 0 /\ \A a \in 1 .. 0 : FALSE
    BY EmptySeq
  <2>2. ColumnsIn(P, raw, 0, <<>>)
    BY ONLY <2>1 DEF ColumnsIn, KeysDiffer
  <2> QED  BY ONLY <1>1, <1>4, <2>2
<1>6. \A k \in 0 .. n - 1 : k \in S => k + 1 \in S
  <2> SUFFICES ASSUME NEW k \in 0 .. n - 1, k \in S PROVE k + 1 \in S
    OBVIOUS
  <2>1. k + 1 \in 1 .. n /\ (k + 1) - 1 = k /\ k + 1 \in 0 .. n
    BY ONLY <1>1, k \in 0 .. n - 1
  <2>2. h[k + 1] = ColumnAdd(raw, h[k], k + 1)
    BY ONLY <1>4, <2>1
  <2>3. ColumnsIn(P, raw, (k + 1) - 1, h[k])
    BY ONLY <2>1, k \in S
  <2>4. ColumnsIn(P, raw, k + 1, h[k + 1])
    BY ONLY <2>1, <2>2, <2>3, raw \in Seq(P), ColumnAddKeeps DEF n
  <2> QED  BY ONLY <2>1, <2>4
<1>7. \A k \in 0 .. n : k \in S
  <2> HIDE DEF S
  <2> QED  BY ONLY <1>1, <1>5, <1>6, Upwards
<1>8. n \in 0 .. n
  BY ONLY <1>1
<1> QED  BY ONLY <1>3, <1>7, <1>8 DEF n

\* The columns proposed for a dataset: none twice, each described, and one left out
\* only if its key came before (propose_dataset_columns and _normalize_columns of
\* tasks/dataset_extraction).
THEOREM ProposedAreDescribed ==
  ASSUME NEW P, NEW readable \in BOOLEAN, NEW model \in BOOLEAN, NEW replies,
         \A i \in 1 .. 2 : replies[i].columns \in Seq(P)
  PROVE  ColumnsAreDescribed(readable, model, replies)
<1> DEFINE reply == IF replies[1].form = "noise" THEN replies[2] ELSE replies[1]
           raw == reply.columns
           columns == ProposeColumns(readable, model, replies)
           usable == readable /\ model /\ reply.form = "json"
<1>1. raw \in Seq(P)
  BY ONLY \A i \in 1 .. 2 : replies[i].columns \in Seq(P)
<1>2. columns = IF usable THEN NormalizeColumns(raw) ELSE <<>>
  BY DEF ProposeColumns
<1> HIDE DEF raw, columns, usable
<1>3. usable => ColumnsIn(P, raw, Len(raw), columns)
  BY ONLY <1>1, <1>2, ColumnsAre
<1>4. /\ columns \in Seq(P) /\ KeysDiffer(columns)
      /\ \A a \in 1 .. Len(columns) : columns[a].described
  <2>1. CASE usable
    BY ONLY <1>3, <2>1 DEF ColumnsIn
  <2>2. CASE ~usable
    <3>1. columns = <<>>
      BY ONLY <1>2, <2>2
    <3>2. Len(columns) = 0 /\ columns \in Seq(P)
      BY ONLY <3>1, EmptySeq
    <3> QED  BY ONLY <3>2 DEF KeysDiffer
  <2> QED  BY ONLY <2>1, <2>2
<1>5. /\ DOMAIN columns = 1 .. Len(columns)
      /\ DOMAIN raw = 1 .. Len(raw) /\ Len(raw) \in Nat
  BY ONLY <1>1, <1>4, LenProperties
<1>6. columns # <<>> => usable
  BY ONLY <1>2
<1>7. ASSUME usable, NEW i \in DOMAIN raw, raw[i].object, raw[i].described
      PROVE  \E d \in ToSet(columns) \cup ToSet(SubSeq(raw, 1, i - 1)) :
               d.key = raw[i].key
  <2>1. CASE FirstProposal(raw, i)
    <3>1. PICK a \in 1 .. Len(columns) : columns[a].key = raw[i].key
      BY ONLY <1>3, <1>5, <1>7, <2>1 DEF ColumnsIn
    <3>2. columns[a] \in ToSet(columns)
      BY ONLY <1>5, <3>1 DEF ToSet
    <3> QED  BY ONLY <3>1, <3>2
  <2>2. CASE ~FirstProposal(raw, i)
    <3>1. PICK j \in 1 .. i - 1 : raw[j].key = raw[i].key
      BY ONLY <1>7, <2>2 DEF FirstProposal
    <3> DEFINE q == SubSeq(raw, 1, i - 1)
    <3>2. /\ i \in Nat /\ i - 1 \in 1 - 1 .. Len(raw) /\ 1 \in 1 .. Len(raw) + 1 /\ i - 1 - 1 + 1 = i - 1
          /\ 1 <= i - 1 /\ 1 + j - 1 = j /\ j \in 1 .. i - 1 - 1 + 1
      BY ONLY <1>5, <1>7, j \in 1 .. i - 1
    <3>3. /\ q \in Seq(P) /\ Len(q) = IF 1 <= i - 1 THEN i - 1 - 1 + 1 ELSE 0
          /\ \A k \in 1 .. i - 1 - 1 + 1 : q[k] = raw[1 + k - 1]
      BY ONLY <1>1, <3>2, SubSeqProperties
    <3> HIDE DEF q
    <3>4. q[j] = raw[j] /\ j \in 1 .. Len(q)
      BY ONLY <3>2, <3>3
    <3>5. q[j] \in ToSet(q)
      BY ONLY <3>3, <3>4, LenProperties DEF ToSet
    <3> QED  BY ONLY <3>1, <3>4, <3>5 DEF q
  <2> QED  BY ONLY <2>1, <2>2
<1>8. /\ \A i \in DOMAIN columns : columns[i].described
      /\ \A i, j \in DOMAIN columns : columns[i].key = columns[j].key => i = j
  BY ONLY <1>4, <1>5 DEF KeysDiffer
<1> QED  BY ONLY <1>6, <1>7, <1>8 DEF ColumnsAreDescribed, columns, raw, usable

-----------------------------------------------------------------------------
(* The key points of a document (Lists!KeyPoints) *)

SimilarAdd(out, c) == IF \E i \in DOMAIN out : Similar(out[i], c) THEN out ELSE Append(out, c)
SimilarSteps(list, h) ==
  h[0] = <<>> /\ \A i \in 1 .. Len(list) : h[i] = SimilarAdd(h[i - 1], list[i])
SimilarAfter(L, list, last) ==
  \E h \in [0 .. Len(list) -> Seq(L)] : SimilarSteps(list, h) /\ last = h[Len(list)]

LEMMA SimilarAddType ==
  ASSUME NEW L, NEW c, c \in L, NEW out, out \in Seq(L)
  PROVE  SimilarAdd(out, c) \in Seq(L)
<1>1. Append(out, c) \in Seq(L)
  BY ONLY c \in L, out \in Seq(L), AppendIs
<1> QED  BY ONLY <1>1, out \in Seq(L) DEF SimilarAdd

\* The loop that compares a candidate with those that were kept.
LEMMA SimilarFold ==
  ASSUME NEW L, NEW list, list \in Seq(L)
  PROVE  SimilarAfter(L, list, SemanticDedupe(list, TRUE))
<1> DEFINE n == Len(list)
           V == Seq(L)
           v == <<>>
           step(out, e) == SimilarAdd(out, e)
           F == [i \in 1 .. n |-> [out \in V |-> step(out, list[i])]]
           Is(f) == f = [S \in SUBSET DOMAIN list |->
                           IF S = {} THEN v ELSE step(f[S \ {Max(S)}], list[Max(S)])]
           iter == CHOOSE f : Is(f)
<1>1. n \in Nat /\ v \in V
  BY ONLY list \in Seq(L), LenProperties, EmptySeq
<1>2. \A i \in 1 .. n : \A out \in V : step(out, list[i]) \in V
  <2> TAKE i \in 1 .. n
  <2> TAKE out \in V
  <2>1. list[i] \in L
    BY ONLY list \in Seq(L), ElementOfSeq, i \in 1 .. n
  <2> QED  BY ONLY <2>1, out \in V, SimilarAddType
<1>3. F \in [1 .. n -> [V -> V]]
  <2> HIDE DEF step, V, n
  <2> QED  BY ONLY <1>2
<1>4. \A S \in SUBSET (1 .. n) : S # {} => Max(S) \in 1 .. n /\ S \ {Max(S)} \in SUBSET (1 .. n)
  <2> HIDE DEF n
  <2> QED  BY ONLY <1>1, MaxIn
<1>5. PICK g \in [SUBSET (1 .. n) -> V] :
        \A S \in SUBSET (1 .. n) : g[S] = IF S = {} THEN v ELSE F[Max(S)][g[S \ {Max(S)}]]
  <2> HIDE DEF F, V, n, v
  <2>1. Folded(V, n, v, F)
    BY ONLY <1>1, <1>3, FoldExists
  <2> QED  BY ONLY <2>1 DEF Folded, Folds
<1>6. DOMAIN list = 1 .. n
  <2>1. DOMAIN list = 1 .. n
    BY ONLY list \in Seq(L), LenProperties
  <2> QED  BY ONLY <2>1
<1>7. Is(g)
  <2> HIDE DEF step, V, n, v
  <2>1. ASSUME NEW S \in SUBSET (1 .. n)
        PROVE  g[S] = IF S = {} THEN v ELSE step(g[S \ {Max(S)}], list[Max(S)])
    <3>1. CASE S = {}
      BY ONLY <1>5, <3>1, S \in SUBSET (1 .. n)
    <3>2. CASE S # {}
      BY ONLY <1>4, <1>5, <3>2, S \in SUBSET (1 .. n)
    <3> QED  BY ONLY <3>1, <3>2
  <2> QED  BY ONLY <1>5, <1>6, <2>1
<1>8. Is(iter)
  <2> HIDE DEF Is
  <2> QED  BY <1>7
<1>9. SemanticDedupe(list, TRUE) = iter[1 .. n]
  BY <1>6 DEF SemanticDedupe, FoldLeft, MapThenFoldSet, SimilarAdd
<1>10. /\ iter[{}] = v
       /\ \A S \in SUBSET (1 .. n) :
            S # {} /\ iter[S \ {Max(S)}] \in V => iter[S] = F[Max(S)][iter[S \ {Max(S)}]]
  <2> HIDE DEF step, V, iter, n, v
  <2>1. \A S \in SUBSET (1 .. n) :
          iter[S] = IF S = {} THEN v ELSE step(iter[S \ {Max(S)}], list[Max(S)])
    BY ONLY <1>6, <1>8
  <2> QED  BY ONLY <1>4, <2>1
<1>11. PICK h \in [0 .. n -> V] :
         /\ h[0] = v /\ \A i \in 1 .. n : h[i] = F[i][h[i - 1]]
         /\ iter[1 .. n] = h[n]
  <2> HIDE DEF F, V, iter, n, v
  <2>1. FoldsIn(V, n, v, F, iter)
    BY ONLY <1>10 DEF FoldsIn
  <2>2. IteratedTo(V, n, v, F, iter[1 .. n])
    BY ONLY <1>1, <1>3, <2>1, FoldGoesOn
  <2> QED  BY ONLY <2>2 DEF IteratedTo, Iterates
<1>12. \A i \in 1 .. n : h[i] = step(h[i - 1], list[i])
  <2> HIDE DEF step, V
  <2> TAKE i \in 1 .. n
  <2> HIDE DEF n
  <2>1. h[i - 1] \in V
    <3>1. i - 1 \in 0 .. n
      BY ONLY <1>1, i \in 1 .. n
    <3> QED  BY ONLY <1>11, <3>1
  <2> QED  BY ONLY <1>11, <2>1, i \in 1 .. n
<1>13. SimilarSteps(list, h)
  BY ONLY <1>11, <1>12 DEF SimilarSteps
<1> HIDE DEF iter
<1> QED  BY ONLY <1>9, <1>11, <1>13 DEF SimilarAfter

UsableAdd(out, c) == IF c.key \in Usable THEN Append(out, c) ELSE out
UsableSteps(list, h) ==
  h[0] = <<>> /\ \A i \in 1 .. Len(list) : h[i] = UsableAdd(h[i - 1], list[i])
UsableAfter(L, list, last) ==
  \E h \in [0 .. Len(list) -> Seq(L)] : UsableSteps(list, h) /\ last = h[Len(list)]

LEMMA UsableAddType ==
  ASSUME NEW L, NEW c, c \in L, NEW out, out \in Seq(L)
  PROVE  UsableAdd(out, c) \in Seq(L)
<1>1. Append(out, c) \in Seq(L)
  BY ONLY c \in L, out \in Seq(L), AppendIs
<1> QED  BY ONLY <1>1, out \in Seq(L) DEF UsableAdd

\* The candidates with few and many enough words.
LEMMA UsableFold ==
  ASSUME NEW L, NEW list, list \in Seq(L)
  PROVE  UsableAfter(L, list, InWords(list))
<1> DEFINE n == Len(list)
           V == Seq(L)
           v == <<>>
           step(out, e) == UsableAdd(out, e)
           F == [i \in 1 .. n |-> [out \in V |-> step(out, list[i])]]
           Is(f) == f = [S \in SUBSET DOMAIN list |->
                           IF S = {} THEN v ELSE step(f[S \ {Max(S)}], list[Max(S)])]
           iter == CHOOSE f : Is(f)
<1>1. n \in Nat /\ v \in V
  BY ONLY list \in Seq(L), LenProperties, EmptySeq
<1>2. \A i \in 1 .. n : \A out \in V : step(out, list[i]) \in V
  <2> TAKE i \in 1 .. n
  <2> TAKE out \in V
  <2>1. list[i] \in L
    BY ONLY list \in Seq(L), ElementOfSeq, i \in 1 .. n
  <2> QED  BY ONLY <2>1, out \in V, UsableAddType
<1>3. F \in [1 .. n -> [V -> V]]
  <2> HIDE DEF step, V, n
  <2> QED  BY ONLY <1>2
<1>4. \A S \in SUBSET (1 .. n) : S # {} => Max(S) \in 1 .. n /\ S \ {Max(S)} \in SUBSET (1 .. n)
  <2> HIDE DEF n
  <2> QED  BY ONLY <1>1, MaxIn
<1>5. PICK g \in [SUBSET (1 .. n) -> V] :
        \A S \in SUBSET (1 .. n) : g[S] = IF S = {} THEN v ELSE F[Max(S)][g[S \ {Max(S)}]]
  <2> HIDE DEF F, V, n, v
  <2>1. Folded(V, n, v, F)
    BY ONLY <1>1, <1>3, FoldExists
  <2> QED  BY ONLY <2>1 DEF Folded, Folds
<1>6. DOMAIN list = 1 .. n
  <2>1. DOMAIN list = 1 .. n
    BY ONLY list \in Seq(L), LenProperties
  <2> QED  BY ONLY <2>1
<1>7. Is(g)
  <2> HIDE DEF step, V, n, v
  <2>1. ASSUME NEW S \in SUBSET (1 .. n)
        PROVE  g[S] = IF S = {} THEN v ELSE step(g[S \ {Max(S)}], list[Max(S)])
    <3>1. CASE S = {}
      BY ONLY <1>5, <3>1, S \in SUBSET (1 .. n)
    <3>2. CASE S # {}
      BY ONLY <1>4, <1>5, <3>2, S \in SUBSET (1 .. n)
    <3> QED  BY ONLY <3>1, <3>2
  <2> QED  BY ONLY <1>5, <1>6, <2>1
<1>8. Is(iter)
  <2> HIDE DEF Is
  <2> QED  BY <1>7
<1>9. InWords(list) = iter[1 .. n]
  BY <1>6 DEF InWords, FoldLeft, MapThenFoldSet, UsableAdd
<1>10. /\ iter[{}] = v
       /\ \A S \in SUBSET (1 .. n) :
            S # {} /\ iter[S \ {Max(S)}] \in V => iter[S] = F[Max(S)][iter[S \ {Max(S)}]]
  <2> HIDE DEF step, V, iter, n, v
  <2>1. \A S \in SUBSET (1 .. n) :
          iter[S] = IF S = {} THEN v ELSE step(iter[S \ {Max(S)}], list[Max(S)])
    BY ONLY <1>6, <1>8
  <2> QED  BY ONLY <1>4, <2>1
<1>11. PICK h \in [0 .. n -> V] :
         /\ h[0] = v /\ \A i \in 1 .. n : h[i] = F[i][h[i - 1]]
         /\ iter[1 .. n] = h[n]
  <2> HIDE DEF F, V, iter, n, v
  <2>1. FoldsIn(V, n, v, F, iter)
    BY ONLY <1>10 DEF FoldsIn
  <2>2. IteratedTo(V, n, v, F, iter[1 .. n])
    BY ONLY <1>1, <1>3, <2>1, FoldGoesOn
  <2> QED  BY ONLY <2>2 DEF IteratedTo, Iterates
<1>12. \A i \in 1 .. n : h[i] = step(h[i - 1], list[i])
  <2> HIDE DEF step, V
  <2> TAKE i \in 1 .. n
  <2> HIDE DEF n
  <2>1. h[i - 1] \in V
    <3>1. i - 1 \in 0 .. n
      BY ONLY <1>1, i \in 1 .. n
    <3> QED  BY ONLY <1>11, <3>1
  <2> QED  BY ONLY <1>11, <2>1, i \in 1 .. n
<1>13. UsableSteps(list, h)
  BY ONLY <1>11, <1>12 DEF UsableSteps
<1> HIDE DEF iter
<1> QED  BY ONLY <1>9, <1>11, <1>13 DEF UsableAfter

Starts(list, i, out) == Len(out) = i /\ \A a \in 1 .. i : out[a] = list[a]
LEMMA StartsOneMore ==
  ASSUME NEW L, NEW list, list \in Seq(L), NEW i \in 1 .. Len(list), NEW out, out \in Seq(L),
         Starts(list, i - 1, out)
  PROVE  Starts(list, i, Append(out, list[i]))
<1> DEFINE l == Append(out, list[i])
<1>1. list[i] \in L /\ i \in Nat \ {0}
  BY ONLY list \in Seq(L), LenProperties, ElementOfSeq, i \in 1 .. Len(list)
<1>2. Appended(out, list[i], l)
  BY ONLY <1>1, out \in Seq(L), AppendIs
<1> HIDE DEF l
<1>3. Len(out) = i - 1 /\ \A a \in 1 .. i - 1 : out[a] = list[a]
  BY DEF Starts
<1>4. Len(l) = (i - 1) + 1 /\ l[(i - 1) + 1] = list[i] /\ \A a \in 1 .. i - 1 : l[a] = out[a]
  BY ONLY <1>2, <1>3 DEF Appended
<1>5. (i - 1) + 1 = i /\ \A a \in 1 .. i : a \in 1 .. i - 1 \/ a = i
  BY ONLY <1>1
<1>6. Len(l) = i /\ \A a \in 1 .. i : l[a] = list[a]
  BY ONLY <1>3, <1>4, <1>5
<1> QED  BY ONLY <1>6 DEF Starts, l

OnlyFrom(list, i, out) == \A a \in 1 .. Len(out) : \E j \in 1 .. i : out[a] = list[j]
LEMMA OnlyFromOneMore ==
  ASSUME NEW L, NEW list, list \in Seq(L), NEW i \in 1 .. Len(list), NEW out, out \in Seq(L),
         OnlyFrom(list, i - 1, out)
  PROVE  OnlyFrom(list, i, out) /\ OnlyFrom(list, i, Append(out, list[i]))
<1> DEFINE l == Append(out, list[i])
           m == Len(out)
<1>1. list[i] \in L /\ i \in Nat \ {0} /\ m \in Nat
  BY ONLY list \in Seq(L), out \in Seq(L), LenProperties, ElementOfSeq, i \in 1 .. Len(list)
<1>2. Appended(out, list[i], l)
  BY ONLY <1>1, out \in Seq(L), AppendIs
<1> HIDE DEF l
<1>3. \A j \in 1 .. i - 1 : j \in 1 .. i
  BY ONLY <1>1
<1>4. \A a \in 1 .. m : \E j \in 1 .. i : out[a] = list[j]
  BY ONLY <1>3, OnlyFrom(list, i - 1, out) DEF OnlyFrom
<1>5. Len(l) = m + 1 /\ l[m + 1] = list[i] /\ \A a \in 1 .. m : l[a] = out[a]
  BY ONLY <1>2 DEF Appended
<1>6. i \in 1 .. i /\ \A a \in 1 .. m + 1 : a \in 1 .. m \/ a = m + 1
  BY ONLY <1>1
<1>7. \A a \in 1 .. m + 1 : \E j \in 1 .. i : l[a] = list[j]
  BY ONLY <1>4, <1>5, <1>6
<1> QED  BY ONLY <1>4, <1>5, <1>7 DEF OnlyFrom, l

\* The candidates have topics.
CandidatesOf(L) == \A c \in L : Topic[c.key] \in Nat
LEMMA SimilarSelf ==
  ASSUME NEW L, CandidatesOf(L), NEW c, c \in L
  PROVE  Similar(c, c)
BY DEF CandidatesOf, Similar

UnlikeUpTo(list, i) == \A a, b \in 1 .. i : a < b => ~Similar(list[a], list[b])
Unlike(list) == UnlikeUpTo(list, Len(list))
AllLike(list, i, out) == \A j \in 1 .. i : \E a \in 1 .. Len(out) : Similar(out[a], list[j])
SimilarIn(L, list, i, out) ==
  /\ out \in Seq(L) /\ Unlike(out) /\ OnlyFrom(list, i, out) /\ AllLike(list, i, out)

LEMMA SimilarAddKeeps ==
  ASSUME NEW L, CandidatesOf(L), NEW list, list \in Seq(L), NEW i \in 1 .. Len(list),
         NEW out, SimilarIn(L, list, i - 1, out)
  PROVE  SimilarIn(L, list, i, SimilarAdd(out, list[i]))
<1> DEFINE c == list[i]
           m == Len(out)
<1>1. /\ out \in Seq(L) /\ Unlike(out) /\ OnlyFrom(list, i - 1, out)
      /\ \A j \in 1 .. i - 1 : \E a \in 1 .. m : Similar(out[a], list[j])
  BY ONLY SimilarIn(L, list, i - 1, out) DEF SimilarIn, AllLike
<1>2. c \in L /\ Len(list) \in Nat /\ i \in Nat \ {0} /\ m \in Nat /\ DOMAIN out = 1 .. m
  BY ONLY <1>1, list \in Seq(L), LenProperties, ElementOfSeq, i \in 1 .. Len(list)
<1>3. /\ \A j \in 1 .. i : j \in 1 .. i - 1 \/ j = i
      /\ i \in 1 .. i
  BY ONLY <1>2
<1>5. OnlyFrom(list, i, out) /\ OnlyFrom(list, i, Append(out, c))
  BY ONLY <1>1, list \in Seq(L), i \in 1 .. Len(list), OnlyFromOneMore
<1>6. CASE \E a \in 1 .. m : Similar(out[a], c)
  <2>1. SimilarAdd(out, c) = out
    BY ONLY <1>2, <1>6 DEF SimilarAdd
  <2>2. AllLike(list, i, out)
    BY ONLY <1>1, <1>3, <1>6 DEF AllLike
  <2> QED  BY ONLY <1>1, <1>5, <2>1, <2>2 DEF SimilarIn
<1>7. CASE \A a \in 1 .. m : ~Similar(out[a], c)
  <2> DEFINE l == Append(out, c)
  <2>1. SimilarAdd(out, c) = l
    BY ONLY <1>2, <1>7 DEF SimilarAdd
  <2>2. l \in Seq(L) /\ Appended(out, c, l)
    BY ONLY <1>1, <1>2, AppendIs
  <2>3. Len(l) = m + 1 /\ l[m + 1] = c /\ \A a \in 1 .. m : l[a] = out[a]
    BY ONLY <2>2 DEF Appended
  <2> HIDE DEF l
  <2>5. /\ \A a \in 1 .. m + 1 : a \in 1 .. m \/ a = m + 1
        /\ \A a \in 1 .. m : a \in 1 .. m + 1
        /\ m + 1 \in 1 .. m + 1
        /\ \A a, b \in 1 .. m + 1 : a < b => a \in 1 .. m
    BY ONLY <1>2
  <2>6. Unlike(l)
    <3>1. \A a, b \in 1 .. m : a < b => ~Similar(out[a], out[b])
      BY ONLY <1>1 DEF Unlike, UnlikeUpTo
    <3>2. ASSUME NEW a \in 1 .. m + 1, NEW b \in 1 .. m + 1, a < b
          PROVE  ~Similar(l[a], l[b])
      BY ONLY <1>7, <2>3, <2>5, <3>1, <3>2
    <3> QED  BY ONLY <2>3, <3>2 DEF Unlike, UnlikeUpTo
  <2>7. AllLike(list, i, l)
    <3>1. Similar(c, c)
      BY ONLY <1>2, CandidatesOf(L), SimilarSelf
    <3>2. ASSUME NEW j \in 1 .. i PROVE \E a \in 1 .. m + 1 : Similar(l[a], list[j])
      <4>1. CASE j = i
        BY ONLY <2>3, <2>5, <3>1, <4>1
      <4>2. CASE j \in 1 .. i - 1
        BY ONLY <1>1, <2>3, <2>5, <4>2
      <4> QED  BY ONLY <1>3, <4>1, <4>2, j \in 1 .. i
    <3> QED  BY ONLY <2>3, <3>2 DEF AllLike
  <2>8. OnlyFrom(list, i, l)
    BY ONLY <1>5 DEF l
  <2> QED  BY ONLY <2>1, <2>2, <2>6, <2>7, <2>8 DEF SimilarIn
<1> QED  BY ONLY <1>6, <1>7

\* Of those that are kept no two are similar, and each candidate is similar to one of them.
LEMMA SimilarIs ==
  ASSUME NEW L, CandidatesOf(L), NEW list, list \in Seq(L)
  PROVE  SimilarIn(L, list, Len(list), SemanticDedupe(list, TRUE))
<1> DEFINE n == Len(list)
<1>1. n \in Nat
  BY ONLY list \in Seq(L), LenProperties
<1>2. SimilarAfter(L, list, SemanticDedupe(list, TRUE))
  BY ONLY list \in Seq(L), SimilarFold
<1>3. PICK h \in [0 .. n -> Seq(L)] : SimilarSteps(list, h) /\ SemanticDedupe(list, TRUE) = h[n]
  BY ONLY <1>2 DEF SimilarAfter
<1>4. h[0] = <<>> /\ \A i \in 1 .. n : h[i] = SimilarAdd(h[i - 1], list[i])
  BY ONLY <1>3 DEF SimilarSteps
<1> HIDE DEF n
<1> DEFINE S == {i \in 0 .. n : SimilarIn(L, list, i, h[i])}
<1>5. 0 \in S
  <2>1. <<>> \in Seq(L) /\ Len(<<>>) = 0 /\ (\A a \in 1 .. 0 : FALSE) /\ 1 .. 0 = {}
    BY EmptySeq
  <2>2. SimilarIn(L, list, 0, <<>>)
    BY ONLY <2>1 DEF SimilarIn, Unlike, UnlikeUpTo, OnlyFrom, AllLike
  <2> QED  BY ONLY <1>1, <1>4, <2>2
<1>6. \A k \in 0 .. n - 1 : k \in S => k + 1 \in S
  <2> SUFFICES ASSUME NEW k \in 0 .. n - 1, k \in S PROVE k + 1 \in S
    OBVIOUS
  <2>1. k + 1 \in 1 .. n /\ (k + 1) - 1 = k /\ k + 1 \in 0 .. n
    BY ONLY <1>1, k \in 0 .. n - 1
  <2>2. h[k + 1] = SimilarAdd(h[k], list[k + 1])
    BY ONLY <1>4, <2>1
  <2>3. SimilarIn(L, list, (k + 1) - 1, h[k])
    BY ONLY <2>1, k \in S
  <2>4. SimilarIn(L, list, k + 1, h[k + 1])
    BY ONLY <2>1, <2>2, <2>3, list \in Seq(L), CandidatesOf(L), SimilarAddKeeps DEF n
  <2> QED  BY ONLY <2>1, <2>4
<1>7. \A k \in 0 .. n : k \in S
  <2> HIDE DEF S
  <2> QED  BY ONLY <1>1, <1>5, <1>6, Upwards
<1>8. n \in 0 .. n
  BY ONLY <1>1
<1> QED  BY ONLY <1>3, <1>7, <1>8 DEF n

AllUsable(list, i) == \A j \in 1 .. i : list[j].key \in Usable
HoldsUsable(list, i, out) ==
  \A j \in 1 .. i : list[j].key \in Usable => \E a \in 1 .. Len(out) : out[a] = list[j]
UsableIn(L, list, i, out) ==
  /\ out \in Seq(L) /\ OnlyFrom(list, i, out) /\ AllUsable(out, Len(out)) /\ HoldsUsable(list, i, out)

LEMMA UsableAddKeeps ==
  ASSUME NEW L, NEW list, list \in Seq(L), NEW i \in 1 .. Len(list),
         NEW out, UsableIn(L, list, i - 1, out)
  PROVE  UsableIn(L, list, i, UsableAdd(out, list[i]))
<1> DEFINE c == list[i]
           m == Len(out)
<1>1. /\ out \in Seq(L) /\ AllUsable(out, m) /\ OnlyFrom(list, i - 1, out)
      /\ \A j \in 1 .. i - 1 : list[j].key \in Usable => \E a \in 1 .. m : out[a] = list[j]
  BY ONLY UsableIn(L, list, i - 1, out) DEF UsableIn, HoldsUsable
<1>2. c \in L /\ Len(list) \in Nat /\ i \in Nat \ {0} /\ m \in Nat
  BY ONLY <1>1, list \in Seq(L), LenProperties, ElementOfSeq, i \in 1 .. Len(list)
<1>3. /\ \A j \in 1 .. i : j \in 1 .. i - 1 \/ j = i
      /\ \A j \in 1 .. i - 1 : j \in 1 .. i
      /\ i \in 1 .. i
  BY ONLY <1>2
<1>5. OnlyFrom(list, i, out) /\ OnlyFrom(list, i, Append(out, c))
  BY ONLY <1>1, list \in Seq(L), i \in 1 .. Len(list), OnlyFromOneMore
<1>6. CASE c.key \notin Usable
  <2>1. UsableAdd(out, c) = out
    BY ONLY <1>6 DEF UsableAdd
  <2>2. HoldsUsable(list, i, out)
    BY ONLY <1>1, <1>3, <1>6 DEF HoldsUsable
  <2> QED  BY ONLY <1>1, <1>5, <2>1, <2>2 DEF UsableIn
<1>7. CASE c.key \in Usable
  <2> DEFINE l == Append(out, c)
  <2>1. UsableAdd(out, c) = l
    BY ONLY <1>7 DEF UsableAdd
  <2>2. l \in Seq(L) /\ Appended(out, c, l)
    BY ONLY <1>1, <1>2, AppendIs
  <2>3. Len(l) = m + 1 /\ l[m + 1] = c /\ \A a \in 1 .. m : l[a] = out[a]
    BY ONLY <2>2 DEF Appended
  <2> HIDE DEF l
  <2>5. /\ \A a \in 1 .. m + 1 : a \in 1 .. m \/ a = m + 1
        /\ \A a \in 1 .. m : a \in 1 .. m + 1
        /\ m + 1 \in 1 .. m + 1
    BY ONLY <1>2
  <2>6. AllUsable(l, Len(l))
    BY ONLY <1>1, <1>7, <2>3, <2>5 DEF AllUsable
  <2>7. HoldsUsable(list, i, l)
    <3>1. ASSUME NEW j \in 1 .. i, list[j].key \in Usable
          PROVE  \E a \in 1 .. m + 1 : l[a] = list[j]
      <4>1. CASE j = i
        BY ONLY <2>3, <2>5, <4>1
      <4>2. CASE j \in 1 .. i - 1
        BY ONLY <1>1, <2>3, <2>5, <3>1, <4>2
      <4> QED  BY ONLY <1>3, <4>1, <4>2, j \in 1 .. i
    <3> QED  BY ONLY <2>3, <3>1 DEF HoldsUsable
  <2>8. OnlyFrom(list, i, l)
    BY ONLY <1>5 DEF l
  <2> QED  BY ONLY <2>1, <2>2, <2>6, <2>7, <2>8 DEF UsableIn
<1> QED  BY ONLY <1>6, <1>7

\* What is kept is usable, and all that is usable is kept.
LEMMA UsableIs ==
  ASSUME NEW L, NEW list, list \in Seq(L)
  PROVE  UsableIn(L, list, Len(list), InWords(list))
<1> DEFINE n == Len(list)
<1>1. n \in Nat
  BY ONLY list \in Seq(L), LenProperties
<1>2. UsableAfter(L, list, InWords(list))
  BY ONLY list \in Seq(L), UsableFold
<1>3. PICK h \in [0 .. n -> Seq(L)] : UsableSteps(list, h) /\ InWords(list) = h[n]
  BY ONLY <1>2 DEF UsableAfter
<1>4. h[0] = <<>> /\ \A i \in 1 .. n : h[i] = UsableAdd(h[i - 1], list[i])
  BY ONLY <1>3 DEF UsableSteps
<1> HIDE DEF n
<1> DEFINE S == {i \in 0 .. n : UsableIn(L, list, i, h[i])}
<1>5. 0 \in S
  <2>1. <<>> \in Seq(L) /\ Len(<<>>) = 0 /\ (\A a \in 1 .. 0 : FALSE) /\ 1 .. 0 = {}
    BY EmptySeq
  <2>2. UsableIn(L, list, 0, <<>>)
    BY ONLY <2>1 DEF UsableIn, AllUsable, HoldsUsable, OnlyFrom
  <2> QED  BY ONLY <1>1, <1>4, <2>2
<1>6. \A k \in 0 .. n - 1 : k \in S => k + 1 \in S
  <2> SUFFICES ASSUME NEW k \in 0 .. n - 1, k \in S PROVE k + 1 \in S
    OBVIOUS
  <2>1. k + 1 \in 1 .. n /\ (k + 1) - 1 = k /\ k + 1 \in 0 .. n
    BY ONLY <1>1, k \in 0 .. n - 1
  <2>2. h[k + 1] = UsableAdd(h[k], list[k + 1])
    BY ONLY <1>4, <2>1
  <2>3. UsableIn(L, list, (k + 1) - 1, h[k])
    BY ONLY <2>1, k \in S
  <2>4. UsableIn(L, list, k + 1, h[k + 1])
    BY ONLY <2>1, <2>2, <2>3, list \in Seq(L), UsableAddKeeps DEF n
  <2> QED  BY ONLY <2>1, <2>4
<1>7. \A k \in 0 .. n : k \in S
  <2> HIDE DEF S
  <2> QED  BY ONLY <1>1, <1>5, <1>6, Upwards
<1>8. n \in 0 .. n
  BY ONLY <1>1
<1> QED  BY ONLY <1>3, <1>7, <1>8 DEF n

\* The first m candidates have different keys: they stay where they are.
KeysDifferUpTo(list, m) == \A a, b \in 1 .. m : list[a].key = list[b].key => a = b
KeepsFirst(list, m, out) == m <= Len(out) /\ \A a \in 1 .. m : out[a] = list[a]
KeptSoFar(L, list, m, i, out) ==
  /\ out \in Seq(L)
  /\ i <= m => Starts(list, i, out)
  /\ m <= i => KeepsFirst(list, m, out)

LEMMA DistinctAddKeepsFirst ==
  ASSUME NEW L, NEW list, list \in Seq(L), NEW m \in 0 .. Len(list), KeysDifferUpTo(list, m),
         NEW i \in 1 .. Len(list), NEW out, KeptSoFar(L, list, m, i - 1, out)
  PROVE  KeptSoFar(L, list, m, i, DistinctAdd(out, list[i]))
<1> DEFINE c == list[i]
           k == Len(out)
           l == Append(out, c)
<1>1. out \in Seq(L) /\ c \in L /\ i \in Nat \ {0} /\ m \in Nat /\ k \in Nat /\ DOMAIN out = 1 .. k
  BY ONLY KeptSoFar(L, list, m, i - 1, out), list \in Seq(L), LenProperties, ElementOfSeq,
          i \in 1 .. Len(list), m \in 0 .. Len(list) DEF KeptSoFar
<1>2. l \in Seq(L) /\ Appended(out, c, l)
  BY ONLY <1>1, AppendIs
<1>3. DistinctAdd(out, c) \in Seq(L) /\ (DistinctAdd(out, c) = out \/ DistinctAdd(out, c) = l)
  BY ONLY <1>1, <1>2 DEF DistinctAdd
<1>4. CASE i <= m
  <2>1. i - 1 <= m /\ \A a \in 1 .. i - 1 : a \in 1 .. m /\ i \in 1 .. m /\ a # i
    BY ONLY <1>1, <1>4
  <2>2. Starts(list, i - 1, out)
    BY ONLY <2>1, KeptSoFar(L, list, m, i - 1, out) DEF KeptSoFar
  <2>3. \A a \in 1 .. k : out[a].key # c.key
    BY ONLY <2>1, <2>2, KeysDifferUpTo(list, m) DEF Starts, KeysDifferUpTo
  <2>4. DistinctAdd(out, c) = l
    BY ONLY <1>1, <2>3 DEF DistinctAdd
  <2>5. Starts(list, i, l)
    BY ONLY <1>1, <2>2, list \in Seq(L), i \in 1 .. Len(list), StartsOneMore
  <2>6. m <= i => KeepsFirst(list, m, l)
    <3>1. m <= i => m = i
      BY ONLY <1>1, <1>4
    <3> QED  BY ONLY <1>1, <2>5, <3>1 DEF Starts, KeepsFirst
  <2> HIDE DEF l
  <2> QED  BY ONLY <1>3, <2>4, <2>5, <2>6 DEF KeptSoFar
<1>5. CASE ~(i <= m)
  <2>1. m <= i - 1
    BY ONLY <1>1, <1>5
  <2>2. KeepsFirst(list, m, out)
    BY ONLY <2>1, KeptSoFar(L, list, m, i - 1, out) DEF KeptSoFar
  <2> HIDE DEF l
  <2>3. Len(l) = k + 1 /\ \A a \in 1 .. k : l[a] = out[a]
    BY ONLY <1>2 DEF Appended
  <2>4. m <= k => m <= k + 1 /\ \A a \in 1 .. m : a \in 1 .. k
    BY ONLY <1>1
  <2>5. KeepsFirst(list, m, l)
    BY ONLY <2>2, <2>3, <2>4 DEF KeepsFirst
  <2> QED  BY ONLY <1>3, <1>5, <2>2, <2>5 DEF KeptSoFar
<1> QED  BY ONLY <1>4, <1>5

LEMMA DistinctKeptSoFar ==
  ASSUME NEW L, NEW list, list \in Seq(L), NEW m \in 0 .. Len(list), KeysDifferUpTo(list, m)
  PROVE  KeptSoFar(L, list, m, Len(list), Distinct(list))
<1> DEFINE n == Len(list)
<1>1. n \in Nat
  BY ONLY list \in Seq(L), LenProperties
<1>2. DistinctAfter(L, list, Distinct(list))
  BY ONLY list \in Seq(L), DistinctFold
<1>3. PICK h \in [0 .. n -> Seq(L)] : DistinctSteps(list, h) /\ Distinct(list) = h[n]
  BY ONLY <1>2 DEF DistinctAfter
<1>4. h[0] = <<>> /\ \A i \in 1 .. n : h[i] = DistinctAdd(h[i - 1], list[i])
  BY ONLY <1>3 DEF DistinctSteps
<1> HIDE DEF n
<1> DEFINE S == {i \in 0 .. n : KeptSoFar(L, list, m, i, h[i])}
<1>5. 0 \in S
  <2>1. <<>> \in Seq(L) /\ Len(<<>>) = 0 /\ (\A a \in 1 .. 0 : FALSE) /\ 1 .. 0 = {}
    BY EmptySeq
  <2>2. KeptSoFar(L, list, m, 0, <<>>)
    BY ONLY <1>1, <2>1, m \in 0 .. Len(list) DEF KeptSoFar, Starts, KeepsFirst, n
  <2> QED  BY ONLY <1>1, <1>4, <2>2
<1>6. \A k \in 0 .. n - 1 : k \in S => k + 1 \in S
  <2> SUFFICES ASSUME NEW k \in 0 .. n - 1, k \in S PROVE k + 1 \in S
    OBVIOUS
  <2>1. k + 1 \in 1 .. n /\ (k + 1) - 1 = k /\ k + 1 \in 0 .. n
    BY ONLY <1>1, k \in 0 .. n - 1
  <2>2. h[k + 1] = DistinctAdd(h[k], list[k + 1])
    BY ONLY <1>4, <2>1
  <2>3. KeptSoFar(L, list, m, (k + 1) - 1, h[k])
    BY ONLY <2>1, k \in S
  <2>4. KeptSoFar(L, list, m, k + 1, h[k + 1])
    BY ONLY <2>1, <2>2, <2>3, list \in Seq(L), m \in 0 .. Len(list), KeysDifferUpTo(list, m), DistinctAddKeepsFirst DEF n
  <2> QED  BY ONLY <2>1, <2>4
<1>7. \A k \in 0 .. n : k \in S
  <2> HIDE DEF S
  <2> QED  BY ONLY <1>1, <1>5, <1>6, Upwards
<1>8. n \in 0 .. n
  BY ONLY <1>1
<1> QED  BY ONLY <1>3, <1>7, <1>8 DEF n

\* Candidates with different keys at the front of a list stay there.
LEMMA DistinctKeepsFirst ==
  ASSUME NEW L, NEW list, list \in Seq(L), NEW m \in 0 .. Len(list), KeysDifferUpTo(list, m)
  PROVE  KeepsFirst(list, m, Distinct(list))
<1>1. KeptSoFar(L, list, m, Len(list), Distinct(list))
  BY ONLY list \in Seq(L), m \in 0 .. Len(list), KeysDifferUpTo(list, m), DistinctKeptSoFar
<1>2. m <= Len(list)
  BY ONLY list \in Seq(L), LenProperties, m \in 0 .. Len(list)
<1> QED  BY ONLY <1>1, <1>2 DEF KeptSoFar

\* Usable candidates, of which no two are similar if they could be compared.
Compares(L, list, up) ==
  list \in Seq(L) /\ AllUsable(list, Len(list)) /\ (up => Unlike(list))

TopicKey(es) == [i \in 1 .. Len(es) |-> Topic[es[i].key]]
NoKey(es) == [i \in 1 .. Len(es) |-> 0]

\* The candidates by their topics.
LEMMA RankedIs ==
  ASSUME NEW L, CandidatesOf(L), NEW list, list \in Seq(L)
  PROVE  Arranged(L, list, TopicKey(list), NoKey(list), Ranked(list, TRUE))
<1> DEFINE n == Len(list)
           a == TopicKey(list)
           b == NoKey(list)
           R == ByKeys(n, a, b)
           Before(i, k) == \/ Topic[list[i].key] < Topic[list[k].key]
                           \/ Topic[list[i].key] = Topic[list[k].key] /\ i < k
           Bef(i) == {k \in DOMAIN list : Before(k, i)}
           RankedAt(r) == CHOOSE i \in DOMAIN list : Cardinality(Bef(i)) = r - 1
           at == [r \in 1 .. n |-> RankedAt(r)]
           out == Ranked(list, TRUE)
<1>1. n \in Nat /\ DOMAIN list = 1 .. n
  BY ONLY list \in Seq(L), LenProperties
<1>2. \A i \in 1 .. n : list[i] \in L
  BY ONLY list \in Seq(L), ElementOfSeq
<1>3. \A i \in 1 .. n : a[i] = Topic[list[i].key] /\ b[i] = 0
  BY ONLY <1>1 DEF TopicKey, NoKey
<1>4. \A i \in 1 .. n : a[i] \in Nat /\ b[i] \in Nat
  BY ONLY <1>2, <1>3, CandidatesOf(L) DEF CandidatesOf
<1>5. StrictOrder(n, R) /\ \A i, k \in 1 .. n : <<i, k>> \in R <=> KeysBefore(a, b, i, k)
  <2> HIDE DEF a, b, n
  <2> QED  BY ONLY <1>1, <1>4, ByKeysIs
<1>6. out = [r \in 1 .. n |-> list[at[r]]]
  BY ONLY <1>1 DEF Ranked
<1> HIDE DEF a, b, R, out
<1>7. \A i \in 1 .. n : Bef(i) = Below(n, R, i)
  <2> TAKE i \in 1 .. n
  <2>1. ASSUME NEW j \in 1 .. n PROVE Before(j, i) <=> <<j, i>> \in R
    <3>1. Before(j, i) <=> KeysBefore(a, b, j, i)
      BY ONLY <1>3, <1>4, i \in 1 .. n, j \in 1 .. n DEF KeysBefore
    <3> HIDE DEF Before
    <3> QED  BY ONLY <1>5, <3>1, i \in 1 .. n, j \in 1 .. n
  <2> HIDE DEF Before
  <2> QED  BY ONLY <1>1, <2>1 DEF Below
<1>8. \A i \in 1 .. n : Cardinality(Bef(i)) = RankOf(n, R, i)
  BY ONLY <1>7 DEF RankOf
<1>9. \A r \in 1 .. n : (\E i \in 1 .. n : RankOf(n, R, i) = r - 1)
                          => at[r] \in 1 .. n /\ RankOf(n, R, at[r]) = r - 1
  <2> SUFFICES ASSUME NEW r \in 1 .. n, NEW i \in 1 .. n, RankOf(n, R, i) = r - 1
      PROVE  at[r] \in 1 .. n /\ RankOf(n, R, at[r]) = r - 1
    OBVIOUS
  <2> DEFINE Q(x) == Cardinality(Bef(x)) = r - 1
             c == CHOOSE x \in DOMAIN list : Q(x)
  <2>1. at[r] = c
    OBVIOUS
  <2>2. \A x \in 1 .. n : Q(x) <=> RankOf(n, R, x) = r - 1
    <3> HIDE DEF Bef
    <3> QED  BY ONLY <1>8
  <2> HIDE DEF Q
  <2>3. c \in 1 .. n /\ Q(c)
    BY ONLY <1>1, <2>2, RankOf(n, R, i) = r - 1, i \in 1 .. n
  <2> HIDE DEF c
  <2> QED  BY ONLY <2>1, <2>2, <2>3
<1> HIDE DEF at
<1>10. SortedBy(n, R, at)
  BY ONLY <1>1, <1>5, <1>9, SortedByRank
<1>11. out \in Seq(L) /\ Len(out) = n
  <2>1. \A r \in 1 .. n : list[at[r]] \in L
    BY ONLY <1>2, <1>10 DEF SortedBy
  <2> HIDE DEF n
  <2> QED  BY ONLY <1>1, <1>6, <2>1
<1>12. ArrangedAt(list, a, b, out, at)
  BY ONLY <1>6, <1>10 DEF ArrangedAt, R, n
<1> QED  BY ONLY <1>11, <1>12 DEF Arranged, a, b, out, n

\* Ranking leaves all that is in a list.
RankedOf(L, list, up, out) ==
  /\ Compares(L, out, up) /\ Len(out) = Len(list)
  /\ \A i \in 1 .. Len(list) : \E r \in 1 .. Len(list) : out[r] = list[i]
LEMMA RankingKeeps ==
  ASSUME NEW L, CandidatesOf(L), NEW list, NEW up, Compares(L, list, up), NEW rank
  PROVE  RankedOf(L, list, up, Ranked(list, rank))
<1> DEFINE n == Len(list)
           a == TopicKey(list)
           b == NoKey(list)
           R == ByKeys(n, a, b)
           out == Ranked(list, TRUE)
<1>1. list \in Seq(L) /\ (up => UnlikeUpTo(list, n)) /\ AllUsable(list, n)
  BY DEF Compares, Unlike
<1>0. CASE ~rank
  <2>1. Ranked(list, rank) = list
    BY ONLY <1>0 DEF Ranked
  <2>2. \A i \in 1 .. n : \E r \in 1 .. n : list[r] = list[i]
    OBVIOUS
  <2> QED  BY ONLY <2>1, <2>2, Compares(L, list, up) DEF RankedOf
<1> SUFFICES ASSUME rank PROVE RankedOf(L, list, up, out)
  <2>1. rank => Ranked(list, rank) = out
    BY DEF Ranked
  <2> QED  BY ONLY <1>0, <2>1, rank => RankedOf(L, list, up, out)
<1>2. Arranged(L, list, a, b, out)
  BY ONLY <1>1, CandidatesOf(L), RankedIs
<1>3. n \in Nat /\ \A i \in 1 .. n : list[i] \in L
  BY ONLY <1>1, LenProperties, ElementOfSeq
<1>4. \A i \in 1 .. n : a[i] \in Nat /\ b[i] \in Nat
  BY ONLY <1>3, CandidatesOf(L) DEF CandidatesOf, TopicKey, NoKey
<1> HIDE DEF a, b, out
<1>5. StrictOrder(n, R)
  <2> HIDE DEF n
  <2> QED  BY ONLY <1>3, <1>4, ByKeysIs
<1>6. PICK at : ArrangedAt(list, a, b, out, at)
  BY ONLY <1>2 DEF Arranged
<1>7. out \in Seq(L) /\ Len(out) = n
  BY ONLY <1>2 DEF Arranged
<1>8. SortedBy(n, R, at) /\ \A r \in 1 .. n : out[r] = list[at[r]]
  BY ONLY <1>6 DEF ArrangedAt
<1> HIDE DEF R
<1>9. /\ \A r \in 1 .. n : at[r] \in 1 .. n
      /\ \A i \in 1 .. n : \E r \in 1 .. n : at[r] = i
      /\ \A r, q \in 1 .. n : r < q => at[r] # at[q]
  BY ONLY <1>5, <1>8 DEF StrictOrder, SortedBy
<1> HIDE DEF n
<1>10. \A i \in 1 .. n : \E r \in 1 .. n : out[r] = list[i]
  BY ONLY <1>8, <1>9
<1>11. AllUsable(out, n)
  BY ONLY <1>1, <1>8, <1>9 DEF AllUsable
<1>12. up => UnlikeUpTo(out, n)
  <2> SUFFICES ASSUME up, NEW r \in 1 .. n, NEW q \in 1 .. n, r < q
      PROVE  ~Similar(out[r], out[q])
    BY DEF UnlikeUpTo
  <2>1. at[r] \in 1 .. n /\ at[q] \in 1 .. n /\ at[r] # at[q]
    BY ONLY <1>9, r \in 1 .. n, q \in 1 .. n, r < q
  <2>2. at[r] < at[q] \/ at[q] < at[r]
    BY ONLY <1>3, <2>1
  <2>0. UnlikeUpTo(list, n)
    BY ONLY <1>1, up
  <2>3. ~Similar(list[at[r]], list[at[q]]) \/ ~Similar(list[at[q]], list[at[r]])
    BY ONLY <2>0, <2>1, <2>2 DEF UnlikeUpTo
  <2>4. ~Similar(list[at[r]], list[at[q]])
    BY ONLY <2>3 DEF Similar
  <2> QED  BY ONLY <1>8, <2>4, r \in 1 .. n, q \in 1 .. n
<1> QED  BY ONLY <1>7, <1>10, <1>11, <1>12 DEF RankedOf, Compares, Unlike, out, n

Multiples(R, i) == i * R = (i - 1) * R + R /\ (i - 1) * R \in Nat /\ i * R \in Nat
LEMMA MultiplesAre ==
  ASSUME NEW R \in Nat \ {0}, NEW i \in Nat \ {0}
  PROVE  Multiples(R, i)
BY DEF Multiples

LEMMA MultiplesGrow ==
  ASSUME NEW R \in Nat, NEW i \in Nat, NEW k \in Nat, i <= k
  PROVE  i * R <= k * R
OBVIOUS

LEMMA Division ==
  ASSUME NEW R \in Nat \ {0}, NEW x \in Nat
  PROVE  x \div R \in Nat /\ (x \div R) * R <= x /\ x < (x \div R) * R + R
OBVIOUS

Enough(R, n, m) == m \in Nat \ {0} /\ n <= m * R /\ (m - 1) * R < n
LEMMA EnoughPieces ==
  ASSUME NEW R \in Nat \ {0}, NEW n \in Nat \ {0}
  PROVE  Enough(R, n, (n + R - 1) \div R)
<1> DEFINE m == (n + R - 1) \div R
<1>1. n + R - 1 \in Nat
  OBVIOUS
<1>2. m \in Nat /\ m * R <= n + R - 1 /\ n + R - 1 < m * R + R
  BY ONLY <1>1, R \in Nat \ {0}, Division
<1> HIDE DEF m
<1>3. (m - 1) * R = m * R - R /\ m * R \in Nat /\ (m = 0 => m * R = 0)
  BY ONLY <1>2, R \in Nat \ {0}
<1>4. n <= m * R /\ m # 0 /\ (m - 1) * R < n
  BY ONLY <1>2, <1>3, R \in Nat \ {0}, n \in Nat \ {0}
<1> QED  BY ONLY <1>2, <1>4 DEF Enough, m

\* Where the i-th piece of n candidates ends.
PieceEnd(R, n, i) == IF i * R < n THEN i * R ELSE n
PieceLies(R, n, i) ==
  /\ PieceEnd(R, n, i - 1) = (i - 1) * R /\ (i - 1) * R \in 0 .. n - 1
  /\ PieceEnd(R, n, i) \in (i - 1) * R + 1 .. n /\ PieceEnd(R, n, i) <= (i - 1) * R + R
  /\ (i - 1) * R + R <= n => PieceEnd(R, n, i) = (i - 1) * R + R
LEMMA PiecesLie ==
  ASSUME NEW R \in Nat \ {0}, NEW n \in Nat \ {0}, NEW m, Enough(R, n, m)
  PROVE  PieceEnd(R, n, m) = n /\ \A i \in 1 .. m : PieceLies(R, n, i)
<1>1. m \in Nat \ {0} /\ n <= m * R /\ (m - 1) * R < n
  BY DEF Enough
<1>2. PieceEnd(R, n, m) = n
  <2>1. m * R \in Nat
    BY ONLY <1>1, R \in Nat \ {0}
  <2>2. ~(m * R < n)
    BY ONLY <1>1, <2>1, n \in Nat \ {0}
  <2> QED  BY ONLY <2>2 DEF PieceEnd
<1>3. ASSUME NEW i \in 1 .. m PROVE PieceLies(R, n, i)
  <2>1. i \in Nat \ {0} /\ i - 1 \in Nat /\ m - 1 \in Nat /\ i - 1 <= m - 1
    BY ONLY <1>1, i \in 1 .. m
  <2> DEFINE x == (i - 1) * R
             y == i * R
             z == (m - 1) * R
  <2>2. y = x + R /\ x \in Nat /\ y \in Nat
    BY ONLY <2>1, R \in Nat \ {0}, MultiplesAre DEF Multiples
  <2>3. x <= z /\ z \in Nat /\ z < n
    BY ONLY <1>1, <2>1, R \in Nat \ {0}, MultiplesGrow
  <2>4. PieceEnd(R, n, i - 1) = (IF x < n THEN x ELSE n) /\ PieceEnd(R, n, i) = IF y < n THEN y ELSE n
    BY DEF PieceEnd
  <2> HIDE DEF x, y, z
  <2>5. /\ PieceEnd(R, n, i - 1) = x /\ x \in 0 .. n - 1
        /\ PieceEnd(R, n, i) \in x + 1 .. n /\ PieceEnd(R, n, i) <= x + R
        /\ x + R <= n => PieceEnd(R, n, i) = x + R
    BY ONLY <2>2, <2>3, <2>4, n \in Nat \ {0}, R \in Nat \ {0}
  <2> QED  BY ONLY <2>5 DEF PieceLies, x
<1> QED  BY ONLY <1>2, <1>3

LEMMA PieceIs ==
  ASSUME NEW L, NEW list, list \in Seq(L), NEW e \in Nat, NEW f \in Nat, e < f, f <= Len(list)
  PROVE  SubSeq(list, e + 1, f) \in Seq(L)
<1>1. Len(list) \in Nat
  BY ONLY list \in Seq(L), LenProperties
<1>2. e + 1 \in 1 .. Len(list) + 1 /\ f \in e + 1 - 1 .. Len(list)
  BY ONLY <1>1, e \in Nat, f \in Nat, e < f, f <= Len(list)
<1> QED  BY ONLY <1>2, list \in Seq(L), SubSeqProperties

LEMMA SemanticType ==
  ASSUME NEW L, CandidatesOf(L), NEW list, list \in Seq(L), NEW up
  PROVE  SemanticDedupe(list, up) \in Seq(L)
<1>1. SemanticDedupe(list, TRUE) \in Seq(L)
  BY ONLY CandidatesOf(L), list \in Seq(L), SimilarIs DEF SimilarIn
<1>2. SemanticDedupe(list, up) = IF up THEN SemanticDedupe(list, TRUE) ELSE list
  BY DEF SemanticDedupe
<1> QED  BY ONLY <1>1, <1>2, list \in Seq(L)

\* What the model and the embedding service answer.
RoundsOf(L) == [up : BOOLEAN, replies : Seq(Seq(L))]
ModelOf(L, model) == model.rounds \in Seq(RoundsOf(L)) /\ model.last \in Seq(L)

LEMMA RoundIs ==
  ASSUME ListsAssumption, NEW L, CandidatesOf(L), NEW list, list \in Seq(L),
         RefineChunk < Len(list), NEW round, round \in RoundsOf(L)
  PROVE  RefineRound(list, round) \in Seq(L)
<1> DEFINE R == RefineChunk
           n == Len(list)
           m == (n + R - 1) \div R
           Piece(i) == SubSeq(list, (i - 1) * R + 1, IF i * R < n THEN i * R ELSE n)
           Taken(i) == RefineOnce(Piece(i), Reply(round.replies, i))
           taken == [i \in 1 .. m |-> Taken(i)]
           flat == FlattenSeq(taken)
<1>1. R \in Nat \ {0} /\ n \in Nat \ {0}
  <2>1. RefineChunk \in Nat \ {0}
    BY DEF ListsAssumption
  <2>2. Len(list) \in Nat
    BY ONLY list \in Seq(L), LenProperties
  <2> QED  BY ONLY <2>1, <2>2, RefineChunk < Len(list)
<1>2. Pieces(list) = [i \in 1 .. m |-> Piece(i)]
  BY DEF Pieces, Shorter
<1>3. RefineRound(list, round) = SemanticDedupe(Distinct(flat), round.up)
  BY ONLY <1>2 DEF RefineRound
<1>4. Enough(R, n, m) /\ \A i \in 1 .. m : PieceLies(R, n, i)
  <2> HIDE DEF R, n
  <2>1. Enough(R, n, m)
    BY ONLY <1>1, EnoughPieces
  <2> HIDE DEF m
  <2> QED  BY ONLY <1>1, <2>1, PiecesLie
<1>5. m \in Nat
  BY ONLY <1>4 DEF Enough
<1>6. ASSUME NEW i \in 1 .. m PROVE Taken(i) \in Seq(L)
  <2> DEFINE e == (i - 1) * R
             f == PieceEnd(R, n, i)
             p == Piece(i)
             reply == Reply(round.replies, i)
  <2>1. e \in 0 .. n - 1 /\ f \in e + 1 .. n
    BY ONLY <1>4, i \in 1 .. m DEF PieceLies
  <2>2. p = SubSeq(list, e + 1, f)
    BY DEF PieceEnd
  <2> HIDE DEF e, f, p
  <2>3. e \in Nat /\ f \in Nat /\ e < f /\ f <= Len(list)
    BY ONLY <1>1, <2>1 DEF n
  <2>4. p \in Seq(L)
    BY ONLY <2>2, <2>3, list \in Seq(L), PieceIs
  <2>5. reply \in Seq(L)
    <3>1. round.replies \in Seq(Seq(L))
      BY ONLY round \in RoundsOf(L) DEF RoundsOf
    <3>2. CASE i \in DOMAIN round.replies
      <4>1. reply = round.replies[i]
        BY ONLY <3>2 DEF Reply
      <4>2. i \in 1 .. Len(round.replies)
        BY ONLY <3>1, <3>2, LenProperties
      <4> QED  BY ONLY <3>1, <4>1, <4>2, ElementOfSeq
    <3>3. CASE i \notin DOMAIN round.replies
      <4>1. reply = <<>>
        BY ONLY <3>3 DEF Reply
      <4> QED  BY ONLY <4>1, EmptySeq
    <3> QED  BY ONLY <3>2, <3>3
  <2>6. Taken(i) = IF p = <<>> \/ reply = <<>> THEN p ELSE reply
    BY DEF RefineOnce, p
  <2> QED  BY ONLY <2>4, <2>5, <2>6
<1>7. taken \in Seq(Seq(L))
  <2> HIDE DEF Taken, m
  <2> QED  BY ONLY <1>5, <1>6
<1> HIDE DEF taken
<1>8. flat \in Seq(L)
  BY ONLY <1>7, FlattenType
<1> HIDE DEF flat
<1>9. Distinct(flat) \in Seq(L)
  BY ONLY <1>8, DistinctIs DEF DistinctIn
<1> QED  BY ONLY <1>3, <1>9, CandidatesOf(L), SemanticType

RefineStep(list, round) ==
  IF Len(list) <= RefineChunk THEN list ELSE RefineRound(list, round)
LEMMA RefineStepIs ==
  ASSUME ListsAssumption, NEW L, CandidatesOf(L), NEW list, list \in Seq(L),
         NEW round, round \in RoundsOf(L)
  PROVE  RefineStep(list, round) \in Seq(L)
<1>1. RefineChunk \in Nat /\ Len(list) \in Nat
  BY ONLY list \in Seq(L), ListsAssumption, LenProperties DEF ListsAssumption
<1>2. CASE Len(list) <= RefineChunk
  BY ONLY <1>2, list \in Seq(L) DEF RefineStep
<1>3. CASE ~(Len(list) <= RefineChunk)
  <2>1. RefineChunk < Len(list)
    BY ONLY <1>1, <1>3
  <2>2. RefineRound(list, round) \in Seq(L)
    BY ONLY <2>1, ListsAssumption, CandidatesOf(L), list \in Seq(L), round \in RoundsOf(L), RoundIs
  <2> QED  BY ONLY <1>3, <2>2 DEF RefineStep
<1> QED  BY ONLY <1>2, <1>3

\* The rounds of _refine_chunked give candidates, or do not end.
LEMMA RefineChunkedIs ==
  ASSUME ListsAssumption, NEW L, CandidatesOf(L), NEW list, list \in Seq(L),
         NEW model, ModelOf(L, model)
  PROVE  RefineChunked(list, model) \in Seq(L) \/ RefineChunked(list, model) = NoEnd
<1> DEFINE n == Len(model.rounds)
           V == Seq(L)
           step(x, i) == RefineStep(x, model.rounds[i])
           F == [i \in 1 .. n |-> [x \in V |-> step(x, i)]]
           Is(f) == f = [i \in 0 .. n |-> IF i = 0 THEN list
                                          ELSE IF Len(f[i - 1]) <= RefineChunk THEN f[i - 1]
                                          ELSE RefineRound(f[i - 1], model.rounds[i])]
           after == CHOOSE f : Is(f)
<1>1. n \in Nat /\ list \in V /\ model.last \in V
  BY ONLY ModelOf(L, model), list \in Seq(L), LenProperties DEF ModelOf
<1>2. ASSUME NEW i \in 1 .. n, NEW x \in V PROVE step(x, i) \in V
  <2>1. model.rounds[i] \in RoundsOf(L)
    <3>1. model.rounds \in Seq(RoundsOf(L))
      BY ONLY ModelOf(L, model) DEF ModelOf
    <3> QED  BY ONLY <3>1, i \in 1 .. n, ElementOfSeq
  <2> QED  BY ONLY <2>1, ListsAssumption, CandidatesOf(L), x \in V, RefineStepIs
<1>3. F \in [1 .. n -> [V -> V]]
  <2> HIDE DEF step, V, n
  <2> QED  BY ONLY <1>2
<1>4. PICK g \in [0 .. n -> V] : g[0] = list /\ \A i \in 1 .. n : g[i] = F[i][g[i - 1]]
  <2> HIDE DEF F, V, n
  <2>1. Iterated(V, n, list, F)
    BY ONLY <1>1, <1>3, Recursion
  <2> QED  BY ONLY <2>1 DEF Iterated, Iterates
<1>5. \A i \in 1 .. n : g[i] = step(g[i - 1], i)
  <2> HIDE DEF step, V
  <2> TAKE i \in 1 .. n
  <2> HIDE DEF n
  <2>1. i - 1 \in 0 .. n
    BY ONLY <1>1, i \in 1 .. n
  <2>2. g[i - 1] \in V
    BY ONLY <1>4, <2>1
  <2> QED  BY ONLY <1>4, <2>2, i \in 1 .. n
<1>6. Is(g)
  <2>1. \A i \in 0 .. n : i = 0 \/ i \in 1 .. n
    BY ONLY <1>1
  <2> HIDE DEF n, V
  <2>2. \A i \in 0 .. n : g[i] = IF i = 0 THEN list
                                 ELSE IF Len(g[i - 1]) <= RefineChunk THEN g[i - 1]
                                 ELSE RefineRound(g[i - 1], model.rounds[i])
    BY ONLY <1>4, <1>5, <2>1 DEF RefineStep
  <2>3. DOMAIN g = 0 .. n /\ g = [i \in 0 .. n |-> g[i]]
    BY ONLY <1>4
  <2> QED  BY ONLY <2>2, <2>3
<1>7. Is(after)
  <2> HIDE DEF Is
  <2> QED  BY ONLY <1>6
<1>8. RefineChunked(list, model) =
        IF Len(after[n]) <= RefineChunk THEN RefineOnce(after[n], model.last) ELSE NoEnd
  BY DEF RefineChunked
<1> HIDE DEF after
<1>9. after[0] = list /\ \A i \in 1 .. n : after[i] = step(after[i - 1], i)
  <2>1. 0 \in 0 .. n /\ \A i \in 1 .. n : i \in 0 .. n /\ i # 0
    BY ONLY <1>1
  <2> HIDE DEF n
  <2> QED  BY ONLY <1>7, <2>1 DEF RefineStep
<1> HIDE DEF Is, F, n, V, step
<1> DEFINE S == {i \in 0 .. n : after[i] \in V}
<1>10. 0 \in S /\ \A k \in 0 .. n - 1 : k \in S => k + 1 \in S
  <2>1. 0 \in 0 .. n /\ \A k \in 0 .. n - 1 : k + 1 \in 1 .. n /\ (k + 1) - 1 = k /\ k + 1 \in 0 .. n
    BY ONLY <1>1
  <2> QED  BY ONLY <1>1, <1>2, <1>9, <2>1
<1>11. \A k \in 0 .. n : k \in S
  <2> HIDE DEF S
  <2> QED  BY ONLY <1>1, <1>10, Upwards
<1>12. after[n] \in V
  <2>1. n \in 0 .. n
    BY ONLY <1>1
  <2> QED  BY ONLY <1>11, <2>1
<1>13. RefineOnce(after[n], model.last) \in V
  BY ONLY <1>1, <1>12 DEF RefineOnce
<1> QED  BY ONLY <1>8, <1>13 DEF V

\* Comparing usable candidates leaves usable ones, and one that stands for each.
StandsFor(a, c, up) == IF up THEN Similar(a, c) ELSE a = c
LEMMA ComparesIs ==
  ASSUME NEW L, CandidatesOf(L), NEW u, u \in Seq(L), AllUsable(u, Len(u)), NEW up
  PROVE  /\ Compares(L, SemanticDedupe(u, up), up)
         /\ \A j \in 1 .. Len(u) :
              \E a \in 1 .. Len(SemanticDedupe(u, up)) : StandsFor(SemanticDedupe(u, up)[a], u[j], up)
<1> DEFINE s == SemanticDedupe(u, TRUE)
<1>1. CASE ~up
  <2>1. SemanticDedupe(u, up) = u
    BY ONLY <1>1 DEF SemanticDedupe
  <2>2. \A j \in 1 .. Len(u) : \E a \in 1 .. Len(u) : StandsFor(u[a], u[j], up)
    BY ONLY <1>1 DEF StandsFor
  <2> QED  BY ONLY <1>1, <2>1, <2>2, u \in Seq(L), AllUsable(u, Len(u)) DEF Compares
<1>2. CASE up
  <2>1. SemanticDedupe(u, up) = s
    BY ONLY <1>2 DEF SemanticDedupe
  <2>2. SimilarIn(L, u, Len(u), s)
    BY ONLY u \in Seq(L), CandidatesOf(L), SimilarIs
  <2> HIDE DEF s
  <2>3. /\ s \in Seq(L) /\ Unlike(s) /\ OnlyFrom(u, Len(u), s)
        /\ \A j \in 1 .. Len(u) : \E a \in 1 .. Len(s) : Similar(s[a], u[j])
    BY ONLY <2>2 DEF SimilarIn, AllLike
  <2>4. AllUsable(s, Len(s))
    BY ONLY <2>3, AllUsable(u, Len(u)) DEF AllUsable, OnlyFrom
  <2>5. Compares(L, s, up)
    BY ONLY <2>3, <2>4 DEF Compares
  <2>6. \A j \in 1 .. Len(u) : \E a \in 1 .. Len(s) : StandsFor(s[a], u[j], up)
    BY ONLY <1>2, <2>3 DEF StandsFor
  <2> QED  BY ONLY <2>1, <2>5, <2>6
<1> QED  BY ONLY <1>1, <1>2

\* What is left to be ranked.
LEMMA RefinedIs ==
  ASSUME ListsAssumption, NEW L, CandidatesOf(L), NEW deduped, NEW model, ModelOf(L, model),
         Compares(L, deduped, model.merge)
  PROVE  \/ Refined(deduped, model) = NoEnd
         \/ Compares(L, Refined(deduped, model), Compared(deduped, model))
<1>1. CASE ~Refines(deduped, model)
  <2>1. Refined(deduped, model) = deduped /\ Compared(deduped, model) = model.merge
    BY ONLY <1>1 DEF Refined, Compared
  <2> QED  BY ONLY <2>1, Compares(L, deduped, model.merge)
<1>2. CASE Refines(deduped, model)
  <2> DEFINE x == RefineChunked(deduped, model)
             u == InWords(x)
             s == SemanticDedupe(u, model.refined)
  <2>1. /\ Refined(deduped, model) = IF x = NoEnd THEN NoEnd ELSE s
        /\ Compared(deduped, model) = model.refined
    BY ONLY <1>2 DEF Refined, Compared
  <2>2. x \in Seq(L) \/ x = NoEnd
    BY ONLY ListsAssumption, CandidatesOf(L), ModelOf(L, model), Compares(L, deduped, model.merge),
            RefineChunkedIs DEF Compares
  <2> HIDE DEF x
  <2>3. CASE x \in Seq(L)
    <3>1. u \in Seq(L) /\ AllUsable(u, Len(u))
      BY ONLY <2>3, UsableIs DEF UsableIn
    <3> HIDE DEF u
    <3>2. Compares(L, s, model.refined)
      BY ONLY <3>1, CandidatesOf(L), ComparesIs
    <3> QED  BY ONLY <2>1, <3>2
  <2> QED  BY ONLY <2>1, <2>2, <2>3
<1> QED  BY ONLY <1>1, <1>2

\* The list that stands for a loop without end is none that refining can give.
NoEndFree(L) == [key |-> 0] \notin L
LEMMA ListIsNotNoEnd ==
  ASSUME NEW L, NoEndFree(L), NEW list, list \in Seq(L)
  PROVE  list # NoEnd
<1> SUFFICES ASSUME list = NoEnd PROVE FALSE
  OBVIOUS
<1>1. list = <<[key |-> 0]>>
  BY DEF NoEnd
<1>2. 1 \in 1 .. Len(list) /\ list[1] = [key |-> 0]
  BY ONLY <1>1
<1>3. list[1] \in L
  BY ONLY <1>2, list \in Seq(L), ElementOfSeq
<1> QED  BY ONLY <1>2, <1>3, NoEndFree(L) DEF NoEndFree

\* Of what is left, the most central come first; sentences of the document follow.
PointsOf(L, refined, up, sentences, points) ==
  /\ points \in Seq(L) /\ Len(points) <= MaxItems /\ KeysDiffer(points)
  /\ AllUsable(points, Len(points))
  /\ \E top \in Seq(L) :
       /\ up => Unlike(top)
       /\ \A i \in 1 .. Len(points) :
            \/ \E k \in 1 .. Len(top) : points[i] = top[k]
            \/ \E k \in 1 .. Len(sentences) : points[i] = sentences[k]
  /\ Len(points) < MaxItems =>
       \A j \in 1 .. Len(refined) : \E i \in 1 .. Len(points) : points[i].key = refined[j].key

LEMMA FilledUpIs ==
  ASSUME ListsAssumption, NEW L, CandidatesOf(L), NEW refined, NEW up, Compares(L, refined, up),
         refined # NoEnd, NEW sentences, sentences \in Seq(L), NEW rank
  PROVE  PointsOf(L, refined, up, sentences, FilledUp(refined, sentences, rank))
<1> DEFINE r == Ranked(refined, rank)
           n == Len(refined)
           E == Distinct(r)
           X == First(E, MaxItems)
           m == Len(X)
           Y == InWords(sentences)
           Z == X \o Y
           D == Distinct(Z)
           P == First(D, MaxItems)
<1>1. MaxItems \in Nat \ {0}
  BY DEF ListsAssumption
<1>2. /\ Compares(L, r, up) /\ Len(r) = n
      /\ \A i \in 1 .. n : \E k \in 1 .. n : r[k] = refined[i]
  BY ONLY CandidatesOf(L), Compares(L, refined, up), RankingKeeps DEF RankedOf
<1>3. r \in Seq(L) /\ AllUsable(r, n) /\ (up => Unlike(r))
  BY ONLY <1>2 DEF Compares
<1>4. FilledUp(refined, sentences, rank) = P
  BY ONLY refined # NoEnd DEF FilledUp
<1> HIDE DEF r, n
<1>5. DistinctIn(L, r, n, E)
  BY ONLY <1>2, <1>3, DistinctIs
<1> HIDE DEF E
<1>6. /\ E \in Seq(L) /\ KeysDiffer(E)
      /\ \A a \in 1 .. Len(E) : \E j \in 1 .. n : E[a] = r[j]
      /\ \A j \in 1 .. n : \E a \in 1 .. Len(E) : E[a].key = r[j].key
  BY ONLY <1>5 DEF DistinctIn, FirstOnesOf
<1>7. X \in Seq(L) /\ IsFirst(E, MaxItems, X)
  BY ONLY <1>1, <1>6, FirstIs
<1> HIDE DEF X
<1>8. /\ m \in Nat /\ (m = MaxItems \/ m = Len(E)) /\ m <= MaxItems /\ m \in 0 .. m
      /\ \A i \in 1 .. m : i \in 1 .. Len(E) /\ X[i] = E[i]
  BY ONLY <1>7 DEF IsFirst, m
<1>9. KeysDifferUpTo(X, m)
  BY ONLY <1>6, <1>8 DEF KeysDiffer, KeysDifferUpTo
<1>10. \A i \in 1 .. m : \E j \in 1 .. n : X[i] = r[j]
  BY ONLY <1>6, <1>8
<1>11. Y \in Seq(L) /\ OnlyFrom(sentences, Len(sentences), Y) /\ AllUsable(Y, Len(Y))
  BY ONLY sentences \in Seq(L), UsableIs DEF UsableIn
<1> HIDE DEF Y, m
<1>12. Z \in Seq(L) /\ Joined(X, Y, Z)
  BY ONLY <1>7, <1>11, JoinedIs, ConcatProperties
<1> HIDE DEF Z
<1>13. /\ Len(Z) = m + Len(Y) /\ Len(Y) \in Nat /\ m \in 0 .. Len(Z)
       /\ \A k \in 1 .. m : Z[k] = X[k]
       /\ \A j \in 1 .. Len(Y) : Z[m + j] = Y[j]
  <2>1. Len(Y) \in Nat
    BY ONLY <1>11, LenProperties
  <2>2. Len(Z) = m + Len(Y) /\ (\A k \in 1 .. m : Z[k] = X[k])
        /\ \A j \in 1 .. Len(Y) : Z[m + j] = Y[j]
    BY ONLY <1>12 DEF Joined, m
  <2>3. m \in 0 .. m + Len(Y)
    BY ONLY <1>8, <2>1
  <2> QED  BY ONLY <2>1, <2>2, <2>3
<1>14. KeysDifferUpTo(Z, m)
  BY ONLY <1>9, <1>13 DEF KeysDifferUpTo
<1>15. DistinctIn(L, Z, Len(Z), D) /\ KeepsFirst(Z, m, D)
  BY ONLY <1>12, <1>13, <1>14, DistinctIs, DistinctKeepsFirst
<1> HIDE DEF D
<1>16. /\ D \in Seq(L) /\ KeysDiffer(D) /\ m <= Len(D) /\ (\A a \in 1 .. m : D[a] = Z[a])
       /\ \A a \in 1 .. Len(D) : \E j \in 1 .. Len(Z) : D[a] = Z[j]
  BY ONLY <1>15 DEF DistinctIn, FirstOnesOf, KeepsFirst
<1>17. Len(D) \in Nat
  BY ONLY <1>16, LenProperties
<1>18. P \in Seq(L) /\ IsFirst(D, MaxItems, P)
  BY ONLY <1>1, <1>16, FirstIs
<1> HIDE DEF P
<1>19. /\ Len(P) \in Nat /\ Len(P) <= MaxItems /\ Len(P) <= Len(D)
       /\ Len(P) = MaxItems \/ Len(P) = Len(D)
       /\ \A i \in 1 .. Len(P) : i \in 1 .. Len(D) /\ P[i] = D[i]
  BY ONLY <1>18 DEF IsFirst
<1>20. KeysDiffer(P)
  BY ONLY <1>16, <1>19 DEF KeysDiffer
<1>21. ASSUME NEW j \in 1 .. Len(Z)
       PROVE  (\E k \in 1 .. m : Z[j] = X[k]) \/ (\E k \in 1 .. Len(Y) : Z[j] = Y[k])
  <2>1. CASE j \in 1 .. m
    BY ONLY <1>13, <2>1
  <2>2. CASE j \notin 1 .. m
    <3>1. j - m \in 1 .. Len(Y) /\ m + (j - m) = j
      BY ONLY <1>8, <1>13, <2>2, j \in 1 .. Len(Z)
    <3> QED  BY ONLY <1>13, <3>1
  <2> QED  BY ONLY <2>1, <2>2
<1>22. ASSUME NEW i \in 1 .. Len(P)
       PROVE  (\E k \in 1 .. n : P[i] = r[k]) \/ (\E k \in 1 .. Len(Y) : P[i] = Y[k])
  <2>1. PICK j \in 1 .. Len(Z) : D[i] = Z[j]
    BY ONLY <1>16, <1>19, i \in 1 .. Len(P)
  <2> QED  BY ONLY <1>10, <1>19, <1>21, <2>1, i \in 1 .. Len(P)
<1>23. AllUsable(P, Len(P))
  BY ONLY <1>3, <1>11, <1>22 DEF AllUsable
<1>24. \A i \in 1 .. Len(P) : \/ \E k \in 1 .. Len(r) : P[i] = r[k]
                              \/ \E k \in 1 .. Len(sentences) : P[i] = sentences[k]
  BY ONLY <1>2, <1>11, <1>22 DEF OnlyFrom
<1>25. ASSUME Len(P) < MaxItems, NEW j \in 1 .. n
       PROVE  \E i \in 1 .. Len(P) : P[i].key = refined[j].key
  <2>1. Len(P) = Len(D) /\ m <= Len(P) /\ m # MaxItems
    BY ONLY <1>1, <1>8, <1>16, <1>17, <1>19, <1>25
  <2>2. PICK k \in 1 .. n : r[k] = refined[j]
    BY ONLY <1>2, j \in 1 .. n
  <2>3. PICK a \in 1 .. Len(E) : E[a].key = r[k].key
    BY ONLY <1>6
  <2>4. a \in 1 .. m /\ a \in 1 .. Len(P)
    BY ONLY <1>8, <1>19, <2>1, a \in 1 .. Len(E)
  <2>5. P[a] = E[a]
    BY ONLY <1>8, <1>13, <1>16, <1>19, <2>4
  <2> QED  BY ONLY <2>2, <2>3, <2>4, <2>5
<1>26. /\ P \in Seq(L) /\ Len(P) <= MaxItems /\ KeysDiffer(P) /\ AllUsable(P, Len(P))
       /\ \E top \in Seq(L) :
            /\ up => Unlike(top)
            /\ \A i \in 1 .. Len(P) : \/ \E k \in 1 .. Len(top) : P[i] = top[k]
                                      \/ \E k \in 1 .. Len(sentences) : P[i] = sentences[k]
  BY ONLY <1>3, <1>18, <1>19, <1>20, <1>23, <1>24
<1>27. PointsOf(L, refined, up, sentences, P)
  BY ONLY <1>25, <1>26 DEF PointsOf, n
<1> QED  BY ONLY <1>4, <1>27

\* Every usable candidate has one that stands for it when all were compared.
StandsByKey(a, c, up) == IF up THEN Similar(a, c) ELSE a.key = c.key
ComparedWith(all, deduped, up) ==
  \A j \in 1 .. Len(all) : all[j].key \in Usable =>
    \E a \in 1 .. Len(deduped) : StandsByKey(deduped[a], all[j], up)
LEMMA DedupedIs ==
  ASSUME NEW L, CandidatesOf(L), NEW all, all \in Seq(L), NEW up
  PROVE  /\ Compares(L, SemanticDedupe(InWords(Distinct(all)), up), up)
         /\ ComparedWith(all, SemanticDedupe(InWords(Distinct(all)), up), up)
<1> DEFINE d == Distinct(all)
           u == InWords(d)
           s == SemanticDedupe(u, up)
<1>1. DistinctIn(L, all, Len(all), d)
  BY ONLY all \in Seq(L), DistinctIs
<1> HIDE DEF d
<1>2. d \in Seq(L) /\ \A j \in 1 .. Len(all) : \E a \in 1 .. Len(d) : d[a].key = all[j].key
  BY ONLY <1>1 DEF DistinctIn, FirstOnesOf
<1>3. UsableIn(L, d, Len(d), u)
  BY ONLY <1>2, UsableIs
<1> HIDE DEF u
<1>4. /\ u \in Seq(L) /\ AllUsable(u, Len(u))
      /\ \A j \in 1 .. Len(d) : d[j].key \in Usable => \E a \in 1 .. Len(u) : u[a] = d[j]
  BY ONLY <1>3 DEF UsableIn, HoldsUsable
<1>5. /\ Compares(L, s, up)
      /\ \A j \in 1 .. Len(u) : \E a \in 1 .. Len(s) : StandsFor(s[a], u[j], up)
  BY ONLY <1>4, CandidatesOf(L), ComparesIs
<1> HIDE DEF s
<1>6. ASSUME NEW j \in 1 .. Len(all), all[j].key \in Usable
      PROVE  \E a \in 1 .. Len(s) : StandsByKey(s[a], all[j], up)
  <2>1. PICK a \in 1 .. Len(d) : d[a].key = all[j].key
    BY ONLY <1>2, j \in 1 .. Len(all)
  <2>2. PICK b \in 1 .. Len(u) : u[b] = d[a]
    BY ONLY <1>4, <1>6, <2>1
  <2>3. PICK c \in 1 .. Len(s) : StandsFor(s[c], u[b], up)
    BY ONLY <1>5
  <2>4. StandsByKey(s[c], all[j], up)
    BY ONLY <2>1, <2>2, <2>3 DEF Similar, StandsFor, StandsByKey
  <2> QED  BY ONLY <2>4
<1>7. ComparedWith(all, s, up)
  BY ONLY <1>6 DEF ComparedWith
<1> QED  BY ONLY <1>5, <1>7 DEF d, u, s

\* Key points: whatever lines the model replies with when it refines them, however many
\* rounds there are, and whether or not the embedding service answers, none comes twice,
\* none is too long or too short, and there are not too many; those that are not sentences
\* of the document are not similar if they could be compared; and if the model is not asked
\* to refine them, each that it gave has one that stands for it, unless there are enough
\* (_merge_pipeline of tasks/key_points).
THEOREM PointsAreDistinct ==
  ASSUME ListsAssumption, NEW L, CandidatesOf(L), NoEndFree(L),
         NEW lists, lists \in Seq(Seq(L)), NEW sentences, sentences \in Seq(L),
         NEW model, ModelOf(L, model)
  PROVE  KeyPointsAreDistinct(lists, sentences, model)
<1> DEFINE all == FlattenSeq(lists)
           merge == model.merge
           deduped == Deduped(lists, model)
           refined == Refined(deduped, model)
           up == Compared(deduped, model)
           points == KeyPoints(lists, sentences, model)
           proposed == {c \in ToSet(FlattenSeq(lists)) : c.key \in Usable}
           NoSentence(i) == \A k \in DOMAIN sentences : sentences[k].key # points[i].key
<1>1. all \in Seq(L)
  BY ONLY lists \in Seq(Seq(L)), FlattenType
<1>2. points = FilledUp(refined, sentences, up /\ model.rank)
  BY DEF KeyPoints
<1>3. deduped = SemanticDedupe(InWords(Distinct(all)), merge)
  BY DEF Deduped
<1> HIDE DEF all, deduped
<1>4. Compares(L, deduped, model.merge) /\ ComparedWith(all, deduped, merge)
  BY ONLY <1>1, <1>3, CandidatesOf(L), DedupedIs
<1>5. refined = NoEnd \/ Compares(L, refined, up)
  BY ONLY <1>4, ListsAssumption, CandidatesOf(L), ModelOf(L, model), RefinedIs
<1>6. ~Refines(deduped, model) => refined = deduped
  BY DEF Refined
<1>7. \A c \in proposed : c.key \in Usable /\ \E j \in 1 .. Len(all) : c = all[j]
  <2>1. FlattenSeq(lists) = all
    BY DEF all
  <2>2. ToSet(all) = {all[j] : j \in DOMAIN all}
    BY DEF ToSet
  <2>3. DOMAIN all = 1 .. Len(all)
    BY ONLY <1>1, LenProperties
  <2> QED  BY ONLY <2>1, <2>2, <2>3
<1> HIDE DEF refined, points, proposed, up
<1>8. CASE refined = NoEnd
  <2>1. points = NoEnd
    BY ONLY <1>2, <1>8 DEF FilledUp
  <2>2. DistinctPoints(points, deduped, proposed, sentences, model)
    BY ONLY <2>1 DEF DistinctPoints
  <2> QED  BY ONLY <2>2 DEF KeyPointsAreDistinct, points, proposed, deduped
<1>9. CASE refined # NoEnd
  <2>1. Compares(L, refined, up)
    BY ONLY <1>5, <1>9
  <2>2. PointsOf(L, refined, up, sentences, points)
    BY ONLY <1>2, <1>9, <2>1, ListsAssumption, CandidatesOf(L), sentences \in Seq(L), FilledUpIs
  <2>3. /\ points \in Seq(L) /\ Len(points) <= MaxItems /\ KeysDiffer(points)
        /\ AllUsable(points, Len(points))
        /\ Len(points) < MaxItems =>
             \A j \in 1 .. Len(refined) : \E i \in 1 .. Len(points) : points[i].key = refined[j].key
    BY ONLY <2>2 DEF PointsOf
  <2>4. PICK top \in Seq(L) :
          /\ up => Unlike(top)
          /\ \A i \in 1 .. Len(points) :
               \/ \E k \in 1 .. Len(top) : points[i] = top[k]
               \/ \E k \in 1 .. Len(sentences) : points[i] = sentences[k]
    BY ONLY <2>2 DEF PointsOf
  <2>5. /\ DOMAIN points = 1 .. Len(points) /\ DOMAIN sentences = 1 .. Len(sentences)
        /\ Len(top) \in Nat
    BY ONLY <2>3, <2>4, sentences \in Seq(L), LenProperties
  <2>6. points # NoEnd
    BY ONLY <2>3, NoEndFree(L), ListIsNotNoEnd
  <2>7. DistinctKeys(points) /\ \A i \in DOMAIN points : points[i].key \in Usable
    BY ONLY <2>3, <2>5 DEF DistinctKeys, KeysDiffer, AllUsable
  <2>8. ASSUME up, NEW i \in DOMAIN points, NEW k \in DOMAIN points, i # k,
               NoSentence(i), NoSentence(k)
        PROVE  ~Similar(points[i], points[k])
    <3>1. PICK a \in 1 .. Len(top) : points[i] = top[a]
      BY ONLY <2>4, <2>5, <2>8
    <3>2. PICK b \in 1 .. Len(top) : points[k] = top[b]
      BY ONLY <2>4, <2>5, <2>8
    <3>3. a # b
      BY ONLY <2>3, <2>5, <2>8, <3>1, <3>2 DEF KeysDiffer
    <3>4. a < b \/ b < a
      BY ONLY <2>5, <3>3
    <3>5. ~Similar(top[a], top[b]) \/ ~Similar(top[b], top[a])
      BY ONLY <2>4, <2>8, <3>4 DEF Unlike, UnlikeUpTo
    <3> QED  BY ONLY <3>1, <3>2, <3>5 DEF Similar
  <2>9. ASSUME ~Refines(deduped, model), Len(points) < MaxItems, NEW c \in proposed
        PROVE  \E i \in DOMAIN points : StandsByKey(points[i], c, merge)
    <3>1. \A j \in 1 .. Len(deduped) : \E i \in 1 .. Len(points) : points[i].key = deduped[j].key
      BY ONLY <1>6, <2>3, <2>9
    <3>2. PICK j \in 1 .. Len(all) : c = all[j] /\ c.key \in Usable
      BY ONLY <1>7, <2>9
    <3>3. PICK a \in 1 .. Len(deduped) : StandsByKey(deduped[a], all[j], merge)
      BY ONLY <1>4, <3>2 DEF ComparedWith
    <3>4. PICK i \in 1 .. Len(points) : points[i].key = deduped[a].key
      BY ONLY <3>1
    <3>5. StandsByKey(points[i], c, merge)
      BY ONLY <3>2, <3>3, <3>4 DEF StandsByKey, Similar
    <3> QED  BY ONLY <2>5, <3>5
  <2>10. DistinctPoints(points, deduped, proposed, sentences, model)
    BY ONLY <2>3, <2>6, <2>7, <2>8, <2>9 DEF DistinctPoints, StandsByKey, up, merge
  <2> QED  BY ONLY <2>10 DEF KeyPointsAreDistinct, points, proposed, deduped
<1> QED  BY ONLY <1>8, <1>9

-----------------------------------------------------------------------------
(* Translations *)

\* What g makes of each element, one after the other.
MapsTo(W, V, g) == \A w \in W : g[w] \in Seq(V)
Images(g, s) == [k \in 1 .. Len(s) |-> g[s[k]]]
Each(g, s) == FlattenSeq(Images(g, s))

LEMMA ImagesAre ==
  ASSUME NEW W, NEW V, NEW g, MapsTo(W, V, g), NEW s, s \in Seq(W)
  PROVE  /\ Images(g, s) \in Seq(Seq(V)) /\ Len(Images(g, s)) = Len(s)
         /\ Each(g, s) \in Seq(V)
<1>1. Len(s) \in Nat /\ \A k \in 1 .. Len(s) : s[k] \in W
  BY ONLY s \in Seq(W), LenProperties, ElementOfSeq
<1> DEFINE n == Len(s)
           t == [k \in 1 .. n |-> g[s[k]]]
<1>2. \A k \in 1 .. n : g[s[k]] \in Seq(V)
  BY ONLY <1>1, MapsTo(W, V, g) DEF MapsTo
<1>3. t \in Seq(Seq(V)) /\ Len(t) = n
  <2> HIDE DEF n
  <2>1. n \in Nat
    BY ONLY <1>1 DEF n
  <2> QED  BY ONLY <1>2, <2>1
<1> HIDE DEF t
<1>4. FlattenSeq(t) \in Seq(V)
  BY ONLY <1>3, FlattenType
<1> QED  BY ONLY <1>3, <1>4 DEF Images, Each, t

LEMMA EachConcat ==
  ASSUME NEW W, NEW V, NEW g, MapsTo(W, V, g), NEW s, s \in Seq(W), NEW t, t \in Seq(W)
  PROVE  Each(g, s \o t) = Each(g, s) \o Each(g, t)
<1> DEFINE st == s \o t
           a == Images(g, s)
           b == Images(g, t)
           c == Images(g, st)
<1>1. st \in Seq(W) /\ Joined(s, t, st)
  BY ONLY s \in Seq(W), t \in Seq(W), JoinedIs, ConcatProperties
<1> HIDE DEF st
<1>2. /\ a \in Seq(Seq(V)) /\ Len(a) = Len(s)
      /\ b \in Seq(Seq(V)) /\ Len(b) = Len(t)
      /\ c \in Seq(Seq(V)) /\ Len(c) = Len(st)
  BY ONLY <1>1, MapsTo(W, V, g), s \in Seq(W), t \in Seq(W), ImagesAre
<1>3. /\ \A k \in 1 .. Len(s) : a[k] = g[s[k]]
      /\ \A k \in 1 .. Len(t) : b[k] = g[t[k]]
      /\ \A k \in 1 .. Len(st) : c[k] = g[st[k]]
  BY DEF Images
<1> HIDE DEF a, b, c
<1>4. a \o b \in Seq(Seq(V)) /\ Joined(a, b, a \o b)
  BY ONLY <1>2, JoinedIs, ConcatProperties
<1>5. Len(s) \in Nat /\ Len(t) \in Nat /\ Len(st) = Len(s) + Len(t) /\ Len(a \o b) = Len(st)
  BY ONLY <1>1, <1>2, <1>4, s \in Seq(W), t \in Seq(W), LenProperties DEF Joined
<1>6. ASSUME NEW k \in 1 .. Len(st) PROVE c[k] = (a \o b)[k]
  <2>1. CASE k \in 1 .. Len(s)
    <3>1. st[k] = s[k] /\ (a \o b)[k] = a[k]
      BY ONLY <1>1, <1>2, <1>4, <2>1 DEF Joined
    <3> QED  BY ONLY <1>3, <2>1, <3>1, k \in 1 .. Len(st)
  <2>2. CASE k \notin 1 .. Len(s)
    <3> DEFINE j == k - Len(s)
    <3>1. j \in 1 .. Len(t) /\ Len(s) + j = k
      BY ONLY <1>5, <2>2, k \in 1 .. Len(st)
    <3> HIDE DEF j
    <3>2. st[Len(s) + j] = t[j] /\ (a \o b)[Len(s) + j] = b[j]
      BY ONLY <1>1, <1>2, <1>4, <3>1 DEF Joined
    <3> QED  BY ONLY <1>3, <3>1, <3>2, k \in 1 .. Len(st)
  <2> QED  BY ONLY <2>1, <2>2
<1>7. c = a \o b
  BY ONLY <1>2, <1>4, <1>5, <1>6, SeqEqual
<1>8. FlattenSeq(a \o b) = FlattenSeq(a) \o FlattenSeq(b)
  BY ONLY <1>2, FlattenConcat
<1> QED  BY ONLY <1>7, <1>8 DEF Each, a, b, c, st

LEMMA EachOfNone ==
  ASSUME NEW g
  PROVE  Each(g, <<>>) = <<>>
<1>1. Len(<<>>) = 0 /\ 1 .. 0 = {}
  BY EmptySeq
<1>2. Images(g, <<>>) = [k \in {} |-> g[<<>>[k]]]
  BY ONLY <1>1 DEF Images
<1>3. [k \in {} |-> g[<<>>[k]]] = <<>>
  OBVIOUS
<1> QED  BY ONLY <1>2, <1>3, FlattenEmpty DEF Each

\* What g makes of a sequence that was put together is what it makes of its parts.
EachOf(g, ss) == [i \in 1 .. Len(ss) |-> Each(g, ss[i])]
LEMMA EachFlatten ==
  ASSUME NEW W, NEW V, NEW g, MapsTo(W, V, g), NEW ss, ss \in Seq(Seq(W))
  PROVE  /\ EachOf(g, ss) \in Seq(Seq(V)) /\ Len(EachOf(g, ss)) = Len(ss)
         /\ Each(g, FlattenSeq(ss)) = FlattenSeq(EachOf(g, ss))
<1> DEFINE n == Len(ss)
           tt == [i \in 1 .. n |-> Each(g, ss[i])]
<1>1. n \in Nat /\ \A i \in 1 .. n : ss[i] \in Seq(W)
  BY ONLY ss \in Seq(Seq(W)), LenProperties, ElementOfSeq
<1>2. \A i \in 1 .. n : Each(g, ss[i]) \in Seq(V)
  BY ONLY <1>1, MapsTo(W, V, g), ImagesAre
<1>3. tt \in Seq(Seq(V)) /\ Len(tt) = n /\ \A i \in 1 .. n : tt[i] = Each(g, ss[i])
  <2> HIDE DEF n
  <2> QED  BY ONLY <1>1, <1>2
<1>10. \A x, y \in Seq(W) : Each(g, x \o y) = Each(g, x) \o Each(g, y)
  BY ONLY MapsTo(W, V, g), EachConcat
<1>4. PICK h \in [0 .. n -> Seq(W)] : Flattens(ss, h) /\ FlattenSeq(ss) = h[n]
  BY ONLY ss \in Seq(Seq(W)), FlattenSteps
<1>5. h[0] = <<>> /\ \A i \in 1 .. n : h[i] = h[i - 1] \o ss[i]
  BY ONLY <1>4 DEF Flattens
<1> DEFINE e == [i \in 0 .. n |-> Each(g, h[i])]
<1>6. ASSUME NEW i \in 1 .. n PROVE e[i] = e[i - 1] \o tt[i]
  <2>1. i - 1 \in 0 .. n /\ i \in 0 .. n
    BY ONLY <1>1, i \in 1 .. n
  <2>2. h[i - 1] \in Seq(W) /\ ss[i] \in Seq(W) /\ h[i] = h[i - 1] \o ss[i]
    BY ONLY <1>1, <1>4, <1>5, <2>1, i \in 1 .. n
  <2>3. Each(g, h[i - 1] \o ss[i]) = Each(g, h[i - 1]) \o Each(g, ss[i])
    BY ONLY <1>10, <2>2
  <2>4. e[i] = Each(g, h[i]) /\ e[i - 1] = Each(g, h[i - 1])
    BY ONLY <2>1
  <2> QED  BY ONLY <1>3, <2>2, <2>3, <2>4, i \in 1 .. n
<1>7. e[0] = <<>> /\ e[n] = Each(g, FlattenSeq(ss))
  <2>1. 0 \in 0 .. n /\ n \in 0 .. n
    BY ONLY <1>1
  <2>2. e[0] = Each(g, h[0]) /\ e[n] = Each(g, h[n])
    BY ONLY <2>1
  <2> QED  BY ONLY <1>4, <1>5, <2>2, EachOfNone
<1> HIDE DEF tt, e
<1>8. Flattens(tt, e)
  BY ONLY <1>3, <1>6, <1>7 DEF Flattens
<1>9. FlattenSeq(tt) = e[n]
  BY ONLY <1>3, <1>8, FlattenIs
<1> QED  BY ONLY <1>3, <1>7, <1>9 DEF EachOf, tt, n

\* Of parts of which only one is not empty that one is left.
OnlyPart(tt, i) == \A j \in 1 .. Len(tt) : j # i => tt[j] = <<>>
LEMMA FlattenOnly ==
  ASSUME NEW V, NEW tt, tt \in Seq(Seq(V)), NEW i \in 1 .. Len(tt), OnlyPart(tt, i)
  PROVE  FlattenSeq(tt) = tt[i]
<1> DEFINE n == Len(tt)
           h == [k \in 0 .. n |-> IF k < i THEN <<>> ELSE tt[i]]
<1>1. n \in Nat /\ tt[i] \in Seq(V) /\ \A j \in 1 .. n : j # i => tt[j] = <<>>
  BY ONLY tt \in Seq(Seq(V)), LenProperties, ElementOfSeq, i \in 1 .. Len(tt), OnlyPart(tt, i)
     DEF OnlyPart
<1>2. tt[i] \o <<>> = tt[i] /\ <<>> \o tt[i] = tt[i]
  BY ONLY <1>1, ConcatEmptySeq
<1>3. <<>> \o <<>> = <<>>
  OBVIOUS
<1>4. h[0] = <<>> /\ h[n] = tt[i]
  BY ONLY <1>1, i \in 1 .. Len(tt) DEF n
<1>5. ASSUME NEW k \in 1 .. n PROVE h[k] = h[k - 1] \o tt[k]
  <2>1. /\ k \in 0 .. n /\ k - 1 \in 0 .. n
        /\ k < i => k - 1 < i /\ k # i
        /\ k = i => ~(k < i) /\ k - 1 < i
        /\ k # i /\ ~(k < i) => ~(k - 1 < i)
    BY ONLY <1>1, i \in 1 .. Len(tt), k \in 1 .. n
  <2>2. /\ h[k] = IF k < i THEN <<>> ELSE tt[i]
        /\ h[k - 1] = IF k - 1 < i THEN <<>> ELSE tt[i]
    BY ONLY <2>1
  <2> HIDE DEF h
  <2>3. CASE k < i
    BY ONLY <1>1, <1>3, <2>1, <2>2, <2>3, k \in 1 .. n
  <2>4. CASE k = i
    BY ONLY <1>2, <2>1, <2>2, <2>4
  <2>5. CASE k # i /\ ~(k < i)
    BY ONLY <1>1, <1>2, <2>1, <2>2, <2>5, k \in 1 .. n
  <2> QED  BY ONLY <2>3, <2>4, <2>5
<1> HIDE DEF h
<1>6. Flattens(tt, h)
  BY ONLY <1>4, <1>5 DEF Flattens
<1>7. FlattenSeq(tt) = h[n]
  BY ONLY <1>6, tt \in Seq(Seq(V)), FlattenIs
<1> QED  BY ONLY <1>4, <1>7

\* If all parts are empty, so is the whole.
LEMMA FlattenNothing ==
  ASSUME NEW V, NEW tt, tt \in Seq(Seq(V)), \A j \in 1 .. Len(tt) : tt[j] = <<>>
  PROVE  FlattenSeq(tt) = <<>>
<1> DEFINE h == [k \in 0 .. Len(tt) |-> <<>>]
<1>1. <<>> \o <<>> = <<>>
  OBVIOUS
<1>3. Len(tt) \in Nat
  BY ONLY tt \in Seq(Seq(V)), LenProperties
<1>2. Flattens(tt, h) /\ h[Len(tt)] = <<>>
  <2>1. \A k \in 1 .. Len(tt) : k \in 0 .. Len(tt) /\ k - 1 \in 0 .. Len(tt)
    BY ONLY <1>3
  <2>2. 0 \in 0 .. Len(tt) /\ Len(tt) \in 0 .. Len(tt)
    BY ONLY <1>3
  <2> QED  BY <1>1, <2>1, <2>2 DEF Flattens
<1> HIDE DEF h
<1> QED  BY ONLY <1>2, tt \in Seq(Seq(V)), FlattenIs

\* What the translation model says for a word: nothing for some.
SaidFor(W) == [w \in W |-> IF w.id \in Silent THEN <<>> ELSE <<TranslatedWord(w)>>]
Sayings(W) == {TranslatedWord(w) : w \in W}

LEMMA OutputIs ==
  ASSUME NEW W, NEW texts, texts \in Seq(Seq(W))
  PROVE  /\ MapsTo(W, Sayings(W), SaidFor(W))
         /\ ModelOutput(texts) = EachOf(SaidFor(W), texts)
<1> DEFINE g == SaidFor(W)
<1>1. MapsTo(W, Sayings(W), g)
  <2> SUFFICES ASSUME NEW w \in W PROVE g[w] \in Seq(Sayings(W))
    BY DEF MapsTo
  <2>1. TranslatedWord(w) \in Sayings(W)
    BY DEF Sayings
  <2>2. <<>> \in Seq(Sayings(W)) /\ <<TranslatedWord(w)>> \in Seq(Sayings(W))
    <3> HIDE DEF Sayings
    <3> QED  BY ONLY <2>1, EmptySeq
  <2>3. g[w] = <<>> \/ g[w] = <<TranslatedWord(w)>>
    BY DEF SaidFor
  <2> QED  BY ONLY <2>2, <2>3
<1>2. /\ DOMAIN texts = 1 .. Len(texts)
      /\ \A i \in 1 .. Len(texts) : texts[i] \in Seq(W)
  BY ONLY texts \in Seq(Seq(W)), LenProperties, ElementOfSeq
<1>3. ASSUME NEW i \in 1 .. Len(texts)
      PROVE  FlattenSeq([k \in DOMAIN texts[i] |->
                 IF texts[i][k].id \in Silent THEN <<>> ELSE <<TranslatedWord(texts[i][k])>>])
               = Each(g, texts[i])
  <2> DEFINE t == texts[i]
             said(w) == IF w.id \in Silent THEN <<>> ELSE <<TranslatedWord(w)>>
             x == [k \in DOMAIN t |-> said(t[k])]
  <2>1. t \in Seq(W)
    BY ONLY <1>2, i \in 1 .. Len(texts)
  <2> HIDE DEF t
  <2>2. DOMAIN t = 1 .. Len(t) /\ \A k \in 1 .. Len(t) : t[k] \in W
    BY ONLY <2>1, LenProperties, ElementOfSeq
  <2>3. \A w \in W : g[w] = said(w)
    BY DEF SaidFor
  <2> HIDE DEF said, g
  <2>4. \A k \in 1 .. Len(t) : said(t[k]) = g[t[k]]
    BY ONLY <2>2, <2>3
  <2>5. x = Images(g, t)
    BY ONLY <2>2, <2>4 DEF Images
  <2> HIDE DEF x
  <2>6. FlattenSeq(x) = Each(g, t)
    BY ONLY <2>5 DEF Each
  <2> QED  BY ONLY <2>6 DEF x, t, said
<1>4. ModelOutput(texts) = EachOf(g, texts)
  <2> HIDE DEF g
  <2> QED  BY ONLY <1>2, <1>3 DEF ModelOutput, EachOf
<1> QED  BY ONLY <1>1, <1>4

\* The pieces of an item are the item.
LEMMA SplitIs ==
  ASSUME ChunkingAssumption, NEW W, NEW item, item \in Seq(W), NEW size \in Nat
  PROVE  /\ SplitLongItem(item, size) \in Seq(Seq(W))
         /\ FlattenSeq(SplitLongItem(item, size)) = item
<1>1. FlattenSeq(<<item>>) = item /\ <<item>> \in Seq(Seq(W))
  BY ONLY item \in Seq(W), FlattenOne
<1>2. CASE Len(item) <= size
  BY ONLY <1>1, <1>2 DEF SplitLongItem
<1>3. CASE ~(Len(item) <= size)
  <2> DEFINE chunks == ChunkUnits(<<item>>, size)
  <2>1. SplitLongItem(item, size) = chunks
    BY ONLY <1>3 DEF SplitLongItem
  <2>2. NoneEmpty(<<item>>)
    <3>1. item # <<>>
      <4>1. Len(<<>>) = 0
        BY EmptySeq
      <4> QED  BY ONLY <1>3, <4>1, size \in Nat
    <3>2. Len(<<item>>) = 1 /\ <<item>>[1] = item
      OBVIOUS
    <3> QED  BY ONLY <3>1, <3>2 DEF NoneEmpty
  <2>3. Packs(W, <<item>>, size, Fallback(size), chunks)
    BY ONLY <1>1, <2>2, ChunkingAssumption, size \in Nat, ChunkUnitsIs
  <2> QED  BY ONLY <1>1, <2>1, <2>3 DEF Packs
<1> QED  BY ONLY <1>2, <1>3

\* The pieces of all items.
PieceOf(W) == [item : Nat, text : Seq(W)]
PiecesOfItem(i, texts) == [k \in 1 .. Len(texts) |-> [item |-> i, text |-> texts[k]]]
ItemPieces(items, size) ==
  [i \in 1 .. Len(items) |-> PiecesOfItem(i, SplitLongItem(items[i], size))]

LEMMA PiecesAre ==
  ASSUME ChunkingAssumption, NEW W, NEW items, items \in Seq(Seq(W)), NEW size \in Nat
  PROVE  /\ ItemPieces(items, size) \in Seq(Seq(PieceOf(W)))
         /\ Len(ItemPieces(items, size)) = Len(items)
         /\ \A i \in 1 .. Len(items) :
              ItemPieces(items, size)[i] = PiecesOfItem(i, SplitLongItem(items[i], size))
         /\ FlatPieces(items, size) = FlattenSeq(ItemPieces(items, size))
<1> DEFINE n == Len(items)
           P == PieceOf(W)
           split(i) == SplitLongItem(items[i], size)
           pp == [i \in 1 .. n |-> PiecesOfItem(i, split(i))]
<1>1. n \in Nat /\ DOMAIN items = 1 .. n /\ \A i \in 1 .. n : items[i] \in Seq(W)
  BY ONLY items \in Seq(Seq(W)), LenProperties, ElementOfSeq
<1>2. \A i \in 1 .. n : split(i) \in Seq(Seq(W))
  BY ONLY <1>1, ChunkingAssumption, size \in Nat, SplitIs
<1> HIDE DEF split
<1>3. ASSUME NEW i \in 1 .. n
      PROVE  /\ PiecesOfItem(i, split(i)) \in Seq(P)
             /\ DOMAIN split(i) = 1 .. Len(split(i))
  <2> DEFINE s == split(i)
             m == Len(s)
             q == [k \in 1 .. m |-> [item |-> i, text |-> s[k]]]
  <2>1. s \in Seq(Seq(W))
    BY ONLY <1>2, i \in 1 .. n
  <2> HIDE DEF s
  <2>2. m \in Nat /\ DOMAIN s = 1 .. m /\ \A k \in 1 .. m : s[k] \in Seq(W)
    BY ONLY <2>1, LenProperties, ElementOfSeq
  <2>3. i \in Nat
    BY ONLY <1>1, i \in 1 .. n
  <2>4. \A k \in 1 .. m : [item |-> i, text |-> s[k]] \in P
    BY ONLY <2>2, <2>3 DEF PieceOf
  <2> HIDE DEF P
  <2>5. q \in Seq(P)
    <3> HIDE DEF m
    <3> QED  BY ONLY <2>2, <2>4
  <2> QED  BY ONLY <2>2, <2>5 DEF PiecesOfItem, s
<1>4. /\ pp \in Seq(Seq(P)) /\ Len(pp) = n
      /\ \A i \in 1 .. n : pp[i] = PiecesOfItem(i, split(i))
  <2> HIDE DEF n, P
  <2> QED  BY ONLY <1>1, <1>3
<1>5. pp = ItemPieces(items, size)
  BY DEF ItemPieces, split
<1>6. FlatPieces(items, size) = FlattenSeq(pp)
  <2>1. \A i \in 1 .. n : PiecesOfItem(i, split(i)) =
            [k \in DOMAIN split(i) |-> [item |-> i, text |-> split(i)[k]]]
    <3> TAKE i \in 1 .. n
    <3> QED  BY ONLY <1>3, i \in 1 .. n DEF PiecesOfItem
  <2> DEFINE y == [i \in DOMAIN items |->
                     [k \in DOMAIN split(i) |-> [item |-> i, text |-> split(i)[k]]]]
  <2>2. y = pp
    BY ONLY <1>1, <2>1
  <2>3. FlatPieces(items, size) = FlattenSeq(y)
    BY DEF FlatPieces, split
  <2> HIDE DEF y, pp
  <2> QED  BY ONLY <2>2, <2>3
<1> HIDE DEF pp
<1> QED  BY ONLY <1>4, <1>5, <1>6 DEF n, P, split

\* The translations of the pieces that belong to an item.
OwnOf(W, i) == [p \in PieceOf(W) |-> IF p.item = i THEN Each(SaidFor(W), p.text) ELSE <<>>]
LEMMA OwnIs ==
  ASSUME NEW W, NEW i, MapsTo(W, Sayings(W), SaidFor(W))
  PROVE  MapsTo(PieceOf(W), Sayings(W), OwnOf(W, i))
<1> DEFINE V == Sayings(W)
           g == SaidFor(W)
<1> SUFFICES ASSUME NEW p \in PieceOf(W) PROVE OwnOf(W, i)[p] \in Seq(V)
  BY DEF MapsTo
<1>1. p.text \in Seq(W)
  BY DEF PieceOf
<1> HIDE DEF V, g
<1>2. Each(g, p.text) \in Seq(V)
  BY ONLY <1>1, MapsTo(W, Sayings(W), SaidFor(W)), ImagesAre DEF V, g
<1>3. <<>> \in Seq(V)
  BY EmptySeq
<1>4. OwnOf(W, i)[p] = IF p.item = i THEN Each(g, p.text) ELSE <<>>
  BY DEF OwnOf, g
<1> QED  BY ONLY <1>2, <1>3, <1>4

\* Put together they are the translation of the item.
LEMMA ItemIsWhole ==
  ASSUME ChunkingAssumption, NEW W, NEW items, items \in Seq(Seq(W)),
         NEW size \in Nat, NEW i \in 1 .. Len(items)
  PROVE  Each(OwnOf(W, i), FlatPieces(items, size)) = Each(SaidFor(W), items[i])
<1> DEFINE n == Len(items)
           P == PieceOf(W)
           V == Sayings(W)
           g == SaidFor(W)
           o == OwnOf(W, i)
           pp == ItemPieces(items, size)
           split(j) == SplitLongItem(items[j], size)
           tt == EachOf(o, pp)
<1>1. n \in Nat /\ \A j \in 1 .. n : j \in Nat /\ items[j] \in Seq(W)
  BY ONLY items \in Seq(Seq(W)), LenProperties, ElementOfSeq
<1>2. MapsTo(W, V, g)
  BY ONLY items \in Seq(Seq(W)), OutputIs
<1>3. MapsTo(P, V, o)
  BY ONLY <1>2, OwnIs
<1>4. /\ pp \in Seq(Seq(P)) /\ Len(pp) = n
      /\ \A j \in 1 .. n : pp[j] = PiecesOfItem(j, split(j))
      /\ FlatPieces(items, size) = FlattenSeq(pp)
  BY ONLY ChunkingAssumption, items \in Seq(Seq(W)), size \in Nat, PiecesAre
<1>5. \A j \in 1 .. n : split(j) \in Seq(Seq(W)) /\ FlattenSeq(split(j)) = items[j]
  BY ONLY <1>1, ChunkingAssumption, size \in Nat, SplitIs
<1> HIDE DEF P, V, pp, split
<1>6. tt \in Seq(Seq(V)) /\ Len(tt) = n /\ Each(o, FlattenSeq(pp)) = FlattenSeq(tt)
  BY ONLY <1>3, <1>4, EachFlatten
<1>7. \A j \in 1 .. n : tt[j] = Each(o, pp[j])
  BY ONLY <1>4 DEF EachOf
<1> HIDE DEF tt
<1>8. ASSUME NEW j \in 1 .. n
      PROVE  Images(o, pp[j]) = [k \in 1 .. Len(split(j)) |->
                                   IF j = i THEN Each(g, split(j)[k]) ELSE <<>>]
  <2> DEFINE s == split(j)
             m == Len(s)
  <2>1. s \in Seq(Seq(W))
    BY ONLY <1>5, j \in 1 .. n
  <2> HIDE DEF s
  <2>2. m \in Nat /\ \A k \in 1 .. m : s[k] \in Seq(W)
    BY ONLY <2>1, LenProperties, ElementOfSeq
  <2>3. pp[j] = [k \in 1 .. m |-> [item |-> j, text |-> s[k]]]
    BY ONLY <1>4, j \in 1 .. n DEF PiecesOfItem, s
  <2>4. Len(pp[j]) = m /\ \A k \in 1 .. m : pp[j][k] = [item |-> j, text |-> s[k]]
    <3> HIDE DEF m
    <3> QED  BY ONLY <2>2, <2>3
  <2>5. ASSUME NEW k \in 1 .. m PROVE o[pp[j][k]] = IF j = i THEN Each(g, s[k]) ELSE <<>>
    <3> DEFINE p == [item |-> j, text |-> s[k]]
    <3>1. p \in P /\ p.item = j /\ p.text = s[k]
      BY ONLY <1>1, <2>2, j \in 1 .. n, k \in 1 .. m DEF P, PieceOf
    <3> HIDE DEF p
    <3>2. o[p] = IF p.item = i THEN Each(g, p.text) ELSE <<>>
      BY ONLY <3>1 DEF OwnOf, P
    <3>3. pp[j][k] = p
      BY ONLY <2>4, k \in 1 .. m DEF p
    <3> QED  BY ONLY <3>1, <3>2, <3>3
  <2> HIDE DEF o, g
  <2> QED  BY ONLY <2>4, <2>5 DEF Images, s
<1> HIDE DEF o, g
<1>9. ASSUME NEW j \in 1 .. n, j # i PROVE tt[j] = <<>>
  <2> DEFINE x == Images(o, pp[j])
  <2>1. pp[j] \in Seq(P)
    BY ONLY <1>4, ElementOfSeq, j \in 1 .. n
  <2>2. x \in Seq(Seq(V)) /\ Len(x) = Len(pp[j])
    BY ONLY <1>3, <2>1, ImagesAre
  <2>3. x = [k \in 1 .. Len(split(j)) |-> <<>>]
    BY ONLY <1>8, <1>9
  <2>4. FlattenSeq(x) = Each(o, pp[j])
    BY DEF Each
  <2> HIDE DEF x
  <2>5. split(j) \in Seq(Seq(W))
    BY ONLY <1>5, j \in 1 .. n
  <2>6. Len(split(j)) \in Nat
    BY ONLY <2>5, LenProperties
  <2>7. \A k \in 1 .. Len(x) : x[k] = <<>>
    BY ONLY <2>3, <2>6
  <2>8. FlattenSeq(x) = <<>>
    BY ONLY <2>2, <2>7, FlattenNothing
  <2> QED  BY ONLY <1>7, <2>4, <2>8, j \in 1 .. n
<1>10. tt[i] = Each(g, items[i])
  <2>1. split(i) \in Seq(Seq(W)) /\ FlattenSeq(split(i)) = items[i]
    BY ONLY <1>5, i \in 1 .. Len(items)
  <2>2. Images(o, pp[i]) = [k \in 1 .. Len(split(i)) |-> Each(g, split(i)[k])]
    BY ONLY <1>8, i \in 1 .. Len(items)
  <2>3. Images(o, pp[i]) = EachOf(g, split(i))
    BY ONLY <2>2 DEF EachOf
  <2>4. Each(g, FlattenSeq(split(i))) = FlattenSeq(EachOf(g, split(i)))
    BY ONLY <1>2, <2>1, EachFlatten
  <2>5. tt[i] = FlattenSeq(EachOf(g, split(i)))
    BY ONLY <1>7, <2>3, i \in 1 .. Len(items) DEF Each
  <2> QED  BY ONLY <2>1, <2>4, <2>5
<1>11. FlattenSeq(tt) = tt[i]
  <2>1. OnlyPart(tt, i) /\ i \in 1 .. Len(tt)
    BY ONLY <1>6, <1>9, i \in 1 .. Len(items) DEF OnlyPart
  <2> QED  BY ONLY <1>6, <2>1, FlattenOnly
<1> QED  BY ONLY <1>4, <1>6, <1>10, <1>11 DEF o, g

\* The pieces that are not empty are all to be translated.
LEMMA PlacesOfPieces ==
  ASSUME NEW P, NEW pieces, pieces \in Seq(P)
  PROVE  /\ NonEmpty(pieces) \in Seq(1 .. Len(pieces))
         /\ \A i \in 1 .. Len(pieces) :
              pieces[i].text # <<>> => ElementOf(i, NonEmpty(pieces))
<1> DEFINE n == Len(pieces)
           tt == [i \in DOMAIN pieces |-> IF pieces[i].text = <<>> THEN <<>> ELSE <<i>>]
           t == FlattenSeq(tt)
<1>1. n \in Nat /\ DOMAIN pieces = 1 .. n
  BY ONLY pieces \in Seq(P), LenProperties
<1>2. NonEmpty(pieces) = t
  BY DEF NonEmpty
<1>3. \A i \in 1 .. n : tt[i] = <<>> \/ tt[i] = <<i>>
  BY ONLY <1>1
<1>4. tt \in Seq(Seq(1 .. n)) /\ Len(tt) = n
  <2> DEFINE at(i) == IF pieces[i].text = <<>> THEN <<>> ELSE <<i>>
  <2>1. tt = [i \in 1 .. n |-> at(i)]
    BY ONLY <1>1
  <2> HIDE DEF n, tt
  <2>2. ASSUME NEW i \in 1 .. n PROVE at(i) \in Seq(1 .. n)
    <3>1. <<>> \in Seq(1 .. n)
      BY EmptySeq
    <3>2. <<i>> \in Seq(1 .. n)
      BY ONLY i \in 1 .. n
    <3> QED  BY ONLY <3>1, <3>2
  <2> HIDE DEF at
  <2> QED  BY ONLY <1>1, <2>1, <2>2
<1>5. \A i \in 1 .. n : pieces[i].text # <<>> => tt[i] = <<i>>
  BY ONLY <1>1
<1> HIDE DEF tt, t
<1>6. t \in Seq(1 .. n) /\ Placed(tt, t)
  BY ONLY <1>4, FlattenType, FlattenPlaces DEF t
<1>7. PICK off : OffsetsOf(tt, off) /\ PlacedTo(tt, Len(tt), t, off)
  BY ONLY <1>6 DEF Placed
<1>8. ASSUME NEW i \in 1 .. n, pieces[i].text # <<>> PROVE ElementOf(i, t)
  <2>1. tt[i] = <<i>>
    BY ONLY <1>5, <1>8
  <2>2. Len(tt[i]) = 1 /\ tt[i][1] = i /\ 1 \in 1 .. Len(tt[i]) /\ Len(tt[i]) \in Nat
    BY ONLY <2>1
  <2>3. i \in 1 .. Len(tt) /\ Len(tt) \in Nat
    BY ONLY <1>1, <1>4, i \in 1 .. n
  <2>4. off[i - 1] + 1 \in 1 .. Len(t)
    BY ONLY <1>7, <2>2, <2>3, PlaceInRange
  <2>5. t[off[i - 1] + 1] = i
    BY ONLY <1>7, <2>2, <2>3 DEF PlacedTo
  <2> QED  BY ONLY <2>4, <2>5 DEF ElementOf
<1> QED  BY ONLY <1>2, <1>6, <1>8

\* The batches begin at the multiples of their size.
StartsOf(n, size) == [k \in 1 .. (n + size - 1) \div size |-> (k - 1) * size]
BatchEnd(n, size, start) == IF start + size < n THEN start + size ELSE n
BatchOf(places, size, start) == SubSeq(places, start + 1, BatchEnd(Len(places), size, start))
TextsOfBatch(pieces, batch) == [j \in DOMAIN batch |-> pieces[batch[j]].text]
BatchStep(pieces, places, size, translations, start) ==
  Put(translations, BatchOf(places, size, start), start,
                ModelOutput(TextsOfBatch(pieces, BatchOf(places, size, start))))
Covered(places, from, to, i) == \E j \in from .. to : places[j] = i

\* The translations of a batch are put where its pieces came from.
PutIn(W, pieces, places, from, to, before, after) ==
  /\ after \in Seq(Seq(Sayings(W))) /\ Len(after) = Len(before)
  /\ \A i \in 1 .. Len(before) :
       IF Covered(places, from, to, i) THEN after[i] = Each(SaidFor(W), pieces[i].text)
       ELSE after[i] = before[i]

LEMMA BatchStepIs ==
  ASSUME NEW W, NEW pieces, pieces \in Seq(PieceOf(W)),
         NEW places, places \in Seq(1 .. Len(pieces)), NEW size \in Nat,
         NEW start \in 0 .. Len(places), NEW before, before \in Seq(Seq(Sayings(W)))
  PROVE  PutIn(W, pieces, places, start + 1, BatchEnd(Len(places), size, start), before,
               BatchStep(pieces, places, size, before, start))
<1> DEFINE n == Len(places)
           m == Len(pieces)
           V == Sayings(W)
           g == SaidFor(W)
           end == BatchEnd(n, size, start)
           batch == BatchOf(places, size, start)
           texts == TextsOfBatch(pieces, batch)
           output == ModelOutput(texts)
           after == BatchStep(pieces, places, size, before, start)
<1>1. n \in Nat /\ m \in Nat /\ \A i \in 1 .. m : pieces[i].text \in Seq(W)
  <2>1. \A i \in 1 .. m : pieces[i] \in PieceOf(W)
    BY ONLY pieces \in Seq(PieceOf(W)), ElementOfSeq
  <2>2. n \in Nat /\ m \in Nat
    BY ONLY pieces \in Seq(PieceOf(W)), places \in Seq(1 .. Len(pieces)), LenProperties
  <2> QED  BY ONLY <2>1, <2>2 DEF PieceOf
<1>2. end \in start .. n /\ start \in Nat
  BY ONLY <1>1, size \in Nat, start \in 0 .. Len(places) DEF BatchEnd
<1> HIDE DEF end, m
<1>3. /\ batch \in Seq(1 .. m) /\ Len(batch) = end - start
      /\ \A j \in 1 .. end - start : batch[j] = places[start + j]
  <2>2. /\ SubSeq(places, start + 1, end) \in Seq(1 .. m)
        /\ Len(SubSeq(places, start + 1, end)) = IF start + 1 <= end THEN end - (start + 1) + 1 ELSE 0
        /\ \A j \in 1 .. end - (start + 1) + 1 : SubSeq(places, start + 1, end)[j] = places[start + 1 + j - 1]
    <3> DEFINE from == start + 1
    <3>1. \A i \in 1 .. n : places[i] \in 1 .. m
      BY ONLY places \in Seq(1 .. Len(pieces)), ElementOfSeq DEF m, n
    <3>2. from \in Int /\ end \in Int /\ \A i \in from .. end : i \in 1 .. n
      BY ONLY <1>1, <1>2
    <3> HIDE DEF from, end, n, m
    <3>3. \A i \in from .. end : places[i] \in 1 .. m
      BY ONLY <3>1, <3>2
    <3>4. /\ SubSeq(places, from, end) \in Seq(1 .. m)
          /\ Len(SubSeq(places, from, end)) = IF from <= end THEN end - from + 1 ELSE 0
          /\ \A j \in 1 .. end - from + 1 : SubSeq(places, from, end)[j] = places[from + j - 1]
      BY ONLY <3>2, <3>3, SubSeqProperties
    <3> QED  BY ONLY <3>4 DEF from
  <2>3. /\ end - (start + 1) + 1 = end - start
        /\ (IF start + 1 <= end THEN end - (start + 1) + 1 ELSE 0) = end - start
        /\ \A j \in 1 .. end - start : start + 1 + j - 1 = start + j
    BY ONLY <1>1, <1>2
  <2>4. batch = SubSeq(places, start + 1, end)
    BY DEF BatchOf, end
  <2> HIDE DEF batch, n
  <2> QED  BY ONLY <2>2, <2>3, <2>4
<1> HIDE DEF batch, n
<1>4. DOMAIN batch = 1 .. Len(batch) /\ Len(batch) \in Nat /\ \A j \in 1 .. Len(batch) : batch[j] \in 1 .. m
  BY ONLY <1>3, LenProperties, ElementOfSeq
<1>5. /\ texts \in Seq(Seq(W)) /\ Len(texts) = Len(batch)
      /\ \A j \in 1 .. Len(batch) : texts[j] = pieces[batch[j]].text
  <2>1. texts = [j \in 1 .. Len(batch) |-> pieces[batch[j]].text]
    BY ONLY <1>4 DEF TextsOfBatch
  <2> HIDE DEF texts
  <2>2. \A j \in 1 .. Len(batch) : pieces[batch[j]].text \in Seq(W)
    BY ONLY <1>1, <1>4
  <2> QED  BY ONLY <1>4, <2>1, <2>2
<1> HIDE DEF texts
<1>6. MapsTo(W, V, g) /\ output = EachOf(g, texts)
  BY ONLY <1>5, OutputIs
<1>7. \A j \in 1 .. Len(batch) : output[j] = Each(g, pieces[batch[j]].text)
  BY ONLY <1>5, <1>6 DEF EachOf
<1>8. \A i \in 1 .. m : Each(g, pieces[i].text) \in Seq(V)
  BY ONLY <1>1, <1>6, ImagesAre
<1> HIDE DEF output, g, V
<1> DEFINE InBatch(i) == \E j \in 1 .. Len(batch) : batch[j] = i
           at(i) == CHOOSE j \in DOMAIN batch : batch[j] = i
           new(i) == IF InBatch(i) THEN output[at(i)] ELSE before[i]
<1>9. /\ DOMAIN before = 1 .. Len(before) /\ Len(before) \in Nat
      /\ \A i \in 1 .. Len(before) : before[i] \in Seq(V)
  BY ONLY before \in Seq(Seq(Sayings(W))), LenProperties, ElementOfSeq DEF V
<1>10. after = [i \in 1 .. Len(before) |-> new(i)]
  <2>1. after = Put(before, batch, start, output)
    BY DEF BatchStep, batch, output, texts
  <2>2. \A i : Contains(batch, i) <=> InBatch(i)
    BY ONLY <1>4 DEF Contains
  <2> HIDE DEF after, InBatch
  <2> QED  BY ONLY <1>9, <2>1, <2>2 DEF Put
<1>11. ASSUME NEW i, InBatch(i)
       PROVE  output[at(i)] = Each(g, pieces[i].text) /\ i \in 1 .. m
  <2>1. at(i) \in 1 .. Len(batch) /\ batch[at(i)] = i
    BY ONLY <1>4, <1>11
  <2> HIDE DEF at
  <2> QED  BY ONLY <1>4, <1>7, <2>1
<1>12. \A i \in 1 .. Len(before) : new(i) \in Seq(V)
  <2> TAKE i \in 1 .. Len(before)
  <2> HIDE DEF at, InBatch
  <2> QED  BY ONLY <1>8, <1>9, <1>11, i \in 1 .. Len(before)
<1> HIDE DEF after
<1>13. after \in Seq(Seq(V)) /\ Len(after) = Len(before)
  <2> HIDE DEF new
  <2> QED  BY ONLY <1>9, <1>10, <1>12
<1>14. \A i : InBatch(i) <=> Covered(places, start + 1, end, i)
  <2> TAKE i
  <2>1. ASSUME InBatch(i) PROVE Covered(places, start + 1, end, i)
    <3>1. PICK j \in 1 .. Len(batch) : batch[j] = i
      BY ONLY <2>1
    <3>2. start + j \in start + 1 .. end /\ places[start + j] = i
      <4>1. start + j \in start + 1 .. end /\ j \in 1 .. end - start
        BY ONLY <1>1, <1>2, <1>3, j \in 1 .. Len(batch)
      <4> QED  BY ONLY <1>3, <3>1, <4>1
    <3> QED  BY ONLY <3>2 DEF Covered
  <2>2. ASSUME Covered(places, start + 1, end, i) PROVE InBatch(i)
    <3>1. PICK j \in start + 1 .. end : places[j] = i
      BY ONLY <2>2 DEF Covered
    <3>2. j - start \in 1 .. end - start /\ start + (j - start) = j
      BY ONLY <1>1, <1>2, j \in start + 1 .. end
    <3>3. j - start \in 1 .. Len(batch) /\ batch[j - start] = i
      BY ONLY <1>3, <3>1, <3>2
    <3> QED  BY ONLY <3>3
  <2> QED  BY ONLY <2>1, <2>2
<1> HIDE DEF InBatch
<1>15. ASSUME NEW i \in 1 .. Len(before)
       PROVE  IF Covered(places, start + 1, end, i) THEN after[i] = Each(g, pieces[i].text)
              ELSE after[i] = before[i]
  <2>1. after[i] = new(i)
    BY ONLY <1>10, i \in 1 .. Len(before)
  <2> HIDE DEF at
  <2>2. CASE InBatch(i)
    BY ONLY <1>11, <1>14, <2>1, <2>2
  <2>3. CASE ~InBatch(i)
    BY ONLY <1>14, <2>1, <2>3
  <2> QED  BY ONLY <2>2, <2>3
<1> QED  BY ONLY <1>13, <1>15 DEF PutIn, V, g, end, n, after

LEMMA StartsAre ==
  ASSUME NEW n \in Nat, NEW size \in Nat \ {0}
  PROVE  /\ StartsOf(n, size) \in Seq(0 .. n)
         /\ Len(StartsOf(n, size)) \in Nat
         /\ \A k \in 1 .. Len(StartsOf(n, size)) : StartsOf(n, size)[k] = (k - 1) * size
         /\ n <= Len(StartsOf(n, size)) * size
<1> DEFINE m == (n + size - 1) \div size
           s == [k \in 1 .. m |-> (k - 1) * size]
<1>1. n + size - 1 \in Nat
  OBVIOUS
<1>2. m \in Nat /\ m * size <= n + size - 1 /\ n + size - 1 < m * size + size
  BY ONLY <1>1, size \in Nat \ {0}, Division
<1> HIDE DEF m
<1>3. ASSUME NEW k \in 1 .. m PROVE (k - 1) * size \in 0 .. n
  <2>1. k \in Nat \ {0} /\ k \in Nat /\ k <= m
    BY ONLY <1>2, k \in 1 .. m
  <2>2. k * size = (k - 1) * size + size /\ (k - 1) * size \in Nat /\ k * size \in Nat
    BY ONLY <2>1, size \in Nat \ {0}, MultiplesAre DEF Multiples
  <2>3. k * size <= m * size /\ m * size \in Nat
    BY ONLY <1>2, <2>1, size \in Nat \ {0}, MultiplesGrow
  <2> DEFINE a == (k - 1) * size
             b == k * size
             c == m * size
  <2>4. b = a + size /\ a \in Nat /\ b \in Nat /\ b <= c /\ c \in Nat /\ c <= n + size - 1
    BY ONLY <1>2, <2>2, <2>3
  <2> HIDE DEF a, b, c
  <2>5. a \in 0 .. n
    BY ONLY <2>4, n \in Nat, size \in Nat \ {0}
  <2> QED  BY ONLY <2>5 DEF a
<1>4. n <= m * size
  <2>1. m * size \in Nat
    BY ONLY <1>2, size \in Nat \ {0}
  <2> QED  BY ONLY <1>2, <2>1, n \in Nat, size \in Nat \ {0}
<1>5. s \in Seq(0 .. n) /\ Len(s) = m /\ \A k \in 1 .. m : s[k] = (k - 1) * size
  <2> DEFINE f(k) == (k - 1) * size
  <2>1. \A k \in 1 .. m : f(k) \in 0 .. n
    BY ONLY <1>3
  <2>2. s = [k \in 1 .. m |-> f(k)]
    OBVIOUS
  <2> HIDE DEF f, s
  <2>3. s \in Seq(0 .. n) /\ Len(s) = m /\ \A k \in 1 .. m : s[k] = f(k)
    BY ONLY <1>2, <2>1, <2>2
  <2> QED  BY ONLY <2>3 DEF f
<1>6. StartsOf(n, size) = s
  BY DEF StartsOf, m
<1> HIDE DEF s
<1> QED  BY ONLY <1>2, <1>4, <1>5, <1>6

NothingSaid(pieces) == [i \in DOMAIN pieces |-> <<>>]
BatchesFrom(pieces, places, size, h) ==
  /\ h[0] = NothingSaid(pieces)
  /\ \A k \in 1 .. Len(StartsOf(Len(places), size)) :
       h[k] = BatchStep(pieces, places, size, h[k - 1], StartsOf(Len(places), size)[k])
TranslatedAfter(V, pieces, places, size, last) ==
  \E h \in [0 .. Len(StartsOf(Len(places), size)) -> V] :
    BatchesFrom(pieces, places, size, h) /\ last = h[Len(StartsOf(Len(places), size))]

\* The loop over the batches.
LEMMA BatchesFold ==
  ASSUME NEW W, NEW pieces, pieces \in Seq(PieceOf(W)),
         NEW places, places \in Seq(1 .. Len(pieces)), NEW size \in Nat \ {0}
  PROVE  TranslatedAfter(Seq(Seq(Sayings(W))), pieces, places, size, Translated(pieces, places, size))
<1> DEFINE starts == StartsOf(Len(places), size)
<1>0. /\ starts \in Seq(0 .. Len(places)) /\ Len(starts) \in Nat /\ DOMAIN starts = 1 .. Len(starts)
      /\ NothingSaid(pieces) \in Seq(Seq(Sayings(W)))
  <2>1. Len(places) \in Nat /\ Len(pieces) \in Nat /\ DOMAIN pieces = 1 .. Len(pieces)
    BY ONLY pieces \in Seq(PieceOf(W)), places \in Seq(1 .. Len(pieces)), LenProperties
  <2>2. starts \in Seq(0 .. Len(places))
    BY ONLY <2>1, size \in Nat \ {0}, StartsAre
  <2>3. NothingSaid(pieces) \in Seq(Seq(Sayings(W)))
    <3>1. <<>> \in Seq(Sayings(W))
      BY EmptySeq
    <3> QED  BY ONLY <2>1, <3>1 DEF NothingSaid
  <2> HIDE DEF starts
  <2> QED  BY ONLY <2>2, <2>3, LenProperties
<1> HIDE DEF starts
<1> DEFINE n == Len(starts)
           V == Seq(Seq(Sayings(W)))
           v == NothingSaid(pieces)
           step(before, e) == BatchStep(pieces, places, size, before, e)
           F == [i \in 1 .. n |-> [before \in V |-> step(before, starts[i])]]
           Is(f) == f = [S \in SUBSET DOMAIN starts |->
                           IF S = {} THEN v ELSE step(f[S \ {Max(S)}], starts[Max(S)])]
           iter == CHOOSE f : Is(f)
<1>1. n \in Nat /\ v \in V
  BY ONLY <1>0
<1>2. \A i \in 1 .. n : \A before \in V : step(before, starts[i]) \in V
  <2> TAKE i \in 1 .. n
  <2> TAKE before \in V
  <2>1. starts[i] \in 0 .. Len(places)
    BY ONLY <1>0, ElementOfSeq, i \in 1 .. n
  <2>2. PutIn(W, pieces, places, starts[i] + 1, BatchEnd(Len(places), size, starts[i]), before,
              BatchStep(pieces, places, size, before, starts[i]))
    BY ONLY <2>1, before \in V, size \in Nat \ {0}, pieces \in Seq(PieceOf(W)),
       places \in Seq(1 .. Len(pieces)), BatchStepIs
  <2> QED  BY ONLY <2>2 DEF PutIn
<1>3. F \in [1 .. n -> [V -> V]]
  <2> HIDE DEF step, V, n
  <2> QED  BY ONLY <1>2
<1>4. \A S \in SUBSET (1 .. n) : S # {} => Max(S) \in 1 .. n /\ S \ {Max(S)} \in SUBSET (1 .. n)
  <2> HIDE DEF n
  <2> QED  BY ONLY <1>1, MaxIn
<1>5. PICK g \in [SUBSET (1 .. n) -> V] :
        \A S \in SUBSET (1 .. n) : g[S] = IF S = {} THEN v ELSE F[Max(S)][g[S \ {Max(S)}]]
  <2> HIDE DEF F, V, n, v
  <2>1. Folded(V, n, v, F)
    BY ONLY <1>1, <1>3, FoldExists
  <2> QED  BY ONLY <2>1 DEF Folded, Folds
<1>6. DOMAIN starts = 1 .. n
  <2>1. DOMAIN starts = 1 .. n
    BY ONLY <1>0
  <2> QED  BY ONLY <2>1
<1>7. Is(g)
  <2> HIDE DEF step, V, n, v
  <2>1. ASSUME NEW S \in SUBSET (1 .. n)
        PROVE  g[S] = IF S = {} THEN v ELSE step(g[S \ {Max(S)}], starts[Max(S)])
    <3>1. CASE S = {}
      BY ONLY <1>5, <3>1, S \in SUBSET (1 .. n)
    <3>2. CASE S # {}
      BY ONLY <1>4, <1>5, <3>2, S \in SUBSET (1 .. n)
    <3> QED  BY ONLY <3>1, <3>2
  <2> QED  BY ONLY <1>5, <1>6, <2>1
<1>8. Is(iter)
  <2> HIDE DEF Is
  <2> QED  BY <1>7
<1>9. Translated(pieces, places, size) = iter[1 .. n]
  BY <1>6 DEF Translated, FoldLeft, MapThenFoldSet, BatchStep,
         NothingSaid, BatchOf, BatchEnd, TextsOfBatch, StartsOf, starts
<1>10. /\ iter[{}] = v
       /\ \A S \in SUBSET (1 .. n) :
            S # {} /\ iter[S \ {Max(S)}] \in V => iter[S] = F[Max(S)][iter[S \ {Max(S)}]]
  <2> HIDE DEF step, V, iter, n, v
  <2>1. \A S \in SUBSET (1 .. n) :
          iter[S] = IF S = {} THEN v ELSE step(iter[S \ {Max(S)}], starts[Max(S)])
    BY ONLY <1>6, <1>8
  <2> QED  BY ONLY <1>4, <2>1
<1>11. PICK h \in [0 .. n -> V] :
         /\ h[0] = v /\ \A i \in 1 .. n : h[i] = F[i][h[i - 1]]
         /\ iter[1 .. n] = h[n]
  <2> HIDE DEF F, V, iter, n, v
  <2>1. FoldsIn(V, n, v, F, iter)
    BY ONLY <1>10 DEF FoldsIn
  <2>2. IteratedTo(V, n, v, F, iter[1 .. n])
    BY ONLY <1>1, <1>3, <2>1, FoldGoesOn
  <2> QED  BY ONLY <2>2 DEF IteratedTo, Iterates
<1>12. \A i \in 1 .. n : h[i] = step(h[i - 1], starts[i])
  <2> HIDE DEF step, V
  <2> TAKE i \in 1 .. n
  <2> HIDE DEF n
  <2>1. h[i - 1] \in V
    <3>1. i - 1 \in 0 .. n
      BY ONLY <1>1, i \in 1 .. n
    <3> QED  BY ONLY <1>11, <3>1
  <2> QED  BY ONLY <1>11, <2>1, i \in 1 .. n
<1>13. BatchesFrom(pieces, places, size, h)
  BY ONLY <1>11, <1>12 DEF BatchesFrom, starts, n
<1> HIDE DEF iter
<1> QED  BY ONLY <1>9, <1>11, <1>13 DEF TranslatedAfter, starts, n

\* After some batches their pieces are translated, and nothing is said for the others.
DoneTo(W, pieces, places, q, translations) ==
  /\ translations \in Seq(Seq(Sayings(W))) /\ Len(translations) = Len(pieces)
  /\ \A i \in 1 .. Len(pieces) :
       \/ translations[i] = Each(SaidFor(W), pieces[i].text)
       \/ translations[i] = <<>> /\ ~Covered(places, 1, q, i)
UpTo(n, size, k) == IF k * size < n THEN k * size ELSE n

LEMMA OneMoreBatch ==
  ASSUME NEW W, NEW pieces, pieces \in Seq(PieceOf(W)),
         NEW places, places \in Seq(1 .. Len(pieces)), NEW size \in Nat \ {0},
         NEW k \in Nat \ {0}, (k - 1) * size <= Len(places),
         NEW before, DoneTo(W, pieces, places, UpTo(Len(places), size, k - 1), before)
  PROVE  DoneTo(W, pieces, places, UpTo(Len(places), size, k),
                BatchStep(pieces, places, size, before, (k - 1) * size))
<1> DEFINE n == Len(places)
           start == (k - 1) * size
           end == BatchEnd(n, size, start)
           after == BatchStep(pieces, places, size, before, start)
<1>1. n \in Nat /\ Len(pieces) \in Nat
  BY ONLY pieces \in Seq(PieceOf(W)), places \in Seq(1 .. Len(pieces)), LenProperties
<1>2. start \in 0 .. n /\ k * size = start + size /\ k * size \in Nat
  BY ONLY <1>1, k \in Nat \ {0}, size \in Nat \ {0}, (k - 1) * size <= Len(places), MultiplesAre
     DEF Multiples
<1>3. UpTo(n, size, k - 1) = start
  <2>1. UpTo(n, size, k - 1) = IF start < n THEN start ELSE n
    BY DEF UpTo
  <2> HIDE DEF start, n
  <2> QED  BY ONLY <1>1, <1>2, <2>1
<1>4. UpTo(n, size, k) = end
  BY ONLY <1>2 DEF UpTo, BatchEnd
<1> HIDE DEF start
<1>5. end \in start .. n
  <2> HIDE DEF n
  <2> QED  BY ONLY <1>1, <1>2, size \in Nat \ {0} DEF BatchEnd
<1>6. /\ before \in Seq(Seq(Sayings(W))) /\ Len(before) = Len(pieces)
      /\ \A i \in 1 .. Len(pieces) :
           \/ before[i] = Each(SaidFor(W), pieces[i].text)
           \/ before[i] = <<>> /\ ~Covered(places, 1, start, i)
  BY ONLY <1>3, DoneTo(W, pieces, places, UpTo(Len(places), size, k - 1), before) DEF DoneTo
<1>7. PutIn(W, pieces, places, start + 1, end, before, after)
  <2>1. size \in Nat /\ start \in 0 .. Len(places)
    BY ONLY <1>2, size \in Nat \ {0}
  <2> QED  BY ONLY <1>6, <2>1, pieces \in Seq(PieceOf(W)), places \in Seq(1 .. Len(pieces)), BatchStepIs
<1> HIDE DEF end, after, n
<1>8. /\ after \in Seq(Seq(Sayings(W))) /\ Len(after) = Len(before)
      /\ \A i \in 1 .. Len(before) :
           IF Covered(places, start + 1, end, i) THEN after[i] = Each(SaidFor(W), pieces[i].text)
           ELSE after[i] = before[i]
  BY ONLY <1>7 DEF PutIn
<1>9. \A i : Covered(places, 1, end, i) =>
               Covered(places, 1, start, i) \/ Covered(places, start + 1, end, i)
  <2> SUFFICES ASSUME NEW i, NEW j \in 1 .. end, places[j] = i
      PROVE  Covered(places, 1, start, i) \/ Covered(places, start + 1, end, i)
    BY DEF Covered
  <2>1. j \in 1 .. start \/ j \in start + 1 .. end
    BY ONLY <1>1, <1>2, <1>5, j \in 1 .. end
  <2> QED  BY ONLY <2>1, places[j] = i DEF Covered
<1>10. ASSUME NEW i \in 1 .. Len(pieces)
       PROVE  \/ after[i] = Each(SaidFor(W), pieces[i].text)
              \/ after[i] = <<>> /\ ~Covered(places, 1, end, i)
  BY ONLY <1>6, <1>8, <1>9, i \in 1 .. Len(pieces)
<1>11. DoneTo(W, pieces, places, end, after)
  BY ONLY <1>6, <1>8, <1>10 DEF DoneTo
<1> QED  BY ONLY <1>4, <1>11 DEF after, start, n

\* Every piece gets its translation, whatever batches the pieces fall into.
LEMMA TranslatedIs ==
  ASSUME NEW W, NEW pieces, pieces \in Seq(PieceOf(W)), NEW size \in Nat \ {0},
         NEW translations,
         translations = Translated(pieces, NonEmpty(pieces), size)
  PROVE  /\ translations \in Seq(Seq(Sayings(W))) /\ Len(translations) = Len(pieces)
         /\ \A i \in 1 .. Len(pieces) : translations[i] = Each(SaidFor(W), pieces[i].text)
<1> DEFINE places == NonEmpty(pieces)
           n == Len(places)
           V == Seq(Seq(Sayings(W)))
           starts == StartsOf(n, size)
           m == Len(starts)
<1>1. /\ places \in Seq(1 .. Len(pieces))
      /\ \A i \in 1 .. Len(pieces) : pieces[i].text # <<>> => ElementOf(i, places)
  BY ONLY pieces \in Seq(PieceOf(W)), PlacesOfPieces
<1> HIDE DEF places
<1>2. n \in Nat /\ Len(pieces) \in Nat /\ DOMAIN pieces = 1 .. Len(pieces)
  BY ONLY <1>1, pieces \in Seq(PieceOf(W)), LenProperties
<1>3. /\ starts \in Seq(0 .. n) /\ m \in Nat /\ n <= m * size
      /\ \A k \in 1 .. m : starts[k] = (k - 1) * size
  BY ONLY <1>2, size \in Nat \ {0}, StartsAre
<1>4. TranslatedAfter(V, pieces, places, size, translations)
  BY ONLY <1>1, pieces \in Seq(PieceOf(W)), size \in Nat \ {0}, BatchesFold,
     translations = Translated(pieces, NonEmpty(pieces), size) DEF places
<1>5. PICK h \in [0 .. m -> V] : BatchesFrom(pieces, places, size, h) /\ translations = h[m]
  BY ONLY <1>4 DEF TranslatedAfter
<1>6. /\ h[0] = NothingSaid(pieces)
      /\ \A k \in 1 .. m : h[k] = BatchStep(pieces, places, size, h[k - 1], starts[k])
  BY ONLY <1>5 DEF BatchesFrom
<1> HIDE DEF starts, m, n, V
<1> DEFINE S == {k \in 0 .. m : DoneTo(W, pieces, places, UpTo(n, size, k), h[k])}
<1>7. 0 \in S
  <2> DEFINE x == NothingSaid(pieces)
  <2>1. <<>> \in Seq(Sayings(W))
    BY EmptySeq
  <2>2. x = [i \in 1 .. Len(pieces) |-> <<>>]
    BY ONLY <1>2 DEF NothingSaid
  <2> HIDE DEF x
  <2>3. x \in Seq(Seq(Sayings(W))) /\ Len(x) = Len(pieces) /\ \A i \in 1 .. Len(pieces) : x[i] = <<>>
    BY ONLY <1>2, <2>1, <2>2
  <2>4. UpTo(n, size, 0) = 0
    BY ONLY <1>2, size \in Nat \ {0} DEF UpTo
  <2>5. \A i : ~Covered(places, 1, 0, i)
    <3>1. 1 .. 0 = {}
      OBVIOUS
    <3> QED  BY ONLY <3>1 DEF Covered
  <2>6. DoneTo(W, pieces, places, 0, x)
    BY ONLY <2>3, <2>5 DEF DoneTo
  <2> QED  BY ONLY <1>3, <1>6, <2>4, <2>6 DEF x
<1>8. \A k \in 0 .. m - 1 : k \in S => k + 1 \in S
  <2> SUFFICES ASSUME NEW k \in 0 .. m - 1, k \in S PROVE k + 1 \in S
    OBVIOUS
  <2>1. k + 1 \in 1 .. m /\ (k + 1) - 1 = k /\ k + 1 \in Nat \ {0} /\ k + 1 \in 0 .. m
    BY ONLY <1>3, k \in 0 .. m - 1
  <2>2. DoneTo(W, pieces, places, UpTo(n, size, (k + 1) - 1), h[k])
    BY ONLY <2>1, k \in S
  <2>3. h[k + 1] = BatchStep(pieces, places, size, h[k], ((k + 1) - 1) * size)
    BY ONLY <1>3, <1>6, <2>1
  <2>4. ((k + 1) - 1) * size <= n
    <3>1. starts[k + 1] = ((k + 1) - 1) * size
      BY ONLY <1>3, <2>1
    <3>2. starts[k + 1] \in 0 .. n
      <4>1. k + 1 \in 1 .. Len(starts)
        BY ONLY <2>1 DEF m
      <4> QED  BY ONLY <1>3, <4>1, ElementOfSeq
    <3> QED  BY ONLY <1>2, <3>1, <3>2
  <2>5. DoneTo(W, pieces, places, UpTo(n, size, k + 1),
               BatchStep(pieces, places, size, h[k], ((k + 1) - 1) * size))
    BY ONLY <1>1, <2>1, <2>2, <2>4, pieces \in Seq(PieceOf(W)), size \in Nat \ {0}, OneMoreBatch DEF n
  <2> QED  BY ONLY <2>1, <2>3, <2>5
<1>9. \A k \in 0 .. m : k \in S
  <2> HIDE DEF S
  <2> QED  BY ONLY <1>3, <1>7, <1>8, Upwards
<1>10. DoneTo(W, pieces, places, n, translations)
  <2>1. m \in 0 .. m
    BY ONLY <1>3
  <2>2. DoneTo(W, pieces, places, UpTo(n, size, m), h[m])
    BY ONLY <1>9, <2>1
  <2>3. UpTo(n, size, m) = n
    <3>1. m * size \in Nat
      BY ONLY <1>3, size \in Nat \ {0}
    <3>2. UpTo(n, size, m) = IF m * size < n THEN m * size ELSE n
      BY DEF UpTo
    <3> QED  BY ONLY <1>2, <1>3, <3>1, <3>2
  <2> QED  BY ONLY <1>5, <2>2, <2>3
<1>11. /\ translations \in Seq(Seq(Sayings(W))) /\ Len(translations) = Len(pieces)
       /\ \A i \in 1 .. Len(pieces) :
            \/ translations[i] = Each(SaidFor(W), pieces[i].text)
            \/ translations[i] = <<>> /\ ~Covered(places, 1, n, i)
  BY ONLY <1>10 DEF DoneTo
<1>12. ASSUME NEW i \in 1 .. Len(pieces), translations[i] = <<>>, ~Covered(places, 1, n, i)
       PROVE  translations[i] = Each(SaidFor(W), pieces[i].text)
  <2>1. ~ElementOf(i, places)
    BY ONLY <1>12 DEF ElementOf, Covered, n
  <2>2. pieces[i].text = <<>>
    BY ONLY <1>1, <2>1, i \in 1 .. Len(pieces)
  <2>3. Each(SaidFor(W), <<>>) = <<>>
    BY ONLY EachOfNone
  <2> QED  BY ONLY <1>12, <2>2, <2>3
<1> QED  BY ONLY <1>11, <1>12

\* Every item gets its own translation, word for word and in order, however it is cut,
\* whatever its neighbours are and however the pieces fall into batches
\* (translate_items).
THEOREM ItemsAreTranslated ==
  ASSUME ChunkingAssumption, NEW W, NEW items, items \in Seq(Seq(W)),
         NEW maxWords \in Nat, NEW size \in Nat \ {0}
  PROVE  ItemsKeepTheirTranslation(items, maxWords, size)
<1> DEFINE n == Len(items)
           V == Sayings(W)
           g == SaidFor(W)
           pp == ItemPieces(items, maxWords)
           pieces == FlatPieces(items, maxWords)
           translations == Translated(pieces, NonEmpty(pieces), size)
           part(i, p) == IF pieces[p].item = i THEN translations[p] ELSE <<>>
           parts(i) == [p \in DOMAIN pieces |-> part(i, p)]
<1>1. n \in Nat /\ DOMAIN items = 1 .. n
  BY ONLY items \in Seq(Seq(W)), LenProperties
<1>2. MapsTo(W, V, g) /\ ModelOutput(items) = EachOf(g, items)
  BY ONLY items \in Seq(Seq(W)), OutputIs
<1>3. pieces \in Seq(PieceOf(W))
  <2>1. pp \in Seq(Seq(PieceOf(W))) /\ pieces = FlattenSeq(pp)
    BY ONLY ChunkingAssumption, items \in Seq(Seq(W)), maxWords \in Nat, PiecesAre
  <2> HIDE DEF pp, pieces
  <2> QED  BY ONLY <2>1, FlattenType
<1>4. Translate(items, maxWords, size) =
        [i \in DOMAIN items |-> FlattenSeq(parts(i))]
  BY DEF Translate, Reassemble
<1> HIDE DEF pieces
<1>5. \A i \in 1 .. Len(pieces) : translations[i] = Each(g, pieces[i].text)
  BY ONLY <1>3, size \in Nat \ {0}, TranslatedIs
<1> HIDE DEF translations, g
<1>6. DOMAIN pieces = 1 .. Len(pieces) /\ \A p \in 1 .. Len(pieces) : pieces[p] \in PieceOf(W)
  BY ONLY <1>3, LenProperties, ElementOfSeq
<1>7. ASSUME NEW i \in 1 .. n PROVE FlattenSeq(parts(i)) = Each(g, items[i])
  <2>1. \A p \in 1 .. Len(pieces) : part(i, p) = OwnOf(W, i)[pieces[p]]
    BY ONLY <1>5, <1>6 DEF OwnOf, g
  <2> HIDE DEF part
  <2>2. parts(i) = Images(OwnOf(W, i), pieces)
    BY ONLY <1>6, <2>1 DEF Images
  <2>3. FlattenSeq(parts(i)) = Each(OwnOf(W, i), pieces)
    BY ONLY <2>2 DEF Each
  <2>4. Each(OwnOf(W, i), pieces) = Each(g, items[i])
    BY ONLY ChunkingAssumption, items \in Seq(Seq(W)), maxWords \in Nat,
       i \in 1 .. n, ItemIsWhole DEF g, pieces, n
  <2> HIDE DEF parts
  <2> QED  BY ONLY <2>3, <2>4
<1> HIDE DEF parts
<1>8. Translate(items, maxWords, size) = EachOf(g, items)
  BY ONLY <1>1, <1>4, <1>7 DEF EachOf
<1> QED  BY ONLY <1>2, <1>8 DEF ItemsKeepTheirTranslation, g

-----------------------------------------------------------------------------
(* The invariant *)

CutWord == [id : Nat, sep : 1 .. 5]
Unit == [place : Nat, text : {"s", "t"}, faults : SUBSET FormFilter]
Name == {"basic", "web", "relevance", "relevance_llm", "min_length", "nonsense"}

LEMMA TextsAre ==
  ASSUME NEW lengths, lengths \subseteq Nat, NEW seps, seps \subseteq 1 .. 5,
         NEW text, text \in TextsWith(lengths, seps)
  PROVE  text \in Seq(CutWord) /\ OnceOnly(text)
<1>1. PICK n \in lengths :
        text \in {[i \in 1 .. n |-> [id |-> i, sep |-> f[i]]] : f \in [1 .. n -> seps]}
  BY ONLY text \in TextsWith(lengths, seps) DEF TextsWith
<1>2. PICK f \in [1 .. n -> seps] : text = [i \in 1 .. n |-> [id |-> i, sep |-> f[i]]]
  BY ONLY <1>1
<1>0. n \in Nat
  OBVIOUS
<1>3. \A i \in 1 .. n : f[i] \in 1 .. 5 /\ i \in Nat
  <2>1. \A i \in 1 .. n : f[i] \in seps /\ i \in Nat
    BY ONLY <1>0, f \in [1 .. n -> seps]
  <2> QED  BY ONLY <2>1, seps \subseteq 1 .. 5
<1>4. \A i \in 1 .. n : [id |-> i, sep |-> f[i]] \in CutWord
  BY ONLY <1>3 DEF CutWord
<1>5. text \in Seq(CutWord) /\ Len(text) = n
  BY ONLY <1>0, <1>2, <1>4
<1>6. \A i \in 1 .. n : text[i].id = i
  BY ONLY <1>2
<1>7. OnceOnly(text)
  BY ONLY <1>5, <1>6 DEF OnceOnly
<1> QED  BY ONLY <1>5, <1>7

\* The documents of the inputs are documents.
LEMMA DocumentIs ==
  ASSUME NEW T, NEW text, text \in Seq(T), text # <<>>, NEW tagged \in BOOLEAN,
         NEW kinds, kinds \in [DOMAIN PartsAt(text, 1) -> Kinds]
  PROVE  DocumentOf(T, Document(PartsAt(text, 1), tagged, kinds))
<1> DEFINE parts == PartsAt(text, 1)
           n == Len(parts)
           doc == Document(parts, tagged, kinds)
           Block(i) == [heading |-> kinds[i] = "h1", text |-> parts[i]]
           Loose(i) == IF kinds[i] = "loose" THEN parts[i] ELSE <<>>
           Tags == {"li", "p", "h1", "td"}
           V == [tag : Tags, text : Seq(T)]
           els == [i \in DOMAIN parts |-> ElementsOf(kinds[i], parts[i])]
           loose == [i \in DOMAIN parts |-> Loose(i)]
           blocks == [i \in DOMAIN parts |-> Block(i)]
<1>1. parts \in Seq(Seq(T)) /\ \A k \in 1 .. n : parts[k] # <<>>
  BY ONLY text \in Seq(T), text # <<>>, PartsAtIs
<1>2. /\ doc.tagged = tagged /\ doc.elements = FlattenSeq(els)
      /\ doc.loose = FlattenSeq(loose) /\ doc.blocks = blocks
  BY DEF Document
<1>3. \A i \in DOMAIN parts : kinds[i] \in Kinds
  BY ONLY kinds \in [DOMAIN PartsAt(text, 1) -> Kinds]
<1> HIDE DEF parts, doc
<1>4. n \in Nat /\ DOMAIN parts = 1 .. n /\ \A k \in 1 .. n : parts[k] \in Seq(T)
  BY ONLY <1>1, LenProperties, ElementOfSeq
<1>5. \A k \in 1 .. n : parts[k] # <<>>
  BY ONLY <1>1
<1> HIDE DEF n
<1>6. BlocksOf(T, blocks)
  <2>1. blocks = [i \in 1 .. n |-> Block(i)]
    BY ONLY <1>4
  <2>2. \A i \in 1 .. n : Block(i).text = parts[i]
    OBVIOUS
  <2> HIDE DEF Block, blocks
  <2>3. DOMAIN blocks = 1 .. n /\ Len(blocks) = n /\ \A i \in 1 .. n : blocks[i].text = parts[i]
    BY ONLY <1>4, <2>1, <2>2
  <2> QED  BY ONLY <1>4, <1>5, <2>3 DEF BlocksOf
<1>7. FlattenSeq(loose) \in Seq(T)
  <2>1. \A i \in 1 .. n : Loose(i) \in Seq(T)
    BY ONLY <1>4, EmptySeq
  <2> HIDE DEF Loose
  <2>2. loose \in Seq(Seq(T))
    BY ONLY <1>4, <2>1
  <2> QED  BY ONLY <2>2, FlattenType
<1>8. els \in Seq(Seq(V))
  <2>1. ASSUME NEW kind, NEW t, t \in Seq(T) PROVE ElementsOf(kind, t) \in Seq(V)
    <3> DEFINE e == [tag |-> kind, text |-> t]
               a == [tag |-> "li", text |-> t]
               b == [tag |-> "p", text |-> t]
    <3>1. a \in V /\ b \in V /\ (kind \in {"h1", "td"} => e \in V)
      <4>1. "li" \in Tags /\ "p" \in Tags /\ (kind \in {"h1", "td"} => kind \in Tags)
        BY ONLY TRUE
      <4> HIDE DEF Tags
      <4> QED  BY ONLY t \in Seq(T), <4>1, Zenon
    <3>2. ElementsOf(kind, t) = CASE kind = "li" -> <<a, b>> [] kind \in {"h1", "td"} -> <<e>> [] OTHER -> <<>>
      BY DEF ElementsOf
    <3> HIDE DEF V, a, b, e
    <3>3. \/ ElementsOf(kind, t) \in {<<a, b>>, <<>>}
          \/ kind \in {"h1", "td"} /\ ElementsOf(kind, t) = <<e>>
      BY ONLY <3>2
    <3>4. <<>> \in Seq(V) /\ <<a, b>> \in Seq(V) /\ (e \in V => <<e>> \in Seq(V))
      BY ONLY <3>1, EmptySeq
    <3> QED  BY ONLY <3>1, <3>3, <3>4
  <2> HIDE DEF V
  <2>2. \A i \in 1 .. n : ElementsOf(kinds[i], parts[i]) \in Seq(V)
    BY ONLY <1>4, <2>1
  <2> QED  BY ONLY <1>4, <2>2
<1> DEFINE elements == FlattenSeq(els)
<1>9. \A e \in V : e.text \in Seq(T)
  OBVIOUS
<1> HIDE DEF V, els
<1>10. elements \in Seq(V)
  BY ONLY <1>8, FlattenType
<1> HIDE DEF elements
<1>11. /\ Len(elements) \in Nat /\ DOMAIN elements = 1 .. Len(elements)
       /\ \A i \in 1 .. Len(elements) : elements[i] \in V
  BY ONLY <1>10, LenProperties, ElementOfSeq
<1>12. \A i \in 1 .. Len(elements) : elements[i].text \in Seq(T)
  BY ONLY <1>9, <1>11
<1>13. doc.elements = elements
  BY ONLY <1>2 DEF elements
<1> HIDE DEF loose, blocks
<1>14. DocumentOf(T, doc)
  BY ONLY <1>2, <1>6, <1>7, <1>11, <1>12, <1>13, tagged \in BOOLEAN DEF DocumentOf
<1> QED  BY ONLY <1>14 DEF doc, parts

LEMMA UnitsAre ==
  ASSUME NEW units, units \in Units
  PROVE  units \in Seq(Unit) /\ Ascending(units)
<1> DEFINE Faults == {{}, {"min_length"}, {"relevance"}, {"bullet_lines", "relevance"}}
<1>1. PICK n \in 0 .. 3 :
        units \in {[i \in 1 .. n |-> [place |-> i, text |-> t[i], faults |-> f[i]]] :
                     t \in [1 .. n -> {"s", "t"}], f \in [1 .. n -> Faults]}
  BY ONLY units \in Units DEF Units
<1> HIDE DEF Faults
<1>2. PICK t \in [1 .. n -> {"s", "t"}], f \in [1 .. n -> Faults] :
        units = [i \in 1 .. n |-> [place |-> i, text |-> t[i], faults |-> f[i]]]
  BY ONLY <1>1
<1>3. \A i \in 1 .. n : i \in Nat /\ t[i] \in {"s", "t"} /\ f[i] \in Faults
  BY ONLY t \in [1 .. n -> {"s", "t"}], f \in [1 .. n -> Faults], n \in 0 .. 3
<1>4. \A x \in Faults : x \in SUBSET FormFilter
  BY ONLY DEF FormFilter, Faults
<1>5. \A i \in 1 .. n : [place |-> i, text |-> t[i], faults |-> f[i]] \in Unit
  BY ONLY <1>3, <1>4 DEF Unit
<1>6. units \in Seq(Unit) /\ Len(units) = n
  BY ONLY <1>2, <1>5, n \in 0 .. 3
<1>7. \A i \in 1 .. n : units[i].place = i
  BY ONLY <1>2
<1>8. Ascending(units)
  BY ONLY <1>6, <1>7 DEF Ascending
<1> QED  BY ONLY <1>6, <1>8

\* The input of a task is one of those of that task.
GivenInput ==
  /\ Given("cut") => given \in CutInputs
  /\ Given("document") => given \in DocumentInputs
  /\ Given("filter") => given \in FilterInputs

LEMMA InputsOfTasks ==
  /\ \A x \in CutInputs : x.task = "cut"
  /\ \A x \in DocumentInputs : x.task = "document"
  /\ \A x \in FilterInputs : x.task = "filter"
  /\ \A x \in DateInputs : x.task = "dates"
  /\ \A x \in ListInputs : x.task = "lists"
  /\ \A x \in PointInputs : x.task = "points"
  /\ \A x \in DatasetInputs : x.task = "dataset"
  /\ \A x \in TranslateInputs : x.task = "translate"
  /\ \A x \in ReplyInputs : x.task = "reply"
  /\ \A x \in MemoryInputs : x.task = "memory"
<1>1. \A x \in CutInputs : x.task = "cut"
  BY ONLY DEF CutInputs
<1>0. \A x \in DocumentInputs : x.task = "document"
  BY ONLY DEF DocumentInputs
<1>2. \A x \in FilterInputs : x.task = "filter"
  BY ONLY DEF FilterInputs
<1>3. \A x \in DateInputs : x.task = "dates"
  BY ONLY DEF DateInputs
<1>4. \A x \in ListInputs : x.task = "lists"
  BY ONLY DEF ListInputs
<1>9. \A x \in PointInputs : x.task = "points"
  BY ONLY DEF PointInputs
<1>5. \A x \in DatasetInputs : x.task = "dataset"
  BY ONLY DEF DatasetInputs
<1>6. \A x \in TranslateInputs : x.task = "translate"
  BY ONLY DEF TranslateInputs
<1>7. \A x \in ReplyInputs : x.task = "reply"
  BY ONLY DEF ReplyInputs
<1>8. \A x \in MemoryInputs : x.task = "memory"
  BY ONLY DEF MemoryInputs
<1> QED  BY ONLY <1>0, <1>1, <1>2, <1>3, <1>4, <1>5, <1>6, <1>7, <1>8, <1>9

LEMMA GivenInputHolds == Spec => []GivenInput
<1>1. Init => GivenInput
  <2>1. NoTask.task = "none"
    BY ONLY DEF NoTask
  <2> QED  BY ONLY <2>1 DEF Init, GivenInput, Given
<1>2. GivenInput /\ [RunTask]_given => GivenInput'
  <2> SUFFICES ASSUME GivenInput, [RunTask]_given PROVE GivenInput'
    OBVIOUS
  <2>1. CASE RunTask
    <3>1. \/ given' \in CutInputs
          \/ given' \in DocumentInputs
          \/ given' \in FilterInputs
          \/ given'.task \in {"dates", "lists", "points", "dataset", "translate", "reply", "memory"}
          \/ \E replies \in Attempts : given' = [task |-> "retries", replies |-> replies]
      BY ONLY <2>1, InputsOfTasks DEF RunTask
    <3>2. \/ given' \in CutInputs
          \/ given' \in DocumentInputs
          \/ given' \in FilterInputs
          \/ given'.task \notin {"cut", "document", "filter"}
      BY ONLY <3>1
    <3> QED  BY ONLY <3>2, InputsOfTasks DEF GivenInput, Given
  <2>2. CASE UNCHANGED given
    BY ONLY <2>2, GivenInput DEF GivenInput, Given
  <2> QED  BY <2>1, <2>2
<1> QED  BY <1>1, <1>2, PTL DEF Spec

LEMMA CutIsKept ==
  ASSUME NEW x, x \in CutInputs
  PROVE  OverlapIsBounded(x.text, x.target, x.max, x.overlap)
<1>1. /\ x.text \in Texts \/ x.text \in TextsWith(0 .. 4, {1, 4, 5})
      /\ x.target \in {2, 3} /\ x.max \in {2, 4} /\ x.overlap \in 0 .. 2
  BY ONLY x \in CutInputs DEF CutInputs
<1>2. x.target \in Nat /\ x.max \in Nat \ {0} /\ x.overlap \in Nat
  BY ONLY <1>1
<1>3. Texts = TextsWith(0 .. 5, {1, 3, 4})
  BY DEF Texts
<1>4. /\ 0 .. 5 \subseteq Nat /\ 0 .. 4 \subseteq Nat
      /\ {1, 3, 4} \subseteq 1 .. 5 /\ {1, 4, 5} \subseteq 1 .. 5
  OBVIOUS
<1>5. x.text \in Seq(CutWord) /\ OnceOnly(x.text)
  BY ONLY <1>1, <1>3, <1>4, TextsAre
<1> QED  BY ONLY <1>2, <1>5, OverlapBounded

LEMMA DocumentIsKept ==
  ASSUME NEW x, x \in DocumentInputs, NEW kinds, kinds \in [DOMAIN PartsAt(x.text, 1) -> Kinds]
  PROVE  UnitsAreKept(Document(PartsAt(x.text, 1), x.tagged, kinds), x.max)
<1>1. /\ x.text \in TextsWith(1 .. 4, {1, 3, 5}) \/ x.text \in TextsWith(5 .. 5, {1, 4})
      /\ x.tagged \in BOOLEAN /\ x.max \in {2, 4}
  BY ONLY x \in DocumentInputs DEF DocumentInputs
<1>2. /\ 1 .. 4 \subseteq Nat \ {0} /\ 5 .. 5 \subseteq Nat \ {0} /\ Nat \ {0} \subseteq Nat
      /\ {1, 3, 5} \subseteq 1 .. 5 /\ {1, 4} \subseteq 1 .. 5
  OBVIOUS
<1>3. x.text \in Seq(CutWord)
  BY ONLY <1>1, <1>2, TextsAre
<1>4. x.text # <<>>
  <2>1. ASSUME NEW lengths, lengths \subseteq Nat \ {0}, NEW seps, x.text \in TextsWith(lengths, seps)
        PROVE  x.text # <<>>
    <3>1. PICK n \in lengths :
            x.text \in {[i \in 1 .. n |-> [id |-> i, sep |-> f[i]]] : f \in [1 .. n -> seps]}
      BY ONLY <2>1 DEF TextsWith
    <3>2. PICK f \in [1 .. n -> seps] : x.text = [i \in 1 .. n |-> [id |-> i, sep |-> f[i]]]
      BY ONLY <3>1
    <3>3. DOMAIN x.text = 1 .. n /\ n \in Nat \ {0}
      BY ONLY <2>1, <3>2, n \in lengths
    <3>4. 1 \in DOMAIN x.text
      BY ONLY <3>3
    <3>5. DOMAIN <<>> = {}
      BY ONLY TRUE
    <3> QED  BY ONLY <3>4, <3>5
  <2> QED  BY ONLY <1>1, <1>2, <2>1
<1>5. Spaces(CutWord)
  BY DEF Spaces, Space, CutWord
<1>6. ChunkingAssumption
  BY DocumentsAssumption
<1>7. DocumentOf(CutWord, Document(PartsAt(x.text, 1), x.tagged, kinds))
  BY ONLY <1>1, <1>3, <1>4, kinds \in [DOMAIN PartsAt(x.text, 1) -> Kinds], DocumentIs
<1>8. x.max \in Nat
  BY ONLY <1>1
<1> QED  BY ONLY <1>5, <1>6, <1>7, <1>8, UnitsKept

LEMMA FilterIsKept ==
  ASSUME NEW x, x \in FilterInputs
  PROVE  /\ FiltersFailOpen(x.names, x.units, x.replies)
         /\ ModelDropsOnlyWhatItSaw(x.units, x.replies)
<1>1. /\ x.units \in Units
      /\ x.names \in {<<"basic">>, <<"basic", "relevance", "relevance_llm">>,
                      <<"min_length", "nonsense", "basic", "min_length">>,
                      <<"relevance_llm", "web">>}
  BY ONLY x \in FilterInputs DEF FilterInputs
<1>2. x.units \in Seq(Unit) /\ Ascending(x.units)
  BY ONLY <1>1, UnitsAre
<1>3. x.names \in Seq(Name)
  <2>1. /\ "basic" \in Name /\ "web" \in Name /\ "relevance" \in Name
        /\ "relevance_llm" \in Name /\ "min_length" \in Name /\ "nonsense" \in Name
    BY ONLY DEF Name
  <2>2. /\ <<"basic">> \in Seq(Name) /\ <<"basic", "relevance", "relevance_llm">> \in Seq(Name)
        /\ <<"min_length", "nonsense", "basic", "min_length">> \in Seq(Name)
        /\ <<"relevance_llm", "web">> \in Seq(Name)
    BY ONLY <2>1, FewInSeq
  <2> QED  BY ONLY <1>1, <2>2, Zenon
<1>4. UnitsOf(Unit)
  BY DEF UnitsOf, Unit
<1> QED  BY ONLY <1>2, <1>3, <1>4, FailOpen, OnlyWhatItSaw

\* Cutting a text into overlapping chunks loses no word of it, cutting a document into
\* chunks loses no word that its units hold, and filtering these first loses nothing the
\* filters have no reason to drop (lib/llm, services/text.py), for every minimum of the
\* fallback, batch size and other constant of the tasks.
THEOREM TextKept == Spec => []TextIsKept
<1>1. GivenInput => TextIsKept
  BY ONLY CutIsKept, DocumentIsKept, FilterIsKept DEF GivenInput, TextIsKept
<1> QED  BY <1>1, GivenInputHolds, PTL
=============================================================================
