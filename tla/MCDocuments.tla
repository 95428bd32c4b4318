----------------------------- MODULE MCDocuments -----------------------------
(* What the workers make of documents, for TLC: a "task" is one call of pure functions
   on the input `given`. *)
EXTENDS DocumentTexts, Lists, DatasetExtraction, Translation, Replies

VARIABLE given

ASSUME DocumentsAssumption ==
  /\ ChunkingAssumption /\ UnitFiltersAssumption
  /\ DatesAssumption /\ ListsAssumption

-----------------------------------------------------------------------------
(* The inputs of the tasks *)

\* Texts of up to five words, cut at paragraphs, sentences or nowhere else, or of up to
\* four words with tabs.
TextsWith(lengths, seps) ==
  UNION {{[i \in 1 .. n |-> [id |-> i, sep |-> f[i]]] : f \in [1 .. n -> seps]} : n \in lengths}
Texts == TextsWith(0 .. 5, {1, 3, 4})
CutInputs == [task : {"cut"}, text : Texts \cup TextsWith(0 .. 4, {1, 4, 5}),
              target : {2, 3}, max : {2, 4}, overlap : 0 .. 2]

\* A document whose paragraphs are headings, list items with a paragraph in them, cells
\* of a table, outside of all elements, or tags that no text is left of.
Kinds == {"h1", "li", "td", "loose", "tag"}
ElementsOf(kind, text) ==
  CASE kind = "li"          -> <<[tag |-> "li", text |-> text], [tag |-> "p", text |-> text]>>
    [] kind \in {"h1", "td"} -> <<[tag |-> kind, text |-> text]>>
    [] OTHER                -> <<>>
Document(parts, tagged, kinds) ==
  [tagged   |-> tagged,
   elements |-> FlattenSeq([i \in DOMAIN parts |-> ElementsOf(kinds[i], parts[i])]),
   loose    |-> FlattenSeq([i \in DOMAIN parts |-> IF kinds[i] = "loose" THEN parts[i] ELSE <<>>]),
   blocks   |-> [i \in DOMAIN parts |-> [heading |-> kinds[i] = "h1", text |-> parts[i]]]]
DocumentInputs ==
  [task : {"document"}, text : TextsWith(1 .. 4, {1, 3, 5}) \cup TextsWith(5 .. 5, {1, 4}),
   tagged : BOOLEAN, max : {2, 4}]

Lists0To(n, S) == UNION {[1 .. k -> S] : k \in 0 .. n}
Units == UNION {{[i \in 1 .. n |-> [place |-> i, text |-> t[i], faults |-> f[i]]] :
                   t \in [1 .. n -> {"s", "t"}],
                   f \in [1 .. n -> {{}, {"min_length"}, {"relevance"}, {"bullet_lines", "relevance"}}]} :
                  n \in 0 .. 3}
Keep(places) == [usable |-> TRUE, keep |-> places]
NoReply == [usable |-> FALSE, keep |-> {}]
FilterInputs ==
  [task : {"filter"}, units : Units,
   replies : {<<Keep({}), Keep({1, 3})>>, <<Keep({1}), NoReply>>, <<NoReply, Keep({})>>,
              <<Keep({}), Keep({})>>},
   names : {<<"basic">>, <<"basic", "relevance", "relevance_llm">>,
            <<"min_length", "nonsense", "basic", "min_length">>, <<"relevance_llm", "web">>}]

Plain(means) == [means |-> means, capital |-> FALSE]
Day == [means |-> "day", capital |-> TRUE]
DateWords == {Plain("day"), Day, Plain("odd"), Plain("ago"), Plain("price")}
DateTexts == Lists0To(2, DateWords) \cup
  {<<Plain("day"), Plain("price"), Day>>, <<Plain("odd"), Plain("day"), Plain("odd")>>,
   <<Plain("day"), Plain("day"), Plain("day")>>, <<Plain("odd"), Plain("odd"), Plain("day")>>,
   <<Plain("ago"), Plain("odd"), Plain("ago")>>}
Said == Lists0To(2, {<<w>> : w \in DateWords}
                    \cup {<<Plain("day"), Plain("day")>>, <<Plain("odd"), Plain("day")>>,
                          <<Plain("day"), Plain("odd")>>})
        \cup {<< <<Plain("odd")>>, <<Plain("odd"), Plain("day")>>, <<Plain("day")>> >>}
DateInputs == [task : {"dates"}, text : DateTexts, said : Said, anchored : BOOLEAN,
               fallback : {"date", "unresolved", "fails"}]
\* The chunks are all of a text, or leave a word out.
DateChunks(t) ==
  {<<SubSeq(t, 1, k), SubSeq(t, k + 1, Len(t))>> : k \in 1 .. Len(t) - 1} \cup {<<t>>}
  \cup {<<SubSeq(t, 1, 1), SubSeq(t, 3, 3)>> : k \in 3 .. Len(t)}

MCTopic == <<1, 3, 5, 7, 8, 10, 9>>
C(key) == [key |-> key, capital |-> FALSE]
OtherCase == [key |-> 1, capital |-> TRUE]
ShortLists == Lists0To(2, {C(1), C(2), C(3), C(4), C(5), C(6), OtherCase})
LongLists == {<<>>, <<C(3), C(4), C(5)>>, <<C(5), C(1), C(4), OtherCase>>,
              <<C(2), C(6), C(1), C(7)>>, <<C(3), C(3), C(3)>>, <<C(5), C(6), C(4)>>}
ListsOfChunks == {<<a, b>> : a \in ShortLists, b \in LongLists}
                 \cup {<<b, a>> : a \in ShortLists, b \in LongLists}
Sentences == {<<>>, <<C(7), C(2), C(6)>>}
ListInputs == [task : {"lists"}, lists : ListsOfChunks, sentences : Sentences]

\* Rounds in which the model gives back what it got, cuts it, or makes it longer.
Round(up, replies) == [up |-> up, replies |-> replies]
GivesBack == Round(TRUE, <<>>)
Cuts(up) == Round(up, << <<C(1), C(4)>>, <<C(4), C(5)>> >>)
Invents == Round(FALSE, << <<C(7), C(2), C(5), OtherCase>>, <<>> >>)
PointModels ==
  [refines : {FALSE}, merge : BOOLEAN, refined : {FALSE}, rank : BOOLEAN, rounds : {<<>>}, last : {<<>>}]
  \cup [refines : {TRUE}, merge : BOOLEAN, refined : BOOLEAN, rank : {TRUE},
        rounds : {<<GivesBack, GivesBack>>, <<Cuts(TRUE)>>, <<Invents, Cuts(FALSE)>>},
        last : {<<>>, <<C(7)>>, <<C(4), C(5), OtherCase, C(1)>>}]
PointInputs == [task : {"points"}, lists : ListsOfChunks, sentences : Sentences, model : PointModels]
Labelled(list, label) ==
  [i \in DOMAIN list |-> [key |-> list[i].key, capital |-> list[i].capital,
                          label |-> label[list[i].key]]]
Labels == {[k \in 1 .. 7 |-> IF k < 3 THEN "PERSON" ELSE "NORP"],
           [k \in 1 .. 7 |-> IF k < 2 THEN "other" ELSE "NORP"]}

Field(key, type, described) == [key |-> key, type |-> type, described |-> described]
Cell(form, value) == [form |-> form, value |-> value]
Cells == {<<>>}
         \cup [{"k"} -> {Cell("bare", "word"), Cell("object", "word"), Cell("object", "truth")}]
         \cup [{"k", "l"} -> {Cell("object", "number"), Cell("object", "null"), Cell("object", "truth")}]
Proposals == Lists0To(2, [key : {"k", "l"}, described : BOOLEAN, object : BOOLEAN])
Failed(form) == [form |-> form, cells |-> <<>>, columns |-> <<>>]
Replies == {Failed("raises"), Failed("noise")}
           \cup [form : {"json"}, cells : Cells, columns : {<<>>}]
           \cup [form : {"json"}, cells : {<<>>}, columns : Proposals]
DatasetInputs ==
  [task : {"dataset"}, readable : BOOLEAN, model : BOOLEAN, asked : {{}, {"l"}, {"k", "m"}},
   schema : {<<Field("k", "number", TRUE), Field("l", "boolean", TRUE)>>,
             <<Field("k", "boolean", TRUE), Field("l", "text", FALSE)>>,
             <<Field("k", "text", TRUE), Field("l", "number", TRUE)>>},
   replies : {<<r, q>> : r \in Replies, q \in {Failed("raises"), Failed("noise")} \cup
                                             [form : {"json"}, cells : Cells, columns : {<<>>}]}]

\* Up to three texts of up to four words, some empty and some too long.
ShortTexts == {<<>>} \cup {t \in Texts : Len(t) = 4 /\ t[1].sep # 3} \cup {t \in Texts : Len(t) = 1}
TranslateInputs ==
  [task : {"translate"}, items : Lists0To(3, ShortTexts \ {t \in Texts : Len(t) = 4 /\ t[4].sep # 4}),
   batch : 1 .. 3]
NumberedByItem(items) ==
  [i \in DOMAIN items |->
     [k \in DOMAIN items[i] |-> [items[i][k] EXCEPT !.id = 10 * i + items[i][k].id]]]

\* Values of two levels, whose strings hold brackets and quotes, and prose around them.
Strings == {<<"\"", "w", "\"">>, <<"\"", "}", "\"">>, <<"\"", "[", "\"">>,
            <<"\"", "\\", "\"", "{", "\"">>}
In(S) == {<<"{">> \o s \o <<"}">> : s \in S} \cup {<<"[">> \o s \o <<"]">> : s \in S}
Flat   == In({<<>>} \cup Strings \cup {s \o t : s, t \in Strings})
MCJson == {<<"w">>} \cup Strings \cup Flat \cup In(Flat \cup {v \o <<"[", "]">> : v \in Flat})
Prose == {<<>>, <<"w">>, <<"\"">>, <<"}">>, <<"]", "w">>, <<"{", "w">>, <<"[">>}
ReplyInputs ==
  [task : {"reply"}, value : MCJson, before : Prose, after : Prose, fenced : BOOLEAN]
Attempts == [1 .. 4 -> {<<"w">>, <<"{", "w">>, <<"{", "}">>, <<"}", "[", "]">>}]

MemoryInputs ==
  [task : {"memory"},
   decision : [action : {"save", "replace", "forget", "other"}, name : {"", "n"}, body : {"", "b"},
               type : {"fact", "unknown"}, id : 0 .. 3],
   snippets : {S \in SUBSET [id : 1 .. 2, complete : BOOLEAN] :
                 \A s, t \in S : s.id = t.id => s = t}]

-----------------------------------------------------------------------------
NoTask == [task |-> "none"]
Given(task) == given.task = task

Init == given = NoTask

RunTask ==
  /\ given = NoTask
  /\ \/ given' \in CutInputs
     \/ given' \in DocumentInputs
     \/ given' \in FilterInputs
     \/ given' \in DateInputs
     \/ given' \in ListInputs
     \/ given' \in PointInputs
     \/ given' \in DatasetInputs
     \/ given' \in TranslateInputs
     \/ given' \in ReplyInputs
     \/ \E replies \in Attempts : given' = [task |-> "retries", replies |-> replies]
     \/ given' \in MemoryInputs

Spec == Init /\ [][RunTask]_given

-----------------------------------------------------------------------------
\* Cutting a text into overlapping chunks loses no word of it, cutting a document into
\* chunks loses no word that its units hold, and filtering these first loses nothing the
\* filters have no reason to drop (lib/llm, services/text.py).
TextIsKept ==
  /\ Given("cut") => OverlapIsBounded(given.text, given.target, given.max, given.overlap)
  /\ Given("document") =>
       \A kinds \in [DOMAIN PartsAt(given.text, 1) -> Kinds] :
         UnitsAreKept(Document(PartsAt(given.text, 1), given.tagged, kinds), given.max)
  /\ Given("filter") =>
       /\ FiltersFailOpen(given.names, given.units, given.replies)
       /\ ModelDropsOnlyWhatItSaw(given.units, given.replies)

\* The results of date-extraction, keywords, key-point, entity-extraction,
\* dataset-extraction, translate and the memory agent are what the replies of the
\* model and the document justify, and a reply is read as what it says.
TaskResultsAreClean ==
  /\ Given("dates") =>
       /\ ExtractionIsExact(given.text, given.said, given.anchored, given.fallback)
       /\ \A pieces \in DateChunks(given.text) :
            MergedDatesAreDistinct(given.text, pieces, given.said, given.anchored, given.fallback)
  /\ Given("lists") =>
       /\ KeywordsAreMostFrequent(given.lists, given.sentences)
       /\ \A a, b \in Labels :
            EntitiesAreUnique(<<Labelled(given.lists[1], a), Labelled(given.lists[2], b)>>)
  /\ Given("points") => KeyPointsAreDistinct(given.lists, given.sentences, given.model)
  /\ Given("dataset") =>
       /\ RowIsAnchored(given.readable, given.schema, given.asked, given.model, given.replies)
       /\ ColumnsAreDescribed(given.readable, given.model, given.replies)
  /\ Given("translate") =>
       ItemsKeepTheirTranslation(NumberedByItem(given.items), MinFallback, given.batch)
  /\ Given("reply") =>
       /\ JsonIsFound(given.before, given.value, given.after, given.fenced)
       /\ ObjectIsFound(given.before, given.value, given.after)
  /\ Given("retries") => RetriesFindTheFirst(given.replies)
  /\ Given("memory") => MemoryIsWhatWasSent(given.decision, given.snippets)
=============================================================================
