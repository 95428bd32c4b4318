------------------------------- MODULE Replies -------------------------------
(***************************************************************************)
(* What is read from the reply of a model (lib/llm/json.py, and                *)
(* agents/memory_agent for the memory of the assistant).                        *)
(*                                                                         *)
(* A reply is a sequence of marks: brackets, quotes, the backslash, fences, and   *)
(* anything else.  Json is the set of texts that json.loads accepts; keys, commas *)
(* and colons are left out of them.                                             *)
(***************************************************************************)
EXTENDS Naturals, Sequences, SequencesExt, FiniteSets, FiniteSetsExt

CONSTANTS Json, MaxRetries

NoValue == <<"no value">>
Fence   == "fence"
Positions(text, mark) == {i \in DOMAIN text : text[i] = mark}

\* _strip_fences: the text between the first two fences.
StripFences(text) ==
  LET fences == Positions(text, Fence)
  IN  IF Cardinality(fences) < 2 THEN text
      ELSE SubSeq(text, Min(fences) + 1, Min(fences \ {Min(fences)}) - 1)

\* Mutant of Balanced: a bracket in a string counts.
BalancedInStrings(scan, i, mark, open, close) ==
  IF scan.end # 0 THEN scan
  ELSE IF mark = open THEN [scan EXCEPT !.depth = @ + 1]
  ELSE IF mark # close THEN scan
  ELSE [scan EXCEPT !.depth = @ - 1, !.end = IF scan.depth = 1 THEN i ELSE 0]

\* One mark of the scan for the bracket that closes the first one.
Balanced(scan, i, mark, open, close) ==
  IF scan.end # 0 THEN scan
  ELSE IF scan.escape THEN [scan EXCEPT !.escape = FALSE]
  ELSE IF scan.inString
       THEN [scan EXCEPT !.escape = mark = "\\", !.inString = mark # "\""]
  ELSE IF mark = "\"" THEN [scan EXCEPT !.inString = TRUE]
  ELSE IF mark = open THEN [scan EXCEPT !.depth = @ + 1]
  ELSE IF mark # close THEN scan
  ELSE [scan EXCEPT !.depth = @ - 1, !.end = IF scan.depth = 1 THEN i ELSE 0]

\* _extract_outermost
ExtractOutermost(text, open, close) ==
  LET start == IF Contains(text, open) THEN Min(Positions(text, open)) ELSE Len(text) + 1
      step(scan, i) == Balanced(scan, i, text[i], open, close)
      end == FoldLeft(step, [depth |-> 0, inString |-> FALSE, escape |-> FALSE, end |-> 0],
                      [k \in 1 .. Len(text) - start + 1 |-> start + k - 1]).end
  IN  IF end = 0 THEN NoValue ELSE SubSeq(text, start, end)

FirstJson(texts) ==
  LET valid == {i \in DOMAIN texts : texts[i] \in Json}
  IN  IF valid = {} THEN NoValue ELSE texts[Min(valid)]

\* parse_json: the text, its first object, its first array.
ParseStripped(text) ==
  FirstJson(<<text, ExtractOutermost(text, "{", "}"), ExtractOutermost(text, "[", "]")>>)
ParseJson(reply) == ParseStripped(StripFences(reply))

\* chat_json: the value of the first reply that holds one; no more than MaxRetries
\* replies are asked for after the first.
ChatJson(replies) ==
  FirstJson([n \in 1 .. MaxRetries + 1 |-> ParseJson(replies[n])])

\* _parse_json_object of the memory agent: the reply is an object, or holds one from
\* its first opening to its last closing bracket.
IsObject(text) == text # <<>> /\ Head(text) = "{"
ParseJsonObject(reply) ==
  LET inside == IF Contains(reply, "{") /\ Contains(reply, "}")
                THEN SubSeq(reply, Min(Positions(reply, "{")), Max(Positions(reply, "}")))
                ELSE NoValue
      found == IF reply \in Json THEN reply ELSE inside
  IN  IF found \in Json /\ IsObject(found) THEN found ELSE NoValue

-----------------------------------------------------------------------------
(* extract_memory_action: a decision is what the object says, with "" for a field    *)
(* that is missing; a snippet is an entry of the memory that was sent to the model.   *)

MemoryTypes == {"fact", "episode", "instruction"}
NoAction    == [action |-> "none"]
NoId        == 0

\* _format_memory_for_prompt: the model is shown the entries with a name and a body.
Shown(snippets) == {s.id : s \in {t \in snippets : t.complete}}
KnownIds(snippets) == {s.id : s \in snippets}

Saved(decision) ==
  [name |-> decision.name, body |-> decision.body,
   type |-> IF decision.type \in MemoryTypes THEN decision.type ELSE "fact"]

\* Mutant of Named: any id will do.
NamedAny(decision, snippets) == decision.id # NoId

\* The id of the decision is a number, and that of an entry that was sent.
Named(decision, snippets) == decision.id # NoId /\ decision.id \in KnownIds(snippets)
Whole(decision) == "" \notin {decision.name, decision.body}

MemoryAction(decision, snippets) ==
  CASE decision.action = "save" /\ Whole(decision) ->
         [action |-> "save", save |-> Saved(decision)]
    [] decision.action = "replace" /\ Named(decision, snippets) /\ Whole(decision) ->
         [action |-> "replace", id |-> decision.id, save |-> Saved(decision)]
    [] decision.action = "forget" /\ Named(decision, snippets) ->
         [action |-> "forget", id |-> decision.id]
    [] OTHER -> NoAction

-----------------------------------------------------------------------------
Within(before, value, after, fenced) ==
  IF fenced THEN before \o <<Fence>> \o value \o <<Fence>> \o after
  ELSE before \o value \o after
Has(text, marks) == \E i \in DOMAIN text : text[i] \in marks

\* A reply that holds one value gives it, whatever is written around it and whatever
\* brackets and quotes its strings hold: an object after prose without "{", an array
\* after prose without brackets; in an array, "{" must not occur outside a fence,
\* because the first object is looked for before the first array.
JsonIsFound(before, value, after, fenced) ==
  LET alone  == fenced \/ before \o after = <<>>
      object == Head(value) = "{" /\ ~Has(before, {"{"})
      array  == Head(value) = "[" /\ ~Has(before, {"[", "{"}) /\ ~Has(value \o after, {"{"})
  IN  ~Has(before \o value \o after, {Fence}) /\ (alone \/ object \/ array)
        => ParseJson(Within(before, value, after, fenced)) = value

\* The memory agent finds an object if no bracket of the prose is taken for its first
\* or last one, and otherwise finds nothing: never a part of the object.
ObjectIsFound(before, value, after) ==
  Head(value) = "{" =>
    ParseJsonObject(before \o value \o after) \in
      IF Has(before, {"{"}) \/ Has(after, {"}"}) THEN {NoValue} ELSE {value}

\* A value counts if any of the replies that were asked for holds one, and the one
\* that counts is the first.
RetriesFindTheFirst(replies) ==
  \A n \in DOMAIN replies :
    n <= MaxRetries + 1 /\ ParseJson(replies[n]) # NoValue =>
      \/ ChatJson(replies) = ParseJson(replies[n])
      \/ \E k \in 1 .. n - 1 : ParseJson(replies[k]) # NoValue

\* Only an entry of the memory that was sent along is replaced or forgotten; the model
\* has seen it unless it has no name or body (_format_memory_for_prompt leaves such an
\* entry out, known_ids counts it); what is saved is whole.
MemoryIsWhatWasSent(decision, snippets) ==
  LET action == MemoryAction(decision, snippets)
  IN  /\ action.action \in {"replace", "forget"} =>
           \/ action.id \in Shown(snippets)
           \/ \E s \in snippets : s.id = action.id /\ ~s.complete
      /\ action.action \in {"save", "replace"} => "" \notin {action.save.name, action.save.body}
=============================================================================
