-------------------------- MODULE DatasetExtraction --------------------------
(***************************************************************************)
(* Datasets from documents (tasks/dataset_extraction): the columns the model     *)
(* proposes, and the row it extracts from one document, each with a second       *)
(* call when the reply to the first cannot be used.                              *)
(*                                                                         *)
(* A reply raises, is noise, or is the JSON asked for.  A value is null, a         *)
(* number, a truth value or a word; a cell of a reply may be missing, or a value    *)
(* without the quote that is asked for.                                           *)
(***************************************************************************)
EXTENDS Naturals, Sequences, SequencesExt, FiniteSetsExt

Null == "null"
Failure == [ok |-> FALSE, row |-> <<>>, anchored |-> {}]

\* _coerce_value: Python reads a truth value as a number, but no number as a truth value.
Coerced(value, type) ==
  CASE type = "number" /\ value = "word"              -> Null
    [] type = "boolean" /\ value \in {"word", "number"} -> Null
    [] type = "number" /\ value = "truth"             -> "number"
    [] OTHER                                          -> value

\* _filter_fields: what is described and asked for; asking for nothing is asking for all.
Wanted(schema, asked) ==
  {f \in ToSet(schema) : f.described /\ (asked = {} \/ f.key \in asked)}

\* A cell that is missing, or that is no object, has no value.
ValueIn(reply, field) ==
  IF field.key \in DOMAIN reply.cells /\ reply.cells[field.key].form = "object"
  THEN Coerced(reply.cells[field.key].value, field.type) ELSE Null

\* Mutant of BuildResult: every cell gets an anchor.
BuildAnchored(fields, reply) ==
  LET keys == {f.key : f \in fields}
      FieldOf(key) == CHOOSE f \in fields : f.key = key
  IN  [ok |-> TRUE, row |-> [key \in keys |-> ValueIn(reply, FieldOf(key))], anchored |-> keys]

\* _build_result: a value, or null, for each field, and an anchor for each value.
BuildResult(fields, reply) ==
  LET keys == {f.key : f \in fields}
      FieldOf(key) == CHOOSE f \in fields : f.key = key
      row  == [key \in keys |-> ValueIn(reply, FieldOf(key))]
  IN  [ok |-> TRUE, row |-> row, anchored |-> {key \in keys : row[key] # Null}]

\* Which of the two replies are the JSON asked for.
ParsedReplies(replies) == {i \in 1 .. 2 : replies[i].form = "json"}

\* extract_dataset_row: an exception or noise is asked once more, without grammar.
ExtractRow(readable, schema, asked, model, replies) ==
  LET fields == Wanted(schema, asked)
  IN  CASE ~readable -> Failure
        [] readable /\ fields = {} -> [ok |-> TRUE, row |-> <<>>, anchored |-> {}]
        [] readable /\ fields # {} /\ (~model \/ ParsedReplies(replies) = {}) -> Failure
        [] OTHER -> BuildResult(fields, replies[Min(ParsedReplies(replies))])

-----------------------------------------------------------------------------
\* Mutant of NormalizeColumns: only what is proposed counts as seen, and is not looked at.
NormalizeAll(raw) == SelectSeq(raw, LAMBDA c : c.described)

\* _normalize_columns: the first proposal of each key, if it is described.
NormalizeColumns(raw) ==
  LET first(i) == raw[i].object /\ \A j \in 1 .. i - 1 : raw[j].object => raw[j].key # raw[i].key
      add(out, i) == IF first(i) /\ raw[i].described THEN Append(out, raw[i]) ELSE out
  IN  FoldLeft(add, <<>>, [i \in DOMAIN raw |-> i])

\* propose_dataset_columns: here a call that raises is not made again.
ProposeColumns(readable, model, replies) ==
  LET asked == IF replies[1].form = "noise" THEN replies[2] ELSE replies[1]
  IN  IF readable /\ model /\ asked.form = "json" THEN NormalizeColumns(asked.columns) ELSE <<>>

-----------------------------------------------------------------------------
\* A row has exactly the columns that are asked for and described; a value is
\* anchored if and only if there is one; that of a column of numbers or of truth values
\* is one (a text, a date or a choice is taken as it comes); and one usable reply of two
\* is enough for a row.
RowIsAnchored(readable, schema, asked, model, replies) ==
  LET result == ExtractRow(readable, schema, asked, model, replies)
      keys   == {schema[i].key : i \in {j \in DOMAIN schema :
                   schema[j].described /\ (asked = {} \/ schema[j].key \in asked)}}
  IN  /\ result.ok =
           (readable /\ (keys = {} \/ (model /\ \E i \in 1 .. 2 : replies[i].form = "json")))
      /\ ~result.ok => result.anchored = {}
      /\ result.ok =>
           /\ DOMAIN result.row = keys
           /\ \A i \in DOMAIN schema : schema[i].key \in keys =>
                LET value == result.row[schema[i].key] IN
                  /\ schema[i].type = "number" => value \in {Null, "number"}
                  /\ schema[i].type = "boolean" => value \in {Null, "truth"}
                  /\ schema[i].key \in result.anchored <=> value # Null

\* No column is proposed twice or without the description extraction needs, so the
\* row of a proposed dataset has a value or null for each; a proposal is left out
\* only if its key came before, even if that one was left out for want of a
\* description.
ColumnsAreDescribed(readable, model, replies) ==
  LET columns == ProposeColumns(readable, model, replies)
      asked   == IF replies[1].form = "noise" THEN replies[2] ELSE replies[1]
  IN  /\ \A i \in DOMAIN columns : columns[i].described
      /\ \A i, j \in DOMAIN columns : columns[i].key = columns[j].key => i = j
      /\ columns # <<>> => readable /\ model /\ asked.form = "json"
      /\ readable /\ model /\ asked.form = "json" =>
           \A i \in DOMAIN asked.columns :
             LET c == asked.columns[i] IN
               c.object /\ c.described =>
                 \E d \in ToSet(columns) \cup ToSet(SubSeq(asked.columns, 1, i - 1)) : d.key = c.key
=============================================================================
