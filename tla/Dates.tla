-------------------------------- MODULE Dates --------------------------------
(***************************************************************************)
(* date-extraction (tasks/dates/dates.py): the expressions the model copies     *)
(* from each chunk are found again in it, resolved, and the entries of all       *)
(* chunks are merged into one list.                                             *)
(*                                                                         *)
(* A text is a sequence of words, written small or capitalised, and a place in    *)
(* it is the number of a word.  What an expression means is what its first word    *)
(* means: a day, a day counted from the anchor, a date the parser does not know,   *)
(* or a price.                                                                   *)
(***************************************************************************)
EXTENDS Naturals, Sequences, SequencesExt, FiniteSets, FiniteSetsExt

CONSTANTS MaxFallbacks,   \* chunk_max_llm_fallbacks
          HeadLength      \* the words of the first 200 characters of a chunk

DatesAssumption == MaxFallbacks \in Nat /\ HeadLength \in Nat

Meaning   == {"day", "ago", "odd", "price"}
Word      == [means : Meaning, capital : BOOLEAN]
Lower(ws) == [i \in DOMAIN ws |-> ws[i].means]
NoDate    == "none"
NoReason  == "none"

-----------------------------------------------------------------------------
(* Where an expression is *)

\* str.find from a place on; 0 if it is not there.
Find(text, sought, start) ==
  LET found == {i \in start .. Len(text) + 1 - Len(sought) :
                  SubSeq(text, i, i + Len(sought) - 1) = sought}
  IN  IF found = {} THEN 0 ELSE Min(found)

\* Mutant of Locate: nothing before the cursor is found.
LocateForward(text, expression, cursor) ==
  IF Find(text, expression, cursor) # 0 THEN Find(text, expression, cursor)
  ELSE Find(Lower(text), Lower(expression), cursor)

\* _locate: behind the cursor, as it is written or in another case, then anywhere.
Locate(text, expression, cursor) ==
  LET tries == <<Find(text, expression, cursor), Find(Lower(text), Lower(expression), cursor),
                 Find(text, expression, 1), Find(Lower(text), Lower(expression), 1)>>
      found == {i \in DOMAIN tries : tries[i] # 0}
  IN  IF found = {} THEN 0 ELSE tries[Min(found)]

\* _classify
Classify(expression) ==
  CASE expression[1].means \in {"day", "odd"} -> "absolute"
    [] expression[1].means = "ago"            -> "relative"
    [] OTHER                                  -> "none"

\* What _try_parse_range and _parse_with_dateparser make of it: two days are a range.
Parsed(expression) ==
  CASE expression[1].means = "odd" -> NoDate
    [] Len(expression) > 1 /\ expression[2].means = "day" -> "range"
    [] OTHER -> expression[1].means

-----------------------------------------------------------------------------
(* One chunk *)

Entry(expression, place, date, reason, resolver) ==
  [raw |-> expression, offset |-> place, date |-> date, reason |-> reason, resolver |-> resolver]

\* Mutant of Asks: the budget is looked at one call late.
AsksOneMore(consumed) == consumed <= MaxFallbacks

Asks(consumed) == consumed < MaxFallbacks

\* The entry of an expression the parser does not know; a fallback may give a date,
\* say that there is none, or fail.
Unparsed(expression, place, consumed, fallback) ==
  IF Asks(consumed)
  THEN CASE fallback = "date"       -> Entry(expression, place, "asked", NoReason, "llm")
         [] fallback = "unresolved" -> Entry(expression, place, NoDate, "ambiguous", "unresolved")
         [] OTHER                   -> Entry(expression, place, NoDate, "unparseable", "unresolved")
  ELSE Entry(expression, place, NoDate, "unparseable", "unresolved")

\* The loop of _extract_from_text over what the model detected, without repetitions.
Extracted(text, said, anchored, offset, fallback) ==
  LET add(done, expression) ==
        LET place == Locate(text, expression, done.cursor)
            span  == <<place, Lower(expression)>>
            after == [done EXCEPT !.cursor = place + Len(expression), !.seen = @ \cup {span}]
            put(entry) == [after EXCEPT !.entries = Append(@, entry)]
            here  == offset + place
        IN  CASE place = 0 -> done
              [] span \in done.seen -> [done EXCEPT !.cursor = place + Len(expression)]
              [] OTHER ->
                   IF Classify(expression) = "none" THEN after
                   ELSE IF Classify(expression) = "relative" /\ ~anchored
                   THEN put(Entry(expression, here, NoDate, "missing_anchor", "unresolved"))
                   ELSE IF Parsed(expression) # NoDate
                   THEN put(Entry(expression, here, Parsed(expression), NoReason, "dateparser"))
                   ELSE [put(Unparsed(expression, here, done.consumed, fallback))
                           EXCEPT !.consumed = IF Asks(@) THEN @ + 1 ELSE @]
      distinct == FoldLeft(LAMBDA out, e : IF Contains(out, e) THEN out ELSE Append(out, e),
                           <<>>, said)
  IN  FoldLeft(add, [entries |-> <<>>, seen |-> {}, cursor |-> 1, consumed |-> 0], distinct)

-----------------------------------------------------------------------------
(* All chunks *)

\* The part of a chunk that is looked for.
Opening(chunk) == IF Len(chunk) > HeadLength THEN SubSeq(chunk, 1, HeadLength) ELSE chunk

\* _chunk_offsets: each chunk is looked for behind the one before.
Offsets(text, chunks) ==
  LET add(done, chunk) ==
        LET place == Find(text, Opening(chunk), done.cursor)
            here  == IF place = 0 THEN done.cursor ELSE place
        IN  [offsets |-> Append(done.offsets, here - 1), cursor |-> here + Len(chunk)]
  IN  FoldLeft(add, [offsets |-> <<>>, cursor |-> 1], chunks).offsets

EndOf(e) == e.offset + Len(e.raw)

SameDate(e, k) == e.date # NoDate /\ k.date = e.date
SameSpan(e, k) == k.offset = e.offset /\ Lower(k.raw) = Lower(e.raw)
SpansOverlap(e, k)  == k.offset < EndOf(e) /\ e.offset < EndOf(k)

\* Mutant of Duplicate: entries without a date are duplicates of each other.
DuplicateIfEqual(e, k) ==
  SameSpan(e, k) \/ (k.date = e.date /\ (Lower(k.raw) = Lower(e.raw) \/ SpansOverlap(e, k)))

Duplicate(e, k) ==
  SameSpan(e, k) \/ (SameDate(e, k) /\ (Lower(k.raw) = Lower(e.raw) \/ SpansOverlap(e, k)))

\* Dates compare as their text does, and one that is missing comes last.
Rank(date) == CASE date = "ago" -> 1 [] date = "asked" -> 2 [] date = "day" -> 3
                [] date = "range" -> 4 [] OTHER -> 5

\* _dedupe_and_sort; the sorts are stable.
DedupeAndSort(entries) ==
  LET earlier(e, k) == e.offset < k.offset \/ (e.offset = k.offset /\ Len(e.raw) < Len(k.raw))
      sooner(e, k)  == Rank(e.date) < Rank(k.date)
                       \/ (Rank(e.date) = Rank(k.date) /\ e.offset < k.offset)
      sorted(es, Less(_, _)) ==
        LET before(i) == {j \in DOMAIN es : Less(es[j], es[i]) \/ (~Less(es[i], es[j]) /\ j < i)}
        IN  [n \in DOMAIN es |->
               es[CHOOSE i \in DOMAIN es : n = 1 + Cardinality(before(i))]]
      keep(kept, e) == IF \E i \in DOMAIN kept : Duplicate(e, kept[i]) THEN kept ELSE Append(kept, e)
  IN  sorted(FoldLeft(keep, <<>>, sorted(entries, earlier)), sooner)

\* The leaves with the offsets of their chunks, and _reduce.
ChunkEntries(text, chunks, said, anchored, fallback) ==
  LET offsets == Offsets(text, chunks)
  IN  [i \in DOMAIN chunks |->
         Extracted(chunks[i], said, anchored, offsets[i], fallback).entries]

-----------------------------------------------------------------------------
IsIn(text, e) == Find(Lower(text), Lower(e.raw), e.offset) = e.offset

\* The entries of one chunk, and the calls made for them.
Exact(all, consumed, text, said) ==
  LET Asked(e) == e.resolver = "llm" \/ e.reason = "ambiguous"
  IN  /\ \A i \in DOMAIN all :
           /\ IsIn(text, all[i])
           /\ (all[i].date = NoDate) = (all[i].reason # NoReason)
           /\ \A j \in DOMAIN all : SameSpan(all[i], all[j]) => i = j
      /\ \A i \in DOMAIN said :
           Classify(said[i]) # "none" /\ Find(Lower(text), Lower(said[i]), 1) # 0 =>
             \E k \in DOMAIN all : Lower(all[k].raw) = Lower(said[i])
      /\ Cardinality({k \in DOMAIN all : Asked(all[k])}) <= consumed
      /\ consumed <= MaxFallbacks

\* What is extracted is in the text where the entry says, once; each expression
\* that is a date and occurs in the text has an entry; an entry has a date or a
\* reason why not; and the model is not asked more often than the budget allows.
ExtractionIsExact(text, said, anchored, fallback) ==
  LET ExactOf(done) == Exact(done.entries, done.consumed, text, said)
  IN  ExactOf(Extracted(text, said, anchored, 0, fallback))

Merged(kept, all, text, whole) ==
  /\ ToSet(kept) \subseteq ToSet(all)
  /\ \A i \in DOMAIN all : \E k \in DOMAIN kept :
       /\ kept[k] = all[i] \/ Duplicate(all[i], kept[k])
       /\ kept[k].offset <= all[i].offset
  /\ \A i, k \in DOMAIN kept : i < k =>
       /\ ~Duplicate(kept[i], kept[k])
       /\ Rank(kept[i].date) <= Rank(kept[k].date)
       /\ Rank(kept[i].date) = Rank(kept[k].date) => kept[i].offset <= kept[k].offset
  /\ \A i \in DOMAIN all : all[i].date = NoDate =>
       \E k \in DOMAIN kept : SameSpan(all[i], kept[k])
  /\ whole => \A k \in DOMAIN kept : IsIn(text, kept[k])

\* The merged list of all chunks: an entry left out has a duplicate that is left,
\* no later in the document; no two that are left are duplicates; an undated
\* mention is never taken for another one; dates come in order, undated entries
\* last; and, if the chunks are the whole text, each entry is where its offset says.
MergedDatesAreDistinct(text, chunks, said, anchored, fallback) ==
  LET MergedOf(all) == Merged(DedupeAndSort(all), all, text, FlattenSeq(chunks) = text)
  IN  MergedOf(FlattenSeq(ChunkEntries(text, chunks, said, anchored, fallback)))
=============================================================================
