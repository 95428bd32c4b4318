------------------------------- MODULE Chunking -------------------------------
(***************************************************************************)
(* How a document is cut into chunks (lib/llm/text.py, services/text.py).       *)
(*                                                                         *)
(* A text is a sequence of words, each with the separator that follows it: 1 for   *)
(* the end of a paragraph, 2 of a line, 3 of a sentence, 4 for a space and 5 for a  *)
(* tab.  A document has the blocks of its lines and, if it is taken for HTML, the  *)
(* elements the parser finds in it, each with all of the text inside it, and the   *)
(* text outside of them; a bare link <https://...> is a tag and in neither.       *)
(***************************************************************************)
EXTENDS Naturals, Sequences, SequencesExt, FiniteSetsExt

CONSTANT MinFallback   \* the 50 words of max_words_fallback

ChunkingAssumption == MinFallback \in Nat \ {0}

\* str.split at one separator; no part is empty.
PartsAt(text, sep) ==
  LET step(parts, i) ==
        IF i > 1 /\ text[i - 1].sep = sep
        THEN Append(parts, <<text[i]>>)
        ELSE [parts EXCEPT ![Len(parts)] = Append(@, text[i])]
  IN  FoldLeft(step, << <<>> >>, [i \in 1 .. Len(text) |-> i])

\* One round of _recursive_split: what is still too large is cut at one separator.  A
\* part has no separator inside that is stronger than the one it was cut at, so that
\* calling _recursive_split on it goes on with the next one.
CutAt(parts, sep, maxWords) ==
  FlattenSeq([i \in DOMAIN parts |->
    IF Len(parts[i]) <= maxWords THEN <<parts[i]>> ELSE PartsAt(parts[i], sep)])

\* _hard_word_split
HardWordSplit(text, step) ==
  [i \in 1 .. (Len(text) + step - 1) \div step |->
     SubSeq(text, (i - 1) * step + 1, IF i * step < Len(text) THEN i * step ELSE Len(text))]

CutHard(parts, maxWords) ==
  FlattenSeq([i \in DOMAIN parts |-> HardWordSplit(parts[i], maxWords)])

\* _recursive_split: paragraphs, then lines, sentences and words, at last anywhere.
RecursiveSplit(text, maxWords) ==
  CutHard(CutAt(CutAt(CutAt(CutAt(<<text>>, 1, maxWords), 2, maxWords), 3, maxWords), 4, maxWords),
          maxWords)

\* Mutant of Closed: what has been collected is dropped.
ClosedWithout(packed) == packed.chunks

\* The chunks, with what has been collected since the last one.
Closed(packed) ==
  IF packed.current = <<>> THEN packed.chunks ELSE Append(packed.chunks, packed.current)

\* The greedy loop of chunk_units; `pieces` is what a unit that is too large is split into.
Packed(units, maxSize, pieces) ==
  LET add(packed, i) ==
        IF Len(units[i]) > maxSize
        THEN [chunks |-> Closed(packed) \o pieces[i], current |-> <<>>]
        ELSE IF Len(packed.current) + Len(units[i]) > maxSize
        THEN [chunks |-> Closed(packed), current |-> units[i]]
        ELSE [packed EXCEPT !.current = @ \o units[i]]
  IN  Closed(FoldLeft(add, [chunks |-> <<>>, current |-> <<>>], [i \in DOMAIN units |-> i]))

Fallback(maxSize) == IF maxSize > MinFallback THEN maxSize ELSE MinFallback

SplitOversized(text, maxSize) ==
  LET fallback == Fallback(maxSize)
      split    == RecursiveSplit(text, fallback)
  IN  Packed(split, maxSize, [i \in DOMAIN split |-> HardWordSplit(split[i], fallback)])

ChunkUnits(units, maxSize) ==
  Packed(units, maxSize, [i \in DOMAIN units |-> SplitOversized(units[i], maxSize)])

Headed(blocks) == \E i \in DOMAIN blocks : blocks[i].heading

\* A heading begins a section that ends before the next one; without a heading every
\* block is a unit.
Grouped(blocks) ==
  LET step(units, block) ==
        IF units = <<>> \/ block.heading
        THEN Append(units, block.text)
        ELSE [units EXCEPT ![Len(units)] = @ \o block.text]
  IN  IF Headed(blocks)
      THEN FoldLeft(step, <<>>, blocks)
      ELSE [i \in DOMAIN blocks |-> blocks[i].text]

\* All white space becomes a space.
Space(word) == [word EXCEPT !.sep = IF @ = 3 THEN 3 ELSE 4]
Spaced(text) == [i \in DOMAIN text |-> Space(text[i])]

Headings   == {"h1", "h2", "h3", "h4", "h5", "h6"}
Paragraphs == {"p", "li", "blockquote", "pre"}
BlockTags  == <<"p", "div", "h1", "h2", "h3", "h4", "h5", "h6", "li", "td", "th", "blockquote",
                "pre", "section", "article", "header", "footer", "main", "aside">>

\* The headings and paragraphs, in the order of the document.
AsBlock(e) ==
  IF e.text # <<>> /\ e.tag \in Headings \cup Paragraphs
  THEN <<[heading |-> e.tag \in Headings, text |-> Spaced(e.text)]>> ELSE <<>>
Ordered(doc) == FlattenSeq([i \in DOMAIN doc.elements |-> AsBlock(doc.elements[i])])

\* clean_html_text: the texts of the elements, tag by tag, and then what is outside.
AsText(text) == IF text # <<>> THEN <<Spaced(text)>> ELSE <<>>
TextsOfTag(doc, tag) ==
  FlattenSeq([i \in DOMAIN doc.elements |->
    IF doc.elements[i].tag = tag THEN AsText(doc.elements[i].text) ELSE <<>>])
Cleaned(doc) ==
  FlattenSeq([k \in DOMAIN BlockTags |-> TextsOfTag(doc, BlockTags[k])]) \o AsText(doc.loose)

\* extract_section_units
SectionUnits(doc) ==
  IF doc.tagged /\ Headed(Ordered(doc)) THEN Grouped(Ordered(doc))
  ELSE IF doc.tagged /\ Cleaned(doc) # <<>> THEN Cleaned(doc)
  ELSE Grouped(doc.blocks)

\* Mutant of Overlap: one word more is repeated.
OverlapOneMore(words, overlapWords) ==
  IF overlapWords > 0 /\ Len(words) > overlapWords + 1
  THEN SubSeq(words, Len(words) - overlapWords, Len(words)) ELSE <<>>

\* The words of a chunk that begin the next one: none if it has no more than these.
Overlap(words, overlapWords) ==
  IF overlapWords > 0 /\ Len(words) > overlapWords
  THEN SubSeq(words, Len(words) - overlapWords + 1, Len(words)) ELSE <<>>

\* semantic_chunk_text
SemanticChunks(text, target, maxWords, overlapWords) ==
  LET add(packed, segment) ==
        IF Len(packed.current) + Len(segment) > target /\ packed.current # <<>>
        THEN [chunks |-> Append(packed.chunks, packed.current),
              current |-> Overlap(packed.current, overlapWords) \o segment]
        ELSE [packed EXCEPT !.current = @ \o segment]
  IN  IF text = <<>> THEN <<>>
      ELSE IF Len(text) <= maxWords THEN <<text>>
      ELSE Closed(FoldLeft(add, [chunks |-> <<>>, current |-> <<>>],
                           RecursiveSplit(text, maxWords)))

-----------------------------------------------------------------------------
Larger(m, n) == IF m > n THEN m ELSE n
Words(blocks) == FlattenSeq([i \in DOMAIN blocks |-> blocks[i].text])

\* Every word of the units is in one chunk, in its order; no chunk is larger than
\* `largest`, and a unit that is not too large is not cut.
Holding(units, chunks, maxSize, largest) ==
  /\ FlattenSeq(chunks) = FlattenSeq(units)
  /\ \A i \in DOMAIN chunks : Len(chunks[i]) \in 1 .. largest
  /\ \A i \in DOMAIN units : Len(units[i]) <= maxSize =>
       \E k \in DOMAIN chunks : \E a, b \in DOMAIN chunks[k] :
         SubSeq(chunks[k], a, b) = units[i]

\* What is read of a document: all words in their order if it is not taken for HTML;
\* the headings and paragraphs if it is and has a heading; every element and what is
\* outside of them, in some order and more than once if they are nested, if it has none.
UnitsHoldTheText(doc, units) ==
  /\ ~doc.tagged => FlattenSeq(units) = Words(doc.blocks)
  /\ doc.tagged /\ Headed(Ordered(doc)) => FlattenSeq(units) = Words(Ordered(doc))
  /\ doc.tagged /\ ~Headed(Ordered(doc)) =>
       /\ \A i \in DOMAIN doc.elements :
            doc.elements[i].text # <<>> /\ doc.elements[i].tag \in ToSet(BlockTags) =>
              \E j \in DOMAIN units : units[j] = Spaced(doc.elements[i].text)
       /\ doc.loose # <<>> => \E j \in DOMAIN units : units[j] = Spaced(doc.loose)

\* Chunks of units: what is read of a document is in its units, and every word of the
\* units in one chunk, in its order; no chunk is larger than the budget, or than the
\* fallback for a budget below it.
UnitsAreKept(doc, maxSize) ==
  /\ UnitsHoldTheText(doc, SectionUnits(doc))
  /\ Holding(SectionUnits(doc), ChunkUnits(SectionUnits(doc), maxSize), maxSize, Fallback(maxSize))

\* The chunks are stretches of the text; each begins with at most so many words of
\* the one before and goes on where that ended.
Covers(chunks, text, largest, overlapWords) ==
  LET At(w) == CHOOSE i \in DOMAIN text : text[i] = w
  IN  /\ chunks # <<>>
      /\ At(Head(chunks[1])) = 1 /\ At(Last(Last(chunks))) = Len(text)
      /\ \A k \in DOMAIN chunks :
           /\ chunks[k] = SubSeq(text, At(Head(chunks[k])), At(Last(chunks[k])))
           /\ Len(chunks[k]) <= largest
      /\ \A k \in 2 .. Len(chunks) :
           At(Last(chunks[k - 1])) + 1 - At(Head(chunks[k])) \in 0 .. overlapWords

\* Overlapping chunks cover the text and repeat no more than they are asked to; a
\* segment with its overlap or the target bounds their size.
OverlapIsBounded(text, target, maxWords, overlapWords) ==
  text # <<>> =>
    Covers(SemanticChunks(text, target, maxWords, overlapWords), text,
           Larger(Larger(target, maxWords), overlapWords + maxWords), overlapWords)
=============================================================================
