----------------------------- MODULE Translation -----------------------------
(***************************************************************************)
(* The translate task (tasks/translate): long items are cut into pieces, the     *)
(* pieces of all items are translated in batches, and every item is put together  *)
(* again.  Texts are those of Chunking.                                          *)
(***************************************************************************)
EXTENDS Naturals, Sequences, SequencesExt, Chunking

CONSTANT Silent   \* words the model has no translation for

\* The translation model: a list of texts in, the list of their translations out.
TranslatedWord(w) == [translated |-> w.id]
ModelOutput(texts) ==
  LET said(w) == IF w.id \in Silent THEN <<>> ELSE <<TranslatedWord(w)>>
  IN  [i \in DOMAIN texts |-> FlattenSeq([k \in DOMAIN texts[i] |-> said(texts[i][k])])]

\* _split_long_item
SplitLongItem(item, maxWords) ==
  IF Len(item) <= maxWords THEN <<item>> ELSE ChunkUnits(<<item>>, maxWords)

\* The pieces of all items, each with the item it is from.
FlatPieces(items, maxWords) ==
  FlattenSeq([i \in DOMAIN items |->
    LET pieces == SplitLongItem(items[i], maxWords)
    IN  [k \in DOMAIN pieces |-> [item |-> i, text |-> pieces[k]]]])

\* Where the pieces that are not empty are.
NonEmpty(pieces) ==
  FlattenSeq([i \in DOMAIN pieces |-> IF pieces[i].text = <<>> THEN <<>> ELSE <<i>>])

\* Mutant of Put: the place is counted from the start of the batch.
PutAtStart(translations, batch, start, output) ==
  [i \in DOMAIN translations |->
     IF i - start \in DOMAIN output THEN output[i - start] ELSE translations[i]]

\* The output for a batch goes where the pieces of the batch came from.
Put(translations, batch, start, output) ==
  [i \in DOMAIN translations |->
     IF Contains(batch, i) THEN output[CHOOSE j \in DOMAIN batch : batch[j] = i]
     ELSE translations[i]]

Translated(pieces, places, batchSize) ==
  LET starts == [n \in 1 .. (Len(places) + batchSize - 1) \div batchSize |-> (n - 1) * batchSize]
      texts(batch) == [j \in DOMAIN batch |-> pieces[batch[j]].text]
      step(translations, start) ==
        LET end   == IF start + batchSize < Len(places) THEN start + batchSize ELSE Len(places)
            batch == SubSeq(places, start + 1, end)
        IN  Put(translations, batch, start, ModelOutput(texts(batch)))
  IN  FoldLeft(step, [i \in DOMAIN pieces |-> <<>>], starts)

\* Every item gets the translations of its pieces, in their order.
Reassemble(items, pieces, translations) ==
  [i \in DOMAIN items |->
     FlattenSeq([p \in DOMAIN pieces |-> IF pieces[p].item = i THEN translations[p] ELSE <<>>])]

Translate(items, maxWords, batchSize) ==
  LET pieces == FlatPieces(items, maxWords)
  IN  Reassemble(items, pieces, Translated(pieces, NonEmpty(pieces), batchSize))

-----------------------------------------------------------------------------
\* Every item gets its own translation, word for word and in order, however it is
\* cut, whatever its neighbours are and however the pieces fall into batches.
ItemsKeepTheirTranslation(items, maxWords, batchSize) ==
  Translate(items, maxWords, batchSize) = ModelOutput(items)
=============================================================================
