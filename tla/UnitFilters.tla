----------------------------- MODULE UnitFilters -----------------------------
(***************************************************************************)
(* What is dropped from a document before it is cut into chunks                 *)
(* (lib/llm/unit_filters.py, lib/llm/relevance.py, services/relevance.py).      *)
(*                                                                         *)
(* A unit is its place in the document, its text, which another unit may        *)
(* repeat, and the filters that find fault with its form.  A reply of the        *)
(* model to one batch is the list of places to keep, or cannot be used.         *)
(***************************************************************************)
EXTENDS Naturals, Sequences, SequencesExt

CONSTANT BatchSize   \* relevance_batch_size

UnitFiltersAssumption == BatchSize \in Nat \ {0}

FormFilter == {"min_length", "bullet_lines", "link_density", "symbol_ratio", "relevance"}
Registry   == FormFilter \cup {"dedup", "relevance_llm"}
Bundles    == [basic |-> <<"dedup", "min_length", "bullet_lines">>,
               web   |-> <<"dedup", "min_length", "bullet_lines", "link_density", "symbol_ratio">>]

\* _resolve: bundles are expanded, unknown names and repetitions are skipped.
Resolve(names) ==
  LET expanded(name) == IF name \in DOMAIN Bundles THEN Bundles[name] ELSE <<name>>
      step(resolved, name) ==
        IF name \in Registry /\ ~Contains(resolved, name) THEN Append(resolved, name) ELSE resolved
  IN  FoldLeft(step, <<>>, FlattenSeq([i \in DOMAIN names |-> expanded(names[i])]))

\* The elements of a sequence at the given places, in their order.
At(units, places) ==
  LET step(out, i) == IF i \in places THEN Append(out, units[i]) ELSE out
  IN  FoldLeft(step, <<>>, [i \in DOMAIN units |-> i])

\* _dedup
FirstOnes(units) ==
  {i \in DOMAIN units : \A j \in 1 .. i - 1 : units[j].text # units[i].text}

\* _min_length to _symbol_ratio, and _heuristic_keep_indices
InForm(units, filter) == {i \in DOMAIN units : filter \notin units[i].faults}

\* heuristic_relevance
Heuristic(units) ==
  LET keep == InForm(units, "relevance")
  IN  IF Len(units) < 2 \/ keep = {} THEN units ELSE At(units, keep)

\* Mutant of Accepted: a batch whose call failed is dropped.
AcceptedIfAnswered(count, replies) ==
  {i \in 1 .. count : LET reply == replies[(i - 1) \div BatchSize + 1] IN
                        reply.usable /\ i \in reply.keep}

\* The batches: one whose call failed or whose reply cannot be parsed is kept.
Accepted(count, replies) ==
  {i \in 1 .. count : LET reply == replies[(i - 1) \div BatchSize + 1] IN
                        reply.usable => i \in reply.keep}

\* The model may not reject everything.
Judged(units, replies) ==
  LET accepted == Accepted(Len(units), replies)
  IN  IF accepted = {} THEN units ELSE At(units, accepted)

\* llm_relevance
LlmRelevance(units, replies) == IF Len(units) < 2 THEN units ELSE Judged(units, replies)

Apply(filter, units, replies) ==
  CASE filter = "dedup"         -> At(units, FirstOnes(units))
    [] filter = "relevance"     -> Heuristic(units)
    [] filter = "relevance_llm" -> LlmRelevance(units, replies)
    [] OTHER                    -> At(units, InForm(units, filter))

\* Mutant of OrInput: a filter may leave nothing.
OrNothing(filtered, units) == filtered

\* `filt.apply(units, ctx) or units`
OrInput(filtered, units) == IF filtered = <<>> THEN units ELSE filtered

\* The callable build_units_filter returns.
Filtered(names, units, replies) ==
  LET step(left, filter) == OrInput(Apply(filter, left, replies), left)
  IN  FoldLeft(step, units, Resolve(names))

\* select_relevant_units: the headings first, then the model on what is left.
SelectRelevant(units, replies) ==
  LET keep == InForm(units, "relevance")
  IN  IF Len(units) < 2 \/ keep = {} THEN units ELSE Judged(At(units, keep), replies)

-----------------------------------------------------------------------------
InOrder(filtered, units) ==
  /\ \A i, j \in DOMAIN filtered : i < j => filtered[i].place < filtered[j].place
  /\ ToSet(filtered) \subseteq ToSet(units)

\* Whatever filters are named, twice or wrongly, something of the document is left
\* and in its order; a unit whose form no named filter objects to is left, but
\* for a repetition of an earlier one; one with a fault is left only if all that are left have
\* that fault; and no text is left twice.
FiltersFailOpen(names, units, replies) ==
  LET filtered == Filtered(names, units, replies)
      named    == ToSet(Resolve(names))
      spotless(u) == u.faults \cap named = {}
  IN  units # <<>> =>
      /\ filtered # <<>> /\ InOrder(filtered, units)
      /\ "relevance_llm" \notin named =>
           \A i \in DOMAIN units : spotless(units[i]) =>
             \/ units[i] \in ToSet(filtered)
             \/ "dedup" \in named /\ i \notin FirstOnes(units)
      /\ \A u \in ToSet(filtered) : \A fault \in u.faults \cap named :
           \A v \in ToSet(filtered) : fault \in v.faults
      /\ "dedup" \in named =>
           \A u, v \in ToSet(filtered) : u.text = v.text => u = v

\* The model only drops what it was shown and did not name: a unit survives if its
\* batch got no usable reply, and all survive if the model rejects them all.
ModelDropsOnlyWhatItSaw(units, replies) ==
  LET headed   == At(units, InForm(units, "relevance"))
      selected == SelectRelevant(units, replies)
      dropped  == ToSet(headed) \ ToSet(selected)
  IN  Len(units) >= 2 /\ headed # <<>> =>
      /\ selected # <<>> /\ InOrder(selected, headed)
      /\ \A i \in DOMAIN headed : headed[i] \in dropped =>
           LET reply == replies[(i - 1) \div BatchSize + 1]
           IN  reply.usable /\ i \notin reply.keep
=============================================================================
