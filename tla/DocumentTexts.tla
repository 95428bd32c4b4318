---------------------------- MODULE DocumentTexts ----------------------------
(* What the workers make of the text of one document: it is cut into chunks, its units
   are filtered, and its dates are found. *)
EXTENDS Chunking, UnitFilters, Dates
=============================================================================
