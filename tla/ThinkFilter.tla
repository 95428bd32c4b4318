----------------------------- MODULE ThinkFilter -----------------------------
(***************************************************************************)
(* The filter that hides <think> ... </think> from the text streamed to the     *)
(* user (lib/backend/stream.py).  The model's text arrives in pieces cut          *)
(* anywhere; an action is one round of the loop of feed.                          *)
(*                                                                         *)
(* A tag is two symbols, "<" and the rest of it, so that a piece may end inside   *)
(* a tag; every other character is "x".  A symbol carries its place in the reply.  *)
(***************************************************************************)
EXTENDS Naturals, Sequences, SequencesExt

CONSTANTS MaxLength,   \* bound on the text
          MaxPiece     \* bound on the symbols of a piece

ThinkFilterAssumption == MaxLength \in Nat /\ MaxPiece \in Nat \ {0}

VARIABLES raw,       \* raw_parts: all that has come
          visible,   \* all that feed has let through
          inThink, heldBack,   \* _in_think and _pending
          feeding, buf,        \* feed runs, and what it still has to look at
          cutAt      \* where a piece ended after a "<"

thinkVars == <<raw, visible, inThink, heldBack, feeding, buf, cutAt>>

Kind   == {"x", "<", "think>", "/think>"}
Symbol == [at : 1 .. MaxLength, is : Kind]

Init ==
  /\ raw = <<>> /\ visible = <<>> /\ inThink = FALSE /\ heldBack = <<>>
  /\ feeding = FALSE /\ buf = <<>> /\ cutAt = {}

Begins(tag, text, i) ==
  i \in 1 .. Len(text) - 1 /\ text[i].is = "<" /\ text[i + 1].is = tag

\* str.find: the first tag begins at i.
Found(tag, text, i) == Begins(tag, text, i) /\ \A j \in 1 .. i - 1 : ~Begins(tag, text, j)
Missing(tag, text)  == \A i \in DOMAIN text : ~Begins(tag, text, i)

Before(text, i) == SubSeq(text, 1, i - 1)
After(text, i)  == SubSeq(text, i + 2, Len(text))
EndsInside(text) == Last(text).is = "<"

\* Mutant of Buffered: what was held back is forgotten.
BufferedPiece(piece) == piece

Buffered(piece) == heldBack \o piece

Feed(kinds) ==
  LET piece == [i \in DOMAIN kinds |-> [at |-> Len(raw) + i, is |-> kinds[i]]] IN
    /\ ~feeding
    /\ Len(raw) + Len(piece) <= MaxLength
    /\ feeding' = TRUE
    /\ raw' = raw \o piece
    /\ buf' = Buffered(piece)
    /\ cutAt' = cutAt \cup {i \in {Len(raw) + Len(piece)} : EndsInside(piece)}
    /\ UNCHANGED <<visible, inThink, heldBack>>

\* Inside a block everything up to the closing tag is dropped, half a tag at the end
\* too.
LeavesBlock ==
  /\ feeding /\ inThink
  /\ \E i \in DOMAIN buf : Found("/think>", buf, i) /\ buf' = After(buf, i)
  /\ inThink' = FALSE
  /\ UNCHANGED <<raw, visible, heldBack, feeding, cutAt>>

StaysInBlock ==
  /\ feeding /\ inThink /\ buf # <<>>
  /\ Missing("/think>", buf)
  /\ buf' = <<>>
  /\ UNCHANGED <<raw, visible, inThink, heldBack, feeding, cutAt>>

EntersBlock ==
  /\ feeding /\ ~inThink
  /\ \E i \in DOMAIN buf :
       /\ Found("think>", buf, i)
       /\ visible' = visible \o Before(buf, i)
       /\ buf' = After(buf, i)
  /\ inThink' = TRUE
  /\ UNCHANGED <<raw, heldBack, feeding, cutAt>>

\* Outside a block the text is let through, but not what may begin an opening tag.
LetsThrough ==
  /\ feeding /\ ~inThink /\ buf # <<>>
  /\ Missing("think>", buf)
  /\ IF EndsInside(buf)
     THEN visible' = visible \o Front(buf) /\ heldBack' = <<Last(buf)>>
     ELSE visible' = visible \o buf /\ heldBack' = <<>>
  /\ buf' = <<>> /\ feeding' = FALSE
  /\ UNCHANGED <<raw, inThink, cutAt>>

\* The text was used up: the last lines of feed.
Returns ==
  /\ feeding /\ buf = <<>>
  /\ heldBack' = <<>> /\ feeding' = FALSE
  /\ UNCHANGED <<raw, visible, inThink, buf, cutAt>>

ThinkStep ==
  \/ \E n \in 1 .. MaxPiece : \E kinds \in [1 .. n -> Kind] : Feed(kinds)
  \/ LeavesBlock \/ StaysInBlock \/ EntersBlock \/ LetsThrough \/ Returns

Spec == Init /\ [][ThinkStep]_thinkVars

-----------------------------------------------------------------------------
TypeOK ==
  /\ {raw, visible, buf} \subseteq Seq(Symbol)
  /\ heldBack \in {<<>>} \cup {<<s>> : s \in {s \in Symbol : s.is = "<"}}
  /\ {inThink, feeding} \subseteq BOOLEAN
  /\ cutAt \subseteq 1 .. MaxLength

\* Place i is in a block: an opening tag comes before it and no closing tag in
\* between, of those that are not `lost`.
Inside(i, lost) ==
  \E o \in 1 .. i - 2 :
    /\ Begins("think>", raw, o)
    /\ \A c \in o + 2 .. i - 2 : Begins("/think>", raw, c) => c \in lost

InBlock(i, lost) ==
  Inside(i, lost) \/ Begins("think>", raw, i) \/ Begins("think>", raw, i - 1)

Shown(i) == \E k \in DOMAIN visible : visible[k] = raw[i]

\* However the text is cut, the user sees it in its order and never a word or a tag
\* of a block; once a piece has been looked at, nothing else is missing but half a
\* tag at the end, and what follows a closing tag that came in two pieces: it is not
\* recognised, and the text stays hidden up to the next one.
ShowsWhatIsOutside ==
  /\ \A j, k \in DOMAIN visible : j < k => visible[j].at < visible[k].at
  /\ \A k \in DOMAIN visible : \E i \in DOMAIN raw : visible[k] = raw[i] /\ ~InBlock(i, {})
  /\ ~feeding => \A i \in DOMAIN raw :
       Shown(i) \/ InBlock(i, cutAt) \/ heldBack = <<raw[i]>>
=============================================================================
