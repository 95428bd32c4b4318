----------------------------- MODULE VoiceSession -----------------------------
(***************************************************************************)
(* One connection of the live transcription worker (voice/live_worker.py):      *)
(* audio is collected, transcribed again from its start every quarter of a      *)
(* window, and a last time when the client says stop.                           *)
(*                                                                         *)
(* Audio comes in frames of equal size; a text is the sequence of the           *)
(* transcripts it was put together from, each the number of frames it covers.   *)
(***************************************************************************)
EXTENDS Naturals, Sequences, SequencesExt

CONSTANTS Quarter,    \* frames in a quarter of the window
          MaxFrames   \* bound on the frames a client sends

VoiceSessionAssumption == Quarter \in Nat \ {0} /\ MaxFrames \in Nat

VARIABLES inbox,    \* messages the websocket holds while the handler waits
          sent,     \* frames the client has sent
          buffer, sinceLastRun, stableText, windowText,   \* the Session
          running,  \* what _run_inference was given: frames, and whether it is final
          partials, \* the texts sent so far
          final,    \* the text sent as final
          open      \* the handler reads on

sessionVars == <<inbox, sent, buffer, sinceLastRun, stableText, windowText,
                 running, partials, final, open>>

NoRun   == [frames |-> 0, isFinal |-> FALSE]
NoText  == <<>>
Nothing == <<0>>   \* Python's None: no final text yet, or nothing decoded

Init ==
  /\ inbox = <<>> /\ sent = 0
  /\ buffer = 0 /\ sinceLastRun = 0
  /\ stableText = NoText /\ windowText = NoText
  /\ running = NoRun
  /\ partials = {} /\ final = Nothing
  /\ open = TRUE

accumulatedText == stableText \o windowText

\* The client sends audio, nonsense, and at last stop or cancel, or goes away.
ClientSends ==
  /\ open
  /\ ~ \E kind \in {"stop", "cancel", "close"} : Contains(inbox, kind)
  /\ \/ /\ sent < MaxFrames
        /\ sent' = sent + 1
        /\ inbox' = Append(inbox, "audio")
     \/ /\ Len(inbox) < 2
        /\ \E kind \in {"nonsense", "stop", "cancel", "close"} : inbox' = Append(inbox, kind)
        /\ UNCHANGED sent
  /\ UNCHANGED <<buffer, sinceLastRun, stableText, windowText, running, partials, final, open>>

Reads(kind) == open /\ running = NoRun /\ inbox # <<>> /\ Head(inbox) = kind /\ inbox' = Tail(inbox)

ReadAudio ==
  /\ Reads("audio")
  /\ buffer' = buffer + 1
  /\ IF sinceLastRun + 1 >= Quarter
     THEN sinceLastRun' = 0 /\ running' = [frames |-> buffer + 1, isFinal |-> FALSE]
     ELSE sinceLastRun' = sinceLastRun + 1 /\ UNCHANGED running
  /\ UNCHANGED <<sent, stableText, windowText, partials, final, open>>

\* Without audio the final text is what there is; with audio it is transcribed.
ReadStop ==
  /\ Reads("stop")
  /\ IF buffer = 0
     THEN final' = accumulatedText /\ open' = FALSE /\ UNCHANGED running
     ELSE running' = [frames |-> buffer, isFinal |-> TRUE] /\ UNCHANGED <<final, open>>
  /\ UNCHANGED <<sent, buffer, sinceLastRun, stableText, windowText, partials>>

ReadCancel ==
  /\ Reads("cancel")
  /\ buffer' = 0
  /\ open' = FALSE
  /\ UNCHANGED <<sent, sinceLastRun, stableText, windowText, running, partials, final>>

\* An unknown control message is answered with an error and the handler reads on.
ReadNonsense ==
  /\ Reads("nonsense")
  /\ UNCHANGED <<sent, buffer, sinceLastRun, stableText, windowText, running, partials, final, open>>

\* Mutant of Folded: a partial transcript becomes stable at once.
FoldedEarly(text) == stableText' = stableText \o text /\ windowText' = NoText

\* A later transcript starts from the first frame again: it replaces the window.
Folded(text) ==
  IF running.isFinal
  THEN stableText' = stableText \o text /\ windowText' = NoText
  ELSE windowText' = text /\ UNCHANGED stableText

Emit(text) ==
  IF running.isFinal
  THEN final' = text /\ open' = FALSE /\ UNCHANGED partials
  ELSE partials' = partials \cup {text} /\ UNCHANGED <<final, open>>

\* Speech, or silence, which is an empty text.
Transcribed ==
  /\ running # NoRun
  /\ \E text \in {<<running.frames>>, NoText} : Folded(text)
  /\ Emit(stableText' \o windowText')
  /\ running' = NoRun
  /\ UNCHANGED <<inbox, sent, buffer, sinceLastRun>>

\* ffmpeg cannot decode what has come so far: no partial is sent, and the final
\* text is the one from before.
NotDecoded ==
  /\ running # NoRun
  /\ IF running.isFinal THEN Emit(accumulatedText) ELSE UNCHANGED <<partials, final, open>>
  /\ running' = NoRun
  /\ UNCHANGED <<inbox, sent, buffer, sinceLastRun, stableText, windowText>>

\* An exception, or the client has gone: no final text.
Disconnects ==
  /\ \/ Reads("close")
     \/ running # NoRun /\ UNCHANGED inbox
  /\ open' = FALSE
  /\ running' = NoRun
  /\ UNCHANGED <<sent, buffer, sinceLastRun, stableText, windowText, partials, final>>

SessionStep ==
  \/ ClientSends \/ ReadAudio \/ ReadStop \/ ReadCancel \/ ReadNonsense
  \/ Transcribed \/ NotDecoded \/ Disconnects

Spec == Init /\ [][SessionStep]_sessionVars

-----------------------------------------------------------------------------
TypeOK ==
  /\ inbox \in Seq({"audio", "nonsense", "stop", "cancel", "close"})
  /\ {sent, buffer} \subseteq 0 .. MaxFrames
  /\ sinceLastRun \in 0 .. Quarter - 1
  /\ {stableText, windowText, final} \subseteq Seq(0 .. MaxFrames)
  /\ running \in [frames : 0 .. MaxFrames, isFinal : BOOLEAN]
  /\ partials \subseteq Seq(0 .. MaxFrames)
  /\ open \in BOOLEAN

\* No text the client sees repeats audio: every one is the transcript of one
\* stretch from the first frame.  The final one covers all frames read before the
\* stop, unless they cannot be decoded or are silent; then it is one of the
\* partial texts, or empty.
TextsDoNotRepeat ==
  /\ \A text \in partials \cup {final} : Len(text) <= 1
  /\ final \notin {Nothing, NoText, <<buffer>>} => final \in partials
=============================================================================
