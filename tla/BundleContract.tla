---------------------------- MODULE BundleContract ----------------------------
(***************************************************************************)
(* What validate_bundle_invariants (contracts/execution/v1/validate.py) asks of   *)
(* the order of an exported log.  An event is its sequence, its id, the id of the  *)
(* event that caused it, the number its producer gave it, and whether it is a       *)
(* change to a terminal status.  Hashes, artifacts, schemas and operations are left  *)
(* out.                                                                           *)
(***************************************************************************)
EXTENDS Naturals, Sequences

NoCause == 0

\* "events are not in a contiguous canonical sequence matching eventRange"
InSequence(events, first) ==
  \A i \in DOMAIN events : events[i].sequence = first + i - 1

\* "duplicate eventId", "cause is missing or does not precede the event"
CausesPrecede(events) ==
  \A i \in DOMAIN events :
    /\ \A j \in 1 .. i - 1 : events[j].eventId # events[i].eventId
    /\ events[i].cause # NoCause => \E j \in 1 .. i - 1 : events[j].eventId = events[i].cause

\* "producerSequence is not strictly monotonic", counted from 0
ProducersAscend(events) ==
  \A i \in DOMAIN events :
    /\ events[i].producerSequence > 0
    /\ \A j \in 1 .. i - 1 :
         events[j].producer = events[i].producer
           => events[j].producerSequence < events[i].producerSequence

\* What is asked of the events one after the other.
InOrder(events, first) ==
  InSequence(events, first) /\ CausesPrecede(events) /\ ProducersAscend(events)

\* "bundle must end in exactly one terminal execution state"
EndsOnce(events) ==
  /\ events # <<>>
  /\ \A i \in DOMAIN events : events[i].terminal <=> i = Len(events)
=============================================================================
