----------------------------- MODULE IngestQueue ----------------------------
(***************************************************************************)
(* internal/ingest/queue.go: the bounded priority queue between the local  *)
(* transport and the event handler.  Offer and Pop hold the queue's lock,  *)
(* so each is one operator on the queued events.                           *)
(*                                                                         *)
(* A subject stands for the pair of path and session an event is about:    *)
(* the queue only ever compares both together.                             *)
(***************************************************************************)
EXTENDS Integers, SequencesExt

CONSTANT Capacity       \* Queue.capacity

ASSUME CapacityAssumption == Capacity \in Nat \ {0}    \* NewQueue raises it to 1

ReadTypes == {"file_read", "file_focused"}
HighTypes ==
    {"file_created", "file_modified", "file_patched", "file_renamed", "file_moved",
     "file_deleted", "directory_created", "directory_renamed", "directory_deleted",
     "session_started", "session_stopped"}

HighValue(e) == e.type \in HighTypes

\* A read or focus stands in for a queued one of the same type and subject.
Coalesces(e, queued) ==
    e.type \in ReadTypes /\ queued.type = e.type /\ queued.subject = e.subject

CoalesceAt(items, e) == SelectLastInSeq(items, LAMBDA queued : Coalesces(e, queued))

\* Fault: the oldest event makes room, whatever its value.
OldestAt(items) == 1

\* The first event that is not of high value, 0 when there is none.
EvictAt(items) == SelectInSeq(items, LAMBDA queued : ~HighValue(queued))

Full(items) == Len(items) = Capacity

\* The outcomes of Offer.
Replaces(items, e)  == CoalesceAt(items, e) > 0
Appends(items, e)   == ~Replaces(items, e) /\ ~Full(items)
Displaces(items, e) == ~Replaces(items, e) /\ Full(items) /\ HighValue(e) /\ EvictAt(items) > 0
Takes(items, e)     == Replaces(items, e) \/ Appends(items, e) \/ Displaces(items, e)

\* Fault: nothing makes room for an event of high value.
OfferBeyond(items, e) ==
    IF Replaces(items, e) THEN ReplaceAt(items, CoalesceAt(items, e), e)
    ELSE IF Takes(items, e) THEN Append(items, e)
    ELSE items

\* The queued events after Offer.
Offer(items, e) ==
    IF Replaces(items, e)       THEN ReplaceAt(items, CoalesceAt(items, e), e)
    ELSE IF Appends(items, e)   THEN Append(items, e)
    ELSE IF Displaces(items, e) THEN Append(RemoveAt(items, EvictAt(items)), e)
    ELSE items

\* The queued events that Offer gives up for the new one: none or one.
GivenUp(items, e) == ToSet(items) \ ToSet(Offer(items, e))
=============================================================================
