---------------------------- MODULE SessionState ----------------------------
(***************************************************************************)
(* The pure part of internal/session/engine.go: what one call of the       *)
(* engine does to the state of one session.  The operators are shared by   *)
(* the engine itself (SessionEngine), by the live desktop and by replay.   *)
(*                                                                         *)
(* Instants are naturals.  Node identities, operation names, secondary     *)
(* paths and the source of an event are data no decision of the engine     *)
(* depends on and are left out; line counts are opaque values.             *)
(***************************************************************************)
EXTENDS Integers, SequencesExt

CONSTANTS
    Paths,        \* repository-relative file paths
    NoPath,       \* the empty path
    Times,        \* the instants events and callers may carry
    IdleTimeout,  \* Engine.idleTimeout, the cap of an access interval
    Kinds,        \* the event types the adapters in use produce
    Confidences,  \* the evidence grades the adapters in use produce
    Lines,        \* line counts carried by events and diff results
    NoLines,      \* absent line counts (nil pointers)
    Statuses,     \* work statuses set by SetWorkResult
    NoStatus      \* no work status yet (the empty string)

NoTime == -1      \* a nil *time.Time

RenameTypes == {"file_renamed", "file_moved"}
FocusTypes  == {"file_created", "file_patched", "file_modified", "file_deleted",
                "file_focused", "file_read"} \cup RenameTypes
\* "activity" stands for every event type that focuses nothing
EventTypes  == FocusTypes \cup {"session_started", "session_stopped", "activity"}

ASSUME SessionAssumption ==
    /\ NoPath \notin Paths
    /\ Times \subseteq Nat
    /\ IdleTimeout \in Nat \ {0}          \* NewEngine replaces values <= 0
    /\ Kinds \subseteq EventTypes
    /\ Confidences \subseteq {"inferred", "observed", "correlated", "exact"}
    /\ NoLines \notin Lines
    /\ NoStatus \notin Statuses

\* The previous path is read for renames and moves only; elsewhere it is left empty.
Events == {e \in [type: Kinds, path: Paths \cup {NoPath}, prev: Paths \cup {NoPath},
                  ts: Times, confidence: Confidences, lines: Lines \cup {NoLines}] :
             e.prev # NoPath => e.type \in RenameTypes}

Intervals == [sequence: Nat, path: Paths, startedAt: Times, endedAt: Nat \cup {NoTime},
              lines: Lines \cup {NoLines}, status: Statuses \cup {NoStatus}]

SessionStates ==
    [startedAt: Times, stoppedAt: Times \cup {NoTime}, paused: BOOLEAN,
     activePath: Paths \cup {NoPath}, previousPath: Paths \cup {NoPath},
     intervals: Seq(Intervals), currentPriority: Nat, currentTimestamp: Times]
-----------------------------------------------------------------------------
(* focusPriority: evidence first, then the kind of operation.              *)
EvidenceRank(c) ==
    CASE c = "exact" -> 30 [] c = "correlated" -> 20 [] c = "observed" -> 10 [] OTHER -> 0

OperationRank(t) ==
    CASE t = "file_created"                       -> 9
      [] t \in {"file_patched", "file_modified"}  -> 8
      [] t \in RenameTypes                        -> 7
      [] t = "file_deleted"                       -> 6
      [] t = "file_focused"                       -> 5
      [] OTHER                                    -> 3

Priority(e) == EvidenceRank(e.confidence) + OperationRank(e.type)
Focuses(e)  == e.type \in FocusTypes /\ e.path # NoPath
-----------------------------------------------------------------------------
NewSession(ts) ==
    [startedAt |-> ts, stoppedAt |-> NoTime, paused |-> FALSE, activePath |-> NoPath,
     previousPath |-> NoPath, intervals |-> <<>>, currentPriority |-> 0,
     currentTimestamp |-> ts]

NewInterval(sequence, e) ==
    [sequence |-> sequence, path |-> e.path, startedAt |-> e.ts, endedAt |-> NoTime,
     lines |-> e.lines, status |-> NoStatus]

\* current(s), the last access, and the state with another in its place.
Current(s) == Last(s.intervals)
WithCurrent(s, i) == [s EXCEPT !.intervals = ReplaceAt(@, Len(@), i)]

\* Fault: an ended access passes for open, so a second close moves its end.
HasAny(s) == s.intervals # <<>>

HasOpen(s) == s.intervals # <<>> /\ Current(s).endedAt = NoTime

Clamp(x, low, high) == IF x > high THEN high ELSE IF x < low THEN low ELSE x

\* Fault: the idle cap is forgotten.
CloseUncapped(i, at) == [i EXCEPT !.endedAt = Clamp(at, i.startedAt, at)]

\* closeCurrent: an interval ends no earlier than it started and no later than idle.
CloseInterval(i, at) ==
    [i EXCEPT !.endedAt = Clamp(at, i.startedAt, i.startedAt + IdleTimeout)]

CloseCurrent(s, at) ==
    IF HasOpen(s) THEN WithCurrent(s, CloseInterval(Current(s), at)) ELSE s

\* Fault: the access keeps the old path.
RelabelNothing(s, path) == s

\* The path of the last access follows the active path.
Relabel(s, path) ==
    IF s.intervals = <<>> THEN s ELSE WithCurrent(s, [Current(s) EXCEPT !.path = path])

\* Fault: a rename that names no target is followed.
CarriesFocusAnywhere(s, e) == e.type \in RenameTypes /\ s.activePath = e.prev

CarriesFocus(s, e) == e.type \in RenameTypes /\ s.activePath = e.prev /\ e.path # NoPath

\* A rename or move of the active file carries the focus and its access along.
FollowRename(s, e) ==
    IF CarriesFocus(s, e) THEN [Relabel(s, e.path) EXCEPT !.activePath = e.path] ELSE s

\* Fault: the last event of an instant wins, whatever its rank.
NeverOutranked(s, e) == e.ts # e.ts

Outranked(s, e) == e.ts = s.currentTimestamp /\ Priority(e) < s.currentPriority

Touch(s, e) == [s EXCEPT !.currentPriority = Priority(e), !.currentTimestamp = e.ts]

MergeAccess(s, e) ==
    IF e.lines = NoLines THEN s
    ELSE WithCurrent(s, [Current(s) EXCEPT !.lines = e.lines])

OpenAccess(s, e) ==
    [s EXCEPT !.intervals = Append(@, NewInterval(Len(@) + 1, e))]

SwitchFocus(s, e) ==
    [CloseCurrent(s, e.ts) EXCEPT !.previousPath = s.activePath, !.activePath = e.path]

Focus(s, e) ==
    IF s.activePath = e.path
    THEN IF HasOpen(s) THEN MergeAccess(Touch(s, e), e) ELSE OpenAccess(Touch(s, e), e)
    ELSE OpenAccess(SwitchFocus(Touch(s, e), e), e)

StopSession(s, at) == [CloseCurrent(s, at) EXCEPT !.stoppedAt = at]

Late(s, e)    == e.ts < s.currentTimestamp
Ignores(s)    == s.stoppedAt # NoTime \/ s.paused

\* Apply, for a session that exists and an event that is not session_started.
ApplyEvent(s, e) ==
    IF Late(s, e) THEN s
    ELSE IF e.type = "session_stopped" THEN StopSession(s, e.ts)
    ELSE IF Ignores(s) THEN s
    ELSE LET r == FollowRename(s, e)
         IN  IF Focuses(e) /\ ~Outranked(r, e) THEN Focus(r, e) ELSE r

PauseSession(s, at) == [CloseCurrent(s, at) EXCEPT !.paused = TRUE]

AdvanceSession(s, now) ==
    IF HasOpen(s) /\ now - Current(s).startedAt >= IdleTimeout
    THEN CloseCurrent(s, Current(s).startedAt + IdleTimeout)
    ELSE s

SetWork(s, sequence, lines, status) ==
    [s EXCEPT !.intervals =
        [i \in DOMAIN @ |-> IF @[i].sequence = sequence
                            THEN [@[i] EXCEPT !.lines = lines, !.status = status]
                            ELSE @[i]]]
HasSequence(s, sequence) == \E i \in DOMAIN s.intervals : s.intervals[i].sequence = sequence
-----------------------------------------------------------------------------
(* What a session's state must satisfy.                                    *)

Starts(s, i) == s.intervals[i].startedAt

\* An interval has a non-negative duration of at most the idle cap.
CappedInterval(i) ==
    \/ i.endedAt = NoTime
    \/ i.startedAt <= i.endedAt /\ i.endedAt <= i.startedAt + IdleTimeout

\* Sequence numbers are positions, only the last access may be open, accesses
\* start in order, and none starts after the time the focus has reached.
TrailOrdered(s) ==
    \A i \in 1..Len(s.intervals) :
        /\ s.intervals[i].sequence = i
        /\ CappedInterval(s.intervals[i])
        /\ i < Len(s.intervals) => /\ s.intervals[i].endedAt # NoTime
                                   /\ Starts(s, i) <= Starts(s, i + 1)
        /\ Starts(s, i) <= s.currentTimestamp

\* The active path is the path of the last access; a session nobody has
\* touched has no rank to defend; nothing stays open once stopped or paused.
FocusMatchesTrail(s) ==
    /\ s.intervals # <<>> => s.activePath = Current(s).path
    /\ s.intervals = <<>> => s.currentPriority = 0
    /\ Ignores(s) => ~HasOpen(s)

\* No access is lost or restarted, an end once set stays, and only the last
\* access may still change its path.
KeepsHistory(s, t) ==
    /\ Len(s.intervals) <= Len(t.intervals)
    /\ \A i \in 1..Len(s.intervals) :
        /\ Starts(s, i) = Starts(t, i)
        /\ s.intervals[i].endedAt # NoTime => s.intervals[i].endedAt = t.intervals[i].endedAt
        /\ i < Len(s.intervals) => s.intervals[i].path = t.intervals[i].path

\* The pair (instant, rank) that holds the focus does not go down.
KeepsRank(s, t) ==
    \/ s.currentTimestamp < t.currentTimestamp
    \/ /\ s.currentTimestamp = t.currentTimestamp
       /\ s.currentPriority <= t.currentPriority
=============================================================================
