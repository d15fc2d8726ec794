------------------------------- MODULE Replay -------------------------------
(***************************************************************************)
(* internal/replay/replay.go: the state of a session rebuilt from its      *)
(* journaled events, up to a cursor.                                       *)
(*                                                                         *)
(* A row is [id, type, ts, event] for an event an adapter sent, and        *)
(* [id, type, ts, sequence, lines, status] for a diff result.  Ids order   *)
(* as event ids do; the optional monotonic timestamps are left out.        *)
(***************************************************************************)
EXTENDS SessionState, FiniteSets, FiniteSetsExt

CONSTANTS NoSession,    \* no state yet
          Failed        \* Reconstruct returns an error

ASSUME ReplayAssumption ==
    /\ NoSession # Failed
    /\ {NoSession, Failed} \cap SessionStates = {}

\* replayRank: starts first, stops last, whatever their timestamps.
ReplayRank(type) ==
    CASE type = "session_started" -> 0 [] type = "session_stopped" -> 2 [] OTHER -> 1

\* Fault: rows of one rank are taken by id.
ByRankAndId(l, r) ==
    \/ ReplayRank(l.type) < ReplayRank(r.type)
    \/ ReplayRank(l.type) = ReplayRank(r.type) /\ l.id < r.id

Canonically(l, r) ==
    \/ ReplayRank(l.type) < ReplayRank(r.type)
    \/ /\ ReplayRank(l.type) = ReplayRank(r.type)
       /\ l.ts < r.ts \/ (l.ts = r.ts /\ l.id < r.id)

CanonicalEvents(rows) ==
    [i \in 1..Cardinality(rows) |->
        CHOOSE r \in rows : Cardinality({l \in rows : Canonically(l, r)}) = i - 1]

\* applyDiff: a result for an access the trail does not have is an error.
ApplyDiff(s, row) ==
    IF s = NoSession THEN Failed
    ELSE IF HasSequence(s, row.sequence) THEN SetWork(s, row.sequence, row.lines, row.status)
    ELSE Failed

\* One step of the loop, by an engine of its own.
ReplayStep(s, row) ==
    IF s = Failed THEN Failed
    ELSE IF row.type = "diff_calculated" THEN ApplyDiff(s, row)
    ELSE IF row.type = "session_started" THEN (IF s = NoSession THEN NewSession(row.ts) ELSE s)
    ELSE IF s = NoSession THEN Failed
    ELSE ApplyEvent(s, row.event)

\* An access still open at the cursor is closed at the latest instant seen.
CloseAtCursor(s, at) ==
    IF s \in {NoSession, Failed} THEN s
    ELSE IF s.stoppedAt = NoTime THEN PauseSession(s, at) ELSE s

\* The loop over the rows, from no state.
ReplayRows(rows) ==
    LET state[n \in 0..Len(rows)] ==
            IF n = 0 THEN NoSession ELSE ReplayStep(state[n - 1], rows[n])
    IN  state[Len(rows)]

\* Reconstruct with a cursor that shows the first `count` rows.
Reconstruct(rows, count) ==
    LET shown == SubSeq(CanonicalEvents(rows), 1, count)
    IN  IF shown = <<>> THEN NoSession
        ELSE CloseAtCursor(ReplayRows(shown), Max({row.ts : row \in ToSet(shown)}))
=============================================================================
