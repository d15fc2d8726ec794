---------------------------- MODULE SessionEngine ---------------------------
(***************************************************************************)
(* internal/session/engine.go: the engine's table of sessions under every  *)
(* call of its interface, in any order and with any instants.  Each call   *)
(* holds Engine.mu throughout, so each is one action.                      *)
(***************************************************************************)
EXTENDS SessionState

CONSTANTS
    SessionIds,     \* session identifiers
    NoSession,      \* an identifier without an entry in Engine.sessions
    MaxIntervals    \* bound: accesses recorded per session

ASSUME EngineAssumption ==
    /\ NoSession \notin SessionStates
    /\ MaxIntervals \in Nat

VARIABLE sessions

Known(id) == sessions[id] # NoSession

EngineInit == sessions = [id \in SessionIds |-> NoSession]

Update(id, s) == sessions' = [sessions EXCEPT ![id] = s]

\* Apply of session_started: creates the session once, then changes nothing.
ApplyStart(id, e) ==
    /\ e.type = "session_started"
    /\ ~Known(id)
    /\ Update(id, NewSession(e.ts))

\* Apply of any other event; an unknown session is an error without effect.
ApplyOther(id, e) ==
    /\ e.type # "session_started"
    /\ Known(id)
    /\ LET s == ApplyEvent(sessions[id], e)
       IN  Len(s.intervals) <= MaxIntervals /\ Update(id, s)

Pause(id, at)    == Known(id) /\ Update(id, PauseSession(sessions[id], at))
Resume(id)       == Known(id) /\ Update(id, [sessions[id] EXCEPT !.paused = FALSE])
Advance(id, now) == Known(id) /\ Update(id, AdvanceSession(sessions[id], now))

SetWorkResult(id, sequence, lines, status) ==
    /\ Known(id)
    /\ HasSequence(sessions[id], sequence)
    /\ Update(id, SetWork(sessions[id], sequence, lines, status))

EngineNext ==
    \E id \in SessionIds :
        \/ \E e \in Events : ApplyStart(id, e) \/ ApplyOther(id, e)
        \/ \E at \in Times : Pause(id, at) \/ Advance(id, at)
        \/ Resume(id)
        \/ \E sequence \in 1..MaxIntervals, lines \in Lines \cup {NoLines}, status \in Statuses :
                SetWorkResult(id, sequence, lines, status)

EngineSpec == EngineInit /\ [][EngineNext]_sessions
-----------------------------------------------------------------------------
\* Every entry of the table is absent or a state of the declared shape.
TableOK == sessions \in [SessionIds -> SessionStates \cup {NoSession}]

\* Whatever order calls come in, the trail of every session is a sequence of
\* numbered, idle-capped, non-negative accesses in start order of which only
\* the last may be open (engine.go Apply, closeCurrent).
TrailsOrdered == \A id \in SessionIds : Known(id) => TrailOrdered(sessions[id])

\* The focus a session reports is the file its trail ends with, and a stopped
\* or paused session has no access left open (Apply's rename, stop and early
\* returns; Pause).
FocusFollowsTrail == \A id \in SessionIds : Known(id) => FocusMatchesTrail(sessions[id])

\* An access once closed keeps its place, its start and its end for ever, and
\* an earlier access keeps its path too: later calls only append, rename the
\* last access, or attach a work result.
HistoryIsKept ==
    [][\A id \in SessionIds : Known(id) =>
        /\ sessions'[id] # NoSession
        /\ KeepsHistory(sessions[id], sessions'[id])]_sessions

\* The pair (time, rank) that holds the focus never goes down, so among events
\* of one instant the strongest evidence wins whatever order they arrive in
\* (Apply's two early returns).
FocusNeverRollsBack ==
    [][\A id \in SessionIds : Known(id) => KeepsRank(sessions[id], sessions'[id])]_sessions
=============================================================================
