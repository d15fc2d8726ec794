---------------------------- MODULE JournalProofs ---------------------------
(***************************************************************************)
(* Proofs about SessionEngine and about Journal, which composes it with    *)
(* the store, for every set of sessions, paths and instants, any number of *)
(* processes and any number of databases.                                  *)
(***************************************************************************)
EXTENDS Journal, SessionStateProofs
-----------------------------------------------------------------------------
(* The engine on its own.                                                   *)

\* The inductive invariant: every known session has a state of the declared
\* shape, an ordered trail and a focus that follows it.  Neither half stands
\* alone: a trail stays ordered because it never starts after the focus time,
\* and the rank of an untouched session lets its first access open.
EngineInv == TableOK /\ TrailsOrdered /\ FocusFollowsTrail

\* What one step does to the state of one session.
SoundStep(s, t) ==
    /\ t \in SessionStates
    /\ TrailOrdered(t)
    /\ FocusMatchesTrail(t)
    /\ KeepsHistory(s, t)
    /\ KeepsRank(s, t)

\* No session is known at first.
LEMMA EngineInitInv == EngineInit => EngineInv
BY DEF EngineInit, EngineInv, TableOK, TrailsOrdered, FocusFollowsTrail, Known

\* Replacing the state of one session by a sound one keeps the invariant.
LEMMA UpdateKeepsInv ==
    ASSUME EngineInv, NEW id \in SessionIds, NEW t \in SessionStates, Update(id, t),
           TrailOrdered(t), FocusMatchesTrail(t)
    PROVE  EngineInv'
<1>1. /\ sessions \in [SessionIds -> SessionStates \cup {NoSession}]
      /\ sessions' = [sessions EXCEPT ![id] = t]
  BY DEF EngineInv, TableOK, Update
<1>2. \A other \in SessionIds : sessions'[other] = IF other = id THEN t ELSE sessions[other]
  BY <1>1
<1>3. TableOK'
  BY <1>1 DEF TableOK
<1>4. TrailsOrdered' /\ FocusFollowsTrail'
  BY <1>2 DEF EngineInv, TrailsOrdered, FocusFollowsTrail, Known
<1> QED
  BY <1>3, <1>4 DEF EngineInv

\* Every step changes one session only: it creates it, or is a sound step of it.
LEMMA StepIsSound ==
    ASSUME EngineInv, EngineNext
    PROVE  \E id \in SessionIds, t \in SessionStates :
                /\ Update(id, t)
                /\ TrailOrdered(t)
                /\ FocusMatchesTrail(t)
                /\ Known(id) => SoundStep(sessions[id], t)
<1>1. PICK id \in SessionIds :
        \/ \E e \in Events : ApplyStart(id, e) \/ ApplyOther(id, e)
        \/ \E at \in Times : Pause(id, at) \/ Advance(id, at)
        \/ Resume(id)
        \/ \E sequence \in 1..MaxIntervals, lines \in Lines \cup {NoLines}, status \in Statuses :
                SetWorkResult(id, sequence, lines, status)
  BY DEF EngineNext
<1> DEFINE s == sessions[id]
<1>2. Known(id) => s \in SessionStates /\ TrailOrdered(s) /\ FocusMatchesTrail(s)
  BY DEF EngineInv, TableOK, TrailsOrdered, FocusFollowsTrail, Known
<1>3. ASSUME NEW e \in Events, ApplyStart(id, e)
      PROVE  Update(id, NewSession(e.ts)) /\ ~Known(id) /\ e.ts \in Times
  BY <1>3 DEF ApplyStart, Events
<1>4. ASSUME NEW e \in Events, ApplyOther(id, e)
      PROVE  Update(id, ApplyEvent(s, e)) /\ SoundStep(s, ApplyEvent(s, e))
  BY <1>2, <1>4, ApplyEventEffect DEF ApplyOther, SoundStep
<1>5. ASSUME NEW at \in Times, Pause(id, at)
      PROVE  Update(id, PauseSession(s, at)) /\ SoundStep(s, PauseSession(s, at))
  BY <1>2, <1>5, PauseEffect DEF Pause, SoundStep
<1>6. ASSUME NEW now \in Times, Advance(id, now)
      PROVE  Update(id, AdvanceSession(s, now)) /\ SoundStep(s, AdvanceSession(s, now))
  BY <1>2, <1>6, AdvanceEffect DEF Advance, SoundStep
<1>7. ASSUME Resume(id)
      PROVE  Update(id, [s EXCEPT !.paused = FALSE]) /\ SoundStep(s, [s EXCEPT !.paused = FALSE])
  BY <1>2, <1>7, ResumeEffect DEF Resume, SoundStep
<1>8. ASSUME NEW sequence \in 1..MaxIntervals, NEW lines \in Lines \cup {NoLines},
             NEW status \in Statuses, SetWorkResult(id, sequence, lines, status)
      PROVE  /\ Update(id, SetWork(s, sequence, lines, status))
             /\ SoundStep(s, SetWork(s, sequence, lines, status))
  BY <1>2, <1>8, SetWorkEffect DEF SetWorkResult, SoundStep
<1> HIDE DEF s
<1>9. CASE \E e \in Events : ApplyStart(id, e)
  BY <1>3, <1>9, StartEffect
<1>10. CASE \E t : Update(id, t) /\ SoundStep(s, t)
  BY <1>10 DEF SoundStep, s
<1> QED
  BY <1>1, <1>3, <1>4, <1>5, <1>6, <1>7, <1>8, <1>9, <1>10

\* EngineInv is inductive.
LEMMA EngineKeepsInv == EngineInv /\ [EngineNext]_sessions => EngineInv'
<1>1. ASSUME EngineInv, EngineNext PROVE EngineInv'
  BY <1>1, StepIsSound, UpdateKeepsInv
<1>2. ASSUME EngineInv, UNCHANGED sessions PROVE EngineInv'
  BY <1>2 DEF EngineInv, TableOK, TrailsOrdered, FocusFollowsTrail, Known
<1> QED
  BY <1>1, <1>2

\* EngineInv holds in every reachable state.
LEMMA EngineInvariance == EngineSpec => []EngineInv
BY EngineInitInv, EngineKeepsInv, PTL DEF EngineSpec

\* Whatever calls the engine receives, its table keeps the declared shape.
THEOREM EngineTypeCorrect == EngineSpec => []TableOK
BY EngineInvariance, PTL DEF EngineInv

\* Whatever order and instants events, pauses and results come with, every
\* trail is numbered, in start order, idle-capped and open at most at its end.
THEOREM TrailsStayOrdered == EngineSpec => []TrailsOrdered
BY EngineInvariance, PTL DEF EngineInv

\* The reported focus is always the file the trail ends with, and a stopped or
\* paused session has nothing open.
THEOREM FocusAlwaysFollowsTrail == EngineSpec => []FocusFollowsTrail
BY EngineInvariance, PTL DEF EngineInv

\* Every step keeps the closed history and the rank of the focus.
LEMMA EngineStepKeeps ==
    ASSUME EngineInv, [EngineNext]_sessions, NEW id \in SessionIds, Known(id)
    PROVE  /\ sessions'[id] # NoSession
           /\ KeepsHistory(sessions[id], sessions'[id])
           /\ KeepsRank(sessions[id], sessions'[id])
<1>1. /\ sessions \in [SessionIds -> SessionStates \cup {NoSession}]
      /\ sessions[id] \in SessionStates
      /\ NoSession \notin SessionStates
  BY EngineAssumption DEF EngineInv, TableOK, Known
<1>2. KeepsHistory(sessions[id], sessions[id]) /\ KeepsRank(sessions[id], sessions[id])
  BY <1>1 DEF SessionStates, KeepsHistory, KeepsRank
<1>3. CASE EngineNext
  <2>1. PICK other \in SessionIds, t \in SessionStates :
            Update(other, t) /\ (Known(other) => SoundStep(sessions[other], t))
    BY <1>3, StepIsSound
  <2> QED
    BY <1>1, <1>2, <2>1 DEF Update, SoundStep, Known
<1>4. CASE UNCHANGED sessions
  BY <1>1, <1>2, <1>4
<1> QED
  BY <1>3, <1>4

\* No call ever reopens, moves or drops a closed access.
THEOREM HistoryAlwaysKept == EngineSpec => HistoryIsKept
<1>1. EngineInv /\ [EngineNext]_sessions =>
        [\A id \in SessionIds : Known(id) =>
            /\ sessions'[id] # NoSession
            /\ KeepsHistory(sessions[id], sessions'[id])]_sessions
  BY EngineStepKeeps
<1> QED
  BY <1>1, EngineInvariance, PTL DEF EngineSpec, HistoryIsKept

\* No call ever takes the focus back in time or, within an instant, in rank.
THEOREM FocusNeverGoesBack == EngineSpec => FocusNeverRollsBack
<1>1. EngineInv /\ [EngineNext]_sessions =>
        [\A id \in SessionIds : Known(id) => KeepsRank(sessions[id], sessions'[id])]_sessions
  BY EngineStepKeeps
<1> QED
  BY <1>1, EngineInvariance, PTL DEF EngineSpec, FocusNeverRollsBack
-----------------------------------------------------------------------------
(* The journal of one process after another.                                *)

\* States the engine has (StepIsSound).
GoodStates == {s \in SessionStates : TrailOrdered(s) /\ FocusMatchesTrail(s)}

Active(id)    == rows[id] # NoSession /\ rows[id].status \in Unfinished
Readable(id)  == rows[id] # NoSession /\ rows[id].state # Unreadable
InMemory      == {id \in SessionIds : sessions[id] # NoSession}

MemoryInv ==
    /\ sessions = [id \in SessionIds |-> sessions[id]]
    /\ \A id \in InMemory : sessions[id] \in GoodStates
    /\ queue \in Seq([id : InMemory, state : GoodStates])
    /\ process # "ready" => queue = <<>>

\* What a row of a status says about its session.
SoundRow(row) ==
    /\ row = [started |-> row.started, stopped |-> row.stopped, status |-> row.status,
              state |-> row.state]
    /\ row.status \in Unfinished \cup {"stopped", "recovered"}
    /\ row.state # Unreadable =>
        /\ row.status \in Unfinished => row.state \in SessionStates /\ TrailOrdered(row.state)
        /\ row.status = "recovered" => ClosedWhole(row)

RowsInv ==
    /\ rows = [id \in SessionIds |-> rows[id]]
    /\ \A id \in SessionIds : rows[id] # NoSession => SoundRow(rows[id])
    /\ process = "ready" => \A id \in SessionIds : Active(id) => id \in InMemory

\* The inductive invariant of the sessions: what is on its way to the journal is
\* in memory and has an ordered trail, and so has what a crash leaves in a row.
IInv == MemoryInv /\ RowsInv
-----------------------------------------------------------------------------
\* Recovery closes an ordered trail whole and keeps what it recorded.
LEMMA RecoveryCloses ==
    ASSUME NEW s \in SessionStates, TrailOrdered(s), NEW at \in Times, NEW row,
           row = [started |-> row.started, stopped |-> RecoveredEnd(s, at),
                  status |-> row.status, state |-> RecoveredState(s, at)]
    PROVE  ClosedWhole(row) /\ KeepsHistory(s, RecoveredState(s, at))
<1> DEFINE end == RecoveredEnd(s, at)
           c == [Current(s) EXCEPT !.endedAt = end]
           t == RecoveredState(s, at)
<1>1. at \in Nat
  BY TimesAreNat
<1>2. CASE s.intervals = <<>>
  <2>1. t = [s EXCEPT !.stoppedAt = at, !.paused = FALSE] /\ end = at
    BY <1>2 DEF RecoveredState, RecoveredEnd
  <2>2. t.intervals = s.intervals /\ t.stoppedAt = at /\ ~t.paused
    BY <2>1 DEF SessionStates
  <2>3. row.stopped = end /\ row.state = t
    OBVIOUS
  <2> HIDE DEF t, end
  <2>4. TrailOrdered(t) /\ KeepsHistory(s, t) /\ ~HasOpen(t)
    BY <1>2, <2>2 DEF TrailOrdered, KeepsHistory, HasOpen
  <2> QED
    BY <1>1, <1>2, <2>1, <2>2, <2>3, <2>4 DEF ClosedWhole, NoTime, t
<1>3. CASE s.intervals # <<>>
  <2> DEFINE w == WithCurrent(s, c)
  <2>1. Current(s) \in Intervals /\ Len(s.intervals) \in Nat \ {0}
    BY <1>3 DEF SessionStates, Current, Last
  <2>2. Current(s) = s.intervals[Len(s.intervals)]
    BY DEF Current, Last
  <2>3. Current(s).startedAt \in Nat /\ Current(s).endedAt \in Nat \cup {NoTime}
    BY <2>1, TimesAreNat DEF Intervals
  <2>4. CappedInterval(Current(s))
    BY <2>1, <2>2 DEF TrailOrdered
  <2>5. /\ end \in Nat /\ end # NoTime
        /\ Current(s).startedAt <= end /\ end <= Current(s).startedAt + IdleTimeout
        /\ Current(s).endedAt # NoTime => end = Current(s).endedAt
    BY <1>1, <1>3, <2>3, <2>4, ClampBounds DEF RecoveredEnd, CappedInterval, NoTime
  <2> HIDE DEF end
  <2>6. /\ c \in Intervals /\ c.endedAt = end /\ SameAccess(Current(s), c)
        /\ CappedInterval(c)
    BY <2>1, <2>3, <2>5 DEF Intervals, CappedInterval, SameAccess
  <2> HIDE DEF c
  <2>7. /\ w \in SessionStates /\ Len(w.intervals) = Len(s.intervals) /\ Current(w) = c
        /\ SameFocus(s, w)
        /\ \A i \in 1..Len(s.intervals) :
              w.intervals[i] = IF i = Len(s.intervals) THEN c ELSE s.intervals[i]
    BY <1>3, <2>6, WithCurrentEffect
  <2>8. t = [w EXCEPT !.stoppedAt = end, !.paused = FALSE]
    BY <1>3 DEF RecoveredState, c, end
  <2> HIDE DEF w
  <2>9. /\ t.intervals = w.intervals /\ t.stoppedAt = end /\ ~t.paused
        /\ t.currentTimestamp = s.currentTimestamp
    BY <2>7, <2>8 DEF SessionStates, SameFocus
  <2> HIDE DEF t
  <2>10. \A i \in 1..Len(s.intervals) :
           /\ SameAccess(s.intervals[i], t.intervals[i])
           /\ s.intervals[i].endedAt # NoTime => t.intervals[i].endedAt = s.intervals[i].endedAt
           /\ t.intervals[i].endedAt # NoTime
           /\ CappedInterval(t.intervals[i])
    BY <2>1, <2>2, <2>5, <2>6, <2>7, <2>9 DEF TrailOrdered, SameAccess
  <2>11. Len(t.intervals) = Len(s.intervals) /\ Current(t) = c
    BY <2>7, <2>9 DEF Current
  <2>12. TrailOrdered(t)
    BY <2>1, <2>9, <2>10, <2>11 DEF TrailOrdered, Starts, SameAccess
  <2>13. KeepsHistory(s, t)
    BY <2>1, <2>10, <2>11 DEF KeepsHistory, Starts, SameAccess
  <2>14. row.stopped = end /\ row.state = t
    BY DEF end, t
  <2> QED
    BY <2>5, <2>6, <2>9, <2>11, <2>12, <2>13, <2>14 DEF ClosedWhole, HasOpen, t
<1> QED
  BY <1>2, <1>3
-----------------------------------------------------------------------------
\* Nothing is in memory and no row is written at first.
LEMMA InitHolds == Init => IInv
BY DEF Init, EngineInit, IInv, MemoryInv, RowsInv, InMemory, Active

\* A row that SaveSession writes: stopped, active or paused, never recovered.
LEMMA SavedRow ==
    ASSUME NEW id, NEW s \in GoodStates
    PROVE  /\ SoundRow(RowOf(id, s))
           /\ RowOf(id, s).status # "recovered"
<1>1. s \in SessionStates /\ TrailOrdered(s)
  BY DEF GoodStates
<1>2. StatusOf(s) \in Unfinished \cup {"stopped"} /\ "recovered" \notin Unfinished
  BY DEF StatusOf, Unfinished
<1> QED
  BY <1>1, <1>2 DEF RowOf, SoundRow

\* What publication makes of a session.
LEMMA PublishedState ==
    ASSUME IInv, NEW id \in SessionIds, NEW e \in Events, ApplyStart(id, e) \/ ApplyOther(id, e)
    PROVE  \E s \in GoodStates : sessions' = [sessions EXCEPT ![id] = s]
<1>1. CASE ApplyStart(id, e)
  BY <1>1, StartEffect DEF ApplyStart, Update, GoodStates, Events
<1>2. CASE ApplyOther(id, e)
  <2>1. /\ sessions[id] \in GoodStates
        /\ sessions' = [sessions EXCEPT ![id] = ApplyEvent(sessions[id], e)]
    BY <1>2 DEF ApplyOther, Known, Update, IInv, MemoryInv, InMemory
  <2> QED
    BY <1>2, <2>1, ApplyEventEffect DEF ApplyOther, GoodStates
<1> QED
  BY <1>1, <1>2

\* A step that touches neither the sessions, the queue nor a row.
LEMMA ElsewhereKeeps ==
    ASSUME IInv, UNCHANGED <<sessions, queue, rows>>, process' # "ready" \/ process' = process,
           process' = "ready" \/ queue = <<>>
    PROVE  IInv'
BY DEF IInv, MemoryInv, RowsInv, InMemory, Active

\* A process that ends leaves nothing in memory; the rows stay as they are.
LEMMA EndKeeps ==
    ASSUME IInv, process' = "down", UNCHANGED rows, queue' = <<>>,
           sessions' = [id \in SessionIds |-> NoSession]
    PROVE  IInv'
BY DEF IInv, MemoryInv, RowsInv, InMemory, Active

\* Damage makes a row unreadable, and that says nothing of its session.
LEMMA DamageKeeps == IInv /\ Damage => IInv'
<1> SUFFICES ASSUME IInv, Damage PROVE IInv'
  OBVIOUS
<1>1. UNCHANGED <<process, sessions, queue>> /\ process = "down"
  BY DEF Damage, memory
<1>2. CASE UNCHANGED rows
  BY <1>1, <1>2, ElsewhereKeeps DEF IInv, MemoryInv
<1>3. ASSUME NEW id \in SessionIds, rows[id] # NoSession,
             rows' = [rows EXCEPT ![id].state = Unreadable]
      PROVE  IInv'
  <2>1. SoundRow(rows[id]) /\ rows = [other \in SessionIds |-> rows[other]]
    BY <1>3 DEF IInv, RowsInv
  <2>2. /\ rows' = [other \in SessionIds |-> rows'[other]]
        /\ \A other \in SessionIds \ {id} : rows'[other] = rows[other]
        /\ rows'[id] = [rows[id] EXCEPT !.state = Unreadable]
    BY <1>3, <2>1
  <2>3. SoundRow(rows'[id])
    BY <2>1, <2>2 DEF SoundRow
  <2>4. RowsInv'
    BY <1>1, <2>2, <2>3 DEF IInv, RowsInv
  <2>5. MemoryInv'
    BY <1>1 DEF IInv, MemoryInv, InMemory
  <2> QED
    BY <2>4, <2>5 DEF IInv
<1> QED
  BY <1>2, <1>3 DEF Damage

\* Recovery leaves no active row and closes each it finds whole.
LEMMA RecoverKeeps ==
    ASSUME IInv, NEW at \in Times, Recover(at)
    PROVE  /\ IInv'
           /\ \A id \in SessionIds : rows'[id] # rows[id] =>
                KeepsHistory(rows[id].state, rows'[id].state)
<1>1. /\ UNCHANGED <<sessions, queue>> /\ queue = <<>>
      /\ rows' = [id \in SessionIds |-> rows'[id]]
  BY DEF Recover, memory, IInv, MemoryInv
<1>2. \A id \in SessionIds \ Stale : rows'[id] = rows[id] /\ ~Active(id)
  BY DEF Recover, Stale, Active
<1>3. ASSUME NEW id \in Stale
      PROVE  /\ SoundRow(rows'[id]) /\ rows'[id].status = "recovered"
             /\ KeepsHistory(rows[id].state, rows'[id].state)
  <2> DEFINE s == rows[id].state
             r == rows'[id]
  <2>1. id \in SessionIds /\ SoundRow(rows[id]) /\ rows[id].status \in Unfinished /\ s # Unreadable
    BY <1>3 DEF Stale, Recover, IInv, RowsInv
  <2>2. s \in SessionStates /\ TrailOrdered(s)
    BY <2>1 DEF SoundRow
  <2>3. rows'[id] = [rows[id] EXCEPT !.status = "recovered", !.stopped = RecoveredEnd(s, at),
                                     !.state = RecoveredState(s, at)]
    BY <1>3, <2>1 DEF Recover
  <2>4. r = [started |-> r.started, stopped |-> RecoveredEnd(s, at),
             status |-> r.status, state |-> RecoveredState(s, at)]
    BY <2>1, <2>3 DEF SoundRow
  <2>5. r.status = "recovered"
    BY <2>1, <2>3 DEF SoundRow
  <2> HIDE DEF s, r
  <2>6. ClosedWhole(r) /\ KeepsHistory(s, RecoveredState(s, at))
    BY <2>2, <2>4, RecoveryCloses
  <2>7. SoundRow(r) /\ r.state = RecoveredState(s, at)
    BY <2>4, <2>5, <2>6 DEF SoundRow, Unfinished
  <2> QED
    BY <2>5, <2>6, <2>7 DEF s, r
<1>4. \A id \in SessionIds : ~Active(id)'
  BY <1>2, <1>3 DEF Active, Unfinished
<1>5. RowsInv'
  BY <1>1, <1>2, <1>3, <1>4 DEF IInv, RowsInv
<1>6. MemoryInv'
  BY <1>1 DEF IInv, MemoryInv, InMemory
<1> QED
  BY <1>2, <1>3, <1>5, <1>6 DEF IInv

\* A published event leaves a state of the engine in memory and on the queue.
LEMMA PublishKeeps ==
    ASSUME IInv, NEW id \in SessionIds, NEW e \in Events, Publish(id, e)
    PROVE  IInv'
<1>1. PICK s \in GoodStates : sessions' = [sessions EXCEPT ![id] = s]
  BY PublishedState DEF Publish
<1>2. /\ sessions' = [sessions EXCEPT ![id] = s]
      /\ queue' = IF process = "ready" THEN Append(queue, [id |-> id, state |-> s]) ELSE queue
      /\ UNCHANGED <<process, rows>>
  <2>1. sessions'[id] = s
    BY <1>1 DEF IInv, MemoryInv
  <2> QED
    BY <1>1, <2>1 DEF Publish, disk
<1>3. s # NoSession
  BY <1>1, EngineAssumption DEF GoodStates
<1>4. /\ sessions' = [other \in SessionIds |-> sessions'[other]]
      /\ \A other \in SessionIds : sessions'[other] = IF other = id THEN s ELSE sessions[other]
  BY <1>2 DEF IInv, MemoryInv
<1>5. InMemory \subseteq InMemory' /\ id \in InMemory'
  BY <1>3, <1>4 DEF InMemory
<1>6. MemoryInv'
  <2>1. \A other \in InMemory' : sessions'[other] \in GoodStates
    BY <1>1, <1>4 DEF IInv, MemoryInv, InMemory
  <2>2. queue \in Seq([id : InMemory, state : GoodStates])
    BY DEF IInv, MemoryInv
  <2>3. [id : InMemory, state : GoodStates] \subseteq [id : InMemory', state : GoodStates]
    BY <1>5
  <2>4. queue \in Seq([id : InMemory', state : GoodStates])
    <3> DEFINE A == [id : InMemory, state : GoodStates]
               B == [id : InMemory', state : GoodStates]
    <3>1. queue \in Seq(A) /\ A \subseteq B
      BY <2>2, <2>3
    <3> HIDE DEF A, B
    <3>2. queue \in Seq(B)
      BY <3>1
    <3> QED
      BY <3>2 DEF B
  <2>5. [id |-> id, state |-> s] \in [id : InMemory', state : GoodStates]
    BY <1>1, <1>5
  <2>6. queue' \in Seq([id : InMemory', state : GoodStates])
    <3> DEFINE B == [id : InMemory', state : GoodStates]
               x == [id |-> id, state |-> s]
    <3>1. queue \in Seq(B) /\ x \in B
      BY <2>4, <2>5
    <3>2. queue' = Append(queue, x) \/ queue' = queue
      BY <1>2
    <3> HIDE DEF B, x
    <3>3. queue' \in Seq(B)
      BY <3>1, <3>2
    <3> QED
      BY <3>3 DEF B
  <2>7. process' # "ready" => queue' = <<>>
    BY <1>2 DEF IInv, MemoryInv
  <2> HIDE DEF GoodStates
  <2> QED
    BY <1>4, <2>1, <2>6, <2>7 DEF MemoryInv, GoodStates
<1>7. RowsInv'
  BY <1>2, <1>5 DEF IInv, RowsInv, Active
<1> QED
  BY <1>6, <1>7 DEF IInv

\* A state that leaves the queue, saved or not, belongs to a session in memory.
LEMMA SaveKeeps == IInv /\ (SaveSession \/ SaveFails) => IInv'
<1> SUFFICES ASSUME IInv, SaveSession \/ SaveFails PROVE IInv'
  OBVIOUS
<1> DEFINE E == [id : InMemory, state : GoodStates]
           h == Head(queue)
<1>1. UNCHANGED <<process, sessions>> /\ queue # <<>> /\ queue' = Tail(queue)
  BY DEF SaveSession, SaveFails
<1>2. h \in E /\ queue' \in Seq(E)
  <2>1. queue \in Seq(E)
    BY DEF IInv, MemoryInv
  <2> HIDE DEF E
  <2> QED
    BY <1>1, <2>1
<1>3. MemoryInv'
  <2>1. InMemory' = InMemory
    BY <1>1 DEF InMemory
  <2> QED
    BY <1>1, <1>2, <2>1 DEF IInv, MemoryInv
<1>4. CASE SaveFails
  BY <1>1, <1>3, <1>4 DEF SaveFails, disk, IInv, RowsInv, Active, InMemory
<1>5. CASE SaveSession
  <2>1. h.id \in InMemory /\ h.id \in SessionIds /\ h.state \in GoodStates
    BY <1>2 DEF InMemory
  <2>2. rows' = [rows EXCEPT ![h.id] = RowOf(h.id, h.state)]
    BY <1>5 DEF SaveSession
  <2>3. SoundRow(RowOf(h.id, h.state))
    BY <2>1, SavedRow
  <2>4. /\ rows' = [id \in SessionIds |-> rows'[id]]
        /\ \A id \in SessionIds :
             rows'[id] = IF id = h.id THEN RowOf(h.id, h.state) ELSE rows[id]
    BY <2>1, <2>2 DEF IInv, RowsInv
  <2>5. InMemory' = InMemory
    BY <1>1 DEF InMemory
  <2> HIDE DEF h
  <2>6. RowsInv'
    BY <1>1, <2>1, <2>3, <2>4, <2>5 DEF IInv, RowsInv, Active
  <2> QED
    BY <1>3, <2>6 DEF IInv
<1> QED
  BY <1>4, <1>5

\* Opening keeps the rows of a database that is there and begins with none
\* otherwise.
LEMMA OpenKeeps ==
    ASSUME IInv, Open, process # "ready"
    PROVE  IInv'
<1>1. process' = "recovering" /\ UNCHANGED <<sessions, queue>> /\ queue = <<>>
  BY DEF Open, memory, IInv, MemoryInv
<1>2. CASE UNCHANGED rows
  BY <1>1, <1>2, ElsewhereKeeps
<1>3. CASE rows' = [id \in SessionIds |-> NoSession]
  BY <1>1, <1>3 DEF IInv, MemoryInv, RowsInv, InMemory
<1> QED
  BY <1>2, <1>3 DEF Open

\* IInv is inductive.
LEMMA NextKeeps == IInv /\ [Next]_vars => IInv'
<1> SUFFICES ASSUME IInv, [Next]_vars PROVE IInv'
  OBVIOUS
<1>1. process # "ready" => queue = <<>>
  BY DEF IInv, MemoryInv
<1>2. CASE Start
  BY <1>1, <1>2, ElsewhereKeeps DEF Start, memory, disk
<1>3. CASE Damage
  BY <1>3, DamageKeeps
<1>4. CASE Crash
  BY <1>4, EndKeeps DEF Crash, disk
<1>5. CASE OpenExisting \/ Reopen
  BY <1>5, OpenKeeps DEF OpenExisting, Reopen
<1>6. CASE OpenCorrupt \/ MoveAside \/ MovedAside \/ OpenFails
  <2>1. UNCHANGED <<sessions, queue, rows>> /\ process # "ready" /\ process' # "ready"
    BY <1>6 DEF OpenCorrupt, MoveAside, MovedAside, OpenFails, memory, disk
  <2> QED
    BY <1>1, <2>1, ElsewhereKeeps
<1>7. CASE \E at \in Times : Recover(at)
  BY <1>7, RecoverKeeps
<1>8. CASE RecoverFails
  BY <1>1, <1>8, ElsewhereKeeps DEF RecoverFails, memory, disk
<1>9. CASE \E id \in SessionIds, e \in Events : Publish(id, e)
  BY <1>9, PublishKeeps
<1>10. CASE SaveSession \/ SaveFails
  BY <1>10, SaveKeeps
<1>11. CASE Stop
  BY <1>11, EndKeeps DEF Stop
<1>12. CASE UNCHANGED vars
  BY <1>1, <1>12, ElsewhereKeeps DEF vars, memory, disk
<1> QED
  BY <1>2, <1>3, <1>4, <1>5, <1>6, <1>7, <1>8, <1>9, <1>10, <1>11, <1>12 DEF Next, Opening

\* IInv holds in every reachable state.
LEMMA Invariance == Spec => []IInv
BY InitHolds, NextKeeps, PTL DEF Spec

\* After any sequence of crashes, clean ends and damage: what an earlier
\* process left open was closed, whole and once, before the application runs.
THEOREM StaleSessionsAlwaysClosed == Spec => []StaleSessionsAreClosed
<1>1. IInv => StaleSessionsAreClosed
  BY DEF IInv, RowsInv, SoundRow, Active, InMemory, StaleSessionsAreClosed
<1> QED
  BY <1>1, Invariance, PTL

\* Whatever the startup's clock says, recovery only adds the missing end.
THEOREM TrailSurvivesRecovery == Spec => RecoveryKeepsTrail
<1>1. IInv /\ [Next]_vars =>
        [process = "recovering" /\ process' = "ready" =>
          \A id \in SessionIds : rows'[id] # rows[id] =>
             KeepsHistory(rows[id].state, rows'[id].state)]_vars
  <2> SUFFICES ASSUME IInv, Next, process = "recovering", process' = "ready"
               PROVE  \A id \in SessionIds : rows'[id] # rows[id] =>
                        KeepsHistory(rows[id].state, rows'[id].state)
    OBVIOUS
  <2>1. PICK at \in Times : Recover(at)
    BY DEF Next, Opening, Start, Damage, Crash, OpenExisting, Reopen, OpenCorrupt, MoveAside,
           MovedAside, OpenFails, RecoverFails, Publish, SaveSession, SaveFails, Stop
  <2> QED
    BY <2>1, RecoverKeeps
<1> QED
  BY <1>1, Invariance, PTL DEF Spec, RecoveryKeepsTrail
-----------------------------------------------------------------------------
\* Where the sidecars of a database may be: next to it, in a quarantine that
\* runs, or left behind by one that did not come to its end.
FilesInv ==
    /\ files = [f \in Files |-> files[f]]
    /\ created \in Nat /\ 0 \notin corrupt
    /\ files["db"] # 0 => \A f \in Files : files[f] \in {0, files["db"]}
    /\ process = "moving" => \A f \in Files : files[f] \in {0} \cup corrupt \cup interrupted
    /\ process # "moving" /\ files["db"] = 0 =>
         \A f \in Files : files[f] \in {0} \cup interrupted
    /\ EvidenceIsKept

\* FilesInv holds at first: there is no file.
LEMMA NoFilesAtFirst == Init => FilesInv
BY DEF Init, FilesInv, EvidenceIsKept, Files

\* Opening loses sidecars only where there is no database.
LEMMA OpenKeepsFiles ==
    ASSUME FilesInv, Open, process # "moving"
    PROVE  FilesInv'
<1>1. process' = "recovering" /\ UNCHANGED <<corrupt, interrupted>>
  BY DEF Open
<1>2. CASE files["db"] = 0
  <2>1. files' = [f \in Files |-> created + 1] /\ created' = created + 1
        /\ lost' = lost \cup Sidecars
    BY <1>2 DEF Open
  <2>2. EvidenceIsKept'
    BY <1>1, <1>2, <2>1 DEF FilesInv, EvidenceIsKept, Sidecars
  <2> QED
    BY <1>1, <2>1, <2>2 DEF FilesInv, Files
<1>3. CASE files["db"] # 0
  <2>1. files' = [f \in Files |-> files["db"]] /\ UNCHANGED <<created, lost>>
    BY <1>3 DEF Open
  <2> QED
    BY <1>1, <1>3, <2>1 DEF FilesInv, EvidenceIsKept, Files
<1> QED
  BY <1>2, <1>3

\* A close moves no file to another database and removes no database.
LEMMA CloseKeepsFiles ==
    ASSUME FilesInv, files' \in AfterClose
    PROVE  /\ files' = [f \in Files |-> files'[f]]
           /\ files'["db"] = files["db"]
           /\ \A f \in Files : files'[f] \in {0, files[f]}
           /\ files["db"] = 0 => files' = files
BY DEF AfterClose, Merged, FilesInv, Files

\* FilesInv is inductive.
LEMMA NextKeepsFiles == FilesInv /\ [Next]_vars => FilesInv'
<1> SUFFICES ASSUME FilesInv, [Next]_vars PROVE FilesInv'
  OBVIOUS
<1>1. CASE Start \/ RecoverFails \/ UNCHANGED vars
  BY <1>1 DEF Start, RecoverFails, vars, disk, FilesInv, EvidenceIsKept
<1>2. CASE Damage
  BY <1>2 DEF Damage, FilesInv, EvidenceIsKept
<1>3. CASE Crash \/ OpenFails
  <2>1. /\ process' # "moving" /\ UNCHANGED <<created, corrupt, lost>>
        /\ interrupted' = interrupted \cup (IF process = "moving" THEN corrupt ELSE {})
        /\ files' = files \/ (process = "opening" /\ files' \in AfterClose)
    BY <1>3 DEF Crash, OpenFails, disk
  <2>2. CASE files' = files
    BY <2>1, <2>2 DEF FilesInv, EvidenceIsKept
  <2>3. CASE files' \in AfterClose /\ process = "opening"
    BY <2>1, <2>3, CloseKeepsFiles DEF FilesInv, EvidenceIsKept
  <2> QED
    BY <2>1, <2>2, <2>3
<1>4. CASE OpenExisting \/ Reopen
  BY <1>4, OpenKeepsFiles DEF OpenExisting, Reopen
<1>5. CASE OpenCorrupt
  <2>1. /\ files' \in AfterClose /\ files["db"] \in corrupt /\ process' = "moving"
        /\ UNCHANGED <<created, corrupt, lost, interrupted>>
    BY <1>5 DEF OpenCorrupt
  <2> QED
    BY <2>1, CloseKeepsFiles DEF FilesInv, EvidenceIsKept
<1>6. CASE MoveAside
  <2>1. /\ NextToMove \in Files
        /\ files' = [files EXCEPT ![NextToMove] = 0]
        /\ process = "moving"
        /\ UNCHANGED <<process, created, corrupt, interrupted, lost>>
        /\ files["db"] # 0 => NextToMove = "db"
    BY <1>6 DEF MoveAside, NextToMove, LeftToMove, Files
  <2>2. \A f \in Files : files'[f] = IF f = NextToMove THEN 0 ELSE files[f]
    BY <2>1 DEF FilesInv
  <2>3. files'["db"] = 0
    BY <2>1, <2>2 DEF Files
  <2> QED
    BY <2>1, <2>2, <2>3 DEF FilesInv, EvidenceIsKept
<1>7. CASE MovedAside
  BY <1>7 DEF MovedAside, LeftToMove, disk, FilesInv, EvidenceIsKept
<1>8. CASE \E at \in Times : Recover(at)
  BY <1>8 DEF Recover, FilesInv, EvidenceIsKept
<1>9. CASE \E id \in SessionIds, e \in Events : Publish(id, e)
  BY <1>9 DEF Publish, disk, FilesInv, EvidenceIsKept
<1>10. CASE SaveSession \/ SaveFails
  BY <1>10 DEF SaveSession, SaveFails, disk, FilesInv, EvidenceIsKept
<1>11. CASE Stop
  BY <1>11 DEF Stop, Merged, FilesInv, EvidenceIsKept, Files
<1> QED
  BY <1>1, <1>2, <1>3, <1>4, <1>5, <1>6, <1>7, <1>8, <1>9, <1>10, <1>11 DEF Next, Opening

\* After any number of crashes, damaged databases and failing renames: a
\* database is never lost, a sidecar only after an interrupted quarantine.
THEOREM EvidenceAlwaysKept == Spec => []EvidenceIsKept
<1>1. FilesInv => EvidenceIsKept
  BY DEF FilesInv
<1> QED
  BY <1>1, NoFilesAtFirst, NextKeepsFiles, PTL DEF Spec
-----------------------------------------------------------------------------
\* The part of the types that speaks of the disk: a file belongs to a database
\* that was created, and only those can be damaged.
DiskTypes ==
    /\ files \in [Files -> 0..created] /\ created \in 0..MaxGenerations
    /\ corrupt \subseteq 1..created

RowTypes ==
    /\ rows = [id \in SessionIds |-> rows[id]]
    /\ \A id \in SessionIds : rows[id] = NoSession \/ IsRow(rows[id])

\* What recovery makes of a stored state is that of a session, but for an end
\* no event need carry.
LEMMA RecoveredIsSaved ==
    ASSUME NEW s \in SessionStates, TrailOrdered(s), NEW at \in Times
    PROVE  RecoveredEnd(s, at) \in Nat /\ IsSaved(RecoveredState(s, at))
<1> DEFINE end == RecoveredEnd(s, at)
           c == [Current(s) EXCEPT !.endedAt = end]
           w == IF s.intervals = <<>> THEN s ELSE WithCurrent(s, c)
           t == RecoveredState(s, at)
<1>1. s.intervals # <<>> => Current(s) \in Intervals
  BY DEF SessionStates, Current, Last
<1>2. end \in Nat
  <2>1. s.intervals # <<>> =>
          Current(s).startedAt \in Nat /\ Current(s).endedAt \in Nat \cup {NoTime}
    BY <1>1, TimesAreNat DEF Intervals
  <2> QED
    BY <2>1, TimesAreNat, ClampBounds DEF RecoveredEnd
<1> HIDE DEF end
<1>3. s.intervals # <<>> => c \in Intervals
  BY <1>1, <1>2 DEF Intervals
<1> HIDE DEF c
<1>4. w \in SessionStates
  BY <1>3, WithCurrentEffect
<1>5. t = [w EXCEPT !.stoppedAt = end, !.paused = FALSE]
  BY DEF RecoveredState, c, end
<1> HIDE DEF w
<1>6. t.stoppedAt = end /\ [t EXCEPT !.stoppedAt = NoTime] \in SessionStates
  BY <1>4, <1>5 DEF SessionStates
<1> HIDE DEF t
<1>7. IsSaved(t)
  BY <1>2, <1>6 DEF IsSaved
<1> QED
  BY <1>2, <1>7 DEF end, t

\* A row that SaveSession writes, and one that recovery writes.
LEMMA WrittenRow ==
    ASSUME RowTypes, NEW id \in SessionIds, NEW s \in SessionStates
    PROVE  IsRow(RowOf(id, s))
<1>1. s.startedAt \in Times /\ s.stoppedAt \in Nat \cup {NoTime}
      /\ [s EXCEPT !.stoppedAt = NoTime] \in SessionStates
  BY TimesAreNat DEF SessionStates
<1>2. IsSaved(s)
  BY <1>1 DEF IsSaved
<1>3. rows[id] # NoSession => rows[id].started \in Times
  BY DEF RowTypes, IsRow
<1> QED
  BY <1>1, <1>2, <1>3 DEF IsRow, RowOf, StatusOf, Unfinished

\* Every step keeps the rows well-typed: those recovery closes have a state of
\* the engine, and what is saved comes from the engine.
LEMMA NextKeepsRows == IInv /\ RowTypes /\ [Next]_vars => RowTypes'
<1> SUFFICES ASSUME IInv, RowTypes, [Next]_vars PROVE RowTypes'
  OBVIOUS
<1>1. CASE UNCHANGED rows
  BY <1>1 DEF RowTypes
<1>2. CASE Damage
  <2>1. ASSUME NEW id \in SessionIds, rows[id] # NoSession,
               rows' = [rows EXCEPT ![id].state = Unreadable]
        PROVE  RowTypes'
    <3>1. IsRow(rows[id]) /\ SoundRow(rows[id]) /\ rows = [other \in SessionIds |-> rows[other]]
      BY <2>1 DEF IInv, RowsInv, RowTypes
    <3>2. /\ rows' = [other \in SessionIds |-> rows'[other]]
          /\ \A other \in SessionIds \ {id} : rows'[other] = rows[other]
          /\ rows'[id] = [rows[id] EXCEPT !.state = Unreadable]
      BY <2>1, <3>1
    <3>3. IsRow(rows'[id])
      BY <3>1, <3>2 DEF IsRow, SoundRow
    <3> QED
      BY <3>2, <3>3 DEF RowTypes
  <2> QED
    BY <1>1, <1>2, <2>1 DEF Damage
<1>3. CASE OpenExisting \/ Reopen
  BY <1>1, <1>3 DEF OpenExisting, Reopen, Open, RowTypes
<1>4. ASSUME NEW at \in Times, Recover(at)
      PROVE  RowTypes'
  <2>1. rows' = [id \in SessionIds |-> rows'[id]]
    BY <1>4 DEF Recover
  <2>2. \A id \in SessionIds \ Stale : rows'[id] = rows[id]
    BY <1>4 DEF Recover
  <2>3. ASSUME NEW id \in Stale
        PROVE  IsRow(rows'[id])
    <3> DEFINE s == rows[id].state
    <3>1. /\ id \in SessionIds /\ rows[id] # NoSession /\ SoundRow(rows[id]) /\ IsRow(rows[id])
          /\ s \in SessionStates /\ TrailOrdered(s)
      BY <1>4, <2>3 DEF Stale, Recover, IInv, RowsInv, RowTypes, SoundRow
    <3>2. rows'[id] = [rows[id] EXCEPT !.status = "recovered", !.stopped = RecoveredEnd(s, at),
                                       !.state = RecoveredState(s, at)]
      BY <1>4, <2>3, <3>1 DEF Recover
    <3>3. RecoveredEnd(s, at) \in Nat /\ IsSaved(RecoveredState(s, at))
      BY <3>1, RecoveredIsSaved
    <3> HIDE DEF s
    <3> QED
      BY <3>1, <3>2, <3>3 DEF IsRow, SoundRow
  <2> QED
    BY <2>1, <2>2, <2>3 DEF RowTypes
<1>5. CASE SaveSession
  <2> PICK h : h = Head(queue)
    OBVIOUS
  <2>1. rows' = [rows EXCEPT ![h.id] = RowOf(h.id, h.state)]
    BY <1>5 DEF SaveSession
  <2>2. h.id \in SessionIds /\ h.state \in SessionStates
    <3> DEFINE E == [id : InMemory, state : GoodStates]
    <3>1. queue \in Seq(E) /\ queue # <<>>
      BY <1>5 DEF SaveSession, IInv, MemoryInv
    <3> HIDE DEF E
    <3>2. h \in E
      BY <3>1
    <3> QED
      BY <3>2 DEF E, InMemory, GoodStates
  <2>3. IsRow(RowOf(h.id, h.state))
    BY <2>2, WrittenRow
  <2> QED
    BY <2>1, <2>2, <2>3 DEF RowTypes
<1>6. UNCHANGED rows \/ Damage \/ OpenExisting \/ Reopen
        \/ (\E at \in Times : Recover(at)) \/ SaveSession
  BY DEF Next, vars, disk, Opening, Start, Crash, OpenCorrupt, MoveAside, MovedAside, OpenFails,
         RecoverFails, Publish, SaveFails, Stop
<1> QED
  BY <1>1, <1>2, <1>3, <1>4, <1>5, <1>6

\* Files move between their places and nowhere else; a new database is the next
\* in number.
LEMMA NextKeepsDisk == DiskTypes /\ [Next]_vars => DiskTypes'
<1> SUFFICES ASSUME DiskTypes, [Next]_vars PROVE DiskTypes'
  OBVIOUS
<1>1. created \in Nat /\ MaxGenerations \in Nat /\ "db" \in Files
  BY JournalAssumption DEF DiskTypes, Files
<1>2. CASE UNCHANGED <<files, created, corrupt>>
  BY <1>2 DEF DiskTypes
<1>3. CASE Damage
  <2>1. files["db"] \in 1..created
    BY <1>1, <1>3 DEF Damage, DiskTypes
  <2>2. UNCHANGED <<files, created>>
    BY <1>3 DEF Damage
  <2>3. corrupt' \subseteq 1..created
    BY <1>3, <2>1 DEF Damage, DiskTypes
  <2> QED
    BY <2>2, <2>3 DEF DiskTypes
<1>4. CASE Open
  <2>1. CASE files["db"] = 0
    <3>1. files' = [f \in Files |-> created + 1] /\ created' = created + 1
          /\ created < MaxGenerations /\ corrupt' = corrupt
      BY <1>4, <2>1 DEF Open
    <3>2. created' \in 0..MaxGenerations /\ created + 1 \in 0..created'
          /\ 1..created \subseteq 1..created'
      BY <1>1, <3>1
    <3> QED
      BY <3>1, <3>2 DEF DiskTypes
  <2>2. CASE files["db"] # 0
    <3>1. files' = [f \in Files |-> files["db"]] /\ UNCHANGED <<created, corrupt>>
      BY <1>4, <2>2 DEF Open
    <3> QED
      BY <1>1, <3>1 DEF DiskTypes
  <2> QED
    BY <2>1, <2>2
<1>5. CASE MoveAside
  <2>1. files' = [files EXCEPT ![NextToMove] = 0] /\ UNCHANGED <<created, corrupt>>
    BY <1>5 DEF MoveAside
  <2>2. 0 \in 0..created
    BY <1>1
  <2> QED
    BY <2>1, <2>2 DEF DiskTypes
<1>6. CASE Stop \/ OpenCorrupt \/ OpenFails
  <2>1. UNCHANGED <<created, corrupt>> /\ 0 \in 0..created /\ files' \in {files, Merged}
    BY <1>1, <1>6 DEF Stop, OpenCorrupt, OpenFails, AfterClose
  <2> QED
    BY <2>1 DEF Merged, DiskTypes
<1>7. \/ UNCHANGED <<files, created, corrupt>> \/ Damage \/ Open \/ MoveAside
      \/ Stop \/ OpenCorrupt \/ OpenFails
  BY DEF Next, vars, disk, Opening, Start, Crash, OpenExisting, Reopen, MovedAside, Recover,
         RecoverFails, Publish, SaveSession, SaveFails
<1> QED
  BY <1>2, <1>3, <1>4, <1>5, <1>6, <1>7

\* Memory, rows and files keep their declared shape whatever was damaged, cut
\* short or recovered; recovered rows are again states the engine can read.
THEOREM JournalTypeCorrect == Spec => []TypeOK
<1>1. Init => RowTypes /\ DiskTypes
  BY JournalAssumption DEF Init, RowTypes, DiskTypes
<1>2. IInv /\ RowTypes /\ DiskTypes => TypeOK
  BY DEF IInv, MemoryInv, InMemory, GoodStates, RowTypes, DiskTypes, TypeOK
<1> QED
  BY <1>1, <1>2, Invariance, NextKeepsRows, NextKeepsDisk, PTL DEF Spec
=============================================================================
