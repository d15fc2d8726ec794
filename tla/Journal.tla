------------------------------- MODULE Journal ------------------------------
(***************************************************************************)
(* internal/store/store.go under one desktop process after another: the    *)
(* process may end between any two steps, clean or not, and the next one   *)
(* opens what it left.  A corrupt database is moved aside with its         *)
(* sidecars; sessions somebody left open are closed.                       *)
(*                                                                         *)
(* A database is a generation, numbered as they are created, in up to      *)
(* three files.  SQLite itself is external: a transaction takes effect     *)
(* whole or not at all, the last clean close merges the sidecars, and      *)
(* sidecars found next to no database are deleted.  Event rows and the     *)
(* journal queue's limit are in LiveDesktop.                               *)
(***************************************************************************)
EXTENDS SessionEngine

CONSTANTS
    Unreadable,         \* state_json that does not decode
    MaxStarts,          \* bound: processes
    MaxPublished,       \* bound: events published
    MaxGenerations      \* bound: databases created

ASSUME JournalAssumption ==
    /\ Unreadable \notin SessionStates \cup {NoSession}
    /\ MaxStarts \in Nat /\ MaxPublished \in Nat /\ MaxGenerations \in Nat

Files == {"db", "wal", "shm"}

VARIABLES
    process,        \* "down", "opening", "moving", "reopening", "recovering", "ready",
                    \* "unavailable"
    starts,         \* processes started
    published,      \* events published
    queue,          \* states on their way to the journal: [id, state]
    files,          \* the generation each file belongs to, 0 when there is none
    created,        \* databases created
    corrupt,        \* generations that fail the integrity check
    rows,           \* table sessions: NoSession, or [started, stopped, status, state]
    quarantined,    \* files moved aside: <<file, generation>>
    lost,           \* history: files that are gone otherwise
    interrupted     \* history: generations whose quarantine did not come to its end

memory == <<sessions, queue, published>>
disk   == <<files, created, corrupt, rows, quarantined, lost>>
vars   == <<process, starts, memory, disk, interrupted>>

Init ==
    /\ process = "down" /\ starts = 0 /\ published = 0
    /\ EngineInit /\ queue = <<>>
    /\ files = [f \in Files |-> 0] /\ created = 0 /\ corrupt = {}
    /\ rows = [id \in SessionIds |-> NoSession]
    /\ quarantined = {} /\ lost = {} /\ interrupted = {}
-----------------------------------------------------------------------------
(* Between processes.                                                      *)

Start ==
    /\ process = "down" /\ starts < MaxStarts
    /\ starts' = starts + 1
    /\ process' = "opening"
    /\ UNCHANGED <<memory, disk, interrupted>>

\* The disk damages the database, or a row's text.
Damage ==
    /\ process = "down" /\ files["db"] # 0
    /\ \/ /\ corrupt' = corrupt \cup {files["db"]}
          /\ UNCHANGED rows
       \/ /\ \E id \in SessionIds :
                /\ rows[id] # NoSession
                /\ rows' = [rows EXCEPT ![id].state = Unreadable]
          /\ UNCHANGED corrupt
    /\ UNCHANGED <<process, starts, memory, files, created, quarantined, lost, interrupted>>

\* The process is killed, or the machine stops.
Crash ==
    /\ process # "down"
    /\ process' = "down"
    /\ sessions' = [id \in SessionIds |-> NoSession] /\ queue' = <<>>
    /\ interrupted' = interrupted \cup (IF process = "moving" THEN corrupt ELSE {})
    /\ UNCHANGED <<starts, published, disk>>
-----------------------------------------------------------------------------
(* OpenRecovering.                                                         *)

\* What a close leaves: if it is the last one SQLite merges the sidecars into
\* the database.
Merged == [f \in Files |-> IF f = "db" THEN files[f] ELSE 0]
AfterClose == IF files["db"] = 0 THEN {files} ELSE {files, Merged}

Sidecars == {<<f, files[f]>> : f \in {g \in Files \ {"db"} : files[g] # 0}}

\* Opening where there is no database creates one.
Open ==
    /\ IF files["db"] = 0
       THEN /\ created < MaxGenerations
            /\ created' = created + 1
            /\ files' = [f \in Files |-> created + 1]
            /\ lost' = lost \cup Sidecars
            /\ rows' = [id \in SessionIds |-> NoSession]
       ELSE /\ files["db"] \notin corrupt
            /\ files' = [f \in Files |-> files["db"]]
            /\ UNCHANGED <<created, lost, rows>>
    /\ process' = "recovering"
    /\ UNCHANGED <<starts, memory, corrupt, quarantined, interrupted>>

OpenExisting == process = "opening" /\ Open
Reopen       == process = "reopening" /\ Open

\* The integrity check or a migration finds the damage.
OpenCorrupt ==
    /\ process = "opening" /\ files["db"] \in corrupt
    /\ process' = "moving"
    /\ files' \in AfterClose
    /\ UNCHANGED <<starts, memory, created, corrupt, rows, quarantined, lost, interrupted>>

\* Fault: the sidecars stay.
DatabaseOnly == {"db"} \cap {f \in Files : files[f] # 0}

\* What quarantine still has to move.
LeftToMove == {f \in Files : files[f] # 0}

\* quarantine renames the database first, then the sidecars in this order.
NextToMove ==
    IF "db" \in LeftToMove THEN "db" ELSE IF "wal" \in LeftToMove THEN "wal" ELSE "shm"

MoveAside ==
    /\ process = "moving" /\ LeftToMove # {}
    /\ quarantined' = quarantined \cup {<<NextToMove, files[NextToMove]>>}
    /\ files' = [files EXCEPT ![NextToMove] = 0]
    /\ UNCHANGED <<process, starts, memory, created, corrupt, rows, lost, interrupted>>

MovedAside ==
    /\ process = "moving" /\ LeftToMove = {}
    /\ process' = "reopening"
    /\ UNCHANGED <<starts, memory, disk, interrupted>>

\* The file is locked, a rename fails, or the second open does: the
\* application runs without a journal.
OpenFails ==
    /\ process \in {"opening", "moving", "reopening"}
    /\ process' = "unavailable"
    /\ interrupted' = interrupted \cup (IF process = "moving" THEN corrupt ELSE {})
    /\ files' \in IF process = "opening" THEN AfterClose ELSE {files}
    /\ UNCHANGED <<starts, memory, created, corrupt, rows, quarantined, lost>>
-----------------------------------------------------------------------------
(* RecoverActiveSessions, one transaction.                                 *)

\* closeStaleInterval: an access that was ended ends the session; an open one
\* ends at the startup, no later than idle and no earlier than it began.
RecoveredEnd(s, at) ==
    IF s.intervals = <<>> THEN at
    ELSE IF Current(s).endedAt # NoTime THEN Current(s).endedAt
    ELSE Clamp(at, Current(s).startedAt, Current(s).startedAt + IdleTimeout)

\* Fault: the first access is closed in place of the last.
RecoveredFirst(s, at) ==
    LET end == RecoveredEnd(s, at)
        closed == IF s.intervals = <<>> THEN s
                  ELSE [s EXCEPT !.intervals[1].endedAt = end]
    IN  [closed EXCEPT !.stoppedAt = end, !.paused = FALSE]

RecoveredState(s, at) ==
    LET end == RecoveredEnd(s, at)
        closed == IF s.intervals = <<>> THEN s
                  ELSE WithCurrent(s, [Current(s) EXCEPT !.endedAt = end])
    IN  [closed EXCEPT !.stoppedAt = end, !.paused = FALSE]

\* The statuses of a session that did not end.
Unfinished == {"active", "paused"}

\* Fault: a session without an open access is not stale.
StaleIfOpen == {id \in SessionIds : rows[id] # NoSession /\ rows[id].status \in Unfinished
                                    /\ (rows[id].state = Unreadable \/ HasOpen(rows[id].state))}

Stale == {id \in SessionIds : rows[id] # NoSession /\ rows[id].status \in Unfinished}

Recover(at) ==
    /\ process = "recovering"
    /\ \A id \in Stale : rows[id].state # Unreadable
    /\ rows' = [id \in SessionIds |->
                  IF id \in Stale
                  THEN [rows[id] EXCEPT !.status = "recovered",
                                        !.stopped = RecoveredEnd(rows[id].state, at),
                                        !.state = RecoveredState(@, at)]
                  ELSE rows[id]]
    /\ process' = "ready"
    /\ UNCHANGED <<starts, memory, files, created, corrupt, quarantined, lost, interrupted>>

\* One row that does not decode, or two seconds gone: nothing is recovered.
RecoverFails ==
    /\ process = "recovering"
    /\ process' = "unavailable"
    /\ UNCHANGED <<starts, memory, disk, interrupted>>
-----------------------------------------------------------------------------
(* The process at work.                                                    *)

\* A published event; without a journal the state is not queued.
Publish(id, e) ==
    /\ process \in {"ready", "unavailable"} /\ published < MaxPublished
    /\ published' = published + 1
    /\ ApplyStart(id, e) \/ ApplyOther(id, e)
    /\ queue' = IF process = "ready" THEN Append(queue, [id |-> id, state |-> sessions'[id]])
                ELSE queue
    /\ UNCHANGED <<process, starts, disk, interrupted>>

StatusOf(s) == IF s.stoppedAt # NoTime THEN "stopped" ELSE IF s.paused THEN "paused" ELSE "active"

\* Fault: the two instants of the row change places.
RowSwapped(id, s) ==
    [started |-> s.stoppedAt, stopped |-> s.startedAt, status |-> StatusOf(s), state |-> s]

\* An upsert that leaves the row's start as it is.
RowOf(id, s) ==
    [started |-> IF rows[id] = NoSession THEN s.startedAt ELSE rows[id].started,
     stopped |-> s.stoppedAt, status |-> StatusOf(s), state |-> s]

SaveSession ==
    /\ process = "ready" /\ queue # <<>>
    /\ rows' = [rows EXCEPT ![Head(queue).id] = RowOf(Head(queue).id, Head(queue).state)]
    /\ queue' = Tail(queue)
    /\ UNCHANGED <<process, starts, sessions, published, files, created, corrupt, quarantined,
                   lost, interrupted>>

SaveFails ==
    /\ process = "ready" /\ queue # <<>>
    /\ queue' = Tail(queue)
    /\ UNCHANGED <<process, starts, sessions, published, disk, interrupted>>

\* A clean end drains the queue, and SQLite removes the sidecars.
Stop ==
    /\ process \in {"ready", "unavailable"} /\ queue = <<>>
    /\ process' = "down"
    /\ sessions' = [id \in SessionIds |-> NoSession]
    /\ files' = IF process = "ready" THEN Merged ELSE files
    /\ UNCHANGED <<starts, queue, published, created, corrupt, rows, quarantined, lost,
                   interrupted>>

Opening == OpenExisting \/ Reopen \/ OpenCorrupt \/ MoveAside \/ MovedAside \/ OpenFails

Next ==
    \/ Start \/ Damage \/ Crash
    \/ Opening
    \/ \E at \in Times : Recover(at)
    \/ RecoverFails
    \/ \E id \in SessionIds, e \in Events : Publish(id, e)
    \/ SaveSession \/ SaveFails
    \/ Stop

Spec == Init /\ [][Next]_vars
-----------------------------------------------------------------------------
\* Recovery may stop a session at an instant no event carries.
IsSaved(s) == /\ s.stoppedAt \in Nat \cup {NoTime}
              /\ [s EXCEPT !.stoppedAt = NoTime] \in SessionStates

IsRow(row) ==
    /\ row.started \in Times /\ row.stopped \in Nat \cup {NoTime}
    /\ row.status \in Unfinished \cup {"stopped", "recovered"}
    /\ row.state = Unreadable \/ IsSaved(row.state)

TypeOK ==
    /\ sessions \in [SessionIds -> SessionStates \cup {NoSession}]
    /\ files \in [Files -> 0..created] /\ created \in 0..MaxGenerations
    /\ \A id \in SessionIds : rows[id] = NoSession \/ IsRow(rows[id])
    /\ corrupt \subseteq 1..created

\* A session closed by recovery is closed whole: stopped, nothing open, its
\* end within the idle cap of its last access whatever the startup's clock says.
ClosedWhole(row) ==
    /\ row.stopped = row.state.stoppedAt /\ row.stopped # NoTime
    /\ ~row.state.paused /\ ~HasOpen(row.state)
    /\ TrailOrdered(row.state)
    /\ row.state.intervals # <<>> => row.stopped = Current(row.state).endedAt

\* While the application runs, a row that says active or paused is a session it
\* has in memory: what an earlier process left open, by a crash at any moment or by a
\* clean end, was closed, each exactly once.
StaleSessionsAreClosed ==
    \A id \in SessionIds : rows[id] # NoSession =>
        /\ process = "ready" /\ rows[id].status \in Unfinished => sessions[id] # NoSession
        /\ rows[id].status = "recovered" /\ rows[id].state # Unreadable => ClosedWhole(rows[id])

\* Recovery changes no end, start or path an access already had.
RecoveryKeepsTrail ==
    [][process = "recovering" /\ process' = "ready" =>
         \A id \in SessionIds : rows'[id] # rows[id] =>
            KeepsHistory(rows[id].state, rows'[id].state)]_vars

\* "A corrupt database is never overwritten or deleted": its files are in
\* place or in quarantine.  A quarantine that stopped half way may cost the
\* sidecars: the next start finds no database and SQLite deletes them.
EvidenceIsKept ==
    \A missing \in lost : missing[1] # "db" /\ missing[2] \in interrupted
=============================================================================
