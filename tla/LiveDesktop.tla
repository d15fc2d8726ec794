----------------------------- MODULE LiveDesktop ----------------------------
(***************************************************************************)
(* apps/desktop/app.go: the live application between the collector, the    *)
(* diff pipeline, the journal and the renderer.  Every handler holds the   *)
(* application's lock from its first to its last statement, so each is one *)
(* action; the journal's goroutine writes the two rows of a record without *)
(* it, so each row is one.                                                 *)
(*                                                                         *)
(* Incoming events are [id, session, event]; the collector hands them over *)
(* one at a time and in any order.  Graph snapshots, identities and the    *)
(* messages to the renderer are left out; the focus on display is what     *)
(* Resync returns.                                                         *)
(***************************************************************************)
EXTENDS Replay

CONSTANTS
    SessionIds,
    Feed,               \* the events adapters send: [id, session, event]
    NoFocus,            \* currentFocus without a session
    MaxLoads,           \* bound: how often a project is loaded
    JournalCapacity,    \* capacity of journalQueue, 0 when the journal could not be opened
    GitLines            \* line counts Git may answer

ASSUME DesktopAssumption ==
    /\ \A x \in Feed : x.id \in Nat /\ x.session \in SessionIds /\ x.event \in Events
    /\ \A x, y \in Feed : x.id = y.id => x = y
    /\ IsFiniteSet(Feed)
    /\ MaxLoads \in Nat /\ JournalCapacity \in Nat
    /\ GitLines \subseteq Lines
    /\ {"pending", "known", "unknown"} \subseteq Statuses

VARIABLES
    loads,          \* projects loaded so far; nothing is published before the first
    sessions,       \* the engine's table
    focus,          \* currentFocus: NoFocus or [session, state]
    seen,           \* Deduper.seen: event ids
    inFlight,       \* requests with the diff pipeline
    closed,         \* the diff pipeline is closed
    stage,          \* shutdown: "running", "closing_diffs", "flushing", "stopped"
    journalQueue,   \* records [session, row, state]
    writing,        \* the row the journal writes next: "event" or "session"
    eventRows,      \* table events: [session, row]
    sessionRows,    \* table sessions: the last state saved per session
    degraded,       \* a record was lost or its write failed
    applied,        \* history: events that reached the engine
    inOrder,        \* history: their instants rise strictly and none follows a stop
    delivered       \* history: number of results delivered

workVars    == <<inFlight, closed>>
journalVars == <<journalQueue, writing, eventRows, sessionRows>>
history     == <<applied, inOrder, delivered>>
vars == <<loads, sessions, focus, seen, workVars, stage, journalVars, degraded, history>>

Known(id) == sessions[id] # NoSession

\* An event opens one access at most.
Sequences == 1..Cardinality({x \in Feed : Focuses(x.event)})

\* What submitDiff asks for: the key is the event's id.
WorkRequests ==
    {[key |-> x.id, session |-> x.session, sequence |-> n, lines |-> x.event.lines] :
        x \in Feed, n \in Sequences}
Work == INSTANCE WorkService WITH Items <- WorkRequests

Init ==
    /\ loads = 0
    /\ sessions = [id \in SessionIds |-> NoSession]
    /\ focus = NoFocus
    /\ seen = {}
    /\ Work!Init
    /\ stage = "running"
    /\ journalQueue = <<>>
    /\ writing = "event"
    /\ eventRows = {}
    /\ sessionRows = [id \in SessionIds |-> NoSession]
    /\ degraded = FALSE
    /\ applied = {}
    /\ inOrder = TRUE
    /\ delivered = 0
-----------------------------------------------------------------------------
(* Publication.                                                            *)

\* Fault: the old project's focus stays on display.
LoadProjectKeepingFocus ==
    /\ stage = "running"
    /\ loads < MaxLoads
    /\ loads' = loads + 1
    /\ sessions' = [id \in SessionIds |-> NoSession]
    /\ UNCHANGED <<focus, seen, workVars, stage, journalVars, degraded, history>>

\* LoadProject, also one that fails after its scan: a new engine and no focus,
\* while diff work goes on.
LoadProject ==
    /\ stage = "running"
    /\ loads < MaxLoads
    /\ loads' = loads + 1
    /\ sessions' = [id \in SessionIds |-> NoSession]
    /\ focus' = NoFocus
    /\ UNCHANGED <<seen, workVars, stage, journalVars, degraded, history>>

\* Fault: the queue has no limit.
QueueAlways(record) == journalQueue' = Append(journalQueue, record) /\ UNCHANGED degraded

\* queueJournal never blocks: without a journal, or with a full queue, the
\* record is lost.
QueueJournal(record) ==
    IF Len(journalQueue) < JournalCapacity
    THEN journalQueue' = Append(journalQueue, record) /\ UNCHANGED degraded
    ELSE degraded' = TRUE /\ UNCHANGED journalQueue

\* The focus on display, the journal record and the table agree on the state.
Commit(id, row, state) ==
    /\ sessions' = [sessions EXCEPT ![id] = state]
    /\ focus' = [session |-> id, state |-> state]
    /\ QueueJournal([session |-> id, row |-> row, state |-> state])
    /\ UNCHANGED <<writing, eventRows, sessionRows>>

EventRow(x) ==
    [id |-> x.id, type |-> x.event.type, ts |-> x.event.ts, event |-> x.event]

WorkTypes == {"file_created", "file_modified", "file_patched", "file_deleted"}

\* submitDiff asks about the last access if it is of the event's path, even
\* when the engine ignored the event.
WantsWork(s, e) ==
    e.type \in WorkTypes /\ e.path # NoPath /\ s.intervals # <<>> /\ Current(s).path = e.path

Request(x, s) ==
    [key |-> x.id, session |-> x.session, sequence |-> Len(s.intervals), lines |-> x.event.lines]

Pending(s, e) == SetWork(s, Len(s.intervals), e.lines, "pending")

\* Fault: refused work is pending too.
PendingAllTheSame(s) == SetWork(s, Len(s.intervals), NoLines, "pending")

Unknown(s) == SetWork(s, Len(s.intervals), NoLines, "unknown")

\* submitDiff: accepted work is pending, refused work is unknown.
SubmitDiff(x, s) ==
    \/ /\ ~WantsWork(s, x.event)
       /\ Commit(x.session, EventRow(x), s)
       /\ UNCHANGED workVars
    \/ /\ WantsWork(s, x.event)
       /\ Work!Accept(Request(x, s))
       /\ Commit(x.session, EventRow(x), Pending(s, x.event))
    \/ /\ WantsWork(s, x.event)
       /\ Commit(x.session, EventRow(x), Unknown(s))
       /\ UNCHANGED workVars

StartsSession(x) == x.event.type = "session_started"
Publishable(x) == loads > 0 /\ (StartsSession(x) \/ Known(x.session))

\* The state Apply returns.
AppliedState(x) ==
    IF ~StartsSession(x) THEN ApplyEvent(sessions[x.session], x.event)
    ELSE IF Known(x.session) THEN sessions[x.session] ELSE NewSession(x.event.ts)

\* The latest instant the application has seen.
Clock == Max({0} \cup {x.event.ts : x \in applied})

\* An event keeps the order if it is later than all before it and the session
\* goes on.
KeepsOrder(x) ==
    /\ x.event.ts > Clock
    /\ \A y \in applied : y.session = x.session => y.event.type # "session_stopped"

\* The handler of the collector: an event seen before goes no further.
Publish(x) ==
    /\ stage = "running"
    /\ x.id \notin seen
    /\ seen' = seen \cup {x.id}
    /\ Publishable(x)
    /\ SubmitDiff(x, AppliedState(x))
    /\ applied' = applied \cup {x}
    /\ inOrder' = (inOrder /\ KeepsOrder(x))
    /\ UNCHANGED <<loads, stage, delivered>>

\* No project is loaded or the session has not started: the event is lost, and
\* seen all the same.
PublishFails(x) ==
    /\ stage = "running"
    /\ x.id \notin seen
    /\ seen' = seen \cup {x.id}
    /\ ~Publishable(x)
    /\ UNCHANGED <<loads, sessions, focus, workVars, stage, journalVars, degraded, history>>
-----------------------------------------------------------------------------
(* Diff results.                                                           *)

\* The journal event of a result carries the instant of its delivery, after
\* everything published before and after the results delivered before.
ResultRow(r, lines, status) ==
    [id |-> Max({x.id : x \in Feed}) + 1 + delivered, type |-> "diff_calculated", ts |-> Clock,
     sequence |-> r.sequence, lines |-> lines, status |-> status]

\* Structured counts are the result; Git answers anything or nothing.
Results(r) ==
    IF r.lines # NoLines THEN {<<r.lines, "known">>}
    ELSE {<<NoLines, "unknown">>} \cup (GitLines \X {"known"})

\* Fault: only the latest access gets its result.
AttachableToLast(r) == Known(r.session) /\ Len(sessions[r.session].intervals) = r.sequence

Attachable(r) == Known(r.session) /\ HasSequence(sessions[r.session], r.sequence)

\* consumeDiffResults; a result without its access changes nothing.
Deliver(r) ==
    /\ stage \in {"running", "closing_diffs"}
    /\ Work!Deliver(r)
    /\ \/ /\ Attachable(r)
          /\ \E result \in Results(r) :
                Commit(r.session, ResultRow(r, result[1], result[2]),
                       SetWork(sessions[r.session], r.sequence, result[1], result[2]))
          /\ delivered' = delivered + 1
       \/ /\ ~Attachable(r)
          /\ UNCHANGED <<sessions, focus, journalVars, degraded, delivered>>
    /\ UNCHANGED <<loads, seen, stage, applied, inOrder>>
-----------------------------------------------------------------------------
(* The journal's goroutine.                                                *)

WriteEvent ==
    /\ journalQueue # <<>>
    /\ writing = "event"
    /\ LET record == Head(journalQueue)
       IN  eventRows' = eventRows \cup {[session |-> record.session, row |-> record.row]}
    /\ writing' = "session"
    /\ UNCHANGED <<loads, sessions, focus, seen, workVars, stage, journalQueue, sessionRows,
                   degraded, history>>

WriteSession ==
    /\ journalQueue # <<>>
    /\ writing = "session"
    /\ LET record == Head(journalQueue)
       IN  sessionRows' = [sessionRows EXCEPT ![record.session] = record.state]
    /\ writing' = "event"
    /\ journalQueue' = Tail(journalQueue)
    /\ UNCHANGED <<loads, sessions, focus, seen, workVars, stage, eventRows,
                   degraded, history>>

\* Fault: the session row is written although the event row failed.
WriteFailsUnnoticed ==
    /\ journalQueue # <<>>
    /\ writing = "event"
    /\ writing' = "session"
    /\ UNCHANGED <<loads, sessions, focus, seen, workVars, stage, journalQueue, eventRows,
                   sessionRows, degraded, history>>

\* A write fails or exceeds its second; the rest of the record is given up.
WriteFails ==
    /\ journalQueue # <<>>
    /\ journalQueue' = Tail(journalQueue)
    /\ writing' = "event"
    /\ degraded' = TRUE
    /\ UNCHANGED <<loads, sessions, focus, seen, workVars, stage, eventRows, sessionRows,
                   history>>
-----------------------------------------------------------------------------
(* App.shutdown, from the moment the collector has stopped.                *)

CloseDiffs ==
    /\ stage = "running"
    /\ stage' = "closing_diffs"
    /\ Work!Close
    /\ UNCHANGED <<loads, sessions, focus, seen, journalVars, degraded, history>>

\* The worker and the consumer are done; the journal's queue is closed.
StopJournal ==
    /\ stage = "closing_diffs"
    /\ stage' = "flushing"
    /\ UNCHANGED <<loads, sessions, focus, seen, workVars, journalVars, degraded, history>>

\* Fault: nobody waits for the journal's goroutine.
JournalAbandoned ==
    /\ stage = "flushing"
    /\ stage' = "stopped"
    /\ UNCHANGED <<loads, sessions, focus, seen, workVars, journalVars, degraded, history>>

JournalStopped ==
    /\ stage = "flushing"
    /\ journalQueue = <<>>
    /\ stage' = "stopped"
    /\ UNCHANGED <<loads, sessions, focus, seen, workVars, journalVars, degraded, history>>
-----------------------------------------------------------------------------
JournalStep  == WriteEvent \/ WriteSession \/ WriteFails
ShutdownStep == StopJournal \/ JournalStopped

Next ==
    \/ LoadProject
    \/ \E x \in Feed : Publish(x) \/ PublishFails(x)
    \/ \E r \in inFlight : Deliver(r)
    \/ JournalStep
    \/ CloseDiffs
    \/ ShutdownStep

\* The pipeline answers while it is open (WorkService), and goroutines run.
Fairness ==
    /\ \A r \in WorkRequests : WF_vars(~closed /\ Deliver(r))
    /\ WF_vars(JournalStep)
    /\ WF_vars(ShutdownStep)

Spec == Init /\ [][Next]_vars /\ Fairness
-----------------------------------------------------------------------------
TypeOK ==
    /\ sessions \in [SessionIds -> SessionStates \cup {NoSession}]
    /\ sessionRows \in [SessionIds -> SessionStates \cup {NoSession}]
    /\ Len(journalQueue) <= JournalCapacity
    /\ inFlight \subseteq WorkRequests

\* "One authoritative renderer view": what Resync returns is the state the
\* engine has, after publications, results and project loads alike.
FocusIsCurrent == focus # NoFocus => focus.state = sessions[focus.session]

IsPending(id, n) ==
    Known(id) /\ n \in DOMAIN sessions[id].intervals /\ sessions[id].intervals[n].status = "pending"

\* An access is shown as pending only while somebody works on it: a result
\* will come, or the pipeline is closed.
PendingHasRequest ==
    \A id \in SessionIds, n \in Sequences :
        IsPending(id, n) => \E r \in inFlight : r.session = id /\ r.sequence = n

\* A session row never shows an access whose event is not in the journal,
\* at whatever moment the process ends, unless the journal lost records.
SessionRowsAreBacked ==
    ~degraded => \A id \in SessionIds : sessionRows[id] # NoSession =>
        \A i \in DOMAIN sessionRows[id].intervals :
            \E stored \in eventRows : stored.session = id
                                   /\ stored.row.ts = Starts(sessionRows[id], i)

RowsOf(id) == {stored.row : stored \in {e \in eventRows : e.session = id}}

\* "Flush the journal queue, then close SQLite": a shutdown that lost nothing
\* leaves every published event and the last state of every session behind.
ShutdownFlushes ==
    stage = "stopped" /\ ~degraded =>
        /\ \A x \in applied : EventRow(x) \in RowsOf(x.session)
        /\ \A id \in SessionIds : Known(id) => sessionRows[id] = sessions[id]

\* A pending access gets its result while the application runs.
PendingSettles ==
    \A id \in SessionIds, n \in Sequences :
        IsPending(id, n) ~> (closed \/ ~IsPending(id, n))

\* What replay shows of an access: everything but the end of one that was open
\* and work that never had a result.
Shows(i, replayed) ==
    /\ replayed.path = i.path
    /\ replayed.startedAt = i.startedAt
    /\ i.endedAt # NoTime => replayed.endedAt = i.endedAt
    /\ i.status = "known" => replayed.lines = i.lines /\ replayed.status = "known"

Replayed(id) == Reconstruct(RowsOf(id), Cardinality(RowsOf(id)))

Restores(id) ==
    LET live == sessions[id].intervals
    IN  /\ Replayed(id) \notin {NoSession, Failed}
        /\ Len(Replayed(id).intervals) = Len(live)
        /\ \A i \in DOMAIN live : Shows(live[i], Replayed(id).intervals[i])

\* One project was loaded, the journal has everything, and nothing changes it.
JournalIsComplete == stage = "stopped" /\ ~degraded /\ loads = 1

\* When the journal lost nothing and events came in order, replay restores the
\* live trail with its durations and its work.
ReplayRestoresTrail ==
    JournalIsComplete /\ inOrder => \A id \in SessionIds : Known(id) => Restores(id)

\* TIMELINE_REPLAY.md: replay restores the trail with its "exact duration and
\* work values".  Late events, which the engine ignored, are not ignored by
\* replay: they shift the sequence numbers that work results name.
ReplayRestoresWork ==
    JournalIsComplete => \A id \in SessionIds : Known(id) =>
        \A i \in DOMAIN sessions[id].intervals : sessions[id].intervals[i].status = "known" =>
            /\ i \in DOMAIN Replayed(id).intervals
            /\ Replayed(id).intervals[i].path = sessions[id].intervals[i].path
            /\ Replayed(id).intervals[i].lines = sessions[id].intervals[i].lines
=============================================================================
