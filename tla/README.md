# A verification development for agent-action-visualizer

The program watches coding agents at work. Adapters (hooks, a process wrapper, a
filesystem observer) send small events to a desktop application, which keeps a
focus and a trail of file accesses per session, counts the lines each access
changed, draws all of it over a graph of the repository, and journals it for
replay. Paths below are relative to `src/`.

## 1. The system

| Component | State | Operations | Hard behaviour | What makes it correct |
|---|---|---|---|---|
| Session engine `internal/session/engine.go` | per session: focus, rank, accesses | Apply, Pause, Resume, Advance, SetWorkResult | any order of calls, late and simultaneous events, renames of the active file | ordered, capped trail; focus agrees with trail; history kept; no rollback |
| Priority queue and collector `internal/ingest/queue.go`, `collector.go` | queued events, counters, wake token | Offer, Pop, Submit, run, Stop | submitters against one consumer, bounded queue, stop while submitting | high-value events kept and in order; losses counted; no lost wake-up; stop drains |
| Local IPC server `internal/ipc/transport.go` | connections, slots, accept loop | Accept, handle, Close | concurrent workers, deadlines, bad batches, close while working | whole batches or nothing; close waits for workers |
| Diff pipeline `internal/diff/pipeline.go` | queue, pending and recent keys, results | Offer, run, process, publish, Close | split critical sections, full channels, close in any phase | one piece of work per key; no leaked key; accepted work answered; close ends |
| Deduper, normalizer `internal/ingest/dedupe.go`, `normalize.go` | seen event ids | Duplicate, Normalize | marked before applied | an event is applied once |
| Live desktop `apps/desktop/app.go` | project, engine, current focus, journal queue | PublishActivityEvent, consumeDiffResults, LoadProject, RefreshProject, Resync, shutdown | results arriving after a reload, dropped journal records, ordered shutdown | the focus shown is the engine's; accepted work settles; shutdown flushes |
| Journal store `internal/store/store.go` | event rows, session rows | SaveEvent, SaveSession, RecoverActiveSessions, OpenRecovering | crashes between rows, corrupt files | events once; sessions recovered once, at a plausible instant |
| Replay `internal/replay/replay.go` | none | Reconstruct | canonical order differs from the live one | the same trail and work as live |
| Identity and layout `internal/graph` | ids by path, aliases, tombstones | Assign, Rename, Delete, Diff | renames, recreated paths | identities unique and stable; patches lead from one snapshot to the next |
| Generic wrapper `adapter/go/wrapper` | delivery queue, evidence gate, stream tap | Run, Emit, emitFinal, stop | teardown under deadlines, full queues | lifecycle order; bounded wait; fallback evidence suppressed once |
| Filesystem observer `internal/adapters/filesystem` | raw queue, pending changes, states | Observe, drainSource, readyChanges | debounce, rename windows, final flush | every change is emitted or counted as dropped |
| Codex installer `internal/adapters/codex/install` | hooks file, backup, binary, state file | Install, Uninstall, Status | a crash between any two file operations | the user's file is never lost; every crash can be recovered from |
| Renderer bridge `apps/desktop/frontend/src/bridge` | graph, focus | snapshot, patch, focus, resync, load | answers and events reordered | no older graph replaces a newer one; convergence |

Components interact like this. Adapters connect to the IPC server; its workers
submit events to the queue; the collector pops them, drops duplicates and calls
`PublishActivityEvent`, which under the application's lock normalizes the event,
applies it to the engine, offers diff work, queues a journal record and emits
the focus to the renderer. The diff worker's results come back through a channel
to `consumeDiffResults`, which takes the same lock. `shutdown` closes the server,
the collector, the pipeline and the journal in this order.


## 2. The modules

| Module | Models | State and actions |
|---|---|---|
| `SessionState` | the pure part of `internal/session/engine.go` | `ApplyEvent`, `CloseInterval`, `FollowRename`, `Focus`, `SetWork`, ... take one session's record to the next. No variables; every other module that has sessions uses these operators. |
| `SessionEngine` | the engine's table | `sessions`; one action per method of `Engine`, each under `Engine.mu` from beginning to end and therefore atomic |
| `IngestQueue` | `internal/ingest/queue.go` | `Offer`, as the sequence it leaves, and its four outcomes: replace, append, displace, refuse |
| `Ingress` | connections, `internal/ipc/transport.go`, `internal/ingest/collector.go`, the first half of `App.shutdown` | one program counter per worker, for the accept loop, the collector's goroutine and the shutdown; the queue, the wake token and the stop channel between them; `fate` is a history of what became of each event |
| `WorkService` | what the diff pipeline promises | `inFlight`, `closed`; accept, deliver, close, and that accepted work is answered while it is open |
| `DiffPipeline` | `internal/diff/pipeline.go` and the goroutine that consumes its results | callers between the two halves of `Offer`, queue, batch, pending and recent keys, results channel; implements `WorkService` |
| `Replay` | `internal/replay/replay.go` | pure: `CanonicalEvents`, `ReplayStep`, `Reconstruct` |
| `LiveDesktop` | `apps/desktop/app.go` from the collector's handler to the journal's rows | engine, focus on display, deduper's marks, journal queue and goroutine, tables, shutdown; the diff pipeline is `WorkService`; replay is compared with the live state |
| `Journal` | `internal/store/store.go` under one process after another | the three files of a database by generation, session rows, the process's stage from `OpenRecovering` to its end; one action per rename of `quarantine`, per transaction, and for a crash |
| `RendererBridge` | `internal/graph/identity.go`, the graph handlers of `app.go`, `useGraphBridge.ts`, `patch.ts` | registry, snapshot and focus in the backend; calls, answers and events under way; graph and focus of the page; one action per handler and per message received |
| `FilesystemObserver` | `internal/adapters/filesystem/observer.go`, `source.go` | the disk, the watches, the raw queue, the pending map; the user's changes, `drainSource`, `acceptChange`, the ticker's flush, cancellation and the last flush |
| `Wrapper` | `adapter/go/wrapper` | `stage` is where `Run` is; tap, parser, observer, evidence gate and dispatcher with their queues; one action per hand-over and per wait of the teardown |
| `CodexInstaller` | `internal/adapters/codex/install` | four files with their swap names, the operations a command has left; one action per rename or removal, for a cut and for a user's write |
| `...Proofs` | - | lemmas, inductive invariants and theorems of section 6; `JournalProofs` is about `SessionEngine` as well |
| `MC...` | - | the instances for TLC |

How they compose:

    Wrapper, FilesystemObserver                   adapters; batches leave by a connection
        |
    Ingress (EXTENDS IngestQueue)                 adapters -> events handed over
        |  an event handed over is an event published
    LiveDesktop (EXTENDS Replay, SessionState; Work == INSTANCE WorkService)
        |  Work!Accept / Work!Deliver / Work!Close
    DiffPipeline (ImplementsService == Service!Spec)

    Journal (EXTENDS SessionEngine)               the rows LiveDesktop writes, over restarts
    RendererBridge                                what app.go's handlers send to the page
    CodexInstaller                                stands alone

`SessionEngine`, `LiveDesktop` and `Journal` work with the operators of `SessionState`:
the first under any calls at all, the second under the calls the application
makes (it never pauses, resumes or advances a live session), the third with the table and
the `Apply` of the first in a process that may end anywhere. `DiffPipeline` is tied to `LiveDesktop` by the abstract
`WorkService`: the one is shown to implement what the other assumes.

Definitions whose comment starts with *Fault* are not part of any specification.
Each is a way the code next to it could have been wrong; put in its place, it
breaks the property named with it in `PROJECT.json`, which shows that the property
depends on that line of the code.

Abstractions that hold throughout: instants are naturals; paths, sessions, line
counts are members of small sets; node identities, labels, operation names and
secondary paths, which no decision of these components reads, are absent.
Critical sections of a mutex are single actions; what a goroutine does between two
critical sections or channel operations is separate actions.

Per module:

* `SessionState`: a `session_stopped` event is late or stops the session whether it
  runs or not; a paused or stopped session ignores the rest; a rename of the active
  file is followed before the event competes for the focus. Only `activity` stands
  for the event types that focus nothing.
* `Ingress`: a connection carries one batch, as the adapters in the repository
  use it. A subject is the pair of path and session the queue compares. A read that
  fails stands for the 250 ms deadline and for a bad frame. The timer of the
  collector is an action without fairness, so that nothing may depend on it.
* `DiffPipeline`: results are keys. A batch is published in one of the orders
  `process` can produce: what resolves directly first, then root by root in the order
  of a map iteration. The memory of completed keys is the 64, or four times the
  capacity, of the code; the model needs it to be at least as long as the
  results channel, which the assumption `PipelineAssumption` states, and with a
  shorter one `WorkIsUnique` fails.
* `LiveDesktop`: the deduper's ten-minute window is longer than any behaviour of the
  model; the row of an event and the row of its session are two steps of the
  journal's goroutine; a write that fails (or exceeds its second) gives the rest of
  the record up. A diff result's row carries the instant of its delivery, not earlier
  than any event published before it: adapters and desktop share a host's clock.
* `Journal`: a database is the generation its files belong to, so that a file moved
  aside, a file deleted and a file that belongs to no database are told apart. SQLite
  is external: a transaction takes effect whole or not at all, the last close of a
  database, a clean one or that of an open that failed, merges the sidecars into it,
  sidecars found next to no database are deleted. The instant a
  process starts is any instant, also one before the events'. A row is active or paused
  until its session ends, as the code's queries have it, though the application pauses none.
* `RendererBridge`: events arrive in the order of the backend's lock; the answer to a
  call leaves after the lock was released and may be overtaken. The hash of a
  stable id is the pair it is made of. `RefreshProject` has no caller outside the tests,
  but it is what produces patches, and is modelled as one of the handlers.
* `FilesystemObserver`: a notification is an operation and a path; what
  `acceptChange` compares is the disk when it looks, not when the notification was
  sent. Debounce and rename windows become the choice of which pending changes are
  ready, with all that need the rename window held back together. The history `silent`
  collects the paths whose notifications nobody was there to send, or whose record
  changed with that of a directory.
  A walk of a new directory that fails records nothing and leaves some of its watches.
  A walk is one step: the user does nothing while it lasts.
* `Wrapper`: what the observer and the parser say is a piece of evidence about a key; one
  of `Keyless` is about no file and passes the gate at once. A batch keeps `MaxEvents` pieces, the
  128 of the code. A wait ends by its event or by its deadline, and `late` remembers the
  latter. A chunk of output is its stream and its number; the parser's goroutine may find its
  context done before it is started, and the gate's may take its ticker before its stop. At
  the end of the output the tap gives the parser a mark if the last number it read is not
  the last given out, and `NeverSpliced` is about that mark too.
* `CodexInstaller`: `hooks.json` is what of it is the user's, whether it has a `hooks` key
  and our handlers, and whether its bytes are the user's own. A command reads the
  files when it begins and carries out the operations that follow from what it read,
  whatever is done to the files meanwhile. A write to a file that was just replaced counts
  as one after its swap is removed, or after the cut: neither of these looks at the file.

## 3. The runs

| Run | Instance | Question |
|---|---|---|
| `session_engine` | one session, two paths, instants 1, 2, 4, idle cap 2, two accesses | Do trail, focus, history and rank stay sound under any calls in any order? |
| `ingress` | three connections, two slots, a queue of two | Which events may the way in lose, are losses counted, does a shutdown drain and end? |
| `diff_pipeline` | two callers, four requests, queue of one, batches of three, two keys remembered | Does the pipeline implement the work service and close? |
| `diff_close` | one caller, batches of two | Finding: work canceled by a close gets no result. |
| `live_desktop` | one session, four events in any order, one load, a journal queue of two | Are session rows backed by event rows, does a shutdown flush, does replay restore the trail? |
| `live_reload` | two sessions, one started twice, six events, two loads, no journal | Is the focus on display the engine's, do pending accesses settle, with results of an earlier load still arriving? |
| `live_replay` | as `live_desktop` | Finding: a late event moves work to another access in replay. |
| `observer` | two files in the root, one in a directory to be made, three changes, one lost notification, a raw queue of two, three pending paths, batches of two | Do the reported events give the files on the disk unless a loss was reported, and is everything reported in the end? |
| `journal` | three processes, two sessions, two paths, three events, two databases | Is what a process left open closed once and whole, and are corrupt files kept? |
| `bridge` | one project, three paths, four operations, two pages | Does the quiet page show the backend's graph and focus, and which paths share an identity? |
| `wrapper` | three keys and one without a file, queues of one place, a gate of two, batches of one piece, three chunks and pieces | Is what was said delivered inside the session, and is no lost chunk read over, nor a lost end taken for the end? |
| `installer` | two user entries, one at a time or none, two builds of the hook | Do the user's entries survive, do commands do what they report, can a cut command be run again? |

Why the bounds are enough:

* `session_engine`: sessions share no state, so one is enough. Two paths tell the
  active file from another; three instants with a gap above the idle cap give
  ends that are exact, capped and clamped; two accesses give a first one, a last one
  and what lies between. The accesses of one behaviour are bounded by
  `MaxIntervals`; the theorems of section 6 need no such bound.
* `ingress`: two slots and three connections make two workers interleave and one
  connection be refused; a queue of two is full with events of high and of low
  value; the batches hold a creation with its modification, a read that is refused or
  displaced, and a malformed event behind a good one. Two reads of one subject, which
  coalesce, are not among them: the counter of coalesced events rests on
  `StatsAlwaysAccount`. The safety properties are proved without bounds.
* `diff_pipeline`: `MaxRecent` is the smallest the assumption allows, so that trimming
  happens with results still unread; two requests share a root, one has another and
  one resolves directly, so that a batch of three is published out of its order and
  is left half published when it is canceled. The safety is proved without bounds.
* `live_desktop`: four events with ids in another order than their instants, one
  with counts and stronger evidence, give late, outranked and repeated accesses and
  events after the stop. A queue of two for up to six records is dropped from as well
  as filled. `live_reload` starts a session a second time beside another one,
  so that a result of the first load meets an access of the second, and has no journal,
  which none of its properties reads. All invariants of the two runs are proved without
  bounds.
* `observer`: three changes fill the queue of two while a notification is lost; four
  paths exceed three pending ones; a batch of two splits a rename from what else is
  ready; a directory is made, filled before it is walked, and removed. What a directory
  that is removed and made again can do to the record of its entries takes five changes,
  more than the run has; the theorem about `PictureCatchesUp` covers them.
* `journal`: three processes make one find what a second one found and left half
  done; two sessions make one active and one stopped in one recovery; two databases
  make a quarantine with a fresh database behind it.
* `bridge`: four operations allow a load, a rename, a refresh that finds the old path
  made again and its rename to a third path, with a second page asking while the first
  one's answers are under way. The three invariants are proved without bounds.
* `wrapper`: every queue can be full; up to three pieces of evidence about up to
  three keys, strong or not, in any order, make the gate hold, replace, refuse and flush more
  than a batch has room for. Three chunks let two of one stream surround one that is lost, with the other
  stream's in any place. Keys with a file are symmetric. The theorems need no bound.
* `installer`: the code reads of the user's part only whether it is empty and whether it
  is the same as before, so two entries are enough to tell old from new; two
  builds make an upgrade. Entries are symmetric, and so are builds.

Runs set `CHECK_DEADLOCK FALSE` where the system stops on purpose: the shutdown of
`ingress`, `live_desktop` and `live_reload`, the close of `diff_pipeline`, the end of the
observer and of the wrapped command; and where the bounds are spent: `journal` after its
last process, `bridge` after its last operation. The engine and the installer always
have another call to take, and deadlock is checked.

## 4. The properties

| Component | Safety and action properties | Refinement and liveness |
|---|---|---|
| engine | `TrailsOrdered`, `FocusFollowsTrail`; `HistoryIsKept`, `FocusNeverRollsBack` | |
| way in | `HighValueIsKept`, `StatsAccountForEvents`, `HighValueInOrder`, `ShutdownDrains` | `TakenIsSettled`, `ShutdownCompletes` |
| diff pipeline | `PendingIsInFlight`, `WorkIsUnique` | `ImplementsService`, `CloseCompletes` |
| desktop | `FocusIsCurrent`, `PendingHasRequest`, `SessionRowsAreBacked`, `ShutdownFlushes`, `ReplayRestoresTrail` | `PendingSettles` |
| observer | `PictureCatchesUp` | `ChangesAreReported` |
| journal | `StaleSessionsAreClosed`, `EvidenceIsKept`; `RecoveryKeepsTrail` | |
| bridge | `IdsAreShared`, `QuietViewIsCurrent` | |
| wrapper | `TeardownDelivers`, `NeverSpliced` | |
| installer | `UserContentIsKept`, `CommandsComplete`, `Recoverable` | |

Each component has one `TypeOK` besides (not the installer), which also bounds its
queues. Each property is stated in words above its definition.

Some hold only with exceptions, which are written into them because the code makes
them; without them TLC finds the property false:

* `ReplayRestoresTrail` asks that no record was dropped, that one project was loaded and
  that the instants of what was published rise strictly with nothing after a stop.
  `live_replay` shows what happens otherwise.
* `EvidenceIsKept`: a quarantine that stopped between two of its renames has moved the
  database but not its sidecars. The next start finds no database, SQLite deletes the
  sidecars, and with them what a crash had left in the log. `docs/RELIABILITY.md:13` and
  `internal/store/store.go:69` speak of a corrupt database that is never deleted.
* `QuietViewIsCurrent`: an answer the page receives after a younger event (`crossed`), a
  load that failed after the backend had replaced root and engine (`app.go:320-326`), and two
  nodes of a snapshot with one identity (`shared`). Two paths come to share one when a
  file is renamed and its old path is made again, because the registry derives an
  identity from the path; when that path is renamed in turn, two others share one.
  `IdsAreShared` says that nothing else leads there.
* `PictureCatchesUp`: what happens in a directory before it is watched is never notified,
  the entries a new directory has when it is walked are recorded without an event, or not at
  all when the walk fails, and the record of the entries goes with that of their directory (`silent` has these paths); a
  rename Git reports is believed also when the disk says otherwise; and the final flush
  takes one batch and leaves the rest, so that it is only said of an observer that has not
  returned.
* `TeardownDelivers`: a missed deadline, a full queue, gate or batch, a canceled parent.
* `UserContentIsKept`: a user's write between a command's read and its write is
  overwritten; a user's deletion may be undone by the backup or by a swap.
* `CommandsComplete`: an original without a `hooks` key keeps the key that was added. An
  install that finds our handlers without a state is not held to its first bytes.
* `Recoverable`: an uninstall cut between the removal of the backup and that of the
  state; a configuration edited after a first install was cut before its backup; a
  first install over a configuration that has our handlers already
  (`installer.go:166-171`). After each of these every later command is refused until the
  user removes the files.

## 5. Fairness

* Weak fairness of each goroutine's steps: a worker of the server (whose reads end
  by their deadline), the accept loop, the collector, the shutdown once begun, the diff
  worker, the consumer, the journal. Go runs a goroutine that can run.
* Weak fairness of `ObserverSteps` in `FilesystemObserver`, all of its goroutines and its
  ticker together.
* Strong fairness of `WorkerLeaves` in `DiffPipeline`: the worker's `select` picks at
  random among the ready cases, so a canceled context, ready every time the worker
  selects, is not passed over for ever in favour of the queue. Under weak
  fairness alone a caller that offers for ever could keep the worker busy.
* `WorkService` promises delivery only while it is not closed, and `LiveDesktop`
  assumes no more than that.
* No fairness for adapters, users, the 250 ms timer, project loads, failures of
  writes, or the beginning of a shutdown or close. None at all in `SessionEngine`,
  `Journal`, `RendererBridge`, `Wrapper` and `CodexInstaller`, whose properties are about what
  may happen; a wait of the wrapper ends by its deadline whatever else does.

## 6. What is proved

For every value of the constants, under the assumptions named, and without the bounds
of the runs:

| Module | Theorem | States |
|---|---|---|
| `JournalProofs`, the engine | `EngineTypeCorrect` | `EngineSpec => []TableOK` |
| | `TrailsStayOrdered` | `EngineSpec => []TrailsOrdered` |
| | `FocusAlwaysFollowsTrail` | `EngineSpec => []FocusFollowsTrail` |
| | `HistoryAlwaysKept` | `EngineSpec => HistoryIsKept` |
| | `FocusNeverGoesBack` | `EngineSpec => FocusNeverRollsBack` |
| `IngressProofs` | `IngressTypeCorrect` | `Spec => []TypeOK` |
| | `HighValueAlwaysKept` | `Spec => []HighValueIsKept` |
| | `StatsAlwaysAccount` | `Spec => []StatsAccountForEvents` |
| | `HighValueAlwaysInOrder` | `Spec => []HighValueInOrder` |
| | `ShutdownAlwaysDrains` | `Spec => []ShutdownDrains` |
| | `NoWakeUpIsLost` | `Spec => []SomebodyComes`: whoever empties the queue is on the way |
| `DiffPipelineProofs` | `PipelineTypeCorrect` | `Spec => []TypeOK` |
| | `PendingAlwaysInFlight` | `Spec => []PendingIsInFlight` |
| | `WorkAlwaysUnique` | `Spec => []WorkIsUnique` |
| | `PipelineIsAService` | the safety half of `ImplementsService` |
| `LiveDesktopProofs` | `DesktopTypeCorrect` | `Spec => []TypeOK` |
| | `FocusAlwaysCurrent` | `Spec => []FocusIsCurrent` |
| | `PendingAlwaysHasRequest` | `Spec => []PendingHasRequest` |
| | `SessionRowsAlwaysBacked` | `Spec => []SessionRowsAreBacked` |
| | `ShutdownAlwaysFlushes` | `Spec => []ShutdownFlushes` |
| | `ReplayAlwaysRestores` | `Spec => []ReplayRestoresTrail` |
| | `DesktopIsAClient` | `Spec => Keyed!Init /\ [][Keyed!Next]_(Keyed!vars)`: seen by key, the desktop is a client `WorkService` allows |
| | `CursorsAlwaysAgree` | `Spec => [](\A id \in SessionIds : CursorsAgree(RowsOf(id)))`: an earlier cursor of a replay shows an earlier view |
| `JournalProofs`, the journal | `JournalTypeCorrect` | `Spec => []TypeOK` |
| | `StaleSessionsAlwaysClosed` | `Spec => []StaleSessionsAreClosed` |
| | `TrailSurvivesRecovery` | `Spec => RecoveryKeepsTrail` |
| | `EvidenceAlwaysKept` | `Spec => []EvidenceIsKept` |
| `WrapperProofs` | `TypeCorrect` | `Spec => []TypeOK` |
| | `NothingEverSpliced` | `Spec => []NeverSpliced` |
| | `TeardownAlwaysDelivers` | `Spec => []TeardownDelivers` |
| `WrapperProofs`, the observer | `ObserverTypesCorrect` | `ObserverSpec => []ObserverTypeOK` |
| | `PictureIsTheDisk` | `ObserverSpec => []PictureCatchesUp` |
| `RendererBridgeProofs` | `TypeCorrect` | `Spec => []TypeOK` |
| | `IdentitiesSharedOnlyAfterRename` | `Spec => []IdsAreShared` |
| | `QuietPageIsCurrent` | `Spec => []QuietViewIsCurrent` |
| | `PatchRestores` | the patch between two graphs, applied to the first, is the second |
| `CodexInstallerProofs` | `UserContentAlwaysKept` | `Spec => []UserContentIsKept` |
| | `CommandsAlwaysComplete` | `Spec => []CommandsComplete` |
| | `AlwaysRecoverable` | `Spec => []Recoverable` |

Assumptions: `SessionAssumption` (instants are naturals, the idle timeout is positive,
absent values are not values), `EngineAssumption` (no session's state is the absence
of one), `JournalAssumption` (nor is a row that does not decode, and bounds are
naturals), `CapacityAssumption` and `IngressAssumption` (a queue and a server of at least one
place, batches are not empty, an empty hand is not an event), `PipelineAssumption` (as
many completed keys are remembered as the results channel holds), `DesktopAssumption`
(finitely many events with ids of their own, the three work statuses are statuses),
`ReplayAssumption` (no state and a failure are two things, and no states),
`WrapperAssumption` (every queue has a place, as the configuration's defaults see to,
`wrapper.go:227-243`), `ObserverAssumption` (every path has one directory and one place in the
order of the names, the staged renames of Git are between different paths, queue, pending
map and batch have a place), `BridgeAssumption` (the files at the start are paths, bounds are
naturals), `InstallerAssumption` (the absence of a file is not a content, a state
or a binary). TLC evaluates each of them in
the runs as well.

The arguments.

* *Engine.* No one of the invariants is inductive alone: that the last access
  only is open needs the sequence numbers and the order of starts, that an access
  starts no later than the time of the focus is what makes the next one start in
  order, and a stopped or paused session has nothing open only as long as the
  active path is the path of the last access. `EngineInv == TableOK /\ TrailsOrdered /\
  FocusFollowsTrail` is inductive. Every operator of `SessionState` has a lemma
  `...Effect` in `SessionStateProofs` that says, for one state with these three properties,
  that the result has them too, keeps its history and keeps its rank; `StepIsSound` says
  that each step updates one session in such a way.
* *Way in.* `OfferEffect` is about `Offer` alone: what it makes of any sequence of
  different events. It rests on `IndexExtremes`, that a set of indices has a least and a
  greatest one, which is what the community modules' searches choose. The invariant
  adds to the properties that each event is in one place and that exactly
  those in a place count as queued (`WaitOnce`), that the queue itself is in order and the
  event in the handler's hands before all of it (`InOrder`), that finitely many events
  have been submitted (`Counts`), and how far accept loop, collector and shutdown can
  have come without each other (`Stages`). Steps that move no event are dealt with by
  one lemma. `SomebodyComes` is what a lost wake-up would violate and so the safety
  core of `TakenIsSettled`: whenever an event waits, the collector drains, or blocks with a
  token, the stop or a worker about to wake it at hand, and the 250 ms timer is not
  needed. With `Stages` it is inductive; that the drain then comes is fairness.
* *Diff pipeline.* A key has one place among callers, queue and batch (`OnePlace`); the keys
  that wait for the consumer are the last of the completed ones, so that the memory of
  these covers the results channel (`ResultsAreCompleted`); and what is owed to the
  service is pending, also when a close has taken its request away (`OwedArePending`). The last
  part is what the refinement needs: an offer is an `Accept` only of a key that is not in
  flight there. `DesktopIsAClient` is the other side of that interface: `LiveDesktop` asks the
  service about events and the pipeline answers for their ids. An id in flight was seen and
  belongs to one request (`KeysInv`), so each submission of the desktop is an `Accept` of
  a new key and each delivery a `Deliver` of one in flight, also when the results of an
  earlier project arrive after a reload.
* *Live desktop.* A call of the engine sets no work status and opens one access at most,
  at the instant of its event (`ApplyEventOpens`). So an access is pending only if the
  handler that made it so submitted a request, and the one result that takes the request
  away settles it (`PendingInv`); and accesses are at most as many as the different
  events that can open one (`CountInv`), which bounds the sequence numbers requests name. For
  the journal, what a record shows is stored or in front of it in the queue
  (`BackedInv`), what was published is stored or in the queue and the last record of a session,
  or its row, is what the engine has (`FlushInv`), and a session row is written only after
  the event row of its record (`QueueInv`). All of this but the last ends with the
  first record that is lost.
* *Replay.* In a finite set with a total order the element with `i` elements before it exists
  for every `i` (`Ranking`), so the canonical sequence has all rows, each next to the one
  before it (`CanonicalSequence`). That replay of a set of rows leads to a state
  is said without positions, by a state `after[r]` for each row that follows from that of
  the row next to it (`ReplaysBy`); a row put somewhere among the others then concerns
  only the rows behind it (`InsertedReplays`), and what the loop computes is the last of these
  states (`ReplayRowsEnds`, by the least place where they would differ). Two states are
  `Alike` when they differ in work without a result only, and every call of the engine keeps
  them alike. `ReplayInv` says that what a session's journal holds, stored or in the
  queue, replays to a state like the live one. In order, an event is behind all rows;
  another start is behind the starts, where it changes nothing (`StartAgainReplays`); and a
  result, whose row comes before the stop even if it came after it, commutes with the stop
  (`StopAfterWork`).
* *Cursors.* `CursorsAlwaysAgree` needs none of the exceptions of `ReplayRestoresTrail`: it
  holds after lost records, late events and reloads. Where replay
  up to a cursor succeeds, it succeeds up to every earlier one, and the later shows every access of
  the earlier with its start, and with its path and end too unless it was the last one shown,
  which a rename or its end can still change. `RowsInv` says what the rows are, whatever was lost: those of
  published events with the ids they came with, and of results with ids behind these, each id
  once (`Genuine`); so replay has an order for them and understands each.
  That the replay of the first rows does not depend on the later ones is said with a function
  from positions to states (`Unfolds`), which is unique (`UnfoldingsAgree`); and each step adds to
  the history of the state before it (`ReplayStepAdds`, from the lemmas of `SessionStateProofs`).
* *Journal.* `MemoryInv` says that what the engine and the queue hold has an ordered trail,
  by the lemmas of `SessionStateProofs`; `RowsInv` that a row that is active was written by the
  running process or awaits a recovery; `FilesInv` that files beside no database belong to
  an interrupted quarantine.
  The first two carry the theorems about rows, the third that about files.
* *Wrapper.* A number is in the hands of one stream, in one place of the queue or lost
  (`OnePlace`), and from the last chunk of a stream that a parser carries up to the chunk
  read last everything was read, whichever stream it came from (`ReadThrough`): a gap
  would have set the mark at which all parsers start afresh, and one before the end sets the
  last mark. The capacities need that
  numbers grow: what the gate holds is older than what waits in front of it (`GateTypes`), so
  that evidence that takes a held one's place is the newer. For the teardown, `GoodInv`
  follows a run in which nothing has gone wrong yet (`Good`): its parts end in the order in
  which `Run` waits for them (`InOrder`), the batch that starts the session is the first on
  its way and the one that ends it the last (`StartsFirst`, `EndsLast`), and for everything said
  there is evidence that stands for it on its way or in the gate, for every key remembered
  as strong some that has left (`NothingMissing`). `Good` is no invariant, so every lemma
  takes it of the state after the step: a step that ends it has nothing to show. Once
  the run is over the gate is empty and the last batch acknowledged, so that all of this is at
  the collector.
* *Observer.* As long as nothing was lost or misreported, the last look at a path differs
  from the disk only while a notification about it is in one of the two queues, the
  change pending for a path ends at the last look, and the picture the events draw is what
  that change, if there is one, began with (`Followed`). All three are needed: a flush turns
  the last two into a picture that is the last look, and what the first leaves open
  closes when the queues are empty. It is here that the history `silent` has to have every
  path whose record changes without a notification. That correlation pairs only changes of
  the batch, whichever passes it takes (`RenamesInBatch`), is an induction over the recursive
  function of `CorrelateRenames`, by the least index at which it would fail.
* *Bridge.* `TypeInv` holds the registry together: a node is filed under its own path, and
  one that has left the path its identity is derived from has an alias for it. `OrderInv`
  says how the stamps of what is under way lie between those of page and backend. For the quiet page,
  `GoodInv` asks, while nothing was overtaken and no identity shared, for a history `h` of
  what the backend showed after each of its messages (`Recorded`): it ends with what the
  backend shows and every message under way leads from one entry to the next or carries
  one (`Told`), an answer that no younger event has overtaken is as good as a new one
  (`Fresh`), and the page shows the entry it has read up to, unless a resync or a load is still
  to answer (`Showing`). `PatchRestores`
  is what makes a patch lead from one entry to the next.
* *Installer.* `KeptInv` says that every operation still due that touches `hooks.json`
  leaves the user's entries in it; planning establishes this and each rename keeps it.
  For the other two, `ProgressInv` says where a command is: its operations still due are one
  of the ends of an install or an uninstall, and the files are what the operations
  before that end have made of them (`InstallAt`, `UninstallAt`). Each of these places is one
  from which a cut leaves something `Resumable`, and planning over resumable files leads to
  one of these places, whichever command comes next: this closes the circle over any
  number of cuts. A swap is there only for the write under way (`SwapsInUse`), so that recovering it
  is the same as having cut before or after that rename.

Every invariant and action property of the passing runs is proved. Only model-checked are
the properties out of the prover's reach: the liveness properties and the fairness half of
`ImplementsService`.

## 7. Findings

1. *Canceled work has no result* (`diff_close`). `docs/WORK_DELTAS.md:11` says that
   canceled work produces `unknown`. A worker that sees its context canceled returns
   with requests queued or collected, and `publish` gives a result up: nothing
   is delivered for them, and the accesses stay pending in the last session row.
2. *Replay of late events* (`live_replay`). `docs/TIMELINE_REPLAY.md:3-5,42` says that
   replay gives the same trail and restores exact work. The engine ignores a late
   event but the desktop journals it; replay, in the order of instants, makes an
   access of it, so that later accesses have other numbers than the ones work
   results were journaled with: another file shows the counted lines.

Behaviour a reader of the models may want to know of, which the exceptions of section 4
and the guards of the modules show:

* Journal: nothing keeps a second desktop from opening the journal of the first and
  closing its live sessions as stale. `started_at` of a session row keeps its first
  value when a session id is used again. The branch of `closeStaleInterval` for an
  access that had ended is not reached by the application, which never pauses or
  advances a live session.
* Wrapper: the final batch overtakes whatever fills the delivery queue
  (`docs/GENERIC_WRAPPER.md:57`), and what it overtakes reaches a collector whose session
  has stopped. Strong evidence passes a full gate queue and so overtakes what is in it.
  Chunks of two streams that are queued in another order than they are numbered are marked
  `DroppedBefore` although none was lost. A canceled parent makes the gate refuse what the
  parser says of output that was read.
* Observer: of several files renamed away with the same fingerprint the first in path
  order gets the only creation (`observer.go:402-421`). Changes still queued at a
  cancellation are not looked at.
* Installer: see the exceptions of `UserContentIsKept`, `CommandsComplete`, `Recoverable`.

## 8. Not modelled

* Operating-system I/O and text: sockets, framing, Git's output, hook payloads, the
  scanner, sanitizing, path resolution, process control, signals and exit codes.
* Geometry and views of the renderer.
* The ten-minute window of the deduper; monotonic timestamps, which no adapter in the
  repository sets; the counters of `Pipeline.Stats`.
* Properties about the hazards that `PROJECT.json` lists without one, each with its reason. Some
  need two components in one model (the overtaking read) or a stronger assumption (the second
  stop); of the others the code is known to go wrong, and the properties name the case as an
  exception: results that meet another load's access or arrive in another order, a half failed
  load, the overtaking final batch, missed deadlines, the cut final flush, a directory whose walk
  failed, the overwritten `hooks.json`.
* Installer: malformed or foreign files, links, dry runs, two installers at once, the
  probe of an installed hook, the removal of a swap that fails. Observer: symlinks, attribute changes, renamed directories,
  ignore patterns. Bridge: case folding, edges and positions. Journal: schema
  migration, queries, a second process at the same time.

## 9. Plan

1. Pure algorithms against reference definitions: `countPatch`, the line diff of
   snapshots, the graph's `Diff` and `patch` over arbitrary snapshots.
2. The queue and the engine together, for the read that overtakes writes by
   coalescing.
3. The liveness half of `ImplementsService`, should a prover for fairness become available;
   until then TLC alone decides it.
