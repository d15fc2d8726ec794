------------------------------- MODULE Ingress ------------------------------
(***************************************************************************)
(* The way of an event into the desktop: connections of adapters, the      *)
(* local server and its workers (internal/ipc/transport.go), the priority  *)
(* queue, the collector's goroutine (internal/ingest/collector.go) and the *)
(* first half of App.shutdown (apps/desktop/app.go), which closes the      *)
(* server before it stops the collector.                                   *)
(*                                                                         *)
(* Goroutines interleave between their synchronisation points: the queue's *)
(* lock, the one-slot wake channel, the stop and done channels.            *)
(***************************************************************************)
EXTENDS IngestQueue, FiniteSets

CONSTANTS
    MaxConns,   \* bound: connections made by adapters, each used for one batch
    Payloads,   \* per connection: the batches it may carry, sequences of [type, subject]
    Slots,      \* maxConnections, concurrent workers of the server
    NoEvent     \* no event in the collector's hands

ASSUME IngressAssumption ==
    /\ MaxConns \in Nat
    /\ Slots \in Nat \ {0}
    /\ \A c \in 1..MaxConns : \A payload \in Payloads[c] :
         /\ payload \in Seq(ToSet(payload))
         /\ payload # <<>>                       \* Send and handle refuse an empty batch
         /\ \A i \in DOMAIN payload :
              NoEvent # [conn |-> c, index |-> i,
                         type |-> payload[i].type, subject |-> payload[i].subject]

Conns == 1..MaxConns      \* numbered in the order they are accepted

VARIABLES
    worker,     \* per connection: where its worker is
    batch,      \* per connection: the events it delivered
    serve,      \* the accept loop: "accepting", "waiting" for workers, "closed"
    items,      \* Queue.items
    stats,      \* Queue.stats
    wake,       \* Collector.wake holds its token
    stop,       \* Collector.stop is closed
    loop,       \* the collector's goroutine: "draining", "selecting", "finishing", "done"
    handling,   \* the event its handler works on
    shutdown,   \* App.shutdown: the step it has reached
    fate        \* per connection: what became of the events submitted so far

ipcVars   == <<worker, batch, serve>>
queueVars == <<items, stats>>
loopVars  == <<wake, loop, handling>>
vars == <<ipcVars, queueVars, loopVars, stop, shutdown, fate>>

Event(c, i) ==
    [conn |-> c, index |-> i, type |-> batch[c][i].type, subject |-> batch[c][i].subject]
WithFate(e, f) == [fate EXCEPT ![e.conn][e.index] = f]

Init ==
    /\ worker = [c \in Conns |-> "absent"]
    /\ batch = [c \in Conns |-> <<>>]
    /\ serve = "accepting"
    /\ items = <<>>
    /\ stats = [accepted |-> 0, dropped |-> 0, coalesced |-> 0]
    /\ wake = FALSE
    /\ stop = FALSE
    /\ loop = "draining"
    /\ handling = NoEvent
    /\ shutdown = "running"
    /\ fate = [c \in Conns |-> <<>>]
-----------------------------------------------------------------------------
(* The local server: serve and handle.                                     *)

Busy == {c \in Conns : worker[c] \in {"reading", "submitting", "waking", "acking"}}

\* Accept works until the listener is closed; without a free slot the
\* connection is closed at once.
Accept(c) ==
    /\ shutdown \in {"running", "stopping_ipc"}
    /\ worker[c] = "absent"
    /\ \A d \in 1..(c - 1) : worker[d] # "absent"
    /\ worker' = [worker EXCEPT ![c] = IF Cardinality(Busy) < Slots THEN "reading" ELSE "closed"]
    /\ UNCHANGED <<batch, serve, queueVars, loopVars, stop, shutdown, fate>>

Valid(payload) == \A i \in DOMAIN payload : payload[i].type # "malformed"

\* The whole batch is validated before any event of it is submitted.
ReadBatch(c) ==
    /\ worker[c] = "reading"
    /\ \E payload \in Payloads[c] :
        /\ batch' = [batch EXCEPT ![c] = payload]
        /\ worker' = [worker EXCEPT ![c] = IF Valid(payload) THEN "submitting" ELSE "closed"]
    /\ UNCHANGED <<serve, queueVars, loopVars, stop, shutdown, fate>>

\* The deadline of 250 ms expires, or the frame is malformed or too large.
ReadFails(c) ==
    /\ worker[c] = "reading"
    /\ worker' = [worker EXCEPT ![c] = "closed"]
    /\ UNCHANGED <<batch, serve, queueVars, loopVars, stop, shutdown, fate>>

AfterSubmit(c, done) == IF done = Len(batch[c]) THEN "acking" ELSE "submitting"

\* Fault: an event that makes room for another is not counted.
CountedOnce(e) ==
    IF Replaces(items, e) THEN [stats EXCEPT !.coalesced = @ + 1]
    ELSE IF Takes(items, e) THEN [stats EXCEPT !.accepted = @ + 1]
    ELSE [stats EXCEPT !.dropped = @ + 1]

\* The counters Offer leaves.
Counted(e) ==
    IF Replaces(items, e) THEN [stats EXCEPT !.coalesced = @ + 1]
    ELSE IF Takes(items, e)
    THEN [stats EXCEPT !.accepted = @ + 1, !.dropped = @ + Cardinality(GivenUp(items, e))]
    ELSE [stats EXCEPT !.dropped = @ + 1]

\* What Offer makes of the events: the new one is queued or refused, the one
\* it gives up is replaced or displaced.
Settled(c, e) ==
    LET own == [fate EXCEPT ![c] = Append(@, IF Takes(items, e) THEN "queued" ELSE "refused")]
    IN  IF GivenUp(items, e) = {} THEN own
        ELSE LET lost == CHOOSE x \in GivenUp(items, e) : TRUE
             IN  [own EXCEPT ![lost.conn][lost.index] =
                    IF Replaces(items, e) THEN "replaced" ELSE "displaced"]

\* Submit, first half: Offer under the queue's lock.
Submit(c) ==
    /\ worker[c] = "submitting"
    /\ LET i == Len(fate[c]) + 1
           e == Event(c, i)
       IN  /\ items' = Offer(items, e)
           /\ stats' = Counted(e)
           /\ fate' = Settled(c, e)
           /\ worker' = [worker EXCEPT ![c] =
                            IF Takes(items, e) THEN "waking" ELSE AfterSubmit(c, i)]
    /\ UNCHANGED <<batch, serve, loopVars, stop, shutdown>>

\* Fault: a submitter does not wake the collector.
WakeNobody(c) ==
    /\ worker[c] = "waking"
    /\ worker' = [worker EXCEPT ![c] = AfterSubmit(c, Len(fate[c]))]
    /\ UNCHANGED <<batch, serve, queueVars, loopVars, stop, shutdown, fate>>

\* Submit, second half: the wake channel is filled unless it is full already.
Wake(c) ==
    /\ worker[c] = "waking"
    /\ wake' = TRUE
    /\ worker' = [worker EXCEPT ![c] = AfterSubmit(c, Len(fate[c]))]
    /\ UNCHANGED <<batch, serve, queueVars, loop, handling, stop, shutdown, fate>>

Ack(c) ==
    /\ worker[c] = "acking"
    /\ worker' = [worker EXCEPT ![c] = "closed"]
    /\ UNCHANGED <<batch, serve, queueVars, loopVars, stop, shutdown, fate>>

\* Accept fails once the listener is closed; serve then waits for its workers.
ServeStops ==
    /\ serve = "accepting"
    /\ shutdown \notin {"running", "stopping_ipc"}
    /\ serve' = "waiting"
    /\ UNCHANGED <<worker, batch, queueVars, loopVars, stop, shutdown, fate>>

\* Fault: the server reports done without waiting for its workers.
ServeLeaves ==
    /\ serve = "waiting"
    /\ serve' = "closed"
    /\ UNCHANGED <<worker, batch, queueVars, loopVars, stop, shutdown, fate>>

ServeCloses ==
    /\ serve = "waiting"
    /\ Busy = {}
    /\ serve' = "closed"
    /\ UNCHANGED <<worker, batch, queueVars, loopVars, stop, shutdown, fate>>
-----------------------------------------------------------------------------
(* The collector's goroutine: run and drain.                               *)

\* Fault: the last event queued is handled first.
PopLast ==
    /\ loop \in {"draining", "finishing"}
    /\ handling = NoEvent
    /\ items # <<>>
    /\ handling' = Last(items)
    /\ items' = Front(items)
    /\ UNCHANGED <<ipcVars, stats, wake, loop, stop, shutdown, fate>>

Pop ==
    /\ loop \in {"draining", "finishing"}
    /\ handling = NoEvent
    /\ items # <<>>
    /\ handling' = Head(items)
    /\ items' = Tail(items)
    /\ UNCHANGED <<ipcVars, stats, wake, loop, stop, shutdown, fate>>

\* The handler runs outside the queue's lock.
Handle ==
    /\ handling # NoEvent
    /\ fate' = WithFate(handling, "handled")
    /\ handling' = NoEvent
    /\ UNCHANGED <<ipcVars, queueVars, wake, loop, stop, shutdown>>

Drained ==
    /\ loop \in {"draining", "finishing"}
    /\ handling = NoEvent
    /\ items = <<>>
    /\ loop' = IF loop = "draining" THEN "selecting" ELSE "done"
    /\ UNCHANGED <<ipcVars, queueVars, wake, handling, stop, shutdown, fate>>

SelectWake ==
    /\ loop = "selecting"
    /\ wake
    /\ wake' = FALSE
    /\ loop' = "draining"
    /\ UNCHANGED <<ipcVars, queueVars, handling, stop, shutdown, fate>>

\* Fault: a collector that is told to stop goes on as ever.
SelectStopForgotten ==
    /\ loop = "selecting"
    /\ stop
    /\ loop' = "draining"
    /\ UNCHANGED <<ipcVars, queueVars, wake, handling, stop, shutdown, fate>>

\* The stop channel and a canceled context lead to the same last drain.
SelectStop ==
    /\ loop = "selecting"
    /\ stop
    /\ loop' = "finishing"
    /\ UNCHANGED <<ipcVars, queueVars, wake, handling, stop, shutdown, fate>>

\* The 250 ms timer fires while the select is blocked.
Tick ==
    /\ loop = "selecting"
    /\ ~wake
    /\ ~stop
    /\ loop' = "draining"
    /\ UNCHANGED <<ipcVars, queueVars, wake, handling, stop, shutdown, fate>>
-----------------------------------------------------------------------------
(* App.shutdown: Server.Close, then Collector.Stop.                        *)

ShutdownGoes(from, to) == shutdown = from /\ shutdown' = to

StopIpc ==
    /\ ShutdownGoes("running", "stopping_ipc")
    /\ UNCHANGED <<ipcVars, queueVars, loopVars, stop, fate>>

CloseListener ==
    /\ ShutdownGoes("stopping_ipc", "closing_ipc")
    /\ UNCHANGED <<ipcVars, queueVars, loopVars, stop, fate>>

StopCollector ==
    /\ serve = "closed"
    /\ ShutdownGoes("closing_ipc", "stopping_collector")
    /\ stop' = TRUE
    /\ UNCHANGED <<ipcVars, queueVars, loopVars, fate>>

CollectorStopped ==
    /\ loop = "done"
    /\ ShutdownGoes("stopping_collector", "collector_stopped")
    /\ UNCHANGED <<ipcVars, queueVars, loopVars, stop, fate>>
-----------------------------------------------------------------------------
WorkerStep(c)  == ReadBatch(c) \/ ReadFails(c) \/ Submit(c) \/ Wake(c) \/ Ack(c)
ServeStep      == ServeStops \/ ServeCloses
CollectorStep  == Pop \/ Handle \/ Drained \/ SelectWake \/ SelectStop
ShutdownStep   == CloseListener \/ StopCollector \/ CollectorStopped

Next ==
    \/ \E c \in Conns : Accept(c) \/ WorkerStep(c)
    \/ ServeStep
    \/ CollectorStep
    \/ Tick
    \/ StopIpc
    \/ ShutdownStep

\* Goroutines that can run do run, and a worker's reads end by their deadline.
\* Nothing makes an adapter connect, the user quit, or the timer be needed.
Fairness ==
    /\ \A c \in Conns : WF_vars(WorkerStep(c))
    /\ WF_vars(ServeStep)
    /\ WF_vars(CollectorStep)
    /\ WF_vars(ShutdownStep)

Spec == Init /\ [][Next]_vars /\ Fairness
-----------------------------------------------------------------------------
Submitted  == UNION {{Event(c, i) : i \in DOMAIN fate[c]} : c \in Conns}
Fate(e)    == fate[e.conn][e.index]
Having(f)  == {e \in Submitted : Fate(e) = f}
InTheirWay == ToSet(items) \cup ({handling} \ {NoEvent})

\* Shapes, the bound of the queue, and that exactly the events waiting in the
\* queue or in the handler's hands have the fate "queued".
TypeOK ==
    /\ worker \in [Conns -> {"absent", "reading", "submitting", "waking", "acking", "closed"}]
    /\ \A c \in Conns : batch[c] = <<>> \/ batch[c] \in Payloads[c]
    /\ serve \in {"accepting", "waiting", "closed"}
    /\ Len(items) <= Capacity
    /\ wake \in BOOLEAN /\ stop \in BOOLEAN
    /\ loop \in {"draining", "selecting", "finishing", "done"}
    /\ Having("queued") = InTheirWay

\* An event of high value the queue has taken is never given up: not for a
\* later read, not for another event of high value ("drops low-confidence/read
\* activity before create/write/move/delete/session events").
HighValueIsKept == \A e \in Having("replaced") \cup Having("displaced") : ~HighValue(e)

\* The counters account for every event offered: taken ones are waiting,
\* handled or given up, and each loss is counted once.
StatsAccountForEvents ==
    /\ stats.coalesced = Cardinality(Having("replaced"))
    /\ stats.dropped = Cardinality(Having("refused") \cup Having("displaced"))
    /\ stats.accepted + stats.coalesced = Cardinality(Submitted \ Having("refused"))

\* Two events of high value in one batch reach the handler in the order the
\* adapter gave them.
HighValueInOrder ==
    \A f \in Having("handled") : \A e \in Having("queued") :
        HighValue(e) /\ HighValue(f) /\ e.conn = f.conn => f.index < e.index

\* Once App.shutdown has passed the collector nothing the queue took is left
\* waiting, whatever workers were still submitting when it began.
ShutdownDrains == shutdown = "collector_stopped" => Having("queued") = {} /\ Busy = {}

\* Every event the queue takes is handled, or given up for another, without
\* help of the 250 ms timer: no wake-up is lost.
TakenIsSettled == \A c \in Conns : []<>("queued" \notin ToSet(fate[c]))

\* Once begun, the shutdown gets past the server and the collector.
ShutdownCompletes == shutdown = "stopping_ipc" ~> shutdown = "collector_stopped"
=============================================================================
