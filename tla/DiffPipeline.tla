---------------------------- MODULE DiffPipeline ----------------------------
(***************************************************************************)
(* internal/diff/pipeline.go: the bounded queue of line-count requests,    *)
(* its worker goroutine, the results channel and the goroutine that        *)
(* consumes it (App.consumeDiffResults in apps/desktop/app.go).            *)
(*                                                                         *)
(* A request resolves directly (structured counts, binary, patch, allowed  *)
(* snapshots, or nothing to ask Git with) or through one Git invocation    *)
(* per project root.  What it resolves to is left out, a result is its key; *)
(* so are the counters of Stats, which the program only reports.           *)
(***************************************************************************)
EXTENDS Integers, SequencesExt, FiniteSets, FiniteSetsExt

CONSTANTS
    Offerers,       \* goroutines that call Offer
    Requests,       \* requests on offer: [key, direct, root]
    Capacity,       \* queue capacity; the results channel holds twice as many
    BatchSize,      \* most requests the worker resolves together
    MaxRecent,      \* most completed keys remembered: max(64, 4 * Capacity)
    NoRequest       \* an offerer between calls

ASSUME PipelineAssumption ==
    /\ Capacity \in Nat \ {0}       \* NewPipeline raises both to 1
    /\ BatchSize \in Nat \ {0}
    /\ MaxRecent \in Nat /\ MaxRecent >= 2 * Capacity
    /\ NoRequest \notin Requests

VARIABLES
    offering,   \* per offerer: the request it has marked pending but not yet sent
    queue,      \* Pipeline.queue
    pending,    \* Pipeline.pending: keys
    recent,     \* Pipeline.recent in the order of Pipeline.order: keys
    canceled,   \* Pipeline.ctx is canceled
    worker,     \* the worker: "idle", "collecting", "publishing", "remembering", "done"
    batch,      \* requests collected, then those still to publish, in order
    results,    \* Pipeline.results
    consumer,   \* consumeDiffResults: "running", "done"
    owed        \* history: keys accepted for which no result was published yet

vars == <<offering, queue, pending, recent, canceled, worker, batch, results, consumer, owed>>

Keys == {r.key : r \in Requests}
KeysOf(seq) == {seq[i].key : i \in DOMAIN seq}

Init ==
    /\ offering = [o \in Offerers |-> NoRequest]
    /\ queue = <<>>
    /\ pending = {}
    /\ recent = <<>>
    /\ canceled = FALSE
    /\ worker = "idle"
    /\ batch = <<>>
    /\ results = <<>>
    /\ consumer = "running"
    /\ owed = {}
-----------------------------------------------------------------------------
(* Offer: the duplicate check and the send are two critical sections.      *)

\* Fault: completed keys are not checked.
FreshUnlessPending(r) == r.key \notin pending

Fresh(r) == r.key \notin pending /\ r.key \notin ToSet(recent)

\* A duplicate returns at once and changes nothing.
OfferBegins(o) ==
    /\ offering[o] = NoRequest
    /\ \E r \in Requests :
        /\ Fresh(r)
        /\ offering' = [offering EXCEPT ![o] = r]
        /\ pending' = pending \cup {r.key}
    /\ UNCHANGED <<queue, recent, canceled, worker, batch, results, consumer, owed>>

OfferAccepted(o) ==
    /\ offering[o] # NoRequest
    /\ Len(queue) < Capacity
    /\ queue' = Append(queue, offering[o])
    /\ owed' = owed \cup {offering[o].key}
    /\ offering' = [offering EXCEPT ![o] = NoRequest]
    /\ UNCHANGED <<pending, recent, canceled, worker, batch, results, consumer>>

\* Fault: the key of a dropped request stays pending.
OfferForgotten(o) ==
    /\ offering[o] # NoRequest
    /\ canceled \/ Len(queue) = Capacity
    /\ offering' = [offering EXCEPT ![o] = NoRequest]
    /\ UNCHANGED <<queue, pending, recent, canceled, worker, batch, results, consumer, owed>>

\* Dropped: the context is canceled, or the queue is full and it is not.
OfferDropped(o) ==
    /\ offering[o] # NoRequest
    /\ canceled \/ Len(queue) = Capacity
    /\ pending' = pending \ {offering[o].key}
    /\ offering' = [offering EXCEPT ![o] = NoRequest]
    /\ UNCHANGED <<queue, recent, canceled, worker, batch, results, consumer, owed>>
-----------------------------------------------------------------------------
(* The worker: run, process and publish.                                   *)

Take ==
    /\ worker \in {"idle", "collecting"}
    /\ Len(batch) < BatchSize
    /\ queue # <<>>
    /\ batch' = Append(batch, Head(queue))
    /\ queue' = Tail(queue)
    /\ worker' = "collecting"
    /\ UNCHANGED <<offering, pending, recent, canceled, results, consumer, owed>>

IsDirect(r) == r.direct

\* Fault: requests that need Git are left out.
DirectOrders(seq) == {SelectSeq(seq, IsDirect)}

\* What process handles together: what resolves directly, and what one
\* invocation of Git answers.
Together(r, q) == IsDirect(r) = IsDirect(q) /\ (IsDirect(r) \/ r.root = q.root)

\* The orders process publishes a batch in: first what resolves directly, then
\* one project root after the other, in the order of an iteration over a map;
\* within each the order of the batch.
PublishOrders(seq) ==
    {[i \in DOMAIN seq |-> seq[p[i]]] :
        p \in {p \in Bijection(DOMAIN seq, DOMAIN seq) :
                \A i, j \in DOMAIN seq : i < j =>
                    /\ IsDirect(seq[p[j]]) => IsDirect(seq[p[i]])
                    /\ Together(seq[p[i]], seq[p[j]]) =>
                         /\ p[i] < p[j]
                         /\ \A k \in i..j : Together(seq[p[i]], seq[p[k]])}}

\* The batch is full or its timer of 2 ms has fired.
Process ==
    /\ worker = "collecting"
    /\ worker' = "publishing"
    /\ batch' \in PublishOrders(batch)
    /\ UNCHANGED <<offering, queue, pending, recent, canceled, results, consumer, owed>>

\* publish, first half: the result goes to the channel.
Publish ==
    /\ worker = "publishing"
    /\ batch # <<>>
    /\ Len(results) < 2 * Capacity
    /\ results' = Append(results, Head(batch).key)
    /\ owed' = owed \ {Head(batch).key}
    /\ worker' = "remembering"
    /\ UNCHANGED <<offering, queue, pending, recent, canceled, batch, consumer>>

\* Fault: completed keys are remembered for ever.
RememberedForEver(key) == Append(recent, key)

\* rememberLocked: the oldest completed key makes room.
Remembered(key) ==
    LET all == Append(recent, key)
    IN  IF key \in ToSet(recent) THEN recent
        ELSE IF Len(all) <= MaxRecent THEN all ELSE Tail(all)

\* publish, second half: the key is no longer pending but recent.
Remember ==
    /\ worker = "remembering"
    /\ pending' = pending \ {Head(batch).key}
    /\ recent' = Remembered(Head(batch).key)
    /\ batch' = Tail(batch)
    /\ worker' = "publishing"
    /\ UNCHANGED <<offering, queue, canceled, results, consumer, owed>>

\* publish gives a result up once the context is canceled.
PublishNothing ==
    /\ worker = "publishing"
    /\ batch # <<>>
    /\ canceled
    /\ batch' = Tail(batch)
    /\ UNCHANGED <<offering, queue, pending, recent, canceled, worker, results, consumer, owed>>

BatchPublished ==
    /\ worker = "publishing"
    /\ batch = <<>>
    /\ worker' = "idle"
    /\ UNCHANGED <<offering, queue, pending, recent, canceled, batch, results, consumer, owed>>

\* Fault: only a worker that is collecting notices that it is canceled.
WorkerLeavesBatch ==
    /\ canceled
    /\ worker = "collecting"
    /\ worker' = "done"
    /\ batch' = <<>>
    /\ UNCHANGED <<offering, queue, pending, recent, canceled, results, consumer, owed>>

\* Canceled while waiting or collecting: the worker leaves with all it holds.
\* It does not look once the batch is full.
WorkerLeaves ==
    /\ canceled
    /\ worker = "idle" \/ (worker = "collecting" /\ Len(batch) < BatchSize)
    /\ worker' = "done"
    /\ batch' = <<>>
    /\ UNCHANGED <<offering, queue, pending, recent, canceled, results, consumer, owed>>
-----------------------------------------------------------------------------
Cancel ==
    /\ ~canceled
    /\ canceled' = TRUE
    /\ UNCHANGED <<offering, queue, pending, recent, worker, batch, results, consumer, owed>>

Consume ==
    /\ consumer = "running"
    /\ results # <<>>
    /\ results' = Tail(results)
    /\ UNCHANGED <<offering, queue, pending, recent, canceled, worker, batch, consumer, owed>>

\* The results channel is closed when the worker leaves.
ConsumerLeaves ==
    /\ consumer = "running"
    /\ results = <<>>
    /\ worker = "done"
    /\ consumer' = "done"
    /\ UNCHANGED <<offering, queue, pending, recent, canceled, worker, batch, results, owed>>

OfferEnds(o)   == OfferAccepted(o) \/ OfferDropped(o)
WorkerStep     == \/ Take \/ Process \/ Publish \/ Remember \/ PublishNothing
                  \/ BatchPublished \/ WorkerLeaves
ConsumerStep   == Consume \/ ConsumerLeaves

Next ==
    \/ \E o \in Offerers : OfferBegins(o) \/ OfferEnds(o)
    \/ WorkerStep
    \/ Cancel
    \/ ConsumerStep

\* Goroutines that can run do run; nobody need offer anything or close the
\* pipeline.  The worker's select chooses at random among the channels that are
\* ready, so that a canceled worker leaves even if requests keep coming.
Fairness ==
    /\ \A o \in Offerers : WF_vars(OfferEnds(o))
    /\ WF_vars(WorkerStep)
    /\ SF_vars(WorkerLeaves)
    /\ WF_vars(ConsumerStep)

Spec == Init /\ [][Next]_vars /\ Fairness
-----------------------------------------------------------------------------
Offered == {offering[o].key : o \in {p \in Offerers : offering[p] # NoRequest}}
\* Requests somebody still works on: to be sent, queued, collected or published.
InFlight == Offered \cup KeysOf(queue) \cup KeysOf(batch)

\* Shapes and bounds of the queues and of the memory of completed keys.
TypeOK ==
    /\ \A o \in Offerers : offering[o] \in Requests \cup {NoRequest}
    /\ Len(queue) <= Capacity
    /\ Len(results) <= 2 * Capacity
    /\ Len(batch) <= BatchSize
    /\ Len(recent) <= MaxRecent
    /\ worker \in {"idle", "collecting", "publishing", "remembering", "done"}

\* Until the pipeline is closed the pending keys are exactly those somebody
\* works on: no key leaks and blocks its request for ever, none is let in twice.
PendingIsInFlight ==
    /\ InFlight \subseteq pending
    /\ ~canceled => pending = InFlight

\* A key is queued, worked on or waiting for the consumer at most once at a
\* time, and nobody is let in with it until then: completed keys are remembered
\* for longer than the results channel can hold them.
WorkIsUnique ==
    LET unpublished == IF worker = "remembering" THEN Tail(batch) ELSE batch
        work        == results \o [i \in DOMAIN queue |-> queue[i].key]
                               \o [i \in DOMAIN unpublished |-> unpublished[i].key]
    IN  /\ \A i, j \in DOMAIN work : work[i] = work[j] => i = j
        /\ Offered \cap ToSet(work) = {}
        /\ \A o, p \in Offerers :
            offering[o] # NoRequest /\ offering[p] # NoRequest /\ offering[o].key = offering[p].key
                => o = p

Service == INSTANCE WorkService WITH
    Items <- Keys, inFlight <- owed \cup ToSet(results), closed <- canceled

\* The pipeline and its consumer are the service the desktop relies on: each
\* result is delivered once, and every accepted request gets one unless the
\* pipeline is closed first.
ImplementsService == Service!Spec

\* Close returns and the results channel is drained, even when the worker was
\* waiting on a full channel.
CloseCompletes == canceled ~> (worker = "done" /\ consumer = "done")

\* "Missing rows, unavailable Git, canceled work, or calculation failure produce
\* `unknown`": when the pipeline is closed and drained no accepted work is left
\* without a result.
CanceledWorkIsUnknown == consumer = "done" => owed = {}
=============================================================================
