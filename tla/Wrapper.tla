------------------------------ MODULE Wrapper -------------------------------
(***************************************************************************)
(* adapter/go/wrapper: one run of a wrapped command.  The child's output   *)
(* is copied to a parser, a fallback observer watches the files; what both *)
(* say passes the evidence gate, which holds fallback evidence back until  *)
(* its window is over or stronger evidence replaces it, and goes through   *)
(* the delivery queue to the collector.  When the child has ended the run  *)
(* takes these apart in order, waiting for each only so long.              *)
(*                                                                         *)
(* A piece of evidence is [key, strong, number]; the key is its file and   *)
(* what happened to it, or one of Keyless for what is about no file, which *)
(* the gate passes on at once.  Windows and deadlines may pass at any      *)
(* moment; a deadline that passes is remembered in late.  A parser that    *)
(* was given no output says nothing.  Signals, exit codes and the fields   *)
(* of events are left out.                                                 *)
(***************************************************************************)
EXTENDS Naturals, SequencesExt, FiniteSets, FiniteSetsExt

CONSTANTS
  Keys, Keyless,
  TapQueue, GateQueue, GateCapacity, DeliveryQueue,
  MaxEvents,        \* pieces of evidence in a batch
  MaxSaid,          \* bound: pieces of evidence
  MaxActivity       \* bound: chunks of output and pieces of evidence together

\* A queue that is configured to nothing gets its default length.
ASSUME WrapperAssumption ==
  /\ Keyless \subseteq Keys
  /\ {TapQueue, GateQueue, GateCapacity, DeliveryQueue, MaxEvents} \subseteq Nat \ {0}
  /\ {MaxSaid, MaxActivity} \subseteq Nat

Streams == {"stdout", "stderr"}

VARIABLES
  stage,            \* of Run: "starting", "running", "observer", "parser", "gate", "final",
                    \* "flushing", "stopping", "exited"
  canceled,         \* the parent context
  late,             \* history: a deadline passed, or a send failed
  full,             \* history: evidence found no room
  \* streamTap
  offered,          \* chunks numbered
  writing,          \* per stream: the number of a chunk not offered yet, or 0
  chunks,           \* the queue: [stream, seq]
  lastRead,         \* the number the parser's loop read last
  parser,           \* "waiting", "reading", "done"
  lost,             \* history: chunks that found the queue full
  carried,          \* history: per stream the last chunk read since the last mark, or 0
  spliced,          \* history: two chunks were read as neighbours that were not
  \* the observer and the gate
  observer,         \* "watching", "done"
  said,             \* history: evidence the parser and the observer emitted
  gateQueue, held,  \* held: evidence waiting for its window
  strongKeys,       \* recentStrong
  gate,             \* "open", "stopping", "draining", "done"
  \* delivery
  outbox,           \* the queue of batches
  sending,          \* the batch the dispatcher sends, or NoBatch
  overtaking,       \* the final batch is sent past the queue
  dispatcher,       \* "running", "done"
  acked,            \* the final batch was sent
  session,          \* the collector's view: "unknown", "started", "stopped"
  received          \* evidence it got while the session was started

tapVars      == <<offered, writing, chunks, lastRead, parser, lost, carried, spliced>>
gateVars     == <<gateQueue, held, strongKeys, gate>>
deliveryVars == <<sending, overtaking, dispatcher, acked, session, received>>
vars == <<stage, canceled, late, full, tapVars, observer, said, gateVars, outbox, deliveryVars>>

Evidence == [key : Keys, strong : BOOLEAN, number : 1..MaxSaid]
StartBatch == {[kind |-> "start"]}
FinalBatch == {[kind |-> "final"]}
NoBatch == {}

Init ==
  /\ stage = "starting" /\ canceled = FALSE /\ late = FALSE /\ full = FALSE
  /\ offered = 0 /\ writing = [s \in Streams |-> 0] /\ chunks = <<>> /\ lastRead = 0
  /\ parser = "waiting" /\ lost = {} /\ carried = [s \in Streams |-> 0] /\ spliced = FALSE
  /\ observer = "watching" /\ said = {}
  /\ gateQueue = <<>> /\ held = {} /\ strongKeys = {} /\ gate = "open"
  /\ outbox = <<>> /\ sending = NoBatch /\ overtaking = FALSE /\ dispatcher = "running"
  /\ acked = FALSE /\ session = "unknown" /\ received = {}

Alive == stage # "exited"
Active == offered + Cardinality(said) < MaxActivity
-----------------------------------------------------------------------------
(* Delivery: a bounded queue that never waits, one sender.                  *)

Room == DeliveryQueue - Len(outbox)

\* A batch that finds the queue full is lost; refused says that evidence
\* already was.
Offer(batches, refused) ==
  /\ outbox' = outbox \o SubSeq(batches, 1, IF Len(batches) < Room THEN Len(batches) ELSE Room)
  /\ full' = (full \/ Len(batches) > Room \/ refused)

\* validEvents: what of some evidence a batch has room for.
Kept(evidence) ==
  {part \in SUBSET evidence :
     Cardinality(part) <= MaxEvents /\ (part = evidence \/ Cardinality(part) = MaxEvents)}

OfferTogether(evidence) ==
  \E part \in Kept(evidence) : Offer(<<part>>, part # evidence)

TakeBatch ==
  /\ Alive /\ dispatcher = "running" /\ sending = NoBatch /\ outbox # <<>>
  /\ sending' = Head(outbox) /\ outbox' = Tail(outbox)
  /\ UNCHANGED <<stage, canceled, late, full, tapVars, observer, said, gateVars,
                 overtaking, dispatcher, acked, session, received>>

Collected(batch) ==
  /\ session' = CASE batch = StartBatch -> "started"
                  [] batch = FinalBatch -> "stopped"
                  [] OTHER -> session
  /\ received' = IF session = "started" /\ batch \notin {StartBatch, FinalBatch}
                 THEN received \cup batch ELSE received

\* Send ends with the batch at the collector, or by its deadline or an error.
SendReturns ==
  /\ Alive /\ sending # NoBatch
  /\ \/ Collected(sending) /\ UNCHANGED late
     \/ late' = TRUE /\ UNCHANGED <<session, received>>
  /\ sending' = NoBatch
  /\ acked' = (acked \/ sending = FinalBatch)
  /\ UNCHANGED <<stage, canceled, full, tapVars, observer, said, gateVars, outbox,
                 overtaking, dispatcher>>

\* emitFinal's own goroutine.
OvertakingSendReturns ==
  /\ Alive /\ overtaking
  /\ \/ Collected(FinalBatch) /\ UNCHANGED late
     \/ late' = TRUE /\ UNCHANGED <<session, received>>
  /\ overtaking' = FALSE /\ acked' = TRUE
  /\ UNCHANGED <<stage, canceled, full, tapVars, observer, said, gateVars, outbox,
                 sending, dispatcher>>

\* With its stop channel closed the loop may still take batches, or end.
DispatcherStops ==
  /\ stage = "stopping" /\ dispatcher = "running" /\ sending = NoBatch
  /\ dispatcher' = "done"
  /\ UNCHANGED <<stage, canceled, late, full, tapVars, observer, said, gateVars, outbox,
                 sending, overtaking, acked, session, received>>
-----------------------------------------------------------------------------
(* The evidence gate.                                                       *)

\* Fault: what is held has no bound.
ProcessedUnbounded(e, h, strong) ==
  LET others == {f \in h : f.key # e.key}
  IN  IF e.strong
      THEN [held |-> others, strongKeys |-> strong \cup {e.key}, out |-> <<{e}>>,
            dropped |-> FALSE]
      ELSE [held |-> IF e.key \in strong THEN h ELSE others \cup {e}, strongKeys |-> strong,
            out |-> <<>>, dropped |-> FALSE]

\* process, for one piece of evidence: what is held, known as strong, sent on
\* and refused for want of room.
Processed(e, h, strong) ==
  LET others == {f \in h : f.key # e.key}
  IN  IF e.key \in Keyless
      THEN [held |-> h, strongKeys |-> strong, out |-> <<{e}>>, dropped |-> FALSE]
      ELSE IF e.strong
      THEN [held |-> others, strongKeys |-> strong \cup {e.key}, out |-> <<{e}>>,
            dropped |-> FALSE]
      ELSE IF e.key \in strong
      THEN [held |-> h, strongKeys |-> strong, out |-> <<>>, dropped |-> FALSE]
      ELSE IF Cardinality(h) >= GateCapacity /\ others = h
      THEN [held |-> h, strongKeys |-> strong, out |-> <<>>, dropped |-> TRUE]
      ELSE [held |-> others \cup {e}, strongKeys |-> strong, out |-> <<>>, dropped |-> FALSE]

GateProcess ==
  /\ Alive /\ gate # "done" /\ gateQueue # <<>>
  /\ gateQueue' = Tail(gateQueue)
  /\ LET r == Processed(Head(gateQueue), held, strongKeys)
     IN  /\ held' = r.held /\ strongKeys' = r.strongKeys
         /\ Offer(r.out, r.dropped)
  /\ UNCHANGED <<stage, canceled, late, tapVars, observer, said, gate, deliveryVars>>

\* The ticker: evidence whose window is over leaves in one batch.
GateFlush ==
  /\ Alive /\ gate \in {"open", "stopping"}
  /\ \E expired \in (SUBSET held) \ {{}} :
       held' = held \ expired /\ OfferTogether(expired)
  /\ UNCHANGED <<stage, canceled, late, tapVars, observer, said, gateQueue, strongKeys, gate,
                 deliveryVars>>

\* Strong evidence is remembered for its window.
GateForgets ==
  /\ Alive /\ gate \in {"open", "stopping"}
  /\ \E key \in strongKeys : strongKeys' = strongKeys \ {key}
  /\ UNCHANGED <<stage, canceled, late, full, tapVars, observer, said, gateQueue, held, gate,
                 outbox, deliveryVars>>

\* The stop is taken when the select comes to it, unless it is given up before.
GateStops ==
  /\ stage = "gate" /\ gate = "stopping"
  /\ gate' = "draining"
  /\ UNCHANGED <<stage, canceled, late, full, tapVars, observer, said, gateQueue, held,
                 strongKeys, outbox, deliveryVars>>

\* The queue is drained, what is held leaves, the gate is done.
GateDone ==
  /\ Alive /\ gate = "draining" /\ gateQueue = <<>>
  /\ gate' = "done"
  /\ held' = {}
  /\ IF held = {} THEN UNCHANGED <<outbox, full>> ELSE OfferTogether(held)
  /\ UNCHANGED <<stage, canceled, late, tapVars, observer, said, gateQueue, strongKeys,
                 deliveryVars>>

\* Emit: a full queue is passed by strong evidence only.
Emit(e) ==
  \/ /\ stage \in {"final", "flushing", "stopping"} \/ gate # "open"
     /\ UNCHANGED <<gateQueue, outbox, full>>
  \/ /\ stage \in {"running", "observer", "parser"} /\ gate = "open"
     /\ \/ /\ Len(gateQueue) < GateQueue
           /\ gateQueue' = Append(gateQueue, e)
           /\ UNCHANGED <<outbox, full>>
        \/ /\ Len(gateQueue) >= GateQueue /\ e.strong
           /\ Offer(<<{e}>>, FALSE)
           /\ UNCHANGED gateQueue
        \/ /\ Len(gateQueue) >= GateQueue /\ ~e.strong
           /\ full' = TRUE
           /\ UNCHANGED <<gateQueue, outbox>>

Piece(key, strong) == [key |-> key, strong |-> strong, number |-> Cardinality(said) + 1]
-----------------------------------------------------------------------------
(* The observer: it may speak once more when it is canceled.                *)

Observe ==
  /\ Alive /\ stage # "starting" /\ observer = "watching"
  /\ Cardinality(said) < MaxSaid /\ Active
  /\ \E key \in Keys :
       /\ Emit(Piece(key, FALSE))
       /\ said' = said \cup {Piece(key, FALSE)}
  /\ UNCHANGED <<stage, canceled, late, tapVars, observer, held, strongKeys, gate, deliveryVars>>

ObserverDone ==
  /\ Alive /\ stage \notin {"starting", "running"} /\ observer = "watching"
  /\ observer' = "done"
  /\ UNCHANGED <<stage, canceled, late, full, tapVars, said, gateVars, outbox, deliveryVars>>
-----------------------------------------------------------------------------
(* The tap.  Both streams number their chunks from one counter and then     *)
(* offer them, each in its own goroutine.                                   *)

NumberChunk(s) ==
  /\ stage = "running" /\ writing[s] = 0 /\ Active
  /\ offered' = offered + 1
  /\ writing' = [writing EXCEPT ![s] = offered + 1]
  /\ UNCHANGED <<stage, canceled, late, full, chunks, lastRead, parser, lost, carried, spliced,
                 observer, said, gateVars, outbox, deliveryVars>>

OfferChunk(s) ==
  /\ stage = "running" /\ writing[s] # 0
  /\ writing' = [writing EXCEPT ![s] = 0]
  /\ LET chunk == [stream |-> s, seq |-> writing[s]]
     IN  \/ /\ Len(chunks) < TapQueue
            /\ chunks' = Append(chunks, chunk)
            /\ UNCHANGED lost
         \/ /\ Len(chunks) >= TapQueue
            /\ lost' = lost \cup {chunk}
            /\ UNCHANGED chunks
  /\ UNCHANGED <<stage, canceled, late, full, offered, lastRead, parser, carried, spliced,
                 observer, said, gateVars, outbox, deliveryVars>>

\* Fault: only the first chunk is checked for a gap.
DroppedBeforeFirst(seq) == lastRead = 0 /\ seq > 1

DroppedBefore(seq) == seq # lastRead + 1

\* What the parser makes of a chunk: it starts afresh at a mark.
Joined(chunk) ==
  IF DroppedBefore(chunk.seq)
  THEN /\ carried' = [s \in Streams |-> IF s = chunk.stream THEN chunk.seq ELSE 0]
       /\ UNCHANGED spliced
  ELSE /\ carried' = [carried EXCEPT ![chunk.stream] = chunk.seq]
       /\ spliced' = (spliced \/ /\ carried[chunk.stream] # 0
                                 /\ \E c \in lost : /\ c.stream = chunk.stream
                                                    /\ carried[chunk.stream] < c.seq
                                                    /\ c.seq < chunk.seq)

\* Whether a parse emits.  The gate refuses what comes with a canceled context:
\* the parent's, or the tap's own after its deadline.
Refused == canceled \/ stage \notin {"running", "observer", "parser"}

Says ==
  \/ UNCHANGED <<said, gateQueue, outbox, full>>
  \/ /\ Cardinality(said) < MaxSaid /\ Active
     /\ \E key \in Keys : /\ IF Refused THEN UNCHANGED <<gateQueue, outbox, full>>
                                        ELSE Emit(Piece(key, TRUE))
                          /\ said' = said \cup {Piece(key, TRUE)}

\* The tap's goroutine comes to the start signal, or finds its context done.
ParserStarts ==
  /\ Alive /\ stage # "starting" /\ parser = "waiting"
  /\ parser' = "reading"
  /\ UNCHANGED <<stage, canceled, late, full, offered, writing, chunks, lastRead, lost, carried,
                 spliced, observer, said, gateVars, outbox, deliveryVars>>

ParserGivesUp ==
  /\ Alive /\ parser = "waiting"
  /\ canceled \/ stage \notin {"starting", "running", "observer", "parser"}
  /\ parser' = "done"
  /\ UNCHANGED <<stage, canceled, late, full, offered, writing, chunks, lastRead, lost, carried,
                 spliced, observer, said, gateVars, outbox, deliveryVars>>

Parse ==
  /\ Alive /\ parser = "reading" /\ chunks # <<>>
  /\ chunks' = Tail(chunks) /\ lastRead' = Head(chunks).seq
  /\ Joined(Head(chunks))
  /\ Says
  /\ UNCHANGED <<stage, canceled, late, offered, writing, parser, lost, observer, held,
                 strongKeys, gate, deliveryVars>>

DroppedAtEnd == offered # lastRead

\* What the parser makes of the ends of both streams: without a mark what it
\* carries of a stream is the last of it.
Ended ==
  /\ carried' = [s \in Streams |-> 0]
  /\ spliced' = (spliced \/ /\ ~DroppedAtEnd
                            /\ \E c \in lost : /\ carried[c.stream] # 0
                                               /\ carried[c.stream] < c.seq)

\* The queue is closed and empty.
ParseEnd ==
  /\ Alive /\ stage \notin {"starting", "running", "observer"} /\ parser = "reading"
  /\ chunks = <<>>
  /\ parser' = "done"
  /\ Ended
  /\ Says
  /\ UNCHANGED <<stage, canceled, late, offered, writing, chunks, lastRead, lost, observer, held,
                 strongKeys, gate, deliveryVars>>
-----------------------------------------------------------------------------
(* Run.                                                                     *)

Goto(next) == stage' = next

Start ==
  /\ stage = "starting"
  /\ Goto("running")
  /\ Offer(<<StartBatch>>, FALSE)
  /\ UNCHANGED <<canceled, late, tapVars, observer, said, gateVars, deliveryVars>>

\* Nothing was said yet: the tap, the gate and the dispatcher end at once.
StartFails ==
  /\ stage = "starting"
  /\ Goto("stopping")
  /\ parser' = "done" /\ observer' = "done" /\ gate' = "done"
  /\ UNCHANGED <<canceled, late, full, offered, writing, chunks, lastRead, lost, carried, spliced,
                 said, gateQueue, held, strongKeys, outbox, deliveryVars>>

\* The parent gives up: the child is interrupted, then killed.
CancelParent ==
  /\ Alive /\ ~canceled
  /\ canceled' = TRUE
  /\ UNCHANGED <<stage, late, full, tapVars, observer, said, gateVars, outbox, deliveryVars>>

\* Wait returns when the child has ended and its output is copied.
ChildEnds ==
  /\ stage = "running" /\ \A s \in Streams : writing[s] = 0
  /\ Goto("observer")
  /\ UNCHANGED <<canceled, late, full, tapVars, observer, said, gateVars, outbox, deliveryVars>>

\* A wait ends by its event or by its deadline.
Waited(event) == late' = (late \/ ~event)

ObserverWaited ==
  /\ stage = "observer" /\ Goto("parser")
  /\ Waited(observer = "done")
  /\ UNCHANGED <<canceled, full, tapVars, observer, said, gateVars, outbox, deliveryVars>>

\* Fault: the gate is stopped without a wait for the parser.
ParserNotWaited ==
  /\ stage = "parser" /\ Goto("gate")
  /\ gate' = "stopping"
  /\ UNCHANGED <<canceled, late, full, tapVars, observer, said, gateQueue, held, strongKeys,
                 outbox, deliveryVars>>

ParserWaited ==
  /\ stage = "parser" /\ Goto("gate")
  /\ Waited(parser = "done")
  /\ gate' = "stopping"
  /\ UNCHANGED <<canceled, full, tapVars, observer, said, gateQueue, held, strongKeys, outbox,
                 deliveryVars>>

GateWaited ==
  /\ stage = "gate" /\ Goto("final")
  /\ Waited(gate = "done")
  /\ UNCHANGED <<canceled, full, tapVars, observer, said, gateVars, outbox, deliveryVars>>

\* emitFinal: queued like everything else, or past a full queue.
EmitFinal ==
  /\ stage = "final" /\ Goto("flushing")
  /\ \/ /\ Room > 0
        /\ outbox' = Append(outbox, FinalBatch)
        /\ UNCHANGED <<full, overtaking>>
     \/ /\ Room = 0
        /\ overtaking' = TRUE /\ full' = TRUE
        /\ UNCHANGED outbox
  /\ UNCHANGED <<canceled, late, tapVars, observer, said, gateVars, sending, dispatcher, acked,
                 session, received>>

Flushed ==
  /\ stage = "flushing" /\ Goto("stopping")
  /\ Waited(acked)
  /\ UNCHANGED <<canceled, full, tapVars, observer, said, gateVars, outbox, deliveryVars>>

\* The wrapper's process ends, with whatever still runs in it.
Exit ==
  /\ stage = "stopping" /\ Goto("exited")
  /\ Waited(dispatcher = "done")
  /\ UNCHANGED <<canceled, full, tapVars, observer, said, gateVars, outbox, deliveryVars>>

RunStep == \/ ObserverWaited \/ ParserWaited \/ GateWaited \/ EmitFinal \/ Flushed \/ Exit

Next ==
  \/ Start \/ StartFails \/ CancelParent \/ ChildEnds \/ RunStep
  \/ \E s \in Streams : NumberChunk(s) \/ OfferChunk(s)
  \/ ParserStarts \/ ParserGivesUp \/ Parse \/ ParseEnd
  \/ Observe \/ ObserverDone
  \/ GateProcess \/ GateFlush \/ GateForgets \/ GateStops \/ GateDone
  \/ TakeBatch \/ SendReturns \/ OvertakingSendReturns \/ DispatcherStops

Spec == Init /\ [][Next]_vars
-----------------------------------------------------------------------------
\* The queues and what the gate holds keep to their capacities, held evidence is
\* about different changes, and the collector gets only what was said.
TypeOK ==
  /\ Len(chunks) <= TapQueue /\ Len(gateQueue) <= GateQueue /\ Len(outbox) <= DeliveryQueue
  /\ held \subseteq Evidence /\ Cardinality(held) <= GateCapacity
  /\ \A e, f \in held : e.key = f.key => e = f
  /\ said \subseteq Evidence /\ received \subseteq said

\* What a run said is at the collector, inside the session, when no deadline
\* passed, nothing found a queue, the gate or a batch full and the parent did
\* not give up: the evidence itself if it is strong or about no file, and for
\* other fallback evidence the newest about the same change or the strong
\* evidence that replaces it.
Represented(e) ==
  \E f \in received :
    f = e \/ (f.key = e.key /\ e.key \notin Keyless /\ ~e.strong /\ (f.strong \/ f.number > e.number))

TeardownDelivers ==
  stage = "exited" /\ ~late /\ ~full /\ ~canceled =>
    /\ \A e \in said : Represented(e)
    /\ said # {} => session = "stopped"

\* A parser that starts afresh at DroppedBefore never joins two chunks of a
\* stream over one that was lost, nor takes a chunk for a stream's last when a
\* later one was lost, in whatever order the two streams' chunks were queued.
NeverSpliced == ~spliced
=============================================================================
