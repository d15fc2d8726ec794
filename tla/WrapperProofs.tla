--------------------------- MODULE WrapperProofs ----------------------------
(***************************************************************************)
(* Proofs about Wrapper, for queues of any length and any amount of output *)
(* and evidence, and about the filesystem observer that it runs, for any   *)
(* project, any number of changes and queues, batches and pending maps of  *)
(* any size.                                                               *)
(***************************************************************************)
EXTENDS Wrapper, FilesystemObserver, FiniteSetTheorems, TLAPS

Chunks == [stream : Streams, seq : Nat]

\* Chunk k is still on its way to the parser, or lost.
Unread(k) ==
  \/ \E s \in Streams : writing[s] = k
  \/ \E i \in 1..Len(chunks) : chunks[i].seq = k
  \/ \E c \in lost : c.seq = k

TapTypes ==
  /\ offered \in Nat
  /\ lastRead \in 0..offered
  /\ writing \in [Streams -> 0..offered]
  /\ chunks \in Seq(Chunks)
  /\ \A i \in 1..Len(chunks) : chunks[i].seq \in 1..offered
  /\ lost \subseteq Chunks
  /\ \A c \in lost : c.seq \in 1..offered
  /\ carried \in [Streams -> Nat]

\* A number is in the hands of one stream, in one place of the queue or lost.
OnePlace ==
  /\ \A s, t \in Streams : s # t /\ writing[s] # 0 => writing[s] # writing[t]
  /\ \A i, j \in 1..Len(chunks) : i # j => chunks[i].seq # chunks[j].seq
  /\ \A s \in Streams, i \in 1..Len(chunks) : writing[s] # chunks[i].seq
  /\ \A c \in lost : /\ \A s \in Streams : writing[s] # c.seq
                     /\ \A i \in 1..Len(chunks) : chunks[i].seq # c.seq

\* From the last chunk of a stream that a parser still carries up to the chunk
\* read last, everything was read: a gap would have set a mark.
ReadThrough ==
  \A s \in Streams : carried[s] # 0 =>
    /\ carried[s] <= lastRead
    /\ \A k \in carried[s]..lastRead : ~Unread(k)

IInv == TapTypes /\ OnePlace /\ ReadThrough /\ NeverSpliced
-----------------------------------------------------------------------------
LEMMA InitHolds == Init => IInv
BY DEF Init, IInv, TapTypes, OnePlace, ReadThrough, NeverSpliced, Chunks

\* A new number is above all there are.
LEMMA NumberChunkKeeps ==
  ASSUME IInv, NEW s \in Streams, NumberChunk(s)
  PROVE  IInv'
<1>0. TapTypes /\ OnePlace /\ ReadThrough /\ NeverSpliced
  BY DEF IInv
<1>1. /\ offered' = offered + 1 /\ writing' = [writing EXCEPT ![s] = offered + 1]
      /\ chunks' = chunks /\ lost' = lost /\ lastRead' = lastRead /\ carried' = carried
      /\ spliced' = spliced
  BY DEF NumberChunk
<1>2. \A t \in Streams : writing'[t] = IF t = s THEN offered + 1 ELSE writing[t]
  BY <1>0, <1>1 DEF TapTypes
<1>3. TapTypes'
  <2>1. \A k \in 0..offered : k \in 0..(offered + 1)
    BY <1>0 DEF TapTypes
  <2>2. \A k \in 1..offered : k \in 1..(offered + 1)
    BY <1>0 DEF TapTypes
  <2>3. offered + 1 \in Nat /\ offered + 1 \in 0..(offered + 1)
    BY <1>0 DEF TapTypes
  <2>4. writing' \in [Streams -> 0..(offered + 1)]
    BY <1>0, <1>1, <2>1, <2>3 DEF TapTypes
  <2> QED
    BY <1>0, <1>1, <2>1, <2>2, <2>3, <2>4 DEF TapTypes
<1>4. OnePlace'
  <2>1. \A t \in Streams : writing[t] # offered + 1
    BY <1>0 DEF TapTypes
  <2>2. \A i \in 1..Len(chunks) : chunks[i].seq # offered + 1
    BY <1>0 DEF TapTypes
  <2>3. \A c \in lost : c.seq # offered + 1
    BY <1>0 DEF TapTypes
  <2>4. \A t, u \in Streams : t # u /\ writing'[t] # 0 => writing'[t] # writing'[u]
    BY <1>0, <1>2, <2>1 DEF OnePlace
  <2> QED
    BY <1>0, <1>1, <1>2, <2>1, <2>2, <2>3, <2>4 DEF OnePlace
<1>5. ReadThrough'
  <2> SUFFICES ASSUME NEW t \in Streams, carried[t] # 0, NEW k \in carried[t]..lastRead
               PROVE  carried[t] <= lastRead /\ ~Unread(k)'
    BY <1>0, <1>1 DEF ReadThrough
  <2>1. carried[t] <= lastRead /\ ~Unread(k)
    BY <1>0 DEF ReadThrough
  <2>2. k # offered + 1
    BY <1>0 DEF TapTypes
  <2> QED
    BY <1>1, <1>2, <2>1, <2>2 DEF Unread
<1> QED
  BY <1>0, <1>1, <1>3, <1>4, <1>5 DEF IInv, NeverSpliced

\* A number moves from its stream into the queue, or is lost.
LEMMA OfferChunkKeeps ==
  ASSUME IInv, NEW s \in Streams, OfferChunk(s)
  PROVE  IInv'
<1> DEFINE chunk == [stream |-> s, seq |-> writing[s]]
<1>0. TapTypes /\ OnePlace /\ ReadThrough /\ NeverSpliced
  BY DEF IInv
<1>1. /\ writing[s] # 0 /\ writing' = [writing EXCEPT ![s] = 0]
      /\ offered' = offered /\ lastRead' = lastRead /\ carried' = carried /\ spliced' = spliced
      /\ \/ chunks' = Append(chunks, chunk) /\ lost' = lost
         \/ chunks' = chunks /\ lost' = lost \cup {chunk}
  BY DEF OfferChunk
<1>2. \A t \in Streams : writing'[t] = IF t = s THEN 0 ELSE writing[t]
  BY <1>0, <1>1 DEF TapTypes
<1>3. /\ chunk \in Chunks /\ chunk.seq = writing[s] /\ chunk.seq \in 1..offered
      /\ offered \in Nat
  BY <1>0, <1>1 DEF TapTypes, Chunks
<1> HIDE DEF chunk
<1>4. writing' \in [Streams -> 0..offered]
  BY <1>0, <1>1, <1>3 DEF TapTypes
<1>5. /\ \A t \in Streams : writing'[t] # chunk.seq
      /\ \A i \in 1..Len(chunks) : chunks[i].seq # chunk.seq
      /\ \A c \in lost : c.seq # chunk.seq
  BY <1>0, <1>1, <1>2, <1>3 DEF OnePlace
<1>6. /\ \A t, u \in Streams : t # u /\ writing'[t] # 0 => writing'[t] # writing'[u]
      /\ \A t \in Streams, i \in 1..Len(chunks) : writing'[t] # chunks[i].seq
      /\ \A t \in Streams, c \in lost : writing'[t] # c.seq
  <2>1. \A i \in 1..Len(chunks) : chunks[i].seq # 0
    BY <1>0 DEF TapTypes
  <2>2. \A c \in lost : c.seq # 0
    BY <1>0 DEF TapTypes
  <2> QED
    BY <1>0, <1>2, <2>1, <2>2 DEF OnePlace
<1>7. CASE chunks' = Append(chunks, chunk) /\ lost' = lost
  <2>1. /\ chunks' \in Seq(Chunks) /\ Len(chunks) \in Nat /\ Len(chunks') = Len(chunks) + 1
        /\ \A i \in 1..Len(chunks') :
              IF i \in 1..Len(chunks) THEN chunks'[i] = chunks[i]
              ELSE i = Len(chunks) + 1 /\ chunks'[i] = chunk
    BY <1>0, <1>3, <1>7 DEF TapTypes
  <2>2. TapTypes'
    BY <1>0, <1>1, <1>3, <1>4, <1>7, <2>1 DEF TapTypes
  <2>3. OnePlace'
    <3>1. \A i, j \in 1..Len(chunks') : i # j => chunks'[i].seq # chunks'[j].seq
      BY <1>0, <1>5, <2>1 DEF OnePlace
    <3>2. \A t \in Streams, i \in 1..Len(chunks') : writing'[t] # chunks'[i].seq
      BY <1>5, <1>6, <2>1
    <3>3. \A c \in lost, i \in 1..Len(chunks') : chunks'[i].seq # c.seq
      BY <1>0, <1>5, <2>1 DEF OnePlace
    <3> QED
      BY <1>6, <1>7, <3>1, <3>2, <3>3 DEF OnePlace
  <2>4. ReadThrough'
    <3> SUFFICES ASSUME NEW t \in Streams, carried[t] # 0, NEW k \in carried[t]..lastRead
                 PROVE  carried[t] <= lastRead /\ ~Unread(k)'
      BY <1>0, <1>1 DEF ReadThrough
    <3>1. carried[t] <= lastRead /\ ~Unread(k)
      BY <1>0 DEF ReadThrough
    <3>2. k # 0
      BY <1>0 DEF TapTypes
    <3> QED
      BY <1>2, <1>3, <1>7, <2>1, <3>1, <3>2 DEF Unread
  <2> QED
    BY <1>0, <1>1, <2>2, <2>3, <2>4 DEF IInv, NeverSpliced
<1>8. CASE chunks' = chunks /\ lost' = lost \cup {chunk}
  <2>1. TapTypes'
    BY <1>0, <1>1, <1>3, <1>4, <1>8 DEF TapTypes
  <2>2. OnePlace'
    BY <1>0, <1>5, <1>6, <1>8 DEF OnePlace
  <2>3. ReadThrough'
    <3> SUFFICES ASSUME NEW t \in Streams, carried[t] # 0, NEW k \in carried[t]..lastRead
                 PROVE  carried[t] <= lastRead /\ ~Unread(k)'
      BY <1>0, <1>1 DEF ReadThrough
    <3>1. carried[t] <= lastRead /\ ~Unread(k)
      BY <1>0 DEF ReadThrough
    <3>2. k # 0
      BY <1>0 DEF TapTypes
    <3> QED
      BY <1>2, <1>3, <1>8, <3>1, <3>2 DEF Unread
  <2> QED
    BY <1>0, <1>1, <2>1, <2>2, <2>3 DEF IInv, NeverSpliced
<1> QED
  BY <1>1, <1>7, <1>8

\* The parser takes the first chunk: at a gap it starts afresh, and without one
\* nothing between two chunks it joins is unread.
LEMMA ParseKeeps ==
  ASSUME IInv, Parse
  PROVE  IInv'
<1> PICK h : h = Head(chunks)
  OBVIOUS
<1> DEFINE n == h.seq
           own == h.stream
<1>0. TapTypes /\ OnePlace /\ ReadThrough /\ NeverSpliced
  BY DEF IInv
<1>1. /\ chunks # <<>> /\ chunks' = Tail(chunks) /\ lastRead' = n /\ Joined(h)
      /\ offered' = offered /\ writing' = writing /\ lost' = lost
  BY DEF Parse
<1>2. /\ h \in Chunks /\ h = chunks[1] /\ 1 \in 1..Len(chunks) /\ Len(chunks) \in Nat
      /\ chunks' \in Seq(Chunks) /\ Len(chunks') = Len(chunks) - 1
      /\ \A i \in 1..Len(chunks') : i + 1 \in 1..Len(chunks) /\ chunks'[i] = chunks[i + 1]
  BY <1>0, <1>1 DEF TapTypes
<1>3. own \in Streams /\ n \in 1..offered /\ offered \in Nat /\ lastRead \in Nat
  BY <1>0, <1>2 DEF TapTypes, Chunks
<1> HIDE DEF n, own
<1>4. \A i \in 1..Len(chunks') : chunks'[i].seq # n /\ chunks'[i].seq \in 1..offered
  <2> SUFFICES ASSUME NEW i \in 1..Len(chunks')
               PROVE  chunks'[i].seq # n /\ chunks'[i].seq \in 1..offered
    OBVIOUS
  <2>1. i + 1 # 1 /\ i + 1 \in 1..Len(chunks) /\ chunks'[i] = chunks[i + 1]
    BY <1>2
  <2> QED
    BY <1>0, <1>2, <2>1 DEF OnePlace, TapTypes, n
<1>5. ~Unread(n)'
  <2>1. \A s \in Streams : writing[s] # n
    BY <1>0, <1>2 DEF OnePlace, n
  <2>2. \A c \in lost : c.seq # n
    BY <1>0, <1>2 DEF OnePlace, n
  <2> QED
    BY <1>1, <1>4, <2>1, <2>2 DEF Unread
<1>6. \A k : Unread(k)' => Unread(k)
  BY <1>1, <1>2 DEF Unread
<1>7. OnePlace'
  <2>1. \A i, j \in 1..Len(chunks') : i # j => chunks'[i].seq # chunks'[j].seq
    <3>1. \A i, j \in 1..Len(chunks') : i # j => i + 1 # j + 1
      BY <1>2
    <3> QED
      BY <1>0, <1>2, <3>1, SMTT(30) DEF OnePlace
  <2> QED
    BY <1>0, <1>1, <1>2, <2>1 DEF OnePlace
<1>8. CASE DroppedBefore(n)
  <2>1. carried' = [s \in Streams |-> IF s = own THEN n ELSE 0] /\ spliced' = spliced
    BY <1>1, <1>8 DEF Joined, n, own
  <2>2. TapTypes'
    BY <1>0, <1>1, <1>2, <1>3, <1>4, <2>1 DEF TapTypes
  <2>3. ReadThrough'
    <3> SUFFICES ASSUME NEW t \in Streams, carried'[t] # 0
                 PROVE  carried'[t] <= n /\ \A k \in carried'[t]..n : ~Unread(k)'
      BY <1>1 DEF ReadThrough
    <3>1. carried'[t] = n
      BY <2>1
    <3>2. \A k \in n..n : k = n
      BY <1>3
    <3> QED
      BY <1>3, <1>5, <3>1, <3>2
  <2> QED
    BY <1>0, <1>7, <2>1, <2>2, <2>3 DEF IInv, NeverSpliced
<1>9. CASE ~DroppedBefore(n)
  <2>1. n = lastRead + 1
    BY <1>9 DEF DroppedBefore
  <2>2. /\ carried' = [carried EXCEPT ![own] = n]
        /\ spliced' = (spliced \/ /\ carried[own] # 0
                                  /\ \E c \in lost : /\ c.stream = own
                                                     /\ carried[own] < c.seq
                                                     /\ c.seq < n)
    BY <1>1, <1>9 DEF Joined, n, own
  <2>3. TapTypes'
    BY <1>0, <1>1, <1>2, <1>3, <1>4, <2>2 DEF TapTypes
  <2>4. NeverSpliced'
    <3> SUFFICES ASSUME carried[own] # 0, NEW c \in lost, carried[own] < c.seq, c.seq < n
                 PROVE  FALSE
      BY <1>0, <2>2 DEF NeverSpliced
    <3>1. c.seq \in carried[own]..lastRead
      BY <1>0, <1>3, <2>1, SMTT(30) DEF TapTypes, Chunks
    <3> QED
      BY <1>0, <1>3, <3>1 DEF ReadThrough, Unread
  <2>5. ReadThrough'
    <3> SUFFICES ASSUME NEW t \in Streams, carried'[t] # 0
                 PROVE  carried'[t] <= n /\ \A k \in carried'[t]..n : ~Unread(k)'
      BY <1>1 DEF ReadThrough
    <3>1. CASE t = own
      <4>1. carried'[t] = n
        BY <1>0, <2>2, <3>1 DEF TapTypes
      <4>2. \A k \in n..n : k = n
        BY <1>3
      <4> QED
        BY <1>3, <1>5, <4>1, <4>2
    <3>2. CASE t # own
      <4>1. carried'[t] = carried[t] /\ carried[t] \in Nat
        BY <1>0, <2>2, <3>2 DEF TapTypes
      <4>2. carried[t] <= lastRead /\ \A k \in carried[t]..lastRead : ~Unread(k)
        BY <1>0, <4>1 DEF ReadThrough
      <4>3. \A k \in carried[t]..n : k \in carried[t]..lastRead \/ k = n
        BY <1>3, <2>1, <4>1
      <4> QED
        BY <1>3, <1>5, <1>6, <2>1, <4>1, <4>2, <4>3
    <3> QED
      BY <3>1, <3>2
  <2> QED
    BY <1>7, <2>3, <2>4, <2>5 DEF IInv
<1> QED
  BY <1>8, <1>9

\* At the end without a mark, everything up to the last number was read.
LEMMA ParseEndKeeps ==
  ASSUME IInv, ParseEnd
  PROVE  IInv'
<1>0. TapTypes /\ OnePlace /\ ReadThrough /\ NeverSpliced
  BY DEF IInv
<1>1. /\ carried' = [s \in Streams |-> 0] /\ Ended
      /\ UNCHANGED <<offered, writing, chunks, lastRead, lost>>
  BY DEF ParseEnd, Ended
<1>2. NeverSpliced'
  <2> SUFFICES ASSUME offered = lastRead, NEW c \in lost,
                      carried[c.stream] # 0, carried[c.stream] < c.seq
               PROVE  FALSE
    BY <1>0, <1>1 DEF Ended, DroppedAtEnd, NeverSpliced
  <2>1. c.stream \in Streams /\ c.seq \in Nat /\ c.seq <= lastRead /\ carried[c.stream] \in Nat
        /\ lastRead \in Nat
    BY <1>0 DEF TapTypes, Chunks
  <2>2. c.seq \in carried[c.stream]..lastRead
    BY <2>1
  <2> QED
    BY <1>0, <2>1, <2>2 DEF ReadThrough, Unread
<1>3. TapTypes' /\ OnePlace' /\ ReadThrough'
  BY <1>0, <1>1 DEF TapTypes, OnePlace, ReadThrough
<1> QED
  BY <1>2, <1>3 DEF IInv

\* The other steps do not touch the tap's numbers.
LEMMA OtherStepsKeep ==
  ASSUME IInv, UNCHANGED <<offered, writing, chunks, lastRead, lost, carried, spliced>>
  PROVE  IInv'
BY DEF IInv, TapTypes, OnePlace, ReadThrough, NeverSpliced, Unread

LEMMA NextKeeps ==
  ASSUME IInv, [Next]_vars
  PROVE  IInv'
<1> DEFINE tap == <<offered, writing, chunks, lastRead, lost, carried, spliced>>
<1>1. ASSUME NEW s \in Streams, NumberChunk(s) \/ OfferChunk(s) PROVE IInv'
  BY <1>1, NumberChunkKeeps, OfferChunkKeeps
<1>2. CASE Parse
  BY <1>2, ParseKeeps
<1>3. CASE Start \/ StartFails \/ ParserStarts \/ ParserGivesUp
  <2>1. UNCHANGED tap
    BY <1>3 DEF Start, StartFails, ParserStarts, ParserGivesUp, tapVars
  <2> QED
    BY <2>1, OtherStepsKeep
<1>4. CASE CancelParent \/ ChildEnds \/ RunStep \/ Observe \/ ObserverDone
  <2>1. UNCHANGED tapVars
    BY <1>4 DEF CancelParent, ChildEnds, RunStep, ObserverWaited, ParserWaited, GateWaited,
                EmitFinal, Flushed, Exit, Observe, ObserverDone
  <2> QED
    BY <2>1, OtherStepsKeep DEF tapVars
<1>5. CASE GateProcess \/ GateFlush \/ GateForgets \/ GateStops \/ GateDone
  <2>1. UNCHANGED tapVars
    BY <1>5 DEF GateProcess, GateFlush, GateForgets, GateStops, GateDone
  <2> QED
    BY <2>1, OtherStepsKeep DEF tapVars
<1>6. CASE TakeBatch \/ SendReturns \/ OvertakingSendReturns \/ DispatcherStops
  <2>1. UNCHANGED tapVars
    BY <1>6 DEF TakeBatch, SendReturns, OvertakingSendReturns, DispatcherStops
  <2> QED
    BY <2>1, OtherStepsKeep DEF tapVars
<1>7. CASE UNCHANGED vars
  BY <1>7, OtherStepsKeep DEF vars, tapVars
<1>8. CASE ParseEnd
  BY <1>8, ParseEndKeeps
<1> QED
  BY <1>1, <1>2, <1>3, <1>4, <1>5, <1>6, <1>7, <1>8 DEF Next

\* However the chunks of two streams are numbered, queued and lost, a parser
\* that starts afresh at a mark never joins two chunks of a stream over a lost
\* one, nor takes a chunk for the last of a stream that lost a later one.
THEOREM NothingEverSpliced == Spec => []NeverSpliced
<1>1. IInv => NeverSpliced
  BY DEF IInv
<1> QED
  BY <1>1, InitHolds, NextKeeps, PTL DEF Spec
-----------------------------------------------------------------------------
(* What the gate and the delivery hold.                                     *)

Stages == {"starting", "running", "observer", "parser", "gate", "final", "flushing", "stopping",
           "exited"}

\* Batches of what was said, and the first and the last.
Batches == (SUBSET said) \cup {StartBatch, FinalBatch}

SaidTypes ==
  /\ said \subseteq Evidence /\ IsFiniteSet(said)
  /\ \A e \in said : e.number <= Cardinality(said)

\* What waits was said in this order, and nothing newer is held.
GateTypes ==
  /\ gateQueue \in Seq(said) /\ Len(gateQueue) <= GateQueue
  /\ \A i, j \in 1..Len(gateQueue) : i < j => gateQueue[i].number < gateQueue[j].number
  /\ held \subseteq said /\ IsFiniteSet(held) /\ Cardinality(held) <= GateCapacity
  /\ \A e, f \in held : e.key = f.key => e = f
  /\ \A f \in held : ~f.strong /\ \A i \in 1..Len(gateQueue) : f.number < gateQueue[i].number

DeliveryTypes ==
  /\ outbox \in Seq(Batches) /\ Len(outbox) <= DeliveryQueue
  /\ sending \in Batches
  /\ received \subseteq said

HoldInv == SaidTypes /\ GateTypes /\ DeliveryTypes /\ Len(chunks) <= TapQueue
-----------------------------------------------------------------------------
(* How a run whose deadlines hold, whose queues do not fill and whose parent *)
(* does not give up goes.                                                    *)

Good == ~late /\ ~full /\ ~canceled

\* The parts end in the order in which Run waits for them.
InOrder ==
  /\ observer = "watching" => stage \in {"starting", "running", "observer"}
  /\ parser = "waiting" => stage \in {"starting", "running", "observer", "parser"}
  /\ parser = "reading" => stage \in {"running", "observer", "parser"}
  /\ gate \in {"open", "stopping", "draining", "done"}
  /\ gate = "open" <=> stage \in {"starting", "running", "observer", "parser"}
  /\ gate \in {"stopping", "draining"} => stage = "gate"
  /\ gate = "done" => gateQueue = <<>> /\ held = {}
  /\ stage = "starting" => said = {} /\ gateQueue = <<>> /\ held = {} /\ strongKeys = {}
  /\ ~overtaking

Queued(batch) == \E i \in 1..Len(outbox) : outbox[i] = batch

\* The batch that starts the session is first, ...
StartsFirst ==
  /\ session \in {"unknown", "started", "stopped"}
  /\ stage = "starting" => session = "unknown" /\ sending = NoBatch /\ outbox = <<>>
  /\ session = "unknown" =>
       \/ stage = "starting"
       \/ stage \in {"stopping", "exited"} /\ said = {} /\ sending = NoBatch /\ outbox = <<>>
       \/ sending = StartBatch /\ ~Queued(StartBatch)
       \/ /\ sending = NoBatch /\ outbox # <<>> /\ outbox[1] = StartBatch
          /\ \A i \in 2..Len(outbox) : outbox[i] # StartBatch
  /\ session # "unknown" => sending # StartBatch /\ ~Queued(StartBatch)

\* ... and the one that ends it last.
FinalLeft ==
  \/ /\ outbox # <<>> /\ outbox[Len(outbox)] = FinalBatch
     /\ \A i \in 1..(Len(outbox) - 1) : outbox[i] # FinalBatch
     /\ sending # FinalBatch /\ ~acked /\ session # "stopped"
  \/ outbox = <<>> /\ sending = FinalBatch /\ ~acked /\ session # "stopped"
  \/ outbox = <<>> /\ sending = NoBatch /\ acked /\ session = "stopped"

EndsLast ==
  /\ stage \notin {"flushing", "stopping", "exited"} =>
       ~acked /\ session # "stopped" /\ sending # FinalBatch /\ ~Queued(FinalBatch)
  /\ stage \in {"flushing", "stopping", "exited"} => said = {} \/ FinalLeft
  /\ stage \in {"stopping", "exited"} => said = {} \/ acked

\* What evidence e is represented by.
Stands(f, e) ==
  f = e \/ (f.key = e.key /\ e.key \notin Keyless /\ ~e.strong /\ (f.strong \/ f.number > e.number))

\* It is on its way to the collector or there, ...
Leaving(f) ==
  \/ f \in received \/ f \in sending
  \/ \E i \in 1..Len(outbox) : f \in outbox[i]

\* ... or still in the gate.
Waiting(f) == f \in held \/ \E i \in 1..Len(gateQueue) : gateQueue[i] = f

NothingMissing ==
  /\ \A e \in said : \E f \in said : Stands(f, e) /\ (Leaving(f) \/ Waiting(f))
  /\ \A k \in strongKeys : \E f \in said : f.strong /\ f.key = k /\ Leaving(f)

GoodInv == Good => InOrder /\ StartsFirst /\ EndsLast /\ NothingMissing
-----------------------------------------------------------------------------
\* A queue with something put at its end, ...
LEMMA Appended ==
  ASSUME NEW S, NEW q \in Seq(S), NEW x \in S
  PROVE  /\ Append(q, x) \in Seq(S) /\ Append(q, x) # <<>>
         /\ Len(q) \in Nat /\ Len(Append(q, x)) = Len(q) + 1
         /\ Append(q, x)[Len(q) + 1] = x
         /\ \A i \in 1..Len(q) : Append(q, x)[i] = q[i]
OBVIOUS

\* ... and with its head taken.
LEMMA Taken ==
  ASSUME NEW S, NEW q \in Seq(S), q # <<>>
  PROVE  /\ Tail(q) \in Seq(S) /\ Head(q) \in S /\ Head(q) = q[1]
         /\ Len(q) \in Nat \ {0} /\ Len(Tail(q)) = Len(q) - 1
         /\ \A i \in 1..Len(Tail(q)) : i + 1 \in 1..Len(q) /\ Tail(q)[i] = q[i + 1]
OBVIOUS

\* The first and the last batch are no evidence.
LEMMA BatchesApart ==
  ASSUME said \subseteq Evidence
  PROVE  /\ StartBatch \notin SUBSET said /\ FinalBatch \notin SUBSET said
         /\ StartBatch # FinalBatch /\ StartBatch # NoBatch /\ FinalBatch # NoBatch
         /\ NoBatch \in SUBSET said
         /\ \A e \in said : e \notin StartBatch /\ e \notin FinalBatch
<1>1. [kind |-> "start"] \notin Evidence /\ [kind |-> "final"] \notin Evidence
  BY DEF Evidence
<1>2. [kind |-> "start"] # [kind |-> "final"]
  OBVIOUS
<1> QED
  BY <1>1, <1>2 DEF StartBatch, FinalBatch, NoBatch

\* offer, of one batch: it is queued, or lost; of none, nothing.
LEMMA OfferOne ==
  ASSUME NEW S, outbox \in Seq(S), Len(outbox) <= DeliveryQueue, NEW b, NEW refused \in BOOLEAN
  PROVE  /\ Offer(<<b>>, refused) =>
              /\ \/ outbox' = Append(outbox, b) /\ Len(outbox) < DeliveryQueue
                 \/ outbox' = outbox /\ full'
              /\ full => full'
              /\ refused => full'
         /\ Offer(<<>>, refused) => outbox' = outbox /\ (full => full') /\ (refused => full')
<1>1. Len(outbox) \in Nat /\ DeliveryQueue \in Nat /\ Room \in Nat
  BY WrapperAssumption DEF Room
<1>2. /\ SubSeq(<<b>>, 1, 1) = <<b>> /\ SubSeq(<<b>>, 1, 0) = <<>> /\ Len(<<b>>) = 1
  <2>1. \A s \in Seq({b}) : Len(s) = 1 => SubSeq(s, 1, 1) = s
    OBVIOUS
  <2>2. <<b>> \in Seq({b}) /\ Len(<<b>>) = 1 /\ SubSeq(<<b>>, 1, 0) = <<>>
    OBVIOUS
  <2> QED
    BY <2>1, <2>2, Zenon
<1>3. outbox \o <<b>> = Append(outbox, b) /\ outbox \o <<>> = outbox
  OBVIOUS
<1>4. Len(<<>>) = 0 /\ SubSeq(<<>>, 1, 0) = <<>>
  OBVIOUS
<1>5. Room > 0 => Len(outbox) < DeliveryQueue
  BY <1>1 DEF Room
<1>6. Room > 0 => (IF 1 < Room THEN 1 ELSE Room) = 1
  BY <1>1
<1>7. ~(Room > 0) => (IF 1 < Room THEN 1 ELSE Room) = 0
  BY <1>1
<1>8. (IF 0 < Room THEN 0 ELSE Room) = 0
  BY <1>1
<1>9. (1 > Room <=> ~(Room > 0)) /\ ~(0 > Room)
  BY <1>1
<1> HIDE DEF Room
<1>10. ASSUME Offer(<<b>>, refused)
       PROVE  /\ \/ outbox' = Append(outbox, b) /\ Len(outbox) < DeliveryQueue
                 \/ outbox' = outbox /\ full'
              /\ full => full'
              /\ refused => full'
  BY <1>2, <1>3, <1>5, <1>6, <1>7, <1>9, <1>10 DEF Offer
<1>11. ASSUME Offer(<<>>, refused)
       PROVE  outbox' = outbox /\ (full => full') /\ (refused => full')
  BY <1>3, <1>4, <1>8, <1>9, <1>11 DEF Offer
<1> QED
  BY <1>10, <1>11
-----------------------------------------------------------------------------
\* A queue over a part of a set is a queue over the set.
LEMMA Widened ==
  ASSUME NEW S, NEW T, S \subseteq T, NEW q \in Seq(S)
  PROVE  q \in Seq(T)
OBVIOUS

\* What is said next is new, and its number the highest.
LEMMA NewPiece ==
  ASSUME SaidTypes, Cardinality(said) < MaxSaid, NEW key \in Keys, NEW strong \in BOOLEAN,
         NEW e, e = Piece(key, strong), said' = said \cup {e}
  PROVE  /\ SaidTypes'
         /\ e.key = key /\ e.strong = strong /\ e \notin said
         /\ \A f \in said : f.number < e.number /\ f.number \in Nat
<1>1. Cardinality(said) \in Nat /\ MaxSaid \in Nat
  BY FS_CardinalityType, WrapperAssumption DEF SaidTypes
<1>2. /\ e.key = key /\ e.strong = strong /\ e.number = Cardinality(said) + 1
      /\ e \in Evidence
  BY <1>1 DEF Piece, Evidence
<1>3. \A f \in said : f.number \in Nat /\ f.number < e.number
  BY <1>1, <1>2 DEF SaidTypes, Evidence
<1>4. e \notin said
  BY <1>3
<1>5. IsFiniteSet(said') /\ Cardinality(said') = Cardinality(said) + 1
  BY <1>4, FS_AddElement DEF SaidTypes
<1>6. \A f \in said' : f.number <= Cardinality(said')
  BY <1>1, <1>2, <1>3, <1>5 DEF SaidTypes
<1> QED
  BY <1>2, <1>3, <1>4, <1>5, <1>6 DEF SaidTypes

Early == {"running", "observer", "parser"}

\* What becomes of evidence that is said: refused or lost, queued at the gate,
\* or, if it is strong and the gate's queue is full, queued for delivery.
Emitted(e) ==
  /\ full => full'
  /\ \/ /\ UNCHANGED <<gateQueue, outbox>>
        /\ full' \/ gate # "open" \/ stage \notin Early
     \/ /\ gateQueue' = Append(gateQueue, e) /\ Len(gateQueue) < GateQueue
        /\ UNCHANGED outbox
        /\ gate = "open" /\ stage \in Early
     \/ /\ outbox' = Append(outbox, {e}) /\ Len(outbox) < DeliveryQueue /\ e.strong
        /\ UNCHANGED gateQueue
        /\ gate = "open" /\ stage \in Early

LEMMA EmitEffect ==
  ASSUME HoldInv, NEW e, Emit(e)
  PROVE  Emitted(e)
<1>1. outbox \in Seq(Batches) /\ Len(outbox) <= DeliveryQueue
  BY DEF HoldInv, DeliveryTypes
<1>2. ASSUME Offer(<<{e}>>, FALSE)
      PROVE  /\ \/ outbox' = Append(outbox, {e}) /\ Len(outbox) < DeliveryQueue
                \/ outbox' = outbox /\ full'
             /\ full => full'
  BY <1>1, <1>2, OfferOne DEF Offer
<1>3. CASE UNCHANGED <<gateQueue, outbox, full>> /\ (stage \notin Early \/ gate # "open")
  BY <1>3 DEF Emitted
<1>4. CASE stage \in Early /\ gate = "open"
  <2>1. CASE /\ Len(gateQueue) < GateQueue /\ gateQueue' = Append(gateQueue, e)
             /\ UNCHANGED <<outbox, full>>
    BY <1>4, <2>1 DEF Emitted
  <2>2. CASE e.strong /\ Offer(<<{e}>>, FALSE) /\ UNCHANGED gateQueue
    BY <1>2, <1>4, <2>2 DEF Emitted
  <2>3. CASE full' = TRUE /\ UNCHANGED <<gateQueue, outbox>>
    BY <2>3 DEF Emitted
  <2> QED
    BY <1>4, <2>1, <2>2, <2>3, Zenon DEF Emit, Early
<1> QED
  BY <1>3, <1>4, Zenon DEF Emit, Early

\* Evidence that is said, whatever becomes of it.
LEMMA EmissionKeeps ==
  ASSUME HoldInv, NEW key \in Keys, NEW strong \in BOOLEAN, NEW e, e = Piece(key, strong),
         Cardinality(said) < MaxSaid, said' = said \cup {e},
         Emitted(e) \/ UNCHANGED <<gateQueue, outbox>>,
         UNCHANGED <<held, sending, received>>, Len(chunks') <= TapQueue
  PROVE  HoldInv'
<1>0. SaidTypes /\ GateTypes /\ DeliveryTypes
  BY DEF HoldInv
<1>1. /\ SaidTypes' /\ e \notin said /\ e \in said' /\ said \subseteq said'
      /\ \A f \in said : f.number < e.number
  BY <1>0, NewPiece
<1>2. Batches \subseteq Batches' /\ {e} \in Batches'
  BY <1>1 DEF Batches
<1>3. gateQueue \in Seq(said') /\ outbox \in Seq(Batches')
  BY <1>0, <1>1, <1>2, Widened DEF GateTypes, DeliveryTypes
<1>4. GateTypes'
  <2>1. CASE gateQueue' = gateQueue
    BY <1>0, <1>1, <1>3, <2>1 DEF GateTypes
  <2>2. CASE gateQueue' = Append(gateQueue, e) /\ Len(gateQueue) < GateQueue
    <3>1. /\ gateQueue' \in Seq(said') /\ Len(gateQueue) \in Nat
          /\ Len(gateQueue') = Len(gateQueue) + 1 /\ gateQueue'[Len(gateQueue) + 1] = e
          /\ \A i \in 1..Len(gateQueue) : gateQueue'[i] = gateQueue[i]
      BY <1>1, <1>3, <2>2, Appended
    <3>2. \A i \in 1..Len(gateQueue) : gateQueue[i].number < e.number
      BY <1>0, <1>1 DEF GateTypes
    <3>3. \A i \in 1..Len(gateQueue') : i \in 1..Len(gateQueue) \/ i = Len(gateQueue) + 1
      BY <3>1
    <3>4. \A i, j \in 1..Len(gateQueue') : i < j => gateQueue'[i].number < gateQueue'[j].number
      BY <1>0, <3>1, <3>2, <3>3 DEF GateTypes
    <3>5. \A f \in held, i \in 1..Len(gateQueue') : f.number < gateQueue'[i].number
      BY <1>0, <1>1, <3>1, <3>3 DEF GateTypes
    <3>6. Len(gateQueue') <= GateQueue
      BY <2>2, <3>1, WrapperAssumption
    <3> QED
      BY <1>0, <1>1, <3>1, <3>4, <3>5, <3>6 DEF GateTypes
  <2> QED
    BY <2>1, <2>2 DEF Emitted
<1>5. DeliveryTypes'
  <2>1. CASE outbox' = outbox
    BY <1>0, <1>1, <1>2, <1>3, <2>1 DEF DeliveryTypes
  <2>2. CASE outbox' = Append(outbox, {e}) /\ Len(outbox) < DeliveryQueue
    <3>1. outbox' \in Seq(Batches') /\ Len(outbox) \in Nat /\ Len(outbox') = Len(outbox) + 1
      BY <1>2, <1>3, <2>2, Appended
    <3>2. Len(outbox') <= DeliveryQueue
      BY <2>2, <3>1, WrapperAssumption
    <3> QED
      BY <1>0, <1>1, <1>2, <3>1, <3>2 DEF DeliveryTypes
  <2> QED
    BY <2>1, <2>2 DEF Emitted
<1> QED
  BY <1>1, <1>4, <1>5 DEF HoldInv
-----------------------------------------------------------------------------
Others(e) == {f \in held : f.key # e.key}

\* What becomes of the evidence e the gate takes from its queue.
Sorted(e) ==
  /\ full => full'
  /\ \/ /\ e.key \in Keyless
        /\ UNCHANGED <<held, strongKeys>>
        /\ \/ outbox' = Append(outbox, {e}) /\ Len(outbox) < DeliveryQueue
           \/ outbox' = outbox /\ full'
     \/ /\ e.strong /\ e.key \notin Keyless
        /\ held' = Others(e) /\ strongKeys' = strongKeys \cup {e.key}
        /\ \/ outbox' = Append(outbox, {e}) /\ Len(outbox) < DeliveryQueue
           \/ outbox' = outbox /\ full'
     \/ /\ ~e.strong /\ e.key \in strongKeys /\ e.key \notin Keyless
        /\ UNCHANGED <<held, strongKeys, outbox>>
     \/ /\ ~e.strong /\ full'
        /\ UNCHANGED <<held, strongKeys, outbox>>
     \/ /\ ~e.strong /\ e.key \notin Keyless
        /\ held' = Others(e) \cup {e}
        /\ Cardinality(held) < GateCapacity \/ Others(e) # held
        /\ UNCHANGED <<strongKeys, outbox>>

LEMMA ProcessEffect ==
  ASSUME HoldInv, GateProcess, NEW e, e = Head(gateQueue)
  PROVE  Sorted(e)
<1>1. outbox \in Seq(Batches) /\ Len(outbox) <= DeliveryQueue
  BY DEF HoldInv, DeliveryTypes
<1> DEFINE r == Processed(e, held, strongKeys)
<1>2. /\ held' = r.held /\ strongKeys' = r.strongKeys /\ Offer(r.out, r.dropped)
  BY DEF GateProcess
<1>3. Others(e) = {f \in held : f.key # e.key}
  BY DEF Others
<1>6. CASE e.key \in Keyless
  <2>1. /\ r.held = held /\ r.strongKeys = strongKeys /\ r.out = <<{e}>> /\ r.dropped = FALSE
    BY <1>6 DEF Processed
  <2> HIDE DEF r
  <2>2. /\ \/ outbox' = Append(outbox, {e}) /\ Len(outbox) < DeliveryQueue
           \/ outbox' = outbox /\ full'
        /\ full => full'
    BY <1>1, <1>2, <2>1, OfferOne
  <2> QED
    BY <1>2, <1>6, <2>1, <2>2 DEF Sorted
<1>4. CASE e.strong /\ e.key \notin Keyless
  <2>1. /\ r.held = Others(e) /\ r.strongKeys = strongKeys \cup {e.key}
        /\ r.out = <<{e}>> /\ r.dropped = FALSE
    BY <1>3, <1>4 DEF Processed
  <2> HIDE DEF r
  <2>2. /\ \/ outbox' = Append(outbox, {e}) /\ Len(outbox) < DeliveryQueue
           \/ outbox' = outbox /\ full'
        /\ full => full'
    BY <1>1, <1>2, <2>1, OfferOne
  <2> QED
    BY <1>2, <1>4, <2>1, <2>2 DEF Sorted
<1>5. CASE ~e.strong /\ e.key \notin Keyless
  <2>1. /\ r.out = <<>> /\ r.strongKeys = strongKeys /\ r.dropped \in BOOLEAN
        /\ \/ e.key \in strongKeys /\ r.held = held
           \/ r.dropped = TRUE /\ r.held = held
           \/ /\ r.held = Others(e) \cup {e}
              /\ ~(Cardinality(held) >= GateCapacity /\ Others(e) = held)
    BY <1>3, <1>5 DEF Processed
  <2> HIDE DEF r
  <2>2. outbox' = outbox /\ (full => full') /\ (r.dropped = TRUE => full')
    BY <1>1, <1>2, <2>1, OfferOne
  <2>3. Cardinality(held) \in Nat /\ GateCapacity \in Nat
    BY FS_CardinalityType, WrapperAssumption DEF HoldInv, GateTypes
  <2> QED
    BY <1>2, <1>5, <2>1, <2>2, <2>3 DEF Sorted
<1> QED
  BY <1>4, <1>5, <1>6

\* Holding evidence in the place of what was held about the same change.
LEMMA HeldBound ==
  ASSUME GateTypes, NEW e, Cardinality(held) < GateCapacity \/ Others(e) # held
  PROVE  /\ IsFiniteSet(Others(e)) /\ Cardinality(Others(e)) <= GateCapacity
         /\ IsFiniteSet(Others(e) \cup {e}) /\ Cardinality(Others(e) \cup {e}) <= GateCapacity
<1>1. /\ IsFiniteSet(held) /\ Cardinality(held) \in Nat /\ Cardinality(held) <= GateCapacity
      /\ GateCapacity \in Nat /\ Others(e) \in SUBSET held
  BY FS_CardinalityType, WrapperAssumption DEF GateTypes, Others
<1>2. /\ IsFiniteSet(Others(e)) /\ Cardinality(Others(e)) \in Nat
      /\ Cardinality(Others(e)) <= Cardinality(held)
      /\ Cardinality(held) = Cardinality(Others(e)) => held = Others(e)
  BY <1>1, FS_Subset, FS_CardinalityType
<1>3. Cardinality(Others(e)) < GateCapacity
  BY <1>1, <1>2
<1>4. /\ IsFiniteSet(Others(e) \cup {e})
      /\ Cardinality(Others(e) \cup {e}) \in {Cardinality(Others(e)), Cardinality(Others(e)) + 1}
  BY <1>2, FS_AddElement
<1> QED
  BY <1>1, <1>2, <1>3, <1>4

\* The gate takes evidence from its queue.
LEMMA ProcessKeeps ==
  ASSUME HoldInv, GateProcess
  PROVE  HoldInv'
<1> PICK e : e = Head(gateQueue)
  OBVIOUS
<1>0. SaidTypes /\ GateTypes /\ DeliveryTypes
  BY DEF HoldInv
<1>1. /\ gateQueue # <<>> /\ gateQueue' = Tail(gateQueue)
      /\ UNCHANGED <<said, sending, received, chunks>>
  BY DEF GateProcess, deliveryVars, tapVars
<1>2. Sorted(e)
  BY ProcessEffect
<1>3. /\ gateQueue' \in Seq(said) /\ e \in said /\ e = gateQueue[1]
      /\ Len(gateQueue) \in Nat \ {0} /\ Len(gateQueue') = Len(gateQueue) - 1
      /\ \A i \in 1..Len(gateQueue') : i + 1 \in 1..Len(gateQueue)
                                       /\ gateQueue'[i] = gateQueue[i + 1]
  BY <1>0, <1>1, Taken DEF GateTypes
<1>4. \A i \in 1..Len(gateQueue') : e.number < gateQueue'[i].number
  <2>1. \A i \in 1..Len(gateQueue') : 1 \in 1..Len(gateQueue) /\ 1 < i + 1
    BY <1>3
  <2> QED
    BY <1>0, <1>3, <2>1 DEF GateTypes
<1>5. \A i, j \in 1..Len(gateQueue') : i < j => gateQueue'[i].number < gateQueue'[j].number
  <2>1. \A i, j \in 1..Len(gateQueue') : i < j => i + 1 < j + 1
    BY <1>3
  <2> QED
    BY <1>0, <1>3, <2>1 DEF GateTypes
<1>6. \A f \in held, i \in 1..Len(gateQueue') : f.number < gateQueue'[i].number
  BY <1>0, <1>3 DEF GateTypes
<1>7. Len(gateQueue') <= GateQueue
  BY <1>0, <1>3, WrapperAssumption DEF GateTypes
<1>8. /\ IsFiniteSet(held') /\ Cardinality(held') <= GateCapacity
  <2>1. CASE held' = held
    BY <1>0, <2>1 DEF GateTypes
  <2>2. CASE held' = Others(e) /\ Others(e) # held
    BY <1>0, <2>2, HeldBound
  <2>3. CASE /\ held' = Others(e) \cup {e}
             /\ Cardinality(held) < GateCapacity \/ Others(e) # held
    BY <1>0, <2>3, HeldBound
  <2> QED
    BY <1>2, <2>1, <2>2, <2>3 DEF Sorted
<1>9. /\ held' \subseteq said /\ \A f, g \in held' : f.key = g.key => f = g
      /\ \A f \in held' : ~f.strong /\ (f \in held \/ f = e)
  BY <1>0, <1>2, <1>3 DEF Sorted, Others, GateTypes
<1>10. GateTypes'
  BY <1>1, <1>3, <1>4, <1>5, <1>6, <1>7, <1>8, <1>9 DEF GateTypes
<1>11. DeliveryTypes'
  <2>1. CASE outbox' = outbox
    BY <1>0, <1>1, <2>1 DEF DeliveryTypes, Batches
  <2>2. CASE outbox' = Append(outbox, {e}) /\ Len(outbox) < DeliveryQueue
    <3>1. {e} \in Batches /\ Batches' = Batches
      BY <1>1, <1>3 DEF Batches
    <3>2. outbox' \in Seq(Batches) /\ Len(outbox) \in Nat /\ Len(outbox') = Len(outbox) + 1
      BY <1>0, <2>2, <3>1, Appended DEF DeliveryTypes
    <3>3. Len(outbox') <= DeliveryQueue
      BY <2>2, <3>2, WrapperAssumption
    <3> QED
      BY <1>0, <1>1, <3>1, <3>2, <3>3 DEF DeliveryTypes
  <2> QED
    BY <1>2, <2>1, <2>2 DEF Sorted
<1> QED
  BY <1>0, <1>1, <1>10, <1>11 DEF HoldInv, SaidTypes

\* What is held leaves in one batch, which is queued or lost; a batch that has
\* no room for all of it is queued without the rest.
LEMMA FlushEffect ==
  ASSUME HoldInv, GateFlush \/ GateDone
  PROVE  \E left \in SUBSET held, part \in SUBSET held :
           /\ held' = held \ left
           /\ \/ outbox' = Append(outbox, part) /\ Len(outbox) < DeliveryQueue
              \/ outbox' = outbox /\ (left = {} \/ full')
           /\ part = left \/ full'
           /\ full => full'
           /\ GateDone => left = held
<1>1. outbox \in Seq(Batches) /\ Len(outbox) <= DeliveryQueue
  BY DEF HoldInv, DeliveryTypes
<1>2. ASSUME NEW left \in SUBSET held, OfferTogether(left)
      PROVE  \E part \in SUBSET held :
               /\ \/ outbox' = Append(outbox, part) /\ Len(outbox) < DeliveryQueue
                  \/ outbox' = outbox /\ full'
               /\ part = left \/ full'
               /\ full => full'
  <2>1. PICK part \in Kept(left) : Offer(<<part>>, part # left)
    BY <1>2 DEF OfferTogether
  <2>2. part \in SUBSET held
    BY <2>1 DEF Kept
  <2>3. /\ \/ outbox' = Append(outbox, part) /\ Len(outbox) < DeliveryQueue
           \/ outbox' = outbox /\ full'
        /\ full => full'
        /\ part # left => full'
    BY <1>1, <2>1, OfferOne
  <2> QED
    BY <2>2, <2>3
<1>3. CASE GateFlush
  <2>1. gate \in {"open", "stopping"}
    BY <1>3 DEF GateFlush
  <2>2. PICK left \in SUBSET held : held' = held \ left /\ OfferTogether(left)
    BY <1>3 DEF GateFlush
  <2> QED
    BY <1>2, <2>1, <2>2 DEF GateDone
<1>4. CASE GateDone
  <2>1. held' = held \ held /\ held \in SUBSET held
    BY <1>4 DEF GateDone
  <2>2. CASE held = {}
    <3>1. outbox' = outbox /\ full' = full
      BY <1>4, <2>2 DEF GateDone
    <3> QED
      BY <2>1, <2>2, <3>1
  <2>3. CASE held # {}
    <3>1. OfferTogether(held)
      BY <1>4, <2>3 DEF GateDone
    <3> QED
      BY <1>2, <2>1, <3>1
  <2> QED
    BY <2>2, <2>3
<1> QED
  BY <1>3, <1>4

LEMMA FlushKeeps ==
  ASSUME HoldInv, GateFlush \/ GateDone
  PROVE  HoldInv'
<1>0. SaidTypes /\ GateTypes /\ DeliveryTypes
  BY DEF HoldInv
<1>1. UNCHANGED <<said, gateQueue, sending, received, chunks>>
  BY DEF GateFlush, GateDone, deliveryVars, tapVars
<1>2. PICK left \in SUBSET held, part \in SUBSET held :
           /\ held' = held \ left
           /\ \/ outbox' = Append(outbox, part) /\ Len(outbox) < DeliveryQueue
              \/ outbox' = outbox
  BY FlushEffect
<1>3. /\ IsFiniteSet(held') /\ Cardinality(held') \in Nat
      /\ Cardinality(held') <= Cardinality(held) /\ Cardinality(held) \in Nat
  <2>1. held' \in SUBSET held /\ IsFiniteSet(held)
    BY <1>0, <1>2 DEF GateTypes
  <2> QED
    BY <2>1, FS_Subset, FS_CardinalityType
<1>4. GateTypes'
  <2>1. Cardinality(held') <= GateCapacity
    BY <1>0, <1>3, WrapperAssumption DEF GateTypes
  <2> QED
    BY <1>0, <1>1, <1>2, <1>3, <2>1 DEF GateTypes
<1>5. part \in Batches /\ Batches' = Batches
  BY <1>0, <1>1 DEF GateTypes, Batches
<1>6. outbox' \in Seq(Batches) /\ Len(outbox') <= DeliveryQueue
  <2>1. CASE outbox' = outbox
    BY <1>0, <2>1 DEF DeliveryTypes
  <2>2. CASE outbox' = Append(outbox, part) /\ Len(outbox) < DeliveryQueue
    <3>1. outbox' \in Seq(Batches) /\ Len(outbox) \in Nat /\ Len(outbox') = Len(outbox) + 1
      BY <1>0, <1>5, <2>2, Appended DEF DeliveryTypes
    <3> QED
      BY <2>2, <3>1, WrapperAssumption
  <2> QED
    BY <1>2, <2>1, <2>2
<1>7. DeliveryTypes'
  BY <1>0, <1>1, <1>5, <1>6 DEF DeliveryTypes
<1> QED
  BY <1>0, <1>1, <1>4, <1>7 DEF HoldInv, SaidTypes
-----------------------------------------------------------------------------
\* A batch is queued behind the others.
LEMMA QueuedBehind ==
  ASSUME HoldInv, NEW b \in {StartBatch, FinalBatch},
         outbox' = Append(outbox, b) \/ outbox' = outbox,
         outbox' # outbox => Len(outbox) < DeliveryQueue,
         UNCHANGED <<said, gateQueue, held, sending, received, chunks>>
  PROVE  HoldInv'
<1>0. SaidTypes /\ GateTypes /\ DeliveryTypes
  BY DEF HoldInv
<1>1. b \in Batches /\ Batches' = Batches
  BY DEF Batches
<1>2. outbox' \in Seq(Batches) /\ Len(outbox') <= DeliveryQueue
  <2>1. CASE outbox' = outbox
    BY <1>0, <2>1 DEF DeliveryTypes
  <2>2. CASE outbox' = Append(outbox, b) /\ outbox' # outbox
    <3>1. outbox' \in Seq(Batches) /\ Len(outbox) \in Nat /\ Len(outbox') = Len(outbox) + 1
      BY <1>0, <1>1, <2>2, Appended DEF DeliveryTypes
    <3> QED
      BY <2>2, <3>1, WrapperAssumption
  <2> QED
    BY <2>1, <2>2
<1> QED
  BY <1>0, <1>1, <1>2 DEF HoldInv, SaidTypes, GateTypes, DeliveryTypes

\* The dispatcher takes a batch.
LEMMA TakeKeeps ==
  ASSUME HoldInv, TakeBatch
  PROVE  HoldInv'
<1>0. SaidTypes /\ GateTypes /\ DeliveryTypes
  BY DEF HoldInv
<1>1. /\ outbox # <<>> /\ sending' = Head(outbox) /\ outbox' = Tail(outbox)
      /\ UNCHANGED <<said, gateQueue, held, received, chunks>>
  BY DEF TakeBatch, gateVars, tapVars
<1>2. /\ sending' \in Batches /\ outbox' \in Seq(Batches) /\ Len(outbox) \in Nat \ {0}
      /\ Len(outbox') = Len(outbox) - 1
  BY <1>0, <1>1, Taken DEF DeliveryTypes
<1>3. Len(outbox') <= DeliveryQueue
  BY <1>0, <1>2, WrapperAssumption DEF DeliveryTypes
<1> QED
  BY <1>0, <1>1, <1>2, <1>3 DEF HoldInv, SaidTypes, GateTypes, DeliveryTypes, Batches

\* The collector gets a batch.
LEMMA SentKeeps ==
  ASSUME HoldInv, SendReturns \/ OvertakingSendReturns
  PROVE  HoldInv'
<1>0. SaidTypes /\ GateTypes /\ DeliveryTypes
  BY DEF HoldInv
<1>1. UNCHANGED <<said, gateQueue, held, outbox, chunks>>
  BY DEF SendReturns, OvertakingSendReturns, gateVars, tapVars
<1>2. sending' \in Batches
  BY <1>0 DEF SendReturns, OvertakingSendReturns, DeliveryTypes, NoBatch, Batches
<1>3. received' \subseteq said
  <2>1. received \subseteq said /\ sending \in Batches
    BY <1>0 DEF DeliveryTypes
  <2>2. sending \notin {StartBatch, FinalBatch} => sending \subseteq said
    BY <2>1 DEF Batches
  <2>3. CASE SendReturns
    BY <2>1, <2>2, <2>3 DEF SendReturns, Collected
  <2>4. CASE OvertakingSendReturns
    BY <2>1, <2>4 DEF OvertakingSendReturns, Collected
  <2> QED
    BY <2>3, <2>4
<1> QED
  BY <1>0, <1>1, <1>2, <1>3 DEF HoldInv, SaidTypes, GateTypes, DeliveryTypes, Batches

\* The other steps leave evidence and batches where they are.
LEMMA HoldUnchanged ==
  ASSUME HoldInv, UNCHANGED <<said, gateQueue, held, outbox, sending, received>>,
         Len(chunks') <= TapQueue
  PROVE  HoldInv'
BY DEF HoldInv, SaidTypes, GateTypes, DeliveryTypes, Batches

LEMMA InitHold == Init => HoldInv
<1> SUFFICES ASSUME Init PROVE HoldInv
  OBVIOUS
<1>1. /\ said = {} /\ gateQueue = <<>> /\ held = {} /\ outbox = <<>> /\ sending = NoBatch
      /\ received = {} /\ chunks = <<>>
  BY DEF Init
<1>2. IsFiniteSet({}) /\ Cardinality({}) = 0
  BY FS_EmptySet
<1>3. /\ Len(<<>>) = 0 /\ 0 <= TapQueue /\ 0 <= GateQueue /\ 0 <= GateCapacity
      /\ 0 <= DeliveryQueue
  BY WrapperAssumption
<1> QED
  BY <1>1, <1>2, <1>3 DEF HoldInv, SaidTypes, GateTypes, DeliveryTypes, Batches, NoBatch

\* HoldInv is inductive: the queues' lengths need no other invariant, the tap's
\* needs that its queue is one.
LEMMA NextHold == IInv /\ HoldInv /\ [Next]_vars => HoldInv'
<1> SUFFICES ASSUME IInv, HoldInv, [Next]_vars PROVE HoldInv'
  OBVIOUS
<1>0. SaidTypes /\ GateTypes /\ DeliveryTypes /\ Len(chunks) <= TapQueue
  BY DEF HoldInv
<1>1. chunks \in Seq(Chunks) /\ Len(chunks) \in Nat /\ TapQueue \in Nat
  BY WrapperAssumption DEF IInv, TapTypes
<1>2. ASSUME NEW s \in Streams, NumberChunk(s) \/ OfferChunk(s)
      PROVE  HoldInv'
  <2>1. UNCHANGED <<said, gateQueue, held, outbox, sending, received>>
    BY <1>2 DEF NumberChunk, OfferChunk, gateVars, deliveryVars
  <2>2. Len(chunks') <= TapQueue
    <3>1. \A c : Len(Append(chunks, c)) = Len(chunks) + 1
      BY <1>1
    <3> QED
      BY <1>0, <1>1, <1>2, <3>1 DEF NumberChunk, OfferChunk
  <2> QED
    BY <2>1, <2>2, HoldUnchanged
<1>3. ASSUME Says, UNCHANGED <<held, sending, received>>, Len(chunks') <= TapQueue
      PROVE  HoldInv'
  <2>1. CASE UNCHANGED <<said, gateQueue, outbox, full>>
    BY <1>3, <2>1, HoldUnchanged
  <2>2. ASSUME NEW key \in Keys, Cardinality(said) < MaxSaid, NEW e, e = Piece(key, TRUE),
               IF Refused THEN UNCHANGED <<gateQueue, outbox, full>> ELSE Emit(e),
               said' = said \cup {e}
        PROVE  HoldInv'
    <3>1. Emitted(e) \/ UNCHANGED <<gateQueue, outbox>>
      BY <2>2, EmitEffect
    <3> QED
      BY <1>3, <2>2, <3>1, EmissionKeeps
  <2> QED
    BY <1>3, <2>1, <2>2 DEF Says
<1>4. CASE Parse
  <2>1. Says /\ UNCHANGED <<held, sending, received>> /\ chunks' = Tail(chunks) /\ chunks # <<>>
    BY <1>4 DEF Parse, deliveryVars
  <2>2. Len(chunks') <= TapQueue
    BY <1>0, <1>1, <2>1, Taken
  <2> QED
    BY <1>3, <2>1, <2>2
<1>5. CASE ParseEnd
  <2>1. Says /\ UNCHANGED <<held, sending, received, chunks>>
    BY <1>5 DEF ParseEnd, deliveryVars
  <2> QED
    BY <1>0, <1>3, <2>1
<1>6. CASE Observe
  <2>1. PICK key \in Keys : Emit(Piece(key, FALSE)) /\ said' = said \cup {Piece(key, FALSE)}
    BY <1>6 DEF Observe
  <2>2. PICK e : e = Piece(key, FALSE)
    OBVIOUS
  <2>3. Emitted(e)
    BY <2>1, <2>2, EmitEffect
  <2>4. UNCHANGED <<held, sending, received, chunks>> /\ Cardinality(said) < MaxSaid
    BY <1>6 DEF Observe, deliveryVars, tapVars
  <2> QED
    BY <1>0, <2>1, <2>2, <2>3, <2>4, EmissionKeeps
<1>7. CASE GateProcess
  BY <1>7, ProcessKeeps
<1>8. CASE GateFlush \/ GateDone
  BY <1>8, FlushKeeps
<1>9. CASE TakeBatch
  BY <1>9, TakeKeeps
<1>10. CASE SendReturns \/ OvertakingSendReturns
  BY <1>10, SentKeeps
<1>11. CASE Start
  <2>1. /\ Offer(<<StartBatch>>, FALSE)
        /\ UNCHANGED <<said, gateQueue, held, sending, received, chunks>>
    BY <1>11 DEF Start, gateVars, deliveryVars, tapVars
  <2>2. /\ outbox' = Append(outbox, StartBatch) \/ outbox' = outbox
        /\ outbox' # outbox => Len(outbox) < DeliveryQueue
    BY <1>0, <2>1, OfferOne DEF DeliveryTypes
  <2> QED
    BY <2>1, <2>2, QueuedBehind
<1>12. CASE EmitFinal
  <2>1. UNCHANGED <<said, gateQueue, held, sending, received, chunks>>
    BY <1>12 DEF EmitFinal, gateVars, tapVars
  <2>2. /\ outbox' = Append(outbox, FinalBatch) \/ outbox' = outbox
        /\ outbox' # outbox => Len(outbox) < DeliveryQueue
    <3>1. Room > 0 => Len(outbox) < DeliveryQueue
      BY <1>0, WrapperAssumption DEF Room, DeliveryTypes
    <3> QED
      BY <1>12, <3>1 DEF EmitFinal
  <2> QED
    BY <2>1, <2>2, QueuedBehind
<1>13. CASE \/ StartFails \/ CancelParent \/ ChildEnds \/ ObserverWaited \/ ParserWaited
            \/ GateWaited \/ Flushed \/ Exit \/ ObserverDone \/ GateForgets \/ GateStops
            \/ DispatcherStops \/ ParserStarts \/ ParserGivesUp \/ UNCHANGED vars
  <2>1. UNCHANGED <<said, gateQueue, held, outbox, sending, received, chunks>>
    BY <1>13 DEF StartFails, CancelParent, ChildEnds, ObserverWaited, ParserWaited, GateWaited,
       Flushed, Exit, ObserverDone, GateForgets, GateStops, DispatcherStops, ParserStarts,
       ParserGivesUp, vars, gateVars, deliveryVars, tapVars
  <2> QED
    BY <1>0, <2>1, HoldUnchanged
<1> QED
  BY <1>2, <1>4, <1>5, <1>6, <1>7, <1>8, <1>9, <1>10, <1>11, <1>12, <1>13 DEF Next, RunStep

\* Queues and the gate keep to their capacities, whatever these are, and the
\* collector gets nothing that was not said.
THEOREM TypeCorrect == Spec => []TypeOK
<1>1. HoldInv => TypeOK
  BY DEF HoldInv, SaidTypes, GateTypes, DeliveryTypes, TypeOK
<1>2. IInv /\ [Next]_vars => IInv'
  BY NextKeeps
<1> QED
  BY <1>1, <1>2, InitHolds, InitHold, NextHold, PTL DEF Spec
-----------------------------------------------------------------------------
GoodParts == InOrder /\ StartsFirst /\ EndsLast /\ NothingMissing

\* What stands for what stands for e stands for e.
LEMMA StandsOn ==
  ASSUME said \subseteq Evidence, NEW e \in said, NEW f \in said, NEW g \in said,
         Stands(f, e), Stands(g, f)
  PROVE  Stands(g, e)
<1>1. e.number \in Nat /\ f.number \in Nat /\ g.number \in Nat
  BY DEF Evidence
<1> QED
  BY <1>1 DEF Stands

\* Nothing is missing after a step that leaves something to stand for what is
\* in the gate, and loses nothing on its way.
LEMMA StillThere ==
  ASSUME said \subseteq Evidence, NothingMissing, said \subseteq said', said' \subseteq Evidence,
         \A f \in said : Leaving(f) => Leaving(f)',
         \A f \in said : Waiting(f) => \E g \in said : Stands(g, f) /\ (Leaving(g)' \/ Waiting(g)'),
         \A e \in said' \ said : Leaving(e)' \/ Waiting(e)',
         \A k \in strongKeys' \ strongKeys : \E f \in said' : f.strong /\ f.key = k /\ Leaving(f)'
  PROVE  NothingMissing'
<1>1. \A e : Stands(e, e)
  BY DEF Stands
<1>2. ASSUME NEW e \in said
      PROVE  \E g \in said : Stands(g, e) /\ (Leaving(g)' \/ Waiting(g)')
  <2>1. PICK f \in said : Stands(f, e) /\ (Leaving(f) \/ Waiting(f))
    BY DEF NothingMissing
  <2>2. PICK g \in said : Stands(g, f) /\ (Leaving(g)' \/ Waiting(g)')
    BY <1>1, <2>1
  <2> QED
    BY <2>1, <2>2, StandsOn
<1>3. \A e \in said' : \E g \in said' : Stands(g, e) /\ (Leaving(g)' \/ Waiting(g)')
  BY <1>1, <1>2
<1>4. \A k \in strongKeys' : \E f \in said' : f.strong /\ f.key = k /\ Leaving(f)'
  BY DEF NothingMissing
<1> QED
  BY <1>3, <1>4 DEF NothingMissing, Stands

\* Steps that move no evidence and no batch.
LEMMA NothingMoved ==
  ASSUME HoldInv, NothingMissing,
         UNCHANGED <<said, gateQueue, held, outbox, sending, received>>,
         strongKeys' \subseteq strongKeys
  PROVE  NothingMissing'
<1>1. \A f \in said : (Leaving(f) => Leaving(f)') /\ (Waiting(f) => Waiting(f)')
  BY DEF Leaving, Waiting
<1> QED
  BY <1>1 DEF NothingMissing, Stands

\* Steps of the run itself, and those that only end a part.
LEMMA StageGood ==
  ASSUME HoldInv, Good', GoodParts,
         \/ StartFails \/ ChildEnds \/ ObserverWaited \/ ParserWaited \/ GateWaited
         \/ Flushed \/ Exit
  PROVE  GoodParts'
<1>0. InOrder /\ StartsFirst /\ EndsLast /\ NothingMissing
  BY DEF GoodParts
<1>1. /\ UNCHANGED <<said, gateQueue, held, outbox, sending, received, strongKeys, session, acked,
                     overtaking>>
      /\ stage' # "starting"
  BY DEF StartFails, ChildEnds, ObserverWaited, ParserWaited, GateWaited, Flushed, Exit, Goto,
     gateVars, deliveryVars
<1>2. NothingMissing'
  BY <1>0, <1>1, NothingMoved
<1>3. \A b : Queued(b)' <=> Queued(b)
  BY <1>1 DEF Queued
<1>4. FinalLeft' <=> FinalLeft
  BY <1>1 DEF FinalLeft
<1>5. CASE StartFails
  <2>1. /\ stage = "starting" /\ stage' = "stopping" /\ parser' = "done" /\ observer' = "done"
        /\ gate' = "done"
    BY <1>5 DEF StartFails, Goto
  <2>2. /\ said = {} /\ gateQueue = <<>> /\ held = {} /\ session = "unknown"
        /\ sending = NoBatch /\ outbox = <<>>
    BY <1>0, <2>1 DEF InOrder, StartsFirst
  <2>3. InOrder' /\ StartsFirst' /\ EndsLast'
    BY <1>0, <1>1, <2>1, <2>2 DEF InOrder, StartsFirst, EndsLast
  <2> QED
    BY <1>2, <2>3 DEF GoodParts
<1>6. CASE ChildEnds
  <2>1. stage = "running" /\ stage' = "observer" /\ UNCHANGED <<parser, observer, gate>>
    BY <1>6 DEF ChildEnds, Goto, tapVars, gateVars
  <2>2. InOrder' /\ StartsFirst' /\ EndsLast'
    BY <1>0, <1>1, <1>3, <2>1 DEF InOrder, StartsFirst, EndsLast
  <2> QED
    BY <1>2, <2>2 DEF GoodParts
<1>7. CASE ObserverWaited
  <2>1. /\ stage = "observer" /\ stage' = "parser" /\ UNCHANGED <<parser, observer, gate>>
        /\ observer = "done"
    BY <1>7 DEF ObserverWaited, Waited, Good, Goto, tapVars, gateVars
  <2>2. InOrder' /\ StartsFirst' /\ EndsLast'
    BY <1>0, <1>1, <1>3, <2>1 DEF InOrder, StartsFirst, EndsLast
  <2> QED
    BY <1>2, <2>2 DEF GoodParts
<1>8. CASE ParserWaited
  <2>1. /\ stage = "parser" /\ stage' = "gate" /\ UNCHANGED <<parser, observer>>
        /\ gate' = "stopping" /\ parser = "done"
    BY <1>8 DEF ParserWaited, Waited, Good, Goto, tapVars
  <2>2. InOrder' /\ StartsFirst' /\ EndsLast'
    BY <1>0, <1>1, <1>3, <2>1 DEF InOrder, StartsFirst, EndsLast
  <2> QED
    BY <1>2, <2>2 DEF GoodParts
<1>9. CASE GateWaited
  <2>1. /\ stage = "gate" /\ stage' = "final" /\ UNCHANGED <<parser, observer, gate>>
        /\ gate = "done"
    BY <1>9 DEF GateWaited, Waited, Good, Goto, tapVars, gateVars
  <2>2. InOrder' /\ StartsFirst' /\ EndsLast'
    BY <1>0, <1>1, <1>3, <2>1 DEF InOrder, StartsFirst, EndsLast
  <2> QED
    BY <1>2, <2>2 DEF GoodParts
<1>10. CASE Flushed
  <2>1. /\ stage = "flushing" /\ stage' = "stopping" /\ UNCHANGED <<parser, observer, gate>>
        /\ acked
    BY <1>10 DEF Flushed, Waited, Good, Goto, tapVars, gateVars
  <2>2. InOrder' /\ StartsFirst' /\ EndsLast'
    BY <1>0, <1>1, <1>3, <1>4, <2>1 DEF InOrder, StartsFirst, EndsLast
  <2> QED
    BY <1>2, <2>2 DEF GoodParts
<1>11. CASE Exit
  <2>1. stage = "stopping" /\ stage' = "exited" /\ UNCHANGED <<parser, observer, gate>>
    BY <1>11 DEF Exit, Goto, tapVars, gateVars
  <2>2. InOrder' /\ StartsFirst' /\ EndsLast'
    BY <1>0, <1>1, <1>3, <1>4, <2>1 DEF InOrder, StartsFirst, EndsLast
  <2> QED
    BY <1>2, <2>2 DEF GoodParts
<1> QED
  BY <1>5, <1>6, <1>7, <1>8, <1>9, <1>10, <1>11

\* Steps of the tap, starts and ends of the observer and the parser, the gate's
\* stop and what it forgets.
LEMMA QuietGood ==
  ASSUME HoldInv, GoodParts,
         UNCHANGED <<stage, said, gateQueue, held, outbox, sending, received, session, acked,
                     overtaking>>,
         gate' = gate \/ GateStops,
         strongKeys' \subseteq strongKeys,
         observer' \in {observer, "done"},
         parser' \in {parser, "done"} \/ ParserStarts
  PROVE  GoodParts'
<1>0. InOrder /\ StartsFirst /\ EndsLast /\ NothingMissing
  BY DEF GoodParts
<1>1. NothingMissing'
  BY <1>0, NothingMoved
<1>2. \A b : Queued(b)' <=> Queued(b)
  BY DEF Queued
<1>3. FinalLeft' <=> FinalLeft
  BY DEF FinalLeft
<1>4. InOrder'
  BY <1>0 DEF InOrder, GateStops, ParserStarts
<1>5. StartsFirst' /\ EndsLast'
  BY <1>0, <1>2, <1>3 DEF StartsFirst, EndsLast
<1> QED
  BY <1>1, <1>4, <1>5 DEF GoodParts
-----------------------------------------------------------------------------
\* A queue that grows at its end loses nothing on its way ...
LEMMA LeavingGrows ==
  ASSUME NEW S, outbox \in Seq(S), NEW b \in S, UNCHANGED <<sending, received>>,
         outbox' = Append(outbox, b) \/ outbox' = outbox
  PROVE  /\ \A f : Leaving(f) => Leaving(f)'
         /\ outbox' = Append(outbox, b) => \A f \in b : Leaving(f)'
<1>1. CASE outbox' = outbox
  <2>1. outbox # Append(outbox, b)
    <3>1. Len(outbox) \in Nat /\ Len(Append(outbox, b)) = Len(outbox) + 1
      BY Appended
    <3> QED
      BY <3>1
  <2> QED
    BY <1>1, <2>1 DEF Leaving
<1>2. CASE outbox' = Append(outbox, b)
  <2>1. /\ Len(outbox) \in Nat /\ Len(outbox') = Len(outbox) + 1 /\ outbox'[Len(outbox) + 1] = b
        /\ \A i \in 1..Len(outbox) : outbox'[i] = outbox[i]
    BY <1>2, Appended
  <2>2. 1..Len(outbox) \subseteq 1..Len(outbox') /\ Len(outbox) + 1 \in 1..Len(outbox')
    BY <2>1
  <2>3. ASSUME NEW f, Leaving(f)
        PROVE  Leaving(f)'
    BY <2>1, <2>2, <2>3 DEF Leaving
  <2>4. ASSUME NEW f \in b
        PROVE  Leaving(f)'
    BY <2>1, <2>2, <2>4 DEF Leaving
  <2> QED
    BY <2>3, <2>4
<1> QED
  BY <1>1, <1>2

\* ... and keeps the first batch first and the last one out, while the parts run.
LEMMA AppendKeepsOrder ==
  ASSUME NEW S, outbox \in Seq(S), NEW b \in S, b # StartBatch, b # FinalBatch,
         StartsFirst, EndsLast, stage \in Early \cup {"gate"},
         outbox' = Append(outbox, b) \/ outbox' = outbox,
         UNCHANGED <<stage, sending, session, acked>>
  PROVE  StartsFirst' /\ EndsLast'
<1>0. stage \notin {"starting", "flushing", "stopping", "exited"}
  BY DEF Early
<1>1. CASE outbox' = outbox
  <2>1. \A c : Queued(c)' <=> Queued(c)
    BY <1>1 DEF Queued
  <2> QED
    BY <1>0, <1>1, <2>1 DEF StartsFirst, EndsLast
<1>2. CASE outbox' = Append(outbox, b)
  <2>1. /\ Len(outbox) \in Nat /\ Len(outbox') = Len(outbox) + 1 /\ outbox'[Len(outbox) + 1] = b
        /\ \A i \in 1..Len(outbox) : outbox'[i] = outbox[i]
        /\ outbox' # <<>>
    BY <1>2, Appended
  <2>2. \A i \in 1..Len(outbox') : i \in 1..Len(outbox) \/ i = Len(outbox) + 1
    BY <2>1
  <2>3. \A c : Queued(c)' => Queued(c) \/ c = b
    BY <2>1, <2>2 DEF Queued
  <2>4. ASSUME outbox # <<>>, outbox[1] = StartBatch,
               \A i \in 2..Len(outbox) : outbox[i] # StartBatch
        PROVE  outbox'[1] = StartBatch /\ \A i \in 2..Len(outbox') : outbox'[i] # StartBatch
    <3>1. 1 \in 1..Len(outbox)
      BY <2>4
    <3>2. \A i \in 2..Len(outbox') : \/ i \in 2..Len(outbox) /\ i \in 1..Len(outbox)
                                     \/ i = Len(outbox) + 1
      BY <2>1
    <3> QED
      BY <2>1, <2>4, <3>1, <3>2
  <2>5. StartsFirst'
    BY <1>0, <2>1, <2>3, <2>4 DEF StartsFirst
  <2>6. EndsLast'
    BY <1>0, <2>3 DEF EndsLast
  <2> QED
    BY <2>5, <2>6
<1> QED
  BY <1>1, <1>2
-----------------------------------------------------------------------------
\* Evidence that is said in a good run waits at the gate or leaves at once.
LEMMA EmissionGood ==
  ASSUME HoldInv, GoodParts, Good',
         NEW key \in Keys, NEW strong \in BOOLEAN, NEW e, e = Piece(key, strong),
         Cardinality(said) < MaxSaid, said' = said \cup {e}, Emitted(e),
         gate = "open", stage \in Early,
         UNCHANGED <<stage, gate, observer, held, strongKeys, sending, received, session, acked,
                     overtaking>>,
         parser' = parser \/ (parser = "reading" /\ parser' = "done")
  PROVE  GoodParts'
<1>0. /\ InOrder /\ StartsFirst /\ EndsLast /\ NothingMissing
      /\ SaidTypes /\ GateTypes /\ DeliveryTypes
  BY DEF GoodParts, HoldInv
<1>1. SaidTypes' /\ said \subseteq said' /\ e \in said'
  BY <1>0, NewPiece
<1>2. /\ outbox \in Seq(Batches') /\ {e} \in Batches'
      /\ {e} # StartBatch /\ {e} # FinalBatch
  <2>1. Batches \subseteq Batches' /\ {e} \in Batches'
    BY <1>1 DEF Batches
  <2>2. {e} \in SUBSET said' /\ said' \subseteq Evidence
    BY <1>1 DEF SaidTypes
  <2>3. [kind |-> "start"] \notin Evidence /\ [kind |-> "final"] \notin Evidence
    BY DEF Evidence
  <2>4. {e} # StartBatch /\ {e} # FinalBatch
    BY <2>2, <2>3 DEF StartBatch, FinalBatch
  <2> QED
    BY <1>0, <2>1, <2>4, Widened DEF DeliveryTypes
<1>3. \/ gateQueue' = Append(gateQueue, e) /\ UNCHANGED outbox
      \/ outbox' = Append(outbox, {e}) /\ UNCHANGED gateQueue
  BY DEF Emitted, Good
<1>4. StartsFirst' /\ EndsLast'
  <2>1. outbox' = Append(outbox, {e}) \/ outbox' = outbox
    BY <1>3
  <2> QED
    BY <1>0, <1>2, <2>1, AppendKeepsOrder
<1>5. InOrder'
  BY <1>0 DEF InOrder, Early
<1>6. \A f : Leaving(f) => Leaving(f)'
  <2>1. outbox' = Append(outbox, {e}) \/ outbox' = outbox
    BY <1>3
  <2> QED
    BY <1>2, <2>1, LeavingGrows
<1>7. (\A f : Waiting(f) => Waiting(f)') /\ (Leaving(e)' \/ Waiting(e)')
  <2>1. CASE gateQueue' = Append(gateQueue, e)
    <3>1. gateQueue \in Seq(said') /\ e \in said'
      BY <1>0, <1>1, Widened DEF GateTypes
    <3>2. /\ Len(gateQueue) \in Nat /\ Len(gateQueue') = Len(gateQueue) + 1
          /\ gateQueue'[Len(gateQueue) + 1] = e
          /\ \A i \in 1..Len(gateQueue) : gateQueue'[i] = gateQueue[i]
      BY <2>1, <3>1, Appended
    <3>3. /\ 1..Len(gateQueue) \subseteq 1..Len(gateQueue')
          /\ Len(gateQueue) + 1 \in 1..Len(gateQueue')
      BY <3>2
    <3> QED
      BY <3>2, <3>3 DEF Waiting
  <2>2. CASE outbox' = Append(outbox, {e}) /\ UNCHANGED gateQueue
    <3>1. \A f \in {e} : Leaving(f)'
      BY <1>2, <2>2, LeavingGrows
    <3> QED
      BY <2>2, <3>1 DEF Waiting
  <2> QED
    BY <1>3, <2>1, <2>2
<1>8. NothingMissing'
  <2>1. \A f \in said : Stands(f, f)
    BY DEF Stands
  <2>2. \A f \in said : Waiting(f) => \E g \in said : Stands(g, f) /\ (Leaving(g)' \/ Waiting(g)')
    BY <1>7, <2>1
  <2>3. \A f \in said' \ said : Leaving(f)' \/ Waiting(f)'
    BY <1>7
  <2> QED
    BY <1>0, <1>1, <1>6, <2>2, <2>3, StillThere DEF SaidTypes
<1> QED
  BY <1>4, <1>5, <1>8 DEF GoodParts
-----------------------------------------------------------------------------
\* Sorting leaves something to stand for what waited.
LEMMA SortingLeaves ==
  ASSUME HoldInv, NothingMissing, Good', NEW e, e = Head(gateQueue), gateQueue # <<>>, Sorted(e),
         gateQueue' = Tail(gateQueue), UNCHANGED <<said, sending, received>>
  PROVE  /\ \/ outbox' = Append(outbox, {e}) /\ {e} \in Batches
            \/ outbox' = outbox
         /\ e \in said
         /\ NothingMissing'
<1>0. SaidTypes /\ GateTypes /\ DeliveryTypes
  BY DEF HoldInv
<1>1. /\ e \in said /\ e = gateQueue[1] /\ Len(gateQueue) \in Nat \ {0}
      /\ Len(gateQueue') = Len(gateQueue) - 1
      /\ \A i \in 1..Len(gateQueue') : i + 1 \in 1..Len(gateQueue)
                                      /\ gateQueue'[i] = gateQueue[i + 1]
  BY <1>0, Taken DEF GateTypes
<1>2. {e} \in Batches /\ (outbox' = Append(outbox, {e}) \/ outbox' = outbox)
  BY <1>1 DEF Sorted, Batches
<1>3. /\ \A f : Leaving(f) => Leaving(f)'
      /\ outbox' = Append(outbox, {e}) => Leaving(e)'
  <2>1. outbox' = Append(outbox, {e}) => \A f \in {e} : Leaving(f)'
    BY <1>0, <1>2, LeavingGrows DEF DeliveryTypes
  <2>2. \A f : Leaving(f) => Leaving(f)'
    BY <1>0, <1>2, LeavingGrows DEF DeliveryTypes
  <2> QED
    BY <2>1, <2>2
<1>4. ASSUME NEW f, NEW i \in 1..Len(gateQueue), gateQueue[i] = f
      PROVE  f = e \/ Waiting(f)'
  <2>1. CASE i = 1
    BY <1>1, <1>4, <2>1
  <2>2. CASE i # 1
    <3>1. i - 1 \in 1..Len(gateQueue') /\ (i - 1) + 1 = i
      BY <1>1, <2>2
    <3>2. gateQueue'[i - 1] = f
      BY <1>1, <1>4, <3>1
    <3> QED
      BY <3>1, <3>2 DEF Waiting
  <2> QED
    BY <2>1, <2>2
<1>5. \A f \in held : f \in said /\ ~f.strong /\ f.number < e.number
  BY <1>0, <1>1 DEF GateTypes
<1>6. \A f \in held : f.key # e.key => f \in Others(e)
  BY DEF Others
<1>7. \A f : Stands(f, f)
  BY DEF Stands
<1>8. \A f \in held' : Waiting(f)'
  BY DEF Waiting
<1>11. CASE e.key \in Keyless
  <2>1. held' = held /\ strongKeys' = strongKeys /\ Leaving(e)'
    BY <1>3, <1>11 DEF Sorted, Good
  <2>2. \A f \in said : Waiting(f) => \E g \in said : Stands(g, f) /\ (Leaving(g)' \/ Waiting(g)')
    BY <1>1, <1>4, <1>7, <1>8, <2>1 DEF Waiting
  <2>3. NothingMissing'
    BY <1>0, <1>3, <2>1, <2>2, StillThere DEF SaidTypes
  <2> QED
    BY <1>1, <1>2, <2>3
<1>9. CASE e.strong /\ e.key \notin Keyless
  <2>1. held' = Others(e) /\ strongKeys' = strongKeys \cup {e.key} /\ Leaving(e)'
    BY <1>3, <1>9 DEF Sorted, Good
  <2>2. \A f \in held : f.key = e.key => Stands(e, f)
    BY <1>5, <1>9 DEF Stands
  <2>3. \A f \in said : Waiting(f) => \E g \in said : Stands(g, f) /\ (Leaving(g)' \/ Waiting(g)')
    BY <1>1, <1>4, <1>6, <1>7, <1>8, <2>1, <2>2 DEF Waiting
  <2>4. \A k \in strongKeys' \ strongKeys : \E f \in said' : f.strong /\ f.key = k /\ Leaving(f)'
    BY <1>1, <1>9, <2>1
  <2>5. NothingMissing'
    BY <1>0, <1>3, <2>3, <2>4, StillThere DEF SaidTypes
  <2> QED
    BY <1>1, <1>2, <2>5
<1>10. CASE ~e.strong /\ e.key \notin Keyless
  <2>1. /\ strongKeys' = strongKeys
        /\ \/ e.key \in strongKeys /\ held' = held
           \/ held' = Others(e) \cup {e}
    BY <1>10 DEF Sorted, Good
  <2>2. \E g \in said : Stands(g, e) /\ (Leaving(g)' \/ Waiting(g)')
    <3>1. CASE e.key \in strongKeys
      <4>1. PICK g \in said : g.strong /\ g.key = e.key /\ Leaving(g)
        BY <3>1 DEF NothingMissing
      <4> QED
        BY <1>3, <1>10, <4>1 DEF Stands
    <3>2. CASE held' = Others(e) \cup {e}
      BY <1>1, <1>7, <1>8, <3>2
    <3> QED
      BY <2>1, <3>1, <3>2
  <2>3. \A f \in held : Waiting(f)' \/ (Stands(e, f) /\ Waiting(e)')
    <3>1. CASE held' = held
      BY <1>8, <3>1
    <3>2. CASE held' = Others(e) \cup {e}
      <4>1. \A f \in held : f.key = e.key => Stands(e, f)
        <5>1. \A f \in held : f.number \in Nat /\ e.number \in Nat
          BY <1>0, <1>1, <1>5 DEF SaidTypes, Evidence
        <5> QED
          BY <1>5, <1>10, <5>1 DEF Stands
      <4> QED
        BY <1>6, <1>8, <3>2, <4>1
    <3> QED
      BY <2>1, <3>1, <3>2
  <2>4. \A f \in said : Waiting(f) => \E g \in said : Stands(g, f) /\ (Leaving(g)' \/ Waiting(g)')
    BY <1>1, <1>4, <1>7, <2>2, <2>3 DEF Waiting
  <2>5. NothingMissing'
    BY <1>0, <1>3, <2>1, <2>4, StillThere DEF SaidTypes
  <2> QED
    BY <1>1, <1>2, <2>5
<1> QED
  BY <1>9, <1>10, <1>11

LEMMA ProcessGood ==
  ASSUME HoldInv, GoodParts, Good', GateProcess
  PROVE  GoodParts'
<1>0. /\ InOrder /\ StartsFirst /\ EndsLast /\ NothingMissing
      /\ SaidTypes /\ GateTypes /\ DeliveryTypes
  BY DEF GoodParts, HoldInv
<1>1. /\ gate # "done" /\ gateQueue # <<>> /\ gateQueue' = Tail(gateQueue)
      /\ UNCHANGED <<stage, parser, observer, gate, said, sending, received, session, acked,
                     overtaking>>
  BY DEF GateProcess, tapVars, deliveryVars
<1>2. PICK e : e = Head(gateQueue)
  OBVIOUS
<1>3. Sorted(e)
  BY <1>2, ProcessEffect
<1>4. /\ \/ outbox' = Append(outbox, {e}) /\ {e} \in Batches
         \/ outbox' = outbox
      /\ e \in said /\ NothingMissing'
  BY <1>0, <1>1, <1>2, <1>3, SortingLeaves
<1>5. stage \in Early \cup {"gate"}
  BY <1>0, <1>1 DEF InOrder, Early
<1>6. InOrder'
  BY <1>0, <1>1, <1>5 DEF InOrder, Early
<1>7. {e} # StartBatch /\ {e} # FinalBatch /\ {e} \in Batches
  <2>1. {e} \in SUBSET said /\ said \subseteq Evidence
    BY <1>0, <1>4 DEF SaidTypes
  <2> QED
    BY <2>1, BatchesApart DEF Batches
<1>8. StartsFirst' /\ EndsLast'
  BY <1>0, <1>1, <1>4, <1>5, <1>7, AppendKeepsOrder DEF DeliveryTypes
<1> QED
  BY <1>4, <1>6, <1>8 DEF GoodParts

\* What is flushed leaves.
LEMMA FlushGood ==
  ASSUME HoldInv, GoodParts, Good', GateFlush \/ GateDone
  PROVE  GoodParts'
<1>0. /\ InOrder /\ StartsFirst /\ EndsLast /\ NothingMissing
      /\ SaidTypes /\ GateTypes /\ DeliveryTypes
  BY DEF GoodParts, HoldInv
<1>1. /\ UNCHANGED <<stage, parser, observer, said, gateQueue, sending, received, session, acked,
                     overtaking, strongKeys>>
      /\ gate # "done"
  BY DEF GateFlush, GateDone, tapVars, deliveryVars
<1>2. PICK left \in SUBSET held :
        /\ held' = held \ left
        /\ \/ outbox' = Append(outbox, left)
           \/ outbox' = outbox /\ left = {}
        /\ GateDone => left = held
  <2>1. ~full'
    BY DEF Good
  <2> QED
    BY <2>1, FlushEffect
<1>3. stage \in Early \cup {"gate"}
  <2>1. CASE GateFlush
    <3>1. PICK expired \in (SUBSET held) \ {{}} : gate \in {"open", "stopping"}
      BY <2>1 DEF GateFlush
    <3>2. held # {}
      BY <3>1
    <3> QED
      BY <1>0, <3>1, <3>2 DEF InOrder, Early
  <2>2. CASE GateDone
    BY <1>0, <2>2 DEF InOrder, GateDone
  <2> QED
    BY <2>1, <2>2
<1>4. InOrder'
  <2>1. CASE GateFlush
    <3>1. gate' = gate /\ gate \in {"open", "stopping"}
      BY <2>1 DEF GateFlush
    <3> QED
      BY <1>0, <1>1, <1>3, <3>1 DEF InOrder, Early
  <2>2. CASE GateDone
    <3>1. gate = "draining" /\ gate' = "done" /\ gateQueue = <<>> /\ held' = {}
      BY <2>2 DEF GateDone
    <3> QED
      BY <1>0, <1>1, <3>1 DEF InOrder
  <2> QED
    BY <2>1, <2>2
<1>5. left \in Batches /\ left # StartBatch /\ left # FinalBatch
  <2>1. left \in SUBSET said /\ said \subseteq Evidence
    BY <1>0 DEF GateTypes, SaidTypes
  <2> QED
    BY <2>1, BatchesApart DEF Batches
<1>6. StartsFirst' /\ EndsLast'
  BY <1>0, <1>1, <1>2, <1>3, <1>5, AppendKeepsOrder DEF DeliveryTypes
<1>7. (\A f : Leaving(f) => Leaving(f)') /\ (\A f \in left : Leaving(f)')
  <2>1. outbox' = Append(outbox, left) => \A f \in left : Leaving(f)'
    BY <1>0, <1>1, <1>2, <1>5, LeavingGrows DEF DeliveryTypes
  <2>2. \A f : Leaving(f) => Leaving(f)'
    BY <1>0, <1>1, <1>2, <1>5, LeavingGrows DEF DeliveryTypes
  <2> QED
    BY <1>2, <2>1, <2>2
<1>8. NothingMissing'
  <2>1. \A f : Waiting(f) => Leaving(f)' \/ Waiting(f)'
    BY <1>1, <1>2, <1>7 DEF Waiting
  <2>2. \A f \in said : Waiting(f) => \E g \in said : Stands(g, f) /\ (Leaving(g)' \/ Waiting(g)')
    BY <2>1 DEF Stands
  <2> QED
    BY <1>0, <1>1, <1>7, <2>2, StillThere DEF SaidTypes
<1> QED
  BY <1>4, <1>6, <1>8 DEF GoodParts
-----------------------------------------------------------------------------
\* Taking a batch puts it first on its way.
LEMMA TakeGood ==
  ASSUME HoldInv, GoodParts, TakeBatch
  PROVE  GoodParts'
<1>0. /\ InOrder /\ StartsFirst /\ EndsLast /\ NothingMissing
      /\ SaidTypes /\ GateTypes /\ DeliveryTypes
  BY DEF GoodParts, HoldInv
<1>1. /\ sending = NoBatch /\ outbox # <<>> /\ sending' = Head(outbox) /\ outbox' = Tail(outbox)
      /\ UNCHANGED <<stage, parser, observer, gate, said, gateQueue, held, strongKeys, received,
                     session, acked, overtaking>>
  BY DEF TakeBatch, tapVars, gateVars
<1>2. /\ sending' = outbox[1] /\ Len(outbox) \in Nat \ {0} /\ Len(outbox') = Len(outbox) - 1
      /\ outbox' \in Seq(Batches)
      /\ \A i \in 1..Len(outbox') : i + 1 \in 1..Len(outbox) /\ outbox'[i] = outbox[i + 1]
  BY <1>0, <1>1, Taken DEF DeliveryTypes
<1>3. InOrder'
  BY <1>0, <1>1 DEF InOrder
<1>4. NoBatch # StartBatch /\ NoBatch # FinalBatch /\ StartBatch # FinalBatch
  BY <1>0, BatchesApart DEF SaidTypes
<1>5. \A b : (Queued(b)' => Queued(b)) /\ (sending' = b => Queued(b))
  BY <1>2 DEF Queued
<1>6. StartsFirst'
  <2>1. session # "unknown" => sending' # StartBatch /\ ~Queued(StartBatch)'
    BY <1>0, <1>5 DEF StartsFirst
  <2>2. stage # "starting"
    BY <1>0, <1>1 DEF StartsFirst
  <2>3. ASSUME session = "unknown"
        PROVE  sending' = StartBatch /\ ~Queued(StartBatch)'
    <3>1. outbox[1] = StartBatch /\ \A i \in 2..Len(outbox) : outbox[i] # StartBatch
      BY <1>0, <1>1, <1>4, <2>2, <2>3 DEF StartsFirst
    <3>2. \A i \in 1..Len(outbox') : i + 1 \in 2..Len(outbox)
      BY <1>2
    <3> QED
      BY <1>2, <3>1, <3>2 DEF Queued
  <2> QED
    BY <1>0, <1>1, <2>1, <2>2, <2>3 DEF StartsFirst
<1>7. FinalLeft => FinalLeft'
  <2>1. ASSUME outbox[Len(outbox)] = FinalBatch, ~acked, session # "stopped", sending # FinalBatch,
               \A i \in 1..(Len(outbox) - 1) : outbox[i] # FinalBatch
        PROVE  FinalLeft'
    <3>1. CASE Len(outbox) = 1
      <4>1. outbox' = <<>>
        BY <1>2, <3>1
      <4> QED
        BY <1>1, <1>2, <2>1, <3>1, <4>1 DEF FinalLeft
    <3>2. CASE Len(outbox) # 1
      <4>1. /\ outbox' # <<>> /\ Len(outbox') \in 1..Len(outbox') /\ Len(outbox') + 1 = Len(outbox)
            /\ 1 \in 1..(Len(outbox) - 1)
        BY <1>2, <3>2
      <4>2. outbox'[Len(outbox')] = FinalBatch /\ sending' # FinalBatch
        BY <1>2, <2>1, <4>1
      <4>3. \A i \in 1..(Len(outbox') - 1) : i \in 1..Len(outbox') /\ i + 1 \in 1..(Len(outbox) - 1)
        BY <1>2
      <4>4. \A i \in 1..(Len(outbox') - 1) : outbox'[i] # FinalBatch
        BY <1>2, <2>1, <4>3
      <4> QED
        BY <1>1, <2>1, <4>1, <4>2, <4>4 DEF FinalLeft
    <3> QED
      BY <3>1, <3>2
  <2> QED
    BY <1>1, <2>1 DEF FinalLeft
<1>8. EndsLast'
  BY <1>0, <1>1, <1>5, <1>7 DEF EndsLast
<1>9. \A f : (Leaving(f) => Leaving(f)') /\ (Waiting(f) => Waiting(f)')
  <2>1. ASSUME NEW f, NEW i \in 1..Len(outbox), f \in outbox[i]
        PROVE  Leaving(f)'
    <3>1. CASE i = 1
      BY <1>2, <2>1, <3>1 DEF Leaving
    <3>2. CASE i # 1
      <4>1. i - 1 \in 1..Len(outbox') /\ (i - 1) + 1 = i
        BY <1>2, <3>2
      <4>2. outbox'[i - 1] = outbox[i]
        BY <1>2, <4>1
      <4> QED
        BY <2>1, <4>1, <4>2 DEF Leaving
    <3> QED
      BY <3>1, <3>2
  <2>2. \A f : f \notin sending
    BY <1>1 DEF NoBatch
  <2> QED
    BY <1>1, <2>1, <2>2 DEF Leaving, Waiting
<1>10. NothingMissing'
  <2>1. \A f \in said : Waiting(f) => \E g \in said : Stands(g, f) /\ (Leaving(g)' \/ Waiting(g)')
    BY <1>9 DEF Stands
  <2> QED
    BY <1>0, <1>1, <1>9, <2>1, StillThere DEF SaidTypes
<1> QED
  BY <1>3, <1>6, <1>8, <1>10 DEF GoodParts

\* A batch whose send does not fail is collected: the first one starts the
\* session, the last one ends it, evidence comes in between.
LEMMA SendGood ==
  ASSUME HoldInv, GoodParts, Good', SendReturns \/ OvertakingSendReturns
  PROVE  GoodParts'
<1>0. /\ InOrder /\ StartsFirst /\ EndsLast /\ NothingMissing
      /\ SaidTypes /\ GateTypes /\ DeliveryTypes
  BY DEF GoodParts, HoldInv
<1>1. /\ sending # NoBatch /\ Collected(sending) /\ sending' = NoBatch
      /\ acked' = (acked \/ sending = FinalBatch)
      /\ UNCHANGED <<stage, parser, observer, gate, said, gateQueue, held, strongKeys, outbox,
                     overtaking>>
  BY <1>0 DEF SendReturns, OvertakingSendReturns, Good, InOrder, tapVars, gateVars
<1>2. /\ NoBatch # StartBatch /\ NoBatch # FinalBatch /\ StartBatch # FinalBatch
      /\ StartBatch \notin SUBSET said /\ FinalBatch \notin SUBSET said
      /\ \A e \in said : e \notin StartBatch /\ e \notin FinalBatch
  BY <1>0, BatchesApart DEF SaidTypes
<1>3. InOrder'
  BY <1>0, <1>1 DEF InOrder
<1>4. \A b : Queued(b)' <=> Queued(b)
  BY <1>1 DEF Queued
<1>5. stage # "starting"
  BY <1>0, <1>1 DEF StartsFirst
<1>6. session' = (IF sending = StartBatch THEN "started"
                  ELSE IF sending = FinalBatch THEN "stopped" ELSE session)
  BY <1>1, <1>2 DEF Collected
<1>7. session = "unknown" <=> sending = StartBatch
  BY <1>0, <1>1, <1>5 DEF StartsFirst
<1>8. StartsFirst'
  <2>1. session' # "unknown" /\ session' \in {"unknown", "started", "stopped"}
    BY <1>0, <1>6, <1>7 DEF StartsFirst
  <2>2. ~Queued(StartBatch)
    BY <1>0, <1>1, <1>5, <1>7 DEF StartsFirst
  <2> QED
    BY <1>1, <1>2, <1>4, <1>5, <2>1, <2>2 DEF StartsFirst
<1>9. FinalLeft => FinalLeft'
  BY <1>1, <1>2, <1>6 DEF FinalLeft
<1>10. EndsLast'
  <2>1. stage \notin {"flushing", "stopping", "exited"} =>
          ~acked' /\ session' # "stopped" /\ sending' # FinalBatch /\ ~Queued(FinalBatch)'
    BY <1>0, <1>1, <1>2, <1>4, <1>6 DEF EndsLast
  <2> QED
    BY <1>0, <1>1, <1>9, <2>1 DEF EndsLast
<1>11. \A f \in said : f \in sending => f \in received'
  <2>1. ASSUME NEW f \in said, f \in sending
        PROVE  f \in received'
    <3>1. sending # StartBatch /\ sending # FinalBatch
      BY <1>2, <2>1
    <3>2. session = "started"
      <4>1. session # "unknown"
        BY <1>7, <3>1
      <4>2. session # "stopped"
        <5>1. said # {}
          OBVIOUS
        <5> QED
          BY <1>0, <1>1, <5>1 DEF EndsLast, FinalLeft
      <4> QED
        BY <1>0, <4>1, <4>2 DEF StartsFirst
    <3> QED
      BY <1>1, <2>1, <3>1, <3>2 DEF Collected
  <2> QED
    BY <2>1
<1>12. received \subseteq received'
  BY <1>1 DEF Collected
<1>13. \A f \in said : (Leaving(f) => Leaving(f)') /\ (Waiting(f) => Waiting(f)')
  BY <1>1, <1>11, <1>12 DEF Leaving, Waiting
<1>14. NothingMissing'
  <2>1. \A f \in said : Waiting(f) => \E g \in said : Stands(g, f) /\ (Leaving(g)' \/ Waiting(g)')
    BY <1>13 DEF Stands
  <2> QED
    BY <1>0, <1>1, <1>13, <2>1, StillThere DEF SaidTypes
<1> QED
  BY <1>3, <1>8, <1>10, <1>14 DEF GoodParts
-----------------------------------------------------------------------------
LEMMA StartGood ==
  ASSUME HoldInv, GoodParts, Good', Start
  PROVE  GoodParts'
<1>0. /\ InOrder /\ StartsFirst /\ EndsLast /\ NothingMissing
      /\ SaidTypes /\ GateTypes /\ DeliveryTypes
  BY DEF GoodParts, HoldInv
<1>1. /\ stage = "starting" /\ stage' = "running" /\ Offer(<<StartBatch>>, FALSE)
      /\ UNCHANGED <<parser, observer, gate, said, gateQueue, held, strongKeys, sending, received,
                     session, acked, overtaking>>
  BY DEF Start, Goto, gateVars, deliveryVars, tapVars
<1>2. /\ said = {} /\ gateQueue = <<>> /\ held = {} /\ strongKeys = {}
      /\ session = "unknown" /\ sending = NoBatch /\ outbox = <<>>
  BY <1>0, <1>1 DEF InOrder, StartsFirst
<1>3. NoBatch # StartBatch /\ NoBatch # FinalBatch /\ StartBatch # FinalBatch
  BY <1>0, BatchesApart DEF SaidTypes
<1>4. outbox' = Append(outbox, StartBatch)
  BY <1>0, <1>1, OfferOne DEF Good, DeliveryTypes
<1>5. outbox' # <<>> /\ Len(outbox') = 1 /\ outbox'[1] = StartBatch
  <2>1. outbox \in Seq({StartBatch}) /\ Len(outbox) = 0
    BY <1>2
  <2> QED
    BY <1>4, <2>1, Appended
<1>6. ~Queued(FinalBatch)'
  BY <1>3, <1>5 DEF Queued
<1>7. InOrder'
  BY <1>0, <1>1, <1>2 DEF InOrder
<1>8. StartsFirst'
  BY <1>1, <1>2, <1>5 DEF StartsFirst
<1>9. EndsLast'
  BY <1>0, <1>1, <1>2, <1>3, <1>6 DEF EndsLast
<1>10. NothingMissing'
  BY <1>1, <1>2 DEF NothingMissing
<1> QED
  BY <1>7, <1>8, <1>9, <1>10 DEF GoodParts

LEMMA FinalGood ==
  ASSUME HoldInv, GoodParts, Good', EmitFinal
  PROVE  GoodParts'
<1>0. /\ InOrder /\ StartsFirst /\ EndsLast /\ NothingMissing
      /\ SaidTypes /\ GateTypes /\ DeliveryTypes
  BY DEF GoodParts, HoldInv
<1>1. /\ stage = "final" /\ stage' = "flushing" /\ outbox' = Append(outbox, FinalBatch)
      /\ UNCHANGED <<parser, observer, gate, said, gateQueue, held, strongKeys, sending, received,
                     session, acked, overtaking>>
  BY DEF EmitFinal, Goto, Good, tapVars, gateVars
<1>2. /\ NoBatch # StartBatch /\ NoBatch # FinalBatch /\ StartBatch # FinalBatch
      /\ FinalBatch \in Batches
  BY <1>0, BatchesApart DEF SaidTypes, Batches
<1>3. /\ Len(outbox) \in Nat /\ Len(outbox') = Len(outbox) + 1 /\ outbox' # <<>>
      /\ outbox'[Len(outbox) + 1] = FinalBatch
      /\ \A i \in 1..Len(outbox) : outbox'[i] = outbox[i]
  BY <1>0, <1>1, <1>2, Appended DEF DeliveryTypes
<1>4. InOrder'
  BY <1>0, <1>1 DEF InOrder
<1>5. \A i \in 1..Len(outbox') : i \in 1..Len(outbox) \/ i = Len(outbox) + 1
  BY <1>3
<1>6. Queued(StartBatch)' => Queued(StartBatch)
  BY <1>2, <1>3, <1>5 DEF Queued
<1>7. StartsFirst'
  <2>1. ASSUME outbox # <<>>, outbox[1] = StartBatch,
               \A i \in 2..Len(outbox) : outbox[i] # StartBatch
        PROVE  outbox'[1] = StartBatch /\ \A i \in 2..Len(outbox') : outbox'[i] # StartBatch
    <3>1. 1 \in 1..Len(outbox)
      BY <1>0, <2>1 DEF DeliveryTypes
    <3>2. \A i \in 2..Len(outbox') : \/ i \in 2..Len(outbox) /\ i \in 1..Len(outbox)
                                     \/ i = Len(outbox) + 1
      BY <1>3
    <3> QED
      BY <1>2, <1>3, <2>1, <3>1, <3>2
  <2> QED
    BY <1>0, <1>1, <1>3, <1>6, <2>1 DEF StartsFirst
<1>8. EndsLast'
  <2>1. ~acked /\ session # "stopped" /\ sending # FinalBatch /\ ~Queued(FinalBatch)
    BY <1>0, <1>1 DEF EndsLast
  <2>2. Len(outbox') = Len(outbox) + 1 /\ Len(outbox') - 1 = Len(outbox)
    BY <1>3
  <2>3. outbox'[Len(outbox')] = FinalBatch
    BY <1>3
  <2>4. \A i \in 1..(Len(outbox') - 1) : outbox'[i] # FinalBatch
    BY <1>3, <2>1, <2>2 DEF Queued
  <2>5. FinalLeft'
    BY <1>1, <1>3, <2>1, <2>3, <2>4 DEF FinalLeft
  <2> QED
    BY <1>1, <2>5 DEF EndsLast
<1>9. NothingMissing'
  <2>1. \A f : Leaving(f) => Leaving(f)'
    BY <1>0, <1>1, <1>2, LeavingGrows DEF DeliveryTypes
  <2>2. \A f \in said : Waiting(f) => \E g \in said : Stands(g, f) /\ (Leaving(g)' \/ Waiting(g)')
    BY <1>1 DEF Waiting, Stands
  <2> QED
    BY <1>0, <1>1, <2>1, <2>2, StillThere DEF SaidTypes
<1> QED
  BY <1>4, <1>7, <1>8, <1>9 DEF GoodParts
-----------------------------------------------------------------------------
LEMMA InitGood == Init => GoodInv
<1> SUFFICES ASSUME Init PROVE GoodInv
  OBVIOUS
<1>1. NoBatch # FinalBatch /\ NoBatch # StartBatch
  BY DEF NoBatch, FinalBatch, StartBatch
<1>2. ~Queued(FinalBatch) /\ ~Queued(StartBatch)
  BY DEF Init, Queued
<1>3. InOrder /\ StartsFirst /\ EndsLast
  BY <1>1, <1>2 DEF Init, InOrder, StartsFirst, EndsLast
<1>4. NothingMissing
  BY DEF Init, NothingMissing
<1> QED
  BY <1>3, <1>4 DEF GoodInv

\* A run that went wrong stays so.
LEMMA OnceGood == [Next]_vars /\ Good' => Good
<1> SUFFICES ASSUME [Next]_vars, Good' PROVE Good
  OBVIOUS
<1> SUFFICES (late => late') /\ (full => full') /\ (canceled => canceled')
  BY DEF Good
<1>1. CASE ObserverWaited \/ ParserWaited \/ GateWaited \/ Flushed \/ Exit
  <2>1. UNCHANGED <<full, canceled>>
    BY <1>1 DEF ObserverWaited, ParserWaited, GateWaited, Flushed, Exit
  <2>2. \/ Waited(observer = "done") \/ Waited(parser = "done") \/ Waited(gate = "done")
        \/ Waited(acked) \/ Waited(dispatcher = "done")
    BY <1>1, Zenon DEF ObserverWaited, ParserWaited, GateWaited, Flushed, Exit
  <2> QED
    BY <2>1, <2>2, Zenon DEF Waited
<1>2. CASE \/ CancelParent \/ ChildEnds \/ ObserverDone \/ GateForgets \/ GateStops \/ StartFails
           \/ ParserStarts \/ ParserGivesUp
           \/ \E s \in Streams : NumberChunk(s) \/ OfferChunk(s)
  <2>1. UNCHANGED <<late, full>> /\ (canceled' = canceled \/ canceled' = TRUE)
    BY <1>2 DEF CancelParent, ChildEnds, ObserverDone, GateForgets, GateStops, StartFails,
       ParserStarts, ParserGivesUp, NumberChunk, OfferChunk
  <2> QED
    BY <2>1
<1>3. CASE EmitFinal
  <2>1. UNCHANGED <<late, canceled>> /\ (full' = full \/ full' = TRUE)
    BY <1>3 DEF EmitFinal
  <2> QED
    BY <2>1
<1>4. CASE GateProcess
  <2>1. /\ UNCHANGED <<late, canceled>>
        /\ \E batches, refused : Offer(batches, refused)
    BY <1>4 DEF GateProcess
  <2> QED
    BY <2>1 DEF Offer
<1>5. CASE GateFlush \/ GateDone \/ Start
  <2>1. UNCHANGED <<late, canceled>>
    BY <1>5 DEF GateFlush, GateDone, Start
  <2>2. \A evidence : OfferTogether(evidence) => (full => full')
    BY DEF OfferTogether, Offer
  <2>3. GateFlush => (full => full')
    BY <2>2 DEF GateFlush
  <2>4. GateDone => (full => full')
    BY <2>2 DEF GateDone
  <2>5. Start => (full => full')
    BY DEF Start, Offer
  <2> QED
    BY <1>5, <2>1, <2>3, <2>4, <2>5
<1>6. CASE Parse \/ ParseEnd \/ Observe
  <2>1. \A e : Emit(e) => (full => full')
    BY DEF Emit, Offer
  <2>2. Says => (full => full')
    BY <2>1 DEF Says
  <2>3. Observe => (full => full')
    BY <2>1 DEF Observe
  <2>4. UNCHANGED <<late, canceled>>
    BY <1>6 DEF Parse, ParseEnd, Observe
  <2> QED
    BY <1>6, <2>2, <2>3, <2>4 DEF Parse, ParseEnd
<1>7. CASE TakeBatch \/ SendReturns \/ OvertakingSendReturns \/ DispatcherStops \/ UNCHANGED vars
  BY <1>7 DEF TakeBatch, SendReturns, OvertakingSendReturns, DispatcherStops, vars
<1> QED
  BY <1>1, <1>2, <1>3, <1>4, <1>5, <1>6, <1>7 DEF Next, RunStep

\* GoodInv is inductive, with HoldInv.
LEMMA NextGood == HoldInv /\ GoodInv /\ [Next]_vars => GoodInv'
<1> SUFFICES ASSUME HoldInv, GoodInv, [Next]_vars, Good' PROVE GoodParts'
  BY DEF GoodInv, GoodParts
<1>0. /\ Good /\ GoodParts /\ InOrder
  BY OnceGood DEF GoodInv, GoodParts
<1>1. ASSUME NEW s \in Streams, NumberChunk(s) \/ OfferChunk(s)
      PROVE  GoodParts'
  <2>1. UNCHANGED <<stage, gate, said, gateQueue, held, strongKeys, outbox, sending, received,
                    session, acked, overtaking, observer, parser>>
    BY <1>1 DEF NumberChunk, OfferChunk, gateVars, deliveryVars
  <2> QED
    BY <1>0, <2>1, QuietGood
<1>2. CASE \/ ObserverDone \/ GateForgets \/ GateStops \/ DispatcherStops \/ ParserStarts
           \/ ParserGivesUp \/ UNCHANGED vars
  <2>1. /\ UNCHANGED <<stage, said, gateQueue, held, outbox, sending, received, session,
                       acked, overtaking>>
        /\ strongKeys' \subseteq strongKeys /\ observer' \in {observer, "done"}
        /\ gate' = gate \/ GateStops
        /\ parser' \in {parser, "done"} \/ ParserStarts
    BY <1>2 DEF ObserverDone, GateForgets, GateStops, DispatcherStops, ParserStarts, ParserGivesUp,
       vars, gateVars, deliveryVars, tapVars
  <2> QED
    BY <1>0, <2>1, QuietGood
<1>3. ASSUME Says, UNCHANGED <<stage, canceled, observer, held, strongKeys, gate, deliveryVars>>,
             parser = "reading", parser' \in {"reading", "done"}
      PROVE  GoodParts'
  <2>1. CASE UNCHANGED <<said, gateQueue, outbox, full>>
    BY <1>0, <1>3, <2>1, QuietGood DEF deliveryVars
  <2>2. ASSUME NEW key \in Keys, Cardinality(said) < MaxSaid, NEW e, e = Piece(key, TRUE),
               IF Refused THEN UNCHANGED <<gateQueue, outbox, full>> ELSE Emit(e),
               said' = said \cup {e}
        PROVE  GoodParts'
    <3>1. stage \in Early /\ gate = "open" /\ ~Refused
      BY <1>0, <1>3 DEF InOrder, Early, Refused, Good
    <3>2. Emitted(e)
      BY <2>2, <3>1, EmitEffect
    <3> QED
      BY <1>0, <1>3, <2>2, <3>1, <3>2, EmissionGood DEF deliveryVars
  <2> QED
    BY <1>3, <2>1, <2>2 DEF Says
<1>4. CASE Parse \/ ParseEnd
  BY <1>3, <1>4 DEF Parse, ParseEnd
<1>5. CASE Observe
  <2>1. PICK key \in Keys : Emit(Piece(key, FALSE)) /\ said' = said \cup {Piece(key, FALSE)}
    BY <1>5 DEF Observe
  <2>2. PICK e : e = Piece(key, FALSE)
    OBVIOUS
  <2>3. Emitted(e) /\ said' = said \cup {e}
    BY <2>1, <2>2, EmitEffect
  <2>4. /\ UNCHANGED <<stage, gate, observer, parser, held, strongKeys, sending, received, session,
                       acked, overtaking>>
        /\ Cardinality(said) < MaxSaid /\ stage # "starting" /\ observer = "watching"
    BY <1>5 DEF Observe, deliveryVars, tapVars
  <2>5. stage \in Early /\ gate = "open"
    BY <1>0, <2>4 DEF InOrder, Early
  <2> QED
    BY <1>0, <2>2, <2>3, <2>4, <2>5, EmissionGood
<1>6. CASE GateProcess
  BY <1>0, <1>6, ProcessGood
<1>7. CASE GateFlush \/ GateDone
  BY <1>0, <1>7, FlushGood
<1>8. CASE TakeBatch
  BY <1>0, <1>8, TakeGood
<1>9. CASE SendReturns \/ OvertakingSendReturns
  BY <1>0, <1>9, SendGood
<1>10. CASE Start
  BY <1>0, <1>10, StartGood
<1>11. CASE EmitFinal
  BY <1>0, <1>11, FinalGood
<1>12. CASE \/ StartFails \/ ChildEnds \/ ObserverWaited \/ ParserWaited \/ GateWaited
            \/ Flushed \/ Exit
  BY <1>0, <1>12, StageGood
<1>13. CASE CancelParent
  BY <1>13 DEF CancelParent, Good
<1> QED
  BY <1>1, <1>2, <1>4, <1>5, <1>6, <1>7, <1>8, <1>9, <1>10, <1>11, <1>12, <1>13 DEF Next, RunStep

\* A run that is over has told the collector what it said, when no deadline
\* passed, no queue filled up and the parent did not give up.
THEOREM TeardownAlwaysDelivers == Spec => []TeardownDelivers
<1>1. GoodInv => TeardownDelivers
  <2> SUFFICES ASSUME GoodInv, stage = "exited", Good
               PROVE  /\ \A e \in said : Represented(e)
                      /\ said # {} => session = "stopped"
    BY DEF TeardownDelivers, Good
  <2>1. InOrder /\ EndsLast /\ NothingMissing
    BY DEF GoodInv
  <2>2. gateQueue = <<>> /\ held = {}
    BY <2>1 DEF InOrder
  <2>3. said # {} => outbox = <<>> /\ sending = NoBatch /\ session = "stopped"
    BY <2>1 DEF EndsLast, FinalLeft
  <2>4. ASSUME NEW e \in said
        PROVE  Represented(e)
    <3>1. PICK f \in said : Stands(f, e) /\ (Leaving(f) \/ Waiting(f))
      BY <2>1 DEF NothingMissing
    <3>2. f \in received
      BY <2>2, <2>3, <2>4, <3>1 DEF Leaving, Waiting, NoBatch
    <3> QED
      BY <3>1, <3>2 DEF Represented, Stands
  <2> QED
    BY <2>3, <2>4
<1>2. IInv /\ [Next]_vars => IInv'
  BY NextKeeps
<1> QED
  BY <1>1, <1>2, InitHolds, InitHold, InitGood, NextHold, NextGood, PTL DEF Spec
-----------------------------------------------------------------------------
(***************************************************************************)
(* Renames are found among the changes of the batch: what correlateRenames *)
(* computes, pass after pass, stays in it.                                 *)
(***************************************************************************)
LEMMA LeastOne ==
  \A T \in SUBSET Nat : T # {} => \E x \in T : \A y \in T : x <= y
<1> TAKE T \in SUBSET Nat
<1> HAVE T # {}
<1>1. PICK x \in T : \A y \in T : ~ (<<y, x>> \in OpToRel(<, Nat))
  BY NatLessThanWellFounded, WFMin
<1>2. \A y \in T : ~ (y < x)
  BY <1>1 DEF OpToRel
<1> QED
  BY <1>2

LEMMA CorrelateKeeps ==
    ASSUME NEW old, NEW batch, NEW pairs, pairs \subseteq batch \X batch
    PROVE  Correlate(old, batch, pairs) \subseteq batch \X batch
<1>1. CASE old \in batch
  <2>1. Candidates(old, batch, pairs) \subseteq batch
    BY DEF Candidates
  <2>2. {<<old, p>> : p \in Candidates(old, batch, pairs)} \subseteq batch \X batch
    BY <1>1, <2>1
  <2> QED
    BY <2>2 DEF Correlate
<1>2. CASE old \notin batch
  BY <1>2 DEF Correlate
<1> QED
  BY <1>1, <1>2

LEMMA RenamesInBatch ==
    ASSUME NEW batch, NEW evidence, evidence \subseteq Paths \X Paths
    PROVE  CorrelateRenames(batch, evidence) \subseteq batch \X batch
<1> DEFINE N == Len(Order)
           git == GitRenames(batch, evidence)
           pass(i, pairs) == Correlate(Order[i], batch, pairs)
           Solves(g, n) == g = [i \in 0..n |-> IF i = 0 THEN git ELSE pass(i, g[i - 1])]
           first == CHOOSE g : Solves(g, N)
<1>0. N \in Nat
  BY ObserverAssumption
<1>1. git \subseteq batch \X batch
  BY DEF GitRenames
<1>2. \A i, pairs : pairs \subseteq batch \X batch => pass(i, pairs) \subseteq batch \X batch
  BY CorrelateKeeps
<1>3. CorrelateRenames(batch, evidence) = first[N]
  BY DEF CorrelateRenames
<1> HIDE DEF git, pass, N
<1>4. \E g : Solves(g, N)
  <2> DEFINE T == {n \in Nat : ~ \E g : Solves(g, n)}
  <2> SUFFICES ASSUME T # {} PROVE FALSE
    BY <1>0
  <2>1. PICK n \in T : \A m \in T : n <= m
    BY LeastOne
  <2>2. Solves([i \in 0..0 |-> git], 0)
    OBVIOUS
  <2>3. n \in Nat \ {0}
    BY <2>1, <2>2
  <2> HIDE DEF Solves
  <2>9. n - 1 \in Nat /\ n - 1 \notin T
    BY <2>1, <2>3
  <2>4. PICK g : Solves(g, n - 1)
    BY <2>9
  <2> USE DEF Solves
  <2> DEFINE h == [i \in 0..n |-> IF i = n THEN pass(n, g[n - 1]) ELSE g[i]]
  <2>5. \A i \in 0..(n - 1) : g[i] = IF i = 0 THEN git ELSE pass(i, g[i - 1])
    BY <2>4
  <2>6. \A i \in 0..n : h[i] = IF i = 0 THEN git ELSE pass(i, h[i - 1])
    <3> TAKE i \in 0..n
    <3>1. CASE i = n
      <4>1. h[i] = pass(n, g[n - 1]) /\ h[i - 1] = g[n - 1]
        BY <2>3, <3>1
      <4> QED
        BY <4>1, <3>1, <2>3
    <3>2. CASE i # n
      <4>1. h[i] = g[i] /\ i \in 0..(n - 1)
        BY <2>3, <3>2
      <4>2. i # 0 => h[i - 1] = g[i - 1]
        BY <2>3, <3>2
      <4> QED
        BY <4>1, <4>2, <2>5
    <3> QED
      BY <3>1, <3>2
  <2>7. h = [i \in 0..n |-> h[i]]
    OBVIOUS
  <2> HIDE DEF h
  <2>8. Solves(h, n)
    BY <2>6, <2>7
  <2> QED
    BY <2>1, <2>8
<1>5. Solves(first, N)
  BY <1>4
<1> HIDE DEF first
<1>6. \A i \in 0..N : first[i] = IF i = 0 THEN git ELSE pass(i, first[i - 1])
  BY <1>5
<1>7. \A i \in 0..N : first[i] \subseteq batch \X batch
  <2> DEFINE T == {i \in 0..N : ~ (first[i] \subseteq batch \X batch)}
  <2> SUFFICES ASSUME T # {} PROVE FALSE
    OBVIOUS
  <2>1. T \subseteq Nat
    BY <1>0
  <2>2. PICK n \in T : \A m \in T : n <= m
    BY <2>1, LeastOne
  <2>3. n # 0
    BY <2>2, <1>1, <1>6, <1>0
  <2>4. n - 1 \in 0..N /\ n - 1 \notin T
    BY <2>2, <2>3, <1>0
  <2>5. first[n - 1] \subseteq batch \X batch
    BY <2>4
  <2>6. pass(n, first[n - 1]) \subseteq batch \X batch
    BY <2>5, <1>2
  <2>7. first[n] = pass(n, first[n - 1])
    BY <2>2, <2>3, <1>6
  <2> QED
    BY <2>2, <2>6, <2>7
<1> QED
  BY <1>0, <1>3, <1>7
-----------------------------------------------------------------------------
Notes == [op : {"create", "write", "remove", "rename"}, path : Paths]

ObserverTypes ==
  /\ ObserverTypeOK
  /\ notes \in Seq(Notes) /\ raw \in Seq(Notes)
  /\ \A p \in Paths : disk[p] = Directory \/ states[p] = Directory => p \in Dirs
  /\ IsFiniteSet(DOMAIN pending)

LEMMA ObserverInitTypes == ObserverInit => ObserverTypes
<1> SUFFICES ASSUME ObserverInit PROVE ObserverTypes
  OBVIOUS
<1> USE ObserverAssumption DEF ObserverInit
<1>1. pending = << >> /\ DOMAIN pending = {}
  OBVIOUS
<1>2. IsFiniteSet(DOMAIN pending) /\ Cardinality(DOMAIN pending) = 0
  BY <1>1, FS_EmptySet
<1>3. MaxPending \in Nat /\ QueueSize \in Nat /\ Len(raw) = 0
  OBVIOUS
<1>4. ObserverTypeOK
  <2>1. {ctxDone, stopped, misled, told} \subseteq BOOLEAN
    OBVIOUS
  <2>2. Len(raw) <= QueueSize /\ Cardinality(DOMAIN pending) <= MaxPending
    BY <1>2, <1>3
  <2>3. changes \in 0..MaxChanges /\ overflows \in 0..MaxOverflows /\ errors \in 0..overflows
    OBVIOUS
  <2>4. disk \in [Paths -> Contents] /\ states \in [Paths -> Contents]
    OBVIOUS
  <2>5. watched \subseteq Dirs \cup {Root} /\ picture \subseteq Paths /\ silent \subseteq Paths
    OBVIOUS
  <2>6. DOMAIN pending \subseteq Paths /\ \A p \in DOMAIN pending : pending[p] \in Change
    BY <1>1
  <2> QED
    BY <2>1, <2>2, <2>3, <2>4, <2>5, <2>6 DEF ObserverTypeOK
<1>5. notes \in Seq(Notes) /\ raw \in Seq(Notes)
  OBVIOUS
<1> QED
  BY <1>2, <1>4, <1>5 DEF ObserverTypes

LEMMA ChangedTypes ==
    ASSUME ObserverTypes, NEW newDisk \in [Paths -> Contents],
           \A p \in Paths : newDisk[p] = Directory => p \in Dirs,
           NEW changed \in SUBSET Paths, NEW heard \in Seq(Notes),
           Changed(newDisk, changed, heard), watched' \subseteq watched
    PROVE  ObserverTypes'
<1> USE DEF ObserverTypes, ObserverTypeOK
<1>1. /\ disk' = newDisk /\ states' = states /\ raw' = raw /\ dropped' = dropped
      /\ pending' = pending /\ picture' = picture /\ ctxDone' = ctxDone /\ stopped' = stopped
      /\ misled' = misled /\ told' = told /\ changes' = changes + 1 /\ changes < MaxChanges
      /\ silent' = silent \cup {p \in changed : Parent[p] \notin watched}
  BY DEF Changed, reportVars
<1>2. notes' \in Seq(Notes) /\ overflows' \in 0..MaxOverflows /\ errors' \in 0..overflows'
  <2>1. CASE notes' = notes \o heard /\ UNCHANGED <<overflows, errors>>
    BY <2>1
  <2>2. CASE /\ overflows < MaxOverflows /\ overflows' = overflows + 1
             /\ errors' = errors + 1 /\ notes' = notes
    BY <2>2, ObserverAssumption
  <2> QED
    BY <2>1, <2>2 DEF Changed, Notify
<1>3. changes' \in 0..MaxChanges
  BY <1>1, ObserverAssumption
<1> QED
  BY <1>1, <1>2, <1>3

LEMMA HeardIsNote ==
    ASSUME NEW op \in {"create", "write", "remove", "rename"}, NEW p \in Paths
    PROVE  /\ Heard(op, p) \in Seq(Notes)
           /\ Parent[p] \in watched =>
                \E i \in 1..Len(Heard(op, p)) : Heard(op, p)[i].path = p
<1> DEFINE note == [op |-> op, path |-> p]
<1>1. note \in Notes /\ note.path = p
  BY DEF Notes
<1>2. Heard(op, p) = IF Parent[p] \in watched THEN <<note>> ELSE << >>
  BY DEF Heard
<1> HIDE DEF note
<1>3. <<note>> \in Seq(Notes) /\ << >> \in Seq(Notes) /\ Len(<<note>>) = 1 /\ <<note>>[1] = note
  BY <1>1
<1> QED
  BY <1>1, <1>2, <1>3

\* What a change by the user does: the disk changes where it says, and every
\* change in a watched directory is heard of.
Explains(newDisk, changed, heard) ==
  /\ Changed(newDisk, changed, heard)
  /\ watched' \subseteq watched
  /\ \A p \in Paths : newDisk[p] = Directory => p \in Dirs
  /\ \A p \in Paths \ changed : newDisk[p] = disk[p]
  /\ \A p \in changed : Parent[p] \in watched => \E i \in 1..Len(heard) : heard[i].path = p

LEMMA OneChanged ==
    ASSUME ObserverTypes, NEW p \in Paths, NEW content \in Contents,
           content = Directory => p \in Dirs,
           NEW op \in {"create", "write", "remove", "rename"}, watched' \subseteq watched,
           Changed([disk EXCEPT ![p] = content], {p}, Heard(op, p))
    PROVE  \E newDisk \in [Paths -> Contents], changed \in SUBSET Paths, heard \in Seq(Notes) :
             Explains(newDisk, changed, heard)
<1> DEFINE newDisk == [disk EXCEPT ![p] = content]
<1>1. newDisk \in [Paths -> Contents] /\ {p} \in SUBSET Paths
  BY DEF ObserverTypes, ObserverTypeOK
<1>2. \A q \in Paths : newDisk[q] = IF q = p THEN content ELSE disk[q]
  BY DEF ObserverTypes, ObserverTypeOK
<1> HIDE DEF newDisk
<1>3. \A q \in Paths : newDisk[q] = Directory => q \in Dirs
  BY <1>2 DEF ObserverTypes
<1>4. /\ Heard(op, p) \in Seq(Notes)
      /\ Parent[p] \in watched => \E i \in 1..Len(Heard(op, p)) : Heard(op, p)[i].path = p
  BY HeardIsNote
<1>5. Explains(newDisk, {p}, Heard(op, p))
  BY <1>2, <1>3, <1>4 DEF Explains, newDisk
<1> QED
  BY <1>1, <1>4, <1>5

LEMMA UserStep ==
    ASSUME ObserverTypes, UserChanges
    PROVE  \E newDisk \in [Paths -> Contents], changed \in SUBSET Paths, heard \in Seq(Notes) :
             Explains(newDisk, changed, heard)
<1>0. /\ Absent \in Contents /\ Directory \in Contents /\ Fresh \in Contents
      /\ Absent # Directory /\ Fresh # Directory /\ Files \subseteq Paths /\ Dirs \subseteq Paths
  BY ObserverAssumption DEF Contents, Absent, Directory, Paths
<1>1. CASE \E p \in Files : CreateFile(p)
  <2>1. PICK p \in Files : CreateFile(p)
    BY <1>1
  <2> QED
    BY <1>0, <2>1, OneChanged DEF CreateFile
<1>2. CASE \E p \in Files : WriteFile(p)
  <2>1. PICK p \in Files : WriteFile(p)
    BY <1>2
  <2> QED
    BY <1>0, <2>1, OneChanged DEF WriteFile
<1>3. CASE \E p \in Files : RemoveFile(p)
  <2>1. PICK p \in Files : RemoveFile(p)
    BY <1>3
  <2> QED
    BY <1>0, <2>1, OneChanged DEF RemoveFile
<1>4. CASE \E p \in Files : MoveFileOut(p)
  <2>1. PICK p \in Files : MoveFileOut(p)
    BY <1>4
  <2> QED
    BY <1>0, <2>1, OneChanged DEF MoveFileOut
<1>5. CASE \E d \in Dirs : MakeDir(d)
  <2>1. PICK d \in Dirs : MakeDir(d)
    BY <1>5
  <2> QED
    BY <1>0, <2>1, OneChanged DEF MakeDir
<1>6. CASE \E d \in Dirs : RemoveDir(d)
  <2>1. PICK d \in Dirs : RemoveDir(d)
    BY <1>6
  <2> QED
    BY <1>0, <2>1, OneChanged DEF RemoveDir
<1>7. CASE \E p, q \in Files : MoveFile(p, q)
  <2>1. PICK p, q \in Files : MoveFile(p, q)
    BY <1>7
  <2> DEFINE newDisk == [disk EXCEPT ![p] = Absent, ![q] = disk[p]]
             gone == Heard("rename", p)
             new == Heard("create", q)
  <2>2. /\ Changed(newDisk, {p, q}, gone \o new)
        /\ watched' = watched /\ p \in Paths /\ q \in Paths /\ disk[p] \in Prints
    BY <1>0, <2>1 DEF MoveFile
  <2>3. newDisk \in [Paths -> Contents] /\ {p, q} \in SUBSET Paths
    BY <1>0, <2>2 DEF ObserverTypes, ObserverTypeOK
  <2>4. \A r \in Paths : newDisk[r] = IF r = q THEN disk[p] ELSE IF r = p THEN Absent ELSE disk[r]
    BY <2>2 DEF ObserverTypes, ObserverTypeOK
  <2>5. disk[p] # Directory
    BY <2>2, ObserverAssumption
  <2>6. /\ gone \in Seq(Notes) /\ new \in Seq(Notes)
        /\ Parent[p] \in watched => \E i \in 1..Len(gone) : gone[i].path = p
        /\ Parent[q] \in watched => \E i \in 1..Len(new) : new[i].path = q
    BY <2>2, HeardIsNote
  <2> HIDE DEF newDisk, gone, new
  <2>7. \A r \in Paths : newDisk[r] = Directory => r \in Dirs
    BY <1>0, <2>4, <2>5 DEF ObserverTypes
  <2>8. /\ gone \o new \in Seq(Notes)
        /\ \A i \in 1..Len(gone) : i \in 1..Len(gone \o new) /\ (gone \o new)[i] = gone[i]
        /\ \A i \in 1..Len(new) : /\ Len(gone) + i \in 1..Len(gone \o new)
                                  /\ (gone \o new)[Len(gone) + i] = new[i]
    BY <2>6
  <2>9. \A r \in {p, q} : Parent[r] \in watched =>
          \E i \in 1..Len(gone \o new) : (gone \o new)[i].path = r
    BY <2>6, <2>8
  <2>10. Explains(newDisk, {p, q}, gone \o new)
    BY <2>2, <2>4, <2>7, <2>9 DEF Explains
  <2> QED
    BY <2>3, <2>8, <2>10
<1> QED
  BY <1>1, <1>2, <1>3, <1>4, <1>5, <1>6, <1>7 DEF UserChanges

(***************************************************************************)
(* A step of the observer keeps the types.                                 *)
(***************************************************************************)
LEMMA CoalescedTypes ==
    ASSUME ObserverTypes, NEW n \in Notes, ~Full(n.path)
    PROVE  /\ DOMAIN Coalesced(n) = DOMAIN pending \cup {n.path}
           /\ \A p \in DOMAIN pending \ {n.path} : Coalesced(n)[p] = pending[p]
           /\ Coalesced(n)[n.path].before =
                IF n.path \in DOMAIN pending THEN pending[n.path].before ELSE states[n.path]
           /\ Coalesced(n)[n.path].after = disk[n.path]
           /\ Coalesced(n)[n.path] \in Change
           /\ IsFiniteSet(DOMAIN Coalesced(n))
           /\ Cardinality(DOMAIN Coalesced(n)) <= MaxPending
<1> DEFINE p == n.path
<1>0. /\ p \in Paths /\ n.op \in {"create", "write", "remove", "rename"}
      /\ disk[p] \in Contents /\ states[p] \in Contents
      /\ DOMAIN pending \subseteq Paths /\ IsFiniteSet(DOMAIN pending)
      /\ Cardinality(DOMAIN pending) <= MaxPending
      /\ \A q \in DOMAIN pending : pending[q] \in Change
  BY DEF Notes, ObserverTypes, ObserverTypeOK
<1> DEFINE c == [Seen(n) EXCEPT !.op = @ \cup {n.op}, !.after = disk[p]]
<1>1. /\ Seen(n) \in [op : SUBSET {"create", "write", "remove", "rename"},
                      before : Contents, after : Contents]
      /\ Seen(n).before = IF p \in DOMAIN pending THEN pending[p].before ELSE states[p]
  BY <1>0 DEF Seen, Change
<1>2. c \in Change /\ c.before = Seen(n).before /\ c.after = disk[p]
  BY <1>0, <1>1 DEF Change
<1>3. Coalesced(n) = [q \in DOMAIN pending \cup {p} |-> IF q = p THEN c ELSE pending[q]]
  BY DEF Coalesced
<1> HIDE DEF c
<1>4. IsFiniteSet(DOMAIN pending \cup {p}) /\ Cardinality(DOMAIN pending \cup {p}) <= MaxPending
  <2>1. CASE p \in DOMAIN pending
    <3>1. DOMAIN pending \cup {p} = DOMAIN pending
      BY <2>1
    <3> QED
      BY <1>0, <3>1
  <2>2. CASE p \notin DOMAIN pending
    <3>1. Cardinality(DOMAIN pending) \in Nat /\ MaxPending \in Nat
      BY <1>0, FS_CardinalityType, ObserverAssumption
    <3>2. Cardinality(DOMAIN pending) < MaxPending
      BY <2>2, <3>1 DEF Full
    <3>3. /\ IsFiniteSet(DOMAIN pending \cup {p})
          /\ Cardinality(DOMAIN pending \cup {p}) = Cardinality(DOMAIN pending) + 1
      BY <1>0, <2>2, FS_AddElement
    <3> QED
      BY <3>1, <3>2, <3>3
  <2> QED
    BY <2>1, <2>2
<1>5. DOMAIN Coalesced(n) = DOMAIN pending \cup {p}
  BY <1>3
<1>6. Coalesced(n)[p] = c
  BY <1>3
<1>7. \A q \in DOMAIN pending \ {p} : Coalesced(n)[q] = pending[q]
  BY <1>3
<1> QED
  BY <1>1, <1>2, <1>4, <1>5, <1>6, <1>7

LEMMA AcceptChangeTypes ==
    ASSUME ObserverTypes, AcceptChange
    PROVE  ObserverTypes'
<1> USE DEF ObserverTypes, ObserverTypeOK
<1>1. PICK n \in Notes : n = Head(raw)
  BY DEF AcceptChange
<1>2. /\ silent' = silent \cup Walked(n) \cup Forgotten(n) /\ Walks(n)
      /\ pending' = IF Full(n.path) THEN pending ELSE Coalesced(n)
      /\ dropped' = IF Full(n.path) THEN dropped + 1 ELSE dropped
      /\ raw' = Tail(raw) /\ raw # << >> /\ disk' = disk /\ changes' = changes
      /\ overflows' = overflows /\ notes' = notes /\ errors' = errors /\ ctxDone' = ctxDone
      /\ picture' = picture /\ misled' = misled /\ told' = told /\ stopped' = stopped
  BY <1>1 DEF AcceptChange
<1>3. n.path \in Paths
  BY DEF Notes
<1>4. Walked(n) \subseteq Paths /\ Forgotten(n) \subseteq Paths
  <2>1. n.path \in Dirs => Inside[n.path] \subseteq Paths
    BY DEF Inside
  <2>2. disk[n.path] = Directory \/ states[n.path] = Directory => n.path \in Dirs
    BY <1>3
  <2> QED
    BY <2>1, <2>2 DEF Walked, Forgotten
<1>5. watched' \subseteq watched \cup Dirs
  <2>1. NewlyWatched(n) \subseteq Dirs
    BY <1>3, <1>4 DEF NewlyWatched
  <2> QED
    BY <1>2, <2>1 DEF Walks
<1>6. /\ states' \in [Paths -> Contents]
      /\ \A p \in Paths : states'[p] = Directory => p \in Dirs
  <2>1. Absent \in Contents /\ Absent # Directory
    BY DEF Contents, Absent, Directory
  <2>2. PICK walked \in {Walked(n), {}} : states' = Looked(n, walked)
    BY <1>2 DEF Walks
  <2> QED
    BY <1>2, <2>1, <2>2 DEF Looked
<1>7. /\ DOMAIN pending' \subseteq Paths /\ IsFiniteSet(DOMAIN pending')
      /\ Cardinality(DOMAIN pending') <= MaxPending
      /\ \A p \in DOMAIN pending' : pending'[p] \in Change
  <2>1. CASE Full(n.path)
    BY <1>2, <2>1
  <2>2. CASE ~Full(n.path)
    <3>1. pending' = Coalesced(n)
      BY <1>2, <2>2
    <3>2. /\ DOMAIN Coalesced(n) = DOMAIN pending \cup {n.path}
          /\ \A p \in DOMAIN pending \ {n.path} : Coalesced(n)[p] = pending[p]
          /\ Coalesced(n)[n.path] \in Change
          /\ IsFiniteSet(DOMAIN Coalesced(n)) /\ Cardinality(DOMAIN Coalesced(n)) <= MaxPending
      BY <2>2, CoalescedTypes
    <3>3. \A p \in DOMAIN pending : p \in Paths /\ pending[p] \in Change
      BY DEF ObserverTypes, ObserverTypeOK
    <3>4. \A p \in DOMAIN Coalesced(n) : p \in Paths /\ Coalesced(n)[p] \in Change
      BY <1>3, <3>2, <3>3
    <3> QED
      BY <3>1, <3>2, <3>4
  <2> QED
    BY <2>1, <2>2
<1>8. raw' \in Seq(Notes) /\ Len(raw') <= QueueSize /\ dropped' \in Nat
  BY <1>2, ObserverAssumption
<1>9. silent' \subseteq Paths /\ watched' \subseteq Dirs \cup {Root}
  BY <1>2, <1>4, <1>5
<1>10. {ctxDone', stopped', misled', told'} \subseteq BOOLEAN
  BY <1>2
<1> QED
  BY <1>2, <1>6, <1>7, <1>8, <1>9, <1>10

\* What a report leaves: pairs are taken from the batch.
LEMMA PairsInBatch ==
    ASSUME ObserverTypes, NEW batch \in SUBSET Paths, NEW evidence \in {{}, Staged}
    PROVE  CorrelateRenames(batch, evidence) \subseteq batch \X batch
BY RenamesInBatch, ObserverAssumption

LEMMA FlushReadyTypes ==
    ASSUME ObserverTypes, NEW ready \in SUBSET DOMAIN pending, FlushReady(ready),
           UNCHANGED <<userVars, silent, raw, ctxDone, states>>, stopped' \in BOOLEAN
    PROVE  ObserverTypes'
<1> USE DEF ObserverTypes, ObserverTypeOK
<1>1. /\ disk' = disk /\ watched' = watched /\ changes' = changes /\ overflows' = overflows
      /\ notes' = notes /\ errors' = errors /\ silent' = silent /\ raw' = raw
      /\ ctxDone' = ctxDone /\ states' = states /\ dropped' = 0
  BY DEF FlushReady, userVars
<1>2. Batch(ready) \subseteq DOMAIN pending
  BY DEF Batch
<1>3. PICK evidence \in {{}, Staged} : Reported(Batch(ready), evidence)
  BY DEF FlushReady
<1> DEFINE pairs == CorrelateRenames(Batch(ready), evidence)
<1>4. pairs \subseteq Paths \X Paths
  <2>1. Batch(ready) \in SUBSET Paths
    BY <1>2
  <2>2. pairs \subseteq Batch(ready) \X Batch(ready)
    BY <2>1, PairsInBatch
  <2> QED
    BY <2>1, <2>2
<1>5. picture' \subseteq Paths
  <2>1. /\ {pair[2] : pair \in pairs} \subseteq Paths
        /\ {p \in Batch(ready) \ Consumed(pairs) : Created(pending[p])} \subseteq Paths
    BY <1>2, <1>4
  <2> QED
    BY <1>3, <2>1 DEF Reported
<1>6. misled' \in BOOLEAN /\ told' \in BOOLEAN
  <2>1. misled' \in BOOLEAN
    BY <1>3, Zenon DEF Reported
  <2>2. told' \in BOOLEAN
    BY Zenon DEF FlushReady
  <2> QED
    BY <2>1, <2>2
<1>7. pending' = [p \in DOMAIN pending \ Batch(ready) |-> pending[p]]
  BY DEF FlushReady, Restrict
<1>8. /\ DOMAIN pending' \subseteq DOMAIN pending /\ IsFiniteSet(DOMAIN pending')
      /\ Cardinality(DOMAIN pending') <= MaxPending
  <2>1. DOMAIN pending' \subseteq DOMAIN pending
    BY <1>7
  <2>2. /\ IsFiniteSet(DOMAIN pending')
        /\ Cardinality(DOMAIN pending') <= Cardinality(DOMAIN pending)
    BY <2>1, FS_Subset
  <2>3. Cardinality(DOMAIN pending') \in Nat /\ Cardinality(DOMAIN pending) \in Nat
    BY <2>2, FS_CardinalityType
  <2> QED
    BY <2>1, <2>2, <2>3, ObserverAssumption
<1>9. \A p \in DOMAIN pending' : pending'[p] \in Change
  BY <1>7
<1> QED
  BY <1>1, <1>5, <1>6, <1>8, <1>9

LEMMA ObserverStepTypes == ObserverTypes /\ [ObserverNext]_observerVars => ObserverTypes'
<1> SUFFICES ASSUME ObserverTypes, [ObserverNext]_observerVars PROVE ObserverTypes'
  OBVIOUS
<1>1. CASE UserChanges
  <2>1. PICK newDisk \in [Paths -> Contents], changed \in SUBSET Paths, heard \in Seq(Notes) :
          Explains(newDisk, changed, heard)
    BY <1>1, UserStep
  <2> QED
    BY <2>1, ChangedTypes DEF Explains
<1>2. CASE DrainError
  <2>1. errors' \in 0..overflows /\ dropped' \in Nat
    BY <1>2, ObserverAssumption DEF DrainError, ObserverTypes, ObserverTypeOK
  <2> QED
    BY <1>2, <2>1 DEF DrainError, ObserverTypes, ObserverTypeOK, reportVars
<1>3. CASE Drain
  <2> USE <1>3 DEF Drain, ObserverTypes, ObserverTypeOK
  <2>1. notes' \in Seq(Notes) /\ Head(notes) \in Notes
    OBVIOUS
  <2>2. raw' \in Seq(Notes) /\ Len(raw') <= QueueSize /\ dropped' \in Nat
    <3>1. CASE Len(raw) < QueueSize
      <4>1. raw' = Append(raw, Head(notes)) /\ dropped' = dropped
        BY <3>1, ObserverAssumption
      <4> QED
        BY <2>1, <3>1, <4>1, ObserverAssumption
    <3>2. CASE ~(Len(raw) < QueueSize)
      BY <3>2
    <3> QED
      BY <3>1, <3>2
  <2> QED
    BY <1>3, <2>1, <2>2 DEF Drain, ObserverTypes, ObserverTypeOK, reportVars
<1>4. CASE AcceptChange
  BY <1>4, AcceptChangeTypes
<1>5. CASE Flush
  <2>1. PICK ready \in ReadySets : FlushReady(ready)
    BY <1>5 DEF Flush
  <2>2. ready \in SUBSET DOMAIN pending
    BY <2>1 DEF ReadySets
  <2>3. UNCHANGED <<userVars, silent, raw, ctxDone, states>> /\ stopped' = stopped
    BY <1>5 DEF Flush
  <2>4. stopped' \in BOOLEAN
    BY <2>3 DEF ObserverTypes, ObserverTypeOK
  <2> QED
    BY <2>1, <2>2, <2>3, <2>4, FlushReadyTypes
<1>6. CASE Finish
  BY <1>6, FlushReadyTypes DEF Finish
<1>7. CASE Cancel
  BY <1>7 DEF Cancel, ObserverTypes, ObserverTypeOK, reportVars, userVars
<1>8. CASE UNCHANGED observerVars
  BY <1>8 DEF observerVars, ObserverTypes, ObserverTypeOK, reportVars, userVars
<1> QED
  BY <1>1, <1>2, <1>3, <1>4, <1>5, <1>6, <1>7, <1>8 DEF ObserverNext, ObserverSteps

THEOREM ObserverTypesCorrect == ObserverSpec => []ObserverTypeOK
<1>1. ObserverSpec => []ObserverTypes
  BY ObserverInitTypes, ObserverStepTypes, PTL DEF ObserverSpec
<1> QED
  BY <1>1, PTL DEF ObserverTypes

(***************************************************************************)
(* The picture: as long as nothing was lost or misreported, the last look  *)
(* at a path differs from the disk only while a notification about it is   *)
(* on its way, and the picture from the last look only by its pending      *)
(* change.                                                                 *)
(***************************************************************************)
Lossy == told \/ dropped > 0 \/ errors > 0

Noted(p) == \/ \E i \in 1..Len(notes) : notes[i].path = p
            \/ \E i \in 1..Len(raw) : raw[i].path = p

FollowedPath(p) ==
  /\ (disk[p] = Absent <=> states[p] = Absent) \/ Noted(p)
  /\ p \in picture <=> (IF p \in DOMAIN pending THEN pending[p].before ELSE states[p]) # Absent
  /\ p \in DOMAIN pending => (pending[p].after = Absent <=> states[p] = Absent)

Followed == ~Lossy /\ ~misled /\ ~stopped => \A p \in Paths \ silent : FollowedPath(p)

ObserverInv == ObserverTypes /\ Followed

LEMMA ObserverInitFollowed == ObserverInit => Followed
BY DEF ObserverInit, Followed, FollowedPath

LEMMA ChangedFollowed ==
    ASSUME ObserverTypes, Followed, NEW newDisk \in [Paths -> Contents],
           NEW changed \in SUBSET Paths, NEW heard \in Seq(Notes),
           Explains(newDisk, changed, heard)
    PROVE  Followed'
<1>1. /\ disk' = newDisk /\ states' = states /\ raw' = raw /\ dropped' = dropped
      /\ pending' = pending /\ picture' = picture /\ stopped' = stopped
      /\ misled' = misled /\ told' = told
      /\ silent' = silent \cup {p \in changed : Parent[p] \notin watched}
  BY DEF Explains, Changed, reportVars
<1> SUFFICES ASSUME ~Lossy', ~misled', ~stopped', NEW p \in Paths \ silent'
             PROVE  FollowedPath(p)'
  BY DEF Followed
<1>2. notes' = notes \o heard /\ ~Lossy
  <2>1. CASE notes' = notes \o heard /\ UNCHANGED <<overflows, errors>>
    BY <1>1, <2>1 DEF Lossy
  <2>2. CASE errors' = errors + 1
    BY <2>2 DEF Lossy, ObserverTypes, ObserverTypeOK
  <2> QED
    BY <2>1, <2>2 DEF Explains, Changed, Notify
<1>3. FollowedPath(p)
  BY <1>1, <1>2 DEF Followed
<1>4. /\ \A i \in 1..Len(notes) : i \in 1..Len(notes') /\ notes'[i] = notes[i]
      /\ \A i \in 1..Len(heard) : /\ Len(notes) + i \in 1..Len(notes')
                                  /\ notes'[Len(notes) + i] = heard[i]
  BY <1>2 DEF ObserverTypes
<1>5. Noted(p) => Noted(p)'
  BY <1>1, <1>4 DEF Noted
<1>6. CASE p \in changed
  <2>1. \E i \in 1..Len(heard) : heard[i].path = p
    BY <1>1, <1>6 DEF Explains
  <2>2. Noted(p)'
    BY <1>4, <2>1 DEF Noted
  <2> QED
    BY <1>1, <1>3, <2>2 DEF FollowedPath
<1>7. CASE p \notin changed
  <2>1. disk'[p] = disk[p]
    BY <1>1, <1>7 DEF Explains
  <2> QED
    BY <1>1, <1>3, <1>5, <2>1 DEF FollowedPath
<1> QED
  BY <1>6, <1>7

LEMMA DrainFollowed ==
    ASSUME ObserverTypes, Followed, Drain
    PROVE  Followed'
<1>1. /\ disk' = disk /\ states' = states /\ pending' = pending /\ picture' = picture
      /\ stopped' = stopped /\ misled' = misled /\ told' = told /\ silent' = silent
      /\ errors' = errors /\ notes # << >> /\ notes' = Tail(notes)
  BY DEF Drain, reportVars
<1> SUFFICES ASSUME ~Lossy', ~misled', ~stopped', NEW p \in Paths \ silent'
             PROVE  FollowedPath(p)'
  BY DEF Followed
<1>2. raw' = Append(raw, Head(notes)) /\ dropped' = dropped
  BY DEF Drain, Lossy, ObserverTypes, ObserverTypeOK
<1>3. FollowedPath(p)
  BY <1>1, <1>2 DEF Followed, Lossy
<1>4. /\ \A i \in 2..Len(notes) : i - 1 \in 1..Len(notes') /\ notes'[i - 1] = notes[i]
      /\ \A i \in 1..Len(raw) : i \in 1..Len(raw') /\ raw'[i] = raw[i]
      /\ Len(raw) + 1 \in 1..Len(raw') /\ raw'[Len(raw) + 1] = notes[1]
  BY <1>1, <1>2 DEF ObserverTypes
<1>5. Noted(p) => Noted(p)'
  <2>1. CASE \E i \in 1..Len(notes) : notes[i].path = p
    <3>1. PICK i \in 1..Len(notes) : notes[i].path = p
      BY <2>1
    <3>2. i = 1 \/ i \in 2..Len(notes)
      BY DEF ObserverTypes
    <3> QED
      BY <1>4, <3>1, <3>2 DEF Noted
  <2>2. CASE \E i \in 1..Len(raw) : raw[i].path = p
    BY <1>4, <2>2 DEF Noted
  <2> QED
    BY <2>1, <2>2 DEF Noted
<1> QED
  BY <1>1, <1>3, <1>5 DEF FollowedPath

LEMMA AcceptChangeFollowed ==
    ASSUME ObserverTypes, Followed, AcceptChange
    PROVE  Followed'
<1>1. PICK n \in Notes : n = Head(raw)
  BY DEF AcceptChange, ObserverTypes
<1>2. /\ silent' = silent \cup Walked(n) \cup Forgotten(n) /\ Walks(n)
      /\ pending' = IF Full(n.path) THEN pending ELSE Coalesced(n)
      /\ dropped' = IF Full(n.path) THEN dropped + 1 ELSE dropped
      /\ raw' = Tail(raw) /\ raw # << >> /\ disk' = disk /\ notes' = notes
      /\ errors' = errors /\ picture' = picture
      /\ misled' = misled /\ told' = told /\ stopped' = stopped
  BY <1>1 DEF AcceptChange
<1> SUFFICES ASSUME ~Lossy', ~misled', ~stopped', NEW p \in Paths \ silent'
             PROVE  FollowedPath(p)'
  BY DEF Followed
<1>3. ~Full(n.path) /\ dropped' = dropped /\ pending' = Coalesced(n)
  BY <1>2 DEF Lossy, ObserverTypes, ObserverTypeOK
<1>4. FollowedPath(p)
  BY <1>2, <1>3 DEF Followed, Lossy
<1> PICK walked \in {Walked(n), {}} : states' = Looked(n, walked)
  BY <1>2 DEF Walks
<1>5. CASE p = n.path
  <2>1. states'[p] = disk[p]
    BY <1>2, <1>5 DEF Looked
  <2>2. /\ p \in DOMAIN pending' /\ pending'[p].after = disk[p]
        /\ pending'[p].before = IF p \in DOMAIN pending THEN pending[p].before ELSE states[p]
    BY <1>3, <1>5, CoalescedTypes
  <2> QED
    BY <1>2, <1>4, <2>1, <2>2 DEF FollowedPath
<1>6. CASE p # n.path
  <2>1. states'[p] = states[p]
    BY <1>2, <1>6 DEF Looked
  <2>2. p \in DOMAIN pending' <=> p \in DOMAIN pending
    BY <1>3, <1>6, CoalescedTypes
  <2>3. p \in DOMAIN pending => pending'[p] = pending[p]
    BY <1>3, <1>6, CoalescedTypes
  <2>4. Noted(p) => Noted(p)'
    <3>1. CASE \E i \in 1..Len(raw) : raw[i].path = p
      <4>1. PICK i \in 1..Len(raw) : raw[i].path = p
        BY <3>1
      <4>2. i # 1
        BY <1>1, <1>2, <1>6, <4>1 DEF ObserverTypes
      <4>3. i - 1 \in 1..Len(raw') /\ raw'[i - 1] = raw[i]
        BY <1>2, <4>2 DEF ObserverTypes
      <4> QED
        BY <4>1, <4>3 DEF Noted
    <3>2. CASE \E i \in 1..Len(notes) : notes[i].path = p
      BY <1>2, <3>2 DEF Noted
    <3> QED
      BY <3>1, <3>2 DEF Noted
  <2> QED
    BY <1>2, <1>4, <2>1, <2>2, <2>3, <2>4 DEF FollowedPath
<1> QED
  BY <1>5, <1>6

LEMMA FlushReadyFollowed ==
    ASSUME ObserverTypes, Followed, NEW ready \in SUBSET DOMAIN pending, FlushReady(ready),
           UNCHANGED <<userVars, silent, raw, states>>, ~stopped
    PROVE  Followed'
<1>1. /\ disk' = disk /\ notes' = notes /\ errors' = errors /\ silent' = silent
      /\ raw' = raw /\ states' = states /\ dropped' = 0
      /\ pending' = [p \in DOMAIN pending \ Batch(ready) |-> pending[p]]
  BY DEF FlushReady, userVars, Restrict
<1>2. PICK evidence \in {{}, Staged} : Reported(Batch(ready), evidence)
  BY DEF FlushReady
<1> SUFFICES ASSUME ~Lossy', ~misled', ~stopped', NEW p \in Paths \ silent'
             PROVE  FollowedPath(p)'
  BY DEF Followed
<1> DEFINE batch == Batch(ready)
           pairs == CorrelateRenames(batch, evidence)
           alone == batch \ Consumed(pairs)
<1>3. ~told /\ ~(dropped > 0)
  BY Zenon DEF FlushReady, Lossy
<1>4. errors = errors' /\ ~(errors > 0)
  BY <1>1 DEF Lossy
<1>5. ~misled /\ \A pair \in pairs : /\ pending[pair[1]].after = Absent
                                     /\ pending[pair[2]].after # Absent
  BY <1>2, Zenon DEF Reported
<1>6. FollowedPath(p)
  BY <1>1, <1>3, <1>4, <1>5 DEF Followed, Lossy
<1>7. batch \subseteq DOMAIN pending /\ batch \in SUBSET Paths
  BY DEF Batch, ObserverTypes, ObserverTypeOK
<1>8. pairs \subseteq batch \X batch
  BY <1>7, PairsInBatch
<1>9. picture' = (picture \ ({pair[1] : pair \in pairs} \cup {q \in alone : Deleted(pending[q])}))
                 \cup {pair[2] : pair \in pairs} \cup {q \in alone : Created(pending[q])}
  BY <1>2 DEF Reported
<1> HIDE DEF batch, pairs
<1>10. \A pair \in pairs : pair[1] \in batch /\ pair[2] \in batch
  BY <1>8
<1>11. CASE p \notin batch
  <2>1. p \in picture' <=> p \in picture
    BY <1>9, <1>10, <1>11
  <2>2. /\ p \in DOMAIN pending' <=> p \in DOMAIN pending
        /\ p \in DOMAIN pending => pending'[p] = pending[p]
    BY <1>1, <1>11 DEF batch
  <2> QED
    BY <1>1, <1>6, <2>1, <2>2 DEF FollowedPath, Noted
<1>12. CASE p \in batch
  <2>1. p \notin DOMAIN pending' /\ p \in DOMAIN pending
    BY <1>1, <1>7, <1>12 DEF batch
  <2>2. p \in picture' <=> states[p] # Absent
    <3>1. CASE \E pair \in pairs : pair[1] = p
      <4>1. pending[p].after = Absent
        BY <1>5, <3>1
      <4>2. p \notin {pair[2] : pair \in pairs}
        BY <1>5, <4>1
      <4>3. p \notin alone /\ p \in {pair[1] : pair \in pairs}
        BY <3>1 DEF Consumed
      <4> QED
        BY <1>6, <1>9, <2>1, <4>1, <4>2, <4>3 DEF FollowedPath
    <3>2. CASE \E pair \in pairs : pair[2] = p
      <4>1. pending[p].after # Absent
        BY <1>5, <3>2
      <4>2. p \in picture'
        BY <1>9, <3>2
      <4> QED
        BY <1>6, <2>1, <4>1, <4>2 DEF FollowedPath
    <3>3. CASE \A pair \in pairs : pair[1] # p /\ pair[2] # p
      <4>1. p \in alone /\ p \notin {pair[1] : pair \in pairs}
                        /\ p \notin {pair[2] : pair \in pairs}
        BY <1>12, <3>3 DEF Consumed
      <4>2. p \in picture' <=> (p \in picture /\ ~Deleted(pending[p])) \/ Created(pending[p])
        BY <1>9, <4>1
      <4> QED
        BY <1>6, <2>1, <4>2 DEF FollowedPath, Created, Deleted
    <3> QED
      BY <3>1, <3>2, <3>3
  <2> QED
    BY <1>1, <1>6, <2>1, <2>2 DEF FollowedPath, Noted
<1> QED
  BY <1>11, <1>12

LEMMA ObserverStepFollowed ==
  ObserverInv /\ [ObserverNext]_observerVars => Followed'
<1> SUFFICES ASSUME ObserverTypes, Followed, [ObserverNext]_observerVars PROVE Followed'
  BY DEF ObserverInv
<1>1. CASE UserChanges
  <2>1. PICK newDisk \in [Paths -> Contents], changed \in SUBSET Paths, heard \in Seq(Notes) :
          Explains(newDisk, changed, heard)
    BY <1>1, UserStep
  <2> QED
    BY <2>1, ChangedFollowed
<1>2. CASE DrainError
  <2>1. dropped' > 0
    BY <1>2 DEF DrainError, ObserverTypes, ObserverTypeOK
  <2> QED
    BY <2>1 DEF Followed, Lossy
<1>3. CASE Drain
  BY <1>3, DrainFollowed
<1>4. CASE AcceptChange
  BY <1>4, AcceptChangeFollowed
<1>5. CASE Flush
  <2>1. PICK ready \in ReadySets : FlushReady(ready)
    BY <1>5 DEF Flush
  <2>2. ready \in SUBSET DOMAIN pending
    BY <2>1 DEF ReadySets
  <2>3. UNCHANGED <<userVars, silent, raw, states>> /\ ~stopped
    BY <1>5 DEF Flush
  <2> QED
    BY <2>1, <2>2, <2>3, FlushReadyFollowed
<1>6. CASE Finish
  BY <1>6 DEF Finish, Followed
<1>7. CASE Cancel \/ UNCHANGED observerVars
  BY <1>7 DEF Cancel, observerVars, reportVars, userVars, Followed, FollowedPath, Lossy, Noted
<1> QED
  BY <1>1, <1>2, <1>3, <1>4, <1>5, <1>6, <1>7 DEF ObserverNext, ObserverSteps

\* Once everything queued has been reported, the picture the events draw is
\* the disk, unless a record of dropped events was among them.
THEOREM PictureIsTheDisk == ObserverSpec => []PictureCatchesUp
<1>1. ObserverInv => PictureCatchesUp
  <2> SUFFICES ASSUME ObserverInv, Quiet, ~stopped, ~told, ~misled, NEW p \in Paths \ silent
               PROVE  p \in picture <=> disk[p] # Absent
    BY DEF PictureCatchesUp
  <2>1. ~Lossy /\ ~Noted(p) /\ DOMAIN pending = {}
    BY DEF Quiet, Lossy, Noted
  <2> QED
    BY <2>1 DEF ObserverInv, Followed, FollowedPath
<1>2. ObserverSpec => []ObserverInv
  BY ObserverInitTypes, ObserverInitFollowed, ObserverStepTypes, ObserverStepFollowed, PTL
  DEF ObserverSpec, ObserverInv
<1> QED
  BY <1>1, <1>2, PTL
=============================================================================
