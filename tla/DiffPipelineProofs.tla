-------------------------- MODULE DiffPipelineProofs -------------------------
(***************************************************************************)
(* Proofs about DiffPipeline, for every set of callers and of requests and *)
(* every size of the queue, the batches and the memory of completed keys.  *)
(***************************************************************************)
EXTENDS DiffPipeline, TLAPS

\* No two requests of a sequence have one key.
Unique(seq) == \A i, j \in DOMAIN seq : seq[i].key = seq[j].key => i = j

\* What is left of the batch to publish.
Unpublished == IF worker = "remembering" THEN Tail(batch) ELSE batch

\* The completed keys, with the one that is about to be remembered.
Completed == IF worker = "remembering" THEN Append(recent, Head(batch).key) ELSE recent

Shapes ==
    /\ offering \in [Offerers -> Requests \cup {NoRequest}]
    /\ queue \in Seq(Requests) /\ Len(queue) <= Capacity
    /\ batch \in Seq(Requests) /\ Len(batch) <= BatchSize
    /\ recent \in Seq(Keys) /\ Len(recent) <= MaxRecent
    /\ results \in Seq(Keys) /\ Len(results) <= 2 * Capacity
    /\ worker \in {"idle", "collecting", "publishing", "remembering", "done"}
    /\ worker = "remembering" => batch # <<>>

\* A key has one place: an offerer, the queue or the batch.
OnePlace ==
    /\ Unique(queue) /\ Unique(batch)
    /\ KeysOf(queue) \cap KeysOf(batch) = {}
    /\ Offered \cap (KeysOf(queue) \cup KeysOf(batch)) = {}
    /\ \A o, p \in Offerers :
         offering[o] # NoRequest /\ offering[p] # NoRequest /\ offering[o].key = offering[p].key
            => o = p

\* The keys that wait for the consumer are the last of the completed ones.
ResultsAreCompleted ==
    /\ \A i, j \in DOMAIN recent : recent[i] = recent[j] => i = j
    /\ ToSet(recent) \cap pending = {}
    /\ Len(results) <= Len(Completed)
    /\ \A i \in DOMAIN results : results[i] = Completed[Len(Completed) - Len(results) + i]

\* Results are owed for what was accepted and not published; a key that is owed
\* stays pending, also when a close took its request away.
OwedArePending ==
    /\ owed \subseteq pending /\ owed \cap Offered = {}
    /\ KeysOf(queue) \cup KeysOf(Unpublished) \subseteq owed
    /\ worker = "remembering" => Head(batch).key \notin owed

IInv == Shapes /\ PendingIsInFlight /\ OnePlace /\ ResultsAreCompleted /\ OwedArePending
-----------------------------------------------------------------------------
\* A request at the end of a sequence adds its key.
LEMMA AppendRequest ==
    ASSUME NEW s \in Seq(Requests), NEW r \in Requests
    PROVE  /\ Append(s, r) \in Seq(Requests) /\ Len(Append(s, r)) = Len(s) + 1
           /\ KeysOf(Append(s, r)) = KeysOf(s) \cup {r.key}
           /\ Unique(s) /\ r.key \notin KeysOf(s) => Unique(Append(s, r))
<1> DEFINE t == Append(s, r)
<1>1. /\ t \in Seq(Requests) /\ Len(t) = Len(s) + 1 /\ Len(s) \in Nat
      /\ DOMAIN t = 1..Len(s) + 1 /\ DOMAIN s = 1..Len(s)
      /\ \A i \in 1..Len(s) : t[i] = s[i]
      /\ t[Len(s) + 1] = r
  OBVIOUS
<1> HIDE DEF t
<1>2. KeysOf(t) = KeysOf(s) \cup {r.key}
  <2>1. \A i \in DOMAIN t : t[i].key \in KeysOf(s) \cup {r.key}
    BY <1>1 DEF KeysOf
  <2>2. \A i \in DOMAIN s : s[i].key \in KeysOf(t)
    BY <1>1 DEF KeysOf
  <2>3. r.key \in KeysOf(t)
    BY <1>1 DEF KeysOf
  <2> QED
    BY <2>1, <2>2, <2>3 DEF KeysOf
<1>3. Unique(s) /\ r.key \notin KeysOf(s) => Unique(t)
  BY <1>1 DEF Unique, KeysOf
<1> QED
  BY <1>1, <1>2, <1>3 DEF t

\* The first request of a sequence takes its key away.
LEMMA TakeRequest ==
    ASSUME NEW s \in Seq(Requests), s # <<>>
    PROVE  /\ Head(s) \in Requests /\ Tail(s) \in Seq(Requests) /\ Len(Tail(s)) = Len(s) - 1
           /\ Len(s) \in Nat \ {0}
           /\ KeysOf(s) = {Head(s).key} \cup KeysOf(Tail(s))
           /\ Unique(s) => Unique(Tail(s)) /\ Head(s).key \notin KeysOf(Tail(s))
<1> DEFINE t == Tail(s)
<1>1. /\ Head(s) \in Requests /\ t \in Seq(Requests)
      /\ Len(t) = Len(s) - 1 /\ Len(s) \in Nat \ {0}
      /\ DOMAIN t = 1..Len(s) - 1 /\ DOMAIN s = 1..Len(s)
      /\ \A i \in 1..Len(s) - 1 : t[i] = s[i + 1]
      /\ Head(s) = s[1]
  OBVIOUS
<1> HIDE DEF t
<1>2. KeysOf(s) = {Head(s).key} \cup KeysOf(t)
  <2>1. \A i \in DOMAIN s : s[i].key \in {Head(s).key} \cup KeysOf(t)
    <3> TAKE i \in DOMAIN s
    <3>1. CASE i = 1
      BY <1>1, <3>1
    <3>2. CASE i # 1
      <4>1. i - 1 \in DOMAIN t /\ t[i - 1] = s[i]
        BY <1>1, <3>2
      <4> QED
        BY <4>1 DEF KeysOf
    <3> QED
      BY <3>1, <3>2
  <2>2. \A i \in DOMAIN t : t[i].key \in KeysOf(s)
    <3> TAKE i \in DOMAIN t
    <3>1. i + 1 \in DOMAIN s /\ t[i] = s[i + 1]
      BY <1>1
    <3> QED
      BY <3>1 DEF KeysOf
  <2>3. Head(s).key \in KeysOf(s)
    BY <1>1 DEF KeysOf
  <2> QED
    BY <2>1, <2>2, <2>3 DEF KeysOf
<1>3. ASSUME Unique(s)
      PROVE  Unique(t) /\ Head(s).key \notin KeysOf(t)
  <2>1. \A i \in 1..Len(s) - 1 : t[i].key # Head(s).key
    <3> TAKE i \in 1..Len(s) - 1
    <3>1. i + 1 \in DOMAIN s /\ 1 \in DOMAIN s /\ i + 1 # 1 /\ t[i] = s[i + 1]
      BY <1>1
    <3> QED
      BY <1>1, <1>3, <3>1 DEF Unique
  <2>2. \A i, j \in 1..Len(s) - 1 : t[i].key = t[j].key => i = j
    <3> TAKE i, j \in 1..Len(s) - 1
    <3>1. /\ i + 1 \in DOMAIN s /\ j + 1 \in DOMAIN s
          /\ t[i] = s[i + 1] /\ t[j] = s[j + 1]
          /\ i + 1 = j + 1 => i = j
      BY <1>1
    <3> QED
      BY <1>3, <3>1 DEF Unique
  <2> QED
    BY <1>1, <2>1, <2>2 DEF Unique, KeysOf
<1> QED
  BY <1>1, <1>2, <1>3 DEF t

\* process changes the order of a batch and nothing else.
LEMMA OrdersArePermutations ==
    ASSUME NEW s \in Seq(Requests), NEW t \in PublishOrders(s)
    PROVE  /\ t \in Seq(Requests) /\ Len(t) = Len(s)
           /\ KeysOf(t) = KeysOf(s)
           /\ Unique(s) => Unique(t)
<1>1. PICK p \in Bijection(DOMAIN s, DOMAIN s) : t = [i \in DOMAIN s |-> s[p[i]]]
  BY DEF PublishOrders
<1>2. /\ p \in [DOMAIN s -> DOMAIN s]
      /\ \A i, j \in DOMAIN s : p[i] = p[j] => i = j
      /\ \A j \in DOMAIN s : \E i \in DOMAIN s : p[i] = j
  BY DEF Bijection, Injection, Surjection, IsInjective
<1>3. DOMAIN s = 1..Len(s) /\ Len(s) \in Nat /\ \A i \in DOMAIN s : s[i] \in Requests
  OBVIOUS
<1>4. t \in Seq(Requests) /\ Len(t) = Len(s) /\ DOMAIN t = DOMAIN s
  BY <1>1, <1>2, <1>3
<1>5. KeysOf(t) = KeysOf(s)
  BY <1>1, <1>2, <1>4 DEF KeysOf
<1>6. Unique(s) => Unique(t)
  BY <1>1, <1>2, <1>4 DEF Unique
<1> QED
  BY <1>4, <1>5, <1>6
-----------------------------------------------------------------------------
\* Nothing is under way at first.
LEMMA InitHolds == Init => IInv
<1> SUFFICES ASSUME Init PROVE IInv
  OBVIOUS
<1>1. Offered = {} /\ KeysOf(<<>>) = {} /\ ToSet(<<>>) = {} /\ Unique(<<>>)
  BY DEF Init, Offered, KeysOf, ToSet, Unique
<1>2. Shapes
  BY PipelineAssumption DEF Init, Shapes
<1>3. PendingIsInFlight /\ OnePlace /\ ResultsAreCompleted /\ OwedArePending
  BY <1>1 DEF Init, PendingIsInFlight, InFlight, OnePlace, ResultsAreCompleted, Completed,
              OwedArePending, Unpublished
<1> QED
  BY <1>2, <1>3 DEF IInv

\* The offered keys after an offerer has changed what it offers.
LEMMA OfferedAfter ==
    ASSUME Shapes, NEW o \in Offerers, NEW x \in Requests \cup {NoRequest},
           offering' = [offering EXCEPT ![o] = x]
    PROVE  /\ offering' \in [Offerers -> Requests \cup {NoRequest}]
           /\ \A p \in Offerers : offering'[p] = IF p = o THEN x ELSE offering[p]
           /\ Offered' = {offering[p].key : p \in {q \in Offerers \ {o} : offering[q] # NoRequest}}
                         \cup (IF x = NoRequest THEN {} ELSE {x.key})
           /\ Offered = {offering[p].key : p \in {q \in Offerers \ {o} : offering[q] # NoRequest}}
                        \cup (IF offering[o] = NoRequest THEN {} ELSE {offering[o].key})
<1>1. /\ offering' \in [Offerers -> Requests \cup {NoRequest}]
      /\ \A p \in Offerers : offering'[p] = IF p = o THEN x ELSE offering[p]
  BY DEF Shapes
<1> QED
  BY <1>1 DEF Offered

\* A fresh key gets its one place with the offerer.
LEMMA OfferBeginsKeeps ==
    ASSUME IInv, NEW o \in Offerers, OfferBegins(o)
    PROVE  IInv'
<1> USE DEF IInv
<1>1. PICK r \in Requests :
        /\ Fresh(r) /\ offering[o] = NoRequest
        /\ offering' = [offering EXCEPT ![o] = r]
        /\ pending' = pending \cup {r.key}
  BY DEF OfferBegins
<1>2. UNCHANGED <<queue, recent, canceled, worker, batch, results, consumer, owed>>
  BY DEF OfferBegins
<1>3. r # NoRequest /\ r.key \notin pending /\ r.key \notin ToSet(recent)
  BY <1>1, PipelineAssumption DEF Fresh
<1>4. /\ offering' \in [Offerers -> Requests \cup {NoRequest}]
      /\ \A p \in Offerers : offering'[p] = IF p = o THEN r ELSE offering[p]
      /\ Offered' = Offered \cup {r.key}
  BY <1>1, <1>3, OfferedAfter
<1>5. /\ KeysOf(queue)' = KeysOf(queue) /\ KeysOf(batch)' = KeysOf(batch)
      /\ KeysOf(Unpublished)' = KeysOf(Unpublished) /\ Completed' = Completed
  BY <1>2 DEF KeysOf, Unpublished, Completed
<1>6. r.key \notin InFlight
  BY <1>3 DEF PendingIsInFlight
<1>7. Shapes'
  BY <1>2, <1>4 DEF Shapes
<1>8. PendingIsInFlight'
  BY <1>1, <1>2, <1>4, <1>5 DEF PendingIsInFlight, InFlight
<1>9. OnePlace'
  <2>1. \A p \in Offerers : offering[p] # NoRequest => offering[p].key # r.key
    BY <1>6 DEF InFlight, Offered
  <2>2. \A p, q \in Offerers : offering'[p] # NoRequest /\ offering'[q] # NoRequest
                                /\ offering'[p].key = offering'[q].key => p = q
    BY <1>4, <2>1 DEF OnePlace
  <2>3. Offered' \cap (KeysOf(queue) \cup KeysOf(batch))' = {}
    BY <1>4, <1>5, <1>6 DEF OnePlace, InFlight
  <2> QED
    BY <1>2, <1>5, <2>2, <2>3 DEF OnePlace, Unique
<1>10. ResultsAreCompleted'
  BY <1>1, <1>2, <1>3, <1>5 DEF ResultsAreCompleted, ToSet
<1>11. OwedArePending'
  BY <1>1, <1>2, <1>3, <1>4, <1>5 DEF OwedArePending
<1> QED
  BY <1>7, <1>8, <1>9, <1>10, <1>11

\* The key moves to the queue.
LEMMA OfferAcceptedKeeps ==
    ASSUME IInv, NEW o \in Offerers, OfferAccepted(o)
    PROVE  IInv'
<1> USE DEF IInv
<1> DEFINE r == offering[o]
           others == {offering[p].key : p \in {q \in Offerers \ {o} : offering[q] # NoRequest}}
<1>1. /\ r # NoRequest /\ r \in Requests /\ Len(queue) < Capacity
      /\ queue' = Append(queue, r)
      /\ owed' = owed \cup {r.key}
      /\ offering' = [offering EXCEPT ![o] = NoRequest]
      /\ UNCHANGED <<pending, recent, canceled, worker, batch, results, consumer>>
  BY DEF OfferAccepted, Shapes
<1>2. /\ offering' \in [Offerers -> Requests \cup {NoRequest}]
      /\ \A p \in Offerers : offering'[p] = IF p = o THEN NoRequest ELSE offering[p]
      /\ Offered' = others /\ Offered = others \cup {r.key}
  BY <1>1, OfferedAfter
<1>3. r.key \notin others
  BY <1>1 DEF OnePlace
<1>4. r.key \notin KeysOf(queue) /\ r.key \notin KeysOf(batch)
  BY <1>2 DEF OnePlace
<1>5. /\ queue' \in Seq(Requests) /\ Len(queue') = Len(queue) + 1
      /\ KeysOf(queue)' = KeysOf(queue) \cup {r.key} /\ Unique(queue)'
  <2>1. queue \in Seq(Requests) /\ Unique(queue) /\ r \in Requests
    BY <1>1 DEF Shapes, OnePlace
  <2> HIDE DEF r
  <2>2. /\ queue' \in Seq(Requests) /\ Len(queue') = Len(queue) + 1
        /\ KeysOf(queue') = KeysOf(queue) \cup {r.key} /\ Unique(queue')
    BY <1>1, <1>4, <2>1, AppendRequest
  <2> QED
    BY <2>2 DEF KeysOf, Unique
<1>6. /\ KeysOf(batch)' = KeysOf(batch)
      /\ KeysOf(Unpublished)' = KeysOf(Unpublished) /\ Completed' = Completed
  BY <1>1 DEF KeysOf, Unpublished, Completed
<1> HIDE DEF r, others
<1>7. Shapes'
  BY <1>1, <1>2, <1>5, PipelineAssumption DEF Shapes
<1>8. PendingIsInFlight'
  BY <1>1, <1>2, <1>5, <1>6 DEF PendingIsInFlight, InFlight
<1>9. OnePlace'
  <2>1. Unique(batch)'
    BY <1>1 DEF OnePlace, Unique
  <2>2. KeysOf(queue)' \cap KeysOf(batch)' = {}
        /\ Offered' \cap (KeysOf(queue)' \cup KeysOf(batch)') = {}
    BY <1>2, <1>3, <1>4, <1>5, <1>6 DEF OnePlace
  <2>3. \A p, q \in Offerers : offering'[p] # NoRequest /\ offering'[q] # NoRequest
                                /\ offering'[p].key = offering'[q].key => p = q
    BY <1>2 DEF OnePlace
  <2> QED
    BY <1>5, <2>1, <2>2, <2>3 DEF OnePlace
<1>10. ResultsAreCompleted'
  BY <1>1, <1>6 DEF ResultsAreCompleted, ToSet
<1>11. OwedArePending'
  <2>1. r.key \in pending
    BY <1>2 DEF PendingIsInFlight, InFlight
  <2>2. worker = "remembering" => Head(batch).key \in KeysOf(batch)
    BY TakeRequest DEF Shapes
  <2> QED
    BY <1>1, <1>2, <1>3, <1>4, <1>5, <1>6, <2>1, <2>2 DEF OwedArePending
<1> QED
  BY <1>7, <1>8, <1>9, <1>10, <1>11

\* A dropped key is pending no more; it was nowhere else.
LEMMA OfferDroppedKeeps ==
    ASSUME IInv, NEW o \in Offerers, OfferDropped(o)
    PROVE  IInv'
<1> USE DEF IInv
<1> DEFINE r == offering[o]
           others == {offering[p].key : p \in {q \in Offerers \ {o} : offering[q] # NoRequest}}
<1>1. /\ r # NoRequest /\ r \in Requests
      /\ pending' = pending \ {r.key}
      /\ offering' = [offering EXCEPT ![o] = NoRequest]
      /\ UNCHANGED <<queue, recent, canceled, worker, batch, results, consumer, owed>>
  BY DEF OfferDropped, Shapes
<1>2. /\ offering' \in [Offerers -> Requests \cup {NoRequest}]
      /\ \A p \in Offerers : offering'[p] = IF p = o THEN NoRequest ELSE offering[p]
      /\ Offered' = others /\ Offered = others \cup {r.key}
  BY <1>1, OfferedAfter
<1>3. r.key \notin others
  BY <1>1 DEF OnePlace
<1>4. r.key \notin KeysOf(queue) /\ r.key \notin KeysOf(batch) /\ r.key \notin owed
  BY <1>2 DEF OnePlace, OwedArePending
<1>5. /\ KeysOf(queue)' = KeysOf(queue) /\ KeysOf(batch)' = KeysOf(batch)
      /\ KeysOf(Unpublished)' = KeysOf(Unpublished) /\ Completed' = Completed
  BY <1>1 DEF KeysOf, Unpublished, Completed
<1> HIDE DEF r, others
<1>6. Shapes'
  BY <1>1, <1>2 DEF Shapes
<1>7. PendingIsInFlight'
  BY <1>1, <1>2, <1>3, <1>4, <1>5 DEF PendingIsInFlight, InFlight
<1>8. OnePlace'
  <2>1. Unique(queue)' /\ Unique(batch)'
    BY <1>1 DEF OnePlace, Unique
  <2>2. KeysOf(queue)' \cap KeysOf(batch)' = {}
        /\ Offered' \cap (KeysOf(queue)' \cup KeysOf(batch)') = {}
    BY <1>2, <1>5 DEF OnePlace
  <2>3. \A p, q \in Offerers : offering'[p] # NoRequest /\ offering'[q] # NoRequest
                                /\ offering'[p].key = offering'[q].key => p = q
    BY <1>2 DEF OnePlace
  <2> QED
    BY <2>1, <2>2, <2>3 DEF OnePlace
<1>9. ResultsAreCompleted'
  BY <1>1, <1>5 DEF ResultsAreCompleted, ToSet
<1>10. OwedArePending'
  BY <1>1, <1>2, <1>4, <1>5 DEF OwedArePending
<1> QED
  BY <1>6, <1>7, <1>8, <1>9, <1>10

\* A key moves from the queue to the batch.
LEMMA TakeKeeps == IInv /\ Take => IInv'
<1> SUFFICES ASSUME IInv, Take PROVE IInv'
  OBVIOUS
<1> USE DEF IInv
<1> DEFINE r == Head(queue)
<1>1. /\ worker \in {"idle", "collecting"} /\ worker' = "collecting"
      /\ Len(batch) < BatchSize /\ queue # <<>>
      /\ batch' = Append(batch, r) /\ queue' = Tail(queue)
      /\ UNCHANGED <<offering, pending, recent, canceled, results, consumer, owed>>
  BY DEF Take
<1>2. /\ r \in Requests /\ queue' \in Seq(Requests) /\ Len(queue') = Len(queue) - 1
      /\ Len(queue) \in Nat \ {0}
      /\ KeysOf(queue) = {r.key} \cup KeysOf(queue') /\ Unique(queue')
      /\ r.key \notin KeysOf(queue')
  BY <1>1, TakeRequest DEF Shapes, OnePlace
<1> HIDE DEF r
<1>3. r.key \notin KeysOf(batch)
  BY <1>2 DEF OnePlace
<1>4. /\ batch' \in Seq(Requests) /\ Len(batch') = Len(batch) + 1
      /\ KeysOf(batch') = KeysOf(batch) \cup {r.key} /\ Unique(batch')
  BY <1>1, <1>2, <1>3, AppendRequest DEF Shapes, OnePlace
<1>5. Offered' = Offered /\ Unpublished = batch /\ Unpublished' = batch' /\ Completed' = Completed
  BY <1>1 DEF Offered, Unpublished, Completed
<1>6. Shapes'
  BY <1>1, <1>2, <1>4, PipelineAssumption DEF Shapes
<1>7. InFlight' = InFlight
  BY <1>2, <1>4, <1>5 DEF InFlight
<1>8. PendingIsInFlight'
  BY <1>1, <1>7 DEF PendingIsInFlight
<1>9. OnePlace'
  BY <1>1, <1>2, <1>3, <1>4, <1>5 DEF OnePlace
<1>10. ResultsAreCompleted'
  BY <1>1, <1>5 DEF ResultsAreCompleted, ToSet
<1>11. OwedArePending'
  BY <1>1, <1>2, <1>4, <1>5 DEF OwedArePending
<1> QED
  BY <1>6, <1>8, <1>9, <1>10, <1>11

\* The batch is put in the order it is published in.
LEMMA ProcessKeeps == IInv /\ Process => IInv'
<1> SUFFICES ASSUME IInv, Process PROVE IInv'
  OBVIOUS
<1> USE DEF IInv
<1>1. /\ worker = "collecting" /\ worker' = "publishing"
      /\ batch' \in PublishOrders(batch)
      /\ UNCHANGED <<offering, queue, pending, recent, canceled, results, consumer, owed>>
  BY DEF Process
<1>2. /\ batch' \in Seq(Requests) /\ Len(batch') = Len(batch)
      /\ KeysOf(batch') = KeysOf(batch) /\ Unique(batch')
  BY <1>1, OrdersArePermutations DEF Shapes, OnePlace
<1>3. Offered' = Offered /\ Unpublished = batch /\ Unpublished' = batch' /\ Completed' = Completed
  BY <1>1 DEF Offered, Unpublished, Completed
<1>4. Shapes'
  BY <1>1, <1>2 DEF Shapes
<1>5. PendingIsInFlight'
  BY <1>1, <1>2, <1>3 DEF PendingIsInFlight, InFlight
<1>6. OnePlace'
  BY <1>1, <1>2, <1>3 DEF OnePlace
<1>7. ResultsAreCompleted'
  BY <1>1, <1>3 DEF ResultsAreCompleted, ToSet
<1>8. OwedArePending'
  BY <1>1, <1>2, <1>3 DEF OwedArePending
<1> QED
  BY <1>4, <1>5, <1>6, <1>7, <1>8

\* The result of the first request goes to the channel: its key is completed
\* and owed no more, but pending until it is remembered.
LEMMA PublishKeeps == IInv /\ Publish => IInv'
<1> SUFFICES ASSUME IInv, Publish PROVE IInv'
  OBVIOUS
<1> USE DEF IInv
<1> DEFINE k == Head(batch).key
<1>1. /\ worker = "publishing" /\ worker' = "remembering" /\ batch # <<>>
      /\ Len(results) < 2 * Capacity
      /\ results' = Append(results, k) /\ owed' = owed \ {k}
      /\ UNCHANGED <<offering, queue, pending, recent, canceled, batch, consumer>>
  BY DEF Publish
<1>2. /\ Head(batch) \in Requests /\ k \in Keys
      /\ KeysOf(batch) = {k} \cup KeysOf(Tail(batch)) /\ k \notin KeysOf(Tail(batch))
  BY <1>1, TakeRequest DEF Shapes, OnePlace, Keys
<1>3. /\ Offered' = Offered /\ Unpublished = batch /\ Unpublished' = Tail(batch)
      /\ Completed = recent /\ Completed' = Append(recent, k)
  BY <1>1 DEF Offered, Unpublished, Completed
<1>4. k \in pending /\ k \notin KeysOf(queue)
  BY <1>2 DEF PendingIsInFlight, InFlight, OnePlace
<1>5. Head(batch').key = k
  BY <1>1
<1> HIDE DEF k
<1>6. Shapes'
  BY <1>1, <1>2, PipelineAssumption DEF Shapes
<1>7. PendingIsInFlight'
  BY <1>1, <1>3 DEF PendingIsInFlight, InFlight
<1>8. OnePlace'
  BY <1>1, <1>3 DEF OnePlace
<1>9. ResultsAreCompleted'
  <2>1. /\ recent \in Seq(Keys) /\ results \in Seq(Keys)
        /\ Len(results) <= Len(recent)
        /\ \A i \in DOMAIN results : results[i] = recent[Len(recent) - Len(results) + i]
    BY <1>3 DEF Shapes, ResultsAreCompleted
  <2>2. /\ Len(results') = Len(results) + 1 /\ Len(Completed') = Len(recent) + 1
        /\ Len(results) \in Nat /\ Len(recent) \in Nat
        /\ DOMAIN results' = 1..Len(results) + 1 /\ DOMAIN results = 1..Len(results)
        /\ \A i \in 1..Len(results) : results'[i] = results[i]
        /\ results'[Len(results) + 1] = k
        /\ \A i \in 1..Len(recent) : Completed'[i] = recent[i]
        /\ Completed'[Len(recent) + 1] = k
    BY <1>1, <1>2, <1>3, <2>1
  <2>3. \A i \in DOMAIN results' :
           results'[i] = Completed'[Len(Completed') - Len(results') + i]
    <3> TAKE i \in DOMAIN results'
    <3>1. CASE i = Len(results) + 1
      BY <2>2, <3>1
    <3>2. CASE i # Len(results) + 1
      <4>1. i \in 1..Len(results) /\ Len(recent) - Len(results) + i \in 1..Len(recent)
        BY <2>1, <2>2, <3>2
      <4>2. Len(Completed') - Len(results') + i = Len(recent) - Len(results) + i
        BY <2>2, <4>1
      <4> QED
        BY <2>1, <2>2, <4>1, <4>2
    <3> QED
      BY <3>1, <3>2
  <2>4. Len(results') <= Len(Completed')
    BY <2>1, <2>2
  <2> QED
    BY <1>1, <2>3, <2>4 DEF ResultsAreCompleted, ToSet
<1>10. OwedArePending'
  BY <1>1, <1>2, <1>3, <1>4, <1>5 DEF OwedArePending
<1> QED
  BY <1>6, <1>7, <1>8, <1>9, <1>10

\* The completed keys, remembered: the oldest makes room, and there is room
\* enough for every result that waits.
LEMMA RememberKeeps == IInv /\ Remember => IInv'
<1> SUFFICES ASSUME IInv, Remember PROVE IInv'
  OBVIOUS
<1> USE DEF IInv
<1> DEFINE k == Head(batch).key
           all == Append(recent, k)
<1>1. /\ worker = "remembering" /\ worker' = "publishing"
      /\ pending' = pending \ {k} /\ recent' = Remembered(k) /\ batch' = Tail(batch)
      /\ UNCHANGED <<offering, queue, canceled, results, consumer, owed>>
  BY DEF Remember
<1>2. batch # <<>> /\ batch \in Seq(Requests)
  BY <1>1 DEF Shapes
<1>3. /\ Head(batch) \in Requests /\ k \in Keys
      /\ Tail(batch) \in Seq(Requests) /\ Len(Tail(batch)) = Len(batch) - 1
      /\ Len(batch) \in Nat \ {0}
      /\ KeysOf(batch) = {k} \cup KeysOf(Tail(batch)) /\ k \notin KeysOf(Tail(batch))
      /\ Unique(Tail(batch))
  BY <1>2, TakeRequest DEF OnePlace, Keys
<1>4. k \in pending /\ k \notin KeysOf(queue) /\ k \notin Offered
  BY <1>3 DEF PendingIsInFlight, InFlight, OnePlace
<1>5. k \notin ToSet(recent)
  BY <1>4 DEF ResultsAreCompleted
<1>6. recent' = IF Len(all) <= MaxRecent THEN all ELSE Tail(all)
  BY <1>1, <1>5 DEF Remembered
<1>7. /\ Offered' = Offered /\ Unpublished = Tail(batch) /\ Unpublished' = Tail(batch)
      /\ Completed = all /\ Completed' = recent'
  BY <1>1 DEF Offered, Unpublished, Completed
<1>8. k \notin owed
  BY <1>1 DEF OwedArePending
<1> HIDE DEF k
<1>9. /\ all \in Seq(Keys) /\ Len(all) = Len(recent) + 1 /\ Len(recent) \in Nat
      /\ Len(recent) <= MaxRecent
      /\ \A i \in 1..Len(recent) : all[i] = recent[i]
      /\ all[Len(recent) + 1] = k
      /\ DOMAIN recent = 1..Len(recent) /\ DOMAIN all = 1..Len(recent) + 1
  BY <1>3 DEF Shapes
<1>10. \A i, j \in 1..Len(all) : all[i] = all[j] => i = j
  <2>1. \A i \in 1..Len(recent) : recent[i] # k
    BY <1>5, <1>9 DEF ToSet
  <2> HIDE DEF all
  <2> QED
    BY <1>9, <2>1 DEF ResultsAreCompleted
<1>11. PICK d \in {0, 1} :
         /\ recent' \in Seq(Keys) /\ Len(recent') = Len(all) - d /\ Len(recent') <= MaxRecent
         /\ \A i \in 1..Len(all) - d : recent'[i] = all[i + d]
         /\ d = 1 => Len(all) = MaxRecent + 1
  <2>1. CASE Len(all) <= MaxRecent
    BY <1>6, <1>9, <2>1
  <2>2. CASE ~(Len(all) <= MaxRecent)
    <3>1. Len(all) = MaxRecent + 1
      BY <1>9, <2>2, PipelineAssumption
    <3>2. all # <<>> /\ recent' = Tail(all)
      BY <1>6, <1>9, <2>2
    <3> HIDE DEF all
    <3>3. /\ recent' \in Seq(Keys) /\ Len(recent') = Len(all) - 1
          /\ \A i \in 1..Len(all) - 1 : recent'[i] = all[i + 1]
      BY <1>9, <3>2
    <3> QED
      BY <1>9, <3>1, <3>3, PipelineAssumption
  <2> QED
    BY <2>1, <2>2
<1> HIDE DEF all
<1>12. /\ DOMAIN recent' = 1..Len(all) - d /\ Len(all) \in Nat
       /\ d \in Nat /\ d <= 1 /\ Len(recent') \in Nat
  BY <1>9, <1>11
<1>13. Shapes'
  BY <1>1, <1>3, <1>11, PipelineAssumption DEF Shapes
<1>14. PendingIsInFlight'
  BY <1>1, <1>3, <1>4, <1>7 DEF PendingIsInFlight, InFlight
<1>15. OnePlace'
  BY <1>1, <1>3, <1>7 DEF OnePlace
<1>16. ResultsAreCompleted'
  <2>1. \A i \in DOMAIN recent' : i + d \in 1..Len(all) /\ recent'[i] = all[i + d]
    <3> TAKE i \in DOMAIN recent'
    <3>1. i \in 1..Len(all) - d
      BY <1>12
    <3>2. i + d \in 1..Len(all)
      BY <1>12, <3>1
    <3> QED
      BY <1>11, <3>1, <3>2
  <2>2. \A i, j \in DOMAIN recent' : recent'[i] = recent'[j] => i = j
    <3> TAKE i, j \in DOMAIN recent'
    <3>1. i \in Int /\ j \in Int /\ d \in Int
      BY <1>12
    <3> QED
      BY <1>10, <2>1, <3>1
  <2>3. ToSet(recent') \cap pending' = {}
    <3>1. \A i \in 1..Len(all) : all[i] \notin pending'
      BY <1>1, <1>9 DEF ResultsAreCompleted, ToSet
    <3> QED
      BY <2>1, <3>1 DEF ToSet
  <2>4. Len(results) \in Nat /\ DOMAIN results = 1..Len(results) /\ Len(results) <= 2 * Capacity
    BY DEF Shapes
  <2>5. Len(results) <= Len(recent')
    <3>1. Len(results) <= Len(all)
      BY <1>7 DEF ResultsAreCompleted
    <3> QED
      BY <1>11, <1>12, <2>4, <3>1, PipelineAssumption
  <2>6. \A i \in DOMAIN results : results[i] = recent'[Len(recent') - Len(results) + i]
    <3> TAKE i \in DOMAIN results
    <3> DEFINE m == Len(recent') - Len(results) + i
    <3>1. m \in DOMAIN recent' /\ m + d = Len(all) - Len(results) + i
      <4>1. i \in Nat /\ 1 <= i /\ i <= Len(results)
        BY <2>4
      <4>2. m \in 1..Len(recent') /\ Len(recent') = Len(all) - d
        BY <1>11, <1>12, <2>4, <2>5, <4>1
      <4> QED
        BY <1>12, <2>4, <4>1, <4>2
    <3> HIDE DEF m
    <3>2. results[i] = all[m + d]
      BY <1>7, <3>1 DEF ResultsAreCompleted
    <3> QED
      BY <2>1, <3>1, <3>2 DEF m
  <2> QED
    BY <1>1, <1>7, <2>2, <2>3, <2>5, <2>6 DEF ResultsAreCompleted, ToSet
<1>17. OwedArePending'
  BY <1>1, <1>3, <1>7, <1>8 DEF OwedArePending
<1> QED
  BY <1>13, <1>14, <1>15, <1>16, <1>17

\* Once it is canceled the worker gives results up; their keys stay pending.
LEMMA PublishNothingKeeps == IInv /\ PublishNothing => IInv'
<1> SUFFICES ASSUME IInv, PublishNothing PROVE IInv'
  OBVIOUS
<1> USE DEF IInv
<1>1. /\ worker = "publishing" /\ canceled /\ batch # <<>> /\ batch' = Tail(batch)
      /\ UNCHANGED <<offering, queue, pending, recent, canceled, worker, results, consumer, owed>>
  BY DEF PublishNothing
<1>2. /\ Tail(batch) \in Seq(Requests) /\ Len(Tail(batch)) = Len(batch) - 1
      /\ Len(batch) \in Nat \ {0}
      /\ KeysOf(Tail(batch)) \subseteq KeysOf(batch) /\ Unique(Tail(batch))
  BY <1>1, TakeRequest DEF Shapes, OnePlace
<1>3. /\ Offered' = Offered /\ Unpublished = batch /\ Unpublished' = Tail(batch)
      /\ Completed' = Completed
  BY <1>1 DEF Offered, Unpublished, Completed
<1>4. Shapes'
  BY <1>1, <1>2, PipelineAssumption DEF Shapes
<1>5. PendingIsInFlight'
  BY <1>1, <1>2, <1>3 DEF PendingIsInFlight, InFlight
<1>6. OnePlace'
  BY <1>1, <1>2, <1>3 DEF OnePlace
<1>7. ResultsAreCompleted'
  BY <1>1, <1>3 DEF ResultsAreCompleted, ToSet
<1>8. OwedArePending'
  BY <1>1, <1>2, <1>3 DEF OwedArePending
<1> QED
  BY <1>4, <1>5, <1>6, <1>7, <1>8

\* So do those of the requests a worker leaves with.
LEMMA WorkerLeavesKeeps == IInv /\ WorkerLeaves => IInv'
<1> SUFFICES ASSUME IInv, WorkerLeaves PROVE IInv'
  OBVIOUS
<1> USE DEF IInv
<1>1. /\ worker \in {"idle", "collecting"} /\ worker' = "done" /\ canceled /\ batch' = <<>>
      /\ UNCHANGED <<offering, queue, pending, recent, canceled, results, consumer, owed>>
  BY DEF WorkerLeaves
<1>2. /\ Offered' = Offered /\ Unpublished = batch /\ Unpublished' = <<>>
      /\ Completed' = Completed /\ KeysOf(<<>>) = {} /\ Unique(<<>>)
  BY <1>1 DEF Offered, Unpublished, Completed, KeysOf, Unique
<1>3. Shapes'
  BY <1>1, PipelineAssumption DEF Shapes
<1>4. PendingIsInFlight'
  BY <1>1, <1>2 DEF PendingIsInFlight, InFlight
<1>5. OnePlace'
  BY <1>1, <1>2 DEF OnePlace
<1>6. ResultsAreCompleted'
  BY <1>1, <1>2 DEF ResultsAreCompleted, ToSet
<1>7. OwedArePending'
  BY <1>1, <1>2 DEF OwedArePending
<1> QED
  BY <1>3, <1>4, <1>5, <1>6, <1>7

\* The consumer takes the oldest result.
LEMMA ConsumeKeeps == IInv /\ Consume => IInv'
<1> SUFFICES ASSUME IInv, Consume PROVE IInv'
  OBVIOUS
<1> USE DEF IInv
<1>1. /\ results # <<>> /\ results' = Tail(results)
      /\ UNCHANGED <<offering, queue, pending, recent, canceled, worker, batch, consumer, owed>>
  BY DEF Consume
<1>2. /\ results' \in Seq(Keys) /\ Len(results') = Len(results) - 1
      /\ Len(results) \in Nat \ {0} /\ DOMAIN results = 1..Len(results)
      /\ DOMAIN results' = 1..Len(results) - 1
      /\ \A i \in 1..Len(results) - 1 : results'[i] = results[i + 1]
  BY <1>1 DEF Shapes
<1>3. Offered' = Offered /\ Unpublished' = Unpublished /\ Completed' = Completed
  BY <1>1 DEF Offered, Unpublished, Completed
<1>4. Shapes'
  BY <1>1, <1>2, PipelineAssumption DEF Shapes
<1>5. PendingIsInFlight' /\ OnePlace' /\ OwedArePending'
  BY <1>1, <1>3 DEF PendingIsInFlight, InFlight, OnePlace, OwedArePending
<1>6. ResultsAreCompleted'
  <2>1. Len(Completed) \in Nat
    BY DEF ResultsAreCompleted, Completed, Shapes
  <2>2. Len(results') <= Len(Completed')
    BY <1>2, <1>3, <2>1 DEF ResultsAreCompleted
  <2>3. \A i \in DOMAIN results' :
           results'[i] = Completed'[Len(Completed') - Len(results') + i]
    <3> TAKE i \in DOMAIN results'
    <3>1. i \in Nat /\ i + 1 \in DOMAIN results /\ results'[i] = results[i + 1]
      BY <1>2
    <3>2. Len(Completed) - Len(results) + (i + 1) = Len(Completed') - Len(results') + i
      BY <1>2, <1>3, <2>1, <3>1
    <3> QED
      BY <1>3, <3>1, <3>2 DEF ResultsAreCompleted
  <2> QED
    BY <1>1, <2>2, <2>3 DEF ResultsAreCompleted, ToSet
<1> QED
  BY <1>4, <1>5, <1>6

\* IInv is inductive.
LEMMA NextKeeps == IInv /\ [Next]_vars => IInv'
<1> SUFFICES ASSUME IInv, [Next]_vars PROVE IInv'
  OBVIOUS
<1>1. ASSUME NEW o \in Offerers, OfferBegins(o) \/ OfferEnds(o)
      PROVE  IInv'
  BY <1>1, OfferBeginsKeeps, OfferAcceptedKeeps, OfferDroppedKeeps DEF OfferEnds
<1>2. CASE BatchPublished
  <2>1. /\ worker = "publishing" /\ worker' = "idle"
        /\ UNCHANGED <<offering, queue, pending, recent, canceled, batch, results, consumer, owed>>
    BY <1>2 DEF BatchPublished
  <2>2. Offered' = Offered /\ Unpublished' = Unpublished /\ Completed' = Completed
    BY <2>1 DEF Offered, Unpublished, Completed
  <2> QED
    BY <2>1, <2>2 DEF IInv, Shapes, PendingIsInFlight, InFlight, OnePlace, ResultsAreCompleted,
                      OwedArePending, ToSet
<1>3. CASE Cancel \/ ConsumerLeaves \/ UNCHANGED vars
  <2>1. /\ UNCHANGED <<offering, queue, pending, recent, worker, batch, results, owed>>
        /\ canceled => canceled'
    BY <1>3 DEF Cancel, ConsumerLeaves, vars
  <2>2. Offered' = Offered /\ Unpublished' = Unpublished /\ Completed' = Completed
    BY <2>1 DEF Offered, Unpublished, Completed
  <2>3. InFlight' = InFlight /\ (~canceled' => pending' = pending /\ ~canceled)
    BY <2>1, <2>2 DEF InFlight
  <2> QED
    BY <2>1, <2>2, <2>3 DEF IInv, Shapes, PendingIsInFlight, OnePlace, ResultsAreCompleted,
                            OwedArePending, ToSet
<1> QED
  BY <1>1, <1>2, <1>3, TakeKeeps, ProcessKeeps, PublishKeeps, RememberKeeps, PublishNothingKeeps,
     WorkerLeavesKeeps, ConsumeKeeps DEF Next, WorkerStep, ConsumerStep

\* IInv holds in every reachable state.
LEMMA Invariance == Spec => []IInv
BY InitHolds, NextKeeps, PTL DEF Spec
-----------------------------------------------------------------------------
\* Whatever callers, the worker and a close do, the queues and the memory of
\* completed keys keep to their bounds.
THEOREM PipelineTypeCorrect == Spec => []TypeOK
<1>1. IInv => TypeOK
  BY DEF IInv, Shapes, TypeOK
<1> QED
  BY <1>1, Invariance, PTL

\* No key leaks: until the close, pending is what somebody works on.
THEOREM PendingAlwaysInFlight == Spec => []PendingIsInFlight
BY Invariance, PTL DEF IInv

\* The results that wait are of different keys, and of keys nobody works on.
LEMMA ResultsAreApart ==
    ASSUME IInv
    PROVE  /\ \A i, j \in DOMAIN results : results[i] = results[j] => i = j
           /\ ToSet(results) \cap (owed \cup Offered \cup KeysOf(queue) \cup KeysOf(Unpublished)) = {}
<1> USE DEF IInv
<1> DEFINE busy == owed \cup Offered \cup KeysOf(queue) \cup KeysOf(Unpublished)
<1>1. /\ recent \in Seq(Keys) /\ DOMAIN recent = 1..Len(recent) /\ Len(recent) \in Nat
      /\ results \in Seq(Keys) /\ DOMAIN results = 1..Len(results) /\ Len(results) \in Nat
  BY DEF Shapes
<1>2. /\ Len(Completed) \in Nat
      /\ \A i, j \in 1..Len(Completed) : Completed[i] = Completed[j] => i = j
      /\ \A i \in 1..Len(Completed) : Completed[i] \notin busy
  <2>1. CASE worker # "remembering"
    <3>1. Completed = recent /\ Unpublished = batch
      BY <2>1 DEF Completed, Unpublished
    <3>2. busy \subseteq pending
      BY <3>1 DEF PendingIsInFlight, InFlight, OwedArePending
    <3> QED
      BY <1>1, <3>1, <3>2, SMTT(30) DEF ResultsAreCompleted, ToSet
  <2>2. CASE worker = "remembering"
    <3> DEFINE k == Head(batch).key
    <3>1. batch \in Seq(Requests) /\ batch # <<>> /\ Unique(batch)
      BY <2>2 DEF Shapes, OnePlace
    <3>2. /\ k \in Keys /\ KeysOf(batch) = {k} \cup KeysOf(Tail(batch))
          /\ k \notin KeysOf(Tail(batch))
      BY <3>1, TakeRequest DEF Keys
    <3>3. Completed = Append(recent, k) /\ Unpublished = Tail(batch)
      BY <2>2 DEF Completed, Unpublished
    <3>4. busy \subseteq pending /\ k \in pending
      BY <3>2, <3>3 DEF PendingIsInFlight, InFlight, OwedArePending
    <3>5. k \notin busy
      BY <2>2, <3>2, <3>3 DEF OnePlace, OwedArePending
    <3> HIDE DEF k
    <3>6. /\ Len(Completed) = Len(recent) + 1 /\ Completed[Len(recent) + 1] = k
          /\ \A i \in 1..Len(recent) : Completed[i] = recent[i]
      BY <1>1, <3>2, <3>3
    <3>7. \A i \in 1..Len(recent) : recent[i] \notin pending
      BY <1>1 DEF ResultsAreCompleted, ToSet
    <3>8. \A i \in 1..Len(recent) + 1 : i = Len(recent) + 1 \/ i \in 1..Len(recent)
      BY <1>1
    <3>9. \A i, j \in 1..Len(recent) : recent[i] = recent[j] => i = j
      BY <1>1 DEF ResultsAreCompleted
    <3>10. \A i \in 1..Len(recent) : recent[i] # k
      BY <3>4, <3>7
    <3> HIDE DEF busy
    <3>11. \A i \in 1..Len(Completed) : Completed[i] \notin busy
      BY <3>4, <3>5, <3>6, <3>7, <3>8
    <3>12. \A i, j \in 1..Len(Completed) : Completed[i] = Completed[j] => i = j
      BY <3>6, <3>8, <3>9, <3>10
    <3> QED
      BY <1>1, <3>6, <3>11, <3>12
  <2> QED
    BY <2>1, <2>2
<1> DEFINE n == Len(Completed) - Len(results)
<1>3. /\ n \in Nat
      /\ \A i \in 1..Len(results) : n + i \in 1..Len(Completed) /\ results[i] = Completed[n + i]
  <2>1. Len(results) <= Len(Completed)
    BY DEF ResultsAreCompleted
  <2>2. n \in Nat /\ \A i \in 1..Len(results) : n + i \in 1..Len(Completed)
    BY <1>1, <1>2, <2>1
  <2>3. \A i \in 1..Len(results) : results[i] = Completed[n + i]
    BY <1>1 DEF ResultsAreCompleted
  <2> QED
    BY <2>2, <2>3
<1> HIDE DEF n, busy
<1>4. \A i, j \in 1..Len(results) : results[i] = results[j] => i = j
  <2> TAKE i, j \in 1..Len(results)
  <2>1. i \in Nat /\ j \in Nat /\ (n + i = n + j => i = j)
    BY <1>3
  <2> QED
    BY <1>2, <1>3, <2>1
<1>5. ToSet(results) \cap busy = {}
  BY <1>1, <1>2, <1>3 DEF ToSet
<1> QED
  BY <1>1, <1>4, <1>5 DEF busy

\* Two sequences without a repetition and without a common element.
LEMMA ConcatIsUnique ==
    ASSUME NEW S, NEW s \in Seq(S), NEW t \in Seq(S),
           \A i, j \in DOMAIN s : s[i] = s[j] => i = j,
           \A i, j \in DOMAIN t : t[i] = t[j] => i = j,
           ToSet(s) \cap ToSet(t) = {}
    PROVE  /\ s \o t \in Seq(S) /\ ToSet(s \o t) = ToSet(s) \cup ToSet(t)
           /\ \A i, j \in DOMAIN (s \o t) : (s \o t)[i] = (s \o t)[j] => i = j
<1> DEFINE u == s \o t
<1>1. /\ u \in Seq(S) /\ Len(u) = Len(s) + Len(t) /\ Len(s) \in Nat /\ Len(t) \in Nat
      /\ DOMAIN u = 1..Len(s) + Len(t) /\ DOMAIN s = 1..Len(s) /\ DOMAIN t = 1..Len(t)
      /\ \A i \in 1..Len(s) : u[i] = s[i]
      /\ \A i \in 1..Len(t) : u[Len(s) + i] = t[i]
  OBVIOUS
<1> HIDE DEF u
<1>2. \A i \in DOMAIN u : \/ i \in DOMAIN s /\ u[i] = s[i]
                          \/ i - Len(s) \in DOMAIN t /\ u[i] = t[i - Len(s)]
  <2> TAKE i \in DOMAIN u
  <2>1. CASE i <= Len(s)
    BY <1>1, <2>1
  <2>2. CASE ~(i <= Len(s))
    <3>1. i - Len(s) \in 1..Len(t) /\ Len(s) + (i - Len(s)) = i
      BY <1>1, <2>2
    <3> QED
      BY <1>1, <3>1
  <2> QED
    BY <2>1, <2>2
<1>3. ToSet(u) = ToSet(s) \cup ToSet(t)
  <2>1. \A i \in DOMAIN s : i \in DOMAIN u /\ u[i] = s[i]
    BY <1>1
  <2>2. \A i \in DOMAIN t : Len(s) + i \in DOMAIN u /\ u[Len(s) + i] = t[i]
    BY <1>1
  <2> QED
    BY <1>2, <2>1, <2>2 DEF ToSet
<1>4. \A i, j \in DOMAIN u : u[i] = u[j] => i = j
  <2> TAKE i, j \in DOMAIN u
  <2>1. i \in Nat /\ j \in Nat /\ (i - Len(s) = j - Len(s) => i = j)
    BY <1>1
  <2>2. \A a \in DOMAIN s, b \in DOMAIN t : s[a] # t[b]
    BY DEF ToSet
  <2> QED
    BY <1>2, <2>1, <2>2
<1> QED
  BY <1>1, <1>3, <1>4 DEF u

\* The keys of a sequence of requests, as a sequence.
LEMMA KeySequence ==
    ASSUME NEW s \in Seq(Requests), Unique(s)
    PROVE  LET k == [i \in DOMAIN s |-> s[i].key]
           IN  /\ k \in Seq(Keys) /\ ToSet(k) = KeysOf(s)
               /\ \A i, j \in DOMAIN k : k[i] = k[j] => i = j
<1>1. \A i \in DOMAIN s : s[i].key \in Keys
  BY DEF Keys
<1>2. DOMAIN s = 1..Len(s) /\ Len(s) \in Nat
  OBVIOUS
<1> QED
  BY <1>1, <1>2 DEF Unique, ToSet, KeysOf

\* No result waits and no request is worked on with a key somebody else has.
THEOREM WorkAlwaysUnique == Spec => []WorkIsUnique
<1>1. ASSUME IInv PROVE WorkIsUnique
  <2> DEFINE Q == [i \in DOMAIN queue |-> queue[i].key]
             U == [i \in DOMAIN Unpublished |-> Unpublished[i].key]
  <2>1. Unpublished \in Seq(Requests) /\ Unique(Unpublished) /\ KeysOf(Unpublished) \subseteq KeysOf(batch)
    BY <1>1, TakeRequest DEF IInv, Shapes, OnePlace, Unpublished
  <2>2. queue \in Seq(Requests) /\ Unique(queue) /\ results \in Seq(Keys)
    BY <1>1 DEF IInv, Shapes, OnePlace
  <2>3. /\ Q \in Seq(Keys) /\ ToSet(Q) = KeysOf(queue)
        /\ \A i, j \in DOMAIN Q : Q[i] = Q[j] => i = j
    BY <2>2, KeySequence
  <2>4. /\ U \in Seq(Keys) /\ ToSet(U) = KeysOf(Unpublished)
        /\ \A i, j \in DOMAIN U : U[i] = U[j] => i = j
    BY <2>1, KeySequence
  <2>5. KeysOf(queue) \cap KeysOf(Unpublished) = {}
    BY <1>1, <2>1 DEF IInv, OnePlace
  <2>6. WorkIsUnique <=>
          LET work == results \o Q \o U
          IN  /\ \A i, j \in DOMAIN work : work[i] = work[j] => i = j
              /\ Offered \cap ToSet(work) = {}
              /\ \A o, p \in Offerers :
                   offering[o] # NoRequest /\ offering[p] # NoRequest
                   /\ offering[o].key = offering[p].key => o = p
    BY DEF WorkIsUnique, Unpublished
  <2> HIDE DEF Q, U
  <2>7. /\ results \o Q \in Seq(Keys)
        /\ ToSet(results \o Q) = ToSet(results) \cup ToSet(Q)
        /\ \A i, j \in DOMAIN (results \o Q) : (results \o Q)[i] = (results \o Q)[j] => i = j
    BY <1>1, <2>2, <2>3, ResultsAreApart, ConcatIsUnique
  <2> DEFINE R == results \o Q
  <2> HIDE DEF R
  <2>8. /\ R \in Seq(Keys) /\ ToSet(R) \cap ToSet(U) = {}
        /\ \A i, j \in DOMAIN R : R[i] = R[j] => i = j
    BY <1>1, <2>3, <2>4, <2>5, <2>7, ResultsAreApart DEF R
  <2>9. /\ ToSet(R \o U) = ToSet(R) \cup ToSet(U)
        /\ \A i, j \in DOMAIN (R \o U) : (R \o U)[i] = (R \o U)[j] => i = j
    BY <2>4, <2>8, ConcatIsUnique
  <2>10. Offered \cap ToSet(R \o U) = {}
    BY <1>1, <2>1, <2>3, <2>4, <2>7, <2>9, ResultsAreApart DEF R, IInv, OnePlace
  <2>11. \A o, p \in Offerers : offering[o] # NoRequest /\ offering[p] # NoRequest
                                /\ offering[o].key = offering[p].key => o = p
    BY <1>1 DEF IInv, OnePlace
  <2> QED
    BY <2>6, <2>9, <2>10, <2>11 DEF R
<1> QED
  BY <1>1, Invariance, PTL
-----------------------------------------------------------------------------
\* Every step of the pipeline is one of the service's, or none.
LEMMA StepIsAService ==
    ASSUME IInv, [Next]_vars
    PROVE  [Service!Next]_(Service!vars)
<1> DEFINE busy == owed \cup ToSet(results)
<1> USE DEF Service!Next, Service!Accept, Service!Deliver, Service!Close, Service!vars
<1>1. ASSUME NEW o \in Offerers, OfferAccepted(o)
      PROVE  Service!Next
  <2> DEFINE k == offering[o].key
  <2>1. /\ offering[o] \in Requests /\ owed' = owed \cup {k}
        /\ UNCHANGED <<results, canceled>>
    BY <1>1 DEF OfferAccepted, IInv, Shapes
  <2>2. k \in Keys /\ k \in Offered
    BY <1>1, <2>1 DEF OfferAccepted, Keys, Offered
  <2>3. k \notin busy
    BY <2>2, ResultsAreApart DEF IInv, OwedArePending
  <2>4. busy' = busy \cup {k}
    BY <2>1 DEF ToSet
  <2> QED
    BY <2>1, <2>2, <2>3, <2>4
<1>2. CASE Publish
  <2> DEFINE k == Head(batch).key
  <2>1. /\ batch # <<>> /\ Unpublished = batch
        /\ results' = Append(results, k) /\ owed' = owed \ {k} /\ UNCHANGED canceled
    BY <1>2 DEF Publish, Unpublished
  <2>2. Head(batch) \in Requests /\ k \in Keys /\ k \in owed
    BY <2>1, TakeRequest DEF IInv, Shapes, OwedArePending, Keys
  <2> HIDE DEF k
  <2>3. ToSet(results') = ToSet(results) \cup {k}
    <3>1. /\ DOMAIN results' = 1..Len(results) + 1 /\ DOMAIN results = 1..Len(results)
          /\ Len(results) \in Nat
          /\ \A i \in 1..Len(results) : results'[i] = results[i]
          /\ results'[Len(results) + 1] = k
      BY <2>1, <2>2 DEF IInv, Shapes
    <3>2. \A i \in 1..Len(results) + 1 : i \in 1..Len(results) \/ i = Len(results) + 1
      BY <3>1
    <3> QED
      BY <3>1, <3>2 DEF ToSet
  <2>4. busy' = busy
    BY <2>1, <2>2, <2>3
  <2> QED
    BY <2>1, <2>4
<1>3. CASE Consume
  <2> DEFINE k == Head(results)
  <2>1. /\ results # <<>> /\ results \in Seq(Keys)
        /\ results' = Tail(results) /\ UNCHANGED <<owed, canceled>>
    BY <1>3 DEF Consume, IInv, Shapes
  <2>2. /\ DOMAIN results' = 1..Len(results) - 1 /\ DOMAIN results = 1..Len(results)
        /\ Len(results) \in Nat \ {0} /\ k = results[1] /\ k \in Keys
        /\ \A i \in 1..Len(results) - 1 : results'[i] = results[i + 1] /\ i + 1 \in DOMAIN results
    BY <2>1
  <2>3. \A i, j \in DOMAIN results : results[i] = results[j] => i = j
    BY ResultsAreApart
  <2>4. k \in ToSet(results) /\ k \notin owed
    <3>1. k \in ToSet(results)
      BY <2>2 DEF ToSet
    <3> QED
      BY <3>1, ResultsAreApart
  <2> HIDE DEF k
  <2>5. \A i \in DOMAIN results :
           i = 1 \/ (i - 1 \in DOMAIN results' /\ results'[i - 1] = results[i])
    <3> TAKE i \in DOMAIN results
    <3>1. i = 1 \/ (i - 1 \in 1..Len(results) - 1 /\ (i - 1) + 1 = i)
      BY <2>2
    <3> QED
      BY <2>2, <3>1
  <2>6. \A i \in DOMAIN results' : results'[i] # k
    <3> TAKE i \in DOMAIN results'
    <3>1. i + 1 \in DOMAIN results /\ i + 1 # 1 /\ 1 \in DOMAIN results
      BY <2>2
    <3> QED
      BY <2>2, <2>3, <3>1
  <2>7. ToSet(results') = ToSet(results) \ {k}
    <3>1. ASSUME NEW x \in ToSet(results) \ {k}
          PROVE  x \in ToSet(results')
      BY <2>2, <2>5, <3>1 DEF ToSet
    <3>2. ASSUME NEW x \in ToSet(results')
          PROVE  x \in ToSet(results) \ {k}
      BY <2>2, <2>6, <3>2 DEF ToSet
    <3> QED
      BY <3>1, <3>2
  <2>8. busy' = busy \ {k}
    BY <2>1, <2>4, <2>7
  <2> QED
    BY <2>1, <2>2, <2>4, <2>8
<1>4. CASE Cancel
  BY <1>4 DEF Cancel, ToSet
<1>5. CASE UNCHANGED <<results, owed, canceled>>
  BY <1>5 DEF ToSet
<1>6. \/ \E o \in Offerers : OfferAccepted(o)
      \/ Publish \/ Consume \/ Cancel
      \/ UNCHANGED <<results, owed, canceled>>
  BY DEF Next, OfferBegins, OfferEnds, OfferDropped, WorkerStep, Take, Process, Remember,
         PublishNothing, BatchPublished, WorkerLeaves, ConsumerStep, ConsumerLeaves, vars
<1> QED
  BY <1>1, <1>2, <1>3, <1>4, <1>5, <1>6

\* What the desktop may take for granted, for every number of callers and every
\* capacity: each result is delivered once, for an item that was accepted and
\* not delivered since.  That the result comes at all is liveness.
THEOREM PipelineIsAService == Spec => Service!Init /\ [][Service!Next]_(Service!vars)
<1>1. Init => Service!Init
  BY DEF Init, Service!Init, ToSet
<1> QED
  BY <1>1, StepIsAService, Invariance, PTL DEF Spec
=============================================================================
