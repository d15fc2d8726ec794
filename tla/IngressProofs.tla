---------------------------- MODULE IngressProofs ---------------------------
(***************************************************************************)
(* Proofs about Ingress, for every number of connections and workers,      *)
(* every capacity of the queue and all batches.                            *)
(***************************************************************************)
EXTENDS Ingress, TLAPS, FiniteSetTheorems, SequenceTheorems, WellFoundedInduction

\* No event twice in a sequence.
Distinct(s) == \A i, j \in DOMAIN s : s[i] = s[j] => i = j

\* f may be handled while e still waits.
Before(f, e) == HighValue(e) /\ HighValue(f) /\ e.conn = f.conn => f.index < e.index

Ordered(s) == \A i, j \in DOMAIN s : i < j => Before(s[i], s[j])

Fates == {"queued", "refused", "replaced", "displaced", "handled"}
WorkerStates == {"absent", "reading", "submitting", "waking", "acking", "closed"}

Shapes ==
    /\ worker \in [Conns -> WorkerStates]
    /\ batch \in [Conns -> {<<>>} \cup UNION {Payloads[c] : c \in Conns}]
    /\ fate \in [Conns -> Seq(Fates)]
    /\ \A c \in Conns :
         /\ batch[c] = <<>> \/ batch[c] \in Payloads[c]
         /\ Len(fate[c]) <= Len(batch[c])
         /\ worker[c] \in {"absent", "reading"} => fate[c] = <<>>
         /\ worker[c] = "submitting" => Len(fate[c]) < Len(batch[c])

\* Exactly the events with the fate "queued" wait, each in one place.
WaitOnce ==
    /\ items \in Seq(Submitted) /\ Len(items) <= Capacity /\ Distinct(items)
    /\ handling \in Submitted \cup {NoEvent}
    /\ handling \notin ToSet(items)
    /\ Having("queued") = InTheirWay

\* The order of high value from the queue's end to the handler.
InOrder ==
    /\ Ordered(items)
    /\ handling # NoEvent => \A e \in ToSet(items) : Before(handling, e)
    /\ HighValueInOrder

\* How far the server, the collector and the shutdown have come together.
Stages ==
    /\ serve \in {"accepting", "waiting", "closed"}
    /\ wake \in BOOLEAN /\ stop \in BOOLEAN
    /\ loop \in {"draining", "selecting", "finishing", "done"}
    /\ serve # "accepting" => shutdown \notin {"running", "stopping_ipc"}
    /\ serve = "closed" => Busy = {}
    /\ stop => serve = "closed" /\ shutdown \in {"stopping_collector", "collector_stopped"}
    /\ loop \in {"finishing", "done"} => stop
    /\ loop \in {"selecting", "done"} => handling = NoEvent
    /\ loop = "done" => items = <<>>
    /\ shutdown = "collector_stopped" => loop = "done"

\* The counters account for the events, of which there are finitely many.
Counts ==
    /\ stats \in [accepted : Nat, dropped : Nat, coalesced : Nat]
    /\ IsFiniteSet(Submitted)
    /\ StatsAccountForEvents

IInv == Shapes /\ WaitOnce /\ HighValueIsKept /\ InOrder /\ Counts /\ Stages
-----------------------------------------------------------------------------
\* A set of indices has a least and a greatest one.
LEMMA IndexExtremes ==
    ASSUME NEW n \in Nat, NEW I \in SUBSET (1..n), I # {}
    PROVE  Min(I) \in I /\ Max(I) \in I
<1> DEFINE J == {n - i : i \in I}
<1>1. I \subseteq Nat /\ J \subseteq Nat /\ J # {}
  <2>1. \A i \in I : i \in Nat /\ n - i \in Nat
    OBVIOUS
  <2>2. PICK i \in I : TRUE
    OBVIOUS
  <2>3. n - i \in J
    BY <2>2
  <2> QED
    BY <2>1, <2>3
<1>2. \A T \in SUBSET Nat : T # {} => \E x \in T : \A y \in T : x <= y
  <2> TAKE T \in SUBSET Nat
  <2> HAVE T # {}
  <2>1. PICK x \in T : \A y \in T : ~ (<<y, x>> \in OpToRel(<, Nat))
    BY NatLessThanWellFounded, WFMin
  <2>2. \A y \in T : ~ (y < x)
    BY <2>1 DEF OpToRel
  <2> QED
    BY <2>2
<1>3. \E x \in I : \A y \in I : x <= y
  BY <1>1, <1>2
<1>4. \E x \in I : \A y \in I : x >= y
  <2>1. PICK x \in J : \A y \in J : x <= y
    BY <1>1, <1>2
  <2>2. PICK i \in I : x = n - i
    BY <2>1
  <2>3. \A j \in I : n - i <= n - j
    BY <2>1, <2>2
  <2> QED
    BY <2>3
<1> QED
  BY <1>3, <1>4 DEF Min, Max

\* What coalesces is an event of the same kind and subject in the queue.
LEMMA CoalesceAtFinds ==
    ASSUME NEW S, NEW s \in Seq(S), NEW e
    PROVE  CoalesceAt(s, e) > 0 =>
             CoalesceAt(s, e) \in 1..Len(s) /\ Coalesces(e, s[CoalesceAt(s, e)])
<1> DEFINE I == {i \in 1..Len(s) : Coalesces(e, s[i])}
<1>1. CoalesceAt(s, e) = IF I # {} THEN Max(I) ELSE 0
  BY DEF CoalesceAt, SelectLastInSeq
<1>2. I # {} => Max(I) \in I
  <2>1. Len(s) \in Nat /\ I \in SUBSET (1..Len(s))
    OBVIOUS
  <2> HIDE DEF I
  <2> QED
    BY <2>1, IndexExtremes
<1> QED
  BY <1>1, <1>2

\* What is evicted is in the queue and not of high value.
LEMMA EvictAtFinds ==
    ASSUME NEW S, NEW s \in Seq(S)
    PROVE  EvictAt(s) > 0 => EvictAt(s) \in 1..Len(s) /\ ~HighValue(s[EvictAt(s)])
<1> DEFINE I == {i \in 1..Len(s) : ~HighValue(s[i])}
<1>1. EvictAt(s) = IF I # {} THEN Min(I) ELSE 0
  BY DEF EvictAt, SelectInSeq
<1>2. I # {} => Min(I) \in I
  <2>1. Len(s) \in Nat /\ I \in SUBSET (1..Len(s))
    OBVIOUS
  <2> HIDE DEF I
  <2> QED
    BY <2>1, IndexExtremes
<1> QED
  BY <1>1, <1>2

\* A sequence without its k-th element.
LEMMA RemoveAtEffect ==
    ASSUME NEW S, NEW s \in Seq(S), NEW k \in 1..Len(s)
    PROVE  /\ RemoveAt(s, k) \in Seq(S) /\ Len(RemoveAt(s, k)) = Len(s) - 1
           /\ \A j \in 1..Len(s) - 1 : RemoveAt(s, k)[j] = IF j < k THEN s[j] ELSE s[j + 1]
<1> DEFINE a == SubSeq(s, 1, k - 1)
           b == SubSeq(s, k + 1, Len(s))
<1>1. a \in Seq(S) /\ Len(a) = k - 1 /\ \A j \in 1..k - 1 : a[j] = s[j]
  OBVIOUS
<1>2. b \in Seq(S) /\ Len(b) = Len(s) - k /\ \A j \in 1..Len(s) - k : b[j] = s[k + j]
  OBVIOUS
<1> HIDE DEF a, b
<1>3. /\ a \o b \in Seq(S) /\ Len(a \o b) = Len(s) - 1
      /\ \A j \in 1..Len(s) - 1 : (a \o b)[j] = IF j < k THEN a[j] ELSE b[j - (k - 1)]
  <2>1. /\ Len(a \o b) = Len(a) + Len(b) /\ a \o b \in Seq(S)
        /\ \A j \in 1..Len(a) + Len(b) :
             (a \o b)[j] = IF j <= Len(a) THEN a[j] ELSE b[j - Len(a)]
    BY <1>1, <1>2, ConcatProperties
  <2>2. Len(s) \in Nat /\ Len(a) + Len(b) = Len(s) - 1
    BY <1>1, <1>2
  <2> QED
    BY <1>1, <1>2, <2>1, <2>2
<1>4. \A j \in 1..Len(s) - 1 : (a \o b)[j] = IF j < k THEN s[j] ELSE s[j + 1]
  <2> TAKE j \in 1..Len(s) - 1
  <2>1. CASE j < k
    BY <1>1, <1>3, <2>1
  <2>2. CASE ~(j < k)
    <3>1. j - (k - 1) \in 1..Len(s) - k /\ k + (j - (k - 1)) = j + 1
      BY <2>2
    <3> QED
      BY <1>2, <1>3, <2>2, <3>1
  <2> QED
    BY <2>1, <2>2
<1> QED
  BY <1>3, <1>4 DEF RemoveAt, a, b

\* The events of a sequence without its k-th, and their order.
LEMMA RemovedEvents ==
    ASSUME NEW S, NEW s \in Seq(S), NEW k \in 1..Len(s), Distinct(s)
    PROVE  /\ ToSet(RemoveAt(s, k)) = ToSet(s) \ {s[k]}
           /\ Distinct(RemoveAt(s, k))
           /\ Ordered(s) => Ordered(RemoveAt(s, k))
<1> DEFINE t == RemoveAt(s, k)
           From(j) == IF j < k THEN j ELSE j + 1
<1>1. /\ t \in Seq(S) /\ Len(t) = Len(s) - 1 /\ Len(s) \in Nat
      /\ DOMAIN t = 1..Len(s) - 1 /\ DOMAIN s = 1..Len(s)
      /\ \A j \in 1..Len(s) - 1 : t[j] = s[From(j)]
  BY RemoveAtEffect
<1> HIDE DEF t
<1>2. /\ \A j \in DOMAIN t : From(j) \in DOMAIN s /\ From(j) # k
      /\ \A i, j \in DOMAIN t : i < j => From(i) < From(j)
      /\ \A i, j \in DOMAIN t : From(i) = From(j) => i = j
  BY <1>1
<1>3. \A i \in DOMAIN s : i # k => \E j \in DOMAIN t : From(j) = i
  <2> TAKE i \in DOMAIN s
  <2> HAVE i # k
  <2>1. CASE i < k
    <3>1. i \in DOMAIN t /\ From(i) = i
      BY <1>1, <2>1
    <3> QED
      BY <3>1
  <2>2. CASE i > k
    <3>1. i - 1 \in DOMAIN t /\ From(i - 1) = i
      BY <1>1, <2>2
    <3> QED
      BY <3>1
  <2> QED
    BY <1>1, <2>1, <2>2
<1> HIDE DEF From
<1>4. ToSet(t) = ToSet(s) \ {s[k]}
  <2>1. \A j \in DOMAIN t : t[j] \in ToSet(s) /\ t[j] # s[k]
    BY <1>1, <1>2 DEF ToSet, Distinct
  <2>2. \A i \in DOMAIN s : s[i] # s[k] => s[i] \in ToSet(t)
    BY <1>1, <1>3 DEF ToSet
  <2> QED
    BY <2>1, <2>2 DEF ToSet
<1>5. Distinct(t)
  BY <1>1, <1>2 DEF Distinct
<1>6. Ordered(s) => Ordered(t)
  BY <1>1, <1>2 DEF Ordered
<1> QED
  BY <1>4, <1>5, <1>6 DEF t

\* An event at the end of a sequence.
LEMMA AppendedEvents ==
    ASSUME NEW S, NEW s \in Seq(S), NEW e \in S, Distinct(s), e \notin ToSet(s)
    PROVE  /\ Append(s, e) \in Seq(S) /\ Len(Append(s, e)) = Len(s) + 1
           /\ ToSet(Append(s, e)) = ToSet(s) \cup {e}
           /\ Distinct(Append(s, e))
           /\ Ordered(s) /\ (\A x \in ToSet(s) : Before(x, e)) => Ordered(Append(s, e))
<1> DEFINE t == Append(s, e)
<1>1. /\ t \in Seq(S) /\ Len(t) = Len(s) + 1 /\ Len(s) \in Nat
      /\ DOMAIN t = 1..Len(s) + 1 /\ DOMAIN s = 1..Len(s)
      /\ \A i \in 1..Len(s) : t[i] = s[i]
      /\ t[Len(s) + 1] = e
  OBVIOUS
<1> HIDE DEF t
<1>2. ToSet(t) = ToSet(s) \cup {e}
  <2>1. \A i \in DOMAIN t : t[i] \in ToSet(s) \cup {e}
    BY <1>1 DEF ToSet
  <2>2. \A i \in DOMAIN s : s[i] \in ToSet(t)
    BY <1>1 DEF ToSet
  <2>3. e \in ToSet(t)
    BY <1>1 DEF ToSet
  <2> QED
    BY <2>1, <2>2, <2>3 DEF ToSet
<1>3. Distinct(t)
  BY <1>1 DEF Distinct, ToSet
<1>4. Ordered(s) /\ (\A x \in ToSet(s) : Before(x, e)) => Ordered(t)
  BY <1>1 DEF Ordered, ToSet
<1> QED
  BY <1>1, <1>2, <1>3, <1>4 DEF t

\* A read in the place of another.
LEMMA ReplacedEvents ==
    ASSUME NEW S, NEW s \in Seq(S), NEW e \in S, NEW k \in 1..Len(s), Distinct(s),
           e \notin ToSet(s), ~HighValue(e)
    PROVE  /\ ReplaceAt(s, k, e) \in Seq(S) /\ Len(ReplaceAt(s, k, e)) = Len(s)
           /\ ToSet(ReplaceAt(s, k, e)) = (ToSet(s) \ {s[k]}) \cup {e}
           /\ Distinct(ReplaceAt(s, k, e))
           /\ Ordered(s) => Ordered(ReplaceAt(s, k, e))
<1> DEFINE t == ReplaceAt(s, k, e)
<1>1. /\ t \in Seq(S) /\ Len(t) = Len(s) /\ Len(s) \in Nat
      /\ DOMAIN t = 1..Len(s) /\ DOMAIN s = 1..Len(s)
      /\ \A i \in 1..Len(s) : t[i] = IF i = k THEN e ELSE s[i]
  BY DEF ReplaceAt
<1> HIDE DEF t
<1>2. ToSet(t) = (ToSet(s) \ {s[k]}) \cup {e}
  <2>1. \A i \in DOMAIN t : t[i] \in (ToSet(s) \ {s[k]}) \cup {e}
    BY <1>1 DEF ToSet, Distinct
  <2>2. \A i \in DOMAIN s : s[i] # s[k] => s[i] \in ToSet(t)
    BY <1>1 DEF ToSet
  <2>3. e \in ToSet(t)
    BY <1>1 DEF ToSet
  <2> QED
    BY <2>1, <2>2, <2>3 DEF ToSet
<1>3. Distinct(t)
  BY <1>1 DEF Distinct, ToSet
<1>4. Ordered(s) => Ordered(t)
  BY <1>1 DEF Ordered, Before
<1> QED
  BY <1>1, <1>2, <1>3, <1>4 DEF t

\* What Offer makes of the queue: it stays within its capacity and in order,
\* has the new event in it when it takes it, and gives up at most one event,
\* none of high value.
LEMMA OfferEffect ==
    ASSUME NEW S, NEW s \in Seq(S), NEW e \in S, Distinct(s), e \notin ToSet(s),
           Len(s) <= Capacity
    PROVE  /\ Offer(s, e) \in Seq(S) /\ Len(Offer(s, e)) <= Capacity
           /\ Distinct(Offer(s, e))
           /\ ToSet(Offer(s, e)) =
                IF Takes(s, e) THEN (ToSet(s) \ GivenUp(s, e)) \cup {e} ELSE ToSet(s)
           /\ GivenUp(s, e) # {} => Takes(s, e)
           /\ GivenUp(s, e) \subseteq ToSet(s)
           /\ \A x \in GivenUp(s, e) : ~HighValue(x)
           /\ \A x, y \in GivenUp(s, e) : x = y
           /\ Appends(s, e) => GivenUp(s, e) = {}
           /\ Replaces(s, e) \/ Displaces(s, e) => \E x : GivenUp(s, e) = {x}
           /\ Ordered(s) /\ (\A x \in ToSet(s) : Before(x, e)) => Ordered(Offer(s, e))
<1> DEFINE t == Offer(s, e)
<1>1. CASE Replaces(s, e)
  <2> DEFINE k == CoalesceAt(s, e)
  <2>1. k \in 1..Len(s) /\ Coalesces(e, s[k]) /\ t = ReplaceAt(s, k, e)
    BY <1>1, CoalesceAtFinds DEF Replaces, Offer
  <2>2. ~HighValue(e) /\ ~HighValue(s[k]) /\ s[k] \in ToSet(s)
    BY <2>1 DEF Coalesces, ReadTypes, HighValue, HighTypes, ToSet
  <2> HIDE DEF k, t
  <2>3. /\ t \in Seq(S) /\ Len(t) = Len(s) /\ ToSet(t) = (ToSet(s) \ {s[k]}) \cup {e}
        /\ Distinct(t) /\ (Ordered(s) => Ordered(t))
    BY <2>1, <2>2, ReplacedEvents
  <2>4. ToSet(s) \ ToSet(t) = {s[k]}
    BY <2>2, <2>3
  <2> QED
    BY <1>1, <2>2, <2>3, <2>4 DEF GivenUp, Takes, Appends, t
<1>2. CASE Appends(s, e)
  <2>1. t = Append(s, e)
    BY <1>2 DEF Offer, Appends
  <2> HIDE DEF t
  <2>2. /\ t \in Seq(S) /\ Len(t) = Len(s) + 1 /\ ToSet(t) = ToSet(s) \cup {e} /\ Distinct(t)
        /\ Ordered(s) /\ (\A x \in ToSet(s) : Before(x, e)) => Ordered(t)
    BY <2>1, AppendedEvents
  <2>3. Len(t) <= Capacity
    BY <1>2, <2>2, CapacityAssumption DEF Appends, Full
  <2>4. ToSet(s) \ ToSet(t) = {}
    BY <2>2
  <2> QED
    BY <1>2, <2>2, <2>3, <2>4 DEF GivenUp, Takes, Appends, Displaces, t
<1>3. CASE Displaces(s, e)
  <2> DEFINE k == EvictAt(s)
             r == RemoveAt(s, k)
  <2>1. k \in 1..Len(s) /\ ~HighValue(s[k]) /\ t = Append(r, e) /\ Len(s) = Capacity
    BY <1>3, EvictAtFinds DEF Displaces, Offer, Appends, Full
  <2> HIDE DEF k, t
  <2>2. r \in Seq(S) /\ Len(r) = Len(s) - 1
    BY <2>1, RemoveAtEffect
  <2>3. /\ ToSet(r) = ToSet(s) \ {s[k]} /\ Distinct(r) /\ (Ordered(s) => Ordered(r))
    BY <2>1, RemovedEvents
  <2>4. s[k] \in ToSet(s)
    BY <2>1 DEF ToSet
  <2> HIDE DEF r
  <2>5. e \notin ToSet(r)
    BY <2>3
  <2>6. /\ t \in Seq(S) /\ Len(t) = Len(r) + 1 /\ ToSet(t) = ToSet(r) \cup {e} /\ Distinct(t)
        /\ Ordered(r) /\ (\A x \in ToSet(r) : Before(x, e)) => Ordered(t)
    BY <2>1, <2>2, <2>3, <2>5, AppendedEvents
  <2>7. ToSet(s) \ ToSet(t) = {s[k]}
    BY <2>3, <2>4, <2>6
  <2>8. Len(t) <= Capacity
    BY <2>1, <2>2, <2>6, CapacityAssumption
  <2>9. Takes(s, e)
    BY <1>3 DEF Takes
  <2>10. ToSet(t) = (ToSet(s) \ GivenUp(s, e)) \cup {e} /\ GivenUp(s, e) = {s[k]}
    BY <2>3, <2>6, <2>7 DEF GivenUp, t
  <2>11. Ordered(s) /\ (\A x \in ToSet(s) : Before(x, e)) => Ordered(t)
    BY <2>3, <2>6
  <2> QED
    BY <1>3, <2>1, <2>4, <2>6, <2>8, <2>9, <2>10, <2>11 DEF Displaces, Appends, t
<1>4. CASE ~Takes(s, e)
  <2>1. t = s
    BY <1>4 DEF Offer, Takes
  <2> QED
    BY <1>4, <2>1 DEF GivenUp, Takes
<1> QED
  BY <1>1, <1>2, <1>3, <1>4 DEF Takes
-----------------------------------------------------------------------------
\* What a submitted event is, and that it is not the empty hand.
LEMMA SubmittedEvents ==
    ASSUME Shapes
    PROVE  /\ \A c \in Conns : \A i \in DOMAIN fate[c] : Event(c, i) \in Submitted
           /\ \A x \in Submitted : /\ x.conn \in Conns
                                   /\ x.index \in DOMAIN fate[x.conn]
                                   /\ x = Event(x.conn, x.index)
           /\ NoEvent \notin Submitted
           /\ \A c \in Conns : /\ fate[c] \in Seq(Fates) /\ Len(fate[c]) \in Nat
                               /\ DOMAIN fate[c] = 1..Len(fate[c])
                               /\ Len(batch[c]) \in Nat
<1>1. \A c \in Conns : \A i \in DOMAIN fate[c] : Event(c, i) \in Submitted
  BY DEF Submitted
<1>2. \A x \in Submitted : x.conn \in Conns /\ x.index \in DOMAIN fate[x.conn]
                           /\ x = Event(x.conn, x.index)
  BY DEF Submitted, Event
<1>3. \A c \in Conns : /\ fate[c] \in Seq(Fates) /\ Len(fate[c]) \in Nat
                       /\ DOMAIN fate[c] = 1..Len(fate[c])
  BY DEF Shapes
<1>4. \A c \in Conns : Len(batch[c]) \in Nat
                       /\ (fate[c] # <<>> => batch[c] \in Payloads[c] /\ DOMAIN batch[c] = 1..Len(batch[c]))
  <2> TAKE c \in Conns
  <2>1. CASE batch[c] = <<>>
    <3>1. Len(fate[c]) = 0
      BY <1>3, <2>1 DEF Shapes
    <3> QED
      BY <1>3, <2>1, <3>1
  <2>2. CASE batch[c] \in Payloads[c]
    BY <2>2, IngressAssumption DEF Conns
  <2> QED
    BY <2>1, <2>2 DEF Shapes
<1>5. \A c \in Conns : \A i \in DOMAIN fate[c] : Event(c, i) # NoEvent
  <2> TAKE c \in Conns
  <2> TAKE i \in DOMAIN fate[c]
  <2>1. batch[c] \in Payloads[c] /\ i \in DOMAIN batch[c]
    BY <1>3, <1>4 DEF Shapes
  <2> QED
    BY <2>1, IngressAssumption DEF Conns, Event
<1> QED
  BY <1>1, <1>2, <1>3, <1>4, <1>5

\* One more fate of a connection is one more event submitted.
LEMMA SubmittedGrows ==
    ASSUME Shapes, NEW c \in Conns, batch' = batch,
           \A d \in Conns : DOMAIN fate'[d] = IF d = c THEN 1..(Len(fate[c]) + 1) ELSE DOMAIN fate[d]
    PROVE  Submitted' = Submitted \cup {Event(c, Len(fate[c]) + 1)}
<1> DEFINE i == Len(fate[c]) + 1
<1>1. DOMAIN fate'[c] = DOMAIN fate[c] \cup {i}
  BY SubmittedEvents
<1>2. \A d \in Conns : DOMAIN fate'[d] = DOMAIN fate[d] \cup (IF d = c THEN {i} ELSE {})
  BY <1>1
<1> HIDE DEF i
<1>3. ASSUME NEW x \in Submitted' PROVE x \in Submitted \cup {Event(c, i)}
  <2>1. PICK d \in Conns : \E j \in DOMAIN fate'[d] : x = Event(d, j)
    BY <1>3 DEF Submitted, Event
  <2>2. PICK j \in DOMAIN fate'[d] : x = Event(d, j)
    BY <2>1
  <2>3. CASE j \in DOMAIN fate[d]
    BY <2>2, <2>3 DEF Submitted
  <2>4. CASE d = c /\ j = i
    BY <2>2, <2>4
  <2> QED
    BY <1>2, <2>2, <2>3, <2>4
<1>4. ASSUME NEW d \in Conns, NEW j \in DOMAIN fate'[d] PROVE Event(d, j) \in Submitted'
  BY DEF Submitted, Event
<1>5. Event(c, i) \in Submitted'
  BY <1>1, <1>4
<1>6. ASSUME NEW x \in Submitted PROVE x \in Submitted'
  <2>1. PICK d \in Conns : \E j \in DOMAIN fate[d] : x = Event(d, j)
    BY DEF Submitted
  <2> QED
    BY <1>2, <1>4, <2>1
<1> QED
  BY <1>3, <1>5, <1>6 DEF i

\* Submit gives the new event its fate, and the event given up for it another.
LEMMA SubmitEffect ==
    ASSUME Shapes, WaitOnce, NEW c \in Conns, Submit(c)
    PROVE  LET e == Event(c, Len(fate[c]) + 1) IN
           /\ items' = Offer(items, e)
           /\ Submitted' = Submitted \cup {e} /\ e \notin Submitted /\ e # NoEvent
           /\ fate'[e.conn][e.index] = IF Takes(items, e) THEN "queued" ELSE "refused"
           /\ \A x \in Submitted :
                Fate(x)' = IF x \in GivenUp(items, e)
                           THEN IF Replaces(items, e) THEN "replaced" ELSE "displaced"
                           ELSE Fate(x)
           /\ \A x \in Submitted : x.conn = e.conn => x.index < e.index
           /\ batch' = batch /\ handling' = handling /\ e.conn = c
           /\ fate' \in [Conns -> Seq(Fates)]
           /\ \A d \in Conns : Len(fate'[d]) = IF d = c THEN Len(fate[d]) + 1 ELSE Len(fate[d])
<1> DEFINE i == Len(fate[c]) + 1
           e == Event(c, i)
           first == [fate EXCEPT ![c] = Append(@, IF Takes(items, e) THEN "queued" ELSE "refused")]
<1>1. /\ items' = Offer(items, e) /\ fate' = Settled(c, e)
      /\ batch' = batch /\ handling' = handling
  BY DEF Submit, loopVars
<1>2. e.conn = c /\ e.index = i
  BY DEF Event
<1>3. /\ first \in [Conns -> Seq(Fates)]
      /\ \A d \in Conns \ {c} : first[d] = fate[d]
      /\ Len(first[c]) = i /\ DOMAIN first[c] = 1..i
      /\ \A j \in DOMAIN fate[c] : first[c][j] = fate[c][j]
      /\ first[c][i] = IF Takes(items, e) THEN "queued" ELSE "refused"
  BY SubmittedEvents DEF Shapes, Fates
<1>4. e \notin Submitted
  BY <1>2, SubmittedEvents DEF i
<1>5. (\A x \in Submitted : x.conn = e.conn => x.index < e.index) /\ e # NoEvent
  <2>1. \A x \in Submitted : x.conn = e.conn => x.index < e.index
    BY <1>2, SubmittedEvents DEF i
  <2>2. Len(fate[c]) < Len(batch[c])
    BY DEF Shapes, Submit
  <2>3. batch[c] # <<>>
    BY <2>2, SubmittedEvents
  <2>4. batch[c] \in Payloads[c] /\ i \in DOMAIN batch[c]
    <3>1. batch[c] \in Payloads[c]
      BY <2>3 DEF Shapes
    <3>2. DOMAIN batch[c] = 1..Len(batch[c])
      BY <3>1, IngressAssumption DEF Conns
    <3> QED
      BY <2>2, <3>1, <3>2, SubmittedEvents
  <2>5. e # NoEvent
    BY <2>4, IngressAssumption DEF Conns, Event
  <2> QED
    BY <2>1, <2>5
<1>6. Len(items) <= Capacity /\ Distinct(items) /\ items \in Seq(Submitted)
  BY DEF WaitOnce
<1>7. e \notin ToSet(items)
  BY <1>4, <1>6 DEF ToSet
<1> HIDE DEF e, i
<1>8. GivenUp(items, e) \subseteq Submitted /\ \A x, y \in GivenUp(items, e) : x = y
  <2>1. items \in Seq(Submitted \cup {e}) /\ ToSet(items) \subseteq Submitted
    BY <1>6, SeqMonotonic DEF ToSet
  <2> QED
    BY <1>6, <1>7, <2>1, OfferEffect
<1>9. CASE GivenUp(items, e) = {}
  <2>1. fate' = first
    BY <1>1, <1>9 DEF Settled
  <2> HIDE DEF first
  <2>2. \A d \in Conns : DOMAIN fate'[d] = IF d = c THEN 1..i ELSE DOMAIN fate[d]
    BY <1>3, <2>1
  <2>3. Submitted' = Submitted \cup {e}
    BY <1>1, <2>2, SubmittedGrows DEF i, e
  <2>4. fate'[e.conn][e.index] = IF Takes(items, e) THEN "queued" ELSE "refused"
    <3>1. i \in DOMAIN first[c]
      BY <1>3, SubmittedEvents DEF i
    <3> QED
      BY <1>2, <1>3, <2>1
  <2>5. \A x \in Submitted : Fate(x)' = Fate(x)
    BY <1>3, <2>1, SubmittedEvents DEF Fate
  <2> QED
    BY <1>1, <1>2, <1>3, <1>4, <1>5, <1>9, <2>1, <2>3, <2>4, <2>5 DEF e, i
<1>10. CASE GivenUp(items, e) # {}
  <2> DEFINE end == IF Replaces(items, e) THEN "replaced" ELSE "displaced"
  <2>1. PICK lost \in GivenUp(items, e) : lost = CHOOSE x \in GivenUp(items, e) : TRUE
    BY <1>10
  <2>2. /\ lost \in Submitted /\ lost.conn \in Conns /\ lost.index \in DOMAIN fate[lost.conn]
        /\ lost = Event(lost.conn, lost.index) /\ \A x \in GivenUp(items, e) : x = lost
        /\ lost # e
    BY <1>4, <1>8, SubmittedEvents
  <2>3. fate' = [first EXCEPT ![lost.conn][lost.index] = end]
    BY <1>1, <1>10, <2>1 DEF Settled
  <2> HIDE DEF first
  <2>4. lost.index \in DOMAIN first[lost.conn] /\ end \in Fates
    BY <1>3, <2>2, SubmittedEvents DEF i, Fates
  <2> HIDE DEF end
  <2>5. /\ fate' \in [Conns -> Seq(Fates)]
        /\ \A d \in Conns \ {lost.conn} : fate'[d] = first[d]
        /\ fate'[lost.conn] = [first[lost.conn] EXCEPT ![lost.index] = end]
    <3>1. first[lost.conn] \in Seq(Fates)
      BY <1>3, <2>2
    <3>2. [first[lost.conn] EXCEPT ![lost.index] = end] \in Seq(Fates)
      BY <2>4, <3>1
    <3>3. fate' = [first EXCEPT ![lost.conn] = [first[lost.conn] EXCEPT ![lost.index] = end]]
      BY <2>3
    <3> QED
      BY <1>3, <2>2, <3>2, <3>3
  <2>6. /\ DOMAIN fate'[lost.conn] = DOMAIN first[lost.conn]
        /\ Len(fate'[lost.conn]) = Len(first[lost.conn])
        /\ \A j \in DOMAIN first[lost.conn] :
             fate'[lost.conn][j] = IF j = lost.index THEN end ELSE first[lost.conn][j]
    BY <1>3, <2>2, <2>4, <2>5
  <2>7. /\ \A d \in Conns : DOMAIN fate'[d] = IF d = c THEN 1..i ELSE DOMAIN fate[d]
        /\ \A d \in Conns : Len(fate'[d]) = IF d = c THEN Len(fate[d]) + 1 ELSE Len(fate[d])
    <3>1. \A d \in Conns : DOMAIN fate'[d] = DOMAIN first[d] /\ Len(fate'[d]) = Len(first[d])
      BY <2>5, <2>6
    <3>2. \A d \in Conns : /\ DOMAIN first[d] = IF d = c THEN 1..i ELSE DOMAIN fate[d]
                           /\ Len(first[d]) = IF d = c THEN i ELSE Len(fate[d])
      BY <1>3
    <3> QED
      BY <3>1, <3>2 DEF i
  <2>8. Submitted' = Submitted \cup {e}
    BY <1>1, <2>7, SubmittedGrows DEF i, e
  <2>9. fate'[e.conn][e.index] = IF Takes(items, e) THEN "queued" ELSE "refused"
    <3>1. ~(lost.conn = c /\ lost.index = i)
      BY <2>2 DEF e
    <3>2. i \in DOMAIN first[c]
      BY <1>3, SubmittedEvents DEF i
    <3>3. fate'[c][i] = first[c][i]
      BY <2>5, <2>6, <3>1, <3>2
    <3> QED
      BY <1>2, <1>3, <3>3
  <2>10. \A x \in Submitted : Fate(x)' = IF x \in GivenUp(items, e) THEN end ELSE Fate(x)
    <3> TAKE x \in Submitted
    <3>1. x.conn \in Conns /\ x.index \in DOMAIN fate[x.conn] /\ x = Event(x.conn, x.index)
      BY SubmittedEvents
    <3>2. first[x.conn][x.index] = Fate(x) /\ x.index \in DOMAIN first[x.conn]
      <4>1. CASE x.conn = c
        BY <1>3, <3>1, <4>1, SubmittedEvents DEF Fate, i
      <4>2. CASE x.conn # c
        BY <1>3, <3>1, <4>2 DEF Fate
      <4> QED
        BY <4>1, <4>2
    <3>3. CASE x = lost
      BY <2>1, <2>6, <3>2, <3>3 DEF Fate
    <3>4. CASE x # lost
      <4>1. ~(x.conn = lost.conn /\ x.index = lost.index) /\ x \notin GivenUp(items, e)
        BY <2>2, <3>1, <3>4
      <4>2. fate'[x.conn][x.index] = first[x.conn][x.index]
        BY <2>5, <2>6, <3>1, <3>2, <4>1
      <4> QED
        BY <3>2, <4>1, <4>2 DEF Fate
    <3> QED
      BY <3>3, <3>4
  <2> QED
    BY <1>1, <1>2, <1>4, <1>5, <2>5, <2>7, <2>8, <2>9, <2>10 DEF e, i, end
<1> QED
  BY <1>9, <1>10
-----------------------------------------------------------------------------
Contents == WaitOnce /\ HighValueIsKept /\ InOrder

\* What is submitted, and its fate, depends on the fates and on the batches of
\* the connections that have submitted something.
LEMMA QuietSubmitted ==
    ASSUME Shapes, fate' = fate, \A c \in Conns : fate[c] # <<>> => batch'[c] = batch[c]
    PROVE  Submitted' = Submitted /\ \A f : Having(f)' = Having(f)
<1>1. \A c \in Conns : \A i \in DOMAIN fate[c] : batch'[c] = batch[c]
  BY SubmittedEvents
<1>2. Submitted' = Submitted
  <2>1. \A x : x \in Submitted => x \in Submitted'
    BY <1>1 DEF Submitted, Event
  <2>2. \A x : x \in Submitted' => x \in Submitted
    BY <1>1 DEF Submitted, Event
  <2> QED
    BY <2>1, <2>2
<1>3. \A f : Having(f)' = Having(f)
  BY <1>2 DEF Having, Fate
<1> QED
  BY <1>2, <1>3

\* A step that moves no event leaves the contents of the way in as they are.
LEMMA QuietStep ==
    ASSUME Shapes, Contents, UNCHANGED <<items, handling, fate>>,
           \A c \in Conns : fate[c] # <<>> => batch'[c] = batch[c]
    PROVE  Contents'
<1>2. Submitted' = Submitted
  BY QuietSubmitted
<1>3. \A f : Having(f)' = Having(f)
  BY QuietSubmitted
<1>4. InTheirWay' = InTheirWay
  BY DEF InTheirWay
<1>5. WaitOnce'
  BY <1>2, <1>3, <1>4 DEF Contents, WaitOnce
<1>6. HighValueIsKept'
  BY <1>3 DEF Contents, HighValueIsKept
<1>7. InOrder'
  BY <1>3 DEF Contents, InOrder, HighValueInOrder
<1> QED
  BY <1>5, <1>6, <1>7 DEF Contents

\* Submit keeps every event in one place, gives up none of high value and
\* puts the new one behind all of its connection.
LEMMA SubmitKeepsContents ==
    ASSUME Shapes, Contents, NEW c \in Conns, Submit(c)
    PROVE  Contents'
<1> DEFINE e == Event(c, Len(fate[c]) + 1)
           S == Submitted \cup {e}
           New == IF Takes(items, e) THEN "queued" ELSE "refused"
           Lost == IF Replaces(items, e) THEN "replaced" ELSE "displaced"
<1>1. /\ items \in Seq(Submitted) /\ Len(items) <= Capacity /\ Distinct(items)
      /\ ToSet(items) \subseteq Submitted
  BY DEF Contents, WaitOnce, ToSet
<1>2. /\ items' = Offer(items, e) /\ Submitted' = S /\ e \notin Submitted /\ e # NoEvent
      /\ fate'[e.conn][e.index] = New
      /\ \A x \in Submitted : Fate(x)' = IF x \in GivenUp(items, e) THEN Lost ELSE Fate(x)
      /\ \A x \in Submitted : x.conn = e.conn => x.index < e.index
      /\ handling' = handling
  BY SubmitEffect DEF Contents
<1>3. NoEvent \notin Submitted
  BY SubmittedEvents
<1> HIDE DEF e
<1>4. items \in Seq(S)
  BY <1>1, SeqMonotonic
<1>5. e \notin ToSet(items)
  BY <1>1, <1>2
<1>6. /\ items' \in Seq(S) /\ Len(items') <= Capacity /\ Distinct(items')
      /\ ToSet(items') = IF Takes(items, e) THEN (ToSet(items) \ GivenUp(items, e)) \cup {e}
                                            ELSE ToSet(items)
      /\ GivenUp(items, e) # {} => Takes(items, e)
      /\ GivenUp(items, e) \subseteq ToSet(items)
      /\ \A x \in GivenUp(items, e) : ~HighValue(x)
      /\ Ordered(items) /\ (\A x \in ToSet(items) : Before(x, e)) => Ordered(items')
  BY <1>1, <1>2, <1>4, <1>5, OfferEffect
<1>7. \A f : \A x \in Submitted : x \in Having(f) <=> Fate(x) = f
  BY DEF Having
<1>8. \A f : \A x : x \in Having(f)' <=>
                      \/ x = e /\ New = f
                      \/ x \in Submitted /\ f = (IF x \in GivenUp(items, e) THEN Lost ELSE Fate(x))
  BY <1>2 DEF Having, Fate
<1> HIDE DEF S
<1>9. Having("queued")' = InTheirWay'
  <2>1. \A x \in Submitted : Fate(x) = "queued" <=> x \in ToSet(items) \/ x = handling
    BY <1>3, <1>7 DEF Contents, WaitOnce, InTheirWay
  <2>2. \A x \in Submitted : x \in Having("queued")' <=> x \in InTheirWay'
    BY <1>2, <1>3, <1>6, <1>8, <2>1 DEF InTheirWay, Contents, WaitOnce
  <2>3. e \in Having("queued")' <=> e \in InTheirWay'
    BY <1>2, <1>3, <1>5, <1>6, <1>8 DEF InTheirWay, Contents, WaitOnce
  <2>4. \A x : x \in Having("queued")' => x \in Submitted \cup {e}
    BY <1>8
  <2>5. \A x : x \in InTheirWay' => x \in Submitted \cup {e}
    BY <1>1, <1>2, <1>6 DEF InTheirWay, Contents, WaitOnce
  <2> QED
    BY <2>2, <2>3, <2>4, <2>5
<1>10. WaitOnce'
  <2>1. handling' \in Submitted' \cup {NoEvent} /\ handling' \notin ToSet(items')
    BY <1>2, <1>3, <1>6 DEF Contents, WaitOnce, S
  <2> QED
    BY <1>2, <1>6, <1>9, <2>1 DEF WaitOnce
<1>11. HighValueIsKept'
  <2>1. \A x : x \in (Having("replaced") \cup Having("displaced"))' =>
                 x \in GivenUp(items, e) \/ x \in Having("replaced") \cup Having("displaced")
    BY <1>7, <1>8
  <2> QED
    BY <1>6, <2>1 DEF Contents, HighValueIsKept
<1>12. InOrder'
  <2>1. \A x \in Submitted : Before(x, e)
    BY <1>2 DEF Before
  <2>2. Ordered(items')
    BY <1>1, <1>6, <2>1 DEF Contents, InOrder
  <2>3. handling' # NoEvent => \A x \in ToSet(items') : Before(handling', x)
    BY <1>2, <1>6, <2>1 DEF Contents, InOrder, WaitOnce
  <2>4. \A f : f \in Having("handled")' => f \in Submitted /\ f \in Having("handled")
    BY <1>7, <1>8
  <2>5. \A x : x \in Having("queued")' => x = e \/ x \in Having("queued")
    BY <1>7, <1>8
  <2>6. \A f \in Having("handled") : \A x \in Having("queued") : Before(f, x)
    BY DEF Contents, InOrder, HighValueInOrder, Before
  <2>7. \A f \in Having("handled")' : \A x \in Having("queued")' : Before(f, x)
    BY <2>1, <2>4, <2>5, <2>6
  <2>8. HighValueInOrder'
    BY <2>7 DEF HighValueInOrder, Before
  <2> QED
    BY <2>2, <2>3, <2>8 DEF InOrder
<1> QED
  BY <1>10, <1>11, <1>12 DEF Contents

\* The collector takes the first event; it is before all that still wait.
LEMMA PopKeepsContents ==
    ASSUME Shapes, Contents, Pop
    PROVE  Contents'
<1>1. /\ handling = NoEvent /\ items # <<>> /\ handling' = Head(items) /\ items' = Tail(items)
      /\ batch' = batch /\ fate' = fate /\ worker' = worker
  BY DEF Pop, ipcVars
<1>2. /\ items \in Seq(Submitted) /\ Len(items) <= Capacity /\ Distinct(items) /\ Ordered(items)
  BY DEF Contents, WaitOnce, InOrder
<1>3. /\ items' \in Seq(Submitted) /\ Len(items') = Len(items) - 1 /\ Len(items) \in Nat \ {0}
      /\ DOMAIN items' = 1..Len(items) - 1 /\ DOMAIN items = 1..Len(items)
      /\ \A i \in 1..Len(items) - 1 : items'[i] = items[i + 1]
      /\ handling' = items[1]
  BY <1>1, <1>2
<1>4. Submitted' = Submitted /\ \A f : Having(f)' = Having(f)
  BY <1>1 DEF Submitted, Event, Having, Fate
<1>5. NoEvent \notin Submitted
  BY SubmittedEvents
<1>6. \A i \in DOMAIN items' : i + 1 \in DOMAIN items /\ items'[i] = items[i + 1] /\ i + 1 > 1
  BY <1>3
<1>7. Distinct(items')
  <2> SUFFICES ASSUME NEW i \in DOMAIN items', NEW j \in DOMAIN items', items'[i] = items'[j]
               PROVE  i = j
    BY DEF Distinct
  <2>1. i + 1 = j + 1
    BY <1>2, <1>6 DEF Distinct
  <2> QED
    BY <1>3, <2>1
<1>8. Ordered(items')
  <2> SUFFICES ASSUME NEW i \in DOMAIN items', NEW j \in DOMAIN items', i < j
               PROVE  Before(items'[i], items'[j])
    BY DEF Ordered
  <2>1. i + 1 < j + 1
    BY <1>3
  <2> QED
    BY <1>2, <1>6, <2>1 DEF Ordered
<1>9. 1 \in DOMAIN items
  BY <1>3
<1>10. handling' \notin ToSet(items') /\ handling' \in Submitted
  <2>1. \A i \in DOMAIN items' : items'[i] # items[1]
    <3> TAKE i \in DOMAIN items'
    <3>1. i + 1 # 1
      BY <1>3
    <3> QED
      BY <1>2, <1>6, <1>9, <3>1 DEF Distinct
  <2> QED
    BY <1>2, <1>3, <2>1 DEF ToSet
<1>11. \A x \in ToSet(items') : Before(handling', x)
  <2> SUFFICES ASSUME NEW i \in DOMAIN items'
               PROVE  Before(items[1], items'[i])
    BY <1>3 DEF ToSet
  <2>1. 1 < i + 1
    BY <1>3
  <2> QED
    BY <1>2, <1>6, <1>9, <2>1 DEF Ordered
<1>12. ToSet(items) = ToSet(items') \cup {handling'}
  <2>1. \A i \in DOMAIN items : items[i] \in ToSet(items') \cup {handling'}
    <3> TAKE i \in DOMAIN items
    <3>1. CASE i = 1
      BY <1>3, <3>1
    <3>2. CASE i # 1
      <4>1. i - 1 \in DOMAIN items' /\ items'[i - 1] = items[i]
        BY <1>3, <3>2
      <4> QED
        BY <4>1 DEF ToSet
    <3> QED
      BY <3>1, <3>2
  <2>2. \A i \in DOMAIN items' : items'[i] \in ToSet(items)
    BY <1>6 DEF ToSet
  <2>3. handling' \in ToSet(items)
    BY <1>3, <1>9 DEF ToSet
  <2> QED
    BY <2>1, <2>2, <2>3 DEF ToSet
<1>13. InTheirWay' = InTheirWay
  BY <1>1, <1>5, <1>10, <1>12 DEF InTheirWay
<1>14. WaitOnce'
  BY CapacityAssumption, <1>2, <1>3, <1>4, <1>7, <1>10, <1>13 DEF Contents, WaitOnce
<1>15. HighValueIsKept' /\ HighValueInOrder'
  BY <1>4 DEF Contents, InOrder, HighValueIsKept, HighValueInOrder
<1> QED
  BY <1>8, <1>11, <1>14, <1>15 DEF Contents, InOrder

\* The event in the handler's hands becomes a handled one.
LEMMA HandleKeepsContents ==
    ASSUME Shapes, Contents, Handle
    PROVE  Contents' /\ fate' \in [Conns -> Seq(Fates)] /\ Submitted' = Submitted
           /\ \A f \in {"refused", "replaced", "displaced"} : Having(f)' = Having(f)
           /\ \A c \in Conns : Len(fate'[c]) = Len(fate[c])
<1> DEFINE h == handling
<1>1. /\ h # NoEvent /\ fate' = [fate EXCEPT ![h.conn][h.index] = "handled"]
      /\ handling' = NoEvent /\ items' = items /\ batch' = batch
  BY DEF Handle, WithFate, queueVars, ipcVars
<1>2. /\ h \in Submitted /\ h.conn \in Conns /\ h.index \in DOMAIN fate[h.conn]
      /\ h = Event(h.conn, h.index) /\ h \notin ToSet(items)
      /\ items \in Seq(Submitted) /\ ToSet(items) \subseteq Submitted
  BY <1>1, SubmittedEvents DEF Contents, WaitOnce, ToSet
<1> HIDE DEF h
<1>3. /\ fate' \in [Conns -> Seq(Fates)]
      /\ \A d \in Conns : Len(fate'[d]) = Len(fate[d]) /\ DOMAIN fate'[d] = DOMAIN fate[d]
      /\ \A d \in Conns : \A j \in DOMAIN fate[d] :
           fate'[d][j] = IF d = h.conn /\ j = h.index THEN "handled" ELSE fate[d][j]
  <2> DEFINE new == [fate[h.conn] EXCEPT ![h.index] = "handled"]
  <2>1. fate[h.conn] \in Seq(Fates) /\ "handled" \in Fates
    BY <1>2 DEF Shapes, Fates
  <2>2. /\ new \in Seq(Fates) /\ Len(new) = Len(fate[h.conn])
        /\ DOMAIN new = DOMAIN fate[h.conn]
        /\ \A j \in DOMAIN fate[h.conn] :
             new[j] = IF j = h.index THEN "handled" ELSE fate[h.conn][j]
    BY <1>2, <2>1
  <2>3. fate' = [fate EXCEPT ![h.conn] = new]
    BY <1>1
  <2> HIDE DEF new
  <2> QED
    BY <1>2, <2>2, <2>3 DEF Shapes
<1>4. Submitted' = Submitted
  BY <1>1, <1>3 DEF Submitted, Event
<1>5. \A x \in Submitted : Fate(x)' = IF x = h THEN "handled" ELSE Fate(x)
  <2> TAKE x \in Submitted
  <2>1. x.conn \in Conns /\ x.index \in DOMAIN fate[x.conn] /\ x = Event(x.conn, x.index)
    BY SubmittedEvents
  <2>2. x = h <=> x.conn = h.conn /\ x.index = h.index
    BY <1>2, <2>1
  <2> QED
    BY <1>3, <2>1, <2>2 DEF Fate
<1>6. \A f : \A x : x \in Having(f)' <=> x \in Submitted /\ f = (IF x = h THEN "handled" ELSE Fate(x))
  BY <1>4, <1>5 DEF Having
<1>7. Having("queued") = ToSet(items) \cup {h}
  BY <1>1 DEF Contents, WaitOnce, InTheirWay, h
<1>8. Having("queued")' = ToSet(items)
  BY <1>2, <1>6, <1>7 DEF Having
<1>9. WaitOnce'
  BY <1>1, <1>2, <1>4, <1>8, SubmittedEvents DEF Contents, WaitOnce, InTheirWay
<1>10. HighValueIsKept'
  BY <1>6 DEF Contents, HighValueIsKept, Having
<1>11. InOrder'
  <2>1. \A x \in ToSet(items) : Before(h, x)
    BY <1>1 DEF Contents, InOrder, h
  <2>2. \A f \in Having("handled")' : f = h \/ f \in Having("handled")
    BY <1>6 DEF Having
  <2>3. \A f \in Having("handled") : \A x \in Having("queued") : Before(f, x)
    BY DEF Contents, InOrder, HighValueInOrder, Before
  <2>4. \A f \in Having("handled")' : \A x \in Having("queued")' : Before(f, x)
    BY <1>7, <1>8, <2>1, <2>2, <2>3
  <2>5. HighValueInOrder'
    BY <2>4 DEF HighValueInOrder, Before
  <2> QED
    BY <1>1, <2>5 DEF Contents, InOrder
<1>12. \A f \in {"refused", "replaced", "displaced"} : Having(f)' = Having(f)
  <2>1. h \in Submitted /\ Fate(h) = "queued"
    BY <1>2, <1>7 DEF Having
  <2> QED
    BY <1>6, <2>1 DEF Having
<1> QED
  BY <1>3, <1>4, <1>9, <1>10, <1>11, <1>12 DEF Contents
-----------------------------------------------------------------------------
\* Submit counts the new event and the one given up for it once each.
LEMMA SubmitKeepsCounts ==
    ASSUME Shapes, Contents, Counts, NEW c \in Conns, Submit(c)
    PROVE  Counts'
<1> DEFINE e == Event(c, Len(fate[c]) + 1)
           New == IF Takes(items, e) THEN "queued" ELSE "refused"
           Lost == IF Replaces(items, e) THEN "replaced" ELSE "displaced"
           G == GivenUp(items, e)
           refused == Having("refused")
           replaced == Having("replaced")
           gone == Having("refused") \cup Having("displaced")
<1>1. /\ items' = Offer(items, e) /\ Submitted' = Submitted \cup {e} /\ e \notin Submitted
      /\ fate'[e.conn][e.index] = New
      /\ \A x \in Submitted : Fate(x)' = IF x \in G THEN Lost ELSE Fate(x)
  BY SubmitEffect DEF Contents
<1>2. stats' = Counted(e)
  BY DEF Submit
<1>3. NoEvent \notin Submitted
  BY SubmittedEvents
<1> HIDE DEF e
<1>4. /\ items \in Seq(Submitted \cup {e}) /\ ToSet(items) \subseteq Submitted
      /\ e \notin ToSet(items) /\ Distinct(items) /\ Len(items) <= Capacity
  <2>1. items \in Seq(Submitted) /\ Distinct(items) /\ Len(items) <= Capacity
    BY DEF Contents, WaitOnce
  <2>2. ToSet(items) \subseteq Submitted
    BY <2>1 DEF ToSet
  <2> QED
    BY <1>1, <2>1, <2>2, SeqMonotonic
<1>5. /\ G # {} => Takes(items, e)
      /\ G \subseteq ToSet(items)
      /\ Appends(items, e) => G = {}
      /\ Replaces(items, e) \/ Displaces(items, e) => \E x : G = {x}
  <2> DEFINE S == Submitted \cup {e}
  <2>1. e \in S /\ items \in Seq(S)
    BY <1>4
  <2> HIDE DEF S
  <2> QED
    BY <1>4, <2>1, OfferEffect
<1> HIDE DEF G
<1>6. \A x \in G : x \in Submitted /\ Fate(x) = "queued"
  BY <1>4, <1>5 DEF Contents, WaitOnce, InTheirWay, Having
<1>7. \A f : \A x : x \in Having(f)' <=>
                      \/ x = e /\ New = f
                      \/ x \in Submitted /\ f = (IF x \in G THEN Lost ELSE Fate(x))
  BY <1>1 DEF Having, Fate
<1>8. \A f : \A x : x \in Having(f) <=> x \in Submitted /\ Fate(x) = f
  BY DEF Having
<1>9. /\ IsFiniteSet(Submitted) /\ IsFiniteSet(replaced) /\ IsFiniteSet(gone)
      /\ IsFiniteSet(Submitted \ refused)
      /\ stats.coalesced = Cardinality(replaced) /\ stats.dropped = Cardinality(gone)
      /\ stats.accepted + stats.coalesced = Cardinality(Submitted \ refused)
      /\ stats \in [accepted : Nat, dropped : Nat, coalesced : Nat]
  <2>1. replaced \subseteq Submitted /\ gone \subseteq Submitted /\ Submitted \ refused \subseteq Submitted
    BY <1>8
  <2> QED
    BY <2>1, FS_Subset DEF Counts, StatsAccountForEvents
<1> DEFINE N == [accepted : Nat, dropped : Nat, coalesced : Nat]
<1> HIDE DEF New, Lost, refused, replaced, gone
<1>10. IsFiniteSet(Submitted')
  BY <1>1, <1>9, FS_AddElement
<1>11. CASE Takes(items, e)
  <2>1. New = "queued"
    BY <1>11 DEF New
  <2>2. refused' = refused
    BY <1>6, <1>7, <1>8, <2>1 DEF refused, Lost
  <2>3. Submitted' \ refused' = (Submitted \ refused) \cup {e} /\ e \notin Submitted \ refused
    BY <1>1, <1>8, <2>2 DEF refused
  <2>4. Cardinality(Submitted' \ refused') = Cardinality(Submitted \ refused) + 1
    BY <1>9, <2>3, FS_AddElement, ZenonT(40)
  <2>5. CASE Replaces(items, e)
    <3>1. PICK lost : G = {lost}
      BY <1>5, <2>5
    <3>2. replaced' = replaced \cup {lost} /\ lost \notin replaced
      BY <1>6, <1>7, <1>8, <2>1, <2>5, <3>1 DEF replaced, Lost
    <3>3. gone' = gone
      BY <1>6, <1>7, <1>8, <2>1, <2>5, <3>1 DEF gone, Lost
    <3>4. Cardinality(replaced') = Cardinality(replaced) + 1
      BY <1>9, <3>2, FS_AddElement
    <3>5. stats' = [stats EXCEPT !.coalesced = @ + 1]
      BY <1>2, <2>5 DEF Counted
    <3>6. /\ stats' \in N /\ stats'.coalesced = stats.coalesced + 1
          /\ stats'.dropped = stats.dropped /\ stats'.accepted = stats.accepted
      BY <1>9, <3>5
    <3>7. stats.accepted + (stats.coalesced + 1) = Cardinality(Submitted' \ refused')
      BY <1>9, <2>4
    <3> QED
      BY <1>9, <1>10, <3>3, <3>4, <3>6, <3>7
      DEF Counts, StatsAccountForEvents, replaced, gone, refused
  <2>6. CASE Displaces(items, e)
    <3>0. ~Replaces(items, e)
      BY <2>6 DEF Displaces
    <3>1. PICK lost : G = {lost}
      BY <1>5, <2>6
    <3>2. gone' = gone \cup {lost} /\ lost \notin gone
      BY <1>6, <1>7, <1>8, <2>1, <3>0, <3>1 DEF gone, Lost
    <3>3. replaced' = replaced
      BY <1>6, <1>7, <1>8, <2>1, <3>0, <3>1 DEF replaced, Lost
    <3>4. Cardinality(gone') = Cardinality(gone) + 1 /\ Cardinality(G) = 1
      BY <1>9, <3>1, <3>2, FS_AddElement, FS_Singleton
    <3>5. stats' = [stats EXCEPT !.accepted = @ + 1, !.dropped = @ + 1]
      BY <1>2, <1>11, <3>0, <3>4 DEF Counted, G
    <3>6. /\ stats' \in N /\ stats'.coalesced = stats.coalesced
          /\ stats'.dropped = stats.dropped + 1 /\ stats'.accepted = stats.accepted + 1
      <4> DEFINE r == [stats EXCEPT !.accepted = @ + 1]
      <4>1. /\ r \in N /\ r.accepted = stats.accepted + 1
            /\ r.dropped = stats.dropped /\ r.coalesced = stats.coalesced
        BY <1>9
      <4>2. stats' = [r EXCEPT !.dropped = @ + 1]
        BY <1>9, <3>5
      <4> HIDE DEF r
      <4> QED
        BY <1>9, <4>1, <4>2
    <3>7. stats.accepted + stats.coalesced + 1 = Cardinality(Submitted' \ refused')
      BY <1>9, <2>4
    <3> QED
      BY <1>9, <1>10, <3>3, <3>2, <3>4, <3>6, <3>7
      DEF Counts, StatsAccountForEvents, replaced, gone, refused
  <2>7. CASE Appends(items, e)
    <3>0. ~Replaces(items, e)
      BY <2>7 DEF Appends
    <3>1. G = {} /\ Cardinality(G) = 0
      BY <1>5, <2>7, FS_EmptySet
    <3>2. gone' = gone /\ replaced' = replaced
      BY <1>7, <1>8, <2>1, <3>1 DEF gone, replaced
    <3>3. stats' = [stats EXCEPT !.accepted = @ + 1, !.dropped = @ + 0]
      BY <1>2, <1>11, <3>0, <3>1 DEF Counted, G
    <3>4. /\ stats' \in N /\ stats'.coalesced = stats.coalesced
          /\ stats'.dropped = stats.dropped /\ stats'.accepted = stats.accepted + 1
      <4> DEFINE r == [stats EXCEPT !.accepted = @ + 1]
      <4>1. /\ r \in N /\ r.accepted = stats.accepted + 1
            /\ r.dropped = stats.dropped /\ r.coalesced = stats.coalesced
        BY <1>9
      <4>2. stats' = [r EXCEPT !.dropped = @ + 0]
        BY <1>9, <3>3
      <4> HIDE DEF r
      <4> QED
        BY <1>9, <4>1, <4>2
    <3>5. stats.accepted + stats.coalesced + 1 = Cardinality(Submitted' \ refused')
      BY <1>9, <2>4
    <3> QED
      BY <1>9, <1>10, <3>2, <3>4, <3>5, SMTT(30)
      DEF Counts, StatsAccountForEvents, replaced, gone, refused
  <2> QED
    BY <1>11, <2>5, <2>6, <2>7 DEF Takes
<1>12. CASE ~Takes(items, e)
  <2>1. New = "refused" /\ G = {}
    BY <1>5, <1>12 DEF New
  <2>2. refused' = refused \cup {e} /\ gone' = gone \cup {e} /\ replaced' = replaced
    <3>1. \A f : \A x : x \in Having(f)' <=> (x = e /\ f = "refused") \/ x \in Having(f)
      BY <1>7, <1>8, <2>1
    <3>2. Having("refused")' = Having("refused") \cup {e}
      BY <3>1
    <3>3. Having("replaced")' = Having("replaced") /\ Having("displaced")' = Having("displaced")
      <4>1. \A x : x \in Having("replaced")' <=> x \in Having("replaced")
        BY <3>1
      <4>2. \A x : x \in Having("displaced")' <=> x \in Having("displaced")
        BY <3>1
      <4> QED
        BY <4>1, <4>2
    <3> QED
      BY <3>2, <3>3 DEF refused, gone, replaced
  <2>3. e \notin gone
    BY <1>1, <1>8 DEF gone
  <2>4. Cardinality(gone') = Cardinality(gone) + 1
    BY <1>9, <2>2, <2>3, FS_AddElement
  <2>5. Submitted' \ refused' = Submitted \ refused
    BY <1>1, <2>2
  <2>6. stats' = [stats EXCEPT !.dropped = @ + 1]
    BY <1>2, <1>12 DEF Counted, Takes
  <2>7. /\ stats' \in N /\ stats'.coalesced = stats.coalesced
        /\ stats'.dropped = stats.dropped + 1 /\ stats'.accepted = stats.accepted
    BY <1>9, <2>6
  <2> QED
    BY <1>9, <1>10, <2>2, <2>4, <2>5, <2>7
    DEF Counts, StatsAccountForEvents, replaced, gone, refused
<1> QED
  BY <1>11, <1>12

\* Handling an event is none of the queue's counters' concern.
LEMMA HandleKeepsCounts ==
    ASSUME Shapes, Contents, Counts, Handle
    PROVE  Counts'
<1>1. stats' = stats
  BY DEF Handle, queueVars
<1>2. /\ Submitted' = Submitted
      /\ \A f \in {"refused", "replaced", "displaced"} : Having(f)' = Having(f)
  BY HandleKeepsContents
<1> QED
  BY <1>1, <1>2 DEF Counts, StatsAccountForEvents

\* A step that submits and handles nothing leaves the counters right.
LEMMA QuietStepKeepsCounts ==
    ASSUME Shapes, Counts, UNCHANGED <<stats, fate>>,
           \A c \in Conns : fate[c] # <<>> => batch'[c] = batch[c]
    PROVE  Counts'
<1>1. Submitted' = Submitted /\ \A f : Having(f)' = Having(f)
  BY QuietSubmitted
<1> QED
  BY <1>1 DEF Counts, StatsAccountForEvents
-----------------------------------------------------------------------------
\* Every step keeps the shapes: a worker submits only what is left of its batch.
LEMMA ShapesKept ==
    ASSUME Shapes, Contents, [Next]_vars
    PROVE  Shapes'
<1> DEFINE Bounds(c) == /\ batch[c] = <<>> \/ batch[c] \in Payloads[c]
                        /\ Len(fate[c]) <= Len(batch[c])
                        /\ worker[c] \in {"absent", "reading"} => fate[c] = <<>>
                        /\ worker[c] = "submitting" => Len(fate[c]) < Len(batch[c])
<1> USE DEF WorkerStates
<1>1. \A c \in Conns : Len(fate[c]) \in Nat /\ Len(batch[c]) \in Nat /\ Bounds(c)
  BY SubmittedEvents DEF Shapes
<1>2. ASSUME NEW c \in Conns, Accept(c)
      PROVE  Shapes'
  BY <1>2 DEF Accept, Shapes
<1>3. ASSUME NEW c \in Conns, ReadBatch(c)
      PROVE  Shapes'
  <2>1. PICK payload \in Payloads[c] :
           /\ batch' = [batch EXCEPT ![c] = payload]
           /\ worker' = [worker EXCEPT ![c] = IF Valid(payload) THEN "submitting" ELSE "closed"]
    BY <1>3 DEF ReadBatch
  <2>2. Len(payload) \in Nat \ {0}
    BY IngressAssumption DEF Conns
  <2>3. fate[c] = <<>> /\ fate' = fate
    BY <1>3 DEF ReadBatch, Shapes
  <2>4. Len(fate'[c]) = 0
    BY <2>3
  <2>5. batch' \in [Conns -> {<<>>} \cup UNION {Payloads[d] : d \in Conns}]
    <3>1. payload \in UNION {Payloads[d] : d \in Conns}
      OBVIOUS
    <3> QED
      BY <2>1, <3>1 DEF Shapes
  <2>6. worker' \in [Conns -> WorkerStates]
    BY <2>1 DEF Shapes
  <2>7. \A d \in Conns : Bounds(d)'
    BY <1>1, <2>1, <2>2, <2>3, <2>4 DEF Shapes
  <2> QED
    BY <2>3, <2>5, <2>6, <2>7 DEF Shapes
<1>4. ASSUME NEW c \in Conns, ReadFails(c)
      PROVE  Shapes'
  BY <1>4 DEF ReadFails, Shapes
<1>5. ASSUME NEW c \in Conns, Submit(c)
      PROVE  Shapes'
  <2>1. /\ fate' \in [Conns -> Seq(Fates)] /\ batch' = batch
        /\ \A d \in Conns : Len(fate'[d]) = IF d = c THEN Len(fate[d]) + 1 ELSE Len(fate[d])
    BY <1>5, SubmitEffect DEF Contents
  <2>2. PICK next \in {"waking", AfterSubmit(c, Len(fate[c]) + 1)} :
           worker' = [worker EXCEPT ![c] = next]
    BY <1>5 DEF Submit
  <2>3. /\ next \in {"waking", "acking", "submitting"}
        /\ next = "submitting" => Len(fate[c]) + 1 # Len(batch[c])
    BY <2>2 DEF AfterSubmit
  <2>4. Len(fate[c]) < Len(batch[c])
    BY <1>5 DEF Submit, Shapes
  <2>5. worker' \in [Conns -> WorkerStates]
    BY <2>2, <2>3 DEF Shapes
  <2>6. \A d \in Conns : Bounds(d)'
    <3> TAKE d \in Conns
    <3>1. CASE d = c
      BY <1>1, <2>1, <2>2, <2>3, <2>4, <3>1 DEF Shapes
    <3>2. CASE d # c
      <4>1. worker'[d] = worker[d] /\ Len(fate'[d]) = Len(fate[d])
        BY <2>1, <2>2, <3>2 DEF Shapes
      <4>2. fate[d] = <<>> => fate'[d] = <<>>
        BY <2>1, <4>1
      <4> QED
        BY <1>1, <2>1, <4>1, <4>2
    <3> QED
      BY <3>1, <3>2
  <2> QED
    BY <2>1, <2>5, <2>6 DEF Shapes
<1>6. ASSUME NEW c \in Conns, Wake(c)
      PROVE  Shapes'
  BY <1>1, <1>6 DEF Wake, AfterSubmit, Shapes
<1>7. ASSUME NEW c \in Conns, Ack(c)
      PROVE  Shapes'
  BY <1>7 DEF Ack, Shapes
<1>8. CASE Handle
  <2>1. /\ fate' \in [Conns -> Seq(Fates)]
        /\ \A c \in Conns : Len(fate'[c]) = Len(fate[c])
    BY <1>8, HandleKeepsContents
  <2>2. worker' = worker /\ batch' = batch
    BY <1>8 DEF Handle, ipcVars
  <2>3. \A c \in Conns : Bounds(c)'
    <3> TAKE c \in Conns
    <3>1. fate[c] = <<>> => fate'[c] = <<>>
      BY <2>1
    <3> QED
      BY <1>1, <2>1, <2>2, <3>1
  <2> QED
    BY <2>1, <2>2, <2>3 DEF Shapes
<1>9. CASE UNCHANGED <<worker, batch, fate>>
  BY <1>9 DEF Shapes
<1> QED
  BY <1>2, <1>3, <1>4, <1>5, <1>6, <1>7, <1>8, <1>9
  DEF Next, WorkerStep, ServeStep, CollectorStep, ShutdownStep, ServeStops, ServeCloses, Pop,
      Drained, SelectWake, SelectStop, Tick, StopIpc, CloseListener, StopCollector,
      CollectorStopped, vars, ipcVars

\* Every step keeps the contents of the way in.
LEMMA ContentsKept ==
    ASSUME Shapes, Contents, [Next]_vars
    PROVE  Contents'
<1>1. ASSUME NEW c \in Conns, ReadBatch(c)
      PROVE  Contents'
  <2>1. fate[c] = <<>> /\ UNCHANGED <<items, handling, fate>>
    BY <1>1 DEF ReadBatch, Shapes, queueVars, loopVars
  <2>2. \A d \in Conns : d # c => batch'[d] = batch[d]
    BY <1>1 DEF ReadBatch, Shapes
  <2> QED
    BY <2>1, <2>2, QuietStep
<1>2. ASSUME NEW c \in Conns, Submit(c)
      PROVE  Contents'
  BY <1>2, SubmitKeepsContents
<1>3. CASE Pop
  BY <1>3, PopKeepsContents
<1>4. CASE Handle
  BY <1>4, HandleKeepsContents
<1>5. CASE UNCHANGED <<items, handling, fate, batch>>
  BY <1>5, QuietStep
<1> QED
  BY <1>1, <1>2, <1>3, <1>4, <1>5
  DEF Next, WorkerStep, ServeStep, CollectorStep, ShutdownStep, Accept, ReadFails, Wake, Ack,
      ServeStops, ServeCloses, Drained, SelectWake, SelectStop, Tick, StopIpc, CloseListener,
      StopCollector, CollectorStopped, vars, ipcVars, queueVars, loopVars

\* Every step keeps the counters true to the events.
LEMMA CountsKept ==
    ASSUME Shapes, Contents, Counts, [Next]_vars
    PROVE  Counts'
<1>1. ASSUME NEW c \in Conns, ReadBatch(c)
      PROVE  Counts'
  <2>1. fate[c] = <<>> /\ UNCHANGED <<stats, fate>>
    BY <1>1 DEF ReadBatch, Shapes, queueVars
  <2>2. \A d \in Conns : d # c => batch'[d] = batch[d]
    BY <1>1 DEF ReadBatch, Shapes
  <2> QED
    BY <2>1, <2>2, QuietStepKeepsCounts
<1>2. ASSUME NEW c \in Conns, Submit(c)
      PROVE  Counts'
  BY <1>2, SubmitKeepsCounts
<1>3. CASE Handle
  BY <1>3, HandleKeepsCounts
<1>4. CASE UNCHANGED <<stats, fate, batch>>
  BY <1>4, QuietStepKeepsCounts
<1> QED
  BY <1>1, <1>2, <1>3, <1>4
  DEF Next, WorkerStep, ServeStep, CollectorStep, ShutdownStep, Accept, ReadFails, Wake, Ack,
      ServeStops, ServeCloses, Pop, Drained, SelectWake, SelectStop, Tick, StopIpc, CloseListener,
      StopCollector, CollectorStopped, vars, ipcVars, queueVars

\* Every step keeps the stages: nothing is submitted once the server is closed,
\* and the collector finishes only after that.
LEMMA StagesKept ==
    ASSUME Shapes, Stages, [Next]_vars
    PROVE  Stages'
<1> USE DEF Stages
<1>1. ASSUME NEW c \in Conns, Accept(c)
      PROVE  Stages'
  <2>1. serve = "accepting" /\ serve' = serve /\ UNCHANGED <<shutdown, stop, loop, handling, items, wake>>
    BY <1>1 DEF Accept, queueVars, loopVars
  <2> QED
    BY <2>1
<1>2. ASSUME NEW c \in Conns, WorkerStep(c)
      PROVE  Stages'
  <2>1. c \in Busy
    BY <1>2 DEF WorkerStep, ReadBatch, ReadFails, Submit, Wake, Ack, Busy
  <2>2. serve # "closed" /\ ~stop /\ loop \notin {"finishing", "done"}
    BY <2>1
  <2>3. UNCHANGED <<serve, shutdown, stop, loop, handling>> /\ wake' \in BOOLEAN
    BY <1>2 DEF WorkerStep, ReadBatch, ReadFails, Submit, Wake, Ack, queueVars, loopVars
  <2> QED
    BY <2>2, <2>3
<1>3. CASE ServeStep
  BY <1>3 DEF ServeStep, ServeStops, ServeCloses, Busy, queueVars, loopVars
<1>4. CASE CollectorStep \/ Tick
  <2>1. UNCHANGED <<serve, worker, stop, shutdown>> /\ Busy' = Busy
    BY <1>4 DEF CollectorStep, Pop, Handle, Drained, SelectWake, SelectStop, Tick, ipcVars, Busy
  <2>2. CASE Pop
    BY <2>1, <2>2 DEF Pop
  <2>3. CASE Handle
    BY <2>1, <2>3 DEF Handle, queueVars
  <2>4. CASE Drained
    BY <2>1, <2>4 DEF Drained, queueVars
  <2>5. CASE SelectWake \/ SelectStop \/ Tick
    BY <2>1, <2>5 DEF SelectWake, SelectStop, Tick, queueVars
  <2> QED
    BY <1>4, <2>2, <2>3, <2>4, <2>5 DEF CollectorStep
<1>5. CASE StopIpc \/ ShutdownStep
  <2>1. UNCHANGED <<serve, worker, loop, handling, items, wake>> /\ Busy' = Busy
    BY <1>5 DEF StopIpc, ShutdownStep, CloseListener, StopCollector, CollectorStopped,
                ipcVars, queueVars, loopVars, Busy
  <2>2. CASE StopIpc
    BY <2>1, <2>2 DEF StopIpc, ShutdownGoes
  <2>3. CASE CloseListener
    BY <2>1, <2>3 DEF CloseListener, ShutdownGoes
  <2>4. CASE StopCollector
    BY <2>1, <2>4 DEF StopCollector, ShutdownGoes
  <2>5. CASE CollectorStopped
    BY <2>1, <2>5 DEF CollectorStopped, ShutdownGoes
  <2> QED
    BY <1>5, <2>2, <2>3, <2>4, <2>5 DEF ShutdownStep
<1>6. CASE UNCHANGED vars
  BY <1>6 DEF vars, ipcVars, queueVars, loopVars, Busy
<1> QED
  BY <1>1, <1>2, <1>3, <1>4, <1>5, <1>6 DEF Next

\* The invariant holds at the start.
LEMMA InitEstablishes == Init => IInv
<1> SUFFICES ASSUME Init
             PROVE  IInv
  OBVIOUS
<1>1. Shapes
  BY DEF Init, Shapes, WorkerStates
<1>2. Submitted = {}
  BY DEF Init, Submitted
<1>3. \A f : Having(f) = {}
  BY <1>2 DEF Having
<1>4. items = <<>> /\ DOMAIN items = {} /\ ToSet(items) = {} /\ handling = NoEvent
  BY DEF Init, ToSet
<1>5. WaitOnce
  <2>1. items \in Seq(Submitted) /\ Len(items) <= Capacity
    BY <1>4, CapacityAssumption
  <2> QED
    BY <1>3, <1>4, <2>1 DEF WaitOnce, Distinct, InTheirWay
<1>6. HighValueIsKept /\ InOrder
  BY <1>3, <1>4 DEF HighValueIsKept, InOrder, Ordered, HighValueInOrder
<1>7. Stages
  BY DEF Init, Stages
<1>8. Counts
  <2>1. IsFiniteSet(Submitted) /\ Cardinality(Submitted \ Having("refused")) = 0
        /\ Cardinality(Having("replaced")) = 0
        /\ Cardinality(Having("refused") \cup Having("displaced")) = 0
    <3>1. Having("refused") \cup Having("displaced") = {} /\ Having("replaced") = {}
          /\ Submitted \ Having("refused") = {}
      BY <1>2, <1>3
    <3> QED
      BY <1>2, <3>1, FS_EmptySet
  <2>2. /\ stats \in [accepted : Nat, dropped : Nat, coalesced : Nat]
        /\ stats.accepted = 0 /\ stats.dropped = 0 /\ stats.coalesced = 0
    BY DEF Init
  <2> QED
    BY <2>1, <2>2 DEF Counts, StatsAccountForEvents
<1> QED
  BY <1>1, <1>5, <1>6, <1>7, <1>8 DEF IInv

LEMMA NextKeeps == IInv /\ [Next]_vars => IInv'
BY ShapesKept, ContentsKept, CountsKept, StagesKept DEF IInv, Contents

\* The invariant holds throughout.
LEMMA IInvHolds == Spec => []IInv
<1>1. Init => IInv
  BY InitEstablishes
<1>2. IInv /\ [Next]_vars => IInv'
  BY NextKeeps
<1> QED
  BY <1>1, <1>2, PTL DEF Spec

\* The queue never exceeds its capacity, and exactly the events that wait in
\* it or in the handler's hands count as queued, each in one place.
THEOREM IngressTypeCorrect == Spec => []TypeOK
<1>1. IInv => TypeOK
  BY DEF IInv, Shapes, WaitOnce, Stages, TypeOK, WorkerStates
<1> QED
  BY <1>1, IInvHolds, PTL

\* No event of high value that the queue has taken is given up for another.
THEOREM HighValueAlwaysKept == Spec => []HighValueIsKept
<1>1. IInv => HighValueIsKept
  BY DEF IInv
<1> QED
  BY <1>1, IInvHolds, PTL

\* The queue's counters account for every event offered and for each loss once.
THEOREM StatsAlwaysAccount == Spec => []StatsAccountForEvents
<1>1. IInv => StatsAccountForEvents
  BY DEF IInv, Counts
<1> QED
  BY <1>1, IInvHolds, PTL

\* Events of high value of one batch are handled in the adapter's order.
THEOREM HighValueAlwaysInOrder == Spec => []HighValueInOrder
<1>1. IInv => HighValueInOrder
  BY DEF IInv, InOrder
<1> QED
  BY <1>1, IInvHolds, PTL

\* Once the shutdown is past the collector nothing is left waiting and no
\* worker is left that could submit more.
THEOREM ShutdownAlwaysDrains == Spec => []ShutdownDrains
<1>1. IInv => ShutdownDrains
  <2> SUFFICES ASSUME IInv, shutdown = "collector_stopped"
               PROVE  Having("queued") = {} /\ Busy = {}
    BY DEF ShutdownDrains
  <2>1. loop = "done" /\ stop /\ serve = "closed" /\ items = <<>> /\ handling = NoEvent /\ Busy = {}
    BY DEF IInv, Stages
  <2>2. InTheirWay = {}
    BY <2>1 DEF InTheirWay, ToSet
  <2> QED
    BY <2>1, <2>2 DEF IInv, WaitOnce
<1> QED
  BY <1>1, IInvHolds, PTL

-----------------------------------------------------------------------------
\* Whoever takes the next event from the queue is on the way: the collector
\* drains, or is about to be woken by a token, the stop, or a worker.
SomebodyComes ==
    items # <<>> =>
        \/ loop \in {"draining", "finishing"}
        \/ loop = "selecting" /\ (wake \/ stop \/ \E c \in Conns : worker[c] = "waking")

\* A worker that offers an event the queue takes is left to wake the collector.
LEMMA WorkersCome ==
    ASSUME Shapes, Stages, SomebodyComes, NEW c \in Conns, Accept(c) \/ WorkerStep(c)
    PROVE  SomebodyComes'
<1>0. /\ UNCHANGED <<loop, stop>>
      /\ worker = [d \in Conns |-> worker[d]]
  BY DEF Accept, WorkerStep, ReadBatch, ReadFails, Submit, Wake, Ack, loopVars, Shapes
<1>1. CASE Wake(c)
  BY <1>0, <1>1 DEF Wake, SomebodyComes, queueVars, Stages
<1>2. CASE Submit(c) /\ worker'[c] = "waking"
  <2>1. loop # "done"
    <3>1. c \in Busy
      BY <1>2 DEF Submit, Busy
    <3> QED
      BY <3>1 DEF Stages
  <2> QED
    BY <1>0, <1>2, <2>1 DEF SomebodyComes, Stages
<1>3. ASSUME ~Wake(c), ~(Submit(c) /\ worker'[c] = "waking")
      PROVE  SomebodyComes'
  <2>1. worker[c] # "waking" /\ wake' = wake /\ items' = items
    <3>1. CASE Submit(c)
      <4>1. ~Takes(items, Event(c, Len(fate[c]) + 1))
        BY <1>0, <1>3, <3>1 DEF Submit
      <4>2. items' = items
        BY <3>1, <4>1 DEF Submit, Offer, Takes
      <4> QED
        BY <3>1, <4>2 DEF Submit, loopVars
    <3>2. CASE ~Submit(c)
      BY <1>3, <3>2 DEF Accept, WorkerStep, ReadBatch, ReadFails, Ack, loopVars, queueVars
    <3> QED
      BY <3>1, <3>2
  <2>2. \A d \in Conns : worker[d] = "waking" => worker'[d] = "waking"
    <3>1. \A d \in Conns : d # c => worker'[d] = worker[d]
      BY <1>0 DEF Accept, WorkerStep, ReadBatch, ReadFails, Submit, Wake, Ack
    <3> QED
      BY <2>1, <3>1
  <2> QED
    BY <1>0, <2>1, <2>2 DEF SomebodyComes
<1> QED
  BY <1>1, <1>2, <1>3

\* The collector only blocks when the queue is empty, and takes the token with
\* a drain.
LEMMA NextComes ==
    ASSUME Shapes, Stages, SomebodyComes, [Next]_vars
    PROVE  SomebodyComes'
<1>1. ASSUME NEW c \in Conns, Accept(c) \/ WorkerStep(c)
      PROVE  SomebodyComes'
  BY <1>1, WorkersCome
<1>2. CASE Pop
  BY <1>2 DEF Pop, SomebodyComes, ipcVars
<1>3. CASE Handle
  BY <1>3 DEF Handle, SomebodyComes, ipcVars, queueVars
<1>4. CASE Drained \/ SelectWake \/ SelectStop \/ Tick
  BY <1>4 DEF Drained, SelectWake, SelectStop, Tick, SomebodyComes, ipcVars, queueVars, Stages
<1>5. CASE ServeStep \/ StopIpc \/ ShutdownStep \/ UNCHANGED vars
  <2>1. UNCHANGED <<items, loop, wake, worker>> /\ (stop => stop')
    BY <1>5 DEF ServeStep, ServeStops, ServeCloses, StopIpc, ShutdownStep, CloseListener,
                StopCollector, CollectorStopped, ShutdownGoes, vars, ipcVars, queueVars, loopVars
  <2> QED
    BY <2>1 DEF SomebodyComes
<1> QED
  BY <1>1, <1>2, <1>3, <1>4, <1>5 DEF Next, CollectorStep

\* No wake-up is lost, for any number of connections: what waits in the queue
\* is drained without help of the 250 ms timer, also when workers submit while
\* the collector finishes a drain or is told to stop.
THEOREM NoWakeUpIsLost == Spec => []SomebodyComes
<1>1. Init => SomebodyComes
  BY DEF Init, SomebodyComes
<1>2. IInv => Shapes /\ Stages
  BY DEF IInv
<1> QED
  BY <1>1, <1>2, NextComes, IInvHolds, PTL DEF Spec

=============================================================================
