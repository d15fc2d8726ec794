------------------------- MODULE LiveDesktopProofs --------------------------
(***************************************************************************)
(* Proofs about LiveDesktop, for every finite feed of events, any number   *)
(* of project loads and a journal queue of any capacity.                   *)
(*                                                                         *)
(* The invariant has a part for the engine's table and the requests with   *)
(* the pipeline (MemoryInv, CountInv, PendingInv) and one for the journal  *)
(* (QueueInv, BackedInv, FlushInv), whose claims end with the first record *)
(* that is lost.  The second part is about replay: the rows a session's    *)
(* journal holds replay to its live state (ReplayInv).  Then the desktop   *)
(* is shown to be a client WorkService allows (KeysInv), and the cursors a *)
(* replay offers to agree, whatever the journal lost (RowsInv).            *)
(***************************************************************************)
EXTENDS LiveDesktop, SessionStateProofs, FiniteSetTheorems

\* A call of the engine sets no work status; it opens one access at most, at
\* the instant of an event that can take the focus.
SameWork(s, t) ==
    /\ Len(t.intervals) = Len(s.intervals)
    /\ \A i \in 1..Len(s.intervals) : t.intervals[i].status = s.intervals[i].status

OpensOne(s, t, e) ==
    LET n == Len(s.intervals)
    IN  /\ Focuses(e)
        /\ Len(t.intervals) = n + 1
        /\ \A i \in 1..n : t.intervals[i].status = s.intervals[i].status
        /\ t.intervals[n + 1].status = NoStatus
        /\ Starts(t, n + 1) = e.ts

\* States the engine has (StepIsSound in JournalProofs).
GoodStates == {s \in SessionStates : TrailOrdered(s) /\ FocusMatchesTrail(s)}

\* The events among some that can open an access.
Opening(events) == {x \in events : Focuses(x.event)}

\* The engine's table and the requests with the pipeline.
MemoryInv ==
    /\ sessions = [id \in SessionIds |-> sessions[id]]
    /\ \A id \in SessionIds : Known(id) => sessions[id] \in GoodStates
    /\ inFlight \subseteq WorkRequests

\* Every access was opened by an event of its own.
CountInv ==
    /\ applied \subseteq Feed
    /\ \A x \in applied : x.id \in seen
    /\ \A id \in SessionIds : Known(id) =>
          Len(sessions[id].intervals) <= Cardinality(Opening(applied))

\* A pending access has a request in the pipeline.
PendingInv ==
    \A id \in SessionIds : Known(id) => \A n \in 1..Len(sessions[id].intervals) :
        sessions[id].intervals[n].status = "pending" =>
            \E r \in inFlight : r.session = id /\ r.sequence = n

\* Row `row` of session id is stored, or among the first k records on their way.
StoredBy(q, stored, k, id, row) ==
    \/ [session |-> id, row |-> row] \in stored
    \/ \E j \in 1..k : q[j].session = id /\ q[j].row = row

\* So is a row of instant `at`.
TimeStoredBy(q, stored, k, id, at) ==
    \/ \E e \in stored : e.session = id /\ e.row.ts = at
    \/ \E j \in 1..k : q[j].session = id /\ q[j].row.ts = at

TrailStoredBy(q, stored, k, id, s) ==
    \A i \in 1..Len(s.intervals) : TimeStoredBy(q, stored, k, id, Starts(s, i))

\* The last record of session id has state s, or its row has and no record is left.
SavedBy(q, saved, id, s) ==
    \/ \E k \in 1..Len(q) :
          /\ q[k].session = id
          /\ q[k].state = s
          /\ \A m \in 1..Len(q) : m > k => q[m].session # id
    \/ /\ saved[id] = s
       /\ \A m \in 1..Len(q) : q[m].session # id

\* The queue and the stored sessions; a session row is only written after the
\* event row of the record at the head.
QueueInv ==
    /\ \E S : journalQueue \in Seq(S)
    /\ Len(journalQueue) <= JournalCapacity
    /\ \A k \in 1..Len(journalQueue) :
          journalQueue[k].session \in SessionIds /\ journalQueue[k].state \in GoodStates
    /\ sessionRows = [id \in SessionIds |-> sessionRows[id]]
    /\ \A id \in SessionIds : sessionRows[id] # NoSession => sessionRows[id] \in GoodStates
    /\ writing = "session" =>
          /\ journalQueue # <<>>
          /\ [session |-> Head(journalQueue).session, row |-> Head(journalQueue).row] \in eventRows
    /\ stage = "stopped" => journalQueue = <<>>

\* Until a record is lost, an access is never on its way before its event.
BackedInv ==
    ~degraded =>
        /\ \A k \in 1..Len(journalQueue) :
              TrailStoredBy(journalQueue, eventRows, k,
                            journalQueue[k].session, journalQueue[k].state)
        /\ \A id \in SessionIds : Known(id) =>
              TrailStoredBy(journalQueue, eventRows, Len(journalQueue), id, sessions[id])
        /\ \A id \in SessionIds : sessionRows[id] # NoSession =>
              TrailStoredBy(journalQueue, eventRows, 0, id, sessionRows[id])

\* Until a record is lost, what was published and what the sessions are now is
\* stored or on its way.
FlushInv ==
    ~degraded =>
        /\ \A x \in applied :
              StoredBy(journalQueue, eventRows, Len(journalQueue), x.session, EventRow(x))
        /\ \A id \in SessionIds : Known(id) =>
              SavedBy(journalQueue, sessionRows, id, sessions[id])
-----------------------------------------------------------------------------
\* Closing the last access sets no status.
LEMMA CloseCurrentKeepsWork ==
    ASSUME NEW s \in SessionStates, NEW at \in Nat
    PROVE  SameWork(s, CloseCurrent(s, at))
<1>1. CASE ~HasOpen(s)
  BY <1>1 DEF CloseCurrent, SameWork
<1>2. CASE HasOpen(s)
  <2> DEFINE c == CloseInterval(Current(s), at)
             t == WithCurrent(s, c)
  <2>1. s.intervals # <<>> /\ Current(s) \in Intervals
        /\ Current(s) = s.intervals[Len(s.intervals)]
    BY <1>2 DEF HasOpen, SessionStates, Current, Last
  <2>2. c \in Intervals /\ c.status = Current(s).status
    BY <2>1, CloseIntervalEffect DEF CloseInterval, Intervals
  <2> HIDE DEF c
  <2>3. /\ Len(t.intervals) = Len(s.intervals)
        /\ \A i \in 1..Len(s.intervals) :
              t.intervals[i] = IF i = Len(s.intervals) THEN c ELSE s.intervals[i]
    BY <2>1, <2>2, WithCurrentEffect
  <2>4. CloseCurrent(s, at) = t
    BY <1>2 DEF CloseCurrent, c
  <2> HIDE DEF t
  <2> QED
    BY <2>1, <2>2, <2>3, <2>4 DEF SameWork
<1> QED
  BY <1>1, <1>2

\* Neither does a rename that carries the focus along.
LEMMA FollowRenameKeepsWork ==
    ASSUME NEW s \in SessionStates, NEW e \in Events
    PROVE  SameWork(s, FollowRename(s, e))
<1> DEFINE r == FollowRename(s, e)
<1>1. CASE ~CarriesFocus(s, e)
  BY <1>1 DEF FollowRename, SameWork
<1>2. CASE CarriesFocus(s, e) /\ s.intervals = <<>>
  <2>1. r = [s EXCEPT !.activePath = e.path]
    BY <1>2 DEF FollowRename, Relabel
  <2>2. r.intervals = s.intervals
    BY <2>1 DEF SessionStates
  <2> HIDE DEF r
  <2> QED
    BY <2>2 DEF SameWork, r
<1>3. CASE CarriesFocus(s, e) /\ s.intervals # <<>>
  <2> DEFINE c == [Current(s) EXCEPT !.path = e.path]
             w == WithCurrent(s, c)
  <2>1. /\ Current(s) \in Intervals /\ e.path \in Paths
        /\ Current(s) = s.intervals[Len(s.intervals)]
    BY <1>3 DEF Current, Last, SessionStates, Events, CarriesFocus
  <2>2. c \in Intervals /\ c.status = Current(s).status
    BY <2>1 DEF Intervals
  <2>3. r = [w EXCEPT !.activePath = e.path]
    BY <1>3 DEF FollowRename, Relabel
  <2> HIDE DEF c
  <2>4. /\ w \in SessionStates /\ Len(w.intervals) = Len(s.intervals)
        /\ \A i \in 1..Len(s.intervals) :
              w.intervals[i] = IF i = Len(s.intervals) THEN c ELSE s.intervals[i]
    BY <1>3, <2>2, WithCurrentEffect
  <2> HIDE DEF w
  <2>5. r.intervals = w.intervals
    BY <2>3, <2>4 DEF SessionStates
  <2> HIDE DEF r
  <2> QED
    BY <2>1, <2>2, <2>4, <2>5 DEF SameWork, r
<1> QED
  BY <1>1, <1>2, <1>3

\* An access that is opened has no status yet and starts with its event.
LEMMA OpenAccessOpens ==
    ASSUME NEW s \in SessionStates, NEW e \in Events, Focuses(e)
    PROVE  OpensOne(s, OpenAccess(s, e), e)
<1> DEFINE t == OpenAccess(s, e)
           n == Len(s.intervals)
           c == NewInterval(n + 1, e)
<1>1. n \in Nat /\ s.intervals \in Seq(Intervals)
  BY DEF SessionStates
<1>2. c.status = NoStatus /\ c.startedAt = e.ts /\ c \in Intervals
  BY <1>1 DEF NewInterval, Intervals, Events, Focuses
<1> HIDE DEF c
<1>3. t.intervals = Append(s.intervals, c)
  BY DEF OpenAccess, SessionStates, c
<1> HIDE DEF t
<1>4. /\ Len(t.intervals) = n + 1 /\ t.intervals[n + 1] = c
      /\ \A i \in 1..n : t.intervals[i] = s.intervals[i]
  BY <1>1, <1>2, <1>3
<1> QED
  BY <1>2, <1>4 DEF OpensOne, Starts, t

\* Giving the focus to an event opens an access unless one is open already.
LEMMA FocusOpens ==
    ASSUME NEW s \in SessionStates, TrailOrdered(s), NEW e \in Events, Focuses(e), ~Late(s, e)
    PROVE  SameWork(s, Focus(s, e)) \/ OpensOne(s, Focus(s, e), e)
<1> DEFINE u == Touch(s, e)
<1>1. u \in SessionStates /\ TrailOrdered(u) /\ u.intervals = s.intervals
  BY TouchEffect
<1>2. e.path \in Paths /\ e.ts \in Nat
  BY SessionAssumption DEF Focuses, Events
<1> HIDE DEF u
<1>3. CASE s.activePath = e.path /\ ~HasOpen(u)
  <2>1. Focus(s, e) = OpenAccess(u, e)
    BY <1>1, <1>3 DEF Focus, u, HasOpen, Current
  <2>2. OpensOne(u, OpenAccess(u, e), e)
    BY <1>1, OpenAccessOpens
  <2> QED
    BY <1>1, <2>1, <2>2 DEF OpensOne
<1>4. CASE s.activePath = e.path /\ HasOpen(u)
  <2>1. Focus(s, e) = MergeAccess(u, e)
    BY <1>1, <1>4 DEF Focus, u, HasOpen, Current
  <2>2. CASE e.lines = NoLines
    BY <1>1, <2>1, <2>2 DEF MergeAccess, SameWork
  <2>3. CASE e.lines # NoLines
    <3> DEFINE c == [Current(u) EXCEPT !.lines = e.lines]
               t == WithCurrent(u, c)
    <3>1. /\ u.intervals # <<>> /\ Current(u) \in Intervals
          /\ Current(u) = u.intervals[Len(u.intervals)]
      BY <1>1, <1>4 DEF HasOpen, SessionStates, Current, Last
    <3>2. c \in Intervals /\ c.status = Current(u).status
      BY <3>1 DEF Intervals, Events
    <3> HIDE DEF c
    <3>3. /\ Len(t.intervals) = Len(u.intervals)
          /\ \A i \in 1..Len(u.intervals) :
                t.intervals[i] = IF i = Len(u.intervals) THEN c ELSE u.intervals[i]
      BY <1>1, <3>1, <3>2, WithCurrentEffect
    <3>4. Focus(s, e) = t
      BY <2>1, <2>3 DEF MergeAccess, c
    <3> HIDE DEF t
    <3> QED
      BY <1>1, <3>1, <3>2, <3>3, <3>4 DEF SameWork
  <2> QED
    BY <2>2, <2>3
<1>5. CASE s.activePath # e.path
  <2> DEFINE v == CloseCurrent(u, e.ts)
             w == SwitchFocus(u, e)
  <2>1. Focus(s, e) = OpenAccess(w, e)
    BY <1>5 DEF Focus, u
  <2>2. v \in SessionStates /\ SameWork(u, v)
    BY <1>1, <1>2, CloseCurrentEffect, CloseCurrentKeepsWork
  <2>3. w = [v EXCEPT !.previousPath = u.activePath, !.activePath = e.path]
    BY DEF SwitchFocus
  <2> HIDE DEF v, w
  <2>4. w \in SessionStates /\ w.intervals = v.intervals
    BY <1>1, <1>2, <2>2, <2>3 DEF SessionStates
  <2>5. OpensOne(w, OpenAccess(w, e), e)
    BY <2>4, OpenAccessOpens
  <2> QED
    BY <1>1, <2>1, <2>2, <2>4, <2>5 DEF OpensOne, SameWork
<1> QED
  BY <1>3, <1>4, <1>5

\* So does one call of Apply.
LEMMA ApplyEventOpens ==
    ASSUME NEW s \in GoodStates, NEW e \in Events
    PROVE  SameWork(s, ApplyEvent(s, e)) \/ OpensOne(s, ApplyEvent(s, e), e)
<1> DEFINE r == FollowRename(s, e)
<1>0. s \in SessionStates /\ TrailOrdered(s) /\ FocusMatchesTrail(s) /\ e.ts \in Nat
  BY SessionAssumption DEF GoodStates, Events
<1>1. CASE Late(s, e) \/ (e.type # "session_stopped" /\ Ignores(s))
  BY <1>1 DEF ApplyEvent, SameWork
<1>2. CASE ~Late(s, e) /\ e.type = "session_stopped"
  <2> DEFINE v == CloseCurrent(s, e.ts)
  <2>1. ApplyEvent(s, e) = [v EXCEPT !.stoppedAt = e.ts]
    BY <1>2 DEF ApplyEvent, StopSession
  <2>2. v \in SessionStates /\ SameWork(s, v)
    BY <1>0, CloseCurrentEffect, CloseCurrentKeepsWork
  <2> HIDE DEF v
  <2>3. ApplyEvent(s, e).intervals = v.intervals
    BY <2>1, <2>2 DEF SessionStates
  <2> QED
    BY <2>2, <2>3 DEF SameWork
<1>3. CASE ~Late(s, e) /\ e.type # "session_stopped" /\ ~Ignores(s)
  <2>1. /\ r \in SessionStates /\ TrailOrdered(r) /\ r.currentTimestamp = s.currentTimestamp
        /\ SameWork(s, r)
    BY <1>0, FollowRenameEffect, FollowRenameKeepsWork
  <2>2. ApplyEvent(s, e) = IF Focuses(e) /\ ~Outranked(r, e) THEN Focus(r, e) ELSE r
    BY <1>3 DEF ApplyEvent
  <2> HIDE DEF r
  <2>3. CASE Focuses(e) /\ ~Outranked(r, e)
    <3>1. SameWork(r, Focus(r, e)) \/ OpensOne(r, Focus(r, e), e)
      BY <1>3, <2>1, <2>3, FocusOpens DEF Late
    <3> QED
      BY <2>1, <2>2, <2>3, <3>1 DEF SameWork, OpensOne
  <2>4. CASE ~(Focuses(e) /\ ~Outranked(r, e))
    BY <2>1, <2>2, <2>4
  <2> QED
    BY <2>3, <2>4
<1> QED
  BY <1>1, <1>2, <1>3

\* t is a state like s, but for the status of the access with this number.
StatusSet(s, t, sequence, status) ==
    /\ t \in GoodStates
    /\ Len(t.intervals) = Len(s.intervals)
    /\ \A i \in 1..Len(s.intervals) :
         /\ t.intervals[i].status =
               IF i = sequence THEN status ELSE s.intervals[i].status
         /\ Starts(t, i) = Starts(s, i)

\* A work result sets the status of the access it names and nothing else.
LEMMA SetWorkStatus ==
    ASSUME NEW s \in GoodStates, NEW sequence,
           NEW lines \in Lines \cup {NoLines}, NEW status \in Statuses
    PROVE  StatusSet(s, SetWork(s, sequence, lines, status), sequence, status)
<1> DEFINE n == Len(s.intervals)
           t == SetWork(s, sequence, lines, status)
           q == [i \in DOMAIN s.intervals |->
                    IF s.intervals[i].sequence = sequence
                    THEN [s.intervals[i] EXCEPT !.lines = lines, !.status = status]
                    ELSE s.intervals[i]]
<1>1. s \in SessionStates /\ TrailOrdered(s) /\ FocusMatchesTrail(s)
  BY DEF GoodStates
<1>2. /\ n \in Nat /\ DOMAIN s.intervals = 1..n
      /\ \A i \in 1..n : s.intervals[i] \in Intervals /\ s.intervals[i].sequence = i
  BY <1>1 DEF SessionStates, TrailOrdered
<1>3. t \in GoodStates
  BY <1>1, SetWorkEffect DEF GoodStates
<1>4. t.intervals = q
  BY <1>1 DEF SetWork, SessionStates
<1> HIDE DEF t
<1>5. \A i \in 1..n :
        /\ q[i].status = IF i = sequence THEN status ELSE s.intervals[i].status
        /\ q[i].startedAt = s.intervals[i].startedAt
  <2> SUFFICES ASSUME NEW i \in 1..n
               PROVE  /\ q[i].status = IF i = sequence THEN status ELSE s.intervals[i].status
                      /\ q[i].startedAt = s.intervals[i].startedAt
    OBVIOUS
  <2>1. q[i] = IF i = sequence
               THEN [s.intervals[i] EXCEPT !.lines = lines, !.status = status]
               ELSE s.intervals[i]
    BY <1>2
  <2> DEFINE w == s.intervals[i]
             v == q[i]
  <2>2. w \in Intervals
    BY <1>2
  <2> HIDE DEF v, w
  <2>3. v = IF i = sequence THEN [w EXCEPT !.lines = lines, !.status = status] ELSE w
    BY <2>1 DEF v, w
  <2>4. /\ v.status = IF i = sequence THEN status ELSE w.status
        /\ v.startedAt = w.startedAt
    BY <2>2, <2>3 DEF Intervals
  <2> QED
    BY <2>4 DEF v, w
<1>6. DOMAIN q = 1..n
  BY <1>2
<1> HIDE DEF q
<1>7. Len(t.intervals) = n
  <2>1. t.intervals \in Seq(Intervals)
    BY <1>3 DEF GoodStates, SessionStates
  <2>2. DOMAIN t.intervals = 1..n
    BY <1>4, <1>6
  <2> QED
    BY <1>2, <2>1, <2>2
<1> QED
  BY <1>3, <1>4, <1>5, <1>7 DEF Starts, t, StatusSet
-----------------------------------------------------------------------------
(* The journal's queue.                                                    *)

\* What is stored or among the first k records of q is stored or among the
\* first m records of p.
Covers(q, stored, k, p, more, m) ==
    /\ stored \subseteq more
    /\ \A j \in 1..k :
          \/ \E i \in 1..m : p[i] = q[j]
          \/ [session |-> q[j].session, row |-> q[j].row] \in more

LEMMA StoredIsCovered ==
    ASSUME NEW q, NEW stored, NEW k, NEW p, NEW more, NEW m,
           Covers(q, stored, k, p, more, m)
    PROVE  /\ \A id, row : StoredBy(q, stored, k, id, row) => StoredBy(p, more, m, id, row)
           /\ \A id, s : TrailStoredBy(q, stored, k, id, s) => TrailStoredBy(p, more, m, id, s)
<1>1. ASSUME NEW id, NEW row, StoredBy(q, stored, k, id, row)
      PROVE  StoredBy(p, more, m, id, row)
  BY <1>1 DEF Covers, StoredBy
<1>2. ASSUME NEW id, NEW at, TimeStoredBy(q, stored, k, id, at)
      PROVE  TimeStoredBy(p, more, m, id, at)
  <2>1. CASE \E e \in stored : e.session = id /\ e.row.ts = at
    BY <2>1 DEF Covers, TimeStoredBy
  <2>2. ASSUME NEW j \in 1..k, q[j].session = id, q[j].row.ts = at
        PROVE  TimeStoredBy(p, more, m, id, at)
    <3>1. CASE \E i \in 1..m : p[i] = q[j]
      BY <2>2, <3>1 DEF TimeStoredBy
    <3>2. CASE [session |-> q[j].session, row |-> q[j].row] \in more
      BY <2>2, <3>2 DEF TimeStoredBy
    <3> QED
      BY <3>1, <3>2 DEF Covers
  <2> QED
    BY <1>2, <2>1, <2>2 DEF TimeStoredBy
<1> QED
  BY <1>1, <1>2 DEF TrailStoredBy

\* p is q with a record put at its end.
Appends(p, q, record) ==
    /\ \E T : p \in Seq(T)
    /\ Len(q) \in Nat
    /\ Len(p) = Len(q) + 1
    /\ p[Len(q) + 1] = record
    /\ \A k \in 1..Len(q) : p[k] = q[k]
    /\ p # <<>>
    /\ q # <<>> => Head(p) = Head(q)

\* What Append does.
LEMMA Appended ==
    ASSUME NEW S, NEW q \in Seq(S), NEW record
    PROVE  Appends(Append(q, record), q, record)
<1>1. q \in Seq(S \cup {record}) /\ record \in S \cup {record}
  OBVIOUS
<1> DEFINE T == S \cup {record}
<1> HIDE DEF T
<1>2. Append(q, record) \in Seq(T)
  BY <1>1 DEF T
<1>3. /\ Len(q) \in Nat /\ Len(Append(q, record)) = Len(q) + 1
      /\ Append(q, record)[Len(q) + 1] = record
      /\ \A k \in 1..Len(q) : Append(q, record)[k] = q[k]
  BY <1>1 DEF T
<1>4. Append(q, record) # <<>>
  BY <1>2, <1>3
<1>5. q # <<>> => Head(Append(q, record)) = Head(q)
  <2>1. q # <<>> => 1 \in 1..Len(q)
    BY <1>3
  <2> QED
    BY <1>2, <1>3, <1>4, <2>1
<1> QED
  BY <1>2, <1>3, <1>4, <1>5 DEF Appends

\* What Tail does.
LEMMA Removed ==
    ASSUME NEW S, NEW q \in Seq(S), q # <<>>
    PROVE  LET p == Tail(q)
           IN  /\ p \in Seq(S)
               /\ Len(q) \in Nat \ {0}
               /\ Len(p) = Len(q) - 1
               /\ \A k \in 1..Len(p) : k + 1 \in 1..Len(q) /\ p[k] = q[k + 1]
               /\ Head(q) = q[1]
OBVIOUS

\* A record put at the end of the queue leaves what is stored or on its way so,
\* and its session is saved with it.
LEMMA AppendKeepsStored ==
    ASSUME NEW S, NEW q \in Seq(S), NEW record, NEW stored
    PROVE  LET p == Append(q, record)
           IN  /\ \A k \in 0..Len(q) : Covers(q, stored, k, p, stored, k)
               /\ Covers(q, stored, Len(q), p, stored, Len(p))
               /\ StoredBy(p, stored, Len(p), record.session, record.row)
               /\ TimeStoredBy(p, stored, Len(p), record.session, record.row.ts)
<1> DEFINE p == Append(q, record)
<1>1. /\ Len(q) \in Nat /\ Len(p) = Len(q) + 1 /\ p[Len(q) + 1] = record
      /\ \A k \in 1..Len(q) : p[k] = q[k]
  BY Appended DEF Appends
<1> HIDE DEF p
<1>2. ASSUME NEW k \in 0..Len(q) PROVE Covers(q, stored, k, p, stored, k)
  <2>1. \A j \in 1..k : j \in 1..Len(q)
    BY <1>1
  <2> QED
    BY <1>1, <2>1 DEF Covers
<1>3. Covers(q, stored, Len(q), p, stored, Len(p))
  <2>1. \A j \in 1..Len(q) : j \in 1..Len(p)
    BY <1>1
  <2> QED
    BY <1>1, <2>1 DEF Covers
<1>4. Len(p) \in 1..Len(p) /\ p[Len(p)] = record
  BY <1>1
<1>5. StoredBy(p, stored, Len(p), record.session, record.row)
  BY <1>4 DEF StoredBy
<1>6. TimeStoredBy(p, stored, Len(p), record.session, record.row.ts)
  BY <1>4 DEF TimeStoredBy
<1> QED
  BY <1>2, <1>3, <1>5, <1>6 DEF p

LEMMA AppendKeepsSaved ==
    ASSUME NEW S, NEW q \in Seq(S), NEW record, NEW saved
    PROVE  LET p == Append(q, record)
           IN  /\ SavedBy(p, saved, record.session, record.state)
               /\ \A id, s : id # record.session /\ SavedBy(q, saved, id, s) =>
                     SavedBy(p, saved, id, s)
<1> DEFINE p == Append(q, record)
<1>1. /\ Len(q) \in Nat /\ Len(p) = Len(q) + 1 /\ p[Len(q) + 1] = record
      /\ \A k \in 1..Len(q) : p[k] = q[k]
  BY Appended DEF Appends
<1> HIDE DEF p
<1>2. Len(p) \in 1..Len(p) /\ p[Len(p)] = record /\ \A m \in 1..Len(p) : ~(m > Len(p))
  BY <1>1
<1>3. SavedBy(p, saved, record.session, record.state)
  BY <1>2 DEF SavedBy
<1>4. \A m \in 1..Len(p) : m \in 1..Len(q) \/ p[m] = record
  BY <1>1
<1>5. ASSUME NEW id, NEW s, id # record.session, SavedBy(q, saved, id, s)
      PROVE  SavedBy(p, saved, id, s)
  <2>1. ASSUME NEW k \in 1..Len(q), q[k].session = id, q[k].state = s,
               \A m \in 1..Len(q) : m > k => q[m].session # id
        PROVE  SavedBy(p, saved, id, s)
    <3>1. k \in 1..Len(p) /\ p[k].session = id /\ p[k].state = s
      BY <1>1, <2>1
    <3>2. \A m \in 1..Len(p) : m > k => p[m].session # id
      BY <1>1, <1>4, <1>5, <2>1
    <3> QED
      BY <3>1, <3>2 DEF SavedBy
  <2>2. ASSUME saved[id] = s, \A m \in 1..Len(q) : q[m].session # id
        PROVE  SavedBy(p, saved, id, s)
    <3>1. \A m \in 1..Len(p) : p[m].session # id
      BY <1>1, <1>4, <1>5, <2>2
    <3> QED
      BY <2>2, <3>1 DEF SavedBy
  <2> QED
    BY <1>5, <2>1, <2>2 DEF SavedBy
<1> QED
  BY <1>3, <1>5 DEF p

\* Writing the first record's session leaves every session saved.
LEMMA WriteKeepsSaved ==
    ASSUME NEW S, NEW q \in Seq(S), q # <<>>, NEW saved, NEW ids,
           saved = [id \in ids |-> saved[id]], Head(q).session \in ids,
           NEW id \in ids, NEW s, SavedBy(q, saved, id, s)
    PROVE  SavedBy(Tail(q), [saved EXCEPT ![Head(q).session] = Head(q).state], id, s)
<1> DEFINE p == Tail(q)
           h == Head(q)
           t == [saved EXCEPT ![h.session] = h.state]
<1>1. /\ Len(q) \in Nat \ {0} /\ Len(p) = Len(q) - 1 /\ h = q[1]
      /\ \A k \in 1..Len(p) : k + 1 \in 1..Len(q) /\ p[k] = q[k + 1]
  BY Removed
<1>2. t[id] = IF id = h.session THEN h.state ELSE saved[id]
  OBVIOUS
<1> HIDE DEF p, h, t
<1>3. ASSUME NEW k \in 1..Len(q), q[k].session = id, q[k].state = s,
             \A m \in 1..Len(q) : m > k => q[m].session # id
      PROVE  SavedBy(p, t, id, s)
  <2>1. CASE k = 1
    <3>1. t[id] = s
      BY <1>1, <1>2, <1>3, <2>1
    <3>2. \A m \in 1..Len(p) : p[m].session # id
      BY <1>1, <1>3, <2>1
    <3> QED
      BY <3>1, <3>2 DEF SavedBy
  <2>2. CASE k # 1
    <3>1. k - 1 \in 1..Len(p) /\ p[k - 1] = q[k]
      BY <1>1, <2>2
    <3>2. \A m \in 1..Len(p) : m > k - 1 => p[m].session # id
      BY <1>1, <1>3
    <3> QED
      BY <1>3, <3>1, <3>2 DEF SavedBy
  <2> QED
    BY <2>1, <2>2
<1>4. ASSUME saved[id] = s, \A m \in 1..Len(q) : q[m].session # id
      PROVE  SavedBy(p, t, id, s)
  <2>1. t[id] = s
    BY <1>1, <1>2, <1>4
  <2>2. \A m \in 1..Len(p) : p[m].session # id
    BY <1>1, <1>4
  <2> QED
    BY <2>1, <2>2 DEF SavedBy
<1> QED
  BY <1>3, <1>4 DEF SavedBy, p, h, t
-----------------------------------------------------------------------------
(* The inductive invariant.                                                *)

IInv == MemoryInv /\ CountInv /\ PendingInv /\ QueueInv /\ BackedInv /\ FlushInv

LEMMA InitHolds == Init => IInv
<1> SUFFICES ASSUME Init PROVE IInv
  OBVIOUS
<1>1. sessions = [id \in SessionIds |-> NoSession] /\ applied = {}
      /\ journalQueue = <<>> /\ inFlight = {} /\ writing = "event" /\ stage = "running"
      /\ sessionRows = [id \in SessionIds |-> NoSession]
  BY DEF Init, Work!Init
<1>2. MemoryInv /\ CountInv /\ PendingInv
  BY <1>1 DEF MemoryInv, CountInv, PendingInv, Known
<1>3. QueueInv
  <2>1. journalQueue \in Seq({}) /\ Len(journalQueue) = 0
    BY <1>1
  <2> QED
    BY <1>1, <2>1, DesktopAssumption DEF QueueInv
<1>4. BackedInv /\ FlushInv
  <2>1. Len(journalQueue) = 0
    BY <1>1
  <2> QED
    BY <1>1, <2>1 DEF BackedInv, FlushInv, Known
<1> QED
  BY <1>2, <1>3, <1>4 DEF IInv

\* What Apply returns for an event that is published: the accesses it keeps
\* keep their start and status, and the one it may open starts with the event.
LEMMA AppliedStateEffect ==
    ASSUME MemoryInv, CountInv, NEW x \in Feed, Publishable(x), x.id \notin seen
    PROVE  LET s == AppliedState(x)
           IN  /\ s \in GoodStates
               /\ Len(s.intervals) <= Cardinality(Opening(applied \cup {x}))
               /\ \A n \in 1..Len(s.intervals) :
                    \/ /\ Known(x.session)
                       /\ n \in 1..Len(sessions[x.session].intervals)
                       /\ Starts(s, n) = Starts(sessions[x.session], n)
                       /\ s.intervals[n].status = sessions[x.session].intervals[n].status
                    \/ Starts(s, n) = x.event.ts /\ s.intervals[n].status = NoStatus
<1> DEFINE old == sessions[x.session]
           s == AppliedState(x)
           before == Opening(applied)
           after == Opening(applied \cup {x})
<1>1. x.session \in SessionIds /\ x.event \in Events /\ x.event.ts \in Times
  BY DesktopAssumption DEF Events
<1>2. Known(x.session) => old \in GoodStates /\ Len(old.intervals) <= Cardinality(before)
  BY <1>1 DEF MemoryInv, CountInv
<1>3. /\ IsFiniteSet(before) /\ Cardinality(before) \in Nat
      /\ Cardinality(after) = IF Focuses(x.event) THEN Cardinality(before) + 1
                              ELSE Cardinality(before)
  <2>1. before \in SUBSET Feed
    BY DEF CountInv, Opening
  <2>2. IsFiniteSet(before)
    BY <2>1, FS_Subset, DesktopAssumption
  <2>3. Cardinality(before) \in Nat
    BY <2>2, FS_CardinalityType
  <2>4. x \notin before
    BY DEF CountInv, Opening
  <2>5. after = IF Focuses(x.event) THEN before \cup {x} ELSE before
    BY DEF Opening
  <2> HIDE DEF before, after
  <2> QED
    BY <2>2, <2>3, <2>4, <2>5, FS_AddElement
<1> HIDE DEF before, after
<1>4. CASE StartsSession(x) /\ Known(x.session)
  <2>1. s = old
    BY <1>4 DEF AppliedState
  <2>2. Len(old.intervals) \in Nat
    BY <1>2, <1>4 DEF GoodStates, SessionStates
  <2> QED
    BY <1>2, <1>3, <1>4, <2>1, <2>2 DEF after
<1>5. CASE StartsSession(x) /\ ~Known(x.session)
  <2>1. s = NewSession(x.event.ts)
    BY <1>5 DEF AppliedState
  <2>2. s \in GoodStates
    BY <1>1, <2>1, StartEffect DEF GoodStates
  <2>3. Len(s.intervals) = 0
    BY <2>1 DEF NewSession
  <2> HIDE DEF s
  <2>4. 0 <= Cardinality(after)
    BY <1>3
  <2> QED
    BY <2>2, <2>3, <2>4 DEF s, after
<1>6. CASE ~StartsSession(x)
  <2>1. s = ApplyEvent(old, x.event) /\ Known(x.session)
    BY <1>6 DEF AppliedState, Publishable
  <2>2. s \in GoodStates /\ KeepsHistory(old, s)
    BY <1>1, <1>2, <2>1, ApplyEventEffect DEF GoodStates
  <2>3. SameWork(old, s) \/ OpensOne(old, s, x.event)
    BY <1>1, <1>2, <2>1, ApplyEventOpens
  <2>4. Len(old.intervals) \in Nat
    BY <1>2, <2>1 DEF GoodStates, SessionStates
  <2> HIDE DEF s
  <2>5. \A n \in 1..Len(old.intervals) : Starts(s, n) = Starts(old, n)
    BY <2>2 DEF KeepsHistory
  <2>6. CASE SameWork(old, s)
    BY <1>2, <1>3, <2>1, <2>2, <2>4, <2>5, <2>6 DEF SameWork, s, after
  <2>7. CASE OpensOne(old, s, x.event)
    <3>1. \A n \in 1..Len(s.intervals) : n \in 1..Len(old.intervals) \/ n = Len(old.intervals) + 1
      BY <2>4, <2>7 DEF OpensOne
    <3>2. Len(s.intervals) <= Cardinality(after)
      BY <1>2, <1>3, <2>1, <2>4, <2>7 DEF OpensOne
    <3> QED
      BY <2>1, <2>2, <2>5, <2>7, <3>1, <3>2 DEF OpensOne, s, after
  <2> QED
    BY <2>3, <2>6, <2>7
<1> QED
  BY <1>4, <1>5, <1>6

\* submitDiff: an access is pending afterwards only if it was before or the
\* request about it was accepted.
LEMMA SubmitDiffEffect ==
    ASSUME NEW x \in Feed, NEW s \in GoodStates, SubmitDiff(x, s)
    PROVE  \E t \in GoodStates :
              /\ Commit(x.session, EventRow(x), t)
              /\ Len(t.intervals) = Len(s.intervals)
              /\ closed' = closed
              /\ inFlight \subseteq inFlight'
              /\ \A r \in inFlight' : \/ r \in inFlight
                                      \/ r = Request(x, s) /\ Len(s.intervals) >= 1
              /\ \A n \in 1..Len(s.intervals) :
                    /\ Starts(t, n) = Starts(s, n)
                    /\ t.intervals[n].status = "pending" =>
                          \/ s.intervals[n].status = "pending"
                          \/ \E r \in inFlight' : r.session = x.session /\ r.sequence = n
<1> DEFINE n == Len(s.intervals)
<1>1. x.event \in Events /\ x.event.lines \in Lines \cup {NoLines}
  BY DesktopAssumption DEF Events
<1>2. n \in Nat /\ (s.intervals # <<>> => n >= 1)
  BY DEF GoodStates, SessionStates
<1>3. "pending" \in Statuses /\ "unknown" \in Statuses
  BY DesktopAssumption
<1>4. CASE ~WantsWork(s, x.event) /\ Commit(x.session, EventRow(x), s) /\ UNCHANGED workVars
  <2>1. inFlight' = inFlight /\ closed' = closed
    BY <1>4 DEF workVars
  <2> QED
    BY <1>4, <2>1
<1>5. CASE /\ WantsWork(s, x.event)
           /\ Work!Accept(Request(x, s))
           /\ Commit(x.session, EventRow(x), Pending(s, x.event))
  <2> DEFINE t == Pending(s, x.event)
             r == Request(x, s)
  <2>0. t = SetWork(s, n, x.event.lines, "pending")
    BY DEF Pending
  <2> HIDE DEF t
  <2>1. StatusSet(s, t, n, "pending")
    BY <1>1, <1>3, <2>0, SetWorkStatus
  <2>2. inFlight' = inFlight \cup {r} /\ closed' = closed
    BY <1>5 DEF Work!Accept
  <2>3. r.session = x.session /\ r.sequence = n /\ n >= 1
    BY <1>2, <1>5 DEF Request, WantsWork
  <2> HIDE DEF r
  <2>4. Commit(x.session, EventRow(x), t)
    BY <1>5 DEF t
  <2> QED
    BY <2>1, <2>2, <2>3, <2>4 DEF r, StatusSet
<1>6. CASE WantsWork(s, x.event) /\ Commit(x.session, EventRow(x), Unknown(s)) /\ UNCHANGED workVars
  <2> DEFINE t == Unknown(s)
  <2>0. t = SetWork(s, n, NoLines, "unknown")
    BY DEF Unknown
  <2> HIDE DEF t
  <2>1. StatusSet(s, t, n, "unknown")
    BY <1>3, <2>0, SetWorkStatus
  <2>2. inFlight' = inFlight /\ closed' = closed
    BY <1>6 DEF workVars
  <2>3. Commit(x.session, EventRow(x), t)
    BY <1>6 DEF t
  <2> QED
    BY <2>1, <2>2, <2>3 DEF StatusSet
<1> QED
  BY <1>4, <1>5, <1>6 DEF SubmitDiff
-----------------------------------------------------------------------------
\* What a commit does to the table.
LEMMA CommitSetsSession ==
    ASSUME MemoryInv, NEW id \in SessionIds, NEW row, NEW state, Commit(id, row, state)
    PROVE  /\ sessions' = [other \in SessionIds |-> sessions'[other]]
           /\ sessions'[id] = state
           /\ \A other \in SessionIds : other # id => sessions'[other] = sessions[other]
BY DEF Commit, MemoryInv

\* A commit keeps the journal's invariants when the accesses of the new state
\* start with its row or started in the old state.
LEMMA CommitKeepsJournal ==
    ASSUME MemoryInv, QueueInv, BackedInv,
           NEW id \in SessionIds, NEW row, NEW state \in GoodStates,
           Commit(id, row, state), stage' # "stopped",
           \A n \in 1..Len(state.intervals) :
              \/ Starts(state, n) = row.ts
              \/ /\ Known(id)
                 /\ n \in 1..Len(sessions[id].intervals)
                 /\ Starts(state, n) = Starts(sessions[id], n)
    PROVE  /\ QueueInv'
           /\ BackedInv'
           /\ ~degraded' =>
                /\ ~degraded
                /\ StoredBy(journalQueue', eventRows', Len(journalQueue'), id, row)
                /\ Covers(journalQueue, eventRows, Len(journalQueue),
                          journalQueue', eventRows', Len(journalQueue'))
                /\ SavedBy(journalQueue', sessionRows', id, state)
                /\ \A other \in SessionIds : \A s :
                      other # id /\ SavedBy(journalQueue, sessionRows, other, s) =>
                        SavedBy(journalQueue', sessionRows', other, s)
<1> DEFINE record == [session |-> id, row |-> row, state |-> state]
           q == journalQueue
           p == Append(q, record)
<1>0. writing' = writing /\ eventRows' = eventRows /\ sessionRows' = sessionRows
  BY DEF Commit
<1>1. CASE Len(q) < JournalCapacity
  <2>1. journalQueue' = p /\ degraded' = degraded
    BY <1>1 DEF Commit, QueueJournal
  <2>2. PICK S : q \in Seq(S)
    BY DEF QueueInv
  <2> HIDE DEF record
  <2>3. /\ \E T : p \in Seq(T)
        /\ Len(q) \in Nat /\ Len(p) = Len(q) + 1 /\ p[Len(q) + 1] = record
        /\ \A k \in 1..Len(q) : p[k] = q[k]
        /\ p # <<>> /\ (q # <<>> => Head(p) = Head(q))
    <3>1. Appends(p, q, record)
      BY <2>2, Appended
    <3> HIDE DEF p
    <3> QED
      BY <3>1 DEF Appends
  <2>4. /\ \A k \in 0..Len(q) : Covers(q, eventRows, k, p, eventRows, k)
        /\ Covers(q, eventRows, Len(q), p, eventRows, Len(p))
        /\ StoredBy(p, eventRows, Len(p), id, row)
        /\ TimeStoredBy(p, eventRows, Len(p), id, row.ts)
    <3>1. record.session = id /\ record.row = row
      BY DEF record
    <3> QED
      BY <2>2, <3>1, AppendKeepsStored
  <2>5. /\ SavedBy(p, sessionRows, id, state)
        /\ \A other, s : other # id /\ SavedBy(q, sessionRows, other, s) =>
              SavedBy(p, sessionRows, other, s)
    BY <2>2, AppendKeepsSaved DEF record
  <2>6. record.session = id /\ record.state = state
    BY DEF record
  <2> HIDE DEF p
  <2>7. \A k \in 1..Len(p) : k \in 1..Len(q) \/ (k = Len(p) /\ p[k] = record)
    BY <2>3
  <2>8. QueueInv'
    <3>1. Len(p) <= JournalCapacity
      BY <1>1, <2>3, DesktopAssumption
    <3>2. \A k \in 1..Len(p) : p[k].session \in SessionIds /\ p[k].state \in GoodStates
      BY <2>3, <2>6, <2>7 DEF QueueInv
    <3> QED
      BY <1>0, <2>1, <2>3, <3>1, <3>2 DEF QueueInv
  <2>9. ~degraded => TrailStoredBy(p, eventRows, Len(p), id, state)
    <3> SUFFICES ASSUME ~degraded, NEW n \in 1..Len(state.intervals)
                 PROVE  TimeStoredBy(p, eventRows, Len(p), id, Starts(state, n))
      BY DEF TrailStoredBy
    <3>1. CASE Starts(state, n) = row.ts
      BY <2>4, <3>1
    <3>2. CASE /\ Known(id)
               /\ n \in 1..Len(sessions[id].intervals)
               /\ Starts(state, n) = Starts(sessions[id], n)
      <4>1. TrailStoredBy(q, eventRows, Len(q), id, sessions[id])
        BY <3>2 DEF BackedInv
      <4>2. TrailStoredBy(p, eventRows, Len(p), id, sessions[id])
        BY <2>4, <4>1, StoredIsCovered
      <4> QED
        BY <3>2, <4>2 DEF TrailStoredBy
    <3> QED
      BY <3>1, <3>2
  <2>10. BackedInv'
    <3> SUFFICES ASSUME ~degraded
                 PROVE  /\ \A k \in 1..Len(p) :
                              TrailStoredBy(p, eventRows, k, p[k].session, p[k].state)
                        /\ \A other \in SessionIds : sessions'[other] # NoSession =>
                              TrailStoredBy(p, eventRows, Len(p), other, sessions'[other])
                        /\ \A other \in SessionIds : sessionRows[other] # NoSession =>
                              TrailStoredBy(p, eventRows, 0, other, sessionRows[other])
      BY <1>0, <2>1 DEF BackedInv, Known
    <3>1. ASSUME NEW k \in 1..Len(p)
          PROVE  TrailStoredBy(p, eventRows, k, p[k].session, p[k].state)
      <4>1. CASE k \in 1..Len(q)
        <5>1. TrailStoredBy(q, eventRows, k, q[k].session, q[k].state)
          BY <4>1 DEF BackedInv
        <5>2. k \in 0..Len(q)
          BY <2>3, <4>1
        <5>3. TrailStoredBy(p, eventRows, k, q[k].session, q[k].state)
          BY <2>4, <5>1, <5>2, StoredIsCovered
        <5> QED
          BY <2>3, <4>1, <5>3
      <4>2. CASE k = Len(p) /\ p[k] = record
        BY <2>6, <2>9, <4>2
      <4> QED
        BY <2>7, <4>1, <4>2
    <3>2. ASSUME NEW other \in SessionIds, sessions'[other] # NoSession
          PROVE  TrailStoredBy(p, eventRows, Len(p), other, sessions'[other])
      <4>1. CASE other = id
        BY <2>9, <4>1, CommitSetsSession
      <4>2. CASE other # id
        <5>1. sessions'[other] = sessions[other]
          BY <4>2, CommitSetsSession
        <5>2. TrailStoredBy(q, eventRows, Len(q), other, sessions[other])
          BY <3>2, <5>1 DEF BackedInv, Known
        <5> QED
          BY <2>4, <5>1, <5>2, StoredIsCovered
      <4> QED
        BY <4>1, <4>2
    <3>3. ASSUME NEW other \in SessionIds, sessionRows[other] # NoSession
          PROVE  TrailStoredBy(p, eventRows, 0, other, sessionRows[other])
      <4>1. TrailStoredBy(q, eventRows, 0, other, sessionRows[other])
        BY <3>3 DEF BackedInv
      <4>2. 0 \in 0..Len(q)
        BY <2>3
      <4> QED
        BY <2>4, <4>1, <4>2, StoredIsCovered
    <3> QED
      BY <3>1, <3>2, <3>3
  <2> QED
    BY <1>0, <2>1, <2>4, <2>5, <2>8, <2>10
<1>2. CASE ~(Len(q) < JournalCapacity)
  <2>1. journalQueue' = q /\ degraded'
    BY <1>2 DEF Commit, QueueJournal
  <2> QED
    BY <1>0, <2>1 DEF QueueInv, BackedInv
<1> QED
  BY <1>1, <1>2

\* The same for what is published and saved.
LEMMA CommitKeepsFlush ==
    ASSUME MemoryInv, FlushInv, NEW id \in SessionIds, NEW row, NEW state,
           Commit(id, row, state),
           \A x \in applied' : x \in applied \/ (x.session = id /\ EventRow(x) = row),
           ~degraded' =>
                /\ ~degraded
                /\ StoredBy(journalQueue', eventRows', Len(journalQueue'), id, row)
                /\ Covers(journalQueue, eventRows, Len(journalQueue),
                          journalQueue', eventRows', Len(journalQueue'))
                /\ SavedBy(journalQueue', sessionRows', id, state)
                /\ \A other \in SessionIds : \A s :
                      other # id /\ SavedBy(journalQueue, sessionRows, other, s) =>
                        SavedBy(journalQueue', sessionRows', other, s)
    PROVE  FlushInv'
<1> SUFFICES ASSUME ~degraded'
             PROVE  /\ \A x \in applied' :
                          StoredBy(journalQueue', eventRows', Len(journalQueue'), x.session,
                                   EventRow(x))
                    /\ \A other \in SessionIds : sessions'[other] # NoSession =>
                          SavedBy(journalQueue', sessionRows', other, sessions'[other])
  BY DEF FlushInv, Known, EventRow
<1>1. ASSUME NEW x \in applied'
      PROVE  StoredBy(journalQueue', eventRows', Len(journalQueue'), x.session, EventRow(x))
  <2>1. CASE x \in applied
    <3>1. StoredBy(journalQueue, eventRows, Len(journalQueue), x.session, EventRow(x))
      BY <2>1 DEF FlushInv
    <3> QED
      BY <3>1, StoredIsCovered
  <2>2. CASE x.session = id /\ EventRow(x) = row
    BY <2>2
  <2> QED
    BY <1>1, <2>1, <2>2
<1>2. ASSUME NEW other \in SessionIds, sessions'[other] # NoSession
      PROVE  SavedBy(journalQueue', sessionRows', other, sessions'[other])
  <2>1. CASE other = id
    BY <2>1, CommitSetsSession
  <2>2. CASE other # id
    <3>1. sessions'[other] = sessions[other]
      BY <2>2, CommitSetsSession
    <3>2. SavedBy(journalQueue, sessionRows, other, sessions[other])
      BY <1>2, <3>1 DEF FlushInv, Known
    <3> QED
      BY <2>2, <3>1, <3>2
  <2> QED
    BY <2>1, <2>2
<1> QED
  BY <1>1, <1>2
-----------------------------------------------------------------------------
(* One lemma per action.                                                   *)

LEMMA PublishKeeps ==
    ASSUME IInv, NEW x \in Feed, Publish(x)
    PROVE  IInv'
<1> DEFINE id == x.session
           s == AppliedState(x)
           before == Opening(applied)
<1>0. MemoryInv /\ CountInv /\ PendingInv /\ QueueInv /\ BackedInv /\ FlushInv
  BY DEF IInv
<1>1. /\ id \in SessionIds /\ x.event \in Events
      /\ x.id \notin seen /\ seen' = seen \cup {x.id} /\ Publishable(x)
      /\ SubmitDiff(x, s) /\ applied' = applied \cup {x} /\ stage' = stage /\ stage = "running"
  BY DesktopAssumption DEF Publish
<1>2. /\ s \in GoodStates
      /\ Len(s.intervals) <= Cardinality(Opening(applied'))
      /\ \A n \in 1..Len(s.intervals) :
            \/ /\ Known(id)
               /\ n \in 1..Len(sessions[id].intervals)
               /\ Starts(s, n) = Starts(sessions[id], n)
               /\ s.intervals[n].status = sessions[id].intervals[n].status
            \/ Starts(s, n) = x.event.ts /\ s.intervals[n].status = NoStatus
  BY <1>0, <1>1, AppliedStateEffect
<1> HIDE DEF s
<1>3. PICK t \in GoodStates :
          /\ Commit(id, EventRow(x), t)
          /\ Len(t.intervals) = Len(s.intervals)
          /\ inFlight \subseteq inFlight'
          /\ \A r \in inFlight' : \/ r \in inFlight
                                  \/ r = Request(x, s) /\ Len(s.intervals) >= 1
          /\ \A n \in 1..Len(s.intervals) :
                /\ Starts(t, n) = Starts(s, n)
                /\ t.intervals[n].status = "pending" =>
                      \/ s.intervals[n].status = "pending"
                      \/ \E r \in inFlight' : r.session = id /\ r.sequence = n
  BY <1>1, <1>2, SubmitDiffEffect
<1>4. /\ sessions' = [other \in SessionIds |-> sessions'[other]]
      /\ sessions'[id] = t
      /\ \A other \in SessionIds : other # id => sessions'[other] = sessions[other]
  BY <1>0, <1>1, <1>3, CommitSetsSession
<1>5. /\ applied' \subseteq Feed
      /\ IsFiniteSet(Opening(Feed)) /\ Cardinality(Opening(Feed)) \in Nat
      /\ IsFiniteSet(Opening(applied')) /\ Cardinality(Opening(applied')) \in Nat
      /\ Cardinality(Opening(applied')) <= Cardinality(Opening(Feed))
      /\ Cardinality(before) \in Nat
      /\ Cardinality(before) <= Cardinality(Opening(applied'))
  <2>1. applied' \subseteq Feed
    BY <1>0, <1>1 DEF CountInv
  <2>2. Opening(Feed) \in SUBSET Feed /\ Opening(applied') \in SUBSET Opening(Feed)
        /\ before \in SUBSET Opening(applied')
    BY <1>1, <2>1 DEF Opening
  <2>3. IsFiniteSet(Opening(Feed))
    BY <2>2, FS_Subset, DesktopAssumption
  <2>4. IsFiniteSet(Opening(applied')) /\ Cardinality(Opening(applied')) <= Cardinality(Opening(Feed))
    BY <2>2, <2>3, FS_Subset
  <2>5. IsFiniteSet(before) /\ Cardinality(before) <= Cardinality(Opening(applied'))
    BY <2>2, <2>4, FS_Subset
  <2> QED
    BY <2>1, <2>3, <2>4, <2>5, FS_CardinalityType
<1> HIDE DEF before
<1>6. Sequences = 1..Cardinality(Opening(Feed))
  BY DEF Sequences, Opening
<1>7. Len(s.intervals) \in Nat
  BY <1>2 DEF GoodStates, SessionStates
<1>8. MemoryInv'
  <2>1. Len(s.intervals) >= 1 => Request(x, s) \in WorkRequests
    <3>1. Len(s.intervals) >= 1 => Len(s.intervals) \in Sequences
      BY <1>2, <1>5, <1>6, <1>7
    <3> QED
      BY <3>1 DEF Request, WorkRequests
  <2>2. inFlight' \subseteq WorkRequests
    BY <1>0, <1>3, <2>1 DEF MemoryInv
  <2>3. \A other \in SessionIds : sessions'[other] # NoSession => sessions'[other] \in GoodStates
    BY <1>0, <1>3, <1>4 DEF MemoryInv, Known
  <2> QED
    BY <1>4, <2>2, <2>3 DEF MemoryInv, Known
<1>9. CountInv'
  <2>1. \A y \in applied' : y.id \in seen'
    BY <1>0, <1>1 DEF CountInv
  <2>2. ASSUME NEW other \in SessionIds, sessions'[other] # NoSession
        PROVE  Len(sessions'[other].intervals) <= Cardinality(Opening(applied'))
    <3>1. CASE other = id
      BY <1>2, <1>3, <1>4, <3>1
    <3>2. CASE other # id
      <4>1. sessions'[other] = sessions[other]
        BY <1>4, <3>2
      <4>2. /\ Len(sessions[other].intervals) <= Cardinality(before)
            /\ Len(sessions[other].intervals) \in Nat
        BY <1>0, <2>2, <4>1 DEF CountInv, MemoryInv, Known, GoodStates, SessionStates, before
      <4> QED
        BY <1>5, <4>1, <4>2
    <3> QED
      BY <3>1, <3>2
  <2> QED
    BY <1>5, <2>1, <2>2 DEF CountInv, Known, Opening
<1>10. PendingInv'
  <2> SUFFICES ASSUME NEW other \in SessionIds, sessions'[other] # NoSession,
                      NEW n \in 1..Len(sessions'[other].intervals),
                      sessions'[other].intervals[n].status = "pending"
               PROVE  \E r \in inFlight' : r.session = other /\ r.sequence = n
    BY DEF PendingInv, Known
  <2>1. CASE other # id
    BY <1>0, <1>3, <1>4, <2>1 DEF PendingInv, Known
  <2>2. CASE other = id
    <3>1. n \in 1..Len(s.intervals) /\ t.intervals[n].status = "pending"
      BY <1>3, <1>4, <2>2
    <3>2. CASE s.intervals[n].status = "pending"
      <4>1. NoStatus # "pending"
        BY SessionAssumption, DesktopAssumption
      <4>2. /\ Known(id) /\ n \in 1..Len(sessions[id].intervals)
            /\ sessions[id].intervals[n].status = "pending"
        BY <1>2, <3>1, <3>2, <4>1
      <4> QED
        BY <1>0, <1>1, <1>3, <2>2, <4>2 DEF PendingInv
    <3> QED
      BY <1>3, <2>2, <3>1, <3>2
  <2> QED
    BY <2>1, <2>2
<1>11. EventRow(x).ts = x.event.ts
  BY DEF EventRow
<1>12. \A n \in 1..Len(t.intervals) :
          \/ Starts(t, n) = EventRow(x).ts
          \/ /\ Known(id)
             /\ n \in 1..Len(sessions[id].intervals)
             /\ Starts(t, n) = Starts(sessions[id], n)
  BY <1>2, <1>3, <1>11
<1>13. stage' # "stopped"
  BY <1>1
<1>14. /\ QueueInv' /\ BackedInv'
       /\ ~degraded' =>
            /\ ~degraded
            /\ StoredBy(journalQueue', eventRows', Len(journalQueue'), id, EventRow(x))
            /\ Covers(journalQueue, eventRows, Len(journalQueue),
                      journalQueue', eventRows', Len(journalQueue'))
            /\ SavedBy(journalQueue', sessionRows', id, t)
            /\ \A other \in SessionIds : \A u :
                  other # id /\ SavedBy(journalQueue, sessionRows, other, u) =>
                    SavedBy(journalQueue', sessionRows', other, u)
  BY <1>0, <1>1, <1>3, <1>12, <1>13, CommitKeepsJournal
<1>15. \A y \in applied' : y \in applied \/ (y.session = id /\ EventRow(y) = EventRow(x))
  BY <1>1
<1>16. FlushInv'
  BY <1>0, <1>1, <1>3, <1>14, <1>15, CommitKeepsFlush
<1> QED
  BY <1>8, <1>9, <1>10, <1>14, <1>16 DEF IInv

LEMMA DeliverKeeps ==
    ASSUME IInv, NEW r \in inFlight, Deliver(r)
    PROVE  IInv'
<1> DEFINE id == r.session
           old == sessions[id]
<1>0. MemoryInv /\ CountInv /\ PendingInv /\ QueueInv /\ BackedInv /\ FlushInv
  BY DEF IInv
<1>1. /\ id \in SessionIds /\ r.sequence \in Sequences
      /\ r.lines \in Lines \cup {NoLines} /\ r \in WorkRequests
  <2>1. r \in WorkRequests
    BY <1>0 DEF MemoryInv
  <2>2. \A x \in Feed : x.session \in SessionIds /\ x.event.lines \in Lines \cup {NoLines}
    BY DesktopAssumption DEF Events
  <2> QED
    BY <2>1, <2>2 DEF WorkRequests
<1>2. /\ inFlight' = inFlight \ {r} /\ seen' = seen /\ applied' = applied
      /\ stage' = stage /\ stage # "stopped"
  BY DEF Deliver, Work!Deliver
<1>3. CASE Attachable(r)
  <2>1. PICK result \in Results(r) :
            Commit(id, ResultRow(r, result[1], result[2]),
                   SetWork(old, r.sequence, result[1], result[2]))
    BY <1>3 DEF Deliver
  <2> DEFINE t == SetWork(old, r.sequence, result[1], result[2])
             row == ResultRow(r, result[1], result[2])
  <2>2. /\ result[1] \in Lines \cup {NoLines}
        /\ result[2] \in Statuses /\ result[2] # "pending"
    BY <1>1, DesktopAssumption DEF Results
  <2>3. Known(id) /\ old \in GoodStates
    BY <1>0, <1>1, <1>3 DEF MemoryInv, Attachable
  <2>4. /\ t \in GoodStates /\ Len(t.intervals) = Len(old.intervals)
        /\ \A i \in 1..Len(old.intervals) :
              /\ t.intervals[i].status =
                    IF i = r.sequence THEN result[2] ELSE old.intervals[i].status
              /\ Starts(t, i) = Starts(old, i)
    BY <2>2, <2>3, SetWorkStatus DEF StatusSet
  <2> HIDE DEF t, row
  <2>5. Commit(id, row, t)
    BY <2>1 DEF t, row
  <2>6. /\ sessions' = [other \in SessionIds |-> sessions'[other]]
        /\ sessions'[id] = t
        /\ \A other \in SessionIds : other # id => sessions'[other] = sessions[other]
    BY <1>0, <1>1, <2>5, CommitSetsSession
  <2>7. MemoryInv'
    <3>1. \A other \in SessionIds : sessions'[other] # NoSession => sessions'[other] \in GoodStates
      BY <1>0, <2>4, <2>6 DEF MemoryInv, Known
    <3>2. inFlight' \subseteq WorkRequests
      BY <1>0, <1>2 DEF MemoryInv
    <3> QED
      BY <2>6, <3>1, <3>2 DEF MemoryInv, Known
  <2>8. CountInv'
    <3>1. \A other \in SessionIds : sessions'[other] # NoSession =>
              Len(sessions'[other].intervals) <= Cardinality(Opening(applied))
      BY <1>0, <2>3, <2>4, <2>6 DEF CountInv, Known
    <3> QED
      BY <1>0, <1>2, <3>1 DEF CountInv, Known
  <2>9. PendingInv'
    <3> SUFFICES ASSUME NEW other \in SessionIds, sessions'[other] # NoSession,
                        NEW n \in 1..Len(sessions'[other].intervals),
                        sessions'[other].intervals[n].status = "pending"
                 PROVE  \E a \in inFlight' : a.session = other /\ a.sequence = n
      BY DEF PendingInv, Known
    <3>1. CASE other # id
      <4>1. PICK a \in inFlight : a.session = other /\ a.sequence = n
        BY <1>0, <2>6, <3>1 DEF PendingInv, Known
      <4> QED
        BY <1>2, <3>1, <4>1
    <3>2. CASE other = id
      <4>1. /\ n \in 1..Len(old.intervals) /\ n # r.sequence
            /\ old.intervals[n].status = "pending"
        BY <2>2, <2>4, <2>6, <3>2
      <4>2. PICK a \in inFlight : a.session = id /\ a.sequence = n
        BY <1>0, <1>1, <2>3, <4>1 DEF PendingInv
      <4> QED
        BY <1>2, <3>2, <4>1, <4>2
    <3> QED
      BY <3>1, <3>2
  <2>10. stage' # "stopped"
    BY <1>2
  <2>11. \A n \in 1..Len(t.intervals) :
            \/ Starts(t, n) = row.ts
            \/ /\ Known(id)
               /\ n \in 1..Len(sessions[id].intervals)
               /\ Starts(t, n) = Starts(sessions[id], n)
    BY <2>3, <2>4
  <2>12. /\ QueueInv' /\ BackedInv'
         /\ ~degraded' =>
              /\ ~degraded
              /\ StoredBy(journalQueue', eventRows', Len(journalQueue'), id, row)
              /\ Covers(journalQueue, eventRows, Len(journalQueue),
                        journalQueue', eventRows', Len(journalQueue'))
              /\ SavedBy(journalQueue', sessionRows', id, t)
              /\ \A other \in SessionIds : \A u :
                    other # id /\ SavedBy(journalQueue, sessionRows, other, u) =>
                      SavedBy(journalQueue', sessionRows', other, u)
    BY <1>0, <1>1, <2>4, <2>5, <2>10, <2>11, CommitKeepsJournal
  <2>13. FlushInv'
    BY <1>0, <1>1, <1>2, <2>5, <2>12, CommitKeepsFlush
  <2> QED
    BY <2>7, <2>8, <2>9, <2>12, <2>13 DEF IInv
<1>4. CASE ~Attachable(r)
  <2>1. /\ sessions' = sessions /\ degraded' = degraded /\ journalQueue' = journalQueue
        /\ writing' = writing /\ eventRows' = eventRows /\ sessionRows' = sessionRows
    BY <1>4 DEF Deliver, journalVars
  <2>2. MemoryInv' /\ CountInv'
    BY <1>0, <1>2, <2>1 DEF MemoryInv, CountInv, Known, Opening
  <2>3. QueueInv' /\ BackedInv' /\ FlushInv'
    BY <1>0, <1>2, <2>1 DEF QueueInv, BackedInv, FlushInv, Known, EventRow
  <2>4. PendingInv'
    <3> SUFFICES ASSUME NEW other \in SessionIds, Known(other),
                        NEW n \in 1..Len(sessions[other].intervals),
                        sessions[other].intervals[n].status = "pending"
                 PROVE  \E a \in inFlight' : a.session = other /\ a.sequence = n
      BY <2>1 DEF PendingInv, Known
    <3>1. PICK a \in inFlight : a.session = other /\ a.sequence = n
      BY <1>0 DEF PendingInv
    <3>2. sessions[other].intervals[n].sequence = n
      BY <1>0 DEF MemoryInv, GoodStates, TrailOrdered
    <3>3. n \in DOMAIN sessions[other].intervals
      BY <1>0 DEF MemoryInv, GoodStates, SessionStates
    <3>4. a # r
      BY <1>4, <3>1, <3>2, <3>3 DEF Attachable, HasSequence
    <3> QED
      BY <1>2, <3>1, <3>4
  <2> QED
    BY <2>2, <2>3, <2>4 DEF IInv
<1> QED
  BY <1>3, <1>4

LEMMA WriteEventKeeps ==
    ASSUME IInv, WriteEvent
    PROVE  IInv'
<1> DEFINE q == journalQueue
           written == [session |-> Head(q).session, row |-> Head(q).row]
<1>0. MemoryInv /\ CountInv /\ PendingInv /\ QueueInv /\ BackedInv /\ FlushInv
  BY DEF IInv
<1>1. /\ q # <<>> /\ eventRows' = eventRows \cup {written} /\ writing' = "session"
      /\ sessions' = sessions /\ seen' = seen /\ inFlight' = inFlight /\ stage' = stage
      /\ journalQueue' = q /\ sessionRows' = sessionRows /\ degraded' = degraded
      /\ applied' = applied
  BY DEF WriteEvent, workVars, history
<1> HIDE DEF written
<1>2. MemoryInv' /\ CountInv' /\ PendingInv'
  BY <1>0, <1>1 DEF MemoryInv, CountInv, PendingInv, Known, Opening
<1>3. QueueInv'
  BY <1>0, <1>1 DEF QueueInv, written
<1>4. \A k : Covers(q, eventRows, k, q, eventRows', k)
  BY <1>1 DEF Covers
<1>5. BackedInv'
  <2> SUFFICES ASSUME ~degraded
               PROVE  /\ \A k \in 1..Len(q) :
                            TrailStoredBy(q, eventRows', k, q[k].session, q[k].state)
                      /\ \A id \in SessionIds : Known(id) =>
                            TrailStoredBy(q, eventRows', Len(q), id, sessions[id])
                      /\ \A id \in SessionIds : sessionRows[id] # NoSession =>
                            TrailStoredBy(q, eventRows', 0, id, sessionRows[id])
    BY <1>1 DEF BackedInv, Known
  <2>1. \A k, id, s : TrailStoredBy(q, eventRows, k, id, s) =>
            TrailStoredBy(q, eventRows', k, id, s)
    BY <1>4, StoredIsCovered
  <2> QED
    BY <1>0, <2>1 DEF BackedInv
<1>6. FlushInv'
  <2> SUFFICES ASSUME ~degraded
               PROVE  /\ \A x \in applied :
                            StoredBy(q, eventRows', Len(q), x.session, EventRow(x))
                      /\ \A id \in SessionIds : Known(id) =>
                            SavedBy(q, sessionRows, id, sessions[id])
    BY <1>1 DEF FlushInv, Known, EventRow
  <2> QED
    BY <1>0, <1>4, StoredIsCovered DEF FlushInv
<1> QED
  BY <1>2, <1>3, <1>5, <1>6 DEF IInv

LEMMA WriteSessionKeeps ==
    ASSUME IInv, WriteSession
    PROVE  IInv'
<1> DEFINE q == journalQueue
           p == Tail(q)
           h == Head(q)
           saved == [sessionRows EXCEPT ![h.session] = h.state]
<1>0. MemoryInv /\ CountInv /\ PendingInv /\ QueueInv /\ BackedInv /\ FlushInv
  BY DEF IInv
<1>1. /\ q # <<>> /\ writing = "session" /\ writing' = "event"
      /\ eventRows' = eventRows /\ journalQueue' = p /\ sessionRows' = saved
      /\ sessions' = sessions /\ seen' = seen /\ inFlight' = inFlight /\ stage' = stage
      /\ degraded' = degraded /\ applied' = applied
  BY DEF WriteSession, workVars, history
<1>2. PICK S : q \in Seq(S)
  BY <1>0 DEF QueueInv
<1>3. /\ p \in Seq(S) /\ Len(q) \in Nat \ {0} /\ Len(p) = Len(q) - 1 /\ h = q[1]
      /\ \A k \in 1..Len(p) : k + 1 \in 1..Len(q) /\ p[k] = q[k + 1]
  BY <1>1, <1>2, Removed
<1>4. [session |-> h.session, row |-> h.row] \in eventRows
  BY <1>0, <1>1 DEF QueueInv
<1>5. h.session \in SessionIds /\ h.state \in GoodStates
  <2>1. 1 \in 1..Len(q)
    BY <1>3
  <2> QED
    BY <1>0, <1>3, <2>1 DEF QueueInv
<1>6. \A id \in SessionIds : \A s : SavedBy(q, sessionRows, id, s) => SavedBy(p, saved, id, s)
  <2>1. sessionRows = [id \in SessionIds |-> sessionRows[id]]
    BY <1>0 DEF QueueInv
  <2> QED
    BY <1>1, <1>2, <1>5, <2>1, WriteKeepsSaved
<1>7. /\ saved = [id \in SessionIds |-> saved[id]]
      /\ \A id \in SessionIds : saved[id] = IF id = h.session THEN h.state ELSE sessionRows[id]
  BY <1>0, <1>5 DEF QueueInv
<1> HIDE DEF p, h, saved
<1>8. MemoryInv' /\ CountInv' /\ PendingInv'
  BY <1>0, <1>1 DEF MemoryInv, CountInv, PendingInv, Known, Opening
<1>9. QueueInv'
  <2>1. Len(p) <= JournalCapacity
    BY <1>0, <1>3, DesktopAssumption DEF QueueInv
  <2>2. \A k \in 1..Len(p) : p[k].session \in SessionIds /\ p[k].state \in GoodStates
    BY <1>0, <1>3 DEF QueueInv
  <2>3. \A id \in SessionIds : saved[id] # NoSession => saved[id] \in GoodStates
    BY <1>0, <1>5, <1>7 DEF QueueInv
  <2>4. stage' # "stopped"
    BY <1>0, <1>1 DEF QueueInv
  <2> QED
    BY <1>1, <1>3, <1>7, <2>1, <2>2, <2>3, <2>4 DEF QueueInv
<1>10. \A k \in 0..Len(p) : Covers(q, eventRows, k + 1, p, eventRows, k)
  <2> SUFFICES ASSUME NEW k \in 0..Len(p), NEW j \in 1..(k + 1)
               PROVE  \/ \E i \in 1..k : p[i] = q[j]
                      \/ [session |-> q[j].session, row |-> q[j].row] \in eventRows
    BY DEF Covers
  <2>1. CASE j = 1
    BY <1>3, <1>4, <2>1
  <2>2. CASE j # 1
    <3>1. j - 1 \in 1..k /\ j - 1 \in 1..Len(p) /\ (j - 1) + 1 = j
      BY <1>3, <2>2
    <3>2. p[j - 1] = q[j]
      BY <1>3, <3>1
    <3> QED
      BY <3>1, <3>2
  <2> QED
    BY <2>1, <2>2
<1>11. /\ Covers(q, eventRows, Len(q), p, eventRows, Len(p))
       /\ Covers(q, eventRows, 1, p, eventRows, 0)
       /\ \A k \in 1..Len(p) : Covers(q, eventRows, k + 1, p, eventRows, k)
  <2>1. Len(p) \in 0..Len(p) /\ Len(p) + 1 = Len(q) /\ 0 \in 0..Len(p) /\ 0 + 1 = 1
    BY <1>3
  <2>2. \A k \in 1..Len(p) : k \in 0..Len(p)
    BY <1>3
  <2>3. Covers(q, eventRows, Len(p) + 1, p, eventRows, Len(p))
    BY <1>10, <2>1
  <2>4. Covers(q, eventRows, 0 + 1, p, eventRows, 0)
    BY <1>10, <2>1
  <2> QED
    BY <1>10, <2>1, <2>2, <2>3, <2>4
<1>12. BackedInv'
  <2> SUFFICES ASSUME ~degraded
               PROVE  /\ \A k \in 1..Len(p) :
                            TrailStoredBy(p, eventRows, k, p[k].session, p[k].state)
                      /\ \A id \in SessionIds : Known(id) =>
                            TrailStoredBy(p, eventRows, Len(p), id, sessions[id])
                      /\ \A id \in SessionIds : saved[id] # NoSession =>
                            TrailStoredBy(p, eventRows, 0, id, saved[id])
    BY <1>1 DEF BackedInv, Known
  <2>1. ASSUME NEW k \in 1..Len(p)
        PROVE  TrailStoredBy(p, eventRows, k, p[k].session, p[k].state)
    <3>1. TrailStoredBy(q, eventRows, k + 1, p[k].session, p[k].state)
      BY <1>0, <1>3 DEF BackedInv
    <3> QED
      BY <1>11, <3>1, StoredIsCovered
  <2>2. ASSUME NEW id \in SessionIds, Known(id)
        PROVE  TrailStoredBy(p, eventRows, Len(p), id, sessions[id])
    <3>1. TrailStoredBy(q, eventRows, Len(q), id, sessions[id])
      BY <1>0, <2>2 DEF BackedInv
    <3> QED
      BY <1>11, <3>1, StoredIsCovered
  <2>3. ASSUME NEW id \in SessionIds, saved[id] # NoSession
        PROVE  TrailStoredBy(p, eventRows, 0, id, saved[id])
    <3>1. CASE id = h.session
      <4>1. 1 \in 1..Len(q) /\ q[1] = h
        BY <1>3
      <4>2. TrailStoredBy(q, eventRows, 1, h.session, h.state)
        BY <1>0, <4>1 DEF BackedInv
      <4> QED
        BY <1>7, <1>11, <3>1, <4>2, StoredIsCovered
    <3>2. CASE id # h.session
      <4>1. saved[id] = sessionRows[id]
        BY <1>7, <3>2
      <4>2. TrailStoredBy(q, eventRows, 0, id, saved[id])
        BY <1>0, <2>3, <4>1 DEF BackedInv
      <4>3. Covers(q, eventRows, 0, p, eventRows, 0)
        BY DEF Covers
      <4> QED
        BY <4>2, <4>3, StoredIsCovered
    <3> QED
      BY <3>1, <3>2
  <2> QED
    BY <2>1, <2>2, <2>3
<1>13. FlushInv'
  <2> SUFFICES ASSUME ~degraded
               PROVE  /\ \A x \in applied :
                            StoredBy(p, eventRows, Len(p), x.session, EventRow(x))
                      /\ \A id \in SessionIds : Known(id) =>
                            SavedBy(p, saved, id, sessions[id])
    BY <1>1 DEF FlushInv, Known, EventRow
  <2>1. \A x \in applied : StoredBy(p, eventRows, Len(p), x.session, EventRow(x))
    BY <1>0, <1>11, StoredIsCovered DEF FlushInv
  <2>2. \A id \in SessionIds : Known(id) => SavedBy(p, saved, id, sessions[id])
    BY <1>0, <1>6 DEF FlushInv
  <2> QED
    BY <2>1, <2>2
<1> QED
  BY <1>8, <1>9, <1>12, <1>13 DEF IInv

\* A record that is given up leaves the journal degraded for good.
LEMMA WriteFailsKeeps ==
    ASSUME IInv, WriteFails
    PROVE  IInv'
<1> DEFINE q == journalQueue
           p == Tail(q)
<1>0. MemoryInv /\ CountInv /\ PendingInv /\ QueueInv
  BY DEF IInv
<1>1. /\ q # <<>> /\ writing' = "event" /\ degraded' = TRUE /\ journalQueue' = p
      /\ sessions' = sessions /\ seen' = seen /\ inFlight' = inFlight /\ stage' = stage
      /\ sessionRows' = sessionRows /\ applied' = applied
  BY DEF WriteFails, workVars, history
<1>2. PICK S : q \in Seq(S)
  BY <1>0 DEF QueueInv
<1>3. /\ p \in Seq(S) /\ Len(q) \in Nat \ {0} /\ Len(p) = Len(q) - 1
      /\ \A k \in 1..Len(p) : k + 1 \in 1..Len(q) /\ p[k] = q[k + 1]
  BY <1>1, <1>2, Removed
<1> HIDE DEF p
<1>4. MemoryInv' /\ CountInv' /\ PendingInv'
  BY <1>0, <1>1 DEF MemoryInv, CountInv, PendingInv, Known, Opening
<1>5. QueueInv'
  <2>1. Len(p) <= JournalCapacity
    BY <1>0, <1>3, DesktopAssumption DEF QueueInv
  <2>2. \A k \in 1..Len(p) : p[k].session \in SessionIds /\ p[k].state \in GoodStates
    BY <1>0, <1>3 DEF QueueInv
  <2>3. stage' # "stopped"
    BY <1>0, <1>1 DEF QueueInv
  <2> QED
    BY <1>0, <1>1, <1>3, <2>1, <2>2, <2>3 DEF QueueInv
<1>6. BackedInv' /\ FlushInv'
  BY <1>1 DEF BackedInv, FlushInv
<1> QED
  BY <1>4, <1>5, <1>6 DEF IInv

LEMMA NextKeeps ==
    ASSUME IInv, [Next]_vars
    PROVE  IInv'
<1>0. MemoryInv /\ CountInv /\ PendingInv /\ QueueInv /\ BackedInv /\ FlushInv
  BY DEF IInv
<1>1. CASE LoadProject
  <2>1. /\ sessions' = [id \in SessionIds |-> NoSession] /\ seen' = seen
        /\ inFlight' = inFlight /\ stage' = stage /\ journalQueue' = journalQueue
        /\ writing' = writing /\ eventRows' = eventRows /\ sessionRows' = sessionRows
        /\ degraded' = degraded /\ applied' = applied
    BY <1>1 DEF LoadProject, workVars, journalVars, history
  <2>2. MemoryInv' /\ CountInv' /\ PendingInv'
    BY <1>0, <2>1 DEF MemoryInv, CountInv, PendingInv, Known
  <2>3. QueueInv' /\ BackedInv' /\ FlushInv'
    BY <1>0, <2>1 DEF QueueInv, BackedInv, FlushInv, Known, EventRow
  <2> QED
    BY <2>2, <2>3 DEF IInv
<1>2. ASSUME NEW x \in Feed, Publish(x) PROVE IInv'
  BY <1>2, PublishKeeps
<1>3. ASSUME NEW x \in Feed, PublishFails(x) PROVE IInv'
  <2>1. /\ sessions' = sessions /\ seen' = seen \cup {x.id}
        /\ inFlight' = inFlight /\ stage' = stage /\ journalQueue' = journalQueue
        /\ writing' = writing /\ eventRows' = eventRows /\ sessionRows' = sessionRows
        /\ degraded' = degraded /\ applied' = applied
    BY <1>3 DEF PublishFails, workVars, journalVars, history
  <2>2. MemoryInv' /\ CountInv' /\ PendingInv'
    BY <1>0, <2>1 DEF MemoryInv, CountInv, PendingInv, Known
  <2>3. QueueInv' /\ BackedInv' /\ FlushInv'
    BY <1>0, <2>1 DEF QueueInv, BackedInv, FlushInv, Known, EventRow
  <2> QED
    BY <2>2, <2>3 DEF IInv
<1>4. ASSUME NEW r \in inFlight, Deliver(r) PROVE IInv'
  BY <1>4, DeliverKeeps
<1>5. CASE JournalStep
  BY <1>5, WriteEventKeeps, WriteSessionKeeps, WriteFailsKeeps DEF JournalStep
<1>6. CASE CloseDiffs \/ ShutdownStep \/ UNCHANGED vars
  <2>1. /\ sessions' = sessions /\ seen' = seen /\ inFlight' = inFlight
        /\ journalQueue' = journalQueue /\ writing' = writing /\ eventRows' = eventRows
        /\ sessionRows' = sessionRows /\ degraded' = degraded /\ applied' = applied
        /\ stage' = "stopped" => stage = "stopped" \/ journalQueue = <<>>
    BY <1>6 DEF CloseDiffs, ShutdownStep, StopJournal, JournalStopped, Work!Close, vars,
                workVars, journalVars, history
  <2>2. MemoryInv' /\ CountInv' /\ PendingInv'
    BY <1>0, <2>1 DEF MemoryInv, CountInv, PendingInv, Known
  <2>3. QueueInv' /\ BackedInv' /\ FlushInv'
    BY <1>0, <2>1 DEF QueueInv, BackedInv, FlushInv, Known, EventRow
  <2> QED
    BY <2>2, <2>3 DEF IInv
<1> QED
  BY <1>1, <1>2, <1>3, <1>4, <1>5, <1>6 DEF Next
-----------------------------------------------------------------------------
\* The invariant holds in every reachable state.
LEMMA Invariance == Spec => []IInv
BY InitHolds, NextKeeps, PTL DEF Spec

\* The focus on display is the state of its session: handlers set both.
LEMMA FocusStep ==
    ASSUME IInv, FocusIsCurrent /\ (focus # NoFocus => focus.session \in SessionIds), [Next]_vars
    PROVE  (FocusIsCurrent /\ (focus # NoFocus => focus.session \in SessionIds))'
<1>0. MemoryInv
  BY DEF IInv
<1>1. ASSUME NEW id \in SessionIds, NEW row, NEW state, Commit(id, row, state)
      PROVE  (FocusIsCurrent /\ (focus # NoFocus => focus.session \in SessionIds))'
  <2>1. focus'.session = id /\ focus'.state = state
    BY <1>1 DEF Commit
  <2>2. sessions'[id] = state
    BY <1>0, <1>1, CommitSetsSession
  <2> QED
    BY <2>1, <2>2 DEF FocusIsCurrent
<1>2. ASSUME focus' = focus, sessions' = sessions
      PROVE  (FocusIsCurrent /\ (focus # NoFocus => focus.session \in SessionIds))'
  BY <1>2 DEF FocusIsCurrent
<1>3. CASE LoadProject
  BY <1>3 DEF LoadProject, FocusIsCurrent
<1>4. ASSUME NEW x \in Feed, Publish(x) \/ PublishFails(x)
      PROVE  (FocusIsCurrent /\ (focus # NoFocus => focus.session \in SessionIds))'
  <2>1. x.session \in SessionIds
    BY DesktopAssumption
  <2>2. CASE Publish(x)
    <3>1. \E row, state : Commit(x.session, row, state)
      BY <2>2 DEF Publish, SubmitDiff
    <3> QED
      BY <1>1, <2>1, <3>1
  <2>3. CASE PublishFails(x)
    BY <1>2, <2>3 DEF PublishFails
  <2> QED
    BY <1>4, <2>2, <2>3
<1>5. ASSUME NEW r \in inFlight, Deliver(r)
      PROVE  (FocusIsCurrent /\ (focus # NoFocus => focus.session \in SessionIds))'
  <2>1. r.session \in SessionIds
    <3>1. r \in WorkRequests
      BY <1>0 DEF MemoryInv
    <3> QED
      BY <3>1, DesktopAssumption DEF WorkRequests
  <2>2. CASE Attachable(r)
    <3>1. \E row, state : Commit(r.session, row, state)
      BY <1>5, <2>2 DEF Deliver
    <3> QED
      BY <1>1, <2>1, <3>1
  <2>3. CASE ~Attachable(r)
    BY <1>2, <1>5, <2>3 DEF Deliver
  <2> QED
    BY <2>2, <2>3
<1>6. CASE JournalStep \/ CloseDiffs \/ ShutdownStep \/ UNCHANGED vars
  BY <1>2, <1>6 DEF JournalStep, WriteEvent, WriteSession, WriteFails, CloseDiffs, ShutdownStep,
                    StopJournal, JournalStopped, vars
<1> QED
  BY <1>3, <1>4, <1>5, <1>6 DEF Next

\* What the invariant says of the properties the runs check.
LEMMA InvariantImplies ==
    ASSUME IInv
    PROVE  TypeOK /\ PendingHasRequest /\ SessionRowsAreBacked /\ ShutdownFlushes
<1>0. MemoryInv /\ CountInv /\ PendingInv /\ QueueInv /\ BackedInv /\ FlushInv
  BY DEF IInv
<1>1. TypeOK
  <2>1. \A id \in SessionIds : /\ sessions[id] \in SessionStates \cup {NoSession}
                               /\ sessionRows[id] \in SessionStates \cup {NoSession}
    BY <1>0 DEF MemoryInv, QueueInv, Known, GoodStates
  <2> QED
    BY <1>0, <2>1 DEF TypeOK, MemoryInv, QueueInv
<1>2. PendingHasRequest
  <2> SUFFICES ASSUME NEW id \in SessionIds, NEW n \in Sequences, IsPending(id, n)
               PROVE  \E r \in inFlight : r.session = id /\ r.sequence = n
    BY DEF PendingHasRequest
  <2>1. Known(id) /\ n \in DOMAIN sessions[id].intervals
        /\ sessions[id].intervals[n].status = "pending"
    BY DEF IsPending
  <2>2. DOMAIN sessions[id].intervals = 1..Len(sessions[id].intervals)
    BY <1>0, <2>1 DEF MemoryInv, GoodStates, SessionStates
  <2> QED
    BY <1>0, <2>1, <2>2 DEF PendingInv
<1>3. SessionRowsAreBacked
  <2> SUFFICES ASSUME ~degraded, NEW id \in SessionIds, sessionRows[id] # NoSession,
                      NEW i \in DOMAIN sessionRows[id].intervals
               PROVE  \E stored \in eventRows : stored.session = id
                                             /\ stored.row.ts = Starts(sessionRows[id], i)
    BY DEF SessionRowsAreBacked
  <2>1. i \in 1..Len(sessionRows[id].intervals)
    BY <1>0 DEF QueueInv, GoodStates, SessionStates
  <2>2. TimeStoredBy(journalQueue, eventRows, 0, id, Starts(sessionRows[id], i))
    BY <1>0, <2>1 DEF BackedInv, TrailStoredBy
  <2>3. 1..0 = {}
    OBVIOUS
  <2> QED
    BY <2>2, <2>3 DEF TimeStoredBy
<1>4. ShutdownFlushes
  <2> SUFFICES ASSUME stage = "stopped", ~degraded
               PROVE  /\ \A x \in applied : EventRow(x) \in RowsOf(x.session)
                      /\ \A id \in SessionIds : Known(id) => sessionRows[id] = sessions[id]
    BY DEF ShutdownFlushes
  <2>1. 1..Len(journalQueue) = {}
    <3>1. Len(journalQueue) = 0
      BY <1>0 DEF QueueInv
    <3> QED
      BY <3>1
  <2>2. ASSUME NEW x \in applied PROVE EventRow(x) \in RowsOf(x.session)
    <3> DEFINE written == [session |-> x.session, row |-> EventRow(x)]
    <3>1. written \in eventRows
      BY <1>0, <2>1 DEF FlushInv, StoredBy
    <3>2. written.session = x.session /\ written.row = EventRow(x)
      OBVIOUS
    <3> HIDE DEF written
    <3> QED
      BY <3>1, <3>2 DEF RowsOf
  <2>3. ASSUME NEW id \in SessionIds, Known(id) PROVE sessionRows[id] = sessions[id]
    BY <1>0, <2>1, <2>3 DEF FlushInv, SavedBy
  <2> QED
    BY <2>2, <2>3
<1> QED
  BY <1>1, <1>2, <1>3, <1>4

\* The table, the stored sessions, the journal's queue and the requests with
\* the pipeline keep their shape; no request names an access nobody opened.
THEOREM DesktopTypeCorrect == Spec => []TypeOK
BY Invariance, InvariantImplies, PTL

\* Whatever is published, delivered and loaded, Resync returns a state the
\* engine has.
THEOREM FocusAlwaysCurrent == Spec => []FocusIsCurrent
<1>1. Init => FocusIsCurrent /\ (focus # NoFocus => focus.session \in SessionIds)
  BY DEF Init, FocusIsCurrent
<1> QED
  BY <1>1, Invariance, FocusStep, PTL DEF Spec

\* However results, publications and project loads interleave, no access is
\* pending without a request in the pipeline.
THEOREM PendingAlwaysHasRequest == Spec => []PendingHasRequest
BY Invariance, InvariantImplies, PTL

\* With a journal of any capacity, a process may end at any moment without a
\* stored access whose event is missing, unless the journal lost a record.
THEOREM SessionRowsAlwaysBacked == Spec => []SessionRowsAreBacked
BY Invariance, InvariantImplies, PTL

\* A shutdown that lost nothing leaves every published event and the last state
\* of every session in the journal.
THEOREM ShutdownAlwaysFlushes == Spec => []ShutdownFlushes
BY Invariance, InvariantImplies, PTL
-----------------------------------------------------------------------------
(***************************************************************************)
(* Replay.  First, what the engine does to two states that are alike.      *)
(***************************************************************************)

\* Replay shows what the live access shows, once its work is known.
AlikeAccess(live, replayed) ==
    /\ replayed.sequence = live.sequence /\ replayed.path = live.path
    /\ replayed.startedAt = live.startedAt /\ replayed.endedAt = live.endedAt
    /\ live.status = "known" => replayed.status = "known" /\ replayed.lines = live.lines

Alike(s, r) ==
    /\ r.stoppedAt = s.stoppedAt /\ r.paused = s.paused /\ r.activePath = s.activePath
    /\ r.currentPriority = s.currentPriority /\ r.currentTimestamp = s.currentTimestamp
    /\ Len(r.intervals) = Len(s.intervals)
    /\ \A i \in 1..Len(s.intervals) : AlikeAccess(s.intervals[i], r.intervals[i])

\* Their last accesses are alike.
LEMMA AlikeCurrent ==
    ASSUME NEW s \in SessionStates, NEW r \in SessionStates, Alike(s, r)
    PROVE  /\ s.intervals = <<>> <=> r.intervals = <<>>
           /\ s.intervals # <<>> => /\ Current(s) \in Intervals /\ Current(r) \in Intervals
                                    /\ AlikeAccess(Current(s), Current(r))
           /\ HasOpen(s) <=> HasOpen(r)
<1>1. s.intervals \in Seq(Intervals) /\ r.intervals \in Seq(Intervals)
  BY DEF SessionStates
<1>2. Len(s.intervals) = Len(r.intervals)
  BY DEF Alike
<1>3. s.intervals = <<>> <=> r.intervals = <<>>
  BY <1>1, <1>2
<1>4. s.intervals # <<>> => /\ Current(s) \in Intervals /\ Current(r) \in Intervals
                            /\ AlikeAccess(Current(s), Current(r))
  BY <1>1, <1>2, <1>3 DEF Current, Last, Alike
<1> QED
  BY <1>3, <1>4 DEF HasOpen, AlikeAccess

\* Alike they stay when these are replaced by others that are alike,
LEMMA WithCurrentAlike ==
    ASSUME NEW s \in SessionStates, NEW r \in SessionStates, Alike(s, r), s.intervals # <<>>,
           NEW c \in Intervals, NEW d \in Intervals, AlikeAccess(c, d)
    PROVE  /\ WithCurrent(s, c) \in SessionStates /\ WithCurrent(r, d) \in SessionStates
           /\ Alike(WithCurrent(s, c), WithCurrent(r, d))
<1>1. r.intervals # <<>>
  BY AlikeCurrent
<1> DEFINE t == WithCurrent(s, c)
           u == WithCurrent(r, d)
<1>2. /\ t \in SessionStates /\ SameFocus(s, t) /\ Len(t.intervals) = Len(s.intervals)
      /\ \A i \in 1..Len(s.intervals) :
            t.intervals[i] = IF i = Len(s.intervals) THEN c ELSE s.intervals[i]
  BY WithCurrentEffect
<1>3. /\ u \in SessionStates /\ SameFocus(r, u) /\ Len(u.intervals) = Len(r.intervals)
      /\ \A i \in 1..Len(r.intervals) :
            u.intervals[i] = IF i = Len(r.intervals) THEN d ELSE r.intervals[i]
  BY <1>1, WithCurrentEffect
<1> HIDE DEF t, u
<1>4. Alike(t, u)
  BY <1>2, <1>3 DEF Alike, SameFocus
<1> QED
  BY <1>2, <1>3, <1>4 DEF t, u

\* when they are closed,
LEMMA CloseCurrentAlike ==
    ASSUME NEW s \in SessionStates, NEW r \in SessionStates, Alike(s, r), NEW at \in Nat
    PROVE  /\ CloseCurrent(s, at) \in SessionStates /\ CloseCurrent(r, at) \in SessionStates
           /\ Alike(CloseCurrent(s, at), CloseCurrent(r, at))
<1>1. CASE ~HasOpen(s)
  <2>1. CloseCurrent(s, at) = s /\ CloseCurrent(r, at) = r
    BY <1>1, AlikeCurrent DEF CloseCurrent
  <2> QED
    BY <2>1
<1>2. CASE HasOpen(s)
  <2> DEFINE c == CloseInterval(Current(s), at)
             d == CloseInterval(Current(r), at)
  <2>1. /\ s.intervals # <<>> /\ HasOpen(r)
        /\ Current(s) \in Intervals /\ Current(r) \in Intervals
        /\ AlikeAccess(Current(s), Current(r))
    BY <1>2, AlikeCurrent DEF HasOpen
  <2>2. c \in Intervals /\ d \in Intervals
    BY <2>1, CloseIntervalEffect
  <2>3. AlikeAccess(c, d)
    BY <2>1 DEF AlikeAccess, CloseInterval, Intervals
  <2>4. CloseCurrent(s, at) = WithCurrent(s, c) /\ CloseCurrent(r, at) = WithCurrent(r, d)
    BY <1>2, <2>1 DEF CloseCurrent
  <2> HIDE DEF c, d
  <2> QED
    BY <2>1, <2>2, <2>3, <2>4, WithCurrentAlike
<1> QED
  BY <1>1, <1>2

\* when a rename carries the focus along,
LEMMA FollowRenameAlike ==
    ASSUME NEW s \in SessionStates, NEW r \in SessionStates, Alike(s, r), NEW e \in Events
    PROVE  /\ FollowRename(s, e) \in SessionStates /\ FollowRename(r, e) \in SessionStates
           /\ Alike(FollowRename(s, e), FollowRename(r, e))
<1>0. CarriesFocus(s, e) <=> CarriesFocus(r, e)
  BY DEF CarriesFocus, Alike
<1>1. CASE ~CarriesFocus(s, e)
  BY <1>0, <1>1 DEF FollowRename
<1>2. CASE CarriesFocus(s, e)
  <2>1. e.path \in Paths
    BY <1>2 DEF CarriesFocus, Events
  <2> DEFINE t == Relabel(s, e.path)
             u == Relabel(r, e.path)
  <2>2. t \in SessionStates /\ u \in SessionStates /\ Alike(t, u)
    <3>1. CASE s.intervals = <<>>
      BY <3>1, AlikeCurrent DEF Relabel
    <3>2. CASE s.intervals # <<>>
      <4> DEFINE c == [Current(s) EXCEPT !.path = e.path]
                 d == [Current(r) EXCEPT !.path = e.path]
      <4>1. /\ r.intervals # <<>> /\ Current(s) \in Intervals /\ Current(r) \in Intervals
            /\ AlikeAccess(Current(s), Current(r))
        BY <3>2, AlikeCurrent
      <4>2. c \in Intervals /\ d \in Intervals
        BY <2>1, <4>1 DEF Intervals
      <4>3. AlikeAccess(c, d)
        BY <4>1 DEF AlikeAccess, Intervals
      <4>4. t = WithCurrent(s, c) /\ u = WithCurrent(r, d)
        BY <3>2, <4>1 DEF Relabel
      <4> HIDE DEF c, d, t, u
      <4> QED
        BY <3>2, <4>2, <4>3, <4>4, WithCurrentAlike
    <3> QED
      BY <3>1, <3>2
  <2>3. /\ FollowRename(s, e) = [t EXCEPT !.activePath = e.path]
        /\ FollowRename(r, e) = [u EXCEPT !.activePath = e.path]
    BY <1>0, <1>2 DEF FollowRename
  <2> HIDE DEF t, u
  <2> QED
    BY <2>1, <2>2, <2>3 DEF SessionStates, Alike
<1> QED
  BY <1>1, <1>2

\* when an event takes the focus,
LEMMA TouchAlike ==
    ASSUME NEW s \in SessionStates, NEW r \in SessionStates, Alike(s, r), NEW e \in Events
    PROVE  /\ Touch(s, e) \in SessionStates /\ Touch(r, e) \in SessionStates
           /\ Alike(Touch(s, e), Touch(r, e))
           /\ Touch(s, e).activePath = s.activePath /\ Touch(s, e).intervals = s.intervals
           /\ Touch(r, e).activePath = r.activePath /\ Touch(r, e).intervals = r.intervals
<1>1. Priority(e) \in Nat /\ e.ts \in Times
  BY PriorityIsNat DEF Events
<1> QED
  BY <1>1 DEF Touch, SessionStates, Alike

\* opens an access,
LEMMA OpenAccessAlike ==
    ASSUME NEW s \in SessionStates, NEW r \in SessionStates, Alike(s, r), NEW e \in Events,
           e.path \in Paths
    PROVE  Alike(OpenAccess(s, e), OpenAccess(r, e))
<1> DEFINE n == Len(s.intervals)
           c == NewInterval(n + 1, e)
<1>1. /\ s.intervals \in Seq(Intervals) /\ r.intervals \in Seq(Intervals)
      /\ n \in Nat /\ Len(r.intervals) = n
  BY DEF SessionStates, Alike
<1>2. /\ OpenAccess(s, e) = [s EXCEPT !.intervals = Append(@, c)]
      /\ OpenAccess(r, e) = [r EXCEPT !.intervals = Append(@, c)]
  BY <1>1 DEF OpenAccess
<1>3. AlikeAccess(c, c)
  BY DEF AlikeAccess
<1> HIDE DEF c
<1>4. \A q \in Seq(Intervals) : /\ Len(Append(q, c)) = Len(q) + 1
                                /\ Append(q, c)[Len(q) + 1] = c
                                /\ \A i \in 1..Len(q) : Append(q, c)[i] = q[i]
  OBVIOUS
<1>5. \A i \in 1..(n + 1) : AlikeAccess(Append(s.intervals, c)[i], Append(r.intervals, c)[i])
  <2> TAKE i \in 1..(n + 1)
  <2>1. CASE i = n + 1
    BY <1>1, <1>3, <1>4, <2>1
  <2>2. CASE i \in 1..n
    BY <1>1, <1>4, <2>2 DEF Alike
  <2> QED
    BY <1>1, <2>1, <2>2
<1>6. /\ OpenAccess(s, e).intervals = Append(s.intervals, c)
      /\ OpenAccess(r, e).intervals = Append(r.intervals, c)
  BY <1>2 DEF SessionStates
<1>7. \A t \in {s, r} : /\ OpenAccess(t, e).stoppedAt = t.stoppedAt
                        /\ OpenAccess(t, e).paused = t.paused
                        /\ OpenAccess(t, e).activePath = t.activePath
                        /\ OpenAccess(t, e).currentPriority = t.currentPriority
                        /\ OpenAccess(t, e).currentTimestamp = t.currentTimestamp
  BY <1>2 DEF SessionStates
<1> QED
  BY <1>1, <1>4, <1>5, <1>6, <1>7 DEF Alike

\* or does both,
LEMMA FocusAlike ==
    ASSUME NEW s \in SessionStates, NEW r \in SessionStates, Alike(s, r), NEW e \in Events,
           Focuses(e)
    PROVE  Alike(Focus(s, e), Focus(r, e))
<1> DEFINE t == Touch(s, e)
           u == Touch(r, e)
<1>1. e.path \in Paths /\ e.ts \in Nat /\ e.lines \in Lines \cup {NoLines}
  BY TimesAreNat DEF Focuses, Events
<1>2. /\ t \in SessionStates /\ u \in SessionStates /\ Alike(t, u)
      /\ t.activePath = s.activePath /\ t.intervals = s.intervals
      /\ u.activePath = r.activePath /\ u.intervals = r.intervals
      /\ r.activePath = s.activePath
  BY TouchAlike DEF Alike
<1>3. CASE s.activePath = e.path /\ HasOpen(s)
  <2>1. Focus(s, e) = MergeAccess(t, e) /\ Focus(r, e) = MergeAccess(u, e)
    BY <1>2, <1>3, AlikeCurrent DEF Focus
  <2>2. CASE e.lines = NoLines
    BY <1>2, <2>1, <2>2 DEF MergeAccess
  <2>3. CASE e.lines # NoLines
    <3> DEFINE c == [Current(t) EXCEPT !.lines = e.lines]
               d == [Current(u) EXCEPT !.lines = e.lines]
    <3>1. MergeAccess(t, e) = WithCurrent(t, c) /\ MergeAccess(u, e) = WithCurrent(u, d)
      BY <2>3 DEF MergeAccess
    <3>2. t.intervals # <<>>
      BY <1>2, <1>3 DEF HasOpen
    <3>3. /\ Current(t) \in Intervals /\ Current(u) \in Intervals
          /\ AlikeAccess(Current(t), Current(u))
      BY <1>2, <3>2, AlikeCurrent
    <3>4. c \in Intervals /\ d \in Intervals
      BY <1>1, <3>3 DEF Intervals
    <3>5. AlikeAccess(c, d)
      BY <3>3 DEF AlikeAccess, Intervals
    <3> HIDE DEF c, d, t, u
    <3> QED
      BY <1>2, <2>1, <3>1, <3>2, <3>4, <3>5, WithCurrentAlike
  <2> QED
    BY <2>2, <2>3
<1>4. CASE s.activePath = e.path /\ ~HasOpen(s)
  <2>1. Focus(s, e) = OpenAccess(t, e) /\ Focus(r, e) = OpenAccess(u, e)
    BY <1>2, <1>4, AlikeCurrent DEF Focus
  <2> HIDE DEF t, u
  <2> QED
    BY <1>1, <1>2, <2>1, OpenAccessAlike
<1>5. CASE s.activePath # e.path
  <2> DEFINE v == SwitchFocus(t, e)
             w == SwitchFocus(u, e)
  <2>1. Focus(s, e) = OpenAccess(v, e) /\ Focus(r, e) = OpenAccess(w, e)
    BY <1>2, <1>5 DEF Focus
  <2>2. /\ CloseCurrent(t, e.ts) \in SessionStates /\ CloseCurrent(u, e.ts) \in SessionStates
        /\ Alike(CloseCurrent(t, e.ts), CloseCurrent(u, e.ts))
    BY <1>1, <1>2, CloseCurrentAlike
  <2>3. t.activePath \in Paths \cup {NoPath} /\ u.activePath \in Paths \cup {NoPath}
    BY <1>2 DEF SessionStates
  <2> DEFINE a == CloseCurrent(t, e.ts)
             b == CloseCurrent(u, e.ts)
  <2>4. /\ v = [a EXCEPT !.previousPath = t.activePath, !.activePath = e.path]
        /\ w = [b EXCEPT !.previousPath = u.activePath, !.activePath = e.path]
    BY DEF SwitchFocus
  <2> HIDE DEF a, b, t, u, v, w
  <2>5. v \in SessionStates /\ w \in SessionStates
    BY <1>1, <2>2, <2>3, <2>4 DEF SessionStates, a, b
  <2>6. /\ v.intervals = a.intervals /\ w.intervals = b.intervals
        /\ v.stoppedAt = a.stoppedAt /\ w.stoppedAt = b.stoppedAt
        /\ v.paused = a.paused /\ w.paused = b.paused
        /\ v.activePath = e.path /\ w.activePath = e.path
        /\ v.currentPriority = a.currentPriority /\ w.currentPriority = b.currentPriority
        /\ v.currentTimestamp = a.currentTimestamp /\ w.currentTimestamp = b.currentTimestamp
    BY <2>2, <2>4 DEF SessionStates, a, b
  <2>7. Alike(v, w)
    BY <2>2, <2>6 DEF Alike, a, b
  <2> HIDE DEF v, w
  <2> QED
    BY <1>1, <2>1, <2>5, <2>7, OpenAccessAlike
<1> QED
  BY <1>3, <1>4, <1>5

\* so by every call of Apply.
LEMMA ApplyEventAlike ==
    ASSUME NEW s \in SessionStates, NEW r \in SessionStates, Alike(s, r), NEW e \in Events
    PROVE  Alike(ApplyEvent(s, e), ApplyEvent(r, e))
<1>1. (Late(s, e) <=> Late(r, e)) /\ (Ignores(s) <=> Ignores(r))
  BY DEF Alike, Late, Ignores
<1>2. CASE Late(s, e)
  BY <1>1, <1>2 DEF ApplyEvent
<1>3. CASE ~Late(s, e) /\ e.type = "session_stopped"
  <2>1. e.ts \in Nat /\ e.ts \in Times
    BY TimesAreNat DEF Events
  <2>2. /\ CloseCurrent(s, e.ts) \in SessionStates /\ CloseCurrent(r, e.ts) \in SessionStates
        /\ Alike(CloseCurrent(s, e.ts), CloseCurrent(r, e.ts))
    BY <2>1, CloseCurrentAlike
  <2>3. /\ ApplyEvent(s, e) = [CloseCurrent(s, e.ts) EXCEPT !.stoppedAt = e.ts]
        /\ ApplyEvent(r, e) = [CloseCurrent(r, e.ts) EXCEPT !.stoppedAt = e.ts]
    BY <1>1, <1>3 DEF ApplyEvent, StopSession
  <2> QED
    BY <2>2, <2>3 DEF SessionStates, Alike
<1>4. CASE ~Late(s, e) /\ e.type # "session_stopped" /\ Ignores(s)
  BY <1>1, <1>4 DEF ApplyEvent
<1>5. CASE ~Late(s, e) /\ e.type # "session_stopped" /\ ~Ignores(s)
  <2> DEFINE t == FollowRename(s, e)
             u == FollowRename(r, e)
  <2>1. t \in SessionStates /\ u \in SessionStates /\ Alike(t, u)
    BY FollowRenameAlike
  <2>2. Outranked(t, e) <=> Outranked(u, e)
    BY <2>1 DEF Alike, Outranked
  <2>3. /\ ApplyEvent(s, e) = IF Focuses(e) /\ ~Outranked(t, e) THEN Focus(t, e) ELSE t
        /\ ApplyEvent(r, e) = IF Focuses(e) /\ ~Outranked(u, e) THEN Focus(u, e) ELSE u
    BY <1>1, <1>5 DEF ApplyEvent
  <2> HIDE DEF t, u
  <2> QED
    BY <2>1, <2>2, <2>3, FocusAlike
<1> QED
  BY <1>2, <1>3, <1>4, <1>5
-----------------------------------------------------------------------------
(***************************************************************************)
(* The canonical order.  In a finite set with a strict total order, the    *)
(* element with i elements before it exists for every i, so the events in  *)
(* canonical order are all the rows.                                       *)
(***************************************************************************)
Orders(R, S) ==
    /\ \A l \in S : <<l, l>> \notin R
    /\ \A l, r \in S : l = r \/ <<l, r>> \in R \/ <<r, l>> \in R
    /\ \A l, m, r \in S : <<l, m>> \in R /\ <<m, r>> \in R => <<l, r>> \in R

Below(R, S, r) == {l \in S : <<l, r>> \in R}

\* The elements are numbered by how many are before them.
LEMMA Ranking ==
    ASSUME NEW S, IsFiniteSet(S), NEW R, Orders(R, S)
    PROVE  /\ Cardinality(S) \in Nat
           /\ \A r \in S : Cardinality(Below(R, S, r)) \in 0..(Cardinality(S) - 1)
           /\ \A l, r \in S : <<l, r>> \in R =>
                 Cardinality(Below(R, S, l)) < Cardinality(Below(R, S, r))
           /\ \A i \in 0..(Cardinality(S) - 1) : \E r \in S : Cardinality(Below(R, S, r)) = i
<1> DEFINE n == Cardinality(S)
           rank(r) == Cardinality(Below(R, S, r))
           f == [r \in S |-> rank(r)]
<1>1. n \in Nat
  BY FS_CardinalityType
<1>2. ASSUME NEW r \in S
      PROVE  IsFiniteSet(Below(R, S, r)) /\ rank(r) \in Nat /\ rank(r) < n
  <2>1. Below(R, S, r) \in SUBSET S /\ r \notin Below(R, S, r)
    BY DEF Below, Orders
  <2>2. /\ IsFiniteSet(Below(R, S, r)) /\ rank(r) <= n
        /\ n = rank(r) => S = Below(R, S, r)
    BY <2>1, FS_Subset
  <2>3. rank(r) \in Nat
    BY <2>2, FS_CardinalityType
  <2> QED
    BY <1>1, <2>1, <2>2, <2>3
<1>3. ASSUME NEW l \in S, NEW r \in S, <<l, r>> \in R
      PROVE  rank(l) < rank(r)
  <2>1. Below(R, S, l) \in SUBSET Below(R, S, r)
    BY <1>3 DEF Below, Orders
  <2>2. l \in Below(R, S, r) /\ l \notin Below(R, S, l)
    BY <1>3 DEF Below, Orders
  <2>3. /\ rank(l) <= rank(r)
        /\ rank(r) = rank(l) => Below(R, S, r) = Below(R, S, l)
    BY <1>2, <2>1, FS_Subset
  <2> QED
    BY <1>2, <2>2, <2>3
<1>4. IsFiniteSet(0..(n - 1)) /\ Cardinality(0..(n - 1)) = n
  BY <1>1, FS_Interval, SMTT(30)
<1>5. f \in [S -> 0..(n - 1)]
  <2>1. \A r \in S : rank(r) \in 0..(n - 1)
    BY <1>1, <1>2
  <2> QED
    BY <2>1
<1>6. \A l, r \in S : f[l] = f[r] => l = r
  <2> SUFFICES ASSUME NEW l \in S, NEW r \in S, rank(l) = rank(r) PROVE l = r
    OBVIOUS
  <2>1. <<l, r>> \notin R /\ <<r, l>> \notin R
    BY <1>2, <1>3
  <2> QED
    BY <2>1 DEF Orders
<1> HIDE DEF f
<1>7. f \in Injection(S, 0..(n - 1))
  BY <1>5, <1>6 DEF Injection, IsInjective
<1>8. f \in Surjection(S, 0..(n - 1))
  BY <1>4, <1>7, FS_Injection
<1>9. \A i \in 0..(n - 1) : \E r \in S : f[r] = i
  BY <1>8 DEF Surjection
<1> QED
  BY <1>1, <1>2, <1>3, <1>9 DEF f

\* One of them is behind all others.
LEMMA Greatest ==
    ASSUME NEW S, IsFiniteSet(S), NEW R, Orders(R, S), S # {}
    PROVE  \E z \in S : \A l \in S : l = z \/ <<l, z>> \in R
<1> DEFINE n == Cardinality(S)
<1>1. n \in Nat /\ n # 0
  BY FS_CardinalityType, FS_EmptySet
<1>2. PICK z \in S : Cardinality(Below(R, S, z)) = n - 1
  BY <1>1, Ranking
<1>3. \A l \in S : <<z, l>> \notin R
  <2> SUFFICES ASSUME NEW l \in S, <<z, l>> \in R PROVE FALSE
    OBVIOUS
  <2>1. Cardinality(Below(R, S, l)) \in 0..(n - 1) /\ n - 1 < Cardinality(Below(R, S, l))
    BY <1>2, Ranking
  <2> QED
    BY <1>1, <2>1
<1> QED
  BY <1>3 DEF Orders

\* The greatest of finitely many naturals.
LEMMA FiniteMax ==
    ASSUME NEW S, IsFiniteSet(S), S \subseteq Nat, S # {}
    PROVE  Max(S) \in S /\ \A x \in S : x <= Max(S)
<1> DEFINE R == {p \in S \X S : p[1] < p[2]}
<1>1. Orders(R, S)
  BY DEF Orders
<1>2. \A l, z \in S : <<l, z>> \in R => l < z
  OBVIOUS
<1> HIDE DEF R
<1>3. PICK z \in S : \A l \in S : l = z \/ <<l, z>> \in R
  BY <1>1, Greatest
<1>4. ASSUME NEW l \in S PROVE z >= l
  <2>1. l = z \/ l < z
    BY <1>2, <1>3
  <2>2. l \in Nat /\ z \in Nat
    OBVIOUS
  <2> QED
    BY <2>1, <2>2
<1>5. Max(S) \in S /\ \A l \in S : Max(S) >= l
  BY <1>4 DEF Max
<1> QED
  BY <1>5

\* Rows with instants, and ids of their own.
Sound(rows) ==
    /\ IsFiniteSet(rows)
    /\ \A r \in rows : r.ts \in Nat /\ r.id \in Nat
    /\ \A l, r \in rows : l.id = r.id => l = r

CanonicalOrder(rows) == {p \in rows \X rows : Canonically(p[1], p[2])}

\* A set of naturals has a least one.
LEMMA LeastOne ==
  \A T \in SUBSET Nat : T # {} => \E x \in T : \A y \in T : x <= y
<1> TAKE T \in SUBSET Nat
<1> HAVE T # {}
<1>1. PICK x \in T : \A y \in T : ~ (<<y, x>> \in OpToRel(<, Nat))
  BY NatLessThanWellFounded, WFMin
<1>2. \A y \in T : ~ (y < x)
  BY <1>1 DEF OpToRel
<1> QED
  BY <1>2

LEMMA RanksAreNumbers == \A type : ReplayRank(type) \in 0..2
BY DEF ReplayRank

\* Sound rows have one canonical order.
LEMMA CanonicallyOrders ==
    ASSUME NEW rows, Sound(rows)
    PROVE  Orders(CanonicalOrder(rows), rows)
<1> DEFINE R == CanonicalOrder(rows)
<1>0. \A r \in rows : r.ts \in Nat /\ r.id \in Nat /\ ReplayRank(r.type) \in 0..2
  BY RanksAreNumbers DEF Sound
<1>1. \A l, r \in rows : <<l, r>> \in R <=> Canonically(l, r)
  BY DEF CanonicalOrder
<1> HIDE DEF R
<1>2. ASSUME NEW l \in rows PROVE ~Canonically(l, l)
  BY <1>0 DEF Canonically
<1>3. ASSUME NEW l \in rows, NEW r \in rows
      PROVE  l = r \/ Canonically(l, r) \/ Canonically(r, l)
  <2>1. l.id # r.id \/ l = r
    BY DEF Sound
  <2> QED
    BY <1>0, <2>1 DEF Canonically
<1>4. ASSUME NEW l \in rows, NEW m \in rows, NEW r \in rows,
             Canonically(l, m), Canonically(m, r)
      PROVE  Canonically(l, r)
  BY <1>0, <1>4 DEF Canonically
<1> QED
  BY <1>1, <1>2, <1>3, <1>4 DEF Orders, R
-----------------------------------------------------------------------------
(* Work results, on states that are alike.                                 *)

\* An access with its work.
WithWork(i, lines, status) == [i EXCEPT !.lines = lines, !.status = status]

LEMMA WithWorkEffect ==
    ASSUME NEW i \in Intervals, NEW lines \in Lines \cup {NoLines}, NEW status \in Statuses
    PROVE  LET c == WithWork(i, lines, status)
           IN  /\ c \in Intervals
               /\ c.sequence = i.sequence /\ c.path = i.path
               /\ c.startedAt = i.startedAt /\ c.endedAt = i.endedAt
               /\ c.lines = lines /\ c.status = status
BY DEF WithWork, Intervals

\* What a result does to each access.
LEMMA SetWorkIntervals ==
    ASSUME NEW s \in GoodStates, NEW sequence,
           NEW lines \in Lines \cup {NoLines}, NEW status \in Statuses
    PROVE  LET t == SetWork(s, sequence, lines, status)
           IN  /\ t \in GoodStates
               /\ t.stoppedAt = s.stoppedAt /\ t.paused = s.paused
               /\ t.activePath = s.activePath /\ t.currentPriority = s.currentPriority
               /\ t.currentTimestamp = s.currentTimestamp
               /\ Len(t.intervals) = Len(s.intervals)
               /\ \A i \in 1..Len(s.intervals) : t.intervals[i] =
                     IF i = sequence
                     THEN WithWork(s.intervals[i], lines, status)
                     ELSE s.intervals[i]
<1> DEFINE n == Len(s.intervals)
           t == SetWork(s, sequence, lines, status)
           q == [i \in DOMAIN s.intervals |->
                    IF s.intervals[i].sequence = sequence
                    THEN [s.intervals[i] EXCEPT !.lines = lines, !.status = status]
                    ELSE s.intervals[i]]
<1>1. /\ s \in SessionStates /\ DOMAIN s.intervals = 1..n
      /\ \A i \in 1..n : s.intervals[i].sequence = i
  BY DEF GoodStates, SessionStates, TrailOrdered
<1>2. t \in GoodStates /\ Len(t.intervals) = n
  BY SetWorkStatus DEF StatusSet
<1>3. t = [s EXCEPT !.intervals = q]
  BY DEF SetWork
<1>4. \A i \in 1..n : q[i] =
         IF i = sequence THEN WithWork(s.intervals[i], lines, status) ELSE s.intervals[i]
  BY <1>1 DEF WithWork
<1> HIDE DEF q, t
<1>5. /\ t.intervals = q /\ t.stoppedAt = s.stoppedAt /\ t.paused = s.paused
      /\ t.activePath = s.activePath /\ t.currentPriority = s.currentPriority
      /\ t.currentTimestamp = s.currentTimestamp
  BY <1>1, <1>3 DEF SessionStates
<1> QED
  BY <1>2, <1>4, <1>5 DEF t

LEMMA AlikeTransitive ==
    ASSUME NEW s, NEW t, NEW r, Alike(s, t), Alike(t, r)
    PROVE  Alike(s, r)
BY DEF Alike, AlikeAccess

\* A result on both sides.
LEMMA SetWorkAlike ==
    ASSUME NEW s \in GoodStates, NEW r \in GoodStates, Alike(s, r), NEW sequence,
           NEW lines \in Lines \cup {NoLines}, NEW status \in Statuses
    PROVE  /\ SetWork(s, sequence, lines, status) \in GoodStates
           /\ SetWork(r, sequence, lines, status) \in GoodStates
           /\ Alike(SetWork(s, sequence, lines, status), SetWork(r, sequence, lines, status))
<1> DEFINE t == SetWork(s, sequence, lines, status)
           u == SetWork(r, sequence, lines, status)
           n == Len(s.intervals)
<1>1. /\ t \in GoodStates
      /\ t.stoppedAt = s.stoppedAt /\ t.paused = s.paused
      /\ t.activePath = s.activePath /\ t.currentPriority = s.currentPriority
      /\ t.currentTimestamp = s.currentTimestamp /\ Len(t.intervals) = n
      /\ \A i \in 1..n : t.intervals[i] =
            IF i = sequence THEN WithWork(s.intervals[i], lines, status) ELSE s.intervals[i]
  BY SetWorkIntervals
<1>2. /\ u \in GoodStates
      /\ u.stoppedAt = r.stoppedAt /\ u.paused = r.paused
      /\ u.activePath = r.activePath /\ u.currentPriority = r.currentPriority
      /\ u.currentTimestamp = r.currentTimestamp /\ Len(u.intervals) = Len(r.intervals)
      /\ \A i \in 1..Len(r.intervals) : u.intervals[i] =
            IF i = sequence THEN WithWork(r.intervals[i], lines, status) ELSE r.intervals[i]
  BY SetWorkIntervals
<1>3. /\ Len(r.intervals) = n
      /\ \A i \in 1..n : /\ s.intervals[i] \in Intervals /\ r.intervals[i] \in Intervals
                         /\ AlikeAccess(s.intervals[i], r.intervals[i])
  BY DEF Alike, GoodStates, SessionStates
<1>4. ASSUME NEW a \in Intervals, NEW b \in Intervals, AlikeAccess(a, b)
      PROVE  AlikeAccess(WithWork(a, lines, status), WithWork(b, lines, status))
  BY <1>4, WithWorkEffect DEF AlikeAccess
<1> HIDE DEF t, u
<1>5. \A i \in 1..n : AlikeAccess(t.intervals[i], u.intervals[i])
  BY <1>1, <1>2, <1>3, <1>4
<1> QED
  BY <1>1, <1>2, <1>3, <1>5 DEF Alike, t, u

\* Work that is not known yet is not shown.
LEMMA MarkAlike ==
    ASSUME NEW s \in GoodStates, NEW r, Alike(s, r), NEW sequence,
           NEW lines \in Lines \cup {NoLines}, NEW status \in Statuses, status # "known"
    PROVE  Alike(SetWork(s, sequence, lines, status), r)
<1> DEFINE t == SetWork(s, sequence, lines, status)
           n == Len(s.intervals)
<1>1. /\ t.stoppedAt = s.stoppedAt /\ t.paused = s.paused
      /\ t.activePath = s.activePath /\ t.currentPriority = s.currentPriority
      /\ t.currentTimestamp = s.currentTimestamp /\ Len(t.intervals) = n
      /\ \A i \in 1..n : t.intervals[i] =
            IF i = sequence THEN WithWork(s.intervals[i], lines, status) ELSE s.intervals[i]
  BY SetWorkIntervals
<1>2. \A i \in 1..n : /\ s.intervals[i] \in Intervals
                      /\ AlikeAccess(s.intervals[i], r.intervals[i])
  BY DEF Alike, GoodStates, SessionStates
<1>3. ASSUME NEW a \in Intervals, NEW b, AlikeAccess(a, b)
      PROVE  AlikeAccess(WithWork(a, lines, status), b)
  BY <1>3, WithWorkEffect DEF AlikeAccess
<1> HIDE DEF t
<1>4. \A i \in 1..n : AlikeAccess(t.intervals[i], r.intervals[i])
  BY <1>1, <1>2, <1>3
<1> QED
  BY <1>1, <1>4 DEF Alike, t

\* The accesses of the engine's states are numbered from one.
LEMMA NumberedInOrder ==
    ASSUME NEW s \in GoodStates, NEW sequence
    PROVE  HasSequence(s, sequence) <=> sequence \in 1..Len(s.intervals)
<1>1. /\ DOMAIN s.intervals = 1..Len(s.intervals)
      /\ \A i \in 1..Len(s.intervals) : s.intervals[i].sequence = i
  BY DEF GoodStates, SessionStates, TrailOrdered
<1> QED
  BY <1>1 DEF HasSequence

\* The end of a session closes an access and leaves work alone: a result may
\* come before or after it.
LEMMA StopAfterWork ==
    ASSUME NEW t \in GoodStates, NEW e \in Events, e.type = "session_stopped", NEW sequence,
           NEW lines \in Lines \cup {NoLines}, NEW status \in Statuses
    PROVE  /\ ApplyEvent(t, e) \in GoodStates
           /\ Len(ApplyEvent(t, e).intervals) = Len(t.intervals)
           /\ ApplyEvent(SetWork(t, sequence, lines, status), e) \in GoodStates
           /\ Alike(SetWork(ApplyEvent(t, e), sequence, lines, status),
                    ApplyEvent(SetWork(t, sequence, lines, status), e))
<1> DEFINE u == SetWork(t, sequence, lines, status)
           a == ApplyEvent(t, e)
           b == ApplyEvent(u, e)
           n == Len(t.intervals)
<1>1. /\ u \in GoodStates
      /\ u.stoppedAt = t.stoppedAt /\ u.paused = t.paused
      /\ u.activePath = t.activePath /\ u.currentPriority = t.currentPriority
      /\ u.currentTimestamp = t.currentTimestamp /\ Len(u.intervals) = n
      /\ \A i \in 1..n : u.intervals[i] =
            IF i = sequence THEN WithWork(t.intervals[i], lines, status) ELSE t.intervals[i]
  BY SetWorkIntervals
<1>2. a \in GoodStates /\ b \in GoodStates
  BY <1>1, ApplyEventEffect DEF GoodStates
<1>3. Len(a.intervals) = n
  <2>1. ~Focuses(e)
    BY DEF Focuses, FocusTypes, RenameTypes
  <2> QED
    BY <2>1, ApplyEventOpens DEF SameWork, OpensOne
<1> DEFINE w == SetWork(a, sequence, lines, status)
<1>4. CASE Late(t, e)
  <2>1. a = t /\ b = u
    BY <1>1, <1>4 DEF ApplyEvent, Late
  <2>2. Alike(u, u)
    BY DEF Alike, AlikeAccess
  <2> HIDE DEF u
  <2> QED
    BY <1>2, <1>3, <2>1, <2>2 DEF u
<1>5. CASE ~Late(t, e)
  <2> DEFINE ct == CloseCurrent(t, e.ts)
             cu == CloseCurrent(u, e.ts)
             close(i) == CloseInterval(i, e.ts)
  <2>1. e.ts \in Nat /\ e.ts \in Times
    BY TimesAreNat DEF Events
  <2>2. /\ a = [ct EXCEPT !.stoppedAt = e.ts] /\ b = [cu EXCEPT !.stoppedAt = e.ts]
    BY <1>1, <1>5 DEF ApplyEvent, Late, StopSession
  <2>3. /\ t \in SessionStates /\ u \in SessionStates
        /\ ct \in SessionStates /\ cu \in SessionStates /\ SameFocus(t, ct) /\ SameFocus(u, cu)
        /\ Len(ct.intervals) = n /\ Len(cu.intervals) = n
    BY <1>1, <2>1, CloseCurrentEffect DEF GoodStates
  <2>4. \A i \in 1..n : t.intervals[i] \in Intervals
    BY <2>3 DEF SessionStates
  <2>5. ASSUME NEW i \in Intervals
        PROVE  /\ WithWork(i, lines, status).endedAt = i.endedAt
               /\ WithWork(close(i), lines, status) = close(WithWork(i, lines, status))
               /\ WithWork(i, lines, status) \in Intervals
    BY <2>5 DEF Intervals, CloseInterval, WithWork
  <2> HIDE DEF close
  <2>6. n # 0 => /\ t.intervals # <<>> /\ u.intervals # <<>> /\ n \in 1..n
                 /\ Current(t) = t.intervals[n] /\ Current(u) = u.intervals[n]
    BY <1>1, <2>3 DEF SessionStates, Current, Last
  <2>7. n = 0 => t.intervals = <<>> /\ u.intervals = <<>>
    BY <1>1, <2>3 DEF SessionStates
  <2>8. HasOpen(t) <=> HasOpen(u)
    BY <1>1, <2>4, <2>5, <2>6, <2>7 DEF HasOpen
  <2>9. \A i \in 1..n : cu.intervals[i] =
            IF i = sequence THEN WithWork(ct.intervals[i], lines, status) ELSE ct.intervals[i]
    <3>1. CASE ~HasOpen(t)
      <4>1. ct = t /\ cu = u
        BY <2>8, <3>1 DEF CloseCurrent
      <4> QED
        BY <1>1, <4>1
    <3>2. CASE HasOpen(t)
      <4>1. n # 0 /\ HasOpen(u)
        BY <2>7, <2>8, <3>2 DEF HasOpen
      <4>2. /\ ct = WithCurrent(t, close(Current(t))) /\ cu = WithCurrent(u, close(Current(u)))
        BY <3>2, <4>1 DEF CloseCurrent, close
      <4>3. /\ Current(t) \in Intervals /\ Current(u) \in Intervals
            /\ close(Current(t)) \in Intervals /\ close(Current(u)) \in Intervals
        <5>1. n \in 1..n /\ Current(t) = t.intervals[n] /\ Current(u) = u.intervals[n]
          BY <2>6, <4>1
        <5>2. u.intervals \in Seq(Intervals) /\ Len(u.intervals) = n
          BY <1>1, <2>3 DEF SessionStates
        <5>3. Current(t) \in Intervals /\ Current(u) \in Intervals
          BY <2>4, <5>1, <5>2
        <5>4. \A i \in Intervals : close(i) \in Intervals
          BY <2>1, CloseIntervalEffect DEF close
        <5> QED
          BY <5>3, <5>4
      <4>4. \A i \in 1..n : /\ ct.intervals[i] = IF i = n THEN close(Current(t)) ELSE t.intervals[i]
                            /\ cu.intervals[i] = IF i = n THEN close(Current(u)) ELSE u.intervals[i]
        BY <1>1, <2>3, <2>6, <4>1, <4>2, <4>3, WithCurrentEffect
      <4>5. close(Current(u)) = IF n = sequence THEN WithWork(close(Current(t)), lines, status)
                                ELSE close(Current(t))
        BY <1>1, <2>5, <2>6, <4>1, <4>3
      <4> HIDE DEF ct, cu
      <4> QED
        BY <1>1, <4>4, <4>5
    <3> QED
      BY <3>1, <3>2
  <2> HIDE DEF ct, cu
  <2>10. /\ a.intervals = ct.intervals /\ b.intervals = cu.intervals
         /\ b.stoppedAt = a.stoppedAt /\ b.paused = a.paused /\ b.activePath = a.activePath
         /\ b.currentPriority = a.currentPriority /\ b.currentTimestamp = a.currentTimestamp
    BY <1>1, <2>2, <2>3 DEF SessionStates, SameFocus
  <2> HIDE DEF a, b, u
  <2>11. /\ w.stoppedAt = a.stoppedAt /\ w.paused = a.paused
         /\ w.activePath = a.activePath /\ w.currentPriority = a.currentPriority
         /\ w.currentTimestamp = a.currentTimestamp /\ Len(w.intervals) = n
         /\ \A i \in 1..n : w.intervals[i] =
               IF i = sequence THEN WithWork(a.intervals[i], lines, status) ELSE a.intervals[i]
    BY <1>2, <1>3, SetWorkIntervals
  <2>12. Alike(w, b)
    BY <2>3, <2>9, <2>10, <2>11 DEF Alike, AlikeAccess
  <2> QED
    BY <1>2, <1>3, <2>12 DEF a, b, u, w
<1> QED
  BY <1>4, <1>5
-----------------------------------------------------------------------------
(***************************************************************************)
(* Replay of a set of rows, as a state after each of them.                 *)
(***************************************************************************)
FirstOf(rows, r) == \A l \in rows : ~Canonically(l, r)
LastOf(rows, r) == \A l \in rows : ~Canonically(r, l)
NextTo(rows, l, r) ==
    Canonically(l, r) /\ \A m \in rows : ~(Canonically(l, m) /\ Canonically(m, r))

\* Replay has state after[r] after row r, and in the end one that shows state s.
ReplaysBy(rows, after, s) ==
    /\ \A r \in rows : after[r] \in GoodStates
    /\ \A r \in rows : FirstOf(rows, r) => after[r] = ReplayStep(NoSession, r)
    /\ \A l, r \in rows : NextTo(rows, l, r) => after[r] = ReplayStep(after[l], r)
    /\ \A r \in rows : LastOf(rows, r) => Alike(s, after[r])

IsStop(r) == r.type = "session_stopped"

\* The rows of a session replay to state s.
Replays(rows, s) ==
    /\ Sound(rows)
    /\ \E a \in rows : a.type = "session_started"
    /\ \A l, r \in rows : IsStop(l) /\ IsStop(r) => l = r
    /\ \E after : ReplaysBy(rows, after, s)

\* The same, for use without the relation.
LEMMA OrderFacts ==
    ASSUME NEW rows, Sound(rows)
    PROVE  /\ \A l \in rows : ~Canonically(l, l)
           /\ \A l, r \in rows : l = r \/ Canonically(l, r) \/ Canonically(r, l)
           /\ \A l, m, r \in rows : Canonically(l, m) /\ Canonically(m, r) => Canonically(l, r)
           /\ \A l, r \in rows : ~(Canonically(l, r) /\ Canonically(r, l))
<1> DEFINE R == CanonicalOrder(rows)
<1>1. \A l, r \in rows : <<l, r>> \in R <=> Canonically(l, r)
  BY DEF CanonicalOrder
<1>2. Orders(R, rows)
  BY CanonicallyOrders
<1> HIDE DEF R
<1>3. \A l \in rows : ~Canonically(l, l)
  BY <1>1, <1>2 DEF Orders
<1>4. \A l, m, r \in rows : Canonically(l, m) /\ Canonically(m, r) => Canonically(l, r)
  BY <1>1, <1>2 DEF Orders
<1> QED
  BY <1>1, <1>2, <1>3, <1>4 DEF Orders

\* Some of finitely many rows is the last.
LEMMA LatestRow ==
    ASSUME NEW rows, Sound(rows), NEW some \in SUBSET rows, some # {}
    PROVE  \E z \in some : \A l \in some : l = z \/ Canonically(l, z)
<1> DEFINE R == CanonicalOrder(rows)
<1>1. \A l, r \in rows : <<l, r>> \in R <=> Canonically(l, r)
  BY DEF CanonicalOrder
<1>2. Orders(R, some)
  BY CanonicallyOrders DEF Orders
<1> HIDE DEF R
<1>3. IsFiniteSet(some)
  BY FS_Subset DEF Sound
<1> QED
  BY <1>1, <1>2, <1>3, Greatest

\* The canonical sequence has all the rows, each next to the one before it.
LEMMA CanonicalSequence ==
    ASSUME NEW rows, Sound(rows)
    PROVE  LET n == Cardinality(rows)
               c == CanonicalEvents(rows)
           IN  /\ n \in Nat
               /\ c = [i \in 1..n |-> c[i]]
               /\ \A i \in 1..n : c[i] \in rows
               /\ \A r \in rows : \E i \in 1..n : c[i] = r
               /\ n > 0 => FirstOf(rows, c[1]) /\ LastOf(rows, c[n])
               /\ \A i \in 1..n : i > 1 => NextTo(rows, c[i - 1], c[i])
<1> DEFINE n == Cardinality(rows)
           c == CanonicalEvents(rows)
           R == CanonicalOrder(rows)
           rank(r) == Cardinality(Below(R, rows, r))
<1>1. IsFiniteSet(rows) /\ Orders(R, rows)
  BY CanonicallyOrders DEF Sound
<1>2. \A l, r \in rows : <<l, r>> \in R <=> Canonically(l, r)
  BY DEF CanonicalOrder
<1>3. \A r \in rows : {l \in rows : Canonically(l, r)} = Below(R, rows, r)
  BY <1>2 DEF Below
<1>4. c = [i \in 1..n |->
              CHOOSE r \in rows : Cardinality({l \in rows : Canonically(l, r)}) = i - 1]
  BY DEF CanonicalEvents
<1>4a. c = [i \in 1..n |-> c[i]]
  BY <1>4
<1> HIDE DEF c, R
<1>5. /\ n \in Nat
      /\ \A r \in rows : rank(r) \in 0..(n - 1)
      /\ \A l, r \in rows : <<l, r>> \in R => rank(l) < rank(r)
      /\ \A i \in 0..(n - 1) : \E r \in rows : rank(r) = i
  BY <1>1, Ranking
<1>6. \A l, r \in rows : Canonically(l, r) <=> rank(l) < rank(r)
  <2> SUFFICES ASSUME NEW l \in rows, NEW r \in rows
               PROVE  Canonically(l, r) <=> rank(l) < rank(r)
    OBVIOUS
  <2>1. l = r \/ <<l, r>> \in R \/ <<r, l>> \in R
    BY <1>1 DEF Orders
  <2>2. rank(l) \in Nat /\ rank(r) \in Nat
    BY <1>5
  <2>3. /\ <<l, r>> \in R => rank(l) < rank(r)
        /\ <<r, l>> \in R => rank(r) < rank(l)
    BY <1>5
  <2>4. l = r => ~(rank(l) < rank(r))
    BY <2>2
  <2>5. ~(rank(l) < rank(r) /\ rank(r) < rank(l))
    BY <2>2
  <2> QED
    BY <1>2, <2>1, <2>3, <2>4, <2>5
<1>7. \A l, r \in rows : rank(l) = rank(r) => l = r
  <2> SUFFICES ASSUME NEW l \in rows, NEW r \in rows, rank(l) = rank(r) PROVE l = r
    OBVIOUS
  <2>1. ~(rank(l) < rank(r)) /\ ~(rank(r) < rank(l))
    BY <1>5
  <2> QED
    BY <1>1, <1>2, <1>6, <2>1 DEF Orders
<1>8. \A i \in 1..n : c[i] \in rows /\ rank(c[i]) = i - 1
  <2> TAKE i \in 1..n
  <2>1. i - 1 \in 0..(n - 1)
    BY <1>5
  <2>2. \E r \in rows : Cardinality({l \in rows : Canonically(l, r)}) = i - 1
    BY <1>3, <1>5, <2>1
  <2>3. /\ c[i] \in rows
        /\ Cardinality({l \in rows : Canonically(l, c[i])}) = i - 1
    BY <1>4, <2>2
  <2> QED
    BY <1>3, <2>3
<1>9. \A r \in rows : \E i \in 1..n : c[i] = r
  <2> TAKE r \in rows
  <2> HIDE DEF rank, n
  <2>1. PICK i : i = rank(r) + 1
    OBVIOUS
  <2>2. i \in 1..n /\ i - 1 = rank(r)
    BY <1>5, <2>1
  <2>3. c[i] \in rows /\ rank(c[i]) = rank(r)
    BY <1>8, <2>2
  <2>4. c[i] = r
    BY <1>7, <2>3
  <2> QED
    BY <2>2, <2>4
<1> HIDE DEF n, rank
<1>10. n > 0 => FirstOf(rows, c[1]) /\ LastOf(rows, c[n])
  <2> SUFFICES ASSUME n > 0 PROVE FirstOf(rows, c[1]) /\ LastOf(rows, c[n])
    OBVIOUS
  <2>1. 1 \in 1..n /\ n \in 1..n
    BY <1>5
  <2>2. c[1] \in rows /\ c[n] \in rows /\ rank(c[1]) = 0 /\ rank(c[n]) = n - 1
    BY <1>8, <2>1
  <2>3. \A l \in rows : ~(rank(l) < 0) /\ ~(n - 1 < rank(l))
    BY <1>5
  <2> QED
    BY <1>6, <2>2, <2>3 DEF FirstOf, LastOf
<1>11. \A i \in 1..n : i > 1 => NextTo(rows, c[i - 1], c[i])
  <2> SUFFICES ASSUME NEW i \in 1..n, i > 1 PROVE NextTo(rows, c[i - 1], c[i])
    OBVIOUS
  <2>1. i - 1 \in 1..n
    BY <1>5
  <2>2. c[i] \in rows /\ c[i - 1] \in rows /\ rank(c[i]) = i - 1 /\ rank(c[i - 1]) = i - 2
    BY <1>8, <2>1
  <2>3. i - 2 < i - 1 /\ \A m \in rows : ~(i - 2 < rank(m) /\ rank(m) < i - 1)
    BY <1>5
  <2> QED
    BY <1>6, <2>2, <2>3 DEF NextTo
<1> QED
  BY <1>5, <1>8, <1>9, <1>10, <1>11, <1>4a DEF n, c

\* What replay computes is the state after the last row.
LEMMA ReplayRowsEnds ==
    ASSUME NEW rows, Sound(rows), rows # {}, NEW after, NEW s, ReplaysBy(rows, after, s)
    PROVE  LET u == ReplayRows(CanonicalEvents(rows))
           IN  u \in GoodStates /\ Alike(s, u)
<1> DEFINE n == Cardinality(rows)
           c == CanonicalEvents(rows)
           Solves(g, m) == g = [k \in 0..m |->
                                   IF k = 0 THEN NoSession ELSE ReplayStep(g[k - 1], c[k])]
           state == CHOOSE g : Solves(g, Len(c))
           h == [k \in 0..n |-> IF k = 0 THEN NoSession ELSE after[c[k]]]
<1>1. /\ n \in Nat
      /\ c = [i \in 1..n |-> c[i]]
      /\ \A i \in 1..n : c[i] \in rows
      /\ n > 0 => FirstOf(rows, c[1]) /\ LastOf(rows, c[n])
      /\ \A i \in 1..n : i > 1 => NextTo(rows, c[i - 1], c[i])
  BY CanonicalSequence
<1>2. n > 0
  BY <1>1, FS_EmptySet DEF Sound
<1>3. ReplayRows(c) = state[Len(c)]
  BY DEF ReplayRows
<1> HIDE DEF n, c
<1>4. Len(c) = n
  BY <1>1
<1>5. h[0] = NoSession /\ \A k \in 1..n : h[k] = after[c[k]]
  BY <1>1
<1>6. \A k \in 0..n : h[k] = IF k = 0 THEN NoSession ELSE ReplayStep(h[k - 1], c[k])
  <2> TAKE k \in 0..n
  <2>1. CASE k = 0
    BY <1>5, <2>1
  <2>2. CASE k = 1
    <3>1. after[c[1]] = ReplayStep(NoSession, c[1])
      BY <1>1, <1>2, <2>2 DEF ReplaysBy
    <3>2. h[1] = after[c[1]] /\ k - 1 = 0
      BY <1>2, <1>5, <2>2
    <3> HIDE DEF h
    <3> QED
      BY <1>5, <2>2, <3>1, <3>2
  <2>3. CASE k > 1
    <3>1. k \in 1..n /\ k - 1 \in 1..n
      BY <1>1, <2>3
    <3>2. after[c[k]] = ReplayStep(after[c[k - 1]], c[k])
      BY <1>1, <2>3, <3>1 DEF ReplaysBy
    <3>3. h[k] = after[c[k]] /\ h[k - 1] = after[c[k - 1]]
      BY <1>5, <3>1
    <3> HIDE DEF h
    <3> QED
      BY <2>3, <3>2, <3>3
  <2> QED
    BY <1>1, <2>1, <2>2, <2>3
<1>7. h = [k \in 0..n |-> h[k]]
  OBVIOUS
<1> HIDE DEF h
<1>8. Solves(h, n)
  BY <1>6, <1>7
<1>9. Solves(state, n)
  BY <1>4, <1>8
<1> HIDE DEF state
<1>10. \A k \in 0..n : state[k] = IF k = 0 THEN NoSession ELSE ReplayStep(state[k - 1], c[k])
  BY <1>9
<1>11. \A k \in 0..n : state[k] = h[k]
  <2> DEFINE T == {k \in 0..n : state[k] # h[k]}
  <2> SUFFICES ASSUME T # {} PROVE FALSE
    OBVIOUS
  <2>0. T \in SUBSET Nat
    BY <1>1
  <2>1. PICK k \in T : \A m \in T : k <= m
    BY <2>0, LeastOne
  <2>2. CASE k = 0
    BY <1>5, <1>10, <2>1, <2>2
  <2>3. CASE k # 0
    <3>1. k - 1 \in 0..n /\ k - 1 \notin T
      BY <1>1, <2>1, <2>3
    <3>2. state[k - 1] = h[k - 1]
      BY <3>1
    <3> QED
      BY <1>6, <1>10, <2>1, <2>3, <3>2
  <2> QED
    BY <2>2, <2>3
<1>12. state[n] = after[c[n]] /\ c[n] \in rows /\ LastOf(rows, c[n])
  BY <1>1, <1>2, <1>5, <1>11
<1> QED
  BY <1>3, <1>4, <1>12 DEF ReplaysBy, c

\* A row put somewhere behind another one.
LEMMA Inserted ==
    ASSUME NEW rows, NEW x, x \notin rows, Sound(rows \cup {x}),
           NEW p \in rows, NextTo(rows \cup {x}, p, x)
    PROVE  LET more == rows \cup {x}
           IN  /\ ~FirstOf(more, x)
               /\ \A r \in rows : FirstOf(more, r) => FirstOf(rows, r)
               /\ \A r \in rows : LastOf(more, r) => LastOf(rows, r)
               /\ LastOf(more, x) => LastOf(rows, p)
               /\ \A l, r \in rows : NextTo(more, l, r) => NextTo(rows, l, r)
               /\ \A r \in rows : NextTo(more, x, r) => NextTo(rows, p, r)
               /\ \A r \in rows : NextTo(more, r, x) => r = p
               /\ ~NextTo(more, x, x)
<1> DEFINE more == rows \cup {x}
<1>1. /\ \A l \in more : ~Canonically(l, l)
      /\ \A l, r \in more : l = r \/ Canonically(l, r) \/ Canonically(r, l)
      /\ \A l, m, r \in more : Canonically(l, m) /\ Canonically(m, r) => Canonically(l, r)
      /\ \A l, r \in more : ~(Canonically(l, r) /\ Canonically(r, l))
  BY OrderFacts
<1>2. /\ x \in more /\ p \in more /\ rows \subseteq more
      /\ \A r \in more : r \in rows \/ r = x
      /\ Canonically(p, x) /\ \A m \in more : ~(Canonically(p, m) /\ Canonically(m, x))
  BY DEF NextTo
<1> HIDE DEF more
<1>3. ~FirstOf(more, x) /\ ~NextTo(more, x, x)
  BY <1>1, <1>2 DEF FirstOf, NextTo
<1>4. ASSUME NEW r \in rows
      PROVE  /\ FirstOf(more, r) => FirstOf(rows, r)
             /\ LastOf(more, r) => LastOf(rows, r)
             /\ NextTo(more, r, x) => r = p
  <2>1. r \in more
    BY <1>2
  <2>2. NextTo(more, r, x) => r = p
    BY <1>1, <1>2, <2>1 DEF NextTo
  <2> QED
    BY <1>2, <2>2 DEF FirstOf, LastOf
<1>5. LastOf(more, x) => LastOf(rows, p)
  <2> SUFFICES ASSUME LastOf(more, x), NEW l \in rows, Canonically(p, l) PROVE FALSE
    BY DEF LastOf
  <2>1. l \in more /\ l # x /\ ~Canonically(x, l)
    BY <1>2 DEF LastOf
  <2>2. Canonically(l, x)
    BY <1>1, <1>2, <2>1
  <2> QED
    BY <1>2, <2>1, <2>2
<1>6. \A l, r \in rows : NextTo(more, l, r) => NextTo(rows, l, r)
  BY <1>2 DEF NextTo
<1>7. ASSUME NEW r \in rows, NextTo(more, x, r) PROVE NextTo(rows, p, r)
  <2>1. r \in more /\ Canonically(x, r) /\ Canonically(p, r)
    BY <1>1, <1>2, <1>7 DEF NextTo
  <2>2. ASSUME NEW m \in rows, Canonically(p, m), Canonically(m, r) PROVE FALSE
    <3>1. m \in more /\ m # x
      BY <1>2
    <3>2. ~Canonically(m, x) /\ ~Canonically(x, m)
      BY <1>2, <1>7, <2>2, <3>1 DEF NextTo
    <3> QED
      BY <1>1, <1>2, <3>1, <3>2
  <2> QED
    BY <2>1, <2>2 DEF NextTo
<1> QED
  BY <1>3, <1>4, <1>5, <1>6, <1>7 DEF more

\* Replay with one row more: the rows behind it have to leave the same states
\* behind, but for the last.
LEMMA InsertedReplays ==
    ASSUME NEW rows, NEW x, x \notin rows, Sound(rows \cup {x}),
           NEW p \in rows, NextTo(rows \cup {x}, p, x),
           NEW after, NEW s, ReplaysBy(rows, after, s),
           NEW v \in GoodStates, v = ReplayStep(after[p], x),
           NEW t, LastOf(rows \cup {x}, x) => Alike(t, v),
           \A r \in rows : NextTo(rows \cup {x}, x, r) =>
              /\ ReplayStep(v, r) \in GoodStates
              /\ LastOf(rows, r) => Alike(t, ReplayStep(v, r))
              /\ ~LastOf(rows, r) => ReplayStep(v, r) = after[r],
           \A r \in rows : LastOf(rows \cup {x}, r) /\ ~NextTo(rows \cup {x}, x, r) =>
              Alike(t, after[r])
    PROVE  \E states : ReplaysBy(rows \cup {x}, states, t)
<1> DEFINE more == rows \cup {x}
           states == [r \in more |-> IF r = x THEN v
                                     ELSE IF NextTo(more, x, r) THEN ReplayStep(v, r)
                                     ELSE after[r]]
<1>1. /\ ~FirstOf(more, x)
      /\ \A r \in rows : FirstOf(more, r) => FirstOf(rows, r)
      /\ \A r \in rows : LastOf(more, r) => LastOf(rows, r)
      /\ \A l, r \in rows : NextTo(more, l, r) => NextTo(rows, l, r)
      /\ \A r \in rows : NextTo(more, r, x) => r = p
      /\ ~NextTo(more, x, x)
  BY Inserted
<1>2. /\ states[x] = v
      /\ \A r \in rows : states[r] =
            IF NextTo(more, x, r) THEN ReplayStep(v, r) ELSE after[r]
  OBVIOUS
<1>3. /\ x \in more /\ rows \subseteq more /\ \A r \in more : r \in rows \/ r = x
      /\ NextTo(more, p, x)
      /\ LastOf(more, x) => Alike(t, v)
      /\ \A r \in rows : NextTo(more, x, r) =>
            /\ ReplayStep(v, r) \in GoodStates
            /\ LastOf(rows, r) => Alike(t, ReplayStep(v, r))
            /\ ~LastOf(rows, r) => ReplayStep(v, r) = after[r]
      /\ \A r \in rows : LastOf(more, r) /\ ~NextTo(more, x, r) => Alike(t, after[r])
  OBVIOUS
<1>4. \A l, r \in more : ~(Canonically(l, r) /\ Canonically(r, l))
  BY OrderFacts
<1> HIDE DEF more, states
<1>5. \A r \in more : states[r] \in GoodStates
  BY <1>2, <1>3 DEF ReplaysBy
<1>6. ASSUME NEW r \in more, FirstOf(more, r)
      PROVE  states[r] = ReplayStep(NoSession, r)
  <2>1. r \in rows /\ FirstOf(rows, r)
    BY <1>1, <1>3, <1>6
  <2>2. ~NextTo(more, x, r)
    BY <1>3, <1>6 DEF FirstOf, NextTo
  <2> QED
    BY <1>2, <2>1, <2>2 DEF ReplaysBy
<1>7. ASSUME NEW l \in more, NEW r \in more, NextTo(more, l, r)
      PROVE  states[r] = ReplayStep(states[l], r)
  <2>1. CASE r = x
    <3>1. l = p
      BY <1>1, <1>3, <1>7, <2>1
    <3>2. ~NextTo(more, x, p)
      BY <1>3, <1>4 DEF NextTo
    <3> QED
      BY <1>2, <2>1, <3>1, <3>2
  <2>2. CASE l = x /\ r \in rows
    BY <1>2, <1>7, <2>2
  <2>3. CASE l \in rows /\ r \in rows
    <3>1. NextTo(rows, l, r) /\ ~LastOf(rows, l) /\ after[r] = ReplayStep(after[l], r)
      BY <1>1, <1>7, <2>3 DEF NextTo, LastOf, ReplaysBy
    <3>2. states[l] = after[l]
      BY <1>2, <1>3, <2>3, <3>1
    <3>3. ~NextTo(more, x, r)
      <4>1. l # x
        BY <2>3
      <4>2. l = x \/ Canonically(l, x) \/ Canonically(x, l)
        BY <1>3, <2>3, OrderFacts DEF more
      <4> QED
        BY <1>3, <1>7, <2>3, <4>1, <4>2 DEF NextTo
    <3> QED
      BY <1>2, <2>3, <3>1, <3>2, <3>3
  <2> QED
    BY <1>3, <2>1, <2>2, <2>3
<1>8. ASSUME NEW r \in more, LastOf(more, r) PROVE Alike(t, states[r])
  BY <1>1, <1>2, <1>3, <1>8
<1>9. ReplaysBy(more, states, t)
  BY <1>5, <1>6, <1>7, <1>8 DEF ReplaysBy
<1> QED
  BY <1>9 DEF more

LEMMA AlikeItself == \A s : Alike(s, s)
BY DEF Alike, AlikeAccess

\* The row behind which a row comes.
LEMMA PlaceOf ==
    ASSUME NEW rows, NEW x, x \notin rows, Sound(rows \cup {x}),
           NEW a \in rows, Canonically(a, x)
    PROVE  \E p \in rows : NextTo(rows \cup {x}, p, x)
<1> DEFINE more == rows \cup {x}
           some == {r \in rows : Canonically(r, x)}
<1>1. /\ \A l \in more : ~Canonically(l, l)
      /\ \A l, r \in more : ~(Canonically(l, r) /\ Canonically(r, l))
  BY OrderFacts
<1>2. PICK p \in some : \A l \in some : l = p \/ Canonically(l, p)
  <2>1. some \in SUBSET more /\ some # {}
    OBVIOUS
  <2> HIDE DEF some, more
  <2> QED
    BY <2>1, LatestRow DEF more
<1>3. ASSUME NEW m \in more, Canonically(p, m), Canonically(m, x) PROVE FALSE
  <2>1. m \in some
    BY <1>1, <1>3
  <2>2. m = p \/ Canonically(m, p)
    BY <1>2, <2>1
  <2>3. p \in more
    BY <1>2
  <2> QED
    BY <1>1, <1>3, <2>2, <2>3
<1>4. p \in rows /\ Canonically(p, x)
  BY <1>2
<1> QED
  BY <1>3, <1>4 DEF NextTo

\* Replay with a row behind all others.
LEMMA AppendedReplays ==
    ASSUME NEW rows, NEW s, Replays(rows, s),
           NEW x, x \notin rows, Sound(rows \cup {x}), \A r \in rows : Canonically(r, x),
           IsStop(x) => \A r \in rows : ~IsStop(r),
           NEW t, \A u \in GoodStates : Alike(s, u) => /\ ReplayStep(u, x) \in GoodStates
                                                       /\ Alike(t, ReplayStep(u, x))
    PROVE  Replays(rows \cup {x}, t)
<1> DEFINE more == rows \cup {x}
<1>1. PICK after : ReplaysBy(rows, after, s)
  BY DEF Replays
<1>2. PICK a \in rows : a.type = "session_started"
  BY DEF Replays
<1>3. PICK p \in rows : NextTo(more, p, x)
  BY <1>2, PlaceOf
<1>4. \A l, r \in more : ~(Canonically(l, r) /\ Canonically(r, l))
  BY OrderFacts
<1>5. \A r \in rows : ~NextTo(more, x, r) /\ ~LastOf(more, r)
  BY <1>4 DEF NextTo, LastOf
<1>6. LastOf(more, x)
  BY <1>4, OrderFacts DEF LastOf
<1>7. LastOf(rows, p) /\ after[p] \in GoodStates
  BY <1>1, <1>3, <1>6, Inserted DEF ReplaysBy
<1>8. Alike(s, after[p])
  BY <1>1, <1>7 DEF ReplaysBy
<1> DEFINE v == ReplayStep(after[p], x)
<1>9. v \in GoodStates /\ Alike(t, v)
  BY <1>7, <1>8
<1> HIDE DEF v
<1>10. \E states : ReplaysBy(more, states, t)
  BY <1>1, <1>3, <1>5, <1>9, InsertedReplays DEF v
<1>11. \A l, r \in more : IsStop(l) /\ IsStop(r) => l = r
  BY DEF Replays
<1> QED
  BY <1>2, <1>10, <1>11 DEF Replays

\* A session starts.
LEMMA StartReplays ==
    ASSUME NEW x, x.type = "session_started", x.ts \in Times, x.id \in Nat
    PROVE  Replays({x}, NewSession(x.ts))
<1> DEFINE v == NewSession(x.ts)
           after == [r \in {x} |-> v]
<1>1. v \in GoodStates
  BY StartEffect DEF GoodStates
<1>2. ReplayStep(NoSession, x) = v \/ NoSession = Failed
  BY DEF ReplayStep
<1>3. x.ts \in Nat
  BY TimesAreNat
<1>4. Sound({x})
  BY <1>3, FS_Singleton DEF Sound
<1>5. ~Canonically(x, x)
  BY <1>4, OrderFacts
<1>6. NoSession # Failed
  BY ReplayAssumption
<1> HIDE DEF v
<1>7. ReplaysBy({x}, after, v)
  BY <1>1, <1>2, <1>5, <1>6, AlikeItself DEF ReplaysBy, NextTo
<1> HIDE DEF after
<1>8. \E states : ReplaysBy({x}, states, v)
  BY <1>7
<1> QED
  BY <1>4, <1>8 DEF Replays, v

\* The engine's states are neither absent nor a failure.
LEMMA GoodIsState == \A u \in GoodStates : u # NoSession /\ u # Failed
BY ReplayAssumption DEF GoodStates

\* A session starts that has started.
LEMMA StartAgainReplays ==
    ASSUME NEW rows, NEW s, Replays(rows, s),
           NEW x, x \notin rows, Sound(rows \cup {x}), x.type = "session_started",
           NEW a \in rows, Canonically(a, x)
    PROVE  Replays(rows \cup {x}, s)
<1> DEFINE more == rows \cup {x}
<1>1. PICK after : ReplaysBy(rows, after, s)
  BY DEF Replays
<1>2. PICK p \in rows : NextTo(more, p, x)
  BY PlaceOf
<1>3. after[p] \in GoodStates
  BY <1>1 DEF ReplaysBy
<1>4. after[p] = ReplayStep(after[p], x)
  BY <1>3, GoodIsState DEF ReplayStep
<1>5. /\ \A r \in rows : LastOf(more, r) => LastOf(rows, r)
      /\ LastOf(more, x) => LastOf(rows, p)
      /\ \A r \in rows : NextTo(more, x, r) => NextTo(rows, p, r)
  BY <1>2, Inserted
<1>6. ASSUME NEW r \in rows, NextTo(more, x, r)
      PROVE  /\ ReplayStep(after[p], r) \in GoodStates
             /\ LastOf(rows, r) => Alike(s, ReplayStep(after[p], r))
             /\ ~LastOf(rows, r) => ReplayStep(after[p], r) = after[r]
  <2>1. after[r] = ReplayStep(after[p], r)
    BY <1>1, <1>5, <1>6 DEF ReplaysBy
  <2> QED
    BY <1>1, <2>1 DEF ReplaysBy
<1>7. LastOf(more, x) => Alike(s, after[p])
  BY <1>1, <1>5 DEF ReplaysBy
<1>8. \A r \in rows : LastOf(more, r) => Alike(s, after[r])
  BY <1>1, <1>5 DEF ReplaysBy
<1>9. \E states : ReplaysBy(more, states, s)
  BY <1>1, <1>2, <1>3, <1>4, <1>6, <1>7, <1>8, InsertedReplays
<1>10. \A l, r \in more : IsStop(l) /\ IsStop(r) => l = r
  BY DEF Replays, IsStop
<1>11. \E b \in more : b.type = "session_started"
  OBVIOUS
<1> QED
  BY <1>9, <1>10, <1>11 DEF Replays

\* Any other event.
LEMMA EventReplays ==
    ASSUME NEW rows, NEW s \in GoodStates, Replays(rows, s),
           NEW x, x \notin rows, Sound(rows \cup {x}), \A r \in rows : Canonically(r, x),
           IsStop(x) => \A r \in rows : ~IsStop(r),
           x.type \notin {"session_started", "diff_calculated"}, x.event \in Events
    PROVE  Replays(rows \cup {x}, ApplyEvent(s, x.event))
<1>1. ASSUME NEW u \in GoodStates, Alike(s, u)
      PROVE  /\ ReplayStep(u, x) \in GoodStates
             /\ Alike(ApplyEvent(s, x.event), ReplayStep(u, x))
  <2>1. ReplayStep(u, x) = ApplyEvent(u, x.event)
    BY GoodIsState DEF ReplayStep
  <2>2. ApplyEvent(u, x.event) \in GoodStates
    BY ApplyEventEffect DEF GoodStates
  <2>3. Alike(ApplyEvent(s, x.event), ApplyEvent(u, x.event))
    BY <1>1, ApplyEventAlike DEF GoodStates
  <2> QED
    BY <2>1, <2>2, <2>3
<1> QED
  BY <1>1, AppendedReplays

\* A diff result, before the end of the session if it has ended.
LEMMA ResultReplays ==
    ASSUME NEW rows, NEW s \in GoodStates, Replays(rows, s),
           NEW x, x \notin rows, Sound(rows \cup {x}), x.type = "diff_calculated",
           HasSequence(s, x.sequence), x.lines \in Lines \cup {NoLines}, x.status \in Statuses,
           \A r \in rows : ~IsStop(r) => Canonically(r, x),
           \A r \in rows : IsStop(r) =>
              Canonically(x, r) /\ r.event \in Events /\ r.event.type = "session_stopped"
    PROVE  Replays(rows \cup {x}, SetWork(s, x.sequence, x.lines, x.status))
<1> DEFINE more == rows \cup {x}
           t == SetWork(s, x.sequence, x.lines, x.status)
<1>0. ASSUME NEW u \in GoodStates, Len(u.intervals) = Len(s.intervals)
      PROVE  /\ ReplayStep(u, x) = SetWork(u, x.sequence, x.lines, x.status)
             /\ ReplayStep(u, x) \in GoodStates
  <2>1. HasSequence(u, x.sequence)
    BY <1>0, NumberedInOrder
  <2>2. ReplayStep(u, x) = SetWork(u, x.sequence, x.lines, x.status)
    BY <2>1, GoodIsState DEF ReplayStep, ApplyDiff
  <2> QED
    BY <2>2, SetWorkIntervals
<1>1. CASE \A r \in rows : ~IsStop(r)
  <2>1. ASSUME NEW u \in GoodStates, Alike(s, u)
        PROVE  ReplayStep(u, x) \in GoodStates /\ Alike(t, ReplayStep(u, x))
    <3>1. Len(u.intervals) = Len(s.intervals)
      BY <2>1 DEF Alike
    <3> QED
      BY <1>0, <2>1, <3>1, SetWorkAlike
  <2>2. \A r \in rows : Canonically(r, x)
    BY <1>1
  <2>3. ~IsStop(x)
    BY DEF IsStop
  <2> HIDE DEF t
  <2>4. Replays(more, t)
    BY <2>1, <2>2, <2>3, AppendedReplays
  <2> QED
    BY <2>4 DEF t
<1>2. CASE \E z \in rows : IsStop(z)
  <2>1. PICK z \in rows : IsStop(z)
    BY <1>2
  <2>2. \A r \in rows : r = z \/ Canonically(r, x)
    BY <2>1 DEF Replays
  <2>3. Canonically(x, z) /\ z.event \in Events /\ z.event.type = "session_stopped"
    BY <2>1
  <2>4. PICK after : ReplaysBy(rows, after, s)
    BY DEF Replays
  <2>5. PICK a \in rows : Canonically(a, x)
    <3>1. PICK a \in rows : a.type = "session_started"
      BY DEF Replays
    <3>2. ~IsStop(a)
      BY <3>1 DEF IsStop
    <3> QED
      BY <3>2
  <2>6. PICK p \in rows : NextTo(more, p, x)
    BY <2>5, PlaceOf
  <2>7. /\ \A l \in more : ~Canonically(l, l)
        /\ \A l, m, r \in more : Canonically(l, m) /\ Canonically(m, r) => Canonically(l, r)
        /\ \A l, r \in more : ~(Canonically(l, r) /\ Canonically(r, l))
    BY OrderFacts
  <2>8. x \in more /\ z \in more /\ rows \subseteq more /\ \A r \in more : r \in rows \/ r = x
    OBVIOUS
  <2>9. LastOf(rows, z)
    <3> SUFFICES ASSUME NEW l \in rows, Canonically(z, l) PROVE FALSE
      BY DEF LastOf
    <3>1. l # z /\ Canonically(l, x) /\ l \in more
      BY <2>2, <2>7, <2>8
    <3>2. Canonically(l, z)
      BY <2>3, <2>7, <2>8, <3>1
    <3> QED
      BY <2>7, <2>8, <3>1, <3>2
  <2>10. NextTo(more, x, z)
    BY <2>2, <2>3, <2>7, <2>8 DEF NextTo
  <2>11. \A r \in rows : NextTo(more, x, r) => r = z
    BY <2>2, <2>7, <2>8 DEF NextTo
  <2>12. ~LastOf(more, x) /\ \A r \in rows : LastOf(more, r) => NextTo(more, x, r)
    BY <2>2, <2>3, <2>8, <2>10 DEF LastOf
  <2> DEFINE q == after[p]
             v == SetWork(q, x.sequence, x.lines, x.status)
  <2>13. q \in GoodStates /\ after[z] \in GoodStates /\ Alike(s, after[z])
    BY <2>4, <2>9 DEF ReplaysBy
  <2>14. NextTo(rows, p, z)
    BY <2>6, <2>10, Inserted, ZenonT(40)
  <2>15. after[z] = ReplayStep(q, z)
    BY <2>4, <2>14 DEF ReplaysBy
  <2> HIDE DEF q
  <2>16. \A u \in GoodStates : ReplayStep(u, z) = ApplyEvent(u, z.event)
    BY <2>1, GoodIsState DEF ReplayStep, IsStop
  <2>17. /\ Len(q.intervals) = Len(after[z].intervals)
         /\ ApplyEvent(v, z.event) \in GoodStates
         /\ Alike(SetWork(after[z], x.sequence, x.lines, x.status), ApplyEvent(v, z.event))
    BY <2>3, <2>13, <2>15, <2>16, StopAfterWork
  <2>18. Len(q.intervals) = Len(s.intervals)
    BY <2>13, <2>17 DEF Alike
  <2>19. v = ReplayStep(q, x) /\ v \in GoodStates
    BY <1>0, <2>13, <2>18
  <2>20. Alike(t, SetWork(after[z], x.sequence, x.lines, x.status))
    BY <2>13, SetWorkAlike
  <2> HIDE DEF t, v
  <2>21. Alike(t, ReplayStep(v, z)) /\ ReplayStep(v, z) \in GoodStates
    BY <2>16, <2>17, <2>19, <2>20, AlikeTransitive
  <2>22. \A r \in rows : NextTo(more, x, r) =>
            /\ ReplayStep(v, r) \in GoodStates
            /\ LastOf(rows, r) => Alike(t, ReplayStep(v, r))
            /\ ~LastOf(rows, r) => ReplayStep(v, r) = after[r]
    BY <2>9, <2>11, <2>21
  <2>23. v = ReplayStep(after[p], x)
    BY <2>19 DEF q
  <2>24. /\ LastOf(more, x) => Alike(t, v)
         /\ \A r \in rows : LastOf(more, r) /\ ~NextTo(more, x, r) => Alike(t, after[r])
    BY <2>12
  <2>25. \E states : ReplaysBy(more, states, t)
    BY <2>4, <2>6, <2>19, <2>22, <2>23, <2>24, InsertedReplays
  <2>26. \A l, r \in more : IsStop(l) /\ IsStop(r) => l = r
    BY DEF Replays, IsStop
  <2>27. \E b \in more : b.type = "session_started"
    BY DEF Replays
  <2> QED
    BY <2>25, <2>26, <2>27 DEF Replays, t
<1> QED
  BY <1>1, <1>2

\* Work that is asked for changes nothing of what replay has to show.
LEMMA MarkReplays ==
    ASSUME NEW rows, NEW s \in GoodStates, Replays(rows, s), NEW sequence,
           NEW lines \in Lines \cup {NoLines}, NEW status \in Statuses, status # "known"
    PROVE  Replays(rows, SetWork(s, sequence, lines, status))
<1> DEFINE t == SetWork(s, sequence, lines, status)
<1>1. \A u : Alike(s, u) => Alike(t, u)
  BY MarkAlike
<1> HIDE DEF t
<1>2. PICK after : ReplaysBy(rows, after, s)
  BY DEF Replays
<1>3. ReplaysBy(rows, after, t)
  BY <1>1, <1>2 DEF ReplaysBy
<1>4. \E states : ReplaysBy(rows, states, t)
  BY <1>3
<1> QED
  BY <1>4 DEF Replays, t

\* Closing the access at the cursor ends it if it was open and does no more.
LEMMA PauseShows ==
    ASSUME NEW u \in GoodStates, NEW at \in Nat
    PROVE  LET r == PauseSession(u, at)
           IN  /\ r \in SessionStates
               /\ Len(r.intervals) = Len(u.intervals)
               /\ \A i \in 1..Len(u.intervals) :
                    /\ r.intervals[i].path = u.intervals[i].path
                    /\ r.intervals[i].startedAt = u.intervals[i].startedAt
                    /\ u.intervals[i].endedAt # NoTime =>
                          r.intervals[i].endedAt = u.intervals[i].endedAt
                    /\ r.intervals[i].lines = u.intervals[i].lines
                    /\ r.intervals[i].status = u.intervals[i].status
<1> DEFINE w == CloseCurrent(u, at)
           r == PauseSession(u, at)
           n == Len(u.intervals)
<1>1. u \in SessionStates /\ TrailOrdered(u)
  BY DEF GoodStates
<1>2. w \in SessionStates /\ Len(w.intervals) = n
  BY <1>1, CloseCurrentEffect
<1>3. r = [w EXCEPT !.paused = TRUE]
  BY DEF PauseSession
<1>4. \A i \in 1..n :
        /\ w.intervals[i].path = u.intervals[i].path
        /\ w.intervals[i].startedAt = u.intervals[i].startedAt
        /\ u.intervals[i].endedAt # NoTime => w.intervals[i].endedAt = u.intervals[i].endedAt
        /\ w.intervals[i].lines = u.intervals[i].lines
        /\ w.intervals[i].status = u.intervals[i].status
  <2>1. CASE ~HasOpen(u)
    BY <2>1 DEF CloseCurrent
  <2>2. CASE HasOpen(u)
    <3> DEFINE c == CloseInterval(Current(u), at)
    <3>1. /\ u.intervals # <<>> /\ Current(u) \in Intervals
          /\ Current(u) = u.intervals[n] /\ Current(u).endedAt = NoTime
      BY <1>1, <2>2 DEF HasOpen, SessionStates, Current, Last
    <3>2. /\ c \in Intervals /\ c.path = Current(u).path /\ c.startedAt = Current(u).startedAt
          /\ c.lines = Current(u).lines /\ c.status = Current(u).status
      BY <3>1, CloseIntervalEffect DEF CloseInterval, Intervals
    <3>3. w = WithCurrent(u, c)
      BY <2>2 DEF CloseCurrent
    <3> HIDE DEF c, w
    <3>4. \A i \in 1..n : w.intervals[i] = IF i = n THEN c ELSE u.intervals[i]
      BY <1>1, <3>1, <3>2, <3>3, WithCurrentEffect
    <3> QED
      BY <3>1, <3>2, <3>4
  <2> QED
    BY <2>1, <2>2
<1> HIDE DEF w, r
<1>5. r \in SessionStates /\ r.intervals = w.intervals
  BY <1>2, <1>3 DEF SessionStates
<1> QED
  BY <1>2, <1>4, <1>5 DEF r

\* What Reconstruct shows of the rows of a session.
LEMMA ReconstructShows ==
    ASSUME NEW rows, NEW s \in GoodStates, Replays(rows, s)
    PROVE  LET r == Reconstruct(rows, Cardinality(rows))
           IN  /\ r \notin {NoSession, Failed}
               /\ Len(r.intervals) = Len(s.intervals)
               /\ \A i \in DOMAIN s.intervals : Shows(s.intervals[i], r.intervals[i])
<1> DEFINE n == Cardinality(rows)
           c == CanonicalEvents(rows)
           u == ReplayRows(c)
           at == Max({row.ts : row \in ToSet(c)})
           r == Reconstruct(rows, n)
           m == Len(s.intervals)
<1>1. Sound(rows) /\ rows # {}
  BY DEF Replays
<1>2. u \in GoodStates /\ Alike(s, u)
  <2>1. PICK after : ReplaysBy(rows, after, s)
    BY DEF Replays
  <2> QED
    BY <1>1, <2>1, ReplayRowsEnds
<1>3. /\ n \in Nat
      /\ c = [i \in 1..n |-> c[i]]
      /\ \A i \in 1..n : c[i] \in rows
      /\ \A row \in rows : \E i \in 1..n : c[i] = row
  BY <1>1, CanonicalSequence
<1>4. n > 0
  BY <1>1, <1>3, FS_EmptySet DEF Sound
<1> HIDE DEF n, c
<1>5. c \in Seq(rows) /\ Len(c) = n /\ c # <<>>
  BY <1>3, <1>4
<1>6. SubSeq(c, 1, n) = c
  BY <1>3, <1>5
<1>7. ToSet(c) = rows
  BY <1>3 DEF ToSet
<1>8. r = CloseAtCursor(u, at)
  BY <1>5, <1>6 DEF Reconstruct, c
<1>9. at \in Nat
  <2> DEFINE f == [row \in rows |-> row.ts]
             S == {row.ts : row \in rows}
  <2>1. f \in Surjection(rows, S)
    BY DEF Surjection
  <2>2. IsFiniteSet(S)
    BY <1>1, <2>1, FS_Surjection DEF Sound
  <2>3. S \subseteq Nat /\ S # {}
    BY <1>1 DEF Sound
  <2> HIDE DEF S, f
  <2>4. Max(S) \in Nat
    BY <2>2, <2>3, FiniteMax
  <2> QED
    BY <1>7, <2>4 DEF S
<1> HIDE DEF u, at, r
<1>10. u \notin {NoSession, Failed}
  BY <1>2, GoodIsState
<1>11. /\ u.intervals \in Seq(Intervals) /\ s.intervals \in Seq(Intervals)
       /\ Len(u.intervals) = m /\ DOMAIN s.intervals = 1..m
       /\ \A i \in 1..m : AlikeAccess(s.intervals[i], u.intervals[i])
  BY <1>2 DEF GoodStates, SessionStates, Alike
<1>12. CASE u.stoppedAt # NoTime
  <2>1. r = u
    BY <1>8, <1>10, <1>12 DEF CloseAtCursor
  <2> QED
    BY <1>10, <1>11, <2>1 DEF Shows, AlikeAccess, r, n
<1>13. CASE u.stoppedAt = NoTime
  <2>1. r = PauseSession(u, at)
    BY <1>8, <1>10, <1>13 DEF CloseAtCursor
  <2>2. /\ r \in SessionStates
        /\ Len(r.intervals) = m
        /\ \A i \in 1..m :
             /\ r.intervals[i].path = u.intervals[i].path
             /\ r.intervals[i].startedAt = u.intervals[i].startedAt
             /\ u.intervals[i].endedAt # NoTime => r.intervals[i].endedAt = u.intervals[i].endedAt
             /\ r.intervals[i].lines = u.intervals[i].lines
             /\ r.intervals[i].status = u.intervals[i].status
    BY <1>2, <1>9, <1>11, <2>1, PauseShows, SMTT(30)
  <2>3. r \notin {NoSession, Failed}
    BY <2>2, ReplayAssumption
  <2> QED
    BY <1>11, <2>2, <2>3 DEF Shows, AlikeAccess, r, n
<1> QED
  BY <1>12, <1>13
-----------------------------------------------------------------------------
(***************************************************************************)
(* What the journal of a session holds, stored or on its way, until a      *)
(* record is lost: the rows of what the engine took, and they replay to    *)
(* the state of the session.                                               *)
(***************************************************************************)
Logged(id) ==
    RowsOf(id) \cup
    {journalQueue[k].row : k \in {j \in 1..Len(journalQueue) : journalQueue[j].session = id}}

LastId == Max({x.id : x \in Feed})
Latest(events) == Max({0} \cup {x.event.ts : x \in events})

FromEvent(id, row) == \E x \in applied : x.session = id /\ row = EventRow(x)

FromResult(row) ==
    /\ row.type = "diff_calculated"
    /\ row.ts \in Nat /\ row.ts <= Clock
    /\ row.id \in Nat /\ LastId < row.id /\ row.id <= LastId + delivered

LoggedInv ==
    /\ loads = 0 => \A id \in SessionIds : ~Known(id)
    /\ \A id \in SessionIds : ~Known(id) => Logged(id) = {}
    /\ \A id \in SessionIds : \A row \in Logged(id) : FromEvent(id, row) \/ FromResult(row)
    /\ \A id \in SessionIds : Known(id) => Replays(Logged(id), sessions[id])

ReplayInv ==
    /\ loads \in Nat /\ delivered \in Nat
    /\ ~degraded /\ inOrder /\ loads <= 1 => LoggedInv

\* Ids and instants of the feed.
LEMMA LastIdIsLast ==
    ASSUME NEW x \in Feed
    PROVE  LastId \in Nat /\ x.id \in Nat /\ x.id <= LastId
<1> DEFINE S == {y.id : y \in Feed}
           f == [y \in Feed |-> y.id]
<1>1. f \in Surjection(Feed, S)
  BY DEF Surjection
<1>2. IsFiniteSet(S)
  BY <1>1, DesktopAssumption, FS_Surjection
<1>3. S \subseteq Nat /\ x.id \in S
  BY DesktopAssumption
<1> HIDE DEF S, f
<1>4. Max(S) \in S /\ \A i \in S : i <= Max(S)
  BY <1>2, <1>3, FiniteMax
<1> QED
  BY <1>3, <1>4 DEF LastId, S

\* No event is later than the latest.
LEMMA LatestIsLatest ==
    ASSUME NEW T \in SUBSET Feed
    PROVE  /\ Latest(T) \in Nat
           /\ \A x \in T : x.event.ts \in Nat /\ x.event.ts <= Latest(T)
           /\ Latest(T) = 0 \/ \E x \in T : Latest(T) = x.event.ts
<1> DEFINE I == {x.event.ts : x \in T}
           S == {0} \cup I
           f == [x \in T |-> x.event.ts]
<1>1. f \in Surjection(T, I)
  BY DEF Surjection
<1>2. IsFiniteSet(T)
  BY DesktopAssumption, FS_Subset
<1>3. IsFiniteSet(I)
  BY <1>1, <1>2, FS_Surjection
<1>4. IsFiniteSet(S)
  BY <1>3, FS_Singleton, FS_Union
<1>5. \A x \in T : x.event.ts \in Nat /\ x.event.ts \in S
  BY DesktopAssumption, TimesAreNat DEF Events
<1>6. S \subseteq Nat /\ 0 \in S
  BY <1>5
<1>7. \A i \in S : i = 0 \/ \E x \in T : i = x.event.ts
  OBVIOUS
<1> HIDE DEF S, I, f
<1>8. Max(S) \in S /\ \A i \in S : i <= Max(S)
  BY <1>4, <1>6, FiniteMax
<1>9. Latest(T) = Max(S)
  BY DEF Latest, S, I
<1> QED
  BY <1>5, <1>6, <1>7, <1>8, <1>9

\* A commit adds its row to the journal of its session.
LEMMA CommitLogs ==
    ASSUME QueueInv, NEW id \in SessionIds, NEW row, NEW state, Commit(id, row, state), ~degraded'
    PROVE  /\ ~degraded
           /\ Logged(id)' = Logged(id) \cup {row}
           /\ \A other : other # id => Logged(other)' = Logged(other)
<1> DEFINE q == journalQueue
           record == [session |-> id, row |-> row, state |-> state]
           p == Append(q, record)
           n == Len(q)
<1>1. /\ QueueJournal(record) /\ eventRows' = eventRows
  BY DEF Commit
<1>2. ~degraded /\ journalQueue' = p
  BY <1>1 DEF QueueJournal
<1>3. PICK S : q \in Seq(S)
  BY DEF QueueInv
<1>4. record.session = id /\ record.row = row
  OBVIOUS
<1> HIDE DEF record
<1>5. /\ n \in Nat /\ Len(p) = n + 1 /\ p[n + 1] = record
      /\ \A k \in 1..n : p[k] = q[k]
  BY <1>3, Appended DEF Appends
<1> HIDE DEF p
<1> DEFINE has(f, m, i) == {f[k].row : k \in {j \in 1..m : f[j].session = i}}
<1>6. has(p, n + 1, id) = has(q, n, id) \cup {row}
  <2>1. ASSUME NEW y, y \in has(p, n + 1, id) PROVE y \in has(q, n, id) \cup {row}
    <3>1. PICK k \in 1..(n + 1) : p[k].session = id /\ y = p[k].row
      BY <2>1
    <3>2. CASE k = n + 1
      BY <1>4, <1>5, <3>1, <3>2
    <3>3. CASE k \in 1..n
      BY <1>5, <3>1, <3>3
    <3> QED
      BY <1>5, <3>2, <3>3
  <2>2. ASSUME NEW y, y \in has(q, n, id) PROVE y \in has(p, n + 1, id)
    <3>1. PICK k \in 1..n : q[k].session = id /\ y = q[k].row
      BY <2>2
    <3>2. k \in 1..(n + 1)
      BY <1>5
    <3> QED
      BY <1>5, <3>1, <3>2
  <2>3. row \in has(p, n + 1, id)
    BY <1>4, <1>5
  <2> QED
    BY <2>1, <2>2, <2>3
<1>7. ASSUME NEW other, other # id PROVE has(p, n + 1, other) = has(q, n, other)
  <2>1. \A k \in 1..(n + 1) : p[k].session = other => k \in 1..n
    BY <1>4, <1>5, <1>7
  <2>2. \A k \in 1..n : k \in 1..(n + 1)
    BY <1>5
  <2> QED
    BY <1>5, <2>1, <2>2
<1>8. \A i : Logged(i) = RowsOf(i) \cup has(q, n, i)
  BY DEF Logged
<1>9. \A i : Logged(i)' = RowsOf(i) \cup has(p, n + 1, i)
  BY <1>1, <1>2, <1>5 DEF Logged, RowsOf
<1> HIDE DEF has
<1> QED
  BY <1>2, <1>6, <1>7, <1>8, <1>9

\* The journal's goroutine moves rows from the queue to the store.
LEMMA WritingLogs ==
    ASSUME QueueInv, WriteEvent \/ WriteSession
    PROVE  \A id : Logged(id)' = Logged(id)
<1> DEFINE q == journalQueue
           h == Head(q)
<1>1. PICK S : q \in Seq(S)
  BY DEF QueueInv
<1>2. q # <<>> /\ Len(q) \in Nat /\ 1 \in 1..Len(q) /\ h = q[1]
  BY <1>1 DEF WriteEvent, WriteSession
<1>3. CASE WriteEvent
  <2>1. PICK w : w = [session |-> h.session, row |-> h.row]
    OBVIOUS
  <2>2. /\ journalQueue' = q /\ eventRows' = eventRows \cup {w}
        /\ w.session = h.session /\ w.row = h.row
    BY <1>3, <2>1 DEF WriteEvent
  <2> TAKE id
  <2>3. RowsOf(id)' = RowsOf(id) \cup {r \in {h.row} : h.session = id}
    <3>1. ASSUME NEW y, y \in RowsOf(id)'
          PROVE  y \in RowsOf(id) \cup {r \in {h.row} : h.session = id}
      BY <2>2, <3>1 DEF RowsOf
    <3>2. RowsOf(id) \subseteq RowsOf(id)'
      BY <2>2 DEF RowsOf
    <3>3. h.session = id => h.row \in RowsOf(id)'
      BY <2>2 DEF RowsOf
    <3> QED
      BY <3>1, <3>2, <3>3
  <2>4. \A r \in {h.row} : h.session = id =>
          r \in {q[k].row : k \in {j \in 1..Len(q) : q[j].session = id}}
    BY <1>2
  <2> QED
    BY <2>2, <2>3, <2>4 DEF Logged
<1>4. CASE WriteSession
  <2> DEFINE p == Tail(q)
  <2>1. /\ journalQueue' = p /\ eventRows' = eventRows
        /\ [session |-> h.session, row |-> h.row] \in eventRows
    BY <1>4 DEF WriteSession, QueueInv
  <2>2. /\ Len(p) = Len(q) - 1
        /\ \A k \in 1..Len(p) : k + 1 \in 1..Len(q) /\ p[k] = q[k + 1]
    BY <1>1, <1>2, Removed
  <2> TAKE id
  <2>3. RowsOf(id)' = RowsOf(id) /\ (h.session = id => h.row \in RowsOf(id))
    BY <2>1 DEF RowsOf
  <2> DEFINE has(f) == {f[k].row : k \in {j \in 1..Len(f) : f[j].session = id}}
  <2>4. has(p) \subseteq has(q)
    BY <2>2
  <2>5. has(q) \subseteq has(p) \cup RowsOf(id)
    <3> SUFFICES ASSUME NEW k \in 1..Len(q), q[k].session = id
                 PROVE  q[k].row \in has(p) \cup RowsOf(id)
      OBVIOUS
    <3>1. CASE k = 1
      BY <1>2, <2>3, <3>1
    <3>2. CASE k # 1
      <4>1. PICK j : j = k - 1
        OBVIOUS
      <4>2. j \in 1..Len(p) /\ k = j + 1
        BY <1>2, <2>2, <3>2, <4>1
      <4>3. p[j] = q[k]
        BY <2>2, <4>2
      <4> QED
        BY <4>2, <4>3
    <3> QED
      BY <3>1, <3>2
  <2>6. Logged(id)' = RowsOf(id) \cup has(p)
    BY <2>1, <2>3 DEF Logged
  <2>7. Logged(id) = RowsOf(id) \cup has(q)
    BY DEF Logged
  <2> QED
    BY <2>4, <2>5, <2>6, <2>7
<1> QED
  BY <1>3, <1>4

\* The rows of a session's journal are behind the last instant and id.
LEMMA LoggedRow ==
    ASSUME CountInv, delivered \in Nat, NEW some \in Feed,
           NEW id, NEW row, FromEvent(id, row) \/ FromResult(row)
    PROVE  /\ row.ts \in Nat /\ row.ts <= Clock
           /\ row.id \in Nat /\ row.id <= LastId + delivered
           /\ row.id \in seen \/ LastId < row.id
           /\ IsStop(row) => \E y \in applied : /\ y.session = id
                                                /\ y.event.type = "session_stopped"
                                                /\ row.event = y.event /\ y.event \in Events
<1>1. LastId \in Nat /\ Latest(applied) \in Nat
  BY LastIdIsLast, LatestIsLatest DEF CountInv
<1>2. Clock = Latest(applied)
  BY DEF Clock, Latest
<1>3. CASE FromEvent(id, row)
  <2>1. PICK y \in applied : y.session = id /\ row = EventRow(y)
    BY <1>3 DEF FromEvent
  <2>2. y \in Feed /\ y.id \in seen /\ y.event \in Events
    BY DesktopAssumption DEF CountInv
  <2>3. row.ts = y.event.ts /\ row.id = y.id /\ row.type = y.event.type /\ row.event = y.event
    BY <2>1 DEF EventRow
  <2>4. y.event.ts \in Nat /\ y.event.ts <= Clock
    BY <1>2, LatestIsLatest DEF CountInv
  <2>5. y.id \in Nat /\ y.id <= LastId + delivered
    BY <1>1, <2>2, LastIdIsLast
  <2> QED
    BY <2>1, <2>2, <2>3, <2>4, <2>5 DEF IsStop
<1>4. CASE FromResult(row)
  <2>1. ~IsStop(row)
    BY <1>4 DEF FromResult, IsStop
  <2> QED
    BY <1>4, <2>1 DEF FromResult
<1> QED
  BY <1>3, <1>4

\* A commit keeps the invariant if the rows with the new one replay to the new
\* state.
LEMMA CommitKeepsLogged ==
    ASSUME MemoryInv, QueueInv, LoggedInv, loads' # 0, loads \in Nat, delivered \in Nat,
           NEW id \in SessionIds, NEW row, NEW t \in GoodStates, Commit(id, row, t), ~degraded',
           Replays(Logged(id) \cup {row}, t), (FromEvent(id, row) \/ FromResult(row))',
           applied \subseteq applied', Clock \in Nat, Clock' \in Nat, Clock <= Clock',
           LastId \in Nat, delivered' \in Nat, delivered <= delivered'
    PROVE  LoggedInv'
<1>1. /\ sessions'[id] = t
      /\ \A other \in SessionIds : other # id => sessions'[other] = sessions[other]
  BY CommitSetsSession
<1>2. /\ Logged(id)' = Logged(id) \cup {row}
      /\ \A other : other # id => Logged(other)' = Logged(other)
  BY CommitLogs
<1>3. t # NoSession
  BY GoodIsState
<1>4. ASSUME NEW other, NEW r, FromEvent(other, r) PROVE FromEvent(other, r)'
  <2>1. PICK x \in applied : x.session = other /\ r = EventRow(x)
    BY <1>4 DEF FromEvent
  <2> QED
    BY <2>1 DEF FromEvent, EventRow
<1>5. ASSUME NEW r, FromResult(r) PROVE FromResult(r)'
  <2>1. r.type = "diff_calculated" /\ r.ts \in Nat /\ r.ts <= Clock
        /\ r.id \in Nat /\ LastId < r.id /\ r.id <= LastId + delivered
    BY <1>5 DEF FromResult
  <2>2. LastId' = LastId
    BY DEF LastId
  <2>3. r.ts <= Clock' /\ r.id <= LastId + delivered'
    BY <2>1
  <2> QED
    BY <2>1, <2>2, <2>3 DEF FromResult
<1>6. (\A other \in SessionIds : ~Known(other) => Logged(other) = {})'
  BY <1>1, <1>2, <1>3 DEF LoggedInv, Known
<1>7. (\A other \in SessionIds : \A r \in Logged(other) : FromEvent(other, r) \/ FromResult(r))'
  <2> SUFFICES ASSUME NEW other \in SessionIds, NEW r, r \in Logged(other)'
               PROVE  FromEvent(other, r)' \/ FromResult(r)'
    OBVIOUS
  <2>1. r \in Logged(other) \/ (other = id /\ r = row)
    BY <1>2
  <2> QED
    BY <1>4, <1>5, <2>1 DEF LoggedInv
<1>8. (\A other \in SessionIds : Known(other) => Replays(Logged(other), sessions[other]))'
  <2> SUFFICES ASSUME NEW other \in SessionIds, sessions'[other] # NoSession
               PROVE  Replays(Logged(other)', sessions'[other])
    BY DEF Known, Replays, ReplaysBy
  <2>1. CASE other = id
    BY <1>1, <1>2, <2>1
  <2>2. CASE other # id
    <3>1. sessions'[other] = sessions[other] /\ Logged(other)' = Logged(other)
      BY <1>1, <1>2, <2>2
    <3> QED
      BY <3>1 DEF LoggedInv, Known
  <2> QED
    BY <2>1, <2>2
<1> QED
  BY <1>6, <1>7, <1>8 DEF LoggedInv

\* What is published replays, whether it starts a session, goes on with it or ends it.
LEMMA PublishReplays ==
    ASSUME IInv, ReplayInv, NEW x \in Feed, Publish(x)
    PROVE  ReplayInv'
<1> DEFINE id == x.session
           e == x.event
           row == EventRow(x)
           s == AppliedState(x)
           rows == Logged(id)
<1>0. MemoryInv /\ CountInv /\ QueueInv
  BY DEF IInv
<1>1. /\ x.id \notin seen /\ Publishable(x) /\ SubmitDiff(x, s)
      /\ applied' = applied \cup {x} /\ inOrder' = (inOrder /\ KeepsOrder(x))
      /\ loads' = loads /\ delivered' = delivered
  BY DEF Publish
<1>2. loads \in Nat /\ delivered \in Nat /\ loads # 0
  BY <1>1 DEF ReplayInv, Publishable
<1> SUFFICES ASSUME ~degraded', inOrder', loads' <= 1 PROVE LoggedInv'
  BY <1>1, <1>2 DEF ReplayInv
<1>3. id \in SessionIds /\ e \in Events /\ e.lines \in Lines \cup {NoLines} /\ e.ts \in Times
      /\ {"pending", "known", "unknown"} \subseteq Statuses
  BY DesktopAssumption DEF Events
<1>4. s \in GoodStates
  BY <1>0, <1>1, AppliedStateEffect
<1>5. PICK t : /\ Commit(id, row, t)
               /\ \/ t = s
                  \/ t = SetWork(s, Len(s.intervals), e.lines, "pending")
                  \/ t = SetWork(s, Len(s.intervals), NoLines, "unknown")
  BY <1>1 DEF SubmitDiff, Pending, Unknown
<1>6. ~degraded
  BY <1>0, <1>3, <1>5, CommitLogs
<1>7. inOrder /\ e.ts > Clock
      /\ \A y \in applied : y.session = id => y.event.type # "session_stopped"
  BY <1>1 DEF KeepsOrder
<1>8. LoggedInv
  BY <1>1, <1>6, <1>7 DEF ReplayInv
<1>9. /\ row.id = x.id /\ row.type = e.type /\ row.ts = e.ts /\ row.event = e
  BY DEF EventRow
<1>10. /\ LastId \in Nat /\ x.id \in Nat /\ x.id <= LastId /\ e.ts \in Nat
       /\ Clock \in Nat /\ Clock' \in Nat /\ Clock <= Clock'
  <2>1. Latest(applied) \in Nat /\ (Latest(applied) = 0 \/
                                    \E y \in applied : Latest(applied) = y.event.ts)
    BY <1>0, LatestIsLatest DEF CountInv
  <2>2. applied' \subseteq Feed
    BY <1>0, <1>1 DEF CountInv
  <2>3. Latest(applied') \in Nat /\ \A y \in applied' : y.event.ts <= Latest(applied')
    BY <2>2, LatestIsLatest
  <2>4. Clock = Latest(applied) /\ Clock' = Latest(applied')
    BY DEF Clock, Latest
  <2>5. Latest(applied) <= Latest(applied')
    BY <1>1, <2>1, <2>3
  <2> QED
    BY <1>3, <2>1, <2>3, <2>4, <2>5, LastIdIsLast, TimesAreNat
<1>11. \A r \in rows : /\ r.ts \in Nat /\ r.ts < row.ts /\ r.id \in Nat /\ r.id # row.id
                       /\ ~IsStop(r)
  <2> TAKE r \in rows
  <2>1. FromEvent(id, r) \/ FromResult(r)
    BY <1>3, <1>8 DEF LoggedInv
  <2>2. /\ r.ts \in Nat /\ r.ts <= Clock /\ r.id \in Nat
        /\ r.id \in seen \/ LastId < r.id
        /\ IsStop(r) => \E y \in applied : y.session = id /\ y.event.type = "session_stopped"
    BY <1>0, <1>2, <2>1, LoggedRow
  <2>3. r.id # x.id
    <3>1. CASE r.id \in seen
      BY <1>1, <3>1
    <3>2. CASE LastId < r.id
      BY <1>10, <2>2, <3>2
    <3> QED
      BY <2>2, <3>1, <3>2
  <2> QED
    BY <1>7, <1>9, <1>10, <2>2, <2>3
<1> HIDE DEF rows, row
<1>12. row \notin rows
  BY <1>11
<1>13. rows # {} => Known(id)
  BY <1>3, <1>8 DEF LoggedInv, rows
<1>14. Known(id) => Replays(rows, sessions[id])
  BY <1>3, <1>8 DEF LoggedInv, rows
<1>15. IsFiniteSet(rows)
  <2>1. CASE rows = {}
    BY <2>1, FS_EmptySet
  <2>2. CASE rows # {}
    BY <1>13, <1>14, <2>2 DEF Replays, Sound
  <2> QED
    BY <2>1, <2>2
<1>16. Sound(rows \cup {row})
  <2>1. IsFiniteSet(rows \cup {row})
    BY <1>15, FS_AddElement
  <2>2. \A l, r \in rows : l.id = r.id => l = r
    BY <1>13, <1>14 DEF Replays, Sound
  <2> QED
    BY <1>9, <1>10, <1>11, <2>1, <2>2 DEF Sound
<1>17. Replays(rows \cup {row}, s)
  <2>1. CASE StartsSession(x) /\ ~Known(id)
    <3>1. rows = {} /\ s = NewSession(e.ts)
      BY <1>13, <2>1 DEF AppliedState
    <3>2. Replays({row}, NewSession(row.ts))
      BY <1>3, <1>9, <1>10, <2>1, StartReplays DEF StartsSession
    <3>3. rows \cup {row} = {row}
      BY <3>1
    <3> HIDE DEF s
    <3> QED
      BY <1>9, <3>1, <3>2, <3>3
  <2>2. CASE StartsSession(x) /\ Known(id)
    <3>1. s = sessions[id] /\ row.type = "session_started"
      BY <1>9, <2>2 DEF AppliedState, StartsSession
    <3>2. PICK a \in rows : a.type = "session_started"
      BY <1>14, <2>2 DEF Replays
    <3>3. Canonically(a, row)
      BY <1>11, <3>1, <3>2 DEF Canonically
    <3> HIDE DEF s
    <3>4. Replays(rows, s)
      BY <1>14, <2>2, <3>1
    <3> QED
      BY <1>12, <1>16, <3>1, <3>2, <3>3, <3>4, StartAgainReplays
  <2>3. CASE ~StartsSession(x)
    <3>1. Known(id) /\ s = ApplyEvent(sessions[id], e)
      BY <1>1, <2>3 DEF AppliedState, Publishable
    <3>2. row.type \notin {"session_started", "diff_calculated"}
      <4>1. e.type \in EventTypes
        BY <1>3, SessionAssumption DEF Events
      <4>2. "diff_calculated" \notin EventTypes
        BY DEF EventTypes, FocusTypes, RenameTypes
      <4> QED
        BY <1>9, <2>3, <4>1, <4>2 DEF StartsSession
    <3>3. \A r \in rows : Canonically(r, row)
      <4> TAKE r \in rows
      <4>1. r.ts < row.ts /\ r.type # "session_stopped"
        BY <1>11 DEF IsStop
      <4>2. ReplayRank(r.type) \in {0, 1} /\ ReplayRank(row.type) \in {1, 2}
        BY <3>2, <4>1 DEF ReplayRank
      <4> QED
        BY <4>1, <4>2 DEF Canonically
    <3>4. sessions[id] \in GoodStates
      BY <1>0, <1>3, <3>1 DEF MemoryInv
    <3>5. Replays(rows \cup {row}, ApplyEvent(sessions[id], row.event))
      BY <1>3, <1>9, <1>11, <1>12, <1>14, <1>16, <3>1, <3>2, <3>3, <3>4, EventReplays
    <3> QED
      BY <1>9, <3>1, <3>5
  <2> QED
    BY <2>1, <2>2, <2>3
<1> HIDE DEF s
<1>18. Replays(rows \cup {row}, t) /\ t \in GoodStates
  BY <1>3, <1>4, <1>5, <1>17, MarkReplays, SetWorkIntervals
<1>19. FromEvent(id, row)'
  BY <1>1 DEF FromEvent, row, EventRow
<1> QED
  BY <1>0, <1>1, <1>2, <1>3, <1>5, <1>8, <1>10, <1>18, <1>19, CommitKeepsLogged DEF rows

\* A step that leaves the journal and the table alone.
LEMMA LogsUnchanged ==
    ASSUME ReplayInv, \A id : Logged(id)' = Logged(id), sessions' = sessions,
           applied' = applied, delivered' = delivered, loads' = loads, inOrder' = inOrder,
           degraded' = degraded \/ degraded'
    PROVE  ReplayInv'
<1>1. \A id, row : FromEvent(id, row) <=> FromEvent(id, row)'
  BY DEF FromEvent, EventRow
<1>2. \A row : FromResult(row) <=> FromResult(row)'
  BY DEF FromResult, Clock, LastId
<1>3. ASSUME LoggedInv PROVE LoggedInv'
  <2>1. \A id \in SessionIds : Known(id)' <=> Known(id)
    BY DEF Known
  <2>2. (\A id \in SessionIds : \A row \in Logged(id) : FromEvent(id, row) \/ FromResult(row))'
    <3> SUFFICES ASSUME NEW id \in SessionIds, NEW row, row \in Logged(id)'
                 PROVE  FromEvent(id, row)' \/ FromResult(row)'
      OBVIOUS
    <3>1. FromEvent(id, row) \/ FromResult(row)
      BY <1>3 DEF LoggedInv
    <3> QED
      BY <1>1, <1>2, <3>1
  <2>3. (\A id \in SessionIds : Known(id) => Replays(Logged(id), sessions[id]))'
    <3> SUFFICES ASSUME NEW id \in SessionIds, Known(id)'
                 PROVE  Replays(Logged(id), sessions[id])'
      OBVIOUS
    <3>1. Replays(Logged(id), sessions[id])
      BY <1>3, <2>1 DEF LoggedInv
    <3>2. Logged(id)' = Logged(id) /\ sessions'[id] = sessions[id]
      OBVIOUS
    <3> QED
      BY <3>1, <3>2 DEF Replays, ReplaysBy
  <2> QED
    BY <1>3, <2>1, <2>2, <2>3 DEF LoggedInv
<1> QED
  BY <1>3 DEF ReplayInv

\* So does a result, whenever it comes.
LEMMA DeliverReplays ==
    ASSUME IInv, ReplayInv, NEW q \in inFlight, Deliver(q)
    PROVE  ReplayInv'
<1> DEFINE id == q.session
           s == sessions[id]
           rows == Logged(id)
<1>0. MemoryInv /\ CountInv /\ QueueInv
  BY DEF IInv
<1>1. applied' = applied /\ inOrder' = inOrder /\ loads' = loads
  BY DEF Deliver
<1>2. loads \in Nat /\ delivered \in Nat
  BY DEF ReplayInv
<1>3. PICK x \in Feed : id = x.session /\ q.lines = x.event.lines
  BY <1>0 DEF MemoryInv, WorkRequests
<1>4. /\ id \in SessionIds /\ q.lines \in Lines \cup {NoLines}
  BY <1>3, DesktopAssumption DEF Events
<1>5. LastId \in Nat /\ Clock \in Nat /\ Clock' = Clock /\ LastId' = LastId
  <2>1. Clock = Latest(applied) /\ Clock' = Latest(applied)
    BY <1>1 DEF Clock, Latest
  <2>2. LastId' = LastId
    BY DEF LastId
  <2> QED
    BY <1>0, <2>1, <2>2, LastIdIsLast, LatestIsLatest DEF CountInv
<1>6. CASE ~Attachable(q)
  <2>1. /\ sessions' = sessions /\ journalQueue' = journalQueue /\ eventRows' = eventRows
        /\ degraded' = degraded /\ delivered' = delivered
    BY <1>6 DEF Deliver, journalVars
  <2> QED
    BY <1>1, <2>1, LogsUnchanged DEF Logged, RowsOf
<1>7. CASE Attachable(q)
  <2>1. PICK result \in Results(q) :
            Commit(id, ResultRow(q, result[1], result[2]),
                   SetWork(s, q.sequence, result[1], result[2]))
    BY <1>7 DEF Deliver
  <2>2. delivered' = delivered + 1
    BY <1>7 DEF Deliver
  <2>3. result[1] \in Lines \cup {NoLines} /\ result[2] \in Statuses
    BY <1>4, DesktopAssumption DEF Results
  <2>4. Known(id) /\ s \in GoodStates /\ HasSequence(s, q.sequence)
    BY <1>0, <1>4, <1>7 DEF MemoryInv, Attachable
  <2> PICK row : row = ResultRow(q, result[1], result[2])
    OBVIOUS
  <2>5. /\ row = ResultRow(q, result[1], result[2])
        /\ row.id = LastId + 1 + delivered /\ row.type = "diff_calculated" /\ row.ts = Clock
        /\ row.sequence = q.sequence /\ row.lines = result[1] /\ row.status = result[2]
    BY DEF ResultRow, LastId
  <2>6. PICK t : t = SetWork(s, q.sequence, result[1], result[2]) /\ t \in GoodStates
    BY <2>3, <2>4, SetWorkIntervals
  <2>7. Commit(id, row, t)
    BY <2>1, <2>5, <2>6
  <2> SUFFICES ASSUME ~degraded', inOrder', loads' <= 1 PROVE LoggedInv'
    BY <1>1, <1>2, <2>2 DEF ReplayInv
  <2>8. ~degraded
    BY <1>0, <1>4, <2>7, CommitLogs
  <2>9. LoggedInv
    BY <1>1, <2>8 DEF ReplayInv
  <2>10. loads # 0
    BY <1>4, <2>4, <2>9 DEF LoggedInv
  <2>11. Replays(rows, s)
    BY <1>4, <2>4, <2>9 DEF LoggedInv
  <2>12. ASSUME NEW r \in rows
         PROVE  /\ r.ts \in Nat /\ r.ts <= Clock /\ r.id \in Nat /\ r.id <= LastId + delivered
                /\ IsStop(r) => r.event \in Events /\ r.event.type = "session_stopped"
    <3>1. FromEvent(id, r) \/ FromResult(r)
      BY <1>4, <2>9 DEF LoggedInv
    <3> QED
      BY <1>0, <1>2, <3>1, LoggedRow
  <2> HIDE DEF rows, s
  <2>13. row.id \in Nat /\ row.ts \in Nat /\ \A r \in rows : r.id < row.id
    BY <1>2, <1>5, <2>5, <2>12
  <2>14. row \notin rows
    BY <2>13
  <2>15. Sound(rows \cup {row})
    <3>1. IsFiniteSet(rows \cup {row}) /\ \A l, r \in rows : l.id = r.id => l = r
      BY <2>11, FS_AddElement DEF Replays, Sound
    <3>2. \A r \in rows : r.ts \in Nat /\ r.id \in Nat /\ r.id # row.id
      BY <2>12, <2>13
    <3> QED
      BY <2>13, <3>1, <3>2 DEF Sound
  <2>16. ReplayRank(row.type) = 1
    BY <2>5 DEF ReplayRank
  <2>17. \A r \in rows : ~IsStop(r) => Canonically(r, row)
    <3> SUFFICES ASSUME NEW r \in rows, ~IsStop(r) PROVE Canonically(r, row)
      OBVIOUS
    <3>1. ReplayRank(r.type) \in {0, 1}
      BY DEF ReplayRank, IsStop
    <3>2. r.ts \in Nat /\ r.ts <= row.ts /\ r.id < row.id
      BY <2>5, <2>12, <2>13
    <3>3. r.ts < row.ts \/ r.ts = row.ts
      BY <2>13, <3>2
    <3> QED
      BY <2>16, <3>1, <3>2, <3>3 DEF Canonically
  <2>18. \A r \in rows : IsStop(r) =>
            Canonically(row, r) /\ r.event \in Events /\ r.event.type = "session_stopped"
    <3> SUFFICES ASSUME NEW r \in rows, IsStop(r)
                 PROVE  Canonically(row, r) /\ r.event \in Events
                                            /\ r.event.type = "session_stopped"
      OBVIOUS
    <3>1. ReplayRank(r.type) = 2
      BY DEF ReplayRank, IsStop
    <3> QED
      BY <2>12, <2>16, <3>1 DEF Canonically
  <2>19. Replays(rows \cup {row}, SetWork(s, row.sequence, row.lines, row.status))
    BY <2>3, <2>4, <2>5, <2>11, <2>14, <2>15, <2>17, <2>18, ResultReplays
  <2>20. Replays(rows \cup {row}, t)
    BY <2>5, <2>6, <2>19 DEF s
  <2>21. FromResult(row)'
    <3>1. LastId < row.id /\ row.id <= LastId + delivered'
      BY <1>2, <1>5, <2>2, <2>5
    <3>2. row.ts <= Clock'
      BY <1>5, <2>5
    <3> QED
      BY <1>5, <2>5, <2>13, <3>1, <3>2 DEF FromResult
  <2>22. loads' # 0 /\ delivered' \in Nat /\ delivered <= delivered' /\ applied \subseteq applied'
         /\ Clock' \in Nat /\ Clock <= Clock'
    BY <1>1, <1>2, <1>5, <2>2, <2>10
  <2>23. Replays(Logged(id) \cup {row}, t) /\ (FromEvent(id, row) \/ FromResult(row))'
    BY <2>20, <2>21 DEF rows
  <2> QED
    BY <1>0, <1>2, <1>4, <1>5, <2>6, <2>7, <2>9, <2>22, <2>23, CommitKeepsLogged
<1> QED
  BY <1>6, <1>7

\* Every step keeps the invariant.
LEMMA ReplayStepKeeps ==
    ASSUME IInv, ReplayInv, [Next]_vars
    PROVE  ReplayInv'
<1>0. QueueInv
  BY DEF IInv
<1>2. ASSUME journalQueue' = journalQueue, eventRows' = eventRows
      PROVE  \A id : Logged(id)' = Logged(id)
  BY <1>2 DEF Logged, RowsOf
<1>3. CASE LoadProject
  <2>1. /\ loads' = loads + 1 /\ sessions' = [id \in SessionIds |-> NoSession]
        /\ journalQueue' = journalQueue /\ eventRows' = eventRows /\ degraded' = degraded
        /\ applied' = applied /\ inOrder' = inOrder /\ delivered' = delivered
    BY <1>3 DEF LoadProject, journalVars, history
  <2>2. loads \in Nat /\ loads' \in Nat /\ delivered' \in Nat
    BY <2>1 DEF ReplayInv
  <2>3. ASSUME ~degraded', inOrder', loads' <= 1 PROVE LoggedInv'
    <3>1. loads = 0 /\ LoggedInv
      BY <2>1, <2>2, <2>3 DEF ReplayInv
    <3>2. \A id \in SessionIds : Logged(id)' = {} /\ ~Known(id)'
      BY <1>2, <2>1, <3>1 DEF LoggedInv, Known
    <3> QED
      BY <3>2 DEF LoggedInv
  <2> QED
    BY <2>2, <2>3 DEF ReplayInv
<1>4. ASSUME NEW x \in Feed, Publish(x) PROVE ReplayInv'
  BY <1>4, PublishReplays
<1>5. ASSUME NEW x \in Feed, PublishFails(x) PROVE ReplayInv'
  BY <1>2, <1>5, LogsUnchanged DEF PublishFails, journalVars, history
<1>6. ASSUME NEW r \in inFlight, Deliver(r) PROVE ReplayInv'
  BY <1>6, DeliverReplays
<1>7. CASE WriteEvent \/ WriteSession
  <2>1. \A id : Logged(id)' = Logged(id)
    BY <1>0, <1>7, WritingLogs
  <2> QED
    BY <1>7, <2>1, LogsUnchanged DEF WriteEvent, WriteSession, history
<1>8. CASE WriteFails
  BY <1>8 DEF WriteFails, ReplayInv, history
<1>9. CASE CloseDiffs \/ ShutdownStep \/ UNCHANGED vars
  BY <1>2, <1>9, LogsUnchanged DEF CloseDiffs, ShutdownStep, StopJournal, JournalStopped, vars,
                          journalVars, history
<1> QED
  BY <1>3, <1>4, <1>5, <1>6, <1>7, <1>8, <1>9 DEF Next, JournalStep

LEMMA ReplayInitHolds == Init => ReplayInv
<1> SUFFICES ASSUME Init PROVE ReplayInv
  OBVIOUS
<1>1. /\ loads = 0 /\ delivered = 0 /\ journalQueue = <<>> /\ eventRows = {}
      /\ sessions = [id \in SessionIds |-> NoSession]
  BY DEF Init
<1>2. \A id : Logged(id) = {}
  BY <1>1 DEF Logged, RowsOf
<1> QED
  BY <1>1, <1>2 DEF ReplayInv, LoggedInv, Known

\* It holds in every reachable state.
LEMMA ReplayInvariance == Spec => []ReplayInv
BY ReplayInitHolds, ReplayStepKeeps, Invariance, PTL DEF Spec

\* Once the queue is empty the rows are the stored ones.
LEMMA ReplayInvImplies ==
    ASSUME IInv, ReplayInv
    PROVE  ReplayRestoresTrail
<1> SUFFICES ASSUME JournalIsComplete, inOrder, NEW id \in SessionIds, Known(id)
             PROVE  Restores(id)
  BY DEF ReplayRestoresTrail
<1>1. LoggedInv
  BY DEF JournalIsComplete, ReplayInv
<1>2. journalQueue = <<>>
  BY DEF IInv, QueueInv, JournalIsComplete
<1>3. Logged(id) = RowsOf(id)
  BY <1>2 DEF Logged
<1>4. Replays(RowsOf(id), sessions[id]) /\ sessions[id] \in GoodStates
  BY <1>1, <1>3 DEF LoggedInv, IInv, MemoryInv
<1> DEFINE r == Replayed(id)
<1>5. /\ r \notin {NoSession, Failed}
      /\ Len(r.intervals) = Len(sessions[id].intervals)
      /\ \A i \in DOMAIN sessions[id].intervals :
            Shows(sessions[id].intervals[i], r.intervals[i])
  BY <1>4, ReconstructShows DEF Replayed
<1> HIDE DEF r
<1> QED
  BY <1>5 DEF Restores, r

\* When the journal lost nothing and events came in order, replaying the rows of
\* a session shows its live trail: results may come at any moment, also after
\* the session stopped, and a session may be started again.
THEOREM ReplayAlwaysRestores == Spec => []ReplayRestoresTrail
BY Invariance, ReplayInvariance, ReplayInvImplies, PTL

-----------------------------------------------------------------------------
(***************************************************************************)
(* The diff service seen by key.  DiffPipeline answers for keys, and takes *)
(* no key twice; LiveDesktop asks about events, by their ids.              *)
(***************************************************************************)
ServiceKeys == {x.id : x \in Feed}
KeysInFlight == {r.key : r \in inFlight}
Keyed == INSTANCE WorkService WITH Items <- ServiceKeys, inFlight <- KeysInFlight

\* A key in flight is the id of an event seen, and of one request.
KeysInv ==
    /\ KeysInFlight \subseteq seen
    /\ \A r1, r2 \in inFlight : r1.key = r2.key => r1 = r2

\* submitDiff puts one request in the pipeline or none.
LEMMA SubmitDiffAccepts ==
    ASSUME NEW x \in Feed, NEW s, SubmitDiff(x, s)
    PROVE  /\ closed' = closed
           /\ inFlight' = inFlight \/ inFlight' = inFlight \cup {Request(x, s)}
           /\ Request(x, s).key = x.id
BY DEF SubmitDiff, Work!Accept, workVars, Request

\* What a request is about.
LEMMA KeysAreIds ==
    ASSUME MemoryInv, NEW r \in inFlight
    PROVE  r.key \in ServiceKeys
BY DEF MemoryInv, WorkRequests, ServiceKeys

\* Every step leaves the keys in flight alone or is one of the service's.
LEMMA StepIsAClient ==
    ASSUME MemoryInv, KeysInv, [Next]_vars
    PROVE  KeysInv' /\ [Keyed!Next]_(Keyed!vars)
<1> USE DEF Keyed!Next, Keyed!Accept, Keyed!Deliver, Keyed!Close, Keyed!vars
<1>1. ASSUME seen \subseteq seen', UNCHANGED inFlight, closed' = closed \/ (~closed /\ closed')
      PROVE  KeysInv' /\ [Keyed!Next]_(Keyed!vars)
  BY <1>1 DEF KeysInv, KeysInFlight
<1>2. ASSUME NEW x \in Feed, Publish(x)
      PROVE  KeysInv' /\ [Keyed!Next]_(Keyed!vars)
  <2> DEFINE r == Request(x, AppliedState(x))
  <2>1. /\ x.id \notin seen /\ seen' = seen \cup {x.id} /\ closed' = closed /\ r.key = x.id
        /\ inFlight' = inFlight \/ inFlight' = inFlight \cup {r}
    BY <1>2, SubmitDiffAccepts DEF Publish
  <2>2. CASE inFlight' = inFlight
    BY <1>1, <2>1, <2>2
  <2>3. CASE inFlight' = inFlight \cup {r}
    <3> HIDE DEF r
    <3>1. KeysInFlight' = KeysInFlight \cup {x.id} /\ x.id \notin KeysInFlight
      BY <2>1, <2>3 DEF KeysInFlight, KeysInv
    <3>2. \A other \in inFlight : other.key # r.key
      BY <2>1, <3>1 DEF KeysInFlight
    <3>3. KeysInv'
      BY <2>1, <2>3, <3>1, <3>2 DEF KeysInv
    <3>4. x.id \in ServiceKeys
      BY DEF ServiceKeys
    <3> QED
      BY <2>1, <3>1, <3>3, <3>4
  <2> QED
    BY <2>1, <2>2, <2>3
<1>3. ASSUME NEW r \in inFlight, Deliver(r)
      PROVE  KeysInv' /\ [Keyed!Next]_(Keyed!vars)
  <2>1. inFlight' = inFlight \ {r} /\ closed' = closed /\ seen' = seen
    BY <1>3 DEF Deliver, Work!Deliver
  <2>2. KeysInFlight' = KeysInFlight \ {r.key} /\ r.key \in KeysInFlight
    BY <2>1 DEF KeysInFlight, KeysInv
  <2>3. r.key \in ServiceKeys
    BY KeysAreIds
  <2>4. KeysInv'
    BY <2>1, <2>2 DEF KeysInv
  <2> QED
    BY <2>1, <2>2, <2>3, <2>4
<1>4. CASE CloseDiffs
  BY <1>1, <1>4 DEF CloseDiffs, Work!Close
<1>5. CASE LoadProject \/ JournalStep \/ ShutdownStep \/ UNCHANGED vars \/ \E x \in Feed : PublishFails(x)
  BY <1>1, <1>5 DEF LoadProject, JournalStep, WriteEvent, WriteSession, WriteFails, ShutdownStep,
                    StopJournal, JournalStopped, PublishFails, vars, workVars
<1> QED
  BY <1>2, <1>3, <1>4, <1>5 DEF Next

\* The desktop keeps its side of the interface the pipeline implements
\* (PipelineIsAService in DiffPipelineProofs), whatever is published, lost,
\* loaded or closed: it never asks about an event whose work is in flight, and
\* takes each result it waits for once.
THEOREM DesktopIsAClient == Spec => Keyed!Init /\ [][Keyed!Next]_(Keyed!vars)
<1>1. Init => Keyed!Init /\ KeysInv
  BY DEF Init, Work!Init, Keyed!Init, KeysInFlight, KeysInv
<1>2. IInv => MemoryInv
  BY DEF IInv
<1> QED
  BY <1>1, <1>2, StepIsAClient, Invariance, PTL DEF Spec

-----------------------------------------------------------------------------
(***************************************************************************)
(* Cursors.  Replay shows a session as it was after the rows before the    *)
(* cursor; here for any rows the desktop can have written, with events     *)
(* late, lost or published under an earlier project.                       *)
(***************************************************************************)

\* A row the loop understands: an event of its type, or a result.
Replayable(row) ==
    /\ row.id \in Nat /\ row.ts \in Nat
    /\ row.type = "diff_calculated" =>
          row.lines \in Lines \cup {NoLines} /\ row.status \in Statuses
    /\ row.type # "diff_calculated" => row.ts \in Times /\ row.event \in Events

\* A step of the loop fails, starts the session or adds to its history, and
\* nothing leads out of a failure.
LEMMA ReplayStepAdds ==
    ASSUME NEW row, Replayable(row), NEW s \in GoodStates \cup {NoSession, Failed}
    PROVE  LET t == ReplayStep(s, row)
           IN  /\ t \in GoodStates \cup {Failed}
               /\ s = Failed => t = Failed
               /\ s \in GoodStates /\ t # Failed => KeepsHistory(s, t)
<1> DEFINE t == ReplayStep(s, row)
<1>0. NoSession \notin GoodStates /\ Failed \notin GoodStates /\ NoSession # Failed
  BY GoodIsState, ReplayAssumption
<1>1. CASE s = Failed
  BY <1>0, <1>1 DEF ReplayStep
<1>2. CASE s # Failed /\ row.type = "diff_calculated"
  <2>1. t = ApplyDiff(s, row)
    BY <1>2 DEF ReplayStep
  <2>2. CASE s = NoSession \/ ~HasSequence(s, row.sequence)
    BY <1>0, <1>2, <2>1, <2>2 DEF ApplyDiff
  <2>3. CASE s # NoSession /\ HasSequence(s, row.sequence)
    <3>1. s \in SessionStates /\ TrailOrdered(s) /\ FocusMatchesTrail(s)
      BY <1>2, <2>3 DEF GoodStates
    <3>2. t = SetWork(s, row.sequence, row.lines, row.status)
      BY <2>1, <2>3 DEF ApplyDiff
    <3>3. row.lines \in Lines \cup {NoLines} /\ row.status \in Statuses
      BY <1>2 DEF Replayable
    <3> QED
      BY <1>2, <3>1, <3>2, <3>3, SetWorkEffect DEF GoodStates
  <2> QED
    BY <2>2, <2>3
<1>3. CASE s = NoSession /\ row.type # "diff_calculated"
  <2>1. row.ts \in Times
    BY <1>3 DEF Replayable
  <2>2. NewSession(row.ts) \in GoodStates
    BY <2>1, StartEffect DEF GoodStates
  <2>3. t = NewSession(row.ts) \/ t = Failed
    BY <1>0, <1>3 DEF ReplayStep
  <2> QED
    BY <1>0, <1>3, <2>2, <2>3
<1>4. CASE s \in GoodStates /\ row.type # "diff_calculated"
  <2>1. s \in SessionStates /\ TrailOrdered(s) /\ FocusMatchesTrail(s) /\ row.event \in Events
    BY <1>4 DEF GoodStates, Replayable
  <2>2. t = s \/ t = ApplyEvent(s, row.event)
    BY <1>0, <1>4 DEF ReplayStep
  <2>3. KeepsHistory(s, s)
    BY <2>1 DEF KeepsHistory, SessionStates
  <2>4. /\ ApplyEvent(s, row.event) \in GoodStates
        /\ KeepsHistory(s, ApplyEvent(s, row.event))
    BY <2>1, ApplyEventEffect DEF GoodStates
  <2> QED
    BY <1>0, <1>4, <2>2, <2>3, <2>4
<1> QED
  BY <1>1, <1>2, <1>3, <1>4

\* The states of the loop over the first m rows of a sequence.
Unfolds(g, c, m) ==
    g = [k \in 0..m |-> IF k = 0 THEN NoSession ELSE ReplayStep(g[k - 1], c[k])]

\* Every sequence has such states, built row by row.
LEMMA UnfoldingExists ==
    ASSUME NEW c, NEW m \in Nat
    PROVE  \E g : Unfolds(g, c, m)
<1> DEFINE T == {k \in Nat : ~\E g : Unfolds(g, c, k)}
<1> SUFFICES ASSUME T # {} PROVE FALSE
  OBVIOUS
<1>1. PICK k \in T : \A l \in T : k <= l
  <2>1. T \in SUBSET Nat
    OBVIOUS
  <2> QED
    BY <2>1, LeastOne
<1>2. CASE k = 0
  <2> DEFINE g == [i \in 0..0 |-> NoSession]
  <2>1. \A i \in 0..0 : i = 0
    OBVIOUS
  <2>2. Unfolds(g, c, 0)
    BY <2>1 DEF Unfolds
  <2> QED
    BY <1>1, <1>2, <2>2
<1>3. CASE k # 0
  <2>1. k - 1 \in Nat /\ k - 1 \notin T
    BY <1>1, <1>3
  <2>2. PICK g : Unfolds(g, c, k - 1)
    BY <2>1
  <2>3. \A i \in 0..(k - 1) : g[i] = IF i = 0 THEN NoSession ELSE ReplayStep(g[i - 1], c[i])
    BY <2>2 DEF Unfolds
  <2> DEFINE h == [i \in 0..k |-> IF i = k THEN ReplayStep(g[k - 1], c[k]) ELSE g[i]]
  <2>4. \A i \in 0..k : i # k => i \in 0..(k - 1)
    BY <1>1
  <2>5. ASSUME NEW i \in 0..k
        PROVE  h[i] = IF i = 0 THEN NoSession ELSE ReplayStep(h[i - 1], c[i])
    <3>1. i # 0 => i - 1 \in 0..k /\ i - 1 # k /\ h[i - 1] = g[i - 1]
      BY <1>1
    <3>2. CASE i = k
      BY <1>3, <3>1, <3>2
    <3>3. CASE i # k
      <4>1. h[i] = g[i] /\ i \in 0..(k - 1)
        BY <2>4, <3>3
      <4> HIDE DEF h
      <4> QED
        BY <2>3, <3>1, <4>1
    <3> QED
      BY <3>2, <3>3
  <2>6. h = [i \in 0..k |-> h[i]]
    OBVIOUS
  <2> HIDE DEF h
  <2>7. Unfolds(h, c, k)
    BY <2>5, <2>6 DEF Unfolds
  <2> QED
    BY <1>1, <2>7
<1> QED
  BY <1>2, <1>3

\* Sequences that begin alike have the same states as far.
LEMMA UnfoldingsAgree ==
    ASSUME NEW c, NEW d, NEW g, NEW h, NEW l \in Nat, NEW m \in Nat, l <= m,
           Unfolds(g, c, m), Unfolds(h, d, l), \A k \in 1..l : c[k] = d[k]
    PROVE  \A k \in 0..l : g[k] = h[k]
<1> DEFINE T == {k \in 0..l : g[k] # h[k]}
<1> SUFFICES ASSUME T # {} PROVE FALSE
  OBVIOUS
<1>1. PICK k \in T : \A i \in T : k <= i
  <2>1. T \in SUBSET Nat
    OBVIOUS
  <2> QED
    BY <2>1, LeastOne
<1>2. k \in 0..m
  BY <1>1
<1>3. /\ g[k] = IF k = 0 THEN NoSession ELSE ReplayStep(g[k - 1], c[k])
      /\ h[k] = IF k = 0 THEN NoSession ELSE ReplayStep(h[k - 1], d[k])
  BY <1>1, <1>2 DEF Unfolds
<1>4. k # 0 => k \in 1..l /\ k - 1 \in 0..l /\ k - 1 \notin T
  BY <1>1
<1> QED
  BY <1>1, <1>3, <1>4

\* What replay computes of a beginning of the rows is a state of the loop over
\* all of them.
LEMMA PrefixReplay ==
    ASSUME NEW S, NEW c \in Seq(S), NEW g, Unfolds(g, c, Len(c)), NEW k \in 1..Len(c)
    PROVE  ReplayRows(SubSeq(c, 1, k)) = g[k]
<1> DEFINE d == SubSeq(c, 1, k)
           state == CHOOSE h : Unfolds(h, d, Len(d))
<1>1. Len(c) \in Nat /\ k \in Nat /\ k <= Len(c) /\ k \in 0..k
  OBVIOUS
<1>2. Len(d) = k /\ \A i \in 1..k : d[i] = c[i]
  BY <1>1
<1>3. ReplayRows(d) = state[Len(d)]
  BY DEF ReplayRows, Unfolds
<1> HIDE DEF d
<1>4. Unfolds(state, d, k)
  BY <1>1, <1>2, UnfoldingExists
<1> HIDE DEF state
<1>5. g[k] = state[k]
  <2>1. \A i \in 1..k : c[i] = d[i]
    BY <1>2
  <2>2. \A i \in 0..k : g[i] = state[i]
    BY <1>1, <1>4, <2>1, UnfoldingsAgree
  <2> QED
    BY <1>1, <2>2
<1> QED
  BY <1>2, <1>3, <1>5 DEF d

\* The view an earlier cursor gives: the accesses so far, the last of them
\* perhaps still to be renamed or ended.
EarlierView(r, t) ==
    /\ Len(r.intervals) <= Len(t.intervals)
    /\ \A i \in 1..Len(r.intervals) :
          /\ Starts(r, i) = Starts(t, i)
          /\ i < Len(r.intervals) => /\ r.intervals[i].path = t.intervals[i].path
                                     /\ r.intervals[i].endedAt = t.intervals[i].endedAt

\* Moving the cursor back shows an earlier view; only what comes after the
\* cursor can make replay fail.
CursorsAgree(rows) ==
    \A m \in 1..Cardinality(rows) : \A n \in 1..m :
        LET early == Reconstruct(rows, n)
            late  == Reconstruct(rows, m)
        IN  late # Failed => /\ early \notin {NoSession, Failed}
                             /\ late # NoSession
                             /\ EarlierView(early, late)

\* Closing at the cursor ends the last access at most.
LEMMA ClosingShows ==
    ASSUME NEW u \in GoodStates, NEW at \in Nat
    PROVE  LET r == CloseAtCursor(u, at)
           IN  /\ r \in SessionStates
               /\ Len(r.intervals) = Len(u.intervals)
               /\ \A i \in 1..Len(u.intervals) :
                    /\ r.intervals[i].path = u.intervals[i].path
                    /\ Starts(r, i) = Starts(u, i)
                    /\ u.intervals[i].endedAt # NoTime =>
                          r.intervals[i].endedAt = u.intervals[i].endedAt
<1>1. u \notin {NoSession, Failed} /\ u \in SessionStates
  BY GoodIsState DEF GoodStates
<1>2. CASE u.stoppedAt = NoTime
  <2>1. CloseAtCursor(u, at) = PauseSession(u, at)
    BY <1>1, <1>2 DEF CloseAtCursor
  <2> QED
    BY <2>1, PauseShows DEF Starts
<1>3. CASE u.stoppedAt # NoTime
  <2>1. CloseAtCursor(u, at) = u
    BY <1>1, <1>3 DEF CloseAtCursor
  <2> QED
    BY <1>1, <2>1
<1> QED
  BY <1>2, <1>3

\* A cursor shows a state of the loop, closed at some instant.
LEMMA CursorShows ==
    ASSUME NEW rows, Sound(rows), NEW g, Unfolds(g, CanonicalEvents(rows), Cardinality(rows)),
           NEW k \in 1..Cardinality(rows)
    PROVE  \E at \in Nat : Reconstruct(rows, k) = CloseAtCursor(g[k], at)
<1> DEFINE n == Cardinality(rows)
           c == CanonicalEvents(rows)
           d == SubSeq(c, 1, k)
           S == {row.ts : row \in ToSet(d)}
<1>1. n \in Nat /\ c = [i \in 1..n |-> c[i]] /\ \A i \in 1..n : c[i] \in rows
  BY CanonicalSequence
<1>2. k \in 1..n /\ k \in Nat /\ k >= 1
  OBVIOUS
<1>3. Unfolds(g, c, n)
  OBVIOUS
<1> HIDE DEF c, n
<1>4. c \in Seq(rows) /\ Len(c) = n
  BY <1>1
<1>5. ReplayRows(d) = g[k]
  BY <1>2, <1>3, <1>4, PrefixReplay
<1>6. Len(d) = k /\ DOMAIN d = 1..k /\ \A i \in 1..k : d[i] = c[i] /\ d[i] \in rows
  BY <1>1, <1>2, <1>4
<1> HIDE DEF d
<1>7. Max(S) \in Nat
  <2> DEFINE f == [i \in 1..k |-> d[i].ts]
  <2>1. S = {d[i].ts : i \in 1..k}
    BY <1>6 DEF ToSet
  <2> HIDE DEF S
  <2>2. f \in Surjection(1..k, S)
    BY <2>1 DEF Surjection
  <2> HIDE DEF f
  <2>3. IsFiniteSet(S)
    BY <1>2, <2>2, FS_Interval, FS_Surjection
  <2>4. S \subseteq Nat
    BY <1>6, <2>1 DEF Sound
  <2>5. S # {}
    <3>1. 1 \in 1..k
      BY <1>2
    <3> QED
      BY <2>1, <3>1
  <2> QED
    BY <2>3, <2>4, <2>5, FiniteMax
<1>8. d # <<>>
  BY <1>2, <1>6
<1>9. Reconstruct(rows, k) = CloseAtCursor(g[k], Max(S))
  BY <1>5, <1>8 DEF Reconstruct, c, d
<1> QED
  BY <1>7, <1>9

\* States of the loop: once good they stay so and keep the history, or fail for good.
LEMMA LoopKeepsHistory ==
    ASSUME NEW c, NEW m \in Nat, NEW g, Unfolds(g, c, m), \A k \in 1..m : Replayable(c[k])
    PROVE  \A n \in 1..m : \A k \in n..m :
              /\ g[k] \in GoodStates \cup {Failed}
              /\ g[k] # Failed => g[n] \in GoodStates /\ KeepsHistory(g[n], g[k])
<1>1. /\ g[0] = NoSession
      /\ \A k \in 1..m : g[k] = ReplayStep(g[k - 1], c[k])
  <2>1. \A k \in 0..m : g[k] = IF k = 0 THEN NoSession ELSE ReplayStep(g[k - 1], c[k])
    BY DEF Unfolds
  <2>2. 0 \in 0..m /\ \A k \in 1..m : k \in 0..m /\ k # 0
    OBVIOUS
  <2> QED
    BY <2>1, <2>2
<1>2. \A k \in 1..m : g[k] \in GoodStates \cup {Failed}
  <2> DEFINE T == {k \in 1..m : g[k] \notin GoodStates \cup {Failed}}
  <2> SUFFICES ASSUME T # {} PROVE FALSE
    OBVIOUS
  <2>1. PICK k \in T : \A i \in T : k <= i
    <3>1. T \in SUBSET Nat
      OBVIOUS
    <3> QED
      BY <3>1, LeastOne
  <2>2. k \in 1..m /\ (k = 1 \/ (k - 1 \in 1..m /\ k - 1 \notin T))
    BY <2>1
  <2>3. g[k - 1] \in GoodStates \cup {NoSession, Failed}
    BY <1>1, <2>2
  <2> QED
    BY <1>1, <2>1, <2>2, <2>3, ReplayStepAdds
<1> TAKE n \in 1..m
<1>3. Failed \notin GoodStates
  BY GoodIsState
<1> DEFINE Kept(k) == g[k] # Failed => g[n] \in GoodStates /\ KeepsHistory(g[n], g[k])
<1>4. \A k \in n..m : Kept(k)
  <2> DEFINE T == {k \in n..m : ~Kept(k)}
  <2> SUFFICES ASSUME T # {} PROVE FALSE
    OBVIOUS
  <2>1. PICK k \in T : \A i \in T : k <= i
    <3>1. T \in SUBSET Nat
      OBVIOUS
    <3> QED
      BY <3>1, LeastOne
  <2>2. k \in 1..m /\ k \in n..m /\ ~Kept(k)
    BY <2>1
  <2>3. g[k] # Failed /\ g[k] \in GoodStates
    BY <1>2, <2>2
  <2>4. CASE k = n
    <3>1. KeepsHistory(g[n], g[n])
      BY <2>3, <2>4 DEF KeepsHistory, GoodStates, SessionStates
    <3> QED
      BY <2>2, <2>3, <2>4, <3>1
  <2>5. CASE k # n
    <3>1. k - 1 \in n..m /\ k - 1 \in 1..m /\ k - 1 \notin T
      BY <2>1, <2>5
    <3>2. Kept(k - 1)
      BY <3>1
    <3>3. g[k] = ReplayStep(g[k - 1], c[k]) /\ g[k - 1] \in GoodStates \cup {Failed}
      BY <1>1, <1>2, <2>2, <3>1
    <3>4. g[k - 1] # Failed /\ g[k - 1] \in GoodStates /\ KeepsHistory(g[k - 1], g[k])
      BY <2>2, <2>3, <3>3, ReplayStepAdds
    <3>5. g[n] \in GoodStates /\ KeepsHistory(g[n], g[k - 1])
      BY <3>2, <3>4
    <3>6. KeepsHistory(g[n], g[k])
      BY <2>3, <3>4, <3>5, HistoryIsTransitive DEF GoodStates
    <3> QED
      BY <2>2, <3>5, <3>6
  <2> QED
    BY <2>4, <2>5
<1>5. \A k \in n..m : k \in 1..m
  OBVIOUS
<1> QED
  BY <1>2, <1>4, <1>5

\* So the cursors of readable rows agree.
LEMMA ReadableRowsAgree ==
    ASSUME NEW rows, Sound(rows), \A row \in rows : Replayable(row)
    PROVE  CursorsAgree(rows)
<1> DEFINE c == CanonicalEvents(rows)
           size == Cardinality(rows)
<1>1. size \in Nat /\ \A i \in 1..size : c[i] \in rows
  BY CanonicalSequence
<1>2. PICK g : Unfolds(g, c, size)
  BY <1>1, UnfoldingExists
<1>3. \A k \in 1..size : Replayable(c[k])
  BY <1>1
<1>4. \A k \in 1..size : \E at \in Nat : Reconstruct(rows, k) = CloseAtCursor(g[k], at)
  BY <1>2, CursorShows
<1> HIDE DEF c, size
<1>5. \A n \in 1..size : \A k \in n..size :
         /\ g[k] \in GoodStates \cup {Failed}
         /\ g[k] # Failed => g[n] \in GoodStates /\ KeepsHistory(g[n], g[k])
  BY <1>1, <1>2, <1>3, LoopKeepsHistory
<1>6. ASSUME NEW m \in 1..size, NEW n \in 1..m, Reconstruct(rows, m) # Failed
      PROVE  /\ Reconstruct(rows, n) \notin {NoSession, Failed}
             /\ Reconstruct(rows, m) # NoSession
             /\ EarlierView(Reconstruct(rows, n), Reconstruct(rows, m))
  <2> DEFINE early == Reconstruct(rows, n)
             late  == Reconstruct(rows, m)
             s == g[n]
             t == g[m]
  <2>1. n \in 1..size /\ m \in n..size
    BY <1>1
  <2>2. PICK a \in Nat, b \in Nat : early = CloseAtCursor(s, a) /\ late = CloseAtCursor(t, b)
    BY <1>4, <2>1
  <2>3. t # Failed
    BY <1>6, <2>2 DEF CloseAtCursor
  <2>4. s \in GoodStates /\ t \in GoodStates /\ KeepsHistory(s, t)
    BY <1>5, <2>1, <2>3
  <2> HIDE DEF early, late, s, t
  <2>5. /\ early \in SessionStates /\ Len(early.intervals) = Len(s.intervals)
        /\ \A i \in 1..Len(s.intervals) :
             /\ early.intervals[i].path = s.intervals[i].path
             /\ Starts(early, i) = Starts(s, i)
             /\ s.intervals[i].endedAt # NoTime =>
                   early.intervals[i].endedAt = s.intervals[i].endedAt
    BY <2>2, <2>4, ClosingShows
  <2>6. /\ late \in SessionStates /\ Len(late.intervals) = Len(t.intervals)
        /\ \A i \in 1..Len(t.intervals) :
             /\ late.intervals[i].path = t.intervals[i].path
             /\ Starts(late, i) = Starts(t, i)
             /\ t.intervals[i].endedAt # NoTime =>
                   late.intervals[i].endedAt = t.intervals[i].endedAt
    BY <2>2, <2>4, ClosingShows
  <2>7. /\ Len(s.intervals) \in Nat /\ Len(t.intervals) \in Nat
        /\ Len(s.intervals) <= Len(t.intervals)
        /\ \A i \in 1..Len(s.intervals) :
             /\ i \in 1..Len(t.intervals)
             /\ Starts(s, i) = Starts(t, i)
             /\ s.intervals[i].endedAt # NoTime =>
                   s.intervals[i].endedAt = t.intervals[i].endedAt
             /\ i < Len(s.intervals) => /\ s.intervals[i].path = t.intervals[i].path
                                        /\ s.intervals[i].endedAt # NoTime
    <3>1. Len(s.intervals) \in Nat /\ Len(t.intervals) \in Nat
      BY <2>4 DEF GoodStates, SessionStates
    <3> QED
      BY <2>4, <3>1 DEF GoodStates, KeepsHistory, TrailOrdered
  <2>8. EarlierView(early, late)
    BY <2>5, <2>6, <2>7 DEF EarlierView
  <2>9. early \notin {NoSession, Failed} /\ late # NoSession
    BY <2>5, <2>6, ReplayAssumption
  <2> QED
    BY <2>8, <2>9 DEF early, late
<1> QED
  BY <1>6 DEF CursorsAgree, size

\* The rows of a session, stored or on their way, whatever was lost: events
\* seen and results delivered, each under an id of its own.
Genuine(id, row) ==
    /\ Replayable(row)
    /\ \/ row.id <= LastId /\ FromEvent(id, row)
       \/ LastId < row.id /\ row.id <= LastId + delivered

RowsInv ==
    /\ delivered \in Nat
    /\ IsFiniteSet(eventRows)
    /\ \A id \in SessionIds : \A row \in Logged(id) : Genuine(id, row)
    /\ \A id \in SessionIds : \A l, r \in Logged(id) : l.id = r.id => l = r

\* What the journal's rows can become in a commit, also one whose record is lost.
LEMMA CommitLogsAtMost ==
    ASSUME QueueInv, NEW id \in SessionIds, NEW row, NEW state, Commit(id, row, state)
    PROVE  /\ Logged(id)' \subseteq Logged(id) \cup {row}
           /\ \A other : other # id => Logged(other)' = Logged(other)
           /\ eventRows' = eventRows
<1>0. eventRows' = eventRows
  BY DEF Commit
<1>1. CASE journalQueue' = journalQueue
  <2>1. \A other : Logged(other)' = Logged(other)
    BY <1>0, <1>1 DEF Logged, RowsOf
  <2> QED
    BY <1>0, <2>1
<1>2. CASE journalQueue' # journalQueue
  <2> DEFINE q == journalQueue
             record == [session |-> id, row |-> row, state |-> state]
             p == Append(q, record)
  <2>1. journalQueue' = p
    BY <1>2 DEF Commit, QueueJournal
  <2>2. record.session = id /\ record.row = row
    OBVIOUS
  <2> HIDE DEF record
  <2>3. PICK S : q \in Seq(S)
    BY DEF QueueInv
  <2>4. /\ Len(q) \in Nat /\ Len(p) = Len(q) + 1 /\ p[Len(q) + 1] = record
        /\ \A k \in 1..Len(q) : p[k] = q[k]
    BY <2>3, Appended DEF Appends
  <2> HIDE DEF p
  <2>5. \A k \in 1..Len(p) : k \in 1..Len(q) \/ k = Len(q) + 1
    BY <2>4
  <2>6. \A k \in 1..Len(q) : k \in 1..Len(p)
    BY <2>4
  <2> DEFINE has(f, i) == {f[k].row : k \in {j \in 1..Len(f) : f[j].session = i}}
  <2>7. has(p, id) \subseteq has(q, id) \cup {row}
    BY <2>2, <2>4, <2>5
  <2>8. \A other : other # id => has(p, other) = has(q, other)
    <3> SUFFICES ASSUME NEW other, other # id PROVE has(p, other) = has(q, other)
      OBVIOUS
    <3>1. has(p, other) \subseteq has(q, other)
      BY <2>2, <2>4, <2>5
    <3>2. has(q, other) \subseteq has(p, other)
      BY <2>4, <2>6
    <3> QED
      BY <3>1, <3>2
  <2>9. \A i : /\ Logged(i) = RowsOf(i) \cup has(q, i)
               /\ Logged(i)' = RowsOf(i) \cup has(p, i)
    BY <1>0, <2>1 DEF Logged, RowsOf
  <2> HIDE DEF has
  <2> QED
    BY <1>0, <2>7, <2>8, <2>9
<1> QED
  BY <1>1, <1>2

\* Rows that stay are as genuine as they were.
LEMMA GenuineStays ==
    ASSUME delivered \in Nat, delivered' \in Nat, delivered <= delivered', LastId \in Nat,
           applied \subseteq applied', NEW id, NEW row, Genuine(id, row)
    PROVE  Genuine(id, row)'
<1>1. Replayable(row)' /\ LastId' = LastId
  BY DEF Genuine, Replayable, LastId
<1>2. FromEvent(id, row) => FromEvent(id, row)'
  BY DEF FromEvent, EventRow
<1>3. row.id \in Nat
  BY DEF Genuine, Replayable
<1> QED
  BY <1>1, <1>2, <1>3 DEF Genuine

\* One more row keeps the invariant, if it is genuine and its id is new.
LEMMA CommitKeepsRows ==
    ASSUME QueueInv, RowsInv, NEW id \in SessionIds, NEW row, NEW state, Commit(id, row, state),
           delivered' \in Nat, delivered <= delivered', LastId \in Nat, applied \subseteq applied',
           Genuine(id, row)', \A r \in Logged(id) : r.id # row.id
    PROVE  RowsInv'
<1>1. /\ Logged(id)' \subseteq Logged(id) \cup {row}
      /\ \A other : other # id => Logged(other)' = Logged(other)
      /\ eventRows' = eventRows
  BY CommitLogsAtMost
<1>2. \A other \in SessionIds : \A r \in Logged(other) : Genuine(other, r)'
  BY GenuineStays DEF RowsInv
<1>3. ASSUME NEW other \in SessionIds, NEW r, r \in Logged(other)'
      PROVE  Genuine(other, r)'
  BY <1>1, <1>2, <1>3
<1>4. ASSUME NEW other \in SessionIds, NEW l, NEW r, l \in Logged(other)', r \in Logged(other)',
             l.id = r.id
      PROVE  l = r
  BY <1>1, <1>4 DEF RowsInv
<1>5. (\A other \in SessionIds : \A r \in Logged(other) : Genuine(other, r))'
  BY <1>3
<1>6. (\A other \in SessionIds : \A l, r \in Logged(other) : l.id = r.id => l = r)'
  BY <1>4
<1> QED
  BY <1>1, <1>5, <1>6 DEF RowsInv

\* Steps that only move or drop rows keep the invariant.
LEMMA FewerRows ==
    ASSUME RowsInv, delivered' = delivered, applied' = applied, IsFiniteSet(eventRows'),
           \A id \in SessionIds : Logged(id)' \subseteq Logged(id)
    PROVE  RowsInv'
<1>1. \A id, row : Genuine(id, row) => Genuine(id, row)'
  BY DEF Genuine, Replayable, FromEvent, EventRow, LastId
<1>2. (\A id \in SessionIds : \A row \in Logged(id) : Genuine(id, row))'
  BY <1>1 DEF RowsInv
<1>3. (\A id \in SessionIds : \A l, r \in Logged(id) : l.id = r.id => l = r)'
  BY DEF RowsInv
<1> QED
  BY <1>2, <1>3 DEF RowsInv

\* The row of an event that is published.
LEMMA PublishKeepsRows ==
    ASSUME IInv, RowsInv, NEW x \in Feed, Publish(x)
    PROVE  RowsInv'
<1> DEFINE row == EventRow(x)
<1>1. /\ x.id \notin seen /\ applied' = applied \cup {x} /\ delivered' = delivered
      /\ SubmitDiff(x, AppliedState(x))
  BY DEF Publish
<1>2. x.session \in SessionIds /\ x.event \in Events /\ x.id \in Nat
  BY DesktopAssumption
<1>3. PICK state : Commit(x.session, row, state)
  BY <1>1 DEF SubmitDiff
<1>4. /\ row.id = x.id /\ row.ts = x.event.ts /\ row.type = x.event.type
      /\ row.event = x.event
  BY DEF EventRow
<1>5. Replayable(row)
  <2>1. x.event.ts \in Times /\ x.event.ts \in Nat /\ x.event.type \in Kinds
    BY <1>2, TimesAreNat DEF Events
  <2>2. x.event.type # "diff_calculated"
    BY <2>1, SessionAssumption DEF EventTypes, FocusTypes, RenameTypes
  <2> QED
    BY <1>2, <1>4, <2>1, <2>2 DEF Replayable
<1>6. LastId \in Nat /\ x.id <= LastId
  BY LastIdIsLast
<1>7. Genuine(x.session, row)'
  <2>1. Replayable(row)' /\ LastId' = LastId
    BY <1>5 DEF Replayable, EventRow, LastId
  <2>2. FromEvent(x.session, row)'
    BY <1>1 DEF FromEvent, EventRow
  <2>3. (row.id <= LastId)'
    BY <1>4, <1>6, <2>1 DEF EventRow
  <2> QED
    BY <2>1, <2>2, <2>3 DEF Genuine
<1>8. \A r \in Logged(x.session) : r.id # row.id
  <2> SUFFICES ASSUME NEW r \in Logged(x.session), r.id = x.id PROVE FALSE
    BY <1>4
  <2>1. Genuine(x.session, r)
    BY <1>2 DEF RowsInv
  <2>2. FromEvent(x.session, r)
    BY <1>2, <1>6, <2>1 DEF Genuine
  <2>3. PICK y \in applied : r = EventRow(y)
    BY <2>2 DEF FromEvent
  <2>4. y.id = x.id /\ y.id \in seen
    BY <2>3 DEF EventRow, IInv, CountInv
  <2> QED
    BY <1>1, <2>4
<1> HIDE DEF row
<1>9. delivered \in Nat /\ delivered' \in Nat /\ delivered <= delivered' /\ applied \subseteq applied'
  BY <1>1 DEF RowsInv
<1> QED
  BY <1>2, <1>3, <1>6, <1>7, <1>8, <1>9, CommitKeepsRows DEF IInv

\* The row of a result that is delivered.
LEMMA DeliverKeepsRows ==
    ASSUME IInv, RowsInv, NEW q \in inFlight, Deliver(q)
    PROVE  RowsInv'
<1>0. applied' = applied
  BY DEF Deliver
<1>1. CASE ~Attachable(q)
  <2>1. journalQueue' = journalQueue /\ eventRows' = eventRows /\ delivered' = delivered
    BY <1>1 DEF Deliver, journalVars
  <2>2. \A id : Logged(id)' = Logged(id)
    BY <2>1 DEF Logged, RowsOf
  <2> QED
    BY <1>0, <2>1, <2>2, FewerRows DEF RowsInv
<1>2. CASE Attachable(q)
  <2>0. PICK result \in Results(q) :
            \E state : Commit(q.session, ResultRow(q, result[1], result[2]), state)
    BY <1>2 DEF Deliver
  <2>1. PICK row, state : row = ResultRow(q, result[1], result[2]) /\ Commit(q.session, row, state)
    BY <2>0
  <2>2. delivered' = delivered + 1 /\ delivered \in Nat
    BY <1>2 DEF Deliver, RowsInv
  <2>3. PICK x \in Feed : q.session = x.session /\ q.lines = x.event.lines
    BY DEF IInv, MemoryInv, WorkRequests
  <2>4. x.session \in SessionIds /\ x.event.lines \in Lines \cup {NoLines}
    BY DesktopAssumption DEF Events
  <2>5. result[1] \in Lines \cup {NoLines} /\ result[2] \in Statuses
    BY <2>3, <2>4, DesktopAssumption DEF Results
  <2>6. LastId \in Nat /\ LastId = Max({y.id : y \in Feed})
    BY LastIdIsLast DEF LastId
  <2>7. /\ row.id = LastId + 1 + delivered /\ row.type = "diff_calculated" /\ row.ts = Clock
        /\ row.lines = result[1] /\ row.status = result[2]
    BY <2>1 DEF ResultRow, LastId
  <2>8. Clock \in Nat
    BY LatestIsLatest DEF IInv, CountInv, Clock, Latest
  <2>9. Replayable(row)
    BY <2>2, <2>5, <2>6, <2>7, <2>8 DEF Replayable
  <2>10. Genuine(q.session, row)'
    <3>1. LastId' = LastId
      BY DEF LastId
    <3>2. LastId < row.id /\ row.id <= LastId + delivered'
      BY <2>2, <2>6, <2>7
    <3>3. Replayable(row)'
      BY <2>9 DEF Replayable
    <3> QED
      BY <3>1, <3>2, <3>3 DEF Genuine
  <2>11. \A r \in Logged(q.session) : r.id # row.id
    <3> SUFFICES ASSUME NEW r \in Logged(q.session) PROVE r.id # row.id
      OBVIOUS
    <3>1. Genuine(q.session, r)
      BY <2>3, <2>4 DEF RowsInv
    <3>2. r.id \in Nat /\ r.id <= LastId + delivered
      BY <2>2, <2>6, <3>1 DEF Genuine, Replayable
    <3> QED
      BY <2>2, <2>6, <2>7, <3>2
  <2>12. delivered' \in Nat /\ delivered <= delivered'
    BY <2>2
  <2> QED
    BY <1>0, <2>1, <2>2, <2>3, <2>4, <2>6, <2>10, <2>11, <2>12, CommitKeepsRows DEF IInv
<1> QED
  BY <1>1, <1>2

\* No step of the desktop adds any other row.
LEMMA StepKeepsRows ==
    ASSUME IInv, RowsInv, [Next]_vars
    PROVE  RowsInv'
<1>0. QueueInv /\ IsFiniteSet(eventRows)
  BY DEF IInv, RowsInv
<1>1. ASSUME journalQueue' = journalQueue, eventRows' = eventRows, delivered' = delivered,
             applied' = applied
      PROVE  RowsInv'
  <2>1. \A id : Logged(id)' = Logged(id)
    BY <1>1 DEF Logged, RowsOf
  <2> QED
    BY <1>0, <1>1, <2>1, FewerRows
<1>2. ASSUME NEW x \in Feed, Publish(x) PROVE RowsInv'
  BY <1>2, PublishKeepsRows
<1>3. ASSUME NEW r \in inFlight, Deliver(r) PROVE RowsInv'
  BY <1>3, DeliverKeepsRows
<1>4. CASE WriteEvent \/ WriteSession
  <2>1. \A id : Logged(id)' = Logged(id)
    BY <1>0, <1>4, WritingLogs
  <2>2. IsFiniteSet(eventRows')
    <3>1. eventRows' = eventRows \/ \E w : eventRows' = eventRows \cup {w}
      BY <1>4 DEF WriteEvent, WriteSession
    <3> QED
      BY <1>0, <3>1, FS_AddElement
  <2>3. delivered' = delivered /\ applied' = applied
    BY <1>4 DEF WriteEvent, WriteSession, history
  <2> QED
    BY <2>1, <2>2, <2>3, FewerRows
<1>5. CASE WriteFails
  <2>1. /\ journalQueue # <<>> /\ journalQueue' = Tail(journalQueue) /\ eventRows' = eventRows
        /\ delivered' = delivered /\ applied' = applied
    BY <1>5 DEF WriteFails, history
  <2>2. \A k \in 1..Len(journalQueue') :
            k + 1 \in 1..Len(journalQueue) /\ journalQueue'[k] = journalQueue[k + 1]
    BY <1>0, <2>1, Removed DEF QueueInv
  <2>3. \A id : Logged(id)' \subseteq Logged(id)
    BY <2>1, <2>2 DEF Logged, RowsOf
  <2> QED
    BY <1>0, <2>1, <2>3, FewerRows
<1>6. CASE LoadProject \/ CloseDiffs \/ ShutdownStep \/ UNCHANGED vars
           \/ \E x \in Feed : PublishFails(x)
  BY <1>1, <1>6 DEF LoadProject, CloseDiffs, ShutdownStep, StopJournal, JournalStopped,
                    PublishFails, vars, journalVars, history
<1> QED
  BY <1>2, <1>3, <1>4, <1>5, <1>6 DEF Next, JournalStep

\* The rows of a session are rows replay orders and understands.
LEMMA RowsAgree ==
    ASSUME RowsInv, NEW id \in SessionIds
    PROVE  CursorsAgree(RowsOf(id))
<1> DEFINE rows == RowsOf(id)
           mine == {e \in eventRows : e.session = id}
           f == [e \in mine |-> e.row]
<1>1. rows = {e.row : e \in mine}
  BY DEF RowsOf
<1>2. \A row \in rows : row \in Logged(id)
  BY DEF Logged
<1>3. IsFiniteSet(mine)
  BY FS_Subset DEF RowsInv
<1> HIDE DEF mine
<1>4. f \in Surjection(mine, rows)
  BY <1>1 DEF Surjection
<1> HIDE DEF f, rows
<1>5. IsFiniteSet(rows)
  BY <1>3, <1>4, FS_Surjection
<1>6. \A row \in rows : Replayable(row)
  BY <1>2 DEF RowsInv, Genuine
<1>7. Sound(rows)
  BY <1>2, <1>5, <1>6 DEF Sound, RowsInv, Replayable
<1> QED
  BY <1>6, <1>7, ReadableRowsAgree DEF rows

\* Whatever the journal lost and in whatever order events came, moving the
\* cursor of a replay back shows an earlier view of the session: no access is
\* lost, restarted or renamed by what comes later, except for the one last shown.
THEOREM CursorsAlwaysAgree == Spec => [](\A id \in SessionIds : CursorsAgree(RowsOf(id)))
<1>1. Init => RowsInv
  <2> SUFFICES ASSUME Init PROVE RowsInv
    OBVIOUS
  <2>1. delivered = 0 /\ journalQueue = <<>> /\ eventRows = {}
    BY DEF Init
  <2>2. \A id : Logged(id) = {}
    BY <2>1 DEF Logged, RowsOf
  <2> QED
    BY <2>1, <2>2, FS_EmptySet DEF RowsInv
<1>2. RowsInv => \A id \in SessionIds : CursorsAgree(RowsOf(id))
  BY RowsAgree
<1> QED
  BY <1>1, <1>2, StepKeepsRows, Invariance, PTL DEF Spec

=============================================================================
