------------------------- MODULE SessionStateProofs -------------------------
(***************************************************************************)
(* What the operators of SessionState do to a state with an ordered trail, *)
(* for every set of paths and instants and every idle timeout.  The engine *)
(* and the journal (JournalProofs) build on it, and so does the live       *)
(* desktop (LiveDesktopProofs).                                            *)
(***************************************************************************)
EXTENDS SessionState, TLAPS

\* Two accesses in the same place of the trail.
SameAccess(i, j) ==
    /\ i.sequence = j.sequence
    /\ i.path = j.path
    /\ i.startedAt = j.startedAt

\* Two session states that differ at most in their trail.
SameFocus(s, t) ==
    /\ s.stoppedAt = t.stoppedAt
    /\ s.paused = t.paused
    /\ s.activePath = t.activePath
    /\ s.currentPriority = t.currentPriority
    /\ s.currentTimestamp = t.currentTimestamp
-----------------------------------------------------------------------------
\* Instants are naturals.
LEMMA TimesAreNat == Times \subseteq Nat
BY SessionAssumption

\* A clamped instant lies within the idle cap of the lower bound.
LEMMA ClampBounds ==
    ASSUME NEW x \in Nat, NEW low \in Nat
    PROVE  /\ Clamp(x, low, low + IdleTimeout) \in Nat
           /\ low <= Clamp(x, low, low + IdleTimeout)
           /\ Clamp(x, low, low + IdleTimeout) <= low + IdleTimeout
BY SessionAssumption DEF Clamp

\* Closing an access keeps what it is and gives it an end within the idle cap.
LEMMA CloseIntervalEffect ==
    ASSUME NEW i \in Intervals, NEW at \in Nat
    PROVE  /\ CloseInterval(i, at) \in Intervals
           /\ SameAccess(i, CloseInterval(i, at))
           /\ CloseInterval(i, at).endedAt # NoTime
           /\ CappedInterval(CloseInterval(i, at))
<1>1. i.startedAt \in Nat
  BY SessionAssumption DEF Intervals
<1> QED
  BY <1>1, ClampBounds DEF CloseInterval, Intervals, CappedInterval, NoTime, SameAccess

\* WithCurrent replaces the last access and nothing else.
LEMMA WithCurrentEffect ==
    ASSUME NEW s \in SessionStates, s.intervals # <<>>, NEW c \in Intervals
    PROVE  /\ WithCurrent(s, c) \in SessionStates
           /\ SameFocus(s, WithCurrent(s, c))
           /\ Len(WithCurrent(s, c).intervals) = Len(s.intervals)
           /\ Len(s.intervals) \in Nat \ {0}
           /\ Current(s) \in Intervals
           /\ Current(WithCurrent(s, c)) = c
           /\ \A i \in 1..Len(s.intervals) : WithCurrent(s, c).intervals[i] =
                    IF i = Len(s.intervals) THEN c ELSE s.intervals[i]
<1> DEFINE q == s.intervals
           r == [q EXCEPT ![Len(q)] = c]
<1>1. q \in Seq(Intervals) /\ q # <<>>
  BY DEF SessionStates
<1>2. Len(q) \in Nat \ {0}
  BY <1>1
<1>3. r \in Seq(Intervals) /\ Len(r) = Len(q)
  BY <1>1, <1>2
<1>4. \A i \in 1..Len(q) : r[i] = IF i = Len(q) THEN c ELSE q[i]
  BY <1>1, <1>2
<1>5. WithCurrent(s, c) = [s EXCEPT !.intervals = r]
  BY DEF WithCurrent, ReplaceAt
<1>6. WithCurrent(s, c).intervals = r
  BY <1>5 DEF SessionStates
<1>7. WithCurrent(s, c) \in SessionStates /\ SameFocus(s, WithCurrent(s, c))
  <2> HIDE DEF r
  <2> QED
    BY <1>3, <1>5 DEF SessionStates, SameFocus
<1> QED
  BY <1>1, <1>2, <1>3, <1>4, <1>6, <1>7 DEF Current, Last
-----------------------------------------------------------------------------
\* closeCurrent leaves no access open and changes nothing but an open end.
LEMMA CloseCurrentEffect ==
    ASSUME NEW s \in SessionStates, TrailOrdered(s), NEW at \in Nat
    PROVE  LET t == CloseCurrent(s, at)
           IN  /\ t \in SessionStates
               /\ TrailOrdered(t)
               /\ ~HasOpen(t)
               /\ SameFocus(s, t)
               /\ KeepsHistory(s, t)
               /\ Len(t.intervals) = Len(s.intervals)
               /\ s.intervals = <<>> <=> t.intervals = <<>>
               /\ s.intervals # <<>> => Current(t).path = Current(s).path
<1> DEFINE t == CloseCurrent(s, at)
<1>0. Len(s.intervals) \in Nat /\ \A i \in 1..Len(s.intervals) : s.intervals[i] \in Intervals
  BY DEF SessionStates
<1>1. CASE ~HasOpen(s)
  <2>1. t = s
    BY <1>1 DEF CloseCurrent
  <2> QED
    BY <1>0, <1>1, <2>1 DEF SameFocus, KeepsHistory, Starts
<1>2. CASE HasOpen(s)
  <2> DEFINE n == Len(s.intervals)
             c == CloseInterval(Current(s), at)
  <2>1. s.intervals # <<>> /\ n \in Nat \ {0} /\ Current(s) \in Intervals
        /\ Current(s) = s.intervals[n] /\ Current(s).endedAt = NoTime
    BY <1>2 DEF HasOpen, SessionStates, Current, Last
  <2>2. c \in Intervals /\ SameAccess(Current(s), c) /\ c.endedAt # NoTime /\ CappedInterval(c)
    BY <2>1, CloseIntervalEffect
  <2>3. t = WithCurrent(s, c)
    BY <1>2 DEF CloseCurrent
  <2> HIDE DEF t, c
  <2>4. /\ t \in SessionStates /\ SameFocus(s, t) /\ Len(t.intervals) = n /\ Current(t) = c
        /\ \A i \in 1..n : t.intervals[i] = IF i = n THEN c ELSE s.intervals[i]
    BY <2>1, <2>2, <2>3, WithCurrentEffect
  <2>5. TrailOrdered(t)
    <3>1. \A i \in 1..n : SameAccess(s.intervals[i], t.intervals[i])
      BY <2>1, <2>2, <2>4 DEF SameAccess
    <3>2. \A i \in 1..n : CappedInterval(t.intervals[i])
      BY <2>2, <2>4 DEF TrailOrdered
    <3>3. \A i \in 1..n : i < n => t.intervals[i].endedAt # NoTime
      BY <2>4 DEF TrailOrdered
    <3>4. \A i \in 1..n : i < n => Starts(t, i) <= Starts(t, i + 1)
      BY <2>1, <3>1 DEF TrailOrdered, SameAccess, Starts
    <3> QED
      BY <2>4, <3>1, <3>2, <3>3, <3>4 DEF TrailOrdered, SameAccess, SameFocus, Starts
  <2>6. KeepsHistory(s, t)
    BY <1>0, <2>1, <2>2, <2>4 DEF KeepsHistory, SameAccess, Starts
  <2>7. t.intervals # <<>>
    BY <2>1, <2>4
  <2>8. ~HasOpen(t)
    BY <2>2, <2>4, <2>7 DEF HasOpen
  <2> QED
    BY <2>1, <2>2, <2>4, <2>5, <2>6, <2>7, <2>8 DEF SameAccess, t
<1> QED
  BY <1>1, <1>2

\* Another last access with the same place, start and end leaves the trail in order.
LEMMA ReplaceCurrentEffect ==
    ASSUME NEW s \in SessionStates, TrailOrdered(s), s.intervals # <<>>, NEW c \in Intervals,
           c.sequence = Current(s).sequence,
           c.startedAt = Current(s).startedAt,
           c.endedAt = Current(s).endedAt
    PROVE  LET t == WithCurrent(s, c)
           IN  /\ t \in SessionStates
               /\ TrailOrdered(t)
               /\ SameFocus(s, t)
               /\ KeepsHistory(s, t)
               /\ HasOpen(s) <=> HasOpen(t)
               /\ t.intervals # <<>>
               /\ Current(t) = c
<1> DEFINE t == WithCurrent(s, c)
           n == Len(s.intervals)
<1>1. /\ t \in SessionStates /\ SameFocus(s, t) /\ Current(t) = c
      /\ n \in Nat \ {0}
  BY WithCurrentEffect
<1>2. Len(t.intervals) = n
  BY WithCurrentEffect
<1>3. \A i \in 1..n :
          /\ t.intervals[i].sequence = s.intervals[i].sequence
          /\ t.intervals[i].startedAt = s.intervals[i].startedAt
          /\ t.intervals[i].endedAt = s.intervals[i].endedAt
          /\ i < n => t.intervals[i].path = s.intervals[i].path
  <2>1. \A i \in 1..n : t.intervals[i] = IF i = n THEN c ELSE s.intervals[i]
    BY WithCurrentEffect
  <2> HIDE DEF t
  <2> QED
    BY <2>1 DEF Current, Last
<1> HIDE DEF t
<1>4. TrailOrdered(t)
  <2>1. \A i \in 1..n : CappedInterval(t.intervals[i])
    BY <1>3 DEF TrailOrdered, CappedInterval
  <2>2. \A i \in 1..n : i < n => t.intervals[i].endedAt # NoTime
    BY <1>3 DEF TrailOrdered
  <2>3. \A i \in 1..n : i < n => Starts(t, i) <= Starts(t, i + 1)
    BY <1>1, <1>3 DEF TrailOrdered, Starts
  <2> QED
    BY <1>1, <1>2, <1>3, <2>1, <2>2, <2>3 DEF TrailOrdered, SameFocus, Starts
<1>5. KeepsHistory(s, t)
  BY <1>1, <1>2, <1>3 DEF KeepsHistory, Starts
<1>6. t.intervals # <<>>
  BY <1>1, <1>2
<1>7. HasOpen(s) <=> HasOpen(t)
  BY <1>1, <1>6 DEF HasOpen
<1> QED
  BY <1>1, <1>4, <1>5, <1>6, <1>7 DEF t

\* Following a rename moves the focus and the last access together.
LEMMA FollowRenameEffect ==
    ASSUME NEW s \in SessionStates, TrailOrdered(s), FocusMatchesTrail(s), NEW e \in Events
    PROVE  LET r == FollowRename(s, e)
           IN  /\ r \in SessionStates
               /\ TrailOrdered(r)
               /\ FocusMatchesTrail(r)
               /\ KeepsHistory(s, r)
               /\ r.stoppedAt = s.stoppedAt
               /\ r.paused = s.paused
               /\ r.currentPriority = s.currentPriority
               /\ r.currentTimestamp = s.currentTimestamp
<1> DEFINE r == FollowRename(s, e)
<1>0. /\ Len(s.intervals) \in Nat
      /\ KeepsHistory(s, s)
  BY DEF SessionStates, KeepsHistory
<1>1. CASE ~CarriesFocus(s, e)
  BY <1>0, <1>1 DEF FollowRename
<1>2. CASE CarriesFocus(s, e) /\ s.intervals = <<>>
  <2>1. r = [s EXCEPT !.activePath = e.path]
    BY <1>2 DEF FollowRename, Relabel
  <2>2. r \in SessionStates
    BY <2>1 DEF SessionStates, Events
  <2> QED
    BY <1>0, <1>2, <2>1, <2>2
       DEF SessionStates, TrailOrdered, FocusMatchesTrail, KeepsHistory, HasOpen, Ignores, Starts
<1>3. CASE CarriesFocus(s, e) /\ s.intervals # <<>>
  <2> DEFINE c == [Current(s) EXCEPT !.path = e.path]
             w == WithCurrent(s, c)
  <2>1. Current(s) \in Intervals /\ e.path \in Paths
    BY <1>3 DEF Current, Last, SessionStates, Events, CarriesFocus
  <2>2. /\ c \in Intervals /\ c.sequence = Current(s).sequence /\ c.path = e.path
        /\ c.startedAt = Current(s).startedAt /\ c.endedAt = Current(s).endedAt
    BY <2>1 DEF Intervals
  <2>3. r = [w EXCEPT !.activePath = e.path]
    BY <1>3 DEF FollowRename, Relabel
  <2> HIDE DEF c, w
  <2>4. /\ w \in SessionStates /\ TrailOrdered(w) /\ SameFocus(s, w) /\ KeepsHistory(s, w)
        /\ w.intervals # <<>> /\ Current(w) = c /\ (HasOpen(s) <=> HasOpen(w))
    BY <1>3, <2>2, ReplaceCurrentEffect DEF w
  <2>5. /\ r \in SessionStates /\ r.intervals = w.intervals /\ r.activePath = e.path
        /\ r.stoppedAt = w.stoppedAt /\ r.paused = w.paused
        /\ r.currentPriority = w.currentPriority /\ r.currentTimestamp = w.currentTimestamp
    BY <2>1, <2>3, <2>4 DEF SessionStates
  <2> HIDE DEF r
  <2>6. FocusMatchesTrail(r)
    BY <2>2, <2>4, <2>5 DEF FocusMatchesTrail, SameFocus, Ignores, HasOpen, Current
  <2>7. TrailOrdered(r) /\ KeepsHistory(s, r)
    BY <2>4, <2>5 DEF TrailOrdered, KeepsHistory, Starts
  <2> QED
    BY <2>4, <2>5, <2>6, <2>7 DEF SameFocus, r
<1> QED
  BY <1>1, <1>2, <1>3

\* Every event has a rank.
LEMMA PriorityIsNat ==
    ASSUME NEW e \in Events
    PROVE  Priority(e) \in Nat
BY DEF Priority, EvidenceRank, OperationRank

\* Appending an access that starts now to a trail without an open access.
LEMMA OpenAccessEffect ==
    ASSUME NEW s \in SessionStates, TrailOrdered(s), ~HasOpen(s), NEW e \in Events,
           e.path # NoPath, s.currentTimestamp = e.ts
    PROVE  LET t == OpenAccess(s, e)
           IN  /\ t \in SessionStates
               /\ TrailOrdered(t)
               /\ SameFocus(s, t)
               /\ KeepsHistory(s, t)
               /\ t.intervals # <<>>
               /\ Current(t).path = e.path
<1> DEFINE t == OpenAccess(s, e)
           n == Len(s.intervals)
           c == NewInterval(n + 1, e)
<1>1. n \in Nat /\ s.intervals \in Seq(Intervals)
  BY DEF SessionStates
<1>2. /\ c \in Intervals /\ c.sequence = n + 1 /\ c.path = e.path
      /\ c.startedAt = e.ts /\ c.endedAt = NoTime
  BY <1>1 DEF NewInterval, Intervals, Events
<1>3. t = [s EXCEPT !.intervals = Append(s.intervals, c)]
  BY DEF OpenAccess
<1> HIDE DEF c
<1>4. t.intervals = Append(s.intervals, c)
  BY <1>3 DEF SessionStates
<1>5. /\ Len(t.intervals) = n + 1
      /\ t.intervals[n + 1] = c
      /\ \A i \in 1..n : t.intervals[i] = s.intervals[i]
      /\ Append(s.intervals, c) \in Seq(Intervals)
  BY <1>1, <1>2, <1>4
<1>6. t \in SessionStates /\ SameFocus(s, t)
  BY <1>3, <1>5 DEF SessionStates, SameFocus
<1> HIDE DEF t
<1>7. KeepsHistory(s, t)
  BY <1>1, <1>5 DEF KeepsHistory, Starts
<1>8. n > 0 => s.intervals[n].endedAt # NoTime
  BY <1>1 DEF HasOpen, Current, Last
<1>9. s.currentTimestamp \in Nat
  BY SessionAssumption DEF SessionStates
<1>10. TrailOrdered(t)
  <2> SUFFICES ASSUME NEW i \in 1..(n + 1)
               PROVE  /\ t.intervals[i].sequence = i
                      /\ CappedInterval(t.intervals[i])
                      /\ i < n + 1 => /\ t.intervals[i].endedAt # NoTime
                                      /\ Starts(t, i) <= Starts(t, i + 1)
                      /\ Starts(t, i) <= t.currentTimestamp
    BY <1>5 DEF TrailOrdered
  <2>1. CASE i = n + 1
    BY <1>2, <1>5, <1>6, <1>9, <2>1 DEF CappedInterval, Starts, SameFocus
  <2>2. CASE i < n
    <3>1. i \in 1..n /\ i + 1 \in 1..n
      BY <1>1, <2>2
    <3>2. t.intervals[i] = s.intervals[i] /\ t.intervals[i + 1] = s.intervals[i + 1]
      BY <1>5, <3>1
    <3>3. Starts(t, i) = Starts(s, i) /\ Starts(t, i + 1) = Starts(s, i + 1)
      BY <3>2 DEF Starts
    <3> QED
      BY <1>6, <2>2, <3>1, <3>2, <3>3 DEF TrailOrdered, SameFocus
  <2>3. CASE i = n
    <3>1. i \in 1..n /\ n > 0 /\ t.intervals[i] = s.intervals[i] /\ t.intervals[i + 1] = c
      BY <1>1, <1>5, <2>3
    <3>2. Starts(s, i) <= s.currentTimestamp /\ t.currentTimestamp = s.currentTimestamp
      BY <1>6, <3>1 DEF TrailOrdered, SameFocus
    <3>3. Starts(t, i) = Starts(s, i) /\ Starts(t, i + 1) = e.ts
      BY <1>2, <3>1 DEF Starts
    <3>4. s.intervals[i].sequence = i /\ CappedInterval(s.intervals[i])
      BY <3>1 DEF TrailOrdered
    <3> QED
      BY <1>8, <2>3, <3>1, <3>2, <3>3, <3>4
  <2> QED
    BY <1>1, <2>1, <2>2, <2>3
<1>11. t.intervals # <<>> /\ Current(t) = c
  BY <1>1, <1>5 DEF Current, Last
<1> QED
  BY <1>2, <1>6, <1>7, <1>10, <1>11 DEF t

\* History kept by two steps is kept by both.
LEMMA HistoryIsTransitive ==
    ASSUME NEW s \in SessionStates, NEW t \in SessionStates, NEW u \in SessionStates,
           KeepsHistory(s, t), KeepsHistory(t, u)
    PROVE  KeepsHistory(s, u)
<1>1. Len(s.intervals) \in Nat /\ Len(t.intervals) \in Nat /\ Len(u.intervals) \in Nat
  BY DEF SessionStates
<1>2. Len(s.intervals) <= Len(t.intervals) /\ Len(t.intervals) <= Len(u.intervals)
  BY DEF KeepsHistory
<1>3. \A i \in 1..Len(s.intervals) : i \in 1..Len(t.intervals)
  BY <1>1, <1>2
<1>4. \A i \in 1..Len(s.intervals) : i < Len(s.intervals) => i < Len(t.intervals)
  BY <1>1, <1>2
<1> QED
  BY <1>1, <1>2, <1>3, <1>4 DEF KeepsHistory

\* Moving the focus to an instant not before its own keeps the trail in order.
\* Touch moves the focus time forward and leaves the trail alone.
LEMMA TouchEffect ==
    ASSUME NEW s \in SessionStates, TrailOrdered(s), NEW e \in Events, ~Late(s, e)
    PROVE  LET t == Touch(s, e)
           IN  /\ t \in SessionStates
               /\ TrailOrdered(t)
               /\ t.intervals = s.intervals
               /\ t.stoppedAt = s.stoppedAt
               /\ t.paused = s.paused
               /\ t.activePath = s.activePath
               /\ t.currentPriority = Priority(e)
               /\ t.currentTimestamp = e.ts
<1> DEFINE t == Touch(s, e)
<1>1. e.ts \in Times /\ e.ts \in Nat /\ s.currentTimestamp \in Nat /\ e.ts >= s.currentTimestamp
  <2>1. e.ts \in Times /\ s.currentTimestamp \in Times
    BY DEF Events, SessionStates
  <2>2. e.ts \in Nat /\ s.currentTimestamp \in Nat
    BY <2>1, TimesAreNat
  <2>3. ~(e.ts < s.currentTimestamp)
    BY DEF Late
  <2> QED
    BY <2>1, <2>2, <2>3
<1>2. /\ t \in SessionStates /\ t.intervals = s.intervals /\ t.stoppedAt = s.stoppedAt
      /\ t.paused = s.paused /\ t.activePath = s.activePath
      /\ t.currentPriority = Priority(e) /\ t.currentTimestamp = e.ts
  BY <1>1, PriorityIsNat DEF Touch, SessionStates
<1> HIDE DEF t
<1>3. \A i \in 1..Len(s.intervals) : Starts(s, i) \in Nat
  <2>1. \A i \in 1..Len(s.intervals) : s.intervals[i] \in Intervals
    BY DEF SessionStates
  <2> QED
    BY <2>1, TimesAreNat DEF Starts, Intervals
<1>4. TrailOrdered(t)
  BY <1>1, <1>2, <1>3 DEF TrailOrdered, Starts
<1> QED
  BY <1>2, <1>4 DEF t

\* Giving the focus to an event, in its three cases: the active file is being
\* accessed already, its last access has ended, or another file was active.
LEMMA FocusEffect ==
    ASSUME NEW s \in SessionStates, TrailOrdered(s), FocusMatchesTrail(s), ~Ignores(s),
           NEW e \in Events, Focuses(e), ~Late(s, e)
    PROVE  LET t == Focus(s, e)
           IN  /\ t \in SessionStates
               /\ TrailOrdered(t)
               /\ FocusMatchesTrail(t)
               /\ KeepsHistory(s, t)
               /\ t.currentPriority = Priority(e)
               /\ t.currentTimestamp = e.ts
<1> DEFINE u == Touch(s, e)
<1>1. /\ u \in SessionStates /\ TrailOrdered(u) /\ u.intervals = s.intervals
      /\ u.stoppedAt = s.stoppedAt /\ u.paused = s.paused /\ u.activePath = s.activePath
      /\ u.currentPriority = Priority(e) /\ u.currentTimestamp = e.ts
  BY TouchEffect
<1>2. HasOpen(u) <=> HasOpen(s)
  BY <1>1 DEF HasOpen, Current
<1>3. e.path # NoPath /\ e.path \in Paths /\ e.ts \in Nat
  BY SessionAssumption DEF Focuses, Events
<1>4. KeepsHistory(s, u)
  <2>1. Len(s.intervals) \in Nat
    BY DEF SessionStates
  <2> QED
    BY <1>1, <2>1 DEF KeepsHistory, Starts
<1> HIDE DEF u
<1>5. CASE s.activePath = e.path /\ HasOpen(s)
  <2>1. Focus(s, e) = MergeAccess(u, e)
    BY <1>5 DEF Focus, u
  <2>2. CASE e.lines = NoLines
    <3>1. Focus(s, e) = u
      BY <2>1, <2>2 DEF MergeAccess
    <3>2. FocusMatchesTrail(u)
      BY <1>1, <1>5 DEF FocusMatchesTrail, Ignores, HasOpen, Current
    <3> QED
      BY <1>1, <1>4, <3>1, <3>2
  <2>3. CASE e.lines # NoLines
    <3> DEFINE c == [Current(u) EXCEPT !.lines = e.lines]
    <3>1. u.intervals # <<>> /\ Current(u) \in Intervals
      BY <1>1, <1>2, <1>5 DEF HasOpen, Current, Last, SessionStates
    <3>2. /\ c \in Intervals /\ c.sequence = Current(u).sequence /\ c.path = Current(u).path
          /\ c.startedAt = Current(u).startedAt /\ c.endedAt = Current(u).endedAt
      BY <3>1 DEF Intervals, Events
    <3>3. Focus(s, e) = WithCurrent(u, c)
      BY <2>1, <2>3 DEF MergeAccess
    <3> HIDE DEF c
    <3> DEFINE t == WithCurrent(u, c)
    <3>4. /\ t \in SessionStates /\ TrailOrdered(t) /\ SameFocus(u, t) /\ KeepsHistory(u, t)
          /\ t.intervals # <<>> /\ Current(t) = c /\ (HasOpen(u) <=> HasOpen(t))
      BY <1>1, <3>1, <3>2, ReplaceCurrentEffect
    <3> HIDE DEF t
    <3>5. FocusMatchesTrail(t)
      BY <1>1, <1>2, <1>5, <3>1, <3>2, <3>4
         DEF FocusMatchesTrail, SameFocus, Ignores, Current
    <3>6. KeepsHistory(s, t)
      BY <1>1, <1>4, <3>4, HistoryIsTransitive
    <3> QED
      BY <1>1, <3>3, <3>4, <3>5, <3>6 DEF SameFocus, t
  <2> QED
    BY <2>2, <2>3
<1>6. CASE s.activePath = e.path /\ ~HasOpen(s)
  <2> DEFINE t == OpenAccess(u, e)
  <2>1. Focus(s, e) = t
    BY <1>6 DEF Focus, u
  <2>2. /\ t \in SessionStates /\ TrailOrdered(t) /\ SameFocus(u, t) /\ KeepsHistory(u, t)
        /\ t.intervals # <<>> /\ Current(t).path = e.path
    BY <1>1, <1>2, <1>3, <1>6, OpenAccessEffect
  <2> HIDE DEF t
  <2>3. FocusMatchesTrail(t)
    BY <1>1, <1>6, <2>2 DEF FocusMatchesTrail, SameFocus, Ignores
  <2>4. KeepsHistory(s, t)
    BY <1>1, <1>4, <2>2, HistoryIsTransitive
  <2> QED
    BY <1>1, <2>1, <2>2, <2>3, <2>4 DEF SameFocus
<1>7. CASE s.activePath # e.path
  <2> DEFINE v == CloseCurrent(u, e.ts)
             w == SwitchFocus(u, e)
             t == OpenAccess(w, e)
  <2>1. Focus(s, e) = t
    BY <1>7 DEF Focus, u
  <2>2. /\ v \in SessionStates /\ TrailOrdered(v) /\ ~HasOpen(v) /\ SameFocus(u, v)
        /\ KeepsHistory(u, v)
    BY <1>1, <1>3, CloseCurrentEffect
  <2>3. w = [v EXCEPT !.previousPath = u.activePath, !.activePath = e.path]
    BY DEF SwitchFocus
  <2> HIDE DEF v, w
  <2>4. /\ w \in SessionStates /\ w.intervals = v.intervals /\ w.activePath = e.path
        /\ w.stoppedAt = v.stoppedAt /\ w.paused = v.paused
        /\ w.currentPriority = v.currentPriority /\ w.currentTimestamp = v.currentTimestamp
    BY <1>1, <1>3, <2>2, <2>3 DEF SessionStates
  <2>5. TrailOrdered(w) /\ ~HasOpen(w) /\ KeepsHistory(u, w)
    BY <2>2, <2>4 DEF TrailOrdered, HasOpen, Current, KeepsHistory, Starts
  <2>6. /\ t \in SessionStates /\ TrailOrdered(t) /\ SameFocus(w, t) /\ KeepsHistory(w, t)
        /\ t.intervals # <<>> /\ Current(t).path = e.path
    <3>1. w.currentTimestamp = e.ts
      BY <1>1, <2>2, <2>4 DEF SameFocus
    <3> QED
      BY <1>3, <2>4, <2>5, <3>1, OpenAccessEffect
  <2> HIDE DEF t
  <2>7. FocusMatchesTrail(t)
    BY <1>1, <2>2, <2>4, <2>6 DEF FocusMatchesTrail, SameFocus, Ignores
  <2>8. KeepsHistory(s, t)
    BY <1>1, <1>4, <2>4, <2>5, <2>6, HistoryIsTransitive
  <2> QED
    BY <1>1, <2>1, <2>2, <2>4, <2>6, <2>7, <2>8 DEF SameFocus
<1> QED
  BY <1>5, <1>6, <1>7

\* One call of Apply on an existing session.
LEMMA ApplyEventEffect ==
    ASSUME NEW s \in SessionStates, TrailOrdered(s), FocusMatchesTrail(s), NEW e \in Events
    PROVE  LET t == ApplyEvent(s, e)
           IN  /\ t \in SessionStates
               /\ TrailOrdered(t)
               /\ FocusMatchesTrail(t)
               /\ KeepsHistory(s, t)
               /\ KeepsRank(s, t)
<1> DEFINE r == FollowRename(s, e)
<1>0. /\ Len(s.intervals) \in Nat /\ s.currentPriority \in Nat
      /\ s.currentTimestamp \in Nat /\ e.ts \in Nat /\ e.ts \in Times
  <2>1. s.currentTimestamp \in Times /\ e.ts \in Times
    BY DEF SessionStates, Events
  <2>2. Len(s.intervals) \in Nat /\ s.currentPriority \in Nat
    BY DEF SessionStates
  <2> QED
    BY <2>1, <2>2, TimesAreNat
<1>1. KeepsHistory(s, s) /\ KeepsRank(s, s)
  BY <1>0 DEF KeepsHistory, KeepsRank
<1>2. CASE Late(s, e)
  BY <1>1, <1>2 DEF ApplyEvent
<1>3. CASE ~Late(s, e) /\ e.type = "session_stopped"
  <2> DEFINE v == CloseCurrent(s, e.ts)
             t == StopSession(s, e.ts)
  <2>1. ApplyEvent(s, e) = t
    BY <1>3 DEF ApplyEvent
  <2>2. /\ v \in SessionStates /\ TrailOrdered(v) /\ ~HasOpen(v) /\ SameFocus(s, v)
        /\ KeepsHistory(s, v) /\ (s.intervals = <<>> <=> v.intervals = <<>>)
        /\ (s.intervals # <<>> => Current(v).path = Current(s).path)
    BY <1>0, CloseCurrentEffect
  <2>3. t = [v EXCEPT !.stoppedAt = e.ts]
    BY DEF StopSession
  <2> HIDE DEF v, t
  <2>4. /\ t \in SessionStates /\ t.intervals = v.intervals /\ t.activePath = v.activePath
        /\ t.currentPriority = v.currentPriority /\ t.currentTimestamp = v.currentTimestamp
    BY <1>0, <2>2, <2>3 DEF SessionStates
  <2>5. TrailOrdered(t) /\ KeepsHistory(s, t)
    BY <2>2, <2>4 DEF TrailOrdered, KeepsHistory, Starts
  <2>6. FocusMatchesTrail(t) /\ KeepsRank(s, t)
    BY <1>0, <2>2, <2>4 DEF FocusMatchesTrail, SameFocus, HasOpen, Current, KeepsRank
  <2> QED
    BY <2>1, <2>4, <2>5, <2>6
<1>4. CASE ~Late(s, e) /\ e.type # "session_stopped" /\ Ignores(s)
  BY <1>1, <1>4 DEF ApplyEvent
<1>5. CASE ~Late(s, e) /\ e.type # "session_stopped" /\ ~Ignores(s)
  <2>1. /\ r \in SessionStates /\ TrailOrdered(r) /\ FocusMatchesTrail(r) /\ KeepsHistory(s, r)
        /\ r.stoppedAt = s.stoppedAt /\ r.paused = s.paused
        /\ r.currentPriority = s.currentPriority /\ r.currentTimestamp = s.currentTimestamp
    BY FollowRenameEffect
  <2>2. ApplyEvent(s, e) = IF Focuses(e) /\ ~Outranked(r, e) THEN Focus(r, e) ELSE r
    BY <1>5 DEF ApplyEvent
  <2> HIDE DEF r
  <2>3. CASE Focuses(e) /\ ~Outranked(r, e)
    <3> DEFINE t == Focus(r, e)
    <3>1. ~Ignores(r) /\ ~Late(r, e)
      BY <1>5, <2>1 DEF Ignores, Late
    <3>2. /\ t \in SessionStates /\ TrailOrdered(t) /\ FocusMatchesTrail(t)
          /\ KeepsHistory(r, t)
          /\ t.currentPriority = Priority(e) /\ t.currentTimestamp = e.ts
      BY <2>1, <2>3, <3>1, FocusEffect
    <3> HIDE DEF t
    <3>3. KeepsHistory(s, t)
      BY <2>1, <3>2, HistoryIsTransitive
    <3>4. KeepsRank(s, t)
      BY <1>0, <1>5, <2>1, <2>3, <3>2, PriorityIsNat DEF KeepsRank, Outranked, Late
    <3> QED
      BY <2>2, <2>3, <3>2, <3>3, <3>4 DEF t
  <2>4. CASE ~(Focuses(e) /\ ~Outranked(r, e))
    BY <1>0, <2>1, <2>2, <2>4 DEF KeepsRank
  <2> QED
    BY <2>3, <2>4
<1> QED
  BY <1>2, <1>3, <1>4, <1>5

LEMMA PauseEffect ==
    ASSUME NEW s \in SessionStates, TrailOrdered(s), FocusMatchesTrail(s), NEW at \in Times
    PROVE  LET t == PauseSession(s, at)
           IN  /\ t \in SessionStates
               /\ TrailOrdered(t)
               /\ FocusMatchesTrail(t)
               /\ KeepsHistory(s, t)
               /\ KeepsRank(s, t)
<1> DEFINE v == CloseCurrent(s, at)
           t == PauseSession(s, at)
<1>1. at \in Nat /\ s.currentPriority \in Nat /\ s.currentTimestamp \in Nat
  BY TimesAreNat DEF SessionStates
<1>2. /\ v \in SessionStates /\ TrailOrdered(v) /\ ~HasOpen(v) /\ SameFocus(s, v)
      /\ KeepsHistory(s, v) /\ (s.intervals = <<>> <=> v.intervals = <<>>)
      /\ (s.intervals # <<>> => Current(v).path = Current(s).path)
  BY <1>1, CloseCurrentEffect
<1>3. t = [v EXCEPT !.paused = TRUE]
  BY DEF PauseSession
<1> HIDE DEF v, t
<1>4. /\ t \in SessionStates /\ t.intervals = v.intervals /\ t.activePath = v.activePath
      /\ t.currentPriority = v.currentPriority /\ t.currentTimestamp = v.currentTimestamp
  BY <1>2, <1>3 DEF SessionStates
<1>5. TrailOrdered(t) /\ KeepsHistory(s, t)
  BY <1>2, <1>4 DEF TrailOrdered, KeepsHistory, Starts
<1>6. FocusMatchesTrail(t) /\ KeepsRank(s, t)
  BY <1>1, <1>2, <1>4 DEF FocusMatchesTrail, SameFocus, HasOpen, Current, KeepsRank
<1> QED
  BY <1>4, <1>5, <1>6 DEF t

LEMMA AdvanceEffect ==
    ASSUME NEW s \in SessionStates, TrailOrdered(s), FocusMatchesTrail(s), NEW now \in Times
    PROVE  LET t == AdvanceSession(s, now)
           IN  /\ t \in SessionStates
               /\ TrailOrdered(t)
               /\ FocusMatchesTrail(t)
               /\ KeepsHistory(s, t)
               /\ KeepsRank(s, t)
<1> DEFINE at == Current(s).startedAt + IdleTimeout
           t == AdvanceSession(s, now)
<1>0. KeepsHistory(s, s) /\ KeepsRank(s, s)
  <2>1. s.currentTimestamp \in Times /\ s.currentPriority \in Nat /\ s.intervals \in Seq(Intervals)
    BY DEF SessionStates
  <2>2. s.currentTimestamp \in Nat
    BY <2>1, TimesAreNat
  <2>3. KeepsHistory(s, s)
    <3>1. Len(s.intervals) \in Nat
      BY <2>1
    <3> QED
      BY <3>1 DEF KeepsHistory
  <2>4. KeepsRank(s, s)
    BY <2>1, <2>2 DEF KeepsRank
  <2> QED
    BY <2>3, <2>4
<1>1. CASE t = s
  BY <1>0, <1>1
<1>2. CASE HasOpen(s) /\ t = CloseCurrent(s, at)
  <2>1. Current(s) \in Intervals
    BY <1>2 DEF HasOpen, Current, Last, SessionStates
  <2>2. at \in Nat
    <3>1. Current(s).startedAt \in Times
      BY <2>1 DEF Intervals
    <3>2. IdleTimeout \in Nat
      BY SessionAssumption
    <3>3. Current(s).startedAt \in Nat
      BY <3>1, TimesAreNat
    <3> QED
      BY <3>2, <3>3
  <2> HIDE DEF at, t
  <2>3. /\ t \in SessionStates /\ TrailOrdered(t) /\ ~HasOpen(t) /\ SameFocus(s, t)
        /\ KeepsHistory(s, t) /\ (s.intervals = <<>> <=> t.intervals = <<>>)
        /\ (s.intervals # <<>> => Current(t).path = Current(s).path)
    BY <1>2, <2>2, CloseCurrentEffect
  <2>4. FocusMatchesTrail(t) /\ KeepsRank(s, t)
    BY <1>0, <2>3 DEF FocusMatchesTrail, SameFocus, KeepsRank
  <2> QED
    BY <2>3, <2>4 DEF t
<1> QED
  BY <1>1, <1>2 DEF AdvanceSession

LEMMA ResumeEffect ==
    ASSUME NEW s \in SessionStates, TrailOrdered(s), FocusMatchesTrail(s)
    PROVE  LET t == [s EXCEPT !.paused = FALSE]
           IN  /\ t \in SessionStates
               /\ TrailOrdered(t)
               /\ FocusMatchesTrail(t)
               /\ KeepsHistory(s, t)
               /\ KeepsRank(s, t)
<1> DEFINE t == [s EXCEPT !.paused = FALSE]
<1>1. /\ t \in SessionStates /\ t.intervals = s.intervals /\ t.activePath = s.activePath
      /\ t.stoppedAt = s.stoppedAt /\ t.paused = FALSE
      /\ t.currentPriority = s.currentPriority /\ t.currentTimestamp = s.currentTimestamp
  BY DEF SessionStates
<1>2. /\ Len(s.intervals) \in Nat /\ s.currentPriority \in Nat
  BY DEF SessionStates
<1> HIDE DEF t
<1>3. TrailOrdered(t) /\ KeepsHistory(s, t) /\ KeepsRank(s, t)
  BY <1>1, <1>2 DEF TrailOrdered, KeepsHistory, KeepsRank, Starts
<1>4. FocusMatchesTrail(t)
  BY <1>1 DEF FocusMatchesTrail, Ignores, HasOpen, Current
<1> QED
  BY <1>1, <1>3, <1>4 DEF t

LEMMA SetWorkEffect ==
    ASSUME NEW s \in SessionStates, TrailOrdered(s), FocusMatchesTrail(s),
           NEW sequence, NEW lines \in Lines \cup {NoLines}, NEW status \in Statuses
    PROVE  LET t == SetWork(s, sequence, lines, status)
           IN  /\ t \in SessionStates
               /\ TrailOrdered(t)
               /\ FocusMatchesTrail(t)
               /\ KeepsHistory(s, t)
               /\ KeepsRank(s, t)
<1> DEFINE n == Len(s.intervals)
           t == SetWork(s, sequence, lines, status)
           q == [i \in DOMAIN s.intervals |->
                    IF s.intervals[i].sequence = sequence
                    THEN [s.intervals[i] EXCEPT !.lines = lines, !.status = status]
                    ELSE s.intervals[i]]
<1>1. /\ n \in Nat /\ s.currentPriority \in Nat /\ DOMAIN s.intervals = 1..n
      /\ \A i \in 1..n : s.intervals[i] \in Intervals
  BY DEF SessionStates
<1>2. \A i \in 1..n :
          /\ q[i] \in Intervals
          /\ q[i].sequence = s.intervals[i].sequence
          /\ q[i].path = s.intervals[i].path
          /\ q[i].startedAt = s.intervals[i].startedAt
          /\ q[i].endedAt = s.intervals[i].endedAt
  <2> SUFFICES ASSUME NEW i \in 1..n
               PROVE  /\ q[i] \in Intervals
                      /\ q[i].sequence = s.intervals[i].sequence
                      /\ q[i].path = s.intervals[i].path
                      /\ q[i].startedAt = s.intervals[i].startedAt
                      /\ q[i].endedAt = s.intervals[i].endedAt
    OBVIOUS
  <2> DEFINE w == s.intervals[i]
             v == [w EXCEPT !.lines = lines, !.status = status]
  <2>1. w \in Intervals /\ q[i] = IF w.sequence = sequence THEN v ELSE w
    BY <1>1
  <2> HIDE DEF q, w
  <2>2. /\ v \in Intervals /\ v.sequence = w.sequence /\ v.path = w.path
        /\ v.startedAt = w.startedAt /\ v.endedAt = w.endedAt
    BY <2>1 DEF Intervals
  <2> HIDE DEF v
  <2> QED
    BY <2>1, <2>2 DEF w
<1>3. q \in Seq(Intervals) /\ Len(q) = n
  <2>1. q \in [1..n -> Intervals]
    BY <1>1, <1>2
  <2> HIDE DEF q
  <2>2. q \in Seq(Intervals)
    BY <1>1, <2>1
  <2> QED
    BY <1>1, <2>1, <2>2
<1>4. t = [s EXCEPT !.intervals = q]
  BY DEF SetWork
<1> HIDE DEF q
<1>5. /\ t \in SessionStates /\ t.intervals = q /\ t.activePath = s.activePath
      /\ t.stoppedAt = s.stoppedAt /\ t.paused = s.paused
      /\ t.currentPriority = s.currentPriority /\ t.currentTimestamp = s.currentTimestamp
  BY <1>3, <1>4 DEF SessionStates
<1> HIDE DEF t
<1>6. TrailOrdered(t)
  <2>1. \A i \in 1..n : CappedInterval(q[i])
    BY <1>2 DEF TrailOrdered, CappedInterval
  <2>2. \A i \in 1..n : i < n => q[i].endedAt # NoTime
    BY <1>2 DEF TrailOrdered
  <2>3. \A i \in 1..n : i < n => Starts(t, i) <= Starts(t, i + 1)
    BY <1>1, <1>2, <1>5, SMTT(30) DEF TrailOrdered, Starts
  <2> QED
    BY <1>2, <1>3, <1>5, <2>1, <2>2, <2>3 DEF TrailOrdered, Starts
<1>7. KeepsHistory(s, t) /\ KeepsRank(s, t)
  BY <1>1, <1>2, <1>3, <1>5 DEF KeepsHistory, KeepsRank, Starts
<1>8. s.intervals = <<>> <=> q = <<>>
  BY <1>1, <1>3 DEF SessionStates
<1>9. FocusMatchesTrail(t)
  BY <1>1, <1>2, <1>3, <1>5, <1>8 DEF FocusMatchesTrail, Ignores, HasOpen, Current, Last
<1> QED
  BY <1>5, <1>6, <1>7, <1>9 DEF t
-----------------------------------------------------------------------------
\* The first event of a session gives it an empty trail.
LEMMA StartEffect ==
    ASSUME NEW ts \in Times
    PROVE  /\ NewSession(ts) \in SessionStates
           /\ TrailOrdered(NewSession(ts))
           /\ FocusMatchesTrail(NewSession(ts))
BY DEF NewSession, SessionStates, TrailOrdered, FocusMatchesTrail, Ignores, HasOpen, NoTime
=============================================================================
