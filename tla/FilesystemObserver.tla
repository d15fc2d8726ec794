------------------------- MODULE FilesystemObserver -------------------------
(***************************************************************************)
(* The wrapper's filesystem fallback (internal/adapters/filesystem): a     *)
(* user changes files under the project root, the operating system        *)
(* notifies a goroutine that drains into a bounded queue, and the observer *)
(* coalesces the changes per path and reports them in batches.            *)
(*                                                                         *)
(* A file's content is its fingerprint, the size and modification time.   *)
(* Paths are the ones no ignore pattern matches; symlinks, attribute      *)
(* changes and renamed directories are left out.  Time is left out too: a *)
(* change may be old enough to be reported at any moment.                 *)
(***************************************************************************)
EXTENDS Naturals, Sequences, Functions, FiniteSets

CONSTANTS
  Files, Dirs,     \* the paths that may be files, and directories
  Parent,          \* the directory of each path, Root for the project root
  Root,
  Order,           \* every path once, in the order of sort.Strings
  Prints,          \* the fingerprints files may have
  Fresh,           \* the one a file gets when it is created or written
  StartDisk,       \* the files when the observer starts
  Staged,          \* renames in Git's index, pairs of old and new path
  QueueSize, MaxPending, BatchSize,
  MaxChanges,      \* bound: changes by the user
  MaxOverflows     \* bound: notifications lost by the operating system

Paths == Files \cup Dirs
Absent == "absent"
Directory == "directory"
Contents == Prints \cup {Absent, Directory}

ASSUME ObserverAssumption ==
  /\ Parent \in [Paths -> Dirs \cup {Root}] /\ Root \notin Paths
  /\ Fresh \in Prints /\ Prints \cap {Absent, Directory} = {}
  /\ StartDisk \in [Paths -> Contents]
  /\ \A p \in Paths : StartDisk[p] = Directory => p \in Dirs
  /\ Staged \subseteq Paths \X Paths
  /\ \A x, y \in Staged : x # y => {x[1], x[2]} \cap {y[1], y[2]} = {}
  /\ Order \in Seq(Paths) /\ \A p \in Paths : \E i \in DOMAIN Order : Order[i] = p
  /\ \A i, j \in DOMAIN Order : Order[i] = Order[j] => i = j
  /\ {QueueSize, MaxPending, BatchSize} \subseteq Nat \ {0}
  /\ MaxChanges \in Nat /\ MaxOverflows \in Nat

\* The paths in a directory, at any depth.
Inside ==
  [d \in Dirs |->
     {p \in Paths : \A S \in SUBSET Paths :
                      (\A q \in Paths : Parent[q] \in S \cup {d} => q \in S) => p \in S}]

VARIABLES
  disk,            \* the content of every path
  watched,         \* directories with an operating system watch
  changes,         \* changes made so far
  overflows,       \* notifications lost so far
  notes,           \* notifications not drained: operation and path
  errors,          \* source.Errors
  raw,             \* the queue between drainSource and the observer
  dropped,         \* the counter they share
  states,          \* the observer's last look at every path
  pending,         \* path |-> its coalesced change
  ctxDone,         \* the context is done
  stopped,         \* Observe has returned
  picture,         \* history: the paths that exist by the events reported
  silent,          \* history: paths that changed where nothing was watched, or whose
                   \* record changed with that of a directory they are in
  misled,          \* history: Git reported a rename that is not on the disk
  told             \* history: a record of dropped events was reported

userVars == <<disk, watched, changes, overflows, notes, errors>>
reportVars == <<states, pending, picture, misled, told, stopped>>
observerVars == <<userVars, silent, raw, dropped, ctxDone, reportVars>>

Change == [op : SUBSET {"create", "write", "remove", "rename"},
           before : Contents, after : Contents]

ObserverTypeOK ==
  /\ disk \in [Paths -> Contents] /\ states \in [Paths -> Contents]
  /\ watched \subseteq Dirs \cup {Root}
  /\ changes \in 0..MaxChanges /\ overflows \in 0..MaxOverflows
  /\ errors \in 0..overflows
  /\ Len(raw) <= QueueSize /\ dropped \in Nat
  /\ DOMAIN pending \subseteq Paths /\ Cardinality(DOMAIN pending) <= MaxPending
  /\ \A p \in DOMAIN pending : pending[p] \in Change
  /\ picture \subseteq Paths /\ silent \subseteq Paths
  /\ {ctxDone, stopped, misled, told} \subseteq BOOLEAN

Exists(p) == p \in {Root} \cup {q \in Paths : disk[q] # Absent}

(***************************************************************************)
(* The observer has walked the project and watches its directories.        *)
(***************************************************************************)
ObserverInit ==
  /\ disk = StartDisk /\ states = StartDisk
  /\ watched = {Root} \cup {d \in Dirs : StartDisk[d] = Directory}
  /\ changes = 0 /\ overflows = 0 /\ errors = 0 /\ dropped = 0
  /\ notes = <<>> /\ raw = <<>> /\ pending = <<>>
  /\ picture = {p \in Paths : StartDisk[p] # Absent}
  /\ silent = {} /\ misled = FALSE /\ told = FALSE
  /\ ctxDone = FALSE /\ stopped = FALSE

-----------------------------------------------------------------------------
(***************************************************************************)
(* The user, and the operating system that notifies of changes to the      *)
(* entries of watched directories, or loses notifications and says so.     *)
(***************************************************************************)
Heard(op, p) == IF Parent[p] \in watched THEN <<[op |-> op, path |-> p]>> ELSE <<>>

Notify(heard) ==
  \/ /\ notes' = notes \o heard
     /\ UNCHANGED <<overflows, errors>>
  \/ /\ heard # <<>> /\ overflows < MaxOverflows
     /\ overflows' = overflows + 1 /\ errors' = errors + 1
     /\ UNCHANGED notes

Changed(newDisk, changed, heard) ==
  /\ ~stopped /\ changes < MaxChanges
  /\ changes' = changes + 1
  /\ disk' = newDisk
  /\ Notify(heard)
  /\ silent' = silent \cup {p \in changed : Parent[p] \notin watched}
  /\ UNCHANGED <<raw, dropped, ctxDone, reportVars>>

CreateFile(p) ==
  /\ disk[p] = Absent /\ Exists(Parent[p])
  /\ Changed([disk EXCEPT ![p] = Fresh], {p}, Heard("create", p))
  /\ UNCHANGED watched

WriteFile(p) ==
  /\ disk[p] \in Prints
  /\ Changed([disk EXCEPT ![p] = Fresh], {p}, Heard("write", p))
  /\ UNCHANGED watched

RemoveFile(p) ==
  /\ disk[p] \in Prints
  /\ Changed([disk EXCEPT ![p] = Absent], {p}, Heard("remove", p))
  /\ UNCHANGED watched

\* Moved within the project, over another file perhaps.
MoveFile(p, q) ==
  /\ p # q /\ disk[p] \in Prints /\ disk[q] # Directory /\ Exists(Parent[q])
  /\ Changed([disk EXCEPT ![p] = Absent, ![q] = disk[p]], {p, q},
             Heard("rename", p) \o Heard("create", q))
  /\ UNCHANGED watched

MoveFileOut(p) ==
  /\ disk[p] \in Prints
  /\ Changed([disk EXCEPT ![p] = Absent], {p}, Heard("rename", p))
  /\ UNCHANGED watched

MakeDir(d) ==
  /\ disk[d] = Absent /\ Exists(Parent[d])
  /\ Changed([disk EXCEPT ![d] = Directory], {d}, Heard("create", d))
  /\ UNCHANGED watched

\* The watch of a directory goes with it.
RemoveDir(d) ==
  /\ disk[d] = Directory /\ \A p \in Inside[d] : disk[p] = Absent
  /\ Changed([disk EXCEPT ![d] = Absent], {d}, Heard("remove", d))
  /\ watched' = watched \ {d}

UserChanges ==
  \/ \E p \in Files : CreateFile(p) \/ WriteFile(p) \/ RemoveFile(p) \/ MoveFileOut(p)
  \/ \E p, q \in Files : MoveFile(p, q)
  \/ \E d \in Dirs : MakeDir(d) \/ RemoveDir(d)
-----------------------------------------------------------------------------
(***************************************************************************)
(* drainSource: a goroutine that never waits for the observer.             *)
(***************************************************************************)
DrainError ==
  /\ ~stopped /\ errors > 0
  /\ errors' = errors - 1
  /\ dropped' = dropped + 1
  /\ UNCHANGED <<disk, watched, changes, overflows, notes, silent, raw, ctxDone, reportVars>>

Drain ==
  /\ ~stopped /\ notes # <<>>
  /\ notes' = Tail(notes)
  /\ \/ /\ Len(raw) < QueueSize
        /\ raw' = Append(raw, Head(notes))
        /\ UNCHANGED dropped
     \/ /\ Len(raw) >= QueueSize
        /\ dropped' = dropped + 1
        /\ UNCHANGED raw
  /\ UNCHANGED <<disk, watched, changes, overflows, errors, silent, ctxDone, reportVars>>
-----------------------------------------------------------------------------
(***************************************************************************)
(* acceptChange looks at the disk as it is now, not as it was when the     *)
(* notification was sent, and records what it sees before it asks whether  *)
(* there is room for a pending change.                                     *)
(***************************************************************************)

\* watchTree of a new directory: what is in it is recorded and watched.
Walked(n) == IF n.op = "create" /\ disk[n.path] = Directory
             THEN {p \in Inside[n.path] : disk[p] # Absent}
             ELSE {}

NewlyWatched(n) == {d \in {n.path} \cup Walked(n) : n.op = "create" /\ disk[d] = Directory}

\* deleteStateTree: with a directory goes the record of what was in it.
Forgotten(n) == IF states[n.path] = Directory /\ disk[n.path] = Absent
                THEN {p \in Inside[n.path] : states[p] # Absent}
                ELSE {}

Looked(n, walked) ==
  [p \in Paths |->
     IF p = n.path \/ p \in walked THEN disk[p]
     ELSE IF p \in Forgotten(n) THEN Absent
     ELSE states[p]]

\* A walk that fails records nothing and leaves the watches it has set.
Walks(n) ==
  \/ /\ states' = Looked(n, Walked(n))
     /\ watched' = watched \cup NewlyWatched(n)
  \/ /\ NewlyWatched(n) # {}
     /\ states' = Looked(n, {})
     /\ \E some \in SUBSET NewlyWatched(n) : watched' = watched \cup some

\* The change of a path, from the last look before it to this one.
Seen(n) == IF n.path \in DOMAIN pending
           THEN pending[n.path]
           ELSE [op |-> {}, before |-> states[n.path], after |-> disk[n.path]]

\* Fault: only the first look at a path is kept.
CoalescedOnce(n) ==
  [p \in DOMAIN pending \cup {n.path} |->
     IF p = n.path THEN [Seen(n) EXCEPT !.op = @ \cup {n.op}] ELSE pending[p]]

Coalesced(n) ==
  [p \in DOMAIN pending \cup {n.path} |->
     IF p = n.path THEN [Seen(n) EXCEPT !.op = @ \cup {n.op}, !.after = disk[p]] ELSE pending[p]]

\* Fault: the pending map has no limit.
NeverFull(p) == FALSE

Full(p) == p \notin DOMAIN pending /\ Cardinality(DOMAIN pending) >= MaxPending

AcceptChange ==
  /\ ~stopped /\ raw # <<>>
  /\ raw' = Tail(raw)
  /\ LET n == Head(raw)
     IN  /\ Walks(n)
         /\ silent' = silent \cup Walked(n) \cup Forgotten(n)
         /\ pending' = IF Full(n.path) THEN pending ELSE Coalesced(n)
         /\ dropped' = IF Full(n.path) THEN dropped + 1 ELSE dropped
  /\ UNCHANGED <<disk, changes, overflows, notes, errors, ctxDone,
                 picture, misled, told, stopped>>
-----------------------------------------------------------------------------
(***************************************************************************)
(* readyChanges: creations, removals and renames are held back together,   *)
(* so that a rename's two halves meet in a batch; of what is ready, the    *)
(* first BatchSize paths are taken.                                        *)
(***************************************************************************)
NeedsRenameWindow(c) ==
  \/ c.op \cap {"rename", "remove"} # {}
  \/ "create" \in c.op /\ c.before = Absent

Windowed == {p \in DOMAIN pending : NeedsRenameWindow(pending[p])}

ReadySets == {r \in SUBSET DOMAIN pending : Windowed \subseteq r \/ Windowed \cap r = {}}

\* The paths sorted before each.
Before ==
  [p \in Paths |->
     {q \in Paths : \E i, j \in DOMAIN Order : i < j /\ Order[i] = q /\ Order[j] = p}]

Batch(ready) == {p \in ready : Cardinality(ready \cap Before[p]) < BatchSize}

(***************************************************************************)
(* correlateRenames: Git's renames first, whatever they say of the disk;   *)
(* then, in path order, a file renamed away and the only creation left     *)
(* with its fingerprint.                                                   *)
(***************************************************************************)
Consumed(pairs) == {pair[1] : pair \in pairs} \cup {pair[2] : pair \in pairs}

Candidates(old, batch, pairs) ==
  {p \in batch \ Consumed(pairs) :
     /\ "create" \in pending[p].op /\ pending[p].after # Absent
     /\ pending[p].after = pending[old].before}

Correlate(old, batch, pairs) ==
  IF /\ old \in batch \ Consumed(pairs)
     /\ "rename" \in pending[old].op /\ pending[old].after = Absent
     /\ pending[old].before # Directory
     /\ Cardinality(Candidates(old, batch, pairs)) = 1
  THEN pairs \cup {<<old, p>> : p \in Candidates(old, batch, pairs)}
  ELSE pairs

GitRenames(batch, evidence) == {pair \in evidence : pair[1] \in batch /\ pair[2] \in batch}

CorrelateRenames(batch, evidence) ==
  LET first[i \in 0..Len(Order)] ==
        IF i = 0 THEN GitRenames(batch, evidence) ELSE Correlate(Order[i], batch, first[i - 1])
  IN  first[Len(Order)]

\* changeEvent: what a change says, if it says anything.
Created(c) == c.after # Absent /\ c.before = Absent
Deleted(c) == c.after = Absent /\ c.before # Absent

(***************************************************************************)
(* flush: report a batch, and a record of what was dropped since the last. *)
(* Git may answer or fail.                                                 *)
(***************************************************************************)
Reported(batch, evidence) ==
  LET pairs == CorrelateRenames(batch, evidence)
      alone == batch \ Consumed(pairs)
  IN  /\ picture' = (picture \ ({pair[1] : pair \in pairs}
                                \cup {p \in alone : Deleted(pending[p])}))
                    \cup {pair[2] : pair \in pairs}
                    \cup {p \in alone : Created(pending[p])}
      /\ misled' = (misled \/ \E pair \in pairs : pending[pair[1]].after # Absent
                                               \/ pending[pair[2]].after = Absent)

FlushReady(ready) ==
  /\ dropped' = 0
  /\ told' = (told \/ dropped > 0)
  /\ pending' = Restrict(pending, DOMAIN pending \ Batch(ready))
  /\ \E evidence \in {{}, Staged} : Reported(Batch(ready), evidence)

\* Fault: a record of dropped events waits for an event to go with.
WorthOnlyEvents(ready) == ready # {}

WorthReporting(ready) == ready # {} \/ dropped > 0

\* The ticker, with nothing to report left out.
Flush ==
  /\ ~stopped
  /\ UNCHANGED <<userVars, silent, raw, ctxDone, states, stopped>>
  /\ \E ready \in ReadySets : WorthReporting(ready) /\ FlushReady(ready)

Cancel ==
  /\ ~ctxDone
  /\ ctxDone' = TRUE
  /\ UNCHANGED <<userVars, silent, raw, dropped, reportVars>>

\* The observer finds the context done, possibly after more changes: one
\* last batch of whatever is pending, and no look at what is queued.
Finish ==
  /\ ctxDone /\ ~stopped
  /\ stopped' = TRUE
  /\ UNCHANGED <<userVars, silent, raw, ctxDone, states>>
  /\ FlushReady(DOMAIN pending)

ObserverSteps == DrainError \/ Drain \/ AcceptChange \/ Flush \/ Finish

ObserverNext == UserChanges \/ ObserverSteps \/ Cancel

\* The goroutines run and the ticker ticks; nobody has to change a file.
ObserverSpec ==
  ObserverInit /\ [][ObserverNext]_observerVars /\ WF_observerVars(ObserverSteps)
-----------------------------------------------------------------------------
Quiet == /\ notes = <<>> /\ errors = 0 /\ raw = <<>>
         /\ DOMAIN pending = {} /\ dropped = 0

\* Once everything queued has been reported, whoever believed the events
\* knows which files exist, unless a record of dropped events told them that
\* they may not.  Two things the code does are outside it: what happens to
\* the entries of a directory before it is watched, or is recorded with the
\* directory, is never reported; and Git's renames are believed also when
\* the disk says otherwise.
PictureCatchesUp ==
  Quiet /\ ~stopped /\ ~told /\ ~misled =>
    \A p \in Paths \ silent : p \in picture <=> disk[p] # Absent

\* The rename window, the batch limit and the drop counter only defer:
\* until the observer is canceled everything it was notified of is reported.
ChangesAreReported == []<>(Quiet \/ ctxDone)
=============================================================================
