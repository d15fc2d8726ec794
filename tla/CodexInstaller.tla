--------------------------- MODULE CodexInstaller ---------------------------
(***************************************************************************)
(* internal/adapters/codex/install: install and uninstall change up to     *)
(* four files one after the other, each by a rename to a swap name, a      *)
(* rename of the new file and the removal of the swap.  The program may be *)
(* killed, or fail, between any two of these; the next command first       *)
(* brings swapped files back.  The user and Codex may write hooks.json at  *)
(* any time.                                                               *)
(*                                                                         *)
(* hooks.json is [entries, hooks, managed, own]: what is the user's in it, *)
(* whether it has a "hooks" key, whether it has our handlers, and whether  *)
(* its bytes are the user's.  A digest is the content it stands for.       *)
(* Malformed and foreign files, links, dry runs and the removal of empty   *)
(* directories are left out.                                               *)
(***************************************************************************)
EXTENDS Sequences, FiniteSets

CONSTANTS
  EntrySets,        \* what users have in hooks.json, {} for nothing
  Hooks,            \* builds of the hook executable
  None              \* no file; no command

Configs == {c \in [entries : EntrySets, hooks : BOOLEAN, managed : BOOLEAN, own : BOOLEAN] :
              c.managed => c.hooks}

\* What the state file records: how far the first install came, the hooks.json
\* it found, and the build in use.
States == [phase : {"installing", "installed"}, original : Configs \cup {None}, hook : Hooks]

ASSUME InstallerAssumption ==
  /\ {} \in EntrySets
  /\ None \notin [entries : EntrySets, hooks : BOOLEAN, managed : BOOLEAN, own : BOOLEAN]
  /\ None \notin States \cup Hooks
  /\ None \notin {"install", "uninstall"}

Files == {"config", "state", "backup", "binary"}

VARIABLES
  files, swaps,     \* what is under each name and under its .aav-swap
  command,          \* the command that runs, or None
  todo,             \* the file operations it has left
  wanted,           \* history: the entries the user wrote last
  before,           \* history: hooks.json when the first install read it
  edited,           \* history: the user wrote since
  raced,            \* history: the last edit fell between a read and a write
  cut,              \* history: the operation the last command was cut before, or None
  result            \* history: what the last command reported, nothing since

history == <<wanted, before, edited, raced, cut, result>>
vars == <<files, swaps, command, todo, history>>

EntriesOf(c) == IF c = None THEN {} ELSE c.entries
Managed(c) == c # None /\ c.managed

Init ==
  /\ \E c \in {d \in Configs : d.own} \cup {None} :
       /\ files = [f \in Files |-> IF f = "config" THEN c ELSE None]
       /\ wanted = EntriesOf(c) /\ before = c
  /\ swaps = [f \in Files |-> None]
  /\ command = None /\ todo = <<>>
  /\ edited = FALSE /\ raced = FALSE /\ cut = None /\ result = None
-----------------------------------------------------------------------------
(* The merger.                                                              *)

\* mergeHooks
Merged(c) == [entries |-> EntriesOf(c), hooks |-> TRUE, managed |-> TRUE, own |-> FALSE]

\* removeHooks: the key stays, an empty root leaves no file.
Cleaned(c) ==
  IF c = None \/ (EntriesOf(c) = {} /\ ~c.hooks) THEN None
  ELSE [entries |-> c.entries, hooks |-> c.hooks, managed |-> FALSE, own |-> FALSE]

\* semanticEqual: formatting does not count.
SameMeaning(c, d) == [c EXCEPT !.own = d.own] = d

OnlyEmptyHooks(c) == c # None /\ c.entries = {} /\ c.hooks /\ ~c.managed
-----------------------------------------------------------------------------
(* What a command will do to the files, from what it reads.                 *)

Write(f, content) == [op |-> "write", file |-> f, content |-> content]
Remove(f)  == [op |-> "remove", file |-> f, content |-> None]
Refuse     == [op |-> "refuse", file |-> "state", content |-> None]

\* ensureBackup refuses: the backup differs, or is missing and the
\* configuration no longer is what it was to hold.
BackupRefused(s, c, backup) ==
  /\ s.original # None
  /\ backup # s.original
  /\ ~(backup = None /\ s.phase = "installing" /\ c = s.original /\ ~Managed(c))

EnsureBackup(s, c, backup) ==
  IF BackupRefused(s, c, backup) THEN <<Refuse>>
  ELSE IF s.original = None \/ backup = s.original THEN <<>>
  ELSE <<Write("backup", c)>>

UninstallRefused(fs) ==
  IF fs["state"] = None THEN fs["binary"] # None
  ELSE BackupRefused(fs["state"], fs["config"], fs["backup"])

InstallRefused(fs) ==
  UninstallRefused(fs) \/ (fs["state"] = None /\ fs["config"] # None /\ fs["backup"] # None)

\* Fault: the configuration is changed before it is backed up.
ConfigFirst(fs, hook) ==
  LET c == fs["config"]
      fresh == [phase |-> "installing", original |-> c, hook |-> hook]
  IN  <<Write("state", fresh), Write("config", Merged(c))>> \o EnsureBackup(fresh, c, None)
        \o <<Write("binary", hook), Write("state", [fresh EXCEPT !.phase = "installed"])>>

FirstInstall(fs, hook) ==
  LET c == fs["config"]
      fresh == [phase |-> "installing", original |-> c, hook |-> hook]
  IN  <<Write("state", fresh)>> \o EnsureBackup(fresh, c, None)
        \o <<Write("binary", hook), Write("config", Merged(c)),
             Write("state", [fresh EXCEPT !.phase = "installed"])>>

InstallAgain(fs, hook) ==
  LET c == fs["config"]
      s == fs["state"]
      done == [s EXCEPT !.phase = "installed", !.hook = hook]
  IN  EnsureBackup(s, c, fs["backup"]) \o
      IF c = Merged(c) /\ fs["binary"] = hook /\ s = done THEN <<>>
      ELSE <<Write("binary", hook), Write("config", Merged(c)), Write("state", done)>>

InstallOperations(fs, hook) ==
  IF InstallRefused(fs) THEN <<Refuse>>
  ELSE IF fs["state"] = None THEN FirstInstall(fs, hook) ELSE InstallAgain(fs, hook)

\* Fault: the backup is never put back.
NeverRestored(s, cleaned) == cleaned

\* restoration, and what else becomes of hooks.json.
Restored(s, cleaned) ==
  IF s = None THEN cleaned
  ELSE IF s.original = None THEN IF OnlyEmptyHooks(cleaned) THEN None ELSE cleaned
  ELSE IF cleaned = None THEN s.original
  ELSE IF SameMeaning(cleaned, s.original) THEN s.original ELSE cleaned

UninstallOperations(fs) ==
  LET c == fs["config"]
      s == fs["state"]
      restored == Restored(s, Cleaned(c))
  IN  IF UninstallRefused(fs) THEN <<Refuse>>
      ELSE IF s = None /\ ~Managed(c) THEN <<>>
      ELSE (IF s = None THEN <<>> ELSE EnsureBackup(s, c, fs["backup"]))
             \o <<IF restored = None THEN Remove("config") ELSE Write("config", restored),
                  Remove("binary")>>
             \o (IF s # None /\ s.original # None THEN <<Remove("backup")>> ELSE <<>>)
             \o <<Remove("state")>>
-----------------------------------------------------------------------------
(* A command.                                                               *)

\* Fault: what was set aside is given up.
SwapGivenUp(f) == files[f]

\* recoverSwap: a file without its replacement comes back, otherwise the swap
\* is removed.
RecoverSwap(f) == IF files[f] = None THEN swaps[f] ELSE files[f]

\* What a command finds when it has recovered the swaps, of which a cut leaves
\* one at most.
Found == [f \in Files |-> RecoverSwap(f)]

\* The swaps are recovered, the files are read, the operations follow.  Whoever
\* writes in between could as well have done so before.
Begin(name, operations) ==
  /\ command = None
  /\ command' = name
  /\ todo' = operations
  /\ files' = Found
  /\ swaps' = [f \in Files |-> None]
  /\ result' = None

BeginInstall ==
  /\ \E hook \in Hooks : Begin("install", InstallOperations(Found, hook))
  /\ IF Found["state"] = None
     THEN before' = Found["config"] /\ edited' = FALSE
     ELSE UNCHANGED <<before, edited>>
  /\ UNCHANGED <<wanted, raced, cut>>

BeginUninstall ==
  /\ Begin("uninstall", UninstallOperations(Found))
  /\ UNCHANGED <<wanted, before, edited, raced, cut>>

Finish ==
  /\ command # None /\ todo = <<>>
  /\ result' = command
  /\ command' = None
  /\ cut' = None
  /\ UNCHANGED <<files, swaps, todo, wanted, before, edited, raced>>

Refused ==
  /\ todo # <<>> /\ Head(todo) = Refuse
  /\ command' = None /\ todo' = <<>>
  /\ UNCHANGED <<files, swaps, history>>

\* An error ends the command like a crash does; what a failed rename leaves
\* is a state before it.
Crash ==
  /\ todo # <<>> /\ Head(todo) # Refuse
  /\ command' = None /\ todo' = <<>>
  /\ cut' = Head(todo)
  /\ UNCHANGED <<files, swaps, wanted, before, edited, raced, result>>
-----------------------------------------------------------------------------
(* The operations of a command, one rename or removal at a time.            *)

Due(op) == todo # <<>> /\ Head(todo).op = op
File == Head(todo).file
Done == todo' = Tail(todo)

\* atomicWrite: nothing to do, or the old file is renamed away, the new one
\* takes the name, and the old one is removed.
WriteNothing ==
  /\ Due("write") /\ files[File] = Head(todo).content /\ swaps[File] = None
  /\ Done
  /\ UNCHANGED <<files, swaps, command, history>>

SetAside ==
  /\ Due("write") /\ files[File] \notin {None, Head(todo).content} /\ swaps[File] = None
  /\ swaps' = [swaps EXCEPT ![File] = files[File]]
  /\ files' = [files EXCEPT ![File] = None]
  /\ UNCHANGED <<command, todo, history>>

PutInPlace ==
  /\ Due("write") /\ files[File] # Head(todo).content
  /\ files[File] = None \/ swaps[File] # None
  /\ files' = [files EXCEPT ![File] = Head(todo).content]
  /\ UNCHANGED <<swaps, command, todo, history>>

RemoveSwap ==
  /\ Due("write") /\ files[File] = Head(todo).content /\ swaps[File] # None
  /\ swaps' = [swaps EXCEPT ![File] = None]
  /\ Done
  /\ UNCHANGED <<files, command, history>>

RemoveIfExists ==
  /\ Due("remove")
  /\ files' = [files EXCEPT ![File] = None]
  /\ Done
  /\ UNCHANGED <<swaps, command, history>>
-----------------------------------------------------------------------------
(* Codex reads hooks.json; the user writes or deletes it, and keeps our     *)
(* handlers or not.                                                         *)

\* hooks.json has been replaced and its swap is not removed yet.
Replaced ==
  command # None /\ swaps["config"] # None /\ files["config"] = Head(todo).content

\* A write to what was just replaced is one after the removal of the swap or
\* after the cut: neither looks at the file.
UserWrites ==
  /\ ~Replaced
  /\ \E c \in {d \in Configs : d.own /\ (d.managed => Managed(files["config"]))} \cup {None} :
       /\ c # files["config"]
       /\ files' = [files EXCEPT !["config"] = c]
       /\ wanted' = EntriesOf(c)
  /\ edited' = TRUE
  /\ raced' = (command # None)
  /\ result' = None
  /\ UNCHANGED <<swaps, command, todo, before, cut>>

FileStep == WriteNothing \/ SetAside \/ PutInPlace \/ RemoveSwap \/ RemoveIfExists

Next ==
  \/ BeginInstall \/ BeginUninstall \/ Finish \/ Crash \/ Refused
  \/ FileStep
  \/ UserWrites

Spec == Init /\ [][Next]_vars
-----------------------------------------------------------------------------
\* Manager.Status
Status ==
  LET s == files["state"]
      c == files["config"]
  IN  IF \E f \in Files : swaps[f] # None THEN "partial"
      ELSE IF s = None /\ files["binary"] = None /\ ~Managed(c) THEN "not-installed"
      ELSE IF s = None THEN "partial"
      ELSE IF s.original # None /\ files["backup"] # s.original THEN "invalid"
      ELSE IF s.phase = "installed" /\ files["binary"] = s.hook /\ Managed(c) THEN "installed"
      ELSE "partial"

\* Whatever the commands did and wherever they were cut, hooks.json or its swap
\* has the entries the user wrote last.  Not so when the user writes between a
\* command's read and its write (installer.go:102-176, 202-267); and who clears
\* or deletes the file may get the first backup back from an uninstall, or the
\* swap of a write that was cut.
UserContentIsKept == raced \/ wanted = {} \/ EntriesOf(Found["config"]) = wanted

\* An install that reports success leaves what Status calls installed, an
\* uninstall leaves nothing behind and, if the user wrote nothing in between,
\* hooks.json with its first bytes.  Not so when these had no "hooks" key: the
\* merger leaves the key it added, and no backup.
CommandsComplete ==
  /\ result = "install" => raced \/ Status = "installed"
  /\ result = "uninstall" => /\ \A f \in Files \ {"config"} : Found[f] = None
                             /\ raced \/ Status = "not-installed"
                             /\ ~edited /\ before # None /\ before.hooks /\ ~before.managed
                                  => files["config"] = before
                             /\ ~edited /\ before = None => files["config"] = None

\* Wherever a command was cut the next one is not refused, so that it can be
\* run again, with three exceptions that leave the files to the user: an
\* uninstall cut between the removal of the backup and that of the state; a
\* configuration edited after a first install was cut before its backup; and
\* a first install over a configuration that already has our handlers.
Recoverable ==
  command = None /\ (InstallRefused(Found) \/ UninstallRefused(Found)) =>
    \/ cut = Remove("state")
    \/ edited /\ Found["state"].phase = "installing" /\ Found["backup"] = None
    \/ Managed(before)
=============================================================================
