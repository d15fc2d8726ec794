------------------------ MODULE CodexInstallerProofs ------------------------
(***************************************************************************)
(* Proofs about CodexInstaller, for every set of entries users may have in *)
(* hooks.json and every set of builds.                                     *)
(***************************************************************************)
EXTENDS CodexInstaller, TLAPS

MaybeConfig == Configs \cup {None}

\* What may be under the name of a file.
ContentOf(f) ==
  IF f = "state" THEN States \cup {None}
  ELSE IF f = "binary" THEN Hooks \cup {None} ELSE MaybeConfig

Contents == MaybeConfig \cup States \cup Hooks

Operations ==
  {o \in [op : {"write", "remove", "refuse"}, file : Files, content : Contents] :
     o.content \in ContentOf(o.file)}

WellTyped(fs) == \A f \in Files : fs[f] \in ContentOf(f)

TypeInv ==
  /\ files = [f \in Files |-> files[f]] /\ WellTyped(files)
  /\ swaps = [f \in Files |-> swaps[f]] /\ WellTyped(swaps)
  /\ todo \in Seq(Operations)
  /\ command = None => todo = <<>>

\* Operations that leave a hooks.json with the entries w, if they touch it.
Keeping(w) ==
  {o \in Operations : o.file = "config" => o.op = "write" /\ EntriesOf(o.content) = w}

\* What the commands still do keeps the user's entries too.
KeptInv ==
  raced \/ wanted = {} \/ /\ EntriesOf(Found["config"]) = wanted
                          /\ todo \in Seq(Keeping(wanted))

IInv == TypeInv /\ KeptInv
-----------------------------------------------------------------------------
\* Sequences over a set, however they are put together.
LEMMA SeqConcat ==
  ASSUME NEW S, NEW s \in Seq(S), NEW t \in Seq(S)
  PROVE  s \o t \in Seq(S)
OBVIOUS

\* Sequences over a part of a set are sequences over the set.
LEMMA SeqMonotone ==
  ASSUME NEW S, NEW T, S \subseteq T, NEW s \in Seq(S)
  PROVE  s \in Seq(T)
OBVIOUS

\* What a step takes from a sequence, and what it leaves.
LEMMA SeqTail ==
  ASSUME NEW S, NEW s \in Seq(S), s # <<>>
  PROVE  Head(s) \in S /\ Tail(s) \in Seq(S)
OBVIOUS

\* The merger returns configurations and leaves the user's entries as they are.
LEMMA MergerKeepsEntries ==
  ASSUME NEW c \in MaybeConfig
  PROVE  /\ Merged(c) \in Configs /\ EntriesOf(Merged(c)) = EntriesOf(c)
         /\ Cleaned(c) \in MaybeConfig /\ EntriesOf(Cleaned(c)) = EntriesOf(c)
<1>1. Configs \subseteq [entries : EntrySets, hooks : BOOLEAN, managed : BOOLEAN, own : BOOLEAN]
  BY DEF Configs
<1>2. EntriesOf(c) \in EntrySets
  BY <1>1, InstallerAssumption DEF EntriesOf, MaybeConfig
<1>3. Merged(c) \in Configs /\ Merged(c).entries = EntriesOf(c)
  BY <1>2 DEF Merged, Configs
<1>4. None \notin Configs
  BY <1>1, InstallerAssumption
<1>5. EntriesOf(Merged(c)) = EntriesOf(c)
  BY <1>3, <1>4 DEF EntriesOf
<1>6. CASE c = None \/ (EntriesOf(c) = {} /\ ~c.hooks)
  <2>1. Cleaned(c) = None /\ EntriesOf(c) = {}
    BY <1>6 DEF Cleaned, EntriesOf
  <2> QED
    BY <1>3, <1>5, <2>1 DEF EntriesOf, MaybeConfig
<1>7. CASE ~(c = None \/ (EntriesOf(c) = {} /\ ~c.hooks))
  <2> DEFINE d == [entries |-> c.entries, hooks |-> c.hooks, managed |-> FALSE, own |-> FALSE]
  <2>1. Cleaned(c) = d /\ c \in Configs
    BY <1>7 DEF Cleaned, MaybeConfig
  <2>2. d \in Configs /\ d.entries = c.entries
    BY <2>1 DEF Configs
  <2> QED
    BY <1>3, <1>4, <1>5, <1>7, <2>1, <2>2 DEF EntriesOf, MaybeConfig
<1> QED
  BY <1>6, <1>7

\* What an uninstall makes of hooks.json is a configuration, and has the entries
\* it had if it had any.
LEMMA RestoredKeepsEntries ==
  ASSUME NEW c \in MaybeConfig, NEW s \in States \cup {None}
  PROVE  /\ Restored(s, Cleaned(c)) \in MaybeConfig
         /\ EntriesOf(c) # {} => EntriesOf(Restored(s, Cleaned(c))) = EntriesOf(c)
<1> DEFINE d == Cleaned(c)
           r == Restored(s, d)
<1>1. d \in MaybeConfig /\ EntriesOf(d) = EntriesOf(c)
  BY MergerKeepsEntries
<1>2. s # None => s.original \in MaybeConfig
  BY DEF States, MaybeConfig
<1>3. r \in MaybeConfig
  BY <1>1, <1>2 DEF Restored, MaybeConfig
<1>4. ASSUME EntriesOf(c) # {}
      PROVE  EntriesOf(r) = EntriesOf(c)
  <2>1. d # None /\ ~OnlyEmptyHooks(d)
    BY <1>1, <1>4 DEF EntriesOf, OnlyEmptyHooks
  <2>2. CASE s # None /\ s.original # None /\ SameMeaning(d, s.original)
    <3> DEFINE o == s.original
               e == [d EXCEPT !.own = o.own]
    <3>1. r = o /\ o = e
      BY <2>1, <2>2 DEF Restored, SameMeaning
    <3>2. d \in [entries : EntrySets, hooks : BOOLEAN, managed : BOOLEAN, own : BOOLEAN]
      BY <1>1, <2>1 DEF MaybeConfig, Configs
    <3>3. e.entries = d.entries
      BY <3>2
    <3> QED
      BY <1>1, <2>1, <2>2, <3>1, <3>3 DEF EntriesOf
  <2>3. CASE ~(s # None /\ s.original # None /\ SameMeaning(d, s.original))
    <3>1. r = d
      BY <2>1, <2>3 DEF Restored
    <3> QED
      BY <1>1, <3>1
  <2> QED
    BY <2>2, <2>3
<1> QED
  BY <1>3, <1>4
-----------------------------------------------------------------------------
\* Every single operation is one of Operations.
LEMMA OperationsAreTyped ==
  /\ \A f \in Files : \A d \in ContentOf(f) : Write(f, d) \in Operations
  /\ \A f \in Files : Remove(f) \in Operations
  /\ Refuse \in Operations
BY DEF Operations, Write, Remove, Refuse, ContentOf, Contents, Files, MaybeConfig

\* The ones that leave the entries of hooks.json at w.
LEMMA OperationsKeep ==
  ASSUME NEW w
  PROVE  /\ \A f \in Files \ {"config"} : \A d \in ContentOf(f) : Write(f, d) \in Keeping(w)
         /\ \A d \in MaybeConfig : EntriesOf(d) = w => Write("config", d) \in Keeping(w)
         /\ \A f \in Files \ {"config"} : Remove(f) \in Keeping(w)
         /\ Refuse \in Keeping(w)
<1>1. \A o \in Operations : o.file # "config" => o \in Keeping(w)
  BY DEF Keeping
<1>2. /\ \A f, d : Write(f, d).file = f /\ Write(f, d).op = "write" /\ Write(f, d).content = d
      /\ \A f : Remove(f).file = f
      /\ Refuse.file = "state"
  BY DEF Write, Remove, Refuse
<1>3. \A d \in MaybeConfig : Write("config", d) \in Operations
  BY OperationsAreTyped DEF ContentOf, Files
<1>4. \A d \in MaybeConfig : EntriesOf(d) = w => Write("config", d) \in Keeping(w)
  BY <1>2, <1>3 DEF Keeping
<1> QED
  BY <1>1, <1>2, <1>4, OperationsAreTyped

\* ensureBackup writes the backup or refuses; hooks.json is not its business.
LEMMA EnsureBackupKeeps ==
  ASSUME NEW w, NEW s \in States, NEW c \in MaybeConfig, NEW backup
  PROVE  EnsureBackup(s, c, backup) \in Seq(Keeping(w))
<1>1. Write("backup", c) \in Keeping(w) /\ Refuse \in Keeping(w)
  BY OperationsKeep DEF ContentOf, Files
<1> QED
  BY <1>1 DEF EnsureBackup

\* An install keeps whatever entries the file has.
LEMMA InstallKeeps ==
  ASSUME NEW fs, WellTyped(fs), NEW hook \in Hooks
  PROVE  InstallOperations(fs, hook) \in Seq(Keeping(EntriesOf(fs["config"])))
<1> DEFINE c == fs["config"]
           s == fs["state"]
           K == Keeping(EntriesOf(c))
<1>1. c \in MaybeConfig /\ s \in States \cup {None}
  BY DEF WellTyped, ContentOf, Files
<1>2. Write("config", Merged(c)) \in K /\ Write("binary", hook) \in K /\ Refuse \in K
  BY <1>1, MergerKeepsEntries, OperationsKeep DEF ContentOf, Files, MaybeConfig
<1>3. \A t \in States : Write("state", t) \in K
  BY OperationsKeep DEF ContentOf, Files
<1>4. FirstInstall(fs, hook) \in Seq(K)
  <2> DEFINE fresh == [phase |-> "installing", original |-> c, hook |-> hook]
             e == EnsureBackup(fresh, c, None)
             end == [fresh EXCEPT !.phase = "installed"]
  <2>1. fresh \in States /\ end \in States
    BY <1>1 DEF States, MaybeConfig
  <2>2. e \in Seq(K)
    BY <1>1, <2>1, EnsureBackupKeeps
  <2>3. <<Write("state", fresh)>> \in Seq(K)
    BY <1>3, <2>1
  <2>4. <<Write("binary", hook), Write("config", Merged(c)), Write("state", end)>> \in Seq(K)
    BY <1>2, <1>3, <2>1
  <2>5. FirstInstall(fs, hook) = (<<Write("state", fresh)>> \o e)
          \o <<Write("binary", hook), Write("config", Merged(c)), Write("state", end)>>
    BY DEF FirstInstall
  <2> HIDE DEF e, fresh, end, K
  <2> QED
    BY <2>2, <2>3, <2>4, <2>5, SeqConcat
<1>5. ASSUME s # None
      PROVE  InstallAgain(fs, hook) \in Seq(K)
  <2> DEFINE e == EnsureBackup(s, c, fs["backup"])
             done == [s EXCEPT !.phase = "installed", !.hook = hook]
             rest == IF c = Merged(c) /\ fs["binary"] = hook /\ s = done THEN <<>>
                     ELSE <<Write("binary", hook), Write("config", Merged(c)),
                            Write("state", done)>>
  <2>1. s \in States /\ done \in States
    BY <1>1, <1>5 DEF States
  <2>2. e \in Seq(K)
    BY <1>1, <2>1, EnsureBackupKeeps
  <2>3. rest \in Seq(K)
    <3>1. Write("state", done) \in K
      BY <1>3, <2>1
    <3> HIDE DEF K, done
    <3> QED
      BY <1>2, <3>1
  <2>4. InstallAgain(fs, hook) = e \o rest
    BY DEF InstallAgain
  <2> HIDE DEF e, rest, K
  <2> QED
    BY <2>2, <2>3, <2>4, SeqConcat
<1> HIDE DEF K
<1>6. <<Refuse>> \in Seq(K)
  BY <1>2
<1> QED
  BY <1>4, <1>5, <1>6 DEF InstallOperations, K

\* An uninstall keeps them too, unless there are none.
LEMMA UninstallKeeps ==
  ASSUME NEW fs, WellTyped(fs)
  PROVE  /\ UninstallOperations(fs) \in Seq(Operations)
         /\ EntriesOf(fs["config"]) # {} =>
              UninstallOperations(fs) \in Seq(Keeping(EntriesOf(fs["config"])))
<1> DEFINE c == fs["config"]
           s == fs["state"]
           r == Restored(s, Cleaned(c))
           backed == IF s = None THEN <<>> ELSE EnsureBackup(s, c, fs["backup"])
           change == <<IF r = None THEN Remove("config") ELSE Write("config", r),
                       Remove("binary")>>
           forget == IF s # None /\ s.original # None THEN <<Remove("backup")>> ELSE <<>>
           all == ((backed \o change) \o forget) \o <<Remove("state")>>
<1>1. c \in MaybeConfig /\ s \in States \cup {None}
  BY DEF WellTyped, ContentOf, Files
<1>2. r \in MaybeConfig /\ (EntriesOf(c) # {} => EntriesOf(r) = EntriesOf(c))
  BY <1>1, RestoredKeepsEntries
<1>3. UninstallOperations(fs) \in {<<Refuse>>, <<>>, all}
  BY DEF UninstallOperations
<1>4. ASSUME NEW K, Refuse \in K,
             \A f \in Files \ {"config"} : Remove(f) \in K,
             r = None => Remove("config") \in K,
             r # None => Write("config", r) \in K,
             backed \in Seq(K)
      PROVE  UninstallOperations(fs) \in Seq(K)
  <2>1. change \in Seq(K) /\ forget \in Seq(K) /\ <<Remove("state")>> \in Seq(K)
    BY <1>4 DEF Files
  <2>2. <<Refuse>> \in Seq(K) /\ <<>> \in Seq(K)
    BY <1>4
  <2> HIDE DEF change, forget, backed
  <2>3. all \in Seq(K)
    BY <1>4, <2>1, SeqConcat
  <2> QED
    BY <1>3, <2>2, <2>3
<1>5. \A w : backed \in Seq(Keeping(w))
  BY <1>1, EnsureBackupKeeps
<1>6. UninstallOperations(fs) \in Seq(Operations)
  <2>1. backed \in Seq(Operations)
    <3>1. Keeping({}) \subseteq Operations
      BY DEF Keeping
    <3> HIDE DEF backed
    <3> QED
      BY <1>5, <3>1, SeqMonotone
  <2>2. Write("config", r) \in Operations /\ Refuse \in Operations
    BY <1>2, OperationsAreTyped DEF ContentOf, Files
  <2>3. \A f \in Files : Remove(f) \in Operations
    BY OperationsAreTyped
  <2> HIDE DEF backed, r
  <2> QED
    BY <1>4, <2>1, <2>2, <2>3 DEF Files
<1>7. ASSUME EntriesOf(c) # {}
      PROVE  UninstallOperations(fs) \in Seq(Keeping(EntriesOf(c)))
  <2>1. r # None /\ EntriesOf(r) = EntriesOf(c)
    BY <1>2, <1>7 DEF EntriesOf
  <2>2. Write("config", r) \in Keeping(EntriesOf(c)) /\ Refuse \in Keeping(EntriesOf(c))
    BY <1>2, <2>1, OperationsKeep
  <2>3. \A f \in Files \ {"config"} : Remove(f) \in Keeping(EntriesOf(c))
    BY OperationsKeep
  <2> HIDE DEF backed, r
  <2> QED
    BY <1>4, <1>5, <2>1, <2>2, <2>3
<1> QED
  BY <1>6, <1>7
-----------------------------------------------------------------------------
\* recoverSwap at the start of a command finds each file, or its swap.
LEMMA FoundIsTyped ==
  ASSUME TypeInv
  PROVE  /\ WellTyped(Found)
         /\ \A f \in Files : Found[f] = IF files[f] = None THEN swaps[f] ELSE files[f]
BY DEF TypeInv, WellTyped, Found, RecoverSwap

\* The user's first hooks.json is what they want.
LEMMA InitHolds == Init => IInv
<1> SUFFICES ASSUME Init PROVE IInv
  OBVIOUS
<1>1. PICK c \in {d \in Configs : d.own} \cup {None} :
        /\ files = [f \in Files |-> IF f = "config" THEN c ELSE None]
        /\ wanted = EntriesOf(c)
  BY DEF Init
<1>2. TypeInv
  BY <1>1 DEF Init, TypeInv, WellTyped, ContentOf, MaybeConfig, Files
<1>3. Found["config"] = c
  BY <1>1, <1>2, FoundIsTyped DEF Init, Files
<1> QED
  BY <1>1, <1>2, <1>3 DEF Init, IInv, KeptInv

\* The start of a command: the files are what was found, the operations keep
\* the entries.
LEMMA BeginKeeps ==
  ASSUME IInv, NEW name, name # None, NEW operations, Begin(name, operations),
         UNCHANGED <<wanted, raced>>,
         operations \in Seq(Operations),
         EntriesOf(Found["config"]) # {} =>
           operations \in Seq(Keeping(EntriesOf(Found["config"])))
  PROVE  IInv'
<1>1. WellTyped(Found) /\ Found = [f \in Files |-> Found[f]]
  BY FoundIsTyped DEF IInv, Found
<1>2. TypeInv'
  BY <1>1 DEF IInv, TypeInv, Begin, WellTyped, ContentOf, MaybeConfig
<1>3. Found'["config"] = Found["config"]
  BY <1>1 DEF Begin, Found, RecoverSwap, Files
<1>4. KeptInv'
  BY <1>3 DEF IInv, KeptInv, Begin
<1> QED
  BY <1>2, <1>4 DEF IInv

\* The renames and removals of the operation that is due.
LEMMA FileStepKeeps ==
  ASSUME IInv, FileStep
  PROVE  IInv'
<1> DEFINE o == Head(todo)
           f == o.file
<1>1. /\ TypeInv /\ KeptInv
      /\ todo # <<>> /\ todo \in Seq(Operations)
      /\ UNCHANGED <<command, wanted, raced>>
  BY DEF IInv, TypeInv, FileStep, WriteNothing, SetAside, PutInPlace, RemoveSwap, RemoveIfExists,
         Due, history
<1>2. o \in Operations /\ Tail(todo) \in Seq(Operations)
  BY <1>1, SeqTail
<1>3. f \in Files /\ o.content \in ContentOf(f) /\ File = f
  BY <1>2 DEF Operations, File
<1>4. todo' \in {todo, Tail(todo)}
  BY DEF FileStep, WriteNothing, SetAside, PutInPlace, RemoveSwap, RemoveIfExists, Done
<1>5. \E x \in ContentOf(f), y \in ContentOf(f) :
        /\ files' = [files EXCEPT ![f] = x]
        /\ swaps' = [swaps EXCEPT ![f] = y]
  <2>1. files[f] \in ContentOf(f) /\ swaps[f] \in ContentOf(f) /\ None \in ContentOf(f)
    BY <1>1, <1>3 DEF TypeInv, WellTyped, ContentOf, MaybeConfig
  <2>2. files = [files EXCEPT ![f] = files[f]] /\ swaps = [swaps EXCEPT ![f] = swaps[f]]
    BY <1>1, <1>3 DEF TypeInv
  <2> HIDE DEF f, o
  <2> QED
    BY <1>3, <2>1, <2>2 DEF FileStep, WriteNothing, SetAside, PutInPlace, RemoveSwap,
         RemoveIfExists, f, o
<1>6. TypeInv'
  <2>1. command # None
    BY <1>1 DEF TypeInv
  <2>2. todo' \in Seq(Operations)
    BY <1>1, <1>2, <1>4
  <2>3. /\ files' = [g \in Files |-> files'[g]] /\ WellTyped(files')
        /\ swaps' = [g \in Files |-> swaps'[g]] /\ WellTyped(swaps')
    BY <1>1, <1>3, <1>5 DEF TypeInv, WellTyped
  <2> QED
    BY <1>1, <2>1, <2>2, <2>3 DEF TypeInv, WellTyped, ContentOf
<1>7. ASSUME ~raced, wanted # {}
      PROVE  EntriesOf(Found'["config"]) = wanted /\ todo' \in Seq(Keeping(wanted))
  <2>1. EntriesOf(Found["config"]) = wanted /\ todo \in Seq(Keeping(wanted))
    BY <1>1, <1>7 DEF KeptInv
  <2>2. o \in Keeping(wanted) /\ Tail(todo) \in Seq(Keeping(wanted))
    BY <1>1, <2>1, SeqTail
  <2>3. todo' \in Seq(Keeping(wanted))
    BY <1>4, <2>1, <2>2
  <2>4. /\ Found["config"] = IF files["config"] = None THEN swaps["config"] ELSE files["config"]
        /\ Found'["config"] =
             IF files'["config"] = None THEN swaps'["config"] ELSE files'["config"]
    BY <1>1, <1>6, FoundIsTyped DEF Found, RecoverSwap, Files
  <2>5. CASE f # "config"
    <3>1. files'["config"] = files["config"] /\ swaps'["config"] = swaps["config"]
      BY <1>1, <1>3, <1>5, <2>5 DEF TypeInv, Files
    <3> QED
      BY <2>1, <2>3, <2>4, <3>1
  <2>6. CASE f = "config"
    <3>1. o.op = "write" /\ EntriesOf(o.content) = wanted /\ o.content # None
      BY <1>7, <2>2, <2>6 DEF Keeping, EntriesOf
    <3>2. ~RemoveIfExists
      BY <3>1 DEF RemoveIfExists, Due
    <3>3. "config" \in DOMAIN files /\ "config" \in DOMAIN swaps
      BY <1>1 DEF TypeInv, Files
    <3>4. CASE WriteNothing
      BY <2>1, <2>3, <2>4, <3>4 DEF WriteNothing
    <3>5. CASE SetAside
      BY <1>3, <2>1, <2>3, <2>4, <2>6, <3>3, <3>5 DEF SetAside
    <3>6. CASE PutInPlace
      BY <1>3, <2>3, <2>4, <2>6, <3>1, <3>3, <3>6 DEF PutInPlace
    <3>7. CASE RemoveSwap
      BY <1>3, <2>3, <2>4, <2>6, <3>1, <3>3, <3>7 DEF RemoveSwap
    <3> QED
      BY <3>2, <3>4, <3>5, <3>6, <3>7 DEF FileStep
  <2> QED
    BY <2>5, <2>6
<1> QED
  BY <1>1, <1>6, <1>7 DEF IInv, KeptInv

\* A user's write sets what is wanted; in the middle of a command it is a race.
LEMMA UserKeeps == IInv /\ UserWrites => IInv'
<1> SUFFICES ASSUME IInv, UserWrites PROVE IInv'
  OBVIOUS
<1>1. PICK c \in {d \in Configs : d.own /\ (d.managed => Managed(files["config"]))} \cup {None} :
        /\ files' = [files EXCEPT !["config"] = c]
        /\ wanted' = EntriesOf(c)
  BY DEF UserWrites
<1>2. UNCHANGED <<swaps, command, todo>> /\ raced' = (command # None)
  BY DEF UserWrites
<1>3. TypeInv'
  <2>1. c \in ContentOf("config")
    BY DEF ContentOf, MaybeConfig
  <2>2. files' = [g \in Files |-> files'[g]] /\ WellTyped(files')
    BY <1>1, <2>1 DEF IInv, TypeInv, WellTyped
  <2> QED
    BY <1>2, <2>2 DEF IInv, TypeInv, WellTyped, ContentOf
<1>4. ASSUME command = None, wanted' # {}
      PROVE  EntriesOf(Found'["config"]) = wanted' /\ todo' \in Seq(Keeping(wanted'))
  <2>1. c # None
    BY <1>1, <1>4 DEF EntriesOf
  <2>2. files'["config"] = c
    BY <1>1 DEF IInv, TypeInv, Files
  <2>3. Found'["config"] = c
    BY <2>1, <2>2 DEF Found, RecoverSwap, Files
  <2>4. todo' = <<>>
    BY <1>2, <1>4 DEF IInv, TypeInv
  <2> QED
    BY <1>1, <2>3, <2>4
<1> QED
  BY <1>2, <1>3, <1>4 DEF IInv, KeptInv

\* IInv is inductive.
LEMMA NextKeeps == IInv /\ [Next]_vars => IInv'
<1> SUFFICES ASSUME IInv, [Next]_vars PROVE IInv'
  OBVIOUS
<1>1. CASE BeginInstall
  <2>1. PICK hook \in Hooks : Begin("install", InstallOperations(Found, hook))
    BY <1>1 DEF BeginInstall
  <2>2. WellTyped(Found)
    BY FoundIsTyped DEF IInv
  <2>3. InstallOperations(Found, hook) \in Seq(Keeping(EntriesOf(Found["config"])))
    BY <2>2, InstallKeeps
  <2>4. InstallOperations(Found, hook) \in Seq(Operations)
    <3>1. Keeping(EntriesOf(Found["config"])) \subseteq Operations
      BY DEF Keeping
    <3> QED
      BY <2>3, <3>1, SeqMonotone
  <2>5. UNCHANGED <<wanted, raced>>
    BY <1>1 DEF BeginInstall
  <2> QED
    BY <2>1, <2>3, <2>4, <2>5, BeginKeeps, InstallerAssumption
<1>2. CASE BeginUninstall
  <2>1. WellTyped(Found)
    BY FoundIsTyped DEF IInv
  <2> QED
    BY <1>2, <2>1, UninstallKeeps, BeginKeeps, InstallerAssumption DEF BeginUninstall
<1>3. CASE Finish \/ Crash \/ Refused
  <2>1. /\ UNCHANGED <<files, swaps, wanted, raced>>
        /\ todo' = <<>>
    BY <1>3 DEF Finish, Crash, Refused, history
  <2>2. Found'["config"] = Found["config"]
    BY <2>1 DEF Found, RecoverSwap, Files
  <2>3. TypeInv'
    BY <2>1 DEF IInv, TypeInv, WellTyped, ContentOf
  <2>4. KeptInv'
    BY <2>1, <2>2 DEF IInv, KeptInv
  <2> QED
    BY <2>3, <2>4 DEF IInv
<1>4. CASE FileStep
  BY <1>4, FileStepKeeps
<1>5. CASE UserWrites
  BY <1>5, UserKeeps
<1>6. CASE UNCHANGED vars
  <2>1. UNCHANGED <<files, swaps, command, todo, wanted, raced>>
    BY <1>6 DEF vars, history
  <2>2. Found'["config"] = Found["config"]
    BY <2>1 DEF Found, RecoverSwap, Files
  <2>3. TypeInv'
    BY <2>1 DEF IInv, TypeInv, WellTyped, ContentOf
  <2>4. KeptInv'
    BY <2>1, <2>2 DEF IInv, KeptInv, Keeping, Operations
  <2> QED
    BY <2>3, <2>4 DEF IInv
<1> QED
  BY <1>1, <1>2, <1>3, <1>4, <1>5, <1>6 DEF Next

\* What the user wrote last is in hooks.json or its swap, for every set of
\* entries and builds, after any sequence of commands, cuts and writes.
THEOREM UserContentAlwaysKept == Spec => []UserContentIsKept
<1>1. IInv => UserContentIsKept
  BY DEF IInv, KeptInv, UserContentIsKept
<1> QED
  BY <1>1, InitHolds, NextKeeps, PTL DEF Spec
-----------------------------------------------------------------------------
(* What the commands promise.  The invariant follows a command by what it has *)
(* left to do, and says what the files are whenever it stops.                 *)

\* The states a run with this hook writes, for the configuration the first
\* install found.
Installing(hook) == [phase |-> "installing", original |-> before, hook |-> hook]
Installed(hook)  == [phase |-> "installed", original |-> before, hook |-> hook]

\* Nobody wrote since the first install, over a file the uninstall can restore.
Pristine == ~edited /\ (before = None \/ (before.hooks /\ ~before.managed))

\* What the files fs say of each other at any moment: the state is written first
\* and removed last, the backup is what the first install found, and was not
\* managed.
SoundFiles(fs) ==
  /\ fs["state"] = None => fs["binary"] = None /\ fs["backup"] = None
  /\ fs["state"] # None => fs["state"].original = before
  /\ fs["backup"] \in {None, before}
  /\ fs["backup"] # None => ~Managed(before)
  /\ Pristine => /\ fs["config"] \in {before, Merged(before)}
                 /\ fs["state"] = None => fs["config"] = before

\* The backup may still be written: nothing was changed before it.
BackupIsDue(fs) ==
  /\ fs["state"] # None /\ fs["state"].phase = "installing"
  /\ edited \/ Managed(before) \/ fs["config"] = before

\* What a command leaves wherever it stops.
Resumable(fs) ==
  fs["state"] # None =>
    \/ fs["backup"] = before
    \/ fs["backup"] = None /\ (BackupIsDue(fs) \/ cut = Remove("state"))

InstallEnd(hook, m) ==
  <<Write("binary", hook), Write("config", m), Write("state", Installed(hook))>>

\* What an install has left in q, and what it has done to fs: nothing left, ...
InstallDone(hook, fs, q) ==
  /\ q = <<>>
  /\ fs["state"] = Installed(hook) /\ fs["binary"] = hook /\ fs["backup"] = before
  /\ raced \/ Managed(fs["config"])

\* ... the state, ...
StateLeft(hook, fs, q) ==
  /\ q = <<Write("state", Installed(hook))>>
  /\ fs["state"] # None /\ fs["binary"] = hook /\ fs["backup"] = before
  /\ raced \/ Managed(fs["config"])

\* ... hooks.json too, ...
ConfigLeft(hook, m, fs, q) ==
  /\ q = <<Write("config", m), Write("state", Installed(hook))>>
  /\ fs["state"] # None /\ fs["binary"] = hook /\ fs["backup"] = before

\* ... all but what was done before it changes anything, ...
ChangesLeft(hook, m, fs, q) ==
  /\ q = InstallEnd(hook, m)
  /\ fs["state"] # None /\ fs["backup"] = before

\* ... the backup, or what is in its place, ...
BackupLeft(hook, m, fs, q) ==
  /\ BackupIsDue(fs)
  /\ \/ /\ q = <<Write("backup", before)>> \o InstallEnd(hook, m)
        /\ before # None /\ ~Managed(before)
     \/ /\ q = <<Refuse>> \o InstallEnd(hook, m)
        /\ Managed(before)

\* ... or everything, of a first install.
AllLeft(hook, m, fs, q) ==
  /\ fs["state"] \in {None, Installing(hook)} /\ fs["backup"] = None
  /\ edited \/ fs["config"] = before
  /\ \E rest : /\ q = <<Write("state", Installing(hook))>> \o rest
               /\ \/ rest = InstallEnd(hook, m) /\ before = None
                  \/ /\ rest = <<Refuse>> \o InstallEnd(hook, m)
                     /\ Managed(before)
                  \/ /\ rest = <<Write("backup", before)>> \o InstallEnd(hook, m)
                     /\ before # None /\ ~Managed(before)

InstallAt(hook, m, fs, q) ==
  \/ InstallDone(hook, fs, q) \/ StateLeft(hook, fs, q) \/ ConfigLeft(hook, m, fs, q)
  \/ ChangesLeft(hook, m, fs, q) \/ BackupLeft(hook, m, fs, q) \/ AllLeft(hook, m, fs, q)

Targets == {d \in Configs : d.managed /\ (Pristine => d = Merged(before))}

InstallProgress(fs, q) == \E hook \in Hooks, m \in Targets : InstallAt(hook, m, fs, q)

\* The operation by which an uninstall leaves c in hooks.json.
PutBack(c) == IF c = None THEN Remove("config") ELSE Write("config", c)

\* How an uninstall ends, with a backup to remove or without.
UninstallEnd(fs, q) ==
  \/ /\ q = <<Remove("state")>>
     /\ fs["backup"] = None
  \/ /\ q = <<Remove("backup")>> \o <<Remove("state")>>
     /\ fs["state"] # None /\ fs["backup"] = before

Ends == {<<Remove("state")>>, <<Remove("backup")>> \o <<Remove("state")>>}

\* What an uninstall has left in q, and what it has done to fs: nothing left, ...
UninstallDone(fs, q) ==
  /\ q = <<>>
  /\ fs["state"] = None
  /\ raced \/ ~Managed(fs["config"])

\* ... files that are removed, ...
RemovalsLeft(fs, q) ==
  /\ raced \/ ~Managed(fs["config"])
  /\ Pristine => fs["config"] = before
  /\ \/ UninstallEnd(fs, q) /\ fs["binary"] = None
     \/ \E end \in Ends : /\ q = <<Remove("binary")>> \o end
                          /\ UninstallEnd(fs, end)
                          /\ fs["state"] # None => fs["backup"] = before

\* ... hooks.json too, ...
RestorationLeft(c, fs, q) ==
  \E end \in Ends : /\ q = <<PutBack(c), Remove("binary")>> \o end
                    /\ UninstallEnd(fs, end)
                    /\ fs["state"] # None => fs["backup"] = before

\* ... or even the backup.
RescueLeft(c, fs, q) ==
  /\ q = <<Write("backup", before)>> \o
           (<<PutBack(c), Remove("binary")>> \o (<<Remove("backup")>> \o <<Remove("state")>>))
  /\ before # None /\ ~Managed(before) /\ BackupIsDue(fs)

UninstallAt(c, fs, q) ==
  \/ UninstallDone(fs, q) \/ RemovalsLeft(fs, q) \/ RestorationLeft(c, fs, q)
  \/ RescueLeft(c, fs, q)

Restorations == {d \in MaybeConfig : ~Managed(d) /\ (Pristine => d = before)}

UninstallProgress(fs, q) == \E c \in Restorations : UninstallAt(c, fs, q)

\* A swap is there only for the write under way.
SwapsInUse ==
  command # None => \A f \in Files : swaps[f] # None =>
    todo # <<>> /\ Head(todo).op = "write" /\ Head(todo).file = f

Progress(fs, q) ==
  \/ command = None /\ Resumable(fs)
  \/ command # None /\ q = <<Refuse>> /\ Resumable(fs)
  \/ command = "install" /\ InstallProgress(fs, q)
  \/ command = "uninstall" /\ UninstallProgress(fs, q)

ProgressInv ==
  /\ before \in MaybeConfig
  /\ SwapsInUse
  /\ SoundFiles(Found)
  /\ Progress(Found, todo)
  /\ command # None => result = None
  /\ CommandsComplete
-----------------------------------------------------------------------------
\* What is first of a sequence, and what it leaves.
LEMMA Ahead ==
  ASSUME NEW S, NEW s \in Seq(S), NEW a \in S, NEW b \in S
  PROVE  /\ <<a>> \o s # <<>> /\ Head(<<a>> \o s) = a /\ Tail(<<a>> \o s) = s
         /\ <<b, a>> \o s # <<>> /\ Head(<<b, a>> \o s) = b
         /\ Tail(<<b, a>> \o s) = <<a>> \o s
OBVIOUS

\* The same for short sequences.
LEMMA ShortTails ==
  ASSUME NEW a, NEW b, NEW c
  PROVE  /\ <<a>> # <<>> /\ Head(<<a>>) = a /\ Tail(<<a>>) = <<>>
         /\ <<a, b>> # <<>> /\ Head(<<a, b>>) = a /\ Tail(<<a, b>>) = <<b>>
         /\ <<a, b, c>> # <<>> /\ Head(<<a, b, c>>) = a /\ Tail(<<a, b, c>>) = <<b, c>>
OBVIOUS

\* Sequences are put together in any order.
LEMMA Regroup ==
  ASSUME NEW S, NEW s \in Seq(S), NEW t \in Seq(S), NEW u \in Seq(S)
  PROVE  (s \o t) \o u = s \o (t \o u) /\ <<>> \o s = s
OBVIOUS

\* None is no configuration, state, build or command, and a name is one file's.
LEMMA NoneIsNothing ==
  /\ \A d \in Configs : d # None
  /\ \A s \in States : s # None
  /\ \A hook \in Hooks : hook # None
  /\ None \notin {"install", "uninstall"}
  /\ None \in MaybeConfig /\ ~Managed(None)
BY InstallerAssumption DEF Configs, MaybeConfig, Managed

\* What an operation does to the files.
After(fs, o) == [fs EXCEPT ![o.file] = o.content]

\* The fields of an operation.
LEMMA OperationFields ==
  /\ \A f, d : Write(f, d).op = "write" /\ Write(f, d).file = f /\ Write(f, d).content = d
  /\ \A f : Remove(f).op = "remove" /\ Remove(f).file = f /\ Remove(f).content = None
  /\ Refuse.op = "refuse"
BY DEF Write, Remove, Refuse

\* The states that are written are states.
LEMMA WrittenStates ==
  ASSUME before \in MaybeConfig, NEW hook \in Hooks
  PROVE  /\ Installing(hook) \in States /\ Installing(hook).phase = "installing"
         /\ Installing(hook).original = before
         /\ Installed(hook) \in States /\ Installed(hook).phase = "installed"
         /\ Installed(hook).original = before /\ Installed(hook).hook = hook
BY DEF Installing, Installed, States, MaybeConfig

\* What an install has left to do are operations.
LEMMA InstallIsTyped ==
  ASSUME before \in MaybeConfig, NEW hook \in Hooks, NEW m \in Configs
  PROVE  /\ InstallEnd(hook, m) \in Seq(Operations)
         /\ Write("state", Installing(hook)) \in Operations
         /\ Write("backup", before) \in Operations /\ Refuse \in Operations
<1>1. /\ Write("state", Installing(hook)) \in Operations
      /\ Write("state", Installed(hook)) \in Operations
  BY WrittenStates, OperationsAreTyped DEF ContentOf, Files
<1>2. /\ Write("backup", before) \in Operations /\ Refuse \in Operations
      /\ Write("binary", hook) \in Operations /\ Write("config", m) \in Operations
  BY OperationsAreTyped DEF ContentOf, Files, MaybeConfig
<1> QED
  BY <1>1, <1>2 DEF InstallEnd

\* And so are what an uninstall has left.
LEMMA UninstallIsTyped ==
  ASSUME before \in MaybeConfig, NEW c \in MaybeConfig
  PROVE  /\ Write("backup", before) \in Operations /\ PutBack(c) \in Operations
         /\ Remove("binary") \in Operations /\ Remove("backup") \in Operations
         /\ <<Remove("state")>> \in Seq(Operations)
         /\ <<Remove("backup")>> \o <<Remove("state")>> \in Ends
         /\ Ends \subseteq Seq(Operations)
<1>1. /\ Write("backup", before) \in Operations /\ Write("config", c) \in Operations
      /\ \A f \in Files : Remove(f) \in Operations
  BY OperationsAreTyped DEF ContentOf, Files
<1>2. /\ PutBack(c) \in Operations /\ Remove("binary") \in Operations
      /\ Remove("backup") \in Operations
  BY <1>1 DEF PutBack, Files
<1>3. <<Remove("state")>> \in Seq(Operations) /\ <<Remove("backup")>> \in Seq(Operations)
  BY <1>1 DEF Files
<1>4. <<Remove("backup")>> \o <<Remove("state")>> \in Seq(Operations)
  BY <1>3, SeqConcat
<1> QED
  BY <1>1, <1>2, <1>3, <1>4 DEF Ends

\* The merger gives a managed configuration, and the same one when merged again.
LEMMA MergedIsManaged ==
  ASSUME NEW c \in MaybeConfig
  PROVE  /\ Merged(c) \in Configs /\ Merged(c).managed
         /\ Merged(Merged(c)) = Merged(c)
<1>1. Merged(c) \in Configs /\ EntriesOf(Merged(c)) = EntriesOf(c)
  BY MergerKeepsEntries
<1> QED
  BY <1>1 DEF Merged

\* The next operation of an install, done or not, keeps what is known of the
\* files and brings the install one step further.
LEMMA InstallStep ==
  ASSUME before \in MaybeConfig, NEW hook \in Hooks, NEW m \in Targets,
         NEW fs, fs = [f \in Files |-> fs[f]], SoundFiles(fs), NEW q, InstallAt(hook, m, fs, q),
         q # <<>>, Head(q).op # "refuse", NEW gs, gs = After(fs, Head(q))
  PROVE  /\ InstallAt(hook, m, gs, q)
         /\ InstallAt(hook, m, gs, Tail(q))
         /\ SoundFiles(gs)
<1> DEFINE E == InstallEnd(hook, m)
           o == Head(q)
<1>1. /\ m \in Configs /\ m # None /\ Managed(m) /\ (Pristine => m = Merged(before))
      /\ hook # None /\ Installing(hook) # None /\ Installed(hook) # None
      /\ ~Managed(None)
  BY NoneIsNothing, WrittenStates DEF Targets, Managed
<1>2. /\ E \in Seq(Operations)
      /\ Write("state", Installing(hook)) \in Operations
      /\ Write("backup", before) \in Operations /\ Refuse \in Operations
  BY <1>1, InstallIsTyped DEF Targets
<1>3. \A f \in Files : gs[f] = IF f = o.file THEN o.content ELSE fs[f]
  BY DEF After
<1>4. {"config", "state", "backup", "binary"} = Files
  BY DEF Files
<1> HIDE DEF o
<1>5. CASE StateLeft(hook, fs, q)
  <2>1. o = Write("state", Installed(hook)) /\ Tail(q) = <<>>
    BY <1>5, ShortTails DEF StateLeft, o
  <2>2. /\ gs["state"] = Installed(hook) /\ gs["config"] = fs["config"]
        /\ gs["backup"] = fs["backup"] /\ gs["binary"] = fs["binary"]
    BY <1>3, <2>1, OperationFields DEF Files
  <2>3. StateLeft(hook, gs, q) /\ InstallDone(hook, gs, Tail(q))
    BY <1>1, <1>5, <2>1, <2>2 DEF StateLeft, InstallDone
  <2>4. SoundFiles(gs)
    BY <1>1, <1>5, <2>2, WrittenStates DEF SoundFiles, StateLeft
  <2> QED
    BY <2>3, <2>4 DEF InstallAt
<1>6. CASE ConfigLeft(hook, m, fs, q)
  <2>1. o = Write("config", m) /\ Tail(q) = <<Write("state", Installed(hook))>>
    BY <1>6, ShortTails DEF ConfigLeft, o
  <2>2. /\ gs["config"] = m /\ gs["state"] = fs["state"]
        /\ gs["backup"] = fs["backup"] /\ gs["binary"] = fs["binary"]
    BY <1>3, <2>1, OperationFields DEF Files
  <2>3. ConfigLeft(hook, m, gs, q) /\ StateLeft(hook, gs, Tail(q))
    BY <1>1, <1>6, <2>1, <2>2 DEF StateLeft, ConfigLeft
  <2>4. SoundFiles(gs)
    BY <1>1, <1>6, <2>2 DEF SoundFiles, ConfigLeft
  <2> QED
    BY <2>3, <2>4 DEF InstallAt
<1>7. CASE ChangesLeft(hook, m, fs, q)
  <2>1. o = Write("binary", hook)
        /\ Tail(q) = <<Write("config", m), Write("state", Installed(hook))>>
    BY <1>7, ShortTails DEF ChangesLeft, InstallEnd, o
  <2>2. /\ gs["binary"] = hook /\ gs["state"] = fs["state"]
        /\ gs["backup"] = fs["backup"] /\ gs["config"] = fs["config"]
    BY <1>3, <2>1, OperationFields DEF Files
  <2>3. ChangesLeft(hook, m, gs, q) /\ ConfigLeft(hook, m, gs, Tail(q))
    BY <1>7, <2>1, <2>2 DEF ChangesLeft, ConfigLeft
  <2>4. SoundFiles(gs)
    BY <1>7, <2>2 DEF SoundFiles, ChangesLeft
  <2> QED
    BY <2>3, <2>4 DEF InstallAt
<1>8. CASE BackupLeft(hook, m, fs, q)
  <2>1. /\ q = <<Write("backup", before)>> \o E /\ o = Write("backup", before) /\ Tail(q) = E
        /\ before # None /\ ~Managed(before) /\ BackupIsDue(fs)
    <3>1. /\ BackupIsDue(fs)
          /\ \/ q = <<Write("backup", before)>> \o E /\ before # None /\ ~Managed(before)
             \/ q = <<Refuse>> \o E
      BY <1>8 DEF BackupLeft
    <3> HIDE DEF E
    <3>2. /\ Head(<<Write("backup", before)>> \o E) = Write("backup", before)
          /\ Tail(<<Write("backup", before)>> \o E) = E
          /\ Head(<<Refuse>> \o E) = Refuse
      BY <1>2, Ahead
    <3> QED
      BY <3>1, <3>2, OperationFields DEF o
  <2>2. /\ gs["backup"] = before /\ gs["state"] = fs["state"]
        /\ gs["binary"] = fs["binary"] /\ gs["config"] = fs["config"]
    BY <1>3, <2>1, OperationFields DEF Files
  <2>3. BackupLeft(hook, m, gs, q) /\ ChangesLeft(hook, m, gs, Tail(q))
    BY <2>1, <2>2 DEF BackupLeft, ChangesLeft, BackupIsDue
  <2>4. SoundFiles(gs)
    BY <2>1, <2>2 DEF SoundFiles, BackupIsDue
  <2> QED
    BY <2>3, <2>4 DEF InstallAt
<1>9. CASE AllLeft(hook, m, fs, q)
  <2>1. PICK rest : /\ q = <<Write("state", Installing(hook))>> \o rest
                    /\ \/ rest = E /\ before = None
                       \/ rest = <<Refuse>> \o E /\ Managed(before)
                       \/ /\ rest = <<Write("backup", before)>> \o E
                          /\ before # None /\ ~Managed(before)
    BY <1>9 DEF AllLeft
  <2> HIDE DEF E
  <2>2. rest \in Seq(Operations)
    <3>1. <<Refuse>> \in Seq(Operations) /\ <<Write("backup", before)>> \in Seq(Operations)
      BY <1>2
    <3> QED
      BY <1>2, <2>1, <3>1, SeqConcat
  <2>3. o = Write("state", Installing(hook)) /\ Tail(q) = rest
    BY <1>2, <2>1, <2>2, Ahead DEF o
  <2>4. /\ gs["state"] = Installing(hook) /\ gs["backup"] = fs["backup"]
        /\ gs["binary"] = fs["binary"] /\ gs["config"] = fs["config"]
    BY <1>3, <2>3, OperationFields DEF Files
  <2>5. AllLeft(hook, m, gs, q)
    BY <1>9, <2>1, <2>4 DEF AllLeft, E
  <2>6. BackupIsDue(gs)
    BY <1>1, <1>9, <2>4, WrittenStates DEF BackupIsDue, AllLeft
  <2>7. ChangesLeft(hook, m, gs, rest) \/ BackupLeft(hook, m, gs, rest)
    BY <1>1, <1>9, <2>1, <2>4, <2>6 DEF AllLeft, ChangesLeft, BackupLeft, E
  <2>8. SoundFiles(gs)
    BY <1>1, <1>9, <2>4, WrittenStates DEF SoundFiles, AllLeft
  <2> QED
    BY <2>3, <2>5, <2>7, <2>8 DEF InstallAt
<1> QED
  BY <1>5, <1>6, <1>7, <1>8, <1>9 DEF InstallAt, InstallDone

\* The next operation of an uninstall; a removal is done and over at once.
LEMMA UninstallStep ==
  ASSUME before \in MaybeConfig, NEW c \in Restorations,
         NEW fs, fs = [f \in Files |-> fs[f]], SoundFiles(fs), NEW q, UninstallAt(c, fs, q),
         q # <<>>, NEW gs, gs = After(fs, Head(q))
  PROVE  /\ Head(q).op # "refuse"
         /\ Head(q).op = "write" => UninstallAt(c, gs, q)
         /\ UninstallAt(c, gs, Tail(q))
         /\ SoundFiles(gs)
<1> DEFINE o == Head(q)
           both == <<Remove("backup")>> \o <<Remove("state")>>
<1>1. c \in MaybeConfig /\ ~Managed(c) /\ (Pristine => c = before)
  BY DEF Restorations
<1>2. /\ Write("backup", before) \in Operations /\ PutBack(c) \in Operations
      /\ Remove("binary") \in Operations /\ Remove("backup") \in Operations
      /\ Ends \subseteq Seq(Operations) /\ <<Remove("state")>> \in Seq(Operations)
      /\ both \in Ends
  BY <1>1, UninstallIsTyped
<1>3. \A f \in Files : gs[f] = IF f = o.file THEN o.content ELSE fs[f]
  BY DEF After
<1> HIDE DEF o, both
<1>4. CASE UninstallEnd(fs, q) /\ RemovalsLeft(fs, q) /\ fs["binary"] = None
  <2>1. CASE q = <<Remove("state")>> /\ fs["backup"] = None
    <3>1. o = Remove("state") /\ Tail(q) = <<>>
      BY <2>1, ShortTails DEF o
    <3>2. /\ gs["state"] = None /\ gs["config"] = fs["config"]
          /\ gs["backup"] = fs["backup"] /\ gs["binary"] = fs["binary"]
      BY <1>3, <3>1, OperationFields DEF Files
    <3>3. UninstallDone(gs, Tail(q))
      BY <1>4, <3>1, <3>2 DEF UninstallDone, RemovalsLeft
    <3>4. SoundFiles(gs)
      BY <1>4, <2>1, <3>2 DEF SoundFiles, RemovalsLeft
    <3> QED
      BY <3>1, <3>3, <3>4, OperationFields DEF UninstallAt, o
  <2>2. CASE q = both /\ fs["state"] # None /\ fs["backup"] = before
    <3>1. o = Remove("backup") /\ Tail(q) = <<Remove("state")>>
      <4> DEFINE last == <<Remove("state")>>
      <4>1. last \in Seq(Operations) /\ q = <<Remove("backup")>> \o last
        BY <1>2, <2>2 DEF both
      <4> HIDE DEF last
      <4>2. o = Remove("backup") /\ Tail(q) = last
        BY <1>2, <4>1, Ahead DEF o
      <4> QED
        BY <4>2 DEF last
    <3>2. /\ gs["backup"] = None /\ gs["config"] = fs["config"]
          /\ gs["state"] = fs["state"] /\ gs["binary"] = fs["binary"]
      BY <1>3, <3>1, OperationFields DEF Files
    <3>3. RemovalsLeft(gs, Tail(q))
      BY <1>4, <3>1, <3>2 DEF RemovalsLeft, UninstallEnd
    <3>4. SoundFiles(gs)
      BY <2>2, <3>2 DEF SoundFiles
    <3> QED
      BY <3>1, <3>3, <3>4, OperationFields DEF UninstallAt, o
  <2> QED
    BY <1>4, <2>1, <2>2 DEF UninstallEnd, both
<1>5. ASSUME RemovalsLeft(fs, q), NEW end \in Ends, q = <<Remove("binary")>> \o end,
             UninstallEnd(fs, end)
      PROVE  /\ o = Remove("binary")
             /\ UninstallAt(c, gs, Tail(q)) /\ SoundFiles(gs)
  <2>1. o = Remove("binary") /\ Tail(q) = end
    BY <1>2, <1>5, Ahead DEF o
  <2>2. /\ gs["binary"] = None /\ gs["config"] = fs["config"]
        /\ gs["state"] = fs["state"] /\ gs["backup"] = fs["backup"]
    BY <1>3, <2>1, OperationFields DEF Files
  <2>3. RemovalsLeft(gs, end)
    BY <1>5, <2>2 DEF RemovalsLeft, UninstallEnd
  <2>4. SoundFiles(gs)
    BY <2>2 DEF SoundFiles
  <2> QED
    BY <2>1, <2>3, <2>4 DEF UninstallAt
<1>6. ASSUME NEW end \in Ends, q = <<PutBack(c), Remove("binary")>> \o end,
             UninstallEnd(fs, end), fs["state"] # None => fs["backup"] = before
      PROVE  /\ o = PutBack(c)
             /\ UninstallAt(c, gs, q) /\ UninstallAt(c, gs, Tail(q)) /\ SoundFiles(gs)
  <2>1. o = PutBack(c) /\ Tail(q) = <<Remove("binary")>> \o end
    BY <1>2, <1>6, Ahead DEF o
  <2>2. o.file = "config" /\ o.content = c
    BY <2>1, OperationFields DEF PutBack
  <2>3. /\ gs["config"] = c /\ gs["binary"] = fs["binary"]
        /\ gs["state"] = fs["state"] /\ gs["backup"] = fs["backup"]
    BY <1>3, <2>2 DEF Files
  <2>4. RestorationLeft(c, gs, q)
    BY <1>6, <2>3 DEF RestorationLeft, UninstallEnd
  <2>5. UninstallEnd(gs, end) /\ (gs["state"] # None => gs["backup"] = before)
    BY <1>6, <2>3 DEF UninstallEnd
  <2>6. RemovalsLeft(gs, Tail(q))
    BY <1>1, <2>1, <2>3, <2>5 DEF RemovalsLeft
  <2>7. SoundFiles(gs)
    BY <1>1, <2>3 DEF SoundFiles
  <2> QED
    BY <2>1, <2>4, <2>6, <2>7 DEF UninstallAt
<1>7. CASE RescueLeft(c, fs, q)
  <2> DEFINE rest == <<PutBack(c), Remove("binary")>> \o both
  <2>1. rest \in Seq(Operations)
    <3>1. <<PutBack(c), Remove("binary")>> \in Seq(Operations) /\ both \in Seq(Operations)
      BY <1>2
    <3> QED
      BY <3>1, SeqConcat
  <2>2. q = <<Write("backup", before)>> \o rest
    BY <1>7 DEF RescueLeft, both
  <2>3. o = Write("backup", before) /\ Tail(q) = rest
    <3> HIDE DEF rest
    <3> QED
      BY <1>2, <2>1, <2>2, Ahead DEF o
  <2>4. /\ gs["backup"] = before /\ gs["config"] = fs["config"]
        /\ gs["state"] = fs["state"] /\ gs["binary"] = fs["binary"]
    BY <1>3, <2>3, OperationFields DEF Files
  <2>5. RescueLeft(c, gs, q)
    BY <1>7, <2>4 DEF RescueLeft, BackupIsDue
  <2>6. UninstallEnd(gs, both)
    BY <1>7, <2>4 DEF UninstallEnd, RescueLeft, BackupIsDue, both
  <2>7. RestorationLeft(c, gs, rest)
    BY <1>2, <2>4, <2>6 DEF RestorationLeft
  <2>8. SoundFiles(gs)
    BY <1>7, <2>4 DEF SoundFiles, RescueLeft, BackupIsDue
  <2>9. Head(q).op = "write"
    BY <2>3, OperationFields DEF o
  <2> HIDE DEF rest
  <2> QED
    BY <2>9, <2>3, <2>5, <2>7, <2>8, OperationFields DEF UninstallAt, o
<1>8. PutBack(c).op # "refuse"
  BY OperationFields DEF PutBack
<1>9. CASE \E end \in Ends : q = <<Remove("binary")>> \o end /\ UninstallEnd(fs, end)
                             /\ RemovalsLeft(fs, q)
  BY <1>5, <1>9, OperationFields DEF o
<1>10. CASE RestorationLeft(c, fs, q)
  BY <1>6, <1>8, <1>10 DEF RestorationLeft, o
<1> QED
  BY <1>4, <1>7, <1>9, <1>10 DEF UninstallAt, UninstallDone, RemovalsLeft
-----------------------------------------------------------------------------
\* A command's next operation writes something, or removes.
LEMMA NextOperation ==
  ASSUME before \in MaybeConfig, NEW fs, NEW q, q # <<>>, Progress(fs, q), command # None,
         Head(q).op # "refuse"
  PROVE  /\ Head(q).op = "write" => Head(q).content # None
         /\ Head(q).op = "remove" => Head(q).content = None
<1>1. /\ \A f, d : Write(f, d).content = d
      /\ \A f, d : d # None => LET o == Write(f, d)
                               IN  o.op = "write" /\ o.content # None
      /\ \A f : LET o == Remove(f) IN o.op = "remove" /\ o.content = None
  BY OperationFields
<1>2. ASSUME NEW hook \in Hooks, NEW m \in Targets, InstallAt(hook, m, fs, q)
      PROVE  \E f, d : d # None /\ Head(q) = Write(f, d)
  <2> DEFINE E == InstallEnd(hook, m)
  <2>1. m \in Configs /\ m # None /\ hook # None /\ Installing(hook) # None
        /\ Installed(hook) # None
    BY NoneIsNothing, WrittenStates DEF Targets
  <2>2. /\ E \in Seq(Operations) /\ <<Refuse>> \o E \in Seq(Operations)
        /\ <<Write("backup", before)>> \o E \in Seq(Operations)
        /\ Write("state", Installing(hook)) \in Operations
        /\ Write("backup", before) \in Operations /\ Refuse \in Operations
    <3>1. /\ E \in Seq(Operations) /\ Refuse \in Operations
          /\ Write("state", Installing(hook)) \in Operations
          /\ Write("backup", before) \in Operations
      BY <2>1, InstallIsTyped
    <3> HIDE DEF E
    <3>2. <<Refuse>> \in Seq(Operations) /\ <<Write("backup", before)>> \in Seq(Operations)
      BY <3>1
    <3> QED
      BY <3>1, <3>2, SeqConcat
  <2>3. CASE StateLeft(hook, fs, q) \/ ConfigLeft(hook, m, fs, q) \/ ChangesLeft(hook, m, fs, q)
    BY <2>1, <2>3, ShortTails DEF StateLeft, ConfigLeft, ChangesLeft, InstallEnd
  <2>4. CASE BackupLeft(hook, m, fs, q)
    <3>1. \/ q = <<Write("backup", before)>> \o E /\ before # None
          \/ q = <<Refuse>> \o E
      BY <2>4 DEF BackupLeft
    <3> HIDE DEF E
    <3>2. /\ Head(<<Write("backup", before)>> \o E) = Write("backup", before)
          /\ Head(<<Refuse>> \o E) = Refuse
      BY <2>2, Ahead
    <3> QED
      BY <3>1, <3>2, OperationFields
  <2>5. CASE AllLeft(hook, m, fs, q)
    <3>1. PICK rest : /\ q = <<Write("state", Installing(hook))>> \o rest
                      /\ rest \in Seq(Operations)
      BY <2>2, <2>5 DEF AllLeft
    <3>2. Head(q) = Write("state", Installing(hook))
      BY <2>2, <3>1, Ahead
    <3> QED
      BY <2>1, <3>2
  <2> QED
    BY <1>2, <2>3, <2>4, <2>5 DEF InstallAt, InstallDone
<1>3. ASSUME NEW c \in Restorations, UninstallAt(c, fs, q)
      PROVE  (\E f, d : d # None /\ Head(q) = Write(f, d)) \/ (\E f : Head(q) = Remove(f))
  <2>1. c \in MaybeConfig
    BY DEF Restorations
  <2>2. /\ Write("backup", before) \in Operations /\ PutBack(c) \in Operations
        /\ Remove("binary") \in Operations /\ Remove("backup") \in Operations
        /\ Ends \subseteq Seq(Operations) /\ <<Remove("state")>> \in Seq(Operations)
    BY <2>1, UninstallIsTyped
  <2>3. CASE UninstallEnd(fs, q)
    <3>1. CASE q = <<Remove("state")>>
      BY <3>1, ShortTails
    <3>2. CASE q = <<Remove("backup")>> \o <<Remove("state")>>
      <4> DEFINE last == <<Remove("state")>>
      <4>1. last \in Seq(Operations) /\ q = <<Remove("backup")>> \o last
        BY <2>2, <3>2
      <4> HIDE DEF last
      <4> QED
        BY <2>2, <4>1, Ahead
    <3> QED
      BY <2>3, <3>1, <3>2 DEF UninstallEnd
  <2>4. ASSUME NEW end \in Ends, q = <<Remove("binary")>> \o end
        PROVE  Head(q) = Remove("binary")
    BY <2>2, <2>4, Ahead
  <2>5. ASSUME NEW end \in Ends, q = <<PutBack(c), Remove("binary")>> \o end
        PROVE  Head(q) = PutBack(c)
    BY <2>2, <2>5, Ahead
  <2>6. CASE RescueLeft(c, fs, q)
    <3> DEFINE both == <<Remove("backup")>> \o <<Remove("state")>>
               rest == <<PutBack(c), Remove("binary")>> \o both
    <3>1. both \in Seq(Operations) /\ <<PutBack(c), Remove("binary")>> \in Seq(Operations)
      BY <2>2 DEF Ends
    <3>2. rest \in Seq(Operations)
      <4> HIDE DEF both
      <4> QED
        BY <3>1, SeqConcat
    <3>3. q = <<Write("backup", before)>> \o rest /\ before # None
      BY <2>6 DEF RescueLeft
    <3> HIDE DEF rest
    <3>4. Head(q) = Write("backup", before)
      BY <2>2, <3>2, <3>3, Ahead
    <3> QED
      BY <3>3, <3>4
  <2> QED
    BY <1>3, <2>3, <2>4, <2>5, <2>6 DEF UninstallAt, UninstallDone, RemovalsLeft,
       RestorationLeft, PutBack
<1>4. (\E f, d : d # None /\ Head(q) = Write(f, d)) \/ (\E f : Head(q) = Remove(f))
  <2>1. q # <<Refuse>>
    BY ShortTails, OperationFields
  <2> QED
    BY <1>2, <1>3, <2>1 DEF Progress, InstallProgress, UninstallProgress
<1> QED
  BY <1>1, <1>4, OperationFields

\* Seen through recoverSwap, a file operation is done at one instant: the
\* others change nothing, or are about what is already there.
LEMMA FileStepEffect ==
  ASSUME TypeInv, SwapsInUse, command # None, FileStep,
         Head(todo).op = "write" => Head(todo).content # None,
         Head(todo).op = "remove" => Head(todo).content = None
  PROVE  /\ todo # <<>> /\ Head(todo).op \in {"write", "remove"}
         /\ \/ Found' = Found /\ todo' = todo
            \/ /\ Found' = After(Found, Head(todo)) /\ todo' = todo
               /\ Head(todo).op = "write"
            \/ Found' = After(Found, Head(todo)) /\ todo' = Tail(todo)
         /\ SwapsInUse'
<1> PICK o : o = Head(todo)
  OBVIOUS
<1> PICK f : f = o.file
  OBVIOUS
<1>1. /\ todo # <<>> /\ File = f /\ UNCHANGED command
      /\ files = [g \in Files |-> files[g]] /\ swaps = [g \in Files |-> swaps[g]]
  BY DEF TypeInv, FileStep, WriteNothing, SetAside, PutInPlace, RemoveSwap, RemoveIfExists,
         Due, File, history
<1>2. f \in Files
  <2>1. todo \in Seq(Operations)
    BY DEF TypeInv
  <2>2. o \in Operations
    BY <1>1, <2>1, SeqTail
  <2> QED
    BY <2>2 DEF Operations
<1>3. \A g \in Files : Found[g] = IF files[g] = None THEN swaps[g] ELSE files[g]
  BY DEF Found, RecoverSwap
<1>4. \A g \in Files : Found'[g] = IF files'[g] = None THEN swaps'[g] ELSE files'[g]
  BY DEF Found, RecoverSwap
<1>5. Found = [g \in Files |-> Found[g]] /\ Found' = [g \in Files |-> Found'[g]]
  BY DEF Found
<1>6. \A g \in Files : swaps[g] # None => o.op = "write" /\ g = f
  BY <1>1 DEF SwapsInUse
<1>7. \A x : /\ \A g \in Files \ {f} : Found'[g] = Found[g]
             /\ Found'[f] = x
             => Found' = [Found EXCEPT ![f] = x]
  BY <1>2, <1>5
<1> HIDE DEF Found
<1>8. CASE WriteNothing
  <2>1. /\ files' = files /\ swaps' = swaps /\ todo' = Tail(todo) /\ o.op = "write"
        /\ files[f] = o.content /\ swaps[f] = None /\ o.content # None
    BY <1>1, <1>8 DEF WriteNothing, Due, Done
  <2>2. Found' = After(Found, o)
    BY <1>2, <1>3, <1>4, <1>7, <2>1 DEF After
  <2>3. SwapsInUse'
    BY <1>6, <2>1 DEF SwapsInUse
  <2> QED
    BY <1>1, <2>1, <2>2, <2>3
<1>9. CASE SetAside
  <2>1. /\ todo' = todo /\ o.op = "write" /\ files[f] # None /\ swaps[f] = None
        /\ swaps' = [swaps EXCEPT ![f] = files[f]] /\ files' = [files EXCEPT ![f] = None]
    BY <1>1, <1>9 DEF SetAside, Due
  <2>2. \A g \in Files : Found'[g] = Found[g]
    BY <1>1, <1>2, <1>3, <1>4, <2>1
  <2>3. Found' = Found
    BY <1>5, <2>2
  <2>4. SwapsInUse'
    BY <1>1, <1>2, <1>6, <2>1 DEF SwapsInUse
  <2> QED
    BY <1>1, <2>1, <2>3, <2>4
<1>10. CASE PutInPlace
  <2>1. /\ todo' = todo /\ o.op = "write" /\ swaps' = swaps /\ o.content # None
        /\ files' = [files EXCEPT ![f] = o.content]
    BY <1>1, <1>10 DEF PutInPlace, Due
  <2>2. Found' = After(Found, o)
    BY <1>1, <1>2, <1>3, <1>4, <1>7, <2>1 DEF After
  <2>3. SwapsInUse'
    BY <1>1, <1>6, <2>1 DEF SwapsInUse
  <2> QED
    BY <1>1, <2>1, <2>2, <2>3
<1>11. CASE RemoveSwap
  <2>1. /\ files' = files /\ todo' = Tail(todo) /\ o.op = "write"
        /\ swaps' = [swaps EXCEPT ![f] = None] /\ files[f] = o.content /\ o.content # None
    BY <1>1, <1>11 DEF RemoveSwap, Due, Done
  <2>2. Found' = After(Found, o)
    BY <1>1, <1>2, <1>3, <1>4, <1>7, <2>1 DEF After
  <2>3. SwapsInUse'
    BY <1>1, <1>2, <1>6, <2>1 DEF SwapsInUse
  <2> QED
    BY <1>1, <2>1, <2>2, <2>3
<1>12. CASE RemoveIfExists
  <2>1. /\ todo' = Tail(todo) /\ o.op = "remove" /\ swaps' = swaps
        /\ files' = [files EXCEPT ![f] = None]
    BY <1>1, <1>12 DEF RemoveIfExists, Due, Done
  <2>2. \A g \in Files : swaps[g] = None
    BY <1>6, <2>1
  <2>3. Found' = After(Found, o)
    BY <1>1, <1>2, <1>3, <1>4, <1>7, <2>1, <2>2 DEF After
  <2>4. SwapsInUse'
    BY <2>1, <2>2 DEF SwapsInUse
  <2> QED
    BY <1>1, <2>1, <2>3, <2>4
<1> QED
  BY <1>8, <1>9, <1>10, <1>11, <1>12 DEF FileStep

-----------------------------------------------------------------------------
\* An install over nothing has everything left to do, and what it has read is
\* what the uninstall will put back.
LEMMA FirstInstallBegins ==
  ASSUME NEW fs, WellTyped(fs), SoundFiles(fs), fs["state"] = None, NEW hook \in Hooks,
         before' = fs["config"], edited' = FALSE
  PROVE  /\ SoundFiles(fs)'
         /\ \E m \in Targets' : InstallAt(hook, m, fs, FirstInstall(fs, hook))'
<1> PICK c : c = fs["config"]
  OBVIOUS
<1> DEFINE fresh == [phase |-> "installing", original |-> c, hook |-> hook]
           end == [fresh EXCEPT !.phase = "installed"]
           first == <<Write("state", fresh)>>
           e == EnsureBackup(fresh, c, None)
           last == <<Write("binary", hook), Write("config", Merged(c)), Write("state", end)>>
<1>1. c \in MaybeConfig /\ fs["backup"] = None /\ fs["binary"] = None
  BY DEF WellTyped, ContentOf, Files, SoundFiles
<1>2. /\ fresh \in States /\ end \in States
      /\ fresh.original = c /\ fresh.phase = "installing"
      /\ Installing(hook)' = fresh /\ Installed(hook)' = end
  BY <1>1 DEF States, MaybeConfig, Installing, Installed
<1>3. /\ Write("state", fresh) \in Operations /\ Write("state", end) \in Operations
      /\ Write("binary", hook) \in Operations /\ Write("config", Merged(c)) \in Operations
      /\ Write("backup", c) \in Operations /\ Refuse \in Operations
  BY <1>1, <1>2, MergerKeepsEntries, OperationsAreTyped DEF ContentOf, Files, MaybeConfig
<1>4. e = IF c = None THEN <<>> ELSE IF Managed(c) THEN <<Refuse>> ELSE <<Write("backup", c)>>
  BY <1>2 DEF EnsureBackup, BackupRefused, Managed
<1>5. FirstInstall(fs, hook) = (first \o e) \o last
  BY DEF FirstInstall
<1>6. last = InstallEnd(hook, Merged(c))'
  BY <1>2 DEF InstallEnd
<1>7. e \in Seq(Operations) /\ last \in Seq(Operations) /\ first \in Seq(Operations)
  <2>1. last \in Seq(Operations) /\ first \in Seq(Operations)
    <3> HIDE DEF fresh, end
    <3> QED
      BY <1>3
  <2>2. <<>> \in Seq(Operations) /\ <<Refuse>> \in Seq(Operations)
        /\ <<Write("backup", c)>> \in Seq(Operations)
    BY <1>3
  <2> HIDE DEF e
  <2> QED
    BY <1>4, <2>1, <2>2
<1>8. first = <<Write("state", Installing(hook)')>>
  BY <1>2
<1> HIDE DEF e, last, first, fresh, end
<1>9. FirstInstall(fs, hook) = first \o (e \o last)
  BY <1>5, <1>7, Regroup, SMTT(30)
<1>10. \/ c = None /\ e \o last = last
       \/ Managed(c) /\ e \o last = <<Refuse>> \o last
       \/ c # None /\ ~Managed(c) /\ e \o last = <<Write("backup", c)>> \o last
  BY <1>4, <1>7, Regroup
<1>11. AllLeft(hook, Merged(c), fs, FirstInstall(fs, hook))'
  BY <1>1, <1>6, <1>8, <1>9, <1>10 DEF AllLeft, Managed
<1>12. Merged(c) \in Targets'
  BY <1>1, MergedIsManaged DEF Targets
<1>13. SoundFiles(fs)'
  BY <1>1 DEF SoundFiles
<1> QED
  BY <1>11, <1>12, <1>13 DEF InstallAt

\* ensureBackup, when it does not refuse, has nothing to do or has the backup
\* to write before anything is changed.
LEMMA BackupFirst ==
  ASSUME NEW fs, WellTyped(fs), SoundFiles(fs), fs["state"] # None,
         ~BackupRefused(fs["state"], fs["config"], fs["backup"]),
         NEW e, e = EnsureBackup(fs["state"], fs["config"], fs["backup"])
  PROVE  \/ e = <<>> /\ fs["backup"] = before
         \/ /\ e = <<Write("backup", before)>> /\ fs["config"] = before
            /\ before # None /\ ~Managed(before) /\ BackupIsDue(fs)
<1>1. fs["state"].original = before /\ fs["backup"] \in {None, before}
  BY DEF SoundFiles
<1> QED
  BY <1>1 DEF EnsureBackup, BackupRefused, BackupIsDue

\* An install over an earlier one, whole or cut.
LEMMA InstallAgainBegins ==
  ASSUME before \in MaybeConfig, NEW fs, WellTyped(fs), SoundFiles(fs), fs["state"] # None,
         ~InstallRefused(fs), NEW hook \in Hooks
  PROVE  \E m \in Targets : InstallAt(hook, m, fs, InstallAgain(fs, hook))
<1> PICK c : c = fs["config"]
  OBVIOUS
<1> PICK s : s = fs["state"]
  OBVIOUS
<1> DEFINE e == EnsureBackup(s, c, fs["backup"])
           done == [s EXCEPT !.phase = "installed", !.hook = hook]
           over == c = Merged(c) /\ fs["binary"] = hook /\ s = done
           last == <<Write("binary", hook), Write("config", Merged(c)), Write("state", done)>>
<1>1. c \in MaybeConfig /\ s \in States /\ s.original = before
  BY DEF WellTyped, ContentOf, Files, SoundFiles
<1>2. done = Installed(hook)
  <2>1. done \in States /\ Installed(hook) \in States
    BY <1>1, WrittenStates DEF States
  <2>2. done.phase = "installed" /\ done.original = before /\ done.hook = hook
    BY <1>1 DEF States
  <2>3. \A t \in States, u \in States :
          t.phase = u.phase /\ t.original = u.original /\ t.hook = u.hook => t = u
    BY DEF States
  <2> HIDE DEF done
  <2> QED
    BY <2>1, <2>2, <2>3, WrittenStates
<1>3. \/ e = <<>> /\ fs["backup"] = before
      \/ /\ e = <<Write("backup", before)>> /\ before # None /\ ~Managed(before)
         /\ BackupIsDue(fs)
  BY BackupFirst DEF InstallRefused, UninstallRefused
<1>4. BackupIsDue(fs) => ~over
  BY <1>2, WrittenStates DEF BackupIsDue
<1>5. InstallAgain(fs, hook) = e \o (IF over THEN <<>> ELSE last)
  BY DEF InstallAgain
<1>6. last = InstallEnd(hook, Merged(c)) /\ last \in Seq(Operations)
  <2>1. Merged(c) \in Configs
    BY <1>1, MergedIsManaged
  <2>2. InstallEnd(hook, Merged(c)) \in Seq(Operations)
    BY <2>1, InstallIsTyped
  <2> QED
    BY <1>2, <2>2 DEF InstallEnd
<1>7. Merged(c) \in Targets
  <2>1. Pristine => c \in {before, Merged(before)}
    BY DEF SoundFiles
  <2>2. Merged(c) \in Configs /\ Merged(c).managed /\ Merged(Merged(before)) = Merged(before)
    BY <1>1, MergedIsManaged
  <2> QED
    BY <2>1, <2>2 DEF Targets
<1>8. CASE e = <<>> /\ fs["backup"] = before /\ over
  <2>1. InstallAgain(fs, hook) = <<>>
    BY <1>5, <1>8
  <2>2. Managed(c)
    BY <1>1, <1>7, <1>8, NoneIsNothing DEF Targets, Managed
  <2>3. InstallDone(hook, fs, <<>>)
    BY <1>2, <1>8, <2>2 DEF InstallDone
  <2> QED
    BY <1>7, <2>1, <2>3 DEF InstallAt
<1> HIDE DEF e, last, over
<1>9. CASE e = <<>> /\ fs["backup"] = before /\ ~over
  <2>1. InstallAgain(fs, hook) = last
    BY <1>5, <1>6, <1>9, Regroup
  <2>2. ChangesLeft(hook, Merged(c), fs, last)
    BY <1>6, <1>9 DEF ChangesLeft
  <2> QED
    BY <1>7, <2>1, <2>2 DEF InstallAt
<1>10. CASE e = <<Write("backup", before)>> /\ before # None /\ ~Managed(before)
            /\ BackupIsDue(fs)
  <2>1. InstallAgain(fs, hook) = <<Write("backup", before)>> \o InstallEnd(hook, Merged(c))
    BY <1>4, <1>5, <1>6, <1>10
  <2>2. BackupLeft(hook, Merged(c), fs, InstallAgain(fs, hook))
    BY <1>10, <2>1 DEF BackupLeft
  <2> QED
    BY <1>7, <2>2 DEF InstallAt
<1> QED
  BY <1>3, <1>8, <1>9, <1>10

\* What an uninstall puts back is not managed, and is what the first install
\* found if nobody wrote.
LEMMA RestoredIsSound ==
  ASSUME before \in MaybeConfig, NEW fs, WellTyped(fs), SoundFiles(fs),
         NEW s, s = fs["state"], NEW c, c = fs["config"],
         s # None => ~Managed(before)
  PROVE  s # None \/ Managed(c) => Restored(s, Cleaned(c)) \in Restorations
<1>1. c \in MaybeConfig /\ s \in States \cup {None} /\ Cleaned(c) \in MaybeConfig
  BY MergerKeepsEntries DEF WellTyped, ContentOf, Files
<1>2. Restored(s, Cleaned(c)) \in MaybeConfig
  BY <1>1, RestoredKeepsEntries
<1>3. ~Managed(Cleaned(c))
  BY NoneIsNothing DEF Cleaned, Managed
<1>4. ~Managed(Restored(s, Cleaned(c)))
  BY <1>3, NoneIsNothing DEF Restored, SoundFiles
<1>5. ASSUME Pristine, s # None
      PROVE  Restored(s, Cleaned(c)) = before
  <2>1. /\ s.original = before /\ c \in {before, Merged(before)}
        /\ before = None \/ (before \in Configs /\ before.hooks /\ ~before.managed)
    BY <1>5 DEF SoundFiles, Pristine, MaybeConfig
  <2>2. CASE before = None
    <3>1. c = None \/ c = [entries |-> {}, hooks |-> TRUE, managed |-> TRUE, own |-> FALSE]
      BY <2>1, <2>2 DEF Merged, EntriesOf
    <3>2. Cleaned(c) = None \/ OnlyEmptyHooks(Cleaned(c))
      BY <1>1, <3>1, NoneIsNothing DEF Cleaned, OnlyEmptyHooks, EntriesOf
    <3> QED
      BY <1>5, <2>1, <2>2, <3>2 DEF Restored
  <2>3. CASE before \in Configs /\ before.hooks /\ ~before.managed
    <3> DEFINE d == [entries |-> before.entries, hooks |-> TRUE, managed |-> FALSE, own |-> FALSE]
    <3>1. before # None /\ EntriesOf(before) = before.entries /\ Merged(before) # None
      BY <2>3, MergedIsManaged, NoneIsNothing DEF EntriesOf, MaybeConfig
    <3>2. c # None /\ c.entries = before.entries /\ c.hooks = TRUE
      BY <2>1, <2>3, <3>1 DEF Merged, Configs
    <3>3. Cleaned(c) = d
      BY <3>2 DEF Cleaned
    <3>4. [d EXCEPT !.own = before.own] = before
      <4> DEFINE R == [entries : EntrySets, hooks : BOOLEAN, managed : BOOLEAN, own : BOOLEAN]
                 x == [d EXCEPT !.own = before.own]
      <4>1. before \in R /\ d \in R /\ x \in R
        BY <2>3 DEF Configs
      <4>2. /\ x.entries = before.entries /\ x.hooks = TRUE /\ x.managed = FALSE
            /\ x.own = before.own /\ before.hooks = TRUE /\ before.managed = FALSE
        BY <2>3, <4>1
      <4>3. \A t \in R, u \in R : /\ t.entries = u.entries /\ t.hooks = u.hooks
                                  /\ t.managed = u.managed /\ t.own = u.own
                                  => t = u
        OBVIOUS
      <4> HIDE DEF x, R
      <4>4. x = before
        BY <4>1, <4>2, <4>3
      <4> QED
        BY <4>4 DEF x
    <3>5. d \in Configs
      BY <2>3 DEF Configs
    <3>6. d # None
      BY <3>5, NoneIsNothing
    <3> QED
      BY <1>5, <2>1, <3>1, <3>3, <3>4, <3>6 DEF Restored, SameMeaning
  <2> QED
    BY <2>1, <2>2, <2>3
<1>6. ASSUME Pristine, s = None, Managed(c)
      PROVE  FALSE
  BY <1>6, NoneIsNothing DEF SoundFiles, Pristine, Managed
<1> QED
  BY <1>2, <1>4, <1>5, <1>6 DEF Restorations

\* An uninstall has nothing to do, or everything.
LEMMA UninstallBegins ==
  ASSUME before \in MaybeConfig, NEW fs, WellTyped(fs), SoundFiles(fs), ~UninstallRefused(fs)
  PROVE  UninstallProgress(fs, UninstallOperations(fs))
<1> PICK c : c = fs["config"]
  OBVIOUS
<1> PICK s : s = fs["state"]
  OBVIOUS
<1> PICK r : r = Restored(s, Cleaned(c))
  OBVIOUS
<1> DEFINE change == <<PutBack(r), Remove("binary")>>
           last == <<Remove("state")>>
           both == <<Remove("backup")>> \o last
           e == EnsureBackup(s, c, fs["backup"])
           forget == IF s # None /\ s.original # None THEN <<Remove("backup")>> ELSE <<>>
           all == (((IF s = None THEN <<>> ELSE e) \o change) \o forget) \o last
           end == IF s # None /\ before # None THEN both ELSE last
<1>1. /\ c \in MaybeConfig /\ s \in States \cup {None}
      /\ s = None => fs["backup"] = None /\ fs["binary"] = None
      /\ s # None => s.original = before
  BY DEF WellTyped, ContentOf, Files, SoundFiles
<1>2. r \in MaybeConfig
  BY <1>1, RestoredKeepsEntries
<1>3. CASE s = None /\ ~Managed(c)
  <2>1. UninstallOperations(fs) = <<>>
    BY <1>3 DEF UninstallOperations
  <2>2. UninstallDone(fs, <<>>)
    BY <1>3 DEF UninstallDone
  <2>3. \E d : d \in Restorations
    <3>1. CASE Pristine
      BY <3>1, NoneIsNothing DEF Restorations, Pristine, Managed
    <3>2. CASE ~Pristine
      BY <3>2, NoneIsNothing DEF Restorations
    <3> QED
      BY <3>1, <3>2
  <2> QED
    BY <2>1, <2>2, <2>3 DEF UninstallProgress, UninstallAt
<1>4. CASE s # None \/ Managed(c)
  <2>1. UninstallOperations(fs) = all
    BY <1>4 DEF UninstallOperations, PutBack
  <2>2. /\ change \in Seq(Operations) /\ last \in Seq(Operations) /\ both \in Seq(Operations)
        /\ forget \in Seq(Operations) /\ <<Write("backup", before)>> \in Seq(Operations)
        /\ both \in Ends /\ last \in Ends
    <3>1. /\ PutBack(r) \in Operations /\ Remove("binary") \in Operations
          /\ Remove("backup") \in Operations /\ Write("backup", before) \in Operations
          /\ last \in Seq(Operations) /\ both \in Ends /\ Ends \subseteq Seq(Operations)
      BY <1>2, UninstallIsTyped
    <3>2. last \in Ends
      BY DEF Ends
    <3>3. forget \in Seq(Operations) /\ <<Write("backup", before)>> \in Seq(Operations)
          /\ change \in Seq(Operations)
      <4> HIDE DEF last, both
      <4> QED
        BY <3>1
    <3> QED
      BY <3>1, <3>2, <3>3
  <2>3. forget \o last = end
    <3>1. forget = IF s # None /\ before # None THEN <<Remove("backup")>> ELSE <<>>
      BY <1>1
    <3> HIDE DEF forget, last
    <3> QED
      BY <2>2, <3>1, Regroup
  <2>4. \/ s = None
        \/ e = <<>> /\ fs["backup"] = before
        \/ /\ e = <<Write("backup", before)>> /\ before # None /\ ~Managed(before)
           /\ BackupIsDue(fs)
    BY BackupFirst DEF UninstallRefused
  <2>5. (UninstallEnd(fs, end) /\ end \in Ends) \/ (e = <<Write("backup", before)>> /\ s # None)
    <3>1. UninstallEnd(fs, end) \/ (e = <<Write("backup", before)>> /\ s # None)
      BY <1>1, <2>4 DEF UninstallEnd
    <3> HIDE DEF both, last
    <3> QED
      BY <2>2, <3>1
  <2>6. s # None => ~Managed(before)
    BY <2>4, NoneIsNothing DEF SoundFiles
  <2>7. r \in Restorations
    BY <1>4, <2>6, RestoredIsSound
  <2>8. CASE s = None \/ (e = <<>> /\ fs["backup"] = before)
    <3>1. all = change \o end
      <4>1. all = ((<<>> \o change) \o forget) \o last
        BY <2>8
      <4> HIDE DEF all, change, forget, last, end
      <4>2. <<>> \o change = change /\ (change \o forget) \o last = change \o (forget \o last)
        BY <2>2, Regroup
      <4> QED
        BY <2>3, <4>1, <4>2
    <3>2. UninstallEnd(fs, end) /\ end \in Ends /\ (s # None => fs["backup"] = before)
      BY <2>5, <2>8
    <3> HIDE DEF all, end
    <3>3. RestorationLeft(r, fs, all)
      BY <3>1, <3>2 DEF RestorationLeft
    <3> QED
      BY <2>1, <2>7, <3>3 DEF UninstallProgress, UninstallAt
  <2>9. CASE /\ s # None /\ e = <<Write("backup", before)>>
             /\ before # None /\ ~Managed(before) /\ BackupIsDue(fs)
    <3>1. all = <<Write("backup", before)>> \o (change \o both)
      <4> DEFINE w == <<Write("backup", before)>>
      <4>1. all = ((w \o change) \o forget) \o last /\ end = both /\ w \in Seq(Operations)
        BY <2>2, <2>9
      <4> HIDE DEF all, change, forget, last, end, w, both
      <4>2. \A x, y, z \in Seq(Operations) : (x \o y) \o z = x \o (y \o z)
        BY Regroup
      <4>3. change \o forget \in Seq(Operations)
        BY <2>2, SeqConcat
      <4>4. (w \o change) \o forget = w \o (change \o forget)
        BY <2>2, <4>1, <4>2, Zenon
      <4>5. (w \o (change \o forget)) \o last = w \o ((change \o forget) \o last)
        <5>1. \A y \in Seq(Operations) : (w \o y) \o last = w \o (y \o last)
          BY <2>2, <4>1, <4>2, ZenonT(40)
        <5> QED
          BY <4>3, <5>1, Zenon
      <4>6. (change \o forget) \o last = change \o (forget \o last)
        BY <2>2, Regroup
      <4> QED
        BY <2>3, <4>1, <4>4, <4>5, <4>6 DEF w
    <3> HIDE DEF all
    <3>2. RescueLeft(r, fs, all)
      BY <2>9, <3>1 DEF RescueLeft
    <3> QED
      BY <2>1, <2>7, <3>2 DEF UninstallProgress, UninstallAt
  <2> QED
    BY <2>4, <2>8, <2>9
<1> QED
  BY <1>3, <1>4
-----------------------------------------------------------------------------
\* What is known of the files stays so while none of them changes, and when the
\* user writes hooks.json.
LEMMA FilesCarried ==
  ASSUME NEW fs, NEW gs, \A f \in Files \ {"config"} : gs[f] = fs[f],
         before' = before,
         (gs["config"] = fs["config"] /\ edited' = edited) \/ edited' = TRUE
  PROVE  /\ SoundFiles(fs) => SoundFiles(gs)'
         /\ BackupIsDue(fs) => BackupIsDue(gs)'
         /\ cut' = cut /\ Resumable(fs) => Resumable(gs)'
         /\ Pristine' => Pristine /\ gs["config"] = fs["config"]
<1>1. /\ gs["state"] = fs["state"] /\ gs["backup"] = fs["backup"]
      /\ gs["binary"] = fs["binary"]
  BY DEF Files
<1>2. Pristine' => Pristine /\ gs["config"] = fs["config"]
  BY DEF Pristine
<1>3. SoundFiles(fs) => SoundFiles(gs)'
  BY <1>1, <1>2 DEF SoundFiles
<1>4. BackupIsDue(fs) => BackupIsDue(gs)'
  BY <1>1 DEF BackupIsDue
<1>5. cut' = cut /\ Resumable(fs) => Resumable(gs)'
  BY <1>1, <1>4 DEF Resumable
<1> QED
  BY <1>2, <1>3, <1>4, <1>5

\* And so does what a command has left to do, if the write is known as a race.
LEMMA ProgressCarried ==
  ASSUME NEW fs, NEW gs, \A f \in Files \ {"config"} : gs[f] = fs[f],
         before' = before,
         \/ gs["config"] = fs["config"] /\ edited' = edited /\ raced' = raced
         \/ edited' = TRUE /\ raced' = TRUE,
         NEW q
  PROVE  /\ InstallProgress(fs, q) => InstallProgress(gs, q)'
         /\ UninstallProgress(fs, q) => UninstallProgress(gs, q)'
<1>1. /\ gs["state"] = fs["state"] /\ gs["backup"] = fs["backup"]
      /\ gs["binary"] = fs["binary"]
  BY DEF Files
<1>2. /\ BackupIsDue(fs) => BackupIsDue(gs)'
      /\ Pristine' => Pristine /\ gs["config"] = fs["config"]
  BY FilesCarried
<1>3. /\ \A hook : Installing(hook)' = Installing(hook) /\ Installed(hook)' = Installed(hook)
      /\ \A hook, m : InstallEnd(hook, m)' = InstallEnd(hook, m)
  BY DEF Installing, Installed, InstallEnd
<1>4. raced' \/ (raced' = raced /\ gs["config"] = fs["config"])
  OBVIOUS
<1>5. ASSUME NEW hook \in Hooks, NEW m \in Targets, InstallAt(hook, m, fs, q)
      PROVE  m \in Targets' /\ InstallAt(hook, m, gs, q)'
  <2>1. m \in Targets'
    BY <1>2 DEF Targets
  <2>2. InstallDone(hook, fs, q) => InstallDone(hook, gs, q)'
    BY <1>1, <1>3, <1>4 DEF InstallDone
  <2>3. StateLeft(hook, fs, q) => StateLeft(hook, gs, q)'
    BY <1>1, <1>3, <1>4 DEF StateLeft
  <2>4. ConfigLeft(hook, m, fs, q) => ConfigLeft(hook, m, gs, q)'
    BY <1>1, <1>3 DEF ConfigLeft
  <2>5. ChangesLeft(hook, m, fs, q) => ChangesLeft(hook, m, gs, q)'
    BY <1>1, <1>3 DEF ChangesLeft
  <2>6. BackupLeft(hook, m, fs, q) => BackupLeft(hook, m, gs, q)'
    BY <1>2, <1>3 DEF BackupLeft
  <2>7. AllLeft(hook, m, fs, q) => AllLeft(hook, m, gs, q)'
    <3>1. edited \/ fs["config"] = before => edited' \/ gs["config"] = before'
      OBVIOUS
    <3> QED
      BY <1>1, <1>3, <3>1 DEF AllLeft
  <2> QED
    BY <1>5, <2>1, <2>2, <2>3, <2>4, <2>5, <2>6, <2>7 DEF InstallAt
<1>6. \A end : UninstallEnd(fs, end) => UninstallEnd(gs, end)'
  BY <1>1 DEF UninstallEnd
<1>7. ASSUME NEW c \in Restorations, UninstallAt(c, fs, q)
      PROVE  c \in Restorations' /\ UninstallAt(c, gs, q)'
  <2>1. c \in Restorations'
    BY <1>2 DEF Restorations
  <2>2. UninstallDone(fs, q) => UninstallDone(gs, q)'
    BY <1>1, <1>4 DEF UninstallDone
  <2>3. RemovalsLeft(fs, q) => RemovalsLeft(gs, q)'
    <3>1. raced \/ ~Managed(fs["config"]) => raced' \/ ~Managed(gs["config"])
      BY <1>4
    <3>2. (Pristine => fs["config"] = before) => (Pristine' => gs["config"] = before')
      BY <1>2
    <3> QED
      BY <1>1, <1>6, <3>1, <3>2 DEF RemovalsLeft
  <2>4. RestorationLeft(c, fs, q) => RestorationLeft(c, gs, q)'
    BY <1>1, <1>6 DEF RestorationLeft
  <2>5. RescueLeft(c, fs, q) => RescueLeft(c, gs, q)'
    BY <1>2 DEF RescueLeft
  <2> QED
    BY <1>7, <2>1, <2>2, <2>3, <2>4, <2>5 DEF UninstallAt
<1> QED
  BY <1>5, <1>7 DEF InstallProgress, UninstallProgress

\* Wherever a command stops, its backup was written, or may still be, or the
\* state was next to go.
LEMMA Stopped ==
  ASSUME before \in MaybeConfig, NEW fs, SoundFiles(fs), NEW q, q # <<>>, Progress(fs, q),
         command # None
  PROVE  \/ q = <<Refuse>> /\ Resumable(fs)
         \/ fs["state"] # None =>
              \/ fs["backup"] = before
              \/ fs["backup"] = None /\ (BackupIsDue(fs) \/ Head(q) = Remove("state"))
<1>1. fs["backup"] \in {None, before}
  BY DEF SoundFiles
<1>2. ASSUME NEW hook \in Hooks, NEW m \in Targets, InstallAt(hook, m, fs, q),
             fs["state"] # None
      PROVE  fs["backup"] = before \/ BackupIsDue(fs)
  <2>1. AllLeft(hook, m, fs, q) => BackupIsDue(fs)
    BY <1>2, WrittenStates DEF AllLeft, BackupIsDue
  <2> QED
    BY <1>2, <2>1 DEF InstallAt, InstallDone, StateLeft, ConfigLeft, ChangesLeft, BackupLeft
<1>3. ASSUME NEW c \in Restorations, UninstallAt(c, fs, q), fs["state"] # None
      PROVE  fs["backup"] = before \/ BackupIsDue(fs) \/ Head(q) = Remove("state")
  <2>1. UninstallEnd(fs, q) => fs["backup"] = before \/ Head(q) = Remove("state")
    BY ShortTails DEF UninstallEnd
  <2> QED
    BY <1>3, <2>1 DEF UninstallAt, UninstallDone, RemovalsLeft, RestorationLeft, RescueLeft
<1> QED
  BY <1>1, <1>2, <1>3 DEF Progress, InstallProgress, UninstallProgress

\* A command with nothing left to do has done it all.
LEMMA Finished ==
  ASSUME before \in MaybeConfig, NEW fs, Progress(fs, <<>>), command # None
  PROVE  \/ command = "install" /\ \E hook \in Hooks : InstallDone(hook, fs, <<>>)
         \/ command = "uninstall" /\ UninstallDone(fs, <<>>)
<1> PICK q : q = <<>>
  OBVIOUS
<1>1. \A S : \A s \in Seq(S), a \in S, b \in S : <<a>> \o s # q /\ <<b, a>> \o s # q
  BY Ahead
<1>2. q # <<Refuse>> /\ q # <<Remove("state")>>
  OBVIOUS
<1>3. ASSUME NEW hook \in Hooks, NEW m \in Targets, InstallAt(hook, m, fs, q)
      PROVE  InstallDone(hook, fs, q)
  <2> DEFINE E == InstallEnd(hook, m)
  <2>1. m \in Configs
    BY DEF Targets
  <2>2. /\ E \in Seq(Operations) /\ <<Refuse>> \o E \in Seq(Operations)
        /\ <<Write("backup", before)>> \o E \in Seq(Operations)
        /\ Write("state", Installing(hook)) \in Operations
        /\ Write("backup", before) \in Operations /\ Refuse \in Operations
    <3>1. /\ E \in Seq(Operations) /\ Refuse \in Operations
          /\ Write("state", Installing(hook)) \in Operations
          /\ Write("backup", before) \in Operations
      BY <2>1, InstallIsTyped
    <3> HIDE DEF E
    <3>2. <<Refuse>> \in Seq(Operations) /\ <<Write("backup", before)>> \in Seq(Operations)
      BY <3>1
    <3> QED
      BY <3>1, <3>2, SeqConcat
  <2>3. ~StateLeft(hook, fs, q) /\ ~ConfigLeft(hook, m, fs, q) /\ ~ChangesLeft(hook, m, fs, q)
    BY ShortTails DEF StateLeft, ConfigLeft, ChangesLeft, InstallEnd
  <2>4. ~BackupLeft(hook, m, fs, q)
    <3>1. <<Write("backup", before)>> \o E # q /\ <<Refuse>> \o E # q
      <4> HIDE DEF E
      <4> QED
        BY <1>1, <2>2
    <3> QED
      BY <3>1 DEF BackupLeft
  <2>5. ~AllLeft(hook, m, fs, q)
    <3>1. \A rest \in Seq(Operations) : <<Write("state", Installing(hook))>> \o rest # q
      BY <1>1, <2>2
    <3> QED
      BY <2>2, <3>1 DEF AllLeft
  <2> QED
    BY <1>3, <2>3, <2>4, <2>5 DEF InstallAt
<1>4. ASSUME NEW c \in Restorations, UninstallAt(c, fs, q)
      PROVE  UninstallDone(fs, q)
  <2>1. c \in MaybeConfig
    BY DEF Restorations
  <2>2. /\ Write("backup", before) \in Operations /\ PutBack(c) \in Operations
        /\ Remove("binary") \in Operations /\ Remove("backup") \in Operations
        /\ Ends \subseteq Seq(Operations) /\ <<Remove("state")>> \in Seq(Operations)
    BY <2>1, UninstallIsTyped
  <2>3. ~UninstallEnd(fs, q)
    <3> DEFINE last == <<Remove("state")>>
    <3>1. last \in Seq(Operations)
      BY <2>2
    <3>2. UninstallEnd(fs, q) => q = last \/ q = <<Remove("backup")>> \o last
      BY DEF UninstallEnd
    <3>3. q # last
      BY <1>2
    <3> HIDE DEF last
    <3> QED
      BY <1>1, <2>2, <3>1, <3>2, <3>3
  <2>4. ~RemovalsLeft(fs, q)
    BY <1>1, <2>2, <2>3 DEF RemovalsLeft
  <2>5. ~RestorationLeft(c, fs, q)
    BY <1>1, <2>2 DEF RestorationLeft
  <2>6. ~RescueLeft(c, fs, q)
    <3> DEFINE both == <<Remove("backup")>> \o <<Remove("state")>>
               rest == <<PutBack(c), Remove("binary")>> \o both
    <3>1. both \in Seq(Operations) /\ <<PutBack(c), Remove("binary")>> \in Seq(Operations)
      BY <2>1, <2>2, UninstallIsTyped
    <3>2. rest \in Seq(Operations)
      <4> HIDE DEF both
      <4> QED
        BY <3>1, SeqConcat
    <3>3. RescueLeft(c, fs, q) => q = <<Write("backup", before)>> \o rest
      BY DEF RescueLeft
    <3> HIDE DEF rest
    <3> QED
      BY <1>1, <2>2, <3>2, <3>3
  <2> QED
    BY <1>4, <2>3, <2>4, <2>5, <2>6 DEF UninstallAt
<1> QED
  BY <1>2, <1>3, <1>4 DEF Progress, InstallProgress, UninstallProgress
-----------------------------------------------------------------------------
\* Nothing is installed at first.
LEMMA InitProgress == Init => ProgressInv
<1> SUFFICES ASSUME Init PROVE ProgressInv
  OBVIOUS
<1>1. PICK c \in {d \in Configs : d.own} \cup {None} :
        /\ files = [f \in Files |-> IF f = "config" THEN c ELSE None]
        /\ before = c
  BY DEF Init
<1>2. \A f \in Files : Found[f] = IF f = "config" THEN c ELSE None
  BY <1>1 DEF Init, Found, RecoverSwap
<1>3. command = None /\ result = None /\ before = c /\ c \in MaybeConfig
  BY <1>1 DEF Init, MaybeConfig
<1>4. SoundFiles(Found) /\ Resumable(Found)
  BY <1>2, <1>3 DEF SoundFiles, Resumable, Files
<1> QED
  BY <1>3, <1>4, NoneIsNothing DEF ProgressInv, SwapsInUse, Progress, CommandsComplete

\* What is found when nothing is set aside is what is there.
LEMMA FoundFiles ==
  ASSUME TypeInv, \A f \in Files : swaps[f] = None
  PROVE  Found = files
BY DEF TypeInv, Found, RecoverSwap

\* A command begins with what was found.
LEMMA BeginHolds ==
  ASSUME IInv, NEW name \in {"install", "uninstall"}, NEW operations, Begin(name, operations)
  PROVE  /\ Found' = Found /\ command' = name /\ todo' = operations /\ command' # None
         /\ SwapsInUse' /\ (command' # None => result' = None) /\ CommandsComplete'
<1>1. Found' = Found
  BY DEF Begin, Found, RecoverSwap, Files
<1>2. SwapsInUse'
  BY DEF Begin, SwapsInUse
<1> QED
  BY <1>1, <1>2, NoneIsNothing DEF Begin, CommandsComplete

\* An install begins.
LEMMA BeginInstallProgress == IInv /\ ProgressInv /\ BeginInstall => ProgressInv'
<1> SUFFICES ASSUME IInv, ProgressInv, BeginInstall PROVE ProgressInv'
  OBVIOUS
<1>1. PICK hook \in Hooks : Begin("install", InstallOperations(Found, hook))
  BY DEF BeginInstall
<1>2. PICK fs : fs = Found
  OBVIOUS
<1>3. /\ command = None /\ before \in MaybeConfig /\ SoundFiles(fs) /\ Resumable(fs)
      /\ UNCHANGED <<raced, cut>>
  BY <1>1, <1>2, InstallerAssumption DEF ProgressInv, Progress, Begin, BeginInstall
<1>4. WellTyped(fs)
  BY <1>2, FoundIsTyped DEF IInv
<1>5. /\ Found' = fs /\ command' = "install" /\ todo' = InstallOperations(fs, hook)
      /\ command' # None /\ SwapsInUse' /\ (command' # None => result' = None)
      /\ CommandsComplete'
  BY <1>1, <1>2, BeginHolds
<1>6. CASE fs["state"] = None
  <2>1. before' = fs["config"] /\ edited' = FALSE
    BY <1>2, <1>6 DEF BeginInstall
  <2>2. before' \in MaybeConfig
    BY <1>4, <2>1 DEF WellTyped, ContentOf, Files
  <2>3. /\ SoundFiles(fs)'
        /\ \E m \in Targets' : InstallAt(hook, m, fs, FirstInstall(fs, hook))'
    BY <1>3, <1>4, <1>6, <2>1, FirstInstallBegins
  <2>4. CASE InstallRefused(fs)
    <3>1. todo' = <<Refuse>>
      BY <1>5, <2>4 DEF InstallOperations
    <3>2. Resumable(fs)'
      BY <1>6 DEF Resumable
    <3> QED
      BY <1>5, <2>2, <2>3, <3>1, <3>2 DEF ProgressInv, Progress
  <2>5. CASE ~InstallRefused(fs)
    <3>1. todo' = FirstInstall(fs, hook)
      BY <1>5, <1>6, <2>5 DEF InstallOperations
    <3>2. InstallProgress(fs, FirstInstall(fs, hook))'
      BY <2>3 DEF InstallProgress
    <3>3. InstallProgress(Found, todo)'
      BY <1>5, <3>1, <3>2
    <3> QED
      BY <1>5, <2>2, <2>3, <3>3 DEF ProgressInv, Progress
  <2> QED
    BY <2>4, <2>5
<1>7. CASE fs["state"] # None
  <2>1. UNCHANGED <<before, edited>>
    BY <1>2, <1>7 DEF BeginInstall
  <2>2. SoundFiles(fs)' /\ Resumable(fs)' /\ before' \in MaybeConfig
    BY <1>3, <2>1, FilesCarried
  <2>3. CASE InstallRefused(fs)
    <3>1. todo' = <<Refuse>>
      BY <1>5, <2>3 DEF InstallOperations
    <3> QED
      BY <1>5, <2>2, <3>1 DEF ProgressInv, Progress
  <2>4. CASE ~InstallRefused(fs)
    <3> PICK q : q = InstallAgain(fs, hook)
      OBVIOUS
    <3>1. todo' = q
      BY <1>5, <1>7, <2>4 DEF InstallOperations
    <3>2. InstallProgress(fs, q)
      BY <1>3, <1>4, <1>7, <2>4, InstallAgainBegins DEF InstallProgress
    <3>3. InstallProgress(fs, q)'
      BY <1>3, <2>1, <3>2, ProgressCarried
    <3>4. InstallProgress(Found, todo)'
      BY <1>5, <3>1, <3>3
    <3> QED
      BY <1>5, <2>2, <3>4 DEF ProgressInv, Progress
  <2> QED
    BY <2>3, <2>4
<1> QED
  BY <1>6, <1>7

\* An uninstall begins.
LEMMA BeginUninstallProgress == IInv /\ ProgressInv /\ BeginUninstall => ProgressInv'
<1> SUFFICES ASSUME IInv, ProgressInv, BeginUninstall PROVE ProgressInv'
  OBVIOUS
<1>1. Begin("uninstall", UninstallOperations(Found)) /\ UNCHANGED <<before, edited, raced, cut>>
  BY DEF BeginUninstall
<1>2. PICK fs : fs = Found
  OBVIOUS
<1>3. PICK q : q = UninstallOperations(fs)
  OBVIOUS
<1>4. command = None /\ before \in MaybeConfig /\ SoundFiles(fs) /\ Resumable(fs)
  BY <1>1, <1>2, InstallerAssumption DEF ProgressInv, Progress, Begin
<1>5. WellTyped(fs)
  BY <1>2, FoundIsTyped DEF IInv
<1>6. /\ Found' = fs /\ command' = "uninstall" /\ todo' = q
      /\ command' # None /\ SwapsInUse' /\ (command' # None => result' = None)
      /\ CommandsComplete'
  BY <1>1, <1>2, <1>3, BeginHolds
<1>7. SoundFiles(fs)' /\ Resumable(fs)' /\ before' \in MaybeConfig
  BY <1>1, <1>4, FilesCarried
<1>8. CASE UninstallRefused(fs)
  <2>1. todo' = <<Refuse>>
    BY <1>3, <1>6, <1>8 DEF UninstallOperations
  <2> QED
    BY <1>6, <1>7, <2>1 DEF ProgressInv, Progress
<1>9. CASE ~UninstallRefused(fs)
  <2>1. UninstallProgress(fs, q)
    BY <1>3, <1>4, <1>5, <1>9, UninstallBegins
  <2>2. UninstallProgress(fs, q)'
    BY <1>1, <2>1, ProgressCarried
  <2>3. UninstallProgress(Found, todo)'
    BY <1>6, <2>2
  <2> QED
    BY <1>6, <1>7, <2>3 DEF ProgressInv, Progress
<1> QED
  BY <1>8, <1>9

\* A rename or a removal.
LEMMA FileStepProgress == IInv /\ ProgressInv /\ FileStep => ProgressInv'
<1> SUFFICES ASSUME IInv, ProgressInv, FileStep PROVE ProgressInv'
  OBVIOUS
<1>1. PICK fs : fs = Found
  OBVIOUS
<1>2. PICK q : q = todo
  OBVIOUS
<1>3. /\ TypeInv /\ q # <<>> /\ command # None /\ Head(q).op \in {"write", "remove"}
      /\ UNCHANGED <<command, history>>
  BY <1>2 DEF IInv, TypeInv, FileStep, WriteNothing, SetAside, PutInPlace, RemoveSwap,
     RemoveIfExists, Due, history
<1>4. /\ before \in MaybeConfig /\ SwapsInUse /\ SoundFiles(fs) /\ Progress(fs, q)
      /\ result = None
  BY <1>1, <1>2, <1>3 DEF ProgressInv
<1>5. Head(q).op # "refuse"
  BY <1>3
<1>6. /\ Head(q).op = "write" => Head(q).content # None
      /\ Head(q).op = "remove" => Head(q).content = None
  BY <1>3, <1>4, <1>5, NextOperation
<1>7. PICK gs : gs = After(fs, Head(q))
  OBVIOUS
<1>8. /\ \/ Found' = fs /\ todo' = q
         \/ Found' = gs /\ todo' = q /\ Head(q).op = "write"
         \/ Found' = gs /\ todo' = Tail(q)
      /\ SwapsInUse'
  BY <1>1, <1>2, <1>3, <1>4, <1>6, <1>7, FileStepEffect
<1>9. fs = [f \in Files |-> fs[f]]
  BY <1>1 DEF Found
<1>10. /\ before' = before /\ edited' = edited /\ raced' = raced /\ cut' = cut
       /\ result' = None /\ command' = command
  BY <1>3, <1>4 DEF history
<1>11. CommandsComplete'
  BY <1>10, NoneIsNothing DEF CommandsComplete
<1>12. \A x, r : /\ SoundFiles(x) => SoundFiles(x)'
                 /\ InstallProgress(x, r) => InstallProgress(x, r)'
                 /\ UninstallProgress(x, r) => UninstallProgress(x, r)'
  BY <1>10, FilesCarried, ProgressCarried
<1>13. q # <<Refuse>>
  BY <1>5, ShortTails, OperationFields
<1>14. PICK x, r : x = Found' /\ r = todo'
  OBVIOUS
<1>15. CASE command = "install" /\ InstallProgress(fs, q)
  <2>1. PICK hook \in Hooks, m \in Targets : InstallAt(hook, m, fs, q)
    BY <1>15 DEF InstallProgress
  <2>2. InstallAt(hook, m, gs, q) /\ InstallAt(hook, m, gs, Tail(q)) /\ SoundFiles(gs)
    BY <1>3, <1>4, <1>5, <1>7, <1>9, <2>1, InstallStep
  <2>3. SoundFiles(x) /\ InstallProgress(x, r)
    BY <1>4, <1>8, <1>14, <2>1, <2>2 DEF InstallProgress
  <2>4. SoundFiles(x)' /\ InstallProgress(x, r)'
    BY <1>12, <2>3
  <2>5. SoundFiles(Found)' /\ InstallProgress(Found, todo)'
    BY <1>14, <2>4
  <2> QED
    BY <1>4, <1>8, <1>10, <1>11, <1>15, <2>5 DEF ProgressInv, Progress
<1>16. CASE command = "uninstall" /\ UninstallProgress(fs, q)
  <2>1. PICK c \in Restorations : UninstallAt(c, fs, q)
    BY <1>16 DEF UninstallProgress
  <2>2. /\ Head(q).op = "write" => UninstallAt(c, gs, q)
        /\ UninstallAt(c, gs, Tail(q)) /\ SoundFiles(gs)
    BY <1>3, <1>4, <1>7, <1>9, <2>1, UninstallStep
  <2>3. SoundFiles(x) /\ UninstallProgress(x, r)
    BY <1>4, <1>8, <1>14, <2>1, <2>2 DEF UninstallProgress
  <2>4. SoundFiles(x)' /\ UninstallProgress(x, r)'
    BY <1>12, <2>3
  <2>5. SoundFiles(Found)' /\ UninstallProgress(Found, todo)'
    BY <1>14, <2>4
  <2> QED
    BY <1>4, <1>8, <1>10, <1>11, <1>16, <2>5 DEF ProgressInv, Progress
<1> QED
  BY <1>3, <1>4, <1>13, <1>15, <1>16 DEF Progress

\* A command ends, done, cut or refused.
LEMMA EndProgress == IInv /\ ProgressInv /\ (Finish \/ Crash \/ Refused) => ProgressInv'
<1> SUFFICES ASSUME IInv, ProgressInv, Finish \/ Crash \/ Refused PROVE ProgressInv'
  OBVIOUS
<1>1. PICK fs : fs = Found
  OBVIOUS
<1>2. PICK q : q = todo
  OBVIOUS
<1>3. /\ TypeInv /\ command # None /\ command' = None /\ UNCHANGED <<files, swaps>>
      /\ before' = before /\ edited' = edited /\ raced' = raced
  BY DEF IInv, TypeInv, Finish, Crash, Refused, history
<1>4. /\ before \in MaybeConfig /\ SwapsInUse /\ SoundFiles(fs) /\ Progress(fs, q)
      /\ result = None
  BY <1>1, <1>2, <1>3 DEF ProgressInv
<1>5. Found' = fs
  BY <1>1, <1>3 DEF Found, RecoverSwap
<1>6. SoundFiles(fs)' /\ SwapsInUse' /\ before' \in MaybeConfig
  BY <1>3, <1>4, FilesCarried DEF SwapsInUse
<1>7. CASE Finish
  <2>1. q = <<>> /\ result' = command /\ cut' = None
    BY <1>2, <1>7 DEF Finish
  <2>2. \/ command = "install" /\ \E hook \in Hooks : InstallDone(hook, fs, <<>>)
        \/ command = "uninstall" /\ UninstallDone(fs, <<>>)
    BY <1>3, <1>4, <2>1, Finished
  <2>3. (\A f \in Files : swaps[f] = None) /\ Found = files
    BY <1>2, <1>3, <1>4, <2>1, FoundFiles DEF SwapsInUse
  <2>4. fs["backup"] = before \/ fs["state"] = None
    BY <2>2 DEF InstallDone, UninstallDone
  <2>5. Resumable(fs)'
    BY <1>3, <2>4 DEF Resumable
  <2>6. /\ files' = fs /\ (\A f \in Files : swaps'[f] = None) /\ Found' = fs
    BY <1>1, <1>3, <1>5, <2>3
  <2>7. ASSUME NEW hook \in Hooks, InstallDone(hook, fs, <<>>)
        PROVE  raced \/ Status' = "installed"
    <3>1. Installed(hook) # None /\ hook # None /\ Installed(hook).phase = "installed"
          /\ Installed(hook).original = before /\ Installed(hook).hook = hook
      BY <1>4, WrittenStates, NoneIsNothing
    <3>2. /\ fs["state"] = Installed(hook) /\ fs["binary"] = hook /\ fs["backup"] = before
          /\ raced \/ Managed(fs["config"])
      BY <2>7 DEF InstallDone
    <3> QED
      BY <2>6, <3>1, <3>2 DEF Status
  <2>8. ASSUME UninstallDone(fs, <<>>)
        PROVE  /\ \A f \in Files \ {"config"} : fs[f] = None
               /\ raced \/ Status' = "not-installed"
               /\ Pristine => fs["config"] = before
    <3>1. fs["state"] = None /\ (raced \/ ~Managed(fs["config"]))
      BY <2>8 DEF UninstallDone
    <3>2. /\ fs["binary"] = None /\ fs["backup"] = None
          /\ Pristine => fs["config"] = before
      BY <1>4, <3>1 DEF SoundFiles
    <3>3. \A f \in Files \ {"config"} : fs[f] = None
      BY <3>1, <3>2 DEF Files
    <3>4. raced \/ Status' = "not-installed"
      BY <2>6, <3>1, <3>2 DEF Status
    <3> QED
      BY <3>2, <3>3, <3>4
  <2>9. CommandsComplete'
    BY <1>3, <2>1, <2>2, <2>6, <2>7, <2>8 DEF CommandsComplete, Pristine
  <2> QED
    BY <1>3, <1>5, <1>6, <2>5, <2>9 DEF ProgressInv, Progress
<1>8. CASE Crash \/ Refused
  <2>1. q # <<>> /\ result' = None
    BY <1>2, <1>4, <1>8 DEF Crash, Refused, history
  <2>2. \/ q = <<Refuse>> /\ Resumable(fs)
        \/ fs["state"] # None =>
             \/ fs["backup"] = before
             \/ fs["backup"] = None /\ (BackupIsDue(fs) \/ Head(q) = Remove("state"))
    BY <1>3, <1>4, <2>1, Stopped
  <2>3. BackupIsDue(fs) => BackupIsDue(fs)'
    BY <1>3, FilesCarried
  <2>4. Resumable(fs)'
    <3>1. CASE Crash
      <4>1. cut' = Head(q) /\ q # <<Refuse>>
        BY <1>2, <3>1, ShortTails DEF Crash
      <4> QED
        BY <1>3, <2>2, <2>3, <4>1 DEF Resumable
    <3>2. CASE Refused
      <4>1. cut' = cut /\ Head(q) = Refuse /\ Refuse # Remove("state")
        BY <1>2, <3>2, OperationFields DEF Refused, history
      <4> QED
        BY <1>3, <2>2, <2>3, <4>1 DEF Resumable
    <3> QED
      BY <1>8, <3>1, <3>2
  <2>5. CommandsComplete'
    BY <2>1, NoneIsNothing DEF CommandsComplete
  <2> QED
    BY <1>3, <1>5, <1>6, <2>4, <2>5 DEF ProgressInv, Progress
<1> QED
  BY <1>7, <1>8

\* The user writes.
LEMMA UserProgress == IInv /\ ProgressInv /\ UserWrites => ProgressInv'
<1> SUFFICES ASSUME IInv, ProgressInv, UserWrites PROVE ProgressInv'
  OBVIOUS
<1>1. PICK fs : fs = Found
  OBVIOUS
<1>2. PICK gs : gs = Found'
  OBVIOUS
<1>3. PICK q : q = todo
  OBVIOUS
<1>4. PICK c : files' = [files EXCEPT !["config"] = c]
  BY DEF UserWrites
<1>5. /\ swaps' = swaps /\ command' = command /\ todo' = q /\ before' = before /\ cut' = cut
      /\ edited' = TRUE /\ result' = None /\ raced' = (command # None)
  BY <1>3 DEF UserWrites
<1>6. \A f \in Files \ {"config"} : gs[f] = fs[f]
  BY <1>1, <1>2, <1>4, <1>5 DEF IInv, TypeInv, Found, RecoverSwap
<1>7. /\ before \in MaybeConfig /\ SwapsInUse /\ SoundFiles(fs) /\ Progress(fs, q)
  BY <1>1, <1>3 DEF ProgressInv
<1>8. SoundFiles(gs)' /\ (Resumable(fs) => Resumable(gs)')
  BY <1>5, <1>6, <1>7, FilesCarried
<1>9. command # None => /\ InstallProgress(fs, q) => InstallProgress(gs, q)'
                        /\ UninstallProgress(fs, q) => UninstallProgress(gs, q)'
  BY <1>5, <1>6, ProgressCarried
<1>10. Progress(gs, q)'
  <2>1. CASE command = None
    BY <1>5, <1>7, <1>8, <2>1, NoneIsNothing DEF Progress
  <2>2. CASE command # None
    BY <1>5, <1>7, <1>8, <1>9, <2>2 DEF Progress
  <2> QED
    BY <2>1, <2>2
<1>11. SwapsInUse' /\ CommandsComplete' /\ before' \in MaybeConfig
  BY <1>3, <1>5, <1>7, NoneIsNothing DEF SwapsInUse, CommandsComplete
<1>12. SoundFiles(Found)' /\ Progress(Found, todo)'
  BY <1>2, <1>5, <1>8, <1>10
<1> QED
  BY <1>5, <1>11, <1>12 DEF ProgressInv

\* With IInv, ProgressInv is inductive.
LEMMA NextProgress == IInv /\ ProgressInv /\ [Next]_vars => ProgressInv'
<1> SUFFICES ASSUME IInv, ProgressInv, UNCHANGED vars PROVE ProgressInv'
  BY BeginInstallProgress, BeginUninstallProgress, FileStepProgress, EndProgress, UserProgress
     DEF Next
<1>1. PICK fs : fs = Found
  OBVIOUS
<1>2. PICK q : q = todo
  OBVIOUS
<1>3. UNCHANGED <<files, swaps, command, todo, before, edited, raced, cut, result>>
  BY DEF vars, history
<1>4. Found' = fs /\ todo' = q
  BY <1>1, <1>2, <1>3 DEF Found, RecoverSwap
<1>5. SoundFiles(fs)' /\ Progress(fs, q)'
  BY <1>1, <1>2, <1>3, FilesCarried, ProgressCarried DEF ProgressInv, Progress
<1>6. SoundFiles(Found)' /\ Progress(Found, todo)'
  BY <1>4, <1>5
<1>7. SwapsInUse' /\ CommandsComplete'
  BY <1>3, <1>4, <1>1 DEF ProgressInv, SwapsInUse, CommandsComplete, Status
<1> QED
  BY <1>3, <1>6, <1>7 DEF ProgressInv

\* Both invariants hold of every behaviour.
LEMMA ProgressHolds == Spec => [](IInv /\ ProgressInv)
BY InitHolds, NextKeeps, InitProgress, NextProgress, PTL DEF Spec

\* A command that reports success did all it was asked for, whatever was cut
\* before it, and an uninstall puts the first hooks.json back.
THEOREM CommandsAlwaysComplete == Spec => []CommandsComplete
<1>1. ProgressInv => CommandsComplete
  BY DEF ProgressInv
<1> QED
  BY <1>1, ProgressHolds, PTL

\* Wherever a command was cut it can be run again, but for the three exceptions.
THEOREM AlwaysRecoverable == Spec => []Recoverable
<1>1. IInv /\ ProgressInv => Recoverable
  <2> SUFFICES ASSUME IInv, ProgressInv, command = None,
                      InstallRefused(Found) \/ UninstallRefused(Found)
               PROVE  \/ cut = Remove("state")
                      \/ /\ edited /\ Found["state"].phase = "installing"
                         /\ Found["backup"] = None
                      \/ Managed(before)
    BY DEF Recoverable
  <2>1. PICK fs : fs = Found
    OBVIOUS
  <2>2. SoundFiles(fs) /\ Resumable(fs)
    BY <2>1, NoneIsNothing DEF ProgressInv, Progress
  <2>3. fs["state"] # None /\ BackupRefused(fs["state"], fs["config"], fs["backup"])
    BY <2>1, <2>2 DEF SoundFiles, InstallRefused, UninstallRefused
  <2>4. fs["state"].original = before /\ fs["backup"] # before
    BY <2>2, <2>3 DEF SoundFiles, BackupRefused
  <2>5. fs["backup"] = None /\ (BackupIsDue(fs) \/ cut = Remove("state"))
    BY <2>2, <2>3, <2>4 DEF Resumable
  <2> QED
    BY <2>1, <2>3, <2>4, <2>5 DEF BackupIsDue, BackupRefused
<1> QED
  BY <1>1, ProgressHolds, PTL
=============================================================================
