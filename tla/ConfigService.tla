--------------------------- MODULE ConfigService ---------------------------
(***************************************************************************)
(* The live configuration (config/service.go, config/watch.go) in the      *)
(* processes that hold one: the shell, the settings window and the portal  *)
(* watch the directory, `lys-shell config set` only loads, edits and       *)
(* saves.  They share nothing but the files: config.yaml, which the user   *)
(* edits, and runtime.yaml, which every process rewrites by way of one     *)
(* runtime.tmp; a runtime.toml may still be there from an older version.   *)
(*                                                                         *)
(* A process has an editor (the goroutine that sets, resets and saves) and *)
(* a watcher (the debounce goroutine that reloads).  Each reads the        *)
(* published layers under the mutex, builds outside of it and publishes,   *)
(* which is a step of its own.                                             *)
(*                                                                         *)
(* A content of config.yaml is a value of Trees; the runtime layer is the  *)
(* set of the leaves it overrides.  A file is an inode: two processes that *)
(* create runtime.tmp write the same one.  Any system call may fail.       *)
(***************************************************************************)
EXTENDS Integers, FiniteSets

CONSTANTS
  Procs,      \* the processes
  Watching,   \* those of them that watch the directory
  Leaves,     \* the leaves of the runtime layer
  Trees,      \* the contents of config.yaml that load
  First,      \* the one of them it has first
  Broken,     \* a content that does not
  MaxLoad     \* bound on edits of either file, deaths, power cuts and faults

ASSUME ProcsAssumption == IsFiniteSet(Procs)
ASSUME WatchingAssumption == Watching \subseteq Procs
ASSUME FirstAssumption == First \in Trees
ASSUME BrokenAssumption == Broken \notin Trees
ASSUME LoadAssumption == MaxLoad \in Nat

VARIABLES
  main,     \* config.yaml
  runtime,  \* the inode at runtime.yaml, NoInode when there is none
  tmp,      \* the inode at runtime.tmp
  data,     \* the content of an inode
  stable,   \* the inodes whose content is on the disk, and ...
  disk,     \* ... the inode of runtime.yaml there
  legacy,   \* there is a runtime.toml
  state,    \* a process: "off", "loaded" or, once its watcher runs, "on"
  tree,     \* Service.tree
  staged,   \* Service.staged
  editor,   \* how far a set, reset or save is
  fd,       \* the inode Save writes
  built,    \* what the editor publishes, or the content Save writes
  pending,  \* which files the watcher has events for
  reload,   \* how far a reload is
  found,    \* what the reload publishes
  load,     \* what MaxLoad bounds
  missed,   \* a file changed between the load of a process and its watch
  raced,    \* a set put an older tree back
  apart,    \* the layers that a failed call left different from their file
  overlapped\* two saves were under way at once

files  == <<main, runtime, tmp, data, stable, disk, legacy>>
layers == <<tree, staged>>
editing == <<editor, fd, built>>
watching == <<pending, reload, found>>
ghosts == <<missed, raced, apart, overlapped>>
vars == <<files, state, layers, editing, watching, load, ghosts>>

NoInode == 0
Inodes == 1 .. Cardinality(Procs) + 3
Overrides == SUBSET Leaves
\* A content of runtime.yaml: what one Save rendered, that of a file just
\* created, or two contents written over each other.
Whole(leaves) == [kind |-> "whole", leaves |-> leaves]
Empty == [kind |-> "empty", leaves |-> {}]
Torn == [kind |-> "torn", leaves |-> {}]
Contents == {Whole(leaves) : leaves \in Overrides} \cup {Empty, Torn}
NoLayers == [tree |-> Broken, staged |-> {}]

\* readRuntime: a missing or empty file is no overrides, but a missing one
\* beside a runtime.toml is an error.
Readable(i) == IF i = NoInode THEN ~legacy ELSE data[i] # Torn
Read(i) == IF i = NoInode THEN {} ELSE data[i].leaves

Trouble == load < MaxLoad /\ load' = load + 1

\* inotify tells every watcher of a change; a process between its load and
\* its watch hears nothing of it.
Tell(file) ==
  /\ pending' = [p \in Procs |->
       IF state[p] = "on" THEN pending[p] \cup {file} ELSE pending[p]]
  /\ missed' = [p \in Procs |->
       missed[p] \/ (p \in Watching /\ state[p] = "loaded")]

-----------------------------------------------------------------------------
\* The user and the machine.

EditMain(content) ==
  /\ Trouble
  /\ content # main
  /\ main' = content
  /\ Tell("main")
  /\ UNCHANGED <<runtime, tmp, data, stable, disk, legacy, state, layers,
                 editing, reload, found, raced, apart, overlapped>>

\* The user removes the runtime.toml, which reloadPaths takes for a file of
\* config.yaml.
RemoveLegacy ==
  /\ legacy /\ Trouble
  /\ legacy' = FALSE
  /\ Tell("main")
  /\ UNCHANGED <<main, runtime, tmp, data, stable, disk, state, layers,
                 editing, reload, found, raced, apart, overlapped>>

\* Load: a config.yaml that does not load leaves the defaults, an unreadable
\* runtime.yaml no overrides; a read that fails does the same.
Load(p) ==
  /\ state[p] = "off"
  /\ state' = [state EXCEPT ![p] = "loaded"]
  /\ \E failing \in SUBSET {"main", "runtime"} :
       /\ \/ failing = {} /\ UNCHANGED load
          \/ failing # {} /\ Trouble
       /\ tree' = [tree EXCEPT ![p] =
                     IF "main" \in failing THEN Broken ELSE main]
       /\ staged' = [staged EXCEPT ![p] =
                       IF "runtime" \in failing THEN {} ELSE Read(runtime)]
       /\ apart' = [apart EXCEPT ![p] = failing]
  /\ UNCHANGED <<files, editing, watching, missed, raced, overlapped>>

\* startWatcher, which Open calls after Load.
StartWatcher(p) ==
  /\ p \in Watching /\ state[p] = "loaded"
  /\ state' = [state EXCEPT ![p] = "on"]
  /\ UNCHANGED <<files, layers, editing, watching, load, ghosts>>

Gone(ps) ==
  /\ state' = [p \in Procs |-> IF p \in ps THEN "off" ELSE state[p]]
  /\ tree' = [p \in Procs |-> IF p \in ps THEN Broken ELSE tree[p]]
  /\ staged' = [p \in Procs |-> IF p \in ps THEN {} ELSE staged[p]]
  /\ editor' = [p \in Procs |-> IF p \in ps THEN "idle" ELSE editor[p]]
  /\ fd' = [p \in Procs |-> IF p \in ps THEN NoInode ELSE fd[p]]
  /\ built' = [p \in Procs |-> IF p \in ps THEN NoLayers ELSE built[p]]
  /\ pending' = [p \in Procs |-> IF p \in ps THEN {} ELSE pending[p]]
  /\ reload' = [p \in Procs |-> IF p \in ps THEN "idle" ELSE reload[p]]
  /\ found' = [p \in Procs |-> IF p \in ps THEN NoLayers ELSE found[p]]
  /\ missed' = [p \in Procs |-> p \notin ps /\ missed[p]]
  /\ raced' = [p \in Procs |-> p \notin ps /\ raced[p]]
  /\ apart' = [p \in Procs |-> IF p \in ps THEN {} ELSE apart[p]]

\* A process ends or is killed, wherever it is.
Dies(p) ==
  /\ state[p] # "off"
  /\ Trouble
  /\ Gone({p})
  /\ UNCHANGED <<files, overlapped>>

\* The power fails: a rename that was not synced may be lost, and what was
\* not synced of a file.
PowerFails ==
  /\ Trouble
  /\ Gone(Procs)
  /\ runtime' \in {runtime, disk} /\ disk' = runtime'
  /\ tmp' = NoInode
  /\ stable' = Inodes
  /\ \E lost \in SUBSET (Inodes \ stable) :
       data' = [i \in Inodes |-> IF i \in lost THEN Empty ELSE data[i]]
  /\ UNCHANGED <<main, legacy, overlapped>>

-----------------------------------------------------------------------------
\* The editor.

\* SetByPath and ResetByPath: read under the mutex.  The portal sets two
\* leaves before it saves.
Change(p, leaves) ==
  /\ state[p] # "off" /\ editor[p] \in {"idle", "save"}
  /\ Trouble
  /\ editor' = [editor EXCEPT ![p] = "publish"]
  /\ built' = [built EXCEPT ![p] = [tree |-> tree[p], staged |-> leaves]]
  /\ UNCHANGED <<files, state, layers, fd, watching, ghosts>>
SetByPath(p, leaf) == Change(p, staged[p] \cup {leaf})
ResetByPath(p, leaf) == Change(p, staged[p] \ {leaf})

ResetAllRuntime(p) ==
  /\ state[p] # "off" /\ editor[p] = "idle"
  /\ Trouble
  /\ editor' = [editor EXCEPT ![p] = "publishNone"]
  /\ built' = [built EXCEPT ![p] = [tree |-> tree[p], staged |-> {}]]
  /\ UNCHANGED <<files, state, layers, fd, watching, ghosts>>

Publish(p) ==
  /\ editor[p] \in {"publish", "publishNone"}
  /\ tree' = [tree EXCEPT ![p] = built[p].tree]
  /\ staged' = [staged EXCEPT ![p] = built[p].staged]
  /\ editor' = [editor EXCEPT ![p] =
                  IF @ = "publish" THEN "save" ELSE "remove"]
  /\ built' = [built EXCEPT ![p] = NoLayers]
  /\ raced' = [raced EXCEPT ![p] = @ \/ built[p].tree # tree[p]]
  /\ UNCHANGED <<files, state, fd, watching, load, missed, apart, overlapped>>

\* The end of ResetAllRuntime: os.Remove, to which no file is as good.
Remove(p) ==
  /\ editor[p] = "remove"
  /\ editor' = [editor EXCEPT ![p] = "idle"]
  /\ runtime' = NoInode
  /\ \/ runtime # NoInode /\ Tell("runtime")
     \/ runtime = NoInode /\ UNCHANGED <<pending, missed>>
  /\ UNCHANGED <<main, tmp, data, stable, disk, legacy, state, layers, fd,
                 built, reload, found, load, raced, apart, overlapped>>

\* Save renders what is staged, then goes through its system calls.
Render(p) ==
  /\ editor[p] = "save"
  /\ editor' = [editor EXCEPT ![p] = "create"]
  /\ built' = [built EXCEPT ![p] = [tree |-> Broken, staged |-> staged[p]]]
  /\ UNCHANGED <<files, state, layers, fd, watching, load, ghosts>>

Free == Inodes \ ({runtime, tmp, disk} \cup {fd[p] : p \in Procs})

\* os.Create: the inode at runtime.tmp is emptied, or there is a new one.
Create(p) ==
  /\ editor[p] = "create"
  /\ \E i \in Inodes :
       /\ \/ tmp # NoInode /\ i = tmp
          \/ tmp = NoInode /\ i \in Free /\ \A j \in Free : i <= j
       /\ tmp' = i
       /\ fd' = [fd EXCEPT ![p] = i]
       /\ data' = [data EXCEPT ![i] = Empty]
       /\ stable' = stable \ {i}
       /\ overlapped' = (overlapped \/ \E q \in Procs : fd[q] = i)
  /\ editor' = [editor EXCEPT ![p] = "write"]
  /\ Tell("runtime")
  /\ UNCHANGED <<main, runtime, disk, legacy, state, layers, built, reload,
                 found, load, raced, apart>>

\* The content is written over what is there already, whose end may remain.
Write(p) ==
  /\ editor[p] = "write"
  /\ \E content \in {Whole(built[p].staged), Torn} :
       /\ content = Torn => data[fd[p]] \notin {Empty, Whole(built[p].staged)}
       /\ data' = [data EXCEPT ![fd[p]] = content]
  /\ stable' = stable \ {fd[p]}
  /\ editor' = [editor EXCEPT ![p] = "sync"]
  /\ Tell("runtime")
  /\ UNCHANGED <<main, runtime, tmp, disk, legacy, state, layers, fd, built,
                 reload, found, load, raced, apart, overlapped>>

\* Mutant: the file is renamed before it is synced.
SyncNothing(p) ==
  /\ editor[p] = "sync"
  /\ editor' = [editor EXCEPT ![p] = "rename"]
  /\ UNCHANGED <<files, state, layers, fd, built, watching, load, ghosts>>
Sync(p) ==
  /\ editor[p] = "sync"
  /\ editor' = [editor EXCEPT ![p] = "rename"]
  /\ stable' = stable \cup {fd[p]}
  /\ UNCHANGED <<main, runtime, tmp, data, disk, legacy, state, layers, fd,
                 built, watching, load, ghosts>>

\* os.Rename: whatever is at runtime.tmp becomes runtime.yaml; another
\* process may have renamed it already.
Rename(p) ==
  /\ editor[p] = "rename"
  /\ fd' = [fd EXCEPT ![p] = NoInode]
  /\ built' = [built EXCEPT ![p] = NoLayers]
  /\ \/ /\ tmp # NoInode
        /\ runtime' = tmp /\ tmp' = NoInode
        /\ editor' = [editor EXCEPT ![p] = "syncDir"]
        /\ Tell("runtime")
     \/ /\ tmp = NoInode
        /\ editor' = [editor EXCEPT ![p] = "idle"]
        /\ UNCHANGED <<runtime, tmp, pending, missed>>
  /\ UNCHANGED <<main, data, stable, disk, legacy, state, layers, reload,
                 found, load, raced, apart, overlapped>>

SyncDir(p) ==
  /\ editor[p] = "syncDir"
  /\ editor' = [editor EXCEPT ![p] = "idle"]
  /\ disk' = runtime
  /\ UNCHANGED <<main, runtime, tmp, data, stable, legacy, state, layers, fd,
                 built, watching, load, ghosts>>

\* A call that fails ends Save or ResetAllRuntime with what was published.
\* Before runtime.tmp is created nothing was touched, and nobody is told of
\* anything; a write that fails may have written some.
EditFails(p) ==
  /\ editor[p] \in {"save", "remove", "create", "write", "sync", "rename",
                    "syncDir"}
  /\ editor[p] = "remove" => runtime # NoInode
  /\ Trouble
  /\ editor' = [editor EXCEPT ![p] = "idle"]
  /\ fd' = [fd EXCEPT ![p] = NoInode]
  /\ built' = [built EXCEPT ![p] = NoLayers]
  /\ \/ UNCHANGED <<data, stable, pending, missed>>
     \/ /\ editor[p] = "write"
        /\ data' = [data EXCEPT ![fd[p]] = Torn]
        /\ stable' = stable \ {fd[p]}
        /\ Tell("runtime")
  /\ apart' = [apart EXCEPT ![p] =
       IF /\ p \in Watching /\ editor[p] \in {"save", "remove", "create"}
          /\ staged[p] # Read(runtime)
         THEN @ \cup {"runtime"} ELSE @]
  /\ UNCHANGED <<main, runtime, tmp, disk, legacy, state, layers, reload,
                 found, raced, overlapped>>

-----------------------------------------------------------------------------
\* The watcher.

\* Mutant: a batch with both files is taken for one of runtime.yaml.
FlushRuntimeFirst(p) ==
  /\ pending[p] # {} /\ reload[p] = "idle"
  /\ pending' = [pending EXCEPT ![p] = {}]
  /\ reload' = [reload EXCEPT ![p] =
                  IF "runtime" \in pending[p] THEN "runtime" ELSE "main"]
  /\ UNCHANGED <<files, state, layers, editing, found, load, ghosts>>
\* The debounce timer fires: reloadPaths.
Flush(p) ==
  /\ pending[p] # {} /\ reload[p] = "idle"
  /\ pending' = [pending EXCEPT ![p] = {}]
  /\ reload' = [reload EXCEPT ![p] =
                  IF "main" \in pending[p] THEN "main" ELSE "runtime"]
  /\ UNCHANGED <<files, state, layers, editing, found, load, ghosts>>

\* reloadMain: a config.yaml that does not load ends it.
ReadMain(p) ==
  /\ reload[p] = "main"
  /\ \/ /\ main = Broken
        /\ reload' = [reload EXCEPT ![p] = "idle"]
        /\ UNCHANGED found
     \/ /\ main # Broken
        /\ reload' = [reload EXCEPT ![p] = "mainRuntime"]
        /\ found' = [found EXCEPT ![p].tree = main]
  /\ UNCHANGED <<files, state, layers, editing, pending, load, ghosts>>

\* reloadMain drops overrides it cannot read, reloadRuntime keeps them.
ReadRuntime(p) ==
  /\ reload[p] \in {"mainRuntime", "runtime"}
  /\ found' = [found EXCEPT ![p].staged = Read(runtime)]
  /\ reload' = [reload EXCEPT ![p] =
       IF @ = "mainRuntime" THEN "publishMain"
         ELSE IF Readable(runtime) THEN "tree" ELSE "idle"]
  /\ UNCHANGED <<files, state, layers, editing, pending, load, ghosts>>

\* A read that fails is taken like a file that does not parse: reloadMain
\* ends without its config.yaml, but goes on without overrides.
ReadFails(p) ==
  /\ reload[p] \in {"main", "mainRuntime", "runtime"}
  /\ Trouble
  /\ reload' = [reload EXCEPT ![p] =
                  IF @ = "mainRuntime" THEN "publishMain" ELSE "idle"]
  /\ found' = [found EXCEPT ![p].staged = {}]
  /\ apart' = [apart EXCEPT ![p] = @ \cup {"runtime"} \cup
                  IF reload[p] = "main" THEN {"main"} ELSE {}]
  /\ UNCHANGED <<files, state, layers, editing, pending, missed, raced,
                 overlapped>>

\* reloadRuntime takes the tree that is published.
ReadTree(p) ==
  /\ reload[p] = "tree"
  /\ found' = [found EXCEPT ![p].tree = tree[p]]
  /\ reload' = [reload EXCEPT ![p] = "publishRuntime"]
  /\ UNCHANGED <<files, state, layers, editing, pending, load, ghosts>>

\* What a reload publishes is no longer apart from its file.
Rejoin(p) ==
  apart' = [apart EXCEPT ![p] = @ \
    ((IF found[p].tree = main THEN {"main"} ELSE {}) \cup
     (IF found[p].staged = Read(runtime) THEN {"runtime"} ELSE {}))]

\* Mutant: what came in during the reload is taken for read.
PublishReloadDrained(p) ==
  /\ reload[p] \in {"publishMain", "publishRuntime"}
  /\ tree' = [tree EXCEPT ![p] = found[p].tree]
  /\ staged' = [staged EXCEPT ![p] = found[p].staged]
  /\ reload' = [reload EXCEPT ![p] = "idle"]
  /\ pending' = [pending EXCEPT ![p] = {}]
  /\ found' = [found EXCEPT ![p] = NoLayers]
  /\ raced' = [raced EXCEPT ![p] = @ /\ reload[p] # "publishMain"]
  /\ Rejoin(p)
  /\ UNCHANGED <<files, state, editing, load, missed, overlapped>>
PublishReload(p) ==
  /\ reload[p] \in {"publishMain", "publishRuntime"}
  /\ tree' = [tree EXCEPT ![p] = found[p].tree]
  /\ staged' = [staged EXCEPT ![p] = found[p].staged]
  /\ reload' = [reload EXCEPT ![p] = "idle"]
  /\ found' = [found EXCEPT ![p] = NoLayers]
  /\ raced' = [raced EXCEPT ![p] = @ /\ reload[p] # "publishMain"]
  /\ Rejoin(p)
  /\ UNCHANGED <<files, state, editing, pending, load, missed, overlapped>>

-----------------------------------------------------------------------------
Init ==
  /\ main = First /\ runtime = NoInode /\ tmp = NoInode
  /\ legacy \in BOOLEAN
  /\ data = [i \in Inodes |-> Empty] /\ stable = Inodes /\ disk = NoInode
  /\ state = [p \in Procs |-> "off"]
  /\ tree = [p \in Procs |-> Broken] /\ staged = [p \in Procs |-> {}]
  /\ editor = [p \in Procs |-> "idle"] /\ fd = [p \in Procs |-> NoInode]
  /\ built = [p \in Procs |-> NoLayers]
  /\ pending = [p \in Procs |-> {}] /\ reload = [p \in Procs |-> "idle"]
  /\ found = [p \in Procs |-> NoLayers]
  /\ load = 0
  /\ missed = [p \in Procs |-> FALSE] /\ raced = [p \in Procs |-> FALSE]
  /\ apart = [p \in Procs |-> {}] /\ overlapped = FALSE

Edit(p) ==
  \/ Publish(p) \/ Remove(p) \/ Render(p) \/ Create(p) \/ Write(p)
  \/ Sync(p) \/ Rename(p) \/ SyncDir(p)
Reload(p) ==
  \/ Flush(p) \/ ReadMain(p) \/ ReadRuntime(p) \/ ReadTree(p)
  \/ PublishReload(p)

Next ==
  \/ \E content \in Trees \cup {Broken} : EditMain(content)
  \/ RemoveLegacy \/ PowerFails
  \/ \E p \in Procs :
       \/ EditFails(p) \/ ReadFails(p)
       \/ Load(p) \/ StartWatcher(p) \/ Dies(p)
       \/ \E leaf \in Leaves : SetByPath(p, leaf) \/ ResetByPath(p, leaf)
       \/ ResetAllRuntime(p) \/ Edit(p) \/ Reload(p)

\* The goroutines of a process that runs go on.
Fairness ==
  \A p \in Procs :
    WF_vars(StartWatcher(p)) /\ WF_vars(Edit(p)) /\ WF_vars(Reload(p))

Spec == Init /\ [][Next]_vars /\ Fairness

-----------------------------------------------------------------------------
\* Properties.

\* Type correctness of the files, of the processes and of their goroutines.
Layers == [tree : Trees \cup {Broken}, staged : Overrides]
TypeOK ==
  /\ main \in Trees \cup {Broken}
  /\ {runtime, tmp, disk} \subseteq Inodes \cup {NoInode}
  /\ data \in [Inodes -> Contents]
  /\ stable \subseteq Inodes /\ legacy \in BOOLEAN
  /\ state \in [Procs -> {"off", "loaded", "on"}]
  /\ tree \in [Procs -> Trees \cup {Broken}]
  /\ staged \in [Procs -> Overrides]
  /\ editor \in [Procs -> {"idle", "publish", "publishNone", "save", "remove",
                           "create", "write", "sync", "rename", "syncDir"}]
  /\ fd \in [Procs -> Inodes \cup {NoInode}]
  /\ built \in [Procs -> Layers]
  /\ pending \in [Procs -> SUBSET {"main", "runtime"}]
  /\ reload \in [Procs -> {"idle", "main", "mainRuntime", "publishMain",
                           "runtime", "tree", "publishRuntime"}]
  /\ found \in [Procs -> Layers]
  /\ load \in Nat
  /\ missed \in [Procs -> BOOLEAN] /\ raced \in [Procs -> BOOLEAN]
  /\ apart \in [Procs -> SUBSET {"main", "runtime"}]
  /\ overlapped \in BOOLEAN

\* Whatever dies or fails in the middle of Save, and if the power fails,
\* runtime.yaml is whole, the old content or the new, unless two processes
\* saved at once.
IsWhole(i) == i = NoInode \/ data[i].kind = "whole"
SavesAreWhole == overlapped \/ (IsWhole(runtime) /\ IsWhole(disk))

FilesAreWhole == TypeOK /\ SavesAreWhole

\* In the end every process that watches has the overrides of the file, in
\* whatever order sets, saves, reloads and deaths came.  What can keep it
\* from them: the file changed while the process was between its load and
\* its watch, or is missing beside a runtime.toml; a config.yaml that does
\* not load kept the reload from looking at it; or a call failed, in a
\* reading of it or in a save or reset before it had touched a file, and
\* nothing was reloaded since.
OverridesFollowTheFile ==
  \A p \in Watching :
    <>[](state[p] = "on" /\ ~missed[p] /\ "runtime" \notin apart[p]
           /\ main # Broken /\ Readable(runtime)
           => staged[p] = Read(runtime))

\* In the end it has the tree of config.yaml, too; what can keep an edit
\* from it is that gap, a reading that failed, or a set that was under way
\* during the reload.
EditsAreShown ==
  \A p \in Watching :
    <>[](state[p] = "on" /\ ~missed[p] /\ "main" \notin apart[p]
           /\ ~raced[p] /\ main # Broken
           => tree[p] = main)
=============================================================================
