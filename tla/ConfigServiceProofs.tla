------------------------- MODULE ConfigServiceProofs -------------------------
(***************************************************************************)
(* Theorems about ConfigService: for any number of processes, leaves and   *)
(* contents, whatever dies or fails in the middle of a save, runtime.yaml  *)
(* is whole unless two saves were under way at once.                       *)
(***************************************************************************)
EXTENDS ConfigService, FiniteSetTheorems, TLAPS

(***************************************************************************)
(* The inductive invariant.  That runtime.yaml is whole, in memory and on  *)
(* the disk, is not inductive: the file that a rename puts there has to be *)
(* whole and synced before, the power may take from it what is not, and    *)
(* nobody may write it once it is there.  So, as long as saves did not     *)
(* overlap:                                                                *)
(*  - at most one process writes, and what it writes is runtime.tmp;       *)
(*  - how much of that file is written follows from where its Save is;     *)
(*  - the file at runtime.yaml is whole, synced, and not runtime.tmp.      *)
(***************************************************************************)
Writing == {"write", "sync", "rename"}
WriterHasFile == \A p \in Procs : editor[p] \in Writing <=> fd[p] # NoInode
OneWriter ==
  /\ \A p \in Procs : fd[p] # NoInode => fd[p] = tmp
  /\ \A p, q \in Procs : fd[p] # NoInode /\ fd[q] # NoInode => p = q
Written ==
  \A p \in Procs :
    /\ editor[p] = "write" => data[fd[p]] = Empty
    /\ editor[p] \in {"sync", "rename"} => data[fd[p]].kind = "whole"
    /\ editor[p] = "rename" => fd[p] \in stable
Kept(i) == i = NoInode \/ (data[i].kind = "whole" /\ i \in stable /\ i # tmp)
Safe == overlapped \/ (OneWriter /\ Written /\ Kept(runtime) /\ Kept(disk))
IInv == TypeOK /\ WriterHasFile /\ Safe

-----------------------------------------------------------------------------
\* Facts about the data.

LEMMA NoInodeIsNone == NoInode \notin Inodes
<1>1. Cardinality(Procs) \in Nat
  BY ProcsAssumption, FS_CardinalityType
<1> QED
  BY <1>1 DEF NoInode, Inodes

LEMMA ContentFacts ==
  /\ Empty \in Contents /\ Torn \in Contents /\ Empty # Torn
  /\ \A leaves \in Overrides :
       Whole(leaves) \in Contents /\ Whole(leaves).kind = "whole"
  /\ \A content \in Contents : content.leaves \in Overrides
<1>1. \A leaves \in Overrides :
        Whole(leaves).kind = "whole" /\ Whole(leaves).leaves = leaves
  BY DEF Whole
<1>2. Empty.leaves \in Overrides /\ Torn.leaves \in Overrides
  BY DEF Empty, Torn, Overrides
<1>3. Empty.kind = "empty" /\ Torn.kind = "torn"
  BY DEF Empty, Torn
<1>4. Empty # Torn
  BY <1>3
<1> QED
  BY <1>1, <1>2, <1>4 DEF Contents

LEMMA ReadIsOverrides ==
  ASSUME TypeOK
  PROVE  Read(runtime) \in Overrides
<1>1. runtime \in Inodes \cup {NoInode} /\ data \in [Inodes -> Contents]
  BY DEF TypeOK
<1>2. {} \in Overrides
  BY DEF Overrides
<1>3. CASE runtime = NoInode
  BY <1>2, <1>3 DEF Read
<1>4. CASE runtime # NoInode
  BY <1>1, <1>4, ContentFacts DEF Read
<1> QED
  BY <1>3, <1>4

LEMMA LayersFacts ==
  /\ NoLayers \in Layers
  /\ \A t \in Trees \cup {Broken}, o \in Overrides :
       [tree |-> t, staged |-> o] \in Layers
  /\ \A l \in Layers :
       /\ l.tree \in Trees \cup {Broken} /\ l.staged \in Overrides
       /\ \A t \in Trees \cup {Broken} : [l EXCEPT !.tree = t] \in Layers
       /\ \A o \in Overrides : [l EXCEPT !.staged = o] \in Layers
BY DEF NoLayers, Layers, Overrides

-----------------------------------------------------------------------------
\* Steps that leave the files and those who write them alone.

LEMMA FilesAlone ==
  ASSUME IInv, TypeOK',
         UNCHANGED <<runtime, tmp, data, stable, disk, fd, overlapped>>,
         \A p \in Procs : \/ editor'[p] = editor[p]
                          \/ editor[p] \notin Writing /\ editor'[p] \notin Writing
  PROVE  IInv'
<1>1. WriterHasFile'
  BY DEF IInv, WriterHasFile
<1>2. OneWriter' = OneWriter /\ Kept(runtime)' = Kept(runtime)
      /\ Kept(disk)' = Kept(disk)
  BY DEF OneWriter, Kept
<1>3. Written => Written'
  BY DEF Written, Writing
<1> QED
  BY <1>1, <1>2, <1>3 DEF IInv, Safe

LEMMA TellTyped ==
  ASSUME TypeOK, NEW file \in {"main", "runtime"}, Tell(file)
  PROVE  /\ pending' \in [Procs -> SUBSET {"main", "runtime"}]
         /\ missed' \in [Procs -> BOOLEAN]
BY DEF TypeOK, Tell

\* Edits of config.yaml, starts and deaths.
LEMMA OutsideStep ==
  ASSUME IInv,
         \/ \E content \in Trees \cup {Broken} : EditMain(content)
         \/ RemoveLegacy
         \/ \E p \in Procs : Load(p) \/ StartWatcher(p)
  PROVE  IInv'
<1>1. ASSUME NEW content \in Trees \cup {Broken}, EditMain(content)
      PROVE  TypeOK' /\ UNCHANGED <<runtime, tmp, data, stable, disk, fd, overlapped, editor>>
  <2>1. /\ main' = content /\ load' = load + 1 /\ Tell("main")
        /\ UNCHANGED <<runtime, tmp, data, stable, disk, legacy, state, tree, staged, editor,
                       fd, built, reload, found, raced, apart, overlapped>>
    BY <1>1 DEF EditMain, Trouble, layers, editing
  <2>2. /\ pending' \in [Procs -> SUBSET {"main", "runtime"}]
        /\ missed' \in [Procs -> BOOLEAN]
    BY <2>1, TellTyped DEF IInv
  <2>3. load' \in Nat
    BY <2>1 DEF IInv, TypeOK
  <2> QED
    BY <2>1, <2>2, <2>3 DEF IInv, TypeOK
<1>2. ASSUME NEW p \in Procs, Load(p)
      PROVE  TypeOK' /\ UNCHANGED <<runtime, tmp, data, stable, disk, fd, overlapped, editor>>
  <2>1. PICK failing \in SUBSET {"main", "runtime"} :
          /\ \/ failing = {} /\ UNCHANGED load
             \/ failing # {} /\ Trouble
          /\ tree' = [tree EXCEPT ![p] = IF "main" \in failing THEN Broken ELSE main]
          /\ staged' = [staged EXCEPT ![p] =
                          IF "runtime" \in failing THEN {} ELSE Read(runtime)]
          /\ apart' = [apart EXCEPT ![p] = failing]
    BY <1>2 DEF Load
  <2>2. {} \in Overrides /\ Read(runtime) \in Overrides
    BY ReadIsOverrides DEF IInv, Overrides
  <2>3. /\ tree' \in [Procs -> Trees \cup {Broken}] /\ staged' \in [Procs -> Overrides]
        /\ apart' \in [Procs -> SUBSET {"main", "runtime"}]
    BY <2>1, <2>2 DEF IInv, TypeOK
  <2>4. load' \in Nat
    BY <2>1 DEF Trouble, IInv, TypeOK
  <2> QED
    BY <1>2, <2>3, <2>4 DEF Load, files, editing, watching, IInv, TypeOK
<1>3. ASSUME NEW p \in Procs, StartWatcher(p)
      PROVE  TypeOK' /\ UNCHANGED <<runtime, tmp, data, stable, disk, fd, overlapped, editor>>
  BY <1>3 DEF StartWatcher, files, layers, editing, watching, ghosts, IInv, TypeOK
<1>4. ASSUME RemoveLegacy
      PROVE  TypeOK' /\ UNCHANGED <<runtime, tmp, data, stable, disk, fd, overlapped, editor>>
  <2>1. /\ legacy' = FALSE /\ load' = load + 1 /\ Tell("main")
        /\ UNCHANGED <<main, runtime, tmp, data, stable, disk, state, tree, staged, editor,
                       fd, built, reload, found, raced, apart, overlapped>>
    BY <1>4 DEF RemoveLegacy, Trouble, layers, editing
  <2>2. /\ pending' \in [Procs -> SUBSET {"main", "runtime"}]
        /\ missed' \in [Procs -> BOOLEAN]
    BY <2>1, TellTyped DEF IInv
  <2>3. load' \in Nat
    BY <2>1 DEF IInv, TypeOK
  <2> QED
    BY <2>1, <2>2, <2>3 DEF IInv, TypeOK
<1> QED
  BY <1>1, <1>2, <1>3, <1>4, FilesAlone

\* Reloads.
LEMMA ReloadStep ==
  ASSUME IInv, NEW p \in Procs, Reload(p) \/ ReadFails(p)
  PROVE  IInv'
<1> DEFINE Rest == UNCHANGED <<main, runtime, tmp, data, stable, disk, legacy, state, editor,
                               fd, built, missed, overlapped>>
<1>0. TypeOK /\ found[p] \in Layers /\ Read(runtime) \in Overrides
  BY ReadIsOverrides DEF IInv, TypeOK
<1>1. ASSUME Flush(p) PROVE TypeOK' /\ Rest
  BY <1>0, <1>1 DEF Flush, TypeOK, files, layers, editing, ghosts
<1>2. ASSUME ReadMain(p) PROVE TypeOK' /\ Rest
  <2>1. CASE main = Broken /\ reload' = [reload EXCEPT ![p] = "idle"] /\ UNCHANGED found
    BY <1>0, <1>2, <2>1 DEF ReadMain, TypeOK, files, layers, editing, ghosts
  <2>2. CASE /\ main # Broken
             /\ reload' = [reload EXCEPT ![p] = "mainRuntime"]
             /\ found' = [found EXCEPT ![p].tree = main]
    <3>1. found' \in [Procs -> Layers]
      BY <1>0, <2>2, LayersFacts DEF TypeOK
    <3> QED
      BY <1>0, <1>2, <2>2, <3>1 DEF ReadMain, TypeOK, files, layers, editing, ghosts
  <2> QED
    BY <1>2, <2>1, <2>2 DEF ReadMain
<1>3. ASSUME ReadRuntime(p) PROVE TypeOK' /\ Rest
  <2>1. found' = [found EXCEPT ![p].staged = Read(runtime)]
    BY <1>3 DEF ReadRuntime
  <2>2. found' \in [Procs -> Layers]
    BY <1>0, <2>1, LayersFacts DEF TypeOK
  <2> QED
    BY <1>0, <1>3, <2>2 DEF ReadRuntime, TypeOK, files, layers, editing, ghosts
<1>4. ASSUME ReadTree(p) PROVE TypeOK' /\ Rest
  <2>1. found' = [found EXCEPT ![p].tree = tree[p]] /\ tree[p] \in Trees \cup {Broken}
    BY <1>0, <1>4 DEF ReadTree, TypeOK
  <2>2. found' \in [Procs -> Layers]
    BY <1>0, <2>1, LayersFacts DEF TypeOK
  <2> QED
    BY <1>0, <1>4, <2>2 DEF ReadTree, TypeOK, files, layers, editing, ghosts
<1>5. ASSUME PublishReload(p) PROVE TypeOK' /\ Rest
  <2>1. apart' \in [Procs -> SUBSET {"main", "runtime"}]
    BY <1>0, <1>5 DEF PublishReload, Rejoin, TypeOK
  <2> QED
    BY <1>0, <1>5, <2>1, LayersFacts DEF PublishReload, TypeOK, files, editing
<1>6. ASSUME ReadFails(p) PROVE TypeOK' /\ Rest
  <2>1. /\ found' = [found EXCEPT ![p].staged = {}] /\ load' = load + 1
        /\ reload' = [reload EXCEPT ![p] =
                        IF reload[p] = "mainRuntime" THEN "publishMain" ELSE "idle"]
        /\ apart' = [apart EXCEPT ![p] = apart[p] \cup {"runtime"} \cup
                        IF reload[p] = "main" THEN {"main"} ELSE {}]
    BY <1>6 DEF ReadFails, Trouble
  <2>5. Rest /\ UNCHANGED <<tree, staged, pending, raced>>
    BY <1>6 DEF ReadFails, files, layers, editing
  <2>2. {} \in Overrides
    BY DEF Overrides
  <2>3. found' \in [Procs -> Layers] /\ load' \in Nat
    <3>1. [found[p] EXCEPT !.staged = {}] \in Layers
      BY <1>0, <2>2, LayersFacts
    <3>2. found' = [found EXCEPT ![p] = [found[p] EXCEPT !.staged = {}]]
      BY <2>1
    <3> QED
      BY <1>0, <2>1, <3>1, <3>2 DEF TypeOK
  <2>4. apart' \in [Procs -> SUBSET {"main", "runtime"}]
    BY <1>0, <2>1 DEF TypeOK
  <2> QED
    BY <1>0, <2>1, <2>3, <2>4, <2>5 DEF TypeOK
<1>7. TypeOK' /\ Rest
  BY <1>1, <1>2, <1>3, <1>4, <1>5, <1>6 DEF Reload
<1> QED
  BY <1>7, FilesAlone

\* Sets and resets, up to the save.
LEMMA ChangeTyped ==
  ASSUME IInv, NEW p \in Procs, NEW leaves \in Overrides, Change(p, leaves)
  PROVE  IInv'
<1>1. /\ editor[p] \in {"idle", "save"} /\ load' = load + 1
      /\ editor' = [editor EXCEPT ![p] = "publish"]
      /\ built' = [built EXCEPT ![p] = [tree |-> tree[p], staged |-> leaves]]
      /\ UNCHANGED <<main, runtime, tmp, data, stable, disk, legacy, state, tree, staged, fd,
                     pending, reload, found, missed, raced, apart, overlapped>>
  BY DEF Change, Trouble, files, layers, watching, ghosts
<1>2. [tree |-> tree[p], staged |-> leaves] \in Layers
  BY LayersFacts DEF IInv, TypeOK
<1>3. load' \in Nat
  BY <1>1 DEF IInv, TypeOK
<1>4. TypeOK'
  BY <1>1, <1>2, <1>3 DEF IInv, TypeOK
<1>5. editor'[p] \notin Writing /\ editor[p] \notin Writing
      /\ \A q \in Procs \ {p} : editor'[q] = editor[q]
  BY <1>1 DEF IInv, TypeOK, Writing
<1> QED
  BY <1>1, <1>4, <1>5, FilesAlone

LEMMA SetStep ==
  ASSUME IInv, NEW p \in Procs,
         \/ \E leaf \in Leaves : SetByPath(p, leaf) \/ ResetByPath(p, leaf)
         \/ ResetAllRuntime(p) \/ Publish(p) \/ Render(p)
  PROVE  IInv'
<1>0. /\ TypeOK /\ staged[p] \in Overrides /\ tree[p] \in Trees \cup {Broken}
      /\ built[p] \in Layers
  BY DEF IInv, TypeOK
<1>1. ASSUME NEW leaf \in Leaves, SetByPath(p, leaf) \/ ResetByPath(p, leaf)
      PROVE  IInv'
  <2>1. staged[p] \cup {leaf} \in Overrides /\ staged[p] \ {leaf} \in Overrides
    BY <1>0 DEF Overrides
  <2> QED
    BY <1>1, <2>1, ChangeTyped DEF SetByPath, ResetByPath
<1>2. ASSUME ResetAllRuntime(p) PROVE IInv'
  <2>1. /\ editor[p] = "idle" /\ load' = load + 1
        /\ editor' = [editor EXCEPT ![p] = "publishNone"]
        /\ built' = [built EXCEPT ![p] = [tree |-> tree[p], staged |-> {}]]
        /\ UNCHANGED <<main, runtime, tmp, data, stable, disk, legacy, state, tree, staged, fd,
                       pending, reload, found, missed, raced, apart, overlapped>>
    BY <1>2 DEF ResetAllRuntime, Trouble, files, layers, watching, ghosts
  <2>2. [tree |-> tree[p], staged |-> {}] \in Layers
    BY <1>0, LayersFacts DEF Overrides
  <2>3. load' \in Nat
    BY <2>1 DEF IInv, TypeOK
  <2>4. TypeOK'
    BY <1>0, <2>1, <2>2, <2>3 DEF TypeOK
  <2>5. editor'[p] \notin Writing /\ editor[p] \notin Writing
        /\ \A q \in Procs \ {p} : editor'[q] = editor[q]
    BY <2>1 DEF IInv, TypeOK, Writing
  <2> QED
    BY <2>1, <2>4, <2>5, FilesAlone
<1>3. ASSUME Publish(p) PROVE IInv'
  <2>1. /\ editor[p] \in {"publish", "publishNone"}
        /\ tree' = [tree EXCEPT ![p] = built[p].tree]
        /\ staged' = [staged EXCEPT ![p] = built[p].staged]
        /\ editor' = [editor EXCEPT ![p] =
                        IF editor[p] = "publish" THEN "save" ELSE "remove"]
        /\ built' = [built EXCEPT ![p] = NoLayers]
        /\ raced' = [raced EXCEPT ![p] = raced[p] \/ built[p].tree # tree[p]]
        /\ UNCHANGED <<main, runtime, tmp, data, stable, disk, legacy, state, fd, pending,
                       reload, found, load, missed, apart, overlapped>>
    BY <1>3 DEF Publish, files, watching
  <2>2. raced' \in [Procs -> BOOLEAN]
    BY <1>0, <2>1 DEF TypeOK
  <2>3. /\ tree' \in [Procs -> Trees \cup {Broken}]
        /\ staged' \in [Procs -> Overrides] /\ built' \in [Procs -> Layers]
    BY <1>0, <2>1, LayersFacts DEF TypeOK
  <2>4. TypeOK'
    BY <1>0, <2>1, <2>2, <2>3 DEF TypeOK
  <2>5. editor'[p] \notin Writing /\ editor[p] \notin Writing
        /\ \A q \in Procs \ {p} : editor'[q] = editor[q]
    BY <2>1 DEF IInv, TypeOK, Writing
  <2> QED
    BY <2>1, <2>4, <2>5, FilesAlone
<1>4. ASSUME Render(p) PROVE IInv'
  <2>1. /\ editor[p] = "save"
        /\ editor' = [editor EXCEPT ![p] = "create"]
        /\ built' = [built EXCEPT ![p] = [tree |-> Broken, staged |-> staged[p]]]
        /\ UNCHANGED <<main, runtime, tmp, data, stable, disk, legacy, state, tree, staged, fd,
                       pending, reload, found, load, missed, raced, apart, overlapped>>
    BY <1>4 DEF Render, files, layers, watching, ghosts
  <2>2. [tree |-> Broken, staged |-> staged[p]] \in Layers
    BY <1>0, LayersFacts
  <2>3. TypeOK'
    BY <1>0, <2>1, <2>2 DEF TypeOK
  <2>4. editor'[p] \notin Writing /\ editor[p] \notin Writing
        /\ \A q \in Procs \ {p} : editor'[q] = editor[q]
    BY <2>1 DEF IInv, TypeOK, Writing
  <2> QED
    BY <2>1, <2>3, <2>4, FilesAlone
<1> QED
  BY <1>1, <1>2, <1>3, <1>4

-----------------------------------------------------------------------------
\* Save, one system call at a time.

\* os.Create takes an inode that is nobody's, or that of a Save that died.
LEMMA CreateStep ==
  ASSUME IInv, NEW p \in Procs, Create(p)
  PROVE  IInv'
<1>1. PICK i \in Inodes :
        /\ \/ tmp # NoInode /\ i = tmp
           \/ tmp = NoInode /\ i \in Free
        /\ tmp' = i
        /\ fd' = [fd EXCEPT ![p] = i]
        /\ data' = [data EXCEPT ![i] = Empty]
        /\ stable' = stable \ {i}
        /\ overlapped' = (overlapped \/ \E q \in Procs : fd[q] = i)
  BY DEF Create
<1>2. /\ editor[p] = "create" /\ editor' = [editor EXCEPT ![p] = "write"]
      /\ Tell("runtime")
      /\ UNCHANGED <<main, runtime, disk, legacy, state, tree, staged, built, reload, found, load,
                     raced, apart>>
  BY DEF Create, layers
<1>3. i # NoInode
  BY <1>1, NoInodeIsNone
<1>4. TypeOK'
  <2>1. /\ pending' \in [Procs -> SUBSET {"main", "runtime"}]
        /\ missed' \in [Procs -> BOOLEAN]
    BY <1>2, TellTyped DEF IInv
  <2>2. overlapped' \in BOOLEAN
    BY <1>1 DEF IInv, TypeOK
  <2>3. data' \in [Inodes -> Contents] /\ stable' \subseteq Inodes
    BY <1>1, ContentFacts DEF IInv, TypeOK
  <2>4. /\ fd' \in [Procs -> Inodes \cup {NoInode}]
        /\ tmp' \in Inodes \cup {NoInode}
        /\ editor' \in [Procs -> {"idle", "publish", "publishNone", "save", "remove",
                                  "create", "write", "sync", "rename", "syncDir"}]
    BY <1>1, <1>2 DEF IInv, TypeOK
  <2> QED
    BY <1>2, <2>1, <2>2, <2>3, <2>4 DEF IInv, TypeOK
<1>5. /\ fd'[p] = i /\ editor'[p] = "write" /\ editor[p] \notin Writing
      /\ \A q \in Procs \ {p} : fd'[q] = fd[q] /\ editor'[q] = editor[q]
  BY <1>1, <1>2 DEF IInv, TypeOK, Writing
<1>6. WriterHasFile'
  BY <1>3, <1>5 DEF IInv, WriterHasFile, Writing
<1>7. ASSUME ~overlapped'
      PROVE  OneWriter' /\ Written' /\ Kept(runtime)' /\ Kept(disk)'
  <2>1. ~overlapped /\ \A q \in Procs : fd[q] # i
    BY <1>1, <1>7
  <2>2. OneWriter /\ Kept(runtime) /\ Kept(disk)
    BY <2>1 DEF IInv, Safe
  <2>3. \A q \in Procs : fd[q] = NoInode
    <3>1. CASE tmp = NoInode
      BY <2>2, <3>1 DEF OneWriter
    <3>2. CASE tmp # NoInode
      BY <1>1, <2>1, <2>2, <3>2 DEF OneWriter
    <3> QED
      BY <3>1, <3>2
  <2>4. OneWriter'
    BY <1>1, <1>3, <1>5, <2>3 DEF OneWriter
  <2>5. data'[i] = Empty
    BY <1>1 DEF IInv, TypeOK
  <2>6. Written'
    BY <1>5, <2>3, <2>5 DEF IInv, WriterHasFile, Writing, Written
  <2>7. /\ runtime = NoInode \/ runtime # i
        /\ disk = NoInode \/ disk # i
    BY <1>1, <2>2 DEF Kept, Free
  <2>8. \A j \in Inodes \ {i} : data'[j] = data[j] /\ (j \in stable' <=> j \in stable)
    BY <1>1 DEF IInv, TypeOK
  <2>9. runtime \in Inodes \cup {NoInode} /\ disk \in Inodes \cup {NoInode}
    BY DEF IInv, TypeOK
  <2> QED
    BY <1>1, <1>2, <2>2, <2>4, <2>6, <2>7, <2>8, <2>9 DEF Kept
<1> QED
  BY <1>4, <1>6, <1>7 DEF IInv, Safe

\* What is written over an empty file is whole.
LEMMA WriteStep ==
  ASSUME IInv, NEW p \in Procs, Write(p)
  PROVE  IInv'
<1>1. PICK content \in {Whole(built[p].staged), Torn} :
        /\ content = Torn => data[fd[p]] \notin {Empty, Whole(built[p].staged)}
        /\ data' = [data EXCEPT ![fd[p]] = content]
  BY DEF Write
<1>2. /\ editor[p] = "write" /\ stable' = stable \ {fd[p]}
      /\ editor' = [editor EXCEPT ![p] = "sync"]
      /\ Tell("runtime")
      /\ UNCHANGED <<main, runtime, tmp, disk, legacy, state, tree, staged, fd, built, reload,
                     found, load, raced, apart, overlapped>>
  BY DEF Write, layers
<1>3. built[p].staged \in Overrides
  BY LayersFacts DEF IInv, TypeOK
<1>4. content \in Contents
  BY <1>1, <1>3, ContentFacts
<1>5. fd[p] # NoInode /\ fd[p] \in Inodes
  BY <1>2 DEF IInv, TypeOK, WriterHasFile, Writing
<1>6. TypeOK'
  <2>1. /\ pending' \in [Procs -> SUBSET {"main", "runtime"}]
        /\ missed' \in [Procs -> BOOLEAN]
    BY <1>2, TellTyped DEF IInv
  <2>2. data' \in [Inodes -> Contents] /\ stable' \subseteq Inodes
    BY <1>1, <1>2, <1>4 DEF IInv, TypeOK
  <2> QED
    BY <1>2, <2>1, <2>2 DEF IInv, TypeOK
<1>7. /\ editor'[p] = "sync"
      /\ \A q \in Procs \ {p} : editor'[q] = editor[q]
  BY <1>2 DEF IInv, TypeOK
<1>8. WriterHasFile'
  BY <1>2, <1>5, <1>7 DEF IInv, WriterHasFile, Writing
<1>9. ASSUME ~overlapped
      PROVE  OneWriter' /\ Written' /\ Kept(runtime)' /\ Kept(disk)'
  <2>1. OneWriter /\ Written /\ Kept(runtime) /\ Kept(disk)
    BY <1>9 DEF IInv, Safe
  <2>2. fd[p] = tmp /\ \A q \in Procs \ {p} : fd[q] = NoInode
    BY <1>5, <2>1 DEF OneWriter
  <2>3. data'[fd[p]] = Whole(built[p].staged)
    BY <1>1, <1>2, <1>5, <2>1, ContentFacts DEF Written, IInv, TypeOK
  <2>4. Written'
    BY <1>2, <1>3, <1>7, <2>2, <2>3, ContentFacts
       DEF IInv, WriterHasFile, Writing, Written
  <2>5. \A j \in Inodes \ {fd[p]} :
          data'[j] = data[j] /\ (j \in stable' <=> j \in stable)
    BY <1>1, <1>2 DEF IInv, TypeOK
  <2>6. runtime \in Inodes \cup {NoInode} /\ disk \in Inodes \cup {NoInode}
    BY DEF IInv, TypeOK
  <2>7. OneWriter'
    BY <1>2, <2>1 DEF OneWriter
  <2> QED
    BY <1>2, <2>1, <2>2, <2>4, <2>5, <2>6, <2>7 DEF Kept
<1> QED
  BY <1>2, <1>6, <1>8, <1>9 DEF IInv, Safe

\* What a failing call leaves behind is at most a torn runtime.tmp, which
\* nobody writes any longer.
LEMMA EditFailsStep ==
  ASSUME IInv, NEW p \in Procs, EditFails(p)
  PROVE  IInv'
<1>1. /\ editor' = [editor EXCEPT ![p] = "idle"]
      /\ fd' = [fd EXCEPT ![p] = NoInode]
      /\ built' = [built EXCEPT ![p] = NoLayers]
      /\ load' = load + 1
      /\ UNCHANGED <<main, runtime, tmp, disk, legacy, state, tree, staged, reload, found,
                     raced, overlapped>>
  BY DEF EditFails, Trouble, layers
<1>2. \/ UNCHANGED <<data, stable, pending, missed>>
      \/ /\ editor[p] = "write"
         /\ data' = [data EXCEPT ![fd[p]] = Torn]
         /\ stable' = stable \ {fd[p]}
         /\ Tell("runtime")
  BY DEF EditFails
<1>3. /\ data' \in [Inodes -> Contents] /\ stable' \subseteq Inodes
      /\ pending' \in [Procs -> SUBSET {"main", "runtime"}]
      /\ missed' \in [Procs -> BOOLEAN]
  <2>1. CASE UNCHANGED <<data, stable, pending, missed>>
    BY <2>1 DEF IInv, TypeOK
  <2>2. CASE /\ data' = [data EXCEPT ![fd[p]] = Torn]
             /\ stable' = stable \ {fd[p]}
             /\ Tell("runtime")
    BY <2>2, ContentFacts, TellTyped DEF IInv, TypeOK
  <2> QED
    BY <1>2, <2>1, <2>2
<1>4. load' \in Nat /\ built' \in [Procs -> Layers]
  BY <1>1, LayersFacts DEF IInv, TypeOK
<1>5. apart' \in [Procs -> SUBSET {"main", "runtime"}]
  BY DEF EditFails, IInv, TypeOK
<1>6. TypeOK'
  BY <1>1, <1>3, <1>4, <1>5 DEF IInv, TypeOK
<1>7. /\ editor'[p] = "idle" /\ fd'[p] = NoInode
      /\ \A q \in Procs \ {p} : editor'[q] = editor[q] /\ fd'[q] = fd[q]
  BY <1>1 DEF IInv, TypeOK
<1>8. WriterHasFile'
  BY <1>7 DEF IInv, WriterHasFile, Writing
<1>9. ASSUME ~overlapped
      PROVE  OneWriter' /\ Written' /\ Kept(runtime)' /\ Kept(disk)'
  <2>1. OneWriter /\ Written /\ Kept(runtime) /\ Kept(disk)
    BY <1>9 DEF IInv, Safe
  <2>2. OneWriter'
    BY <1>1, <1>7, <2>1 DEF OneWriter
  <2>3. CASE UNCHANGED <<data, stable, pending, missed>>
    BY <1>1, <1>7, <2>1, <2>2, <2>3 DEF Written, Kept
  <2>4. CASE /\ editor[p] = "write"
             /\ data' = [data EXCEPT ![fd[p]] = Torn]
             /\ stable' = stable \ {fd[p]}
    <3>1. fd[p] # NoInode /\ fd[p] \in Inodes
      BY <2>4 DEF IInv, TypeOK, WriterHasFile, Writing
    <3>2. fd[p] = tmp /\ \A q \in Procs \ {p} : fd[q] = NoInode
      BY <2>1, <3>1 DEF OneWriter
    <3>3. \A q \in Procs : editor'[q] \notin Writing
      BY <1>7, <1>8, <3>2 DEF WriterHasFile
    <3>4. Written'
      BY <3>3 DEF Written, Writing
    <3>5. \A j \in Inodes \ {fd[p]} :
            data'[j] = data[j] /\ (j \in stable' <=> j \in stable)
      BY <2>4 DEF IInv, TypeOK
    <3>6. runtime \in Inodes \cup {NoInode} /\ disk \in Inodes \cup {NoInode}
      BY DEF IInv, TypeOK
    <3> QED
      BY <1>1, <2>1, <2>2, <3>2, <3>4, <3>5, <3>6 DEF Kept
  <2> QED
    BY <1>2, <2>3, <2>4
<1> QED
  BY <1>1, <1>6, <1>8, <1>9 DEF IInv, Safe

LEMMA SyncStep ==
  ASSUME IInv, NEW p \in Procs, Sync(p)
  PROVE  IInv'
<1>1. /\ editor[p] = "sync" /\ editor' = [editor EXCEPT ![p] = "rename"]
      /\ stable' = stable \cup {fd[p]}
      /\ UNCHANGED <<main, runtime, tmp, data, disk, legacy, state, tree, staged, fd, built,
                     pending, reload, found, load, missed, raced, apart, overlapped>>
  BY DEF Sync, layers, watching, ghosts
<1>2. fd[p] \in Inodes
  BY <1>1 DEF IInv, TypeOK, WriterHasFile, Writing
<1>3. TypeOK'
  BY <1>1, <1>2 DEF IInv, TypeOK
<1>4. /\ editor'[p] = "rename"
      /\ \A q \in Procs \ {p} : editor'[q] = editor[q]
  BY <1>1 DEF IInv, TypeOK
<1>5. WriterHasFile'
  BY <1>1, <1>4 DEF IInv, WriterHasFile, Writing
<1>6. OneWriter' = OneWriter
  BY <1>1 DEF OneWriter
<1>7. Written => Written'
  BY <1>1, <1>4 DEF Written
<1>8. (Kept(runtime) => Kept(runtime)') /\ (Kept(disk) => Kept(disk)')
  BY <1>1 DEF Kept
<1> QED
  BY <1>1, <1>3, <1>5, <1>6, <1>7, <1>8 DEF IInv, Safe

\* The rename puts the file there that this very Save wrote and synced.
LEMMA RenameStep ==
  ASSUME IInv, NEW p \in Procs, Rename(p)
  PROVE  IInv'
<1>1. /\ editor[p] = "rename"
      /\ fd' = [fd EXCEPT ![p] = NoInode]
      /\ built' = [built EXCEPT ![p] = NoLayers]
      /\ UNCHANGED <<main, data, stable, disk, legacy, state, tree, staged, reload, found, load,
                     raced, apart, overlapped>>
  BY DEF Rename, layers
<1>2. \/ /\ tmp # NoInode /\ runtime' = tmp /\ tmp' = NoInode
         /\ editor' = [editor EXCEPT ![p] = "syncDir"]
         /\ Tell("runtime")
      \/ /\ tmp = NoInode
         /\ editor' = [editor EXCEPT ![p] = "idle"]
         /\ UNCHANGED <<runtime, tmp, pending, missed>>
  BY DEF Rename
<1>3. /\ built' \in [Procs -> Layers] /\ fd' \in [Procs -> Inodes \cup {NoInode}]
      /\ pending' \in [Procs -> SUBSET {"main", "runtime"}]
      /\ missed' \in [Procs -> BOOLEAN]
      /\ {runtime', tmp'} \subseteq Inodes \cup {NoInode}
      /\ editor' \in [Procs -> {"idle", "publish", "publishNone", "save", "remove",
                                "create", "write", "sync", "rename", "syncDir"}]
  <2>1. built' \in [Procs -> Layers] /\ fd' \in [Procs -> Inodes \cup {NoInode}]
    BY <1>1, LayersFacts DEF IInv, TypeOK
  <2>2. CASE /\ tmp # NoInode /\ runtime' = tmp /\ tmp' = NoInode
             /\ editor' = [editor EXCEPT ![p] = "syncDir"]
             /\ Tell("runtime")
    <3>1. /\ pending' \in [Procs -> SUBSET {"main", "runtime"}]
          /\ missed' \in [Procs -> BOOLEAN]
      BY <2>2, TellTyped DEF IInv
    <3> QED
      BY <2>1, <2>2, <3>1 DEF IInv, TypeOK
  <2>3. CASE /\ tmp = NoInode
             /\ editor' = [editor EXCEPT ![p] = "idle"]
             /\ UNCHANGED <<runtime, tmp, pending, missed>>
    BY <2>1, <2>3 DEF IInv, TypeOK
  <2> QED
    BY <1>2, <2>2, <2>3
<1>4. TypeOK'
  BY <1>1, <1>3 DEF IInv, TypeOK
<1>5. /\ editor'[p] \in {"syncDir", "idle"} /\ fd'[p] = NoInode
      /\ \A q \in Procs \ {p} : editor'[q] = editor[q] /\ fd'[q] = fd[q]
  BY <1>1, <1>2 DEF IInv, TypeOK
<1>6. WriterHasFile'
  BY <1>5 DEF IInv, WriterHasFile, Writing
<1>7. ASSUME ~overlapped
      PROVE  OneWriter' /\ Written' /\ Kept(runtime)' /\ Kept(disk)'
  <2>1. OneWriter /\ Written /\ Kept(runtime) /\ Kept(disk)
    BY <1>7 DEF IInv, Safe
  <2>2. fd[p] # NoInode /\ fd[p] = tmp /\ \A q \in Procs \ {p} : fd[q] = NoInode
    BY <1>1, <2>1 DEF OneWriter, IInv, WriterHasFile, Writing
  <2>3. \A q \in Procs : fd'[q] = NoInode
    BY <1>5, <2>2
  <2>4. OneWriter'
    BY <2>3 DEF OneWriter
  <2>5. Written'
    BY <1>6, <2>3 DEF WriterHasFile, Writing, Written
  <2>6. tmp # NoInode /\ runtime' = tmp /\ tmp' = NoInode
    BY <1>2, <2>2
  <2>7. data[tmp].kind = "whole" /\ tmp \in stable
    BY <1>1, <2>1, <2>2 DEF Written
  <2> QED
    BY <1>1, <2>1, <2>4, <2>5, <2>6, <2>7 DEF Kept
<1> QED
  BY <1>1, <1>4, <1>6, <1>7 DEF IInv, Safe

\* The ends of Save and of ResetAllRuntime.
LEMMA LastStep ==
  ASSUME IInv, NEW p \in Procs, SyncDir(p) \/ Remove(p)
  PROVE  IInv'
<1>1. /\ editor[p] \in {"syncDir", "remove"}
      /\ editor' = [editor EXCEPT ![p] = "idle"]
      /\ UNCHANGED <<main, tmp, data, stable, legacy, state, tree, staged, fd, built, reload,
                     found, load, raced, apart, overlapped>>
  BY DEF SyncDir, Remove, layers, watching, ghosts
<1>2. \/ disk' = runtime /\ UNCHANGED <<runtime, pending, missed>>
      \/ runtime' = NoInode /\ disk' = disk /\ Tell("runtime")
      \/ runtime' = NoInode /\ disk' = disk /\ UNCHANGED <<pending, missed>>
  BY DEF SyncDir, Remove, watching, ghosts
<1>3. /\ pending' \in [Procs -> SUBSET {"main", "runtime"}]
      /\ missed' \in [Procs -> BOOLEAN]
      /\ {runtime', disk'} \subseteq Inodes \cup {NoInode}
  <2>1. CASE UNCHANGED <<pending, missed>>
    BY <1>2, <2>1 DEF IInv, TypeOK
  <2>2. CASE Tell("runtime")
    BY <1>2, <2>2, TellTyped DEF IInv, TypeOK
  <2> QED
    BY <1>2, <2>1, <2>2
<1>4. TypeOK'
  BY <1>1, <1>3 DEF IInv, TypeOK
<1>5. /\ editor'[p] = "idle" /\ editor[p] \notin Writing
      /\ \A q \in Procs \ {p} : editor'[q] = editor[q]
  BY <1>1 DEF IInv, TypeOK, Writing
<1>6. WriterHasFile'
  BY <1>1, <1>5 DEF IInv, WriterHasFile, Writing
<1>7. OneWriter' = OneWriter
  BY <1>1 DEF OneWriter
<1>8. Written => Written'
  BY <1>1, <1>5 DEF Written, Writing
<1>9. Kept(runtime) /\ Kept(disk) => Kept(runtime)' /\ Kept(disk)'
  BY <1>1, <1>2 DEF Kept
<1> QED
  BY <1>1, <1>4, <1>6, <1>7, <1>8, <1>9 DEF IInv, Safe

-----------------------------------------------------------------------------
\* Deaths: what a process wrote stays at runtime.tmp.

LEMMA GoneTyped ==
  ASSUME TypeOK, NEW ps \in SUBSET Procs, Gone(ps)
  PROVE  /\ state' \in [Procs -> {"off", "loaded", "on"}]
         /\ tree' \in [Procs -> Trees \cup {Broken}]
         /\ staged' \in [Procs -> Overrides]
         /\ editor' \in [Procs -> {"idle", "publish", "publishNone", "save", "remove",
                                   "create", "write", "sync", "rename", "syncDir"}]
         /\ fd' \in [Procs -> Inodes \cup {NoInode}]
         /\ built' \in [Procs -> Layers]
         /\ pending' \in [Procs -> SUBSET {"main", "runtime"}]
         /\ reload' \in [Procs -> {"idle", "main", "mainRuntime", "publishMain",
                                   "runtime", "tree", "publishRuntime"}]
         /\ found' \in [Procs -> Layers]
         /\ missed' \in [Procs -> BOOLEAN] /\ raced' \in [Procs -> BOOLEAN]
         /\ apart' \in [Procs -> SUBSET {"main", "runtime"}]
         /\ \A p \in Procs :
              \/ p \in ps /\ editor'[p] = "idle" /\ fd'[p] = NoInode
              \/ p \notin ps /\ editor'[p] = editor[p] /\ fd'[p] = fd[p]
<1>1. {} \in Overrides /\ NoLayers \in Layers
  BY LayersFacts DEF Overrides
<1>2. /\ state' \in [Procs -> {"off", "loaded", "on"}]
      /\ tree' \in [Procs -> Trees \cup {Broken}]
      /\ staged' \in [Procs -> Overrides]
  BY <1>1 DEF Gone, TypeOK
<1>3. /\ editor' \in [Procs -> {"idle", "publish", "publishNone", "save", "remove",
                                "create", "write", "sync", "rename", "syncDir"}]
      /\ fd' \in [Procs -> Inodes \cup {NoInode}]
  BY DEF Gone, TypeOK
<1>4. built' \in [Procs -> Layers] /\ found' \in [Procs -> Layers]
  BY <1>1 DEF Gone, TypeOK
<1>5. /\ pending' \in [Procs -> SUBSET {"main", "runtime"}]
      /\ reload' \in [Procs -> {"idle", "main", "mainRuntime", "publishMain",
                                "runtime", "tree", "publishRuntime"}]
  BY DEF Gone, TypeOK
<1>6. \A p \in Procs :
        \/ p \in ps /\ editor'[p] = "idle" /\ fd'[p] = NoInode
        \/ p \notin ps /\ editor'[p] = editor[p] /\ fd'[p] = fd[p]
  BY DEF Gone
<1>7. /\ missed' \in [Procs -> BOOLEAN] /\ raced' \in [Procs -> BOOLEAN]
      /\ apart' \in [Procs -> SUBSET {"main", "runtime"}]
  BY DEF Gone, TypeOK
<1> QED
  BY <1>2, <1>3, <1>4, <1>5, <1>6, <1>7

LEMMA DeathStep ==
  ASSUME IInv, NEW p \in Procs, Dies(p)
  PROVE  IInv'
<1>1. /\ Gone({p}) /\ load' = load + 1
      /\ UNCHANGED <<main, runtime, tmp, data, stable, disk, legacy, overlapped>>
  BY DEF Dies, Trouble, files
<1>2. load' \in Nat
  BY <1>1 DEF IInv, TypeOK
<1>3. {p} \in SUBSET Procs
  OBVIOUS
<1>4. TypeOK'
  BY <1>1, <1>2, <1>3, GoneTyped DEF IInv, TypeOK
<1>5. \A q \in Procs :
        \/ q = p /\ editor'[q] = "idle" /\ fd'[q] = NoInode
        \/ q # p /\ editor'[q] = editor[q] /\ fd'[q] = fd[q]
  BY <1>1, <1>3, GoneTyped DEF IInv
<1>6. WriterHasFile'
  BY <1>5 DEF IInv, WriterHasFile, Writing
<1>7. OneWriter /\ Written => OneWriter' /\ Written'
  BY <1>1, <1>5 DEF OneWriter, Written
<1>8. Kept(runtime)' = Kept(runtime) /\ Kept(disk)' = Kept(disk)
  BY <1>1 DEF Kept
<1> QED
  BY <1>1, <1>4, <1>6, <1>7, <1>8 DEF IInv, Safe

LEMMA PowerStep ==
  ASSUME IInv, PowerFails
  PROVE  IInv'
<1>1. /\ Gone(Procs) /\ load' = load + 1
      /\ runtime' \in {runtime, disk} /\ disk' = runtime' /\ tmp' = NoInode
      /\ stable' = Inodes
      /\ UNCHANGED <<main, legacy, overlapped>>
  BY DEF PowerFails, Trouble
<1>2. PICK lost \in SUBSET (Inodes \ stable) :
        data' = [i \in Inodes |-> IF i \in lost THEN Empty ELSE data[i]]
  BY DEF PowerFails
<1>3. load' \in Nat
  BY <1>1 DEF IInv, TypeOK
<1>4. data' \in [Inodes -> Contents]
  BY <1>2, ContentFacts DEF IInv, TypeOK
<1>5. Procs \in SUBSET Procs
  OBVIOUS
<1>6. TypeOK'
  BY <1>1, <1>3, <1>4, <1>5, GoneTyped DEF IInv, TypeOK
<1>7. \A q \in Procs : editor'[q] = "idle" /\ fd'[q] = NoInode
  BY <1>1, <1>5, GoneTyped DEF IInv
<1>8. WriterHasFile' /\ OneWriter' /\ Written'
  BY <1>7 DEF WriterHasFile, Writing, OneWriter, Written
<1>9. ASSUME NEW i \in {runtime, disk}, Kept(i)
      PROVE  i = NoInode \/ (data'[i].kind = "whole" /\ i \in stable' /\ i # tmp')
  <2>1. CASE i = NoInode
    BY <2>1
  <2>2. CASE i # NoInode
    <3>1. i \in Inodes /\ i \in stable /\ data[i].kind = "whole"
      BY <1>9, <2>2 DEF Kept, IInv, TypeOK
    <3>2. data'[i] = data[i]
      BY <1>2, <3>1
    <3> QED
      BY <1>1, <2>2, <3>1, <3>2
  <2> QED
    BY <2>1, <2>2
<1>10. Kept(runtime) /\ Kept(disk) => Kept(runtime)' /\ Kept(disk)'
  BY <1>1, <1>9 DEF Kept
<1> QED
  BY <1>1, <1>6, <1>8, <1>10 DEF IInv, Safe

-----------------------------------------------------------------------------
LEMMA InitInv == Init => IInv
<1> SUFFICES ASSUME Init PROVE IInv
  OBVIOUS
<1>1. TypeOK
  BY FirstAssumption, ContentFacts, LayersFacts DEF Init, TypeOK, Overrides
<1>2. WriterHasFile /\ OneWriter /\ Written
  BY DEF Init, WriterHasFile, Writing, OneWriter, Written
<1>3. Kept(runtime) /\ Kept(disk)
  BY DEF Init, Kept
<1> QED
  BY <1>1, <1>2, <1>3 DEF IInv, Safe

LEMMA NextInv == IInv /\ [Next]_vars => IInv'
<1> SUFFICES ASSUME IInv, [Next]_vars PROVE IInv'
  OBVIOUS
<1>1. CASE UNCHANGED vars
  <2>1. UNCHANGED <<main, runtime, tmp, data, stable, disk, legacy, state, tree, staged, editor,
                    fd, built, pending, reload, found, load, missed, raced, apart, overlapped>>
    BY <1>1 DEF vars, files, layers, editing, watching, ghosts
  <2>2. TypeOK'
    BY <2>1 DEF IInv, TypeOK
  <2> QED
    BY <2>1, <2>2, FilesAlone
<1>2. CASE \E content \in Trees \cup {Broken} : EditMain(content)
  BY <1>2, OutsideStep
<1>3. CASE PowerFails
  BY <1>3, PowerStep
<1>4. ASSUME NEW p \in Procs, Load(p) \/ StartWatcher(p) \/ Dies(p) PROVE IInv'
  BY <1>4, OutsideStep, DeathStep
<1>5. ASSUME NEW p \in Procs,
             \/ \E leaf \in Leaves : SetByPath(p, leaf) \/ ResetByPath(p, leaf)
             \/ ResetAllRuntime(p)
      PROVE  IInv'
  BY <1>5, SetStep
<1>6. ASSUME NEW p \in Procs, Edit(p) PROVE IInv'
  BY <1>6, SetStep, LastStep, CreateStep, WriteStep, SyncStep, RenameStep
     DEF Edit
<1>7. ASSUME NEW p \in Procs, Reload(p) \/ ReadFails(p) PROVE IInv'
  BY <1>7, ReloadStep
<1>8. ASSUME NEW p \in Procs, EditFails(p) PROVE IInv'
  BY <1>8, EditFailsStep
<1>9. CASE RemoveLegacy
  BY <1>9, OutsideStep
<1> QED
  BY <1>1, <1>2, <1>3, <1>4, <1>5, <1>6, <1>7, <1>8, <1>9 DEF Next

\* Whatever dies or fails in the middle of Save, and if the power fails,
\* runtime.yaml is whole, the old content or the new, unless two processes
\* saved at once.
THEOREM FilesStayWhole == Spec => []FilesAreWhole
<1>1. IInv => FilesAreWhole
  BY DEF IInv, Safe, Kept, FilesAreWhole, SavesAreWhole, IsWhole
<1> QED
  BY <1>1, InitInv, NextInv, PTL DEF Spec
=============================================================================
