--------------------------- MODULE WallpaperCycle ---------------------------
(***************************************************************************)
(* The cycle of the wallpaper service (service/wallpaper): the wallpapers  *)
(* of the monitors and the directory of images they go through.            *)
(*                                                                         *)
(* Any number of goroutines call it (D-Bus methods, the reload of the      *)
(* configuration, outputs that come and go).  A call is a few sections     *)
(* under the mutex, which may carry a cycle read in one of them into       *)
(* another, and a send on a one-slot channel after them.  The runner owns  *)
(* the timer and the directory watch, which may not come about, may end    *)
(* with its directory, and does not report everything the scan lists; the  *)
(* scan may fail.                                                          *)
(***************************************************************************)
EXTENDS Integers, Sequences, SequencesExt

CONSTANTS
  Callers,    \* the goroutines that call the service
  Runner,     \* runCycling
  Monitors,   \* the monitors, numbers in the order of their names
  Dirs,       \* the directories of images
  NoDir,      \* none of them
  MaxImages,  \* bound on the images of a directory
  Folders,    \* those of them that are directories with the name of an image
  MaxLoad     \* bound on the calls made and the changes of directories

ASSUME RunnerAssumption == Runner \notin Callers
ASSUME MonitorsAssumption == Monitors \subseteq Nat \ {0}
ASSUME DirsAssumption == NoDir \notin Dirs
ASSUME FoldersAssumption == Folders \subseteq 1 .. MaxImages
ASSUME BoundsAssumption == MaxImages \in Nat /\ MaxLoad \in Nat

VARIABLES
  images,     \* what is in a directory
  gone,       \* the directories that are not there
  plugged,    \* the monitors registered, ...
  wall,       \* ... their wallpaper and ...
  index,      \* ... their place in the cycle
  cycling,    \* Service.cycling
  shared,     \* Service.sharedCycle
  pc,         \* where a goroutine is in its call
  held,       \* the cycle it carries, read or made earlier
  cycleKick,  \* the slot of cycleKick
  timer,      \* the timer is set
  watched,    \* the directory to watch, ...
  listening,  \* ... which has a watch that lives
  dirEvent,   \* the slot of its events
  load,       \* what MaxLoad bounds
  missed      \* a change that nobody was told of, a rescan that failed, or an
              \* older pool that a caller put back

monitors == <<plugged, wall, index>>
calls == <<pc, held>>
disk == <<images, gone>>
driver == <<timer, watched, listening, dirEvent>>
vars == <<disk, monitors, cycling, shared, calls, cycleKick, driver, load,
          missed>>

Goroutines == Callers \cup {Runner}
NoImage == <<NoDir, 0>>
Picture == <<NoDir, 1>>   \* a wallpaper set by hand
Image == (Dirs \X (1 .. MaxImages)) \cup {NoImage, Picture}
Modes == {"sequential", "shuffle"}
Stopped == [dir |-> NoDir, pool |-> << >>, mode |-> "sequential", pace |-> 0]

Lowest(ms) == CHOOSE m \in ms : \A k \in ms : m <= k
Count(cycle) == Len(cycle.pool)
\* ImageAt, with a pool.
ImageAt(cycle, i) == <<cycle.dir, cycle.pool[(i % Count(cycle)) + 1]>>

\* scanImages and orderImages: the images by name, or in any order.
Ordered(dir, mode) ==
  {pool \in SetToSeqs(images[dir]) :
     mode = "sequential" => \A i, j \in DOMAIN pool : i < j => pool[i] < pool[j]}

Call == load < MaxLoad /\ load' = load + 1
Free(g) == g \in Callers /\ pc[g] = "idle"
Goto(g, label) == pc' = [pc EXCEPT ![g] = label]
Hold(g, cycle) == held' = [held EXCEPT ![g] = cycle]

\* The monitors take the places is, and the images there.
Place(cycle, is) ==
  /\ index' = [m \in Monitors |-> IF m \in plugged THEN is[m] ELSE index[m]]
  /\ wall' = [m \in Monitors |->
                IF m \in plugged THEN ImageAt(cycle, is[m]) ELSE wall[m]]
  /\ UNCHANGED plugged

\* step: every monitor moves to one of the places Moves gives for it.
Step(Moves(_, _)) ==
  \/ /\ Count(cycling) = 0
     /\ UNCHANGED monitors
  \/ /\ Count(cycling) > 0
     /\ \E is \in [plugged -> 0 .. MaxImages] :
          /\ \A m \in plugged : is[m] \in Moves(index[m], Count(cycling))
          /\ Place(cycling, is)
Here(i, n) == {i}
Forward(i, n) == {(i + 1) % n}
Back(i, n) == {IF i = 0 THEN n - 1 ELSE i - 1}
Anywhere(i, n) == 0 .. n - 1

-----------------------------------------------------------------------------
\* Calls of one section.

SetWallpaper(g, ms) ==
  /\ Free(g) /\ Call
  /\ wall' = [m \in Monitors |->
                IF m \in ms \cap plugged THEN Picture ELSE wall[m]]
  /\ UNCHANGED <<disk, plugged, index, cycling, shared, calls, cycleKick,
                 driver, missed>>

Move(g, Moves(_, _)) ==
  /\ Free(g) /\ Call
  /\ Step(Moves)
  /\ UNCHANGED <<disk, cycling, shared, calls, cycleKick, driver, missed>>
Advance(g) == Move(g, Forward)
Rewind(g) == Move(g, Back)

\* startingIndexLocked.
Starts ==
  IF Count(cycling) = 0 \/ cycling.mode = "sequential" THEN {0}
    ELSE IF ~shared THEN 0 .. Count(cycling) - 1
    ELSE IF plugged = {} THEN {0} ELSE {index[Lowest(plugged)]}

RegisterMonitor(g, m) ==
  /\ Free(g) /\ Call
  /\ m \notin plugged
  /\ plugged' = plugged \cup {m}
  /\ \E i \in Starts :
       /\ index' = [index EXCEPT ![m] = i]
       /\ wall' = [wall EXCEPT ![m] =
            IF Count(cycling) = 0 THEN NoImage ELSE ImageAt(cycling, i)]
  /\ UNCHANGED <<disk, cycling, shared, calls, cycleKick, driver, missed>>

UnregisterMonitor(g, m) ==
  /\ Free(g) /\ Call
  /\ m \in plugged
  /\ plugged' = plugged \ {m}
  /\ wall' = [wall EXCEPT ![m] = NoImage]
  /\ index' = [index EXCEPT ![m] = 0]
  /\ UNCHANGED <<disk, cycling, shared, calls, cycleKick, driver, missed>>

-----------------------------------------------------------------------------
\* Calls of several sections.

\* StartCycling: the pool is made, then the monitors get their places.
StartCycling(g, dir, mode) ==
  /\ Free(g) /\ Call
  /\ images[dir] # {}
  /\ \E pool \in Ordered(dir, mode) :
       Hold(g, [dir |-> dir, pool |-> pool, mode |-> mode, pace |-> 1])
  /\ Goto(g, "places")
  /\ UNCHANGED <<disk, monitors, cycling, shared, cycleKick, driver, missed>>

Places(g) ==
  /\ pc[g] = "places"
  /\ \E is \in [plugged -> 0 .. Count(held[g]) - 1] :
       /\ held[g].mode = "sequential" => \A m \in plugged : is[m] = 0
       /\ held[g].mode = "shuffle" /\ shared =>
            \A m, k \in plugged : is[m] = is[k]
       /\ index' = [m \in Monitors |->
                      IF m \in plugged THEN is[m] ELSE index[m]]
  /\ Goto(g, "setForced")
  /\ UNCHANGED <<disk, plugged, wall, cycling, shared, held, cycleKick,
                 driver, load, missed>>

StopCycling(g) ==
  /\ Free(g) /\ Call
  /\ Hold(g, Stopped)
  /\ Goto(g, "set")
  /\ UNCHANGED <<disk, monitors, cycling, shared, cycleKick, driver, missed>>

\* SetCyclingInterval takes the cycle out of the mutex to change it.
SetCyclingInterval(g, pace) ==
  /\ Free(g) /\ Call
  /\ cycling # Stopped
  /\ Hold(g, [cycling EXCEPT !.pace = pace])
  /\ Goto(g, "set")
  /\ UNCHANGED <<disk, monitors, cycling, shared, cycleKick, driver, missed>>

IsCurrent(cycle) == ToSet(cycle.pool) = images[cycle.dir]

\* Mutant: the runner is told of a new cycle only when it starts.
NextSectionForced(g) ==
  IF (pc[g] = "set" /\ cycling = held[g]) \/ held[g] = Stopped THEN "idle"
    ELSE "render"
\* setCycling: only a change, or force, is rendered and told to the runner.
NextSection(g) ==
  IF pc[g] = "set" /\ cycling = held[g] THEN "idle"
    ELSE IF held[g] = Stopped THEN "kickCycle" ELSE "render"

\* The cycle there is once the runner has put back the one it refreshed.
Coming == IF pc[Runner] = "set" THEN held[Runner] ELSE cycling

SetCycling(g) ==
  /\ pc[g] \in {"set", "setForced"}
  /\ cycling' = held[g]
  /\ Goto(g, NextSection(g))
  /\ Hold(g, Stopped)
  /\ missed' = IF pc[Runner] = "set" THEN missed
       ELSE /\ held[g] # Stopped
            /\ \/ missed /\ pc[g] = "set"
               \/ ~IsCurrent(held[g]) /\ ~(dirEvent /\ watched = held[g].dir)
  /\ UNCHANGED <<disk, monitors, shared, cycleKick, driver, load>>

RenderCycle(g) ==
  /\ pc[g] = "render"
  /\ Step(Here)
  /\ Goto(g, "kickCycle")
  /\ UNCHANGED <<disk, cycling, shared, held, cycleKick, driver, load,
                 missed>>

KickCycle(g) ==
  /\ pc[g] = "kickCycle"
  /\ cycleKick' = TRUE
  /\ Goto(g, "idle")
  /\ UNCHANGED <<disk, monitors, cycling, shared, held, driver, load,
                 missed>>

\* SetSharedCycle: a shuffle under way is aligned, or scattered, by the pool
\* that was current then.
SetSharedCycle(g) ==
  /\ Free(g) /\ Call
  /\ shared' = ~shared
  /\ \/ /\ cycling.mode = "shuffle" /\ Count(cycling) > 0
        /\ Hold(g, cycling)
        /\ Goto(g, IF shared THEN "scatter" ELSE "align")
     \/ /\ cycling.mode # "shuffle" \/ Count(cycling) = 0
        /\ UNCHANGED calls
  /\ UNCHANGED <<disk, monitors, cycling, cycleKick, driver, missed>>

Align(g) ==
  /\ pc[g] \in {"align", "scatter"}
  /\ \E is \in [plugged -> 0 .. MaxImages] :
       /\ pc[g] = "align" => \A m \in plugged : is[m] = index[Lowest(plugged)]
       /\ pc[g] = "scatter" => \A m \in plugged : is[m] < Count(held[g])
       /\ Place(held[g], is)
  /\ Hold(g, Stopped)
  /\ Goto(g, "idle")
  /\ UNCHANGED <<disk, cycling, shared, cycleKick, driver, load, missed>>

-----------------------------------------------------------------------------
\* runCycling.

\* The cycle changed: the timer restarts, the watch follows the directory, if
\* it can be set up.
TakeCycleKick ==
  /\ pc[Runner] = "idle" /\ cycleKick
  /\ cycleKick' = FALSE
  /\ timer' = (cycling # Stopped)
  /\ watched' = cycling.dir
  /\ \/ watched = cycling.dir /\ UNCHANGED listening
     \/ watched # cycling.dir /\ listening' \in {FALSE, cycling.dir \in Dirs \ gone}
  /\ dirEvent' = (dirEvent /\ watched = cycling.dir)
  /\ UNCHANGED <<disk, monitors, cycling, shared, calls, load, missed>>

\* tick reads the cycle, then moves the monitors; an empty pool stops it.
Fire ==
  /\ pc[Runner] = "idle" /\ timer
  /\ timer' = FALSE
  /\ \/ /\ Count(cycling) > 0
        /\ Hold(Runner, cycling)
        /\ Goto(Runner, "tick")
     \/ /\ Count(cycling) = 0
        /\ UNCHANGED calls
  /\ UNCHANGED <<disk, monitors, cycling, shared, cycleKick, watched,
                 listening, dirEvent, load, missed>>

Scatters == held[Runner].mode = "shuffle" /\ ~shared

Tick ==
  /\ pc[Runner] = "tick"
  /\ \/ Scatters /\ Step(Anywhere)
     \/ ~Scatters /\ Step(Forward)
  /\ timer' = TRUE
  /\ Hold(Runner, Stopped)
  /\ Goto(Runner, "idle")
  /\ UNCHANGED <<disk, cycling, shared, cycleKick, watched, listening,
                 dirEvent, load, missed>>

\* refreshCycling: a clone of the cycle, whose directory is then scanned.
RefreshCycling ==
  /\ pc[Runner] = "idle" /\ dirEvent
  /\ dirEvent' = FALSE
  /\ \/ /\ cycling.dir = watched
        /\ Hold(Runner, cycling)
        /\ Goto(Runner, "scan")
     \/ /\ cycling.dir # watched
        /\ UNCHANGED calls
  /\ UNCHANGED <<disk, monitors, cycling, shared, cycleKick, timer, watched,
                 listening, load, missed>>

\* Mutant: a rescan adds what is new and keeps what is deleted.
ScanAppends ==
  /\ pc[Runner] = "scan" /\ held[Runner].dir \notin gone
  /\ \E pool \in SetToSeqs(images[held[Runner].dir] \cup ToSet(held[Runner].pool)) :
       Hold(Runner, [held[Runner] EXCEPT !.pool = pool])
  /\ Goto(Runner, "set")
  /\ missed' = FALSE
  /\ UNCHANGED <<disk, monitors, cycling, shared, cycleKick, driver, load>>
Scan ==
  /\ pc[Runner] = "scan" /\ held[Runner].dir \notin gone
  /\ \E pool \in Ordered(held[Runner].dir, held[Runner].mode) :
       Hold(Runner, [held[Runner] EXCEPT !.pool = pool])
  /\ Goto(Runner, "set")
  /\ missed' = FALSE
  /\ UNCHANGED <<disk, monitors, cycling, shared, cycleKick, driver, load>>

\* A directory that is not there, or cannot be read, leaves the pool; the
\* event is spent.
ScanFails ==
  /\ pc[Runner] = "scan"
  /\ \/ held[Runner].dir \in gone /\ UNCHANGED load
     \/ held[Runner].dir \notin gone /\ Call
  /\ missed' = (missed \/ (cycling.dir = held[Runner].dir
                             /\ ~dirEvent /\ ~IsCurrent(cycling)))
  /\ Hold(Runner, Stopped)
  /\ Goto(Runner, "idle")
  /\ UNCHANGED <<disk, monitors, cycling, shared, cycleKick, driver>>

-----------------------------------------------------------------------------
\* The directories.

Hears(dir) == listening /\ watched = dir

Changes(dir, content, told) ==
  /\ Call
  /\ images' = [images EXCEPT ![dir] = content]
  /\ dirEvent' = (dirEvent \/ told)
  /\ missed' = (missed \/ (Coming.dir = dir /\ ~told
                             /\ ~(dirEvent /\ watched = dir)))
  /\ UNCHANGED <<monitors, cycling, shared, calls, cycleKick, timer, watched>>

\* Files come and go, of which the watch tells, if there is one; a directory
\* that is made or removed it does not count.
DirChanges(dir, content) ==
  /\ dir \notin gone /\ images[dir] # content
  /\ \/ Changes(dir, content, Hears(dir))
     \/ /\ (images[dir] \cup content) \ (images[dir] \cap content) \subseteq Folders
        /\ Changes(dir, content, FALSE)
  /\ UNCHANGED <<gone, listening>>

\* The directory is removed, which the watch tells of if there were files in
\* it, or moved or unmounted, which it does not; it ends with it.
DirGoes(dir) ==
  /\ dir \notin gone
  /\ gone' = gone \cup {dir}
  /\ listening' = (listening /\ watched # dir)
  /\ \E told \in {FALSE, Hears(dir)} : Changes(dir, {}, told)

DirReturns(dir, content) ==
  /\ dir \in gone
  /\ gone' = gone \ {dir}
  /\ Changes(dir, content, FALSE)
  /\ UNCHANGED listening

-----------------------------------------------------------------------------
\* New, with the monitors the shell registers before Run, if there are any;
\* Run starts with a kick.
Init ==
  /\ images = [d \in Dirs |-> 1 .. MaxImages] /\ gone = {}
  /\ plugged \in {{}, Monitors} /\ wall = [m \in Monitors |-> NoImage]
  /\ index = [m \in Monitors |-> 0]
  /\ cycling = Stopped /\ shared \in BOOLEAN
  /\ pc = [g \in Goroutines |-> "idle"]
  /\ held = [g \in Goroutines |-> Stopped]
  /\ cycleKick = TRUE
  /\ timer = FALSE /\ watched = NoDir /\ listening = FALSE
  /\ dirEvent = FALSE
  /\ load = 0 /\ missed = FALSE

CallOf(g) ==
  \/ \E ms \in {Monitors} \cup {{m} : m \in Monitors} : SetWallpaper(g, ms)
  \/ Advance(g) \/ Rewind(g)
  \/ \E m \in Monitors : RegisterMonitor(g, m) \/ UnregisterMonitor(g, m)
  \/ \E dir \in Dirs, mode \in Modes : StartCycling(g, dir, mode)
  \/ \E pace \in {1, 2} : SetCyclingInterval(g, pace)
  \/ StopCycling(g) \/ SetSharedCycle(g)

Next ==
  \/ \E g \in Callers : CallOf(g) \/ Places(g) \/ Align(g)
  \/ \E g \in Goroutines : SetCycling(g) \/ RenderCycle(g) \/ KickCycle(g)
  \/ TakeCycleKick \/ Fire \/ Tick \/ RefreshCycling \/ Scan \/ ScanFails
  \/ \E dir \in Dirs, content \in SUBSET (1 .. MaxImages) :
       DirChanges(dir, content) \/ DirGoes(dir) \/ DirReturns(dir, content)

Spec == Init /\ [][Next]_vars

-----------------------------------------------------------------------------
\* Properties.

\* Type correctness of the cycle and of the calls under way.
Cycles == {Stopped} \cup
  [dir : Dirs, pool : BoundedSeq(1 .. MaxImages, MaxImages), mode : Modes,
   pace : {1, 2}]
TypeOK ==
  /\ images \in [Dirs -> SUBSET (1 .. MaxImages)] /\ gone \subseteq Dirs
  /\ plugged \subseteq Monitors
  /\ wall \in [Monitors -> Image] /\ index \in [Monitors -> 0 .. MaxImages]
  /\ cycling \in Cycles /\ shared \in BOOLEAN
  /\ pc \in [Goroutines -> {"idle", "places", "set", "setForced", "render",
                            "kickCycle", "align", "scatter", "tick", "scan"}]
  /\ held \in [Goroutines -> Cycles]
  /\ cycleKick \in BOOLEAN
  /\ timer \in BOOLEAN /\ watched \in Dirs \cup {NoDir}
  /\ listening \in BOOLEAN /\ dirEvent \in BOOLEAN
  /\ load \in Nat /\ missed \in BOOLEAN

\* Nobody is inside a call, and the runner has nothing to look at.
Settled ==
  /\ \A g \in Goroutines : pc[g] = "idle"
  /\ ~cycleKick /\ ~dirEvent

\* A cycle with images has its timer, its directory is the one to watch, and
\* it shows on every monitor; without a cycle there are neither.
CycleIsDriven ==
  Settled =>
    /\ watched = cycling.dir
    /\ cycling = Stopped => ~timer
    /\ Count(cycling) > 0 =>
         timer /\ \A m \in plugged : wall[m] # NoImage

CycleIsSound == TypeOK /\ CycleIsDriven

\* The pool is the content of the directory.  What can keep a change from it
\* is that nobody was told of the change, because the directory had no watch
\* or what changed is itself a directory; that the rescan failed, and no event
\* came since; or an older cycle that a caller put back: what the runner puts
\* back itself never does.
PoolFollowsDirectory ==
  Settled /\ ~missed /\ cycling # Stopped
    => ToSet(cycling.pool) = images[cycling.dir]
=============================================================================
