------------------------ MODULE WallpaperCycleProofs ------------------------
(***************************************************************************)
(* Theorems about WallpaperCycle.                                          *)
(*                                                                         *)
(* The runner learns of everything late: of a new cycle by a kick, of the  *)
(* directory by an event, and what it does then takes several sections.    *)
(* The invariant says, for each thing that is not yet as it should be,     *)
(* what is under way that will make it so.                                 *)
(***************************************************************************)
EXTENDS WallpaperCycle, FiniteSetTheorems, FunctionTheorems, TLAPS

\* A kick is in the slot, or with a goroutine that will put it there.
KickDue == cycleKick \/ \E g \in Goroutines : pc[g] \in {"render", "kickCycle"}

\* A cycle that is carried to the monitors has images; the runner watches the
\* directory of the one it refreshes.
Carried ==
  /\ \A g \in Goroutines : pc[g] \in {"align", "scatter"} => Count(held[g]) > 0
  /\ pc[Runner] \notin {"places", "setForced"}
  /\ dirEvent => watched \in Dirs
  /\ pc[Runner] \in {"scan", "set"} =>
       watched \in Dirs /\ held[Runner].dir = watched

\* The watch and the timer are those of the cycle, which is moved along by the
\* timer or by the tick under way, or a kick is due.
Driven ==
  ~KickDue =>
    /\ watched = cycling.dir
    /\ cycling = Stopped => ~timer
    /\ Count(cycling) > 0 => timer \/ pc[Runner] = "tick"
    /\ pc[Runner] = "tick" => Count(cycling) > 0

\* A cycle with images is on every monitor, or about to be rendered.
Shown ==
  (\A g \in Goroutines : pc[g] # "render") /\ Count(cycling) > 0
    => \A m \in plugged : wall[m] # NoImage

\* The pool, or the one that the runner is about to put back, is current, or an
\* event or a rescan is under way, or the change could not be seen.
Followed ==
  ~missed /\ Coming # Stopped =>
    \/ IsCurrent(Coming)
    \/ dirEvent /\ watched = Coming.dir
    \/ pc[Runner] = "scan" /\ held[Runner].dir = Coming.dir
-----------------------------------------------------------------------------
\* Pools and places.

\* An order of the images of a directory is a pool of that content.
LEMMA OrderIsPool ==
  ASSUME NEW S \in SUBSET (1 .. MaxImages), NEW pool \in SetToSeqs(S)
  PROVE  /\ pool \in BoundedSeq(1 .. MaxImages, MaxImages)
         /\ ToSet(pool) = S
<1>1. IsFiniteSet(1 .. MaxImages) /\ Cardinality(1 .. MaxImages) = MaxImages
  BY FS_Interval, BoundsAssumption
<1>2. /\ IsFiniteSet(S) /\ Cardinality(S) \in Nat
      /\ Cardinality(S) \in 0 .. MaxImages
  <2>1. IsFiniteSet(S) /\ Cardinality(S) <= Cardinality(1 .. MaxImages)
    BY <1>1, FS_Subset
  <2>2. Cardinality(S) \in Nat
    BY <2>1, FS_CardinalityType
  <2> QED
    BY <1>1, <2>1, <2>2, BoundsAssumption
<1> DEFINE D == 1 .. Cardinality(S)
<1>3. pool \in [D -> S] /\ \A i, j \in D : i # j => pool[i] # pool[j]
  BY DEF SetToSeqs
<1>4. pool \in Injection(D, S)
  BY <1>3, Fun_IsInj
<1>5. IsFiniteSet(D) /\ Cardinality(D) = Cardinality(S)
  BY <1>2, FS_Interval
<1>6. \A e \in S : \E i \in D : pool[i] = e
  <2> HIDE DEF D
  <2>1. pool \in Surjection(D, S)
    BY <1>2, <1>4, <1>5, FS_Injection
  <2> QED
    BY <2>1, Fun_SurjectionProperties
<1>7. ToSet(pool) = S
  BY <1>3, <1>6 DEF ToSet
<1>8. pool \in [D -> 1 .. MaxImages]
  BY <1>3
<1> QED
  BY <1>2, <1>7, <1>8 DEF BoundedSeq, SeqOf

LEMMA PoolHasImages ==
  ASSUME NEW cycle \in Cycles
  PROVE  /\ Count(cycle) \in 0 .. MaxImages
         /\ cycle # Stopped => cycle \in [dir : Dirs, mode : Modes, pace : {1, 2},
                pool : BoundedSeq(1 .. MaxImages, MaxImages)]
         /\ Count(cycle) > 0 => cycle # Stopped
         /\ \A i \in 1 .. Count(cycle) : cycle.pool[i] \in 1 .. MaxImages
<1>1. Stopped.pool = << >> /\ Len(<< >>) = 0
  BY DEF Stopped
<1>2. CASE cycle = Stopped
  BY <1>1, <1>2, BoundsAssumption DEF Count
<1>3. CASE cycle # Stopped
  <2>1. PICK n \in 0 .. MaxImages : cycle.pool \in [1 .. n -> 1 .. MaxImages]
    BY <1>3 DEF Cycles, BoundedSeq, SeqOf
  <2>2. Len(cycle.pool) = n
    BY <2>1
  <2> QED
    BY <1>3, <2>1, <2>2 DEF Count, Cycles
<1> QED
  BY <1>2, <1>3

\* A place in a cycle with images shows one of them.
LEMMA PlaceShowsImage ==
  ASSUME NEW cycle \in Cycles, Count(cycle) > 0, NEW i \in Nat
  PROVE  ImageAt(cycle, i) \in Image /\ ImageAt(cycle, i) # NoImage
<1> DEFINE n == Count(cycle)
<1>1. n \in Nat /\ n > 0
  BY PoolHasImages
<1>2. (i % n) + 1 \in 1 .. n
  <2> HIDE DEF n
  <2> QED
    BY <1>1
<1>3. cycle.pool[(i % n) + 1] \in 1 .. MaxImages /\ cycle.dir \in Dirs
  BY <1>2, PoolHasImages
<1> QED
  BY <1>3, DirsAssumption DEF ImageAt, Image, NoImage

\* Monitors that are plugged have a first among them.
LEMMA LowestIsPlugged ==
  ASSUME NEW ms \in SUBSET Monitors, ms # {}
  PROVE  Lowest(ms) \in ms
<1>1. ms \subseteq Nat
  BY MonitorsAssumption
<1>2. PICK m \in ms : \A k \in ms : ~ (<<k, m>> \in OpToRel(<, Nat))
  BY <1>1, NatLessThanWellFounded, WFMin
<1>3. \A k \in ms : m <= k
  <2> TAKE k \in ms
  <2>1. m \in Nat /\ k \in Nat
    BY <1>1
  <2>2. ~ (k < m)
    BY <1>2, <2>1 DEF OpToRel
  <2> QED
    BY <2>1, <2>2
<1> QED
  BY <1>2, <1>3 DEF Lowest

\* What a step of the monitors through a cycle comes to.
Placed(cycle) ==
  /\ Count(cycle) > 0
  /\ \E is \in [plugged -> 0 .. MaxImages] : Place(cycle, is)

LEMMA StepPlaces ==
  ASSUME Step(Here) \/ Step(Forward) \/ Step(Back) \/ Step(Anywhere)
  PROVE  \/ Count(cycling) = 0 /\ UNCHANGED monitors
         \/ Placed(cycling)
<1>1. CASE Step(Here)
  BY <1>1 DEF Step, Placed
<1>2. CASE Step(Forward)
  BY <1>2 DEF Step, Placed
<1>3. CASE Step(Back)
  BY <1>3 DEF Step, Placed
<1>4. CASE Step(Anywhere)
  BY <1>4 DEF Step, Placed
<1> QED
  BY <1>1, <1>2, <1>3, <1>4

Hung ==
  /\ plugged \subseteq Monitors
  /\ wall \in [Monitors -> Image] /\ index \in [Monitors -> 0 .. MaxImages]

\* The monitors keep their types, and none of them is left blank.
LEMMA PlacedIsShown ==
  ASSUME Hung, NEW cycle \in Cycles, Placed(cycle)
  PROVE  Hung' /\ \A m \in plugged' : wall'[m] # NoImage
<1>1. PICK is \in [plugged -> 0 .. MaxImages] : Place(cycle, is)
  BY DEF Placed
<1>2. \A m \in plugged :
        ImageAt(cycle, is[m]) \in Image /\ ImageAt(cycle, is[m]) # NoImage
  <2> TAKE m \in plugged
  <2>1. is[m] \in Nat
    BY BoundsAssumption
  <2> QED
    BY <2>1, PlaceShowsImage DEF Placed
<1> QED
  BY <1>1, <1>2 DEF Place, Hung

-----------------------------------------------------------------------------
\* Types.

LEMMA StoppedIsCycle == Stopped \in Cycles /\ Stopped.dir = NoDir /\ Count(Stopped) = 0
BY DEF Stopped, Cycles, Count

LEMMA InitTyped == Init => TypeOK
<1> SUFFICES ASSUME Init PROVE TypeOK
  OBVIOUS
<1>1. NoImage \in Image
  BY DEF Image
<1>2. /\ wall \in [Monitors -> Image] /\ index \in [Monitors -> 0 .. MaxImages]
      /\ images \in [Dirs -> SUBSET (1 .. MaxImages)]
  BY <1>1, BoundsAssumption DEF Init
<1>3. /\ cycling \in Cycles /\ held \in [Goroutines -> Cycles]
      /\ pc \in [Goroutines -> {"idle"}]
  BY StoppedIsCycle DEF Init
<1> QED
  BY <1>2, <1>3 DEF Init, TypeOK

LEMMA MonitorsTyped ==
  ASSUME TypeOK, NEW g \in Callers,
         \/ \E ms \in SUBSET Monitors : SetWallpaper(g, ms)
         \/ Advance(g) \/ Rewind(g)
         \/ \E m \in Monitors : RegisterMonitor(g, m) \/ UnregisterMonitor(g, m)
  PROVE  TypeOK'
<1>1. Hung
  BY DEF Hung, TypeOK
<1>2. ASSUME Hung', load' \in Nat,
             UNCHANGED <<disk, cycling, shared, calls, cycleKick, driver, missed>>
      PROVE  TypeOK'
  BY <1>2 DEF Hung, TypeOK, disk, calls, driver
<1>3. NoImage \in Image /\ Picture \in Image
  BY DEF Image
<1>4. ASSUME NEW ms \in SUBSET Monitors, SetWallpaper(g, ms) PROVE TypeOK'
  BY <1>1, <1>2, <1>3, <1>4 DEF SetWallpaper, Call, Hung, TypeOK
<1>5. CASE Advance(g) \/ Rewind(g)
  <2>1. Hung'
    BY <1>1, <1>5, StepPlaces, PlacedIsShown
       DEF Advance, Rewind, Move, TypeOK, Hung, monitors
  <2> QED
    BY <1>2, <1>5, <2>1 DEF Advance, Rewind, Move, Call, TypeOK
<1>6. ASSUME NEW m \in Monitors, RegisterMonitor(g, m) PROVE TypeOK'
  <2>1. PICK i \in Starts :
          /\ index' = [index EXCEPT ![m] = i]
          /\ wall' = [wall EXCEPT ![m] =
                        IF Count(cycling) = 0 THEN NoImage ELSE ImageAt(cycling, i)]
    BY <1>6 DEF RegisterMonitor
  <2>2. i \in 0 .. MaxImages
    <3>1. Count(cycling) \in 0 .. MaxImages
      BY PoolHasImages DEF TypeOK
    <3>2. plugged # {} => index[Lowest(plugged)] \in 0 .. MaxImages
      BY LowestIsPlugged DEF TypeOK
    <3> QED
      BY <2>1, <3>1, <3>2, BoundsAssumption DEF Starts
  <2>3. Count(cycling) # 0 => ImageAt(cycling, i) \in Image
    <3>1. cycling \in Cycles /\ i \in Nat
      BY <2>2, BoundsAssumption DEF TypeOK
    <3>2. Count(cycling) # 0 => Count(cycling) > 0
      BY <3>1, PoolHasImages
    <3> QED
      BY <3>1, <3>2, PlaceShowsImage
  <2> QED
    BY <1>1, <1>2, <1>3, <1>6, <2>1, <2>2, <2>3
       DEF RegisterMonitor, Call, Hung, TypeOK
<1>7. ASSUME NEW m \in Monitors, UnregisterMonitor(g, m) PROVE TypeOK'
  BY <1>1, <1>2, <1>3, <1>7, BoundsAssumption
     DEF UnregisterMonitor, Call, Hung, TypeOK
<1> QED
  BY <1>4, <1>5, <1>6, <1>7

\* The parts of a call that put a cycle into a goroutine's hands.
LEMMA CarriersTyped ==
  ASSUME TypeOK, NEW g \in Goroutines, NEW cycle \in Cycles,
         NEW label \in {"places", "set", "align", "scatter", "tick", "scan", "idle"},
         Hold(g, cycle), Goto(g, label)
  PROVE  /\ held' \in [Goroutines -> Cycles]
         /\ pc' \in [Goroutines -> {"idle", "places", "set", "setForced", "render",
                            "kickCycle", "align", "scatter", "tick", "scan"}]
BY DEF Hold, Goto, TypeOK

\* Calls of several sections, up to the point where the cycle is set.
Begins(g) ==
  \/ \E dir \in Dirs, mode \in Modes : StartCycling(g, dir, mode)
  \/ Places(g) \/ StopCycling(g) \/ SetSharedCycle(g) \/ Align(g)
  \/ \E pace \in {1, 2} : SetCyclingInterval(g, pace)

LEMMA OrderIsCycle ==
  ASSUME TypeOK, NEW dir \in Dirs, NEW mode \in Modes, NEW pool \in Ordered(dir, mode)
  PROVE  /\ pool \in BoundedSeq(1 .. MaxImages, MaxImages)
         /\ ToSet(pool) = images[dir]
<1>1. images[dir] \in SUBSET (1 .. MaxImages) /\ pool \in SetToSeqs(images[dir])
  BY DEF TypeOK, Ordered
<1> QED
  BY <1>1, OrderIsPool

LEMMA BeginsTyped ==
  ASSUME TypeOK, NEW g \in Callers, Begins(g), Carried
  PROVE  TypeOK'
<1>1. g \in Goroutines
  BY DEF Goroutines
<1>2. ASSUME NEW dir \in Dirs, NEW mode \in Modes, StartCycling(g, dir, mode)
      PROVE  TypeOK'
  <2>1. PICK pool \in Ordered(dir, mode) :
          Hold(g, [dir |-> dir, pool |-> pool, mode |-> mode, pace |-> 1])
    BY <1>2 DEF StartCycling
  <2>2. [dir |-> dir, pool |-> pool, mode |-> mode, pace |-> 1] \in Cycles
    BY OrderIsCycle DEF Cycles
  <2>3. Goto(g, "places") /\ load' \in Nat
    BY <1>2 DEF StartCycling, Call, TypeOK
  <2> QED
    BY <1>1, <1>2, <2>1, <2>2, <2>3, CarriersTyped
       DEF StartCycling, TypeOK, disk, monitors, driver
<1>3. CASE Places(g)
  <2>1. PICK is \in [plugged -> 0 .. Count(held[g]) - 1] :
          index' = [m \in Monitors |-> IF m \in plugged THEN is[m] ELSE index[m]]
    BY <1>3 DEF Places
  <2>2. Count(held[g]) \in 0 .. MaxImages
    BY <1>1, PoolHasImages DEF TypeOK
  <2>3. \A m \in plugged : is[m] \in 0 .. MaxImages
    BY <2>1, <2>2, BoundsAssumption
  <2>4. index' \in [Monitors -> 0 .. MaxImages]
    BY <2>1, <2>3 DEF TypeOK
  <2> QED
    BY <1>3, <2>4 DEF Places, Goto, TypeOK, disk, driver
<1>4. CASE StopCycling(g)
  BY <1>1, <1>4, CarriersTyped, StoppedIsCycle
     DEF StopCycling, Call, TypeOK, disk, monitors, driver
<1>5. CASE SetSharedCycle(g)
  <2>1. shared' \in BOOLEAN /\ load' \in Nat
    BY <1>5 DEF SetSharedCycle, Call, TypeOK
  <2>2. CASE UNCHANGED calls
    BY <1>5, <2>1, <2>2 DEF SetSharedCycle, calls, TypeOK, disk, monitors, driver
  <2>3. CASE Hold(g, cycling) /\ Goto(g, IF shared THEN "scatter" ELSE "align")
    BY <1>1, <1>5, <2>1, <2>3, CarriersTyped
       DEF SetSharedCycle, TypeOK, disk, monitors, driver
  <2> QED
    BY <1>5, <2>2, <2>3 DEF SetSharedCycle
<1>6. CASE Align(g)
  <2>1. Placed(held[g]) /\ held[g] \in Cycles
    BY <1>1, <1>6 DEF Align, Placed, Carried, TypeOK
  <2>2. Hung'
    BY <2>1, PlacedIsShown DEF Hung, TypeOK
  <2> QED
    BY <1>1, <1>6, <2>2, CarriersTyped, StoppedIsCycle DEF Align, Hung, TypeOK, disk, driver
<1>7. ASSUME NEW pace \in {1, 2}, SetCyclingInterval(g, pace) PROVE TypeOK'
  <2>1. [cycling EXCEPT !.pace = pace] \in Cycles
    BY <1>7 DEF SetCyclingInterval, Cycles, TypeOK
  <2> QED
    BY <1>1, <1>7, <2>1, CarriersTyped
       DEF SetCyclingInterval, Call, TypeOK, disk, monitors, driver
<1> QED
  BY <1>2, <1>3, <1>4, <1>5, <1>6, <1>7 DEF Begins

LEMMA SettersTyped ==
  ASSUME TypeOK, NEW g \in Goroutines, SetCycling(g) \/ RenderCycle(g) \/ KickCycle(g)
  PROVE  TypeOK'
<1>1. CASE SetCycling(g)
  <2>1. NextSection(g) \in {"idle", "kickCycle", "render"}
    BY DEF NextSection
  <2>2. missed' \in BOOLEAN
    BY <1>1 DEF SetCycling, TypeOK
  <2> QED
    BY <1>1, <2>1, <2>2, StoppedIsCycle
       DEF SetCycling, Goto, Hold, TypeOK, disk, monitors, driver
<1>2. CASE RenderCycle(g)
  <2>1. Hung'
    BY <1>2, StepPlaces, PlacedIsShown DEF RenderCycle, TypeOK, Hung, monitors
  <2> QED
    BY <1>2, <2>1 DEF RenderCycle, Goto, Hung, TypeOK, disk, driver
<1>3. CASE KickCycle(g)
  BY <1>3 DEF KickCycle, Goto, TypeOK, disk, monitors, driver
<1> QED
  BY <1>1, <1>2, <1>3

LEMMA RunnerTyped ==
  ASSUME TypeOK, Carried,
         TakeCycleKick \/ Fire \/ Tick \/ RefreshCycling \/ Scan \/ ScanFails
  PROVE  TypeOK'
<1>1. Runner \in Goroutines /\ held[Runner] \in Cycles
  BY DEF Goroutines, TypeOK
<1>2. CASE TakeCycleKick
  <2>1. cycling.dir \in Dirs \cup {NoDir}
    BY StoppedIsCycle DEF TypeOK, Cycles
  <2>2. dirEvent' \in BOOLEAN
    BY <1>2 DEF TakeCycleKick
  <2>3. listening' \in BOOLEAN
    <3>1. (cycling.dir \in Dirs \ gone) \in BOOLEAN
      OBVIOUS
    <3> QED
      BY <1>2, <3>1 DEF TakeCycleKick, TypeOK
  <2> QED
    BY <1>2, <2>1, <2>2, <2>3 DEF TakeCycleKick, TypeOK, disk, monitors, calls
<1>3. CASE Fire
  <2>1. CASE UNCHANGED calls
    BY <1>3, <2>1 DEF Fire, TypeOK, disk, monitors, calls
  <2>2. CASE Hold(Runner, cycling) /\ Goto(Runner, "tick")
    BY <1>1, <1>3, <2>2, CarriersTyped DEF Fire, TypeOK, disk, monitors
  <2> QED
    BY <1>3, <2>1, <2>2 DEF Fire
<1>4. CASE Tick
  <2>1. Hung'
    BY <1>4, StepPlaces, PlacedIsShown DEF Tick, TypeOK, Hung, monitors
  <2> QED
    BY <1>1, <1>4, <2>1, CarriersTyped, StoppedIsCycle DEF Tick, Hung, TypeOK, disk
<1>5. CASE RefreshCycling
  <2>1. CASE UNCHANGED calls
    BY <1>5, <2>1 DEF RefreshCycling, TypeOK, disk, monitors, calls
  <2>2. CASE Hold(Runner, cycling) /\ Goto(Runner, "scan")
    BY <1>1, <1>5, <2>2, CarriersTyped DEF RefreshCycling, TypeOK, disk, monitors
  <2> QED
    BY <1>5, <2>1, <2>2 DEF RefreshCycling
<1>6. CASE Scan
  <2>1. held[Runner].dir \in Dirs /\ held[Runner] # Stopped
    BY <1>6, StoppedIsCycle, DirsAssumption DEF Scan, Carried
  <2>2. PICK pool \in Ordered(held[Runner].dir, held[Runner].mode) :
          Hold(Runner, [held[Runner] EXCEPT !.pool = pool])
    BY <1>6 DEF Scan
  <2>3. held[Runner].mode \in Modes
    BY <1>1, <2>1 DEF Cycles
  <2>4. [held[Runner] EXCEPT !.pool = pool] \in Cycles
    BY <1>1, <2>1, <2>3, OrderIsCycle DEF Cycles
  <2> QED
    BY <1>1, <1>6, <2>2, <2>4, CarriersTyped DEF Scan, TypeOK, disk, monitors, driver
<1>7. CASE ScanFails
  <2>1. missed' \in BOOLEAN /\ load' \in Nat
    BY <1>7 DEF ScanFails, Call, TypeOK
  <2> QED
    BY <1>1, <1>7, <2>1, CarriersTyped, StoppedIsCycle
       DEF ScanFails, TypeOK, disk, monitors, driver
<1> QED
  BY <1>2, <1>3, <1>4, <1>5, <1>6, <1>7

\* What happens to a directory, heard or not.
Altered(dir, content) ==
  DirChanges(dir, content) \/ DirGoes(dir) \/ DirReturns(dir, content)

LEMMA AlteredChanges ==
  ASSUME TypeOK, NEW dir \in Dirs, NEW content \in SUBSET (1 .. MaxImages),
         Altered(dir, content)
  PROVE  /\ \E left \in SUBSET (1 .. MaxImages), told \in BOOLEAN :
              /\ told => watched = dir
              /\ Changes(dir, left, told)
         /\ gone' \subseteq Dirs /\ listening' \in BOOLEAN
<1>1. ASSUME DirChanges(dir, content)
      PROVE  \E told \in BOOLEAN :
               /\ told => watched = dir
               /\ Changes(dir, content, told) /\ UNCHANGED <<gone, listening>>
  <2>1. Hears(dir) \in BOOLEAN /\ FALSE \in BOOLEAN /\ (Hears(dir) => watched = dir)
    BY DEF Hears, TypeOK
  <2>2. CASE Changes(dir, content, Hears(dir))
    BY <1>1, <2>1, <2>2 DEF DirChanges
  <2>3. CASE Changes(dir, content, FALSE)
    BY <1>1, <2>1, <2>3 DEF DirChanges
  <2> QED
    BY <1>1, <2>2, <2>3 DEF DirChanges
<1>2. ASSUME DirGoes(dir)
      PROVE  /\ \E told \in BOOLEAN :
                  (told => watched = dir) /\ Changes(dir, {}, told)
             /\ gone' \subseteq Dirs /\ listening' \in BOOLEAN
  <2>1. PICK told \in {FALSE, Hears(dir)} : Changes(dir, {}, told)
    BY <1>2 DEF DirGoes
  <2>2. told \in BOOLEAN /\ (told => watched = dir)
    BY <2>1 DEF Hears, TypeOK
  <2>3. gone' \subseteq Dirs /\ listening' \in BOOLEAN
    BY <1>2 DEF DirGoes, TypeOK
  <2> QED
    BY <2>1, <2>2, <2>3
<1>3. ASSUME DirReturns(dir, content)
      PROVE  /\ Changes(dir, content, FALSE)
             /\ gone' \subseteq Dirs /\ listening' \in BOOLEAN
  BY <1>3 DEF DirReturns, TypeOK
<1>4. {} \in SUBSET (1 .. MaxImages) /\ gone \subseteq Dirs /\ listening \in BOOLEAN
  BY DEF TypeOK
<1> QED
  BY <1>1, <1>2, <1>3, <1>4 DEF Altered

LEMMA DirectoryTyped ==
  ASSUME TypeOK, NEW dir \in Dirs, NEW content \in SUBSET (1 .. MaxImages),
         Altered(dir, content)
  PROVE  TypeOK'
<1>1. PICK left \in SUBSET (1 .. MaxImages), told \in BOOLEAN : Changes(dir, left, told)
  BY AlteredChanges
<1>2. gone' \subseteq Dirs /\ listening' \in BOOLEAN
  BY AlteredChanges
<1>3. images' \in [Dirs -> SUBSET (1 .. MaxImages)] /\ load' \in Nat
  BY <1>1 DEF Changes, Call, TypeOK
<1>4. dirEvent' \in BOOLEAN /\ missed' \in BOOLEAN
  BY <1>1 DEF Changes
<1> QED
  BY <1>1, <1>2, <1>3, <1>4 DEF Changes, TypeOK, monitors, calls

-----------------------------------------------------------------------------
\* What is under way.

Rest == Carried /\ Driven /\ Followed

LEMMA InitRest == Init => Rest /\ Shown
<1> SUFFICES ASSUME Init PROVE Rest /\ Shown
  OBVIOUS
<1>1. cycling = Stopped /\ Count(Stopped) = 0 /\ KickDue /\ ~dirEvent
  BY StoppedIsCycle DEF Init, KickDue
<1>2. \A g \in Goroutines : pc[g] = "idle"
  BY DEF Init
<1>3. Runner \in Goroutines
  BY DEF Goroutines
<1> QED
  BY <1>1, <1>2, <1>3 DEF Rest, Carried, Driven, Followed, Coming, Shown

\* Calls of the monitors are about nothing but what is shown.
LEMMA MonitorsRest ==
  ASSUME Rest, UNCHANGED <<disk, cycling, calls, cycleKick, driver, missed>>
  PROVE  Rest'
BY DEF Rest, Carried, Driven, Followed, Coming, KickDue, Count, IsCurrent, disk, calls,
   driver

LEMMA MonitorsShown ==
  ASSUME TypeOK, Shown, NEW g \in Callers,
         \/ \E ms \in SUBSET Monitors : SetWallpaper(g, ms)
         \/ Advance(g) \/ Rewind(g)
         \/ \E m \in Monitors : RegisterMonitor(g, m) \/ UnregisterMonitor(g, m)
  PROVE  Shown'
<1> SUFFICES ASSUME \A h \in Goroutines : pc'[h] # "render", Count(cycling)' > 0
             PROVE  \A m \in plugged' : wall'[m] # NoImage
  BY DEF Shown
<1>1. UNCHANGED <<cycling, pc>>
  BY DEF SetWallpaper, Advance, Rewind, Move, RegisterMonitor, UnregisterMonitor,
     calls
<1>2. Count(cycling) > 0 /\ \A m \in plugged : wall[m] # NoImage
  BY <1>1 DEF Shown, Count
<1>3. Hung /\ cycling \in Cycles
  BY DEF Hung, TypeOK
<1>4. ASSUME NEW ms \in SUBSET Monitors, SetWallpaper(g, ms)
      PROVE  \A m \in plugged' : wall'[m] # NoImage
  BY <1>2, <1>3, <1>4 DEF SetWallpaper, Hung, Picture, NoImage
<1>5. CASE Advance(g) \/ Rewind(g)
  <2>1. Step(Forward) \/ Step(Back)
    BY <1>5 DEF Advance, Rewind, Move
  <2> QED
    BY <1>2, <1>3, <2>1, StepPlaces, PlacedIsShown
<1>6. ASSUME NEW m \in Monitors, RegisterMonitor(g, m)
      PROVE  \A k \in plugged' : wall'[k] # NoImage
  <2>1. PICK i \in Starts :
          wall' = [wall EXCEPT ![m] =
                     IF Count(cycling) = 0 THEN NoImage ELSE ImageAt(cycling, i)]
    BY <1>6 DEF RegisterMonitor
  <2>2. i \in Nat
    <3>1. Count(cycling) \in Nat
      BY <1>3, PoolHasImages
    <3>2. plugged # {} => index[Lowest(plugged)] \in 0 .. MaxImages
      BY LowestIsPlugged DEF TypeOK
    <3> QED
      BY <2>1, <3>1, <3>2, BoundsAssumption DEF Starts
  <2>3. Count(cycling) # 0 /\ ImageAt(cycling, i) # NoImage
    BY <1>2, <1>3, <2>2, PlaceShowsImage
  <2>4. wall'[m] # NoImage /\ \A k \in Monitors \ {m} : wall'[k] = wall[k]
    BY <1>3, <2>1, <2>3 DEF Hung
  <2> QED
    BY <1>2, <1>3, <1>6, <2>4 DEF RegisterMonitor, Hung
<1>7. ASSUME NEW m \in Monitors, UnregisterMonitor(g, m)
      PROVE  \A k \in plugged' : wall'[k] # NoImage
  BY <1>2, <1>3, <1>7 DEF UnregisterMonitor, Hung
<1> QED
  BY <1>4, <1>5, <1>6, <1>7

\* Until it sets its cycle a call is nobody else's business.
LEMMA BeginsQuietly ==
  ASSUME TypeOK, Rest, NEW g \in Callers, Begins(g)
  PROVE  Rest'
<1>1. g \in Goroutines /\ Runner \in Goroutines /\ g # Runner
  BY RunnerAssumption DEF Goroutines
<1>2. UNCHANGED <<images, cycling, cycleKick, timer, watched, dirEvent, missed>>
  BY DEF Begins, StartCycling, Places, StopCycling, SetSharedCycle, Align,
     SetCyclingInterval, disk, driver
<1>3. /\ \A h \in Goroutines \ {g} : pc'[h] = pc[h] /\ held'[h] = held[h]
      /\ pc[g] \notin {"render", "kickCycle"} /\ pc'[g] \notin {"render", "kickCycle"}
  BY <1>1 DEF Begins, StartCycling, Places, StopCycling, SetSharedCycle, Align,
     SetCyclingInterval, Free, Goto, Hold, calls, TypeOK
<1>4. pc'[g] \in {"align", "scatter"} => Count(held'[g]) > 0
  <2>1. CASE SetSharedCycle(g)
    BY <1>1, <2>1 DEF SetSharedCycle, Free, Goto, Hold, calls, TypeOK
  <2>2. CASE ~SetSharedCycle(g)
    BY <1>1, <2>2 DEF Begins, StartCycling, Places, StopCycling, Align,
       SetCyclingInterval, Goto, Hold, TypeOK
  <2> QED
    BY <2>1, <2>2
<1>5. KickDue' <=> KickDue
  BY <1>1, <1>2, <1>3 DEF KickDue
<1>6. Carried'
  BY <1>1, <1>2, <1>3, <1>4 DEF Rest, Carried, IsCurrent, Count
<1>7. Driven' /\ Followed'
  BY <1>1, <1>2, <1>3, <1>5 DEF Rest, Driven, Followed, Coming, IsCurrent, Count
<1> QED
  BY <1>6, <1>7 DEF Rest

LEMMA BeginsShown ==
  ASSUME TypeOK, Rest, Shown, NEW g \in Callers, Begins(g)
  PROVE  Shown'
<1>1. g \in Goroutines /\ cycling' = cycling
  BY DEF Goroutines, Begins, StartCycling, Places, StopCycling, SetSharedCycle,
     Align, SetCyclingInterval
<1>2. (\A h \in Goroutines : pc'[h] # "render") => \A h \in Goroutines : pc[h] # "render"
  BY <1>1 DEF Begins, StartCycling, Places, StopCycling, SetSharedCycle, Align,
     SetCyclingInterval, Free, Goto, calls, TypeOK
<1>3. CASE Align(g)
  <2>1. Placed(held[g]) /\ held[g] \in Cycles
    BY <1>1, <1>3 DEF Align, Placed, Rest, Carried, TypeOK
  <2> QED
    BY <2>1, PlacedIsShown DEF Hung, TypeOK, Shown
<1>4. CASE ~Align(g)
  <2>1. UNCHANGED <<plugged, wall>>
    BY <1>4 DEF Begins, StartCycling, Places, StopCycling, SetSharedCycle,
       SetCyclingInterval, monitors
  <2> QED
    BY <1>1, <1>2, <2>1 DEF Shown, Count
<1> QED
  BY <1>3, <1>4

\* A cycle that is set is told to the monitors and to the runner, unless it
\* is the one that was set already.
LEMMA SetCyclingRest ==
  ASSUME TypeOK, Rest, Shown, NEW g \in Goroutines, SetCycling(g)
  PROVE  Rest' /\ Shown'
<1>1. /\ cycling' = held[g] /\ pc[g] \in {"set", "setForced"}
      /\ pc'[g] = NextSection(g) /\ held'[g] = Stopped
      /\ \A h \in Goroutines \ {g} : pc'[h] = pc[h] /\ held'[h] = held[h]
      /\ UNCHANGED <<images, plugged, wall, cycleKick, timer, watched, dirEvent>>
  BY DEF SetCycling, Goto, Hold, TypeOK, disk, monitors, driver
<1>2. NextSection(g) \in {"idle", "kickCycle", "render"} /\ Runner \in Goroutines
  BY DEF NextSection, Goroutines
<1>3. Carried'
  BY <1>1, <1>2 DEF Rest, Carried, IsCurrent, Count
<1>4. ASSUME NextSection(g) = "idle" PROVE Driven' /\ Shown'
  <2>1. cycling' = cycling
    BY <1>1, <1>4 DEF NextSection
  <2>2. KickDue' <=> KickDue
    BY <1>1, <1>4 DEF KickDue
  <2>3. pc'[Runner] = "tick" <=> pc[Runner] = "tick"
    BY <1>1, <1>2, <1>4
  <2>4. Driven'
    BY <1>1, <2>1, <2>2, <2>3 DEF Rest, Driven, Count
  <2>5. Shown'
    BY <1>1, <1>4, <2>1 DEF Shown, Count
  <2> QED
    BY <2>4, <2>5
<1>5. ASSUME NextSection(g) # "idle" PROVE Driven' /\ Shown'
  <2>1. KickDue'
    BY <1>1, <1>2, <1>5 DEF KickDue
  <2>2. Shown'
    <3>1. CASE NextSection(g) = "render"
      BY <1>1, <3>1 DEF Shown
    <3>2. CASE NextSection(g) = "kickCycle"
      <4>1. cycling' = Stopped
        BY <1>1, <3>2 DEF NextSection
      <4>2. Count(cycling)' = 0
        BY <4>1, StoppedIsCycle DEF Count
      <4> QED
        BY <4>2 DEF Shown
    <3> QED
      BY <1>2, <1>5, <3>1, <3>2
  <2> QED
    BY <2>1, <2>2 DEF Driven
<1>6. Followed'
  <2>1. CASE g = Runner
    <3>1. pc[g] = "set"
      BY <1>1, <2>1 DEF Rest, Carried
    <3>2. Coming' = held[g] /\ Coming = held[g] /\ missed' = missed
      BY <1>1, <1>2, <2>1, <3>1 DEF Coming, SetCycling
    <3>3. pc[Runner] # "scan"
      BY <2>1, <3>1
    <3> QED
      BY <1>1, <3>2, <3>3 DEF Rest, Followed, IsCurrent
  <2>2. CASE g # Runner /\ pc[Runner] = "set"
    <3>1. UNCHANGED <<Coming, missed>> /\ pc'[Runner] = pc[Runner]
          /\ held'[Runner] = held[Runner]
      BY <1>1, <1>2, <2>2 DEF Coming, SetCycling
    <3> QED
      BY <1>1, <3>1 DEF Rest, Followed, IsCurrent
  <2>3. CASE g # Runner /\ pc[Runner] # "set"
    <3>1. Coming' = held[g]
      BY <1>1, <1>2, <2>3 DEF Coming
    <3>2. ~missed' /\ held[g] # Stopped =>
            IsCurrent(held[g]) \/ (dirEvent /\ watched = held[g].dir)
      BY <2>3 DEF SetCycling
    <3> QED
      BY <1>1, <3>1, <3>2 DEF Followed, IsCurrent
  <2> QED
    BY <2>1, <2>2, <2>3
<1> QED
  BY <1>3, <1>4, <1>5, <1>6 DEF Rest

LEMMA RenderRest ==
  ASSUME TypeOK, Rest, Shown, NEW g \in Goroutines, RenderCycle(g)
  PROVE  Rest' /\ Shown'
<1>1. /\ pc[g] = "render" /\ pc'[g] = "kickCycle"
      /\ \A h \in Goroutines \ {g} : pc'[h] = pc[h]
      /\ UNCHANGED <<images, cycling, held, cycleKick, timer, watched, dirEvent, missed>>
  BY DEF RenderCycle, Goto, TypeOK, disk, driver
<1>2. KickDue' /\ Runner \in Goroutines
  BY <1>1 DEF KickDue, Goroutines
<1>3. Rest'
  <2>1. Coming' = Coming /\ (pc'[Runner] = "scan" <=> pc[Runner] = "scan")
    BY <1>1, <1>2 DEF Coming
  <2>2. Followed'
    BY <1>1, <2>1 DEF Rest, Followed, IsCurrent
  <2> QED
    BY <1>1, <1>2, <2>2 DEF Rest, Carried, Driven, Count
<1>4. Step(Here)
  BY DEF RenderCycle
<1>5. Count(cycling) > 0 => Placed(cycling)
  BY <1>4, StepPlaces
<1>6. Shown'
  BY <1>1, <1>5, PlacedIsShown DEF Shown, Hung, TypeOK, Count
<1> QED
  BY <1>3, <1>6

LEMMA KickRest ==
  ASSUME TypeOK, Rest, Shown, NEW g \in Goroutines, KickCycle(g)
  PROVE  Rest' /\ Shown'
<1>1. /\ pc[g] = "kickCycle" /\ pc'[g] = "idle" /\ cycleKick'
      /\ \A h \in Goroutines \ {g} : pc'[h] = pc[h]
      /\ UNCHANGED <<images, plugged, wall, cycling, held, timer, watched, dirEvent,
                     missed>>
  BY DEF KickCycle, Goto, TypeOK, disk, monitors, driver
<1>2. KickDue' /\ Runner \in Goroutines
  BY <1>1 DEF KickDue, Goroutines
<1>3. Coming' = Coming /\ (pc'[Runner] = "scan" <=> pc[Runner] = "scan")
  BY <1>1, <1>2 DEF Coming
<1>4. Followed'
  BY <1>1, <1>3 DEF Rest, Followed, IsCurrent
<1> QED
  BY <1>1, <1>2, <1>4 DEF Rest, Shown, Carried, Driven, Count

\* The runner looks at one thing after the other, and nothing else drives the
\* cycle meanwhile.
LEMMA RunnerRest ==
  ASSUME TypeOK, Rest, Shown,
         TakeCycleKick \/ Fire \/ Tick \/ RefreshCycling \/ Scan \/ ScanFails
  PROVE  Rest' /\ Shown'
<1>1. Runner \in Goroutines /\ cycling \in Cycles /\ UNCHANGED <<images, cycling>>
  BY DEF Goroutines, TypeOK, TakeCycleKick, Fire, Tick, RefreshCycling, Scan, ScanFails,
     disk
<1>2. CASE TakeCycleKick
  <2>1. ~(pc'[Runner] \in {"scan", "set", "tick"}) /\ UNCHANGED <<pc, held, plugged, wall>>
        /\ watched' = cycling.dir /\ (timer' <=> cycling # Stopped) /\ missed' = missed
        /\ (dirEvent' <=> dirEvent /\ watched = cycling.dir)
    BY <1>2 DEF TakeCycleKick, calls, monitors
  <2>2. Count(cycling) > 0 => cycling # Stopped
    BY <1>1, PoolHasImages
  <2>3. Driven'
    BY <1>1, <2>1, <2>2 DEF Driven, Count
  <2>4. pc[Runner] = "idle"
    BY <1>2 DEF TakeCycleKick
  <2> QED
    BY <1>1, <2>1, <2>3, <2>4 DEF Rest, Shown, Carried, Followed, Coming, IsCurrent, Count
<1>3. CASE Fire
  <2>1. /\ pc[Runner] = "idle" /\ ~timer'
        /\ UNCHANGED <<cycleKick, watched, dirEvent, missed, plugged, wall>>
        /\ \A h \in Goroutines \ {Runner} : pc'[h] = pc[h] /\ held'[h] = held[h]
        /\ \/ Count(cycling) > 0 /\ pc'[Runner] = "tick"
           \/ Count(cycling) = 0 /\ pc'[Runner] = "idle"
    BY <1>1, <1>3 DEF Fire, Hold, Goto, calls, monitors, TypeOK
  <2>2. KickDue' <=> KickDue
    BY <1>1, <2>1 DEF KickDue
  <2>3. Driven'
    BY <1>1, <2>1, <2>2 DEF Rest, Driven, Count
  <2>4. Carried' /\ Followed'
    BY <1>1, <2>1 DEF Rest, Carried, Followed, Coming, IsCurrent, Count
  <2>5. Shown'
    BY <1>1, <2>1 DEF Shown, Count
  <2> QED
    BY <2>3, <2>4, <2>5 DEF Rest
<1>4. CASE Tick
  <2>1. /\ pc[Runner] = "tick" /\ timer' /\ pc'[Runner] = "idle"
        /\ UNCHANGED <<cycleKick, watched, dirEvent, missed>>
        /\ \A h \in Goroutines \ {Runner} : pc'[h] = pc[h] /\ held'[h] = held[h]
    BY <1>1, <1>4 DEF Tick, Hold, Goto, TypeOK
  <2>2. KickDue' <=> KickDue
    BY <1>1, <2>1 DEF KickDue
  <2>3. Driven'
    BY <1>1, <2>1, <2>2, StoppedIsCycle DEF Rest, Driven, Count
  <2>4. Carried' /\ Followed'
    BY <1>1, <2>1 DEF Rest, Carried, Followed, Coming, IsCurrent, Count
  <2>5. Count(cycling) > 0 => Placed(cycling)
    BY <1>4, StepPlaces DEF Tick
  <2>6. Shown'
    BY <1>1, <2>5, PlacedIsShown DEF Shown, Hung, TypeOK, Count
  <2> QED
    BY <2>3, <2>4, <2>6 DEF Rest
<1>5. CASE RefreshCycling
  <2>1. /\ pc[Runner] = "idle" /\ dirEvent /\ ~dirEvent'
        /\ UNCHANGED <<cycleKick, watched, timer, missed, plugged, wall>>
        /\ \A h \in Goroutines \ {Runner} : pc'[h] = pc[h] /\ held'[h] = held[h]
        /\ \/ cycling.dir = watched /\ pc'[Runner] = "scan" /\ held'[Runner] = cycling
           \/ cycling.dir # watched /\ pc'[Runner] = "idle"
    BY <1>1, <1>5 DEF RefreshCycling, Hold, Goto, calls, monitors, TypeOK
  <2>2. KickDue' <=> KickDue
    BY <1>1, <2>1 DEF KickDue
  <2>3. Driven'
    BY <1>1, <2>1, <2>2 DEF Rest, Driven, Count
  <2>4. Carried'
    BY <1>1, <2>1 DEF Rest, Carried, Count
  <2>5. Followed'
    BY <1>1, <2>1 DEF Rest, Followed, Coming, IsCurrent
  <2>6. Shown'
    BY <1>1, <2>1 DEF Shown, Count
  <2> QED
    BY <2>3, <2>4, <2>5, <2>6 DEF Rest
<1>6. CASE Scan
  <2>1. PICK pool \in Ordered(held[Runner].dir, held[Runner].mode) :
          Hold(Runner, [held[Runner] EXCEPT !.pool = pool])
    BY <1>6 DEF Scan
  <2>2. /\ pc[Runner] = "scan" /\ pc'[Runner] = "set"
        /\ UNCHANGED <<cycleKick, watched, timer, dirEvent, plugged, wall>>
        /\ \A h \in Goroutines \ {Runner} : pc'[h] = pc[h] /\ held'[h] = held[h]
        /\ held'[Runner] = [held[Runner] EXCEPT !.pool = pool]
    BY <1>1, <1>6, <2>1 DEF Scan, Hold, Goto, driver, monitors, TypeOK
  <2>3. watched \in Dirs /\ held[Runner].dir = watched
    BY <2>2 DEF Rest, Carried
  <2>4. held[Runner] # Stopped /\ held[Runner] \in Cycles
    BY <1>1, <2>3, StoppedIsCycle, DirsAssumption DEF TypeOK
  <2>5. held'[Runner].dir = watched /\ held'[Runner].pool = pool
        /\ held[Runner].mode \in Modes
    BY <2>2, <2>3, <2>4 DEF Cycles
  <2>6. IsCurrent(held[Runner])'
    BY <1>1, <2>1, <2>3, <2>5, OrderIsCycle DEF IsCurrent
  <2>7. KickDue' <=> KickDue
    BY <1>1, <2>2 DEF KickDue
  <2>8. Driven' /\ Shown'
    BY <1>1, <2>2, <2>7 DEF Rest, Driven, Shown, Count
  <2>9. Carried'
    BY <1>1, <2>2, <2>3, <2>5 DEF Rest, Carried, Count
  <2>10. Followed'
    BY <1>1, <2>2, <2>6 DEF Followed, Coming, IsCurrent
  <2> QED
    BY <2>8, <2>9, <2>10 DEF Rest
<1>7. CASE ScanFails
  <2>1. /\ pc[Runner] = "scan" /\ pc'[Runner] = "idle"
        /\ UNCHANGED <<cycleKick, watched, timer, dirEvent, plugged, wall>>
        /\ \A h \in Goroutines \ {Runner} : pc'[h] = pc[h] /\ held'[h] = held[h]
    BY <1>1, <1>7 DEF ScanFails, Hold, Goto, driver, monitors, TypeOK
  <2>2. KickDue' <=> KickDue
    BY <1>1, <2>1 DEF KickDue
  <2>3. Driven' /\ Shown'
    BY <1>1, <2>1, <2>2 DEF Rest, Driven, Shown, Count
  <2>4. Carried'
    BY <1>1, <2>1 DEF Rest, Carried, Count
  <2>5. Followed'
    <3>1. Coming = cycling /\ Coming' = cycling /\ watched = held[Runner].dir
      BY <1>1, <2>1 DEF Coming, Rest, Carried
    <3>2. ~missed' => /\ ~missed
                      /\ \/ cycling.dir # held[Runner].dir
                         \/ dirEvent \/ IsCurrent(cycling)
      BY <1>7 DEF ScanFails
    <3> QED
      BY <1>1, <2>1, <3>1, <3>2 DEF Rest, Followed, IsCurrent
  <2> QED
    BY <2>3, <2>4, <2>5 DEF Rest
<1> QED
  BY <1>2, <1>3, <1>4, <1>5, <1>6, <1>7

\* A change of the directory is an event, in the slot or on its way there, or
\* nobody is told of it.
LEMMA DirectoryRest ==
  ASSUME TypeOK, Rest, Shown, NEW dir \in Dirs,
         NEW content \in SUBSET (1 .. MaxImages), Altered(dir, content)
  PROVE  Rest' /\ Shown'
<1>0. PICK left \in SUBSET (1 .. MaxImages), told \in BOOLEAN :
        (told => watched = dir) /\ Changes(dir, left, told)
  BY AlteredChanges
<1>1. /\ \A d \in Dirs \ {dir} : images'[d] = images[d]
      /\ dirEvent' = (dirEvent \/ told)
      /\ missed' = (missed \/ (Coming.dir = dir /\ ~told
                                 /\ ~(dirEvent /\ watched = dir)))
      /\ UNCHANGED <<plugged, wall, cycling, pc, held, cycleKick, timer, watched>>
  BY <1>0 DEF Changes, TypeOK, monitors, calls
<1>2. Driven' /\ Shown'
  BY <1>1 DEF Rest, Driven, Shown, KickDue, Count
<1>3. Carried'
  BY <1>0, <1>1 DEF Rest, Carried, Count
<1>4. Followed'
  <2>1. Coming' = Coming
    BY <1>1 DEF Coming
  <2> SUFFICES ASSUME ~missed', Coming # Stopped
               PROVE  \/ IsCurrent(Coming)'
                      \/ dirEvent' /\ watched = Coming.dir
                      \/ pc[Runner] = "scan" /\ held[Runner].dir = Coming.dir
    BY <1>1, <2>1 DEF Followed
  <2>2. CASE Coming.dir = dir
    BY <1>0, <1>1, <2>2
  <2>3. CASE Coming.dir # dir
    <3>1. Coming \in Cycles
      BY DEF Coming, TypeOK, Goroutines
    <3>2. Coming.dir \in Dirs
      BY <3>1 DEF Cycles
    <3>3. IsCurrent(Coming) => IsCurrent(Coming)'
      BY <1>1, <2>1, <2>3, <3>2 DEF IsCurrent
    <3> QED
      BY <1>1, <3>3 DEF Rest, Followed
  <2> QED
    BY <2>2, <2>3
<1> QED
  BY <1>2, <1>3, <1>4 DEF Rest

IInv == TypeOK /\ Rest /\ Shown

LEMMA NextInv == IInv /\ [Next]_vars => IInv'
<1> SUFFICES ASSUME TypeOK, Rest, Shown, [Next]_vars PROVE IInv'
  BY DEF IInv
<1>1. Carried
  BY DEF Rest
<1>2. ASSUME NEW g \in Callers,
             \/ \E ms \in SUBSET Monitors : SetWallpaper(g, ms)
             \/ Advance(g) \/ Rewind(g)
             \/ \E m \in Monitors : RegisterMonitor(g, m) \/ UnregisterMonitor(g, m)
      PROVE  IInv'
  <2>1. UNCHANGED <<disk, cycling, calls, cycleKick, driver, missed>>
    BY <1>2 DEF SetWallpaper, Advance, Rewind, Move, RegisterMonitor,
       UnregisterMonitor
  <2> QED
    BY <1>2, <2>1, MonitorsTyped, MonitorsRest, MonitorsShown DEF IInv
<1>3. ASSUME NEW g \in Callers, Begins(g) PROVE IInv'
  BY <1>1, <1>3, BeginsTyped, BeginsQuietly, BeginsShown DEF IInv
<1>4. ASSUME NEW g \in Callers, CallOf(g) PROVE IInv'
  <2>1. \A ms \in {Monitors} \cup {{m} : m \in Monitors} : ms \in SUBSET Monitors
    OBVIOUS
  <2> QED
    BY <1>2, <1>3, <1>4, <2>1 DEF CallOf, Begins
<1>5. ASSUME NEW g \in Goroutines, SetCycling(g) \/ RenderCycle(g) \/ KickCycle(g)
      PROVE  IInv'
  BY <1>5, SettersTyped, SetCyclingRest, RenderRest, KickRest DEF IInv
<1>6. CASE TakeCycleKick \/ Fire \/ Tick \/ RefreshCycling \/ Scan \/ ScanFails
  BY <1>1, <1>6, RunnerTyped, RunnerRest DEF IInv
<1>7. ASSUME NEW dir \in Dirs, NEW content \in SUBSET (1 .. MaxImages),
             Altered(dir, content)
      PROVE  IInv'
  BY <1>7, DirectoryTyped, DirectoryRest DEF IInv
<1>8. CASE UNCHANGED vars
  BY <1>8 DEF IInv, TypeOK, Rest, Shown, Carried, Driven, Followed, Coming, KickDue, Count,
     IsCurrent, vars, disk, monitors, calls, driver
<1> QED
  BY <1>3, <1>4, <1>5, <1>6, <1>7, <1>8 DEF Next, Begins, Altered

LEMMA AlwaysInv == Spec => []IInv
<1>1. Init => IInv
  BY InitTyped, InitRest DEF IInv
<1> QED
  BY <1>1, NextInv, PTL DEF Spec

\* Whatever order calls, kicks, ticks, events and files come in: once nothing
\* is under way, the timer and the directory to watch are those of the cycle,
\* and a cycle that has images is on every monitor.
THEOREM CycleStaysSound == Spec => []CycleIsSound
<1>1. IInv => CycleIsSound
  <2> SUFFICES ASSUME IInv, Settled PROVE CycleIsDriven
    BY DEF IInv, CycleIsSound, CycleIsDriven
  <2>1. Runner \in Goroutines
    BY DEF Goroutines
  <2>2. ~KickDue
    BY DEF Settled, KickDue
  <2> QED
    BY <2>1, <2>2 DEF IInv, Rest, Driven, Shown, Settled, CycleIsDriven
<1> QED
  BY <1>1, AlwaysInv, PTL

\* The pool of a cycle is the content of its directory once nothing is under
\* way, whatever was changed and when, except a change that nobody was told
\* of, a rescan that failed and what a caller put back.  What the runner
\* itself puts back is never stale.
THEOREM PoolStaysCurrent == Spec => []PoolFollowsDirectory
<1>1. IInv => PoolFollowsDirectory
  <2> SUFFICES ASSUME IInv, Settled, ~missed, cycling # Stopped
               PROVE  IsCurrent(cycling)
    BY DEF PoolFollowsDirectory, IsCurrent
  <2>1. Runner \in Goroutines
    BY DEF Goroutines
  <2> QED
    BY <2>1 DEF IInv, Rest, Followed, Coming, Settled
<1> QED
  BY <1>1, AlwaysInv, PTL
=============================================================================
