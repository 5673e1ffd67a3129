--------------------------- MODULE RecorderProofs ---------------------------
(***************************************************************************)
(* What holds of Recorder for any number of starts.  The invariant         *)
(* Lifecycle says where everything that belongs to a start may be: older   *)
(* starts are Settled, later ones Untouched, and the last one is in one    *)
(* of the stages that the status allows.  Only the last start can move, so *)
(* each action is looked at in its stage alone.                            *)
(***************************************************************************)
EXTENDS Recorder, TLAPS

-----------------------------------------------------------------------------
\* Types.

LEMMA InitTypes == Init => TypeOK
<1> SUFFICES ASSUME Init PROVE TypeOK
  OBVIOUS
<1>1. 0 \in 0 .. MaxGen /\ 0 \in 0 .. MaxElapsed
  BY BoundsAssumption
<1>2. NoCall \in PauseCall
  BY <1>1 DEF NoCall, PauseCall
<1>3. pausing \in [Pausers -> PauseCall]
  BY <1>2 DEF Init
<1> QED
  BY <1>1, <1>3 DEF Init, TypeOK, StarterPlaces, StopperPlaces, WatchPlaces

LEMMA StarterTypes ==
  ASSUME TypeOK, NEW g \in Gens, StarterStep(g)
  PROVE  TypeOK'
<1>1. CASE MakeDirectory(g)
  BY <1>1 DEF MakeDirectory, StarterMoves, Goes, StarterPlaces, TypeOK, flags,
     timing, engine
<1>2. CASE SessionOpened(g)
  BY <1>2 DEF SessionOpened, Close, StarterMoves, Goes, StarterPlaces, TypeOK,
     flags, timing
<1>3. CASE DelayEnds(g)
  BY <1>3 DEF DelayEnds, Close, StarterMoves, Goes, StarterPlaces, TypeOK, flags,
     timing
<1>4. CASE Launched(g)
  BY <1>4 DEF Launched, Close, Goes, StarterPlaces, WatchPlaces, TypeOK, flags, timing
<1>5. CASE Commit(g)
  <2>1. g \in 0 .. MaxGen /\ 0 \in 0 .. MaxElapsed
    BY BoundsAssumption DEF Gens
  <2>2. stopCalls' \in [Gens -> Nat]
    BY <1>5 DEF Commit, CallStop, TypeOK, engine
  <2>3. starter' \in [Gens -> StarterPlaces]
    BY <1>5 DEF Commit, StarterMoves, Goes, StarterPlaces, TypeOK
  <2>4. CASE status' = "recording"
    BY <1>5, <2>1, <2>2, <2>3, <2>4
       DEF Commit, CallStop, StarterMoves, TypeOK, flags, timing, engine
  <2>5. CASE UNCHANGED <<status, flags, recording, timing>>
    BY <1>5, <2>1, <2>2, <2>3, <2>5
       DEF Commit, CallStop, StarterMoves, TypeOK, flags, timing, engine
  <2> QED
    BY <1>5, <2>4, <2>5 DEF Commit, StarterMoves
<1>6. CASE Discarded(g)
  BY <1>6 DEF Discarded, Finalized, Close, StarterMoves, Goes, StarterPlaces,
     TypeOK, flags, timing
<1>7. CASE StarterResets(g)
  <2>1. 0 \in 0 .. MaxGen /\ 0 \in 0 .. MaxElapsed
    BY BoundsAssumption
  <2> QED
    BY <1>7, <2>1 DEF StarterResets, ResetIdle, StopTimer, Goes, StarterPlaces,
       TypeOK, engine
<1> QED
  BY <1>1, <1>2, <1>3, <1>4, <1>5, <1>6, <1>7 DEF StarterStep

LEMMA StopperTypes ==
  ASSUME TypeOK, NEW g \in Gens, StopperStep(g)
  PROVE  TypeOK'
<1>1. CASE StopperStops(g)
  BY <1>1 DEF StopperStops, CallStop, Goes, StopperPlaces, TypeOK, flags, timing
<1>2. CASE StopperCloses(g)
  BY <1>2 DEF StopperCloses, Finalized, Close, Goes, StopperPlaces, TypeOK, flags,
     timing
<1>3. CASE StopperSettles(g)
  BY <1>3 DEF StopperSettles, Goes, StopperPlaces, TypeOK, flags, timing, engine
<1> QED
  BY <1>1, <1>2, <1>3 DEF StopperStep

LEMMA WatchTypes ==
  ASSUME TypeOK, NEW g \in Gens, WatchStep(g)
  PROVE  TypeOK'
<1>1. CASE WatchPolls(g)
  BY <1>1 DEF WatchPolls, WatchMoves, Goes, WatchPlaces, TypeOK, flags, timing, engine
<1>2. CASE UnexpectedStop(g)
  BY <1>2 DEF UnexpectedStop, WatchMoves, Goes, WatchPlaces, TypeOK, flags, timing,
     engine
<1>3. CASE WatchStops(g)
  BY <1>3 DEF WatchStops, CallStop, WatchMoves, Goes, WatchPlaces, TypeOK, flags,
     timing
<1> QED
  BY <1>1, <1>2, <1>3 DEF WatchStep

LEMMA PauseTypes ==
  ASSUME TypeOK, NEW p \in Pausers,
         PauseStep(p) \/ \E to \in BOOLEAN : PauseCalled(p, to)
  PROVE  TypeOK'
<1>1. pausing[p] \in PauseCall /\ NoCall \in PauseCall
  BY BoundsAssumption DEF TypeOK, NoCall, PauseCall
<1>2. ASSUME NEW to \in BOOLEAN, PauseCalled(p, to) PROVE TypeOK'
  <2>1. [gen |-> recording, to |-> to, set |-> FALSE] \in PauseCall
    BY DEF PauseCall, TypeOK
  <2> QED
    BY <1>2, <2>1 DEF PauseCalled, TypeOK, flags, timing, workers, engine
<1>3. CASE PauseEngine(p)
  <2>1. [pausing[p] EXCEPT !.set = TRUE] \in PauseCall
    BY <1>1 DEF PauseCall
  <2>2. pausing' \in [Pausers -> PauseCall]
    BY <1>1, <1>3, <2>1 DEF PauseEngine, TypeOK
  <2>3. pipePaused' \in [Gens -> BOOLEAN]
    <3>1. pausing[p].to \in BOOLEAN
      BY <1>1 DEF PauseCall
    <3> QED
      BY <1>3, <3>1 DEF PauseEngine, TypeOK
  <2> QED
    BY <1>3, <2>2, <2>3 DEF PauseEngine, TypeOK, flags, timing, workers
<1>4. CASE PauseNoted(p)
  <2>1. paused' \in BOOLEAN
    BY <1>1, <1>4 DEF PauseNoted, PauseCall, TypeOK
  <2> QED
    BY <1>1, <1>4, <2>1 DEF PauseNoted, TypeOK, timing, workers, engine
<1> QED
  BY <1>2, <1>3, <1>4 DEF PauseStep

LEMMA NextTypes == TypeOK /\ [Next]_vars => TypeOK'
<1> SUFFICES ASSUME TypeOK, [Next]_vars PROVE TypeOK'
  OBVIOUS
<1>1. CASE Start
  <2>1. gen + 1 \in 0 .. MaxGen /\ gen + 1 \in Gens
    BY <1>1, BoundsAssumption DEF Start, TypeOK, Gens
  <2> QED
    BY <1>1, <2>1 DEF Start, TypeOK, StarterPlaces, timing, engine
<1>2. CASE StopStarting
  <2>1. cancelled' \subseteq 0 .. MaxGen
    BY <1>2 DEF StopStarting, TypeOK
  <2> QED
    BY <1>2, <2>1 DEF StopStarting, TypeOK, flags, timing, workers, engine
<1>3. CASE StopRecording
  <2>1. cancelled' \subseteq 0 .. MaxGen /\ 0 \in 0 .. MaxGen /\ 0 \in 0 .. MaxElapsed
    BY <1>3, BoundsAssumption DEF StopRecording, TypeOK
  <2> QED
    BY <1>3, <2>1 DEF StopRecording, StopTimer, Goes, StopperPlaces, TypeOK, engine
<1>4. ASSUME NEW g \in Gens, PipelineDies(g) PROVE TypeOK'
  BY <1>4 DEF PipelineDies, TypeOK, flags, timing, workers
<1>5. ASSUME NEW g \in Gens, Tick(g) PROVE TypeOK'
  <2>1. elapsed' \in 0 .. MaxElapsed
    BY <1>5, BoundsAssumption DEF Tick, TypeOK
  <2> QED
    BY <1>5, <2>1 DEF Tick, TypeOK, workers, engine
<1>6. CASE UNCHANGED vars
  BY <1>6 DEF vars, TypeOK, flags, timing, workers, engine
<1> QED
  BY <1>1, <1>2, <1>3, <1>4, <1>5, <1>6, StarterTypes, StopperTypes, WatchTypes,
     PauseTypes DEF Next

\* The recorder, its goroutines and the engine keep their types.
THEOREM Typing == Spec => []TypeOK
BY InitTypes, NextTypes, PTL DEF Spec

-----------------------------------------------------------------------------
\* Where everything that belongs to a start may be.

Untouched(g) ==
  /\ starter[g] = "none" /\ stopper[g] = "none" /\ watch[g] = "none"
  /\ session[g] = "none" /\ pipe[g] = "none" /\ stopCalls[g] = 0

Settled(g) ==
  /\ starter[g] = "none" /\ stopper[g] = "none" /\ watch[g] \in {"none", "done"}
  /\ session[g] # "open" /\ pipe[g] \in {"none", "stopped"} /\ stopCalls[g] =< 1

\* The session is open and the watch has a pipeline to look after.
Watched(g) ==
  /\ session[g] = "open" /\ pipe[g] \in {"playing", "dead"}
  /\ watch[g] \in {"poll", "term", "done"}

\* runStart is under way.
InStart(g) ==
  /\ stopper[g] = "none"
  /\ \/ /\ starter[g] \in {"begin", "open"}
        /\ session[g] = "none" /\ pipe[g] = "none" /\ watch[g] = "none"
        /\ stopCalls[g] = 0
     \/ /\ starter[g] \in {"delay", "launch"}
        /\ session[g] = "open" /\ pipe[g] = "none" /\ watch[g] = "none"
        /\ stopCalls[g] = 0
     \/ starter[g] = "commit" /\ Watched(g) /\ stopCalls[g] = 0
     \/ starter[g] = "discard" /\ Watched(g) /\ stopCalls[g] = 1
     \/ /\ starter[g] = "reset"
        /\ session[g] # "open" /\ pipe[g] \in {"none", "stopped"}
        /\ watch[g] \in {"none", "done"} /\ stopCalls[g] =< 1

\* The recording is committed.
InRecording(g) ==
  /\ starter[g] = "none" /\ stopper[g] = "none"
  /\ Watched(g) /\ stopCalls[g] = 0

\* The goroutine of Stop is under way.
InStop(g) ==
  /\ starter[g] = "none"
  /\ \/ stopper[g] = "stop" /\ Watched(g) /\ stopCalls[g] = 0
     \/ stopper[g] = "wait" /\ Watched(g) /\ stopCalls[g] = 1
     \/ /\ stopper[g] = "settle" /\ stopCalls[g] = 1
        /\ session[g] = "closed" /\ pipe[g] = "stopped" /\ watch[g] = "done"

\* unexpectedStop tears the recording down.
InTeardown(g) ==
  /\ starter[g] = "none" /\ stopper[g] = "none"
  /\ session[g] = "open" /\ pipe[g] \in {"playing", "dead"}
  /\ \/ watch[g] = "teardown" /\ stopCalls[g] = 0
     \/ watch[g] = "wait" /\ stopCalls[g] = 1

\* What the status lets the last start be in the middle of.
Stage(g) ==
  \/ status = "starting" /\ InStart(g)
  \/ status = "recording" /\ InRecording(g)
  \/ status = "stopping" /\ (InStart(g) \/ InStop(g) \/ InTeardown(g))

\* The flags and the timer belong to a committed recording.
Flagged ==
  /\ active =>
       /\ status = "recording" \/ (status = "stopping" /\ InTeardown(gen))
       /\ recording = gen /\ timerStop = gen /\ timerStop \in timers
  /\ ~active => elapsed = 0
  /\ status = "recording" => active

Lifecycle ==
  /\ \A g \in Gens : g > gen => Untouched(g)
  /\ \A g \in Gens : g < gen \/ status = "idle" => Settled(g)
  /\ status # "idle" => gen \in Gens /\ Stage(gen)
  /\ Flagged

LEMMA InitLifecycle == Init => Lifecycle
BY DEF Init, Lifecycle, Untouched, Settled, Flagged

\* A goroutine that is somewhere belongs to the last start.
LEMMA BusyIsLast ==
  ASSUME TypeOK, Lifecycle, NEW g \in Gens,
         \/ starter[g] # "none" \/ stopper[g] # "none"
         \/ watch[g] \notin {"none", "done"} \/ pipe[g] \in {"playing", "dead"}
  PROVE  g = gen /\ status # "idle" /\ Stage(g)
<1>1. g \in Int /\ gen \in Int
  BY DEF TypeOK, Gens
<1>2. ~Untouched(g) /\ ~Settled(g)
  BY DEF Untouched, Settled
<1> QED
  BY <1>1, <1>2 DEF Lifecycle

\* What the other starts look like does not change while the last one moves.
LEMMA OthersKept ==
  ASSUME TypeOK, Lifecycle, gen' = gen, status # "idle",
         \A g \in Gens \ {gen} :
           /\ starter'[g] = starter[g] /\ stopper'[g] = stopper[g]
           /\ watch'[g] = watch[g] /\ session'[g] = session[g]
           /\ pipe'[g] = pipe[g] /\ stopCalls'[g] = stopCalls[g],
         status' = "idle" => Settled(gen)',
         status' # "idle" => Stage(gen)',
         Flagged'
  PROVE  Lifecycle'
<1>1. gen \in Int /\ gen \in Gens /\ Gens \subseteq Int
  BY DEF TypeOK, Lifecycle, Gens
<1>2. ASSUME NEW g \in Gens, g > gen PROVE Untouched(g)'
  BY <1>1, <1>2 DEF Lifecycle, Untouched
<1>3. ASSUME NEW g \in Gens, g < gen PROVE Settled(g)'
  BY <1>1, <1>3 DEF Lifecycle, Settled
<1>4. ASSUME NEW g \in Gens, status' = "idle" PROVE Settled(g)'
  <2>1. CASE g > gen
    BY <1>2, <2>1 DEF Untouched, Settled
  <2>2. CASE g < gen
    BY <1>3, <2>2
  <2>3. CASE g = gen
    BY <1>4, <2>3 DEF Settled
  <2> QED
    BY <1>1, <2>1, <2>2, <2>3
<1> QED
  BY <1>1, <1>2, <1>3, <1>4 DEF Lifecycle, Stage

-----------------------------------------------------------------------------
\* Every step keeps the lifecycle.

\* Nothing is flagged while runStart or the goroutine of Stop is at work.
LEMMA Unflagged ==
  ASSUME Lifecycle, InStart(gen) \/ InStop(gen), status # "recording"
  PROVE  ~active /\ elapsed = 0
BY DEF Lifecycle, Flagged, InStart, InStop, InTeardown, Watched

LEMMA StarterLifecycle ==
  ASSUME TypeOK, Lifecycle, NEW g \in Gens, StarterStep(g)
  PROVE  Lifecycle'
<1>1. starter[g] # "none"
  BY DEF StarterStep, MakeDirectory, SessionOpened, DelayEnds, Launched, Commit,
     Discarded, StarterResets, At
<1>2. g = gen /\ status \in {"starting", "stopping"} /\ InStart(gen)
  BY <1>1, BusyIsLast DEF Stage, InRecording, InStop, InTeardown, TypeOK
<1>3. ~active /\ elapsed = 0
  BY <1>2, Unflagged
<1>4. CASE MakeDirectory(g)
  <2>1. InStart(gen)'
    BY <1>2, <1>4 DEF MakeDirectory, At, StarterMoves, Goes, InStart, Watched,
       engine, TypeOK
  <2>2. UNCHANGED <<status, active, elapsed, gen>>
    BY <1>4 DEF MakeDirectory, StarterMoves, flags
  <2> QED
    BY <1>2, <1>3, <1>4, <2>1, <2>2, OthersKept DEF MakeDirectory, StarterMoves,
       Goes, engine, Stage, Flagged, TypeOK
<1>5. CASE SessionOpened(g)
  <2>1. InStart(gen)'
    BY <1>2, <1>5 DEF SessionOpened, Close, At, StarterMoves, Goes, InStart,
       Watched, TypeOK
  <2>2. UNCHANGED <<status, active, elapsed, gen>>
    BY <1>5 DEF SessionOpened, StarterMoves, flags
  <2> QED
    BY <1>2, <1>3, <1>5, <2>1, <2>2, OthersKept DEF SessionOpened, Close,
       StarterMoves, Goes, Stage, Flagged, TypeOK
<1>6. CASE DelayEnds(g)
  <2>1. InStart(gen)'
    BY <1>2, <1>6 DEF DelayEnds, Close, At, StarterMoves, Goes, InStart, Watched,
       TypeOK
  <2>2. UNCHANGED <<status, active, elapsed, gen>>
    BY <1>6 DEF DelayEnds, StarterMoves, flags
  <2> QED
    BY <1>2, <1>3, <1>6, <2>1, <2>2, OthersKept DEF DelayEnds, Close,
       StarterMoves, Goes, Stage, Flagged, TypeOK
<1>7. CASE Launched(g)
  <2>1. InStart(gen)'
    BY <1>2, <1>7 DEF Launched, Close, At, Goes, InStart, Watched, TypeOK
  <2>2. UNCHANGED <<status, active, elapsed, gen>>
    BY <1>7 DEF Launched, flags
  <2> QED
    BY <1>2, <1>3, <1>7, <2>1, <2>2, OthersKept DEF Launched, Close, Goes, Stage,
       Flagged, TypeOK
<1>8. CASE Commit(g)
  <2>1. CASE status' = "recording"
    <3>1. InRecording(gen)' /\ gen' = gen
      BY <1>2, <1>8, <2>1 DEF Commit, At, StarterMoves, Goes, InStart, InRecording,
         Watched, engine, TypeOK
    <3>2. Flagged'
      BY <1>2, <1>8, <2>1 DEF Commit, StarterMoves, Flagged
    <3> QED
      BY <1>2, <1>8, <2>1, <3>1, <3>2, OthersKept DEF Commit, StarterMoves, Goes,
         engine, Stage, TypeOK
  <2>2. CASE /\ CallStop(g) /\ StarterMoves(g, "discard")
             /\ UNCHANGED <<session, pipe, pipePaused>>
    <3>1. InStart(gen)'
      BY <1>2, <1>8, <2>2 DEF Commit, CallStop, At, StarterMoves, Goes, InStart,
         Watched, TypeOK
    <3>2. UNCHANGED <<status, active, elapsed, gen>>
      BY <2>2 DEF StarterMoves, flags
    <3> QED
      BY <1>2, <1>3, <2>2, <3>1, <3>2, OthersKept DEF CallStop, StarterMoves, Goes,
         Stage, Flagged, TypeOK
  <2> QED
    BY <1>8, <2>1, <2>2 DEF Commit
<1>9. CASE Discarded(g)
  <2>1. InStart(gen)'
    BY <1>2, <1>9 DEF Discarded, Finalized, Close, At, StarterMoves, Goes, InStart,
       Watched, TypeOK
  <2>2. UNCHANGED <<status, active, elapsed, gen>>
    BY <1>9 DEF Discarded, StarterMoves, flags
  <2> QED
    BY <1>2, <1>3, <1>9, <2>1, <2>2, OthersKept DEF Discarded, Finalized, Close,
       StarterMoves, Goes, Stage, Flagged, TypeOK
<1>10. CASE StarterResets(g)
  <2>1. Settled(gen)'
    BY <1>2, <1>10 DEF StarterResets, At, Goes, InStart, Watched, Settled, engine,
       TypeOK
  <2>2. /\ status' = "idle" /\ gen' = gen
        /\ Flagged'
    BY <1>10 DEF StarterResets, ResetIdle, Flagged
  <2> QED
    BY <1>2, <1>10, <2>1, <2>2, OthersKept DEF StarterResets, Goes, engine, TypeOK
<1> QED
  BY <1>4, <1>5, <1>6, <1>7, <1>8, <1>9, <1>10 DEF StarterStep

LEMMA StopperLifecycle ==
  ASSUME TypeOK, Lifecycle, NEW g \in Gens, StopperStep(g)
  PROVE  Lifecycle'
<1>1. stopper[g] # "none"
  BY DEF StopperStep, StopperStops, StopperCloses, StopperSettles, At
<1>2. g = gen /\ status = "stopping" /\ InStop(gen)
  BY <1>1, BusyIsLast DEF Stage, InStart, InRecording, InTeardown, TypeOK
<1>3. ~active /\ elapsed = 0
  BY <1>2, Unflagged
<1>4. CASE StopperStops(g)
  <2>1. InStop(gen)' /\ UNCHANGED <<status, active, elapsed, gen>>
    BY <1>2, <1>4 DEF StopperStops, CallStop, At, Goes, InStop, Watched, flags, TypeOK
  <2> QED
    BY <1>2, <1>3, <1>4, <2>1, OthersKept DEF StopperStops, CallStop, Goes, Stage,
       Flagged, TypeOK
<1>5. CASE StopperCloses(g)
  <2>1. InStop(gen)' /\ UNCHANGED <<status, active, elapsed, gen>>
    BY <1>2, <1>5 DEF StopperCloses, Finalized, Close, At, Goes, InStop, Watched,
       flags, TypeOK
  <2> QED
    BY <1>2, <1>3, <1>5, <2>1, OthersKept DEF StopperCloses, Finalized, Close, Goes,
       Stage, Flagged, TypeOK
<1>6. CASE StopperSettles(g)
  <2>1. Settled(gen)' /\ status' = "idle" /\ UNCHANGED <<active, elapsed, gen>>
    BY <1>2, <1>6 DEF StopperSettles, At, Goes, InStop, Watched, Settled, flags,
       engine, TypeOK
  <2> QED
    BY <1>2, <1>3, <1>6, <2>1, OthersKept DEF StopperSettles, Goes, engine, Flagged,
       TypeOK
<1> QED
  BY <1>4, <1>5, <1>6 DEF StopperStep

LEMMA WatchLifecycle ==
  ASSUME TypeOK, Lifecycle, NEW g \in Gens, WatchStep(g) \/ PipelineDies(g)
  PROVE  Lifecycle'
<1>1. g = gen /\ status # "idle" /\ Stage(gen)
  <2>1. watch[g] \notin {"none", "done"} \/ pipe[g] \in {"playing", "dead"}
    BY DEF WatchStep, WatchPolls, UnexpectedStop, WatchStops, At, PipelineDies
  <2> QED
    BY <2>1, BusyIsLast
<1>2. CASE WatchPolls(g) \/ PipelineDies(g) \/ (UnexpectedStop(g) /\ status' = status)
  <2>1. /\ watch[g] \in {"poll", "term"} => watch'[g] \in {"poll", "term", "done"}
        /\ watch'[g] # watch[g] => watch[g] \in {"poll", "term"}
        /\ UNCHANGED <<status, flags, recording, gen, timing, starter, stopper,
                       session, stopCalls>>
        /\ pipe[g] \in {"playing", "dead"} => pipe'[g] \in {"playing", "dead"}
        /\ pipe'[g] # pipe[g] => pipe[g] \in {"playing", "dead"}
        /\ \A h \in Gens \ {g} : watch'[h] = watch[h] /\ pipe'[h] = pipe[h]
    BY <1>2 DEF WatchPolls, PipelineDies, UnexpectedStop, WatchMoves, Goes, At,
       workers, engine, TypeOK
  <2>2. InStart(gen) => InStart(gen)'
    BY <1>1, <2>1 DEF InStart, Watched
  <2>3. InRecording(gen) => InRecording(gen)'
    BY <1>1, <2>1 DEF InRecording, Watched
  <2>4. InStop(gen) => InStop(gen)'
    BY <1>1, <2>1 DEF InStop, Watched
  <2>5. InTeardown(gen) => InTeardown(gen)'
    BY <1>1, <2>1 DEF InTeardown
  <2>6. Stage(gen)'
    BY <1>1, <2>1, <2>2, <2>3, <2>4, <2>5 DEF Stage
  <2>7. Flagged'
    BY <2>1, <2>5 DEF Lifecycle, Flagged, flags, timing
  <2> QED
    BY <1>1, <2>1, <2>6, <2>7, OthersKept
<1>3. CASE UnexpectedStop(g) /\ status' # status
  <2>1. /\ status = "recording" /\ status' = "stopping" /\ InRecording(gen)
        /\ watch' = [watch EXCEPT ![g] = "teardown"]
        /\ UNCHANGED <<flags, recording, gen, timing, starter, stopper, engine>>
    BY <1>1, <1>3 DEF UnexpectedStop, WatchMoves, Goes, Stage
  <2>2. InTeardown(gen)'
    BY <1>1, <2>1 DEF InTeardown, InRecording, Watched, engine, TypeOK
  <2>3. Flagged'
    BY <2>1, <2>2 DEF Lifecycle, Flagged, flags, timing
  <2> QED
    BY <1>1, <2>1, <2>2, <2>3, OthersKept DEF Stage, engine, TypeOK
<1>4. CASE WatchStops(g)
  <2>1. InTeardown(gen)
    BY <1>1, <1>4 DEF WatchStops, At, Stage, InStart, InRecording, InStop, Watched
  <2>2. InTeardown(gen)'
    BY <1>1, <1>4, <2>1 DEF WatchStops, CallStop, At, WatchMoves, Goes, InTeardown,
       TypeOK
  <2>3. UNCHANGED <<status, flags, recording, gen, timing>> /\ status = "stopping"
    BY <1>1, <1>4, <2>1 DEF WatchStops, WatchMoves, At, Stage, InStart, InRecording,
       InStop, Watched
  <2>4. Flagged'
    BY <2>2, <2>3 DEF Lifecycle, Flagged, flags, timing
  <2> QED
    BY <1>1, <1>4, <2>2, <2>3, <2>4, OthersKept DEF WatchStops, CallStop, WatchMoves,
       Goes, Stage, TypeOK
<1> QED
  BY <1>2, <1>3, <1>4 DEF WatchStep

LEMMA CallLifecycle ==
  ASSUME TypeOK, Lifecycle, Start \/ StopStarting \/ StopRecording
  PROVE  Lifecycle'
<1>1. CASE Start
  <2>1. gen \in Nat /\ gen + 1 \in Gens /\ Gens \subseteq Nat
    BY <1>1, BoundsAssumption DEF Start, TypeOK, Gens
  <2>2. PICK k \in Gens : k = gen + 1
    BY <2>1
  <2>3. \A g \in Gens : g # k =>
          /\ Untouched(g) => Untouched(g)'
          /\ Settled(g) => Settled(g)'
    BY <1>1, <2>2 DEF Start, Untouched, Settled, engine, TypeOK
  <2>4. Untouched(k)
    BY <2>1, <2>2 DEF Lifecycle
  <2>5. InStart(k)'
    BY <1>1, <2>2, <2>4 DEF Start, Untouched, InStart, engine, TypeOK
  <2>6. \A g \in Gens : g > k => Untouched(g)'
    BY <2>1, <2>2, <2>3 DEF Lifecycle
  <2>7. \A g \in Gens : g < k => Settled(g)'
    BY <1>1, <2>1, <2>2, <2>3 DEF Lifecycle, Start
  <2>8. Flagged'
    BY <1>1 DEF Start, Lifecycle, Flagged
  <2>9. gen' = k /\ status' = "starting"
    BY <1>1, <2>2 DEF Start
  <2>10. Stage(gen)'
    BY <2>5, <2>9 DEF Stage
  <2> QED
    BY <2>6, <2>7, <2>8, <2>9, <2>10 DEF Lifecycle
<1>2. CASE StopStarting
  <2>1. InStart(gen) /\ status = "starting" /\ status' = "stopping"
    BY <1>2 DEF StopStarting, Lifecycle, Stage
  <2>2. UNCHANGED <<flags, recording, gen, timing, workers, engine>>
    BY <1>2 DEF StopStarting
  <2>3. InStart(gen)'
    BY <2>1, <2>2 DEF InStart, Watched, workers, engine
  <2>4. Flagged'
    BY <2>1, <2>2 DEF Lifecycle, Flagged, flags, timing
  <2> QED
    BY <2>1, <2>2, <2>3, <2>4, OthersKept DEF Stage, workers, engine
<1>3. CASE StopRecording
  <2>1. InRecording(gen) /\ status = "recording" /\ recording = gen /\ gen \in Gens
    BY <1>3 DEF StopRecording, Lifecycle, Stage, Flagged
  <2>2. InStop(gen)' /\ gen' = gen
    BY <1>3, <2>1 DEF StopRecording, Goes, InRecording, InStop, Watched, engine, TypeOK
  <2>3. Flagged'
    BY <1>3 DEF StopRecording, Flagged
  <2> QED
    BY <1>3, <2>1, <2>2, <2>3, OthersKept DEF StopRecording, Goes, Stage, engine, TypeOK
<1> QED
  BY <1>1, <1>2, <1>3

\* The timer and SetPaused leave the stages alone.
LEMMA ClockLifecycle ==
  ASSUME TypeOK, Lifecycle,
         \/ \E g \in Gens : Tick(g)
         \/ \E p \in Pausers : PauseStep(p) \/ \E to \in BOOLEAN : PauseCalled(p, to)
         \/ UNCHANGED vars
  PROVE  Lifecycle'
<1>1. UNCHANGED <<status, active, recording, gen, timerStop, workers, session, pipe,
                  stopCalls>>
  BY DEF Tick, PauseStep, PauseEngine, PauseNoted, PauseCalled, vars, flags, timing,
     engine
<1>2. /\ ~active => elapsed' = elapsed
      /\ timerStop \in timers /\ active => timerStop \in timers'
  BY DEF Tick, PauseStep, PauseEngine, PauseNoted, PauseCalled, vars, flags, timing
<1>3. InTeardown(gen) => InTeardown(gen)'
  BY <1>1 DEF InTeardown, workers
<1>4. Flagged'
  BY <1>1, <1>2, <1>3 DEF Lifecycle, Flagged
<1>5. \A g \in Gens : /\ Untouched(g) => Untouched(g)'
                      /\ Settled(g) => Settled(g)'
                      /\ Stage(g) => Stage(g)'
  BY <1>1 DEF Untouched, Settled, Stage, InStart, InRecording, InStop, InTeardown,
     Watched, workers
<1>6. Stage(gen) => Stage(gen)'
  BY <1>1 DEF Stage, InStart, InRecording, InStop, InTeardown, Watched, workers
<1> QED
  BY <1>1, <1>4, <1>5, <1>6 DEF Lifecycle

LEMMA NextLifecycle == TypeOK /\ Lifecycle /\ [Next]_vars => Lifecycle'
BY StarterLifecycle, StopperLifecycle, WatchLifecycle, CallLifecycle, ClockLifecycle
   DEF Next

LEMMA AlwaysLifecycle == Spec => [](TypeOK /\ Lifecycle)
BY InitTypes, NextTypes, InitLifecycle, NextLifecycle, PTL DEF Spec

\* Whichever way a start fails, is cancelled or ends, once the recorder says
\* it is idle nothing captures the screen any more.
THEOREM IdleIsIdle == Spec => []IdleCapturesNothing
<1>1. TypeOK /\ Lifecycle => IdleCapturesNothing
  BY DEF Lifecycle, Settled, IdleCapturesNothing, Captures
<1> QED
  BY <1>1, AlwaysLifecycle, PTL

\* An open session is closed by one goroutine, never by two and never by none.
THEOREM SessionIsOwned == Spec => []SessionHasOneOwner
<1>1. TypeOK /\ Lifecycle => SessionHasOneOwner
  <2> SUFFICES ASSUME TypeOK, Lifecycle, NEW g \in Gens, session[g] = "open"
               PROVE  \E o \in Owners(g) : Owners(g) = {o}
    BY DEF SessionHasOneOwner
  <2>1. g = gen /\ status # "idle" /\ Stage(g)
    <3>1. ~Untouched(g) /\ ~Settled(g) /\ g \in Int /\ gen \in Int
      BY DEF Untouched, Settled, TypeOK, Gens
    <3> QED
      BY <3>1 DEF Lifecycle
  <2>2. CASE InStart(g) /\ status # "recording"
    <3>1. Owners(g) = {"starter"}
      BY <2>2 DEF Owners, InStart, Watched
    <3> QED
      BY <3>1
  <2>3. CASE status = "recording" /\ InRecording(g)
    <3>1. recording = g
      BY <2>1, <2>3 DEF Lifecycle, Flagged
    <3>2. Owners(g) = {"recording"}
      BY <2>3, <3>1 DEF Owners, InRecording, Watched
    <3> QED
      BY <3>2
  <2>4. CASE status = "stopping" /\ InStop(g)
    <3>1. Owners(g) = {"stopper"}
      BY <2>4 DEF Owners, InStop, Watched
    <3> QED
      BY <3>1
  <2>5. CASE status = "stopping" /\ InTeardown(g)
    <3>1. Owners(g) = {"watch"}
      BY <2>5 DEF Owners, InTeardown
    <3> QED
      BY <3>1
  <2> QED
    BY <2>1, <2>2, <2>3, <2>4, <2>5 DEF Stage
<1> QED
  BY <1>1, AlwaysLifecycle, PTL

\* The stop channel of a pipeline is closed at most once.
THEOREM StopsOnce == Spec => []StoppedOnce
<1>1. TypeOK /\ Lifecycle => StoppedOnce
  <2> SUFFICES ASSUME TypeOK, Lifecycle, NEW g \in Gens PROVE stopCalls[g] =< 1
    BY DEF StoppedOnce
  <2>1. g \in Int /\ gen \in Int
    BY DEF TypeOK, Gens
  <2>2. Untouched(g) \/ Settled(g) \/ Stage(g)
    BY <2>1 DEF Lifecycle
  <2> QED
    BY <2>2 DEF Untouched, Settled, Stage, InStart, InRecording, InStop, InTeardown
<1> QED
  BY <1>1, AlwaysLifecycle, PTL

\* Elapsed seconds are those of the recording that is active.
THEOREM TimerIsOfTheRecording == Spec => []TimerFollowsRecording
<1>1. TypeOK /\ Lifecycle => TimerFollowsRecording
  BY DEF Lifecycle, Flagged, TimerFollowsRecording, TypeOK
<1> QED
  BY <1>1, AlwaysLifecycle, PTL

\* Whatever captures, runs or counts belongs to somebody who will end it,
\* once, for any number of recordings and however they end.
THEOREM CaptureStaysAccountedFor == Spec => []CaptureIsAccountedFor
<1>1. IdleCapturesNothing /\ SessionHasOneOwner /\ StoppedOnce /\ TimerFollowsRecording
        => CaptureIsAccountedFor
  BY DEF CaptureIsAccountedFor
<1> QED
  BY <1>1, IdleIsIdle, SessionIsOwned, StopsOnce, TimerIsOfTheRecording, PTL
-----------------------------------------------------------------------------
\* The flag and the pipeline.

\* One goroutine calls SetPaused.  Two may reach the pipeline and the flag in
\* different orders.
OnePauser == \A p, q \in Pausers : p = q

\* The engine was told and the flag of the recording was not.
Unnoted(p) == pausing[p].set /\ pausing[p].gen = recording

\* Only what was committed is ever paused, and until a call has noted what it
\* told the pipeline, its word says what the pipeline does, afterwards the flag.
Minded ==
  /\ \A g \in Gens :
       pipePaused[g] \/ (\E p \in Pausers : pausing[p].gen = g)
         => g =< gen /\ starter[g] = "none"
  /\ \A p \in Pausers : pausing[p] # NoCall => pausing[p].gen \in Gens
  /\ active =>
       /\ \A p \in Pausers : Unnoted(p) => (pausing[p].to <=> pipePaused[recording])
       /\ (\A p \in Pausers : ~Unnoted(p)) => (paused <=> pipePaused[recording])

LEMMA InitMinded == Init => Minded
<1> SUFFICES ASSUME Init PROVE Minded
  OBVIOUS
<1>1. \A p \in Pausers : pausing[p] = NoCall /\ pausing[p].gen = 0
  BY DEF Init, NoCall
<1>2. 0 \notin Gens
  BY DEF Gens
<1> QED
  BY <1>1, <1>2 DEF Init, Minded

\* Steps that touch neither, while runStart of an uncommitted start moves.
LEMMA UntouchedMinded ==
  ASSUME TypeOK, Minded, UNCHANGED <<active, paused, recording, pipePaused, pausing>>,
         gen' = gen,
         \A g \in Gens : starter[g] = "none" => starter'[g] = "none"
  PROVE  Minded'
BY DEF Minded, Unnoted

LEMMA StarterMinded ==
  ASSUME TypeOK, Lifecycle, Minded, NEW g \in Gens, StarterStep(g)
  PROVE  Minded'
<1>1. starter[g] # "none"
  BY DEF StarterStep, MakeDirectory, SessionOpened, DelayEnds, Launched, Commit,
     Discarded, StarterResets, At
<1>2. UNCHANGED <<pipePaused, pausing, gen>>
  BY DEF StarterStep, MakeDirectory, SessionOpened, DelayEnds, Launched, Commit,
     Discarded, StarterResets, StarterMoves, engine
<1>3. \A h \in Gens : starter[h] = "none" => starter'[h] = "none"
  <2>1. PICK there : Goes(starter, g, there)
    BY DEF StarterStep, MakeDirectory, SessionOpened, DelayEnds, Launched, Commit,
       Discarded, StarterResets, StarterMoves
  <2> QED
    BY <1>1, <2>1 DEF Goes, TypeOK
<1>4. CASE UNCHANGED <<active, paused, recording>>
  BY <1>2, <1>3, <1>4, UntouchedMinded
<1>5. CASE active' /\ recording' = g /\ ~paused'
  <2>1. ~pipePaused[g] /\ \A p \in Pausers : pausing[p].gen # g
    BY <1>1 DEF Minded
  <2> QED
    BY <1>2, <1>3, <1>5, <2>1 DEF Minded, Unnoted
<1>6. CASE ~active'
  BY <1>2, <1>3, <1>6 DEF Minded
<1>7. \/ UNCHANGED <<active, paused, recording>>
      \/ active' /\ recording' = g /\ ~paused'
      \/ ~active'
  BY DEF StarterStep, MakeDirectory, SessionOpened, DelayEnds, Launched, Commit,
     Discarded, StarterResets, StarterMoves, ResetIdle, flags
<1> QED
  BY <1>4, <1>5, <1>6, <1>7

LEMMA PauseMinded ==
  ASSUME OnePauser, TypeOK, Lifecycle, Minded, NEW p \in Pausers,
         PauseStep(p) \/ \E to \in BOOLEAN : PauseCalled(p, to)
  PROVE  Minded'
<1>1. UNCHANGED <<active, recording, gen, starter>>
  BY DEF PauseStep, PauseEngine, PauseNoted, PauseCalled, flags, workers
<1>2. \A q \in Pausers : q = p
  BY DEF OnePauser
<1>3. pausing[p] \in PauseCall /\ 0 \notin Gens
  BY DEF TypeOK, Gens
<1>4. ASSUME NEW to \in BOOLEAN, PauseCalled(p, to) PROVE Minded'
  <2>1. recording = gen /\ gen \in Gens /\ starter[gen] = "none" /\ gen =< gen
    BY <1>4 DEF PauseCalled, Lifecycle, Flagged, Stage, InRecording, InTeardown,
       TypeOK
  <2>2. pausing'[p] = [gen |-> recording, to |-> to, set |-> FALSE]
        /\ UNCHANGED <<paused, pipePaused>> /\ pausing[p] = NoCall
    BY <1>4 DEF PauseCalled, flags, engine, TypeOK
  <2>3. ~Unnoted(p) /\ ~Unnoted(p)'
    BY <2>2 DEF Unnoted, NoCall
  <2> QED
    BY <1>1, <1>2, <2>1, <2>2, <2>3 DEF Minded
<1>5. CASE PauseEngine(p)
  <2> DEFINE call == pausing[p]
  <2>1. call # NoCall /\ ~call.set /\ paused' = paused /\ call.gen \in Gens
    BY <1>5 DEF PauseEngine, flags, Minded
  <2>2. ~Unnoted(p)
    BY <2>1 DEF Unnoted
  <2>3. CASE pipePaused' = [pipePaused EXCEPT ![call.gen] = call.to]
             /\ pausing' = [pausing EXCEPT ![p].set = TRUE]
    <3>1. pausing'[p].gen = call.gen /\ pausing'[p].to = call.to /\ pausing'[p].set
      BY <1>3, <2>3 DEF TypeOK, PauseCall
    <3>2. pipePaused'[call.gen] = call.to
          /\ \A g \in Gens \ {call.gen} : pipePaused'[g] = pipePaused[g]
      BY <2>1, <2>3 DEF TypeOK
    <3>3. recording \in Gens \/ ~active
      BY DEF Lifecycle, Flagged, TypeOK
    <3>4. \A g \in Gens : pipePaused'[g] \/ (\E q \in Pausers : pausing'[q].gen = g)
            => g =< gen' /\ starter'[g] = "none"
      BY <1>1, <1>2, <3>1, <3>2 DEF Minded
    <3>5. \A q \in Pausers : pausing'[q] # NoCall => pausing'[q].gen \in Gens
      BY <1>2, <2>1, <3>1
    <3>6. CASE call.gen = recording
      BY <1>1, <1>2, <3>1, <3>2, <3>4, <3>5, <3>6 DEF Minded, Unnoted
    <3>7. CASE call.gen # recording
      BY <1>1, <1>2, <2>1, <2>2, <3>1, <3>2, <3>3, <3>4, <3>5, <3>7
         DEF Minded, Unnoted
    <3> QED
      BY <3>6, <3>7
  <2>4. CASE pausing' = [pausing EXCEPT ![p] = NoCall] /\ UNCHANGED pipePaused
    <3>1. pausing'[p] = NoCall /\ NoCall.gen = 0 /\ ~NoCall.set
      BY <2>4 DEF TypeOK, NoCall
    <3> QED
      BY <1>1, <1>2, <1>3, <2>1, <2>2, <2>4, <3>1 DEF Minded, Unnoted
  <2> QED
    BY <1>5, <2>3, <2>4 DEF PauseEngine
<1>6. CASE PauseNoted(p)
  <2> DEFINE call == pausing[p]
  <2>1. /\ call.set /\ UNCHANGED pipePaused
        /\ paused' = IF recording = call.gen THEN call.to ELSE paused
        /\ pausing' = [pausing EXCEPT ![p] = NoCall]
    BY <1>6 DEF PauseNoted, engine
  <2>2. pausing'[p] = NoCall /\ NoCall.gen = 0 /\ ~NoCall.set
    BY <2>1 DEF TypeOK, NoCall
  <2> QED
    BY <1>1, <1>2, <1>3, <2>1, <2>2 DEF Minded, Unnoted
<1> QED
  BY <1>4, <1>5, <1>6 DEF PauseStep

LEMMA NextMinded ==
  OnePauser /\ TypeOK /\ Lifecycle /\ Minded /\ [Next]_vars => Minded'
<1> SUFFICES ASSUME OnePauser, TypeOK, Lifecycle, Minded, [Next]_vars
             PROVE  Minded'
  OBVIOUS
<1>1. CASE Start
  <2>1. ~active /\ UNCHANGED <<active, pipePaused, pausing>>
    BY <1>1 DEF Start, Lifecycle, Flagged, engine
  <2>2. gen \in Int /\ gen' = gen + 1 /\ \A g \in Gens : g \in Int
    BY <1>1 DEF Start, TypeOK, Gens
  <2>3. \A g \in Gens : g =< gen /\ starter[g] = "none"
          => g =< gen' /\ starter'[g] = "none"
    BY <1>1, <2>2 DEF Start, TypeOK
  <2> QED
    BY <2>1, <2>3 DEF Minded
<1>2. CASE StopRecording
  <2>1. ~active' /\ UNCHANGED <<pipePaused, pausing, gen, starter>>
    BY <1>2 DEF StopRecording, engine
  <2> QED
    BY <2>1 DEF Minded
<1>3. CASE \/ StopStarting \/ UNCHANGED vars
           \/ \E g \in Gens : StopperStep(g) \/ WatchStep(g) \/ PipelineDies(g) \/ Tick(g)
  <2>1. UNCHANGED <<active, paused, recording, pipePaused, pausing, gen, starter>>
    BY <1>3 DEF StopStarting, StopperStep, StopperStops, StopperCloses,
       StopperSettles, WatchStep, WatchPolls, UnexpectedStop, WatchStops, WatchMoves,
       PipelineDies, Tick, vars, flags, workers, engine
  <2> QED
    BY <2>1, UntouchedMinded
<1> QED
  BY <1>1, <1>2, <1>3, StarterMinded, PauseMinded DEF Next

\* With one goroutine that pauses, the flag never stays behind the pipeline:
\* not when a call outlives the recording it was for, and not over a next one.
THEOREM FlagAgrees == OnePauser => (Spec => []PauseAgrees)
<1> SUFFICES ASSUME OnePauser PROVE Spec => []PauseAgrees
  OBVIOUS
<1>1. TypeOK /\ Lifecycle /\ Minded /\ [Next]_vars => Minded'
  BY NextMinded
<1>2. Minded => PauseAgrees
  <2>1. \A p \in Pausers : pausing[p] = NoCall => ~Unnoted(p)
    BY DEF Unnoted, NoCall
  <2> QED
    BY <2>1 DEF Minded, PauseAgrees
<1> QED
  BY <1>1, <1>2, InitMinded, AlwaysLifecycle, PTL DEF Spec
=============================================================================
