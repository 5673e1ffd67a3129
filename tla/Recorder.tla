------------------------------ MODULE Recorder ------------------------------
(***************************************************************************)
(* The screen recorder (service/recorder): the lifecycle of a recording    *)
(* between the user's calls, the goroutine that starts it, the one that    *)
(* finalizes it, the pipeline's watch and the elapsed timer.               *)
(*                                                                         *)
(* State's fields change in critical sections of its mutex; the engine is  *)
(* called outside them, so between two of them anybody may come first.     *)
(* A start is named by its gen, and so are its session, its pipeline and   *)
(* its timer.                                                              *)
(***************************************************************************)
EXTENDS Integers

CONSTANTS
  Pausers,    \* goroutines that call SetPaused
  MaxGen,     \* bound on starts
  MaxElapsed, \* bound on counted seconds
  Dies        \* a pipeline may end on its own

ASSUME BoundsAssumption == MaxGen \in Nat /\ MaxElapsed \in Nat
ASSUME DiesAssumption == Dies \in BOOLEAN

Gens == 1 .. MaxGen

VARIABLES
  status,     \* State.status
  active,     \* State.active
  paused,     \* State.paused
  preparing,  \* State.preparing
  elapsed,    \* State.elapsed
  recording,  \* State.recording and State.session, 0 for nil
  gen,        \* State.gen
  cancelled,  \* the starts whose context was cancelled
  timerStop,  \* State.timerStop, 0 for nil
  timers,     \* running timer goroutines
  starter,    \* where runStart of each start is
  stopper,    \* where the goroutine of Stop for each recording is
  watch,      \* where the watch of each pipeline is
  session,    \* the portal session of each start
  pipe,       \* the GStreamer pipeline of each start
  pipePaused, \* whether it is paused
  stopCalls,  \* how often Stop was called on it
  pausing     \* the call of SetPaused each goroutine is in

flags   == <<active, paused, preparing, elapsed>>
timing  == <<timerStop, timers>>
workers == <<starter, stopper, watch>>
engine  == <<session, pipe, pipePaused, stopCalls>>
vars    == <<status, flags, recording, gen, cancelled, timing, workers, engine,
             pausing>>

\* Where runStart stops to wait: "begin" before the output directory, "open"
\* in OpenSession, "delay" in the announced delay, "launch" in engine.Start,
\* "commit" before commit, "discard" while commit stops a pipeline that came
\* too late, "reset" before resetIdle.
StarterPlaces ==
  {"none", "begin", "open", "delay", "launch", "commit", "discard", "reset"}
\* "stop" before rec.Stop, "wait" in it, "settle" after session.Close.
StopperPlaces == {"none", "stop", "wait", "settle"}
\* "term" with a report for unexpectedStop, "teardown" before the rec.Stop of
\* unexpectedStop and "wait" in it.
WatchPlaces == {"none", "poll", "term", "teardown", "wait", "done"}

\* No call: the goroutine is between calls of SetPaused.
NoCall == [gen |-> 0, to |-> FALSE, set |-> FALSE]
PauseCall == [gen : 0 .. MaxGen, to : BOOLEAN, set : BOOLEAN]

At(place, g, here) == place[g] = here
Goes(place, g, there) == place' = [place EXCEPT ![g] = there]

-----------------------------------------------------------------------------
\* Helpers of State.

\* Mutant: timers are counted, also the one that is not there.
StopTimerCounted == timerStop' = timerStop - 1 /\ UNCHANGED timers
StopTimer == timerStop' = 0 /\ UNCHANGED timers

ResetIdle ==
  /\ status' = "idle"
  /\ active' = FALSE /\ paused' = FALSE /\ preparing' = FALSE
  /\ elapsed' = 0
  /\ recording' = 0
  /\ StopTimer

\* gstRecording.Stop: the watch is told, waited for, and the pipeline
\* finalized.
CallStop(g) == stopCalls' = [stopCalls EXCEPT ![g] = @ + 1]
Finalized(g) ==
  /\ watch[g] = "done"
  /\ pipe' = [pipe EXCEPT ![g] = "stopped"]
Close(g) == session' = [session EXCEPT ![g] = "closed"]

-----------------------------------------------------------------------------
\* The calls of the user.

\* State.Start, and Toggle of an idle recorder: the claim, then runStart.
Start ==
  /\ status = "idle" /\ gen < MaxGen
  /\ gen' = gen + 1
  /\ status' = "starting" /\ preparing' = TRUE
  /\ starter' = [starter EXCEPT ![gen + 1] = "begin"]
  /\ UNCHANGED <<active, paused, elapsed, recording, cancelled, timing, stopper,
                 watch, engine, pausing>>

\* State.Stop and Toggle while a start is in flight: runStart sees it.
StopStarting ==
  /\ status = "starting"
  /\ status' = "stopping"
  /\ cancelled' = cancelled \cup {gen}
  /\ UNCHANGED <<flags, recording, gen, timing, workers, engine, pausing>>

\* State.Stop and Toggle of a recording.
StopRecording ==
  /\ status = "recording"
  /\ status' = "stopping"
  /\ cancelled' = cancelled \cup {gen}
  /\ StopTimer
  /\ active' = FALSE /\ paused' = FALSE /\ elapsed' = 0
  /\ recording' = 0
  /\ Goes(stopper, recording, "stop")
  /\ UNCHANGED <<preparing, gen, starter, watch, engine, pausing>>

-----------------------------------------------------------------------------
\* The goroutine of Stop.

StopperStops(g) ==
  /\ At(stopper, g, "stop")
  /\ CallStop(g)
  /\ Goes(stopper, g, "wait")
  /\ UNCHANGED <<status, flags, recording, gen, cancelled, timing, starter,
                 watch, session, pipe, pipePaused, pausing>>

StopperCloses(g) ==
  /\ At(stopper, g, "wait")
  /\ Finalized(g)
  /\ Close(g)
  /\ Goes(stopper, g, "settle")
  /\ UNCHANGED <<status, flags, recording, gen, cancelled, timing, starter,
                 watch, pipePaused, stopCalls, pausing>>

\* The status settles; what is reported depends on the file only.
StopperSettles(g) ==
  /\ At(stopper, g, "settle")
  /\ status' = "idle"
  /\ Goes(stopper, g, "none")
  /\ UNCHANGED <<flags, recording, gen, cancelled, timing, starter, watch,
                 engine, pausing>>

-----------------------------------------------------------------------------
\* runStart.

StarterMoves(g, there) ==
  /\ Goes(starter, g, there)
  /\ UNCHANGED <<status, flags, recording, gen, cancelled, timing, stopper,
                 watch, pausing>>

\* os.MkdirAll: an error goes to failStart.
MakeDirectory(g) ==
  /\ At(starter, g, "begin")
  /\ \E there \in {"open", "reset"} : StarterMoves(g, there)
  /\ UNCHANGED engine

\* OpenSession returns: with a session, too late, or with an error.
SessionOpened(g) ==
  /\ At(starter, g, "open")
  /\ \/ /\ g \notin cancelled
        /\ session' = [session EXCEPT ![g] = "open"]
        /\ StarterMoves(g, "delay")
     \/ g \in cancelled /\ Close(g) /\ StarterMoves(g, "reset")
     \/ UNCHANGED session /\ StarterMoves(g, "reset")
  /\ UNCHANGED <<pipe, pipePaused, stopCalls>>

\* The select of the delay: with both ready either may win.
DelayEnds(g) ==
  /\ At(starter, g, "delay")
  /\ \/ g \in cancelled /\ Close(g) /\ StarterMoves(g, "reset")
     \/ UNCHANGED session /\ StarterMoves(g, "launch")
  /\ UNCHANGED <<pipe, pipePaused, stopCalls>>

\* engine.Start: the pipeline plays and is watched, or the session is closed.
Launched(g) ==
  /\ At(starter, g, "launch")
  /\ \/ /\ pipe' = [pipe EXCEPT ![g] = "playing"]
        /\ Goes(watch, g, "poll")
        /\ Goes(starter, g, "commit")
        /\ UNCHANGED session
     \/ /\ Close(g)
        /\ Goes(starter, g, "reset")
        /\ UNCHANGED <<pipe, watch>>
  /\ UNCHANGED <<status, flags, recording, gen, cancelled, timing, stopper,
                 pipePaused, stopCalls, pausing>>

\* Mutant: a cancelled start is committed.
CommitAnyway(g) ==
  /\ At(starter, g, "commit")
  /\ status' = "recording" /\ recording' = g
  /\ elapsed' = 0 /\ paused' = FALSE /\ active' = TRUE /\ preparing' = FALSE
  /\ timerStop' = g /\ timers' = timers \cup {g}
  /\ Goes(starter, g, "none")
  /\ UNCHANGED <<gen, cancelled, stopper, watch, engine, pausing>>
Commit(g) ==
  /\ At(starter, g, "commit")
  /\ \/ /\ status = "starting" /\ g \notin cancelled
        /\ status' = "recording" /\ recording' = g
        /\ elapsed' = 0 /\ paused' = FALSE /\ active' = TRUE /\ preparing' = FALSE
        /\ timerStop' = g /\ timers' = timers \cup {g}
        /\ Goes(starter, g, "none")
        /\ UNCHANGED <<gen, cancelled, stopper, watch, engine, pausing>>
     \/ /\ status # "starting" \/ g \in cancelled
        /\ CallStop(g)
        /\ StarterMoves(g, "discard")
        /\ UNCHANGED <<session, pipe, pipePaused>>

Discarded(g) ==
  /\ At(starter, g, "discard")
  /\ Finalized(g)
  /\ Close(g)
  /\ StarterMoves(g, "reset")
  /\ UNCHANGED <<pipePaused, stopCalls>>

StarterResets(g) ==
  /\ At(starter, g, "reset")
  /\ ResetIdle
  /\ Goes(starter, g, "none")
  /\ UNCHANGED <<gen, cancelled, stopper, watch, engine, pausing>>

-----------------------------------------------------------------------------
\* The pipeline and its watch.

\* The source disconnects or the disk fills up; the bus has the message.
PipelineDies(g) ==
  /\ Dies /\ pipe[g] = "playing"
  /\ pipe' = [pipe EXCEPT ![g] = "dead"]
  /\ UNCHANGED <<status, flags, recording, gen, cancelled, timing, workers,
                 session, pipePaused, stopCalls, pausing>>

WatchMoves(g, there) ==
  /\ Goes(watch, g, there)
  /\ UNCHANGED <<gen, cancelled, starter, stopper, pausing>>

\* watch polls: it returns once it was told to stop, and reports a message
\* that came before.
WatchPolls(g) ==
  /\ At(watch, g, "poll")
  /\ \/ stopCalls[g] > 0 /\ WatchMoves(g, "done")
     \/ pipe[g] = "dead" /\ stopCalls[g] = 0 /\ WatchMoves(g, "term")
  /\ UNCHANGED <<status, flags, recording, timing, engine>>

\* Mutant: only the gen is compared.
UnexpectedStopAlways(g) ==
  /\ At(watch, g, "term")
  /\ \/ /\ gen # g
        /\ WatchMoves(g, "done")
        /\ UNCHANGED <<status, flags, recording, timing, engine>>
     \/ /\ gen = g
        /\ status' = "stopping"
        /\ WatchMoves(g, "teardown")
        /\ UNCHANGED <<flags, recording, timing, engine>>
\* unexpectedStop, on the goroutine of watch.
UnexpectedStop(g) ==
  /\ At(watch, g, "term")
  /\ \/ /\ status # "recording" \/ gen # g
        /\ WatchMoves(g, "done")
        /\ UNCHANGED status
     \/ /\ status = "recording" /\ gen = g
        /\ status' = "stopping"
        /\ WatchMoves(g, "teardown")
  /\ UNCHANGED <<flags, recording, timing, engine>>

\* rec.Stop of unexpectedStop. It waits for the watch, which is the goroutine
\* it runs on, so what follows it (session.Close, resetIdle and the report)
\* has no action here: no state enables it.
WatchStops(g) ==
  /\ At(watch, g, "teardown")
  /\ CallStop(g)
  /\ WatchMoves(g, "wait")
  /\ UNCHANGED <<status, flags, recording, timing, session, pipe, pipePaused>>

-----------------------------------------------------------------------------
\* The elapsed timer and pausing.

\* A second passes for the timer goroutine of g.
Tick(g) ==
  /\ g \in timers
  /\ \/ /\ timerStop # g \/ ~active
        /\ timers' = timers \ {g}
        /\ UNCHANGED elapsed
     \/ /\ timerStop = g /\ active /\ ~paused /\ elapsed < MaxElapsed
        /\ elapsed' = elapsed + 1
        /\ UNCHANGED timers
  /\ UNCHANGED <<status, active, paused, preparing, recording, gen, cancelled,
                 timerStop, workers, engine, pausing>>

\* SetPaused: the check, then the engine's call, then the flag.
PauseCalled(p, to) ==
  /\ pausing[p] = NoCall
  /\ active /\ recording # 0 /\ paused # to
  /\ pausing' = [pausing EXCEPT ![p] = [gen |-> recording, to |-> to, set |-> FALSE]]
  /\ UNCHANGED <<status, flags, recording, gen, cancelled, timing, workers, engine>>

\* The engine changes the state of the pipeline, or fails; it fails for one
\* that is gone.
PauseEngine(p) ==
  LET call == pausing[p] IN
  /\ call # NoCall /\ ~call.set
  /\ \/ /\ pipe[call.gen] # "stopped"
        /\ pipePaused' = [pipePaused EXCEPT ![call.gen] = call.to]
        /\ pausing' = [pausing EXCEPT ![p].set = TRUE]
     \/ /\ pausing' = [pausing EXCEPT ![p] = NoCall]
        /\ UNCHANGED pipePaused
  /\ UNCHANGED <<status, flags, recording, gen, cancelled, timing, workers,
                 session, pipe, stopCalls>>

\* Mutant: the flag is set whatever is recording by now.
PauseNotedAnyway(p) ==
  LET call == pausing[p] IN
  /\ call # NoCall /\ call.set
  /\ paused' = call.to
  /\ pausing' = [pausing EXCEPT ![p] = NoCall]
  /\ UNCHANGED <<status, active, preparing, elapsed, recording, gen, cancelled,
                 timing, workers, engine>>
PauseNoted(p) ==
  LET call == pausing[p] IN
  /\ call # NoCall /\ call.set
  /\ paused' = IF recording = call.gen THEN call.to ELSE paused
  /\ pausing' = [pausing EXCEPT ![p] = NoCall]
  /\ UNCHANGED <<status, active, preparing, elapsed, recording, gen, cancelled,
                 timing, workers, engine>>

-----------------------------------------------------------------------------
Init ==
  /\ status = "idle"
  /\ active = FALSE /\ paused = FALSE /\ preparing = FALSE /\ elapsed = 0
  /\ recording = 0 /\ gen = 0 /\ cancelled = {}
  /\ timerStop = 0 /\ timers = {}
  /\ starter = [g \in Gens |-> "none"]
  /\ stopper = [g \in Gens |-> "none"]
  /\ watch = [g \in Gens |-> "none"]
  /\ session = [g \in Gens |-> "none"]
  /\ pipe = [g \in Gens |-> "none"]
  /\ pipePaused = [g \in Gens |-> FALSE]
  /\ stopCalls = [g \in Gens |-> 0]
  /\ pausing = [p \in Pausers |-> NoCall]

StarterStep(g) ==
  \/ MakeDirectory(g) \/ SessionOpened(g) \/ DelayEnds(g) \/ Launched(g)
  \/ Commit(g) \/ Discarded(g) \/ StarterResets(g)
StopperStep(g) == StopperStops(g) \/ StopperCloses(g) \/ StopperSettles(g)
WatchStep(g) == WatchPolls(g) \/ UnexpectedStop(g) \/ WatchStops(g)
PauseStep(p) == PauseEngine(p) \/ PauseNoted(p)

Next ==
  \/ Start \/ StopStarting \/ StopRecording
  \/ \E g \in Gens : \/ StarterStep(g) \/ StopperStep(g) \/ WatchStep(g)
                     \/ PipelineDies(g) \/ Tick(g)
  \/ \E p \in Pausers : PauseStep(p) \/ \E to \in BOOLEAN : PauseCalled(p, to)

\* Goroutines run; a cancelled OpenSession and engine.Start return.
Fairness ==
  /\ \A g \in Gens : /\ WF_vars(StarterStep(g)) /\ WF_vars(StopperStep(g))
                     /\ WF_vars(WatchStep(g))
  /\ \A p \in Pausers : WF_vars(PauseStep(p))

Spec == Init /\ [][Next]_vars /\ Fairness
-----------------------------------------------------------------------------
\* Properties.

\* Type correctness of the recorder, its goroutines and the engine.
TypeOK ==
  /\ status \in {"idle", "starting", "recording", "stopping"}
  /\ active \in BOOLEAN /\ paused \in BOOLEAN /\ preparing \in BOOLEAN
  /\ elapsed \in 0 .. MaxElapsed
  /\ recording \in 0 .. MaxGen /\ gen \in 0 .. MaxGen
  /\ cancelled \subseteq 0 .. MaxGen
  /\ timerStop \in 0 .. MaxGen /\ timers \subseteq Gens
  /\ starter \in [Gens -> StarterPlaces]
  /\ stopper \in [Gens -> StopperPlaces]
  /\ watch \in [Gens -> WatchPlaces]
  /\ session \in [Gens -> {"none", "open", "closed"}]
  /\ pipe \in [Gens -> {"none", "playing", "dead", "stopped"}]
  /\ pipePaused \in [Gens -> BOOLEAN]
  /\ stopCalls \in [Gens -> Nat]
  /\ pausing \in [Pausers -> PauseCall]

Captures(g) == session[g] = "open" \/ pipe[g] \in {"playing", "dead"}

\* A recorder that says it is idle captures nothing: no session is open and no
\* pipeline runs, whichever way the last start or recording ended.
IdleCapturesNothing == status = "idle" => \A g \in Gens : ~Captures(g)

\* Who is going to close the session of g.
Owners(g) ==
  {o \in {"starter", "recording", "stopper", "watch"} :
     \/ o = "starter" /\ starter[g] \in {"delay", "launch", "commit", "discard"}
     \/ o = "recording" /\ status = "recording" /\ recording = g
     \/ o = "stopper" /\ stopper[g] \in {"stop", "wait"}
     \/ o = "watch" /\ watch[g] \in {"teardown", "wait"}}

\* An open session has exactly one goroutine that is to close it, handed over
\* from the start to the recording to whoever ends it.
SessionHasOneOwner ==
  \A g \in Gens : session[g] = "open" => \E o \in Owners(g) : Owners(g) = {o}

\* A pipeline is stopped at most once, by Stop, by a cancelled start or by its
\* own end: a second close of its stop channel would panic.
StoppedOnce == \A g \in Gens : stopCalls[g] =< 1

\* Seconds are counted for the recording that is active, by its own timer.
TimerFollowsRecording ==
  /\ active => timerStop = recording /\ timerStop \in timers
  /\ elapsed > 0 => active

\* Whatever captures, runs or counts belongs to somebody who will end it, once.
CaptureIsAccountedFor ==
  IdleCapturesNothing /\ SessionHasOneOwner /\ StoppedOnce /\ TimerFollowsRecording

\* With no call of SetPaused under way, the flag says what the pipeline does.
PauseAgrees ==
  active /\ (\A p \in Pausers : pausing[p] = NoCall)
    => (paused <=> pipePaused[recording])

\* A stop of a start in flight or of a recording settles to idle, also when
\* the pipeline ends on its own meanwhile.
StopSettles ==
  \A g \in Gens :
    (stopper[g] # "none" \/ (g \in cancelled /\ starter[g] # "none"))
      ~> status = "idle"

\* A recording whose end was reported is torn down.
DeadRecordingIsTornDown ==
  \A g \in Gens :
    (watch[g] = "term" /\ status = "recording" /\ gen = g) ~> status = "idle"
=============================================================================
