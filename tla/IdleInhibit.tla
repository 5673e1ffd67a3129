---------------------------- MODULE IdleInhibit ----------------------------
(***************************************************************************)
(* The idle inhibitor (service/idleinhibit): the user's inhibition with    *)
(* its countdown, and the holds that applications keep through the         *)
(* session bus for as long as they stay on it.                             *)
(*                                                                         *)
(* Every method of State is one critical section. A D-Bus method runs on a *)
(* goroutine of its own and may take several; calls holds where each one   *)
(* is. Departures come as NameOwnerChanged signals, in order, on one more. *)
(***************************************************************************)
EXTENDS Integers, Sequences, FiniteSets

CONSTANTS
  Clients,    \* bus names that may hold idle
  Durations,  \* minutes the user may choose, 0 for indefinite
  Deltas,     \* minutes the user may add or take
  PerMinute,  \* seconds in a minute
  Width,      \* the range of uint32, in which minutes become seconds
  MaxEdits,   \* bound on the user's calls
  MaxHolds    \* bound on Hold calls

ASSUME NumbersAssumption ==
  /\ PerMinute \in Nat \ {0} /\ Width \in Nat \ {0}
  /\ MaxEdits \in Nat /\ MaxHolds \in Nat
ASSUME DurationsAssumption == Durations \subseteq Nat /\ Deltas \subseteq Int

Hold == [id : Nat, owner : Clients]
\* Where the goroutine of a call is: in front of AddHold, of the NameHasOwner
\* call that follows it, or of the ReleaseHold of Release; in AdjustDuration,
\* in front of SetDuration.  no tells equal calls apart; two of one client that
\* drop one hold do the same.
PendingCall ==
       [op : {"add"}, owner : Clients, no : Nat]
  \cup [op : {"check"}, hold : Hold]
  \cup [op : {"drop"}, hold : Hold, by : Clients]
  \cup [op : {"set"}, minutes : Nat, no : Nat]

VARIABLES
  active,     \* State.active
  duration,   \* State.durationMins
  remaining,  \* State.remainingSecs
  timerStop,  \* State.timerStop: which countdown, 0 for nil
  timers,     \* the countdown goroutines that run
  runs,       \* countdowns started so far (names them)
  holds,      \* State.holds
  nextHold,   \* State.nextHold
  present,    \* the names on the bus
  departed,   \* NameOwnerChanged signals on their way
  calls,      \* the D-Bus calls under way
  edits,      \* calls of the user so far (bound)
  asked       \* Hold calls so far (bound)

run  == <<active, duration, remaining, timerStop, timers, runs>>
apps == <<holds, nextHold, present, departed, asked>>
vars == <<run, apps, calls, edits>>

-----------------------------------------------------------------------------
\* The user's inhibition.

Edit == edits < MaxEdits /\ edits' = edits + 1 /\ UNCHANGED <<apps, calls>>

\* int(minutes * 60), multiplied as uint32.
Seconds(minutes) == (minutes * PerMinute) % Width

\* stopTimerLocked and startTimerLocked: a new goroutine takes over.
StartTimer(secs) ==
  /\ remaining' = secs
  /\ timerStop' = runs + 1
  /\ runs' = runs + 1
  /\ timers' = timers \cup {runs + 1}

\* stopTimerLocked with nothing left to count. The goroutine sees its closed
\* channel, or that it was replaced, when it runs next.
StopTimer == remaining' = 0 /\ timerStop' = 0 /\ UNCHANGED <<timers, runs>>

Enable(indefinite) ==
  /\ active' = TRUE
  /\ \/ ~indefinite /\ duration > 0 /\ StartTimer(Seconds(duration))
     \/ (indefinite \/ duration = 0) /\ StopTimer
  /\ UNCHANGED duration

Disable == active' = FALSE /\ StopTimer /\ UNCHANGED duration

SetDuration(minutes) ==
  /\ duration' = minutes
  /\ \/ ~active /\ UNCHANGED <<remaining, timerStop, timers, runs>>
     \/ active /\ minutes = 0 /\ StopTimer
     \/ active /\ minutes > 0 /\ StartTimer(Seconds(minutes))
  /\ UNCHANGED active

\* Mutant: the sum is not clamped at zero.
AdjustDurationUnclamped(delta) ==
  /\ edits < MaxEdits /\ edits' = edits + 1
  /\ calls' = calls \cup {[op |-> "set", minutes |-> duration + delta, no |-> edits]}
  /\ UNCHANGED <<run, apps>>
\* AdjustDuration reads the duration, lets go of the mutex and sets it.
AdjustDuration(delta) ==
  /\ edits < MaxEdits /\ edits' = edits + 1
  /\ LET sum == duration + delta IN
       calls' = calls \cup
         {[op |-> "set", minutes |-> IF sum > 0 THEN sum ELSE 0, no |-> edits]}
  /\ UNCHANGED <<run, apps>>

\* Mutant: a run with no time left is not disabled.
ReplacedLeft(secs) ==
  /\ remaining' = secs
  /\ UNCHANGED <<active, duration, timerStop, timers, runs>>
\* The end of AdjustRemaining and SetRemaining: zero disables the run.
Replaced(secs) ==
  /\ \/ secs = 0 /\ active' = FALSE /\ StopTimer
     \/ /\ secs # 0 /\ remaining' = secs
        /\ UNCHANGED <<active, timerStop, timers, runs>>
  /\ UNCHANGED duration

\* Inactive runs and stored durations of zero ignore the call.
AdjustRemaining(delta) ==
  /\ active /\ duration # 0
  /\ LET cap == duration * PerMinute
         sum == remaining + delta * PerMinute
     IN Replaced(CASE delta >= 0 /\ sum > cap -> cap
                   [] delta < 0 /\ sum < 0 -> 0
                   [] OTHER -> sum)

SetRemaining(minutes) ==
  /\ active /\ duration # 0
  /\ LET chosen == IF minutes < duration THEN minutes ELSE duration
     IN Replaced(chosen * PerMinute)

\* Mutant: a countdown that was replaced counts on.
TickReplaced(t) ==
  /\ t \in timers
  /\ \/ /\ ~active \/ remaining =< 0
        /\ timers' = timers \ {t}
        /\ UNCHANGED <<active, remaining, timerStop>>
     \/ /\ active /\ remaining > 1
        /\ remaining' = remaining - 1
        /\ UNCHANGED <<active, timerStop, timers>>
     \/ /\ active /\ remaining = 1
        /\ active' = FALSE /\ remaining' = 0 /\ timerStop' = 0
        /\ timers' = timers \ {t}
  /\ UNCHANGED <<duration, runs, apps, calls, edits>>
\* A second passes for countdown t.
Tick(t) ==
  /\ t \in timers
  /\ \/ /\ timerStop # t \/ ~active \/ remaining =< 0
        /\ timers' = timers \ {t}
        /\ UNCHANGED <<active, remaining, timerStop>>
     \/ /\ timerStop = t /\ active /\ remaining > 1
        /\ remaining' = remaining - 1
        /\ UNCHANGED <<active, timerStop, timers>>
     \/ /\ timerStop = t /\ active /\ remaining = 1
        /\ active' = FALSE /\ remaining' = 0 /\ timerStop' = 0
        /\ timers' = timers \ {t}
  /\ UNCHANGED <<duration, runs, apps, calls, edits>>

-----------------------------------------------------------------------------
\* The holds.

\* Client c calls Hold.
CallHold(c) ==
  /\ c \in present /\ asked < MaxHolds
  /\ asked' = asked + 1
  /\ calls' = calls \cup {[op |-> "add", owner |-> c, no |-> asked]}
  /\ UNCHANGED <<run, holds, nextHold, present, departed, edits>>

AddHold(call) ==
  LET h == [id |-> nextHold + 1, owner |-> call.owner] IN
  /\ call.op = "add"
  /\ nextHold' = nextHold + 1
  /\ holds' = holds \cup {h}
  /\ calls' = (calls \ {call}) \cup {[op |-> "check", hold |-> h]}
  /\ UNCHANGED <<run, present, departed, asked, edits>>

\* Mutant: the caller is not looked for after the hold is in the map.
CheckSkipped(call) ==
  /\ call.op = "check"
  /\ calls' = calls \ {call}
  /\ UNCHANGED <<run, apps, edits>>
\* Hold asks the bus whether the caller is still there.
CheckOwner(call) ==
  /\ call.op = "check"
  /\ holds' = IF call.hold.owner \in present THEN holds ELSE holds \ {call.hold}
  /\ calls' = calls \ {call}
  /\ UNCHANGED <<run, nextHold, present, departed, asked, edits>>

\* Mutant: anybody may release a hold.
CallReleaseAny(c) ==
  /\ c \in present
  /\ \E h \in holds :
       calls' = calls \cup {[op |-> "drop", hold |-> h, by |-> c]}
  /\ UNCHANGED <<run, apps, edits>>
\* Client c calls Release, which reads the holds to see that one is c's.
CallRelease(c) ==
  /\ c \in present
  /\ \E h \in holds :
       /\ h.owner = c
       /\ calls' = calls \cup {[op |-> "drop", hold |-> h, by |-> c]}
  /\ UNCHANGED <<run, apps, edits>>

ReleaseHold(call) ==
  /\ call.op = "drop"
  /\ holds' = {h \in holds : h.id # call.hold.id}
  /\ calls' = calls \ {call}
  /\ UNCHANGED <<run, nextHold, present, departed, asked, edits>>

SetAdjusted(call) ==
  /\ call.op = "set"
  /\ SetDuration(call.minutes)
  /\ calls' = calls \ {call}
  /\ UNCHANGED <<apps, edits>>

\* Client c leaves the bus; its name never comes back.
Depart(c) ==
  /\ c \in present
  /\ present' = present \ {c}
  /\ departed' = Append(departed, c)
  /\ UNCHANGED <<run, holds, nextHold, asked, calls, edits>>

\* releaseDeparted takes the next signal.
ReleaseDeparted ==
  /\ departed # << >>
  /\ departed' = Tail(departed)
  /\ holds' = {h \in holds : h.owner # Head(departed)}
  /\ UNCHANGED <<run, nextHold, present, asked, calls, edits>>

-----------------------------------------------------------------------------
Init ==
  /\ active = FALSE /\ duration \in Durations /\ remaining = 0
  /\ timerStop = 0 /\ timers = {} /\ runs = 0
  /\ holds = {} /\ nextHold = 0 /\ present = Clients /\ departed = << >>
  /\ calls = {} /\ edits = 0 /\ asked = 0

User ==
  \/ \E indefinite \in BOOLEAN : Edit /\ Enable(indefinite)
  \/ Edit /\ Disable
  \/ \E minutes \in Durations :
       Edit /\ (SetDuration(minutes) \/ SetRemaining(minutes))
  \/ \E delta \in Deltas : \/ Edit /\ AdjustRemaining(delta)
                           \/ AdjustDuration(delta)

CallStep ==
  \E call \in calls : \/ AddHold(call) \/ CheckOwner(call)
                      \/ ReleaseHold(call) \/ SetAdjusted(call)

Next ==
  \/ User
  \/ \E t \in 1 .. runs : Tick(t)
  \/ \E c \in Clients : CallHold(c) \/ CallRelease(c) \/ Depart(c)
  \/ CallStep
  \/ ReleaseDeparted

\* Calls and signals are handled, and a running countdown ticks.
Fairness ==
  /\ WF_vars(CallStep) /\ WF_vars(ReleaseDeparted)
  /\ WF_vars(\E t \in 1 .. runs : t = timerStop /\ Tick(t))

Spec == Init /\ [][Next]_vars /\ Fairness
-----------------------------------------------------------------------------
\* Properties.

\* Type correctness of the inhibitor and the calls under way.
TypeOK ==
  /\ active \in BOOLEAN /\ duration \in Nat /\ remaining \in Nat
  /\ timerStop \in 0 .. runs /\ timers \subseteq 1 .. runs /\ runs \in Nat
  /\ holds \subseteq Hold /\ nextHold \in Nat
  /\ present \subseteq Clients /\ departed \in Seq(Clients)
  /\ calls \subseteq PendingCall
  /\ edits \in 0 .. MaxEdits /\ asked \in 0 .. MaxHolds

\* A countdown is that of an active run, has its goroutine and time left to
\* count, and never more than the stored duration; an inactive run has none.
CountdownMatchesRun ==
  /\ timerStop # 0 =>
       active /\ timerStop \in timers /\ remaining \in 1 .. duration * PerMinute
  /\ ~active => timerStop = 0 /\ remaining = 0

\* Left alone, a run ends with its own countdown, never with one that was
\* replaced while its goroutine waited for the mutex.
RunEndsWithItsCountdown ==
  [][active /\ ~active' /\ edits' = edits => timerStop \in timers \ timers']_vars

\* Holds have distinct ids, those of calls under way included.
HoldIdsAreUnique ==
  \A g, h \in holds \cup {c.hold : c \in {d \in calls : d.op \in {"check", "drop"}}} :
    g.id = h.id => g = h

\* A hold goes only by its owner's Release or because its owner left the bus.
HoldsAreTheirOwners ==
  [][\A h \in holds \ holds' :
       \/ h.owner \notin present
       \/ [op |-> "drop", hold |-> h, by |-> h.owner] \in calls]_vars

\* An application that left the bus ends up holding nothing, whichever way
\* its last Hold and the signal of its departure cross.
DepartedHoldNothing ==
  \A c \in Clients :
    [](c \notin present => <>[](\A h \in holds : h.owner # c))

\* A countdown comes to an end: no edit leaves a run without time to count,
\* whose goroutine gives up and which nobody would disable.
CountdownEnds == timerStop # 0 ~> timerStop = 0

\* A run and its countdown belong together, from its start to its end.
RunFollowsCountdown == []CountdownMatchesRun /\ RunEndsWithItsCountdown

\* A hold has an id of its own, and an end of its owner's.
HoldsBelong == []HoldIdsAreUnique /\ HoldsAreTheirOwners
=============================================================================
