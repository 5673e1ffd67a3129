-------------------------- MODULE IdleInhibitProofs --------------------------
(***************************************************************************)
(* What holds of IdleInhibit for any clients and any number of calls.  The *)
(* ids that are in the map or in the hands of a call are all handed out    *)
(* already and distinct, so a call that drops an id drops the hold it      *)
(* looked at.  And a countdown is that of its run, as long as the durations*)
(* are numbers of seconds that the code's uint32 holds.                    *)
(***************************************************************************)
EXTENDS IdleInhibit, TLAPS

-----------------------------------------------------------------------------
\* Types of the holds; the countdown is of no concern here.

HoldTypes ==
  /\ holds \subseteq Hold /\ nextHold \in Nat /\ asked \in Nat /\ edits \in Nat
  /\ duration \in Nat
  /\ present \subseteq Clients /\ departed \in Seq(Clients)
  /\ calls \subseteq PendingCall

\* What a call carries is told by its op.
LEMMA CallFields ==
  ASSUME NEW call \in PendingCall
  PROVE  /\ call.op = "add" => call.owner \in Clients
         /\ call.op \in {"check", "drop"} => call.hold \in Hold
         /\ call.op = "set" => call.minutes \in Nat
BY DEF PendingCall

LEMMA CallIntro ==
  /\ \A c \in Clients, no \in Nat : [op |-> "add", owner |-> c, no |-> no] \in PendingCall
  /\ \A h \in Hold : /\ [op |-> "check", hold |-> h] \in PendingCall
                     /\ \A c \in Clients :
                          [op |-> "drop", hold |-> h, by |-> c] \in PendingCall
  /\ \A k \in Nat, no \in Nat : [op |-> "set", minutes |-> k, no |-> no] \in PendingCall
BY DEF PendingCall

\* The holds a call is about to check or drop.
Pending == {c.hold : c \in {d \in calls : d.op \in {"check", "drop"}}}

\* No id is ahead of the counter, and none is given twice.
Numbered ==
  /\ \A h \in holds \cup Pending : h.id =< nextHold
  /\ HoldIdsAreUnique

\* The signals on their way are about names that are gone.
Gone == \A i \in 1 .. Len(departed) : departed[i] \notin present

\* A Release under way is of the owner of its hold.
Owned == \A call \in calls : call.op = "drop" => call.by = call.hold.owner

HoldInv == HoldTypes /\ Numbered /\ Gone /\ Owned

LEMMA InitHolds == Init => HoldInv
BY DurationsAssumption DEF Init, HoldInv, HoldTypes, Numbered, HoldIdsAreUnique,
   Pending, Gone, Owned

\* Fewer holds, in the map or in the hands of calls, stay numbered.
LEMMA FewerNumbered ==
  ASSUME HoldTypes, Numbered, nextHold' = nextHold,
         (holds \cup Pending)' \subseteq holds \cup Pending
  PROVE  Numbered'
BY DEF Numbered, HoldIdsAreUnique, Pending

LEMMA UserHolds == ASSUME HoldInv, User PROVE HoldInv'
<1>1. UNCHANGED apps
  BY DEF User, Edit, AdjustDuration
<1>2. edits' \in Nat
  BY DEF User, Edit, AdjustDuration, HoldInv, HoldTypes
<1>3. duration' \in Nat
  BY DurationsAssumption DEF User, Enable, Disable, SetDuration, SetRemaining,
     AdjustRemaining, AdjustDuration, Replaced, run, HoldInv, HoldTypes
<1>4. calls' \subseteq PendingCall /\ Pending' = Pending /\ Owned'
  <2>1. CASE calls' = calls
    BY <2>1 DEF HoldInv, HoldTypes, Pending, Owned
  <2>2. ASSUME NEW delta \in Deltas, AdjustDuration(delta)
        PROVE  calls' \subseteq PendingCall /\ Pending' = Pending /\ Owned'
    <3>1. (IF duration + delta > 0 THEN duration + delta ELSE 0) \in Nat /\ edits \in Nat
      BY DurationsAssumption DEF HoldInv, HoldTypes
    <3> DEFINE set == [op |-> "set",
                       minutes |-> IF duration + delta > 0 THEN duration + delta ELSE 0,
                       no |-> edits]
    <3>2. set \in PendingCall /\ set.op = "set"
      BY <3>1, CallIntro
    <3>3. calls' = calls \cup {set}
      BY <2>2 DEF AdjustDuration
    <3> HIDE DEF set
    <3> QED
      BY <3>2, <3>3 DEF HoldInv, HoldTypes, Pending, Owned
  <2> QED
    BY <2>1, <2>2 DEF User, Edit
<1> QED
  BY <1>1, <1>2, <1>3, <1>4 DEF apps, HoldInv, HoldTypes, Numbered,
     HoldIdsAreUnique, Pending, Gone

LEMMA ClientHolds ==
  ASSUME HoldInv, NEW c \in Clients, CallHold(c) \/ CallRelease(c) \/ Depart(c)
  PROVE  HoldInv'
<1>1. CASE CallHold(c)
  <2> DEFINE add == [op |-> "add", owner |-> c, no |-> asked]
  <2>1. add \in PendingCall /\ add.op = "add"
    BY CallIntro DEF HoldInv, HoldTypes
  <2>2. calls' = calls \cup {add} /\ asked' \in Nat
    BY <1>1 DEF CallHold, HoldInv, HoldTypes
  <2> HIDE DEF add
  <2>3. Pending' = Pending /\ Owned'
    BY <2>1, <2>2 DEF Pending, HoldInv, Owned
  <2>4. UNCHANGED <<duration, holds, nextHold, present, departed, edits>>
    BY <1>1 DEF CallHold, run
  <2> QED
    BY <2>1, <2>2, <2>3, <2>4 DEF HoldInv, HoldTypes, Numbered, HoldIdsAreUnique,
       Pending, Gone
<1>2. CASE CallRelease(c)
  <2>1. PICK h \in holds :
          calls' = calls \cup {[op |-> "drop", hold |-> h, by |-> c]}
          /\ h.owner = c
    BY <1>2 DEF CallRelease
  <2>2. /\ Pending' \subseteq holds \cup Pending /\ calls' \subseteq PendingCall
        /\ Owned'
    <3> DEFINE drop == [op |-> "drop", hold |-> h, by |-> c]
    <3>1. /\ drop \in PendingCall /\ calls' = calls \cup {drop}
          /\ drop.hold = h /\ drop.by = h.owner
      BY <2>1, CallIntro DEF HoldInv, HoldTypes
    <3> HIDE DEF drop
    <3> QED
      BY <3>1 DEF Pending, HoldInv, HoldTypes, Owned
  <2>3. UNCHANGED <<duration, holds, nextHold, present, departed, edits, asked>>
    BY <1>2 DEF CallRelease, run, apps
  <2>4. Numbered'
    BY <2>2, <2>3, FewerNumbered DEF HoldInv
  <2> QED
    BY <2>2, <2>3, <2>4 DEF HoldInv, HoldTypes, Gone
<1>3. CASE Depart(c)
  <2>1. UNCHANGED <<duration, holds, nextHold, edits, asked, calls>>
    BY <1>3 DEF Depart, run
  <2>2. present' = present \ {c} /\ departed' = Append(departed, c)
    BY <1>3 DEF Depart
  <2>3. departed' \in Seq(Clients) /\ Gone'
    BY <2>2 DEF HoldInv, HoldTypes, Gone
  <2> QED
    BY <2>1, <2>2, <2>3 DEF HoldInv, HoldTypes, Numbered, HoldIdsAreUnique, Pending,
       Owned
<1> QED
  BY <1>1, <1>2, <1>3

LEMMA CallStepHolds ==
  ASSUME HoldInv, NEW call \in calls,
         AddHold(call) \/ CheckOwner(call) \/ ReleaseHold(call) \/ SetAdjusted(call)
  PROVE  HoldInv'
<1>0. call \in PendingCall
  BY DEF HoldInv, HoldTypes
<1>1. CASE AddHold(call)
  <2> DEFINE h == [id |-> nextHold + 1, owner |-> call.owner]
             check == [op |-> "check", hold |-> h]
  <2>1. h \in Hold /\ h.id = nextHold + 1 /\ nextHold \in Nat
    BY <1>0, <1>1, CallFields DEF AddHold, Hold, HoldInv, HoldTypes
  <2>2. /\ holds' = holds \cup {h} /\ nextHold' = nextHold + 1
        /\ calls' = (calls \ {call}) \cup {check}
        /\ UNCHANGED <<duration, present, departed, asked, edits>>
    BY <1>1 DEF AddHold, run
  <2> HIDE DEF h
  <2>3. Pending' \subseteq Pending \cup {h} /\ calls' \subseteq PendingCall /\ Owned'
    <3>1. check \in PendingCall /\ check.hold = h /\ check.op = "check"
      BY <2>1, CallIntro
    <3> HIDE DEF check
    <3> QED
      BY <2>2, <3>1 DEF Pending, HoldInv, HoldTypes, Owned
  <2>4. \A g \in holds \cup Pending : g \in Hold /\ g.id =< nextHold
    BY CallFields DEF Pending, HoldInv, HoldTypes, Numbered
  <2>5. \A g \in holds \cup Pending : g.id \in Nat /\ g.id # h.id
    BY <2>1, <2>4 DEF Hold
  <2>6. Numbered'
    <3>1. (holds \cup Pending)' \subseteq (holds \cup Pending) \cup {h}
      BY <2>2, <2>3
    <3>2. \A g \in (holds \cup Pending) \cup {h} : g.id =< nextHold'
      BY <2>1, <2>2, <2>4, <2>5
    <3>3. \A f, g \in (holds \cup Pending) \cup {h} : f.id = g.id => f = g
      BY <2>5 DEF HoldInv, Numbered, HoldIdsAreUnique, Pending
    <3> QED
      BY <3>1, <3>2, <3>3 DEF Numbered, HoldIdsAreUnique, Pending
  <2> QED
    BY <2>1, <2>2, <2>3, <2>6 DEF HoldInv, HoldTypes, Gone
<1>2. CASE CheckOwner(call) \/ ReleaseHold(call)
  <2>1. /\ holds' \subseteq holds /\ calls' \subseteq calls
        /\ UNCHANGED <<duration, nextHold, present, departed, asked, edits>>
    BY <1>2 DEF CheckOwner, ReleaseHold, run
  <2>2. Numbered'
    BY <2>1, FewerNumbered DEF HoldInv, Pending
  <2> QED
    BY <2>1, <2>2 DEF HoldInv, HoldTypes, Gone, Owned
<1>3. CASE SetAdjusted(call)
  <2>1. /\ duration' \in Nat /\ calls' \subseteq calls
        /\ UNCHANGED <<holds, nextHold, present, departed, asked, edits>>
    BY <1>0, <1>3, CallFields DEF SetAdjusted, SetDuration, apps
  <2>2. Numbered'
    BY <2>1, FewerNumbered DEF HoldInv, Pending
  <2> QED
    BY <2>1, <2>2 DEF HoldInv, HoldTypes, Gone, Owned
<1> QED
  BY <1>1, <1>2, <1>3

LEMMA NextHolds == HoldInv /\ [Next]_vars => HoldInv'
<1> SUFFICES ASSUME HoldInv, [Next]_vars PROVE HoldInv'
  OBVIOUS
<1>1. CASE ReleaseDeparted
  <2>1. /\ holds' \subseteq holds /\ departed # << >> /\ departed' = Tail(departed)
        /\ UNCHANGED <<duration, nextHold, present, calls, asked, edits>>
    BY <1>1 DEF ReleaseDeparted, run
  <2>2. Numbered'
    BY <2>1, FewerNumbered DEF HoldInv, Pending
  <2>3. departed' \in Seq(Clients) /\ Gone'
    BY <2>1 DEF HoldInv, HoldTypes, Gone
  <2> QED
    BY <2>1, <2>2, <2>3 DEF HoldInv, HoldTypes, Owned
<1>2. CASE (\E t \in 1 .. runs : Tick(t)) \/ UNCHANGED vars
  BY <1>2 DEF Tick, vars, run, apps, HoldInv, HoldTypes, Numbered,
     HoldIdsAreUnique, Pending, Gone, Owned
<1> QED
  BY <1>1, <1>2, UserHolds, ClientHolds, CallStepHolds DEF Next, CallStep

LEMMA AlwaysHolds == Spec => []HoldInv
BY InitHolds, NextHolds, PTL DEF Spec

\* No two holds share an id, those that a call still has in its hands and
\* that are long gone from the map included.
THEOREM IdsAreUnique == Spec => []HoldIdsAreUnique
<1>1. HoldInv => HoldIdsAreUnique
  BY DEF HoldInv, Numbered
<1> QED
  BY <1>1, AlwaysHolds, PTL

\* Only the owner of a hold ends it, or its departure from the bus.
THEOREM HoldsEndByTheirOwners == Spec => HoldsAreTheirOwners
<1> DEFINE Ended(h) == \/ h.owner \notin present
                       \/ [op |-> "drop", hold |-> h, by |-> h.owner] \in calls
<1>1. ASSUME HoldInv, [Next]_vars, NEW h \in holds \ holds' PROVE Ended(h)
  <2>1. CASE \E call \in calls : CheckOwner(call)
    BY <1>1, <2>1 DEF CheckOwner
  <2>2. ASSUME NEW call \in calls, ReleaseHold(call) PROVE Ended(h)
    <3>1. call.op = "drop" /\ h.id = call.hold.id
      BY <1>1, <2>2 DEF ReleaseHold
    <3>2. call.hold \in Pending
      BY <3>1 DEF Pending
    <3>3. h = call.hold
      BY <1>1, <3>1, <3>2 DEF HoldInv, Numbered, HoldIdsAreUnique, Pending
    <3>4. call = [op |-> "drop", hold |-> h, by |-> h.owner]
      BY <1>1, <3>1, <3>3 DEF HoldInv, HoldTypes, PendingCall, Owned
    <3> QED
      BY <3>4
  <2>3. CASE ReleaseDeparted
    <3>1. departed \in Seq(Clients) /\ departed # << >>
      BY <1>1, <2>3 DEF ReleaseDeparted, HoldInv, HoldTypes
    <3>2. 1 \in 1 .. Len(departed) /\ Head(departed) = departed[1]
      BY <3>1
    <3> QED
      BY <1>1, <2>3, <3>2 DEF ReleaseDeparted, HoldInv, Gone
  <2>4. CASE \E call \in calls : AddHold(call) \/ SetAdjusted(call)
    BY <1>1, <2>4 DEF AddHold, SetAdjusted, apps
  <2>5. CASE User \/ (\E t \in 1 .. runs : Tick(t)) \/ UNCHANGED vars
    BY <1>1, <2>5 DEF User, Edit, AdjustDuration, Tick, vars, apps
  <2>6. CASE \E c \in Clients : CallHold(c) \/ CallRelease(c) \/ Depart(c)
    BY <1>1, <2>6 DEF CallHold, CallRelease, Depart, apps
  <2> QED
    BY <1>1, <2>1, <2>2, <2>3, <2>4, <2>5, <2>6 DEF Next, CallStep
<1>2. HoldInv /\ [Next]_vars => [\A h \in holds \ holds' : Ended(h)]_vars
  BY <1>1
<1> QED
  BY <1>2, AlwaysHolds, PTL DEF Spec, HoldsAreTheirOwners

\* A hold has an id of its own, and an end of its owner's.
THEOREM HoldsStayWithTheirOwners == Spec => HoldsBelong
<1>1. Spec => []HoldIdsAreUnique
  BY IdsAreUnique
<1>2. Spec => HoldsAreTheirOwners
  BY HoldsEndByTheirOwners
<1> QED
  BY <1>1, <1>2 DEF HoldsBelong

-----------------------------------------------------------------------------
\* The user's run and its countdown.

\* Types of the run: every countdown that was started has its number.
RunTypes ==
  /\ active \in BOOLEAN /\ remaining \in Nat
  /\ timerStop \in 0 .. runs /\ timers \subseteq 1 .. runs /\ runs \in Nat
  /\ edits \in 0 .. MaxEdits /\ asked \in 0 .. MaxHolds

\* Minutes become seconds without a change of sign or order.
LEMMA Minutes ==
  ASSUME NEW m \in Nat, NEW n \in Nat, m =< n
  PROVE  /\ m * PerMinute \in Nat /\ m * PerMinute =< n * PerMinute
         /\ m > 0 => m * PerMinute > 0
BY NumbersAssumption

LEMMA Difference ==
  ASSUME NEW d \in Int
  PROVE  /\ d * PerMinute \in Int
         /\ d >= 0 => d * PerMinute >= 0
         /\ d < 0 => d * PerMinute < 0
BY NumbersAssumption

LEMMA SecondsType == ASSUME NEW m \in Nat PROVE Seconds(m) \in Nat
<1>1. m * PerMinute \in Nat /\ Width \in Nat \ {0}
  BY Minutes, NumbersAssumption
<1> DEFINE s == m * PerMinute
<1>2. s \in Nat /\ s % Width \in 0 .. Width - 1
  BY <1>1
<1> QED
  BY <1>1, <1>2 DEF Seconds

\* What AdjustRemaining makes of the seconds that are left.
LEMMA Adjusted ==
  ASSUME HoldTypes, RunTypes, NEW d \in Deltas, AdjustRemaining(d)
  PROVE  \E secs \in Nat :
           /\ Replaced(secs)
           /\ remaining =< duration * PerMinute => secs =< duration * PerMinute
<1> DEFINE cap == duration * PerMinute
           diff == d * PerMinute
           sum == remaining + diff
           secs == CASE d >= 0 /\ sum > cap -> cap
                     [] d < 0 /\ sum < 0 -> 0
                     [] OTHER -> sum
<1>1. /\ d \in Int /\ cap \in Nat /\ diff \in Int /\ remaining \in Nat
      /\ d >= 0 => diff >= 0
      /\ d < 0 => diff < 0
  <2>1. d \in Int /\ duration \in Nat /\ duration =< duration /\ remaining \in Nat
    BY DurationsAssumption DEF HoldTypes, RunTypes
  <2>2. cap \in Nat
    BY <2>1, Minutes
  <2> QED
    BY <2>1, <2>2, Difference
<1>2. Replaced(secs)
  BY DEF AdjustRemaining
<1> HIDE DEF cap, diff
<1>3. secs \in Nat /\ (remaining =< cap => secs =< cap)
  BY <1>1
<1> QED
  BY <1>2, <1>3 DEF cap

\* And what SetRemaining does.
LEMMA Chosen ==
  ASSUME HoldTypes, NEW m \in Durations, SetRemaining(m)
  PROVE  \E secs \in Nat : Replaced(secs) /\ secs =< duration * PerMinute
<1> DEFINE chosen == IF m < duration THEN m ELSE duration
<1>1. m \in Nat /\ duration \in Nat /\ chosen \in Nat /\ chosen =< duration
  BY DurationsAssumption DEF HoldTypes
<1>2. Replaced(chosen * PerMinute)
  BY DEF SetRemaining
<1> HIDE DEF chosen
<1>3. chosen * PerMinute \in Nat /\ chosen * PerMinute =< duration * PerMinute
  BY <1>1, Minutes
<1> QED
  BY <1>2, <1>3

LEMMA StartTyped ==
  ASSUME RunTypes, NEW secs \in Nat, StartTimer(secs) \/ StopTimer
  PROVE  /\ remaining' \in Nat /\ runs' \in Nat
         /\ timerStop' \in 0 .. runs' /\ timers' \subseteq 1 .. runs'
<1>1. runs \in Nat /\ timerStop \in 0 .. runs /\ timers \subseteq 1 .. runs
  BY DEF RunTypes
<1>2. CASE StartTimer(secs)
  BY <1>1, <1>2 DEF StartTimer
<1>3. CASE StopTimer
  BY <1>1, <1>3 DEF StopTimer
<1> QED
  BY <1>2, <1>3

\* A new duration leaves a typed run.
LEMMA SetTyped ==
  ASSUME HoldTypes, RunTypes, NEW m \in Nat, SetDuration(m)
  PROVE  /\ active' \in BOOLEAN /\ remaining' \in Nat /\ runs' \in Nat
         /\ timerStop' \in 0 .. runs' /\ timers' \subseteq 1 .. runs'
<1>1. Seconds(m) \in Nat
  BY SecondsType
<1>2. active' \in BOOLEAN
  BY DEF SetDuration, RunTypes
<1>3. CASE StartTimer(Seconds(m)) \/ StopTimer
  BY <1>1, <1>2, <1>3, StartTyped
<1>4. CASE UNCHANGED <<remaining, timerStop, timers, runs>>
  BY <1>2, <1>4 DEF RunTypes
<1> QED
  BY <1>3, <1>4 DEF SetDuration

LEMMA ReplacedTyped ==
  ASSUME RunTypes, NEW secs \in Nat, Replaced(secs)
  PROVE  /\ active' \in BOOLEAN /\ remaining' \in Nat /\ runs' \in Nat
         /\ timerStop' \in 0 .. runs' /\ timers' \subseteq 1 .. runs'
<1>1. active' \in BOOLEAN
  BY DEF RunTypes, Replaced
<1>2. remaining' \in Nat
  BY DEF RunTypes, Replaced, StopTimer
<1>3. runs' = runs /\ timers' = timers
  BY DEF Replaced, StopTimer
<1>4. timerStop' \in {0, timerStop}
  BY DEF Replaced, StopTimer
<1> QED
  BY <1>1, <1>2, <1>3, <1>4 DEF RunTypes

LEMMA RunKept ==
  ASSUME RunTypes, UNCHANGED run
  PROVE  /\ active' \in BOOLEAN /\ remaining' \in Nat /\ runs' \in Nat
         /\ timerStop' \in 0 .. runs' /\ timers' \subseteq 1 .. runs'
BY DEF RunTypes, run

LEMMA UserTyped == ASSUME HoldTypes, RunTypes, User PROVE RunTypes'
<1>1. edits' \in 0 .. MaxEdits /\ asked' = asked
  BY NumbersAssumption DEF User, Edit, AdjustDuration, RunTypes, apps
<1> DEFINE Typed == /\ active' \in BOOLEAN /\ remaining' \in Nat /\ runs' \in Nat
                    /\ timerStop' \in 0 .. runs' /\ timers' \subseteq 1 .. runs'
<1>2. ASSUME NEW i \in BOOLEAN, Enable(i) PROVE Typed
  <2>1. Seconds(duration) \in Nat
    BY SecondsType DEF HoldTypes
  <2>2. StartTimer(Seconds(duration)) \/ StopTimer
    BY <1>2 DEF Enable
  <2>3. active' \in BOOLEAN
    BY <1>2 DEF Enable
  <2> QED
    BY <2>1, <2>2, <2>3, StartTyped
<1>3. ASSUME Disable PROVE Typed
  <2>1. active' \in BOOLEAN
    BY <1>3 DEF Disable
  <2>2. StopTimer
    BY <1>3 DEF Disable
  <2> QED
    BY <2>1, <2>2 DEF StopTimer, RunTypes
<1>4. ASSUME NEW m \in Durations, SetDuration(m) PROVE Typed
  BY <1>4, SetTyped, DurationsAssumption
<1>5. ASSUME NEW m \in Durations, SetRemaining(m) PROVE Typed
  BY <1>5, Chosen, ReplacedTyped
<1>6. ASSUME NEW d \in Deltas, AdjustRemaining(d) PROVE Typed
  BY <1>6, Adjusted, ReplacedTyped
<1>7. ASSUME NEW d \in Deltas, AdjustDuration(d) PROVE Typed
  BY <1>7, RunKept DEF AdjustDuration
<1> HIDE DEF Typed
<1>8. Typed
  BY <1>2, <1>3, <1>4, <1>5, <1>6, <1>7 DEF User
<1> QED
  BY <1>1, <1>8 DEF RunTypes, Typed

LEMMA NextTyped == ASSUME HoldInv, RunTypes, [Next]_vars PROVE RunTypes'
<1> HoldTypes
  BY DEF HoldInv
<1>1. CASE User
  BY <1>1, UserTyped
<1>2. ASSUME NEW t \in 1 .. runs, Tick(t) PROVE RunTypes'
  <2>1. /\ UNCHANGED <<runs, edits, asked>> /\ timers' \subseteq timers
        /\ active' \in BOOLEAN /\ timerStop' \in {0, timerStop}
    BY <1>2 DEF Tick, apps, RunTypes
  <2>2. remaining' \in Nat
    BY <1>2 DEF Tick, RunTypes
  <2> QED
    BY <2>1, <2>2 DEF RunTypes
<1>3. ASSUME NEW c \in Clients, CallHold(c) \/ CallRelease(c) \/ Depart(c)
      PROVE  RunTypes'
  <2>1. UNCHANGED <<run, edits>>
    BY <1>3 DEF CallHold, CallRelease, Depart
  <2>2. asked' \in 0 .. MaxHolds
    BY <1>3, NumbersAssumption DEF CallHold, CallRelease, Depart, apps, RunTypes
  <2> QED
    BY <2>1, <2>2, RunKept DEF RunTypes
<1>4. ASSUME NEW call \in calls, SetAdjusted(call) PROVE RunTypes'
  <2>1. call.minutes \in Nat /\ SetDuration(call.minutes)
    BY <1>4, CallFields DEF SetAdjusted, HoldTypes
  <2>2. UNCHANGED <<edits, asked>>
    BY <1>4 DEF SetAdjusted, apps
  <2> QED
    BY <2>1, <2>2, SetTyped DEF RunTypes
<1>5. ASSUME NEW call \in calls, AddHold(call) \/ CheckOwner(call) \/ ReleaseHold(call)
      PROVE  RunTypes'
  BY <1>5 DEF AddHold, CheckOwner, ReleaseHold, run, RunTypes
<1>6. CASE ReleaseDeparted \/ UNCHANGED vars
  BY <1>6 DEF ReleaseDeparted, vars, run, apps, RunTypes
<1> QED
  BY <1>1, <1>2, <1>3, <1>4, <1>5, <1>6 DEF Next, CallStep

\* The inhibitor, its holds and the calls under way keep their types: no edit
\* takes the seconds below zero, whatever it crosses.
THEOREM TypeCorrect == Spec => []TypeOK
<1>1. ASSUME Init PROVE RunTypes
  <2>1. active \in BOOLEAN
    BY <1>1 DEF Init
  <2> QED
    BY <1>1, <2>1, NumbersAssumption DEF Init, RunTypes
<1>2. HoldInv /\ RunTypes /\ [Next]_vars => RunTypes'
  BY NextTyped
<1>3. HoldInv /\ RunTypes => TypeOK
  BY DEF HoldInv, HoldTypes, RunTypes, TypeOK
<1> QED
  BY <1>1, <1>2, <1>3, AlwaysHolds, PTL DEF Spec

\* The stored duration is a number of seconds that uint32 holds.
NoWrap == duration * PerMinute < Width

\* Then a countdown starts from as many seconds as the duration has.
LEMMA WholeSeconds ==
  ASSUME NEW m \in Nat, m > 0, m * PerMinute < Width
  PROVE  Seconds(m) = m * PerMinute /\ Seconds(m) \in 1 .. m * PerMinute
<1> DEFINE s == m * PerMinute
<1>1. s \in Nat \ {0} /\ Width \in Nat \ {0} /\ s < Width
  BY Minutes, NumbersAssumption
<1> HIDE DEF s
<1>2. s % Width = s
  BY <1>1
<1> QED
  BY <1>1, <1>2 DEF Seconds, s

LEMMA StartCounts ==
  ASSUME RunTypes, HoldTypes', active', duration' > 0, NoWrap',
         StartTimer(Seconds(duration'))
  PROVE  CountdownMatchesRun'
<1>1. Seconds(duration') \in 1 .. duration' * PerMinute
  BY WholeSeconds DEF NoWrap, HoldTypes
<1>2. remaining' = Seconds(duration') /\ timerStop' \in timers'
  BY DEF StartTimer
<1> QED
  BY <1>1, <1>2 DEF CountdownMatchesRun

LEMMA StopCounts == ASSUME StopTimer PROVE CountdownMatchesRun'
BY DEF StopTimer, CountdownMatchesRun

LEMMA ReplacedCounts ==
  ASSUME CountdownMatchesRun, active, NEW secs \in Nat, Replaced(secs),
         timerStop # 0 => secs =< duration * PerMinute, HoldTypes
  PROVE  CountdownMatchesRun'
<1>1. CASE StopTimer
  BY <1>1, StopCounts
<1>2. CASE secs # 0 /\ remaining' = secs /\ UNCHANGED <<active, timerStop, timers, runs>>
  <2>1. duration' * PerMinute = duration * PerMinute /\ duration * PerMinute \in Nat
    BY NumbersAssumption DEF Replaced, HoldTypes
  <2> QED
    BY <1>2, <2>1 DEF CountdownMatchesRun
<1> QED
  BY <1>1, <1>2 DEF Replaced

LEMMA SetCounts ==
  ASSUME RunTypes, HoldTypes', CountdownMatchesRun, NoWrap',
         NEW m \in Nat, SetDuration(m)
  PROVE  CountdownMatchesRun'
<1>1. CASE ~active
  BY <1>1 DEF SetDuration, CountdownMatchesRun
<1>2. CASE StopTimer
  BY <1>2, StopCounts
<1>3. CASE active /\ m > 0 /\ StartTimer(Seconds(m))
  BY <1>3, StartCounts DEF SetDuration
<1> QED
  BY <1>1, <1>2, <1>3 DEF SetDuration

LEMMA UserCounts ==
  ASSUME HoldTypes, HoldTypes', RunTypes, CountdownMatchesRun, NoWrap', User
  PROVE  CountdownMatchesRun'
<1>1. ASSUME NEW i \in BOOLEAN, Enable(i) PROVE CountdownMatchesRun'
  BY <1>1, StartCounts, StopCounts DEF Enable
<1>2. CASE Disable
  BY <1>2, StopCounts DEF Disable
<1>3. ASSUME NEW m \in Durations, SetDuration(m) PROVE CountdownMatchesRun'
  BY <1>3, SetCounts, DurationsAssumption
<1>4. ASSUME NEW m \in Durations, SetRemaining(m) PROVE CountdownMatchesRun'
  <2>1. active
    BY <1>4 DEF SetRemaining
  <2> QED
    BY <1>4, <2>1, Chosen, ReplacedCounts
<1>5. ASSUME NEW d \in Deltas, AdjustRemaining(d) PROVE CountdownMatchesRun'
  <2>1. active
    BY <1>5 DEF AdjustRemaining
  <2>2. timerStop # 0 => remaining =< duration * PerMinute
    BY NumbersAssumption DEF CountdownMatchesRun, HoldTypes, RunTypes
  <2> QED
    BY <1>5, <2>1, <2>2, Adjusted, ReplacedCounts
<1>6. ASSUME NEW d \in Deltas, AdjustDuration(d) PROVE CountdownMatchesRun'
  BY <1>6 DEF AdjustDuration, run, CountdownMatchesRun
<1> QED
  BY <1>1, <1>2, <1>3, <1>4, <1>5, <1>6 DEF User

LEMMA TickCounts ==
  ASSUME HoldTypes, RunTypes, CountdownMatchesRun, NEW t \in 1 .. runs, Tick(t)
  PROVE  CountdownMatchesRun'
<1> DEFINE top == duration * PerMinute
<1>1. top \in Nat /\ top' = top
  BY NumbersAssumption DEF HoldTypes, Tick
<1> HIDE DEF top
<1>2. /\ timerStop # 0 => active /\ timerStop \in timers /\ remaining \in 1 .. top
      /\ ~active => timerStop = 0 /\ remaining = 0
  BY DEF CountdownMatchesRun, top
<1>3. /\ timerStop' # 0 => active' /\ timerStop' \in timers' /\ remaining' \in 1 .. top'
      /\ ~active' => timerStop' = 0 /\ remaining' = 0
  <2>1. CASE timerStop # t /\ UNCHANGED <<active, remaining, timerStop>>
             /\ timers' = timers \ {t}
    BY <1>1, <1>2, <2>1
  <2>2. CASE timerStop = t /\ (~active \/ remaining =< 0)
    BY <1>1, <1>2, <2>2
  <2>3. CASE active /\ remaining > 1 /\ remaining' = remaining - 1
             /\ UNCHANGED <<active, timerStop, timers>>
    BY <1>1, <1>2, <2>3 DEF RunTypes
  <2>4. CASE active' = FALSE /\ remaining' = 0 /\ timerStop' = 0
    BY <2>4
  <2> QED
    BY <2>1, <2>2, <2>3, <2>4 DEF Tick
<1> QED
  BY <1>3 DEF CountdownMatchesRun, top

LEMMA NextCounts ==
  ASSUME HoldTypes, HoldTypes', RunTypes, CountdownMatchesRun, NoWrap', [Next]_vars
  PROVE  CountdownMatchesRun'
<1>1. ASSUME NEW call \in calls, SetAdjusted(call) PROVE CountdownMatchesRun'
  <2>1. call.minutes \in Nat /\ SetDuration(call.minutes)
    BY <1>1, CallFields DEF SetAdjusted, HoldTypes
  <2> QED
    BY <2>1, SetCounts
<1>2. CASE UNCHANGED run
  BY <1>2 DEF run, CountdownMatchesRun
<1>3. CASE \/ \E call \in calls : AddHold(call) \/ CheckOwner(call) \/ ReleaseHold(call)
           \/ \E c \in Clients : CallHold(c) \/ CallRelease(c) \/ Depart(c)
           \/ ReleaseDeparted \/ UNCHANGED vars
  BY <1>2, <1>3 DEF AddHold, CheckOwner, ReleaseHold, CallHold, CallRelease, Depart,
     ReleaseDeparted, vars
<1> QED
  BY <1>1, <1>3, UserCounts, TickCounts DEF Next, CallStep

\* As long as the durations fit, whatever edits cross whatever ticks, a
\* countdown is that of an active run and has its goroutine, and the run ends
\* with that countdown and no other.
THEOREM CountdownIsOfItsRun ==
  Spec /\ []NoWrap => RunFollowsCountdown
<1>1. ASSUME Init PROVE RunTypes /\ CountdownMatchesRun
  <2>1. active \in BOOLEAN
    BY <1>1 DEF Init
  <2> QED
    BY <1>1, <2>1, NumbersAssumption DEF Init, RunTypes, CountdownMatchesRun
<1>2. HoldInv /\ RunTypes /\ [Next]_vars => RunTypes'
  BY NextTyped
<1>3. /\ HoldInv /\ HoldInv' /\ RunTypes /\ CountdownMatchesRun /\ NoWrap' /\ [Next]_vars
      => CountdownMatchesRun'
  BY NextCounts DEF HoldInv
<1>4. RunTypes /\ [Next]_vars =>
        [active /\ ~active' /\ edits' = edits => timerStop \in timers \ timers']_vars
  <2> SUFFICES ASSUME RunTypes, Next, active, ~active', edits' = edits
               PROVE  timerStop \in timers \ timers'
    OBVIOUS
  <2>1. ~User
    BY DEF User, Edit, AdjustDuration, RunTypes
  <2>2. ASSUME NEW call \in calls,
               AddHold(call) \/ CheckOwner(call) \/ ReleaseHold(call) \/ SetAdjusted(call)
        PROVE  FALSE
    BY <2>2 DEF AddHold, CheckOwner, ReleaseHold, SetAdjusted, SetDuration, run
  <2>3. ~ReleaseDeparted /\ ~(\E c \in Clients : CallHold(c) \/ CallRelease(c) \/ Depart(c))
    BY DEF ReleaseDeparted, CallHold, CallRelease, Depart, run
  <2>4. PICK t \in 1 .. runs : Tick(t)
    BY <2>1, <2>2, <2>3 DEF Next, CallStep
  <2> QED
    BY <2>4 DEF Tick
<1> QED
  BY <1>1, <1>2, <1>3, <1>4, AlwaysHolds, PTL
  DEF Spec, RunEndsWithItsCountdown, RunFollowsCountdown
=============================================================================
