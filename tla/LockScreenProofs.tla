-------------------------- MODULE LockScreenProofs --------------------------
(***************************************************************************)
(* What holds of LockScreen for every configuration and every bound.       *)
(*                                                                         *)
(* After the types, the argument is one of generations.  Whatever a        *)
(* conversation or a timer sends to the loop carries the generation it was *)
(* started under, and every step but the death of the shell Advances: a    *)
(* generation grows, or what it stands for (the lock a conversation runs   *)
(* for, a locked screen to blank) is still the same.  So an event that was *)
(* Sound when it was sent is Sound when the loop takes it.                 *)
(*                                                                         *)
(* On that rest two more: an event of the present generation finds its     *)
(* conversation (Spoken), so what a lock has tried is what failed and what *)
(* is under way (Tallied); and one prompt at most is asked, waits or is    *)
(* answered, while its worker waits (Conversing).                          *)
(*                                                                         *)
(* Last, the promise of a session lock (SessionLock): a conversation       *)
(* reports its outcome last, and whoever speaks for the present lock is    *)
(* its present conversation (Punctual), so that a success the loop drops   *)
(* was for an earlier lock or came after the session was open.             *)
(***************************************************************************)
EXTENDS LockScreen, TLAPS

-----------------------------------------------------------------------------
\* Types.

LEMMA ResetAuthType == ASSUME NEW s \in Screen PROVE ResetAuth(s) \in Screen
<1>1. s.authGen + 1 \in Nat
  BY DEF Screen
<1>2. \A k \in Nat : [s EXCEPT !.auth = 0, !.authGen = k, !.awaiting = FALSE,
                               !.pending = FALSE] \in Screen
  BY DEF Screen
<1> QED
  BY <1>1, <1>2 DEF ResetAuth

LEMMA StopTimersType == ASSUME NEW s \in Screen PROVE StopTimers(s) \in Screen
<1>1. s.blankGen + 1 \in Nat
  BY DEF Screen
<1>2. \A k \in Nat : [s EXCEPT !.clock = FALSE, !.timer = 0, !.blankGen = k,
                               !.blanked = FALSE] \in Screen
  BY DEF Screen
<1> QED
  BY <1>1, <1>2 DEF StopTimers

LEMMA ArmBlankType == ASSUME NEW s \in Screen PROVE ArmBlank(s) \in Screen
<1>1. \A k \in Nat, t \in Nat : [s EXCEPT !.blankGen = k, !.timer = t] \in Screen
  BY DEF Screen
<1>2. s.blankGen + 1 \in Nat /\ (IF cfg.blank THEN s.blankGen + 1 ELSE 0) \in Nat
  BY DEF Screen
<1> QED
  BY <1>1, <1>2 DEF ArmBlank

LEMMA ScreenTypes ==
  ASSUME NEW s \in Screen
  PROVE  Ended(s) \in Screen /\ Opened(s) \in Screen
<1>1. Ended(s) \in Screen
  BY ResetAuthType, StopTimersType DEF Ended, Screen
<1>2. Opened(s) \in Screen
  BY ResetAuthType DEF Opened, Screen
<1> QED
  BY <1>1, <1>2

LEMMA WorkerTypes ==
  ASSUME NEW ws \in SUBSET Worker, NEW gen
  PROVE  Cancel(ws, gen) \subseteq Worker /\ Answer(ws, gen) \subseteq Worker
BY DEF Cancel, Answer, Worker

LEMMA TellType ==
  ASSUME TypeOK, NEW locked \in BOOLEAN, Tell(locked)
  PROVE  telling' \in [BOOLEAN -> Nat]
BY DEF TypeOK, Tell

\* What an event carries is told by its kind.
LEMMA EventFields ==
  ASSUME NEW e \in Event
  PROVE  /\ e.kind \in {"lock", "unlock", "blank", "auth"}
         /\ e.kind = "auth" => e.gen \in Nat /\ e.lock \in Nat /\ e.outcome \in Outcomes
         /\ e.kind = "blank" => e.gen \in Nat
BY DEF Event

LEMMA EventIntro ==
  /\ \A kind \in {"lock", "unlock"} : [kind |-> kind] \in Event
  /\ \A gen \in Nat : [kind |-> "blank", gen |-> gen] \in Event
  /\ \A outcome \in Outcomes, gen \in Nat, lock \in Nat :
       [kind |-> "auth", outcome |-> outcome, gen |-> gen, lock |-> lock] \in Event
BY DEF Event

LEMMA ReleaseTypes ==
  ASSUME TypeOK, Release
  PROVE  /\ scr' \in Screen /\ locker' \in {"none", "pending", "held"}
         /\ comp' \in {"open", "ours", "orphan"} /\ workers' \subseteq Worker
         /\ telling' \in [BOOLEAN -> Nat]
BY ScreenTypes, WorkerTypes, TellType DEF Release, TypeOK

LEMMA LoopTypes == ASSUME TypeOK, LoopStep PROVE TypeOK'
<1> DEFINE e == Head(queue)
<1>1. e \in Event /\ Tail(queue) \in Seq(Event)
  BY DEF LoopStep, TypeOK
<1>2. CASE e.kind = "lock" /\ Lock
  <2>1. Opened(scr) \in Screen
    BY ScreenTypes DEF TypeOK
  <2>2. [Opened(scr) EXCEPT !.clock = TRUE] \in Screen
    BY <2>1 DEF Screen
  <2>3. ArmBlank([Opened(scr) EXCEPT !.clock = TRUE]) \in Screen
    BY <2>2, ArmBlankType
  <2>4. scr' \in Screen /\ workers' \subseteq Worker
        /\ locker' \in {"none", "pending", "held"} /\ comp' = comp /\ telling' = telling
    BY <1>2, <2>1, <2>3, WorkerTypes DEF Lock, TypeOK, screen
  <2>5. lockNo' \in Nat /\ tries' \in [all : Nat, here : Nat]
    BY <1>2 DEF Lock, TypeOK
  <2> QED
    BY <1>1, <2>4, <2>5 DEF LoopStep, TypeOK
<1>3. CASE e.kind = "unlock" /\ Release /\ UNCHANGED <<lockNo, tries>>
  BY <1>1, <1>3, ReleaseTypes DEF LoopStep, TypeOK
<1>4. CASE e.kind = "auth" /\ OnAuthEvent(e) /\ UNCHANGED <<lockNo, tries>>
  <2>1. CASE UNCHANGED <<screen, workers, comp, telling>>
    BY <1>1, <1>4, <2>1 DEF LoopStep, TypeOK, screen
  <2>2. CASE OnPrompt
    <3>1. scr' \in Screen
      BY <2>2 DEF OnPrompt, Screen, TypeOK
    <3> QED
      BY <1>1, <1>4, <2>2, <3>1, WorkerTypes DEF OnPrompt, LoopStep, TypeOK
  <2>3. CASE Release
    BY <1>1, <1>4, <2>3, ReleaseTypes DEF LoopStep, TypeOK
  <2>4. CASE OnFailure
    <3>1. ResetAuth(scr) \in Screen
      BY ResetAuthType DEF TypeOK
    <3> DEFINE failed == [ResetAuth(scr) EXCEPT !.attempts = @ + 1]
    <3>2. failed \in Screen
      BY <3>1 DEF Screen
    <3>3. Exhausted(failed) \in BOOLEAN
      BY DEF Exhausted
    <3>4. scr' \in Screen
      BY <2>4, <3>2, <3>3 DEF OnFailure, Screen
    <3> QED
      BY <1>1, <1>4, <2>4, <3>4, WorkerTypes DEF OnFailure, LoopStep, TypeOK
  <2> QED
    BY <1>4, <2>1, <2>2, <2>3, <2>4 DEF OnAuthEvent, OnInfo
<1>5. CASE e.kind = "blank" /\ OnBlank(e) /\ UNCHANGED <<lockNo, tries>>
  <2>1. scr' \in Screen
    BY <1>5 DEF OnBlank, Screen, TypeOK
  <2> QED
    BY <1>1, <1>5, <2>1 DEF OnBlank, LoopStep, TypeOK
<1> QED
  BY <1>2, <1>3, <1>4, <1>5 DEF LoopStep

LEMMA EnterTypes == ASSUME TypeOK, Enter PROVE TypeOK'
<1>1. CASE TookAnswer
  <2>1. scr' \in Screen
    BY <1>1 DEF TookAnswer, Screen, TypeOK
  <2> QED
    BY <1>1, <2>1, WorkerTypes DEF TookAnswer, Enter, TypeOK
<1>2. CASE Release /\ UNCHANGED tries
  BY <1>2, ReleaseTypes DEF Enter, TypeOK
<1>3. CASE StartConversation
  <2>1. scr.authGen + 1 \in Nat /\ tries.all + 1 \in Nat /\ tries.here + 1 \in Nat
    <3>1. scr.authGen \in Nat
      BY DEF TypeOK, Screen
    <3>2. tries.all \in Nat /\ tries.here \in Nat
      BY DEF TypeOK
    <3> QED
      BY <3>1, <3>2
  <2>2. \A k \in Nat : [scr EXCEPT !.inputOn = FALSE, !.pending = TRUE,
                          !.authGen = k, !.auth = k] \in Screen
    BY DEF TypeOK, Screen
  <2>3. scr' \in Screen
    BY <1>3, <2>1, <2>2 DEF StartConversation
  <2>4. [no |-> tries.all + 1, gen |-> scr.authGen + 1, lock |-> lockNo,
         phase |-> "run", reply |-> FALSE, cancelled |-> FALSE] \in Worker
    BY <2>1 DEF Worker, TypeOK
  <2> QED
    BY <1>3, <2>1, <2>3, <2>4 DEF StartConversation, Enter, TypeOK
<1> QED
  BY <1>1, <1>2, <1>3 DEF Enter, Submit

LEMMA WorkerStepTypes ==
  ASSUME TypeOK, NEW w \in workers, WorkerAsks(w) \/ WorkerAnswered(w) \/ WorkerEnds(w)
  PROVE  workers' \subseteq Worker /\ queue' \in Seq(Event)
<1>1. w \in Worker /\ w.gen \in Nat /\ w.lock \in Nat
  BY DEF TypeOK, Worker
<1>2. \A outcome \in Outcomes : Said(w, outcome) \in Seq(Event)
  BY <1>1, EventIntro DEF Said, TypeOK
<1>3. [w EXCEPT !.phase = "ask"] \in Worker /\ [w EXCEPT !.phase = "run"] \in Worker
      /\ [w EXCEPT !.phase = "run", !.reply = FALSE] \in Worker
  BY <1>1 DEF Worker
<1>4. CASE WorkerAsks(w)
  BY <1>2, <1>3, <1>4 DEF WorkerAsks, Becomes, Outcomes, TypeOK
<1>5. CASE WorkerAnswered(w)
  BY <1>3, <1>5 DEF WorkerAnswered, Becomes, TypeOK
<1>6. CASE WorkerEnds(w)
  BY <1>2, <1>6 DEF WorkerEnds, Outcomes, TypeOK
<1> QED
  BY <1>4, <1>5, <1>6

LEMMA OnStartType ==
  ASSUME NEW c \in Configs, NEW claimed \in BOOLEAN
  PROVE  OnStart(c, claimed) \in Seq(Event)
<1>1. [kind |-> "lock"] \in Event
  BY EventIntro
<1>2. <<[kind |-> "lock"]>> \in Seq(Event) /\ << >> \in Seq(Event)
  BY <1>1
<1> QED
  BY <1>2 DEF OnStart

Used == [requests : Nat, keys : Nat, crashes : Nat, ended : Nat]
LEMMA UsedTypes ==
  ASSUME used \in Used
  PROVE  /\ [used EXCEPT !.requests = @ + 1] \in Used
         /\ [used EXCEPT !.keys = @ + 1] \in Used
         /\ [used EXCEPT !.crashes = @ + 1] \in Used
         /\ [used EXCEPT !.ended = @ + 1] \in Used
<1>1. /\ used.requests + 1 \in Nat /\ used.keys + 1 \in Nat
      /\ used.crashes + 1 \in Nat /\ used.ended + 1 \in Nat
  BY DEF Used
<1>2. \A k \in Nat : /\ [used EXCEPT !.requests = k] \in Used
                     /\ [used EXCEPT !.keys = k] \in Used
                     /\ [used EXCEPT !.crashes = k] \in Used
                     /\ [used EXCEPT !.ended = k] \in Used
  BY DEF Used
<1> QED
  BY <1>1, <1>2

LEMMA AppendType ==
  ASSUME queue \in Seq(Event), NEW e \in Event, queue' = Append(queue, e)
  PROVE  queue' \in Seq(Event)
OBVIOUS

LEMMA NewScreenType == NewScreen \in Screen
BY DEF NewScreen, Screen

LEMMA InitTypes == Init => TypeOK
<1> SUFFICES ASSUME Init PROVE TypeOK
  OBVIOUS
<1>1. queue \in Seq(Event) /\ scr \in Screen /\ marker \in BOOLEAN
  BY NewScreenType, OnStartType, ConfigsAssumption DEF Init
<1>2. telling \in [BOOLEAN -> Nat] /\ probing \in BOOLEAN
  BY LogindAssumption DEF Init
<1>3. tries \in [all : Nat, here : Nat] /\ used \in Used
  BY DEF Init, Used
<1> QED
  BY <1>1, <1>2, <1>3 DEF Init, TypeOK, Used

LEMMA NextTypes == TypeOK /\ [Next]_vars => TypeOK'
<1> SUFFICES ASSUME TypeOK, [Next]_vars PROVE TypeOK'
  OBVIOUS
<1>1. CASE LoopStep
  BY <1>1, LoopTypes
<1>2. CASE Enter
  BY <1>2, EnterTypes
<1>3. CASE Activity
  <2>1. [scr EXCEPT !.blanked = FALSE] \in Screen
    BY DEF TypeOK, Screen
  <2>2. scr' \in Screen
    BY <1>3, <2>1, ArmBlankType DEF Activity
  <2>3. used' \in Used
    BY <1>3, UsedTypes DEF Activity, TypeOK, Used
  <2> QED
    BY <1>3, <2>2, <2>3 DEF Activity, TypeOK, Used, logind
<1>4. CASE GraceEnds
  BY <1>4 DEF GraceEnds, TypeOK, Screen, logind
<1>5. ASSUME NEW c \in Configs, SetConfig(c) PROVE TypeOK'
  BY <1>5 DEF SetConfig, TypeOK, screen, logind
<1>6. ASSUME NEW kind \in {"lock", "unlock"}, Request(kind) PROVE TypeOK'
  <2>1. queue' \in Seq(Event)
    BY <1>6, EventIntro, AppendType DEF Request, TypeOK
  <2>2. used' \in Used
    BY <1>6, UsedTypes DEF Request, TypeOK, Used
  <2> QED
    BY <1>6, <2>1, <2>2 DEF Request, TypeOK, Used, screen, logind
<1>7. CASE BlankTimerFires
  <2>1. scr.timer \in Nat /\ scr' \in Screen
    BY <1>7 DEF BlankTimerFires, TypeOK, Screen
  <2>2. queue' \in Seq(Event)
    BY <1>7, <2>1, EventIntro, AppendType DEF BlankTimerFires, TypeOK
  <2> QED
    BY <1>7, <2>1, <2>2 DEF BlankTimerFires, TypeOK, logind
<1>8. CASE WorkerStep(WorkerAsks, Tries) \/ WorkerStep(WorkerAnswered, Tries)
           \/ WorkerStep(WorkerEnds, Tries)
  BY <1>8, WorkerStepTypes DEF WorkerStep, TypeOK, screen, logind
<1>9. CASE Grant
  BY <1>9 DEF Grant, TypeOK, screen, logind
<1>10. CASE OnLocked
  <2>1. scr' \in Screen
    BY <1>10 DEF OnLocked, TypeOK, Screen
  <2> QED
    BY <1>10, <2>1, TellType DEF OnLocked, TypeOK
<1>11. CASE OnFinished
  <2>1. telling' \in [BOOLEAN -> Nat]
    BY <1>11, TellType DEF OnFinished, TypeOK
  <2>2. comp' \in {"open", "ours", "orphan"}
    BY <1>11 DEF OnFinished, TypeOK
  <2>3. used' \in Used
    BY <1>11, UsedTypes DEF OnFinished, TypeOK, Used
  <2> QED
    BY <1>11, <2>1, <2>2, <2>3, ScreenTypes, WorkerTypes DEF OnFinished, TypeOK, Used
<1>12. CASE HintArrives
  <2>1. telling' \in [BOOLEAN -> Nat] /\ hint' \in BOOLEAN
    BY <1>12 DEF HintArrives, TypeOK
  <2> QED
    BY <1>12, <2>1 DEF HintArrives, TypeOK, screen
<1>13. CASE Probe
  <2>1. queue' \in Seq(Event)
    BY <1>13, EventIntro, AppendType DEF Probe, TypeOK
  <2> QED
    BY <1>13, <2>1 DEF Probe, TypeOK, screen, logind
<1>14. CASE Crash
  <2>1. used' \in Used
    BY <1>14, UsedTypes DEF Crash, TypeOK, Used
  <2>2. queue' \in Seq(Event) /\ telling' \in [BOOLEAN -> Nat]
    BY <1>14 DEF Crash
  <2> QED
    BY <1>14, <2>1, <2>2, NewScreenType DEF Crash, TypeOK, Used
<1>15. CASE Start
  <2>1. queue' \in Seq(Event)
    BY <1>15, OnStartType DEF Start, TypeOK
  <2>2. marker' \in BOOLEAN
    BY <1>15, ConfigsAssumption DEF Start, TypeOK
  <2> QED
    BY <1>15, <2>1, <2>2, LogindAssumption DEF Start, TypeOK, screen, logind
<1>16. CASE UNCHANGED vars
  BY <1>16 DEF vars, TypeOK, screen, logind
<1> QED
  BY <1>1, <1>2, <1>3, <1>4, <1>5, <1>6, <1>7, <1>8, <1>9, <1>10, <1>11, <1>12,
     <1>13, <1>14, <1>15, <1>16 DEF Next

\* The screen, the conversations, the compositor and logind keep their types
\* under every configuration, reload, crash and restart.
THEOREM Typing == Spec => []TypeOK
BY InitTypes, NextTypes, PTL DEF Spec

-----------------------------------------------------------------------------
\* The generations.

LEMMA GenTypes ==
  ASSUME TypeOK
  PROVE  /\ scr \in Screen /\ scr.auth \in Nat /\ scr.authGen \in Nat
         /\ scr.blankGen \in Nat /\ scr.timer \in Nat
BY DEF TypeOK, Screen

\* The fields of Screen after each helper.
LEMMA ScreenFields ==
  ASSUME NEW s \in Screen
  PROVE  /\ ResetAuth(s).auth = 0 /\ ResetAuth(s).authGen = s.authGen + 1
         /\ ResetAuth(s).blankGen = s.blankGen /\ ResetAuth(s).timer = s.timer
         /\ ResetAuth(s).blanked = s.blanked /\ ResetAuth(s).confirmed = s.confirmed
         /\ Opened(s).auth = 0 /\ Opened(s).authGen = s.authGen + 1
         /\ Opened(s).blankGen = s.blankGen /\ Opened(s).timer = s.timer
         /\ Opened(s).blanked = FALSE /\ Opened(s).confirmed = FALSE
         /\ Ended(s).auth = 0 /\ Ended(s).authGen = s.authGen + 1
         /\ Ended(s).blankGen = s.blankGen + 1 /\ Ended(s).timer = 0
         /\ Ended(s).blanked = FALSE /\ Ended(s).confirmed = FALSE
<1>1. /\ ResetAuth(s).auth = 0 /\ ResetAuth(s).authGen = s.authGen + 1
      /\ ResetAuth(s).blankGen = s.blankGen /\ ResetAuth(s).timer = s.timer
      /\ ResetAuth(s).blanked = s.blanked /\ ResetAuth(s).confirmed = s.confirmed
  BY DEF ResetAuth, Screen
<1>2. /\ Opened(s).auth = 0 /\ Opened(s).authGen = s.authGen + 1
      /\ Opened(s).blankGen = s.blankGen /\ Opened(s).timer = s.timer
      /\ Opened(s).blanked = FALSE /\ Opened(s).confirmed = FALSE
  BY <1>1, ResetAuthType DEF Opened, Screen
<1>3. /\ StopTimers(s).authGen = s.authGen /\ StopTimers(s).blankGen = s.blankGen + 1
      /\ StopTimers(s).timer = 0 /\ StopTimers(s).blanked = FALSE
  BY DEF StopTimers, Screen
<1> DEFINE t == ResetAuth(StopTimers(s))
<1>4. /\ t \in Screen /\ t.auth = 0 /\ t.authGen = s.authGen + 1
      /\ t.blankGen = s.blankGen + 1 /\ t.timer = 0 /\ t.blanked = FALSE
  <2>1. /\ t.auth = 0 /\ t.authGen = StopTimers(s).authGen + 1
        /\ t.blankGen = StopTimers(s).blankGen /\ t.timer = StopTimers(s).timer
        /\ t.blanked = StopTimers(s).blanked
    BY StopTimersType DEF ResetAuth, Screen
  <2> QED
    BY <1>3, <2>1, StopTimersType, ResetAuthType
<1>5. Ended(s) = [t EXCEPT !.confirmed = FALSE, !.attempts = 0, !.lockedAt = "zero"]
  BY DEF Ended
<1>6. /\ Ended(s).auth = 0 /\ Ended(s).authGen = s.authGen + 1
      /\ Ended(s).blankGen = s.blankGen + 1 /\ Ended(s).timer = 0
      /\ Ended(s).blanked = FALSE /\ Ended(s).confirmed = FALSE
  <2> HIDE DEF t
  <2> QED
    BY <1>4, <1>5 DEF Screen
<1> QED
  BY <1>1, <1>2, <1>6

LEMMA ArmBlankFields ==
  ASSUME NEW s \in Screen
  PROVE  /\ ArmBlank(s).blankGen = s.blankGen + 1
         /\ ArmBlank(s).timer \in {0, s.blankGen + 1}
         /\ ArmBlank(s).auth = s.auth /\ ArmBlank(s).authGen = s.authGen
         /\ ArmBlank(s).inputOn = s.inputOn /\ ArmBlank(s).awaiting = s.awaiting
         /\ ArmBlank(s).blanked = s.blanked /\ ArmBlank(s).confirmed = s.confirmed
BY DEF ArmBlank, Screen

\* Lock that goes to the compositor.
LEMMA LockFields ==
  ASSUME NEW s \in Screen, NEW t, t = ArmBlank([Opened(s) EXCEPT !.clock = TRUE])
  PROVE  /\ t.blankGen = s.blankGen + 1 /\ t.timer \in {0, s.blankGen + 1}
         /\ t.auth = 0 /\ t.authGen = s.authGen + 1
         /\ t.blanked = FALSE /\ t.confirmed = FALSE
<1>1. Opened(s) \in Screen
  BY ScreenTypes
<1> DEFINE u == [Opened(s) EXCEPT !.clock = TRUE]
<1>2. /\ u \in Screen /\ u.auth = Opened(s).auth /\ u.authGen = Opened(s).authGen
      /\ u.blankGen = Opened(s).blankGen /\ u.blanked = Opened(s).blanked
      /\ u.confirmed = Opened(s).confirmed
  BY <1>1 DEF Screen
<1> HIDE DEF u
<1>3. t = ArmBlank(u)
  BY DEF u
<1>4. /\ t.blankGen = u.blankGen + 1 /\ t.timer \in {0, u.blankGen + 1}
      /\ t.auth = u.auth /\ t.authGen = u.authGen
      /\ t.blanked = u.blanked /\ t.confirmed = u.confirmed
  BY <1>2, <1>3, ArmBlankFields
<1> QED
  BY <1>2, <1>4, ScreenFields

\* A conversation of the generation gen that was started for lock.
Current(gen, lock) ==
  gen \in 1 .. scr.authGen /\ (gen = scr.authGen => lock = lockNo)

\* What the loop may still believe of an event in its queue.
Sound(e) ==
  /\ e.kind = "auth" => Current(e.gen, e.lock)
  /\ e.kind = "blank" => /\ e.gen \in 1 .. scr.blankGen
                         /\ e.gen = scr.blankGen => Active

Heard == \A i \in 1 .. Len(queue) : Sound(queue[i])

\* A generation that does not grow stands for what it stood for.
Advances ==
  /\ scr'.authGen >= scr.authGen
  /\ scr'.authGen = scr.authGen => lockNo' = lockNo
  /\ scr'.blankGen >= scr.blankGen
  /\ scr'.blankGen = scr.blankGen /\ Active => Active'

LEMMA CurrentKept ==
  ASSUME TypeOK, TypeOK', Advances, NEW gen \in Nat, NEW lock, Current(gen, lock)
  PROVE  Current(gen, lock)'
<1>1. scr.authGen \in Nat /\ scr'.authGen \in Nat
  BY DEF TypeOK, Screen
<1>2. scr'.authGen >= scr.authGen
  BY DEF Advances
<1>3. gen \in 1 .. scr'.authGen
  BY <1>1, <1>2 DEF Current
<1>4. gen = scr'.authGen => gen = scr.authGen /\ scr'.authGen = scr.authGen
  BY <1>1, <1>2 DEF Current
<1> QED
  BY <1>3, <1>4 DEF Current, Advances

LEMMA SoundKept ==
  ASSUME TypeOK, TypeOK', Advances, NEW e \in Event, Sound(e)
  PROVE  Sound(e)'
<1>1. e.kind = "auth" => Current(e.gen, e.lock)'
  BY CurrentKept, EventFields DEF Sound
<1>2. e.kind = "blank" => /\ e.gen \in 1 .. scr'.blankGen
                          /\ e.gen = scr'.blankGen => Active'
  <2>1. scr.blankGen \in Nat /\ scr'.blankGen \in Nat
    BY DEF TypeOK, Screen
  <2>2. scr'.blankGen >= scr.blankGen
    BY DEF Advances
  <2> SUFFICES ASSUME e.kind = "blank"
               PROVE  /\ e.gen \in 1 .. scr'.blankGen
                      /\ e.gen = scr'.blankGen => Active'
    OBVIOUS
  <2>3. e.gen \in 1 .. scr.blankGen
    BY DEF Sound
  <2>4. e.gen \in 1 .. scr'.blankGen
    BY <2>1, <2>2, <2>3
  <2>5. e.gen = scr'.blankGen => e.gen = scr.blankGen /\ scr'.blankGen = scr.blankGen
    BY <2>1, <2>2, <2>3
  <2> QED
    BY <2>4, <2>5 DEF Sound, Advances
<1> QED
  BY <1>1, <1>2 DEF Sound

LEMMA SameAdvances ==
  ASSUME TypeOK, scr'.authGen = scr.authGen, scr'.blankGen = scr.blankGen,
         lockNo' = lockNo, Active => Active'
  PROVE  Advances
BY GenTypes DEF Advances, Active

LEMMA ReleaseAdvances == ASSUME TypeOK, scr' = Ended(scr) PROVE Advances
<1>1. scr \in Screen /\ scr.authGen \in Nat /\ scr.blankGen \in Nat
  BY DEF TypeOK, Screen
<1>2. scr'.authGen = scr.authGen + 1 /\ scr'.blankGen = scr.blankGen + 1
  BY <1>1, ScreenFields
<1> QED
  BY <1>1, <1>2 DEF Advances, Active

LEMMA LockAdvances ==
  ASSUME TypeOK, LockIsCovered, Lock
  PROVE  Advances
<1>1. scr \in Screen /\ scr.authGen \in Nat /\ scr.blankGen \in Nat
  BY DEF TypeOK, Screen
<1>2. CASE UNCHANGED <<screen, lockNo>>
  BY <1>2, SameAdvances DEF screen, Active
<1>3. CASE scr' = ArmBlank([Opened(scr) EXCEPT !.clock = TRUE])
  <2>1. scr'.authGen = scr.authGen + 1 /\ scr'.blankGen = scr.blankGen + 1
    BY <1>1, <1>3, LockFields
  <2> QED
    BY <1>1, <2>1 DEF Advances, Active
<1>4. CASE scr' = Opened(scr) /\ ~Active
  <2>1. scr'.authGen = scr.authGen + 1 /\ scr'.blankGen = scr.blankGen
    BY <1>1, <1>4, ScreenFields
  <2> QED
    BY <1>1, <1>4, <2>1 DEF Advances, Active
<1> QED
  BY <1>2, <1>3, <1>4 DEF Lock

LEMMA AuthAdvances ==
  ASSUME TypeOK, NEW e \in Event, OnAuthEvent(e), lockNo' = lockNo
  PROVE  Advances
<1>1. scr \in Screen /\ scr.authGen \in Nat /\ scr.blankGen \in Nat
  BY DEF TypeOK, Screen
<1>2. CASE UNCHANGED screen
  BY <1>2, SameAdvances DEF screen, Active
<1>3. CASE OnPrompt
  BY <1>1, <1>3, SameAdvances DEF OnPrompt, Screen, Active
<1>4. CASE Release
  BY <1>4, ReleaseAdvances DEF Release
<1>5. CASE OnFailure
  <2> DEFINE failed == [ResetAuth(scr) EXCEPT !.attempts = @ + 1]
  <2>1. ResetAuth(scr) \in Screen
    BY <1>1, ResetAuthType
  <2>2. /\ scr'.authGen = ResetAuth(scr).authGen
        /\ scr'.blankGen = ResetAuth(scr).blankGen
    BY <1>5, <2>1 DEF OnFailure, Screen
  <2>3. scr'.authGen = scr.authGen + 1 /\ scr'.blankGen = scr.blankGen
    BY <1>1, <2>2, ScreenFields
  <2> QED
    BY <1>1, <1>5, <2>3 DEF OnFailure, Advances, Active
<1> QED
  BY <1>2, <1>3, <1>4, <1>5 DEF OnAuthEvent, OnInfo

\* Every step but the death of the shell advances.
LEMMA NextAdvances ==
  ASSUME TypeOK, TypeOK', LockIsCovered, [Next]_vars, ~Crash
  PROVE  Advances
<1>1. scr \in Screen /\ scr.authGen \in Nat /\ scr.blankGen \in Nat
  BY DEF TypeOK, Screen
<1>2. CASE LoopStep
  <2> DEFINE e == Head(queue)
  <2>1. e \in Event
    BY <1>2 DEF LoopStep, TypeOK
  <2>2. CASE Lock
    BY <2>2, LockAdvances
  <2>3. CASE Release
    BY <2>3, ReleaseAdvances DEF Release
  <2>4. CASE OnAuthEvent(e) /\ lockNo' = lockNo
    BY <2>1, <2>4, AuthAdvances
  <2>5. CASE OnBlank(e) /\ lockNo' = lockNo
    BY <1>1, <2>5, SameAdvances DEF OnBlank, Screen, Active
  <2> QED
    BY <1>2, <2>2, <2>3, <2>4, <2>5 DEF LoopStep
<1>3. CASE Enter
  <2>1. CASE TookAnswer
    BY <1>1, <1>3, <2>1, SameAdvances DEF TookAnswer, Enter, Screen, Active
  <2>2. CASE Release
    BY <2>2, ReleaseAdvances DEF Release
  <2>3. CASE StartConversation
    <3>1. scr'.authGen = scr.authGen + 1 /\ scr'.blankGen = scr.blankGen
      BY <1>1, <2>3 DEF StartConversation, Screen
    <3> QED
      BY <1>1, <2>3, <3>1 DEF StartConversation, Advances, Active
  <2> QED
    BY <1>3, <2>1, <2>2, <2>3 DEF Enter, Submit
<1>4. CASE Activity
  <2> DEFINE lit == [scr EXCEPT !.blanked = FALSE]
  <2>1. lit \in Screen /\ lit.authGen = scr.authGen /\ lit.blankGen = scr.blankGen
    BY <1>1 DEF Screen
  <2>2. scr'.authGen = scr.authGen /\ scr'.blankGen = scr.blankGen + 1
    BY <1>4, <2>1, ArmBlankFields DEF Activity
  <2> QED
    BY <1>1, <1>4, <2>2 DEF Activity, Advances
<1>5. CASE GraceEnds \/ BlankTimerFires
  BY <1>1, <1>5, SameAdvances DEF GraceEnds, BlankTimerFires, Screen, Active
<1>6. CASE OnLocked
  BY <1>1, <1>6, SameAdvances DEF OnLocked, Screen, Active
<1>7. CASE OnFinished
  BY <1>7, ReleaseAdvances DEF OnFinished
<1>8. CASE UNCHANGED <<screen, lockNo>>
  BY <1>8, SameAdvances DEF screen, Active
<1>9. CASE \/ \E c \in Configs : SetConfig(c)
           \/ \E kind \in {"lock", "unlock"} : Request(kind)
           \/ WorkerStep(WorkerAsks, Tries) \/ WorkerStep(WorkerAnswered, Tries)
           \/ WorkerStep(WorkerEnds, Tries)
           \/ Grant \/ HintArrives \/ Probe \/ Start \/ UNCHANGED vars
  BY <1>8, <1>9 DEF SetConfig, Request, WorkerStep, Grant, HintArrives, Probe,
     Start, vars
<1> QED
  BY <1>2, <1>3, <1>4, <1>5, <1>6, <1>7, <1>9 DEF Next

-----------------------------------------------------------------------------
\* The queue stays sound.

LEMMA SameHeard ==
  ASSUME TypeOK, TypeOK', Advances, Heard, queue' = queue
  PROVE  Heard'
<1> SUFFICES ASSUME NEW i \in 1 .. Len(queue) PROVE Sound(queue[i])'
  BY DEF Heard
<1>1. queue[i] \in Event /\ Sound(queue[i]) /\ queue'[i] = queue[i]
  <2>1. queue \in Seq(Event)
    BY DEF TypeOK
  <2>2. queue[i] \in Event /\ queue'[i] = queue[i]
    BY <2>1
  <2>3. Sound(queue[i])
    BY DEF Heard
  <2> QED
    BY <2>2, <2>3
<1>2. \A e \in Event : Sound(e) => Sound(e)'
  BY SoundKept
<1> QED
  BY <1>1, <1>2 DEF Sound, Current

LEMMA TailHeard ==
  ASSUME TypeOK, TypeOK', Advances, Heard, queue # << >>, queue' = Tail(queue)
  PROVE  Heard'
<1> SUFFICES ASSUME NEW i \in 1 .. Len(queue') PROVE Sound(queue[i])'
  BY DEF Heard
<1>1. queue \in Seq(Event) /\ queue' \in Seq(Event)
  BY DEF TypeOK
<1>2. i + 1 \in 1 .. Len(queue) /\ queue'[i] = queue[i + 1]
  BY <1>1
<1>3. queue'[i] \in Event /\ Sound(queue'[i])
  BY <1>1, <1>2 DEF Heard, Sound, Current
<1>4. \A e \in Event : Sound(e) => Sound(e)'
  BY SoundKept
<1> QED
  BY <1>3, <1>4 DEF Sound, Current

LEMMA AppendHeard ==
  ASSUME TypeOK, TypeOK', Advances, Heard, NEW e \in Event, Sound(e)',
         queue' = Append(queue, e)
  PROVE  Heard'
<1> SUFFICES ASSUME NEW i \in 1 .. Len(queue') PROVE Sound(queue[i])'
  BY DEF Heard
<1>1. queue \in Seq(Event)
  BY DEF TypeOK
<1>2. CASE i \in 1 .. Len(queue)
  <2>1. queue'[i] = queue[i] /\ queue[i] \in Event /\ Sound(queue[i])
    BY <1>1, <1>2 DEF Heard
  <2>2. \A f \in Event : Sound(f) => Sound(f)'
    BY SoundKept
  <2> QED
    BY <2>1, <2>2 DEF Sound, Current
<1>3. CASE i = Len(queue) + 1
  <2>1. queue'[i] = e
    BY <1>1, <1>3
  <2> QED
    BY <2>1 DEF Sound, Current
<1> QED
  BY <1>1, <1>2, <1>3

-----------------------------------------------------------------------------
\* The screen, its conversation and the session lock stay together.

\* Every conversation is of a generation the screen had, and the current one
\* alone is not cancelled.
Attended ==
  /\ scr.auth \in {0, scr.authGen}
  /\ \A w \in workers : Current(w.gen, w.lock)
  /\ OneLiveConversation

\* The timer that runs is the one that may blank the screen.
Blanking ==
  /\ scr.timer # 0 => Active /\ scr.timer = scr.blankGen
  /\ BlankOnlyWhileLocked

Coherent == LockIsCovered /\ InputMeansReady /\ Attended /\ Blanking

LEMMA WorkersCurrent ==
  ASSUME TypeOK, TypeOK', Advances, Attended,
         \A v \in workers' : \E w \in workers : v.gen = w.gen /\ v.lock = w.lock
  PROVE  \A v \in workers' : Current(v.gen, v.lock)'
<1> SUFFICES ASSUME NEW v \in workers' PROVE Current(v.gen, v.lock)'
  OBVIOUS
<1>1. PICK w \in workers : v.gen = w.gen /\ v.lock = w.lock
  OBVIOUS
<1>2. v.gen \in Nat /\ Current(v.gen, v.lock)
  BY <1>1 DEF Attended, TypeOK, Worker, Current
<1>3. \A gen \in Nat : \A lock : Current(gen, lock) => Current(gen, lock)'
  BY CurrentKept
<1> QED
  BY <1>2, <1>3

LEMMA CancelFacts ==
  ASSUME NEW ws \in SUBSET Worker, NEW gen, NEW v \in Cancel(ws, gen)
  PROVE  \E w \in ws : /\ v.gen = w.gen /\ v.lock = w.lock
                       /\ v.cancelled = (w.gen = gen \/ w.cancelled)
<1>1. PICK w \in ws : v = IF w.gen = gen THEN [w EXCEPT !.cancelled = TRUE] ELSE w
  BY DEF Cancel
<1>2. w \in Worker /\ w.cancelled \in BOOLEAN
  BY DEF Worker
<1>3. v.gen = w.gen /\ v.lock = w.lock
  BY <1>1, <1>2 DEF Worker
<1>4. v.cancelled = (w.gen = gen \/ w.cancelled)
  BY <1>1, <1>2 DEF Worker
<1> QED
  BY <1>3, <1>4

LEMMA AnswerFacts ==
  ASSUME NEW ws \in SUBSET Worker, NEW gen, NEW v \in Answer(ws, gen)
  PROVE  \E w \in ws : /\ v.gen = w.gen /\ v.lock = w.lock
                       /\ v.cancelled = w.cancelled
<1>1. PICK w \in ws : v = IF w.gen = gen THEN [w EXCEPT !.reply = TRUE] ELSE w
  BY DEF Answer
<1>2. v.gen = w.gen /\ v.lock = w.lock /\ v.cancelled = w.cancelled
  BY <1>1 DEF Worker
<1> QED
  BY <1>2

\* The screen drops its conversation.
LEMMA CancelAttended ==
  ASSUME TypeOK, TypeOK', Advances, Attended,
         scr'.auth = 0, workers' = Cancel(workers, scr.auth)
  PROVE  Attended'
<1>1. \A v \in workers' : \E w \in workers :
        /\ v.gen = w.gen /\ v.lock = w.lock
        /\ v.cancelled = (w.gen = scr.auth \/ w.cancelled)
  <2>1. workers \in SUBSET Worker
    BY DEF TypeOK
  <2> QED
    BY <2>1, CancelFacts
<1>2. \A v \in workers' : Current(v.gen, v.lock)'
  BY <1>1, WorkersCurrent
<1>3. \A v \in workers' : v.cancelled
  BY <1>1 DEF Attended, OneLiveConversation
<1> QED
  BY <1>2, <1>3 DEF Attended, OneLiveConversation

\* The screen keeps it, and may answer it.
LEMMA AnswerAttended ==
  ASSUME TypeOK, TypeOK', Advances, Attended,
         scr'.auth = scr.auth, scr'.authGen = scr.authGen,
         workers' = workers \/ workers' = Answer(workers, scr.auth)
  PROVE  Attended'
<1>1. \A v \in workers' : \E w \in workers :
        v.gen = w.gen /\ v.lock = w.lock /\ v.cancelled = w.cancelled
  <2>1. workers \in SUBSET Worker
    BY DEF TypeOK
  <2>2. ASSUME NEW v \in Answer(workers, scr.auth)
        PROVE  \E w \in workers : v.gen = w.gen /\ v.lock = w.lock
                                  /\ v.cancelled = w.cancelled
    BY <2>1, AnswerFacts
  <2> QED
    BY <2>2
<1>2. \A v \in workers' : Current(v.gen, v.lock)'
  BY <1>1, WorkersCurrent
<1>3. \A v \in workers' : v.gen # scr'.auth => v.cancelled
  BY <1>1 DEF Attended, OneLiveConversation
<1> QED
  BY <1>2, <1>3 DEF Attended, OneLiveConversation

LEMMA SameCoherent ==
  ASSUME TypeOK, TypeOK', Coherent, UNCHANGED <<screen, workers, lockNo>>,
         comp' = comp
  PROVE  Coherent'
<1>1. Advances
  BY SameAdvances DEF screen, Active
<1>2. Attended'
  BY <1>1, AnswerAttended DEF Coherent, screen
<1>3. LockIsCovered' /\ InputMeansReady' /\ Blanking'
  BY DEF Coherent, LockIsCovered, InputMeansReady, Blanking, BlankOnlyWhileLocked,
     Active, screen
<1> QED
  BY <1>2, <1>3 DEF Coherent

\* The screen gives up the lock.
LEMMA EndedCoherent ==
  ASSUME TypeOK, TypeOK', Coherent, scr' = Ended(scr), locker' = "none",
         comp' # "ours", workers' = Cancel(workers, scr.auth)
  PROVE  Coherent'
<1>1. Advances
  BY ReleaseAdvances
<1>2. /\ scr'.auth = 0 /\ scr'.timer = 0 /\ scr'.blanked = FALSE
      /\ scr'.confirmed = FALSE
  BY GenTypes, ScreenFields
<1>3. Attended'
  BY <1>1, <1>2, CancelAttended DEF Coherent
<1>4. LockIsCovered' /\ InputMeansReady' /\ Blanking'
  BY <1>2 DEF LockIsCovered, InputMeansReady, Blanking, BlankOnlyWhileLocked, Active
<1> QED
  BY <1>3, <1>4 DEF Coherent

LEMMA ReleaseCoherent ==
  ASSUME TypeOK, TypeOK', Coherent, Release
  PROVE  Coherent'
BY EndedCoherent DEF Release, TypeOK

\* The screen changes while the lock stays.
LEMMA KeptLockCoherent ==
  ASSUME TypeOK, TypeOK', Coherent, Advances, Attended',
         locker' = locker, comp' = comp, scr'.confirmed = scr.confirmed,
         Active /\ scr'.inputOn => scr'.awaiting \/ scr'.auth = 0,
         scr'.timer # 0 => Active /\ scr'.timer = scr'.blankGen,
         scr'.blanked => Active
  PROVE  Coherent'
BY DEF Coherent, LockIsCovered, InputMeansReady, Blanking, BlankOnlyWhileLocked,
   Active

LEMMA LockCoherent ==
  ASSUME TypeOK, TypeOK', Coherent, Lock
  PROVE  Coherent'
<1>1. Advances
  BY LockAdvances DEF Coherent
<1>2. CASE UNCHANGED <<screen, workers, comp, telling, lockNo, tries>>
  BY <1>2, SameCoherent
<1>3. CASE /\ scr' = ArmBlank([Opened(scr) EXCEPT !.clock = TRUE])
           /\ locker' = "pending" /\ ~Active /\ comp' = comp
           /\ workers' = Cancel(workers, scr.auth)
  <2>1. /\ scr'.blankGen = scr.blankGen + 1 /\ scr'.timer \in {0, scr.blankGen + 1}
        /\ scr'.auth = 0 /\ scr'.blanked = FALSE /\ scr'.confirmed = FALSE
    BY <1>3, GenTypes, LockFields
  <2>2. Attended'
    BY <1>1, <1>3, <2>1, CancelAttended DEF Coherent
  <2>3. LockIsCovered' /\ InputMeansReady' /\ Blanking'
    BY <1>3, <2>1 DEF Coherent, LockIsCovered, InputMeansReady, Blanking,
       BlankOnlyWhileLocked, Active
  <2> QED
    BY <2>2, <2>3 DEF Coherent
<1>4. CASE /\ scr' = Opened(scr) /\ locker' = locker /\ ~Active /\ comp' = comp
           /\ workers' = Cancel(workers, scr.auth)
  <2>1. /\ scr'.timer = scr.timer /\ scr'.blankGen = scr.blankGen
        /\ scr'.auth = 0 /\ scr'.blanked = FALSE /\ scr'.confirmed = FALSE
    BY <1>4, GenTypes, ScreenFields
  <2>2. Attended'
    BY <1>1, <1>4, <2>1, CancelAttended DEF Coherent
  <2>3. LockIsCovered' /\ InputMeansReady' /\ Blanking'
    BY <1>4, <2>1 DEF Coherent, LockIsCovered, InputMeansReady, Blanking,
       BlankOnlyWhileLocked, Active
  <2> QED
    BY <2>2, <2>3 DEF Coherent
<1> QED
  BY <1>2, <1>3, <1>4 DEF Lock

LEMMA AuthCoherent ==
  ASSUME TypeOK, TypeOK', Coherent, NEW e \in Event, OnAuthEvent(e), lockNo' = lockNo
  PROVE  Coherent'
<1>1. Advances
  BY AuthAdvances
<1>2. CASE UNCHANGED <<screen, workers, comp, telling>>
  BY <1>2, SameCoherent
<1>3. CASE OnPrompt
  <2>1. /\ scr'.auth = scr.auth /\ scr'.authGen = scr.authGen
        /\ scr'.timer = scr.timer /\ scr'.blankGen = scr.blankGen
        /\ scr'.blanked = scr.blanked /\ scr'.confirmed = scr.confirmed
        /\ \/ scr'.awaiting
           \/ scr'.inputOn = scr.inputOn /\ scr'.awaiting = scr.awaiting
    BY <1>3, GenTypes DEF OnPrompt, Screen
  <2>2. Attended'
    BY <1>1, <1>3, <2>1, AnswerAttended DEF OnPrompt, Coherent
  <2> QED
    BY <1>1, <1>3, <2>1, <2>2, KeptLockCoherent
       DEF OnPrompt, Coherent, InputMeansReady, Blanking, BlankOnlyWhileLocked
<1>4. CASE Release
  BY <1>4, ReleaseCoherent
<1>5. CASE OnFailure
  <2> DEFINE failed == [ResetAuth(scr) EXCEPT !.attempts = @ + 1]
  <2>1. ResetAuth(scr) \in Screen
    BY GenTypes, ResetAuthType
  <2>2. /\ scr'.auth = ResetAuth(scr).auth
        /\ scr'.timer = ResetAuth(scr).timer /\ scr'.blankGen = ResetAuth(scr).blankGen
        /\ scr'.blanked = ResetAuth(scr).blanked
        /\ scr'.confirmed = ResetAuth(scr).confirmed
    BY <1>5, <2>1 DEF OnFailure, Screen
  <2>3. /\ scr'.auth = 0 /\ scr'.timer = scr.timer /\ scr'.blankGen = scr.blankGen
        /\ scr'.blanked = scr.blanked /\ scr'.confirmed = scr.confirmed
    BY <2>2, GenTypes, ScreenFields
  <2>4. Attended'
    BY <1>1, <1>5, <2>3, CancelAttended DEF OnFailure, Coherent
  <2> QED
    BY <1>1, <1>5, <2>3, <2>4, KeptLockCoherent
       DEF OnFailure, Coherent, Blanking, BlankOnlyWhileLocked
<1> QED
  BY <1>2, <1>3, <1>4, <1>5 DEF OnAuthEvent, OnInfo

LEMMA LoopKeeps ==
  ASSUME TypeOK, TypeOK', Coherent, Heard, LoopStep
  PROVE  Coherent'
<1> DEFINE e == Head(queue)
<1>1. e \in Event /\ Sound(e)
  <2>1. queue \in Seq(Event) /\ queue # << >>
    BY DEF LoopStep, TypeOK
  <2>2. 1 \in 1 .. Len(queue) /\ e = queue[1] /\ e \in Event
    BY <2>1
  <2> QED
    BY <2>2 DEF Heard
<1>2. CASE Lock
  BY <1>2, LockCoherent
<1>3. CASE Release
  BY <1>3, ReleaseCoherent
<1>4. CASE OnAuthEvent(e) /\ lockNo' = lockNo
  BY <1>1, <1>4, AuthCoherent
<1>5. CASE e.kind = "blank" /\ OnBlank(e) /\ lockNo' = lockNo
  <2>1. /\ scr'.auth = scr.auth /\ scr'.authGen = scr.authGen
        /\ scr'.timer = scr.timer /\ scr'.blankGen = scr.blankGen
        /\ scr'.inputOn = scr.inputOn /\ scr'.awaiting = scr.awaiting
        /\ scr'.confirmed = scr.confirmed
        /\ scr'.blanked => scr.blanked \/ e.gen = scr.blankGen
    BY <1>5, GenTypes DEF OnBlank, Screen
  <2>2. Advances
    BY <1>5, <2>1, SameAdvances DEF OnBlank, Active
  <2>3. Attended'
    BY <1>5, <2>1, <2>2, AnswerAttended DEF OnBlank, Coherent
  <2>4. scr'.blanked => Active
    BY <1>1, <1>5, <2>1 DEF Sound, Coherent, Blanking, BlankOnlyWhileLocked
  <2> QED
    BY <1>5, <2>1, <2>2, <2>3, <2>4, KeptLockCoherent
       DEF OnBlank, Coherent, InputMeansReady, Blanking
<1> QED
  BY <1>2, <1>3, <1>4, <1>5 DEF LoopStep

LEMMA EnterKeeps ==
  ASSUME TypeOK, TypeOK', Coherent, Advances, Enter
  PROVE  Coherent'
<1>1. CASE TookAnswer
  <2>1. /\ scr'.auth = scr.auth /\ scr'.authGen = scr.authGen
        /\ scr'.timer = scr.timer /\ scr'.blankGen = scr.blankGen
        /\ scr'.blanked = scr.blanked /\ scr'.confirmed = scr.confirmed
        /\ ~scr'.inputOn
    BY <1>1, GenTypes DEF TookAnswer, Screen
  <2>2. Attended'
    BY <1>1, <2>1, AnswerAttended DEF TookAnswer, Coherent
  <2> QED
    BY <1>1, <2>1, <2>2, KeptLockCoherent
       DEF TookAnswer, Coherent, Blanking, BlankOnlyWhileLocked
<1>2. CASE Release
  BY <1>2, ReleaseCoherent
<1>3. CASE scr.auth = 0 /\ StartConversation
  <2>1. /\ scr'.auth = scr.authGen + 1 /\ scr'.authGen = scr.authGen + 1
        /\ scr'.timer = scr.timer /\ scr'.blankGen = scr.blankGen
        /\ scr'.blanked = scr.blanked /\ scr'.confirmed = scr.confirmed
        /\ ~scr'.inputOn
    BY <1>3, GenTypes DEF StartConversation, Screen
  <2> DEFINE started ==
        [no |-> tries.all + 1, gen |-> scr.authGen + 1, lock |-> lockNo,
         phase |-> "run", reply |-> FALSE, cancelled |-> FALSE]
  <2>2. workers' = workers \cup {started} /\ lockNo' = lockNo
    BY <1>3 DEF StartConversation, Enter
  <2>3. \A w \in workers : Current(w.gen, w.lock)'
    <3>1. \A gen \in Nat : \A lock : Current(gen, lock) => Current(gen, lock)'
      BY CurrentKept
    <3> QED
      BY <3>1 DEF Coherent, Attended, TypeOK, Worker
  <2>4. \A w \in {started} : Current(w.gen, w.lock)'
    BY <2>1, <2>2, GenTypes DEF Current
  <2>5. \A w \in workers : w.cancelled
    BY <1>3 DEF Coherent, Attended, OneLiveConversation, Current
  <2>6. Attended'
    <3>1. \A w \in workers' : Current(w.gen, w.lock)'
      BY <2>2, <2>3, <2>4
    <3>2. \A w \in workers' : w.gen # scr'.auth => w.cancelled
      BY <2>1, <2>2, <2>5
    <3> QED
      BY <2>1, <3>1, <3>2 DEF Attended, OneLiveConversation
  <2> QED
    BY <1>3, <2>1, <2>6, KeptLockCoherent
       DEF StartConversation, Coherent, Blanking, BlankOnlyWhileLocked
<1> QED
  BY <1>1, <1>2, <1>3 DEF Enter, Submit

LEMMA ActivityKeeps ==
  ASSUME TypeOK, TypeOK', Coherent, Advances, Activity
  PROVE  Coherent'
<1> DEFINE lit == [scr EXCEPT !.blanked = FALSE]
<1>1. /\ lit \in Screen /\ lit.auth = scr.auth /\ lit.authGen = scr.authGen
      /\ lit.blankGen = scr.blankGen /\ lit.inputOn = scr.inputOn
      /\ lit.awaiting = scr.awaiting /\ lit.confirmed = scr.confirmed
      /\ lit.blanked = FALSE
  BY GenTypes DEF Screen
<1> HIDE DEF lit
<1>2. scr' = ArmBlank(lit)
  BY DEF Activity, lit
<1>3. /\ scr'.blankGen = scr.blankGen + 1 /\ scr'.timer \in {0, scr.blankGen + 1}
      /\ scr'.auth = scr.auth /\ scr'.authGen = scr.authGen
      /\ scr'.inputOn = scr.inputOn /\ scr'.awaiting = scr.awaiting
      /\ scr'.confirmed = scr.confirmed /\ scr'.blanked = FALSE
  BY <1>1, <1>2, ArmBlankFields
<1>4. Attended'
  BY <1>3, AnswerAttended DEF Activity, Coherent
<1> QED
  BY <1>3, <1>4, KeptLockCoherent DEF Activity, Coherent, InputMeansReady

\* A worker that blocks, goes on or ends.
LEMMA WorkerKeeps ==
  ASSUME TypeOK, TypeOK', Coherent, Advances, UNCHANGED <<screen, comp>>,
         NEW w \in workers, WorkerAsks(w) \/ WorkerAnswered(w) \/ WorkerEnds(w)
  PROVE  Coherent'
<1>1. \A v \in workers' : \E u \in workers :
        v.gen = u.gen /\ v.lock = u.lock /\ v.cancelled = u.cancelled
  <2>1. w \in Worker
    BY DEF TypeOK
  <2>2. \A v \in {[w EXCEPT !.phase = "ask"], [w EXCEPT !.phase = "run"],
                  [w EXCEPT !.phase = "run", !.reply = FALSE]} :
          v.gen = w.gen /\ v.lock = w.lock /\ v.cancelled = w.cancelled
    BY <2>1 DEF Worker
  <2>3. workers' \subseteq workers \cup
          {[w EXCEPT !.phase = "ask"], [w EXCEPT !.phase = "run"],
           [w EXCEPT !.phase = "run", !.reply = FALSE]}
    BY DEF WorkerAsks, WorkerAnswered, WorkerEnds, Becomes
  <2> QED
    BY <2>2, <2>3
<1>2. \A v \in workers' : Current(v.gen, v.lock)'
  BY <1>1, WorkersCurrent DEF Coherent
<1>3. Attended'
  BY <1>1, <1>2 DEF Coherent, Attended, OneLiveConversation, screen
<1> QED
  BY <1>3, KeptLockCoherent
     DEF screen, Coherent, InputMeansReady, Blanking, BlankOnlyWhileLocked

\* Steps of the compositor.
LEMMA CompositorKeeps ==
  ASSUME TypeOK, TypeOK', Coherent, Advances, Grant \/ OnLocked \/ OnFinished
  PROVE  Coherent'
<1>1. CASE Grant
  <2>1. Attended'
    BY <1>1, AnswerAttended DEF Grant, screen, Coherent
  <2> QED
    BY <1>1, <2>1 DEF Grant, screen, Coherent, LockIsCovered, InputMeansReady,
       Blanking, BlankOnlyWhileLocked, Active
<1>2. CASE OnLocked
  <2>1. /\ scr'.auth = scr.auth /\ scr'.authGen = scr.authGen
        /\ scr'.timer = scr.timer /\ scr'.blankGen = scr.blankGen
        /\ scr'.inputOn = scr.inputOn /\ scr'.awaiting = scr.awaiting
        /\ scr'.blanked = scr.blanked /\ scr'.confirmed = TRUE
    BY <1>2, GenTypes DEF OnLocked, Screen
  <2>2. Attended'
    BY <1>2, <2>1, AnswerAttended DEF OnLocked, Coherent
  <2> QED
    BY <1>2, <2>1, <2>2 DEF OnLocked, Coherent, LockIsCovered, InputMeansReady,
       Blanking, BlankOnlyWhileLocked, Active
<1>3. CASE OnFinished
  BY <1>3, EndedCoherent DEF OnFinished
<1> QED
  BY <1>1, <1>2, <1>3

\* The other steps of a running screen change none of its parts that matter.
LEMMA ClocksKeep ==
  ASSUME TypeOK, TypeOK', Coherent, Advances, GraceEnds \/ BlankTimerFires
  PROVE  Coherent'
<1>1. /\ scr'.auth = scr.auth /\ scr'.authGen = scr.authGen
      /\ scr'.timer \in {scr.timer, 0} /\ scr'.blankGen = scr.blankGen
      /\ scr'.inputOn = scr.inputOn /\ scr'.awaiting = scr.awaiting
      /\ scr'.blanked = scr.blanked /\ scr'.confirmed = scr.confirmed
  BY GenTypes DEF GraceEnds, BlankTimerFires, Screen
<1>2. Attended'
  BY <1>1, AnswerAttended DEF GraceEnds, BlankTimerFires, Coherent
<1> QED
  BY <1>1, <1>2, KeptLockCoherent DEF GraceEnds, BlankTimerFires, Coherent,
     InputMeansReady, Blanking, BlankOnlyWhileLocked

LEMMA CrashKeeps ==
  ASSUME TypeOK, TypeOK', Coherent, Crash
  PROVE  Coherent' /\ Heard'
<1>1. /\ scr'.auth = 0 /\ scr'.timer = 0 /\ scr'.blanked = FALSE
      /\ scr'.confirmed = FALSE
  BY DEF Crash, NewScreen
<1>2. workers' = {} /\ queue' = << >> /\ locker' = "none" /\ comp' # "ours"
  BY DEF Crash, TypeOK
<1>3. Heard'
  BY <1>2 DEF Heard
<1>4. Attended'
  BY <1>1, <1>2 DEF Attended, OneLiveConversation
<1> QED
  BY <1>1, <1>2, <1>3, <1>4 DEF Coherent, LockIsCovered, InputMeansReady,
     Blanking, BlankOnlyWhileLocked, Active

LEMMA NextCoherent ==
  ASSUME TypeOK, TypeOK', Coherent, Heard, [Next]_vars
  PROVE  Coherent'
<1>1. CASE Crash
  BY <1>1, CrashKeeps
<1>2. CASE ~Crash
  <2>1. Advances
    BY <1>2, NextAdvances DEF Coherent
  <2>2. CASE LoopStep
    BY <2>2, LoopKeeps
  <2>3. CASE Enter
    BY <2>1, <2>3, EnterKeeps
  <2>4. CASE Activity
    BY <2>1, <2>4, ActivityKeeps
  <2>5. CASE GraceEnds \/ BlankTimerFires
    BY <2>1, <2>5, ClocksKeep
  <2>6. CASE WorkerStep(WorkerAsks, Tries) \/ WorkerStep(WorkerAnswered, Tries)
             \/ WorkerStep(WorkerEnds, Tries)
    BY <2>1, <2>6, WorkerKeeps DEF WorkerStep
  <2>7. CASE Grant \/ OnLocked \/ OnFinished
    BY <2>1, <2>7, CompositorKeeps
  <2>8. CASE \/ \E c \in Configs : SetConfig(c)
             \/ \E kind \in {"lock", "unlock"} : Request(kind)
             \/ HintArrives \/ Probe \/ Start \/ UNCHANGED vars
    BY <2>8, SameCoherent DEF SetConfig, Request, HintArrives, Probe, Start, vars
  <2> QED
    BY <1>2, <2>2, <2>3, <2>4, <2>5, <2>6, <2>7, <2>8 DEF Next
<1> QED
  BY <1>1, <1>2

\* What a worker says carries the generation it was started under, what a
\* timer says the one it was armed under.
LEMMA NextHeard ==
  ASSUME TypeOK, TypeOK', Coherent, Heard, [Next]_vars
  PROVE  Heard'
<1>1. CASE Crash
  BY <1>1, CrashKeeps
<1>2. CASE ~Crash
  <2>1. Advances
    BY <1>2, NextAdvances DEF Coherent
  <2>2. CASE LoopStep
    BY <2>1, <2>2, TailHeard DEF LoopStep
  <2>3. ASSUME NEW kind \in {"lock", "unlock"}, queue' = Append(queue, [kind |-> kind])
        PROVE  Heard'
    <3>1. [kind |-> kind] \in Event
      BY EventIntro
    <3>2. \A e \in {[kind |-> kind]} : Sound(e)'
      BY DEF Sound
    <3> QED
      BY <2>1, <2>3, <3>1, <3>2, AppendHeard
  <2>4. CASE BlankTimerFires
    <3> DEFINE f == [kind |-> "blank", gen |-> scr.timer]
    <3>1. f \in Event
      BY GenTypes, EventIntro
    <3>2. scr.timer \in 1 .. scr.blankGen /\ Active
      BY <2>4, GenTypes DEF BlankTimerFires, Coherent, Blanking
    <3>3. scr'.blankGen = scr.blankGen /\ Active'
      BY <2>4, <3>2, GenTypes DEF BlankTimerFires, Screen, Active
    <3>4. \A e \in {f} : Sound(e)'
      BY <3>2, <3>3 DEF Sound
    <3> QED
      BY <2>1, <2>4, <3>1, <3>4, AppendHeard DEF BlankTimerFires
  <2>5. ASSUME NEW w \in workers, NEW outcome \in Outcomes, queue' = Said(w, outcome)
        PROVE  Heard'
    <3> DEFINE f == [kind |-> "auth", outcome |-> outcome,
                     gen |-> w.gen, lock |-> w.lock]
    <3>1. w.gen \in Nat /\ w.lock \in Nat /\ Current(w.gen, w.lock)
      BY DEF TypeOK, Worker, Coherent, Attended
    <3>2. f \in Event
      BY <3>1, EventIntro
    <3>3. \A e \in {f} : Sound(e)
      BY <3>1 DEF Sound
    <3>4. \A e \in {f} : Sound(e)'
      BY <2>1, <3>2, <3>3, SoundKept
    <3> QED
      BY <2>1, <2>5, <3>2, <3>4, AppendHeard DEF Said
  <2>6. CASE queue' = queue
    BY <2>1, <2>6, SameHeard
  <2>7. CASE WorkerStep(WorkerAsks, Tries) \/ WorkerStep(WorkerAnswered, Tries)
             \/ WorkerStep(WorkerEnds, Tries)
    BY <2>5, <2>6, <2>7 DEF WorkerStep, WorkerAsks, WorkerAnswered, WorkerEnds, Outcomes
  <2>8. CASE \E kind \in {"lock", "unlock"} : Request(kind)
    BY <2>3, <2>8 DEF Request
  <2>9. CASE Probe
    BY <2>3, <2>6, <2>9 DEF Probe
  <2>10. CASE Start
    <3>1. queue' = << >> \/ queue' = <<[kind |-> "lock"]>>
      BY <2>10 DEF Start, OnStart
    <3>2. \A e \in {[kind |-> "lock"]} : Sound(e)'
      BY DEF Sound
    <3> QED
      BY <3>1, <3>2 DEF Heard
  <2>11. CASE \/ Enter \/ Activity \/ GraceEnds \/ Grant \/ OnLocked \/ OnFinished
              \/ HintArrives \/ UNCHANGED vars
              \/ \E c \in Configs : SetConfig(c)
    BY <2>6, <2>11 DEF Enter, Activity, GraceEnds, Grant, OnLocked, OnFinished,
       HintArrives, SetConfig, vars
  <2> QED
    BY <1>2, <2>2, <2>4, <2>7, <2>8, <2>9, <2>10, <2>11 DEF Next
<1> QED
  BY <1>1, <1>2

LEMMA InitCoherent == Init => Coherent /\ Heard
<1> SUFFICES ASSUME Init PROVE Coherent /\ Heard
  OBVIOUS
<1>1. Coherent
  BY DEF Init, NewScreen, Coherent, LockIsCovered, InputMeansReady, Attended,
     OneLiveConversation, Blanking, BlankOnlyWhileLocked, Active
<1>2. Heard
  BY DEF Init, OnStart, Heard, Sound
<1> QED
  BY <1>1, <1>2

LEMMA AlwaysCoherent == Spec => [](TypeOK /\ Coherent /\ Heard)
<1>1. Init => TypeOK /\ Coherent /\ Heard
  BY InitTypes, InitCoherent
<1>2. TypeOK /\ Coherent /\ Heard /\ [Next]_vars => (TypeOK /\ Coherent /\ Heard)'
  BY NextTypes, NextCoherent, NextHeard
<1> QED
  BY <1>1, <1>2, PTL DEF Spec

\* The session is locked for this shell exactly as long as the screen says so:
\* whatever the compositor, the user, logind and the conversations do in
\* whichever order, no session stays locked behind a screen that gave up.
THEOREM SessionIsCovered == Spec => []LockIsCovered
<1>1. Coherent => LockIsCovered
  BY DEF Coherent
<1> QED
  BY <1>1, AlwaysCoherent, PTL

\* All conversations but one are cancelled, however often the screen is
\* locked, unlocked and tried.
THEOREM OneConversationAtATime == Spec => []OneLiveConversation
<1>1. Coherent => OneLiveConversation
  BY DEF Coherent, Attended
<1> QED
  BY <1>1, AlwaysCoherent, PTL

\* An entry that takes input has somewhere to send it.
THEOREM InputIsHeard == Spec => []InputMeansReady
<1>1. Coherent => InputMeansReady
  BY DEF Coherent
<1> QED
  BY <1>1, AlwaysCoherent, PTL

\* No late timer blanks an unlocked session.
THEOREM BlankingNeedsALock == Spec => []BlankOnlyWhileLocked
<1>1. Coherent => BlankOnlyWhileLocked
  BY DEF Coherent, Blanking
<1> QED
  BY <1>1, AlwaysCoherent, PTL

\* The one that matters most: a password that was right in an earlier lock
\* opens nothing, because its generation is an older one.
THEOREM OnlyItsOwnLockOpens == Spec => SuccessOpensItsOwnLock
<1> DEFINE Stale == /\ Accepted /\ alive' /\ queue' = Tail(queue)
                    /\ Head(queue).lock # lockNo
<1>1. ASSUME TypeOK, Coherent, Heard, Next, Stale PROVE locker' = locker
  <2> DEFINE e == Head(queue)
  <2>1. queue \in Seq(Event) /\ queue # << >> /\ e = queue[1]
    BY <1>1 DEF TypeOK, Accepted
  <2>2. Len(queue') = Len(queue) - 1 /\ Len(queue) >= 1
    BY <1>1, <2>1
  <2>3. Current(e.gen, e.lock)
    BY <1>1, <2>1 DEF Heard, Sound, Accepted
  <2>4. CASE LoopStep
    <3>1. e.gen # scr.authGen
      BY <1>1, <2>3 DEF Current
    <3> QED
      BY <1>1, <2>4, <3>1 DEF LoopStep, Accepted, OnAuthEvent, screen
  <2>5. queue' # queue /\ \A f : queue' # Append(queue, f)
    BY <2>1, <2>2
  <2>6. CASE Crash
    BY <1>1, <2>6 DEF Crash
  <2>7. CASE ~LoopStep /\ ~Crash
    BY <1>1, <2>5, <2>7 DEF Next, Enter, Activity, GraceEnds, SetConfig, Request,
       BlankTimerFires, WorkerStep, WorkerAsks, WorkerAnswered, WorkerEnds, Said,
       Grant, OnLocked, OnFinished, HintArrives, Probe, Start, screen
  <2> QED
    BY <2>4, <2>6, <2>7
<1>2. TypeOK /\ Coherent /\ Heard /\ [Next]_vars => [Stale => locker' = locker]_vars
  BY <1>1
<1> QED
  BY <1>2, AlwaysCoherent, PTL DEF Spec, SuccessOpensItsOwnLock

\* Session, screen and display agree on what is locked, through requests,
\* failures, crashes and late timers.
THEOREM LockStaysWhole == Spec => []LockIsWhole
<1>1. LockIsCovered /\ BlankOnlyWhileLocked => LockIsWhole
  BY DEF LockIsWhole
<1> QED
  BY <1>1, SessionIsCovered, BlankingNeedsALock, PTL

\* Who types is heard by the one conversation there is.
THEOREM InputKeepsItsConversation == Spec => []InputHasItsConversation
<1>1. OneLiveConversation /\ InputMeansReady => InputHasItsConversation
  BY DEF InputHasItsConversation
<1> QED
  BY <1>1, OneConversationAtATime, InputIsHeard, PTL

-----------------------------------------------------------------------------
\* Attempts: what a lock has tried is what has failed and what is under way.

\* The generations that a worker or a waiting event speaks for.
Voices == {w.gen : w \in workers}
     \cup {queue[i].gen : i \in {j \in 1 .. Len(queue) : queue[j].kind = "auth"}}

\* Nobody speaks for the present generation but its conversation.
Spoken == scr.authGen \in Voices => scr.auth # 0

Tallied ==
  /\ scr.auth # 0 => Active
  /\ scr.awaiting => scr.auth # 0
  /\ Active => tries.here = scr.attempts + (IF scr.auth = 0 THEN 0 ELSE 1)
  /\ AttemptsDecideInput

LEMMA VoicesPast ==
  ASSUME TypeOK, Attended, Heard, NEW v \in Voices
  PROVE  v \in 1 .. scr.authGen
BY DEF Voices, Attended, Heard, Sound, Current

LEMMA SpokenKept ==
  ASSUME TypeOK, TypeOK', Attended, Heard, Spoken,
         Voices' \subseteq Voices \/ scr'.auth # 0,
         \/ scr'.authGen = scr.authGen /\ (scr.auth # 0 => scr'.auth # 0)
         \/ scr'.authGen > scr.authGen
  PROVE  Spoken'
<1>1. scr.authGen \in Nat /\ scr'.authGen \in Nat
  BY DEF TypeOK, Screen
<1>2. \A v \in Voices : v \in 1 .. scr.authGen
  BY VoicesPast
<1> QED
  BY <1>1, <1>2 DEF Spoken

LEMMA WorkersShrink ==
  ASSUME TypeOK, queue' = queue, \A v \in workers' : \E w \in workers : v.gen = w.gen
  PROVE  Voices' \subseteq Voices
<1> SUFFICES ASSUME NEW x \in Voices' PROVE x \in Voices
  OBVIOUS
<1>1. CASE \E v \in workers' : x = v.gen
  BY <1>1 DEF Voices
<1>2. CASE \E i \in 1 .. Len(queue') : queue'[i].kind = "auth" /\ x = queue'[i].gen
  BY <1>2 DEF Voices
<1> QED
  BY <1>1, <1>2 DEF Voices

LEMMA CancelShrinks ==
  ASSUME TypeOK, NEW gen, NEW v, v \in Cancel(workers, gen) \/ v \in Answer(workers, gen)
  PROVE  \E w \in workers : v.gen = w.gen
<1>1. workers \in SUBSET Worker
  BY DEF TypeOK
<1> QED
  BY <1>1, CancelFacts, AnswerFacts

\* The loop takes an event.
LEMMA TailShrinks ==
  ASSUME TypeOK, queue # << >>, queue' = Tail(queue),
         \A v \in workers' : \E w \in workers : v.gen = w.gen
  PROVE  Voices' \subseteq Voices
<1>1. queue \in Seq(Event)
  BY DEF TypeOK
<1> SUFFICES ASSUME NEW x \in Voices' PROVE x \in Voices
  OBVIOUS
<1>2. CASE \E v \in workers' : x = v.gen
  BY <1>2 DEF Voices
<1>3. CASE \E i \in 1 .. Len(queue') : queue'[i].kind = "auth" /\ x = queue'[i].gen
  <2>1. PICK i \in 1 .. Len(queue') : queue'[i].kind = "auth" /\ x = queue'[i].gen
    BY <1>3
  <2>2. i + 1 \in 1 .. Len(queue) /\ queue'[i] = queue[i + 1]
    BY <1>1
  <2> QED
    BY <2>1, <2>2 DEF Voices
<1> QED
  BY <1>2, <1>3 DEF Voices

\* Somebody hands it one.
LEMMA AppendShrinks ==
  ASSUME TypeOK, NEW e, queue' = Append(queue, e), e.kind = "auth" => e.gen \in Voices,
         \A v \in workers' : \E w \in workers : v.gen = w.gen
  PROVE  Voices' \subseteq Voices
<1>1. queue \in Seq(Event)
  BY DEF TypeOK
<1> SUFFICES ASSUME NEW x \in Voices' PROVE x \in Voices
  OBVIOUS
<1>2. CASE \E v \in workers' : x = v.gen
  BY <1>2 DEF Voices
<1>3. CASE \E i \in 1 .. Len(queue') : queue'[i].kind = "auth" /\ x = queue'[i].gen
  <2>1. PICK i \in 1 .. Len(queue') : queue'[i].kind = "auth" /\ x = queue'[i].gen
    BY <1>3
  <2>2. CASE i \in 1 .. Len(queue)
    <3>1. queue'[i] = queue[i]
      BY <1>1, <2>2
    <3> QED
      BY <2>1, <2>2, <3>1 DEF Voices
  <2>3. CASE i = Len(queue) + 1
    <3>1. queue'[i] = e
      BY <1>1, <2>3
    <3> QED
      BY <2>1, <3>1
  <2> QED
    BY <1>1, <2>2, <2>3
<1> QED
  BY <1>2, <1>3 DEF Voices

LEMMA TallyFields ==
  ASSUME NEW s \in Screen
  PROVE  /\ ResetAuth(s).awaiting = FALSE /\ ResetAuth(s).attempts = s.attempts
         /\ Opened(s).awaiting = FALSE /\ Opened(s).attempts = 0
         /\ Opened(s).inputOn = TRUE
         /\ Ended(s).awaiting = FALSE
         /\ ArmBlank(s).awaiting = s.awaiting /\ ArmBlank(s).attempts = s.attempts
         /\ ArmBlank(s).inputOn = s.inputOn
<1>1. ResetAuth(s).awaiting = FALSE /\ ResetAuth(s).attempts = s.attempts
  BY DEF ResetAuth, Screen
<1>2. /\ Opened(s).awaiting = FALSE /\ Opened(s).attempts = 0
      /\ Opened(s).inputOn = TRUE
  BY <1>1, ResetAuthType DEF Opened, Screen
<1> DEFINE t == ResetAuth(StopTimers(s))
<1>3. t \in Screen /\ t.awaiting = FALSE
  <2>1. StopTimers(s) \in Screen
    BY StopTimersType
  <2> QED
    BY <2>1, ResetAuthType DEF ResetAuth, Screen
<1>4. Ended(s).awaiting = FALSE
  <2>1. Ended(s) = [t EXCEPT !.confirmed = FALSE, !.attempts = 0, !.lockedAt = "zero"]
    BY DEF Ended
  <2> HIDE DEF t
  <2> QED
    BY <1>3, <2>1 DEF Screen
<1>5. /\ ArmBlank(s).awaiting = s.awaiting /\ ArmBlank(s).attempts = s.attempts
      /\ ArmBlank(s).inputOn = s.inputOn
  BY DEF ArmBlank, Screen
<1> QED
  BY <1>1, <1>2, <1>4, <1>5

LEMMA KeptTallied ==
  ASSUME Tallied, Active' <=> Active, cfg'.max = cfg.max, tries' = tries,
         scr'.auth = scr.auth, scr'.attempts = scr.attempts,
         scr'.awaiting = scr.awaiting, scr'.inputOn = scr.inputOn
  PROVE  Tallied'
BY DEF Tallied, AttemptsDecideInput, NoDeadEnd, AttemptsAreCapped, Exhausted

LEMMA EndedTallied ==
  ASSUME TypeOK, scr' = Ended(scr), locker' = "none"
  PROVE  Tallied'
<1>1. scr'.auth = 0 /\ scr'.awaiting = FALSE
  BY GenTypes, ScreenFields, TallyFields
<1> QED
  BY <1>1 DEF Tallied, AttemptsDecideInput, NoDeadEnd, AttemptsAreCapped, Active

LEMMA LockTallied ==
  ASSUME TypeOK, Tallied, Lock, cfg' = cfg
  PROVE  Tallied'
<1>1. scr \in Screen
  BY DEF TypeOK
<1>2. CASE UNCHANGED <<screen, tries>>
  BY <1>2, KeptTallied DEF screen, Active
<1>3. CASE /\ scr' = ArmBlank([Opened(scr) EXCEPT !.clock = TRUE])
           /\ locker' = "pending" /\ tries' = [tries EXCEPT !.here = 0]
  <2> DEFINE u == [Opened(scr) EXCEPT !.clock = TRUE]
  <2>1. Opened(scr) \in Screen
    BY <1>1, ScreenTypes
  <2>2. /\ u \in Screen /\ u.awaiting = Opened(scr).awaiting
        /\ u.attempts = Opened(scr).attempts /\ u.inputOn = Opened(scr).inputOn
    BY <2>1 DEF Screen
  <2>3. scr'.auth = 0
    BY <1>1, <1>3, LockFields
  <2> HIDE DEF u
  <2>4. scr' = ArmBlank(u)
    BY <1>3 DEF u
  <2>5. scr'.awaiting = FALSE /\ scr'.attempts = 0 /\ scr'.inputOn = TRUE
    BY <1>1, <2>2, <2>4, TallyFields
  <2>6. tries'.here = 0
    BY <1>3 DEF TypeOK
  <2>7. cfg.max \in Nat
    BY ConfigsAssumption DEF TypeOK
  <2> QED
    BY <2>3, <2>5, <2>6, <2>7
       DEF Tallied, AttemptsDecideInput, NoDeadEnd, AttemptsAreCapped
<1>4. CASE scr' = Opened(scr) /\ locker' = locker /\ ~Active
  <2>1. scr'.auth = 0 /\ scr'.awaiting = FALSE
    BY <1>1, <1>4, ScreenFields, TallyFields
  <2> QED
    BY <1>4, <2>1 DEF Tallied, AttemptsDecideInput, NoDeadEnd, AttemptsAreCapped, Active
<1> QED
  BY <1>2, <1>3, <1>4 DEF Lock

\* An event of the present generation finds its conversation, so a failure
\* moves one try from what is under way to what has failed.
LEMMA AuthTallied ==
  ASSUME TypeOK, Tallied, Spoken, NEW e, e.gen \in Voices, OnAuthEvent(e),
         cfg' = cfg, tries' = tries
  PROVE  Tallied'
<1>1. scr \in Screen /\ scr.attempts \in Nat
  BY DEF TypeOK, Screen
<1>2. CASE UNCHANGED screen
  BY <1>2, KeptTallied DEF screen, Active
<1>3. CASE Release
  BY <1>3, EndedTallied DEF Release
<1>4. CASE e.gen = scr.authGen /\ OnPrompt
  <2>1. scr.auth # 0
    BY <1>4 DEF Spoken
  <2>2. scr'.auth = scr.auth /\ scr'.attempts = scr.attempts /\ locker' = locker
    BY <1>1, <1>4 DEF OnPrompt, Screen
  <2> QED
    BY <2>1, <2>2 DEF Tallied, AttemptsDecideInput, NoDeadEnd, AttemptsAreCapped, Active
<1>5. CASE e.gen = scr.authGen /\ OnFailure
  <2> DEFINE failed == [ResetAuth(scr) EXCEPT !.attempts = @ + 1]
  <2>1. scr.auth # 0 /\ Active
    BY <1>5 DEF Spoken, Tallied
  <2>2. ResetAuth(scr) \in Screen
    BY <1>1, ResetAuthType
  <2>3. /\ failed \in Screen /\ failed.attempts = ResetAuth(scr).attempts + 1
        /\ failed.auth = ResetAuth(scr).auth /\ failed.awaiting = ResetAuth(scr).awaiting
    BY <2>2 DEF Screen
  <2>4. /\ failed.attempts = scr.attempts + 1 /\ failed.auth = 0
        /\ failed.awaiting = FALSE
    BY <1>1, <2>3, ScreenFields, TallyFields
  <2> HIDE DEF failed
  <2>5. scr' = [failed EXCEPT !.inputOn = ~Exhausted(failed)] /\ locker' = locker
    BY <1>5 DEF OnFailure, failed
  <2>6. /\ scr'.attempts = scr.attempts + 1 /\ scr'.auth = 0 /\ scr'.awaiting = FALSE
        /\ scr'.inputOn = ~Exhausted(failed)
    BY <2>3, <2>4, <2>5 DEF Screen
  <2>7. tries.here = scr.attempts + 1
    BY <2>1 DEF Tallied
  <2>8. ~scr'.inputOn => Exhausted(scr)'
    BY <2>4, <2>6 DEF Exhausted
  <2>9. AttemptsAreCapped'
    BY <2>1 DEF Tallied, AttemptsDecideInput, AttemptsAreCapped
  <2> QED
    BY <1>1, <2>6, <2>7, <2>8, <2>9 DEF Tallied, AttemptsDecideInput, NoDeadEnd
<1> QED
  BY <1>2, <1>3, <1>4, <1>5 DEF OnAuthEvent, OnInfo

LEMMA EnterTallied ==
  ASSUME TypeOK, Tallied, Enter
  PROVE  Tallied'
<1>1. /\ scr \in Screen /\ scr.attempts \in Nat /\ scr.authGen \in Nat
      /\ cfg.max \in Nat /\ cfg' = cfg
  BY ConfigsAssumption DEF TypeOK, Screen, Enter
<1>2. CASE Release
  BY <1>2, EndedTallied DEF Release
<1>3. CASE scr.awaiting /\ TookAnswer
  <2>1. /\ scr'.auth = scr.auth /\ scr'.attempts = scr.attempts /\ ~scr'.awaiting
        /\ locker' = locker /\ tries' = tries
    BY <1>1, <1>3 DEF TookAnswer, Screen
  <2> QED
    BY <1>1, <1>3, <2>1
       DEF Tallied, AttemptsDecideInput, NoDeadEnd, AttemptsAreCapped, Active
<1>4. CASE ~Exhausted(scr) /\ ~scr.awaiting /\ scr.auth = 0 /\ StartConversation
  <2>1. /\ scr'.auth = scr.authGen + 1 /\ scr'.attempts = scr.attempts
        /\ scr'.awaiting = scr.awaiting /\ locker' = locker
    BY <1>1, <1>4 DEF StartConversation, Screen
  <2>2. tries'.here = tries.here + 1
    BY <1>4 DEF StartConversation
  <2>3. Active /\ tries.here = scr.attempts
    BY <1>1, <1>4 DEF Enter, Tallied
  <2>4. cfg.max > 0 => scr.attempts < cfg.max
    BY <1>1, <1>4 DEF Exhausted
  <2> QED
    BY <1>1, <1>4, <2>1, <2>2, <2>3, <2>4
       DEF Tallied, AttemptsDecideInput, NoDeadEnd, AttemptsAreCapped, Active
<1> QED
  BY <1>2, <1>3, <1>4 DEF Enter, Submit

\* A reload may change everything but the cap: the screen looks at a new one
\* only when it is asked to do something.
SameCap == \A c, d \in Configs : c.max = d.max

LEMMA NextTallied ==
  ASSUME SameCap, TypeOK, TypeOK', Tallied, Spoken, [Next]_vars
  PROVE  Tallied'
<1>1. scr \in Screen /\ cfg'.max = cfg.max
  BY DEF TypeOK, SameCap
<1>2. CASE LoopStep
  <2> DEFINE e == Head(queue)
  <2>1. queue \in Seq(Event) /\ queue # << >> /\ cfg' = cfg
    BY <1>2 DEF LoopStep, TypeOK
  <2>2. e = queue[1] /\ 1 \in 1 .. Len(queue)
    BY <2>1
  <2>3. CASE Lock
    BY <2>1, <2>3, LockTallied
  <2>4. CASE Release
    BY <2>4, EndedTallied DEF Release
  <2>5. CASE e.kind = "auth" /\ OnAuthEvent(e) /\ tries' = tries
    <3>1. e.gen \in Voices
      BY <2>2, <2>5 DEF Voices
    <3> HIDE DEF e
    <3> QED
      BY <2>1, <2>5, <3>1, AuthTallied
  <2>6. CASE OnBlank(e) /\ tries' = tries
    <3>1. /\ scr'.auth = scr.auth /\ scr'.attempts = scr.attempts
          /\ scr'.awaiting = scr.awaiting /\ scr'.inputOn = scr.inputOn
      BY <1>1, <2>6 DEF OnBlank, Screen
    <3> QED
      BY <1>1, <2>6, <3>1, KeptTallied DEF OnBlank, Active
  <2> QED
    BY <1>2, <2>3, <2>4, <2>5, <2>6 DEF LoopStep
<1>3. CASE Enter
  BY <1>3, EnterTallied
<1>4. CASE Activity
  <2> DEFINE lit == [scr EXCEPT !.blanked = FALSE]
  <2>1. /\ lit \in Screen /\ lit.auth = scr.auth /\ lit.attempts = scr.attempts
        /\ lit.awaiting = scr.awaiting /\ lit.inputOn = scr.inputOn
    BY <1>1 DEF Screen
  <2> HIDE DEF lit
  <2>2. scr' = ArmBlank(lit) /\ UNCHANGED <<locker, tries>>
    BY <1>4 DEF Activity, lit
  <2> QED
    BY <1>1, <2>1, <2>2, ArmBlankFields, TallyFields, KeptTallied DEF Active
<1>5. CASE GraceEnds \/ BlankTimerFires \/ OnLocked
  <2>1. /\ scr'.auth = scr.auth /\ scr'.attempts = scr.attempts
        /\ scr'.awaiting = scr.awaiting /\ scr'.inputOn = scr.inputOn
    BY <1>1, <1>5 DEF GraceEnds, BlankTimerFires, OnLocked, Screen
  <2>2. (Active' <=> Active) /\ tries' = tries
    BY <1>5 DEF GraceEnds, BlankTimerFires, OnLocked, Active
  <2> QED
    BY <1>1, <2>1, <2>2, KeptTallied
<1>6. CASE OnFinished
  BY <1>6, EndedTallied DEF OnFinished
<1>7. CASE Crash
  <2>1. scr'.auth = 0 /\ scr'.awaiting = FALSE /\ locker' = "none"
    BY <1>7 DEF Crash, NewScreen
  <2> QED
    BY <2>1 DEF Tallied, AttemptsDecideInput, NoDeadEnd, AttemptsAreCapped, Active
<1>8. CASE UNCHANGED <<screen, tries>>
  BY <1>1, <1>8, KeptTallied DEF screen, Active
<1>9. CASE \/ \E c \in Configs : SetConfig(c)
           \/ \E kind \in {"lock", "unlock"} : Request(kind)
           \/ WorkerStep(WorkerAsks, Tries) \/ WorkerStep(WorkerAnswered, Tries)
           \/ WorkerStep(WorkerEnds, Tries)
           \/ Grant \/ HintArrives \/ Probe \/ Start \/ UNCHANGED vars
  BY <1>8, <1>9 DEF SetConfig, Request, WorkerStep, Grant, HintArrives, Probe,
     Start, vars
<1> QED
  BY <1>2, <1>3, <1>4, <1>5, <1>6, <1>7, <1>9 DEF Next

LEMMA NextSpoken ==
  ASSUME TypeOK, TypeOK', Coherent, Heard, Spoken, [Next]_vars
  PROVE  Spoken'
<1>1. /\ scr \in Screen /\ scr.authGen \in Nat /\ scr'.authGen \in Nat
      /\ queue \in Seq(Event) /\ Attended
  BY DEF TypeOK, Screen, Coherent
<1>2. \A v \in workers : \E w \in workers : v.gen = w.gen
  OBVIOUS
<1>3. ASSUME scr'.authGen = scr.authGen, scr'.auth = scr.auth,
             Voices' \subseteq Voices
      PROVE  Spoken'
  BY <1>1, <1>3, SpokenKept
<1>4. ASSUME scr'.authGen = scr.authGen + 1, Voices' \subseteq Voices
      PROVE  Spoken'
  BY <1>1, <1>4, SpokenKept
<1>5. CASE LoopStep
  <2> DEFINE e == Head(queue)
  <2>1. queue # << >> /\ queue' = Tail(queue)
    BY <1>5 DEF LoopStep
  <2>2. \A v \in workers' : \E w \in workers : v.gen = w.gen
    <3>1. workers' = workers \/ workers' = Cancel(workers, scr.auth)
                             \/ workers' = Answer(workers, scr.auth)
      BY <1>5 DEF LoopStep, Lock, Release, OnAuthEvent, OnInfo, OnPrompt, OnFailure,
         OnBlank
    <3> QED
      BY <1>2, <3>1, CancelShrinks
  <2>3. Voices' \subseteq Voices
    BY <2>1, <2>2, TailShrinks
  <2>4. CASE scr' = scr
    BY <1>3, <2>3, <2>4
  <2>5. CASE scr' \in {ArmBlank([Opened(scr) EXCEPT !.clock = TRUE]), Opened(scr), Ended(scr)}
    <3>1. scr'.authGen = scr.authGen + 1
      BY <1>1, <2>5, LockFields, ScreenFields
    <3> QED
      BY <1>4, <2>3, <3>1
  <2>6. CASE OnPrompt \/ OnBlank(e)
    <3>1. scr'.authGen = scr.authGen /\ scr'.auth = scr.auth
      BY <1>1, <2>6 DEF OnPrompt, OnBlank, Screen
    <3> QED
      BY <1>3, <2>3, <3>1
  <2>7. CASE OnFailure
    <3>1. ResetAuth(scr) \in Screen
      BY <1>1, ResetAuthType
    <3>2. scr'.authGen = ResetAuth(scr).authGen
      BY <2>7, <3>1 DEF OnFailure, Screen
    <3>3. scr'.authGen = scr.authGen + 1
      BY <1>1, <3>2, ScreenFields
    <3> QED
      BY <1>4, <2>3, <3>3
  <2> QED
    BY <1>5, <2>4, <2>5, <2>6, <2>7
       DEF LoopStep, Lock, Release, OnAuthEvent, OnInfo, screen
<1>6. CASE Enter
  <2>1. queue' = queue
    BY <1>6 DEF Enter
  <2>2. CASE TookAnswer
    <3>1. scr'.authGen = scr.authGen /\ scr'.auth = scr.auth
      BY <1>1, <2>2 DEF TookAnswer, Screen
    <3>2. Voices' \subseteq Voices
      BY <2>1, <2>2, CancelShrinks, WorkersShrink DEF TookAnswer
    <3> QED
      BY <1>3, <3>1, <3>2
  <2>3. CASE Release
    <3>1. scr'.authGen = scr.authGen + 1
      BY <1>1, <2>3, ScreenFields DEF Release
    <3>2. Voices' \subseteq Voices
      BY <2>1, <2>3, CancelShrinks, WorkersShrink DEF Release
    <3> QED
      BY <1>4, <3>1, <3>2
  <2>4. CASE StartConversation
    <3>1. scr'.authGen = scr.authGen + 1 /\ scr'.auth = scr.authGen + 1
      BY <1>1, <2>4 DEF StartConversation, Screen
    <3> QED
      BY <1>1, <3>1, SpokenKept
  <2> QED
    BY <1>6, <2>2, <2>3, <2>4 DEF Enter, Submit
<1>7. CASE Activity \/ GraceEnds \/ OnLocked
  <2> DEFINE lit == [scr EXCEPT !.blanked = FALSE]
  <2>1. lit \in Screen /\ lit.auth = scr.auth /\ lit.authGen = scr.authGen
    BY <1>1 DEF Screen
  <2>2. CASE scr' = ArmBlank(lit)
    <3> HIDE DEF lit
    <3> QED
      BY <2>1, <2>2, ArmBlankFields, <1>2, <1>3, <1>7, WorkersShrink
         DEF Activity, GraceEnds, OnLocked
  <2>3. CASE GraceEnds \/ OnLocked
    <3>1. scr'.authGen = scr.authGen /\ scr'.auth = scr.auth
      BY <1>1, <2>3 DEF GraceEnds, OnLocked, Screen
    <3>2. workers' = workers /\ queue' = queue
      BY <2>3 DEF GraceEnds, OnLocked
    <3> QED
      BY <1>2, <1>3, <3>1, <3>2, WorkersShrink
  <2> QED
    BY <1>7, <2>2, <2>3 DEF Activity
<1>8. CASE OnFinished
  <2>1. scr'.authGen = scr.authGen + 1
    BY <1>1, <1>8, ScreenFields DEF OnFinished
  <2>2. Voices' \subseteq Voices
    BY <1>8, CancelShrinks, WorkersShrink DEF OnFinished
  <2> QED
    BY <1>4, <2>1, <2>2
<1>9. CASE BlankTimerFires
  <2>1. scr'.authGen = scr.authGen /\ scr'.auth = scr.auth /\ workers' = workers
    BY <1>1, <1>9 DEF BlankTimerFires, Screen
  <2>2. PICK f : queue' = Append(queue, f) /\ f.kind = "blank"
    BY <1>9 DEF BlankTimerFires
  <2>3. Voices' \subseteq Voices
    BY <1>2, <2>1, <2>2, AppendShrinks
  <2> QED
    BY <1>3, <2>1, <2>3
<1>10. ASSUME NEW w \in workers, WorkerAsks(w) \/ WorkerAnswered(w) \/ WorkerEnds(w),
              UNCHANGED screen
       PROVE  Spoken'
  <2>1. \A v \in workers' : \E u \in workers : v.gen = u.gen
    <3>1. w \in Worker
      BY DEF TypeOK
    <3>2. \A v \in {[w EXCEPT !.phase = "ask"], [w EXCEPT !.phase = "run"],
                    [w EXCEPT !.phase = "run", !.reply = FALSE]} : v.gen = w.gen
      BY <3>1 DEF Worker
    <3>3. workers' \subseteq workers \cup
            {[w EXCEPT !.phase = "ask"], [w EXCEPT !.phase = "run"],
             [w EXCEPT !.phase = "run", !.reply = FALSE]}
      BY <1>10 DEF WorkerAsks, WorkerAnswered, WorkerEnds, Becomes
    <3> QED
      BY <3>2, <3>3
  <2>2. CASE queue' = queue
    BY <1>3, <1>10, <2>1, <2>2, WorkersShrink DEF screen
  <2>3. ASSUME NEW o, queue' = Said(w, o) PROVE Voices' \subseteq Voices
    <3> DEFINE f == [kind |-> "auth", outcome |-> o, gen |-> w.gen, lock |-> w.lock]
    <3>1. f.gen \in Voices /\ queue' = Append(queue, f)
      BY <2>3 DEF Voices, Said
    <3> HIDE DEF f
    <3> QED
      BY <2>1, <3>1, AppendShrinks
  <2> QED
    BY <1>3, <1>10, <2>2, <2>3 DEF WorkerAsks, WorkerAnswered, WorkerEnds, screen
<1>11. CASE (\E kind \in {"lock", "unlock"} : Request(kind)) \/ Probe
  <2>1. scr' = scr /\ workers' = workers
    BY <1>11 DEF Request, Probe, screen
  <2>2. CASE queue' = queue
    BY <1>2, <1>3, <2>1, <2>2, WorkersShrink
  <2>3. ASSUME NEW kind \in {"lock", "unlock"}, queue' = Append(queue, [kind |-> kind])
        PROVE  Voices' \subseteq Voices
    <3> DEFINE f == [kind |-> kind]
    <3>1. f.kind # "auth" /\ queue' = Append(queue, f)
      BY <2>3
    <3> HIDE DEF f
    <3> QED
      BY <1>2, <2>1, <3>1, AppendShrinks
  <2> QED
    BY <1>3, <1>11, <2>1, <2>2, <2>3 DEF Request, Probe
<1>12. CASE Start
  <2>1. queue' = << >> \/ queue' = <<[kind |-> "lock"]>>
    BY <1>12 DEF Start, OnStart
  <2>2. \A i \in 1 .. Len(queue') : queue'[i].kind # "auth"
    BY <2>1
  <2>3. Voices' \subseteq Voices
    BY <1>12, <2>2 DEF Voices, Start
  <2> QED
    BY <1>3, <1>12, <2>3 DEF Start, screen
<1>13. CASE Crash
  BY <1>13 DEF Crash, Spoken, Voices
<1>14. CASE Grant \/ HintArrives \/ (\E c \in Configs : SetConfig(c)) \/ UNCHANGED vars
  BY <1>2, <1>3, <1>14, WorkersShrink DEF Grant, HintArrives, SetConfig, vars, screen
<1> QED
  BY <1>5, <1>6, <1>7, <1>8, <1>9, <1>10, <1>11, <1>12, <1>13, <1>14
     DEF Next, WorkerStep

\* As long as reloads leave the cap alone, a lock tries no more passwords than
\* it says, and the entry is on as long as an attempt is left.
THEOREM AttemptsStayDecisive == SameCap => (Spec => []AttemptsDecideInput)
<1> SUFFICES ASSUME SameCap PROVE Spec => []AttemptsDecideInput
  OBVIOUS
<1>1. Init => Tallied /\ Spoken
  BY ConfigsAssumption DEF Init, NewScreen, OnStart, Tallied, Spoken, Voices,
     AttemptsDecideInput, NoDeadEnd, AttemptsAreCapped, Active
<1>2. TypeOK /\ TypeOK' /\ Coherent /\ Heard /\ Tallied /\ Spoken /\ [Next]_vars
        => (Tallied /\ Spoken)'
  BY NextTallied, NextSpoken
<1>3. Tallied => AttemptsDecideInput
  BY DEF Tallied
<1> QED
  BY <1>1, <1>2, <1>3, AlwaysCoherent, PTL DEF Spec

-----------------------------------------------------------------------------
\* Answers: one prompt of the present conversation is on its way, waits for
\* the user or is answered, and its worker waits for it all along.

Asks(e) == e.kind = "auth" /\ e.outcome = "prompt" /\ e.gen = scr.auth
Question == {i \in 1 .. Len(queue) : Asks(queue[i])}
Waits(w) == w.gen = scr.auth /\ w.phase = "ask" /\ ~w.reply

Conversing ==
  /\ \A v, w \in workers : v.gen = w.gen => v = w
  /\ \A w \in workers : /\ w.gen = scr.auth => ~w.cancelled
                        /\ w.reply => w.phase = "ask" \/ w.cancelled
  /\ scr.awaiting => Question = {}
  /\ \A i, j \in Question : i = j
  /\ scr.awaiting \/ Question # {} => \E w \in workers : Waits(w)

\* No event asks on behalf of no conversation.
LEMMA NobodyAsks ==
  ASSUME TypeOK, Heard, scr.auth = 0
  PROVE  Question = {}
BY DEF Question, Asks, Heard, Sound, Current

\* A queue that is handed no question has no other ones.
LEMMA QuestionKept ==
  ASSUME TypeOK, scr'.auth = scr.auth, \A i, j \in Question : i = j,
         \/ queue' = queue
         \/ queue # << >> /\ queue' = Tail(queue)
         \/ \E f : queue' = Append(queue, f) /\ ~Asks(f)
  PROVE  /\ Question' # {} => Question # {}
         /\ \A i, j \in Question' : i = j
<1>1. queue \in Seq(Event)
  BY DEF TypeOK
<1>2. CASE queue' = queue
  BY <1>2 DEF Question, Asks
<1>3. CASE queue # << >> /\ queue' = Tail(queue)
  <2>1. ASSUME NEW i \in Question' PROVE i \in Nat /\ i + 1 \in Question
    <3>1. i \in 1 .. Len(queue') /\ Asks(queue'[i])
      BY <2>1 DEF Question, Asks
    <3>2. i + 1 \in 1 .. Len(queue) /\ queue'[i] = queue[i + 1]
      BY <1>1, <1>3, <3>1
    <3> QED
      BY <3>1, <3>2 DEF Question
  <2> QED
    BY <2>1
<1>4. ASSUME NEW f, queue' = Append(queue, f), ~Asks(f)
      PROVE  Question' \subseteq Question
  <2> SUFFICES ASSUME NEW i \in Question' PROVE i \in Question
    OBVIOUS
  <2>1. i \in 1 .. Len(queue') /\ Asks(queue'[i])
    BY DEF Question, Asks
  <2>2. i \in 1 .. Len(queue) /\ queue'[i] = queue[i]
    BY <1>1, <1>4, <2>1
  <2> QED
    BY <2>1, <2>2 DEF Question
<1> QED
  BY <1>2, <1>3, <1>4

LEMMA SameConverses ==
  ASSUME TypeOK, Conversing, workers' = workers,
         scr'.auth = scr.auth, scr'.awaiting = scr.awaiting,
         \/ queue' = queue
         \/ queue # << >> /\ queue' = Tail(queue)
         \/ \E f : queue' = Append(queue, f) /\ ~Asks(f)
  PROVE  Conversing'
<1>1. /\ Question' # {} => Question # {}
      /\ \A i, j \in Question' : i = j
  BY QuestionKept DEF Conversing
<1>2. \A w \in workers : Waits(w) => Waits(w)'
  BY DEF Waits
<1> QED
  BY <1>1, <1>2 DEF Conversing

\* The screen drops its conversation.
LEMMA DroppedConverses ==
  ASSUME TypeOK, TypeOK', Conversing, Attended', Heard',
         scr'.auth = 0, scr'.awaiting = FALSE,
         workers' = workers \/ workers' = Cancel(workers, scr.auth)
  PROVE  Conversing'
<1>1. Question' = {}
  <2>1. \A i \in 1 .. Len(queue') : queue'[i].kind = "auth" => queue'[i].gen # 0
    BY DEF Heard, Sound, Current
  <2> QED
    BY <2>1 DEF Question, Asks
<1>2. \A w \in workers' : w.gen # 0
  BY DEF Attended, Current
<1> DEFINE After(w) == IF w.gen = scr.auth /\ workers' # workers
                       THEN [w EXCEPT !.cancelled = TRUE] ELSE w
<1>3. ASSUME NEW v \in workers'
      PROVE  \E w \in workers : /\ v = After(w)
                                /\ v.gen = w.gen /\ v.reply = w.reply
                                /\ v.phase = w.phase
                                /\ w.cancelled => v.cancelled
  <2>1. CASE workers' = workers
    BY <2>1
  <2>2. CASE workers' # workers
    <3>1. PICK w \in workers :
            v = IF w.gen = scr.auth THEN [w EXCEPT !.cancelled = TRUE] ELSE w
      BY <2>2 DEF Cancel
    <3>2. w \in Worker
      BY DEF TypeOK
    <3>3. /\ v.gen = w.gen /\ v.reply = w.reply /\ v.phase = w.phase
          /\ w.cancelled => v.cancelled
      BY <3>1, <3>2 DEF Worker
    <3> QED
      BY <2>2, <3>1, <3>3
  <2> QED
    BY <2>1, <2>2
<1> HIDE DEF After
<1>4. \A v, u \in workers' : v.gen = u.gen => v = u
  BY <1>3 DEF Conversing
<1>5. \A v \in workers' : v.reply => v.phase = "ask" \/ v.cancelled
  BY <1>3 DEF Conversing
<1> QED
  BY <1>1, <1>2, <1>4, <1>5 DEF Conversing

\* The worker that waits for an answer gets one.
LEMMA AnsweredConverses ==
  ASSUME TypeOK, Conversing, \E w \in workers : Waits(w),
         scr'.auth = scr.auth, scr'.awaiting = FALSE, Question' = {},
         workers' = Answer(workers, scr.auth)
  PROVE  Conversing'
<1> DEFINE After(w) == IF w.gen = scr.auth THEN [w EXCEPT !.reply = TRUE] ELSE w
<1>1. ASSUME NEW v \in workers'
      PROVE  \E w \in workers : /\ v = After(w)
                                /\ v.gen = w.gen /\ v.phase = w.phase
                                /\ v.cancelled = w.cancelled
                                /\ v.reply => w.reply \/ w.gen = scr.auth
  <2>1. PICK w \in workers :
          v = IF w.gen = scr.auth THEN [w EXCEPT !.reply = TRUE] ELSE w
    BY DEF Answer
  <2>2. w \in Worker
    BY DEF TypeOK
  <2>3. /\ v.gen = w.gen /\ v.phase = w.phase /\ v.cancelled = w.cancelled
        /\ v.reply => w.reply \/ w.gen = scr.auth
    BY <2>1, <2>2 DEF Worker
  <2> QED
    BY <2>1, <2>3
<1> HIDE DEF After
<1>2. \A v, u \in workers' : v.gen = u.gen => v = u
  BY <1>1 DEF Conversing
<1>3. \A v \in workers' : v.gen = scr'.auth => ~v.cancelled
  BY <1>1 DEF Conversing
<1>4. \A w \in workers : w.gen = scr.auth => w.phase = "ask"
  BY DEF Conversing, Waits
<1>5. \A v \in workers' : v.reply => v.phase = "ask" \/ v.cancelled
  BY <1>1, <1>4 DEF Conversing
<1> QED
  BY <1>2, <1>3, <1>5 DEF Conversing

LEMMA AuthConverses ==
  ASSUME TypeOK, TypeOK', Attended, Attended', Heard', Spoken, Conversing,
         queue # << >>, queue' = Tail(queue), NEW e, e = Head(queue),
         e.kind = "auth", OnAuthEvent(e)
  PROVE  Conversing'
<1>1. /\ scr \in Screen /\ queue \in Seq(Event)
      /\ 1 \in 1 .. Len(queue) /\ e = queue[1]
  BY DEF TypeOK
<1>2. CASE scr' = scr /\ workers' = workers
  BY <1>2, SameConverses
<1>3. CASE Release
  <2>1. scr'.auth = 0 /\ scr'.awaiting = FALSE
    BY <1>1, <1>3, ScreenFields, TallyFields DEF Release
  <2> QED
    BY <1>3, <2>1, DroppedConverses DEF Release
<1>4. CASE OnFailure
  <2>1. ResetAuth(scr) \in Screen
    BY <1>1, ResetAuthType
  <2>2. scr'.auth = ResetAuth(scr).auth /\ scr'.awaiting = ResetAuth(scr).awaiting
    BY <1>4, <2>1 DEF OnFailure, Screen
  <2>3. scr'.auth = 0 /\ scr'.awaiting = FALSE
    BY <1>1, <2>2, ScreenFields, TallyFields
  <2> QED
    BY <1>4, <2>3, DroppedConverses DEF OnFailure
<1>5. CASE e.gen = scr.authGen /\ e.outcome = "prompt" /\ OnPrompt
  <2>1. e.gen \in Voices
    BY <1>1 DEF Voices
  <2>2. 1 \in Question
    BY <1>1, <1>5, <2>1 DEF Spoken, Attended, Question, Asks
  <2>3. scr'.auth = scr.auth /\ ~scr.awaiting /\ \E w \in workers : Waits(w)
    BY <1>1, <1>5, <2>2 DEF OnPrompt, Screen, Conversing
  <2>4. Question' = {}
    <3> SUFFICES ASSUME NEW i \in Question' PROVE FALSE
      OBVIOUS
    <3>1. i \in 1 .. Len(queue') /\ Asks(queue'[i])
      BY <2>3 DEF Question, Asks
    <3>2. i + 1 \in 1 .. Len(queue) /\ queue'[i] = queue[i + 1] /\ i + 1 # 1
      BY <1>1, <3>1
    <3>3. i + 1 \in Question
      BY <3>1, <3>2 DEF Question
    <3> QED
      BY <2>2, <3>2, <3>3 DEF Conversing
  <2>5. CASE workers' = Answer(workers, scr.auth) /\ scr'.awaiting = scr.awaiting
    <3>1. scr'.awaiting = FALSE
      BY <1>1, <2>3, <2>5 DEF Screen
    <3> QED
      BY <2>3, <2>4, <2>5, <3>1, AnsweredConverses
  <2>6. CASE workers' = workers
    BY <2>3, <2>4, <2>6 DEF Conversing, Waits
  <2> QED
    BY <1>1, <1>5, <2>5, <2>6 DEF OnPrompt, Screen
<1> QED
  BY <1>2, <1>3, <1>4, <1>5 DEF OnAuthEvent, OnInfo, screen

LEMMA LoopConverses ==
  ASSUME TypeOK, TypeOK', Attended, Attended', Heard', Spoken, Conversing, LoopStep
  PROVE  Conversing'
<1> DEFINE e == Head(queue)
<1>1. scr \in Screen /\ queue # << >> /\ queue' = Tail(queue)
  BY DEF TypeOK, LoopStep
<1>2. CASE scr' = scr /\ workers' = workers
  BY <1>1, <1>2, SameConverses
<1>3. CASE /\ scr' \in {ArmBlank([Opened(scr) EXCEPT !.clock = TRUE]), Opened(scr), Ended(scr)}
           /\ workers' = Cancel(workers, scr.auth)
  <2>1. scr'.auth = 0
    BY <1>1, <1>3, LockFields, ScreenFields
  <2>2. scr'.awaiting = FALSE
    <3> DEFINE u == [Opened(scr) EXCEPT !.clock = TRUE]
    <3>1. Opened(scr) \in Screen
      BY <1>1, ScreenTypes
    <3>2. u \in Screen /\ u.awaiting = Opened(scr).awaiting
      BY <3>1 DEF Screen
    <3>3. scr' \in {ArmBlank(u), Opened(scr), Ended(scr)}
      BY <1>3
    <3> HIDE DEF u
    <3>4. Opened(scr).awaiting = FALSE /\ Ended(scr).awaiting = FALSE
      BY <1>1, TallyFields
    <3>5. ArmBlank(u).awaiting = u.awaiting
      BY <3>2, TallyFields
    <3> QED
      BY <3>2, <3>3, <3>4, <3>5
  <2> QED
    BY <1>3, <2>1, <2>2, DroppedConverses
<1>4. CASE e.kind = "auth" /\ OnAuthEvent(e)
  <2> HIDE DEF e
  <2>1. e = Head(queue)
    BY DEF e
  <2> QED
    BY <1>1, <1>4, <2>1, AuthConverses
<1>5. CASE OnBlank(e)
  <2>1. scr'.auth = scr.auth /\ scr'.awaiting = scr.awaiting /\ workers' = workers
    BY <1>1, <1>5 DEF OnBlank, Screen
  <2> QED
    BY <1>1, <2>1, SameConverses
<1> QED
  BY <1>2, <1>3, <1>4, <1>5 DEF LoopStep, Lock, Release, screen

LEMMA EnterConverses ==
  ASSUME TypeOK, TypeOK', Attended, Attended', Heard, Heard', Conversing, Enter
  PROVE  Conversing'
<1>1. scr \in Screen /\ scr.authGen \in Nat /\ queue' = queue
  BY DEF TypeOK, Screen, Enter
<1>2. CASE Release
  <2>1. scr'.auth = 0 /\ scr'.awaiting = FALSE
    BY <1>1, <1>2, ScreenFields, TallyFields DEF Release
  <2> QED
    BY <1>2, <2>1, DroppedConverses DEF Release
<1>3. CASE scr.awaiting /\ TookAnswer
  <2>1. scr'.auth = scr.auth /\ scr'.awaiting = FALSE
    BY <1>1, <1>3 DEF TookAnswer, Screen
  <2>2. Question' = {} /\ \E w \in workers : Waits(w)
    BY <1>1, <1>3, <2>1 DEF Conversing, Question, Asks
  <2> QED
    BY <1>3, <2>1, <2>2, AnsweredConverses DEF TookAnswer
<1>4. CASE ~scr.awaiting /\ StartConversation
  <2>1. scr'.auth = scr.authGen + 1 /\ scr'.awaiting = scr.awaiting
    BY <1>1, <1>4 DEF StartConversation, Screen
  <2>2. Question' = {}
    <3>1. \A i \in 1 .. Len(queue) :
            queue[i].kind = "auth" => queue[i].gen \in 1 .. scr.authGen
      BY DEF Heard, Sound, Current
    <3> QED
      BY <1>1, <2>1, <3>1 DEF Question, Asks
  <2>3. \A w \in workers : w.gen \in 1 .. scr.authGen
    BY DEF Attended, Current
  <2> DEFINE started ==
        [no |-> tries.all + 1, gen |-> scr.authGen + 1, lock |-> lockNo,
         phase |-> "run", reply |-> FALSE, cancelled |-> FALSE]
  <2>4. /\ workers' = workers \cup {started} /\ started.gen = scr.authGen + 1
        /\ ~started.reply /\ ~started.cancelled
    BY <1>4 DEF StartConversation
  <2> HIDE DEF started
  <2>5. \A v, w \in workers' : v.gen = w.gen => v = w
    BY <1>1, <2>3, <2>4 DEF Conversing
  <2>6. \A w \in workers' : /\ w.gen = scr'.auth => ~w.cancelled
                            /\ w.reply => w.phase = "ask" \/ w.cancelled
    BY <1>1, <2>1, <2>3, <2>4 DEF Conversing
  <2> QED
    BY <1>4, <2>1, <2>2, <2>5, <2>6 DEF Conversing
<1> QED
  BY <1>2, <1>3, <1>4 DEF Enter, Submit

\* A worker is taken out or changes its phase. It was not waiting if it is the
\* present one and runs or has its answer, so nobody asks for it.
LEMMA WorkerConverses ==
  ASSUME TypeOK, Attended, Conversing, UNCHANGED screen,
         NEW w \in workers, WorkerAsks(w) \/ WorkerAnswered(w) \/ WorkerEnds(w)
  PROVE  Conversing'
<1>1. /\ w \in Worker /\ queue \in Seq(Event) /\ scr' = scr
      /\ w.gen # scr.auth => w.cancelled
      /\ w.gen = scr.auth => ~w.cancelled
  BY DEF TypeOK, screen, Attended, OneLiveConversation, Conversing
<1>2. w.gen = scr.auth /\ ~Waits(w) => ~scr.awaiting /\ Question = {}
  BY DEF Conversing, Waits
<1>3. \A v \in workers : Waits(v) <=> Waits(v)'
  BY <1>1 DEF Waits
<1>4. ASSUME NEW x, x \in Worker, x.gen = w.gen, x.cancelled = w.cancelled,
             x.reply => x.phase = "ask" \/ x.cancelled,
             workers' = (workers \ {w}) \cup {x} \/ workers' = workers \ {w},
             \/ queue' = queue
             \/ \E f : queue' = Append(queue, f) /\ ~Asks(f),
             w.gen = scr.auth => ~Waits(w)
      PROVE  Conversing'
  <2>1. \A u, v \in workers' : u.gen = v.gen => u = v
    BY <1>4 DEF Conversing
  <2>2. \A v \in workers' : /\ v.gen = scr'.auth => ~v.cancelled
                            /\ v.reply => v.phase = "ask" \/ v.cancelled
    BY <1>1, <1>4 DEF Conversing
  <2>3. /\ Question' # {} => Question # {}
        /\ \A i, j \in Question' : i = j
    BY <1>1, <1>4, QuestionKept DEF Conversing
  <2>4. scr.awaiting \/ Question # {} => \E v \in workers \ {w} : Waits(v)
    BY <1>2, <1>4 DEF Conversing, Waits
  <2> QED
    BY <1>1, <1>3, <1>4, <2>1, <2>2, <2>3, <2>4 DEF Conversing
<1>5. CASE WorkerAsks(w)
  <2>1. CASE queue' = Said(w, "info") /\ workers' = workers
    <3> DEFINE f == [kind |-> "auth", outcome |-> "info", gen |-> w.gen, lock |-> w.lock]
    <3>1. ~Asks(f) /\ queue' = Append(queue, f)
      BY <2>1 DEF Asks, Said
    <3> HIDE DEF f
    <3> QED
      BY <1>1, <2>1, <3>1, SameConverses
  <2>2. CASE queue' = Said(w, "prompt") /\ Becomes(w, [w EXCEPT !.phase = "ask"])
    <3> DEFINE f == [kind |-> "auth", outcome |-> "prompt", gen |-> w.gen, lock |-> w.lock]
               x == [w EXCEPT !.phase = "ask"]
    <3>1. /\ x \in Worker /\ x.gen = w.gen /\ x.cancelled = w.cancelled
          /\ x.reply = w.reply /\ x.phase = "ask" /\ ~Waits(w)
      BY <1>1, <1>5 DEF Worker, WorkerAsks, Waits
    <3>2. workers' = (workers \ {w}) \cup {x} /\ queue' = Append(queue, f)
      BY <2>2 DEF Becomes, Said
    <3>3. f.kind = "auth" /\ f.outcome = "prompt" /\ f.gen = w.gen
      OBVIOUS
    <3> HIDE DEF f, x
    <3>4. CASE w.gen # scr.auth
      <4>1. ~Asks(f)
        BY <3>3, <3>4 DEF Asks
      <4> QED
        BY <1>4, <3>1, <3>2, <3>4, <4>1
    <3>5. CASE w.gen = scr.auth
      <4>1. ~scr.awaiting /\ Question = {} /\ ~w.cancelled /\ ~w.reply
        BY <1>1, <1>2, <1>5, <3>1, <3>5 DEF Conversing, WorkerAsks
      <4>2. Question' \subseteq {Len(queue) + 1}
        <5> SUFFICES ASSUME NEW i \in Question', i # Len(queue) + 1 PROVE FALSE
          OBVIOUS
        <5>1. i \in 1 .. Len(queue) /\ queue'[i] = queue[i] /\ Asks(queue'[i])
          BY <1>1, <3>2 DEF Question, Asks
        <5> QED
          BY <4>1, <5>1 DEF Question
      <4>3. \A u, v \in workers' : u.gen = v.gen => u = v
        BY <3>1, <3>2 DEF Conversing
      <4>4. \A v \in workers' : /\ v.gen = scr'.auth => ~v.cancelled
                                /\ v.reply => v.phase = "ask" \/ v.cancelled
        BY <1>1, <3>1, <3>2 DEF Conversing
      <4>5. x \in workers' /\ Waits(x)'
        BY <1>1, <3>1, <3>2, <3>5, <4>1 DEF Waits
      <4> QED
        BY <1>1, <4>1, <4>2, <4>3, <4>4, <4>5 DEF Conversing
    <3> QED
      BY <3>4, <3>5
  <2> QED
    BY <1>5, <2>1, <2>2 DEF WorkerAsks
<1>6. CASE WorkerAnswered(w)
  <2>1. CASE w.reply /\ Becomes(w, [w EXCEPT !.phase = "run", !.reply = FALSE])
    <3> DEFINE x == [w EXCEPT !.phase = "run", !.reply = FALSE]
    <3>1. /\ x \in Worker /\ x.gen = w.gen /\ x.cancelled = w.cancelled
          /\ ~x.reply /\ ~Waits(w) /\ workers' = (workers \ {w}) \cup {x}
      BY <1>1, <2>1 DEF Worker, Waits, Becomes
    <3> HIDE DEF x
    <3> QED
      BY <1>4, <1>6, <3>1 DEF WorkerAnswered
  <2>2. CASE w.cancelled /\ Becomes(w, [w EXCEPT !.phase = "run"])
    <3> DEFINE x == [w EXCEPT !.phase = "run"]
    <3>1. /\ x \in Worker /\ x.gen = w.gen /\ x.cancelled = w.cancelled
          /\ workers' = (workers \ {w}) \cup {x}
      BY <1>1, <2>2 DEF Worker, Becomes
    <3>2. w.gen # scr.auth
      BY <1>1, <2>2
    <3> HIDE DEF x
    <3> QED
      BY <1>4, <1>6, <2>2, <3>1, <3>2 DEF WorkerAnswered
  <2> QED
    BY <1>6, <2>1, <2>2 DEF WorkerAnswered
<1>7. CASE WorkerEnds(w)
  <2>1. PICK outcome \in {"success", "failure"} : queue' = Said(w, outcome)
    BY <1>7 DEF WorkerEnds
  <2> DEFINE f == [kind |-> "auth", outcome |-> outcome, gen |-> w.gen, lock |-> w.lock]
  <2>2. ~Asks(f) /\ queue' = Append(queue, f)
    BY <2>1 DEF Asks, Said
  <2> HIDE DEF f
  <2>3. ~Waits(w) /\ workers' = workers \ {w} /\ (w.reply => w.phase = "ask" \/ w.cancelled)
    BY <1>7 DEF WorkerEnds, Waits, Conversing
  <2> QED
    BY <1>1, <1>4, <2>2, <2>3
<1> QED
  BY <1>5, <1>6, <1>7

LEMMA NextConverses ==
  ASSUME TypeOK, TypeOK', Coherent, Coherent', Heard, Heard', Spoken, Conversing,
         [Next]_vars
  PROVE  Conversing'
<1>1. scr \in Screen /\ Attended /\ Attended'
  BY DEF TypeOK, Coherent
<1>2. CASE LoopStep
  BY <1>1, <1>2, LoopConverses
<1>3. CASE Enter
  BY <1>1, <1>3, EnterConverses
<1>4. CASE Activity
  <2> DEFINE lit == [scr EXCEPT !.blanked = FALSE]
  <2>1. lit \in Screen /\ lit.auth = scr.auth /\ lit.awaiting = scr.awaiting
    BY <1>1 DEF Screen
  <2> HIDE DEF lit
  <2>2. scr' = ArmBlank(lit) /\ UNCHANGED <<queue, workers>>
    BY <1>4 DEF Activity, lit
  <2>3. scr'.auth = scr.auth /\ scr'.awaiting = scr.awaiting
    BY <2>1, <2>2, ArmBlankFields, TallyFields
  <2> QED
    BY <2>2, <2>3, SameConverses
<1>5. CASE GraceEnds \/ OnLocked
  <2>1. scr'.auth = scr.auth /\ scr'.awaiting = scr.awaiting
    BY <1>1, <1>5 DEF GraceEnds, OnLocked, Screen
  <2>2. UNCHANGED <<queue, workers>>
    BY <1>5 DEF GraceEnds, OnLocked
  <2> QED
    BY <2>1, <2>2, SameConverses
<1>6. CASE BlankTimerFires
  <2>1. scr'.auth = scr.auth /\ scr'.awaiting = scr.awaiting /\ workers' = workers
    BY <1>1, <1>6 DEF BlankTimerFires, Screen
  <2>2. PICK f : queue' = Append(queue, f) /\ f.kind = "blank"
    BY <1>6 DEF BlankTimerFires
  <2>3. ~Asks(f)
    BY <2>2 DEF Asks
  <2> QED
    BY <2>1, <2>2, <2>3, SameConverses
<1>7. CASE OnFinished
  <2>1. scr'.auth = 0 /\ scr'.awaiting = FALSE
    BY <1>1, <1>7, ScreenFields, TallyFields DEF OnFinished
  <2> QED
    BY <1>1, <1>7, <2>1, DroppedConverses DEF OnFinished
<1>8. CASE WorkerStep(WorkerAsks, Tries) \/ WorkerStep(WorkerAnswered, Tries)
           \/ WorkerStep(WorkerEnds, Tries)
  BY <1>1, <1>8, WorkerConverses DEF WorkerStep
<1>9. CASE Probe \/ \E kind \in {"lock", "unlock"} : Request(kind)
  <2>1. scr' = scr /\ workers' = workers
    BY <1>9 DEF Probe, Request, screen
  <2>2. queue' = queue \/ \E f : queue' = Append(queue, f) /\ f.kind # "auth"
    BY <1>9 DEF Probe, Request
  <2>3. queue' = queue \/ \E f : queue' = Append(queue, f) /\ ~Asks(f)
    BY <2>2 DEF Asks
  <2> QED
    BY <2>1, <2>3, SameConverses
<1>10. CASE Start
  <2>1. queue' = << >> \/ queue' = <<[kind |-> "lock"]>>
    BY <1>10 DEF Start, OnStart
  <2>2. Question' = {}
    BY <2>1 DEF Question, Asks
  <2> QED
    BY <1>10, <2>2 DEF Start, screen, Conversing, Waits
<1>11. CASE Crash
  <2>1. workers' = {} /\ queue' = << >> /\ scr'.awaiting = FALSE
    BY <1>11 DEF Crash, NewScreen
  <2> QED
    BY <2>1 DEF Conversing, Question
<1>12. CASE Grant \/ HintArrives \/ (\E c \in Configs : SetConfig(c)) \/ UNCHANGED vars
  <2>1. scr' = scr /\ UNCHANGED <<queue, workers>>
    BY <1>12 DEF Grant, HintArrives, SetConfig, vars, screen
  <2> QED
    BY <2>1, SameConverses
<1> QED
  BY <1>2, <1>3, <1>4, <1>5, <1>6, <1>7, <1>8, <1>9, <1>10, <1>11, <1>12 DEF Next

\* However late the loop is, an answer in a slot is for the prompt its worker
\* waits in, and an entry that awaits one has a worker that waits.
THEOREM AnswersStayWithPrompts == Spec => []AnswersMeetTheirPrompt
<1>1. Init => Spoken /\ Conversing
  BY DEF Init, NewScreen, OnStart, Spoken, Voices, Conversing, Question, Asks
<1>2. TypeOK /\ TypeOK' /\ Coherent /\ Coherent' /\ Heard /\ Heard' /\ Spoken
        /\ Conversing /\ [Next]_vars => (Spoken /\ Conversing)'
  BY NextSpoken, NextConverses
<1>3. Conversing => AnswersMeetTheirPrompt
  BY DEF Conversing, Waits, AnswersMeetTheirPrompt
<1> QED
  BY <1>1, <1>2, <1>3, AlwaysCoherent, PTL DEF Spec

-----------------------------------------------------------------------------
\* The promise of a session lock: who speaks for which lock.

\* The conversations and what they said that is still to be heard.
Speakers ==
  workers \cup {queue[i] : i \in {j \in 1 .. Len(queue) : queue[j].kind = "auth"}}

\* Nobody new speaks.
Hushed ==
  \A v \in workers' : \E w \in workers : v.gen = w.gen /\ v.lock = w.lock

\* A conversation reports its outcome last, and two are never of one generation.
Final(e) == e.kind = "auth" /\ e.outcome \in {"success", "failure"}
OneVoice == \A v, w \in workers : v.gen = w.gen => v = w
LastWord ==
  \A i \in 1 .. Len(queue) : Final(queue[i]) =>
    /\ \A w \in workers : w.gen # queue[i].gen
    /\ \A j \in 1 .. Len(queue) :
         j > i /\ queue[j].kind = "auth" => queue[j].gen # queue[i].gen

\* Whoever speaks for the present lock is its present conversation.
Timely ==
  /\ Active => lockNo >= 1
  /\ \A s \in Speakers : /\ s.lock \in 1 .. lockNo
                         /\ Active /\ s.lock = lockNo => s.gen = scr.authGen

\* A dead shell hears and says nothing.
Silent == ~alive => queue = << >> /\ workers = {}

Punctual == OneVoice /\ LastWord /\ Timely /\ Silent

\* A conversation starts.
Begins == Enter /\ scr.auth = 0 /\ StartConversation

LEMMA NextVoices ==
  ASSUME TypeOK, Coherent, OneVoice, [Next]_vars
  PROVE  /\ OneVoice'
         /\ Begins \/ Hushed
<1>1. workers \in SUBSET Worker /\ scr.authGen \in Nat
  BY DEF TypeOK, Screen
<1>2. CASE workers' = workers
  BY <1>2 DEF OneVoice, Hushed
<1>3. CASE workers' = Cancel(workers, scr.auth)
  <2>1. \A v \in workers' : \E w \in workers :
          /\ v.gen = w.gen /\ v.lock = w.lock
          /\ v = IF w.gen = scr.auth THEN [w EXCEPT !.cancelled = TRUE] ELSE w
    BY <1>1, <1>3 DEF Cancel, Worker
  <2>2. ASSUME NEW v \in workers', NEW u \in workers', v.gen = u.gen PROVE v = u
    <3>1. PICK w \in workers :
            v.gen = w.gen
            /\ v = IF w.gen = scr.auth THEN [w EXCEPT !.cancelled = TRUE] ELSE w
      BY <2>1
    <3>2. PICK x \in workers :
            u.gen = x.gen
            /\ u = IF x.gen = scr.auth THEN [x EXCEPT !.cancelled = TRUE] ELSE x
      BY <2>1
    <3>3. w = x
      BY <2>2, <3>1, <3>2 DEF OneVoice
    <3> QED
      BY <3>1, <3>2, <3>3
  <2> QED
    BY <2>1, <2>2 DEF OneVoice, Hushed
<1>4. CASE workers' = Answer(workers, scr.auth)
  <2>1. \A v \in workers' : \E w \in workers :
          /\ v.gen = w.gen /\ v.lock = w.lock
          /\ v = IF w.gen = scr.auth THEN [w EXCEPT !.reply = TRUE] ELSE w
    BY <1>1, <1>4 DEF Answer, Worker
  <2>2. ASSUME NEW v \in workers', NEW u \in workers', v.gen = u.gen PROVE v = u
    <3>1. PICK w \in workers :
            v.gen = w.gen
            /\ v = IF w.gen = scr.auth THEN [w EXCEPT !.reply = TRUE] ELSE w
      BY <2>1
    <3>2. PICK x \in workers :
            u.gen = x.gen
            /\ u = IF x.gen = scr.auth THEN [x EXCEPT !.reply = TRUE] ELSE x
      BY <2>1
    <3>3. w = x
      BY <2>2, <3>1, <3>2 DEF OneVoice
    <3> QED
      BY <3>1, <3>2, <3>3
  <2> QED
    BY <2>1, <2>2 DEF OneVoice, Hushed
<1>5. ASSUME NEW w \in workers, WorkerAsks(w) \/ WorkerAnswered(w) \/ WorkerEnds(w)
      PROVE  OneVoice' /\ Hushed
  <2>1. \A v \in {[w EXCEPT !.phase = "ask"], [w EXCEPT !.phase = "run"],
                  [w EXCEPT !.phase = "run", !.reply = FALSE]} :
          v.gen = w.gen /\ v.lock = w.lock
    BY <1>1 DEF Worker
  <2>2. \/ workers' = workers \/ workers' = workers \ {w}
        \/ \E v : v.gen = w.gen /\ v.lock = w.lock /\ workers' = (workers \ {w}) \cup {v}
    BY <1>5, <2>1 DEF WorkerAsks, WorkerAnswered, WorkerEnds, Becomes
  <2> QED
    BY <2>2 DEF OneVoice, Hushed
<1>6. CASE Enter
  <2>1. CASE Enter /\ scr.auth = 0 /\ StartConversation
    <3> DEFINE started ==
          [no |-> tries.all + 1, gen |-> scr.authGen + 1, lock |-> lockNo,
           phase |-> "run", reply |-> FALSE, cancelled |-> FALSE]
    <3>1. workers' = workers \cup {started} /\ started.gen = scr.authGen + 1
      BY <2>1 DEF StartConversation
    <3>2. \A w \in workers : w.gen \in 1 .. scr.authGen
      BY DEF Coherent, Attended, Current
    <3> HIDE DEF started
    <3>3. OneVoice'
      BY <1>1, <3>1, <3>2 DEF OneVoice
    <3> QED
      BY <2>1, <3>3 DEF Begins
  <2>2. CASE TookAnswer \/ Release
    BY <1>3, <1>4, <2>2 DEF TookAnswer, Release
  <2> QED
    BY <1>6, <2>1, <2>2 DEF Enter, Submit
<1>7. CASE LoopStep
  BY <1>2, <1>3, <1>4, <1>7 DEF LoopStep, Lock, Release, OnAuthEvent, OnInfo,
     OnPrompt, OnFailure, OnBlank
<1>8. CASE Crash
  BY <1>8 DEF Crash, OneVoice, Hushed
<1>9. CASE OnFinished
  BY <1>3, <1>9 DEF OnFinished
<1>10. CASE \/ Activity \/ GraceEnds \/ Grant \/ OnLocked \/ HintArrives \/ Start
            \/ (\E c \in Configs : SetConfig(c)) \/ Probe \/ BlankTimerFires
            \/ (\E kind \in {"lock", "unlock"} : Request(kind)) \/ UNCHANGED vars
  BY <1>2, <1>10 DEF Activity, GraceEnds, Grant, OnLocked, HintArrives, Start,
     SetConfig, Probe, BlankTimerFires, Request, vars
<1> QED
  BY <1>5, <1>6, <1>7, <1>8, <1>9, <1>10 DEF Next, WorkerStep

\* What a step does to the queue.
LEMMA NextQueue ==
  ASSUME TypeOK, [Next]_vars
  PROVE  \/ /\ Crash \/ Start
            /\ \A i \in 1 .. Len(queue') : queue'[i].kind # "auth"
         \/ queue' = queue
         \/ LoopStep /\ queue # << >> /\ queue' = Tail(queue)
         \/ \E e \in Event : /\ e.kind # "auth" /\ queue' = Append(queue, e)
                             /\ workers' = workers
         \/ \E w \in workers, o \in Outcomes :
              /\ queue' = Said(w, o)
              /\ o \in {"success", "failure"} => workers' = workers \ {w}
<1>1. CASE LoopStep
  BY <1>1 DEF LoopStep
<1>2. CASE Crash
  BY <1>2 DEF Crash
<1>3. CASE Start
  <2>1. queue' = << >> \/ queue' = <<[kind |-> "lock"]>>
    BY <1>3 DEF Start, OnStart
  <2> QED
    BY <1>3, <2>1
<1>4. CASE (\E kind \in {"lock", "unlock"} : Request(kind)) \/ Probe
  <2>1. workers' = workers
    BY <1>4 DEF Request, Probe
  <2>2. \A kind \in {"lock", "unlock"} : [kind |-> kind] \in Event
                                        /\ [kind |-> kind].kind # "auth"
    BY EventIntro
  <2>3. queue' = queue \/ \E kind \in {"lock", "unlock"} :
                            queue' = Append(queue, [kind |-> kind])
    BY <1>4 DEF Request, Probe
  <2> QED
    BY <2>1, <2>2, <2>3
<1>5. CASE BlankTimerFires
  <2>1. workers' = workers
    BY <1>5 DEF BlankTimerFires
  <2>2. [kind |-> "blank", gen |-> scr.timer] \in Event
    BY GenTypes, EventIntro
  <2> QED
    BY <1>5, <2>1, <2>2 DEF BlankTimerFires
<1>6. ASSUME NEW w \in workers, WorkerAsks(w) \/ WorkerAnswered(w) \/ WorkerEnds(w)
      PROVE  queue' = queue
             \/ \E o \in Outcomes :
                  /\ queue' = Said(w, o)
                  /\ o \in {"success", "failure"} => workers' = workers \ {w}
  BY <1>6 DEF WorkerAsks, WorkerAnswered, WorkerEnds, Outcomes
<1>7. CASE \/ Enter \/ Activity \/ GraceEnds \/ Grant \/ OnLocked \/ OnFinished
           \/ HintArrives \/ UNCHANGED vars \/ \E c \in Configs : SetConfig(c)
  BY <1>7 DEF Enter, Activity, GraceEnds, Grant, OnLocked, OnFinished,
     HintArrives, SetConfig, vars
<1> QED
  BY <1>1, <1>2, <1>3, <1>4, <1>5, <1>6, <1>7 DEF Next, WorkerStep

LEMMA NextLastWord ==
  ASSUME TypeOK, TypeOK', Coherent, Heard, OneVoice, LastWord, [Next]_vars
  PROVE  LastWord'
<1>1. queue \in Seq(Event) /\ queue' \in Seq(Event) /\ scr.authGen \in Nat
  BY DEF TypeOK, Screen
<1>2. Begins \/ Hushed
  BY NextVoices
<1>3. \A i \in 1 .. Len(queue) : Final(queue[i]) => \A w \in workers' : w.gen # queue[i].gen
  <2>1. CASE Hushed
    BY <2>1 DEF Hushed, LastWord
  <2>2. CASE Begins
    <3>1. \A w \in workers' : w \in workers \/ w.gen = scr.authGen + 1
      BY <2>2 DEF Begins, StartConversation
    <3>2. \A i \in 1 .. Len(queue) : Final(queue[i]) => queue[i].gen \in 1 .. scr.authGen
      BY DEF Final, Heard, Sound, Current
    <3> QED
      BY <1>1, <3>1, <3>2 DEF LastWord
  <2> QED
    BY <1>2, <2>1, <2>2
<1>4. CASE \A i \in 1 .. Len(queue') : queue'[i].kind # "auth"
  BY <1>4 DEF LastWord, Final
<1>5. CASE queue' = queue
  BY <1>3, <1>5 DEF LastWord, Final
<1>6. CASE queue # << >> /\ queue' = Tail(queue)
  <2>1. \A i \in 1 .. Len(queue') : i + 1 \in 1 .. Len(queue) /\ queue'[i] = queue[i + 1]
    BY <1>1, <1>6
  <2> SUFFICES ASSUME NEW i \in 1 .. Len(queue'), Final(queue'[i])
               PROVE  /\ \A w \in workers' : w.gen # queue'[i].gen
                      /\ \A j \in 1 .. Len(queue') :
                           j > i /\ queue'[j].kind = "auth" => queue'[j].gen # queue'[i].gen
    BY DEF LastWord, Final
  <2>2. i + 1 \in 1 .. Len(queue) /\ queue'[i] = queue[i + 1] /\ Final(queue[i + 1])
    BY <2>1
  <2>3. ASSUME NEW j \in 1 .. Len(queue'), j > i, queue'[j].kind = "auth"
        PROVE  queue'[j].gen # queue'[i].gen
    <3>1. j + 1 \in 1 .. Len(queue) /\ queue'[j] = queue[j + 1] /\ j + 1 > i + 1
      BY <2>1, <2>3
    <3> QED
      BY <2>2, <2>3, <3>1 DEF LastWord
  <2> QED
    BY <1>3, <2>2, <2>3
<1>7. ASSUME NEW e \in Event, queue' = Append(queue, e),
             e.kind = "auth" => \E w \in workers :
               e.gen = w.gen /\ (Final(e) => workers' = workers \ {w})
      PROVE  LastWord'
  <2>1. /\ Len(queue') = Len(queue) + 1 /\ Len(queue) \in Nat
        /\ \A i \in 1 .. Len(queue) : queue'[i] = queue[i]
        /\ queue'[Len(queue) + 1] = e
    BY <1>1, <1>7
  <2>2. \A i \in 1 .. Len(queue') : i \in 1 .. Len(queue) \/ i = Len(queue) + 1
    BY <2>1
  <2>3. e.kind = "auth" => \A i \in 1 .. Len(queue) : Final(queue[i]) => e.gen # queue[i].gen
    BY <1>7 DEF LastWord
  <2>4. Final(e) => \A v \in workers' : v.gen # e.gen
    BY <1>7 DEF OneVoice, Final
  <2> SUFFICES ASSUME NEW i \in 1 .. Len(queue'), Final(queue'[i])
               PROVE  /\ \A w \in workers' : w.gen # queue'[i].gen
                      /\ \A j \in 1 .. Len(queue') :
                           j > i /\ queue'[j].kind = "auth" => queue'[j].gen # queue'[i].gen
    BY DEF LastWord, Final
  <2>5. CASE i \in 1 .. Len(queue)
    <3>1. queue'[i] = queue[i] /\ Final(queue[i])
      BY <2>1, <2>5
    <3>2. \A w \in workers' : w.gen # queue'[i].gen
      BY <1>3, <2>5, <3>1
    <3>3. ASSUME NEW j \in 1 .. Len(queue'), j > i, queue'[j].kind = "auth"
          PROVE  queue'[j].gen # queue'[i].gen
      BY <2>1, <2>2, <2>3, <2>5, <3>1, <3>3 DEF LastWord
    <3> QED
      BY <3>2, <3>3
  <2>6. CASE i = Len(queue) + 1
    BY <2>1, <2>4, <2>6
  <2> QED
    BY <2>2, <2>5, <2>6
<1>8. ASSUME NEW w \in workers, NEW o \in Outcomes, queue' = Said(w, o),
             o \in {"success", "failure"} => workers' = workers \ {w}
      PROVE  LastWord'
  <2> DEFINE f == [kind |-> "auth", outcome |-> o, gen |-> w.gen, lock |-> w.lock]
  <2>1. w.gen \in Nat /\ w.lock \in Nat
    BY DEF TypeOK, Worker
  <2>2. f \in Event /\ f.gen = w.gen /\ f.outcome = o
    BY <2>1, EventIntro
  <2>3. queue' = Append(queue, f)
    BY <1>8 DEF Said
  <2> HIDE DEF f
  <2> QED
    BY <1>7, <1>8, <2>2, <2>3 DEF Final
<1> QED
  BY <1>4, <1>5, <1>6, <1>7, <1>8, NextQueue DEF Final

LEMMA SpeakersKept ==
  ASSUME TypeOK, Hushed, [Next]_vars
  PROVE  \A s \in Speakers' : \E t \in Speakers : s.gen = t.gen /\ s.lock = t.lock
<1>1. queue \in Seq(Event)
  BY DEF TypeOK
<1> SUFFICES ASSUME NEW i \in 1 .. Len(queue'), queue'[i].kind = "auth"
             PROVE  \E t \in Speakers : queue'[i].gen = t.gen /\ queue'[i].lock = t.lock
  BY DEF Speakers, Hushed
<1>2. CASE queue' = queue
  BY <1>2 DEF Speakers
<1>3. CASE queue # << >> /\ queue' = Tail(queue)
  <2>1. i + 1 \in 1 .. Len(queue) /\ queue'[i] = queue[i + 1]
    BY <1>1, <1>3
  <2> QED
    BY <2>1 DEF Speakers
<1>4. ASSUME NEW e, queue' = Append(queue, e),
             e.kind = "auth" => \E w \in workers : e.gen = w.gen /\ e.lock = w.lock
      PROVE  \E t \in Speakers : queue'[i].gen = t.gen /\ queue'[i].lock = t.lock
  <2>1. CASE i \in 1 .. Len(queue)
    <3>1. queue'[i] = queue[i]
      BY <1>1, <1>4, <2>1
    <3> QED
      BY <2>1, <3>1 DEF Speakers
  <2>2. CASE i = Len(queue) + 1
    <3>1. queue'[i] = e
      BY <1>1, <1>4, <2>2
    <3> QED
      BY <1>4, <3>1 DEF Speakers
  <2> QED
    BY <1>1, <1>4, <2>1, <2>2
<1>5. ASSUME NEW w \in workers, NEW o \in Outcomes, queue' = Said(w, o)
      PROVE  \E t \in Speakers : queue'[i].gen = t.gen /\ queue'[i].lock = t.lock
  <2> DEFINE f == [kind |-> "auth", outcome |-> o, gen |-> w.gen, lock |-> w.lock]
  <2>1. f.gen = w.gen /\ f.lock = w.lock /\ queue' = Append(queue, f)
    BY <1>5 DEF Said
  <2> HIDE DEF f
  <2> QED
    BY <1>4, <2>1
<1> QED
  BY <1>2, <1>3, <1>4, <1>5, NextQueue

\* After a failure nobody speaks for the generation that failed.
LEMMA FailedIsOver ==
  ASSUME TypeOK, LastWord, queue # << >>, queue' = Tail(queue), Final(Head(queue)),
         Hushed, NEW s \in Speakers'
  PROVE  s.gen # Head(queue).gen
<1>1. queue \in Seq(Event)
  BY DEF TypeOK
<1>2. 1 \in 1 .. Len(queue) /\ queue[1] = Head(queue)
  BY <1>1
<1>3. CASE s \in workers'
  BY <1>2, <1>3 DEF LastWord, Hushed
<1>4. ASSUME NEW i \in 1 .. Len(queue'), queue'[i].kind = "auth"
      PROVE  queue'[i].gen # Head(queue).gen
  <2>1. i + 1 \in 1 .. Len(queue) /\ i + 1 > 1 /\ queue'[i] = queue[i + 1]
    BY <1>1
  <2> QED
    BY <1>2, <1>4, <2>1 DEF LastWord
<1> QED
  BY <1>3, <1>4 DEF Speakers

LEMMA NextTimely ==
  ASSUME TypeOK, TypeOK', Coherent, Heard, Spoken, Punctual, [Next]_vars
  PROVE  Timely'
<1>1. /\ scr \in Screen /\ scr.authGen \in Nat /\ scr'.authGen \in Nat
      /\ lockNo \in Nat /\ lockNo' \in Nat /\ queue \in Seq(Event)
      /\ OneVoice /\ LastWord /\ Timely
  BY DEF TypeOK, Screen, Punctual
<1>2. CASE Begins
  <2>1. /\ scr'.authGen = scr.authGen + 1 /\ Active' /\ Active
        /\ UNCHANGED <<queue, lockNo>>
    BY <1>1, <1>2 DEF Begins, Enter, StartConversation, Screen, Active
  <2>2. \A s \in Speakers : s.gen \in Voices
    BY DEF Speakers, Voices
  <2>3. \A s \in Speakers : s.lock \in 1 .. lockNo /\ s.lock # lockNo
    BY <1>1, <1>2, <2>1, <2>2 DEF Timely, Spoken, Begins
  <2>4. \A w \in workers' :
          w \in workers \/ (w.gen = scr.authGen + 1 /\ w.lock = lockNo)
    <3> DEFINE started ==
          [no |-> tries.all + 1, gen |-> scr.authGen + 1, lock |-> lockNo,
           phase |-> "run", reply |-> FALSE, cancelled |-> FALSE]
    <3>1. /\ started.gen = scr.authGen + 1 /\ started.lock = lockNo
          /\ workers' = workers \cup {started}
      BY <1>2 DEF Begins, StartConversation
    <3> HIDE DEF started
    <3>2. \A w \in workers' : w \in workers \/ w = started
      BY <3>1
    <3> QED
      BY <3>1, <3>2
  <2>5. \A s \in Speakers' :
          s \in Speakers \/ (s.gen = scr.authGen + 1 /\ s.lock = lockNo)
    <3> SUFFICES ASSUME NEW s \in Speakers'
                 PROVE  s \in Speakers \/ (s.gen = scr.authGen + 1 /\ s.lock = lockNo)
      OBVIOUS
    <3>1. s \in workers' \/ \E i \in 1 .. Len(queue') : queue'[i].kind = "auth" /\ s = queue'[i]
      BY DEF Speakers
    <3>2. ASSUME NEW i \in 1 .. Len(queue'), queue'[i].kind = "auth", s = queue'[i]
          PROVE  s \in Speakers
      BY <2>1, <3>2 DEF Speakers
    <3>3. CASE s \in workers'
      BY <2>4, <3>3 DEF Speakers
    <3> QED
      BY <3>1, <3>2, <3>3
  <2> QED
    BY <1>1, <2>1, <2>3, <2>5 DEF Timely
<1>3. CASE Hushed
  <2>1. \A s \in Speakers' : \E t \in Speakers : s.gen = t.gen /\ s.lock = t.lock
    BY <1>3, SpeakersKept
  <2>2. ASSUME lockNo' = lockNo, scr'.authGen = scr.authGen, Active' => Active
        PROVE  Timely'
    BY <1>1, <2>1, <2>2 DEF Timely
  <2>3. ASSUME ~Active', lockNo' = lockNo PROVE Timely'
    BY <1>1, <2>1, <2>3 DEF Timely
  <2>4. ASSUME lockNo' = lockNo + 1 PROVE Timely'
    BY <1>1, <2>1, <2>4 DEF Timely
  <2>5. CASE Release /\ lockNo' = lockNo
    BY <2>3, <2>5 DEF Release, Active
  <2>6. CASE LoopStep
    <3> DEFINE e == Head(queue)
    <3>1. CASE Lock
      BY <2>2, <2>4, <3>1 DEF Lock, screen, Active
    <3>2. CASE (OnPrompt \/ OnBlank(e)) /\ lockNo' = lockNo
      <4>1. scr'.authGen = scr.authGen /\ locker' = locker
        BY <1>1, <3>2 DEF OnPrompt, OnBlank, Screen
      <4> QED
        BY <2>2, <3>2, <4>1 DEF Active
    <3>3. CASE e.kind = "auth" /\ e.gen = scr.authGen /\ e.outcome = "failure" /\ OnFailure
      <4>1. queue # << >> /\ queue' = Tail(queue) /\ lockNo' = lockNo /\ Final(e)
        BY <2>6, <3>3 DEF LoopStep, Lock, Final
      <4>2. \A s \in Speakers' : s.gen # scr.authGen
        BY <1>1, <1>3, <3>3, <4>1, FailedIsOver
      <4>3. Active' <=> Active
        BY <3>3 DEF OnFailure, Active
      <4> QED
        BY <1>1, <2>1, <4>1, <4>2, <4>3 DEF Timely
    <3>4. CASE UNCHANGED <<screen, lockNo>>
      BY <2>2, <3>4 DEF screen, Active
    <3> QED
      BY <2>5, <2>6, <3>1, <3>2, <3>3, <3>4 DEF LoopStep, OnAuthEvent, OnInfo
  <2>7. CASE Enter
    <3>1. CASE TookAnswer
      BY <1>1, <2>2, <2>7, <3>1 DEF TookAnswer, Enter, Screen, Active
    <3>2. CASE Enter /\ scr.auth = 0 /\ StartConversation
      BY <1>2, <3>2 DEF Begins
    <3> QED
      BY <2>5, <2>7, <3>1, <3>2 DEF Enter, Submit
  <2>8. CASE Activity
    <3> DEFINE lit == [scr EXCEPT !.blanked = FALSE]
    <3>1. lit \in Screen /\ lit.authGen = scr.authGen
      BY <1>1 DEF Screen
    <3>2. scr' = ArmBlank(lit)
      BY <2>8 DEF Activity
    <3> HIDE DEF lit
    <3> QED
      BY <2>2, <2>8, <3>1, <3>2, ArmBlankFields DEF Activity, Active
  <2>9. CASE GraceEnds \/ BlankTimerFires \/ OnLocked
    <3>1. scr'.authGen = scr.authGen
      BY <1>1, <2>9 DEF GraceEnds, BlankTimerFires, OnLocked, Screen
    <3> QED
      BY <2>2, <2>9, <3>1 DEF GraceEnds, BlankTimerFires, OnLocked, Active
  <2>10. CASE OnFinished \/ Crash
    BY <2>3, <2>10 DEF OnFinished, Crash, Active
  <2>11. CASE UNCHANGED <<screen, lockNo>>
    BY <2>2, <2>11 DEF screen, Active
  <2>12. CASE \/ \E c \in Configs : SetConfig(c)
              \/ \E kind \in {"lock", "unlock"} : Request(kind)
              \/ WorkerStep(WorkerAsks, Tries) \/ WorkerStep(WorkerAnswered, Tries)
              \/ WorkerStep(WorkerEnds, Tries)
              \/ Grant \/ HintArrives \/ Probe \/ Start \/ UNCHANGED vars
    BY <2>11, <2>12 DEF SetConfig, Request, WorkerStep, Grant, HintArrives, Probe,
       Start, vars
  <2> QED
    BY <2>6, <2>7, <2>8, <2>9, <2>10, <2>12 DEF Next
<1> QED
  BY <1>2, <1>3, NextVoices DEF Punctual

LEMMA NextSilent ==
  ASSUME TypeOK, Silent, [Next]_vars
  PROVE  Silent'
<1>1. CASE alive'
  BY <1>1 DEF Silent
<1>2. CASE Crash
  BY <1>2 DEF Crash, Silent
<1>3. CASE ~alive' /\ ~Crash
  <2>1. CASE WorkerStep(WorkerAsks, Tries) \/ WorkerStep(WorkerAnswered, Tries)
             \/ WorkerStep(WorkerEnds, Tries)
    BY <1>3, <2>1 DEF WorkerStep, Silent
  <2>2. CASE HintArrives \/ UNCHANGED vars
    BY <2>2 DEF HintArrives, vars, Silent
  <2>3. CASE ~WorkerStep(WorkerAsks, Tries) /\ ~WorkerStep(WorkerAnswered, Tries)
             /\ ~WorkerStep(WorkerEnds, Tries) /\ ~HintArrives /\ ~UNCHANGED vars
    <3>1. \/ LoopStep \/ Enter \/ Activity \/ GraceEnds \/ BlankTimerFires
          \/ Grant \/ OnLocked \/ OnFinished \/ Probe \/ Start
          \/ \E c \in Configs : SetConfig(c)
          \/ \E kind \in {"lock", "unlock"} : Request(kind)
      BY <1>3, <2>3 DEF Next
    <3>2. alive'
      <4>1. CASE LoopStep \/ Enter \/ OnLocked \/ OnFinished
        <5>1. CASE LoopStep
          BY <5>1 DEF LoopStep
        <5>2. CASE Enter
          BY <5>2 DEF Enter
        <5>3. CASE OnLocked
          BY <5>3 DEF OnLocked
        <5>4. CASE OnFinished
          BY <5>4 DEF OnFinished
        <5> QED
          BY <4>1, <5>1, <5>2, <5>3, <5>4
      <4>2. CASE \/ Activity \/ GraceEnds \/ BlankTimerFires \/ Grant \/ Probe \/ Start
                 \/ \E c \in Configs : SetConfig(c)
                 \/ \E kind \in {"lock", "unlock"} : Request(kind)
        BY <4>2 DEF Activity, GraceEnds, SetConfig, Request, BlankTimerFires, Grant,
           Probe, Start, logind
      <4> QED
        BY <3>1, <4>1, <4>2
    <3> QED
      BY <1>3, <3>2
  <2> QED
    BY <2>1, <2>2, <2>3
<1> QED
  BY <1>1, <1>2, <1>3

LEMMA AlwaysPunctual == Spec => [](TypeOK /\ Coherent /\ Heard /\ Spoken /\ Punctual)
<1>1. Init => Spoken /\ Punctual
  <2> SUFFICES ASSUME Init PROVE Spoken /\ Punctual
    OBVIOUS
  <2>1. \A i \in 1 .. Len(queue) : queue[i].kind # "auth"
    BY DEF Init, OnStart
  <2>2. workers = {} /\ alive /\ ~Active
    BY DEF Init, Active
  <2> QED
    BY <2>1, <2>2 DEF Spoken, Voices, Punctual, OneVoice, LastWord, Final, Timely,
       Speakers, Silent
<1>2. /\ TypeOK /\ TypeOK' /\ Coherent /\ Heard /\ Spoken /\ Punctual /\ [Next]_vars
      => (Spoken /\ Punctual)'
  <2> SUFFICES ASSUME TypeOK, TypeOK', Coherent, Heard, Spoken, Punctual, [Next]_vars
               PROVE  (Spoken /\ Punctual)'
    OBVIOUS
  <2>1. OneVoice /\ LastWord /\ Silent
    BY DEF Punctual
  <2> QED
    BY <2>1, NextSpoken, NextVoices, NextLastWord, NextTimely, NextSilent DEF Punctual
<1> QED
  BY <1>1, <1>2, AlwaysCoherent, PTL DEF Spec

-----------------------------------------------------------------------------
\* The promise of a session lock: the steps.

Success(e) == e.kind = "auth" /\ e.outcome = "success"

LEMMA SameSays == ASSUME queue' = queue PROVE Proved' = Proved /\ Bidden' = Bidden
BY DEF Proved, Bidden

\* What the loop takes from the queue is no longer under way.
LEMMA TailSays ==
  ASSUME queue \in Seq(Event), queue # << >>, queue' = Tail(queue)
  PROVE  /\ Success(Head(queue)) =>
              /\ Head(queue).lock \in Proved
              /\ Proved' \in {Proved, Proved \ {Head(queue).lock}}
         /\ ~Success(Head(queue)) => Proved' = Proved
         /\ Head(queue).kind # "unlock" => (Bidden' <=> Bidden)
         /\ Head(queue).kind = "unlock" => Bidden
<1>1. /\ DOMAIN queue = 1 .. Len(queue) /\ DOMAIN queue' = 1 .. Len(queue')
      /\ 1 \in 1 .. Len(queue) /\ queue[1] = Head(queue)
      /\ Len(queue') = Len(queue) - 1
  OBVIOUS
<1>2. \A i \in 1 .. Len(queue') : i + 1 \in 1 .. Len(queue) /\ queue'[i] = queue[i + 1]
  BY <1>1
<1>3. \A i \in 1 .. Len(queue) : i = 1 \/ (i - 1 \in 1 .. Len(queue') /\ queue[i] = queue'[i - 1])
  BY <1>1
<1>4. \A l : l \in Proved <=> \E i \in 1 .. Len(queue) : Success(queue[i]) /\ l = queue[i].lock
  BY <1>1 DEF Proved, Success
<1>5. \A l : l \in Proved' <=> \E i \in 1 .. Len(queue') : Success(queue'[i]) /\ l = queue'[i].lock
  BY <1>1 DEF Proved, Success
<1>6. Proved' \subseteq Proved
  BY <1>2, <1>4, <1>5
<1>7. \A l \in Proved : l \in Proved' \/ (Success(Head(queue)) /\ l = Head(queue).lock)
  <2> SUFFICES ASSUME NEW i \in 1 .. Len(queue), Success(queue[i])
               PROVE  queue[i].lock \in Proved' \/ (Success(Head(queue)) /\ queue[i].lock = Head(queue).lock)
    BY <1>4
  <2> QED
    BY <1>1, <1>3, <1>5
<1>8. Success(Head(queue)) => Head(queue).lock \in Proved
  BY <1>1, <1>4
<1>9. /\ Bidden <=> \E i \in 1 .. Len(queue) : queue[i].kind = "unlock"
      /\ Bidden' <=> \E i \in 1 .. Len(queue') : queue'[i].kind = "unlock"
  BY <1>1 DEF Bidden
<1>10. /\ Head(queue).kind # "unlock" => (Bidden' <=> Bidden)
       /\ Head(queue).kind = "unlock" => Bidden
  BY <1>1, <1>2, <1>3, <1>9
<1> QED
  BY <1>6, <1>7, <1>8, <1>10

\* What is handed to the loop is under way.
LEMMA AppendSays ==
  ASSUME queue \in Seq(Event), NEW e \in Event, queue' = Append(queue, e)
  PROVE  /\ Success(e) => Proved' = Proved \cup {e.lock}
         /\ ~Success(e) => Proved' = Proved
         /\ e.kind = "unlock" => Bidden'
         /\ e.kind # "unlock" => (Bidden' <=> Bidden)
<1>1. /\ DOMAIN queue = 1 .. Len(queue) /\ DOMAIN queue' = 1 .. Len(queue')
      /\ Len(queue') = Len(queue) + 1 /\ queue'[Len(queue) + 1] = e
      /\ \A i \in 1 .. Len(queue) : i \in 1 .. Len(queue') /\ queue'[i] = queue[i]
      /\ \A i \in 1 .. Len(queue') : i \in 1 .. Len(queue) \/ i = Len(queue) + 1
      /\ Len(queue) + 1 \in 1 .. Len(queue')
  OBVIOUS
<1>2. \A l : l \in Proved <=> \E i \in 1 .. Len(queue) : Success(queue[i]) /\ l = queue[i].lock
  BY <1>1 DEF Proved, Success
<1>3. \A l : l \in Proved' <=> \E i \in 1 .. Len(queue') : Success(queue'[i]) /\ l = queue'[i].lock
  BY <1>1 DEF Proved, Success
<1>4. \A l : l \in Proved' <=> l \in Proved \/ (Success(e) /\ l = e.lock)
  BY <1>1, <1>2, <1>3
<1>5. /\ Bidden <=> \E i \in 1 .. Len(queue) : queue[i].kind = "unlock"
      /\ Bidden' <=> \E i \in 1 .. Len(queue') : queue'[i].kind = "unlock"
  BY <1>1 DEF Bidden
<1> QED
  BY <1>1, <1>4, <1>5

\* Which fields the helpers of the screen keep.
LEMMA AgeFields ==
  ASSUME NEW s \in Screen
  PROVE  /\ ResetAuth(s).lockedAt = s.lockedAt
         /\ Ended(s).lockedAt = "zero" /\ Opened(s).lockedAt = "recent"
         /\ ArmBlank(s).lockedAt = s.lockedAt
<1>1. ResetAuth(s).lockedAt = s.lockedAt /\ ArmBlank(s).lockedAt = s.lockedAt
  BY DEF ResetAuth, ArmBlank, Screen
<1>2. Opened(s).lockedAt = "recent"
  BY ResetAuthType DEF Opened, Screen
<1>3. Ended(s).lockedAt = "zero"
  <2> DEFINE t == ResetAuth(StopTimers(s))
  <2>1. t \in Screen /\ Ended(s) = [t EXCEPT !.confirmed = FALSE, !.attempts = 0,
                                             !.lockedAt = "zero"]
    BY StopTimersType, ResetAuthType DEF Ended
  <2> HIDE DEF t
  <2> QED
    BY <2>1 DEF Screen
<1> QED
  BY <1>1, <1>2, <1>3

LEMMA SessionFacts ==
  ASSUME TypeOK
  PROVE  /\ comp = "open" => Session = "open"
         /\ comp = "ours" <=> Session = "covered"
         /\ comp = "orphan" => Session = "abandoned"
BY DEF TypeOK, Session

\* The screen gives the lock up.
LEMMA EndedOpens ==
  ASSUME TypeOK, TypeOK', LockIsCovered, scr' = Ended(scr), locker' = "none",
         comp' = IF comp = "ours" THEN "open" ELSE comp
  PROVE  Guard!Open
<1>1. scr \in Screen
  BY DEF TypeOK
<1>2. scr'.lockedAt = "zero"
  BY <1>1, AgeFields
<1>3. ~Active'
  BY DEF Active
<1>4. Session' = IF Session = "covered" THEN "open" ELSE Session
  <2>1. CASE comp = "ours"
    BY <2>1 DEF Session
  <2>2. CASE comp # "ours"
    BY <2>2, SessionFacts DEF Session
  <2> QED
    BY <2>1, <2>2
<1> QED
  BY <1>2, <1>3, <1>4 DEF Guard!Open

\* The session, the lock and its age stay as they are.
LEMMA LockKept ==
  ASSUME comp' = comp, Active' <=> Active, scr'.lockedAt = scr.lockedAt
  PROVE  Guard!Kept
<1>1. Session' = Session
  BY DEF Session
<1> QED
  BY <1>1 DEF Guard!Kept

LEMMA LockGuards ==
  ASSUME TypeOK, TypeOK', Lock, UNCHANGED <<cfg, used>>,
         Proved' = Proved, Bidden' <=> Bidden
  PROVE  [Guard!Next]_(Guard!vars)
<1>1. scr \in Screen /\ Opened(scr) \in Screen
  BY ScreenTypes DEF TypeOK
<1>2. CASE UNCHANGED <<screen, comp, lockNo>>
  BY <1>2 DEF Guard!vars, screen, Active, Session
<1>3. CASE /\ ~Active /\ lockNo' = lockNo + 1 /\ comp' = comp
           /\ scr' \in {Opened(scr), ArmBlank([Opened(scr) EXCEPT !.clock = TRUE])}
  <2> DEFINE u == [Opened(scr) EXCEPT !.clock = TRUE]
  <2>1. u \in Screen /\ u.lockedAt = Opened(scr).lockedAt
    BY <1>1 DEF Screen
  <2>2. scr' \in {Opened(scr), ArmBlank(u)}
    BY <1>3
  <2> HIDE DEF u
  <2>3. scr'.lockedAt = "recent"
    BY <1>1, <2>1, <2>2, AgeFields
  <2>4. Active' \in BOOLEAN /\ Session' = Session
    BY <1>3 DEF Active, Session
  <2>5. Guard!Ask
    BY <1>3, <2>3, <2>4 DEF Guard!Ask
  <2> QED
    BY <2>5 DEF Guard!Next
<1> QED
  BY <1>2, <1>3 DEF Lock

\* What the user of the session sees is what it was.
LEMMA NothingSeen ==
  ASSUME Guard!Kept, Proved' = Proved, Bidden' <=> Bidden, UNCHANGED lockNo,
         cfg'.grace = cfg.grace, used'.ended = used.ended
  PROVE  [Guard!Next]_(Guard!vars)
BY DEF Guard!Kept, Guard!vars

\* What the loop makes of a conversation's news.
LEMMA NewsGuards ==
  ASSUME TypeOK, TypeOK', Coherent, Heard, Timely, queue # << >>,
         queue' = Tail(queue), Head(queue).kind = "auth", OnAuthEvent(Head(queue)),
         UNCHANGED <<cfg, used, lockNo>>
  PROVE  [Guard!Next]_(Guard!vars)
<1> DEFINE e == Head(queue)
<1>1. /\ queue \in Seq(Event) /\ scr \in Screen /\ LockIsCovered
      /\ 1 \in 1 .. Len(queue) /\ e = queue[1]
  <2>1. queue \in Seq(Event) /\ scr \in Screen /\ LockIsCovered
    BY DEF TypeOK, Coherent
  <2> QED
    BY <2>1
<1>2. Current(e.gen, e.lock)
  BY <1>1 DEF Heard, Sound
<1>3. /\ Success(e) => /\ e.lock \in Proved
                       /\ Proved' \in {Proved, Proved \ {e.lock}}
      /\ ~Success(e) => Proved' = Proved
      /\ Bidden' = Bidden
  BY <1>1, TailSays DEF Bidden
<1>4. CASE e.outcome = "success" /\ e.gen = scr.authGen
  <2>1. e.lock = lockNo
    BY <1>2, <1>4 DEF Current
  <2>2. Release
    BY <1>4 DEF OnAuthEvent
  <2>3. Guard!Open
    BY <1>1, <2>2, EndedOpens DEF Release
  <2>4. Guard!Hear(e.lock) /\ e.lock \in Proved
    BY <1>3, <1>4, <2>1, <2>3 DEF Guard!Hear, Success
  <2> QED
    BY <2>4 DEF Guard!Next
<1>5. CASE e.gen # scr.authGen
  <2>1. UNCHANGED <<screen, comp>>
    BY <1>5 DEF OnAuthEvent
  <2>2. Guard!Kept
    BY <2>1, LockKept DEF screen, Active
  <2>3. CASE Success(e)
    <3>1. e \in Speakers
      BY <1>1 DEF Speakers
    <3>2. e.lock # lockNo \/ ~Active
      BY <1>5, <3>1 DEF Timely
    <3>3. Guard!Hear(e.lock) /\ e.lock \in Proved
      BY <1>3, <2>2, <2>3, <3>2 DEF Guard!Hear
    <3> QED
      BY <3>3 DEF Guard!Next
  <2> QED
    BY <1>3, <2>2, <2>3, NothingSeen
<1>6. CASE e.gen = scr.authGen /\ e.outcome # "success"
  <2>1. comp' = comp /\ locker' = locker
    BY <1>6 DEF OnAuthEvent, OnInfo, OnPrompt, OnFailure, screen
  <2>2. scr'.lockedAt = scr.lockedAt
    <3>1. CASE OnFailure
      <4> DEFINE f == [ResetAuth(scr) EXCEPT !.attempts = @ + 1]
      <4>1. ResetAuth(scr) \in Screen /\ ResetAuth(scr).lockedAt = scr.lockedAt
        BY <1>1, ResetAuthType, AgeFields
      <4>2. scr' = [f EXCEPT !.inputOn = ~Exhausted(f)]
        BY <3>1 DEF OnFailure
      <4>3. f \in Screen /\ f.lockedAt = scr.lockedAt
        BY <4>1 DEF Screen
      <4> HIDE DEF f
      <4> QED
        BY <4>2, <4>3 DEF Screen
    <3>2. CASE OnInfo \/ OnPrompt
      BY <1>1, <3>2 DEF OnInfo, OnPrompt, screen, Screen
    <3> QED
      BY <1>6, <3>1, <3>2 DEF OnAuthEvent
  <2>3. Guard!Kept
    BY <2>1, <2>2, LockKept DEF Active
  <2> QED
    BY <1>3, <1>6, <2>3, NothingSeen DEF Success
<1> QED
  BY <1>4, <1>5, <1>6

LEMMA LoopGuards ==
  ASSUME TypeOK, TypeOK', Coherent, Heard, Timely, LoopStep
  PROVE  [Guard!Next]_(Guard!vars)
<1> DEFINE e == Head(queue)
<1>1. /\ queue \in Seq(Event) /\ scr \in Screen /\ LockIsCovered
      /\ queue # << >> /\ queue' = Tail(queue) /\ UNCHANGED <<cfg, used>>
  BY DEF TypeOK, Coherent, LoopStep
<1>2. /\ ~Success(e) => Proved' = Proved
      /\ e.kind # "unlock" => (Bidden' <=> Bidden)
      /\ e.kind = "unlock" => Bidden
  BY <1>1, TailSays
<1>3. CASE e.kind = "lock" /\ Lock
  BY <1>1, <1>2, <1>3, LockGuards DEF Success
<1>4. CASE e.kind = "unlock" /\ Release /\ UNCHANGED lockNo
  <2>1. Guard!Open
    BY <1>1, <1>4, EndedOpens DEF Release
  <2>2. Bidden' \in BOOLEAN
    BY DEF Bidden
  <2>3. Guard!Obey
    BY <1>1, <1>2, <1>4, <2>1, <2>2 DEF Guard!Obey, Success
  <2> QED
    BY <2>3 DEF Guard!Next
<1>5. CASE e.kind = "auth" /\ OnAuthEvent(e) /\ UNCHANGED lockNo
  BY <1>1, <1>5, NewsGuards
<1>6. CASE e.kind = "blank" /\ OnBlank(e) /\ UNCHANGED lockNo
  <2>1. comp' = comp /\ locker' = locker /\ scr'.lockedAt = scr.lockedAt
    BY <1>1, <1>6 DEF OnBlank, Screen
  <2>2. Guard!Kept
    BY <2>1, LockKept DEF Active
  <2> QED
    BY <1>1, <1>2, <1>6, <2>2, NothingSeen DEF Success
<1> QED
  BY <1>3, <1>4, <1>5, <1>6 DEF LoopStep

LEMMA UserGuards ==
  ASSUME TypeOK, TypeOK', Coherent,
         \/ Enter \/ Activity \/ GraceEnds
         \/ \E c \in Configs : SetConfig(c)
         \/ \E kind \in {"lock", "unlock"} : Request(kind)
  PROVE  [Guard!Next]_(Guard!vars)
<1>1. /\ queue \in Seq(Event) /\ scr \in Screen /\ LockIsCovered
      /\ cfg \in Configs /\ cfg' \in Configs
  BY DEF TypeOK, Coherent
<1>2. CASE Enter
  <2>1. /\ UNCHANGED <<cfg, queue, lockNo, used>> /\ Active
        /\ Proved' = Proved /\ Bidden' = Bidden
    BY <1>2, SameSays DEF Enter
  <2>2. CASE TookAnswer \/ StartConversation
    <3>1. comp' = comp /\ locker' = locker /\ scr'.lockedAt = scr.lockedAt
      BY <1>1, <2>2 DEF TookAnswer, StartConversation, Screen
    <3>2. Guard!Kept
      BY <3>1, LockKept DEF Active
    <3> QED
      BY <2>1, <3>2, NothingSeen
  <2>3. CASE cfg.grace /\ scr.lockedAt = "recent" /\ Release
    <3>1. Guard!Open
      BY <1>1, <2>3, EndedOpens DEF Release
    <3>2. Guard!Excuse
      BY <2>1, <2>3, <3>1 DEF Guard!Excuse
    <3> QED
      BY <3>2 DEF Guard!Next
  <2> QED
    BY <1>2, <2>2, <2>3 DEF Enter, Submit
<1>3. CASE Activity
  <2> DEFINE lit == [scr EXCEPT !.blanked = FALSE]
  <2>1. lit \in Screen /\ lit.lockedAt = scr.lockedAt /\ scr' = ArmBlank(lit)
    BY <1>1, <1>3 DEF Screen, Activity
  <2> HIDE DEF lit
  <2>2. scr'.lockedAt = scr.lockedAt
    BY <2>1, AgeFields
  <2>3. /\ comp' = comp /\ locker' = locker /\ used'.ended = used.ended
        /\ UNCHANGED <<cfg, queue, lockNo>>
    BY <1>3 DEF Activity, TypeOK
  <2>4. Guard!Kept
    BY <2>2, <2>3, LockKept DEF Active
  <2> QED
    BY <2>3, <2>4, SameSays, NothingSeen
<1>4. CASE GraceEnds
  <2>1. /\ scr'.lockedAt # "recent" /\ UNCHANGED <<cfg, locker, queue, comp, lockNo, used>>
    BY <1>1, <1>4 DEF GraceEnds, Screen
  <2>2. Session' = Session /\ Active' = Active
    BY <2>1 DEF Session, Active
  <2>3. Proved' = Proved /\ Bidden' = Bidden
    BY <2>1, SameSays
  <2>4. Guard!Age
    BY <2>1, <2>2, <2>3 DEF Guard!Age
  <2> QED
    BY <2>4 DEF Guard!Next
<1>5. CASE \E c \in Configs : SetConfig(c)
  <2>1. UNCHANGED <<screen, queue, comp, lockNo, used>>
    BY <1>5 DEF SetConfig
  <2>2. Guard!Kept /\ Proved' = Proved /\ Bidden' = Bidden
    BY <2>1, LockKept, SameSays DEF screen, Active
  <2>3. cfg'.grace \in BOOLEAN
    BY <1>1, ConfigsAssumption
  <2>4. Guard!Configure
    BY <2>1, <2>2, <2>3 DEF Guard!Configure
  <2> QED
    BY <2>4 DEF Guard!Next
<1>6. ASSUME NEW kind \in {"lock", "unlock"}, Request(kind)
      PROVE  [Guard!Next]_(Guard!vars)
  <2>1. [kind |-> kind] \in Event /\ [kind |-> kind].kind = kind
    BY EventIntro
  <2>2. /\ UNCHANGED <<cfg, screen, comp, lockNo>> /\ used'.ended = used.ended
        /\ queue' = Append(queue, [kind |-> kind])
    BY <1>6 DEF Request, TypeOK
  <2>3. Guard!Kept
    BY <2>2, LockKept DEF screen, Active
  <2>4. Proved' = Proved /\ (kind = "unlock" => Bidden') /\ (kind = "lock" => (Bidden' <=> Bidden))
    BY <1>1, <2>1, <2>2, AppendSays DEF Success
  <2>5. CASE kind = "unlock"
    <3>1. Bidden' = TRUE
      BY <2>4, <2>5 DEF Bidden
    <3>2. Guard!Bid
      BY <2>2, <2>3, <2>4, <3>1 DEF Guard!Bid
    <3> QED
      BY <3>2 DEF Guard!Next
  <2>6. CASE kind = "lock"
    BY <2>2, <2>3, <2>4, <2>6, NothingSeen
  <2> QED
    BY <2>5, <2>6
<1> QED
  BY <1>2, <1>3, <1>4, <1>5, <1>6

\* What a conversation says is said for the lock it was started for.
LEMMA WorkerGuards ==
  ASSUME TypeOK, TypeOK', Timely,
         NEW w \in workers, WorkerAsks(w) \/ WorkerAnswered(w) \/ WorkerEnds(w),
         UNCHANGED <<cfg, screen, comp, lockNo, used>>
  PROVE  [Guard!Next]_(Guard!vars)
<1>1. queue \in Seq(Event) /\ w.gen \in Nat /\ w.lock \in Nat
  BY DEF TypeOK, Worker
<1>2. Guard!Kept
  BY LockKept DEF screen, Active
<1>3. CASE queue' = queue
  BY <1>2, <1>3, SameSays, NothingSeen
<1>4. ASSUME NEW o \in Outcomes, queue' = Said(w, o) PROVE [Guard!Next]_(Guard!vars)
  <2> DEFINE e == [kind |-> "auth", outcome |-> o, gen |-> w.gen, lock |-> w.lock]
  <2>1. /\ e \in Event /\ e.kind = "auth" /\ e.outcome = o /\ e.lock = w.lock
        /\ queue' = Append(queue, e)
    BY <1>1, <1>4, EventIntro DEF Said
  <2> HIDE DEF e
  <2>2. /\ Success(e) => Proved' = Proved \cup {e.lock}
        /\ ~Success(e) => Proved' = Proved
        /\ (Bidden' <=> Bidden)
    BY <1>1, <2>1, AppendSays
  <2>3. CASE Success(e)
    <3>1. w.lock \in 1 .. lockNo
      BY DEF Timely, Speakers
    <3>2. Guard!Prove(w.lock)
      BY <1>2, <2>1, <2>2, <2>3 DEF Guard!Prove, Bidden
    <3> QED
      BY <3>1, <3>2 DEF Guard!Next
  <2> QED
    BY <1>2, <2>2, <2>3, NothingSeen
<1> QED
  BY <1>3, <1>4 DEF WorkerAsks, WorkerAnswered, WorkerEnds, Outcomes

LEMMA OutsideGuards ==
  ASSUME TypeOK, TypeOK', Coherent,
         BlankTimerFires \/ Grant \/ OnLocked \/ OnFinished \/ HintArrives \/ Probe
  PROVE  [Guard!Next]_(Guard!vars)
<1>1. queue \in Seq(Event) /\ scr \in Screen /\ LockIsCovered
  BY DEF TypeOK, Coherent
<1>2. CASE BlankTimerFires
  <2> DEFINE e == [kind |-> "blank", gen |-> scr.timer]
  <2>1. e \in Event /\ e.kind = "blank" /\ queue' = Append(queue, e)
    BY <1>2, GenTypes, EventIntro DEF BlankTimerFires
  <2> HIDE DEF e
  <2>2. Proved' = Proved /\ (Bidden' <=> Bidden)
    BY <1>1, <2>1, AppendSays DEF Success
  <2>3. /\ comp' = comp /\ locker' = locker /\ scr'.lockedAt = scr.lockedAt
        /\ UNCHANGED <<cfg, lockNo, used>>
    BY <1>1, <1>2 DEF BlankTimerFires, Screen
  <2>4. Guard!Kept
    BY <2>3, LockKept DEF Active
  <2> QED
    BY <2>2, <2>3, <2>4, NothingSeen
<1>3. CASE Grant
  <2>1. /\ UNCHANGED <<cfg, locker, scr, queue, lockNo, used>>
        /\ locker = "pending" /\ comp # "ours" /\ comp' = "ours"
    BY <1>3 DEF Grant, screen
  <2>2. Session' = "covered" /\ Session # "covered" /\ Active /\ Active' = Active
    BY <2>1, SessionFacts DEF Active, Session
  <2>3. Proved' = Proved /\ Bidden' = Bidden
    BY <2>1, SameSays
  <2>4. Guard!Cover
    BY <2>1, <2>2, <2>3 DEF Guard!Cover
  <2> QED
    BY <2>4 DEF Guard!Next
<1>4. CASE OnLocked
  <2>1. /\ UNCHANGED <<cfg, queue, comp, lockNo, used>>
        /\ scr'.lockedAt = scr.lockedAt /\ (Active' <=> Active)
    BY <1>1, <1>4 DEF OnLocked, Active, Screen
  <2>2. Guard!Kept
    BY <2>1, LockKept
  <2> QED
    BY <2>1, <2>2, SameSays, NothingSeen
<1>5. CASE OnFinished
  <2>1. UNCHANGED <<cfg, queue, lockNo>> /\ locker' = "none" /\ scr' = Ended(scr)
    BY <1>5 DEF OnFinished
  <2>2. Proved' = Proved /\ Bidden' = Bidden
    BY <2>1, SameSays
  <2>3. CASE locker = "pending" /\ comp # "ours" /\ UNCHANGED <<comp, used>>
    <3>1. Guard!Open
      BY <1>1, <2>1, <2>3, EndedOpens
    <3>2. Active /\ Session # "covered"
      BY <2>3, SessionFacts DEF Active
    <3>3. Guard!Refuse
      BY <2>1, <2>2, <2>3, <3>1, <3>2 DEF Guard!Refuse
    <3> QED
      BY <3>3 DEF Guard!Next
  <2>4. CASE /\ locker = "held" /\ comp' = "open"
             /\ used' = [used EXCEPT !.ended = @ + 1]
    <3>1. comp = "ours" /\ Session = "covered"
      BY <1>1, <2>4, SessionFacts DEF LockIsCovered
    <3>2. Guard!Open
      BY <1>1, <2>1, <2>4, <3>1, EndedOpens
    <3>3. used'.ended = used.ended + 1
      BY <2>4 DEF TypeOK
    <3>4. Guard!TakeBack
      BY <2>1, <2>2, <3>1, <3>2, <3>3 DEF Guard!TakeBack
    <3> QED
      BY <3>4 DEF Guard!Next
  <2> QED
    BY <1>5, <2>3, <2>4 DEF OnFinished
<1>6. CASE HintArrives
  <2>1. UNCHANGED <<cfg, screen, queue, comp, lockNo, used>>
    BY <1>6 DEF HintArrives
  <2>2. Guard!Kept
    BY <2>1, LockKept DEF screen, Active
  <2> QED
    BY <2>1, <2>2, SameSays, NothingSeen
<1>7. CASE Probe
  <2>1. UNCHANGED <<cfg, screen, comp, lockNo, used>>
    BY <1>7 DEF Probe
  <2>2. Guard!Kept
    BY <2>1, LockKept DEF screen, Active
  <2>3. CASE queue' = queue
    BY <2>1, <2>2, <2>3, SameSays, NothingSeen
  <2>4. CASE queue' = Append(queue, [kind |-> "lock"])
    <3>1. [kind |-> "lock"] \in Event /\ [kind |-> "lock"].kind = "lock"
      BY EventIntro
    <3>2. Proved' = Proved /\ (Bidden' <=> Bidden)
      BY <1>1, <2>4, <3>1, AppendSays DEF Success
    <3> QED
      BY <2>1, <2>2, <3>2, NothingSeen
  <2> QED
    BY <1>7, <2>3, <2>4 DEF Probe
<1> QED
  BY <1>2, <1>3, <1>4, <1>5, <1>6, <1>7

LEMMA LifeGuards ==
  ASSUME TypeOK, TypeOK', Coherent, Silent, Crash \/ Start
  PROVE  [Guard!Next]_(Guard!vars)
<1>1. cfg' \in Configs /\ cfg'.grace \in BOOLEAN
  BY ConfigsAssumption DEF TypeOK
<1>2. CASE Crash
  <2>1. /\ UNCHANGED <<cfg, lockNo>> /\ queue' = << >>
        /\ locker' = "none" /\ scr' = NewScreen
        /\ comp' = IF comp = "ours" THEN "orphan" ELSE comp
    BY <1>2 DEF Crash
  <2>2. ~Active' /\ scr'.lockedAt = "zero"
    BY <2>1 DEF Active, NewScreen
  <2>3. used'.ended = used.ended
    BY <1>2 DEF Crash, TypeOK
  <2>4. Session' = IF Session = "covered" THEN "abandoned" ELSE Session
    <3>1. CASE comp = "ours"
      BY <2>1, <3>1 DEF Session
    <3>2. CASE comp # "ours"
      BY <2>1, <3>2, SessionFacts DEF Session
    <3> QED
      BY <3>1, <3>2
  <2>5. Proved' = {} /\ Bidden' = FALSE
    BY <2>1 DEF Proved, Bidden
  <2>6. Active' = FALSE
    BY <2>2
  <2>7. Guard!Die
    BY <2>1, <2>2, <2>3, <2>4, <2>5, <2>6 DEF Guard!Die
  <2> QED
    BY <2>7 DEF Guard!Next
<1>3. CASE Start
  <2>1. UNCHANGED <<screen, comp, lockNo, used>>
    BY <1>3 DEF Start
  <2>2. queue = << >>
    BY <1>3 DEF Start, Silent
  <2>3. queue' = << >> \/ queue' = <<[kind |-> "lock"]>>
    BY <1>3 DEF Start, OnStart
  <2>4. Proved = {} /\ Bidden = FALSE
    BY <2>2 DEF Proved, Bidden
  <2>5. Proved' = {} /\ Bidden' = FALSE
    BY <2>3 DEF Proved, Bidden
  <2>6. Guard!Kept
    BY <2>1, LockKept DEF screen, Active
  <2>7. Guard!Configure
    BY <1>1, <2>1, <2>4, <2>5, <2>6 DEF Guard!Configure
  <2> QED
    BY <2>7 DEF Guard!Next
<1> QED
  BY <1>2, <1>3

LEMMA NextGuards ==
  ASSUME TypeOK, TypeOK', Coherent, Heard, Punctual, [Next]_vars
  PROVE  [Guard!Next]_(Guard!vars)
<1>1. Timely /\ Silent
  BY DEF Punctual
<1>2. CASE LoopStep
  BY <1>1, <1>2, LoopGuards
<1>3. CASE \/ Enter \/ Activity \/ GraceEnds
           \/ \E c \in Configs : SetConfig(c)
           \/ \E kind \in {"lock", "unlock"} : Request(kind)
  BY <1>3, UserGuards
<1>4. CASE \/ WorkerStep(WorkerAsks, Tries) \/ WorkerStep(WorkerAnswered, Tries)
           \/ WorkerStep(WorkerEnds, Tries)
  BY <1>1, <1>4, WorkerGuards DEF WorkerStep
<1>5. CASE BlankTimerFires \/ Grant \/ OnLocked \/ OnFinished \/ HintArrives \/ Probe
  BY <1>5, OutsideGuards
<1>6. CASE Crash \/ Start
  BY <1>1, <1>6, LifeGuards
<1>7. CASE UNCHANGED vars
  <2>1. UNCHANGED <<cfg, screen, queue, comp, lockNo, used>>
    BY <1>7 DEF vars
  <2>2. Guard!Kept
    BY <2>1, LockKept DEF screen, Active
  <2> QED
    BY <2>1, <2>2, SameSays, NothingSeen
<1> QED
  BY <1>2, <1>3, <1>4, <1>5, <1>6, <1>7 DEF Next

LEMMA InitGuards == Init => Guard!Init
<1> SUFFICES ASSUME Init PROVE Guard!Init
  OBVIOUS
<1>1. cfg \in Configs /\ cfg.grace \in BOOLEAN
  BY ConfigsAssumption DEF Init
<1>2. queue = << >> \/ queue = <<[kind |-> "lock"]>>
  BY DEF Init, OnStart
<1>3. Proved = {} /\ Bidden = FALSE
  BY <1>2 DEF Proved, Bidden
<1>4. Session = "open" /\ Active = FALSE /\ scr.lockedAt = "zero"
  BY DEF Init, Session, Active, NewScreen
<1> QED
  BY <1>1, <1>3, <1>4 DEF Init, Guard!Init

\* The promise of a session lock, for every configuration and bound: the
\* session opens for a proof that was given for this very lock, for a key in the
\* grace period, for logind's order or by the compositor, and for nothing else;
\* who gave a proof that comes in time is let in; and a session whose shell died
\* stays locked until a screen covers it.
THEOREM LockIsKept == Spec => LocksAsPromised
<1>1. TypeOK /\ TypeOK' /\ Coherent /\ Heard /\ Punctual /\ [Next]_vars
      => [Guard!Next]_(Guard!vars)
  BY NextGuards
<1> QED
  BY <1>1, InitGuards, AlwaysPunctual, PTL DEF Spec, LocksAsPromised, Guard!Spec
=============================================================================
