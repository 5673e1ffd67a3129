----------------------------- MODULE LockScreen -----------------------------
(***************************************************************************)
(* The lock screen (shell/lock) with the authentication conversations it   *)
(* runs (service/auth), the session lock of the compositor and logind's    *)
(* LockedHint, which outlive the shell.                                    *)
(*                                                                         *)
(* Every method of Screen runs on the event loop; signals, recovery,       *)
(* timers and the events of a conversation's worker goroutine cross into   *)
(* it through Loop.Invoke, the FIFO queue.  A key press runs its handler   *)
(* on the loop at once.                                                    *)
(***************************************************************************)
EXTENDS Integers, Sequences

CONSTANTS
  Configs,      \* the [lock] sections a reload may apply
  Logind,       \* the shell reached logind when it started
  Faults,       \* which of "lock", "probe", "hint" may fail
  MaxRequests,  \* bound on lock and unlock signals
  MaxTries,     \* bound on conversations started
  MaxActivity,  \* bound on key presses
  MaxCrashes,   \* bound on crashes of the shell
  MaxQueue      \* a conversation asks while the queue is shorter

\* The keys the screen reads: max is MaxAttempts, 0 for no cap, grace and
\* blank say that GracePeriodMS and BlankTimeoutMS are not 0.
ASSUME ConfigsAssumption ==
  /\ Configs # {}
  /\ Configs \subseteq [enabled : BOOLEAN, max : Nat, grace : BOOLEAN,
                        blank : BOOLEAN, onStart : BOOLEAN]
ASSUME LogindAssumption == Logind \in BOOLEAN
ASSUME FaultsAssumption == Faults \subseteq {"lock", "probe", "hint"}
ASSUME BoundsAssumption ==
  /\ MaxRequests \in Nat /\ MaxTries \in Nat /\ MaxActivity \in Nat
  /\ MaxCrashes \in Nat /\ MaxQueue \in Nat

\* What the workers report; lock tells for which lock the conversation runs.
Outcomes == {"info", "prompt", "success", "failure"}
Event ==
       [kind : {"lock", "unlock"}]
  \cup [kind : {"blank"}, gen : Nat]
  \cup [kind : {"auth"}, outcome : Outcomes, gen : Nat, lock : Nat]

Tries == 1 .. MaxTries

\* A goroutine of Spawn: "run" inside the backend, "ask" blocked in ask.
\* reply is its one-slot channel, cancelled its closed cancel channel; no
\* numbers the conversations.
Worker == [no : Nat, gen : Nat, lock : Nat, phase : {"run", "ask"},
           reply : BOOLEAN, cancelled : BOOLEAN]

VARIABLES
  cfg,       \* Screen.cfg
  locker,    \* the session lock of lys-ui: "none", "pending" or "held"
  scr,       \* the other fields of Screen
  queue,     \* what Loop.Invoke was handed
  workers,   \* the running conversations
  comp,      \* the compositor: "open", locked by this shell ("ours") or by
             \* a dead one ("orphan")
  hint,      \* logind's LockedHint
  telling,   \* SetLockedHint goroutines under way, by what they say
  alive,     \* the shell runs
  probing,   \* the recovery goroutine has not read LockedHint yet
  marker,    \* the lock-on-start marker of this login session
  lockNo,    \* how many locks were asked for (names a lock)
  tries,     \* conversations started so far, and in this lock
  used       \* requests, key presses and crashes so far (bounds), and the locks
             \* the compositor took back (history)

screen == <<locker, scr>>
logind == <<hint, telling>>
vars == <<cfg, screen, queue, workers, comp, logind, alive, probing, marker,
          lockNo, tries, used>>

\* Screen's fields. auth is the generation of the running conversation and
\* timer that of the running blank timer, 0 for none; lockedAt is "recent"
\* as long as the grace period is not over.
Screen ==
  [confirmed : BOOLEAN, attempts : Nat, lockedAt : {"zero", "recent", "old"},
   auth : Nat, authGen : Nat, awaiting : BOOLEAN, pending : BOOLEAN,
   inputOn : BOOLEAN, blanked : BOOLEAN, blankGen : Nat, timer : Nat,
   clock : BOOLEAN]

NewScreen ==
  [confirmed |-> FALSE, attempts |-> 0, lockedAt |-> "zero", auth |-> 0,
   authGen |-> 0, awaiting |-> FALSE, pending |-> FALSE, inputOn |-> FALSE,
   blanked |-> FALSE, blankGen |-> 0, timer |-> 0, clock |-> FALSE]

-----------------------------------------------------------------------------
\* The helpers of Screen, as functions of its fields.

Active == locker # "none"

\* Mutant: the cap is off by one.
ExhaustedLate(s) == cfg.max > 0 /\ s.attempts > cfg.max
Exhausted(s) == cfg.max > 0 /\ s.attempts >= cfg.max

\* Mutant: the generation survives the reset.
ResetAuthSameGen(s) ==
  [s EXCEPT !.auth = 0, !.awaiting = FALSE, !.pending = FALSE]
ResetAuth(s) ==
  [s EXCEPT !.auth = 0, !.authGen = @ + 1,
            !.awaiting = FALSE, !.pending = FALSE]

StopTimers(s) ==
  [s EXCEPT !.clock = FALSE, !.timer = 0, !.blankGen = @ + 1,
            !.blanked = FALSE]

\* Mutant: generations count down.
ArmBlankDown(s) ==
  [s EXCEPT !.blankGen = @ - 1,
            !.timer = IF cfg.blank THEN s.blankGen - 1 ELSE 0]
ArmBlank(s) ==
  [s EXCEPT !.blankGen = @ + 1,
            !.timer = IF cfg.blank THEN s.blankGen + 1 ELSE 0]

Ended(s) ==
  [ResetAuth(StopTimers(s)) EXCEPT
     !.confirmed = FALSE, !.attempts = 0, !.lockedAt = "zero"]

\* Mutant: the handle is dropped without a Cancel.
CancelForgotten(ws, gen) == ws
\* Handle.Cancel of the conversation gen, if it still runs.
Cancel(ws, gen) ==
  {IF w.gen = gen THEN [w EXCEPT !.cancelled = TRUE] ELSE w : w \in ws}
\* Handle.Answer; a full slot drops it.
Answer(ws, gen) ==
  {IF w.gen = gen THEN [w EXCEPT !.reply = TRUE] ELSE w : w \in ws}

\* The goroutine that calls SetLockedHint.
Tell(locked) ==
  telling' = IF Logind THEN [telling EXCEPT ![locked] = @ + 1] ELSE telling

\* Mutant: the compositor keeps the lock.
ReleaseScreenOnly ==
  /\ scr' = Ended(scr)
  /\ locker' = "none"
  /\ workers' = Cancel(workers, scr.auth)
  /\ Tell(FALSE)
  /\ UNCHANGED comp
\* release: a held lock is unlocked, a pending one withdrawn.
Release ==
  /\ scr' = Ended(scr)
  /\ locker' = "none"
  /\ comp' = IF comp = "ours" THEN "open" ELSE comp
  /\ workers' = Cancel(workers, scr.auth)
  /\ Tell(FALSE)

-----------------------------------------------------------------------------
\* What the loop runs from its queue.

\* The fields Lock sets before it asks for the lock.
Opened(s) ==
  [ResetAuth(s) EXCEPT
     !.attempts = 0, !.lockedAt = "recent", !.inputOn = TRUE,
     !.blanked = FALSE, !.confirmed = FALSE]

\* Screen.Lock; lys-ui may refuse the lock with an error.
Lock ==
  \/ /\ ~cfg.enabled \/ Active
     /\ UNCHANGED <<screen, workers, comp, telling, lockNo, tries>>
  \/ /\ cfg.enabled /\ ~Active
     /\ \/ /\ locker' = "pending"
           /\ scr' = ArmBlank([Opened(scr) EXCEPT !.clock = TRUE])
        \/ /\ "lock" \in Faults
           /\ locker' = locker
           /\ scr' = Opened(scr)
     /\ workers' = Cancel(workers, scr.auth)
     /\ lockNo' = lockNo + 1
     /\ tries' = [tries EXCEPT !.here = 0]
     /\ UNCHANGED <<comp, telling>>

\* onPrompt: info and error prompts only show their text.
OnInfo == UNCHANGED <<screen, workers, comp, telling>>

\* Mutant: a prompt that waits leaves the entry off.
OnPromptInputOff ==
  /\ \/ /\ scr.pending
        /\ scr' = [scr EXCEPT !.pending = FALSE]
        /\ workers' = Answer(workers, scr.auth)
     \/ /\ ~scr.pending
        /\ scr' = [scr EXCEPT !.awaiting = TRUE]
        /\ UNCHANGED workers
  /\ UNCHANGED <<locker, comp, telling>>
OnPrompt ==
  /\ \/ /\ scr.pending
        /\ scr' = [scr EXCEPT !.pending = FALSE]
        /\ workers' = Answer(workers, scr.auth)
     \/ /\ ~scr.pending
        /\ scr' = [scr EXCEPT !.awaiting = TRUE, !.inputOn = TRUE]
        /\ UNCHANGED workers
  /\ UNCHANGED <<locker, comp, telling>>

OnFailure ==
  /\ LET failed == [ResetAuth(scr) EXCEPT !.attempts = @ + 1]
     IN scr' = [failed EXCEPT !.inputOn = ~Exhausted(failed)]
  /\ workers' = Cancel(workers, scr.auth)
  /\ UNCHANGED <<locker, comp, telling>>

\* onAuthEvent, behind the check that the conversation is the current one.
OnAuthEvent(e) ==
  \/ /\ e.gen # scr.authGen
     /\ UNCHANGED <<screen, workers, comp, telling>>
  \/ /\ e.gen = scr.authGen
     /\ \/ e.outcome = "info" /\ OnInfo
        \/ e.outcome = "prompt" /\ OnPrompt
        \/ e.outcome = "success" /\ Release
        \/ e.outcome = "failure" /\ OnFailure

OnBlank(e) ==
  /\ scr' = IF e.gen = scr.blankGen THEN [scr EXCEPT !.blanked = TRUE] ELSE scr
  /\ UNCHANGED <<locker, workers, comp, telling>>

\* The loop takes the next function it was handed.
LoopStep ==
  /\ alive /\ queue # << >>
  /\ queue' = Tail(queue)
  /\ LET e == Head(queue) IN
       \/ e.kind = "lock" /\ Lock
       \/ /\ \/ e.kind = "unlock" /\ Release
             \/ e.kind = "auth" /\ OnAuthEvent(e)
             \/ e.kind = "blank" /\ OnBlank(e)
          /\ UNCHANGED <<lockNo, tries>>
  /\ UNCHANGED <<cfg, hint, alive, probing, marker, used>>

-----------------------------------------------------------------------------
\* The user and the configuration.

\* Mutant: the screen goes on awaiting an answer.
TookAnswerAwaiting ==
  /\ scr' = [scr EXCEPT !.inputOn = FALSE]
  /\ workers' = Answer(workers, scr.auth)
  /\ UNCHANGED <<locker, comp, telling, tries>>
TookAnswer ==
  /\ scr' = [scr EXCEPT !.awaiting = FALSE, !.inputOn = FALSE]
  /\ workers' = Answer(workers, scr.auth)
  /\ UNCHANGED <<locker, comp, telling, tries>>

StartConversation ==
  /\ tries.all < MaxTries
  /\ tries' = [all |-> tries.all + 1, here |-> tries.here + 1]
  /\ scr' = [scr EXCEPT !.inputOn = FALSE, !.pending = TRUE,
                        !.authGen = @ + 1, !.auth = scr.authGen + 1]
  /\ workers' = workers \cup
       {[no |-> tries.all + 1, gen |-> scr.authGen + 1, lock |-> lockNo,
         phase |-> "run", reply |-> FALSE, cancelled |-> FALSE]}
  /\ UNCHANGED <<locker, comp, telling>>

\* Screen.Submit of a line that is empty or not; the cases that return early
\* change nothing.
Submit(empty) ==
  /\ ~Exhausted(scr)
  /\ \/ scr.awaiting /\ TookAnswer
     \/ /\ ~scr.awaiting /\ scr.auth = 0
        /\ \/ /\ cfg.grace /\ scr.lockedAt = "recent"
              /\ Release
              /\ UNCHANGED tries
           \/ /\ ~(cfg.grace /\ scr.lockedAt = "recent")
              /\ ~empty
              /\ StartConversation

\* Enter in the entry of a face; a disabled entry takes no keys.
Enter ==
  /\ alive /\ Active /\ scr.inputOn
  /\ \E empty \in BOOLEAN : Submit(empty)
  /\ UNCHANGED <<cfg, queue, hint, alive, probing, marker, lockNo, used>>

\* Screen.Activity: any key on a face.
Activity ==
  /\ alive /\ Active /\ used.keys < MaxActivity
  /\ used' = [used EXCEPT !.keys = @ + 1]
  /\ scr' = ArmBlank([scr EXCEPT !.blanked = FALSE])
  /\ UNCHANGED <<cfg, locker, queue, workers, comp, logind, alive, probing,
                 marker, lockNo, tries>>

GraceEnds ==
  /\ alive /\ scr.lockedAt = "recent"
  /\ scr' = [scr EXCEPT !.lockedAt = "old"]
  /\ UNCHANGED <<cfg, locker, queue, workers, comp, logind, alive, probing,
                 marker, lockNo, tries, used>>

SetConfig(c) ==
  /\ alive /\ c # cfg
  /\ cfg' = c
  /\ UNCHANGED <<screen, queue, workers, comp, logind, alive, probing, marker,
                 lockNo, tries, used>>

\* The shell's Lock method and logind's Lock and Unlock signals.
Request(kind) ==
  /\ kind = "lock" \/ Logind
  /\ alive /\ used.requests < MaxRequests
  /\ used' = [used EXCEPT !.requests = @ + 1]
  /\ queue' = Append(queue, [kind |-> kind])
  /\ UNCHANGED <<cfg, screen, workers, comp, logind, alive, probing, marker,
                 lockNo, tries>>

-----------------------------------------------------------------------------
\* Timers, workers, the compositor and logind.

BlankTimerFires ==
  /\ alive /\ scr.timer # 0
  /\ queue' = Append(queue, [kind |-> "blank", gen |-> scr.timer])
  /\ scr' = [scr EXCEPT !.timer = 0]
  /\ UNCHANGED <<cfg, locker, workers, comp, logind, alive, probing, marker,
                 lockNo, tries, used>>

Said(w, outcome) ==
  Append(queue, [kind |-> "auth", outcome |-> outcome,
                 gen |-> w.gen, lock |-> w.lock])
Becomes(w, v) == workers' = (workers \ {w}) \cup {v}

\* ask: the prompt goes out through onEvent, then the worker blocks if the
\* prompt wants input.
WorkerAsks(w) ==
  /\ w.phase = "run" /\ Len(queue) < MaxQueue
  /\ \/ queue' = Said(w, "info") /\ UNCHANGED workers
     \/ queue' = Said(w, "prompt") /\ Becomes(w, [w EXCEPT !.phase = "ask"])

\* The select at the end of ask: with both channels ready either may win.
WorkerAnswered(w) ==
  /\ w.phase = "ask"
  /\ \/ w.reply /\ Becomes(w, [w EXCEPT !.phase = "run", !.reply = FALSE])
     \/ w.cancelled /\ Becomes(w, [w EXCEPT !.phase = "run"])
  /\ UNCHANGED queue

\* Run returns; the one terminal event goes out.
WorkerEnds(w) ==
  /\ w.phase = "run"
  /\ \E outcome \in {"success", "failure"} : queue' = Said(w, outcome)
  /\ workers' = workers \ {w}

\* A step of one of the conversations numbered nos.
WorkerStep(A(_), nos) ==
  /\ \E w \in workers : w.no \in nos /\ A(w)
  /\ UNCHANGED <<cfg, screen, comp, logind, alive, probing, marker,
                 lockNo, tries, used>>

\* The compositor locks the session for the pending request, also one a dead
\* shell had locked.
Grant ==
  /\ alive /\ locker = "pending" /\ comp # "ours"
  /\ comp' = "ours"
  /\ UNCHANGED <<cfg, screen, queue, workers, logind, alive, probing, marker,
                 lockNo, tries, used>>

OnLocked ==
  /\ alive /\ locker = "pending" /\ comp = "ours"
  /\ locker' = "held"
  /\ scr' = [scr EXCEPT !.confirmed = TRUE]
  /\ Tell(TRUE)
  /\ UNCHANGED <<cfg, queue, workers, comp, hint, alive, probing, marker,
                 lockNo, tries, used>>

\* onFinished: the compositor refuses the lock, or ends one it had granted.
OnFinished ==
  /\ alive
  /\ \/ locker = "pending" /\ comp # "ours" /\ UNCHANGED <<comp, used>>
     \/ /\ locker = "held" /\ comp' = "open"
        /\ used' = [used EXCEPT !.ended = @ + 1]
  /\ \/ scr.confirmed /\ Tell(FALSE)
     \/ ~scr.confirmed /\ UNCHANGED telling
  /\ locker' = "none"
  /\ scr' = Ended(scr)
  /\ workers' = Cancel(workers, scr.auth)
  /\ UNCHANGED <<cfg, queue, hint, alive, probing, marker, lockNo, tries>>

\* A SetLockedHint goroutine reaches logind, in no particular order.
HintArrives ==
  /\ \E locked \in BOOLEAN :
       /\ telling[locked] > 0
       /\ telling' = [telling EXCEPT ![locked] = @ - 1]
       /\ hint' = locked \/ ("hint" \in Faults /\ hint' = hint)
  /\ UNCHANGED <<cfg, screen, queue, workers, comp, alive, probing, marker,
                 lockNo, tries, used>>

\* Mutant: the test is the wrong way round.
ProbeInverted ==
  /\ alive /\ probing
  /\ probing' = FALSE
  /\ \/ ~hint /\ queue' = Append(queue, [kind |-> "lock"])
     \/ hint /\ UNCHANGED queue
  /\ UNCHANGED <<cfg, screen, workers, comp, logind, alive, marker,
                 lockNo, tries, used>>
\* The recovery goroutine of Start reads LockedHint.
Probe ==
  /\ alive /\ probing
  /\ probing' = FALSE
  /\ \/ hint /\ queue' = Append(queue, [kind |-> "lock"])
     \/ (~hint \/ "probe" \in Faults) /\ UNCHANGED queue
  /\ UNCHANGED <<cfg, screen, workers, comp, logind, alive, marker,
                 lockNo, tries, used>>

-----------------------------------------------------------------------------
\* The life of the shell.

\* The shell dies: the compositor keeps the session locked.
Crash ==
  /\ alive /\ used.crashes < MaxCrashes
  /\ used' = [used EXCEPT !.crashes = @ + 1]
  /\ alive' = FALSE
  /\ comp' = IF comp = "ours" THEN "orphan" ELSE comp
  /\ locker' = "none" /\ scr' = NewScreen
  /\ queue' = << >> /\ workers' = {} /\ probing' = FALSE
  /\ telling' = [locked \in BOOLEAN |-> 0]
  /\ UNCHANGED <<cfg, hint, marker, lockNo, tries>>

\* What Start hands to the loop: one lock in a login session.
OnStart(c, claimed) ==
  IF c.onStart /\ ~claimed THEN <<[kind |-> "lock"]>> ELSE << >>

Start ==
  /\ ~alive
  /\ alive' = TRUE /\ probing' = Logind
  /\ cfg' \in Configs
  /\ queue' = OnStart(cfg', marker)
  /\ marker' = (marker \/ cfg'.onStart)
  /\ UNCHANGED <<screen, workers, comp, logind, lockNo, tries, used>>

Init ==
  /\ cfg \in Configs
  /\ locker = "none" /\ scr = NewScreen
  /\ queue = OnStart(cfg, FALSE) /\ marker = cfg.onStart
  /\ workers = {} /\ comp = "open"
  /\ hint = FALSE /\ telling = [locked \in BOOLEAN |-> 0]
  /\ alive = TRUE /\ probing = Logind
  /\ lockNo = 0 /\ tries = [all |-> 0, here |-> 0]
  /\ used = [requests |-> 0, keys |-> 0, crashes |-> 0, ended |-> 0]

Next ==
  \/ LoopStep
  \/ Enter \/ Activity \/ GraceEnds
  \/ \E c \in Configs : SetConfig(c)
  \/ \E kind \in {"lock", "unlock"} : Request(kind)
  \/ BlankTimerFires
  \/ WorkerStep(WorkerAsks, Tries)
  \/ WorkerStep(WorkerAnswered, Tries)
  \/ WorkerStep(WorkerEnds, Tries)
  \/ Grant \/ OnLocked \/ OnFinished
  \/ HintArrives \/ Probe
  \/ Crash \/ Start

\* The loop and the goroutines run, a PAM transaction ends, the service
\* manager restarts the shell.
Fairness ==
  /\ WF_vars(LoopStep)
  /\ \A no \in Tries : /\ WF_vars(WorkerStep(WorkerAnswered, {no}))
                       /\ WF_vars(WorkerStep(WorkerEnds, {no}))
  /\ WF_vars(Probe) /\ WF_vars(Start)

Spec == Init /\ [][Next]_vars /\ Fairness
-----------------------------------------------------------------------------
\* Properties.

\* Type correctness of the screen and of what surrounds it.
TypeOK ==
  /\ cfg \in Configs
  /\ locker \in {"none", "pending", "held"}
  /\ scr \in Screen
  /\ queue \in Seq(Event)
  /\ workers \subseteq Worker
  /\ comp \in {"open", "ours", "orphan"}
  /\ hint \in BOOLEAN
  /\ telling \in [BOOLEAN -> Nat]
  /\ alive \in BOOLEAN /\ probing \in BOOLEAN /\ marker \in BOOLEAN
  /\ lockNo \in Nat
  /\ tries \in [all : Nat, here : Nat]
  /\ used \in [requests : Nat, keys : Nat, crashes : Nat, ended : Nat]

\* The compositor holds the session for this shell exactly as long as the
\* screen holds its lock: no path leaves the session locked with no screen.
LockIsCovered ==
  /\ locker = "held" => comp = "ours"
  /\ comp = "ours" => Active
  /\ scr.confirmed <=> locker = "held"

\* A conversation that nobody waits for any more was cancelled: at most one
\* has the user's attention.
OneLiveConversation ==
  \A w \in workers : w.gen # scr.auth => w.cancelled

\* As long as nobody cancels, a buffered answer is for the prompt its worker is
\* blocked in or about to block in: no answer is dropped on a full slot, and
\* none is left for a later prompt.
AnswersMeetTheirPrompt ==
  /\ \A w \in workers : w.reply => w.phase = "ask" \/ w.cancelled
  /\ scr.awaiting => \E w \in workers :
       w.gen = scr.auth /\ w.phase = "ask" /\ ~w.reply

\* While the entry takes input, Enter goes somewhere: to the prompt that
\* waits, or to a new conversation.
InputMeansReady ==
  Active /\ scr.inputOn => scr.awaiting \/ scr.auth = 0

\* The entry is off only while a conversation runs or after too many failures.
NoDeadEnd ==
  Active /\ ~scr.inputOn => scr.auth # 0 \/ Exhausted(scr)

\* No lock tries more passwords than the configuration allows.
AttemptsAreCapped == cfg.max > 0 /\ Active => tries.here =< cfg.max

\* Only a locked screen is blank.
BlankOnlyWhileLocked == scr.blanked => Active

\* Session, screen and display agree on what is locked.
LockIsWhole == LockIsCovered /\ BlankOnlyWhileLocked

\* Who types is heard by the one conversation there is.
InputHasItsConversation == OneLiveConversation /\ InputMeansReady

\* The entry is on as long as an attempt is left, and no longer.
AttemptsDecideInput == NoDeadEnd /\ AttemptsAreCapped

\* The next function in the loop's queue reports that a password was right.
Accepted == queue # << >> /\ Head(queue).kind = "auth"
            /\ Head(queue).outcome = "success"

\* A password that was right for an earlier lock never opens this one.
SuccessOpensItsOwnLock ==
  [][(Accepted /\ alive' /\ queue' = Tail(queue) /\ Head(queue).lock # lockNo)
       => locker' = locker]_vars

\* The session as its user sees it; the locks of the successes in the queue; an
\* unlock in the queue.
Session ==
  [open |-> "open", ours |-> "covered", orphan |-> "abandoned"][comp]
Proved ==
  {queue[i].lock : i \in {j \in DOMAIN queue :
     queue[j].kind = "auth" /\ queue[j].outcome = "success"}}
Bidden == \E i \in DOMAIN queue : queue[i].kind = "unlock"

\* Screen, conversations, compositor and logind keep the promise of a session
\* lock: the session opens for a proof that was given for this lock, in the
\* grace period, for logind's unlock or by the compositor, and for nothing
\* else; and the right password opens it whenever it arrives in time.
Guard == INSTANCE SessionLock WITH
  session <- Session, wanted <- Active, lock <- lockNo, proved <- Proved,
  bidden <- Bidden, fresh <- scr.lockedAt = "recent", lenient <- cfg.grace,
  ended <- used.ended
LocksAsPromised == Guard!Spec

\* Every conversation ends in input, in an unlock or in the lockout.
ConversationIsDecided ==
  scr.auth # 0 ~> (~Active \/ scr.inputOn \/ Exhausted(scr))

\* A restarted shell asks for the lock that its predecessor held and logind
\* knew of, unless logind hears of an unlock first.
OrphanIsRetaken ==
  (probing /\ comp = "orphan" /\ hint) ~> (Active \/ ~hint)
=============================================================================
