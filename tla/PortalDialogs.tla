--------------------------- MODULE PortalDialogs ---------------------------
(***************************************************************************)
(* The dialogs behind the portal backend: a D-Bus method of the backend    *)
(* (portal/request.go, portal/dialogs.go) calls the shell, whose host      *)
(* (shell/portaldialogs) shows one overlay at a time and keeps the others  *)
(* waiting (shell/dialogqueue).                                            *)
(*                                                                         *)
(* The backend runs every method in a goroutine of its own and beside it a *)
(* watcher for the application's Close.  The shell runs every D-Bus call   *)
(* in a goroutine that hands its work to the event loop, so that a Dismiss *)
(* may overtake the call it is about.  What the loop runs is one step.     *)
(***************************************************************************)
EXTENDS Integers, Sequences, FiniteSets

CONSTANTS
  MaxRequests, \* bound on the calls applications make
  Faults,      \* which of "mount", "open" may fail
  MaxLoad      \* bound on calls made, calls closed and crashes of the shell

ASSUME RequestsAssumption == MaxRequests \in Nat
ASSUME FaultsAssumption == Faults \subseteq {"mount", "open"}
ASSUME LoadAssumption == MaxLoad \in Nat

\* The calls, each with a handle of its own, numbered as they are made.
Requests == 1 .. MaxRequests
NoRequest == 0

VARIABLES
  pc,         \* the method: "idle", "asking" the shell, "settled", "done"
  code,       \* the reply code response chose
  watcher,    \* its watcher: "none", "watching", "dismissing", "gone"
  closed,     \* the requests whose Cancelled channel is closed
  shellCall,  \* the call to the shell: "none", "sent", "held" by a handler
              \* of the shell, answered "yes" or "no", or "failed"
  dismissals, \* the Dismiss calls under way
  alive,      \* the shell runs
  crashes,
  showing,    \* Queue.showing and handle: the request showing
  waiting,    \* Queue.waiting
  answer,     \* Dialogs.answer: whose answer it gives
  win,        \* Dialogs.win: the request it was opened for
  closing,    \* Dialogs.closing
  mapped,     \* the overlays on the screen, by their request
  said        \* what the user said on the live dialog of a request

portal == <<pc, code, watcher, closed>>
windows == <<win, closing, mapped>>
host == <<showing, waiting, answer, windows>>
vars == <<portal, shellCall, dismissals, alive, crashes, host, said>>

Codes == {"none", "success", "cancelled", "other"}
Calls == {"none", "sent", "held", "yes", "no", "failed"}
MaybeRequest == Requests \cup {NoRequest}

-----------------------------------------------------------------------------
\* The backend.

\* What MaxLoad bounds.
Load == Cardinality({r \in Requests : pc[r] # "idle"})
          + Cardinality(closed) + crashes

Made(r) ==
  /\ \A q \in Requests : pc[q] = "idle" <=> q >= r
  /\ Load < MaxLoad

\* begin: the Request is exported, the watcher runs, the shell is called.
Begin(r) ==
  /\ Made(r)
  /\ pc' = [pc EXCEPT ![r] = "asking"]
  /\ watcher' = [watcher EXCEPT ![r] = "watching"]
  /\ shellCall' = [shellCall EXCEPT ![r] = IF alive THEN "sent" ELSE "failed"]
  /\ UNCHANGED <<code, closed, dismissals, alive, crashes, host, said>>

\* beginOr: the Request cannot be exported.
MountFails(r) ==
  /\ "mount" \in Faults
  /\ Made(r)
  /\ pc' = [pc EXCEPT ![r] = "done"]
  /\ code' = [code EXCEPT ![r] = "other"]
  /\ UNCHANGED <<watcher, closed, shellCall, dismissals, alive, crashes, host,
                 said>>

\* The application closes its request while it is exported.
Close(r) ==
  /\ pc[r] \in {"asking", "settled"}
  /\ r \notin closed /\ Load < MaxLoad
  /\ closed' = closed \cup {r}
  /\ UNCHANGED <<pc, code, watcher, shellCall, dismissals, alive, crashes,
                 host, said>>

\* The watcher saw the Close: it ends the call's context and dismisses.
WatcherCancels(r) ==
  /\ watcher[r] = "watching" /\ r \in closed
  /\ watcher' = [watcher EXCEPT ![r] = "dismissing"]
  /\ dismissals' = IF alive THEN dismissals \cup {r} ELSE dismissals
  /\ UNCHANGED <<pc, code, closed, shellCall, alive, crashes, host, said>>

\* Its Dismiss call returned, failed or timed out; or the method is over.
WatcherEnds(r) ==
  /\ \/ watcher[r] = "dismissing"
     \/ watcher[r] = "watching" /\ pc[r] = "settled"
  /\ watcher' = [watcher EXCEPT ![r] = "gone"]
  /\ UNCHANGED <<pc, code, closed, shellCall, dismissals, alive, crashes, host,
                 said>>

\* The call to the shell returned, or the watcher ended its context.
Returned(r) ==
  shellCall[r] \in {"yes", "no", "failed"} \/ watcher[r] \in {"dismissing", "gone"}

\* Mutant: a Close that comes after the answer is not looked at.
ResponseOfTheAnswer(r) ==
  CASE shellCall[r] = "yes" -> "success"
    [] shellCall[r] = "no"  -> "cancelled"
    [] OTHER -> IF r \in closed THEN "cancelled" ELSE "other"
\* response: a closed request is a cancel whatever the shell answered.
Response(r) ==
  IF r \in closed \/ shellCall[r] = "no" THEN "cancelled"
    ELSE IF shellCall[r] = "yes" THEN "success" ELSE "other"

Settle(r) ==
  /\ pc[r] = "asking" /\ Returned(r)
  /\ pc' = [pc EXCEPT ![r] = "settled"]
  /\ code' = [code EXCEPT ![r] = Response(r)]
  /\ UNCHANGED <<watcher, closed, shellCall, dismissals, alive, crashes, host,
                 said>>

\* end: the watcher is waited for, then the Request is taken off the bus.
End(r) ==
  /\ pc[r] = "settled" /\ watcher[r] = "gone"
  /\ pc' = [pc EXCEPT ![r] = "done"]
  /\ UNCHANGED <<code, watcher, closed, shellCall, dismissals, alive, crashes,
                 host, said>>

-----------------------------------------------------------------------------
\* The shell.

\* The first n of a line, whose overlays cannot be mapped, are answered no,
\* each from within the start of the next; the one behind them shows.
Refused(line, n, calls) ==
  [r \in Requests |-> IF \E i \in 1 .. n : line[i] = r THEN "no" ELSE calls[r]]
Shown(line, n) == IF n < Len(line) THEN line[n + 1] ELSE NoRequest

\* Mutant: the window that plays its exit stays when the next one opens.
OpenOverlayBeside(r) ==
  /\ win' = r /\ closing' = FALSE
  /\ mapped' = (mapped \cup {r}) \ {NoRequest}
\* show: what is still mapped goes, the overlay of r, if any, is mapped.
OpenOverlay(r) ==
  /\ win' = r /\ closing' = FALSE
  /\ mapped' = ((mapped \ {win}) \cup {r}) \ {NoRequest}

\* The starts of Enqueue and Done, over the line of those to show.
StartNext(line, calls) ==
  \E n \in 0 .. (IF "open" \in Faults THEN Len(line) ELSE 0) :
    /\ shellCall' = Refused(line, n, calls)
    /\ showing' = Shown(line, n)
    /\ answer' = Shown(line, n)
    /\ waiting' = SubSeq(line, n + 2, Len(line))
    /\ OpenOverlay(Shown(line, n))

\* hide, with nothing to show after it: the exit plays.
HideOverlay ==
  /\ closing' = (win # NoRequest)
  /\ UNCHANGED <<win, mapped>>

\* Mutant: the queue is not told that the request is answered.
FinishUncounted(word) ==
  /\ shellCall' = [shellCall EXCEPT ![answer] = word]
  /\ answer' = NoRequest
  /\ HideOverlay
  /\ UNCHANGED <<showing, waiting>>
\* finish, with h.answer set: answer, hide and Queue.Done.
Finish(word) ==
  LET calls == [shellCall EXCEPT ![answer] = word]
  IN  \/ /\ waiting = << >>
         /\ shellCall' = calls
         /\ showing' = NoRequest /\ answer' = NoRequest
         /\ HideOverlay
         /\ UNCHANGED waiting
      \/ /\ waiting # << >>
         /\ StartNext(waiting, calls)

\* Mutant: a request that comes while one shows is put first.
EnqueueFirst(r) ==
  /\ shellCall[r] = "sent"
  /\ LET calls == [shellCall EXCEPT ![r] = "held"]
     IN  \/ /\ showing # NoRequest
            /\ shellCall' = calls
            /\ waiting' = <<r>> \o waiting
            /\ UNCHANGED <<showing, answer, windows>>
         \/ /\ showing = NoRequest
            /\ StartNext(<<r>>, calls)
  /\ UNCHANGED <<portal, dismissals, alive, crashes, said>>
\* ask reaches the loop: Enqueue.
Enqueue(r) ==
  /\ shellCall[r] = "sent"
  /\ LET calls == [shellCall EXCEPT ![r] = "held"]
     IN  \/ /\ showing # NoRequest
            /\ shellCall' = calls
            /\ waiting' = Append(waiting, r)
            /\ UNCHANGED <<showing, answer, windows>>
         \/ /\ showing = NoRequest
            /\ StartNext(<<r>>, calls)
  /\ UNCHANGED <<portal, dismissals, alive, crashes, said>>

Entries(line) == {line[i] : i \in 1 .. Len(line)}
Waits(r) == r \in Entries(waiting)
Without(line, i) == SubSeq(line, 1, i - 1) \o SubSeq(line, i + 1, Len(line))

\* Mutant: a request that waits is dropped without an answer.
DropSilently(r) ==
  /\ \E i \in 1 .. Len(waiting) :
       waiting[i] = r /\ waiting' = Without(waiting, i)
  /\ UNCHANGED <<shellCall, showing, answer, windows>>
\* Queue.Dismiss of a waiting entry, which cancel answers.
Drop(r) ==
  /\ \E i \in 1 .. Len(waiting) :
       waiting[i] = r /\ waiting' = Without(waiting, i)
  /\ shellCall' = [shellCall EXCEPT ![r] = "no"]
  /\ UNCHANGED <<showing, answer, windows>>

\* Dismiss on the loop: the handle shows, waits or is not known.
Dismiss(r) ==
  /\ r \in dismissals
  /\ dismissals' = dismissals \ {r}
  /\ \/ /\ showing = r /\ answer # NoRequest
        /\ Finish("no")
     \/ /\ showing # r /\ Waits(r)
        /\ Drop(r)
     \/ /\ showing # r /\ ~Waits(r)
        /\ UNCHANGED <<shellCall, host>>
  /\ UNCHANGED <<portal, alive, crashes, said>>

\* A button of the overlay of r, or Escape on it; finish ignores it unless a
\* request is to be answered.
UserSays(r, word) ==
  /\ r \in mapped /\ answer # NoRequest
  /\ said' = [said EXCEPT ![r] = IF @ = "nothing" THEN word ELSE @]
  /\ Finish(word)
  /\ UNCHANGED <<portal, dismissals, alive, crashes>>

\* The exit of an overlay is over.
ExitPlayed ==
  /\ closing
  /\ win' = NoRequest /\ closing' = FALSE
  /\ mapped' = mapped \ {win}
  /\ UNCHANGED <<portal, shellCall, dismissals, alive, crashes, showing,
                 waiting, answer, said>>

\* The shell dies with its windows: the calls it had not answered fail, and
\* answers that were not sent yet are lost.
ShellDies ==
  /\ alive /\ Load < MaxLoad
  /\ alive' = FALSE /\ crashes' = crashes + 1
  /\ \E lost \in SUBSET {r \in Requests : pc[r] = "asking"} :
       shellCall' = [r \in Requests |->
         IF shellCall[r] \in {"sent", "held"}
              \/ (r \in lost /\ shellCall[r] \in {"yes", "no"})
           THEN "failed" ELSE shellCall[r]]
  /\ dismissals' = {}
  /\ showing' = NoRequest /\ waiting' = << >> /\ answer' = NoRequest
  /\ win' = NoRequest /\ closing' = FALSE /\ mapped' = {}
  /\ UNCHANGED <<portal, said>>

ShellStarts ==
  /\ ~alive
  /\ alive' = TRUE
  /\ UNCHANGED <<portal, shellCall, dismissals, crashes, host, said>>

-----------------------------------------------------------------------------
Init ==
  /\ pc = [r \in Requests |-> "idle"]
  /\ code = [r \in Requests |-> "none"]
  /\ watcher = [r \in Requests |-> "none"]
  /\ closed = {}
  /\ shellCall = [r \in Requests |-> "none"]
  /\ dismissals = {}
  /\ alive = TRUE /\ crashes = 0
  /\ showing = NoRequest /\ waiting = << >> /\ answer = NoRequest
  /\ win = NoRequest /\ closing = FALSE /\ mapped = {}
  /\ said = [r \in Requests |-> "nothing"]

\* What the two goroutines of a call do.
Watch(r) == WatcherCancels(r) \/ WatcherEnds(r)
Answer(r) == Settle(r) \/ End(r)

Next ==
  \/ \E r \in Requests :
       \/ Begin(r) \/ MountFails(r) \/ Close(r)
       \/ Watch(r) \/ Answer(r)
       \/ Enqueue(r) \/ Dismiss(r)
       \/ \E word \in {"yes", "no"} : UserSays(r, word)
  \/ ExitPlayed \/ ShellDies \/ ShellStarts

\* Goroutines run and calls arrive; the user need not answer.
Fairness ==
  /\ \A r \in Requests :
       /\ WF_vars(Watch(r)) /\ WF_vars(Answer(r))
       /\ WF_vars(Enqueue(r)) /\ WF_vars(Dismiss(r))
  /\ WF_vars(ExitPlayed) /\ WF_vars(ShellStarts)

Spec == Init /\ [][Next]_vars /\ Fairness

-----------------------------------------------------------------------------
\* Properties.

\* Type correctness of the methods, the shell's calls and its queue.
TypeOK ==
  /\ pc \in [Requests -> {"idle", "asking", "settled", "done"}]
  /\ code \in [Requests -> Codes]
  /\ watcher \in [Requests -> {"none", "watching", "dismissing", "gone"}]
  /\ closed \subseteq Requests
  /\ shellCall \in [Requests -> Calls]
  /\ dismissals \subseteq Requests
  /\ alive \in BOOLEAN /\ crashes \in Nat
  /\ showing \in MaybeRequest
  /\ waiting \in Seq(Requests)
  /\ answer \in MaybeRequest
  /\ win \in MaybeRequest /\ closing \in BOOLEAN /\ mapped \subseteq Requests
  /\ said \in [Requests -> {"nothing", "yes", "no"}]

\* Every handler of the shell that waits for an answer has its place, once:
\* its request shows or waits, and none waits while nothing shows.  A lost
\* entry would leave the call of the application without an answer for ever.
Distinct(line) == \A i, j \in 1 .. Len(line) : line[i] = line[j] => i = j
EveryHandlerHasItsPlace ==
  /\ \A r \in Requests : shellCall[r] = "held" <=> (showing = r \/ Waits(r))
  /\ Distinct(waiting)
  /\ ~Waits(showing)
  /\ showing = NoRequest => waiting = << >>

QueueIsSound == TypeOK /\ EveryHandlerHasItsPlace

\* What is on the screen is the dialog of the request it would answer; a
\* dialog that plays its exit answers nobody.
ScreenMatchesQueue ==
  /\ answer = showing
  /\ mapped = {win} \ {NoRequest}
  /\ showing # NoRequest => win = showing /\ ~closing
  /\ closing => win # NoRequest

\* The backend, the bus and the host keep the promise: one reply, a success
\* only for a yes on the request's own dialog, a cancel for a closed request.
Promise == INSTANCE DialogPromise WITH
  stage <- [r \in Requests |->
              CASE pc[r] = "idle"   -> "idle"
                [] pc[r] = "asking" -> "open"
                [] OTHER            -> code[r]]
KeepsItsPromise == Promise!Spec

\* Requests show in the order in which they came to the shell: while r waits,
\* no q that came later, or is still to come, shows or gets ahead of it.
Ahead(r, q) ==
  \E i, j \in 1 .. Len(waiting) : i < j /\ waiting[i] = r /\ waiting[j] = q
Before(r, q) == Waits(r) /\ (Ahead(r, q) \/ shellCall[q] \in {"none", "sent"})
ShownInOrder ==
  [][\A r, q \in Requests :
       Before(r, q) /\ Waits(r)'
         => showing' # q /\ (Waits(q)' => Ahead(r, q)')]_vars

\* An application that closes its request has its reply without the user.
ClosedIsReplied == \A r \in Requests : r \in closed ~> pc[r] = "done"

\* Unless the user leaves a dialog on the screen for ever, every call that
\* reached the shell is answered.
EveryCallIsAnswered ==
  (\A r \in Requests : []<>(answer # r))
     => \A r \in Requests : shellCall[r] = "held" ~> shellCall[r] # "held"

\* Nobody waits for ever, besides for the user.
RepliesCome == ClosedIsReplied /\ EveryCallIsAnswered
=============================================================================
