---------------------------- MODULE SessionLock ----------------------------
(***************************************************************************)
(* What a lock screen owes to the user who locks a session: the session    *)
(* opens only for somebody who showed who they are for this very lock, who *)
(* comes back while the lock is recent and the user allows that, by order  *)
(* of the session manager, or because the compositor takes the lock back;  *)
(* who shows who they are is let in; and a session whose screen died stays *)
(* locked until another screen covers it.                                  *)
(***************************************************************************)
EXTENDS Integers

VARIABLES
  session,  \* "open", "covered" by a screen, or "abandoned": locked without one
  wanted,   \* a screen has the lock, or has asked for it
  lock,     \* how many locks were asked for, which names the present one
  proved,   \* locks whose user showed who they are, unheard so far
  bidden,   \* the session manager orders an unlock, unheard so far
  fresh,    \* the lock is recent
  lenient,  \* the user lets a recent lock open without a proof
  ended     \* how many locks the compositor took back

vars == <<session, wanted, lock, proved, bidden, fresh, lenient, ended>>

Init ==
  /\ session = "open" /\ wanted = FALSE /\ lock = 0
  /\ proved = {} /\ bidden = FALSE
  /\ fresh = FALSE /\ lenient \in BOOLEAN
  /\ ended = 0

\* The screen gives the lock up; a session it did not cover stays as it is.
Open ==
  /\ session' = IF session = "covered" THEN "open" ELSE session
  /\ wanted' = FALSE /\ fresh' = FALSE

Kept == UNCHANGED <<session, wanted, fresh>>

\* A lock is asked for; the request may fail at once.
Ask ==
  /\ ~wanted /\ wanted' \in BOOLEAN
  /\ lock' = lock + 1 /\ fresh' = TRUE
  /\ UNCHANGED <<session, proved, bidden, lenient, ended>>

\* The compositor hides the session behind the screen.
Cover ==
  /\ wanted /\ session # "covered" /\ session' = "covered"
  /\ UNCHANGED <<wanted, lock, proved, bidden, fresh, lenient, ended>>

\* The user shows who they are, for lock l.
Prove(l) ==
  /\ proved' = proved \cup {l}
  /\ Kept /\ UNCHANGED <<lock, bidden, lenient, ended>>

\* The screen hears of it; it may come too late for that lock.
Hear(l) ==
  /\ proved' \in {proved, proved \ {l}}
  /\ \/ l = lock /\ Open
     \/ (l # lock \/ ~wanted) /\ Kept
  /\ UNCHANGED <<lock, bidden, lenient, ended>>

\* The session manager orders an unlock, and the screen obeys.
Bid ==
  /\ bidden' = TRUE
  /\ Kept /\ UNCHANGED <<lock, proved, lenient, ended>>
Obey ==
  /\ bidden /\ bidden' \in BOOLEAN
  /\ Open /\ UNCHANGED <<lock, proved, lenient, ended>>

\* A key in the grace period.
Excuse ==
  /\ wanted /\ fresh /\ lenient
  /\ Open /\ UNCHANGED <<lock, proved, bidden, lenient, ended>>

\* The compositor refuses the lock, or takes it back.
Refuse ==
  /\ wanted /\ session # "covered"
  /\ Open /\ UNCHANGED <<lock, proved, bidden, lenient, ended>>
TakeBack ==
  /\ session = "covered" /\ ended' = ended + 1
  /\ Open /\ UNCHANGED <<lock, proved, bidden, lenient>>

Age ==
  /\ fresh' = FALSE
  /\ UNCHANGED <<session, wanted, lock, proved, bidden, lenient, ended>>

Configure ==
  /\ lenient' \in BOOLEAN
  /\ Kept /\ UNCHANGED <<lock, proved, bidden, ended>>

\* The screen dies: the session stays locked.
Die ==
  /\ session' = IF session = "covered" THEN "abandoned" ELSE session
  /\ wanted' = FALSE /\ fresh' = FALSE /\ proved' = {} /\ bidden' = FALSE
  /\ UNCHANGED <<lock, lenient, ended>>

Next ==
  \/ Ask \/ Cover
  \/ \E l \in 1 .. lock : Prove(l)
  \/ \E l \in proved : Hear(l)
  \/ Bid \/ Obey \/ Excuse \/ Refuse \/ TakeBack
  \/ Age \/ Configure \/ Die

Spec == Init /\ [][Next]_vars
=============================================================================
