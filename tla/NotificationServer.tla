------------------------- MODULE NotificationServer -------------------------
(***************************************************************************)
(* What a notification server that keeps a history owes to applications:   *)
(* an entry is replaced by its own application only, whatever else leaves  *)
(* the history is announced as closed, once, and an id that was closed, or *)
(* is about to be announced as such, names no later notification.          *)
(***************************************************************************)
EXTENDS Integers

CONSTANT Notes   \* the notifications: records with an id, an app and transient

VARIABLES
  kept,     \* the history
  leaving,  \* left the history, but the application has yet to be told
  told,     \* announced as closed in this session
  session   \* how often the server was started again

vars == <<kept, leaving, told, session>>

WithId(S, id) == {n \in S : n.id = id}

Init == kept = {} /\ leaving = {} /\ told = {} /\ session = 0

\* A notification takes the place of the one that has its id, if any; a
\* transient one is not kept itself.
Arrive(n) ==
  /\ WithId(leaving \cup told, n.id) = {}
  /\ \A m \in WithId(kept, n.id) : m.app = n.app
  /\ kept' = (kept \ WithId(kept, n.id)) \cup (IF n.transient THEN {} ELSE {n})
  /\ UNCHANGED <<leaving, told, session>>

\* Some are dismissed, closed or expire.
Leave ==
  /\ kept' \subseteq kept
  /\ leaving' = leaving \cup (kept \ kept')
  /\ UNCHANGED <<told, session>>

Tell(n) ==
  /\ leaving' = leaving \ {n}
  /\ told' = told \cup {n}
  /\ UNCHANGED <<kept, session>>

\* A session ends, and another begins with what was stored: no application
\* waits for an answer any more, and ids are again told apart.
Resume ==
  /\ kept' \subseteq Notes
  /\ \A m, n \in kept' : m.id = n.id => m = n
  /\ leaving' = {} /\ told' = {}
  /\ session' = session + 1

Next ==
  \/ Leave
  \/ \E n \in leaving : Tell(n)
  \/ \E n \in Notes : Arrive(n)
  \/ Resume

Spec == Init /\ [][Next]_vars
=============================================================================
