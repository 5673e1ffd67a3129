--------------------------- MODULE DialogPromise ---------------------------
(***************************************************************************)
(* What a portal method that shows a dialog owes to the application and to *)
(* the user, whatever happens in between: one reply, a success only when   *)
(* the user said yes on the dialog of that very request, and nothing but a *)
(* cancel once the application closed the request.                         *)
(***************************************************************************)
CONSTANT Requests   \* the calls applications make

VARIABLES
  stage,   \* how far a request is: "idle", "open" or the code of its reply
  closed,  \* the requests their application closed
  said     \* what the user said on the dialog of a request

vars == <<stage, closed, said>>

Codes == {"success", "cancelled", "other"}

Init ==
  /\ stage = [r \in Requests |-> "idle"]
  /\ closed = {}
  /\ said = [r \in Requests |-> "nothing"]

Ask(r) ==
  /\ stage[r] = "idle"
  /\ stage' = [stage EXCEPT ![r] = "open"]
  /\ UNCHANGED <<closed, said>>

\* A request that cannot even be set up is answered at once.
Refuse(r) ==
  /\ stage[r] = "idle"
  /\ stage' = [stage EXCEPT ![r] = "other"]
  /\ UNCHANGED <<closed, said>>

Close(r) ==
  /\ stage[r] # "idle"
  /\ closed' = closed \cup {r}
  /\ UNCHANGED <<stage, said>>

\* The user decides, once.
Say(r, word) ==
  /\ said[r] = "nothing"
  /\ said' = [said EXCEPT ![r] = word]
  /\ UNCHANGED <<stage, closed>>

MayReply(r, code) ==
  /\ r \in closed => code = "cancelled"
  /\ code = "success" => said[r] = "yes"
  /\ code = "cancelled" => r \in closed \/ said[r] # "yes"

Reply(r, code) ==
  /\ stage[r] = "open"
  /\ MayReply(r, code)
  /\ stage' = [stage EXCEPT ![r] = code]
  /\ UNCHANGED <<closed, said>>

Next ==
  \E r \in Requests :
    \/ Ask(r) \/ Refuse(r) \/ Close(r)
    \/ \E word \in {"yes", "no"} : Say(r, word)
    \/ \E code \in Codes : Reply(r, code)

Spec == Init /\ [][Next]_vars
=============================================================================
