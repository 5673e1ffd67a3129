-------------------------- MODULE MCNotifications --------------------------
(***************************************************************************)
(* Instances of Notifications small enough for TLC.                        *)
(***************************************************************************)
EXTENDS Notifications, TLC

CONSTANTS a, b, main, bus, timer

Kind(ttl, transient, resident) ==
  [ttl |-> ttl, transient |-> transient, resident |-> resident]

\* One stored kind with a timeout and one transient kind without.
TimedKinds == {Kind("timed", FALSE, FALSE), Kind("default", TRUE, FALSE)}

\* One that is stored, popped up and timed out.
StoredKind == {Kind("timed", FALSE, FALSE)}

NoBlocklists == {{}}
BIsBlocked   == {{b}}
=============================================================================
