---------------------------- MODULE MCPopupHost ----------------------------
(***************************************************************************)
(* Instances of PopupHost small enough for TLC.                            *)
(***************************************************************************)
EXTENDS PopupHost

CONSTANTS a, main, timer

Kind(ttl, transient, resident) ==
  [ttl |-> ttl, transient |-> transient, resident |-> resident]

\* Popups backed by a history entry for as long as they show.
BackedKinds == {Kind("default", FALSE, FALSE), Kind("sticky", FALSE, TRUE)}

\* The application is blocked, or nobody is.
BlocklistOrNone == {{}, {a}}

Config(limit, newestFirst, closeRemoves) ==
  [limit |-> limit, newestFirst |-> newestFirst, closeRemoves |-> closeRemoves]

TwoConfigs == {Config(2, TRUE, TRUE), Config(1, FALSE, FALSE)}
=============================================================================
