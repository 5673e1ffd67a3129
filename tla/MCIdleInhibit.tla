--------------------------- MODULE MCIdleInhibit ---------------------------
(***************************************************************************)
(* Instances of IdleInhibit small enough for TLC.                          *)
(***************************************************************************)
EXTENDS IdleInhibit

CONSTANTS a, b

\* One step up and one down.
OneMinute == {-1, 1}
=============================================================================
