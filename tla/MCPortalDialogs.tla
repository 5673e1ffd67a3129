-------------------------- MODULE MCPortalDialogs --------------------------
(***************************************************************************)
(* An instance of PortalDialogs small enough for TLC.                      *)
(***************************************************************************)
EXTENDS PortalDialogs

AllFaults == {"mount", "open"}
=============================================================================
