----------------------------- MODULE MCRecorder -----------------------------
(***************************************************************************)
(* Instances of Recorder small enough for TLC.                             *)
(***************************************************************************)
EXTENDS Recorder

CONSTANTS ui
=============================================================================
