-------------------------- MODULE MCConfigService --------------------------
(***************************************************************************)
(* An instance of ConfigService small enough for TLC.                      *)
(***************************************************************************)
EXTENDS ConfigService

CONSTANTS shell, cli, theme, t1, t2
=============================================================================
