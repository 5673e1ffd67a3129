-------------------------- MODULE MCWallpaperCycle --------------------------
(***************************************************************************)
(* An instance of WallpaperCycle small enough for TLC.                     *)
(***************************************************************************)
EXTENDS WallpaperCycle, TLC

CONSTANTS dbus, reload, dir1, dir2

Symmetry == Permutations(Callers) \cup Permutations(Dirs)
=============================================================================
