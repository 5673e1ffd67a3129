------------------------- MODULE MCWallpaperPalette -------------------------
(***************************************************************************)
(* An instance of WallpaperPalette small enough for TLC.                   *)
(***************************************************************************)
EXTENDS WallpaperPalette

CONSTANTS cycle, dbus, reload, p1, p2, e1, e2, none
=============================================================================
