SPECIFICATION Spec
CONSTANTS
  dbus = dbus  reload = reload
  dir1 = dir1  dir2 = dir2
  Callers = {dbus, reload}
  Runner = Runner
  Monitors = {1, 2}
  Dirs = {dir1, dir2}
  NoDir = NoDir
  MaxImages = 2
  Folders = {2}
  MaxLoad = 3
SYMMETRY Symmetry
INVARIANTS CycleIsSound PoolFollowsDirectory
CHECK_DEADLOCK FALSE
