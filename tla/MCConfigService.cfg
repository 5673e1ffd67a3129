SPECIFICATION Spec
CONSTANTS
  shell = shell  cli = cli
  theme = theme
  t1 = t1  t2 = t2
  Procs = {shell, cli}
  Watching = {shell}
  Leaves = {theme}
  Trees = {t1, t2}
  First = t1
  Broken = Broken
  MaxLoad = 3
INVARIANTS FilesAreWhole
CHECK_DEADLOCK FALSE
PROPERTIES OverridesFollowTheFile EditsAreShown
