SPECIFICATION Spec
CONSTANTS
  cycle = cycle  dbus = dbus  reload = reload
  p1 = p1  p2 = p2  e1 = e1  e2 = e2  none = none
  Callers = {cycle, dbus, reload}
  Monitors = {1, 2}
  Pictures = {p1, p2}
  Extractors = {e1, e2, none}
  NoTool = none
  NoPicture = NoPicture
  MaxLoad = 4
INVARIANTS PaletteIsSound
CHECK_DEADLOCK FALSE
PROPERTIES PaletteSettles
