SPECIFICATION Spec
CONSTANTS
  ui = ui
  Pausers = {ui}
  MaxGen = 3  MaxElapsed = 2  Dies = TRUE
INVARIANTS
  TypeOK CaptureIsAccountedFor PauseAgrees
PROPERTIES StopSettles
CHECK_DEADLOCK FALSE
