SPECIFICATION Spec
CONSTANTS
  ui = ui
  Pausers = {ui}
  MaxGen = 1  MaxElapsed = 1  Dies = TRUE
PROPERTIES DeadRecordingIsTornDown
CHECK_DEADLOCK FALSE
