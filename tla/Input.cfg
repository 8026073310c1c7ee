SPECIFICATION FairSpec
CONSTANTS
  Inputs <- MCInputs
  CursorEnabled = TRUE
  DpadZoom = TRUE
  Disconnects = TRUE
  Width = 2
  HideAfter = 2
  Period = 1
  ZoomMax = 3
INVARIANTS
  TouchWellFormed
  TouchAtTip
  R3OneRole
  GoneReleasesAll
PROPERTIES
  CursorHides
  ZoomKeepsMenuChange
\* The loop ends on SDL_QUIT and on signals, and the process on SELECT+START.
CHECK_DEADLOCK FALSE
