SPECIFICATION Spec
CONSTANTS
  film = film
  Players <- MCPlayers
  MaxRamps = 1
  MediaLevels <- MCLevels
  Cap = 3
  Absences <- MCAbsences
  MaxAbsence = 2
  Debounce = 0
  StaleAfter = 1
  Fade = 2
  Blackout = 0
  InputUnknownCap = 0
  ConfirmFrames = 1
  ConfirmWindow = 0
  FrameKinds <- BasicFrames
  Scenarios = {{"touch"}}
PROPERTIES
  TouchedIsLeftAlone
