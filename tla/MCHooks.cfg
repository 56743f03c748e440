SPECIFICATION FairSpec
CONSTANTS
  Cap = 5
  Absences <- MCAbsences
  MaxAbsence = 2
  Debounce = 1
  StaleAfter = 1
  Fade = 0
  Blackout = 0
  InputUnknownCap = 1
  ConfirmFrames = 2
  ConfirmWindow = 2
  FrameKinds <- RadarFrames
  Quick = 4
  Dwell = 3
  Levels <- MCLevels
PROPERTIES
  PhantomStaysDark
  ReturnIsHeard
