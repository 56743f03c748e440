SPECIFICATION FairSpec
CONSTANTS
  Cap = 6
  Absences <- MCAbsences
  MaxAbsence = 3
  Debounce = 1
  StaleAfter = 1
  Fade = 1
  Blackout = 2
  InputUnknownCap = 3
  ConfirmFrames = 2
  ConfirmWindow = 2
  FrameKinds <- AllFrames
INVARIANTS
  HistoryTypeOK
  NoGhostPresence
PROPERTIES
  DepartureIsEarned
  ArrivalIsDebounced
  EmptyRoomGoesAway
  BodyIsSeen
  IsAVerdict
