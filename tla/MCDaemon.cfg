SPECIFICATION Spec
CONSTANTS
  Cap = 3
  Absences <- MCAbsences
  MaxAbsence = 1
  Debounce = 0
  StaleAfter = 1
  Fade = 0
  Blackout = 1
  InputUnknownCap = 1
  UnknownCap = 1
  ConfirmFrames = 1
  ConfirmWindow = 0
  FrameKinds <- BasicFrames
  Quick = 1
  Dwell = 1
  CheckEvery = 1
  WrittenLevels <- MCLevels
  MinBackoff = 1
  MaxBackoff = 1
  AttemptCap = 1
  Outcomes <- AllOutcomes
  Scenarios = {
    {"crash", "outage", "restart"},
    {"hold", "outage"},
    {"meddle"},
    {"sleep", "delay expires", "restart"}}
INVARIANTS
  TypeOK_Daemon
  OneScriptAtATime
PROPERTIES
  LitForAReason
