SPECIFICATION FairSpec
CONSTANTS
  browser = browser
  voice = voice
  Apps <- MCApps
  Full = 4
  UserVolumes <- MCUserVolumes
  Depth = 1
  RampSteps = 2
  LatePasses = 1
  Happenings = {"crash", "repair-fails", "watch-dies"}
INVARIANTS
  TypeOK
  EveryFadeIsOnRecord
PROPERTIES
  NoStreamStaysFaded
  PendingIsWatched
  KeepsTheLevel
