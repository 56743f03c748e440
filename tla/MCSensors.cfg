SPECIFICATION FairSpec
CONSTANTS
  Readings <- MCReadings
  Room = 2
  Happenings = {"failures", "kill", "stop"}
  QueueRoom = 10
  Losses = 1
INVARIANTS
  TypeOK_Sensors
  StoppedLeavesItOff
  OnlyFramesInOrder
  NoFrameWaits
PROPERTIES
  WakesForTheDesk
  SleepsWhileTyping
  NewsArrives
  FramesKeepComing
