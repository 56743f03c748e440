CONSTANTS
  Energies <- MCEnergies
  Slots = 2
  MinFrames = 2
  PerSlot = 3
  Num = 2
  Den = 3
  Margin = 2
  Lowest = 2
  Highest = 4

SPECIFICATION Spec

INVARIANTS
  TypeOK_Floor

PROPERTIES
  FallsOnlyOnFreshFrames
  ThresholdFollowsTheNoise
