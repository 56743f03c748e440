SPECIFICATION FairSpec
CONSTANTS
  Names <- MCNames
  Files <- MCFiles
  Inodes <- MCInodes
  Uses <- MCUses
  Contents <- MCContents
  Procs = {1, 2, 3}
  Levels <- MCLevelsFiles
  Longest = 2
  Overrides <- MCOverrides
  Flag = 2
  MinAway = 2
  MaxAway = 3
INVARIANTS
  TypeOK_Files
  RestsAtLastLevel
  TouchIsHeard
PROPERTIES
  OverrideIsFollowed
  HoldExpires
