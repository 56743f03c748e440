SPECIFICATION Spec
CONSTANTS
  Names <- MCNames
  Files <- MCFiles
  Inodes <- MCInodes
  Uses <- MCUses
  Contents <- MCContents
  Procs = {1, 2}
  Levels <- MCLevelsFiles
  Longest = 1
  Overrides <- MCOverrides
  Flag = 2
  MinAway = 2
  MaxAway = 3
PROPERTIES
  ClampIsAsCommented
