SPECIFICATION LedFairSpec
CONSTANTS
  Width = 32
  Patterns = {{3, 4}, {0, 2, 4, 6}, {7}}
  MaxBright = 4
  LowerBound = 2
PROPERTIES
  RotatesRing
  LastRequestShown
