SPECIFICATION LevelsSpec
CONSTANTS
  PlayWidth = 3
  PlayHeight = 4
  BlockPool <- SmallPool
  Keys <- AllKeys
  RowsPerLevel = 2
  TimerDuration = 2
  TickDuration = 1
  MaxRate = 2
  RangeIncludesEnd = TRUE
  MaxLevel = 3
  MaxRowsCleared = 6
CONSTRAINT Bounded
VIEW LevelsView
INVARIANTS TypeOK LevelNotBehind FairLevel
