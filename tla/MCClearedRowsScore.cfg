SPECIFICATION Spec
CONSTANTS
  PlayWidth = 3
  PlayHeight = 4
  BlockPool <- SmallPool
  Keys <- PlayKeys
  RowsPerLevel = 2
  TimerDuration = 2
  TickDuration = 1
  MaxRate = 1
  RangeIncludesEnd = FALSE
  MaxLevel = 1
  MaxRowsCleared = 1
VIEW EndlessView
PROPERTY ClearedRowsScore
