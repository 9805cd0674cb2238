SPECIFICATION Spec
CONSTANTS
  PlayWidth = 5
  PlayHeight = 4
  BlockPool <- TetrominoPool
  Keys <- PlayKeys
  RowsPerLevel = 2
  TimerDuration = 2
  TickDuration = 1
  MaxRate = 1
  RangeIncludesEnd = FALSE
  MaxLevel = 1
  MaxRowsCleared = 1
VIEW EndlessView
INVARIANT InBounds
PROPERTIES NoOverlapByMoving PointsConserved BlockNeverRises
