SPECIFICATION FairSpec
CONSTANTS
  PlayWidth = 4
  PlayHeight = 4
  BlockPool <- CornerPool
  Keys <- AllKeys
  RowsPerLevel = 2
  TimerDuration = 2
  TickDuration = 1
  MaxRate = 1
  RangeIncludesEnd = FALSE
  MaxLevel = 1
  MaxRowsCleared = 1
VIEW EndlessView
INVARIANTS PendingRowsFull TeleportNeedsBlock
PROPERTIES FullRowsPending ScoreAccounted BlockLands KeepsRules
