SPECIFICATION DrawSpec
CONSTANTS
  PlayWidth = 10
  PlayHeight = 20
  BlockPool <- Angles
  Keys = {"none", "left", "right", "spacebar", "r"}
  RowsPerLevel = 10
  TimerDuration = 1
  TickDuration = 1
  MaxRate = 1
  RangeIncludesEnd = FALSE
VIEW BoardView
INVARIANTS EdgesBlank FieldShown NumbersShown
