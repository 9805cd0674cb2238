SPECIFICATION Spec
CONSTANTS
  GridSize = 3
  MaxShift = 1
  Width = 4
  Height = 2
  MaxSize = 4
  MaxDrawn = 1
  MaxTyped = 5
  DecimalPlaces = 2
  MAX = 127
INVARIANTS TurnsReturn TurnKeepsPlace TurnCommutesWithMove
INVARIANTS RectIsRecursion RectExact
INVARIANTS DecimalRoundTrip DecimalExact
CHECK_DEADLOCK FALSE
