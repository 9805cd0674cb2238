SPECIFICATION Spec
CONSTANTS
  TermWidth = 4
  TermHeight = 4
  Graphemes = {" ", "a"}
  Space = " "
  Colors = {"black", "white", "red", "default"}
  Default = "default"
  Views <- SmallViews
  Black = "black"
INVARIANTS ScreenShowsView NoFlicker
PROPERTIES OnlyViewTouched ShowsEveryView
CHECK_DEADLOCK FALSE
