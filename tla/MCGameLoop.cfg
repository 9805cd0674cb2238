SPECIFICATION FairLoopSpec
CONSTANTS
  TermWidth = 2
  TermHeight = 4
  Graphemes = {" ", "a"}
  Space = " "
  Colors = {"black", "red", "default"}
  Default = "default"
  Views <- SmallViews
  Black = "black"
  Models <- SmallModels
  InitModel <- SmallModel
  Update <- SmallUpdate
  Draw <- SmallDraw
  Keys = {"right", "q", "exit"}
  QuitKeys = {"q", "exit"}
  OtherEvents = {"resize"}
  NoKey = ""
  MaxPressed = 4
  MaxQueue = 3
INVARIANTS LoopTypeOK TerminalRestored FrameShown KeysInOrder
PROPERTIES QuitKeyEnds
CHECK_DEADLOCK FALSE
