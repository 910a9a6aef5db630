SPECIFICATION Spec
CHECK_DEADLOCK FALSE
CONSTANTS
  Char = {"a", "b", " "}
  LINE_MAX = 6
  HIST_MAX = 3
  RX_RING = 5
  Tree <- MCTree
  Groups <- MCGroups
  MaxGroups = 5
INVARIANTS
  ScreenExact
PROPERTIES
  EditorSpec
