SPECIFICATION LinksSpec
CONSTANTS
  Leaf = {"a", "x", "y", "x2", "y2"}
  Composite = {"C", "D"}
  List = {"C", "D"}
  Elements <- MCElements
  Bound <- MCBound
  Value = {0, 1, 2}
  Linkable = {"C", "D", "y", "a"}
  MaxLinks = 2
  MaxCallbacks = 1
  NoProperty = "none"
INVARIANT LoopListStands
CHECK_DEADLOCK FALSE
