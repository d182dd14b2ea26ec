SPECIFICATION AllSpec
CONSTANTS
  Mapper = {"m1", "m2", "m3"}
  NoMapper = "none"
  Size = {0, 1, 2}
  Colours = 6
  MaxIndex = 7
  Button = {"left", "right"}
  PixelId = {0, 1, 2}
  Leaf = {"a", "x", "y", "u", "v"}
  Composite = {"C", "D", "K", "L"}
  List = {"K", "L"}
  Elements <- MCElements
  Bound <- MCBound
  Value = {0, 1, 2}
  Linkable = {"a", "x", "y", "C", "D", "K", "L", "u", "v"}
  MaxLinks = 3
  MaxCallbacks = 1
  NoProperty = "none"
  Observer = {"o1", "o2", "o3"}
  Null = "null"
  MaxDepth = 2
  MaxAdds = 3
  Careful = TRUE
  State = {"blank", "a", "broken"}
  Blank = "blank"
  Broken = "broken"
  NoState = "none"
  Length <- MCLength
  Buffered = {"blank"}
  MaxBuffer = 2
  MaxToSave = 2
INVARIANTS TypesOK RangesFollow RangesOwned PixelFindsMapper HoverFollowsPointer NoButtonSticks
  CacheIsCurrent LinksAgree NoCircularLinks RegistrationsAgree EachCalledOnce HistoryIsSaved
PROPERTIES PropagationEnds NewestIsSaved TimerFires
CHECK_DEADLOCK FALSE
