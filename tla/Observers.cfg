SPECIFICATION ObserversSpec
CONSTANTS
  Observer = {o1, o2, o3}
  Null = Null
  MaxDepth = 2
  MaxAdds = 4
  Careful = TRUE
INVARIANT NothingPending
CHECK_DEADLOCK FALSE
