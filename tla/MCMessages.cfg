SPECIFICATION LiveSpec
CONSTANTS
  Client = {a}
  Epoch = {1}
  MaxId = 3
  PageSize = 2
  Slot = {s1, s2}
  MaxLosses = 1
INVARIANT ShownOnce
INVARIANT NothingElseMissed
INVARIANT ShownInOrder
INVARIANT PagesTile
PROPERTY PostedIsShown
CHECK_DEADLOCK FALSE
