SPECIFICATION LiveSpec
CONSTANTS
  Client = {a}
  Epoch = {1}
  MaxId = 1
  PageSize = 1
  Slot = {s1}
  MaxLosses = 0
PROPERTY NewMembersReadHistory
CHECK_DEADLOCK FALSE
