SPECIFICATION LiveSpec
CONSTANTS
  Users = {o, a, b}
  Owner = o
  InitMembers = {o, a}
  Removals = {r1}
  FirstKey = K1
  NoKey = NoKey
  MaxEpoch = 2
  MaxJoins = 1
  MaxDrops = 0
INVARIANT QuietHasKeys
INVARIANT WrapsOfMembersOnly
PROPERTY KeysReachMembersOnly
PROPERTY NewcomerGetsKeys
CHECK_DEADLOCK FALSE
