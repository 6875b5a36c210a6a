SPECIFICATION Spec
CONSTANTS
  Users = {o, a, b}
  Owner = o
  InitMembers = {o, a, b}
  Removals = {r1}
  FirstKey = K1
  NoKey = NoKey
  MaxEpoch = 2
  MaxJoins = 0
  MaxDrops = 1
INVARIANT NewEpochInUse
CHECK_DEADLOCK FALSE
