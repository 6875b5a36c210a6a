SPECIFICATION Spec
CONSTANTS
  Users = {o, a, b}
  Owner = o
  InitMembers = {o, a, b}
  Removals = {r1, r2}
  FirstKey = K1
  NoKey = NoKey
  MaxEpoch = 3
  MaxJoins = 0
  MaxDrops = 2
SYMMETRY SameRemovals
INVARIANT OwnerHasEveryEpoch
INVARIANT OneEpochPerKey
INVARIANT KeysAgreeUnlessCollided
INVARIANT RemovedCannotRead
PROPERTY FirstWrapWins
CHECK_DEADLOCK FALSE
