SPECIFICATION HubLiveSpec
CONSTANTS
  Users = {u1, u2}
  Channels = {c1, c2}
  Nil = Nil
  Member <- AllMembers
  MaxConns = 2
  MaxQueue = 0
INVARIANT NoGhostInRoster
PROPERTY ImplementsRosters
PROPERTY OfflineLeaves
CHECK_DEADLOCK FALSE
