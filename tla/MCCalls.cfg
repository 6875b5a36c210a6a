SPECIFICATION Spec
CONSTANTS
  Users = {u1, u2}
  Channels = {c1}
  Nil = Nil
  Member <- AllMembers
  MaxConns = 3
  MaxQueue = 1
  MaxJoins = 2
  MaxSignals = 1
INVARIANT MeshFollowsRoster
INVARIANT RosterIsOfCallers
CONSTRAINT NoRace
SYMMETRY Swap
VIEW Seen
CHECK_DEADLOCK FALSE
