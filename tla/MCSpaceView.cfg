SPECIFICATION Spec
CONSTANTS
  Sticker = {s1, s2}
  Channel = {general, c1}
  General = general
  User = {u1}
  Request = {q1, q2}
  MaxUses = 3
  MaxLosses = 1
SYMMETRY Slots
INVARIANT SpaceHasKey
INVARIANT ListsMatch
INVARIANT MembersMatch
INVARIANT ImagesMatch
CHECK_DEADLOCK FALSE
