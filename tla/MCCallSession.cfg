SPECIFICATION Spec
CONSTANTS
  Manager = {m1, m2}
  Stream = {s1, s2}
  User = {u}
  None = None
SYMMETRY Symmetry
INVARIANTS
  OnlyTheCallListens
  OnlyTheCallCaptures
  MutedIsMute
  DeafenedIsSilent
  BroadcastIsShown
  PeersAreSentAll
  PeersAreHeard
CHECK_DEADLOCK FALSE
