SPECIFICATION LiveSpec
CONSTANTS
  Account = {a1, a2}
  MaxRestarts = 1
INVARIANT StatusIsTrue
INVARIANT DeviceAgrees
INVARIANT ForgottenIsGone
INVARIANT LegacyKept
PROPERTY ImplementsBook
PROPERTY BootEnds
CHECK_DEADLOCK FALSE
