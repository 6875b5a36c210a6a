SPECIFICATION LiveSpec
CONSTANT MaxChanges = 2
PROPERTY RenegotiatesSafely
CHECK_DEADLOCK FALSE
