SPECIFICATION LiveSpec
CONSTANT MaxChanges = 3
INVARIANTS
  AnswersMatch
  RestsAgreed
PROPERTIES
  ImplementsAgreement
  Settles
CHECK_DEADLOCK FALSE
