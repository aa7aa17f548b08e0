SPECIFICATION Spec
CONSTANTS
  Name <- MCName
  Fold <- MCFold
  Ordinal <- MCOrdinal
  OwnProcess <- MCOwnProcess
  DigestNames <- MCDigestNames
  Questions <- MCQuestions
INVARIANTS
  NothingInvented
  NothingMissed
CHECK_DEADLOCK FALSE
