SPECIFICATION Spec
CONSTANTS
  Name <- MCName
  Fold <- MCFold
  Ordinal <- MCOrdinal
  MaxLinks = 3
  Trees <- MCTrees
  Objects <- MCObjects
  MaxChanges = 1
INVARIANTS
  FoundMeetsTheObject
  StableFilesAreFound
  AbsenceIsCertain
