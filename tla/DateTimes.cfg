SPECIFICATION Spec
CONSTANTS
  Offset = 18000
  SummerFrom = 1236495600
  SummerTo = 1257055200
  FiletimeEpoch = 17
  FiletimeUnit = 1
  Now = 1247659200
  Years = {2008, 2009}
  Months = {3, 11}
  Days = {1, 8}
  Times = {0, 5400, 9000}
  Cuts = {5}
  Throws = Throws
  NoResult = NoResult
INVARIANTS
  DifferencesAreElapsedTime
  PartsAreRefused
CHECK_DEADLOCK FALSE
