SPECIFICATION Spec
CONSTANTS
  MaxItems = 2
  e1 = e1
  e2 = e2
  s1 = s1
  s2 = s2
  lost = lost
  both = both
  first = first
  second = second
  neither = neither
  broken = broken
  absent = absent
  failed = failed
  skipped = skipped
  dangling = dangling
  ItemId <- MCItemId
  Entity <- MCEntity
  StateId <- MCStateId
  Status <- MCStatus
  ObjectMatch <- MCObjectMatch
  Comparison <- MCComparison
  EntityCheck <- MCEntityCheck
  States <- MCStates
  Tests <- MCTests
  Collections <- MCCollections
INVARIANTS
  CompleteFollowsTheSchema
  TestedItemsExplainTheResult
  TrueStandsWhenIncomplete
  FalseStandsForEveryItemChecks
