SPECIFICATION Spec
CONSTANTS
  d1 = d1
  d2 = d2
  d3 = d3
  c1 = c1
  c2 = c2
  c3 = c3
  k1 = k1
  k2 = k2
  k3 = k3
  k4 = k4
  t1 = t1
  t2 = t2
  x = x
  Node <- MCNode
  Documents <- MCDocuments
  Requests <- MCRequests
INVARIANTS
  ReportedExactlyOnce
  WrittenOnce
  ResultsFollowTheSchema
  ExactlyTheNeededTests
  DocumentIsComplete
PROPERTIES
  ImplementsVerdicts
