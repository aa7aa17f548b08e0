SPECIFICATION Spec
CONSTANTS
  a = a
  b = b
  u = u
  su = su
  w = w
  sw = sw
  s1 = s1
  s2 = s2
  x = x
  y = y
  gone = gone
  skip = skip
  broken = broken
  MCVarFlags = {"error"}
  Node <- MCNode
  Item <- MCItem
  Status <- MCStatus
  Found <- MCFound
  Documents <- MCDocuments
INVARIANTS
  SetsAreSound
  SetsFollowTheirReferences
  ProbedOnce
