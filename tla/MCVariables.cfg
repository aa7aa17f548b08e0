SPECIFICATION Spec
CONSTANTS
  RegexChars = {"a"}
  MCFinds = {"all", "some", "twice", "record"}
  Variable <- MCVariable
  Object <- MCObject
  Component <- MCComponent
  Item <- MCItem
  ItemField <- MCItemField
  Fields <- MCFields
  Clock = {20, 21}
  Documents <- MCDocuments
INVARIANTS
  CyclesEndInErrors
  CompleteMeansComplete
  PhasesAgree
  TestsListTheVariablesUsed
  FunctionsMeetTheSchema
PROPERTIES
  RunEnds
