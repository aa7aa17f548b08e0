SPECIFICATION Spec
CONSTANT MaxResults = 4
INVARIANT OperatorsFollowTheSchema
INVARIANT ChecksFollowTheSchema
INVARIANT NegatedOperandsAreDual
INVARIANT NestingIsAssociative
CHECK_DEADLOCK FALSE
