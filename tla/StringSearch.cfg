CONSTANT Calls <- MCCalls
SPECIFICATION Spec
INVARIANTS SearchInv ResultAsPromised ReadsInside ClassesAgree TextMatches
PROPERTY SearchReturns
CHECK_DEADLOCK FALSE
