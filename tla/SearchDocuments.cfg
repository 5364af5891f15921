CONSTANT Calls <- DocumentedCalls
SPECIFICATION Spec
INVARIANT AsDocumented
CHECK_DEADLOCK FALSE
