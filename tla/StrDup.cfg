CONSTANTS
  Cap = 6
  MaxLen = 2
  SizeLimit = 16
  Memory = {TRUE, FALSE}
  Lower = "a"
  Upper = "A"
SPECIFICATION Spec
INVARIANT NullWhenNoMemory
CHECK_DEADLOCK FALSE
