CONSTANTS
  Cap = 6
  MaxLen = 2
  SizeLimit = 16
  Memory = {TRUE}
  Lower = "a"
  Upper = "A"
SPECIFICATION Spec
INVARIANTS BuildInv ArrayAsPromised ReturnAsPromised StaysInside
PROPERTY CopyReturns
CHECK_DEADLOCK FALSE
