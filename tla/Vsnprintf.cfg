CONSTANTS
  Bytes <- MCBytes
  Clients <- MCClients
  IntMax = 33
SPECIFICATION Spec
INVARIANTS FormatInv OutputIsExpansion ReturnValue
PROPERTY CountIsExact
CHECK_DEADLOCK FALSE
