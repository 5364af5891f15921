CONSTANTS
  Bytes <- MCBytes
  Clients <- UnfitClients
  IntMax = 33
SPECIFICATION Spec
INVARIANT AlwaysTerminated
CHECK_DEADLOCK FALSE
