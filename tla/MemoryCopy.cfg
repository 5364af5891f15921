CONSTANTS
  Size = 4
  Contents = {b1, b2, b3}
SPECIFICATION Spec
INVARIANTS BlockCopied SourceIntact CopyInv
CHECK_DEADLOCK FALSE
