CONSTANTS
  Buffers = {b1, b2}
  Slots = {s1, s2, s3}
  Unsaved = {s3}
  Letters = {"a", ",", ":"}
  Delims = {{","}, {",", ":"}}
  MaxLen = 3
  Nullptr = Nullptr
  ContinueAfterNull = FALSE
SPECIFICATION Spec
INVARIANTS TokensCutString TokensStayTerminated TokenizerInv
