CONSTANTS
  Buffers = {b1}
  Slots = {s1}
  Unsaved = {}
  Letters = {"a", ",", ":"}
  Delims = {{","}, {":"}, {",", ":"}}
  MaxLen = 3
  Nullptr = Nullptr
  ContinueAfterNull = TRUE
SPECIFICATION Spec
PROPERTY NullptrIsFinal
