SPECIFICATION LiveSpec
CONSTANTS
  Files <- AllFiles
  Letters = {"a"}
  Toggles = {"@"}
  Ignored = {"#"}
INVARIANTS
  KeysInOrder
  CapsFollowsPresses
PROPERTIES
  AllThreadsEnd
