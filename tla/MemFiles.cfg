CONSTANTS
  Path <- MCPath
  Content = {"", "x"}
  Empty = ""
  Handles = {h1}
  Moves <- MCMoves
SPECIFICATION Spec
CONSTRAINT HandleBound
CHECK_DEADLOCK FALSE
INVARIANT WellFormed
PROPERTY ImplementsFileSystem
