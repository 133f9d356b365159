SPECIFICATION OverlaySpec
CONSTANTS
  Path <- MCPath
  Content = {"up"}
  Moves <- MCMoves
  Lowers <- MCLowers
  Callers = {m}
INVARIANT UnionIsATree
CHECK_DEADLOCK FALSE
