SPECIFICATION Spec
CONSTANTS
  Path <- MCPath
  Moves <- MCMoves
  Lockers = {g1, g2, g3}
  MaxCalls = 1
INVARIANTS Exclusion SleeperIsExcluded
PROPERTY LockReturns
CHECK_DEADLOCK FALSE
