\* The dropped entry was committed, and another one is applied in its place.
SPECIFICATION MCSpec
CONSTANTS
  Server = {0, 1, 2}
  NoCommand = 0
  Command <- MCCommand
  SnapShotInterval = 10
  Links <- Chain
  MaxElections <- First1Second1
  MaxHeartbeats <- None0
  MaxRestarts <- None0
  MaxStarts = 2
INVARIANTS
  StateMachineSafety
\* The budgets of the environment run out.
CHECK_DEADLOCK FALSE
