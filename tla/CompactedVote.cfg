\* A voter whose log is all snapshot elects a leader that lacks what it applied.
SPECIFICATION MCSpec
CONSTANTS
  Server = {0, 1, 2}
  NoCommand = 0
  Command <- MCCommand
  SnapShotInterval = 2
  Links <- FirstOut
  MaxElections <- First1Third2
  MaxHeartbeats <- None0
  MaxRestarts <- None0
  MaxStarts = 1
INVARIANTS
  LeaderCompleteness
\* The budgets of the environment run out.
CHECK_DEADLOCK FALSE
