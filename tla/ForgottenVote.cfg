\* Two leaders in one term.
SPECIFICATION MCSpec
CONSTANTS
  Server = {0, 1, 2}
  NoCommand = 0
  Command <- MCCommand
  SnapShotInterval = 10
  Links <- IntoSecond
  MaxElections <- First2Third2
  MaxHeartbeats <- First1
  MaxRestarts <- First1
  MaxStarts = 1
INVARIANTS
  ElectionSafety
\* The budgets of the environment run out.
CHECK_DEADLOCK FALSE
