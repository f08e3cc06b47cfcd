\* A leader commits an entry of an earlier term by counting replicas.
SPECIFICATION MCSpec
CONSTANTS
  Server = {0, 1}
  NoCommand = 0
  Command <- MCCommand
  SnapShotInterval = 10
  Links <- AllLinks
  MaxElections <- First2
  MaxHeartbeats <- None0
  MaxRestarts <- First1
  MaxStarts = 1
PROPERTIES
  CommitsOwnTermOnly
\* The budgets of the environment run out.
CHECK_DEADLOCK FALSE
