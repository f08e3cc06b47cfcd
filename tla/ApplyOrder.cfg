\* A command overtakes the snapshot it follows on the way to the service.
SPECIFICATION MCSpec
CONSTANTS
  Server = {0, 1}
  NoCommand = 0
  Command <- MCCommand
  SnapShotInterval = 2
  Links <- AllLinks
  MaxElections <- First2
  MaxHeartbeats <- First2
  MaxRestarts <- First1
  MaxStarts = 2
INVARIANTS
  NoGapInApply
\* The budgets of the environment run out.
CHECK_DEADLOCK FALSE
