\* The follower's snapshot ends where its log ends, the leader's before.
SPECIFICATION CatchUpSpec
CONSTANTS
  Server = {0, 1}
  NoCommand = 0
  Command = {1}
  SnapShotInterval = 2
  TheLeader = 0
  OldTerms = 1
  MaxIndex = 2
  MaxInFlight = 1
  MaxLosses = 0
PROPERTIES
  CatchesUp
\* The tester may end the process, and nothing happens when the budgets are spent.
CHECK_DEADLOCK FALSE
