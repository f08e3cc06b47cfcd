\* One follower with any log and snapshot, one message at a time, one is lost.
SPECIFICATION CatchUpSpec
CONSTANTS
  Server = {0, 1}
  NoCommand = 0
  Command = {1}
  SnapShotInterval = 2
  TheLeader = 0
  OldTerms = 2
  MaxIndex = 3
  MaxInFlight = 1
  MaxLosses = 1
PROPERTIES
  CatchesUpUnlessAhead
  GapsOnlyBehindSnapshot
\* The tester may end the process, and nothing happens when the budgets are spent.
CHECK_DEADLOCK FALSE
