\* A follower takes a snapshot of a log that a late AppendEntries has cut.
SPECIFICATION MCSpec
CONSTANTS
  Server = {0, 1}
  NoCommand = 0
  Command <- MCCommand
  SnapShotInterval = 2
  Links <- AllLinks
  MaxElections <- First1
  MaxHeartbeats <- First1
  MaxRestarts <- None0
  MaxStarts = 2
INVARIANTS
  SnapshotTermsAgree
\* The budgets of the environment run out.
CHECK_DEADLOCK FALSE
