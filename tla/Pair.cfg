\* Two servers, each may time out once, the first may crash; a snapshot at index 2.
SPECIFICATION MCSpec
CONSTANTS
  Server = {0, 1}
  NoCommand = 0
  Command <- MCCommand
  SnapShotInterval = 3
  Links <- AllLinks
  MaxElections <- Each1
  MaxHeartbeats <- First1
  MaxRestarts <- First1
  MaxStarts = 2
INVARIANTS
  TypeOK
  StableStateCurrent
  SnapshotInSync
  LogPositions
  VoteReplyDurable
PROPERTIES
  TermNeverDecreases
  LeaderAppendOnlyUnlessVoteCleared
\* The budgets of the environment run out.
CHECK_DEADLOCK FALSE
