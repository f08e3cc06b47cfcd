\* Two candidates fight for one voter, and InstallSnapShot makes it forget.
SPECIFICATION MCSpec
CONSTANTS
  Server = {0, 1, 2}
  NoCommand = 0
  Command <- MCCommand
  SnapShotInterval = 10
  Links <- IntoSecond
  MaxElections <- First2Third2
  MaxHeartbeats <- None0
  MaxRestarts <- None0
  MaxStarts = 2
INVARIANTS
  LeaderHasMajority
  VoteOnceUnlessCleared
  ElectionSafetyUnlessVoteCleared
  LogMatchingUnlessVoteCleared
\* The budgets of the environment run out.
CHECK_DEADLOCK FALSE
