\* One peer, from every log of up to three entries it may have persisted.
SPECIFICATION Spec
CONSTANTS
  MaxIndex = 3
  SnapShotInterval = 2
INVARIANTS
  TypeOK
  NoMissedWakeup
  SnapshotEntryInLog
PROPERTIES
  AppliedUnlessCut
  SendersReturn
  SnapshotReturns
\* The process may die, and a peer that has everything does nothing more.
CHECK_DEADLOCK FALSE
