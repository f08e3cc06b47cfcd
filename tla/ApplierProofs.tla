--------------------------- MODULE ApplierProofs ----------------------------
(***************************************************************************)
(* Theorems about Applier, for logs of any length and any interval between *)
(* snapshots: nobody but the applier ever keeps rf.mu between two steps,   *)
(* the service is never ahead of what its peer counts as applied, no       *)
(* wakeup of the applier is missed, and Snapshot finds its entry.          *)
(***************************************************************************)
EXTENDS Applier, TLAPS

\* Make starts from any log that was persisted.
LEMMA StartsTyped == Init => TypeOK
<1> SUFFICES ASSUME Init PROVE TypeOK
  OBVIOUS
<1>1. MaxIndex \in Nat /\ lastIncludeIndex \in 0..MaxIndex
  BY MaxIndexAssumption DEF Init
<1>2. /\ lastIndex \in lastIncludeIndex..MaxIndex
      /\ lastApplied = lastIncludeIndex /\ commitIndex = 0 /\ command = 0 /\ applied = 0
      /\ installs = {} /\ logs = 1..lastIncludeIndex
  BY DEF Init
<1>3. /\ lastApplied \in lastIncludeIndex..MaxIndex /\ commitIndex \in 0..MaxIndex
      /\ command \in 0..lastApplied /\ applied \in 0..lastApplied
      /\ installs \subseteq 1..lastApplied /\ logs \subseteq Index
  BY <1>1, <1>2 DEF Index
<1> QED
  BY <1>1, <1>2, <1>3 DEF Init, TypeOK, NoCall, NoFailure

\* The applier's own steps, from Lock to the next Unlock.
LEMMA ApplierTyped ==
  ASSUME TypeOK, applierStep
  PROVE  TypeOK'
<1> USE MaxIndexAssumption
<1>1. CASE Lock \/ StopIfKilled \/ Wait
  BY <1>1 DEF TypeOK, Lock, StopIfKilled, Wait, peerVars, serviceVars
<1>2. CASE Pick
  BY <1>2 DEF TypeOK, Pick, HasWork, serviceVars
<1> QED
  BY <1>1, <1>2 DEF applierStep

\* The handlers and Kill, which find rf.mu free and leave it so.
LEMMA HandlersTyped ==
  ASSUME TypeOK,
         \/ Start \/ leaderCommitRule \/ Kill
         \/ \E prev \in 0..MaxIndex : \E last \in prev..MaxIndex : \E leaderCommit \in Index :
              AppendEntries(prev, last, leaderCommit)
         \/ \E index \in Index : InstallSnapShot(index)
  PROVE  TypeOK'
<1> USE MaxIndexAssumption DEF Index
<1>1. CASE Start \/ Kill
  <2>1. CASE Start
    <3>1. lastIndex' \in lastIncludeIndex..MaxIndex
      BY <2>1 DEF TypeOK, Start
    <3> QED
      BY <2>1, <3>1 DEF TypeOK, Start, applierVars, serviceVars
  <2>2. CASE Kill
    BY <2>2 DEF TypeOK, Kill, peerVars, applierVars, serviceVars
  <2> QED
    BY <1>1, <2>1, <2>2
<1>2. CASE leaderCommitRule
  <2>1. /\ commitIndex' \in 0..MaxIndex /\ mu = "free" /\ mu' = mu /\ command' = command
        /\ applier' = IF applier = "waiting" THEN "locking" ELSE applier
    BY <1>2 DEF TypeOK, leaderCommitRule, apply
  <2>2. /\ applier' \in {"locking", "locked", "sending", "waiting", "done"}
        /\ mu' = IF applier' = "locked" THEN "applier" ELSE "free"
    BY <2>1 DEF TypeOK
  <2>3. UNCHANGED <<dead, lastIndex, lastIncludeIndex, lastApplied, cut, installs, serviceVars>>
    BY <1>2 DEF leaderCommitRule
  <2> QED
    BY <2>1, <2>2, <2>3 DEF TypeOK, serviceVars
<1>3. ASSUME NEW prev \in 0..MaxIndex, NEW last \in prev..MaxIndex, NEW leaderCommit \in Index,
             AppendEntries(prev, last, leaderCommit)
      PROVE  TypeOK'
  <2>1. /\ lastIncludeIndex' = lastIncludeIndex /\ lastIndex' = last
        /\ last \in lastIncludeIndex..MaxIndex
    BY <1>3 DEF TypeOK, AppendEntries
  <2>2. commitIndex' \in 0..MaxIndex /\ cut' \in BOOLEAN
    BY <1>3 DEF TypeOK, AppendEntries, AtMost
  <2>3. /\ applier' \in {"locking", "locked", "sending", "waiting", "done"}
        /\ mu' = IF applier' = "locked" THEN "applier" ELSE "free"
        /\ command' = command
    BY <1>3 DEF TypeOK, AppendEntries, apply, applierVars
  <2> QED
    BY <1>3, <2>1, <2>2, <2>3 DEF TypeOK, AppendEntries, serviceVars
<1>4. ASSUME NEW index \in Index, InstallSnapShot(index)
      PROVE  TypeOK'
  <2>1. /\ lastIncludeIndex' \in 0..MaxIndex /\ lastIndex' \in lastIncludeIndex'..MaxIndex
        /\ commitIndex' \in 0..MaxIndex /\ lastApplied' \in lastIncludeIndex'..MaxIndex
        /\ lastApplied <= lastApplied' /\ index <= lastApplied'
    BY <1>4 DEF TypeOK, InstallSnapShot, AtLeast
  <2>2. /\ command' \in 0..lastApplied' /\ applied' \in 0..lastApplied'
        /\ installs' \subseteq 1..lastApplied'
    BY <1>4, <2>1 DEF TypeOK, InstallSnapShot, applierVars, serviceVars
  <2> QED
    BY <1>4, <2>1, <2>2 DEF TypeOK, InstallSnapShot, applierVars, serviceVars
<1> QED
  BY <1>1, <1>2, <1>3, <1>4

\* applierSnap: what it takes off applyCh its peer counts as applied.
LEMMA ServiceTyped ==
  ASSUME TypeOK,
         ReceiveCommand \/ SnapshotCalled \/ Snapshot
           \/ \E index \in Index : ReceiveSnapshot(index)
  PROVE  TypeOK'
<1> USE MaxIndexAssumption DEF Index
<1>1. CASE ReceiveCommand
  <2>1. /\ UNCHANGED <<dead, mu, peerVars, command, installs>>
        /\ applier = "sending" /\ applier' = "locking"
    BY <1>1 DEF ReceiveCommand
  <2>2. CASE command <= applied
    BY <1>1, <2>1, <2>2 DEF TypeOK, ReceiveCommand, peerVars, serviceVars
  <2>3. CASE command > applied
    <3>1. command \in 1..lastApplied /\ command \in Index
      BY <2>3 DEF TypeOK
    <3>2. /\ logs' = logs \cup {command} /\ applied' = command
          /\ failure' \in {NoFailure, OutOfOrder} /\ snapCall' \in {"called", NoCall}
      BY <1>1, <2>3, <3>1 DEF TypeOK, ReceiveCommand
    <3> QED
      BY <2>1, <3>1, <3>2 DEF TypeOK, peerVars
  <2> QED
    BY <2>2, <2>3 DEF TypeOK
<1>2. CASE SnapshotCalled
  BY <1>2 DEF TypeOK, SnapshotCalled, NoCall, peerVars, applierVars
<1>3. CASE Snapshot
  <2>1. \/ UNCHANGED peerVars /\ failure' \in {failure, OutOfRange}
        \/ /\ lastIncludeIndex < applied /\ applied <= commitIndex
           /\ lastIncludeIndex' = applied /\ lastIndex' = AtLeast(lastIndex, applied)
           /\ lastApplied' = AtLeast(lastApplied, applied)
           /\ UNCHANGED <<commitIndex, cut, failure>>
    BY <1>3 DEF Snapshot
  <2>2. /\ lastIncludeIndex' \in 0..MaxIndex /\ lastIndex' \in lastIncludeIndex'..MaxIndex
        /\ commitIndex' \in 0..MaxIndex /\ cut' \in BOOLEAN
        /\ lastApplied' = lastApplied /\ lastApplied \in lastIncludeIndex'..MaxIndex
        /\ failure' \in {failure, OutOfRange}
    BY <2>1 DEF TypeOK, AtLeast, peerVars
  <2>3. UNCHANGED <<dead, mu, applierVars, installs, logs, applied>> /\ snapCall' = NoCall
    BY <1>3 DEF Snapshot
  <2> QED
    BY <2>2, <2>3 DEF TypeOK, applierVars
<1>4. ASSUME NEW index \in Index, ReceiveSnapshot(index)
      PROVE  TypeOK'
  BY <1>4 DEF TypeOK, ReceiveSnapshot, peerVars, applierVars
<1> QED
  BY <1>1, <1>2, <1>3, <1>4

\* Every step keeps the types.
LEMMA TypesKept == TypeOK /\ [Next]_vars => TypeOK'
<1> SUFFICES ASSUME TypeOK, [Next]_vars PROVE TypeOK'
  OBVIOUS
<1>1. CASE UNCHANGED vars
  BY <1>1 DEF TypeOK, vars, peerVars, applierVars, serviceVars
<1> QED
  BY <1>1, ApplierTyped, HandlersTyped, ServiceTyped DEF Next, applierStep

\* rf.mu is free whenever the applier does not look for work, so neither a send
\* on applyCh nor a wait on applyCond keeps a handler or Snapshot out; and no
\* index is sent, installed or applied by the service beyond lastApplied.
THEOREM ApplierTypeCorrect == Spec => []TypeOK
BY StartsTyped, TypesKept, PTL DEF Spec

-----------------------------------------------------------------------------
(* Wakeups.  Start and InstallSnapShot wake nobody: what saves the applier *)
(* is that commitIndex lies in the log, so that a longer log alone, or one *)
(* that begins later, gives it nothing to apply.                           *)

CommittedInLog == ~cut => commitIndex <= lastIndex

WaitsOverNothing == applier = "waiting" /\ ~cut => commitIndex <= lastApplied

WakeupInv == TypeOK /\ CommittedInLog /\ WaitsOverNothing

LEMMA WakeupInitially == Init => WakeupInv
<1> SUFFICES ASSUME Init PROVE WakeupInv
  OBVIOUS
<1>1. TypeOK
  BY StartsTyped
<1>2. commitIndex = 0 /\ applier = "locking" /\ lastIndex \in Int /\ 0 <= lastIndex
  BY <1>1, MaxIndexAssumption DEF Init, TypeOK
<1> QED
  BY <1>1, <1>2 DEF WakeupInv, CommittedInLog, WaitsOverNothing

\* A step that leaves commitIndex and the end of the log, and starts no wait.
LEMMA WakeupUntouched ==
  ASSUME WakeupInv, TypeOK', UNCHANGED <<cut, commitIndex, lastIndex>>,
         lastApplied <= lastApplied', applier' = "waiting" => applier = "waiting"
  PROVE  WakeupInv'
BY MaxIndexAssumption DEF WakeupInv, TypeOK, CommittedInLog, WaitsOverNothing

\* The applier waits only after it has seen that there is nothing to do.
LEMMA WakeupApplier ==
  ASSUME WakeupInv, TypeOK', applierStep
  PROVE  WakeupInv'
<1> USE MaxIndexAssumption
<1>1. CASE Lock \/ StopIfKilled
  BY <1>1, WakeupUntouched DEF Lock, StopIfKilled, WakeupInv, TypeOK, peerVars
<1>2. CASE Pick
  BY <1>2, WakeupUntouched DEF Pick, WakeupInv, TypeOK
<1>3. CASE Wait
  <2>1. UNCHANGED <<lastIndex, lastIncludeIndex, commitIndex, lastApplied, cut>> /\ ~HasWork
    BY <1>3 DEF Wait, peerVars
  <2>2. ~cut => commitIndex <= lastApplied
    BY <2>1 DEF HasWork, lastLogIndex, WakeupInv, TypeOK, CommittedInLog
  <2> QED
    BY <2>1, <2>2 DEF WakeupInv, CommittedInLog, WaitsOverNothing
<1> QED
  BY <1>1, <1>2, <1>3 DEF applierStep

\* A handler that raises commitIndex wakes the applier, or has itself seen to
\* it that what commitIndex covers counts as applied.
LEMMA WakeupHandlers ==
  ASSUME WakeupInv, TypeOK',
         \/ Start \/ leaderCommitRule \/ Kill
         \/ \E prev \in 0..MaxIndex : \E last \in prev..MaxIndex : \E leaderCommit \in Index :
              AppendEntries(prev, last, leaderCommit)
         \/ \E index \in Index : InstallSnapShot(index)
  PROVE  WakeupInv'
<1> USE MaxIndexAssumption DEF Index
<1>1. CASE Start
  BY <1>1 DEF Start, applierVars, WakeupInv, TypeOK, CommittedInLog, WaitsOverNothing
<1>2. CASE leaderCommitRule
  <2>1. applier' # "waiting" /\ commitIndex' <= lastIndex' /\ cut' = cut
    BY <1>2 DEF leaderCommitRule, apply, WakeupInv, TypeOK
  <2> QED
    BY <2>1 DEF WakeupInv, CommittedInLog, WaitsOverNothing
<1>3. CASE Kill
  BY <1>3, WakeupUntouched DEF Kill, peerVars, applierVars, WakeupInv, TypeOK
<1>4. ASSUME NEW prev \in 0..MaxIndex, NEW last \in prev..MaxIndex, NEW leaderCommit \in Index,
             AppendEntries(prev, last, leaderCommit)
      PROVE  WakeupInv'
  <2>1. lastIndex' = last /\ cut' = (cut \/ last < commitIndex) /\ lastApplied' = lastApplied
    BY <1>4 DEF AppendEntries
  <2>2. CASE leaderCommit > commitIndex
    <3>1. applier' # "waiting" /\ commitIndex' <= lastIndex'
      BY <1>4, <2>2 DEF AppendEntries, apply, AtMost, WakeupInv, TypeOK
    <3> QED
      BY <3>1 DEF WakeupInv, CommittedInLog, WaitsOverNothing
  <2>3. CASE ~(leaderCommit > commitIndex)
    <3>1. UNCHANGED <<commitIndex, applier>>
      BY <1>4, <2>3 DEF AppendEntries, applierVars
    <3>2. ~cut' => ~cut /\ ~(last < commitIndex)
      BY <2>1, Zenon
    <3>3. ~(last < commitIndex) => commitIndex <= last
      BY DEF WakeupInv, TypeOK
    <3> QED
      BY <2>1, <3>1, <3>2, <3>3 DEF WakeupInv, TypeOK, CommittedInLog, WaitsOverNothing
  <2> QED
    BY <2>2, <2>3
<1>5. ASSUME NEW index \in Index, InstallSnapShot(index)
      PROVE  WakeupInv'
  <2>1. /\ lastIndex' = AtLeast(lastIndex, index) /\ commitIndex' = AtLeast(commitIndex, index)
        /\ lastApplied' = AtLeast(lastApplied, index) /\ UNCHANGED <<cut, applier>>
    BY <1>5 DEF InstallSnapShot, applierVars
  <2> QED
    BY <2>1 DEF AtLeast, WakeupInv, TypeOK, CommittedInLog, WaitsOverNothing
<1> QED
  BY <1>1, <1>2, <1>3, <1>4, <1>5

\* The service: its Snapshot only makes the log end later.
LEMMA WakeupService ==
  ASSUME WakeupInv, TypeOK',
         ReceiveCommand \/ SnapshotCalled \/ Snapshot
           \/ \E index \in Index : ReceiveSnapshot(index)
  PROVE  WakeupInv'
<1> USE MaxIndexAssumption DEF Index
<1>1. CASE ReceiveCommand
  BY <1>1, WakeupUntouched DEF ReceiveCommand, peerVars, WakeupInv, TypeOK
<1>2. CASE SnapshotCalled
  BY <1>2, WakeupUntouched DEF SnapshotCalled, peerVars, applierVars, WakeupInv, TypeOK
<1>3. CASE Snapshot
  <2>1. UNCHANGED <<commitIndex, cut, applier>>
    BY <1>3 DEF Snapshot, peerVars, applierVars
  <2>2. lastIndex <= lastIndex' /\ lastApplied <= lastApplied'
    BY <1>3 DEF Snapshot, AtLeast, peerVars, WakeupInv, TypeOK
  <2> QED
    BY <2>1, <2>2 DEF WakeupInv, TypeOK, CommittedInLog, WaitsOverNothing
<1>4. ASSUME NEW index \in Index, ReceiveSnapshot(index)
      PROVE  WakeupInv'
  BY <1>4, WakeupUntouched DEF ReceiveSnapshot, peerVars, applierVars, WakeupInv, TypeOK
<1> QED
  BY <1>1, <1>2, <1>3, <1>4

LEMMA WakeupKept == WakeupInv /\ [Next]_vars => WakeupInv'
<1> SUFFICES ASSUME WakeupInv, [Next]_vars PROVE WakeupInv'
  OBVIOUS
<1>1. TypeOK'
  BY TypesKept DEF WakeupInv
<1>2. CASE UNCHANGED vars
  BY <1>1, <1>2, WakeupUntouched, MaxIndexAssumption
  DEF vars, peerVars, applierVars, serviceVars, WakeupInv, TypeOK
<1> QED
  BY <1>1, <1>2, WakeupApplier, WakeupHandlers, WakeupService DEF Next, applierStep

\* The applier never waits on applyCond over an entry that is committed and in
\* the log, however Start, the handlers, InstallSnapShot and Snapshot interleave
\* with its own steps; the exception is a log that was cut below commitIndex.
THEOREM WakeupsAreNotMissed == Spec => []NoMissedWakeup
<1>1. WakeupInv => NoMissedWakeup
  BY MaxIndexAssumption
  DEF WakeupInv, TypeOK, WaitsOverNothing, NoMissedWakeup, HasWork
<1> QED
  BY <1>1, WakeupInitially, WakeupKept, PTL DEF Spec

\* Snapshot finds the entry it asks for, at whatever time between the handlers
\* it gets rf.mu, unless the log was cut below commitIndex.
THEOREM SnapshotsFindTheirEntry == Spec => []SnapshotEntryInLog
<1>1. WakeupInv => SnapshotEntryInLog
  BY MaxIndexAssumption DEF WakeupInv, TypeOK, CommittedInLog, SnapshotEntryInLog
<1> QED
  BY <1>1, WakeupInitially, WakeupKept, PTL DEF Spec
=============================================================================
