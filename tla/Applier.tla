------------------------------ MODULE Applier ------------------------------
(***************************************************************************)
(* One peer of src/src/raft and its service as the goroutines that meet on *)
(* rf.mu, applyCond and applyCh: the applier, the handlers that move       *)
(* commitIndex, InstallSnapShot handlers that send on applyCh themselves,  *)
(* and applierSnap, which calls back into the peer with Snapshot.  Raft    *)
(* has a step of the applier wherever there is something to apply; here    *)
(* the applier waits on applyCond and has to be woken.                     *)
(*                                                                         *)
(* Of the log only its bounds are kept.  What the other peers send is any  *)
(* request that passes the handlers' tests of terms.                       *)
(***************************************************************************)
EXTENDS Integers

CONSTANTS
  MaxIndex,           \* bound: no index beyond it is appended
  SnapShotInterval    \* a snapshot is taken at every index i with (i + 1) % it = 0

ASSUME MaxIndexAssumption == MaxIndex \in Nat
ASSUME SnapShotIntervalAssumption == SnapShotInterval \in Nat \ {0}

Index == 1..MaxIndex

VARIABLES
  dead,               \* Raft.dead
  mu,                 \* rf.mu: free, or held by the applier between two steps
  lastIndex,          \* getLastIndex()
  lastIncludeIndex,   \* Raft.lastIncludeIndex
  commitIndex,        \* Raft.commitIndex
  lastApplied,        \* Raft.lastApplied
  cut,                \* history: the log has been cut below commitIndex
  applier,            \* the applier goroutine: where it is
  command,            \* the index of the command it sends
  installs,           \* indexes of the snapshots InstallSnapShot handlers send
  logs,               \* config.logs of the peer: the indexes
  applied,            \* lastApplied of applierSnap
  snapCall,           \* the Snapshot call of applierSnap: where it is
  failure             \* why the process died

peerVars == <<lastIndex, lastIncludeIndex, commitIndex, lastApplied, cut>>
applierVars == <<applier, command>>
serviceVars == <<logs, applied, snapCall, failure>>
vars == <<dead, mu, peerVars, applierVars, installs, serviceVars>>

NoCall == "none"
NoFailure == "none"
OutOfOrder == "apply out of order"
OutOfRange == "index out of range"

AtMost(a, b) == IF a > b THEN b ELSE a
AtLeast(a, b) == IF a > b THEN a ELSE b

\* The filler of a log that is all snapshot has index 0.
lastLogIndex == IF lastIndex = lastIncludeIndex THEN 0 ELSE lastIndex

Running == failure = NoFailure

-----------------------------------------------------------------------------
(* The applier.                                                            *)

Lock ==
  /\ Running
  /\ applier = "locking" /\ mu = "free"
  /\ mu' = "applier"
  /\ applier' = "locked"
  /\ UNCHANGED <<dead, peerVars, command, installs, serviceVars>>

StopIfKilled ==
  /\ Running
  /\ applier = "locked" /\ dead
  /\ mu' = "free"
  /\ applier' = "done"
  /\ UNCHANGED <<dead, peerVars, command, installs, serviceVars>>

HasWork == commitIndex > lastApplied /\ lastLogIndex > lastApplied

\* The command is sent with rf.mu held.
PickMutant ==
  /\ Running
  /\ applier = "locked" /\ ~dead /\ HasWork
  /\ lastApplied' = lastApplied + 1
  /\ command' = lastApplied + 1
  /\ applier' = "sending"
  /\ UNCHANGED <<dead, mu, lastIndex, lastIncludeIndex, commitIndex, cut, installs, serviceVars>>

\* The command is chosen, and rf.mu given up for the send.
Pick ==
  /\ Running
  /\ applier = "locked" /\ ~dead /\ HasWork
  /\ lastApplied' = lastApplied + 1
  /\ command' = lastApplied + 1
  /\ applier' = "sending"
  /\ mu' = "free"
  /\ UNCHANGED <<dead, lastIndex, lastIncludeIndex, commitIndex, cut, installs, serviceVars>>

\* applyCond.Wait() gives up rf.mu in the step that starts to wait.
Wait ==
  /\ Running
  /\ applier = "locked" /\ ~dead /\ ~HasWork
  /\ applier' = "waiting"
  /\ mu' = "free"
  /\ UNCHANGED <<dead, peerVars, command, installs, serviceVars>>

\* Nobody is woken.
applyMutant == UNCHANGED <<applier, command>>

\* applyCond.Broadcast()
apply ==
  /\ applier' = IF applier = "waiting" THEN "locking" ELSE applier
  /\ UNCHANGED command

-----------------------------------------------------------------------------
(* Handlers: each holds rf.mu from its first step to the point modelled.   *)

Start ==
  /\ Running /\ mu = "free"
  /\ lastIndex < MaxIndex
  /\ lastIndex' = lastIndex + 1
  /\ UNCHANGED <<dead, mu, lastIncludeIndex, commitIndex, lastApplied, cut, applierVars,
                 installs, serviceVars>>

leaderCommitRule ==
  /\ Running /\ mu = "free"
  /\ commitIndex' \in (commitIndex + 1)..lastIndex
  /\ apply
  /\ UNCHANGED <<dead, mu, lastIndex, lastIncludeIndex, lastApplied, cut, installs, serviceVars>>

\* AppendEntries accepts a request whose entries go from prev + 1 to last.
AppendEntries(prev, last, leaderCommit) ==
  /\ Running /\ mu = "free"
  /\ prev \in lastIncludeIndex..lastIndex
  /\ lastIndex' = last
  /\ IF leaderCommit > commitIndex
     THEN commitIndex' = AtMost(leaderCommit, last) /\ apply
     ELSE UNCHANGED <<commitIndex, applierVars>>
  /\ cut' = (cut \/ last < commitIndex)
  /\ UNCHANGED <<dead, mu, lastIncludeIndex, lastApplied, installs, serviceVars>>

\* Of the log nothing is kept.
InstallSnapShotMutant2(index) ==
  /\ Running /\ mu = "free"
  /\ lastIncludeIndex < index
  /\ lastIncludeIndex' = index
  /\ lastIndex' = index
  /\ commitIndex' = AtLeast(commitIndex, index)
  /\ lastApplied' = AtLeast(lastApplied, index)
  /\ installs' = installs \cup {index}
  /\ UNCHANGED <<dead, mu, cut, applierVars, serviceVars>>

\* lastApplied stays behind the snapshot.
InstallSnapShotMutant1(index) ==
  /\ Running /\ mu = "free"
  /\ lastIncludeIndex < index
  /\ lastIncludeIndex' = index
  /\ lastIndex' = AtLeast(lastIndex, index)
  /\ commitIndex' = AtLeast(commitIndex, index)
  /\ installs' = installs \cup {index}
  /\ UNCHANGED <<dead, mu, lastApplied, cut, applierVars, serviceVars>>

\* A new snapshot: the log keeps what lies above it, and the handler goes on
\* to send it, without rf.mu and without a Broadcast.
InstallSnapShot(index) ==
  /\ Running /\ mu = "free"
  /\ lastIncludeIndex < index
  /\ lastIncludeIndex' = index
  /\ lastIndex' = AtLeast(lastIndex, index)
  /\ commitIndex' = AtLeast(commitIndex, index)
  /\ lastApplied' = AtLeast(lastApplied, index)
  /\ installs' = installs \cup {index}
  /\ UNCHANGED <<dead, mu, cut, applierVars, serviceVars>>

Kill ==
  /\ Running /\ ~dead
  /\ dead' = TRUE
  /\ UNCHANGED <<mu, peerVars, applierVars, installs, serviceVars>>

-----------------------------------------------------------------------------
(* The service: applierSnap.                                               *)

Receiving == Running /\ snapCall = NoCall

\* CondInstallSnapshot agrees to every snapshot.
ReceiveSnapshot(index) ==
  /\ Receiving
  /\ index \in installs
  /\ installs' = installs \ {index}
  /\ logs' = {index}
  /\ applied' = index
  /\ UNCHANGED <<dead, mu, peerVars, applierVars, snapCall, failure>>

\* A new command, in order or fatal, and every SnapShotInterval-th one leads
\* to a call of Snapshot; an old command is dropped.
ReceiveCommand ==
  /\ Receiving
  /\ applier = "sending"
  /\ applier' = "locking"
  /\ IF command <= applied
     THEN UNCHANGED serviceVars
     ELSE /\ logs' = logs \cup {command}
          /\ applied' = command
          /\ failure' = IF command > 1 /\ command - 1 \notin logs THEN OutOfOrder ELSE NoFailure
          /\ snapCall' = IF (command + 1) % SnapShotInterval = 0 /\ failure' = NoFailure
                         THEN "called" ELSE NoCall
  /\ UNCHANGED <<dead, mu, peerVars, command, installs>>

\* Snapshot up to rf.mu.Lock().
SnapshotCalled ==
  /\ Running
  /\ snapCall = "called"
  /\ snapCall' = IF dead THEN NoCall ELSE "locking"
  /\ UNCHANGED <<dead, mu, peerVars, applierVars, installs, logs, applied, failure>>

\* The rest of Snapshot, for the command applied last.
Snapshot ==
  /\ Running
  /\ snapCall = "locking" /\ mu = "free"
  /\ snapCall' = NoCall
  /\ \/ /\ lastIncludeIndex >= applied \/ applied > commitIndex
        /\ UNCHANGED <<peerVars, failure>>
     \/ /\ lastIncludeIndex < applied /\ applied <= commitIndex
        /\ applied > lastIndex + 1
        /\ failure' = OutOfRange
        /\ UNCHANGED peerVars
     \/ /\ lastIncludeIndex < applied /\ applied <= commitIndex
        /\ applied <= lastIndex + 1
        /\ lastIncludeIndex' = applied
        /\ lastIndex' = AtLeast(lastIndex, applied)
        /\ lastApplied' = AtLeast(lastApplied, applied)
        /\ UNCHANGED <<commitIndex, cut, failure>>
  /\ UNCHANGED <<dead, mu, applierVars, installs, logs, applied>>

-----------------------------------------------------------------------------

\* Make, for a first start and for a restart from any persisted log: the
\* applier starts with applierSnap at 0 and config.logs as it was left.
Init ==
  /\ dead = FALSE
  /\ mu = "free"
  /\ lastIncludeIndex \in 0..MaxIndex
  /\ lastIndex \in lastIncludeIndex..MaxIndex
  /\ commitIndex = 0
  /\ lastApplied = lastIncludeIndex
  /\ cut = FALSE
  /\ applier = "locking"
  /\ command = 0
  /\ installs = {}
  /\ logs = 1..lastIncludeIndex
  /\ applied = 0
  /\ snapCall = NoCall
  /\ failure = NoFailure

applierStep == Lock \/ StopIfKilled \/ Pick \/ Wait

Next ==
  \/ Lock \/ StopIfKilled \/ Pick \/ Wait
  \/ Start \/ leaderCommitRule
  \/ \E prev \in 0..MaxIndex : \E last \in prev..MaxIndex : \E leaderCommit \in Index :
       AppendEntries(prev, last, leaderCommit)
  \/ \E index \in Index : InstallSnapShot(index)
  \/ Kill
  \/ \E index \in Index : ReceiveSnapshot(index)
  \/ ReceiveCommand \/ SnapshotCalled \/ Snapshot

\* Go schedules every goroutine that can go on; sync.Mutex hands the lock to
\* a goroutine that has waited long, and a channel serves its senders in the
\* order they came.  Nothing is assumed of the handlers and of Kill.
Fairness ==
  /\ SF_vars(Lock) /\ WF_vars(applierStep)
  /\ SF_vars(ReceiveCommand)
  /\ \A index \in Index : SF_vars(ReceiveSnapshot(index))
  /\ WF_vars(SnapshotCalled) /\ SF_vars(Snapshot)

Spec == Init /\ [][Next]_vars /\ Fairness

-----------------------------------------------------------------------------
(* Properties.                                                             *)

\* Types; rf.mu is held exactly while the applier looks for work, and what
\* the service has applied, or is being sent, the peer counts as applied.
TypeOK ==
  /\ dead \in BOOLEAN /\ cut \in BOOLEAN
  /\ mu = IF applier = "locked" THEN "applier" ELSE "free"
  /\ lastIncludeIndex \in 0..MaxIndex /\ lastIndex \in lastIncludeIndex..MaxIndex
  /\ commitIndex \in 0..MaxIndex
  /\ lastApplied \in lastIncludeIndex..MaxIndex
  /\ applier \in {"locking", "locked", "sending", "waiting", "done"}
  /\ command \in 0..lastApplied
  /\ installs \subseteq 1..lastApplied
  /\ logs \subseteq Index
  /\ applied \in 0..lastApplied
  /\ snapCall \in {NoCall, "called", "locking"}
  /\ failure \in {NoFailure, OutOfOrder, OutOfRange}

\* The applier never waits on applyCond over an entry that is committed and
\* in the log: every handler that gives it work also wakes it, although only
\* two of the four that move commitIndex, lastApplied or the end of the log
\* call apply().  Of a log that was cut below commitIndex this does not hold.
NoMissedWakeup == applier = "waiting" /\ ~cut => ~HasWork

\* While applierSnap waits for rf.mu in Snapshot, handlers may move both ends
\* of the log, yet the entry whose term Snapshot is going to read is in it:
\* only after an AppendEntries that has cut the log below commitIndex may
\* Snapshot panic, or read the term of another entry.
SnapshotEntryInLog ==
  snapCall # NoCall /\ lastIncludeIndex < applied /\ applied <= commitIndex /\ ~cut
    => applied <= lastIndex

Over == dead \/ ~Running

\* An index that is committed and in the log gets applied: the Broadcasts of
\* AppendEntries and leaderCommitRule reach every wait of the applier.  Only
\* a log that was cut below commitIndex may grow back unnoticed.
AppliedUnlessCut ==
  \A i \in Index : commitIndex >= i /\ lastIndex >= i ~> lastApplied >= i \/ cut \/ Over

\* No cycle of waiting: the service takes every command and every snapshot
\* although it calls back into the peer that sends to it, also when the peer
\* is killed meanwhile; the handlers of InstallSnapShot return.
SendersReturn ==
  /\ applier = "sending" ~> applier # "sending" \/ ~Running
  /\ \A i \in Index : i \in installs ~> i \notin installs \/ ~Running

\* The service's calls of Snapshot return.
SnapshotReturns == snapCall # NoCall ~> snapCall = NoCall \/ ~Running
=============================================================================
