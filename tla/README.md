# A verification of Lab2_Raft

TLA+ models, TLC runs and TLAPS proofs of the Raft implementation in
`src/src/raft`, together with the parts of its tester (`config.go`) and of its
simulated network (`src/src/labrpc`) that decide what the peers go through.

## 1. The system

| component | state | operations | interacts with |
|---|---|---|---|
| peer, elections (`leader_election.go`, `request_vote.go`, `ticker`) | `state`, `currentTerm`, `votedFor`, election timer, the vote counter of an election | `leaderElection`, `RequestVote`, `candidateRequestVote`, `setNewTerm` | `RequestVote` RPC; persists; a new leader calls `appendEntries` |
| peer, replication (`append_entry.go`, `log.go`, `Start`) | `log`, `commitIndex`, `nextIndex`, `matchIndex` | `Start`, `appendEntries`, `AppendEntries`, `leaderSendEntries`, `leaderCommitRule` | `AppendEntries` RPC; starts `leaderSendSnapShot`; wakes the applier |
| peer, snapshots (`raft.go`) | `lastIncludeIndex`, `lastIncludeTerm` | `Snapshot`, `leaderSendSnapShot`, `InstallSnapShot`, `CondInstallSnapshot` | `InstallSnapShot` RPC; called by the service; sends on `applyCh` |
| peer, persistence (`persist`, `readPersist`, `persister.go`, `Make`) | `Persister.raftstate`, `Persister.snapshot` | `persist`, `SaveStateAndSnapshot`, `readPersist`, `Make` | copied by the tester's `crash1` without `rf.mu` |
| peer, applier (`raft.go`) | `lastApplied`, `applyCond` | `applier`, `apply` | sends on `applyCh` outside `rf.mu` |
| service of the tester (`applierSnap`, `checkLogs`) | `cfg.logs`, its own `lastApplied` | receive, check, call `Snapshot` | reads `applyCh`; `log.Fatalf` on a mismatch or a gap |
| tester (`crash1`, `start1`, `connect`, `one`) | `cfg.saved`, `cfg.connected`, `cfg.rafts` | crash, restart, disconnect, submit commands | everything |
| network (`labrpc.go`) | ends, servers, `reliable`, `done`; per call the caller in `Call`, `processReq`, the goroutine of `dispatch` and the one that drains its reply | `Call`, `processReq`, `isServerDead`, `AddServer`, `DeleteServer`, `Enable`, `Cleanup` | carries every RPC; the tester changes it while calls are under way |
| encoding (`labgob.go`), debug printing, scripts | none that matters | | |

A handler or a returning call holds `rf.mu` for its whole body, so what is hard
is between them: goroutines that are started with `go` and read the state
later, replies that come late and in any order, requests that overtake each
other, sends on `applyCh` outside the lock, waits on `applyCond`, a service
that calls back into the peer that sends to it, handlers of a crashed instance
that still run, and crashes that copy the persister between two `persist` calls
of one handler.  `PROJECT.json` lists these hazards at their lines.

What makes the components correct:

* elections: a vote that was answered is durable; a leader has a majority of
  distinct voters; one leader per term; terms never decrease;
* replication: logs that share an entry share what precedes it; a leader only
  appends; what is committed stays; a follower that can be reached catches up;
* snapshots: the offset arithmetic finds the right entry; a snapshot's index,
  term and bytes belong together everywhere;
* persistence: what is on disk is what the peer acts on;
* applier and service: commands arrive in order, services agree, no wakeup is
  missed, and the sends on `applyCh` and the calls of `Snapshot` come to an end;
* network: a request is executed at most once, a call that returns TRUE was
  executed by a server whose next instance remembers it, and calls return.

## 2. The modules

| module | builds on | what it is |
|---|---|---|
| `Raft` | | the peer, one action per critical section of `rf.mu` |
| `Cluster` | `Raft` | all peers with the tester's service, crashes and restarts; the safety properties |
| `MCCluster` | `Cluster` | budgets for the environment and links, for TLC |
| `CatchUp` | `Cluster` | a stable leader and its followers under fairness |
| `Applier` | | one peer's applier, handlers and service as goroutines; liveness |
| `AtMostOnce` | | what a peer may rely on when it sends an RPC: the abstract specification |
| `LabRpc` | | `labrpc` as goroutines, with the tester's crash and restart; implements `AtMostOnce` |
| `MCLabRpc` | `LabRpc` | the ends of the calls, for TLC |
| `ClusterProofs`, `ElectionProofs`, `LeaderProofs`, `LogProofs` | `Cluster` | theorems, each module on top of the one before |
| `Segments` | | lemmas on pieces of logs, without a state, for `LogProofs` |
| `ServiceProofs` | `ClusterProofs` | theorems on the order in which the service gets commands |
| `RpcProofs`, `ApplierProofs` | `LabRpc`, `Applier` | theorems |

**`Raft` and `Cluster`.**  A handler with several ways out has one action per way
(`AppendEntries` = `AppendNewerTerm`, `AppendStale`, `AppendBehindSnapshot`,
`AppendMissing`, `AppendConflict`, `AppendAccept`, and so on).  Variables carry
the names of the fields of `Raft` and `Persister`.  `Cluster` adds
`applierSnap`, `checkLogs` and the call of `Snapshot`, which waits for `rf.mu`
and so is a step of its own.  How state and steps are abstracted:

* *Time.*  Timers are nondeterministic: any tick may find the election timer
  expired, except where the same tick has just reset it.  `ticker` of a leader
  sends heartbeats and then tests the timer; `appendEntries` resets the timer
  when its loop passes the leader itself, which it does not if it returned
  before, at a peer that is behind the snapshot.  `Visited` is how far the loop gets.
* *Messages.*  `requests` and `replies` are sets.  A message in a set may be
  received at any later time or never (loss, delay, reordering).  It is
  received once, as `AtMostOnce` promises.  Identical requests in flight
  collapse into one, which is a loss of one of them.  The fields of a reply
  that start with `argsTerm`, `match` and so on are what the waiting goroutine
  remembers of its arguments.  When a caller crashes, its requests stay (the
  network may still execute them) with `open` FALSE, and nobody receives the reply.
* *Crash.*  `crash1` and `start1` are one step: a server that is down takes no
  step and a request to it is lost, which the model allows anyway.  The
  handler a crash cuts short has persisted all, nothing, or, for `RequestVote`
  and `InstallSnapShot`, only its first `persist` (`CrashInHandler`).  What the
  killed instance still does to its own copy of the state is invisible
  (`LabRpc` shows that no reply tells of it); what its `applierSnap` still
  writes into `cfg.logs` is left out.
* *Stable storage.*  Bytes are the record that `labgob` decodes from them.
  An empty persister is the record of the initial values, which is what
  `Make` uses when it finds none.
* *Snapshot bytes.*  The last command the service applied, as in
  `applierSnap`, and, as a ghost, the index it belongs to.
* *applyCh.*  The set of messages whose sender is blocked on the unbuffered
  channel: at most one of the applier, and one per `InstallSnapShot` handler.
  The handler's reply goes out when the service has taken the message.
* *Tester.*  `log.Fatalf` and a panic of a goroutine end the process, so
  `failure` stops everything.  `applier` of the tester is `applierSnap`
  without its snapshot branches and is covered by a large `SnapShotInterval`.
* *History.*  `ballots` and `cleared` record votes cast and votes forgotten in
  their own term; no guard reads them.

**`Applier`.**  In `Raft` a round of the applier is one action that is enabled
whenever there is something to apply.  Here it is a goroutine that takes
`rf.mu`, looks, sends without the lock, or waits on `applyCond` and goes on only
after a `Broadcast`.  The handlers it meets, `InstallSnapShot`'s own send on
`applyCh`, `Kill`, and `applierSnap` with its call of `Snapshot` are the other
goroutines.  Of the log only its bounds are kept, and what other peers send is
any request that passes the handlers' tests of terms.  It starts from every log
that may be on disk.  A later restart is another start, with `logs` as a
complete service would have left it.

**`LabRpc`.**  Per call there are the caller, `processReq` and the goroutine of
the handler; the goroutine of `MakeNetwork` and the tester are shared.  Contents
of messages are left out: that a handler ran is visible in the `Persister` of
its instance.
`longDelays`, `longReordering` and the sleeps of an unreliable network are the
freedom to take a step late.  `crash1` and `start1` are taken apart into
`DeleteServer`, the copy of the persister, `Make` and `AddServer`, because the
promise to the caller depends on their order.

**`CatchUp`.**  After a restart of all servers one has just won an election;
no timer expires and nobody crashes from now on.  The logs, terms and snapshots
on disk are all pairs that Raft can leave behind (`Consistent`).  `Server` is half of the
cluster and one more, so the leader needs every follower that is there; the
servers left out voted for it, cannot be reached and come after the others in
`rf.peers`.  `Heartbeat`, `leaderSendSnapShot`, the handlers and the replies are
the actions of `Raft`; `Lose` drops a message.

## 3. The runs

| run | instance | shows |
|---|---|---|
| `pair` | `MCCluster`: 2 servers, a timeout each, a crash and a heartbeat of the first, 2 commands, snapshot at 2 | `TypeOK`, `StableStateCurrent`, `SnapshotInSync`, `LogPositions`, `VoteReplyDurable`, `TermNeverDecreases`, `LeaderAppendOnlyUnlessVoteCleared` |
| `contest` | `MCCluster`: 3 servers, 2 candidates with 2 timeouts each, 1 voter, 2 commands | `LeaderHasMajority`, `VoteOnceUnlessCleared`, `ElectionSafetyUnlessVoteCleared`, `LogMatchingUnlessVoteCleared` |
| `rpc` | `MCLabRpc`: 2 calls over 1 end, 2 instances of the server | `TypeOK`, `AtMostOnceRpc`, `CallReturns`, `DeadServerFreesCaller`, `HandlersEnd` |
| `applier` | `Applier`: logs up to index 3, snapshot at 1 and 3 | `TypeOK`, `NoMissedWakeup`, `SnapshotEntryInLog`, `AppliedUnlessCut`, `SendersReturn`, `SnapshotReturns` |
| `catchup` | `CatchUp`: a leader and one follower, logs up to index 3 of terms 1 and 2, one message at a time, one lost, snapshot at 1 and 3 | `CatchesUpUnlessAhead`, `GapsOnlyBehindSnapshot` |

`contest` is the instance in which two leaders do share a term: without
`UnlessVoteCleared` its election property is false, so the exception is exercised.
`InstallSnapShot` is sent there with the empty snapshot only.  With others, log
matching fails in the behaviour of section 5; the theorem `LogsMatch` says
exactly what has to happen for it.

`GapsOnlyBehindSnapshot` is about the gaps that `apply_order` finds, so it is
checked where there are some: in `catchup` the leader sends snapshots of the
service, the applier runs while they wait on `applyCh`, and 639 of its 63,562
states are those in which the tester has just met a gap.  In all of them the
command has overtaken the snapshot.  No passing run has the other two ways to a gap, a
crash that loses the snapshot and a snapshot that sets a service back which has
gone on; `GapsBehindSnapshot` proves the property with both.

Deadlock is not checked: the budgets run out, the tester stops, a process that
has died does nothing, and an idle peer waits.

**Bounds.**  In `MCCluster` everything but the environment is free, so one
timeout of a server already gives every order of its requests, replies and
losses.  Two timeouts are given where a server must lead twice, or time out to
raise its term; two commands where logs must differ.  In runs with three
servers the links are restricted (`Chain`, `IntoSecond`, `FirstOut`) to the
partition in which the interesting case happens.  In `rpc` two calls share one
end, so one can be answered by the old instance while the other meets the new
one.  In `applier` index 3 leaves room for a snapshot, a log that was cut, and
an entry beyond both.  In `catchup` the logs are long enough for a conflict of
terms at a distance from the end, for a snapshot below, at and above the end
of the other log, and for a new command.  `MaxInFlight` is 1 there: two
`AppendEntries` in flight may overtake each other and cut a log, after which
`Snapshot` can record a wrong term and the follower refuses its leader for ever
(run `snapshot_term`).  Retransmission and loss are there all the same.

**Fairness.**

* `LabRpc!FairSpec`: weak fairness for the goroutines of the network and of
  `Call`, as Go schedules what can go on.  Nothing is assumed of the tester, of
  when calls are made, or of handlers, which may block for ever; `CallReturns`
  makes the exception that the handler does not return, and
  `DeadServerFreesCaller` that it need not if the server was deleted.
* `Applier!Fairness`: strong fairness for taking `rf.mu`, because `sync.Mutex`
  hands over to a goroutine that has waited long, and for each sender on
  `applyCh`, because a channel serves its senders in order; weak fairness for
  the applier's and the service's other steps.  Nothing of the handlers and `Kill`.
* `CatchUp!Fairness`: weak fairness for the leader's tick, the sending of
  snapshots, the arrival of each kind of message, the applier and the service.
  That a message arrives is assumed of what is not lost, and only `MaxLosses` are lost.

`CatchesUpUnlessAhead` allows that the tester ends the process, because a
command may overtake a snapshot on `applyCh` (run `apply_order`), and leaves out
a follower whose snapshot reaches further than the leader's (run `backoff`).
`AppliedUnlessCut`, `NoMissedWakeup` and `SnapshotEntryInLog` leave out a log
that `AppendEntries` has cut below `commitIndex`: when it grows back by `Start`
nobody wakes the applier, and `Snapshot` may look for an entry that is gone.

**Refinement.**  `AtMostOnceRpc` is the specification of `AtMostOnce` under the
mapping `outcome <- Outcome`, `executed <- Executed`, `durable <- Surviving`.
`Executed` are the calls whose handler has run, `Surviving` is what the
persister holds that the next instance starts from.  This is what `Raft` assumes
of its `requests` and `replies`: a request is executed once or never, at any
time, even after the caller has given up; and a reply comes only from an
execution that a restart does not undo.  It depends on the second look of
`processReq` at the server, and on `crash1` deleting the server before it
copies the persister: without either, TLC finds a TRUE that nobody remembers.

### Disagreements

Seven runs end in a violation.  Each states what a document, a comment or a
test of the repository says, and TLC finds a behaviour of the code against it.

| run | property | code | what is said |
|---|---|---|---|
| `forgotten_vote` | `ElectionSafety` | `raft.go:406` | `README.md:361`, `config.go:437` |
| `own_term` | `CommitsOwnTermOnly` | `append_entry.go:138` | `README.md:162` |
| `lost_commit` | `StateMachineSafety` | `append_entry.go:235` | `config.go:150` |
| `apply_order` | `NoGapInApply` | `raft.go:450` | `config.go:238` |
| `compacted_vote` | `LeaderCompleteness` | `request_vote.go:48` | `README.md:82` |
| `snapshot_term` | `SnapshotTermsAgree` | `raft.go:538` | `raft.go:59`, `raft.go:509` |
| `backoff` | `CatchesUp` | `append_entry.go:108` | `README.md:305`, `append_entry.go:108` |

* *A vote forgotten.*  `InstallSnapShot` clears `votedFor` even when the term
  is not new.  It does not take a service that makes snapshots: a rejection
  with `XLen = 0` sets `nextIndex` to 0, and then `nextIndex - 1 < 0` starts a snapshot.
* *An entry lost.*  `AppendEntries` replaces everything after `PrevLogIndex`, so
  an overtaken request removes what a later one brought.  The follower has
  acknowledged it, the leader has counted it and committed it.  When that
  follower leads, another command gets the index (`lost_commit`).  As a
  consequence `commitIndex` may lie beyond the log, which `README.md:351`
  excludes; `Snapshot` may then panic (`raft.go:541`), or, one index above the
  log, record the term of an entry that is not the one it covers (`snapshot_term`).
* *A compacted log in an election.*  Candidate and voter both use `lastLog()`,
  the filler once everything is in the snapshot, so any log is up to date.
* *A follower ahead.*  A follower's log is nothing but a snapshot that ends
  where the leader's last entry is, and the leader has no such snapshot.  The
  first request is refused because its term is new to the follower, and the
  leader takes that for a reason to decrement `nextIndex`.  Now `PrevLogIndex`
  lies in the follower's snapshot.  It refuses this for ever, without
  `Conflict`; the lines that would read its `XIndex` are commented out
  (`append_entry.go:109`), `nextIndex` stays at 1, and no snapshot is sent
  because the leader has none that reaches `nextIndex` (`backoff`).

Met while modelling, without a run of their own: the reply to a snapshot may
lower `matchIndex` when it is late (`raft.go:378`); an early return of
`appendEntries` starves the peers after one that is behind the snapshot
(`append_entry.go:35`); a killed applier that waits is never woken (`raft.go:207`);
entries kept above a snapshot that contradicts them break log matching
(`raft.go:423`, section 5).

## 4. Mutants

Each property of a passing run has a mutant, an operator before the one it
replaces that makes a plausible mistake: a compaction without filler or with
one entry too many, `persist` before the assignments, a term that is not
encoded, a snapshot that is not saved, a vote without a look at `votedFor`,
a refusal counted as a vote, a stale `AppendEntries` that is not turned away, a
`nextIndex` at the end of the snapshot instead of after it, an applier that does
not wait for its message to be taken; in `LabRpc` a reply passed on without a
second look, a dead server that is never noticed, a `Call` without a case for
the end of the network, a reply that is never drained, a persister copied
before the server is deleted; in `Applier` a send with `rf.mu` held, a commit
that wakes nobody, a snapshot that does not move `lastApplied` or that leaves
nothing of the log.

## 5. The proofs

All theorems are for every value of the constants: any finite set of servers,
any commands, intervals, numbers of calls and instances and lengths of logs,
without bounds on terms or messages.

| module | theorem | states |
|---|---|---|
| `ClusterProofs` | `Invariance` | `Spec => []Inv` |
| | `TypeCorrect` | `Spec => []TypeOK` |
| | `StableStateIsCurrent` | `Spec => []StableStateCurrent` |
| | `LogPositionsAgree` | `Spec => []LogPositions` |
| | `SnapshotsStayInSync` | `Spec => []SnapshotInSync` |
| | `TermsNeverDecrease` | `Spec => TermNeverDecreases` |
| `ElectionProofs` | `ElectionInvariance` | `Spec => []ElectionInv` |
| | `VotesOnceUnlessCleared` | `Spec => []VoteOnceUnlessCleared` |
| | `VoteRepliesAreDurable` | `Spec => []VoteReplyDurable` |
| | `LeadersHaveMajority` | `Spec => []LeaderHasMajority` |
| | `ElectionsAreSafeUnlessVoteCleared` | `Spec => []ElectionSafetyUnlessVoteCleared` |
| `LeaderProofs` | `AppendsComeFromLeaders` | `Spec => []AppendsFromLeaders` |
| | `LeadersOnlyAppend` | `Spec => LeaderAppendOnlyUnlessVoteCleared` |
| `LogProofs` | `LogsMatch` | `Spec /\ SuffixesFit => []LogMatchingUnlessVoteCleared` |
| `ServiceProofs` | `GapsNeedASnapshot` | `Spec /\ []SnapshotNext /\ [][SnapshotKept]_vars => []NoGapInApply` |
| | `GapsBehindSnapshot` | `Spec => GapsOnlyBehindSnapshot` |
| `RpcProofs` | `RpcTypeCorrect` | `Spec => []TypeOK` |
| | `RpcRefinement` | `Spec => AtMostOnceRpc` |
| `ApplierProofs` | `ApplierTypeCorrect` | `Spec => []TypeOK` |
| | `WakeupsAreNotMissed` | `Spec => []NoMissedWakeup` |
| | `SnapshotsFindTheirEntry` | `Spec => []SnapshotEntryInLog` |

The assumptions are `ServerAssumption`, `CommandAssumption` and
`SnapShotIntervalAssumption` (servers are a finite non-empty set of naturals,
the filler's command is no command, the interval is positive),
`EndOfAssumption` and `InstancesAssumption` of `LabRpc`, `MaxIndexAssumption` of `Applier`.

**`ClusterProofs`.**  The type of what is read out of a log depends on the
index lying in it (`LogIndexes`); that an entry sent or accepted lies where its
index says depends on what is in flight (`EntryIndexes`, `DataIndexes`); and a
restart puts on the log from the persister, so the persister's agreement with
memory (`StableStateCurrent`) is needed to keep both.  `Inv` is their
conjunction: `LocalInv` for what a server holds, `NetInv` for what is under way
(every request, reply and apply message is `Good`), `ServiceTypeOK` for the
tester.  The proof goes in layers: what the four ways to change a log do to a
`WellFormed` one; what may be read out of a well-formed log; frame lemmas for
the kinds of step there are (`VolatileStep`, `ElectionStep`, `LogStep`,
`NetStep`); one lemma per operation; and `NextInv`, which has one step per
disjunct of `Next`.  That terms never decrease follows from `Inv` because a
restart reads a term from disk that is the current one, or the later one of a
handler that was cut short.

**`ElectionProofs`.**  The code counts replies, not voters.  So `ElectionInv`
follows a vote from the request to the counter: a candidate asks a server once
per term and an open request has not been answered (`RequestsOK`); a granted
reply stands for a ballot (`RepliesOK`); a ballot is remembered in `votedFor`
until the term changes or it is cleared, and there is one per term otherwise
(`BallotsOK`); a counter is at most the number of ballots whose reply has come
in (`CountersOK`), from which a leader's majority follows (`LeaderHasMajority`).
Steps in which nobody votes, asks or counts are `Quiet` and treated once.  Two
leaders of one term then have two majorities, these share a server, and that
server has voted twice: `ElectionSafetyUnlessVoteCleared`.

**`LeaderProofs`.**  `AppendEntries` does not look at whether its receiver leads
the term of the request.  Every such request was sent with a majority behind it
(`AppendsFromLeaders`), the receiver has one too, and by the same intersection
a vote was cleared.  Otherwise a leader's log is changed by `Start`, which
appends, and by `Snapshot`, which keeps what lies above the snapshot.

**`LogProofs`.**  The logs and the entries in flight are seen as *segments*: a
range of indexes, the term just below it (`lastIncludeTerm`, `PrevLogTerm`), and
an entry per index.  `Segments` says when two of them `Agree` (an entry of one
term at one index means that all below agrees) and shows that this survives
whatever the code does to logs: dropping entries at either end (`Snapshot`, the
slices of `appendEntries`), appending an entry whose term the other does not
have at that index (`Start`), and joining a log, up to `PrevLogIndex`, with the
entries of a request that agrees with it there (`AppendEntries`, `Merged`; the
terms must not fall along a segment, `Sorted`).  A request that is late, or was
overtaken, is no special case: it is a segment that agreed when it was sent and
nobody can have changed.  The inductive invariant `LogInv` says of all logs and
all requests under way, in addition to `Inv` and `ElectionInv`, that

* they agree pairwise and are sorted (`Matched`);
* no entry and no snapshot is of a later term than its holder (`TermsBounded`),
  so that a leader's new entry keeps its log sorted;
* an entry was written by a server that had a majority in the entry's term and
  no longer campaigns in it (`Owned`), so a new leader finds no entry of its own
  term anywhere: two majorities would share a server;
* a leader's log reaches beyond every entry of its term (`Complete`), so `Start`
  takes an index nobody has an entry of this term at.

The last three hold of a term with no forgotten vote in it or before, which is
where the exception of the property comes from.  A step changes one log at most
(`LogsStep`), every request it sends is part of its sender's log
(`RequestsStep`), and the terms of snapshots come from their senders
(`InstallsStep`); the four parts follow from that without another look at the code.

The hypothesis `SuffixesFit` says that where a snapshot is put under entries
that stay, the log had the snapshot's term at its index.  The code does not test
it (`raft.go:423`), and the theorem is false without it.  A behaviour of `Spec`
with servers 0 to 4 and `SnapShotInterval = 2` shows it, without any forgotten vote:

1. 0 leads term 1 with the votes of 2 and 3 and starts two commands; only 3 gets them.
2. 1 leads term 2 with the votes of 2 and 4 and starts a command, which 2 and 4
   accept at index 1.  1 and 2 commit and apply it and take a snapshot at 1.
3. 1 sends its snapshot to 0, which keeps its entry 2 of term 1 above it.
4. 0 campaigns for term 3.  2 votes for it because it compares with the filler
   (`compacted_vote`), 3 because its last entry is the same.
5. 4 refuses the first heartbeat for its term; the second has `PrevLogIndex` 1
   and `PrevLogTerm` 2, and 4 accepts entry 2 of term 1 above its own entry 1 of term 2.
   3 has the same entry 2 above an entry 1 of term 1.

What fails then is property 2 of `src/README.md:95`.  TLC has replayed these 39
steps one by one; an exhaustive search over five servers is out of reach, so it
is not among the runs.  On the instances of
`pair`, `contest`, `compacted_vote`, `snapshot_term`, `apply_order` and
`forgotten_vote` every step satisfies `SuffixesFit`, so there the theorem speaks
of all behaviours, those of `pair`, `compacted_vote`, `snapshot_term` and
`apply_order` with snapshots of the service.

**`ServiceProofs`.**  The tester dies when its service gets index `i` before
`i - 1`.  The applier sends indexes in order and waits for each; a snapshot
jumps; and after a restart `lastApplied` is the snapshot's index while the new
service starts from 0 with the old `cfg.logs`.  `GapInv` keeps, per server, that
what the peer counts as applied has reached `cfg.logs` or is on `applyCh`
(`LastHeld`), the same of the place it would restart from (`PlaceHeld`), that a
command on its way continues what the service has (`MessagesHeld`), and that a
call of `Snapshot` is for something applied (`CallHeld`).  Two things break it,
and both are hypotheses.  `SnapshotNext`: a snapshot on `applyCh` is the last
thing its peer counts as applied; it fails when the applier offers the next
command while the snapshot waits, or when `InstallSnapShot` sends a snapshot of
less than what is applied.  `SnapshotKept`: no crash takes a snapshot off
`applyCh` before the service has it, without another one to follow.  `apply_order`
is the proof that they cannot be left out.  In that instance all but 62 of 935,797
states are reached under them, in `pair` all but 12 of 263,169.

The second theorem needs no hypothesis and says what a gap looks like:
`LagsSnapshot`, the service lacks the index at which its peer's snapshot ends,
or one index is all it has, as after a snapshot that has set it back.  `OrderInv` holds
of a service until the tester ends the process.  Either it lags, or it is
`InStep`: it has what its peer counts as applied, or gets it next, and it can
take the command that is on its way.  What makes that inductive is
`Contiguous`: above its peer's snapshot a service has left out nothing, because
each command it took continued one it had.  So when a snapshot, its own or a
leader's, moves the place up to an index the service has, it has had the place
before as well, and was in step.  `OnItsWay` and `OneCommand` say that a command
on `applyCh` is the last thing applied, unless the peer has jumped since; a
service that takes it and then has its peer's snapshot is in step again.

**`RpcProofs`.**  `RpcInv` adds to the types where the goroutines of one call are
with respect to each other (`Phases`), that only the instance whose persister
`config.saved` shares is registered (`TesterOK`), and that an update is in the
persister of its instance, and in the surviving one when its reply is being
delivered (`Kept`).  Each step maps to a step of `AtMostOnce` or to a stutter.

**`ApplierProofs`.**  `NoMissedWakeup` is not inductive, because `Start` and
`InstallSnapShot` move the log without a `Broadcast`.  It follows from
`WaitsOverNothing` (who waits has applied all of `commitIndex`) and
`CommittedInLog` (`commitIndex` lies in a log that was not cut), and so does
`SnapshotEntryInLog`, as `Snapshot` asks for an index up to `commitIndex`.

Every safety property of a passing run is stated by a theorem, log matching
under the hypothesis above, because `Spec` alone does not have it.  Only
model-checked: every liveness property
(`CallReturns`, `DeadServerFreesCaller`, `HandlersEnd`, `AppliedUnlessCut`,
`SendersReturn`, `SnapshotReturns`, `CatchesUpUnlessAhead`) and all violations.
Liveness under fairness, `ENABLED` and recursive definitions are out of the
prover's reach and stay with TLC.

## 6. What is not modelled

* `labgob`: a reflective wrapper of `encoding/gob`; messages and the persisted
  state are the records it round-trips.  Debug output, scripts, and the
  statistics of tester and network (`GetCount`, `rpcTotal`, `bytesTotal`).
* The tester's observers (`checkOneLeader`, `checkTerms`, `nCommitted`, `wait`,
  `one`): what they assert is stated as properties of `Cluster` instead.
* What the `applierSnap` of a crashed instance still does to `cfg.logs` and to
  the instance that replaces it (`config.go:220`).
* Durations.  The starvation at `append_entry.go:35` needs timers that compare
  heartbeats with election timeouts; with nondeterministic timers every
  liveness property of elections would be false for another reason.
* A cluster of one server never elects a leader, because `leaderElection`
  counts only replies; `Cluster` shows the same, and nothing is asserted of it.

## 7. Plan

Done: the modules of section 2.  Next, in order:

1. A theorem that bounds what a leader may believe of a follower
   (`matchIndex`), which needs the acknowledgements of each term as a history,
   with the overtaken request (`append_entry.go:235`) as its exception.
2. The invariant behind `CatchesUpUnlessAhead` (`Consistent` is kept), so that
   liveness under `CatchUp` does not rest on its bounds for safety.
3. Timers with durations for one leader and two followers, for the starvation
   at `append_entry.go:35`.
4. The old `applierSnap` after a crash, as another goroutine of `Applier`.
