-------------------------------- MODULE Raft --------------------------------
(***************************************************************************)
(* The Raft peer of src/src/raft: leader election, log replication,        *)
(* persistence and log compaction, one action per critical section of      *)
(* rf.mu.  Every RPC handler and every goroutine that handles a reply      *)
(* takes rf.mu for its whole body, so it is one atomic step here; the      *)
(* places where the code gives the lock up (a goroutine started with go,   *)
(* an RPC in flight, a send on applyCh) are the places where steps of      *)
(* other goroutines and other servers interleave.                          *)
(*                                                                         *)
(* Time is abstracted: an election timer that is not reset by the step     *)
(* that reads it may have expired.  A Go slice index i is TLA+ index i+1.  *)
(***************************************************************************)
EXTENDS Integers, Sequences, FiniteSets

CONSTANTS Server,     \* indexes of rf.peers; their order is the order of the loops
          Command,    \* what a client passes to Start
          NoCommand   \* the Command of the filler entry at position 0

ASSUME ServerAssumption == Server \subseteq Nat /\ IsFiniteSet(Server) /\ Server # {}
ASSUME CommandAssumption == NoCommand \notin Command

Follower == "Follower"
Candidate == "Candidate"
Leader == "Leader"

None == -1            \* votedFor of a server that has not voted

VARIABLES
  state,              \* Raft.state
  currentTerm,        \* Raft.currentTerm
  votedFor,           \* Raft.votedFor
  voteCounter,        \* the counter shared by the goroutines of the last election
  log,                \* Raft.log.Entries; position 0 is a filler
  lastIncludeIndex,   \* Raft.lastIncludeIndex, the index the filler stands for
  lastIncludeTerm,    \* Raft.lastIncludeTerm
  commitIndex,        \* Raft.commitIndex
  lastApplied,        \* Raft.lastApplied
  nextIndex,          \* Raft.nextIndex
  matchIndex,         \* Raft.matchIndex
  raftstate,          \* Persister.raftstate, decoded
  snapshot,           \* Persister.snapshot; what the service encoded
  sending,            \* peers a leaderSendSnapShot goroutine was started for
  applyCh,            \* ApplyMsgs whose sender is blocked on the channel
  requests,           \* RPC requests in flight
  replies,            \* RPC replies in flight
  ballots,            \* history: <<server, term, candidate>> of every vote cast
  cleared             \* history: <<server, term>> of every vote forgotten in its term

electionVars == <<state, currentTerm, votedFor, voteCounter>>
logVars == <<log, lastIncludeIndex, lastIncludeTerm>>
applyVars == <<commitIndex, lastApplied, applyCh>>
leaderVars == <<nextIndex, matchIndex, sending>>
stableVars == <<raftstate, snapshot>>
netVars == <<requests, replies>>
historyVars == <<ballots, cleared>>
raftVars == <<electionVars, logVars, applyVars, leaderVars, stableVars, netVars, historyVars>>

-----------------------------------------------------------------------------
(* The log and its offset after compaction.                                *)

Entry == [Command : Command \cup {NoCommand}, Term : Nat, Index : Nat]

EmptyEntry == [Command |-> NoCommand, Term |-> 0, Index |-> 0]

\* What the service encodes: the last command it applied.  The Index is not
\* in the bytes; it names the prefix of the log that they stand for.
SnapshotData == [Command : Command \cup {NoCommand}, Index : Nat]

NoSnapshot == [Command |-> NoCommand, Index |-> 0]

lastLog(n) == log[n][Len(log[n])]

getLastIndex(n) == Len(log[n]) - 1 + lastIncludeIndex[n]

restoreLog(n, i) == log[n][i - lastIncludeIndex[n] + 1]

restoreLogTerm(n, i) ==
  IF i = lastIncludeIndex[n] THEN lastIncludeTerm[n] ELSE restoreLog(n, i).Term

getLastTerm(n) ==
  IF Len(log[n]) = 1 THEN lastIncludeTerm[n] ELSE lastLog(n).Term

\* The filler is forgotten; the entry at index is kept.
TruncateToMutant1(n, index) ==
  SubSeq(log[n], index - lastIncludeIndex[n] + 2, Len(log[n]))

TruncateToMutant2(n, index) ==
  <<EmptyEntry>> \o SubSeq(log[n], index - lastIncludeIndex[n] + 1, Len(log[n]))

\* The log that is left when everything up to index goes into a snapshot.
TruncateTo(n, index) ==
  <<EmptyEntry>> \o SubSeq(log[n], index - lastIncludeIndex[n] + 2, Len(log[n]))

\* The scan from the end stops at the first entry whose term is not above x.
findLastLogInTerm(n, x) ==
  LET hits == {i \in (lastIncludeIndex[n] + 1)..getLastIndex(n) :
                 /\ restoreLogTerm(n, i) = x
                 /\ \A j \in (i + 1)..getLastIndex(n) : restoreLogTerm(n, j) > x}
  IN  IF hits = {} THEN -1 ELSE CHOOSE i \in hits : TRUE

\* The scan of AppendEntries for the first entry of the conflicting term; 0,
\* the zero value of reply.XIndex, when the scan ends at the snapshot.
ConflictIndex(n, prev) ==
  LET xTerm == restoreLogTerm(n, prev)
      hits == {i \in (lastIncludeIndex[n] + 1)..prev :
                 /\ restoreLogTerm(n, i - 1) # xTerm
                 /\ \A j \in (i + 1)..prev : restoreLogTerm(n, j - 1) = xTerm}
  IN  IF hits = {} THEN 0 ELSE CHOOSE i \in hits : TRUE

AtMost(a, b) == IF a > b THEN b ELSE a

AtLeast(a, b) == IF a > b THEN a ELSE b

IsMajority(count) == count > Cardinality(Server) \div 2

-----------------------------------------------------------------------------
(* Stable storage.                                                         *)

\* The term is not encoded.
RaftStateMutant(n) ==
  [currentTerm |-> 0, votedFor |-> votedFor[n], log |-> log[n],
   lastIncludeIndex |-> lastIncludeIndex[n], lastIncludeTerm |-> lastIncludeTerm[n]]

RaftState(n) ==
  [currentTerm |-> currentTerm[n], votedFor |-> votedFor[n], log |-> log[n],
   lastIncludeIndex |-> lastIncludeIndex[n], lastIncludeTerm |-> lastIncludeTerm[n]]

\* Called before the assignments it should save.
persistMutant(n) == raftstate' = [raftstate EXCEPT ![n] = RaftState(n)]

persist(n) == raftstate' = [raftstate EXCEPT ![n] = RaftState(n)']

\* Only the state is saved.
SaveStateAndSnapshotMutant(n, data) ==
  /\ raftstate' = [raftstate EXCEPT ![n] = RaftState(n)']
  /\ UNCHANGED snapshot

SaveStateAndSnapshot(n, data) ==
  /\ raftstate' = [raftstate EXCEPT ![n] = RaftState(n)']
  /\ snapshot' = [snapshot EXCEPT ![n] = data]

-----------------------------------------------------------------------------
(* Requests and replies.  open is FALSE when the caller has crashed since: *)
(* its request may still reach the handler, but no reply comes back.  A    *)
(* reply carries what the waiting goroutine remembers of its arguments.    *)
(* A lost message is one that is never received.                           *)

RequestVoteArgs(n, p) ==
  [type |-> "RequestVote", from |-> n, to |-> p, open |-> TRUE,
   Term |-> currentTerm[n],
   LastLogIndex |-> lastLog(n).Index, LastLogTerm |-> lastLog(n).Term]

RequestVoteReply(m, term, granted) ==
  [type |-> "RequestVoteReply", from |-> m.to, to |-> m.from,
   argsTerm |-> m.Term, Term |-> term, VoteGranted |-> granted]

\* getPrevLogInfo and the slice of entries that goes with it.
AppendEntriesArgs(n, p) ==
  LET prev  == AtMost(nextIndex[n][p] - 1, getLastIndex(n))
      first == AtMost(AtLeast(nextIndex[n][p], 1), lastLog(n).Index)
  IN  [type |-> "AppendEntries", from |-> n, to |-> p, open |-> TRUE,
       Term |-> currentTerm[n],
       PrevLogIndex |-> prev, PrevLogTerm |-> restoreLogTerm(n, prev),
       Entries |-> IF getLastIndex(n) >= nextIndex[n][p]
                   THEN SubSeq(log[n], first - lastIncludeIndex[n] + 1, Len(log[n]))
                   ELSE << >>,
       LeaderCommit |-> commitIndex[n]]

\* term is read before the handler changes rf.currentTerm.
AppendEntriesReply(m, success, conflict, xTerm, xIndex, xLen) ==
  [type |-> "AppendEntriesReply", from |-> m.to, to |-> m.from,
   argsTerm |-> m.Term, match |-> m.PrevLogIndex + Len(m.Entries),
   Term |-> currentTerm[m.to], Success |-> success, Conflict |-> conflict,
   XTerm |-> xTerm, XIndex |-> xIndex, XLen |-> xLen]

InstallSnapshotArgs(n, p) ==
  [type |-> "InstallSnapShot", from |-> n, to |-> p, open |-> TRUE,
   Term |-> currentTerm[n],
   LastIncludeIndex |-> lastIncludeIndex[n], LastIncludeTerm |-> lastIncludeTerm[n],
   Data |-> snapshot[n]]

InstallSnapshotReply(m, term) ==
  [type |-> "InstallSnapShotReply", from |-> m.to, to |-> m.from,
   argsTerm |-> m.Term, LastIncludeIndex |-> m.LastIncludeIndex, Term |-> term]

\* The handler of request m returns: the reply goes to a caller still there.
Answer(m, reply) ==
  /\ requests' = requests \ {m}
  /\ replies' = IF m.open THEN replies \cup {reply} ELSE replies

\* The goroutine that waited for reply m has gone on and sends nothing.
Consumed(m) == replies' = replies \ {m} /\ UNCHANGED requests

-----------------------------------------------------------------------------
(* Elections.                                                              *)

\* Raising the term, or leaving term 0; anything else is ignored.
setNewTerm(n, term) ==
  IF term > currentTerm[n] \/ currentTerm[n] = 0
  THEN /\ state' = [state EXCEPT ![n] = Follower]
       /\ currentTerm' = [currentTerm EXCEPT ![n] = term]
       /\ votedFor' = [votedFor EXCEPT ![n] = None]
       /\ persist(n)
  ELSE UNCHANGED <<state, currentTerm, votedFor, raftstate>>

\* Peers that are behind the leader's snapshot, and the first of them: the
\* loop of appendEntries starts a snapshot for it and returns, so only the
\* peers before it are served and only a leader before it resets its timer.
BehindSnapshot(n) ==
  {p \in Server \ {n} : nextIndex[n][p] - 1 < lastIncludeIndex[n]}

SnapshotTarget(n) ==
  {p \in BehindSnapshot(n) : \A q \in BehindSnapshot(n) : p <= q}

Visited(n) == {p \in Server : \A q \in BehindSnapshot(n) : p < q}

EntriesToSend(n, heartbeat) ==
  {AppendEntriesArgs(n, p) :
     p \in {q \in Visited(n) \ {n} : lastLog(n).Index >= nextIndex[n][q] \/ heartbeat}}

\* appendEntries on the state the step leaves behind.
appendEntries(n, heartbeat) ==
  /\ requests' = requests \cup EntriesToSend(n, heartbeat)'
  /\ sending' = [sending EXCEPT ![n] = @ \cup SnapshotTarget(n)']

\* A tick of a leader: heartbeats, and its own timer starts anew.
Heartbeat(n) ==
  /\ state[n] = Leader
  /\ UNCHANGED <<electionVars, logVars, applyVars, nextIndex, matchIndex, stableVars, replies, historyVars>>
  /\ appendEntries(n, TRUE)

\* A tick that finds the election timer expired.  A leader's tick sends its
\* heartbeats first, and only one whose loop returned before it reached the
\* leader itself leaves an expired timer for the test that follows.
leaderElection(n) ==
  /\ state[n] = Leader => n \notin Visited(n)
  /\ currentTerm' = [currentTerm EXCEPT ![n] = @ + 1]
  /\ state' = [state EXCEPT ![n] = Candidate]
  /\ votedFor' = [votedFor EXCEPT ![n] = n]
  /\ voteCounter' = [voteCounter EXCEPT ![n] = 1]
  /\ UNCHANGED <<logVars, applyVars, nextIndex, matchIndex, snapshot, replies, cleared>>
  /\ persist(n)
  /\ ballots' = ballots \cup {<<n, currentTerm'[n], n>>}
  /\ requests' = requests
       \cup (IF state[n] = Leader THEN EntriesToSend(n, TRUE) ELSE {})
       \cup {RequestVoteArgs(n, p)' : p \in Server \ {n}}
  /\ sending' = IF state[n] = Leader
                THEN [sending EXCEPT ![n] = @ \cup SnapshotTarget(n)]
                ELSE sending

\* The test of RequestVote on the last entry; a log that is all snapshot has
\* only the filler to compare with.
UpToDate(m, n) ==
  \/ m.LastLogTerm > lastLog(n).Term
  \/ m.LastLogTerm = lastLog(n).Term /\ m.LastLogIndex >= lastLog(n).Index

\* A vote without a look at votedFor.
MayVoteMutant(voted, m) == TRUE

MayVote(voted, m) == voted \in {None, m.from}

RequestVoteStale(m) ==
  LET n == m.to IN
  /\ m.Term < currentTerm[n]
  /\ UNCHANGED <<electionVars, logVars, applyVars, leaderVars, stableVars, historyVars>>
  /\ Answer(m, RequestVoteReply(m, currentTerm[n], FALSE))

RequestVoteCurrent(m) ==
  LET n     == m.to
      newer == m.Term > currentTerm[n]
      voted == IF newer THEN None ELSE votedFor[n]
      grant == MayVote(voted, m) /\ UpToDate(m, n)
  IN
  /\ m.Term >= currentTerm[n]
  /\ state' = IF newer THEN [state EXCEPT ![n] = Follower] ELSE state
  /\ currentTerm' = [currentTerm EXCEPT ![n] = m.Term]
  /\ votedFor' = [votedFor EXCEPT ![n] = IF grant THEN m.from ELSE voted]
  /\ ballots' = IF grant THEN ballots \cup {<<n, m.Term, m.from>>} ELSE ballots
  /\ UNCHANGED <<voteCounter, logVars, applyVars, leaderVars, snapshot, cleared>>
  /\ IF newer \/ grant THEN persist(n) ELSE UNCHANGED raftstate
  /\ Answer(m, RequestVoteReply(m, m.Term, grant))

RequestVote(m) == RequestVoteStale(m) \/ RequestVoteCurrent(m)

\* The body of becomeLeader.Do.
BecomeLeader(n, m) ==
  LET last == lastLog(n).Index IN
  /\ state' = [state EXCEPT ![n] = Leader]
  /\ nextIndex' = [nextIndex EXCEPT ![n] = [p \in Server |-> last + 1]]
  /\ matchIndex' = [matchIndex EXCEPT ![n] = [p \in Server |-> IF p = n THEN last ELSE 0]]
  /\ replies' = replies \ {m}
  /\ UNCHANGED <<currentTerm, votedFor, logVars, applyVars, stableVars, historyVars>>
  /\ appendEntries(n, TRUE)

\* Every reply of the term counts as a vote.
CountsMutant(m) == m.Term = m.argsTerm /\ m.argsTerm = currentTerm[m.to]

\* A vote for the current election.  A vote for an earlier one goes to a
\* counter nobody will read again.
Counts(m) == m.Term = m.argsTerm /\ m.VoteGranted /\ m.argsTerm = currentTerm[m.to]

\* candidateRequestVote after sendRequestVote returned true.
VoteNewerTerm(m) ==
  /\ m.Term > m.argsTerm
  /\ Consumed(m)
  /\ UNCHANGED <<voteCounter, logVars, applyVars, leaderVars, snapshot, historyVars>>
  /\ setNewTerm(m.to, m.Term)

VoteIgnored(m) ==
  /\ m.Term <= m.argsTerm /\ ~Counts(m)
  /\ Consumed(m)
  /\ UNCHANGED <<electionVars, logVars, applyVars, leaderVars, stableVars, historyVars>>

VoteCounted(m) ==
  LET n == m.to IN
  /\ Counts(m)
  /\ voteCounter' = [voteCounter EXCEPT ![n] = @ + 1]
  /\ \/ /\ IsMajority(voteCounter'[n]) /\ state[n] = Candidate
        /\ BecomeLeader(n, m)
     \/ /\ ~(IsMajority(voteCounter'[n]) /\ state[n] = Candidate)
        /\ Consumed(m)
        /\ UNCHANGED <<state, currentTerm, votedFor, logVars, applyVars, leaderVars,
                       stableVars, historyVars>>

candidateRequestVote(m) == VoteNewerTerm(m) \/ VoteIgnored(m) \/ VoteCounted(m)

-----------------------------------------------------------------------------
(* Log replication.                                                        *)

Start(n, command) ==
  /\ state[n] = Leader
  /\ log' = [log EXCEPT ![n] =
       Append(@, [Command |-> command, Term |-> currentTerm[n], Index |-> getLastIndex(n) + 1])]
  /\ UNCHANGED <<electionVars, lastIncludeIndex, lastIncludeTerm, applyVars,
                 nextIndex, matchIndex, snapshot, replies, historyVars>>
  /\ persist(n)
  /\ appendEntries(n, FALSE)

\* The handler of AppendEntries, one action per way out of it.
AppendNewerTerm(m) ==
  LET n == m.to IN
  /\ m.Term > currentTerm[n]
  /\ UNCHANGED <<voteCounter, logVars, applyVars, leaderVars, snapshot, historyVars>>
  /\ setNewTerm(n, m.Term)
  /\ Answer(m, AppendEntriesReply(m, FALSE, FALSE, 0, 0, 0))

AppendStale(m) ==
  LET n == m.to IN
  /\ m.Term < currentTerm[n]
  /\ UNCHANGED <<electionVars, logVars, applyVars, leaderVars, stableVars, historyVars>>
  /\ Answer(m, AppendEntriesReply(m, FALSE, FALSE, 0, 0, 0))

\* A request of an earlier term is not turned away.
CurrentLeaderHeardMutant(m) ==
  /\ m.Term <= currentTerm[m.to]
  /\ state' = [state EXCEPT ![m.to] = IF @ = Candidate THEN Follower ELSE @]
  /\ UNCHANGED <<currentTerm, votedFor, voteCounter, leaderVars, lastApplied, applyCh,
                 lastIncludeIndex, lastIncludeTerm, snapshot, historyVars>>

\* What the handler does before it looks at the log.
CurrentLeaderHeard(m) ==
  /\ m.Term = currentTerm[m.to]
  /\ state' = [state EXCEPT ![m.to] = IF @ = Candidate THEN Follower ELSE @]
  /\ UNCHANGED <<currentTerm, votedFor, voteCounter, leaderVars, lastApplied, applyCh,
                 lastIncludeIndex, lastIncludeTerm, snapshot, historyVars>>

AppendBehindSnapshot(m) ==
  LET n == m.to IN
  /\ lastIncludeIndex[n] > m.PrevLogIndex
  /\ CurrentLeaderHeard(m)
  /\ UNCHANGED <<log, commitIndex, raftstate>>
  /\ Answer(m, AppendEntriesReply(m, FALSE, FALSE, 0, lastIncludeIndex[n] + 1, 0))

AppendMissing(m) ==
  LET n == m.to IN
  /\ lastIncludeIndex[n] <= m.PrevLogIndex
  /\ getLastIndex(n) < m.PrevLogIndex
  /\ CurrentLeaderHeard(m)
  /\ UNCHANGED <<log, commitIndex, raftstate>>
  /\ Answer(m, AppendEntriesReply(m, FALSE, TRUE, -1, -1, getLastIndex(n)))

HasPrev(m) == m.PrevLogIndex \in lastIncludeIndex[m.to]..getLastIndex(m.to)

AppendConflict(m) ==
  LET n == m.to IN
  /\ HasPrev(m)
  /\ restoreLogTerm(n, m.PrevLogIndex) # m.PrevLogTerm
  /\ CurrentLeaderHeard(m)
  /\ UNCHANGED <<log, commitIndex, raftstate>>
  /\ Answer(m, AppendEntriesReply(m, FALSE, TRUE, restoreLogTerm(n, m.PrevLogIndex),
                                  ConflictIndex(n, m.PrevLogIndex), getLastIndex(n)))

\* Whatever followed PrevLogIndex is dropped, whether or not it agrees with
\* the entries of the request.
AppendAccept(m) ==
  LET n == m.to IN
  /\ HasPrev(m)
  /\ restoreLogTerm(n, m.PrevLogIndex) = m.PrevLogTerm
  /\ CurrentLeaderHeard(m)
  /\ log' = [log EXCEPT ![n] =
       SubSeq(@, 1, m.PrevLogIndex + 1 - lastIncludeIndex[n]) \o m.Entries]
  /\ persist(n)
  /\ commitIndex' = [commitIndex EXCEPT ![n] =
       IF m.LeaderCommit > @ THEN AtMost(m.LeaderCommit, getLastIndex(n)') ELSE @]
  /\ Answer(m, AppendEntriesReply(m, TRUE, FALSE, 0, 0, 0))

AppendEntries(m) ==
  \/ AppendNewerTerm(m) \/ AppendStale(m) \/ AppendBehindSnapshot(m)
  \/ AppendMissing(m) \/ AppendConflict(m) \/ AppendAccept(m)

\* The indexes above commitIndex that a majority holds, whatever their term.
Replicated(n, match) ==
  {i \in (commitIndex[n] + 1)..getLastIndex(n) :
     IsMajority(1 + Cardinality({p \in Server \ {n} : match[p] >= i}))}

leaderCommitRule(n) ==
  LET reached == {commitIndex[n]}
                   \cup (IF state[n] = Leader THEN Replicated(n, matchIndex'[n]) ELSE {})
  IN  \E i \in reached :
        /\ \A j \in reached : j <= i
        /\ commitIndex' = [commitIndex EXCEPT ![n] = i]

\* nextIndex after a rejection.
BackedOff(n, m) ==
  CASE m.Conflict /\ m.XTerm = -1 -> m.XLen
    [] m.Conflict /\ m.XTerm # -1 ->
         LET i == findLastLogInTerm(n, m.XTerm) IN IF i > 0 THEN i ELSE m.XIndex
    [] ~m.Conflict /\ nextIndex[n][m.from] > 1 -> nextIndex[n][m.from] - 1
    [] OTHER -> nextIndex[n][m.from]

\* leaderSendEntries after sendAppendEntries returned true.
AppendReplyNewerTerm(m) ==
  /\ m.Term > currentTerm[m.to]
  /\ Consumed(m)
  /\ UNCHANGED <<voteCounter, logVars, applyVars, leaderVars, snapshot, historyVars>>
  /\ setNewTerm(m.to, m.Term)

AppendReplyStale(m) ==
  /\ m.Term <= currentTerm[m.to] /\ m.argsTerm # currentTerm[m.to]
  /\ Consumed(m)
  /\ UNCHANGED <<electionVars, logVars, applyVars, leaderVars, stableVars, historyVars>>

AppendReplyCurrent(m) ==
  LET n == m.to
      p == m.from
  IN
  /\ m.Term <= currentTerm[n] /\ m.argsTerm = currentTerm[n]
  /\ \/ /\ m.Success
        /\ nextIndex' = [nextIndex EXCEPT ![n][p] = AtLeast(@, m.match + 1)]
        /\ matchIndex' = [matchIndex EXCEPT ![n][p] = AtLeast(@, m.match)]
     \/ /\ ~m.Success
        /\ nextIndex' = [nextIndex EXCEPT ![n][p] = BackedOff(n, m)]
        /\ UNCHANGED matchIndex
  /\ Consumed(m)
  /\ UNCHANGED <<electionVars, logVars, lastApplied, applyCh, sending, stableVars, historyVars>>
  /\ leaderCommitRule(n)

leaderSendEntries(m) ==
  AppendReplyNewerTerm(m) \/ AppendReplyStale(m) \/ AppendReplyCurrent(m)

-----------------------------------------------------------------------------
(* Snapshots.                                                              *)

\* leaderSendSnapShot up to the call: the goroutine reads the state of
\* whatever the server has become since appendEntries started it.
leaderSendSnapShot(n, p) ==
  /\ p \in sending[n]
  /\ sending' = [sending EXCEPT ![n] = @ \ {p}]
  /\ requests' = requests \cup {InstallSnapshotArgs(n, p)}
  /\ UNCHANGED <<electionVars, logVars, applyVars, nextIndex, matchIndex, stableVars,
                 replies, historyVars>>

\* The handler of InstallSnapShot, one action per way out of it.
InstallStale(m) ==
  /\ currentTerm[m.to] > m.Term
  /\ UNCHANGED <<electionVars, logVars, applyVars, leaderVars, stableVars, historyVars>>
  /\ Answer(m, InstallSnapshotReply(m, currentTerm[m.to]))

\* Any snapshot of a current term makes a follower that has not voted.
SnapshotHeard(m) ==
  LET n == m.to IN
  /\ currentTerm[n] <= m.Term
  /\ currentTerm' = [currentTerm EXCEPT ![n] = m.Term]
  /\ state' = [state EXCEPT ![n] = Follower]
  /\ votedFor' = [votedFor EXCEPT ![n] = None]
  /\ cleared' = IF m.Term = currentTerm[n] THEN cleared \cup {<<n, m.Term>>} ELSE cleared
  /\ UNCHANGED <<voteCounter, leaderVars, ballots>>

InstallOld(m) ==
  /\ lastIncludeIndex[m.to] >= m.LastIncludeIndex
  /\ SnapshotHeard(m)
  /\ UNCHANGED <<logVars, applyVars, snapshot>>
  /\ persist(m.to)
  /\ Answer(m, InstallSnapshotReply(m, m.Term))

\* The entries above the snapshot stay, whatever entry the log has at its
\* index.  The handler returns, and replies, when the service has taken msg.
InstallNew(m) ==
  LET n   == m.to
      msg == [type |-> "snapshot", Index |-> m.LastIncludeIndex, Term |-> m.LastIncludeTerm,
              Data |-> m.Data,
              reply |-> IF m.open THEN {InstallSnapshotReply(m, m.Term)} ELSE {}]
  IN
  /\ lastIncludeIndex[n] < m.LastIncludeIndex
  /\ SnapshotHeard(m)
  /\ log' = [log EXCEPT ![n] = TruncateTo(n, m.LastIncludeIndex)]
  /\ lastIncludeIndex' = [lastIncludeIndex EXCEPT ![n] = m.LastIncludeIndex]
  /\ lastIncludeTerm' = [lastIncludeTerm EXCEPT ![n] = m.LastIncludeTerm]
  /\ commitIndex' = [commitIndex EXCEPT ![n] = AtLeast(@, m.LastIncludeIndex)]
  /\ lastApplied' = [lastApplied EXCEPT ![n] = AtLeast(@, m.LastIncludeIndex)]
  /\ SaveStateAndSnapshot(n, m.Data)
  /\ applyCh' = [applyCh EXCEPT ![n] = @ \cup {msg}]
  /\ requests' = requests \ {m}
  /\ UNCHANGED replies

InstallSnapShot(m) == InstallStale(m) \/ InstallOld(m) \/ InstallNew(m)

\* leaderSendSnapShot after the call returned true.
SnapshotReplyStale(m) ==
  /\ state[m.to] # Leader \/ currentTerm[m.to] # m.argsTerm
  /\ Consumed(m)
  /\ UNCHANGED <<electionVars, logVars, applyVars, leaderVars, stableVars, historyVars>>

\* The leader steps down but stays in its term, its own vote forgotten.
SnapshotReplyNewerTerm(m) ==
  LET n == m.to IN
  /\ state[n] = Leader /\ currentTerm[n] = m.argsTerm
  /\ m.Term > currentTerm[n]
  /\ state' = [state EXCEPT ![n] = Follower]
  /\ votedFor' = [votedFor EXCEPT ![n] = None]
  /\ cleared' = cleared \cup {<<n, currentTerm[n]>>}
  /\ Consumed(m)
  /\ UNCHANGED <<currentTerm, voteCounter, logVars, applyVars, leaderVars, snapshot, ballots>>
  /\ persist(n)

\* nextIndex is set to the last index of the snapshot.
SnapshotReplyCurrentMutant(m) ==
  LET n == m.to IN
  /\ state[n] = Leader /\ currentTerm[n] = m.argsTerm
  /\ m.Term <= currentTerm[n]
  /\ matchIndex' = [matchIndex EXCEPT ![n][m.from] = m.LastIncludeIndex]
  /\ nextIndex' = [nextIndex EXCEPT ![n][m.from] = m.LastIncludeIndex]
  /\ Consumed(m)
  /\ UNCHANGED <<electionVars, logVars, applyVars, sending, stableVars, historyVars>>

SnapshotReplyCurrent(m) ==
  LET n == m.to IN
  /\ state[n] = Leader /\ currentTerm[n] = m.argsTerm
  /\ m.Term <= currentTerm[n]
  /\ matchIndex' = [matchIndex EXCEPT ![n][m.from] = m.LastIncludeIndex]
  /\ nextIndex' = [nextIndex EXCEPT ![n][m.from] = m.LastIncludeIndex + 1]
  /\ Consumed(m)
  /\ UNCHANGED <<electionVars, logVars, applyVars, sending, stableVars, historyVars>>

SnapshotReply(m) ==
  SnapshotReplyStale(m) \/ SnapshotReplyNewerTerm(m) \/ SnapshotReplyCurrent(m)

\* The service hands over a snapshot of everything up to index.
SnapshotIgnored(n, index) ==
  /\ lastIncludeIndex[n] >= index \/ index > commitIndex[n]
  /\ UNCHANGED raftVars

\* restoreLogTerm reads past the end of the log: the handler panics.
SnapshotPanics(n, index) ==
  /\ lastIncludeIndex[n] < index /\ index <= commitIndex[n]
  /\ index > getLastIndex(n) + 1
  /\ UNCHANGED raftVars

SnapshotTaken(n, index, data) ==
  /\ lastIncludeIndex[n] < index /\ index <= commitIndex[n]
  /\ index <= getLastIndex(n) + 1
  /\ log' = [log EXCEPT ![n] = TruncateTo(n, index)]
  /\ lastIncludeTerm' = [lastIncludeTerm EXCEPT ![n] =
       IF index = getLastIndex(n) + 1 THEN getLastTerm(n) ELSE restoreLogTerm(n, index)]
  /\ lastIncludeIndex' = [lastIncludeIndex EXCEPT ![n] = index]
  /\ lastApplied' = [lastApplied EXCEPT ![n] = AtLeast(@, index)]
  /\ UNCHANGED <<electionVars, commitIndex, applyCh, leaderVars, netVars, historyVars>>
  /\ SaveStateAndSnapshot(n, data)

Snapshot(n, index, data) == SnapshotIgnored(n, index) \/ SnapshotTaken(n, index, data)

-----------------------------------------------------------------------------
(* Applying, and life and death of a peer.                                 *)

\* A goroutine per message: the next one need not wait.
applierMutant(n) ==
  /\ commitIndex[n] > lastApplied[n] /\ lastLog(n).Index > lastApplied[n]
  /\ lastApplied' = [lastApplied EXCEPT ![n] = @ + 1]
  /\ applyCh' = [applyCh EXCEPT ![n] = @ \cup
       {[type |-> "command", Index |-> lastApplied[n] + 1,
         Command |-> restoreLog(n, lastApplied[n] + 1).Command]}]
  /\ UNCHANGED <<electionVars, logVars, commitIndex, leaderVars, stableVars, netVars, historyVars>>

\* One round of the applier: the entry is chosen under the lock and offered
\* on applyCh without it.  The next round waits until the service took it.
applier(n) ==
  /\ \A msg \in applyCh[n] : msg.type # "command"
  /\ commitIndex[n] > lastApplied[n] /\ lastLog(n).Index > lastApplied[n]
  /\ lastApplied' = [lastApplied EXCEPT ![n] = @ + 1]
  /\ applyCh' = [applyCh EXCEPT ![n] = @ \cup
       {[type |-> "command", Index |-> lastApplied[n] + 1,
         Command |-> restoreLog(n, lastApplied[n] + 1).Command]}]
  /\ UNCHANGED <<electionVars, logVars, commitIndex, leaderVars, stableVars, netVars, historyVars>>

\* The service receives msg: its sender goes on, and if that is the handler
\* of InstallSnapShot it returns.
Received(n, msg) ==
  /\ applyCh' = [applyCh EXCEPT ![n] = @ \ {msg}]
  /\ replies' = IF msg.type = "snapshot" THEN replies \cup msg.reply ELSE replies
  /\ UNCHANGED <<electionVars, logVars, commitIndex, lastApplied, leaderVars, stableVars,
                 requests, historyVars>>

readPersist(n, stable) ==
  /\ currentTerm' = [currentTerm EXCEPT ![n] = stable.currentTerm]
  /\ votedFor' = [votedFor EXCEPT ![n] = stable.votedFor]
  /\ log' = [log EXCEPT ![n] = stable.log]
  /\ lastIncludeIndex' = [lastIncludeIndex EXCEPT ![n] = stable.lastIncludeIndex]
  /\ lastIncludeTerm' = [lastIncludeTerm EXCEPT ![n] = stable.lastIncludeTerm]

\* The calls of n end with it: its requests may still be executed elsewhere,
\* but replies find nobody.  lost is a request whose handler the crash of n cut short.
Disconnected(n, lost) ==
  /\ requests' = {IF m.from = n THEN [m EXCEPT !.open = FALSE] ELSE m : m \in requests \ lost}
  /\ replies' = {r \in replies : r.to # n}
  /\ applyCh' = [p \in Server |->
       IF p = n THEN {}
       ELSE {IF msg.type = "snapshot"
             THEN [msg EXCEPT !.reply = {r \in @ : r.to # n}]
             ELSE msg : msg \in applyCh[p]}]

\* Make after a crash of n, on a persister that holds stable.  Everything
\* volatile starts anew.
Make(n, stable, lost) ==
  /\ readPersist(n, stable)
  /\ state' = [state EXCEPT ![n] = Follower]
  /\ voteCounter' = [voteCounter EXCEPT ![n] = 0]
  /\ commitIndex' = [commitIndex EXCEPT ![n] = 0]
  /\ lastApplied' = [lastApplied EXCEPT ![n] = stable.lastIncludeIndex]
  /\ nextIndex' = [nextIndex EXCEPT ![n] = [p \in Server |-> 0]]
  /\ matchIndex' = [matchIndex EXCEPT ![n] = [p \in Server |-> 0]]
  /\ sending' = [sending EXCEPT ![n] = {}]
  /\ Disconnected(n, lost)
  /\ raftstate' = [raftstate EXCEPT ![n] = stable]
  /\ UNCHANGED <<snapshot, ballots>>

RaftInit ==
  LET fresh == [currentTerm |-> 0, votedFor |-> None, log |-> <<EmptyEntry>>,
                lastIncludeIndex |-> 0, lastIncludeTerm |-> 0]
  IN
  /\ state = [n \in Server |-> Follower]
  /\ currentTerm = [n \in Server |-> fresh.currentTerm]
  /\ votedFor = [n \in Server |-> fresh.votedFor]
  /\ voteCounter = [n \in Server |-> 0]
  /\ log = [n \in Server |-> fresh.log]
  /\ lastIncludeIndex = [n \in Server |-> fresh.lastIncludeIndex]
  /\ lastIncludeTerm = [n \in Server |-> fresh.lastIncludeTerm]
  /\ commitIndex = [n \in Server |-> 0]
  /\ lastApplied = [n \in Server |-> 0]
  /\ nextIndex = [n \in Server |-> [p \in Server |-> 0]]
  /\ matchIndex = [n \in Server |-> [p \in Server |-> 0]]
  /\ raftstate = [n \in Server |-> fresh]
  /\ snapshot = [n \in Server |-> NoSnapshot]
  /\ sending = [n \in Server |-> {}]
  /\ applyCh = [n \in Server |-> {}]
  /\ requests = {}
  /\ replies = {}
  /\ ballots = {}
  /\ cleared = {}
=============================================================================
