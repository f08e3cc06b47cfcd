------------------------------ MODULE Cluster ------------------------------
(***************************************************************************)
(* A cluster of Raft peers under the service and the tester of             *)
(* src/src/raft/config.go: every peer's applyCh is read by an applierSnap  *)
(* goroutine, which compares what the peers apply and asks for snapshots,  *)
(* clients call Start, and servers crash and restart from what their       *)
(* persister holds.                                                        *)
(***************************************************************************)
EXTENDS Raft

CONSTANT SnapShotInterval   \* a snapshot is taken at every index i with (i + 1) % it = 0

ASSUME SnapShotIntervalAssumption == SnapShotInterval \in Nat \ {0}

VARIABLES
  logs,       \* config.logs: what the service of each server has applied, by index
  applied,    \* lastApplied of each server's applierSnap
  snapCall,   \* the Snapshot call applierSnap is in, at most one per server
  failure     \* why the process died: log.Fatalf of the tester or a panic

serviceVars == <<logs, applied, snapCall, failure>>
vars == <<raftVars, serviceVars>>

NoFailure == "none"
OutOfOrder == "apply out of order"
Mismatch == "commit mismatch"
OutOfRange == "index out of range"

-----------------------------------------------------------------------------
(* The service.                                                            *)

\* CondInstallSnapshot agrees to every snapshot.
CondInstallSnapshot == TRUE

InstallAtService(n, msg) ==
  /\ msg.type = "snapshot"
  /\ logs' = IF CondInstallSnapshot
             THEN [logs EXCEPT ![n] = [i \in {msg.Index} |-> msg.Data.Command]]
             ELSE logs
  /\ applied' = IF CondInstallSnapshot THEN [applied EXCEPT ![n] = msg.Index] ELSE applied
  /\ UNCHANGED <<snapCall, failure>>

\* Some server has applied another command at this index.
Disagrees(msg) ==
  \E p \in Server : msg.Index \in DOMAIN logs[p] /\ logs[p][msg.Index] # msg.Command

checkLogs(n, msg) ==
  /\ logs' = [logs EXCEPT ![n] =
       [i \in DOMAIN @ \cup {msg.Index} |-> IF i = msg.Index THEN msg.Command ELSE @[i]]]
  /\ failure' = CASE msg.Index > 1 /\ msg.Index - 1 \notin DOMAIN logs[n] -> OutOfOrder
                  [] ~(msg.Index > 1 /\ msg.Index - 1 \notin DOMAIN logs[n]) /\ Disagrees(msg)
                       -> Mismatch
                  [] OTHER -> NoFailure

\* A new command is checked against the other servers, and every
\* SnapShotInterval-th one starts a call of Snapshot.
ApplyAtService(n, msg) ==
  /\ msg.type = "command" /\ msg.Index > applied[n]
  /\ checkLogs(n, msg)
  /\ applied' = [applied EXCEPT ![n] = msg.Index]
  /\ snapCall' = [snapCall EXCEPT ![n] =
       IF (msg.Index + 1) % SnapShotInterval = 0 /\ failure' = NoFailure
       THEN {[Command |-> msg.Command, Index |-> msg.Index]}
       ELSE {}]

IgnoreAtService(n, msg) ==
  /\ msg.type = "command" /\ msg.Index <= applied[n]
  /\ UNCHANGED serviceVars

\* applierSnap takes a message off applyCh; not while it is inside Snapshot.
applierSnap(n) ==
  /\ snapCall[n] = {}
  /\ \E msg \in applyCh[n] :
       /\ Received(n, msg)
       /\ InstallAtService(n, msg) \/ ApplyAtService(n, msg) \/ IgnoreAtService(n, msg)

\* The call of Snapshot gets rf.mu, some time after the command was applied.
SnapshotCall(n) ==
  \E data \in snapCall[n] :
    /\ snapCall' = [snapCall EXCEPT ![n] = {}]
    /\ UNCHANGED <<logs, applied>>
    /\ \/ Snapshot(n, data.Index, data) /\ UNCHANGED failure
       \/ SnapshotPanics(n, data.Index) /\ failure' = OutOfRange

-----------------------------------------------------------------------------
(* Crashes.                                                                *)

\* crash1 and start1: the peer and its applierSnap start anew, config.logs stays.
Restarted(n) ==
  /\ applied' = [applied EXCEPT ![n] = 0]
  /\ snapCall' = [snapCall EXCEPT ![n] = {}]
  /\ UNCHANGED <<logs, failure>>

Restart(n) ==
  /\ Make(n, raftstate[n], {})
  /\ Restarted(n)
  /\ UNCHANGED cleared

\* What RequestVote and InstallSnapShot persist first, before they persist
\* the vote or the snapshot: the new term without a vote.
FirstPersist(m) ==
  [raftstate[m.to] EXCEPT !.currentTerm = m.Term, !.votedFor = None]

\* The persister is copied without rf.mu, so between two persists of one handler.
RestartInRequestVote(m) ==
  /\ m.Term > currentTerm[m.to] /\ UpToDate(m, m.to)
  /\ Make(m.to, FirstPersist(m), {m})
  /\ Restarted(m.to)
  /\ UNCHANGED cleared

RestartInInstallSnapShot(m) ==
  /\ m.Term >= currentTerm[m.to] /\ m.LastIncludeIndex > lastIncludeIndex[m.to]
  /\ Make(m.to, FirstPersist(m), {m})
  /\ Restarted(m.to)
  /\ cleared' = IF m.Term = currentTerm[m.to] THEN cleared \cup {<<m.to, m.Term>>} ELSE cleared

-----------------------------------------------------------------------------
(* The cluster.  log.Fatalf and a panic end the process, and every server. *)

Running == failure = NoFailure

\* A step of one peer that its service takes no part in.
PeerOnly == Running /\ UNCHANGED serviceVars

\* Handlers and returning calls.
RequestVoteCall == PeerOnly /\ \E m \in requests : m.type = "RequestVote" /\ RequestVote(m)

AppendEntriesCall ==
  PeerOnly /\ \E m \in requests : m.type = "AppendEntries" /\ AppendEntries(m)

InstallSnapShotCall ==
  PeerOnly /\ \E m \in requests : m.type = "InstallSnapShot" /\ InstallSnapShot(m)

RequestVoteReturn ==
  PeerOnly /\ \E m \in replies : m.type = "RequestVoteReply" /\ candidateRequestVote(m)

AppendEntriesReturn ==
  PeerOnly /\ \E m \in replies : m.type = "AppendEntriesReply" /\ leaderSendEntries(m)

InstallSnapShotReturn ==
  PeerOnly /\ \E m \in replies : m.type = "InstallSnapShotReply" /\ SnapshotReply(m)

SendSnapShot == PeerOnly /\ \E n, p \in Server : leaderSendSnapShot(n, p)

Apply == PeerOnly /\ \E n \in Server : applier(n)

ServiceReceives == Running /\ \E n \in Server : applierSnap(n)

ServiceSnapshots == Running /\ \E n \in Server : SnapshotCall(n)

\* The environment: timers, clients and crashes.
Tick(n) == PeerOnly /\ Heartbeat(n)

Timeout(n) == PeerOnly /\ leaderElection(n)

ClientStart(n, command) == PeerOnly /\ Start(n, command)

Crash(n) == Running /\ Restart(n)

CrashInHandler(m) ==
  /\ Running
  /\ \/ m.type = "RequestVote" /\ RestartInRequestVote(m)
     \/ m.type = "InstallSnapShot" /\ RestartInInstallSnapShot(m)

Init ==
  /\ RaftInit
  /\ logs = [n \in Server |-> [i \in {} |-> NoCommand]]
  /\ applied = [n \in Server |-> 0]
  /\ snapCall = [n \in Server |-> {}]
  /\ failure = NoFailure

Next ==
  \/ RequestVoteCall \/ AppendEntriesCall \/ InstallSnapShotCall
  \/ RequestVoteReturn \/ AppendEntriesReturn \/ InstallSnapShotReturn
  \/ SendSnapShot \/ Apply \/ ServiceReceives \/ ServiceSnapshots
  \/ \E n \in Server : Tick(n)
  \/ \E n \in Server : Timeout(n)
  \/ \E n \in Server, command \in Command : ClientStart(n, command)
  \/ \E n \in Server : Crash(n)
  \/ \E m \in requests : CrashInHandler(m)

Spec == Init /\ [][Next]_vars

-----------------------------------------------------------------------------
(* Types.                                                                  *)

StableState ==
  [currentTerm : Nat, votedFor : Server \cup {None}, log : Seq(Entry),
   lastIncludeIndex : Nat, lastIncludeTerm : Nat]

RequestVoteMessage ==
  [type : {"RequestVote"}, from : Server, to : Server, open : BOOLEAN, Term : Nat,
   LastLogIndex : Nat, LastLogTerm : Nat]

AppendEntriesMessage ==
  [type : {"AppendEntries"}, from : Server, to : Server, open : BOOLEAN, Term : Nat,
   PrevLogIndex : Nat, PrevLogTerm : Nat, Entries : Seq(Entry), LeaderCommit : Nat]

InstallSnapShotMessage ==
  [type : {"InstallSnapShot"}, from : Server, to : Server, open : BOOLEAN, Term : Nat,
   LastIncludeIndex : Nat, LastIncludeTerm : Nat, Data : SnapshotData]

RequestVoteReplyMessage ==
  [type : {"RequestVoteReply"}, from : Server, to : Server, argsTerm : Nat,
   Term : Nat, VoteGranted : BOOLEAN]

\* XIndex -1 only comes with XTerm -1, where nobody reads it.
AppendEntriesReplyMessage ==
  {m \in [type : {"AppendEntriesReply"}, from : Server, to : Server, argsTerm : Nat,
          match : Nat, Term : Nat, Success : BOOLEAN, Conflict : BOOLEAN,
          XTerm : Nat \cup {-1}, XIndex : Nat \cup {-1}, XLen : Nat] :
     m.XTerm # -1 => m.XIndex # -1}

InstallSnapShotReplyMessage ==
  [type : {"InstallSnapShotReply"}, from : Server, to : Server, argsTerm : Nat,
   LastIncludeIndex : Nat, Term : Nat]

CommandMessage ==
  [type : {"command"}, Index : Nat, Command : Command \cup {NoCommand}]

SnapshotMessage ==
  [type : {"snapshot"}, Index : Nat, Term : Nat, Data : SnapshotData,
   reply : SUBSET InstallSnapShotReplyMessage]

LocalTypeOK ==
  /\ state \in [Server -> {Follower, Candidate, Leader}]
  /\ currentTerm \in [Server -> Nat]
  /\ votedFor \in [Server -> Server \cup {None}]
  /\ voteCounter \in [Server -> Nat]
  /\ lastIncludeIndex \in [Server -> Nat]
  /\ lastIncludeTerm \in [Server -> Nat]
  /\ commitIndex \in [Server -> Nat]
  /\ lastApplied \in [Server -> Nat]
  /\ nextIndex \in [Server -> [Server -> Nat]]
  /\ matchIndex \in [Server -> [Server -> Nat]]
  /\ sending \in [Server -> SUBSET Server]

LogTypeOK ==
  /\ log \in [Server -> Seq(Entry)]
  /\ \A n \in Server : Len(log[n]) > 0

StableTypeOK ==
  /\ raftstate \in [Server -> StableState]
  /\ snapshot \in [Server -> SnapshotData]

MessageTypeOK ==
  /\ requests \subseteq RequestVoteMessage \cup AppendEntriesMessage \cup InstallSnapShotMessage
  /\ replies \subseteq RequestVoteReplyMessage \cup AppendEntriesReplyMessage
                       \cup InstallSnapShotReplyMessage
  /\ applyCh \in [Server -> SUBSET (CommandMessage \cup SnapshotMessage)]

HistoryTypeOK ==
  /\ ballots \subseteq Server \X Nat \X Server
  /\ cleared \subseteq Server \X Nat

ServiceTypeOK ==
  /\ DOMAIN logs = Server
  /\ \A n \in Server : DOMAIN logs[n] \subseteq Nat
  /\ applied \in [Server -> Nat]
  /\ snapCall \in [Server -> SUBSET SnapshotData]
  /\ failure \in {NoFailure, OutOfOrder, Mismatch, OutOfRange}

\* Every variable has its type; in particular no log is ever empty and no
\* nextIndex, PrevLogIndex or XIndex that is used as an index is negative.
TypeOK ==
  /\ LocalTypeOK /\ LogTypeOK /\ StableTypeOK
  /\ MessageTypeOK /\ HistoryTypeOK /\ ServiceTypeOK

-----------------------------------------------------------------------------
(* Safety.                                                                 *)

\* What a server would read back after a crash at this moment is the state
\* it acts on: every critical section that changes the term, the vote, the
\* log or the snapshot's place persists before it gives up rf.mu.
StableStateCurrent == \A n \in Server : raftstate[n] = RaftState(n)

LogIndexes ==
  \A n \in Server :
    /\ log[n][1].Index = 0
    /\ \A i \in 2..Len(log[n]) : log[n][i].Index = lastIncludeIndex[n] + i - 1

EntryIndexes ==
  \A m \in requests : m.type = "AppendEntries" =>
    \A i \in 1..Len(m.Entries) : m.Entries[i].Index = m.PrevLogIndex + i

\* After any sequence of appends, truncations and compactions, the entry at
\* position i of a log carries index lastIncludeIndex + i, and the entries
\* in flight continue their PrevLogIndex: the arithmetic of restoreLog never
\* reads another entry than the one it is asked for.
LogPositions == LogIndexes /\ EntryIndexes

SnapshotIndexes ==
  \A n \in Server :
    snapshot[n].Index = lastIncludeIndex[n] /\ lastIncludeIndex[n] <= lastApplied[n]

DataIndexes ==
  /\ \A m \in requests : m.type = "InstallSnapShot" => m.Data.Index = m.LastIncludeIndex
  /\ \A n \in Server : \A msg \in applyCh[n] :
       msg.type = "snapshot" => msg.Data.Index = msg.Index

\* lastIncludeIndex and the snapshot bytes stay in step: in the persister, in
\* an InstallSnapShot in flight, whose two halves leaderSendSnapShot reads
\* one after the other, and on the way to the service.  A peer counts what
\* its snapshot covers as applied.
SnapshotInSync == SnapshotIndexes /\ DataIndexes

\* No step lowers a server's term: not a late reply, not a restart, not a
\* crash between two persists of one handler.
TermNeverDecreases == [][\A n \in Server : currentTerm'[n] >= currentTerm[n]]_vars

\* A server votes for two candidates of one term only if InstallSnapShot or
\* a reply to it made it forget its vote in that term.
VoteOnceUnlessCleared ==
  \A b, c \in ballots :
    b[1] = c[1] /\ b[2] = c[2] /\ b[3] # c[3] => <<b[1], b[2]>> \in cleared

\* A vote that is on its way to a candidate is in the voter's persister, or
\* the voter has moved on to a later term, or it was made to forget it.
VoteReplyDurable ==
  \A m \in replies : m.type = "RequestVoteReply" /\ m.VoteGranted =>
    \/ raftstate[m.from].currentTerm > m.Term
    \/ raftstate[m.from].currentTerm = m.Term /\ raftstate[m.from].votedFor = m.to
    \/ <<m.from, m.Term>> \in cleared

\* A leader was voted for in its term by a majority of distinct servers: the
\* code counts replies, so this needs every vote to be counted once and
\* votes of earlier elections not at all.
LeaderHasMajority ==
  \A n \in Server : state[n] = Leader =>
    IsMajority(Cardinality({p \in Server : <<p, currentTerm[n], n>> \in ballots}))

\* Two leaders share a term only if some server forgot its vote in it.
ElectionSafetyUnlessVoteCleared ==
  \A n, p \in Server :
    state[n] = Leader /\ state[p] = Leader /\ currentTerm[n] = currentTerm[p] /\ n # p
      => \E q \in Server : <<q, currentTerm[n]>> \in cleared

\* A leader never drops or rewrites an entry of its own log while it leads,
\* unless a vote of its term was forgotten: only its own compaction shortens
\* the log, from the front.
LeaderAppendOnlyUnlessVoteCleared ==
  [][\A n \in Server :
       state[n] = Leader /\ state'[n] = Leader /\ currentTerm'[n] = currentTerm[n]
       /\ (\A q \in Server : <<q, currentTerm[n]>> \notin cleared)
       => /\ getLastIndex(n)' >= getLastIndex(n)
          /\ \A i \in (lastIncludeIndex'[n] + 1)..getLastIndex(n) :
               restoreLog(n, i)' = restoreLog(n, i)]_vars

\* Entries with one index and one term agree, and so does all that precedes
\* them above both snapshots, unless a vote was forgotten in their term or
\* before: AppendEntries leaves a follower with a copy of its leader's log,
\* whatever it overwrites and in whatever order the requests arrive.  It
\* takes that InstallSnapShot keeps no entries above a snapshot that
\* contradicts the log below them (LogProofs).
LogMatchingUnlessVoteCleared ==
  \A n, p \in Server :
    LET first == AtLeast(lastIncludeIndex[n], lastIncludeIndex[p]) + 1
        last == AtMost(getLastIndex(n), getLastIndex(p))
    IN  \A i \in first..last :
          /\ restoreLogTerm(n, i) = restoreLogTerm(p, i)
          /\ \A c \in cleared : c[2] > restoreLogTerm(n, i)
          => \A j \in first..i : restoreLog(n, j) = restoreLog(p, j)

\* The service of n lacks the index at which its peer's snapshot ends, or one
\* index is all it has, as after a snapshot that it has just taken.
LagsSnapshot(n) ==
  /\ lastIncludeIndex[n] > 0
  /\ lastIncludeIndex[n] \notin DOMAIN logs[n] \/ DOMAIN logs[n] = {applied[n]}

\* The tester's applierSnap meets an index before the one that precedes it
\* only while its peer's snapshot has not reached it, because a command has
\* overtaken it on applyCh or a crash has lost it, or has just set it back:
\* through every other interleaving of the applier, InstallSnapShot, Snapshot
\* and restarts the commands arrive in order and none is left out.
GapsOnlyBehindSnapshot ==
  [][failure' = OutOfOrder =>
       \A n \in Server : applied'[n] # applied[n] => LagsSnapshot(n)]_vars

-----------------------------------------------------------------------------
(* What the documentation says of the program.                             *)

\* The tester's applierSnap sees every index in order: it never meets index
\* i > 1 before i - 1, across restarts.
NoGapInApply == failure # OutOfOrder

\* At most one leader per term.
ElectionSafety ==
  \A n, p \in Server :
    state[n] = Leader /\ state[p] = Leader /\ currentTerm[n] = currentTerm[p] => n = p

\* A leader only commits, by counting replicas, an entry of its own term.
CommitsOwnTermOnly ==
  [][\A n \in Server :
       state[n] = Leader /\ commitIndex'[n] > commitIndex[n]
       => restoreLogTerm(n, commitIndex'[n]) = currentTerm[n]]_vars

\* The LastIncludeTerm of a snapshot is the term of the last entry it covers:
\* two servers whose snapshots end at one index agree on it, and a leader's
\* AppendEntries can go on where the follower's snapshot ends.
SnapshotTermsAgree ==
  \A n, p \in Server :
    lastIncludeIndex[n] = lastIncludeIndex[p] => lastIncludeTerm[n] = lastIncludeTerm[p]

\* Two services never apply different commands at one index.
StateMachineSafety == failure # Mismatch

\* A leader of the latest term has every index that some service has applied.
LeaderCompleteness ==
  \A n \in Server : state[n] = Leader /\ (\A p \in Server : currentTerm[p] <= currentTerm[n])
    => \A p \in Server : \A i \in DOMAIN logs[p] : i <= getLastIndex(n)
=============================================================================
