------------------------------ MODULE CatchUp ------------------------------
(***************************************************************************)
(* What a stable leader does for its followers: from whatever logs and     *)
(* snapshots a restart of the whole cluster finds on disk, over a network  *)
(* that loses messages, the heartbeats have to bring every follower that   *)
(* can be reached to the leader's log, and the services to its end.        *)
(* Elections are over: the leader has just won one, and from now on no     *)
(* timer expires and nobody crashes.                                       *)
(*                                                                         *)
(* Server is half of the cluster and one more: those left out voted for    *)
(* the leader, come after the others in rf.peers and cannot be reached.    *)
(***************************************************************************)
EXTENDS Cluster

CONSTANTS
  TheLeader,     \* the server that has just been elected
  OldTerms,      \* terms of the entries on disk: 1..OldTerms
  MaxIndex,      \* bound: no log grows beyond it
  MaxInFlight,   \* bound: messages in flight when the leader sends
  MaxLosses      \* bound: messages that are lost

ASSUME TheLeaderAssumption == TheLeader \in Server

Follows == Server \ {TheLeader}

VARIABLE losses

catchUpVars == <<vars, losses>>

-----------------------------------------------------------------------------
(* What may be on disk: the terms of a log, and how much of it is snapshot.*)

Compacted(terms) ==
  {0} \cup {i \in 1..Len(terms) : (i + 1) % SnapShotInterval = 0}

Terms ==
  {terms \in UNION {[1..k -> 1..OldTerms] : k \in 0..MaxIndex} :
     \A i, j \in DOMAIN terms : i < j => terms[i] <= terms[j]}

Disk == UNION {[terms : {terms}, include : Compacted(terms)] : terms \in Terms}

\* One leader per term has extended one log, and a snapshot covers what is
\* committed, so that a later leader has it.
Consistent(leader, follower) ==
  /\ \A i \in DOMAIN leader.terms, j \in DOMAIN follower.terms :
       leader.terms[i] = follower.terms[j]
       => \A k \in 1..AtMost(i, j) : leader.terms[k] = follower.terms[k]
  /\ follower.include <= Len(leader.terms)
  /\ \A k \in 1..follower.include : leader.terms[k] = follower.terms[k]

\* Clients gave one command per term.
LogOf(d) ==
  <<EmptyEntry>> \o
  [k \in 1..(Len(d.terms) - d.include) |->
     [Command |-> d.terms[d.include + k], Term |-> d.terms[d.include + k],
      Index |-> d.include + k]]

IncludeTermOf(d) == IF d.include = 0 THEN 0 ELSE d.terms[d.include]

SnapshotOf(d) ==
  IF d.include = 0 THEN NoSnapshot
  ELSE [Command |-> d.terms[d.include], Index |-> d.include]

\* All servers have restarted from disk, and the others have elected the leader.
InitFrom(disk, term) ==
  /\ state = [n \in Server |-> IF n = TheLeader THEN Leader ELSE Follower]
  /\ currentTerm = term
  /\ votedFor = [n \in Server |-> IF n = TheLeader THEN n ELSE None]
  /\ voteCounter = [n \in Server |-> IF n = TheLeader THEN 2 ELSE 0]
  /\ log = [n \in Server |-> LogOf(disk[n])]
  /\ lastIncludeIndex = [n \in Server |-> disk[n].include]
  /\ lastIncludeTerm = [n \in Server |-> IncludeTermOf(disk[n])]
  /\ commitIndex = [n \in Server |-> 0]
  /\ lastApplied = lastIncludeIndex
  /\ nextIndex = [n \in Server |-> [p \in Server |->
       IF n = TheLeader THEN lastLog(n).Index + 1 ELSE 0]]
  /\ matchIndex = [n \in Server |-> [p \in Server |->
       IF n = TheLeader /\ p = n THEN lastLog(n).Index ELSE 0]]
  /\ raftstate = [n \in Server |-> RaftState(n)]
  /\ snapshot = [n \in Server |-> SnapshotOf(disk[n])]
  /\ sending = [n \in Server |-> {}]
  /\ applyCh = [n \in Server |-> {}]
  /\ requests = {} /\ replies = {}
  /\ ballots = {} /\ cleared = {}
  /\ logs = [n \in Server |-> [i \in 1..disk[n].include |-> disk[n].terms[i]]]
  /\ applied = [n \in Server |-> 0]
  /\ snapCall = [n \in Server |-> {}]
  /\ failure = NoFailure
  /\ losses = 0

CatchUpInit ==
  \E leader \in Disk, follower \in [Follows -> Disk] :
    /\ \A p \in Follows : Consistent(leader, follower[p])
    /\ InitFrom([n \in Server |-> IF n = TheLeader THEN leader ELSE follower[n]],
                [n \in Server |-> IF n = TheLeader THEN OldTerms + 1 ELSE OldTerms])

-----------------------------------------------------------------------------
(* Steps.                                                                  *)

Step == PeerOnly /\ UNCHANGED losses

Uncrowded == Cardinality(requests \cup replies) < MaxInFlight

LeaderTicks == Step /\ Uncrowded /\ Heartbeat(TheLeader)

LeaderStarts ==
  /\ Step /\ Uncrowded
  /\ getLastIndex(TheLeader) < MaxIndex
  /\ \E command \in Command : Start(TheLeader, command)

LeaderSends(p) == Step /\ leaderSendSnapShot(TheLeader, p)

AppendArrives(p) ==
  Step /\ \E m \in requests : m.type = "AppendEntries" /\ m.to = p /\ AppendEntries(m)

SnapshotArrives(p) ==
  Step /\ \E m \in requests : m.type = "InstallSnapShot" /\ m.to = p /\ InstallSnapShot(m)

AppendReplyArrives(p) ==
  Step /\ \E m \in replies : m.type = "AppendEntriesReply" /\ m.from = p /\ leaderSendEntries(m)

SnapshotReplyArrives(p) ==
  Step /\ \E m \in replies : m.type = "InstallSnapShotReply" /\ m.from = p /\ SnapshotReply(m)

Lose ==
  /\ PeerOnly
  /\ losses < MaxLosses
  /\ losses' = losses + 1
  /\ \/ \E m \in requests : requests' = requests \ {m} /\ UNCHANGED replies
     \/ \E m \in replies : replies' = replies \ {m} /\ UNCHANGED requests
  /\ UNCHANGED <<electionVars, logVars, applyVars, leaderVars, stableVars, historyVars>>

Applies(n) == Step /\ applier(n)

ServiceTakes(n) == Running /\ applierSnap(n) /\ UNCHANGED losses

ServiceCalls(n) == Running /\ SnapshotCall(n) /\ UNCHANGED losses

CatchUpNext ==
  \/ LeaderTicks \/ LeaderStarts \/ Lose
  \/ \E p \in Server : LeaderSends(p)
  \/ \E p \in Follows : AppendArrives(p) \/ SnapshotArrives(p)
                     \/ AppendReplyArrives(p) \/ SnapshotReplyArrives(p)
  \/ \E n \in Server : Applies(n) \/ ServiceTakes(n) \/ ServiceCalls(n)

\* ticker wakes up for ever, a message that is not lost arrives, and
\* goroutines that can go on do.
Fairness ==
  /\ WF_catchUpVars(LeaderTicks)
  /\ \A p \in Server : WF_catchUpVars(LeaderSends(p))
  /\ \A p \in Follows :
       /\ WF_catchUpVars(AppendArrives(p)) /\ WF_catchUpVars(SnapshotArrives(p))
       /\ WF_catchUpVars(AppendReplyArrives(p)) /\ WF_catchUpVars(SnapshotReplyArrives(p))
  /\ \A n \in Server :
       /\ WF_catchUpVars(Applies(n))
       /\ WF_catchUpVars(ServiceTakes(n)) /\ WF_catchUpVars(ServiceCalls(n))

CatchUpSpec == CatchUpInit /\ [][CatchUpNext]_catchUpVars /\ Fairness

-----------------------------------------------------------------------------
(* Properties.                                                             *)

SameLog(p) ==
  /\ getLastIndex(p) = getLastIndex(TheLeader)
  /\ \A i \in (AtLeast(lastIncludeIndex[p], lastIncludeIndex[TheLeader]) + 1)..getLastIndex(p) :
       restoreLog(p, i) = restoreLog(TheLeader, i)

AllApplied(n) ==
  commitIndex[n] = getLastIndex(TheLeader) /\ lastApplied[n] = getLastIndex(TheLeader)

CaughtUp(p) == SameLog(p) /\ AllApplied(p) /\ AllApplied(TheLeader)

\* Every connected follower ends up with the leader's log, committed and
\* applied, unless the tester has ended the process; and unless the follower
\* starts with a snapshot that reaches further than the leader's.
CatchesUpUnlessAhead ==
  \A p \in Follows :
    lastIncludeIndex[p] <= lastIncludeIndex[TheLeader] => <>[](CaughtUp(p) \/ ~Running)

-----------------------------------------------------------------------------
(* What the documentation says of the program.                             *)

\* After every refusal the leader sends an earlier entry, until it has found
\* the first one the follower lacks.
CatchesUp == \A p \in Follows : <>[](CaughtUp(p) \/ ~Running)
=============================================================================
