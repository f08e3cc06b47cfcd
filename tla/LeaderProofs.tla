---------------------------- MODULE LeaderProofs ----------------------------
(***************************************************************************)
(* A leader's log only grows.  AppendEntries does not look at whether its  *)
(* receiver leads the term of the request, so this needs the elections:    *)
(* whoever sent the request had a majority in that term, the receiver has  *)
(* one too, and by ElectionProofs both exist only if a vote was forgotten. *)
(***************************************************************************)
EXTENDS ElectionProofs

AppendRequests == {m \in requests : m.type = "AppendEntries"}

FromLeader(m) ==
  m.from \in Server /\ m.from # m.to /\ IsMajority(Cardinality(Voters(m.from, m.Term)))

AppendsFromLeaders == \A m \in AppendRequests : FromLeader(m)

\* A request of the next state that was under way, whatever became of its caller.
UnderWay(r) ==
  \E m \in AppendRequests : r.from = m.from /\ r.to = m.to /\ r.Term = m.Term

\* A request of the next state that a leader sends in this step, before or
\* after what else the step does.
SentByLeader(r) ==
  /\ r.from \in Server /\ r.from # r.to
  /\ \/ state[r.from] = Leader /\ r.Term = currentTerm[r.from]
     \/ state'[r.from] = Leader /\ r.Term = currentTerm'[r.from]

-----------------------------------------------------------------------------
(* Who sends AppendEntries.                                                *)

\* No step takes a ballot back.
LEMMA BallotsGrow == [Next]_vars => ballots \subseteq ballots'
<1> SUFFICES ASSUME [Next]_vars PROVE ballots \subseteq ballots'
  OBVIOUS
<1>1. CASE RequestVoteCall
  BY <1>1 DEF RequestVoteCall, RequestVote, RequestVoteStale, RequestVoteCurrent, historyVars
<1>2. CASE AppendEntriesCall
  BY <1>2 DEF AppendEntriesCall, AppendEntries, AppendNewerTerm, AppendStale,
     AppendBehindSnapshot, AppendMissing, AppendConflict, AppendAccept, CurrentLeaderHeard,
     historyVars
<1>3. CASE InstallSnapShotCall
  BY <1>3 DEF InstallSnapShotCall, InstallSnapShot, InstallStale, InstallOld, InstallNew,
     SnapshotHeard, historyVars
<1>4. CASE RequestVoteReturn
  BY <1>4 DEF RequestVoteReturn, candidateRequestVote, VoteNewerTerm, VoteIgnored, VoteCounted,
     BecomeLeader, historyVars
<1>5. CASE AppendEntriesReturn
  BY <1>5 DEF AppendEntriesReturn, leaderSendEntries, AppendReplyNewerTerm, AppendReplyStale,
     AppendReplyCurrent, historyVars
<1>6. CASE InstallSnapShotReturn
  BY <1>6 DEF InstallSnapShotReturn, SnapshotReply, SnapshotReplyStale,
     SnapshotReplyNewerTerm, SnapshotReplyCurrent, historyVars
<1>7. CASE SendSnapShot \/ Apply \/ ServiceReceives \/ ServiceSnapshots
  BY <1>7 DEF SendSnapShot, leaderSendSnapShot, Apply, applier, ServiceReceives, applierSnap,
     Received, ServiceSnapshots, SnapshotCall, Snapshot, SnapshotIgnored, SnapshotPanics,
     SnapshotTaken, raftVars, historyVars
<1>8. ASSUME NEW n \in Server, Tick(n) PROVE ballots \subseteq ballots'
  BY <1>8 DEF Tick, Heartbeat, historyVars
<1>9. ASSUME NEW n \in Server, Timeout(n) PROVE ballots \subseteq ballots'
  BY <1>9 DEF Timeout, leaderElection
<1>10. ASSUME NEW n \in Server, NEW command \in Command, ClientStart(n, command)
       PROVE  ballots \subseteq ballots'
  BY <1>10 DEF ClientStart, Start, historyVars
<1>11. ASSUME NEW n \in Server, Crash(n) PROVE ballots \subseteq ballots'
  BY <1>11 DEF Crash, Restart, Make
<1>12. ASSUME NEW m \in requests, CrashInHandler(m) PROVE ballots \subseteq ballots'
  BY <1>12 DEF CrashInHandler, RestartInRequestVote, RestartInInstallSnapShot, Make
<1>13. CASE UNCHANGED vars
  BY <1>13 DEF vars, raftVars, historyVars
<1> QED
  BY <1>1, <1>2, <1>3, <1>4, <1>5, <1>6, <1>7, <1>8, <1>9, <1>10, <1>11, <1>12, <1>13 DEF Next

\* Where nothing is sent, every request was under way.
LEMMA NothingSent ==
  ASSUME \A r \in requests' : r \in requests \/ r.type # "AppendEntries"
  PROVE  \A r \in AppendRequests' : UnderWay(r)
BY DEF AppendRequests, UnderWay

\* appendEntries by a leader of the state the step leaves behind.
LEMMA SentAfter ==
  ASSUME NEW n \in Server, NEW heartbeat, appendEntries(n, heartbeat), state'[n] = Leader
  PROVE  \A r \in AppendRequests' : UnderWay(r) \/ SentByLeader(r)
<1>1. \A r \in EntriesToSend(n, heartbeat)' :
        r.from = n /\ r.to \in Server \ {n} /\ r.Term = currentTerm'[n]
  BY DEF EntriesToSend, AppendEntriesArgs, Visited
<1> SUFFICES ASSUME NEW r \in AppendRequests' PROVE UnderWay(r) \/ SentByLeader(r)
  OBVIOUS
<1>2. r \in requests \/ r \in EntriesToSend(n, heartbeat)'
  BY DEF AppendRequests, appendEntries
<1>3. CASE r \in requests
  BY <1>3 DEF AppendRequests, UnderWay
<1>4. CASE r \in EntriesToSend(n, heartbeat)'
  BY <1>1, <1>4 DEF SentByLeader
<1> QED
  BY <1>2, <1>3, <1>4

\* A leader whose timer has expired sends its heartbeats before it campaigns.
LEMMA SentBefore ==
  ASSUME NEW n \in Server, leaderElection(n)
  PROVE  \A r \in AppendRequests' : UnderWay(r) \/ SentByLeader(r)
<1>1. \A r \in EntriesToSend(n, TRUE) :
        r.from = n /\ r.to \in Server \ {n} /\ r.Term = currentTerm[n]
  BY DEF EntriesToSend, AppendEntriesArgs, Visited
<1>2. \A r \in {RequestVoteArgs(n, p)' : p \in Server \ {n}} : r.type = "RequestVote"
  BY DEF RequestVoteArgs
<1> SUFFICES ASSUME NEW r \in AppendRequests' PROVE UnderWay(r) \/ SentByLeader(r)
  OBVIOUS
<1>3. \/ r \in requests
      \/ state[n] = Leader /\ r \in EntriesToSend(n, TRUE)
      \/ r \in {RequestVoteArgs(n, p)' : p \in Server \ {n}}
  BY DEF AppendRequests, leaderElection
<1>4. CASE r \in requests
  BY <1>4 DEF AppendRequests, UnderWay
<1>5. CASE state[n] = Leader /\ r \in EntriesToSend(n, TRUE)
  BY <1>1, <1>5 DEF SentByLeader
<1>6. r.type = "AppendEntries"
  BY DEF AppendRequests
<1> QED
  BY <1>2, <1>3, <1>4, <1>5, <1>6

\* A crash leaves the requests of the server under way.
LEMMA SentByCrashed ==
  ASSUME NetInv, NEW n, NEW lost, Disconnected(n, lost)
  PROVE  \A r \in AppendRequests' : UnderWay(r)
<1> SUFFICES ASSUME NEW r \in AppendRequests' PROVE UnderWay(r)
  OBVIOUS
<1>1. PICK m \in requests : r = IF m.from = n THEN [m EXCEPT !.open = FALSE] ELSE m
  BY DEF AppendRequests, Disconnected
<1>2. GoodRequest(m)
  BY DEF NetInv
<1>3. r.from = m.from /\ r.to = m.to /\ r.Term = m.Term /\ r.type = m.type
  BY <1>1, <1>2 DEF GoodRequest, RequestVoteMessage, AppendEntriesMessage, InstallSnapShotMessage
<1> QED
  BY <1>3 DEF AppendRequests, UnderWay

\* Only leaders send AppendEntries, and never to themselves.
LEMMA AppendsSent ==
  Inv /\ [Next]_vars => \A r \in AppendRequests' : UnderWay(r) \/ SentByLeader(r)
<1> SUFFICES ASSUME Inv, [Next]_vars
             PROVE  \A r \in AppendRequests' : UnderWay(r) \/ SentByLeader(r)
  OBVIOUS
<1> DEFINE Quietly == \A r \in requests' : r \in requests \/ r.type # "AppendEntries"
<1>1. CASE RequestVoteCall
  <2>1. Quietly
    BY <1>1 DEF RequestVoteCall, RequestVote, RequestVoteStale, RequestVoteCurrent, Answer
  <2> QED
    BY <2>1, NothingSent
<1>2. CASE AppendEntriesCall
  <2>1. Quietly
    BY <1>2 DEF AppendEntriesCall, AppendEntries, AppendNewerTerm, AppendStale,
       AppendBehindSnapshot, AppendMissing, AppendConflict, AppendAccept, Answer
  <2> QED
    BY <2>1, NothingSent
<1>3. CASE InstallSnapShotCall
  <2>1. Quietly
    BY <1>3 DEF InstallSnapShotCall, InstallSnapShot, InstallStale, InstallOld, InstallNew, Answer
  <2> QED
    BY <2>1, NothingSent
<1>4. CASE RequestVoteReturn
  <2>1. PICK m \in replies : m.type = "RequestVoteReply" /\ candidateRequestVote(m)
    BY <1>4 DEF RequestVoteReturn
  <2>2. m.to \in Server /\ state \in [Server -> {Follower, Candidate, Leader}]
    BY ReplyFields, InvTypes DEF Inv, RaftInv, NetInv, ElectionTypes
  <2>3. CASE requests' = requests
    BY <2>3, NothingSent
  <2>4. CASE BecomeLeader(m.to, m)
    <3>1. state'[m.to] = Leader /\ appendEntries(m.to, TRUE)
      BY <2>2, <2>4 DEF BecomeLeader
    <3> QED
      BY <2>2, <3>1, SentAfter
  <2> QED
    BY <2>1, <2>3, <2>4 DEF candidateRequestVote, VoteNewerTerm, VoteIgnored, VoteCounted, Consumed
<1>5. CASE AppendEntriesReturn
  <2>1. Quietly
    BY <1>5 DEF AppendEntriesReturn, leaderSendEntries, AppendReplyNewerTerm, AppendReplyStale,
       AppendReplyCurrent, Consumed
  <2> QED
    BY <2>1, NothingSent
<1>6. CASE InstallSnapShotReturn
  <2>1. Quietly
    BY <1>6 DEF InstallSnapShotReturn, SnapshotReply, SnapshotReplyStale,
       SnapshotReplyNewerTerm, SnapshotReplyCurrent, Consumed
  <2> QED
    BY <2>1, NothingSent
<1>7. CASE SendSnapShot
  <2>1. Quietly
    BY <1>7 DEF SendSnapShot, leaderSendSnapShot, InstallSnapshotArgs
  <2> QED
    BY <2>1, NothingSent
<1>8. CASE Apply \/ ServiceReceives \/ ServiceSnapshots
  <2>1. Quietly
    BY <1>8 DEF Apply, applier, ServiceReceives, applierSnap, Received, ServiceSnapshots,
       SnapshotCall, Snapshot, SnapshotIgnored, SnapshotPanics, SnapshotTaken, raftVars, netVars
  <2> QED
    BY <2>1, NothingSent
<1>9. ASSUME NEW n \in Server, Tick(n)
      PROVE  \A r \in AppendRequests' : UnderWay(r) \/ SentByLeader(r)
  BY <1>9, SentAfter DEF Tick, Heartbeat, electionVars
<1>10. ASSUME NEW n \in Server, Timeout(n)
       PROVE  \A r \in AppendRequests' : UnderWay(r) \/ SentByLeader(r)
  BY <1>10, SentBefore DEF Timeout
<1>11. ASSUME NEW n \in Server, NEW command \in Command, ClientStart(n, command)
       PROVE  \A r \in AppendRequests' : UnderWay(r) \/ SentByLeader(r)
  BY <1>11, SentAfter DEF ClientStart, Start, electionVars
<1>12. ASSUME NEW n, NEW stable, NEW lost, Make(n, stable, lost)
       PROVE  \A r \in AppendRequests' : UnderWay(r) \/ SentByLeader(r)
  BY <1>12, SentByCrashed DEF Make, Inv, RaftInv
<1>13. CASE \E n \in Server : Crash(n)
  BY <1>12, <1>13 DEF Crash, Restart
<1>14. CASE \E m \in requests : CrashInHandler(m)
  BY <1>12, <1>14 DEF CrashInHandler, RestartInRequestVote, RestartInInstallSnapShot
<1>15. CASE UNCHANGED vars
  BY <1>15, NothingSent DEF vars, raftVars, netVars
<1> QED
  BY <1>1, <1>2, <1>3, <1>4, <1>5, <1>6, <1>7, <1>8, <1>9, <1>10, <1>11, <1>13, <1>14, <1>15
     DEF Next

\* What a leader has sent keeps the majority that was behind it.
LEMMA SentByLeaders ==
  ASSUME Inv, ElectionInv, AppendsFromLeaders, [Next]_vars
  PROVE  AppendsFromLeaders'
<1>1. ballots \subseteq ballots'
  BY BallotsGrow
<1>2. LeaderHasMajority /\ LeaderHasMajority'
  BY ElectionNext DEF ElectionInv
<1>3. ASSUME NEW p, NEW t, IsMajority(Cardinality(Voters(p, t)))
      PROVE  IsMajority(Cardinality(Voters(p, t)'))
  <2>1. Voters(p, t) \subseteq Voters(p, t)' /\ Voters(p, t)' \subseteq Server
    BY <1>1 DEF Voters
  <2> QED
    BY <1>3, <2>1, VotersFinite, MajorityGrows
<1> SUFFICES ASSUME NEW r \in AppendRequests'
             PROVE  r.from \in Server /\ r.from # r.to
                    /\ IsMajority(Cardinality(Voters(r.from, r.Term)'))
  BY DEF AppendsFromLeaders, FromLeader
<1>4. UnderWay(r) \/ SentByLeader(r)
  BY AppendsSent
<1>5. CASE UnderWay(r)
  <2>1. PICK m \in AppendRequests : r.from = m.from /\ r.to = m.to /\ r.Term = m.Term
    BY <1>5 DEF UnderWay
  <2> QED
    BY <1>3, <2>1 DEF AppendsFromLeaders, FromLeader
<1>6. CASE SentByLeader(r)
  <2>1. CASE state[r.from] = Leader /\ r.Term = currentTerm[r.from]
    <3>1. IsMajority(Cardinality(Voters(r.from, r.Term)))
      BY <1>2, <1>6, <2>1 DEF LeaderHasMajority, Voters, SentByLeader
    <3> QED
      BY <1>3, <1>6, <3>1 DEF SentByLeader
  <2>2. CASE state'[r.from] = Leader /\ r.Term = currentTerm'[r.from]
    BY <1>2, <1>6, <2>2 DEF LeaderHasMajority, Voters, SentByLeader
  <2> QED
    BY <1>6, <2>1, <2>2 DEF SentByLeader
<1> QED
  BY <1>4, <1>5, <1>6

-----------------------------------------------------------------------------
(* How the log of a leader changes.                                        *)

\* The log of n in the next state has everything it had above its snapshot.
OnlyAppended(n) ==
  /\ getLastIndex(n)' >= getLastIndex(n)
  /\ \A i \in (lastIncludeIndex'[n] + 1)..getLastIndex(n) :
       restoreLog(n, i)' = restoreLog(n, i)

\* n accepts an AppendEntries of its own term.
Overruled(n) ==
  \E m \in AppendRequests : m.to = n /\ m.Term = currentTerm[n]

\* A log that stays as it is.
LEMMA LogKept ==
  ASSUME LogOK, NEW n \in Server, log'[n] = log[n], lastIncludeIndex'[n] = lastIncludeIndex[n]
  PROVE  OnlyAppended(n)
<1>1. getLastIndex(n) \in Nat
  BY ReadsInRange DEF ReadsOK
<1> QED
  BY <1>1 DEF OnlyAppended, getLastIndex, restoreLog

\* Start appends one entry.
LEMMA LogExtended ==
  ASSUME LogOK, NEW n \in Server, NEW e,
         log'[n] = Append(log[n], e), lastIncludeIndex'[n] = lastIncludeIndex[n]
  PROVE  OnlyAppended(n)
<1> DEFINE s == log[n]
           base == lastIncludeIndex[n]
<1>1. s \in Seq(Entry) /\ Len(s) \in Nat /\ Len(s) > 0 /\ base \in Nat
  BY LenProperties DEF LogOK, LogTypeOK, LocalTypeOK
<1>2. Len(Append(s, e)) = Len(s) + 1 /\ \A i \in 1..Len(s) : Append(s, e)[i] = s[i]
  BY <1>1
<1>3. /\ getLastIndex(n) = Len(s) - 1 + base
      /\ getLastIndex(n)' = Len(Append(s, e)) - 1 + base
      /\ \A i : restoreLog(n, i) = s[i - base + 1]
      /\ \A i : restoreLog(n, i)' = Append(s, e)[i - base + 1]
  BY DEF getLastIndex, restoreLog
<1> HIDE DEF s, base
<1>4. ASSUME NEW i \in (base + 1)..getLastIndex(n)
      PROVE  restoreLog(n, i)' = restoreLog(n, i)
  <2>1. i - base + 1 \in 1..Len(s)
    BY <1>1, <1>3
  <2> QED
    BY <1>2, <1>3, <2>1
<1>5. getLastIndex(n)' >= getLastIndex(n)
  BY <1>1, <1>2, <1>3
<1> QED
  BY <1>4, <1>5 DEF OnlyAppended, base

\* t is what TruncateTo leaves of a log s that begins after base.
IsTruncation(t, s, base, index) == t = <<EmptyEntry>> \o SubSeq(s, index - base + 2, Len(s))

\* t, whose entries begin after index, has what s has above index.
Continues(t, s, base, index) ==
  \A i \in (index + 1)..(Len(s) - 1 + base) : t[i - index + 1] = s[i - base + 1]

\* Snapshot drops entries from the front; one that lies just beyond the end
\* of the log leaves nothing behind it.
LEMMA TruncatedEntries ==
  ASSUME NEW s \in Seq(Entry), NEW base \in Nat, NEW index \in Nat, Len(s) > 0,
         base < index, index <= Len(s) + base,
         NEW t, IsTruncation(t, s, base, index)
  PROVE  /\ Len(t) - 1 + index >= Len(s) - 1 + base
         /\ Continues(t, s, base, index)
<1> DEFINE k == index - base + 2
           tail == SubSeq(s, k, Len(s))
<1>1. Len(s) \in Nat /\ k \in Nat /\ k > 2 /\ k <= Len(s) + 2
  BY LenProperties
<1>2. \A i \in k..Len(s) : s[i] \in Entry
  BY <1>1, ElementOfSeq
<1>3. /\ tail \in Seq(Entry)
      /\ Len(tail) = IF k <= Len(s) THEN Len(s) - k + 1 ELSE 0
      /\ \A i \in 1..(Len(s) - k + 1) : tail[i] = s[k + i - 1]
  BY <1>1, <1>2, SubSeqProperties
<1> HIDE DEF tail
<1> DEFINE e == <<EmptyEntry>>
           u == e \o tail
<1>4. e \in Seq(Entry) /\ Len(e) = 1
  BY DEF EmptyEntry, Entry
<1>5. t = u
  BY DEF tail, IsTruncation
<1> HIDE DEF e
<1>6. /\ Len(t) = 1 + Len(tail)
      /\ \A i \in 1..(1 + Len(tail)) : t[i] = IF i <= 1 THEN e[i] ELSE tail[i - 1]
  <2>1. /\ Len(u) = Len(e) + Len(tail)
        /\ \A i \in 1..(Len(e) + Len(tail)) :
             u[i] = IF i <= Len(e) THEN e[i] ELSE tail[i - Len(e)]
    BY <1>3, <1>4, ConcatProperties
  <2> HIDE DEF u
  <2>2. /\ Len(u) = 1 + Len(tail)
        /\ \A i \in 1..(1 + Len(tail)) : u[i] = IF i <= 1 THEN e[i] ELSE tail[i - 1]
    BY <1>4, <2>1
  <2> QED
    BY <1>5, <2>2
<1>7. Len(t) - 1 + index >= Len(s) - 1 + base
  BY <1>1, <1>3, <1>6
<1>8. ASSUME NEW i \in (index + 1)..(Len(s) - 1 + base)
      PROVE  t[i - index + 1] = s[i - base + 1]
  <2>1. /\ i - index \in 1..(Len(s) - k + 1) /\ k <= Len(s)
        /\ i - index + 1 \in 1..(1 + Len(tail)) /\ ~(i - index + 1 <= 1)
        /\ (i - index + 1) - 1 = i - index /\ k + (i - index) - 1 = i - base + 1
    BY <1>1, <1>3
  <2>2. t[i - index + 1] = tail[i - index]
    BY <1>6, <2>1
  <2>3. tail[i - index] = s[k + (i - index) - 1]
    BY <1>3, <2>1
  <2> QED
    BY <2>1, <2>2, <2>3
<1> QED
  BY <1>7, <1>8 DEF Continues

LEMMA LogCompacted ==
  ASSUME LogOK, NEW n \in Server, NEW index \in Nat,
         lastIncludeIndex[n] < index, index <= getLastIndex(n) + 1,
         log'[n] = TruncateTo(n, index), lastIncludeIndex'[n] = index
  PROVE  OnlyAppended(n)
<1>1. /\ log[n] \in Seq(Entry) /\ Len(log[n]) \in Nat /\ Len(log[n]) > 0
      /\ lastIncludeIndex[n] \in Nat
  BY LenProperties DEF LogOK, LogTypeOK, LocalTypeOK
<1>2. index <= Len(log[n]) + lastIncludeIndex[n]
  BY <1>1 DEF getLastIndex
<1>3. log'[n] = <<EmptyEntry>> \o SubSeq(log[n], index - lastIncludeIndex[n] + 2, Len(log[n]))
  BY DEF TruncateTo
<1> DEFINE s == log[n]
           base == lastIncludeIndex[n]
           t == log'[n]
<1> HIDE DEF s, base, t
<1>4. /\ Len(t) - 1 + index >= Len(s) - 1 + base
      /\ Continues(t, s, base, index)
  <2>1. /\ s \in Seq(Entry) /\ Len(s) > 0 /\ base \in Nat
        /\ base < index /\ index <= Len(s) + base
        /\ IsTruncation(t, s, base, index)
    BY <1>1, <1>2, <1>3 DEF s, base, t, IsTruncation
  <2> QED
    BY <2>1, TruncatedEntries
<1> QED
  BY <1>4 DEF OnlyAppended, getLastIndex, restoreLog, s, base, t, Continues

\* AppendEntries can change the log of its receiver only in the term it is of.
LEMMA AcceptOverrules ==
  ASSUME LogOK, NEW n \in Server, NEW m \in AppendRequests, AppendEntries(m)
  PROVE  OnlyAppended(n) \/ Overruled(n)
<1>1. CASE AppendAccept(m)
  <2>1. CASE m.to = n
    BY <1>1, <2>1 DEF AppendAccept, CurrentLeaderHeard, Overruled
  <2>2. CASE m.to # n
    <3>1. log'[n] = log[n] /\ lastIncludeIndex'[n] = lastIncludeIndex[n]
      BY <1>1, <2>2 DEF AppendAccept, CurrentLeaderHeard, LogOK, LogTypeOK
    <3> QED
      BY <3>1, LogKept
  <2> QED
    BY <2>1, <2>2
<1>2. CASE ~AppendAccept(m)
  <2>1. log' = log /\ lastIncludeIndex' = lastIncludeIndex
    BY <1>2 DEF AppendEntries, AppendNewerTerm, AppendStale, AppendBehindSnapshot,
       AppendMissing, AppendConflict, CurrentLeaderHeard, logVars
  <2> QED
    BY <2>1, LogKept
<1> QED
  BY <1>1, <1>2

\* InstallSnapShot leaves a follower behind, or the log as it was.
LEMMA InstallFollows ==
  ASSUME LogOK, NEW n \in Server, NEW m, InstallSnapShot(m), state'[n] = Leader
  PROVE  OnlyAppended(n)
<1>1. CASE InstallNew(m)
  <2>1. m.to # n
    BY <1>1 DEF InstallNew, SnapshotHeard, LogOK, LocalTypeOK, Follower, Leader
  <2>2. log'[n] = log[n] /\ lastIncludeIndex'[n] = lastIncludeIndex[n]
    BY <1>1, <2>1 DEF InstallNew, LogOK, LocalTypeOK, LogTypeOK
  <2> QED
    BY <2>2, LogKept
<1>2. CASE InstallStale(m) \/ InstallOld(m)
  <2>1. log' = log /\ lastIncludeIndex' = lastIncludeIndex
    BY <1>2 DEF InstallStale, InstallOld, logVars
  <2> QED
    BY <2>1, LogKept
<1> QED
  BY <1>1, <1>2 DEF InstallSnapShot

\* So does a restart.
LEMMA MakeFollows ==
  ASSUME LogOK, NEW n \in Server, NEW p, NEW stable, NEW lost, Make(p, stable, lost),
         state'[n] = Leader
  PROVE  OnlyAppended(n)
<1>1. p # n
  BY DEF Make, LogOK, LocalTypeOK, Follower, Leader
<1>2. log'[n] = log[n] /\ lastIncludeIndex'[n] = lastIncludeIndex[n]
  BY <1>1 DEF Make, readPersist, LogOK, LocalTypeOK, LogTypeOK
<1> QED
  BY <1>2, LogKept

\* Snapshot compacts, whoever leads.
LEMMA SnapshotCompacts ==
  ASSUME LogOK, NEW n \in Server, NEW p \in Server, NEW data \in SnapshotData,
         Snapshot(p, data.Index, data)
  PROVE  OnlyAppended(n)
<1>1. data.Index \in Nat
  BY DEF SnapshotData
<1>2. CASE SnapshotTaken(p, data.Index, data)
  <2>1. CASE p = n
    <3>1. /\ lastIncludeIndex[n] < data.Index /\ data.Index <= getLastIndex(n) + 1
          /\ log'[n] = TruncateTo(n, data.Index) /\ lastIncludeIndex'[n] = data.Index
      BY <1>2, <2>1 DEF SnapshotTaken, LogOK, LocalTypeOK, LogTypeOK
    <3> QED
      BY <1>1, <3>1, LogCompacted
  <2>2. CASE p # n
    <3>1. log'[n] = log[n] /\ lastIncludeIndex'[n] = lastIncludeIndex[n]
      BY <1>2, <2>2 DEF SnapshotTaken, LogOK, LocalTypeOK, LogTypeOK
    <3> QED
      BY <3>1, LogKept
  <2> QED
    BY <2>1, <2>2
<1>3. CASE SnapshotIgnored(p, data.Index)
  <2>1. log' = log /\ lastIncludeIndex' = lastIncludeIndex
    BY <1>3 DEF SnapshotIgnored, raftVars, logVars
  <2> QED
    BY <2>1, LogKept
<1> QED
  BY <1>2, <1>3 DEF Snapshot

\* A leader's log only grows, unless it accepts an AppendEntries of its term.
LEMMA LeaderLogStep ==
  ASSUME Inv, [Next]_vars, NEW n \in Server, state'[n] = Leader
  PROVE  OnlyAppended(n) \/ Overruled(n)
<1>1. LogOK
  BY DEF Inv, RaftInv, LocalInv, LogOK
<1> DEFINE Kept == log' = log /\ lastIncludeIndex' = lastIncludeIndex
<1>2. Kept => OnlyAppended(n)
  BY <1>1, LogKept
<1>3. CASE RequestVoteCall \/ RequestVoteReturn
  <2>1. Kept
    BY <1>3 DEF RequestVoteCall, RequestVote, RequestVoteStale, RequestVoteCurrent,
       RequestVoteReturn, candidateRequestVote, VoteNewerTerm, VoteIgnored, VoteCounted,
       BecomeLeader, logVars
  <2> QED
    BY <1>2, <2>1
<1>4. CASE AppendEntriesCall
  BY <1>1, <1>4, AcceptOverrules DEF AppendEntriesCall, AppendRequests
<1>5. CASE InstallSnapShotCall
  BY <1>1, <1>5, InstallFollows DEF InstallSnapShotCall
<1>6. CASE AppendEntriesReturn \/ InstallSnapShotReturn
  <2>1. Kept
    BY <1>6 DEF AppendEntriesReturn, leaderSendEntries, AppendReplyNewerTerm, AppendReplyStale,
       AppendReplyCurrent, InstallSnapShotReturn, SnapshotReply, SnapshotReplyStale,
       SnapshotReplyNewerTerm, SnapshotReplyCurrent, logVars
  <2> QED
    BY <1>2, <2>1
<1>7. CASE SendSnapShot \/ Apply \/ ServiceReceives
  <2>1. Kept
    BY <1>7 DEF SendSnapShot, leaderSendSnapShot, Apply, applier, ServiceReceives, applierSnap,
       Received, logVars
  <2> QED
    BY <1>2, <2>1
<1>8. CASE ServiceSnapshots
  <2> PICK p \in Server : SnapshotCall(p)
    BY <1>8 DEF ServiceSnapshots
  <2>1. PICK data \in snapCall[p] :
          Snapshot(p, data.Index, data) \/ SnapshotPanics(p, data.Index)
    BY DEF SnapshotCall
  <2>2. data \in SnapshotData
    BY DEF Inv, ServiceTypeOK
  <2>3. CASE SnapshotPanics(p, data.Index)
    BY <1>2, <2>3 DEF SnapshotPanics, raftVars, logVars
  <2> QED
    BY <1>1, <2>1, <2>2, <2>3, SnapshotCompacts
<1>9. ASSUME NEW p \in Server, Tick(p) \/ Timeout(p) PROVE OnlyAppended(n)
  BY <1>2, <1>9 DEF Tick, Heartbeat, Timeout, leaderElection, logVars
<1>10. ASSUME NEW p \in Server, NEW command \in Command, ClientStart(p, command)
       PROVE  OnlyAppended(n)
  <2>1. /\ \E e : log' = [log EXCEPT ![p] = Append(@, e)]
        /\ lastIncludeIndex'[n] = lastIncludeIndex[n]
    BY <1>10 DEF ClientStart, Start
  <2>2. PICK e : log' = [log EXCEPT ![p] = Append(@, e)]
    BY <2>1
  <2>3. log'[n] = log[n] \/ log'[n] = Append(log[n], e)
    BY <1>1, <2>2 DEF LogOK, LogTypeOK
  <2> QED
    BY <1>1, <2>1, <2>3, LogKept, LogExtended
<1>11. CASE \E p \in Server : Crash(p)
  BY <1>1, <1>11, MakeFollows DEF Crash, Restart
<1>12. CASE \E m \in requests : CrashInHandler(m)
  BY <1>1, <1>12, MakeFollows DEF CrashInHandler, RestartInRequestVote, RestartInInstallSnapShot
<1>13. CASE UNCHANGED vars
  BY <1>2, <1>13 DEF vars, raftVars, logVars
<1> QED
  BY <1>3, <1>4, <1>5, <1>6, <1>7, <1>8, <1>9, <1>10, <1>11, <1>12, <1>13 DEF Next

\* The two majorities, of the leader and of whoever overrules it.
LEMMA OverruledNeedsClearedVote ==
  ASSUME Inv, ElectionInv, AppendsFromLeaders, NEW n \in Server, state[n] = Leader, Overruled(n)
  PROVE  \E q \in Server : <<q, currentTerm[n]>> \in cleared
<1>1. PICK m \in AppendRequests : m.to = n /\ m.Term = currentTerm[n]
  BY DEF Overruled
<1>2. /\ m.from \in Server /\ m.from # n
      /\ IsMajority(Cardinality(Voters(m.from, currentTerm[n])))
  BY <1>1 DEF AppendsFromLeaders, FromLeader
<1>3. IsMajority(Cardinality(Voters(n, currentTerm[n])))
  BY DEF ElectionInv, LeaderHasMajority, Voters
<1>4. OneVote /\ currentTerm[n] \in Nat
  BY InvTypes DEF ElectionInv, BallotsOK, ElectionTypes
<1> QED
  BY <1>2, <1>3, <1>4, RivalsNeedClearedVote

\* Every AppendEntries under way, also one of a caller that has crashed or
\* stepped down since, was sent with a majority behind it in its term.
THEOREM AppendsComeFromLeaders == Spec => []AppendsFromLeaders
<1>1. Init => AppendsFromLeaders
  BY DEF Init, RaftInit, AppendsFromLeaders, AppendRequests
<1>2. Inv /\ ElectionInv /\ AppendsFromLeaders /\ [Next]_vars => AppendsFromLeaders'
  BY SentByLeaders
<1> QED
  BY <1>1, <1>2, Invariance, ElectionInvariance, PTL DEF Spec

\* While a server leads, AppendEntries, Start, Snapshot and late messages of
\* any kind leave every entry of its log above its snapshot in place, unless
\* InstallSnapShot made a server forget its vote in that term.
THEOREM LeadersOnlyAppend == Spec => LeaderAppendOnlyUnlessVoteCleared
<1> DEFINE Grows ==
      \A n \in Server :
        state[n] = Leader /\ state'[n] = Leader /\ currentTerm'[n] = currentTerm[n]
        /\ (\A q \in Server : <<q, currentTerm[n]>> \notin cleared)
        => /\ getLastIndex(n)' >= getLastIndex(n)
           /\ \A i \in (lastIncludeIndex'[n] + 1)..getLastIndex(n) :
                restoreLog(n, i)' = restoreLog(n, i)
<1>1. Inv /\ ElectionInv /\ AppendsFromLeaders /\ [Next]_vars => Grows
  BY LeaderLogStep, OverruledNeedsClearedVote DEF OnlyAppended
<1>2. Inv /\ ElectionInv /\ AppendsFromLeaders /\ [Next]_vars => [Grows]_vars
  BY <1>1
<1> QED
  BY <1>2, Invariance, ElectionInvariance, AppendsComeFromLeaders, PTL
     DEF Spec, LeaderAppendOnlyUnlessVoteCleared
=============================================================================
