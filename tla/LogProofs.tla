----------------------------- MODULE LogProofs -----------------------------
(***************************************************************************)
(* Log matching.  Logs and the entries of AppendEntries in flight are seen *)
(* as segments; a step of the cluster drops entries at the ends of a       *)
(* segment, copies it, lets a leader add one entry, or joins a follower's  *)
(* segment to a leader's, and Segments says what that does to agreement.   *)
(*                                                                         *)
(* InstallSnapShot keeps what it finds above the snapshot's index even if  *)
(* the entry at that index has another term than the snapshot.  Such a log *)
(* may be spread by a later leader, so the theorem assumes that no         *)
(* snapshot meets one (SuffixesFit).                                       *)
(***************************************************************************)
EXTENDS LeaderProofs, Segments

LogSegment(n) ==
  [base |-> lastIncludeIndex[n], term |-> lastIncludeTerm[n], last |-> getLastIndex(n),
   at |-> [i \in (lastIncludeIndex[n] + 1)..getLastIndex(n) |-> restoreLog(n, i)]]

SegmentOf(m) ==
  [base |-> m.PrevLogIndex, term |-> m.PrevLogTerm, last |-> m.PrevLogIndex + Len(m.Entries),
   at |-> [i \in (m.PrevLogIndex + 1)..(m.PrevLogIndex + Len(m.Entries)) |->
             m.Entries[i - m.PrevLogIndex]]]

LogSegments == {LogSegment(n) : n \in Server}

SentSegments == {SegmentOf(m) : m \in AppendRequests}

KnownSegments == LogSegments \cup SentSegments

\* Where InstallSnapShot, or Snapshot, leaves entries above the snapshot, the
\* log has the snapshot's term at the snapshot's index.
SuffixFits(n) ==
  lastIncludeIndex'[n] > lastIncludeIndex[n] /\ lastIncludeIndex'[n] < getLastIndex(n)
    => lastIncludeTerm'[n] = restoreLogTerm(n, lastIncludeIndex'[n])

Fits == \A n \in Server : SuffixFits(n)

SuffixesFit == [][Fits]_vars

\* No entry, and no snapshot, is of a later term than whoever has it or sent it.
LogBounded(n) == Bounded(LogSegment(n), currentTerm[n])

RequestBounded(m) == Bounded(SegmentOf(m), m.Term)

SnapshotBounded(m) == m.type = "InstallSnapShot" => m.LastIncludeTerm <= m.Term

TermsBounded ==
  /\ \A n \in Server : LogBounded(n)
  /\ \A m \in AppendRequests : RequestBounded(m)
  /\ \A m \in requests : SnapshotBounded(m)

\* c had a majority for term t, and it does not campaign for it any more.
Elected(c, t) ==
  IsMajority(Cardinality(Voters(c, t))) /\ (currentTerm[c] = t => state[c] # Candidate)

\* Whoever wrote an entry was elected for the entry's term.
Owned ==
  \A s \in KnownSegments : \A i \in Nat :
    Has(s, i) /\ Clean(s.at[i].Term, cleared)
      => \E c \in Server : Elected(c, s.at[i].Term)

\* A leader has every index at which some entry of its term is.
Complete ==
  \A n \in Server : state[n] = Leader /\ Clean(currentTerm[n], cleared)
    => \A s \in KnownSegments : \A i \in Nat :
         Has(s, i) /\ s.at[i].Term = currentTerm[n] => i <= getLastIndex(n)

Matched ==
  /\ \A s, r \in KnownSegments : Agree(s, r, cleared)
  /\ \A s \in KnownSegments : Sorted(s)

LogInv == TermsBounded /\ Owned /\ Complete /\ Matched

-----------------------------------------------------------------------------
(* What the segments of a state are.                                       *)

LogSegmentsOK ==
  \A n \in Server :
    /\ IsSegment(LogSegment(n))
    /\ LogSegment(n).base = lastIncludeIndex[n] /\ LogSegment(n).term = lastIncludeTerm[n]
    /\ LogSegment(n).last = getLastIndex(n)
    /\ \A i \in (lastIncludeIndex[n] + 1)..getLastIndex(n) :
         LogSegment(n).at[i] = restoreLog(n, i)
    /\ \A i \in lastIncludeIndex[n]..getLastIndex(n) :
         TermAt(LogSegment(n), i) = restoreLogTerm(n, i)

\* The reads of a log stay inside it.
LEMMA LogSegmentsTyped == LogOK => LogSegmentsOK
<1> SUFFICES ASSUME LogOK, NEW n \in Server
             PROVE  /\ IsSegment(LogSegment(n))
                    /\ LogSegment(n).base = lastIncludeIndex[n]
                    /\ LogSegment(n).term = lastIncludeTerm[n]
                    /\ LogSegment(n).last = getLastIndex(n)
                    /\ \A i \in (lastIncludeIndex[n] + 1)..getLastIndex(n) :
                         LogSegment(n).at[i] = restoreLog(n, i)
                    /\ \A i \in lastIncludeIndex[n]..getLastIndex(n) :
                         TermAt(LogSegment(n), i) = restoreLogTerm(n, i)
  BY DEF LogSegmentsOK
<1> DEFINE s == LogSegment(n)
<1>1. /\ s.base = lastIncludeIndex[n] /\ s.term = lastIncludeTerm[n] /\ s.last = getLastIndex(n)
      /\ \A i \in (lastIncludeIndex[n] + 1)..getLastIndex(n) : s.at[i] = restoreLog(n, i)
  BY DEF LogSegment
<1> HIDE DEF s
<1>2. /\ lastIncludeIndex[n] \in Nat /\ lastIncludeTerm[n] \in Nat
      /\ getLastIndex(n) \in Nat /\ lastIncludeIndex[n] <= getLastIndex(n)
      /\ \A i \in (lastIncludeIndex[n] + 1)..getLastIndex(n) : restoreLog(n, i) \in Entry
  BY ReadsInRange DEF ReadsOK, LogOK, LocalTypeOK
<1>3. \A i \in (lastIncludeIndex[n] + 1)..getLastIndex(n) : s.at[i].Term \in Nat
  BY <1>1, <1>2 DEF Entry
<1>4. IsSegment(s)
  BY <1>1, <1>2, <1>3 DEF IsSegment
<1>5. \A i \in lastIncludeIndex[n]..getLastIndex(n) : TermAt(s, i) = restoreLogTerm(n, i)
  BY <1>1, <1>2 DEF TermAt, restoreLogTerm
<1> QED
  BY <1>1, <1>4, <1>5 DEF s

\* What a request carries, by index.
LEMMA SegmentOfTyped ==
  ASSUME NEW m \in AppendEntriesMessage
  PROVE  /\ IsSegment(SegmentOf(m))
         /\ SegmentOf(m).base = m.PrevLogIndex /\ SegmentOf(m).term = m.PrevLogTerm
         /\ SegmentOf(m).last = m.PrevLogIndex + Len(m.Entries)
         /\ \A i \in (m.PrevLogIndex + 1)..(m.PrevLogIndex + Len(m.Entries)) :
              SegmentOf(m).at[i] = m.Entries[i - m.PrevLogIndex]
<1> DEFINE s == SegmentOf(m)
           e == m.Entries
<1>1. /\ m.PrevLogIndex \in Nat /\ m.PrevLogTerm \in Nat /\ m.Entries \in Seq(Entry)
  BY DEF AppendEntriesMessage
<1>2. /\ s.base = m.PrevLogIndex /\ s.term = m.PrevLogTerm
      /\ s.last = m.PrevLogIndex + Len(m.Entries)
      /\ \A i \in (m.PrevLogIndex + 1)..(m.PrevLogIndex + Len(m.Entries)) :
           s.at[i] = m.Entries[i - m.PrevLogIndex]
  BY DEF SegmentOf
<1>3. Len(e) \in Nat /\ \A i \in 1..Len(e) : e[i] \in Entry
  BY <1>1, LenProperties, ElementOfSeq
<1> HIDE DEF s
<1>4. ASSUME NEW i \in (s.base + 1)..s.last PROVE s.at[i].Term \in Nat
  <2>1. i - m.PrevLogIndex \in 1..Len(e) /\ s.at[i] = e[i - m.PrevLogIndex]
    BY <1>1, <1>2, <1>3
  <2>2. s.at[i] \in Entry
    BY <1>3, <2>1
  <2> QED
    BY <2>2 DEF Entry
<1>5. IsSegment(s)
  BY <1>1, <1>2, <1>3, <1>4 DEF IsSegment
<1> QED
  BY <1>2, <1>5 DEF s

SegmentsOK == \A s \in KnownSegments : IsSegment(s)

\* Requests of type AppendEntries have its fields.
LEMMA AppendRequestsTyped == Inv => AppendRequests \subseteq AppendEntriesMessage
BY RequestFields DEF AppendRequests, Inv, RaftInv, NetInv

\* Logs and requests under way are segments.
LEMMA SegmentsTyped == Inv => SegmentsOK
BY AppendRequestsTyped, SegmentOfTyped, LogSegmentsTyped
   DEF SegmentsOK, KnownSegments, LogSegments, SentSegments, LogSegmentsOK, LogOK, Inv, RaftInv,
       LocalInv

-----------------------------------------------------------------------------
(* What AppendEntries carries.                                             *)

\* The entries that go out lie within the log of their sender.
SentOK ==
  \A n \in Server : \A heartbeat \in BOOLEAN : \A m \in EntriesToSend(n, heartbeat) :
    /\ Within(SegmentOf(m), LogSegment(n)) /\ m.Term = currentTerm[n]
    /\ m.type = "AppendEntries"

\* The entries of a request are those of the log from PrevLogIndex on, or none.
LEMMA EntriesOfLog ==
  ASSUME LogOK, NEW n \in Server, NEW p \in Visited(n) \ {n}
  PROVE  LET m == AppendEntriesArgs(n, p) IN
         /\ m.PrevLogIndex \in lastIncludeIndex[n]..getLastIndex(n)
         /\ m.PrevLogTerm = restoreLogTerm(n, m.PrevLogIndex)
         /\ m.PrevLogIndex + Len(m.Entries) <= getLastIndex(n)
         /\ \A i \in 1..Len(m.Entries) : m.Entries[i] = restoreLog(n, m.PrevLogIndex + i)
<1> DEFINE s == log[n]
           base == lastIncludeIndex[n]
           next == nextIndex[n][p]
           last == getLastIndex(n)
           prev == AtMost(next - 1, last)
           first == AtMost(AtLeast(next, 1), lastLog(n).Index)
           m == AppendEntriesArgs(n, p)
           entries == m.Entries
<1>1. p \in Server /\ next \in Nat /\ base \in Nat
  BY DEF Visited, LogOK, LocalTypeOK
<1>2. next - 1 >= base
  <2>1. p \notin BehindSnapshot(n)
    BY <1>1, ServerAssumption DEF Visited
  <2> QED
    BY <1>1, <2>1 DEF BehindSnapshot
<1>3. /\ last \in Nat /\ last >= base /\ lastLog(n) \in Entry
      /\ lastLog(n).Index > 0 => lastLog(n).Index = last
      /\ lastLog(n).Index = 0 => last = base
  BY ReadsInRange DEF ReadsOK
<1>4. lastLog(n).Index \in Nat
  BY <1>3 DEF Entry
<1>5. prev \in base..last
  BY <1>1, <1>2, <1>3 DEF AtMost
<1>6. /\ s \in Seq(Entry) /\ Len(s) \in Nat /\ last = Len(s) - 1 + base
      /\ \A i \in 1..Len(s) : s[i] \in Entry
  BY LenProperties, ElementOfSeq DEF LogOK, LogTypeOK, getLastIndex
<1>7. last >= next => first = next /\ prev = next - 1
  BY <1>1, <1>2, <1>3, <1>4 DEF AtMost, AtLeast
<1>8. ~(last >= next) => prev = last
  BY <1>1, <1>3 DEF AtMost
<1>9. /\ m.PrevLogIndex = prev /\ m.PrevLogTerm = restoreLogTerm(n, prev)
      /\ entries = IF last >= next THEN SubSeq(s, first - base + 1, Len(s)) ELSE << >>
  BY DEF AppendEntriesArgs
<1>10. \A i : restoreLog(n, i) = s[i - base + 1]
  BY DEF restoreLog
<1> HIDE DEF s, base, next, last, prev, first, m, entries
<1>11. /\ prev + Len(entries) <= last
       /\ \A i \in 1..Len(entries) : entries[i] = s[(prev + i) - base + 1]
  <2>1. CASE last >= next
    <3> DEFINE k == first - base + 1
    <3>1. k \in Nat /\ k = prev + 2 - base /\ k >= 2 /\ k <= Len(s)
      BY <1>1, <1>2, <1>5, <1>6, <1>7, <2>1
    <3>2. \A i \in k..Len(s) : s[i] \in Entry
      BY <1>6, <3>1
    <3>3. entries = SubSeq(s, k, Len(s))
      BY <1>9, <2>1
    <3> HIDE DEF k
    <3>4. /\ Len(SubSeq(s, k, Len(s))) = IF k <= Len(s) THEN Len(s) - k + 1 ELSE 0
          /\ \A i \in 1..(Len(s) - k + 1) : SubSeq(s, k, Len(s))[i] = s[k + i - 1]
      BY <1>6, <3>1, <3>2, SubSeqProperties
    <3>5. /\ Len(entries) = Len(s) - k + 1
          /\ \A i \in 1..(Len(s) - k + 1) : entries[i] = s[k + i - 1]
      BY <3>1, <3>3, <3>4
    <3>6. \A i \in 1..Len(entries) : k + i - 1 = (prev + i) - base + 1
      BY <1>1, <1>3, <1>5, <1>6, <3>1, <3>5
    <3> QED
      BY <1>1, <1>3, <1>5, <1>6, <3>1, <3>5, <3>6
  <2>2. CASE ~(last >= next)
    <3>1. entries = << >> /\ Len(entries) = 0
      BY <1>9, <2>2
    <3> QED
      BY <1>3, <1>8, <2>2, <3>1
  <2> QED
    BY <2>1, <2>2
<1> QED
  BY <1>5, <1>9, <1>10, <1>11 DEF base, last, m, entries

\* appendEntries sends pieces of the sender's log, with its term.
LEMMA EntriesWithin == LogOK => SentOK
<1> SUFFICES ASSUME LogOK, NEW n \in Server, NEW p \in Visited(n) \ {n}
             PROVE  LET m == AppendEntriesArgs(n, p) IN
                    /\ Within(SegmentOf(m), LogSegment(n)) /\ m.Term = currentTerm[n]
                    /\ m.type = "AppendEntries"
  BY DEF SentOK, EntriesToSend
<1> DEFINE m == AppendEntriesArgs(n, p)
           q == SegmentOf(m)
           s == LogSegment(n)
<1>1. m \in AppendEntriesMessage
  <2>1. m \in EntriesToSend(n, TRUE)
    BY DEF EntriesToSend, Visited
  <2> QED
    BY <2>1, EntriesTyped DEF EntriesOK
<1>2. m.Term = currentTerm[n] /\ m.type = "AppendEntries"
  BY DEF AppendEntriesArgs
<1>3. /\ m.PrevLogIndex \in lastIncludeIndex[n]..getLastIndex(n)
      /\ m.PrevLogTerm = restoreLogTerm(n, m.PrevLogIndex)
      /\ m.PrevLogIndex + Len(m.Entries) <= getLastIndex(n)
      /\ \A i \in 1..Len(m.Entries) : m.Entries[i] = restoreLog(n, m.PrevLogIndex + i)
  BY EntriesOfLog
<1> HIDE DEF m
<1>4. /\ q.base = m.PrevLogIndex /\ q.term = m.PrevLogTerm
      /\ q.last = m.PrevLogIndex + Len(m.Entries)
      /\ \A i \in (m.PrevLogIndex + 1)..(m.PrevLogIndex + Len(m.Entries)) :
           q.at[i] = m.Entries[i - m.PrevLogIndex]
  BY <1>1, SegmentOfTyped
<1>5. /\ s.base = lastIncludeIndex[n] /\ s.last = getLastIndex(n)
      /\ \A i \in (lastIncludeIndex[n] + 1)..getLastIndex(n) : s.at[i] = restoreLog(n, i)
      /\ \A i \in lastIncludeIndex[n]..getLastIndex(n) : TermAt(s, i) = restoreLogTerm(n, i)
      /\ s.base \in Nat /\ s.last \in Nat
  BY LogSegmentsTyped DEF LogSegmentsOK, IsSegment
<1>6. m.PrevLogIndex \in Nat /\ Len(m.Entries) \in Nat
  BY <1>1, LenProperties DEF AppendEntriesMessage
<1> HIDE DEF q, s
<1>7. ASSUME NEW i \in (q.base + 1)..q.last PROVE q.at[i] = s.at[i]
  <2> DEFINE k == i - m.PrevLogIndex
  <2>1. /\ k \in 1..Len(m.Entries) /\ i = m.PrevLogIndex + k
        /\ i \in (lastIncludeIndex[n] + 1)..getLastIndex(n)
        /\ i \in (m.PrevLogIndex + 1)..(m.PrevLogIndex + Len(m.Entries))
    BY <1>3, <1>4, <1>5, <1>6
  <2>2. q.at[i] = m.Entries[k] /\ m.Entries[k] = restoreLog(n, i) /\ s.at[i] = restoreLog(n, i)
    BY <1>3, <1>4, <1>5, <2>1
  <2> QED
    BY <2>2
<1>8. s.base <= q.base /\ q.last <= s.last /\ q.term = TermAt(s, q.base)
  BY <1>3, <1>4, <1>5, <1>6
<1> QED
  BY <1>2, <1>7, <1>8 DEF Within, m, q, s

\* The same in the state that a step leaves behind.
LEMMA PrimedSegments ==
  /\ LogOK' => LogSegmentsOK' /\ SentOK'
  /\ Inv' => SegmentsOK'
BY LogSegmentsTyped, EntriesWithin, SegmentsTyped, PTL

\* A request of the next state carries what one under way carries.
Copied(r) == \E m \in AppendRequests : SegmentOf(r) = SegmentOf(m) /\ r.Term = m.Term

\* A request of the next state carries a piece of its sender's log, read
\* before or after what else the step does.
CutFrom(r, n) ==
  \/ Within(SegmentOf(r), LogSegment(n)) /\ r.Term = currentTerm[n]
  \/ Within(SegmentOf(r), LogSegment(n)') /\ r.Term = currentTerm'[n]

Carried(r) == Copied(r) \/ \E n \in Server : CutFrom(r, n)

RequestsCarried == \A r \in AppendRequests' : Carried(r)

\* Where nothing is sent, every request was under way.
LEMMA NothingCut ==
  ASSUME \A r \in requests' : r \in requests \/ r.type # "AppendEntries"
  PROVE  RequestsCarried
BY DEF RequestsCarried, AppendRequests, Carried, Copied

\* appendEntries on the state the step leaves behind.
LEMMA CutAfter ==
  ASSUME SentOK', NEW n \in Server, NEW heartbeat \in BOOLEAN, appendEntries(n, heartbeat)
  PROVE  RequestsCarried
<1> SUFFICES ASSUME NEW r \in AppendRequests' PROVE Carried(r)
  BY DEF RequestsCarried
<1>1. r \in requests \/ r \in EntriesToSend(n, heartbeat)'
  BY DEF AppendRequests, appendEntries
<1>2. CASE r \in requests
  BY <1>2 DEF AppendRequests, Carried, Copied
<1>3. CASE r \in EntriesToSend(n, heartbeat)'
  <2>1. Within(SegmentOf(r), LogSegment(n)') /\ r.Term = currentTerm'[n]
    BY <1>3 DEF SentOK
  <2> QED
    BY <2>1 DEF Carried, CutFrom
<1> QED
  BY <1>1, <1>2, <1>3

\* A leader whose timer has expired sends its heartbeats before it campaigns.
LEMMA CutBefore ==
  ASSUME SentOK, NEW n \in Server, leaderElection(n)
  PROVE  RequestsCarried
<1> SUFFICES ASSUME NEW r \in AppendRequests' PROVE Carried(r)
  BY DEF RequestsCarried
<1>1. \A m \in {RequestVoteArgs(n, p)' : p \in Server \ {n}} : m.type = "RequestVote"
  BY DEF RequestVoteArgs
<1>2. r.type = "AppendEntries"
  BY DEF AppendRequests
<1>3. r \in requests \/ r \in EntriesToSend(n, TRUE)
  BY <1>1, <1>2 DEF AppendRequests, leaderElection
<1>4. CASE r \in requests
  BY <1>2, <1>4 DEF AppendRequests, Carried, Copied
<1>5. CASE r \in EntriesToSend(n, TRUE)
  BY <1>5 DEF SentOK, Carried, CutFrom
<1> QED
  BY <1>3, <1>4, <1>5

\* A crash changes nothing in a request but whether somebody waits for its reply.
LEMMA CutByCrashed ==
  ASSUME NetInv, NEW n, NEW lost, Disconnected(n, lost)
  PROVE  RequestsCarried
<1> SUFFICES ASSUME NEW r \in AppendRequests' PROVE Carried(r)
  BY DEF RequestsCarried
<1>1. PICK m \in requests : r = IF m.from = n THEN [m EXCEPT !.open = FALSE] ELSE m
  BY DEF AppendRequests, Disconnected
<1>2. GoodRequest(m)
  BY DEF NetInv
<1>3. r.type = m.type /\ r.type = "AppendEntries"
  BY <1>1, <1>2 DEF AppendRequests, GoodRequest, RequestVoteMessage, AppendEntriesMessage,
     InstallSnapShotMessage
<1>4. /\ r.Term = m.Term /\ r.PrevLogIndex = m.PrevLogIndex /\ r.PrevLogTerm = m.PrevLogTerm
      /\ r.Entries = m.Entries
  BY <1>1, <1>2, <1>3 DEF GoodRequest, RequestVoteMessage, AppendEntriesMessage,
     InstallSnapShotMessage
<1>5. SegmentOf(r) = SegmentOf(m)
  BY <1>4 DEF SegmentOf
<1> QED
  BY <1>3, <1>4, <1>5 DEF AppendRequests, Carried, Copied

\* Whatever step is taken, AppendEntries only ever carries pieces of logs.
LEMMA RequestsStep ==
  Inv /\ Inv' /\ [Next]_vars => RequestsCarried
<1> SUFFICES ASSUME Inv, Inv', [Next]_vars PROVE RequestsCarried
  OBVIOUS
<1> DEFINE Quietly == \A r \in requests' : r \in requests \/ r.type # "AppendEntries"
<1>1. SentOK /\ SentOK' /\ NetInv
  BY EntriesWithin, PrimedSegments DEF Inv, RaftInv, LocalInv, LogOK
<1>2. Quietly => RequestsCarried
  BY NothingCut
<1> HIDE DEF Quietly
<1>3. CASE RequestVoteCall
  BY <1>2, <1>3 DEF Quietly, RequestVoteCall, RequestVote, RequestVoteStale, RequestVoteCurrent,
     Answer
<1>4. CASE AppendEntriesCall
  BY <1>2, <1>4 DEF Quietly, AppendEntriesCall, AppendEntries, AppendNewerTerm, AppendStale,
     AppendBehindSnapshot, AppendMissing, AppendConflict, AppendAccept, Answer
<1>5. CASE InstallSnapShotCall
  BY <1>2, <1>5 DEF Quietly, InstallSnapShotCall, InstallSnapShot, InstallStale, InstallOld,
     InstallNew, Answer
<1>6. CASE RequestVoteReturn
  <2>1. PICK m \in replies : m.type = "RequestVoteReply" /\ candidateRequestVote(m)
    BY <1>6 DEF RequestVoteReturn
  <2>2. m.to \in Server
    BY <1>1, <2>1, ReplyFields DEF NetInv
  <2>3. CASE requests' = requests
    BY <1>2, <2>3 DEF Quietly
  <2>4. CASE BecomeLeader(m.to, m)
    BY <1>1, <2>2, <2>4, CutAfter DEF BecomeLeader
  <2> QED
    BY <2>1, <2>3, <2>4 DEF candidateRequestVote, VoteNewerTerm, VoteIgnored, VoteCounted, Consumed
<1>7. CASE AppendEntriesReturn
  BY <1>2, <1>7 DEF Quietly, AppendEntriesReturn, leaderSendEntries, AppendReplyNewerTerm,
     AppendReplyStale, AppendReplyCurrent, Consumed
<1>8. CASE InstallSnapShotReturn
  BY <1>2, <1>8 DEF Quietly, InstallSnapShotReturn, SnapshotReply, SnapshotReplyStale,
     SnapshotReplyNewerTerm, SnapshotReplyCurrent, Consumed
<1>9. CASE SendSnapShot
  BY <1>2, <1>9 DEF Quietly, SendSnapShot, leaderSendSnapShot, InstallSnapshotArgs
<1>10. CASE Apply \/ ServiceReceives \/ ServiceSnapshots
  BY <1>2, <1>10 DEF Quietly, Apply, applier, ServiceReceives, applierSnap, Received,
     ServiceSnapshots, SnapshotCall, Snapshot, SnapshotIgnored, SnapshotPanics, SnapshotTaken,
     raftVars, netVars
<1>11. ASSUME NEW n \in Server, Tick(n) PROVE RequestsCarried
  BY <1>1, <1>11, CutAfter DEF Tick, Heartbeat
<1>12. ASSUME NEW n \in Server, Timeout(n) PROVE RequestsCarried
  BY <1>1, <1>12, CutBefore DEF Timeout
<1>13. ASSUME NEW n \in Server, NEW command \in Command, ClientStart(n, command)
       PROVE  RequestsCarried
  BY <1>1, <1>13, CutAfter DEF ClientStart, Start
<1>14. ASSUME NEW n, NEW stable, NEW lost, Make(n, stable, lost) PROVE RequestsCarried
  BY <1>1, <1>14, CutByCrashed DEF Make
<1>15. CASE \E n \in Server : Crash(n)
  BY <1>14, <1>15 DEF Crash, Restart
<1>16. CASE \E m \in requests : CrashInHandler(m)
  BY <1>14, <1>16 DEF CrashInHandler, RestartInRequestVote, RestartInInstallSnapShot
<1>17. CASE UNCHANGED vars
  BY <1>2, <1>17 DEF Quietly, vars, raftVars, netVars
<1> QED
  BY <1>3, <1>4, <1>5, <1>6, <1>7, <1>8, <1>9, <1>10, <1>11, <1>12, <1>13, <1>15, <1>16, <1>17
     DEF Next

-----------------------------------------------------------------------------
(* What an InstallSnapShot carries.                                        *)

\* It was under way, or its sender reads its snapshot's place in this step.
InstallRead(r) ==
  \/ \E m \in requests : m.type = "InstallSnapShot" /\ r.Term = m.Term
                         /\ r.LastIncludeTerm = m.LastIncludeTerm
  \/ \E n \in Server : r.Term = currentTerm[n] /\ r.LastIncludeTerm = lastIncludeTerm[n]

InstallsRead == \A r \in requests' : r.type = "InstallSnapShot" => InstallRead(r)

\* A crash changes nothing in it but whether somebody waits for its reply.
LEMMA InstallOfCrashed ==
  ASSUME NetInv, NEW n, NEW lost, Disconnected(n, lost)
  PROVE  InstallsRead
<1> SUFFICES ASSUME NEW r \in requests', r.type = "InstallSnapShot" PROVE InstallRead(r)
  BY DEF InstallsRead
<1>1. PICK m \in requests : r = IF m.from = n THEN [m EXCEPT !.open = FALSE] ELSE m
  BY DEF Disconnected
<1>2. GoodRequest(m)
  BY DEF NetInv
<1>3. r.type = m.type /\ r.Term = m.Term
  BY <1>1, <1>2 DEF GoodRequest, RequestVoteMessage, AppendEntriesMessage, InstallSnapShotMessage
<1>4. r.LastIncludeTerm = m.LastIncludeTerm
  BY <1>1, <1>2, <1>3 DEF GoodRequest, RequestVoteMessage, AppendEntriesMessage,
     InstallSnapShotMessage
<1> QED
  BY <1>3, <1>4 DEF InstallRead

\* An InstallSnapShot was under way, or its sender reads its log in this step.
LEMMA InstallsStep ==
  Inv /\ Inv' /\ [Next]_vars => InstallsRead
<1> SUFFICES ASSUME Inv, Inv', [Next]_vars PROVE InstallsRead
  OBVIOUS
<1> DEFINE Quietly == \A r \in requests' : r \in requests \/ r.type # "InstallSnapShot"
<1>1. SentOK /\ SentOK' /\ NetInv
  BY EntriesWithin, PrimedSegments DEF Inv, RaftInv, LocalInv, LogOK
<1>2. Quietly => InstallsRead
  BY DEF InstallsRead, InstallRead
<1>3. ASSUME NEW n \in Server, NEW heartbeat \in BOOLEAN, appendEntries(n, heartbeat)
      PROVE  InstallsRead
  <2>1. \A r \in EntriesToSend(n, heartbeat)' : r.type = "AppendEntries"
    BY <1>1 DEF SentOK
  <2> QED
    BY <1>2, <1>3, <2>1 DEF appendEntries
<1> HIDE DEF Quietly
<1>4. CASE RequestVoteCall
  BY <1>2, <1>4 DEF Quietly, RequestVoteCall, RequestVote, RequestVoteStale, RequestVoteCurrent,
     Answer
<1>5. CASE AppendEntriesCall
  BY <1>2, <1>5 DEF Quietly, AppendEntriesCall, AppendEntries, AppendNewerTerm, AppendStale,
     AppendBehindSnapshot, AppendMissing, AppendConflict, AppendAccept, Answer
<1>6. CASE InstallSnapShotCall
  BY <1>2, <1>6 DEF Quietly, InstallSnapShotCall, InstallSnapShot, InstallStale, InstallOld,
     InstallNew, Answer
<1>7. CASE RequestVoteReturn
  <2>1. PICK m \in replies : m.type = "RequestVoteReply" /\ candidateRequestVote(m)
    BY <1>7 DEF RequestVoteReturn
  <2>2. m.to \in Server
    BY <1>1, <2>1, ReplyFields DEF NetInv
  <2>3. CASE requests' = requests
    BY <1>2, <2>3 DEF Quietly
  <2>4. CASE BecomeLeader(m.to, m)
    BY <1>3, <2>2, <2>4 DEF BecomeLeader
  <2> QED
    BY <2>1, <2>3, <2>4 DEF candidateRequestVote, VoteNewerTerm, VoteIgnored, VoteCounted, Consumed
<1>8. CASE AppendEntriesReturn
  BY <1>2, <1>8 DEF Quietly, AppendEntriesReturn, leaderSendEntries, AppendReplyNewerTerm,
     AppendReplyStale, AppendReplyCurrent, Consumed
<1>9. CASE InstallSnapShotReturn
  BY <1>2, <1>9 DEF Quietly, InstallSnapShotReturn, SnapshotReply, SnapshotReplyStale,
     SnapshotReplyNewerTerm, SnapshotReplyCurrent, Consumed
<1>10. CASE SendSnapShot
  <2>1. PICK n \in Server, p \in Server : leaderSendSnapShot(n, p)
    BY <1>10 DEF SendSnapShot
  <2>2. requests' = requests \cup {InstallSnapshotArgs(n, p)}
    BY <2>1 DEF leaderSendSnapShot
  <2>3. /\ InstallSnapshotArgs(n, p).Term = currentTerm[n]
        /\ InstallSnapshotArgs(n, p).LastIncludeTerm = lastIncludeTerm[n]
    BY DEF InstallSnapshotArgs
  <2> QED
    BY <2>2, <2>3 DEF InstallsRead, InstallRead
<1>11. CASE Apply \/ ServiceReceives \/ ServiceSnapshots
  BY <1>2, <1>11 DEF Quietly, Apply, applier, ServiceReceives, applierSnap, Received,
     ServiceSnapshots, SnapshotCall, Snapshot, SnapshotIgnored, SnapshotPanics, SnapshotTaken,
     raftVars, netVars
<1>12. ASSUME NEW n \in Server, Tick(n) PROVE InstallsRead
  BY <1>3, <1>12 DEF Tick, Heartbeat
<1>13. ASSUME NEW n \in Server, Timeout(n) PROVE InstallsRead
  <2>1. \A r \in {RequestVoteArgs(n, p)' : p \in Server \ {n}} : r.type = "RequestVote"
    BY DEF RequestVoteArgs
  <2>2. \A r \in EntriesToSend(n, TRUE) : r.type = "AppendEntries"
    BY <1>1 DEF SentOK
  <2> QED
    BY <1>2, <1>13, <2>1, <2>2 DEF Quietly, Timeout, leaderElection
<1>14. ASSUME NEW n \in Server, NEW command \in Command, ClientStart(n, command)
       PROVE  InstallsRead
  BY <1>3, <1>14 DEF ClientStart, Start
<1>15. ASSUME NEW n, NEW stable, NEW lost, Make(n, stable, lost) PROVE InstallsRead
  BY <1>1, <1>15, InstallOfCrashed DEF Make
<1>16. CASE \E n \in Server : Crash(n)
  BY <1>15, <1>16 DEF Crash, Restart
<1>17. CASE \E m \in requests : CrashInHandler(m)
  BY <1>15, <1>17 DEF CrashInHandler, RestartInRequestVote, RestartInInstallSnapShot
<1>18. CASE UNCHANGED vars
  BY <1>2, <1>18 DEF Quietly, vars, raftVars, netVars
<1> QED
  BY <1>4, <1>5, <1>6, <1>7, <1>8, <1>9, <1>10, <1>11, <1>12, <1>13, <1>14, <1>16, <1>17, <1>18
     DEF Next

-----------------------------------------------------------------------------
(* What a step does to a log.                                              *)

\* The last index of a log s that goes into a snapshot up to index.
TruncatedLast(s, base, index) ==
  IF index < Len(s) - 1 + base THEN Len(s) - 1 + base ELSE index

\* Snapshot and InstallSnapShot: what lies above index, if anything does.
LEMMA TruncatedLog ==
  ASSUME NEW s \in Seq(Entry), NEW base \in Nat, NEW index \in Nat, Len(s) > 0, base < index,
         NEW t, IsTruncation(t, s, base, index)
  PROVE  /\ Len(t) - 1 + index = TruncatedLast(s, base, index)
         /\ Continues(t, s, base, index)
<1>1. CASE index <= Len(s) + base
  <2>1. Continues(t, s, base, index)
    BY <1>1, TruncatedEntries
  <2> DEFINE k == index - base + 2
             tail == SubSeq(s, k, Len(s))
             e == <<EmptyEntry>>
  <2>2. Len(s) \in Nat /\ k \in Nat /\ k > 2 /\ k <= Len(s) + 2
    BY <1>1, LenProperties
  <2>3. \A i \in k..Len(s) : s[i] \in Entry
    BY <2>2, ElementOfSeq
  <2>4. tail \in Seq(Entry) /\ Len(tail) = IF k <= Len(s) THEN Len(s) - k + 1 ELSE 0
    BY <2>2, <2>3, SubSeqProperties
  <2>5. e \in Seq(Entry) /\ Len(e) = 1
    BY DEF EmptyEntry, Entry
  <2>6. t = e \o tail
    BY DEF IsTruncation
  <2> HIDE DEF e, tail
  <2>7. Len(e \o tail) = Len(e) + Len(tail)
    BY <2>4, <2>5, ConcatProperties
  <2>8. Len(t) = 1 + Len(tail)
    BY <2>5, <2>6, <2>7
  <2> HIDE DEF k
  <2>9. k = index - base + 2
    BY DEF k
  <2>10. Len(t) - 1 + index = TruncatedLast(s, base, index)
    BY <2>2, <2>4, <2>8, <2>9 DEF TruncatedLast
  <2> QED
    BY <2>1, <2>10
<1>2. CASE index > Len(s) + base
  <2> DEFINE k == index - base + 2
             tail == SubSeq(s, k, Len(s))
             e == <<EmptyEntry>>
  <2>1. Len(s) \in Nat /\ k \in Nat /\ k > Len(s)
    BY <1>2, LenProperties
  <2>2. \A i \in k..Len(s) : s[i] \in Entry
    BY <2>1
  <2>3. tail \in Seq(Entry) /\ Len(tail) = IF k <= Len(s) THEN Len(s) - k + 1 ELSE 0
    BY <2>1, <2>2, SubSeqProperties
  <2>4. e \in Seq(Entry) /\ Len(e) = 1
    BY DEF EmptyEntry, Entry
  <2>5. t = e \o tail
    BY DEF IsTruncation
  <2> HIDE DEF e, tail
  <2>6. Len(e \o tail) = Len(e) + Len(tail)
    BY <2>3, <2>4, ConcatProperties
  <2>7. Len(t) = 1
    BY <2>1, <2>3, <2>4, <2>5, <2>6
  <2>8. Continues(t, s, base, index)
    BY <1>2, <2>1 DEF Continues
  <2>9. Len(t) - 1 + index = TruncatedLast(s, base, index)
    BY <1>2, <2>1, <2>7 DEF TruncatedLast
  <2> QED
    BY <2>8, <2>9
<1> QED
  BY <1>1, <1>2, LenProperties

\* AppendEntries: the log up to prev, then what the request carries.
LEMMA JoinedLog ==
  ASSUME NEW s \in Seq(Entry), NEW base \in Nat, NEW prev \in base..(Len(s) - 1 + base),
         NEW es \in Seq(Entry),
         NEW t, t = SubSeq(s, 1, prev + 1 - base) \o es
  PROVE  /\ Len(t) - 1 + base = prev + Len(es)
         /\ \A i \in (base + 1)..prev : t[i - base + 1] = s[i - base + 1]
         /\ \A i \in (prev + 1)..(prev + Len(es)) : t[i - base + 1] = es[i - prev]
<1> DEFINE k == prev + 1 - base
           head == SubSeq(s, 1, k)
<1>1. /\ Len(s) \in Nat /\ k \in 1..Len(s) /\ k \in Nat /\ Len(es) \in Nat /\ prev \in Nat
  BY LenProperties
<1>2. \A i \in 1..k : s[i] \in Entry
  BY <1>1, ElementOfSeq
<1>3. /\ head \in Seq(Entry) /\ Len(head) = k
      /\ \A i \in 1..k : head[i] = s[i]
  <2>1. /\ head \in Seq(Entry)
        /\ Len(head) = IF 1 <= k THEN k - 1 + 1 ELSE 0
        /\ \A i \in 1..(k - 1 + 1) : head[i] = s[1 + i - 1]
    BY <1>1, <1>2, SubSeqProperties
  <2> QED
    BY <1>1, <2>1
<1>4. t = head \o es
  OBVIOUS
<1> HIDE DEF head
<1>5. /\ Len(head \o es) = Len(head) + Len(es)
      /\ \A i \in 1..(Len(head) + Len(es)) :
           (head \o es)[i] = IF i <= Len(head) THEN head[i] ELSE es[i - Len(head)]
  BY <1>3, ConcatProperties
<1>6. /\ Len(t) = k + Len(es)
      /\ \A i \in 1..(k + Len(es)) : t[i] = IF i <= k THEN head[i] ELSE es[i - k]
  BY <1>3, <1>4, <1>5
<1>7. Len(t) - 1 + base = prev + Len(es)
  BY <1>1, <1>6
<1>8. ASSUME NEW i \in (base + 1)..prev PROVE t[i - base + 1] = s[i - base + 1]
  <2>1. i - base + 1 \in 1..k /\ i - base + 1 \in 1..(k + Len(es)) /\ i - base + 1 <= k
    BY <1>1
  <2> QED
    BY <1>3, <1>6, <2>1
<1>9. ASSUME NEW i \in (prev + 1)..(prev + Len(es)) PROVE t[i - base + 1] = es[i - prev]
  <2>1. i - base + 1 \in 1..(k + Len(es)) /\ ~(i - base + 1 <= k) /\ (i - base + 1) - k = i - prev
    BY <1>1
  <2> QED
    BY <1>6, <2>1
<1> QED
  BY <1>7, <1>8, <1>9

Kept(n) == LogSegment(n)' = LogSegment(n)

Shrunk(n) == Part(LogSegment(n)', LogSegment(n)) /\ lastIncludeTerm'[n] <= currentTerm'[n]

Grown(n) == state[n] = Leader /\ Extended(LogSegment(n)', LogSegment(n), currentTerm[n])

Joined(n) ==
  \E m \in AppendRequests :
    m.Term = currentTerm[n] /\ Merged(LogSegment(n)', LogSegment(n), SegmentOf(m))

\* At most the log of n has changed.
OneLog(n) ==
  /\ \A p \in Server \ {n} : Kept(p)
  /\ Kept(n) \/ Shrunk(n) \/ Grown(n) \/ Joined(n)

\* A server whose log and snapshot's place stay has the segment it had.
LEMMA LogNotTouched ==
  ASSUME NEW n, log'[n] = log[n], lastIncludeIndex'[n] = lastIncludeIndex[n],
         lastIncludeTerm'[n] = lastIncludeTerm[n]
  PROVE  Kept(n)
BY DEF Kept, LogSegment, getLastIndex, restoreLog

\* A step that leaves all logs alone is one in which at most one changes.
LEMMA NoLogTouched ==
  ASSUME UNCHANGED logVars
  PROVE  \E n \in Server : OneLog(n)
BY LogNotTouched, ServerAssumption DEF OneLog, logVars

\* What AppendEntries leaves is the follower's log up to PrevLogIndex and the entries.
LEMMA AcceptJoins ==
  ASSUME LogOK, LogOK', NEW m \in AppendRequests, m \in AppendEntriesMessage, AppendAccept(m)
  PROVE  OneLog(m.to)
<1> DEFINE n == m.to
           s == log[n]
           base == lastIncludeIndex[n]
           prev == m.PrevLogIndex
           es == m.Entries
           t == log'[n]
           q == LogSegment(n)'
           p == LogSegment(n)
           c == SegmentOf(m)
<1>1. /\ n \in Server /\ es \in Seq(Entry) /\ s \in Seq(Entry) /\ base \in Nat /\ prev \in Nat
  BY DEF AppendEntriesMessage, LogOK, LogTypeOK, LocalTypeOK
<1>2. /\ log' = [log EXCEPT ![n] = SubSeq(@, 1, m.PrevLogIndex + 1 - lastIncludeIndex[n]) \o es]
      /\ lastIncludeIndex' = lastIncludeIndex /\ lastIncludeTerm' = lastIncludeTerm
      /\ m.Term = currentTerm[n]
      /\ prev \in base..getLastIndex(n) /\ restoreLogTerm(n, prev) = m.PrevLogTerm
  BY DEF AppendAccept, CurrentLeaderHeard, HasPrev
<1>3. \A r \in Server \ {n} : Kept(r)
  BY <1>2, LogNotTouched DEF LogOK, LogTypeOK
<1>4. t = SubSeq(s, 1, prev + 1 - base) \o es
  BY <1>1, <1>2 DEF LogOK, LogTypeOK
<1>5. getLastIndex(n) = Len(s) - 1 + base /\ getLastIndex(n)' = Len(t) - 1 + base
  BY <1>2 DEF getLastIndex
<1>6. (\A i : restoreLog(n, i) = s[i - base + 1]) /\ (\A i : restoreLog(n, i)' = t[i - base + 1])
  BY <1>2 DEF restoreLog
<1> HIDE DEF n, s, base, prev, es, t
<1>7. prev \in base..(Len(s) - 1 + base)
  BY <1>2, <1>5
<1>8. /\ Len(t) - 1 + base = prev + Len(es)
      /\ \A i \in (base + 1)..prev : t[i - base + 1] = s[i - base + 1]
      /\ \A i \in (prev + 1)..(prev + Len(es)) : t[i - base + 1] = es[i - prev]
  BY <1>1, <1>4, <1>7, JoinedLog
<1>9. /\ p.base = base /\ p.term = lastIncludeTerm[n] /\ p.last = getLastIndex(n)
      /\ \A i \in (base + 1)..getLastIndex(n) : p.at[i] = restoreLog(n, i)
      /\ \A i \in base..getLastIndex(n) : TermAt(p, i) = restoreLogTerm(n, i)
      /\ p.last \in Nat
  BY <1>1, LogSegmentsTyped DEF LogSegmentsOK, IsSegment, base
<1>10. /\ q.base = base /\ q.term = lastIncludeTerm[n] /\ q.last = getLastIndex(n)'
       /\ \A i \in (base + 1)..getLastIndex(n)' : q.at[i] = restoreLog(n, i)'
  BY <1>1, <1>2, PrimedSegments DEF LogSegmentsOK, base
<1>11. /\ c.base = prev /\ c.term = m.PrevLogTerm /\ c.last = prev + Len(es)
       /\ \A i \in (prev + 1)..(prev + Len(es)) : c.at[i] = es[i - prev]
  BY SegmentOfTyped DEF prev, es
<1> HIDE DEF p, q, c
<1>12. Len(es) \in Nat
  BY <1>1, LenProperties
<1>13. \A i \in (base + 1)..prev : q.at[i] = p.at[i]
  <2> SUFFICES ASSUME NEW i \in (base + 1)..prev PROVE q.at[i] = p.at[i]
    OBVIOUS
  <2>1. i \in (base + 1)..getLastIndex(n) /\ i \in (base + 1)..getLastIndex(n)'
    BY <1>1, <1>2, <1>5, <1>8, <1>9, <1>12
  <2> QED
    BY <1>6, <1>8, <1>9, <1>10, <2>1
<1>14. \A i \in (prev + 1)..(prev + Len(es)) : q.at[i] = c.at[i]
  <2> SUFFICES ASSUME NEW i \in (prev + 1)..(prev + Len(es)) PROVE q.at[i] = c.at[i]
    OBVIOUS
  <2>1. i \in (base + 1)..getLastIndex(n)'
    BY <1>1, <1>2, <1>5, <1>8, <1>12
  <2> QED
    BY <1>6, <1>8, <1>10, <1>11, <2>1
<1>15. p.base <= c.base /\ c.base <= p.last /\ TermAt(p, c.base) = c.term
  BY <1>1, <1>2, <1>9, <1>11
<1>16. q.base = p.base /\ q.term = p.term /\ q.last = c.last
  BY <1>5, <1>8, <1>9, <1>10, <1>11
<1>17. Merged(q, p, c)
  BY <1>9, <1>11, <1>13, <1>14, <1>15, <1>16 DEF Merged
<1>18. Joined(n)
  BY <1>2, <1>17 DEF Joined, p, q, c
<1> QED
  BY <1>3, <1>18 DEF OneLog, n

\* Start adds one entry of the leader's term.
LEMMA StartGrows ==
  ASSUME LogOK, LogOK', NEW n \in Server, NEW command, Start(n, command)
  PROVE  OneLog(n)
<1> DEFINE s == log[n]
           base == lastIncludeIndex[n]
           e == [Command |-> command, Term |-> currentTerm[n], Index |-> getLastIndex(n) + 1]
           t == log'[n]
           q == LogSegment(n)'
           p == LogSegment(n)
<1>1. s \in Seq(Entry) /\ base \in Nat /\ Len(s) \in Nat
  BY LenProperties DEF LogOK, LogTypeOK, LocalTypeOK
<1>2. /\ state[n] = Leader /\ log' = [log EXCEPT ![n] = Append(@, e)]
      /\ lastIncludeIndex' = lastIncludeIndex /\ lastIncludeTerm' = lastIncludeTerm
  BY DEF Start
<1>3. \A r \in Server \ {n} : Kept(r)
  BY <1>2, LogNotTouched DEF LogOK, LogTypeOK
<1>4. t = Append(s, e)
  BY <1>2 DEF LogOK, LogTypeOK
<1>5. getLastIndex(n) = Len(s) - 1 + base /\ getLastIndex(n)' = Len(t) - 1 + base
  BY <1>2 DEF getLastIndex
<1>6. (\A i : restoreLog(n, i) = s[i - base + 1]) /\ (\A i : restoreLog(n, i)' = t[i - base + 1])
  BY <1>2 DEF restoreLog
<1>7. e.Term = currentTerm[n]
  OBVIOUS
<1> HIDE DEF s, base, t, e
<1>8. Len(t) = Len(s) + 1 /\ t[Len(s) + 1] = e /\ \A i \in 1..Len(s) : t[i] = s[i]
  BY <1>1, <1>4
<1>9. /\ p.base = base /\ p.term = lastIncludeTerm[n] /\ p.last = getLastIndex(n)
      /\ \A i \in (base + 1)..getLastIndex(n) : p.at[i] = restoreLog(n, i)
      /\ p.last \in Nat /\ p.base <= p.last
  BY LogSegmentsTyped DEF LogSegmentsOK, IsSegment, base
<1>10. /\ q.base = base /\ q.term = lastIncludeTerm[n] /\ q.last = getLastIndex(n)'
       /\ \A i \in (base + 1)..getLastIndex(n)' : q.at[i] = restoreLog(n, i)'
  BY <1>2, PrimedSegments DEF LogSegmentsOK, base
<1> HIDE DEF p, q
<1>11. \A i \in (p.base + 1)..p.last : q.at[i] = p.at[i]
  <2> SUFFICES ASSUME NEW i \in (p.base + 1)..p.last PROVE q.at[i] = p.at[i]
    OBVIOUS
  <2>1. /\ i \in (base + 1)..getLastIndex(n) /\ i \in (base + 1)..getLastIndex(n)'
        /\ i - base + 1 \in 1..Len(s)
    BY <1>1, <1>5, <1>8, <1>9
  <2> QED
    BY <1>6, <1>8, <1>9, <1>10, <2>1
<1>12. q.at[q.last] = e
  <2>1. q.last \in (base + 1)..getLastIndex(n)' /\ q.last - base + 1 = Len(s) + 1
    BY <1>1, <1>5, <1>8, <1>9, <1>10
  <2> QED
    BY <1>6, <1>8, <1>10, <2>1
<1>13. q.last = p.last + 1
  BY <1>1, <1>5, <1>8, <1>9, <1>10
<1>14. Extended(q, p, currentTerm[n])
  BY <1>7, <1>9, <1>10, <1>11, <1>12, <1>13 DEF Extended
<1>15. Grown(n)
  BY <1>2, <1>14 DEF Grown, p, q
<1> QED
  BY <1>3, <1>15 DEF OneLog

\* What a snapshot leaves is the end of the log, if the terms fit.
LEMMA TruncateLeavesPart ==
  ASSUME LogOK, LogOK', NEW n \in Server, NEW index \in Nat, lastIncludeIndex[n] < index,
         log'[n] = TruncateTo(n, index), lastIncludeIndex'[n] = index,
         index < getLastIndex(n) => lastIncludeTerm'[n] = restoreLogTerm(n, index)
  PROVE  Part(LogSegment(n)', LogSegment(n))
<1> DEFINE s == log[n]
           base == lastIncludeIndex[n]
           t == log'[n]
           q == LogSegment(n)'
           p == LogSegment(n)
<1>1. s \in Seq(Entry) /\ base \in Nat /\ Len(s) \in Nat /\ Len(s) > 0
  BY LenProperties DEF LogOK, LogTypeOK, LocalTypeOK
<1>2. IsTruncation(t, s, base, index)
  BY DEF TruncateTo, IsTruncation
<1>3. getLastIndex(n) = Len(s) - 1 + base /\ getLastIndex(n)' = Len(t) - 1 + index
  BY DEF getLastIndex
<1>4. (\A i : restoreLog(n, i) = s[i - base + 1]) /\ (\A i : restoreLog(n, i)' = t[i - index + 1])
  BY DEF restoreLog
<1>5. base < index
  OBVIOUS
<1> HIDE DEF s, base, t
<1>6. /\ Len(t) - 1 + index = TruncatedLast(s, base, index)
      /\ Continues(t, s, base, index)
  <2>1. /\ s \in Seq(Entry) /\ base \in Nat /\ Len(s) > 0 /\ base < index /\ index \in Nat
        /\ IsTruncation(t, s, base, index)
    BY <1>1, <1>2, <1>5
  <2> QED
    BY <2>1, TruncatedLog
<1>7. /\ p.base = base /\ p.last = getLastIndex(n)
      /\ \A i \in (base + 1)..getLastIndex(n) : p.at[i] = restoreLog(n, i)
      /\ \A i \in base..getLastIndex(n) : TermAt(p, i) = restoreLogTerm(n, i)
  BY LogSegmentsTyped DEF LogSegmentsOK, base
<1>8. /\ q.base = index /\ q.term = lastIncludeTerm'[n] /\ q.last = getLastIndex(n)'
      /\ \A i \in (index + 1)..getLastIndex(n)' : q.at[i] = restoreLog(n, i)'
  BY PrimedSegments DEF LogSegmentsOK
<1> HIDE DEF p, q
<1>9. CASE index < getLastIndex(n)
  <2>1. getLastIndex(n)' = getLastIndex(n)
    BY <1>3, <1>6, <1>9 DEF TruncatedLast
  <2>2. index \in base..getLastIndex(n)
    BY <1>1, <1>3, <1>5, <1>9
  <2>3. q.term = TermAt(p, q.base) /\ p.base <= q.base /\ q.last <= p.last
    BY <1>1, <1>3, <1>5, <1>7, <1>8, <1>9, <2>1, <2>2
  <2>4. ASSUME NEW i \in (q.base + 1)..q.last PROVE q.at[i] = p.at[i]
    <3>1. /\ i \in (index + 1)..getLastIndex(n)' /\ i \in (base + 1)..getLastIndex(n)
          /\ i \in (index + 1)..(Len(s) - 1 + base)
      BY <1>1, <1>3, <1>5, <1>8, <2>1
    <3>2. t[i - index + 1] = s[i - base + 1]
      BY <1>6, <3>1 DEF Continues
    <3> QED
      BY <1>4, <1>7, <1>8, <3>1, <3>2
  <2> QED
    BY <2>3, <2>4 DEF Part, Within, p, q
<1>10. CASE ~(index < getLastIndex(n))
  BY <1>3, <1>6, <1>8, <1>10 DEF Part, q, TruncatedLast
<1> QED
  BY <1>9, <1>10

\* The term of the last entry is not above the server's own.
LEMMA LastTermBounded ==
  ASSUME LogOK, NEW n \in Server, LogBounded(n)
  PROVE  /\ getLastTerm(n) <= currentTerm[n] /\ lastIncludeTerm[n] <= currentTerm[n]
         /\ \A i \in lastIncludeIndex[n]..getLastIndex(n) : restoreLogTerm(n, i) <= currentTerm[n]
<1>1. \A i \in lastIncludeIndex[n]..getLastIndex(n) : restoreLogTerm(n, i) <= currentTerm[n]
  BY LogSegmentsTyped DEF LogSegmentsOK, LogBounded, Bounded
<1>2. /\ getLastIndex(n) \in Nat /\ lastIncludeIndex[n] \in Nat
      /\ lastIncludeIndex[n] <= getLastIndex(n)
  BY ReadsInRange DEF ReadsOK, LogOK, LocalTypeOK
<1>3. lastIncludeTerm[n] = restoreLogTerm(n, lastIncludeIndex[n])
  BY DEF restoreLogTerm
<1>4. getLastTerm(n) = restoreLogTerm(n, getLastIndex(n))
  <2>1. Len(log[n]) \in Nat /\ Len(log[n]) > 0 /\ lastIncludeIndex[n] \in Nat
    BY LenProperties DEF LogOK, LogTypeOK, LocalTypeOK
  <2>2. getLastIndex(n) = Len(log[n]) - 1 + lastIncludeIndex[n]
    BY DEF getLastIndex
  <2>3. CASE Len(log[n]) = 1
    <3>1. getLastIndex(n) = lastIncludeIndex[n]
      BY <2>1, <2>2, <2>3
    <3> QED
      BY <2>3, <3>1 DEF getLastTerm, restoreLogTerm
  <2>4. CASE Len(log[n]) # 1
    <3> DEFINE len == Len(log[n])
               base == lastIncludeIndex[n]
               last == getLastIndex(n)
    <3> HIDE DEF len, base, last
    <3>1. len \in Nat /\ base \in Nat /\ last = len - 1 + base /\ len # 1
      BY <2>1, <2>2, <2>4 DEF len, base, last
    <3>2. last # base /\ last - base + 1 = len
      BY <3>1
    <3>3. /\ getLastIndex(n) # lastIncludeIndex[n]
          /\ getLastIndex(n) - lastIncludeIndex[n] + 1 = Len(log[n])
      BY <3>2 DEF len, base, last
    <3> QED
      BY <2>4, <3>3 DEF getLastTerm, restoreLogTerm, restoreLog, lastLog
  <2> QED
    BY <2>3, <2>4
<1> QED
  BY <1>1, <1>2, <1>3, <1>4

\* Snapshot compacts the log of its server.
LEMMA SnapshotShrinks ==
  ASSUME LogOK, LogOK', TermsBounded, NEW n \in Server, NEW data \in SnapshotData,
         SnapshotTaken(n, data.Index, data)
  PROVE  OneLog(n)
<1> DEFINE index == data.Index
<1>1. /\ lastIncludeIndex[n] < index /\ index <= getLastIndex(n) + 1
      /\ log' = [log EXCEPT ![n] = TruncateTo(n, index)]
      /\ lastIncludeTerm' = [lastIncludeTerm EXCEPT ![n] =
           IF index = getLastIndex(n) + 1 THEN getLastTerm(n) ELSE restoreLogTerm(n, index)]
      /\ lastIncludeIndex' = [lastIncludeIndex EXCEPT ![n] = index]
      /\ currentTerm' = currentTerm
  BY DEF SnapshotTaken, electionVars
<1>2. index \in Nat /\ lastIncludeIndex[n] \in Nat /\ getLastIndex(n) \in Nat
  BY ReadsInRange DEF SnapshotData, ReadsOK, LogOK, LocalTypeOK
<1> HIDE DEF index
<1>3. \A p \in Server \ {n} : Kept(p)
  BY <1>1, LogNotTouched DEF LogOK, LogTypeOK, LocalTypeOK
<1>4. /\ log'[n] = TruncateTo(n, index) /\ lastIncludeIndex'[n] = index
      /\ lastIncludeTerm'[n] = IF index = getLastIndex(n) + 1 THEN getLastTerm(n)
                               ELSE restoreLogTerm(n, index)
  BY <1>1 DEF LogOK, LogTypeOK, LocalTypeOK
<1>5. Part(LogSegment(n)', LogSegment(n))
  BY <1>1, <1>2, <1>4, TruncateLeavesPart
<1>6. lastIncludeTerm'[n] <= currentTerm'[n]
  BY <1>1, <1>2, <1>4, LastTermBounded DEF TermsBounded
<1> QED
  BY <1>3, <1>5, <1>6 DEF OneLog, Shrunk

\* InstallSnapShot does, where the terms fit.
LEMMA InstallShrinks ==
  ASSUME LogOK, LogOK', TermsBounded, Fits, NEW m \in requests, m.type = "InstallSnapShot",
         m \in InstallSnapShotMessage, InstallNew(m)
  PROVE  OneLog(m.to)
<1> DEFINE n == m.to
           index == m.LastIncludeIndex
<1>1. n \in Server /\ index \in Nat
  BY DEF InstallSnapShotMessage
<1>2. /\ lastIncludeIndex[n] < index
      /\ log' = [log EXCEPT ![n] = TruncateTo(n, index)]
      /\ lastIncludeIndex' = [lastIncludeIndex EXCEPT ![n] = index]
      /\ lastIncludeTerm' = [lastIncludeTerm EXCEPT ![n] = m.LastIncludeTerm]
      /\ currentTerm' = [currentTerm EXCEPT ![n] = m.Term]
  BY DEF InstallNew, SnapshotHeard
<1>3. m.LastIncludeTerm <= m.Term
  BY DEF TermsBounded, SnapshotBounded
<1> HIDE DEF n, index
<1>4. \A p \in Server \ {n} : Kept(p)
  BY <1>2, LogNotTouched DEF LogOK, LogTypeOK, LocalTypeOK
<1>5. /\ log'[n] = TruncateTo(n, index) /\ lastIncludeIndex'[n] = index
      /\ lastIncludeTerm'[n] = m.LastIncludeTerm /\ currentTerm'[n] = m.Term
  BY <1>1, <1>2 DEF LogOK, LogTypeOK, LocalTypeOK
<1>6. index < getLastIndex(n) => lastIncludeTerm'[n] = restoreLogTerm(n, index)
  BY <1>1, <1>2, <1>5 DEF Fits, SuffixFits, LogOK, LocalTypeOK
<1>7. Part(LogSegment(n)', LogSegment(n))
  BY <1>1, <1>2, <1>5, <1>6, TruncateLeavesPart
<1>8. lastIncludeTerm'[n] <= currentTerm'[n]
  BY <1>3, <1>5
<1> QED
  BY <1>4, <1>7, <1>8 DEF OneLog, Shrunk, n

\* A restart reads back the log it had.
LEMMA MakeKeepsLog ==
  ASSUME Inv, NEW n \in Server, NEW stable, NEW lost, Make(n, stable, lost),
         stable.log = raftstate[n].log,
         stable.lastIncludeIndex = raftstate[n].lastIncludeIndex,
         stable.lastIncludeTerm = raftstate[n].lastIncludeTerm
  PROVE  OneLog(n)
<1>1. /\ log \in [Server -> Seq(Entry)] /\ lastIncludeIndex \in [Server -> Nat]
      /\ lastIncludeTerm \in [Server -> Nat] /\ raftstate[n] = RaftState(n)
  BY DEF Inv, RaftInv, LocalInv, LocalTypeOK, LogTypeOK, StableStateCurrent
<1>2. /\ stable.log = log[n] /\ stable.lastIncludeIndex = lastIncludeIndex[n]
      /\ stable.lastIncludeTerm = lastIncludeTerm[n]
  BY <1>1 DEF RaftState
<1>3. \A p \in Server : log'[p] = log[p] /\ lastIncludeIndex'[p] = lastIncludeIndex[p]
                         /\ lastIncludeTerm'[p] = lastIncludeTerm[p]
  BY <1>1, <1>2 DEF Make, readPersist
<1> QED
  BY <1>3, LogNotTouched DEF OneLog

\* A step changes one log at most, and in one of three ways.
LEMMA LogsStep ==
  Inv /\ Inv' /\ TermsBounded /\ Fits /\ [Next]_vars => \E n \in Server : OneLog(n)
<1> SUFFICES ASSUME Inv, Inv', TermsBounded, Fits, [Next]_vars
             PROVE  \E n \in Server : OneLog(n)
  OBVIOUS
<1>1. LogOK /\ LogOK' /\ NetInv
  BY DEF Inv, RaftInv, LocalInv, LogOK
<1>2. UNCHANGED logVars => \E n \in Server : OneLog(n)
  BY NoLogTouched
<1>3. CASE RequestVoteCall \/ RequestVoteReturn
  <2>1. UNCHANGED logVars
    BY <1>3 DEF RequestVoteCall, RequestVote, RequestVoteStale, RequestVoteCurrent,
       RequestVoteReturn, candidateRequestVote, VoteNewerTerm, VoteIgnored, VoteCounted,
       BecomeLeader, logVars
  <2> QED
    BY <1>2, <2>1
<1>4. CASE AppendEntriesCall
  <2>1. PICK m \in AppendRequests : AppendEntries(m)
    BY <1>4 DEF AppendEntriesCall, AppendRequests
  <2>2. m \in AppendEntriesMessage /\ m.to \in Server
    BY AppendRequestsTyped DEF AppendEntriesMessage
  <2>3. CASE AppendAccept(m)
    BY <1>1, <2>2, <2>3, AcceptJoins
  <2>4. CASE ~AppendAccept(m)
    <3>1. UNCHANGED logVars
      BY <2>1, <2>4 DEF AppendEntries, AppendNewerTerm, AppendStale, AppendBehindSnapshot,
         AppendMissing, AppendConflict, CurrentLeaderHeard, logVars
    <3> QED
      BY <1>2, <3>1
  <2> QED
    BY <2>3, <2>4
<1>5. CASE InstallSnapShotCall
  <2>1. PICK m \in requests : m.type = "InstallSnapShot" /\ InstallSnapShot(m)
    BY <1>5 DEF InstallSnapShotCall
  <2>2. m \in InstallSnapShotMessage /\ m.to \in Server
    BY <1>1, <2>1, RequestFields DEF NetInv
  <2>3. CASE InstallNew(m)
    BY <1>1, <2>1, <2>2, <2>3, InstallShrinks
  <2>4. CASE InstallStale(m) \/ InstallOld(m)
    BY <1>2, <2>4 DEF InstallStale, InstallOld
  <2> QED
    BY <2>1, <2>3, <2>4 DEF InstallSnapShot
<1>6. CASE AppendEntriesReturn \/ InstallSnapShotReturn
  <2>1. UNCHANGED logVars
    BY <1>6 DEF AppendEntriesReturn, leaderSendEntries, AppendReplyNewerTerm, AppendReplyStale,
       AppendReplyCurrent, InstallSnapShotReturn, SnapshotReply, SnapshotReplyStale,
       SnapshotReplyNewerTerm, SnapshotReplyCurrent, logVars
  <2> QED
    BY <1>2, <2>1
<1>7. CASE SendSnapShot \/ Apply \/ ServiceReceives
  <2>1. UNCHANGED logVars
    BY <1>7 DEF SendSnapShot, leaderSendSnapShot, Apply, applier, ServiceReceives, applierSnap,
       Received, logVars
  <2> QED
    BY <1>2, <2>1
<1>8. CASE ServiceSnapshots
  <2> PICK n \in Server : SnapshotCall(n)
    BY <1>8 DEF ServiceSnapshots
  <2>1. PICK data \in snapCall[n] :
          Snapshot(n, data.Index, data) \/ SnapshotPanics(n, data.Index)
    BY DEF SnapshotCall
  <2>2. data \in SnapshotData
    BY DEF Inv, ServiceTypeOK
  <2>3. CASE SnapshotTaken(n, data.Index, data)
    BY <1>1, <2>2, <2>3, SnapshotShrinks
  <2>4. CASE SnapshotIgnored(n, data.Index) \/ SnapshotPanics(n, data.Index)
    <3>1. UNCHANGED logVars
      BY <2>4 DEF SnapshotIgnored, SnapshotPanics, raftVars, logVars
    <3> QED
      BY <1>2, <3>1
  <2> QED
    BY <2>1, <2>3, <2>4 DEF Snapshot
<1>9. ASSUME NEW n \in Server, Tick(n) \/ Timeout(n) PROVE \E p \in Server : OneLog(p)
  BY <1>2, <1>9 DEF Tick, Heartbeat, Timeout, leaderElection
<1>10. ASSUME NEW n \in Server, NEW command \in Command, ClientStart(n, command)
       PROVE  \E p \in Server : OneLog(p)
  BY <1>1, <1>10, StartGrows DEF ClientStart
<1>11. ASSUME NEW n \in Server, Crash(n) PROVE OneLog(n)
  BY <1>11, MakeKeepsLog DEF Crash, Restart
<1>12. ASSUME NEW m \in requests, CrashInHandler(m) PROVE \E n \in Server : OneLog(n)
  <2>1. m.to \in Server
    BY <1>1, RequestFields DEF NetInv
  <2>2. Make(m.to, FirstPersist(m), {m})
    BY <1>12 DEF CrashInHandler, RestartInRequestVote, RestartInInstallSnapShot
  <2>3. raftstate[m.to] \in StableState
    BY <2>1 DEF Inv, RaftInv, LocalInv, StableTypeOK
  <2>4. /\ FirstPersist(m).log = raftstate[m.to].log
        /\ FirstPersist(m).lastIncludeIndex = raftstate[m.to].lastIncludeIndex
        /\ FirstPersist(m).lastIncludeTerm = raftstate[m.to].lastIncludeTerm
    BY <2>3 DEF FirstPersist, StableState
  <2> QED
    BY <2>1, <2>2, <2>4, MakeKeepsLog
<1>13. CASE UNCHANGED vars
  BY <1>2, <1>13 DEF vars, raftVars
<1> QED
  BY <1>3, <1>4, <1>5, <1>6, <1>7, <1>8, <1>9, <1>10, <1>11, <1>12, <1>13 DEF Next

-----------------------------------------------------------------------------
(* Who leads, and who writes entries.                                      *)

\* No step takes back that a vote was forgotten.
LEMMA ClearedGrows == [Next]_vars => cleared \subseteq cleared'
<1> SUFFICES ASSUME [Next]_vars PROVE cleared \subseteq cleared'
  OBVIOUS
<1>1. CASE RequestVoteCall \/ RequestVoteReturn
  BY <1>1 DEF RequestVoteCall, RequestVote, RequestVoteStale, RequestVoteCurrent,
     RequestVoteReturn, candidateRequestVote, VoteNewerTerm, VoteIgnored, VoteCounted,
     BecomeLeader, historyVars
<1>2. CASE AppendEntriesCall
  BY <1>2 DEF AppendEntriesCall, AppendEntries, AppendNewerTerm, AppendStale,
     AppendBehindSnapshot, AppendMissing, AppendConflict, AppendAccept, CurrentLeaderHeard,
     historyVars
<1>3. CASE InstallSnapShotCall
  BY <1>3 DEF InstallSnapShotCall, InstallSnapShot, InstallStale, InstallOld, InstallNew,
     SnapshotHeard, historyVars
<1>4. CASE AppendEntriesReturn \/ InstallSnapShotReturn
  BY <1>4 DEF AppendEntriesReturn, leaderSendEntries, AppendReplyNewerTerm, AppendReplyStale,
     AppendReplyCurrent, InstallSnapShotReturn, SnapshotReply, SnapshotReplyStale,
     SnapshotReplyNewerTerm, SnapshotReplyCurrent, historyVars
<1>5. CASE SendSnapShot \/ Apply \/ ServiceReceives \/ ServiceSnapshots
  BY <1>5 DEF SendSnapShot, leaderSendSnapShot, Apply, applier, ServiceReceives, applierSnap,
     Received, ServiceSnapshots, SnapshotCall, Snapshot, SnapshotIgnored, SnapshotPanics,
     SnapshotTaken, raftVars, historyVars
<1>6. ASSUME NEW n \in Server, Tick(n) \/ Timeout(n) PROVE cleared \subseteq cleared'
  BY <1>6 DEF Tick, Heartbeat, Timeout, leaderElection, historyVars
<1>7. ASSUME NEW n \in Server, NEW command \in Command, ClientStart(n, command)
      PROVE  cleared \subseteq cleared'
  BY <1>7 DEF ClientStart, Start, historyVars
<1>8. ASSUME NEW n \in Server, Crash(n) PROVE cleared \subseteq cleared'
  BY <1>8 DEF Crash, Restart
<1>9. ASSUME NEW m \in requests, CrashInHandler(m) PROVE cleared \subseteq cleared'
  BY <1>9 DEF CrashInHandler, RestartInRequestVote, RestartInInstallSnapShot
<1>10. CASE UNCHANGED vars
  BY <1>10 DEF vars, raftVars, historyVars
<1> QED
  BY <1>1, <1>2, <1>3, <1>4, <1>5, <1>6, <1>7, <1>8, <1>9, <1>10 DEF Next

\* A leader led or campaigned for its term; a candidate campaigned for it, or
\* the term is new to it.
Promoted(n) ==
  /\ state'[n] = Leader =>
       state[n] \in {Leader, Candidate} /\ currentTerm'[n] = currentTerm[n]
  /\ state'[n] = Candidate =>
       \/ state[n] = Candidate /\ currentTerm'[n] = currentTerm[n]
       \/ currentTerm'[n] = currentTerm[n] + 1

\* n becomes a follower, or stays what it is in its term.
Demoted(n) ==
  \/ state'[n] = Follower
  \/ state'[n] = state[n] /\ currentTerm'[n] = currentTerm[n]

\* Stepping down promotes nobody.
LEMMA DemotedPromoted ==
  ASSUME ElectionTypes, NEW n \in Server, Demoted(n)
  PROVE  Promoted(n)
BY DEF ElectionTypes, Demoted, Promoted, Follower, Candidate, Leader

\* Nobody becomes a leader but a candidate, in its term.
LEMMA PromotionStep ==
  Inv /\ [Next]_vars => \A n \in Server : Promoted(n)
<1> SUFFICES ASSUME Inv, [Next]_vars, NEW n \in Server PROVE Promoted(n)
  OBVIOUS
<1>1. /\ ElectionTypes /\ NetInv
      /\ state \in [Server -> {Follower, Candidate, Leader}] /\ currentTerm \in [Server -> Nat]
  BY InvTypes DEF Inv, RaftInv, ElectionTypes
<1>2. Demoted(n) => Promoted(n)
  BY <1>1, DemotedPromoted
<1>3. ASSUME NEW p, NEW t, state' = [state EXCEPT ![p] = Follower],
             currentTerm' = [currentTerm EXCEPT ![p] = t]
      PROVE  Promoted(n)
  <2>1. CASE n = p
    <3>1. state'[n] = Follower
      BY <1>1, <1>3, <2>1
    <3> QED
      BY <1>2, <3>1 DEF Demoted
  <2>2. CASE n # p
    BY <1>1, <1>2, <1>3, <2>2 DEF Demoted
  <2> QED
    BY <2>1, <2>2
<1>4. ASSUME NEW p, NEW term, setNewTerm(p, term) PROVE Promoted(n)
  <2>1. CASE UNCHANGED <<state, currentTerm>>
    BY <1>2, <2>1 DEF Demoted
  <2> QED
    BY <1>3, <1>4, <2>1 DEF setNewTerm
<1>5. CASE UNCHANGED <<state, currentTerm>>
  BY <1>2, <1>5 DEF Demoted
<1>6. CASE RequestVoteCall
  <2>1. PICK m \in requests : m.type = "RequestVote" /\ RequestVote(m)
    BY <1>6 DEF RequestVoteCall
  <2>2. CASE RequestVoteStale(m)
    BY <1>2, <2>2 DEF RequestVoteStale, electionVars, Demoted
  <2>3. CASE RequestVoteCurrent(m)
    <3>1. m.to \in Server /\ m.Term \in Nat
      BY <1>1, RequestFields DEF NetInv
    <3>2. CASE m.Term > currentTerm[m.to]
      BY <1>3, <2>3, <3>2 DEF RequestVoteCurrent
    <3>3. CASE ~(m.Term > currentTerm[m.to])
      <4>1. state' = state /\ currentTerm' = [currentTerm EXCEPT ![m.to] = m.Term]
        BY <2>3, <3>3 DEF RequestVoteCurrent
      <4>2. m.Term = currentTerm[m.to]
        BY <1>1, <2>3, <3>1, <3>3 DEF RequestVoteCurrent
      <4> QED
        BY <1>1, <1>5, <4>1, <4>2
    <3> QED
      BY <3>2, <3>3
  <2> QED
    BY <2>1, <2>2, <2>3 DEF RequestVote
<1>7. CASE AppendEntriesCall
  <2>1. PICK m \in requests : m.type = "AppendEntries" /\ AppendEntries(m)
    BY <1>7 DEF AppendEntriesCall
  <2>2. CASE AppendNewerTerm(m)
    BY <1>4, <2>2 DEF AppendNewerTerm
  <2>3. CASE AppendStale(m)
    BY <1>5, <2>3 DEF AppendStale, electionVars
  <2>4. CASE CurrentLeaderHeard(m)
    BY <1>1, <1>2, <2>4 DEF CurrentLeaderHeard, Demoted
  <2> QED
    BY <2>1, <2>2, <2>3, <2>4 DEF AppendEntries, AppendBehindSnapshot, AppendMissing,
       AppendConflict, AppendAccept
<1>8. CASE InstallSnapShotCall
  <2>1. PICK m \in requests : m.type = "InstallSnapShot" /\ InstallSnapShot(m)
    BY <1>8 DEF InstallSnapShotCall
  <2>2. CASE InstallStale(m)
    BY <1>5, <2>2 DEF InstallStale, electionVars
  <2>3. CASE SnapshotHeard(m)
    BY <1>3, <2>3 DEF SnapshotHeard
  <2> QED
    BY <2>1, <2>2, <2>3 DEF InstallSnapShot, InstallOld, InstallNew
<1>9. CASE RequestVoteReturn
  <2>1. PICK m \in replies : m.type = "RequestVoteReply" /\ candidateRequestVote(m)
    BY <1>9 DEF RequestVoteReturn
  <2>2. CASE VoteNewerTerm(m)
    BY <1>4, <2>2 DEF VoteNewerTerm
  <2>3. CASE VoteIgnored(m)
    BY <1>5, <2>3 DEF VoteIgnored, electionVars
  <2>4. CASE VoteCounted(m)
    <3>1. CASE state[m.to] = Candidate /\ BecomeLeader(m.to, m)
      <4>1. state' = [state EXCEPT ![m.to] = Leader] /\ currentTerm' = currentTerm
        BY <3>1 DEF BecomeLeader
      <4> QED
        BY <1>1, <3>1, <4>1 DEF Promoted, Candidate, Leader
    <3> QED
      BY <1>5, <2>4, <3>1 DEF VoteCounted
  <2> QED
    BY <2>1, <2>2, <2>3, <2>4 DEF candidateRequestVote
<1>10. CASE AppendEntriesReturn
  BY <1>4, <1>5, <1>10 DEF AppendEntriesReturn, leaderSendEntries, AppendReplyNewerTerm,
     AppendReplyStale, AppendReplyCurrent, electionVars
<1>11. CASE InstallSnapShotReturn
  <2>1. PICK m \in replies : SnapshotReply(m)
    BY <1>11 DEF InstallSnapShotReturn
  <2>2. CASE SnapshotReplyNewerTerm(m)
    BY <1>1, <1>2, <2>2 DEF SnapshotReplyNewerTerm, Demoted
  <2> QED
    BY <1>5, <2>1, <2>2 DEF SnapshotReply, SnapshotReplyStale, SnapshotReplyCurrent, electionVars
<1>12. CASE SendSnapShot \/ Apply \/ ServiceReceives \/ ServiceSnapshots
  BY <1>5, <1>12 DEF SendSnapShot, leaderSendSnapShot, Apply, applier, ServiceReceives,
     applierSnap, Received, ServiceSnapshots, SnapshotCall, Snapshot, SnapshotIgnored,
     SnapshotPanics, SnapshotTaken, raftVars, electionVars
<1>13. ASSUME NEW p \in Server, Tick(p) PROVE Promoted(n)
  BY <1>5, <1>13 DEF Tick, Heartbeat, electionVars
<1>14. ASSUME NEW p \in Server, Timeout(p) PROVE Promoted(n)
  <2>1. /\ currentTerm' = [currentTerm EXCEPT ![p] = @ + 1]
        /\ state' = [state EXCEPT ![p] = Candidate]
    BY <1>14 DEF Timeout, leaderElection
  <2>2. CASE n = p
    BY <1>1, <2>1, <2>2 DEF Promoted, Candidate, Leader
  <2>3. CASE n # p
    BY <1>1, <1>2, <2>1, <2>3 DEF Demoted
  <2> QED
    BY <2>2, <2>3
<1>15. ASSUME NEW p \in Server, NEW command \in Command, ClientStart(p, command)
       PROVE  Promoted(n)
  BY <1>5, <1>15 DEF ClientStart, Start, electionVars
<1>16. ASSUME NEW p, NEW stable, NEW lost, Make(p, stable, lost) PROVE Promoted(n)
  BY <1>3, <1>16 DEF Make, readPersist
<1>17. CASE \E p \in Server : Crash(p)
  BY <1>16, <1>17 DEF Crash, Restart
<1>18. CASE \E m \in requests : CrashInHandler(m)
  BY <1>16, <1>18 DEF CrashInHandler, RestartInRequestVote, RestartInInstallSnapShot
<1>19. CASE UNCHANGED vars
  BY <1>5, <1>19 DEF vars, raftVars, electionVars
<1> QED
  BY <1>6, <1>7, <1>8, <1>9, <1>10, <1>11, <1>12, <1>13, <1>14, <1>15, <1>17, <1>18, <1>19 DEF Next

\* Two majorities for one term need a vote that was forgotten.
RivalsOK ==
  \A a, b \in Server : \A t \in Nat :
    /\ a # b
    /\ IsMajority(Cardinality(Voters(a, t))) /\ IsMajority(Cardinality(Voters(b, t)))
    => ~Clean(t, cleared)

\* Two servers with a majority in one term: a vote was forgotten in it.
LEMMA RivalsNotClean == ElectionInv => RivalsOK
<1> SUFFICES ASSUME ElectionInv, NEW a \in Server, NEW b \in Server, NEW t \in Nat, a # b,
                    IsMajority(Cardinality(Voters(a, t))), IsMajority(Cardinality(Voters(b, t)))
             PROVE  ~Clean(t, cleared)
  BY DEF RivalsOK
<1>1. \E q \in Server : <<q, t>> \in cleared
  BY RivalsNeedClearedVote DEF ElectionInv, BallotsOK
<1> QED
  BY <1>1 DEF Clean

\* The same in the state that a step leaves behind.
LEMMA PrimedRivals == ElectionInv' => RivalsOK'
BY RivalsNotClean, PTL

\* A majority of ballots stays one.
LEMMA MajorityStays ==
  ASSUME ballots \subseteq ballots', NEW c, NEW t, IsMajority(Cardinality(Voters(c, t)))
  PROVE  IsMajority(Cardinality(Voters(c, t)))'
<1> DEFINE S == Voters(c, t)
           T == {p \in Server : <<p, t, c>> \in ballots'}
<1>1. S \subseteq T /\ T \subseteq Server
  BY DEF Voters
<1>2. Cardinality(S) \in Nat /\ Cardinality(T) \in Nat /\ Cardinality(S) <= Cardinality(T)
  BY <1>1, VotersFinite
<1>3. IsMajority(Cardinality(T))
  BY <1>2, MajorityGrows
<1> QED
  BY <1>3 DEF Voters, IsMajority

\* Whoever was elected for a term stays so: it never campaigns for it again.
LEMMA ElectedStays ==
  ASSUME Inv, ElectionInv, [Next]_vars, NEW c \in Server, NEW t \in Nat, Elected(c, t)
  PROVE  Elected(c, t)'
<1>1. IsMajority(Cardinality(Voters(c, t)))'
  BY BallotsGrow, MajorityStays DEF Elected
<1>2. ASSUME currentTerm'[c] = t, state'[c] = Candidate PROVE FALSE
  <2>1. currentTerm \in [Server -> Nat] /\ Cardinality(Server) \in Nat
    BY InvTypes, ServerAssumption, FS_CardinalityType DEF ElectionTypes
  <2>2. Voters(c, t) # {}
    <3>1. Cardinality({}) = 0
      BY FS_EmptySet
    <3> QED
      BY <2>1, <3>1 DEF Elected, IsMajority
  <2>3. t <= currentTerm[c]
    BY <2>2 DEF Voters, ElectionInv, BallotsOK, BallotsPast
  <2>4. \/ state[c] = Candidate /\ currentTerm'[c] = currentTerm[c]
        \/ currentTerm'[c] = currentTerm[c] + 1
    BY <1>2, PromotionStep DEF Promoted
  <2> QED
    BY <1>2, <2>1, <2>3, <2>4 DEF Elected
<1> QED
  BY <1>1, <1>2 DEF Elected

\* A leader was elected for its term.
LEMMA LeaderElected ==
  ASSUME ElectionInv, NEW n \in Server, state[n] = Leader
  PROVE  Elected(n, currentTerm[n])
BY DEF ElectionInv, LeaderHasMajority, Elected, Voters, Leader, Candidate

-----------------------------------------------------------------------------
(* Where the entries of the next state come from.                          *)

\* The entry at i was known before.
OldEntry(q, i) == \E s \in KnownSegments : Has(s, i) /\ s.at[i] = q.at[i]

\* A leader has just written it.
NewEntry(q, i) ==
  \E n \in Server :
    state[n] = Leader /\ q.at[i].Term = currentTerm[n] /\ i = getLastIndex(n)'

\* Every entry of a log is an old one, or the one that Start has appended.
LEMMA LogEntries ==
  ASSUME Inv, Inv', NEW n \in Server, OneLog(n), NEW p \in Server, NEW i \in Nat,
         Has(LogSegment(p)', i)
  PROVE  OldEntry(LogSegment(p)', i) \/ NewEntry(LogSegment(p)', i)
<1> DEFINE q == LogSegment(p)'
           s == LogSegment(p)
<1>1. SegmentsOK /\ SegmentsOK' /\ s \in KnownSegments /\ q \in KnownSegments'
  BY SegmentsTyped, PrimedSegments DEF KnownSegments, LogSegments
<1>2. IsSegment(q) /\ IsSegment(s) /\ q.last = getLastIndex(p)'
  BY <1>1, PrimedSegments DEF SegmentsOK, LogSegmentsOK, LogOK, Inv, RaftInv, LocalInv
<1>3. \/ q = s \/ Part(q, s)
      \/ state[p] = Leader /\ Extended(q, s, currentTerm[p])
      \/ \E m \in AppendRequests : Merged(q, s, SegmentOf(m))
  BY DEF OneLog, Kept, Shrunk, Grown, Joined
<1>4. Has(q, i)
  OBVIOUS
<1> SUFFICES OldEntry(q, i) \/ NewEntry(q, i)
  OBVIOUS
<1> HIDE DEF q, s
<1>5. CASE q = s
  BY <1>1, <1>4, <1>5 DEF OldEntry
<1>6. CASE Part(q, s)
  <2>1. Within(q, s) /\ i \in q.base..q.last
    BY <1>2, <1>4, <1>6 DEF Part, Has, IsSegment
  <2> QED
    BY <1>1, <1>2, <1>4, <2>1, WithinTerms DEF OldEntry
<1>7. CASE state[p] = Leader /\ Extended(q, s, currentTerm[p])
  <2>1. CASE i = q.last
    BY <1>2, <1>7, <2>1 DEF Extended, NewEntry
  <2>2. CASE i # q.last
    <3>1. Has(s, i) /\ q.at[i] = s.at[i]
      BY <1>2, <1>4, <1>7, <2>2 DEF Extended, Has, IsSegment
    <3> QED
      BY <1>1, <3>1 DEF OldEntry
  <2> QED
    BY <2>1, <2>2
<1>8. ASSUME NEW m \in AppendRequests, Merged(q, s, SegmentOf(m)) PROVE OldEntry(q, i)
  <2> DEFINE c == SegmentOf(m)
  <2>1. c \in KnownSegments /\ IsSegment(c)
    BY <1>1 DEF KnownSegments, SentSegments, SegmentsOK
  <2> HIDE DEF c
  <2>2. /\ \A k \in q.base..c.base : Has(q, k) => Has(s, k) /\ q.at[k] = s.at[k]
        /\ \A k \in (c.base + 1)..c.last : Has(c, k) /\ q.at[k] = c.at[k]
    BY <1>2, <1>8, <2>1, MergedTerms DEF c
  <2>3. q.last = c.last
    BY <1>8 DEF Merged, c
  <2>4. i \in q.base..c.base \/ i \in (c.base + 1)..c.last
    BY <1>2, <1>4, <2>1, <2>3 DEF Has, IsSegment
  <2> QED
    BY <1>1, <1>4, <2>1, <2>2, <2>4 DEF OldEntry
<1> QED
  BY <1>3, <1>5, <1>6, <1>7, <1>8

\* So is every entry of a request.
LEMMA EntriesStep ==
  ASSUME Inv, Inv', NEW n \in Server, OneLog(n), RequestsCarried,
         NEW q \in KnownSegments', NEW i \in Nat, Has(q, i)
  PROVE  OldEntry(q, i) \/ NewEntry(q, i)
<1>1. SegmentsOK /\ SegmentsOK'
  BY SegmentsTyped, PrimedSegments
<1>2. ASSUME NEW s, IsSegment(s), Within(q, s) PROVE Has(s, i) /\ q.at[i] = s.at[i]
  <2>1. IsSegment(q) /\ i \in q.base..q.last
    BY <1>1 DEF SegmentsOK, Has, IsSegment
  <2> QED
    BY <1>2, <2>1, WithinTerms
<1>3. CASE q \in LogSegments'
  BY <1>3, LogEntries DEF LogSegments
<1>4. CASE q \in SentSegments'
  <2>1. PICK r \in AppendRequests' : q = SegmentOf(r)
    BY <1>4 DEF SentSegments, SegmentOf
  <2>2. CASE Copied(r)
    BY <2>1, <2>2 DEF Copied, OldEntry, KnownSegments, SentSegments
  <2>3. ASSUME NEW p \in Server, Within(q, LogSegment(p)) PROVE OldEntry(q, i)
    BY <1>1, <1>2, <2>3 DEF OldEntry, KnownSegments, LogSegments, SegmentsOK
  <2>4. ASSUME NEW p \in Server, Within(q, LogSegment(p)')
        PROVE  OldEntry(q, i) \/ NewEntry(q, i)
    <3> DEFINE s == LogSegment(p)'
    <3>1. IsSegment(s)
      BY <1>1 DEF SegmentsOK, KnownSegments, LogSegments
    <3>2. Has(s, i) /\ q.at[i] = s.at[i]
      BY <1>2, <2>4, <3>1
    <3>3. OldEntry(s, i) \/ NewEntry(s, i)
      BY <3>2, LogEntries
    <3> HIDE DEF s
    <3> QED
      BY <3>2, <3>3 DEF OldEntry, NewEntry
  <2> QED
    BY <2>1, <2>2, <2>3, <2>4 DEF RequestsCarried, Carried, CutFrom
<1> QED
  BY <1>3, <1>4 DEF KnownSegments

-----------------------------------------------------------------------------
(* The invariant is kept.                                                  *)

\* What a step may be assumed to do.
StepOK ==
  /\ Inv /\ Inv' /\ ElectionInv /\ ElectionInv' /\ AppendsFromLeaders
  /\ Fits /\ [Next]_vars

\* Every entry has a server that was elected for its term.
LEMMA OwnedStep == StepOK /\ LogInv => Owned'
<1> SUFFICES ASSUME StepOK, LogInv, NEW q \in KnownSegments', NEW i \in Nat, Has(q, i),
                    Clean(q.at[i].Term, cleared')
             PROVE  \E c \in Server : Elected(c, q.at[i].Term)'
  BY DEF Owned
<1> DEFINE t == q.at[i].Term
<1>1. t \in Nat
  BY PrimedSegments DEF StepOK, SegmentsOK, IsSegment, Has
<1>2. Clean(t, cleared)
  BY ClearedGrows DEF StepOK, Clean
<1>3. PICK n \in Server : OneLog(n)
  BY LogsStep DEF StepOK, LogInv
<1>4. OldEntry(q, i) \/ NewEntry(q, i)
  BY <1>3, RequestsStep, EntriesStep DEF StepOK
<1>5. \E c \in Server : Elected(c, t)
  <2>1. CASE OldEntry(q, i)
    BY <1>2, <2>1 DEF OldEntry, LogInv, Owned
  <2>2. CASE NewEntry(q, i)
    BY <2>2, LeaderElected DEF NewEntry, StepOK
  <2> QED
    BY <1>4, <2>1, <2>2
<1> HIDE DEF t
<1>6. \E c \in Server : Elected(c, t)'
  BY <1>1, <1>5, ElectedStays DEF StepOK
<1> QED
  BY <1>6 DEF t

\* A leader has every index at which an entry of its term is.
LEMMA CompleteStep == StepOK /\ LogInv => Complete'
<1> SUFFICES ASSUME StepOK, LogInv, NEW p \in Server, state'[p] = Leader,
                    Clean(currentTerm'[p], cleared'), NEW q \in KnownSegments', NEW i \in Nat,
                    Has(q, i), q.at[i].Term = currentTerm'[p]
             PROVE  i <= getLastIndex(p)'
  BY DEF Complete
<1> PICK t \in Nat : t = currentTerm[p]
  BY InvTypes DEF StepOK, ElectionTypes
<1>1. currentTerm'[p] = t /\ state[p] \in {Leader, Candidate}
  BY PromotionStep DEF StepOK, Promoted
<1>2. Clean(t, cleared) /\ Clean(t, cleared')
  BY <1>1, ClearedGrows DEF StepOK, Clean
<1>3. PICK n \in Server : OneLog(n)
  BY LogsStep DEF StepOK, LogInv
<1>4. OldEntry(q, i) \/ NewEntry(q, i)
  BY <1>3, RequestsStep, EntriesStep DEF StepOK
<1>5. IsMajority(Cardinality(Voters(p, t)))'
  BY <1>1 DEF StepOK, ElectionInv, LeaderHasMajority, Voters, IsMajority
<1>6. ASSUME NEW c \in Server, c # p PROVE ~IsMajority(Cardinality(Voters(c, t)))
  <2> SUFFICES ASSUME IsMajority(Cardinality(Voters(c, t))) PROVE FALSE
    OBVIOUS
  <2>1. IsMajority(Cardinality(Voters(c, t)))'
    BY BallotsGrow, MajorityStays DEF StepOK
  <2> QED
    BY <1>1, <1>2, <1>5, <1>6, <2>1, PrimedRivals DEF StepOK, RivalsOK, Voters, IsMajority
<1>7. CASE OldEntry(q, i)
  <2>1. PICK s \in KnownSegments : Has(s, i) /\ s.at[i] = q.at[i]
    BY <1>7 DEF OldEntry
  <2>2. CASE state[p] = Leader
    <3>1. i <= getLastIndex(p)
      BY <1>1, <1>2, <2>1, <2>2 DEF LogInv, Complete
    <3>2. ~Overruled(p)
      <4>1. ASSUME Overruled(p) PROVE FALSE
        <5>1. PICK c \in Server : <<c, t>> \in cleared
          BY <2>2, <4>1, OverruledNeedsClearedVote DEF StepOK
        <5>2. <<c, t>>[2] > t
          BY <1>2, <5>1 DEF Clean
        <5> QED
          BY <5>2
      <4> QED
        BY <4>1
    <3>3. getLastIndex(p)' >= getLastIndex(p)
      BY <3>2, LeaderLogStep DEF StepOK, OnlyAppended
    <3>4. getLastIndex(p) \in Nat /\ getLastIndex(p)' \in Nat
      BY ReadsInRange, PrimedReads DEF StepOK, Inv, RaftInv, LocalInv, LogOK, ReadsOK
    <3> QED
      BY <3>1, <3>3, <3>4
  <2>3. CASE state[p] = Candidate
    <3>1. s.at[i].Term = t
      BY <1>1, <2>1
    <3>2. PICK c \in Server : Elected(c, t)
      BY <1>2, <2>1, <3>1 DEF LogInv, Owned
    <3>3. c # p
      BY <2>3, <3>2 DEF Elected
    <3> QED
      BY <1>6, <3>2, <3>3 DEF Elected
  <2> QED
    BY <1>1, <2>2, <2>3
<1>8. CASE NewEntry(q, i)
  <2>1. PICK c \in Server : state[c] = Leader /\ t = currentTerm[c] /\ i = getLastIndex(c)'
    BY <1>1, <1>8 DEF NewEntry
  <2>2. c = p
    BY <1>6, <2>1, LeaderElected DEF StepOK, Elected
  <2>3. getLastIndex(p)' \in Nat
    BY PrimedReads DEF StepOK, Inv, RaftInv, LocalInv, LogOK, ReadsOK
  <2> QED
    BY <2>1, <2>2, <2>3
<1> QED
  BY <1>4, <1>7, <1>8

\* The terms of a log stay below its server's.
LEMMA LogBoundedStep ==
  ASSUME StepOK, LogInv, NEW n \in Server, OneLog(n), NEW p \in Server
  PROVE  LogBounded(p)'
<1> DEFINE q == LogSegment(p)'
           s == LogSegment(p)
           t == currentTerm[p]
           u == currentTerm'[p]
<1>1. SegmentsOK /\ SegmentsOK' /\ s \in KnownSegments /\ q \in KnownSegments'
  BY SegmentsTyped, PrimedSegments DEF StepOK, KnownSegments, LogSegments
<1>2. IsSegment(q) /\ IsSegment(s) /\ q.term = lastIncludeTerm'[p]
  BY <1>1, PrimedSegments DEF SegmentsOK, LogSegmentsOK, LogOK, StepOK, Inv, RaftInv, LocalInv
<1>3. t \in Nat /\ u \in Nat /\ t <= u
  BY TermsRise, InvTypes DEF StepOK, TermStep, Inv, RaftInv, LocalInv, LocalTypeOK
<1>4. Bounded(s, t)
  BY DEF LogInv, TermsBounded, LogBounded
<1>5. \/ q = s \/ (Part(q, s) /\ q.term <= u) \/ Extended(q, s, t)
      \/ \E m \in AppendRequests : m.Term = t /\ Merged(q, s, SegmentOf(m))
  BY <1>2 DEF OneLog, Kept, Shrunk, Grown, Joined
<1> SUFFICES Bounded(q, u)
  BY DEF LogBounded
<1> HIDE DEF q, s, t, u
<1>6. CASE q = s
  BY <1>2, <1>3, <1>4, <1>6, BoundedLater
<1>7. CASE Part(q, s) /\ q.term <= u
  BY <1>2, <1>3, <1>4, <1>7, PartBounded
<1>8. CASE Extended(q, s, t)
  BY <1>2, <1>3, <1>4, <1>8, ExtendedBounded, BoundedLater
<1>9. ASSUME NEW m \in AppendRequests, m.Term = t, Merged(q, s, SegmentOf(m))
      PROVE  Bounded(q, u)
  <2>1. IsSegment(SegmentOf(m)) /\ Bounded(SegmentOf(m), t)
    BY <1>1, <1>9 DEF SegmentsOK, KnownSegments, SentSegments, LogInv, TermsBounded, RequestBounded
  <2>2. Bounded(q, t)
    BY <1>2, <1>4, <1>9, <2>1, MergedBounded
  <2> QED
    BY <1>2, <1>3, <2>2, BoundedLater
<1> QED
  BY <1>5, <1>6, <1>7, <1>8, <1>9

\* So do those of the entries and snapshots under way.
LEMMA TermsBoundedStep == StepOK /\ LogInv => TermsBounded'
<1> SUFFICES ASSUME StepOK, LogInv PROVE TermsBounded'
  OBVIOUS
<1>1. SegmentsOK /\ SegmentsOK' /\ RequestsCarried /\ InstallsRead
  BY SegmentsTyped, PrimedSegments, RequestsStep, InstallsStep DEF StepOK
<1>2. \A p \in Server : LogBounded(p)'
  BY LogsStep, LogBoundedStep DEF StepOK, LogInv
<1>3. ASSUME NEW r \in AppendRequests' PROVE Bounded(SegmentOf(r), r.Term)
  <2>1. IsSegment(SegmentOf(r))
    BY <1>1 DEF SegmentsOK, KnownSegments, SentSegments, SegmentOf
  <2>2. CASE Copied(r)
    BY <2>2 DEF Copied, LogInv, TermsBounded, RequestBounded
  <2>3. ASSUME NEW p \in Server, Within(SegmentOf(r), LogSegment(p)), r.Term = currentTerm[p]
        PROVE  Bounded(SegmentOf(r), r.Term)
    BY <1>1, <2>1, <2>3, WithinBounded
       DEF SegmentsOK, KnownSegments, LogSegments, LogInv, TermsBounded, LogBounded
  <2>4. ASSUME NEW p \in Server, Within(SegmentOf(r), LogSegment(p)'), r.Term = currentTerm'[p]
        PROVE  Bounded(SegmentOf(r), r.Term)
    BY <1>1, <1>2, <2>1, <2>4, WithinBounded
       DEF SegmentsOK, KnownSegments, LogSegments, LogBounded
  <2> QED
    BY <1>1, <2>2, <2>3, <2>4 DEF RequestsCarried, Carried, CutFrom
<1>4. ASSUME NEW r \in requests', r.type = "InstallSnapShot" PROVE r.LastIncludeTerm <= r.Term
  <2>1. InstallRead(r)
    BY <1>1, <1>4 DEF InstallsRead
  <2>2. \A p \in Server : lastIncludeTerm[p] <= currentTerm[p]
    BY LastTermBounded DEF LogInv, TermsBounded, StepOK, Inv, RaftInv, LocalInv, LogOK
  <2> QED
    BY <2>1, <2>2 DEF InstallRead, LogInv, TermsBounded, SnapshotBounded
<1> QED
  BY <1>2, <1>3, <1>4 DEF TermsBounded, RequestBounded, SnapshotBounded, SegmentOf

\* The log that has changed agrees with all that was known, and is sorted.
LEMMA NewLogMatched ==
  ASSUME StepOK, LogInv, NEW n \in Server, OneLog(n)
  PROVE  /\ \A r \in KnownSegments : Agree(LogSegment(n)', r, cleared)
         /\ Sorted(LogSegment(n)')
<1> DEFINE q == LogSegment(n)'
           s == LogSegment(n)
           t == currentTerm[n]
<1>1. SegmentsOK /\ SegmentsOK' /\ s \in KnownSegments /\ q \in KnownSegments'
  BY SegmentsTyped, PrimedSegments DEF StepOK, KnownSegments, LogSegments
<1>2. IsSegment(q) /\ IsSegment(s) /\ s.last = getLastIndex(n)
  BY <1>1, LogSegmentsTyped DEF SegmentsOK, LogSegmentsOK, LogOK, StepOK, Inv, RaftInv, LocalInv
<1>3. /\ \A r \in KnownSegments : Agree(s, r, cleared)
      /\ Sorted(s) /\ Bounded(s, t) /\ t \in Nat
  BY <1>1, InvTypes DEF LogInv, Matched, TermsBounded, LogBounded, StepOK, ElectionTypes
<1>4. \/ q = s \/ Part(q, s) \/ (state[n] = Leader /\ Extended(q, s, t))
      \/ \E m \in AppendRequests : Merged(q, s, SegmentOf(m))
  BY DEF OneLog, Kept, Shrunk, Grown, Joined
<1>5. state[n] = Leader /\ Clean(t, cleared) =>
        \A r \in KnownSegments : \A i \in Nat : Has(r, i) /\ r.at[i].Term = t => i <= s.last
  BY <1>2 DEF LogInv, Complete
<1> SUFFICES (\A r \in KnownSegments : Agree(q, r, cleared)) /\ Sorted(q)
  OBVIOUS
<1> HIDE DEF q, s, t
<1>6. CASE q = s
  BY <1>3, <1>6
<1>7. CASE Part(q, s)
  BY <1>1, <1>2, <1>3, <1>7, PartAgrees, PartSorted DEF SegmentsOK
<1>8. CASE state[n] = Leader /\ Extended(q, s, t)
  <2>1. ASSUME NEW r \in KnownSegments PROVE Agree(q, r, cleared)
    <3>1. IsSegment(r) /\ Agree(s, r, cleared) /\ Extended(q, s, t)
      BY <1>1, <1>3, <1>8 DEF SegmentsOK
    <3>2. q.last \in Nat /\ s.last \in Nat /\ q.last = s.last + 1
      BY <1>2, <1>8 DEF Extended, IsSegment
    <3>3. Has(r, q.last) /\ Clean(t, cleared) => r.at[q.last].Term # t
      BY <1>5, <1>8, <3>2
    <3> QED
      BY <1>2, <3>1, <3>3, ExtendedAgrees
  <2>2. TermAt(s, s.last) <= t
    BY <1>2, <1>3 DEF Bounded, IsSegment
  <2>3. Sorted(q)
    BY <1>2, <1>3, <1>8, <2>2, ExtendedSorted
  <2> QED
    BY <2>1, <2>3
<1>9. ASSUME NEW m \in AppendRequests, Merged(q, s, SegmentOf(m))
      PROVE  (\A r \in KnownSegments : Agree(q, r, cleared)) /\ Sorted(q)
  <2>1. SegmentOf(m) \in KnownSegments
    BY DEF KnownSegments, SentSegments
  <2>2. /\ IsSegment(SegmentOf(m)) /\ Sorted(SegmentOf(m))
        /\ \A r \in KnownSegments : Agree(SegmentOf(m), r, cleared)
    BY <1>1, <2>1 DEF SegmentsOK, LogInv, Matched
  <2>3. Sorted(q)
    BY <1>2, <1>3, <1>9, <2>2, MergedSorted
  <2>4. \A c \in cleared : c[2] \in Nat
    <3>1. cleared \subseteq Server \X Nat
      BY DEF StepOK, Inv, RaftInv, LocalInv, HistoryTypeOK
    <3> QED
      BY <3>1
  <2>5. ASSUME NEW r \in KnownSegments PROVE Agree(q, r, cleared)
    <3>1. IsSegment(r) /\ Agree(s, r, cleared) /\ Agree(SegmentOf(m), r, cleared)
      BY <1>1, <1>3, <2>2 DEF SegmentsOK
    <3> QED
      BY <1>2, <1>9, <2>2, <2>4, <3>1, MergedAgrees
  <2> QED
    BY <2>3, <2>5
<1> QED
  BY <1>4, <1>6, <1>7, <1>8, <1>9

\* Every log and request of the next state is a piece of what was known, or of
\* the log that has changed.
LEMMA Covered ==
  ASSUME Inv, Inv', NEW n \in Server, OneLog(n), RequestsCarried, NEW q \in KnownSegments'
  PROVE  \E s \in KnownSegments \cup {LogSegment(n)'} : Part(q, s)
<1>1. SegmentsOK /\ SegmentsOK' /\ IsSegment(q)
  BY SegmentsTyped, PrimedSegments DEF SegmentsOK
<1>2. ASSUME NEW p \in Server PROVE LogSegment(p)' \in KnownSegments \cup {LogSegment(n)'}
  BY DEF OneLog, Kept, KnownSegments, LogSegments
<1>3. CASE q \in LogSegments'
  BY <1>1, <1>2, <1>3, PartItself DEF LogSegments
<1>4. CASE q \in SentSegments'
  <2>1. PICK r \in AppendRequests' : q = SegmentOf(r)
    BY <1>4 DEF SentSegments, SegmentOf
  <2>2. CASE Copied(r)
    <3>1. q \in KnownSegments
      BY <2>1, <2>2 DEF Copied, KnownSegments, SentSegments
    <3> QED
      BY <1>1, <3>1, PartItself
  <2>3. ASSUME NEW p \in Server, Within(q, LogSegment(p)) \/ Within(q, LogSegment(p)')
        PROVE  \E s \in KnownSegments \cup {LogSegment(n)'} : Part(q, s)
    BY <1>2, <2>3 DEF Part, KnownSegments, LogSegments
  <2> QED
    BY <2>1, <2>2, <2>3 DEF RequestsCarried, Carried, CutFrom
<1> QED
  BY <1>3, <1>4 DEF KnownSegments

\* All that is known in the next state agrees, and is sorted.
LEMMA MatchedStep == StepOK /\ LogInv => Matched'
<1> SUFFICES ASSUME StepOK, LogInv PROVE Matched'
  OBVIOUS
<1>1. PICK n \in Server : OneLog(n)
  BY LogsStep DEF StepOK, LogInv
<1> DEFINE N == LogSegment(n)'
           T == KnownSegments \cup {N}
<1>2. (\A s \in T : IsSegment(s)) /\ (\A q \in KnownSegments' : IsSegment(q))
  BY SegmentsTyped, PrimedSegments DEF StepOK, SegmentsOK, KnownSegments, LogSegments
<1>3. \A q \in KnownSegments' : \E s \in T : Part(q, s)
  BY <1>1, Covered, RequestsStep DEF StepOK
<1>4. (\A r \in KnownSegments : Agree(N, r, cleared)) /\ Sorted(N)
  BY <1>1, NewLogMatched
<1>5. cleared \subseteq cleared'
  BY ClearedGrows DEF StepOK
<1> HIDE DEF N
<1>6. \A s, r \in T : Agree(s, r, cleared)
  BY <1>4, AgreeItself, AgreeSymmetric DEF LogInv, Matched
<1>7. \A s \in T : Sorted(s)
  BY <1>4 DEF LogInv, Matched
<1> HIDE DEF T
<1>8. \A q, r \in KnownSegments' : Agree(q, r, cleared')
  BY <1>2, <1>3, <1>5, <1>6, PartsAgree
<1>9. \A q \in KnownSegments' : Sorted(q)
  BY <1>2, <1>3, <1>7, PartSorted
<1> QED
  BY <1>8, <1>9 DEF Matched

-----------------------------------------------------------------------------
(* The theorem.                                                            *)

\* At first no log has an entry, and nothing is under way.
LEMMA LogInitially == Init => LogInv
<1> SUFFICES ASSUME Init PROVE LogInv
  OBVIOUS
<1>1. /\ Inv /\ requests = {} /\ log = [n \in Server |-> <<EmptyEntry>>]
      /\ lastIncludeIndex = [n \in Server |-> 0] /\ lastIncludeTerm = [n \in Server |-> 0]
      /\ \A n \in Server : currentTerm[n] \in Nat
  BY InitInv DEF Init, RaftInit, Inv, RaftInv, LocalInv, LocalTypeOK
<1>2. AppendRequests = {} /\ KnownSegments = LogSegments
  BY <1>1 DEF AppendRequests, KnownSegments, SentSegments
<1>3. \A n \in Server : getLastIndex(n) = 0
  BY <1>1 DEF getLastIndex
<1>4. \A n \in Server : LET s == LogSegment(n) IN s.base = 0 /\ s.last = 0 /\ s.term = 0
  BY <1>1, <1>3, LogSegmentsTyped DEF LogSegmentsOK, LogOK, Inv, RaftInv, LocalInv
<1>5. \A s \in KnownSegments : s.base = 0 /\ s.last = 0 /\ s.term = 0
  BY <1>2, <1>4 DEF LogSegments
<1>6. \A s \in KnownSegments : \A i \in Nat : ~Has(s, i)
  BY <1>5 DEF Has
<1>7. TermsBounded
  BY <1>1, <1>2, <1>4 DEF TermsBounded, LogBounded, Bounded, TermAt
<1>8. Matched
  BY <1>5, <1>6 DEF Matched, Agree, Sorted, TermAt
<1> QED
  BY <1>6, <1>7, <1>8 DEF LogInv, Owned, Complete

\* The segments of two logs that agree give the entries that agree.
LEMMA LogInvMatches == Inv /\ LogInv => LogMatchingUnlessVoteCleared
<1> SUFFICES ASSUME Inv, LogInv, NEW n \in Server, NEW p \in Server,
                    NEW first, first = AtLeast(lastIncludeIndex[n], lastIncludeIndex[p]) + 1,
                    NEW i \in first..AtMost(getLastIndex(n), getLastIndex(p)),
                    restoreLogTerm(n, i) = restoreLogTerm(p, i),
                    \A c \in cleared : c[2] > restoreLogTerm(n, i),
                    NEW j \in first..i
             PROVE  restoreLog(n, j) = restoreLog(p, j)
  BY DEF LogMatchingUnlessVoteCleared
<1> DEFINE s == LogSegment(n)
           r == LogSegment(p)
<1>1. /\ IsSegment(s) /\ s.base = lastIncludeIndex[n] /\ s.last = getLastIndex(n)
      /\ \A k \in (s.base + 1)..s.last : s.at[k] = restoreLog(n, k)
      /\ \A k \in s.base..s.last : TermAt(s, k) = restoreLogTerm(n, k)
      /\ IsSegment(r) /\ r.base = lastIncludeIndex[p] /\ r.last = getLastIndex(p)
      /\ \A k \in (r.base + 1)..r.last : r.at[k] = restoreLog(p, k)
      /\ \A k \in r.base..r.last : TermAt(r, k) = restoreLogTerm(p, k)
  BY LogSegmentsTyped DEF LogSegmentsOK, LogOK, Inv, RaftInv, LocalInv
<1>2. Agree(s, r, cleared)
  BY DEF LogInv, Matched, KnownSegments, LogSegments
<1> HIDE DEF s, r
<1>3. /\ i \in Nat /\ j \in Nat /\ j <= i
      /\ i \in (s.base + 1)..s.last /\ i \in (r.base + 1)..r.last
      /\ j \in (s.base + 1)..s.last /\ j \in (r.base + 1)..r.last
  BY <1>1 DEF IsSegment, AtLeast, AtMost
<1>4. i \in s.base..s.last /\ i \in r.base..r.last /\ i # s.base /\ i # r.base
  BY <1>1, <1>3 DEF IsSegment
<1>5. s.at[i].Term = r.at[i].Term /\ Clean(s.at[i].Term, cleared)
  BY <1>1, <1>4 DEF TermAt, Clean
<1>6. Same(s, r, j)
  <2>1. s.base <= j /\ r.base <= j
    BY <1>1, <1>3 DEF IsSegment
  <2> QED
    BY <1>2, <1>3, <1>5, <2>1 DEF Agree, Has
<1>7. s.at[j] = r.at[j]
  BY <1>3, <1>6 DEF Same, Has
<1> QED
  BY <1>1, <1>3, <1>7

\* Every step that the theorem allows keeps the invariant.
LEMMA LogNext ==
  /\ Inv /\ Inv' /\ ElectionInv /\ ElectionInv' /\ AppendsFromLeaders
  /\ LogInv /\ [Next]_vars /\ [Fits]_vars
  => LogInv'
<1> SUFFICES ASSUME Inv, Inv', ElectionInv, ElectionInv', AppendsFromLeaders, LogInv,
                    [Next]_vars, [Fits]_vars
             PROVE  LogInv'
  OBVIOUS
<1>1. Fits
  <2>1. CASE UNCHANGED vars
    <3>1. \A n \in Server : lastIncludeIndex[n] \in Nat /\ lastIncludeIndex' = lastIncludeIndex
      BY <2>1 DEF vars, raftVars, logVars, Inv, RaftInv, LocalInv, LocalTypeOK
    <3> QED
      BY <3>1 DEF Fits, SuffixFits
  <2> QED
    BY <2>1
<1> QED
  BY <1>1, TermsBoundedStep, OwnedStep, CompleteStep, MatchedStep DEF StepOK, LogInv

\* If InstallSnapShot only keeps entries where it finds the snapshot's term at
\* the snapshot's index, two logs that have an entry of one term at one index agree on all that both
\* still have below it, unless a vote was forgotten in that term or before:
\* whatever AppendEntries, Start, Snapshot and restarts did to them, and
\* however old the requests were.
THEOREM LogsMatch == Spec /\ SuffixesFit => []LogMatchingUnlessVoteCleared
<1>1. Spec /\ SuffixesFit => []LogInv
  BY LogInitially, LogNext, Invariance, ElectionInvariance, AppendsComeFromLeaders, PTL
     DEF Spec, SuffixesFit
<1> QED
  BY <1>1, LogInvMatches, Invariance, PTL
=============================================================================
