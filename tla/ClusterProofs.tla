--------------------------- MODULE ClusterProofs ---------------------------
(***************************************************************************)
(* Theorems about Cluster, for any number of servers and commands.  Inv is *)
(* the inductive invariant: the types cannot be proved without the         *)
(* positions of the log entries (an index that misses its log has no       *)
(* type), and neither survives a restart unless the persister holds what   *)
(* the server acts on.                                                     *)
(***************************************************************************)
EXTENDS Cluster, SequenceTheorems, TLAPS

\* What a server holds, in memory and in its persister.
LocalInv ==
  /\ LocalTypeOK /\ LogTypeOK /\ LogIndexes /\ HistoryTypeOK
  /\ StableTypeOK /\ StableStateCurrent /\ SnapshotIndexes

\* What is under way between servers and to the services.
CountOn(m) == \A i \in 1..Len(m.Entries) : m.Entries[i].Index = m.PrevLogIndex + i

GoodRequest(m) ==
  \/ m \in RequestVoteMessage
  \/ m \in AppendEntriesMessage /\ CountOn(m)
  \/ m \in InstallSnapShotMessage /\ m.Data.Index = m.LastIncludeIndex

GoodReply(m) ==
  \/ m \in RequestVoteReplyMessage
  \/ m \in AppendEntriesReplyMessage
  \/ m \in InstallSnapShotReplyMessage

GoodApply(m) ==
  \/ m \in CommandMessage
  \/ m \in SnapshotMessage /\ m.Data.Index = m.Index

NetInv ==
  /\ \A m \in requests : GoodRequest(m)
  /\ \A m \in replies : GoodReply(m)
  /\ DOMAIN applyCh = Server
  /\ applyCh = [n \in Server |-> applyCh[n]]
  /\ \A n \in Server : \A m \in applyCh[n] : GoodApply(m)

RaftInv == LocalInv /\ NetInv

Inv == RaftInv /\ ServiceTypeOK

\* A log: a filler followed by entries whose indexes count on from base.
WellFormed(s, base) ==
  /\ s \in Seq(Entry)
  /\ Len(s) > 0
  /\ s[1].Index = 0
  /\ \A i \in 2..Len(s) : s[i].Index = base + i - 1

-----------------------------------------------------------------------------
(* What the operations on the log do to a well-formed log.                 *)

\* LogTypeOK and LogIndexes say that every server's log is well formed.
LEMMA LogsWellFormed ==
  ASSUME LogTypeOK, LogIndexes
  PROVE  \A n \in Server : WellFormed(log[n], lastIncludeIndex[n])
BY DEF LogTypeOK, LogIndexes, WellFormed

\* The filler of a new log, as Make and every compaction create it.
LEMMA FillerWellFormed ==
  ASSUME NEW base \in Nat
  PROVE  WellFormed(<<EmptyEntry>>, base)
<1>1. EmptyEntry \in Entry
  BY DEF EmptyEntry, Entry
<1>2. <<EmptyEntry>> \in Seq(Entry) /\ Len(<<EmptyEntry>>) = 1 /\ <<EmptyEntry>>[1] = EmptyEntry
  BY <1>1
<1> QED
  BY <1>2 DEF WellFormed, EmptyEntry

\* Start: an entry with the next index.
LEMMA AppendWellFormed ==
  ASSUME NEW base \in Nat, NEW s, WellFormed(s, base), NEW e \in Entry,
         e.Index = Len(s) + base
  PROVE  WellFormed(Append(s, e), base)
<1>1. s \in Seq(Entry) /\ Len(s) \in Nat /\ Len(s) > 0
  BY LenProperties DEF WellFormed
<1>2. /\ Append(s, e) \in Seq(Entry)
      /\ Len(Append(s, e)) = Len(s) + 1
      /\ \A i \in 1..Len(s) : Append(s, e)[i] = s[i]
      /\ Append(s, e)[Len(s) + 1] = e
  BY <1>1, AppendProperties
<1>3. ASSUME NEW i \in 2..(Len(s) + 1)
      PROVE  Append(s, e)[i].Index = base + i - 1
  <2>1. CASE i = Len(s) + 1
    BY <1>1, <1>2, <2>1
  <2>2. CASE i \in 2..Len(s)
    BY <1>1, <1>2, <2>2 DEF WellFormed
  <2> QED
    BY <1>1, <2>1, <2>2
<1>4. Append(s, e)[1].Index = 0
  BY <1>1, <1>2 DEF WellFormed
<1> QED
  BY <1>1, <1>2, <1>3, <1>4 DEF WellFormed

\* Snapshot and InstallSnapShot: what lies above index, behind a new filler.
LEMMA TruncateWellFormed ==
  ASSUME NEW base \in Nat, NEW s, WellFormed(s, base), NEW index \in Nat, index > base
  PROVE  WellFormed(<<EmptyEntry>> \o SubSeq(s, index - base + 2, Len(s)), index)
<1> DEFINE k == index - base + 2
           tail == SubSeq(s, k, Len(s))
           t == <<EmptyEntry>> \o tail
<1>1. s \in Seq(Entry) /\ Len(s) \in Nat /\ Len(s) > 0 /\ k \in Nat /\ k > 2
  BY LenProperties DEF WellFormed
<1>2. \A i \in k..Len(s) : s[i] \in Entry
  BY <1>1, ElementOfSeq
<1>3. /\ tail \in Seq(Entry)
      /\ Len(tail) = IF k <= Len(s) THEN Len(s) - k + 1 ELSE 0
      /\ \A i \in 1..(Len(s) - k + 1) : tail[i] = s[k + i - 1]
  BY <1>1, <1>2, SubSeqProperties
<1>4. EmptyEntry \in Entry
  BY DEF EmptyEntry, Entry
<1>5. <<EmptyEntry>> \in Seq(Entry) /\ Len(<<EmptyEntry>>) = 1 /\ <<EmptyEntry>>[1] = EmptyEntry
  BY <1>4
<1> HIDE DEF tail
<1>6. /\ t \in Seq(Entry)
      /\ Len(t) = 1 + Len(tail)
      /\ \A i \in 1..(1 + Len(tail)) :
           t[i] = IF i <= 1 THEN <<EmptyEntry>>[i] ELSE tail[i - 1]
  BY <1>3, <1>5, ConcatProperties
<1> HIDE DEF t
<1>7. Len(tail) \in Nat
  BY <1>1, <1>3
<1>8. t[1].Index = 0
  BY <1>5, <1>6, <1>7 DEF EmptyEntry
<1>9. ASSUME NEW i \in 2..Len(t)
      PROVE  t[i].Index = index + i - 1
  <2>1. t[i] = tail[i - 1]
    BY <1>6, <1>7
  <2>2. i - 1 \in 1..(Len(s) - k + 1)
    BY <1>1, <1>3, <1>6, <1>7
  <2>3. tail[i - 1] = s[k + (i - 1) - 1]
    BY <1>3, <2>2
  <2>4. k + (i - 1) - 1 \in 2..Len(s)
    BY <1>1, <2>2
  <2>5. s[k + (i - 1) - 1].Index = base + (k + (i - 1) - 1) - 1
    BY <2>4 DEF WellFormed
  <2> QED
    BY <1>1, <2>1, <2>3, <2>5
<1>10. t \in Seq(Entry) /\ Len(t) > 0
  BY <1>6, <1>7
<1>11. WellFormed(t, index)
  BY <1>8, <1>9, <1>10 DEF WellFormed
<1> QED
  BY <1>11 DEF t, tail

\* AppendEntries: the log up to prev, then entries that count on from prev.
LEMMA AcceptWellFormed ==
  ASSUME NEW base \in Nat, NEW s, WellFormed(s, base),
         NEW prev \in base..(Len(s) - 1 + base),
         NEW es \in Seq(Entry), \A i \in 1..Len(es) : es[i].Index = prev + i
  PROVE  WellFormed(SubSeq(s, 1, prev + 1 - base) \o es, base)
<1> DEFINE k == prev + 1 - base
           head == SubSeq(s, 1, k)
           t == head \o es
<1>1. /\ s \in Seq(Entry) /\ Len(s) \in Nat /\ k \in 1..Len(s) /\ k \in Nat
      /\ Len(es) \in Nat /\ prev \in Nat
  BY LenProperties DEF WellFormed
<1>2. \A i \in 1..k : s[i] \in Entry
  BY <1>1, ElementOfSeq
<1>3. /\ head \in Seq(Entry) /\ Len(head) = k
      /\ \A i \in 1..k : head[i] = s[i]
  <2>1. /\ head \in Seq(Entry)
        /\ Len(head) = IF 1 <= k THEN k - 1 + 1 ELSE 0
        /\ \A i \in 1..(k - 1 + 1) : head[i] = s[1 + i - 1]
    BY <1>1, <1>2, SubSeqProperties
  <2> QED
    BY <1>1, <2>1
<1> HIDE DEF head
<1>4. /\ t \in Seq(Entry)
      /\ Len(t) = k + Len(es)
      /\ \A i \in 1..(k + Len(es)) : t[i] = IF i <= k THEN head[i] ELSE es[i - k]
  <2>1. /\ t \in Seq(Entry)
        /\ Len(t) = Len(head) + Len(es)
        /\ \A i \in 1..(Len(head) + Len(es)) :
             t[i] = IF i <= Len(head) THEN head[i] ELSE es[i - Len(head)]
    BY <1>3, ConcatProperties
  <2> QED
    BY <1>3, <2>1
<1> HIDE DEF t
<1>5. t[1].Index = 0
  <2>1. 1 \in 1..k /\ 1 \in 1..(k + Len(es)) /\ 1 <= k
    BY <1>1
  <2>2. t[1] = s[1]
    BY <1>3, <1>4, <2>1
  <2> QED
    BY <2>2 DEF WellFormed
<1>6. ASSUME NEW i \in 2..Len(t)
      PROVE  t[i].Index = base + i - 1
  <2>1. CASE i <= k
    <3>1. t[i] = s[i] /\ i \in 2..Len(s)
      BY <1>1, <1>3, <1>4, <2>1
    <3> QED
      BY <3>1 DEF WellFormed
  <2>2. CASE i > k
    <3>1. i \in 1..(k + Len(es)) /\ ~(i <= k) /\ i - k \in 1..Len(es)
      BY <1>1, <1>4, <2>2
    <3>2. t[i] = es[i - k]
      BY <1>4, <3>1
    <3>3. es[i - k].Index = prev + (i - k)
      BY <3>1
    <3> QED
      BY <1>1, <3>2, <3>3
  <2> QED
    BY <1>1, <2>1, <2>2
<1>7. WellFormed(t, base)
  BY <1>1, <1>4, <1>5, <1>6 DEF WellFormed
<1> QED
  BY <1>7 DEF t, head

-----------------------------------------------------------------------------
(* What a server reads out of its log to put it into a message.            *)

LogOK == LocalTypeOK /\ LogTypeOK /\ LogIndexes

ReadsOK ==
  \A n \in Server :
    /\ lastLog(n) \in Entry
    /\ getLastIndex(n) \in Nat /\ getLastIndex(n) >= lastIncludeIndex[n]
    /\ getLastTerm(n) \in Nat
    /\ lastLog(n).Index > 0 => lastLog(n).Index = getLastIndex(n)
    /\ lastLog(n).Index = 0 => getLastIndex(n) = lastIncludeIndex[n]
    /\ \A i \in lastIncludeIndex[n]..getLastIndex(n) : restoreLogTerm(n, i) \in Nat
    /\ \A i \in (lastIncludeIndex[n] + 1)..getLastIndex(n) :
         restoreLog(n, i) \in Entry /\ restoreLog(n, i).Index = i

\* Every index between the snapshot and the end of the log finds its entry.
LEMMA ReadsInRange == LogOK => ReadsOK
<1> SUFFICES ASSUME LogOK, NEW n \in Server
             PROVE  /\ lastLog(n) \in Entry
                    /\ getLastIndex(n) \in Nat /\ getLastIndex(n) >= lastIncludeIndex[n]
                    /\ getLastTerm(n) \in Nat
                    /\ lastLog(n).Index > 0 => lastLog(n).Index = getLastIndex(n)
                    /\ lastLog(n).Index = 0 => getLastIndex(n) = lastIncludeIndex[n]
                    /\ \A i \in lastIncludeIndex[n]..getLastIndex(n) :
                         restoreLogTerm(n, i) \in Nat
                    /\ \A i \in (lastIncludeIndex[n] + 1)..getLastIndex(n) :
                         restoreLog(n, i) \in Entry /\ restoreLog(n, i).Index = i
  BY DEF ReadsOK
<1> DEFINE s == log[n]
           base == lastIncludeIndex[n]
<1>1. s \in Seq(Entry) /\ Len(s) \in Nat /\ Len(s) > 0 /\ base \in Nat
  BY LenProperties DEF LogOK, LogTypeOK, LocalTypeOK
<1>2. s[1].Index = 0 /\ \A i \in 2..Len(s) : s[i].Index = base + i - 1
  BY DEF LogOK, LogIndexes
<1>3. \A i \in 1..Len(s) : s[i] \in Entry
  BY <1>1, ElementOfSeq
<1>4. lastIncludeTerm[n] \in Nat
  BY DEF LogOK, LocalTypeOK
<1>5. getLastIndex(n) = Len(s) - 1 + base /\ lastLog(n) = s[Len(s)]
  BY DEF getLastIndex, lastLog
<1>6. \A i : restoreLog(n, i) = s[i - base + 1]
  BY DEF restoreLog
<1>7. getLastTerm(n) = IF Len(s) = 1 THEN lastIncludeTerm[n] ELSE lastLog(n).Term
  BY DEF getLastTerm
<1>8. \A i : restoreLogTerm(n, i) = IF i = base THEN lastIncludeTerm[n] ELSE restoreLog(n, i).Term
  BY DEF restoreLogTerm
<1>9. \A e \in Entry : e.Term \in Nat /\ e.Index \in Nat
  BY DEF Entry
<1> HIDE DEF s, base
<1>10. lastLog(n) \in Entry /\ getLastIndex(n) \in Nat /\ getLastIndex(n) >= base
  BY <1>1, <1>3, <1>5
<1>11. getLastTerm(n) \in Nat
  BY <1>4, <1>7, <1>9, <1>10
<1>12. /\ lastLog(n).Index > 0 => lastLog(n).Index = getLastIndex(n)
       /\ lastLog(n).Index = 0 => getLastIndex(n) = base
  <2>1. CASE Len(s) = 1
    BY <1>1, <1>2, <1>5, <2>1
  <2>2. CASE Len(s) > 1
    <3>1. Len(s) \in 2..Len(s)
      BY <1>1, <2>2
    <3>2. lastLog(n).Index = base + Len(s) - 1
      BY <1>2, <1>5, <3>1
    <3> QED
      BY <1>1, <1>5, <2>2, <3>2
  <2>3. Len(s) = 1 \/ Len(s) > 1
    BY <1>1
  <2> QED
    BY <2>1, <2>2, <2>3
<1>13. ASSUME NEW i \in (base + 1)..getLastIndex(n)
       PROVE  restoreLog(n, i) \in Entry /\ restoreLog(n, i).Index = i
  <2>1. i - base + 1 \in 2..Len(s) /\ i \in Int
    BY <1>1, <1>5
  <2>2. s[i - base + 1] \in Entry /\ s[i - base + 1].Index = base + (i - base + 1) - 1
    BY <1>1, <1>2, <1>3, <2>1
  <2> QED
    BY <1>1, <1>6, <2>1, <2>2
<1>14. ASSUME NEW i \in base..getLastIndex(n)
       PROVE  restoreLogTerm(n, i) \in Nat
  <2>1. CASE i = base
    BY <1>4, <1>8, <2>1
  <2>2. CASE i # base
    <3>1. i \in (base + 1)..getLastIndex(n)
      BY <1>1, <1>10, <2>2
    <3>2. restoreLog(n, i) \in Entry
      BY <1>13, <3>1
    <3> QED
      BY <1>8, <1>9, <2>2, <3>2
  <2> QED
    BY <2>1, <2>2
<1> QED
  BY <1>10, <1>11, <1>12, <1>13, <1>14 DEF base

VoteArgsOK == \A n, p \in Server : RequestVoteArgs(n, p) \in RequestVoteMessage

\* The last entry, or the filler, goes into a RequestVote.
LEMMA VoteArgsTyped == LogOK => VoteArgsOK
<1> SUFFICES ASSUME LogOK, NEW n \in Server, NEW p \in Server
             PROVE  RequestVoteArgs(n, p) \in RequestVoteMessage
  BY DEF VoteArgsOK
<1>1. lastLog(n) \in Entry
  BY ReadsInRange DEF ReadsOK
<1>2. lastLog(n).Term \in Nat /\ lastLog(n).Index \in Nat
  BY <1>1 DEF Entry
<1>3. currentTerm[n] \in Nat
  BY DEF LogOK, LocalTypeOK
<1> QED
  BY <1>2, <1>3 DEF RequestVoteArgs, RequestVoteMessage

EntriesOK ==
  \A n \in Server : \A heartbeat \in BOOLEAN : \A m \in EntriesToSend(n, heartbeat) :
    m \in AppendEntriesMessage /\ CountOn(m)

\* Whoever is not behind the snapshot is sent entries that are there.
LEMMA EntriesTyped == LogOK => EntriesOK
<1> SUFFICES ASSUME LogOK, NEW n \in Server, NEW p \in Visited(n) \ {n}
             PROVE  AppendEntriesArgs(n, p) \in AppendEntriesMessage
                    /\ CountOn(AppendEntriesArgs(n, p))
  BY DEF EntriesOK, EntriesToSend
<1> DEFINE s == log[n]
           base == lastIncludeIndex[n]
           next == nextIndex[n][p]
           last == getLastIndex(n)
           prev == AtMost(next - 1, last)
           first == AtMost(AtLeast(next, 1), lastLog(n).Index)
           entries == IF last >= next THEN SubSeq(s, first - base + 1, Len(s)) ELSE << >>
<1>1. p \in Server /\ next \in Nat /\ base \in Nat /\ currentTerm[n] \in Nat /\ commitIndex[n] \in Nat
  BY DEF Visited, LogOK, LocalTypeOK
<1>2. next - 1 >= base
  <2>1. p \notin BehindSnapshot(n)
    BY <1>1, ServerAssumption DEF Visited
  <2> QED
    BY <1>1, <2>1 DEF BehindSnapshot
<1>3. ReadsOK
  BY ReadsInRange
<1>4. /\ last \in Nat /\ last >= base
      /\ lastLog(n) \in Entry
      /\ lastLog(n).Index > 0 => lastLog(n).Index = last
      /\ lastLog(n).Index = 0 => last = base
  BY <1>3 DEF ReadsOK
<1>5. lastLog(n).Index \in Nat
  BY <1>4 DEF Entry
<1>6. prev \in base..last /\ prev \in Nat
  BY <1>1, <1>2, <1>4 DEF AtMost
<1>7. restoreLogTerm(n, prev) \in Nat
  BY <1>3, <1>6 DEF ReadsOK
<1>8. /\ s \in Seq(Entry) /\ Len(s) \in Nat /\ last = Len(s) - 1 + base
      /\ \A i \in 1..Len(s) : s[i] \in Entry
      /\ \A i \in 2..Len(s) : s[i].Index = base + i - 1
  BY LenProperties, ElementOfSeq DEF LogOK, LogTypeOK, LogIndexes, getLastIndex
<1>9. last >= next => first = next /\ prev = next - 1 /\ first - base + 1 \in 2..Len(s)
  BY <1>1, <1>2, <1>4, <1>5, <1>8 DEF AtMost, AtLeast
<1>10. AppendEntriesArgs(n, p) =
         [type |-> "AppendEntries", from |-> n, to |-> p, open |-> TRUE,
          Term |-> currentTerm[n], PrevLogIndex |-> prev,
          PrevLogTerm |-> restoreLogTerm(n, prev), Entries |-> entries,
          LeaderCommit |-> commitIndex[n]]
  BY DEF AppendEntriesArgs
<1> HIDE DEF s, base, next, last, prev, first
<1>11. /\ entries \in Seq(Entry)
       /\ \A i \in 1..Len(entries) : entries[i].Index = prev + i
  <2>1. CASE last >= next
    <3> DEFINE k == first - base + 1
    <3>1. k \in 2..Len(s) /\ k \in Nat /\ k = prev + 2 - base
      BY <1>1, <1>6, <1>8, <1>9, <2>1
    <3>2. \A i \in k..Len(s) : s[i] \in Entry
      BY <1>8, <3>1
    <3>3. entries = SubSeq(s, k, Len(s))
      BY <2>1
    <3> HIDE DEF k, entries
    <3>4. /\ entries \in Seq(Entry)
          /\ Len(entries) = Len(s) - k + 1
          /\ \A i \in 1..(Len(s) - k + 1) : entries[i] = s[k + i - 1]
      <4>1. /\ SubSeq(s, k, Len(s)) \in Seq(Entry)
            /\ Len(SubSeq(s, k, Len(s))) = IF k <= Len(s) THEN Len(s) - k + 1 ELSE 0
            /\ \A i \in 1..(Len(s) - k + 1) : SubSeq(s, k, Len(s))[i] = s[k + i - 1]
        BY <1>8, <3>1, <3>2, SubSeqProperties
      <4>2. k <= Len(s)
        BY <1>8, <3>1
      <4> QED
        BY <3>3, <4>1, <4>2
    <3>5. ASSUME NEW i \in 1..Len(entries)
          PROVE  entries[i].Index = prev + i
      <4>1. i \in 1..(Len(s) - k + 1) /\ k + i - 1 \in 2..Len(s)
        BY <1>8, <3>1, <3>4
      <4>2. entries[i] = s[k + i - 1] /\ s[k + i - 1].Index = base + (k + i - 1) - 1
        BY <1>8, <3>4, <4>1
      <4> QED
        BY <1>1, <1>6, <3>1, <4>1, <4>2
    <3> QED
      BY <3>4, <3>5
  <2>2. CASE ~(last >= next)
    BY <2>2
  <2> QED
    BY <2>1, <2>2
<1> HIDE DEF entries
<1> QED
  BY <1>1, <1>6, <1>7, <1>10, <1>11 DEF AppendEntriesMessage, CountOn

\* The same in the state that a step leaves behind.
LEMMA PrimedReads == LogOK' => ReadsOK' /\ VoteArgsOK' /\ EntriesOK'
BY ReadsInRange, VoteArgsTyped, EntriesTyped, PTL

-----------------------------------------------------------------------------
(* What the receiver of a message may rely on.                             *)

\* The fields of a request in flight, by its type.
LEMMA RequestFields ==
  ASSUME NEW m, GoodRequest(m)
  PROVE  /\ m.from \in Server /\ m.to \in Server /\ m.Term \in Nat
         /\ m.type = "RequestVote" => m \in RequestVoteMessage
         /\ m.type = "AppendEntries" => m \in AppendEntriesMessage /\ CountOn(m)
         /\ m.type = "InstallSnapShot" =>
              m \in InstallSnapShotMessage /\ m.Data.Index = m.LastIncludeIndex
BY DEF GoodRequest, RequestVoteMessage, AppendEntriesMessage, InstallSnapShotMessage

\* The fields of a reply in flight, by its type.
LEMMA ReplyFields ==
  ASSUME NEW m, GoodReply(m)
  PROVE  /\ m.from \in Server /\ m.to \in Server /\ m.Term \in Nat /\ m.argsTerm \in Nat
         /\ m.type = "RequestVoteReply" => m \in RequestVoteReplyMessage
         /\ m.type = "AppendEntriesReply" => m \in AppendEntriesReplyMessage
         /\ m.type = "InstallSnapShotReply" => m \in InstallSnapShotReplyMessage
BY DEF GoodReply, RequestVoteReplyMessage, AppendEntriesReplyMessage,
       InstallSnapShotReplyMessage

\* Steps that send what is good keep the network good.
LEMMA NetStep ==
  ASSUME NetInv, applyCh' = applyCh,
         \A m \in requests' : m \in requests \/ GoodRequest(m),
         \A m \in replies' : m \in replies \/ GoodReply(m)
  PROVE  NetInv'
BY DEF NetInv

\* A handler that returns a reply of the right type.
LEMMA AnswerStep ==
  ASSUME NetInv, applyCh' = applyCh, NEW m \in requests, NEW reply, GoodReply(reply),
         Answer(m, reply)
  PROVE  NetInv'
BY DEF NetInv, Answer

\* A reply that is consumed.
LEMMA ConsumedStep ==
  ASSUME NetInv, applyCh' = applyCh, NEW m, Consumed(m)
  PROVE  NetInv'
BY DEF NetInv, Consumed

-----------------------------------------------------------------------------
(* What a step leaves alone stays as it was.                               *)

\* A step that touches no server's own state.
LEMMA LocalUnchanged ==
  ASSUME LocalInv,
         UNCHANGED <<electionVars, logVars, commitIndex, lastApplied, leaderVars, stableVars,
                     historyVars>>
  PROVE  LocalInv'
BY DEF LocalInv, LocalTypeOK, LogTypeOK, LogIndexes, HistoryTypeOK, StableTypeOK,
       StableStateCurrent, SnapshotIndexes, RaftState, electionVars, logVars, leaderVars,
       stableVars, historyVars

\* A step that leaves every log alone leaves its indexes contiguous.
LEMMA LogsUnchanged ==
  ASSUME LogTypeOK, LogIndexes, UNCHANGED logVars
  PROVE  LogTypeOK' /\ LogIndexes'
BY DEF LogTypeOK, LogIndexes, logVars

\* A server that persists on the way out of its critical section.
LEMMA PersistStep ==
  ASSUME NEW n \in Server, raftstate \in [Server -> StableState], StableStateCurrent,
         LocalTypeOK', LogTypeOK', persist(n),
         \A p \in Server \ {n} : RaftState(p)' = RaftState(p)
  PROVE  raftstate' \in [Server -> StableState] /\ StableStateCurrent'
<1>1. raftstate' = [raftstate EXCEPT ![n] = RaftState(n)']
  BY DEF persist
<1>2. RaftState(n)' \in StableState
  BY DEF RaftState, StableState, LocalTypeOK, LogTypeOK
<1>3. raftstate' \in [Server -> StableState]
  BY <1>1, <1>2
<1>4. ASSUME NEW p \in Server
      PROVE  raftstate'[p] = RaftState(p)'
  <2>1. CASE p = n
    BY <1>1, <2>1
  <2>2. CASE p # n
    BY <1>1, <2>2 DEF StableStateCurrent
  <2> QED
    BY <2>1, <2>2
<1> QED
  BY <1>3, <1>4 DEF StableStateCurrent

\* A step that changes the term, the vote or the role of one server, and persists.
LEMMA ElectionStep ==
  ASSUME LocalInv, NEW n \in Server, LocalTypeOK', HistoryTypeOK',
         UNCHANGED <<logVars, lastApplied, snapshot>>, persist(n),
         \A p \in Server \ {n} : currentTerm'[p] = currentTerm[p] /\ votedFor'[p] = votedFor[p]
  PROVE  LocalInv'
<1>1. LogTypeOK' /\ LogIndexes'
  BY LogsUnchanged DEF LocalInv
<1>2. \A p \in Server \ {n} : RaftState(p)' = RaftState(p)
  BY DEF RaftState, logVars
<1>3. raftstate' \in [Server -> StableState] /\ StableStateCurrent'
  BY <1>1, <1>2, PersistStep DEF LocalInv, StableTypeOK
<1>4. StableTypeOK'
  BY <1>3 DEF LocalInv, StableTypeOK
<1>5. SnapshotIndexes'
  BY DEF LocalInv, SnapshotIndexes, logVars
<1> QED
  BY <1>1, <1>3, <1>4, <1>5 DEF LocalInv

\* A step that changes none of what is persisted.
LEMMA VolatileStep ==
  ASSUME LocalInv, LocalTypeOK', HistoryTypeOK',
         UNCHANGED <<currentTerm, votedFor, logVars, stableVars>>,
         \A n \in Server : lastApplied'[n] >= lastApplied[n]
  PROVE  LocalInv'
<1>1. LogTypeOK' /\ LogIndexes'
  BY LogsUnchanged DEF LocalInv
<1>2. StableTypeOK' /\ StableStateCurrent'
  BY DEF LocalInv, StableTypeOK, StableStateCurrent, RaftState, logVars, stableVars
<1>3. SnapshotIndexes'
  BY DEF LocalInv, LocalTypeOK, SnapshotIndexes, logVars, stableVars
<1> QED
  BY <1>1, <1>2, <1>3 DEF LocalInv

-----------------------------------------------------------------------------
(* Elections.                                                              *)

\* The reply RequestVote fills in is a well-formed message.
LEMMA RequestVoteReplyTyped ==
  ASSUME NEW m, m.from \in Server, m.to \in Server, m.Term \in Nat,
         NEW term \in Nat, NEW granted \in BOOLEAN
  PROVE  GoodReply(RequestVoteReply(m, term, granted))
BY DEF GoodReply, RequestVoteReply, RequestVoteReplyMessage

\* RequestVote keeps the invariant.
LEMMA RequestVoteInv ==
  ASSUME RaftInv, NEW m \in requests, m.type = "RequestVote", RequestVote(m)
  PROVE  RaftInv'
<1> DEFINE n == m.to
<1>1. m \in RequestVoteMessage
  BY RequestFields DEF RaftInv, NetInv
<1>2. m.from \in Server /\ n \in Server /\ m.Term \in Nat
  BY <1>1 DEF RequestVoteMessage
<1>3. currentTerm[n] \in Nat
  BY <1>2 DEF RaftInv, LocalInv, LocalTypeOK
<1>4. CASE RequestVoteStale(m)
  <2>1. LocalInv'
    BY <1>4, LocalUnchanged DEF RaftInv, RequestVoteStale, applyVars
  <2>2. NetInv'
    BY <1>2, <1>3, <1>4, RequestVoteReplyTyped, AnswerStep
       DEF RaftInv, RequestVoteStale, applyVars
  <2> QED
    BY <2>1, <2>2 DEF RaftInv
<1>5. CASE RequestVoteCurrent(m)
  <2> DEFINE newer == m.Term > currentTerm[n]
             voted == IF newer THEN None ELSE votedFor[n]
             grant == MayVote(voted, m) /\ UpToDate(m, n)
  <2>1. LocalTypeOK'
    BY <1>2, <1>5 DEF RaftInv, LocalInv, LocalTypeOK, RequestVoteCurrent, logVars, applyVars,
       leaderVars
  <2>2. HistoryTypeOK'
    BY <1>2, <1>5 DEF RaftInv, LocalInv, HistoryTypeOK, RequestVoteCurrent
  <2>3. /\ UNCHANGED <<logVars, lastApplied, snapshot>>
        /\ \A p \in Server \ {n} : currentTerm'[p] = currentTerm[p] /\ votedFor'[p] = votedFor[p]
    BY <1>2, <1>5 DEF RaftInv, LocalInv, LocalTypeOK, RequestVoteCurrent, applyVars
  <2>4. LocalInv
    BY DEF RaftInv
  <2>5. IF newer \/ grant THEN persist(n) ELSE UNCHANGED <<currentTerm, votedFor, stableVars>>
    <3>1. m.Term >= currentTerm[n] /\ currentTerm' = [currentTerm EXCEPT ![n] = m.Term]
      BY <1>5 DEF RequestVoteCurrent
    <3>2. votedFor' = [votedFor EXCEPT ![n] = IF grant THEN m.from ELSE voted]
      BY <1>5 DEF RequestVoteCurrent
    <3>3. IF newer \/ grant THEN persist(n) ELSE UNCHANGED raftstate
      BY <1>5 DEF RequestVoteCurrent
    <3>4. currentTerm \in [Server -> Nat] /\ votedFor \in [Server -> Server \cup {None}]
      BY <2>4 DEF LocalInv, LocalTypeOK
    <3> HIDE DEF grant
    <3>5. ~newer => currentTerm' = currentTerm
      BY <1>2, <3>1, <3>4
    <3>6. ~newer /\ ~grant => votedFor' = votedFor
      BY <1>2, <3>2, <3>4
    <3> QED
      BY <2>3, <3>3, <3>5, <3>6 DEF stableVars
  <2> HIDE DEF newer, grant, n
  <2>6. LocalInv'
    <3>1. CASE newer \/ grant
      BY <1>2, <2>1, <2>2, <2>3, <2>4, <2>5, <3>1, ElectionStep
    <3>2. CASE ~(newer \/ grant)
      <4>1. \A p \in Server : lastApplied'[p] >= lastApplied[p]
        BY <2>3, <2>4 DEF LocalInv, LocalTypeOK
      <4> QED
        BY <2>1, <2>2, <2>3, <2>4, <2>5, <3>2, <4>1, VolatileStep
    <3> QED
      BY <3>1, <3>2
  <2> USE DEF newer, grant, n
  <2>7. Answer(m, RequestVoteReply(m, m.Term, grant)) /\ applyCh' = applyCh
    BY <1>5 DEF RequestVoteCurrent, applyVars
  <2>8. grant \in BOOLEAN
    BY DEF MayVote, UpToDate
  <2>9. NetInv'
    BY <1>2, <2>7, <2>8, RequestVoteReplyTyped, AnswerStep DEF RaftInv
  <2> QED
    BY <2>6, <2>9 DEF RaftInv
<1> QED
  BY <1>4, <1>5 DEF RequestVote

\* setNewTerm, whether or not it finds anything to do.
LEMMA SetNewTermStep ==
  ASSUME LocalInv, NEW n \in Server, NEW term \in Nat, setNewTerm(n, term),
         UNCHANGED <<voteCounter, logVars, applyVars, leaderVars, snapshot, historyVars>>
  PROVE  LocalInv'
<1>1. CASE term > currentTerm[n] \/ currentTerm[n] = 0
  <2>1. /\ state' = [state EXCEPT ![n] = Follower]
        /\ currentTerm' = [currentTerm EXCEPT ![n] = term]
        /\ votedFor' = [votedFor EXCEPT ![n] = None]
        /\ persist(n)
    BY <1>1 DEF setNewTerm
  <2>2. LocalTypeOK'
    BY <2>1 DEF LocalInv, LocalTypeOK, logVars, applyVars, leaderVars
  <2>3. HistoryTypeOK' /\ UNCHANGED <<logVars, lastApplied, snapshot>>
    BY DEF LocalInv, HistoryTypeOK, historyVars, applyVars
  <2>4. \A p \in Server \ {n} : currentTerm'[p] = currentTerm[p] /\ votedFor'[p] = votedFor[p]
    BY <2>1 DEF LocalInv, LocalTypeOK
  <2> QED
    BY <2>1, <2>2, <2>3, <2>4, ElectionStep
<1>2. CASE ~(term > currentTerm[n] \/ currentTerm[n] = 0)
  BY <1>2, LocalUnchanged DEF setNewTerm, electionVars, applyVars, stableVars
<1> QED
  BY <1>1, <1>2

\* Handlers and goroutines that only read.
LEMMA ReadOnlyStep ==
  ASSUME LocalInv,
         UNCHANGED <<electionVars, logVars, applyVars, leaderVars, stableVars, historyVars>>
  PROVE  LocalInv' /\ applyCh' = applyCh
BY LocalUnchanged DEF applyVars

\* appendEntries only reads what persists, and what it sends is good.
LEMMA AppendEntriesStep ==
  ASSUME NetInv, NEW n \in Server, NEW heartbeat \in BOOLEAN, LogOK', applyCh' = applyCh,
         appendEntries(n, heartbeat), replies' \subseteq replies
  PROVE  NetInv'
<1>1. \A m \in EntriesToSend(n, heartbeat)' : m \in AppendEntriesMessage /\ CountOn(m)
  BY PrimedReads DEF EntriesOK
<1>2. \A m \in requests' : m \in requests \/ GoodRequest(m)
  BY <1>1 DEF appendEntries, GoodRequest
<1> QED
  BY <1>2, NetStep

\* A server is started a snapshot for.
LEMMA SendingTyped ==
  ASSUME NEW n \in Server, NEW heartbeat, sending \in [Server -> SUBSET Server],
         appendEntries(n, heartbeat)
  PROVE  sending' \in [Server -> SUBSET Server]
BY DEF appendEntries, SnapshotTarget, BehindSnapshot

\* candidateRequestVote keeps the invariant.
LEMMA CandidateRequestVoteInv ==
  ASSUME RaftInv, NEW m \in replies, m.type = "RequestVoteReply", candidateRequestVote(m)
  PROVE  RaftInv'
<1> DEFINE n == m.to
<1>1. m.from \in Server /\ n \in Server /\ m.Term \in Nat
  BY ReplyFields DEF RaftInv, NetInv
<1>2. LocalInv /\ NetInv
  BY DEF RaftInv
<1>3. CASE VoteNewerTerm(m)
  <2>1. LocalInv'
    BY <1>1, <1>2, <1>3, SetNewTermStep DEF VoteNewerTerm
  <2>2. NetInv'
    BY <1>2, <1>3, ConsumedStep DEF VoteNewerTerm, applyVars
  <2> QED
    BY <2>1, <2>2 DEF RaftInv
<1>4. CASE VoteIgnored(m)
  BY <1>2, <1>4, ReadOnlyStep, ConsumedStep DEF VoteIgnored, RaftInv
<1>5. CASE VoteCounted(m) /\ BecomeLeader(n, m)
  <2>1. voteCounter' = [voteCounter EXCEPT ![n] = @ + 1]
    BY <1>5 DEF VoteCounted
  <2>2. /\ state' = [state EXCEPT ![n] = Leader]
        /\ UNCHANGED <<currentTerm, votedFor, logVars, applyVars, stableVars, historyVars>>
        /\ replies' = replies \ {m}
        /\ appendEntries(n, TRUE)
    BY <1>5 DEF BecomeLeader
  <2>3. lastLog(n).Index \in Nat
    BY <1>1, <1>2, ReadsInRange DEF LogOK, ReadsOK, LocalInv, Entry
  <2>4. /\ nextIndex' \in [Server -> [Server -> Nat]]
        /\ matchIndex' \in [Server -> [Server -> Nat]]
    BY <1>1, <1>2, <1>5, <2>3 DEF BecomeLeader, LocalInv, LocalTypeOK
  <2>5. sending' \in [Server -> SUBSET Server]
    BY <1>1, <1>2, <2>2, SendingTyped DEF LocalInv, LocalTypeOK
  <2>6. LocalTypeOK'
    <3>1. voteCounter' \in [Server -> Nat]
      BY <1>1, <1>2, <2>1 DEF LocalInv, LocalTypeOK
    <3>2. state' \in [Server -> {Follower, Candidate, Leader}]
      BY <1>1, <1>2, <2>2 DEF LocalInv, LocalTypeOK
    <3> QED
      BY <1>2, <2>2, <2>4, <2>5, <3>1, <3>2 DEF LocalInv, LocalTypeOK, logVars, applyVars
  <2>7. HistoryTypeOK' /\ \A p \in Server : lastApplied'[p] >= lastApplied[p]
    BY <1>2, <2>2 DEF LocalInv, LocalTypeOK, HistoryTypeOK, applyVars, historyVars
  <2>8. LocalInv'
    BY <1>2, <2>2, <2>6, <2>7, VolatileStep
  <2>9. LogOK' /\ applyCh' = applyCh /\ replies' \subseteq replies
    BY <2>2, <2>8 DEF LogOK, LocalInv, applyVars
  <2>10. NetInv'
    BY <1>1, <1>2, <2>2, <2>9, AppendEntriesStep
  <2> QED
    BY <2>8, <2>10 DEF RaftInv
<1>6. CASE VoteCounted(m) /\ ~BecomeLeader(n, m)
  <2>1. voteCounter' = [voteCounter EXCEPT ![n] = @ + 1]
    BY <1>6 DEF VoteCounted
  <2>2. /\ Consumed(m)
        /\ UNCHANGED <<state, currentTerm, votedFor, logVars, applyVars, leaderVars,
                       stableVars, historyVars>>
    BY <1>6 DEF VoteCounted
  <2>3. LocalTypeOK'
    BY <1>1, <1>2, <2>1, <2>2 DEF LocalInv, LocalTypeOK, logVars, applyVars, leaderVars
  <2>4. HistoryTypeOK' /\ \A p \in Server : lastApplied'[p] >= lastApplied[p]
    BY <1>2, <2>2 DEF LocalInv, LocalTypeOK, HistoryTypeOK, applyVars, historyVars
  <2>5. LocalInv'
    BY <1>2, <2>2, <2>3, <2>4, VolatileStep
  <2> QED
    BY <1>2, <2>2, <2>5, ConsumedStep DEF RaftInv, applyVars
<1> QED
  BY <1>3, <1>4, <1>5, <1>6 DEF candidateRequestVote

\* A leader's tick keeps the invariant.
LEMMA HeartbeatInv ==
  ASSUME RaftInv, NEW n \in Server, Heartbeat(n)
  PROVE  RaftInv'
<1>1. /\ UNCHANGED <<electionVars, logVars, applyVars, nextIndex, matchIndex, stableVars,
                     replies, historyVars>>
      /\ appendEntries(n, TRUE)
  BY DEF Heartbeat
<1>2. sending' \in [Server -> SUBSET Server]
  BY <1>1, SendingTyped DEF RaftInv, LocalInv, LocalTypeOK
<1>3. LocalTypeOK'
  BY <1>1, <1>2 DEF RaftInv, LocalInv, LocalTypeOK, electionVars, logVars, applyVars
<1>4. HistoryTypeOK' /\ \A p \in Server : lastApplied'[p] >= lastApplied[p]
  BY <1>1 DEF RaftInv, LocalInv, LocalTypeOK, HistoryTypeOK, applyVars, historyVars
<1>5. LocalInv'
  BY <1>1, <1>3, <1>4, VolatileStep DEF RaftInv, electionVars
<1>6. NetInv'
  <2>1. LogOK' /\ applyCh' = applyCh /\ replies' \subseteq replies
    BY <1>1, <1>5 DEF LogOK, LocalInv, applyVars
  <2> QED
    BY <1>1, <2>1, AppendEntriesStep DEF RaftInv
<1> QED
  BY <1>5, <1>6 DEF RaftInv

\* An election timeout keeps the invariant.
LEMMA LeaderElectionInv ==
  ASSUME RaftInv, NEW n \in Server, leaderElection(n)
  PROVE  RaftInv'
<1>1. /\ currentTerm' = [currentTerm EXCEPT ![n] = @ + 1]
      /\ state' = [state EXCEPT ![n] = Candidate]
      /\ votedFor' = [votedFor EXCEPT ![n] = n]
      /\ voteCounter' = [voteCounter EXCEPT ![n] = 1]
      /\ UNCHANGED <<logVars, applyVars, nextIndex, matchIndex, snapshot, replies, cleared>>
      /\ persist(n)
      /\ ballots' = ballots \cup {<<n, currentTerm'[n], n>>}
  BY DEF leaderElection
<1>2. LocalInv /\ NetInv
  BY DEF RaftInv
<1>3. LocalTypeOK'
  <2>1. currentTerm' \in [Server -> Nat] /\ voteCounter' \in [Server -> Nat]
    BY <1>1, <1>2 DEF LocalInv, LocalTypeOK
  <2>2. /\ state' \in [Server -> {Follower, Candidate, Leader}]
        /\ votedFor' \in [Server -> Server \cup {None}]
    BY <1>1, <1>2 DEF LocalInv, LocalTypeOK
  <2>3. SnapshotTarget(n) \subseteq Server
    BY DEF SnapshotTarget, BehindSnapshot
  <2>4. sending' \in [Server -> SUBSET Server]
    BY <1>2, <2>3 DEF leaderElection, LocalInv, LocalTypeOK
  <2> QED
    BY <1>1, <1>2, <2>1, <2>2, <2>4 DEF LocalInv, LocalTypeOK, logVars, applyVars
<1>4. HistoryTypeOK'
  <2>1. currentTerm'[n] \in Nat
    BY <1>3 DEF LocalTypeOK
  <2> QED
    BY <1>1, <1>2, <2>1 DEF LocalInv, HistoryTypeOK
<1>5. /\ UNCHANGED <<logVars, lastApplied, snapshot>>
      /\ \A p \in Server \ {n} : currentTerm'[p] = currentTerm[p] /\ votedFor'[p] = votedFor[p]
  BY <1>1, <1>2 DEF LocalInv, LocalTypeOK, applyVars
<1>6. LocalInv'
  BY <1>1, <1>2, <1>3, <1>4, <1>5, ElectionStep
<1>7. NetInv'
  <2>1. \A m \in EntriesToSend(n, TRUE) : m \in AppendEntriesMessage /\ CountOn(m)
    BY <1>2, EntriesTyped DEF EntriesOK, LocalInv, LogOK
  <2>2. \A p \in Server : RequestVoteArgs(n, p)' \in RequestVoteMessage
    BY <1>6, PrimedReads DEF VoteArgsOK, LocalInv, LogOK
  <2>3. \A m \in requests' : m \in requests \/ GoodRequest(m)
    BY <2>1, <2>2 DEF leaderElection, GoodRequest
  <2> QED
    BY <1>1, <1>2, <2>3, NetStep DEF applyVars
<1> QED
  BY <1>6, <1>7 DEF RaftInv

-----------------------------------------------------------------------------
(* Log replication.                                                        *)

\* A server gets another log, counting on from base, and persists.
LEMMA LogStep ==
  ASSUME LocalInv, NEW n \in Server, NEW s, NEW base, WellFormed(s, base),
         LocalTypeOK', HistoryTypeOK', SnapshotIndexes', snapshot' \in [Server -> SnapshotData],
         log' = [log EXCEPT ![n] = s], persist(n), lastIncludeIndex'[n] = base,
         \A p \in Server \ {n} :
           /\ currentTerm'[p] = currentTerm[p] /\ votedFor'[p] = votedFor[p]
           /\ lastIncludeIndex'[p] = lastIncludeIndex[p]
           /\ lastIncludeTerm'[p] = lastIncludeTerm[p]
  PROVE  LocalInv'
<1>1. log \in [Server -> Seq(Entry)] /\ s \in Seq(Entry)
  BY DEF LocalInv, LogTypeOK, WellFormed
<1>2. log'[n] = s /\ \A p \in Server \ {n} : log'[p] = log[p]
  BY <1>1
<1>3. LogTypeOK'
  <2>1. log' \in [Server -> Seq(Entry)]
    BY <1>1
  <2>2. \A p \in Server : Len(log'[p]) > 0
    BY <1>2 DEF LocalInv, LogTypeOK, WellFormed
  <2> QED
    BY <2>1, <2>2 DEF LogTypeOK
<1>4. LogIndexes'
  <2>1. ASSUME NEW p \in Server
        PROVE  /\ log'[p][1].Index = 0
               /\ \A i \in 2..Len(log'[p]) : log'[p][i].Index = lastIncludeIndex'[p] + i - 1
    <3>1. CASE p = n
      BY <1>2, <3>1 DEF WellFormed
    <3>2. CASE p # n
      BY <1>2, <3>2 DEF LocalInv, LogIndexes
    <3> QED
      BY <3>1, <3>2
  <2> QED
    BY <2>1 DEF LogIndexes
<1>5. \A p \in Server \ {n} : RaftState(p)' = RaftState(p)
  BY <1>2 DEF RaftState
<1>6. raftstate' \in [Server -> StableState] /\ StableStateCurrent'
  BY <1>3, <1>5, PersistStep DEF LocalInv, StableTypeOK
<1> QED
  BY <1>3, <1>4, <1>6 DEF LocalInv, StableTypeOK

\* Start keeps the invariant.
LEMMA StartInv ==
  ASSUME RaftInv, NEW n \in Server, NEW command \in Command, Start(n, command)
  PROVE  RaftInv'
<1> DEFINE e == [Command |-> command, Term |-> currentTerm[n], Index |-> getLastIndex(n) + 1]
           s == Append(log[n], e)
<1>1. /\ log' = [log EXCEPT ![n] = s]
      /\ UNCHANGED <<electionVars, lastIncludeIndex, lastIncludeTerm, applyVars,
                     nextIndex, matchIndex, snapshot, replies, historyVars>>
      /\ persist(n)
      /\ appendEntries(n, FALSE)
  BY DEF Start, LocalInv, LogTypeOK, RaftInv
<1>2. LocalInv /\ NetInv
  BY DEF RaftInv
<1>3. lastIncludeIndex[n] \in Nat /\ currentTerm[n] \in Nat /\ log[n] \in Seq(Entry)
  BY <1>2 DEF LocalInv, LocalTypeOK, LogTypeOK
<1>4. Len(log[n]) \in Nat
  BY <1>3, LenProperties
<1>5. e \in Entry /\ e.Index = Len(log[n]) + lastIncludeIndex[n]
  <2>1. getLastIndex(n) + 1 \in Nat
    BY <1>2, ReadsInRange DEF LogOK, ReadsOK, LocalInv
  <2> QED
    BY <1>3, <1>4, <2>1 DEF Entry, getLastIndex
<1> HIDE DEF e
<1>6. WellFormed(s, lastIncludeIndex[n])
  BY <1>2, <1>3, <1>5, LogsWellFormed, AppendWellFormed DEF LocalInv
<1> HIDE DEF s
<1>7. LocalTypeOK'
  <2>1. sending' \in [Server -> SUBSET Server]
    BY <1>1, <1>2, SendingTyped DEF LocalInv, LocalTypeOK
  <2> QED
    BY <1>1, <1>2, <2>1 DEF LocalInv, LocalTypeOK, electionVars, applyVars
<1>8. /\ HistoryTypeOK' /\ SnapshotIndexes' /\ snapshot' \in [Server -> SnapshotData]
      /\ lastIncludeIndex'[n] = lastIncludeIndex[n]
      /\ \A p \in Server \ {n} :
           /\ currentTerm'[p] = currentTerm[p] /\ votedFor'[p] = votedFor[p]
           /\ lastIncludeIndex'[p] = lastIncludeIndex[p]
           /\ lastIncludeTerm'[p] = lastIncludeTerm[p]
  BY <1>1, <1>2 DEF LocalInv, HistoryTypeOK, SnapshotIndexes, StableTypeOK, historyVars,
     applyVars, electionVars
<1>9. LocalInv'
  BY <1>1, <1>2, <1>6, <1>7, <1>8, LogStep
<1>10. NetInv'
  <2>1. LogOK' /\ applyCh' = applyCh /\ replies' \subseteq replies
    BY <1>1, <1>9 DEF LogOK, LocalInv, applyVars
  <2> QED
    BY <1>1, <1>2, <2>1, AppendEntriesStep
<1> QED
  BY <1>9, <1>10 DEF RaftInv

\* The reply AppendEntries fills in is well formed, conflict hint included.
LEMMA AppendEntriesReplyTyped ==
  ASSUME NEW m \in AppendEntriesMessage, currentTerm[m.to] \in Nat,
         NEW success \in BOOLEAN, NEW conflict \in BOOLEAN, NEW xTerm \in Nat \cup {-1},
         NEW xIndex \in Nat \cup {-1}, xTerm # -1 => xIndex # -1, NEW xLen \in Nat
  PROVE  GoodReply(AppendEntriesReply(m, success, conflict, xTerm, xIndex, xLen))
<1>1. /\ m.from \in Server /\ m.to \in Server /\ m.Term \in Nat /\ m.PrevLogIndex \in Nat
      /\ m.Entries \in Seq(Entry)
  BY DEF AppendEntriesMessage
<1>2. Len(m.Entries) \in Nat
  BY <1>1, LenProperties
<1>3. m.PrevLogIndex + Len(m.Entries) \in Nat
  BY <1>1, <1>2
<1> QED
  BY <1>1, <1>3 DEF GoodReply, AppendEntriesReply, AppendEntriesReplyMessage

\* What CurrentLeaderHeard does to the types.
LEMMA CurrentLeaderHeardStep ==
  ASSUME LocalInv, NEW m, m.to \in Server, CurrentLeaderHeard(m),
         commitIndex' \in [Server -> Nat]
  PROVE  /\ LocalTypeOK' /\ HistoryTypeOK' /\ SnapshotIndexes'
         /\ snapshot' \in [Server -> SnapshotData] /\ applyCh' = applyCh
         /\ UNCHANGED <<currentTerm, votedFor, lastIncludeIndex, lastIncludeTerm, lastApplied,
                        snapshot>>
<1>1. state' \in [Server -> {Follower, Candidate, Leader}]
  BY DEF LocalInv, LocalTypeOK, CurrentLeaderHeard
<1>2. UNCHANGED <<currentTerm, votedFor, voteCounter, leaderVars, lastApplied, applyCh,
                  lastIncludeIndex, lastIncludeTerm, snapshot, historyVars>>
  BY DEF CurrentLeaderHeard
<1>3. LocalTypeOK'
  BY <1>1, <1>2 DEF LocalInv, LocalTypeOK, leaderVars
<1>4. HistoryTypeOK' /\ SnapshotIndexes' /\ snapshot' \in [Server -> SnapshotData]
  BY <1>2 DEF LocalInv, HistoryTypeOK, SnapshotIndexes, StableTypeOK, historyVars
<1> QED
  BY <1>2, <1>3, <1>4

\* A rejection leaves everything but the role as it was.
LEMMA RejectStep ==
  ASSUME LocalInv, NEW m, m.to \in Server, CurrentLeaderHeard(m),
         UNCHANGED <<log, commitIndex, raftstate>>
  PROVE  LocalInv' /\ applyCh' = applyCh
<1>1. commitIndex' \in [Server -> Nat]
  BY DEF LocalInv, LocalTypeOK
<1>2. /\ LocalTypeOK' /\ HistoryTypeOK' /\ applyCh' = applyCh
      /\ UNCHANGED <<currentTerm, votedFor, lastIncludeIndex, lastIncludeTerm, lastApplied,
                     snapshot>>
  BY <1>1, CurrentLeaderHeardStep
<1>3. UNCHANGED <<logVars, stableVars>>
  BY <1>2 DEF logVars, stableVars
<1>4. \A n \in Server : lastApplied'[n] >= lastApplied[n]
  BY <1>2 DEF LocalInv, LocalTypeOK
<1> QED
  BY <1>2, <1>3, <1>4, VolatileStep

\* The XIndex that AppendEntries finds for a conflict is a position of the log.
LEMMA ConflictIndexTyped ==
  ASSUME NEW n \in Server, lastIncludeIndex[n] \in Nat, NEW prev \in Nat
  PROVE  ConflictIndex(n, prev) \in Nat
BY DEF ConflictIndex

\* The branch of AppendEntries that takes the entries over.
LEMMA AppendAcceptInv ==
  ASSUME RaftInv, NEW m \in requests, m.type = "AppendEntries", AppendAccept(m)
  PROVE  RaftInv'
<1> DEFINE n == m.to
           prev == m.PrevLogIndex
           s == SubSeq(log[n], 1, prev + 1 - lastIncludeIndex[n]) \o m.Entries
<1>1. m \in AppendEntriesMessage /\ CountOn(m)
  BY RequestFields DEF RaftInv, NetInv
<1>2. /\ n \in Server /\ prev \in Nat /\ m.Entries \in Seq(Entry) /\ m.LeaderCommit \in Nat
      /\ \A i \in 1..Len(m.Entries) : m.Entries[i].Index = prev + i
  BY <1>1 DEF AppendEntriesMessage, CountOn
<1>3. LocalInv /\ NetInv
  BY DEF RaftInv
<1>4. /\ HasPrev(m) /\ CurrentLeaderHeard(m) /\ persist(n)
      /\ log' = [log EXCEPT ![n] = s]
      /\ commitIndex' = [commitIndex EXCEPT ![n] =
           IF m.LeaderCommit > @ THEN AtMost(m.LeaderCommit, getLastIndex(n)') ELSE @]
      /\ Answer(m, AppendEntriesReply(m, TRUE, FALSE, 0, 0, 0))
  BY DEF AppendAccept
<1>5. lastIncludeIndex[n] \in Nat /\ currentTerm[n] \in Nat
  BY <1>2, <1>3 DEF LocalInv, LocalTypeOK
<1>6. prev \in lastIncludeIndex[n]..(Len(log[n]) - 1 + lastIncludeIndex[n])
  BY <1>4 DEF HasPrev, getLastIndex
<1>7. WellFormed(s, lastIncludeIndex[n])
  <2>1. WellFormed(log[n], lastIncludeIndex[n])
    BY <1>2, <1>3, LogsWellFormed DEF LocalInv
  <2> QED
    BY <1>2, <1>5, <1>6, <2>1, AcceptWellFormed
<1> HIDE DEF s, n, prev
<1>8. getLastIndex(n)' \in Nat
  <2>1. log'[n] = s /\ lastIncludeIndex'[n] = lastIncludeIndex[n]
    BY <1>2, <1>3, <1>4 DEF LocalInv, LogTypeOK, CurrentLeaderHeard
  <2>2. Len(s) \in Nat /\ Len(s) > 0
    BY <1>7, LenProperties DEF WellFormed
  <2> QED
    BY <1>5, <2>1, <2>2 DEF getLastIndex
<1>9. commitIndex' \in [Server -> Nat]
  BY <1>2, <1>3, <1>4, <1>8 DEF LocalInv, LocalTypeOK, AtMost
<1>10. /\ LocalTypeOK' /\ HistoryTypeOK' /\ SnapshotIndexes'
       /\ snapshot' \in [Server -> SnapshotData] /\ applyCh' = applyCh
       /\ UNCHANGED <<currentTerm, votedFor, lastIncludeIndex, lastIncludeTerm>>
  BY <1>2, <1>3, <1>4, <1>9, CurrentLeaderHeardStep DEF n
<1>11. LocalInv'
  BY <1>2, <1>3, <1>4, <1>7, <1>10, LogStep
<1>12. NetInv'
  <2>1. GoodReply(AppendEntriesReply(m, TRUE, FALSE, 0, 0, 0))
    BY <1>1, <1>5, AppendEntriesReplyTyped DEF n
  <2> QED
    BY <1>3, <1>4, <1>10, <2>1, AnswerStep
<1> QED
  BY <1>11, <1>12 DEF RaftInv

\* AppendEntries keeps the invariant.
LEMMA AppendEntriesInv ==
  ASSUME RaftInv, NEW m \in requests, m.type = "AppendEntries", AppendEntries(m)
  PROVE  RaftInv'
<1> DEFINE n == m.to
<1>1. m \in AppendEntriesMessage
  BY RequestFields DEF RaftInv, NetInv
<1>2. n \in Server /\ m.Term \in Nat /\ m.PrevLogIndex \in Nat
  BY <1>1 DEF AppendEntriesMessage
<1>3. LocalInv /\ NetInv
  BY DEF RaftInv
<1>4. currentTerm[n] \in Nat /\ lastIncludeIndex[n] \in Nat
  BY <1>2, <1>3 DEF LocalInv, LocalTypeOK
<1>5. /\ getLastIndex(n) \in Nat
      /\ \A i \in lastIncludeIndex[n]..getLastIndex(n) : restoreLogTerm(n, i) \in Nat
  BY <1>2, <1>3, ReadsInRange DEF LogOK, ReadsOK, LocalInv
<1>6. CASE AppendNewerTerm(m)
  <2>1. LocalInv'
    BY <1>2, <1>3, <1>6, SetNewTermStep DEF AppendNewerTerm
  <2>2. GoodReply(AppendEntriesReply(m, FALSE, FALSE, 0, 0, 0))
    BY <1>1, <1>4, AppendEntriesReplyTyped
  <2>3. NetInv'
    BY <1>3, <1>6, <2>2, AnswerStep DEF AppendNewerTerm, applyVars
  <2> QED
    BY <2>1, <2>3 DEF RaftInv
<1>7. CASE AppendStale(m)
  <2>1. LocalInv' /\ applyCh' = applyCh
    BY <1>3, <1>7, ReadOnlyStep DEF AppendStale
  <2>2. NetInv'
    BY <1>1, <1>3, <1>4, <1>7, <2>1, AppendEntriesReplyTyped, AnswerStep DEF AppendStale
  <2> QED
    BY <2>1, <2>2 DEF RaftInv
<1>8. CASE AppendBehindSnapshot(m)
  <2>1. LocalInv' /\ applyCh' = applyCh
    BY <1>2, <1>3, <1>8, RejectStep DEF AppendBehindSnapshot
  <2>2. GoodReply(AppendEntriesReply(m, FALSE, FALSE, 0, lastIncludeIndex[n] + 1, 0))
    <3> DEFINE next == lastIncludeIndex[n] + 1
    <3>1. next \in Nat \cup {-1} /\ next # -1
      BY <1>4
    <3> HIDE DEF next
    <3>2. GoodReply(AppendEntriesReply(m, FALSE, FALSE, 0, next, 0))
      BY <1>1, <1>4, <3>1, AppendEntriesReplyTyped
    <3> QED
      BY <3>2 DEF next
  <2>3. NetInv'
    BY <1>3, <1>8, <2>1, <2>2, AnswerStep DEF AppendBehindSnapshot
  <2> QED
    BY <2>1, <2>3 DEF RaftInv
<1>9. CASE AppendMissing(m)
  <2>1. LocalInv' /\ applyCh' = applyCh
    BY <1>2, <1>3, <1>9, RejectStep DEF AppendMissing
  <2>2. GoodReply(AppendEntriesReply(m, FALSE, TRUE, -1, -1, getLastIndex(n)))
    <3>1. -1 \in Nat \cup {-1}
      OBVIOUS
    <3> QED
      BY <1>1, <1>4, <1>5, <3>1, AppendEntriesReplyTyped
  <2>3. NetInv'
    BY <1>3, <1>9, <2>1, <2>2, AnswerStep DEF AppendMissing
  <2> QED
    BY <2>1, <2>3 DEF RaftInv
<1>10. CASE AppendConflict(m)
  <2>1. LocalInv' /\ applyCh' = applyCh
    BY <1>2, <1>3, <1>10, RejectStep DEF AppendConflict
  <2>2. restoreLogTerm(n, m.PrevLogIndex) \in Nat /\ ConflictIndex(n, m.PrevLogIndex) \in Nat
    BY <1>2, <1>4, <1>5, <1>10, ConflictIndexTyped DEF AppendConflict, HasPrev
  <2>3. GoodReply(AppendEntriesReply(m, FALSE, TRUE, restoreLogTerm(n, m.PrevLogIndex),
                                     ConflictIndex(n, m.PrevLogIndex), getLastIndex(n)))
    <3>1. ConflictIndex(n, m.PrevLogIndex) \in Nat \cup {-1}
          /\ ConflictIndex(n, m.PrevLogIndex) # -1
          /\ restoreLogTerm(n, m.PrevLogIndex) \in Nat \cup {-1}
      BY <2>2
    <3> QED
      BY <1>1, <1>4, <1>5, <3>1, AppendEntriesReplyTyped
  <2>4. NetInv'
    BY <1>3, <1>10, <2>1, <2>3, AnswerStep DEF AppendConflict
  <2> QED
    BY <2>1, <2>4 DEF RaftInv
<1>11. CASE AppendAccept(m)
  BY <1>11, AppendAcceptInv
<1> QED
  BY <1>6, <1>7, <1>8, <1>9, <1>10, <1>11 DEF AppendEntries

\* A rejected leader backs off to a natural number.
LEMMA BackedOffTyped ==
  ASSUME LocalInv, NEW m \in AppendEntriesReplyMessage
  PROVE  BackedOff(m.to, m) \in Nat
<1> DEFINE n == m.to
           i == findLastLogInTerm(n, m.XTerm)
<1>1. /\ n \in Server /\ m.from \in Server /\ m.XLen \in Nat
      /\ m.XTerm # -1 => m.XIndex \in Nat
  BY DEF AppendEntriesReplyMessage
<1>2. nextIndex[n][m.from] \in Nat /\ lastIncludeIndex[n] \in Nat
  BY <1>1 DEF LocalInv, LocalTypeOK
<1>3. i \in Int
  <2>1. lastIncludeIndex[n] + 1 \in Int
    BY <1>2
  <2> QED
    BY <2>1 DEF findLastLogInTerm
<1> HIDE DEF i
<1>4. m.XTerm # -1 => (IF i > 0 THEN i ELSE m.XIndex) \in Nat
  BY <1>1, <1>3
<1>5. nextIndex[n][m.from] > 1 => nextIndex[n][m.from] - 1 \in Nat
  BY <1>2
<1> HIDE DEF n
<1>6. CASE m.Conflict /\ m.XTerm = -1
  BY <1>1, <1>6 DEF BackedOff
<1>7. CASE m.Conflict /\ m.XTerm # -1
  BY <1>4, <1>7 DEF BackedOff, i, n
<1>8. CASE ~m.Conflict /\ nextIndex[n][m.from] > 1
  BY <1>5, <1>8 DEF BackedOff, n
<1>9. CASE ~m.Conflict /\ ~(nextIndex[n][m.from] > 1)
  BY <1>2, <1>9 DEF BackedOff, n
<1> QED
  BY <1>6, <1>7, <1>8, <1>9

\* leaderCommitRule leaves a natural number in commitIndex.
LEMMA LeaderCommitTyped ==
  ASSUME NEW n \in Server, commitIndex \in [Server -> Nat], leaderCommitRule(n)
  PROVE  commitIndex' \in [Server -> Nat]
<1> DEFINE reached == {commitIndex[n]}
                        \cup (IF state[n] = Leader THEN Replicated(n, matchIndex'[n]) ELSE {})
<1>1. \A i \in reached : i \in Nat
  <2>1. commitIndex[n] \in Nat
    OBVIOUS
  <2>2. Replicated(n, matchIndex'[n]) \subseteq Nat
    BY <2>1 DEF Replicated
  <2> QED
    BY <2>1, <2>2
<1>2. PICK i \in reached : commitIndex' = [commitIndex EXCEPT ![n] = i]
  BY DEF leaderCommitRule
<1> QED
  BY <1>1, <1>2

\* One peer's entry of a server's nextIndex or matchIndex is overwritten.
LEMMA PeerIndexTyped ==
  ASSUME NEW f \in [Server -> [Server -> Nat]], NEW n \in Server, NEW p \in Server, NEW i \in Nat
  PROVE  [f EXCEPT ![n][p] = i] \in [Server -> [Server -> Nat]]
OBVIOUS

\* leaderSendEntries keeps the invariant.
LEMMA LeaderSendEntriesInv ==
  ASSUME RaftInv, NEW m \in replies, m.type = "AppendEntriesReply", leaderSendEntries(m)
  PROVE  RaftInv'
<1> DEFINE n == m.to
           p == m.from
<1>1. m \in AppendEntriesReplyMessage
  BY ReplyFields DEF RaftInv, NetInv
<1>2. n \in Server /\ p \in Server /\ m.Term \in Nat /\ m.match \in Nat
  BY <1>1 DEF AppendEntriesReplyMessage
<1>3. LocalInv /\ NetInv
  BY DEF RaftInv
<1>4. CASE AppendReplyNewerTerm(m)
  <2>1. LocalInv'
    BY <1>2, <1>3, <1>4, SetNewTermStep DEF AppendReplyNewerTerm
  <2> QED
    BY <1>3, <1>4, <2>1, ConsumedStep DEF AppendReplyNewerTerm, applyVars, RaftInv
<1>5. CASE AppendReplyStale(m)
  BY <1>3, <1>5, ReadOnlyStep, ConsumedStep DEF AppendReplyStale, RaftInv
<1>6. CASE AppendReplyCurrent(m)
  <2>1. /\ Consumed(m) /\ leaderCommitRule(n)
        /\ UNCHANGED <<electionVars, logVars, lastApplied, applyCh, sending, stableVars,
                       historyVars>>
    BY <1>6 DEF AppendReplyCurrent
  <2>2. /\ nextIndex' \in [Server -> [Server -> Nat]]
        /\ matchIndex' \in [Server -> [Server -> Nat]]
    <3>1. BackedOff(n, m) \in Nat
      BY <1>1, <1>3, BackedOffTyped
    <3>2. nextIndex \in [Server -> [Server -> Nat]] /\ matchIndex \in [Server -> [Server -> Nat]]
      BY <1>3 DEF LocalInv, LocalTypeOK
    <3>3. CASE m.Success
      <4>1. /\ nextIndex' = [nextIndex EXCEPT ![n][p] = AtLeast(nextIndex[n][p], m.match + 1)]
            /\ matchIndex' = [matchIndex EXCEPT ![n][p] = AtLeast(matchIndex[n][p], m.match)]
        BY <1>6, <3>3 DEF AppendReplyCurrent
      <4>2. /\ AtLeast(nextIndex[n][p], m.match + 1) \in Nat
            /\ AtLeast(matchIndex[n][p], m.match) \in Nat
        BY <1>2, <3>2 DEF AtLeast
      <4> QED
        BY <1>2, <3>2, <4>1, <4>2, PeerIndexTyped
    <3>4. CASE ~m.Success
      <4>1. nextIndex' = [nextIndex EXCEPT ![n][p] = BackedOff(n, m)] /\ matchIndex' = matchIndex
        BY <1>6, <3>4 DEF AppendReplyCurrent
      <4> QED
        BY <1>2, <3>1, <3>2, <4>1, PeerIndexTyped
    <3> QED
      BY <3>3, <3>4
  <2>3. commitIndex' \in [Server -> Nat]
    BY <1>2, <1>3, <2>1, LeaderCommitTyped DEF LocalInv, LocalTypeOK
  <2>4. LocalTypeOK'
    BY <1>3, <2>1, <2>2, <2>3 DEF LocalInv, LocalTypeOK, electionVars, logVars
  <2>5. HistoryTypeOK' /\ \A q \in Server : lastApplied'[q] >= lastApplied[q]
    BY <1>3, <2>1 DEF LocalInv, LocalTypeOK, HistoryTypeOK, historyVars
  <2>6. LocalInv'
    BY <1>3, <2>1, <2>4, <2>5, VolatileStep DEF electionVars
  <2> QED
    BY <1>3, <2>1, <2>6, ConsumedStep DEF RaftInv
<1> QED
  BY <1>4, <1>5, <1>6 DEF leaderSendEntries

-----------------------------------------------------------------------------
(* Snapshots.                                                              *)

\* leaderSendSnapShot keeps the invariant: the index, the term and the bytes
\* it reads belong together.
LEMMA LeaderSendSnapShotInv ==
  ASSUME RaftInv, NEW n \in Server, NEW p \in Server, leaderSendSnapShot(n, p)
  PROVE  RaftInv'
<1>1. /\ sending' = [sending EXCEPT ![n] = @ \ {p}]
      /\ requests' = requests \cup {InstallSnapshotArgs(n, p)}
      /\ UNCHANGED <<electionVars, logVars, applyVars, nextIndex, matchIndex, stableVars,
                     replies, historyVars>>
  BY DEF leaderSendSnapShot
<1>2. LocalInv /\ NetInv
  BY DEF RaftInv
<1>3. LocalTypeOK'
  BY <1>1, <1>2 DEF LocalInv, LocalTypeOK, electionVars, logVars, applyVars
<1>4. HistoryTypeOK' /\ \A q \in Server : lastApplied'[q] >= lastApplied[q]
  BY <1>1, <1>2 DEF LocalInv, LocalTypeOK, HistoryTypeOK, applyVars, historyVars
<1>5. LocalInv'
  BY <1>1, <1>2, <1>3, <1>4, VolatileStep DEF electionVars
<1>6. GoodRequest(InstallSnapshotArgs(n, p))
  <2>1. /\ currentTerm[n] \in Nat /\ lastIncludeIndex[n] \in Nat /\ lastIncludeTerm[n] \in Nat
        /\ snapshot[n] \in SnapshotData /\ snapshot[n].Index = lastIncludeIndex[n]
    BY <1>2 DEF LocalInv, LocalTypeOK, StableTypeOK, SnapshotIndexes
  <2> QED
    BY <2>1 DEF GoodRequest, InstallSnapshotArgs, InstallSnapShotMessage
<1>7. NetInv'
  BY <1>1, <1>2, <1>6, NetStep DEF applyVars
<1> QED
  BY <1>5, <1>7 DEF RaftInv

\* The reply InstallSnapShot fills in is a well-formed message.
LEMMA InstallSnapshotReplyTyped ==
  ASSUME NEW m \in InstallSnapShotMessage, NEW term \in Nat
  PROVE  InstallSnapshotReply(m, term) \in InstallSnapShotReplyMessage
BY DEF InstallSnapShotMessage, InstallSnapshotReply, InstallSnapShotReplyMessage

\* What SnapshotHeard does to the types.
LEMMA SnapshotHeardStep ==
  ASSUME LocalInv, NEW m \in InstallSnapShotMessage, SnapshotHeard(m)
  PROVE  /\ HistoryTypeOK'
         /\ currentTerm' \in [Server -> Nat]
         /\ state' \in [Server -> {Follower, Candidate, Leader}]
         /\ votedFor' \in [Server -> Server \cup {None}]
         /\ UNCHANGED <<voteCounter, leaderVars>>
         /\ \A p \in Server \ {m.to} :
              currentTerm'[p] = currentTerm[p] /\ votedFor'[p] = votedFor[p]
<1>1. m.to \in Server /\ m.Term \in Nat
  BY DEF InstallSnapShotMessage
<1>2. HistoryTypeOK'
  BY <1>1 DEF LocalInv, HistoryTypeOK, SnapshotHeard
<1> QED
  BY <1>1, <1>2 DEF LocalInv, LocalTypeOK, SnapshotHeard

\* The branch of InstallSnapShot that takes the snapshot over.
LEMMA InstallNewInv ==
  ASSUME RaftInv, NEW m \in requests, m.type = "InstallSnapShot", InstallNew(m)
  PROVE  RaftInv'
<1> DEFINE n == m.to
           index == m.LastIncludeIndex
           msg == [type |-> "snapshot", Index |-> index, Term |-> m.LastIncludeTerm,
                   Data |-> m.Data,
                   reply |-> IF m.open THEN {InstallSnapshotReply(m, m.Term)} ELSE {}]
<1>1. m \in InstallSnapShotMessage /\ m.Data.Index = index
  BY RequestFields DEF RaftInv, NetInv
<1>2. /\ n \in Server /\ m.Term \in Nat /\ index \in Nat /\ m.LastIncludeTerm \in Nat
      /\ m.Data \in SnapshotData
  BY <1>1 DEF InstallSnapShotMessage
<1>3. LocalInv /\ NetInv
  BY DEF RaftInv
<1>4. /\ lastIncludeIndex[n] < index
      /\ SnapshotHeard(m)
      /\ log' = [log EXCEPT ![n] = TruncateTo(n, index)]
      /\ lastIncludeIndex' = [lastIncludeIndex EXCEPT ![n] = index]
      /\ lastIncludeTerm' = [lastIncludeTerm EXCEPT ![n] = m.LastIncludeTerm]
      /\ commitIndex' = [commitIndex EXCEPT ![n] = AtLeast(@, index)]
      /\ lastApplied' = [lastApplied EXCEPT ![n] = AtLeast(@, index)]
      /\ SaveStateAndSnapshot(n, m.Data)
      /\ applyCh' = [applyCh EXCEPT ![n] = @ \cup {msg}]
      /\ requests' = requests \ {m}
      /\ UNCHANGED replies
  BY DEF InstallNew
<1> HIDE DEF msg
<1>5. /\ HistoryTypeOK'
      /\ currentTerm' \in [Server -> Nat]
      /\ state' \in [Server -> {Follower, Candidate, Leader}]
      /\ votedFor' \in [Server -> Server \cup {None}]
      /\ UNCHANGED <<voteCounter, leaderVars>>
      /\ \A p \in Server \ {n} : currentTerm'[p] = currentTerm[p] /\ votedFor'[p] = votedFor[p]
  BY <1>1, <1>3, <1>4, SnapshotHeardStep
<1>6. /\ lastIncludeIndex \in [Server -> Nat] /\ lastIncludeTerm \in [Server -> Nat]
      /\ commitIndex \in [Server -> Nat] /\ lastApplied \in [Server -> Nat]
      /\ snapshot \in [Server -> SnapshotData]
  BY <1>3 DEF LocalInv, LocalTypeOK, StableTypeOK
<1>7. /\ lastIncludeIndex' \in [Server -> Nat] /\ lastIncludeTerm' \in [Server -> Nat]
      /\ commitIndex' \in [Server -> Nat] /\ lastApplied' \in [Server -> Nat]
  BY <1>2, <1>4, <1>6 DEF AtLeast
<1>8. LocalTypeOK'
  BY <1>3, <1>5, <1>7 DEF LocalInv, LocalTypeOK, leaderVars
<1>9. /\ lastIncludeIndex'[n] = index
      /\ \A p \in Server \ {n} :
           lastIncludeIndex'[p] = lastIncludeIndex[p] /\ lastIncludeTerm'[p] = lastIncludeTerm[p]
  BY <1>2, <1>4, <1>6
<1>10. snapshot' = [snapshot EXCEPT ![n] = m.Data] /\ persist(n)
  BY <1>4 DEF SaveStateAndSnapshot, persist
<1>11. SnapshotIndexes' /\ snapshot' \in [Server -> SnapshotData]
  <2>1. ASSUME NEW p \in Server
        PROVE  snapshot'[p].Index = lastIncludeIndex'[p] /\ lastIncludeIndex'[p] <= lastApplied'[p]
    <3>1. CASE p = n
      BY <1>1, <1>2, <1>4, <1>6, <1>10, <3>1 DEF AtLeast
    <3>2. CASE p # n
      BY <1>2, <1>3, <1>4, <1>6, <1>10, <3>2 DEF LocalInv, SnapshotIndexes
    <3> QED
      BY <3>1, <3>2
  <2> QED
    BY <1>2, <1>6, <1>10, <2>1 DEF SnapshotIndexes
<1>12. WellFormed(TruncateTo(n, index), index)
  <2>1. WellFormed(log[n], lastIncludeIndex[n])
    BY <1>2, <1>3, LogsWellFormed DEF LocalInv
  <2> QED
    BY <1>2, <1>4, <1>6, <2>1, TruncateWellFormed DEF TruncateTo
<1> HIDE DEF n, index
<1>13. LocalInv'
  BY <1>2, <1>3, <1>4, <1>5, <1>8, <1>9, <1>10, <1>11, <1>12, LogStep
<1>14. GoodApply(msg)
  <2>1. InstallSnapshotReply(m, m.Term) \in InstallSnapShotReplyMessage
    BY <1>1, <1>2, InstallSnapshotReplyTyped
  <2> QED
    BY <1>1, <1>2, <2>1 DEF GoodApply, SnapshotMessage, msg
<1>15. NetInv'
  <2>1. applyCh = [p \in Server |-> applyCh[p]]
    BY <1>3 DEF NetInv
  <2>2. \A p \in Server : \A x \in applyCh'[p] : GoodApply(x)
    BY <1>3, <1>4, <1>14, <2>1 DEF NetInv
  <2>3. applyCh' = [p \in Server |-> applyCh'[p]] /\ DOMAIN applyCh' = Server
    BY <1>4, <2>1
  <2> QED
    BY <1>3, <1>4, <2>2, <2>3 DEF NetInv
<1> QED
  BY <1>13, <1>15 DEF RaftInv

\* InstallSnapShot keeps the invariant.
LEMMA InstallSnapShotInv ==
  ASSUME RaftInv, NEW m \in requests, m.type = "InstallSnapShot", InstallSnapShot(m)
  PROVE  RaftInv'
<1> DEFINE n == m.to
<1>1. m \in InstallSnapShotMessage
  BY RequestFields DEF RaftInv, NetInv
<1>2. n \in Server /\ m.Term \in Nat
  BY <1>1 DEF InstallSnapShotMessage
<1>3. LocalInv /\ NetInv
  BY DEF RaftInv
<1>4. \A term \in Nat : GoodReply(InstallSnapshotReply(m, term))
  BY <1>1, InstallSnapshotReplyTyped DEF GoodReply
<1>5. CASE InstallStale(m)
  <2>1. LocalInv' /\ applyCh' = applyCh
    BY <1>3, <1>5, ReadOnlyStep DEF InstallStale
  <2>2. currentTerm[n] \in Nat
    BY <1>2, <1>3 DEF LocalInv, LocalTypeOK
  <2>3. NetInv'
    BY <1>3, <1>4, <1>5, <2>1, <2>2, AnswerStep DEF InstallStale
  <2> QED
    BY <2>1, <2>3 DEF RaftInv
<1>6. CASE InstallOld(m)
  <2>1. /\ SnapshotHeard(m) /\ UNCHANGED <<logVars, applyVars, snapshot>>
        /\ persist(n) /\ Answer(m, InstallSnapshotReply(m, m.Term))
    BY <1>6 DEF InstallOld
  <2>2. /\ HistoryTypeOK'
        /\ currentTerm' \in [Server -> Nat]
        /\ state' \in [Server -> {Follower, Candidate, Leader}]
        /\ votedFor' \in [Server -> Server \cup {None}]
        /\ UNCHANGED <<voteCounter, leaderVars>>
        /\ \A p \in Server \ {n} : currentTerm'[p] = currentTerm[p] /\ votedFor'[p] = votedFor[p]
    BY <1>1, <1>3, <2>1, SnapshotHeardStep
  <2>3. LocalTypeOK'
    BY <1>3, <2>1, <2>2 DEF LocalInv, LocalTypeOK, logVars, applyVars, leaderVars
  <2>4. UNCHANGED <<logVars, lastApplied, snapshot>> /\ applyCh' = applyCh
    BY <2>1 DEF applyVars
  <2>5. LocalInv'
    BY <1>2, <1>3, <2>1, <2>2, <2>3, <2>4, ElectionStep
  <2>6. NetInv'
    BY <1>2, <1>3, <1>4, <2>1, <2>4, AnswerStep
  <2> QED
    BY <2>5, <2>6 DEF RaftInv
<1>7. CASE InstallNew(m)
  BY <1>7, InstallNewInv
<1> QED
  BY <1>5, <1>6, <1>7 DEF InstallSnapShot

\* The goroutine that waited for InstallSnapShot keeps the invariant.
LEMMA SnapshotReplyInv ==
  ASSUME RaftInv, NEW m \in replies, m.type = "InstallSnapShotReply", SnapshotReply(m)
  PROVE  RaftInv'
<1> DEFINE n == m.to
<1>1. m \in InstallSnapShotReplyMessage
  BY ReplyFields DEF RaftInv, NetInv
<1>2. n \in Server /\ m.from \in Server /\ m.LastIncludeIndex \in Nat
  BY <1>1 DEF InstallSnapShotReplyMessage
<1>3. LocalInv /\ NetInv
  BY DEF RaftInv
<1>4. CASE SnapshotReplyStale(m)
  BY <1>3, <1>4, ReadOnlyStep, ConsumedStep DEF SnapshotReplyStale, RaftInv
<1>5. CASE SnapshotReplyNewerTerm(m)
  <2>1. /\ state' = [state EXCEPT ![n] = Follower]
        /\ votedFor' = [votedFor EXCEPT ![n] = None]
        /\ cleared' = cleared \cup {<<n, currentTerm[n]>>}
        /\ Consumed(m)
        /\ UNCHANGED <<currentTerm, voteCounter, logVars, applyVars, leaderVars, snapshot, ballots>>
        /\ persist(n)
    BY <1>5 DEF SnapshotReplyNewerTerm
  <2>2. LocalTypeOK'
    BY <1>2, <1>3, <2>1 DEF LocalInv, LocalTypeOK, logVars, applyVars, leaderVars
  <2>3. HistoryTypeOK'
    <3>1. currentTerm[n] \in Nat
      BY <1>2, <1>3 DEF LocalInv, LocalTypeOK
    <3> QED
      BY <1>2, <1>3, <2>1, <3>1 DEF LocalInv, HistoryTypeOK
  <2>4. /\ UNCHANGED <<logVars, lastApplied, snapshot>> /\ applyCh' = applyCh
        /\ \A p \in Server \ {n} : currentTerm'[p] = currentTerm[p] /\ votedFor'[p] = votedFor[p]
    BY <1>3, <2>1 DEF LocalInv, LocalTypeOK, applyVars
  <2>5. LocalInv'
    BY <1>2, <1>3, <2>1, <2>2, <2>3, <2>4, ElectionStep
  <2> QED
    BY <1>3, <2>1, <2>4, <2>5, ConsumedStep DEF RaftInv
<1>6. CASE SnapshotReplyCurrent(m)
  <2>1. /\ matchIndex' = [matchIndex EXCEPT ![n][m.from] = m.LastIncludeIndex]
        /\ nextIndex' = [nextIndex EXCEPT ![n][m.from] = m.LastIncludeIndex + 1]
        /\ Consumed(m)
        /\ UNCHANGED <<electionVars, logVars, applyVars, sending, stableVars, historyVars>>
    BY <1>6 DEF SnapshotReplyCurrent
  <2>2. /\ matchIndex' \in [Server -> [Server -> Nat]]
        /\ nextIndex' \in [Server -> [Server -> Nat]]
    <3>1. m.LastIncludeIndex + 1 \in Nat
      BY <1>2
    <3>2. matchIndex \in [Server -> [Server -> Nat]] /\ nextIndex \in [Server -> [Server -> Nat]]
      BY <1>3 DEF LocalInv, LocalTypeOK
    <3> QED
      BY <1>2, <2>1, <3>1, <3>2, PeerIndexTyped
  <2>3. LocalTypeOK'
    BY <1>3, <2>1, <2>2 DEF LocalInv, LocalTypeOK, electionVars, logVars, applyVars
  <2>4. HistoryTypeOK' /\ \A q \in Server : lastApplied'[q] >= lastApplied[q]
    BY <1>3, <2>1 DEF LocalInv, LocalTypeOK, HistoryTypeOK, applyVars, historyVars
  <2>5. LocalInv'
    BY <1>3, <2>1, <2>3, <2>4, VolatileStep DEF electionVars
  <2> QED
    BY <1>3, <2>1, <2>5, ConsumedStep DEF RaftInv, applyVars
<1> QED
  BY <1>4, <1>5, <1>6 DEF SnapshotReply

\* Snapshot keeps the invariant.
LEMMA SnapshotTakenInv ==
  ASSUME RaftInv, NEW n \in Server, NEW data \in SnapshotData, SnapshotTaken(n, data.Index, data)
  PROVE  RaftInv'
<1> DEFINE index == data.Index
<1>1. index \in Nat
  BY DEF SnapshotData
<1>2. /\ lastIncludeIndex[n] < index /\ index <= getLastIndex(n) + 1
      /\ log' = [log EXCEPT ![n] = TruncateTo(n, index)]
      /\ lastIncludeTerm' = [lastIncludeTerm EXCEPT ![n] =
           IF index = getLastIndex(n) + 1 THEN getLastTerm(n) ELSE restoreLogTerm(n, index)]
      /\ lastIncludeIndex' = [lastIncludeIndex EXCEPT ![n] = index]
      /\ lastApplied' = [lastApplied EXCEPT ![n] = AtLeast(@, index)]
      /\ UNCHANGED <<electionVars, commitIndex, applyCh, leaderVars, netVars, historyVars>>
      /\ SaveStateAndSnapshot(n, data)
  BY DEF SnapshotTaken
<1>3. LocalInv /\ NetInv
  BY DEF RaftInv
<1>4. /\ lastIncludeIndex \in [Server -> Nat] /\ lastIncludeTerm \in [Server -> Nat]
      /\ lastApplied \in [Server -> Nat] /\ snapshot \in [Server -> SnapshotData]
  BY <1>3 DEF LocalInv, LocalTypeOK, StableTypeOK
<1>5. (IF index = getLastIndex(n) + 1 THEN getLastTerm(n) ELSE restoreLogTerm(n, index)) \in Nat
  <2>1. /\ getLastIndex(n) \in Nat /\ getLastTerm(n) \in Nat
        /\ \A i \in lastIncludeIndex[n]..getLastIndex(n) : restoreLogTerm(n, i) \in Nat
    BY <1>3, ReadsInRange DEF LogOK, ReadsOK, LocalInv
  <2>2. index # getLastIndex(n) + 1 => index \in lastIncludeIndex[n]..getLastIndex(n)
    BY <1>1, <1>2, <1>4, <2>1
  <2> QED
    BY <2>1, <2>2
<1>6. /\ lastIncludeIndex' \in [Server -> Nat] /\ lastIncludeTerm' \in [Server -> Nat]
      /\ lastApplied' \in [Server -> Nat]
  BY <1>1, <1>2, <1>4, <1>5 DEF AtLeast
<1>7. LocalTypeOK' /\ HistoryTypeOK'
  BY <1>2, <1>3, <1>6 DEF LocalInv, LocalTypeOK, HistoryTypeOK, electionVars, leaderVars,
     historyVars
<1>8. /\ lastIncludeIndex'[n] = index
      /\ \A p \in Server \ {n} :
           /\ currentTerm'[p] = currentTerm[p] /\ votedFor'[p] = votedFor[p]
           /\ lastIncludeIndex'[p] = lastIncludeIndex[p]
           /\ lastIncludeTerm'[p] = lastIncludeTerm[p]
  BY <1>2, <1>4 DEF electionVars
<1>9. snapshot' = [snapshot EXCEPT ![n] = data] /\ persist(n)
  BY <1>2 DEF SaveStateAndSnapshot, persist
<1>10. SnapshotIndexes' /\ snapshot' \in [Server -> SnapshotData]
  <2>1. ASSUME NEW p \in Server
        PROVE  snapshot'[p].Index = lastIncludeIndex'[p] /\ lastIncludeIndex'[p] <= lastApplied'[p]
    <3>1. CASE p = n
      BY <1>1, <1>2, <1>4, <1>9, <3>1 DEF AtLeast
    <3>2. CASE p # n
      BY <1>2, <1>3, <1>4, <1>9, <3>2 DEF LocalInv, SnapshotIndexes
    <3> QED
      BY <3>1, <3>2
  <2> QED
    BY <1>4, <1>9, <2>1 DEF SnapshotIndexes
<1>11. WellFormed(TruncateTo(n, index), index)
  <2>1. WellFormed(log[n], lastIncludeIndex[n])
    BY <1>3, LogsWellFormed DEF LocalInv
  <2> QED
    BY <1>1, <1>2, <1>4, <2>1, TruncateWellFormed DEF TruncateTo
<1> HIDE DEF index
<1>12. LocalInv'
  BY <1>2, <1>3, <1>7, <1>8, <1>9, <1>10, <1>11, LogStep
<1>13. NetInv'
  BY <1>2, <1>3 DEF NetInv, netVars
<1> QED
  BY <1>12, <1>13 DEF RaftInv

-----------------------------------------------------------------------------
(* Applying and restarting.                                                *)

\* A round of the applier keeps the invariant.
LEMMA ApplierInv ==
  ASSUME RaftInv, NEW n \in Server, applier(n)
  PROVE  RaftInv'
<1> DEFINE msg == [type |-> "command", Index |-> lastApplied[n] + 1,
                   Command |-> restoreLog(n, lastApplied[n] + 1).Command]
<1>1. /\ lastLog(n).Index > lastApplied[n]
      /\ lastApplied' = [lastApplied EXCEPT ![n] = @ + 1]
      /\ applyCh' = [applyCh EXCEPT ![n] = @ \cup {msg}]
      /\ UNCHANGED <<electionVars, logVars, commitIndex, leaderVars, stableVars, netVars,
                     historyVars>>
  BY DEF applier
<1>2. LocalInv /\ NetInv
  BY DEF RaftInv
<1>3. /\ lastApplied \in [Server -> Nat] /\ lastIncludeIndex \in [Server -> Nat]
      /\ lastIncludeIndex[n] <= lastApplied[n]
  BY <1>2 DEF LocalInv, LocalTypeOK, SnapshotIndexes
<1>4. restoreLog(n, lastApplied[n] + 1) \in Entry
  <2>1. /\ lastLog(n) \in Entry /\ getLastIndex(n) \in Nat
        /\ lastLog(n).Index > 0 => lastLog(n).Index = getLastIndex(n)
        /\ \A i \in (lastIncludeIndex[n] + 1)..getLastIndex(n) : restoreLog(n, i) \in Entry
    BY <1>2, ReadsInRange DEF LogOK, ReadsOK, LocalInv
  <2>2. lastLog(n).Index \in Nat
    BY <2>1 DEF Entry
  <2>3. lastApplied[n] + 1 \in (lastIncludeIndex[n] + 1)..getLastIndex(n)
    BY <1>1, <1>3, <2>1, <2>2
  <2> QED
    BY <2>1, <2>3
<1>5. GoodApply(msg)
  <2>1. restoreLog(n, lastApplied[n] + 1).Command \in Command \cup {NoCommand}
    BY <1>4 DEF Entry
  <2>2. lastApplied[n] + 1 \in Nat
    BY <1>3
  <2> QED
    BY <2>1, <2>2 DEF GoodApply, CommandMessage
<1> HIDE DEF msg
<1>6. LocalTypeOK' /\ HistoryTypeOK'
  BY <1>1, <1>2, <1>3 DEF LocalInv, LocalTypeOK, HistoryTypeOK, electionVars, logVars, leaderVars,
     historyVars
<1>7. \A p \in Server : lastApplied'[p] >= lastApplied[p]
  BY <1>1, <1>3
<1>8. LocalInv'
  BY <1>1, <1>2, <1>6, <1>7, VolatileStep DEF electionVars
<1>9. NetInv'
  <2>1. applyCh = [p \in Server |-> applyCh[p]]
    BY <1>2 DEF NetInv
  <2>2. \A p \in Server : \A x \in applyCh'[p] : GoodApply(x)
    BY <1>1, <1>2, <1>5, <2>1 DEF NetInv
  <2>3. applyCh' = [p \in Server |-> applyCh'[p]] /\ DOMAIN applyCh' = Server
    BY <1>1, <2>1
  <2> QED
    BY <1>1, <1>2, <2>2, <2>3 DEF NetInv, netVars
<1> QED
  BY <1>8, <1>9 DEF RaftInv

\* The service's receipt of a message keeps the invariant.
LEMMA ReceivedInv ==
  ASSUME RaftInv, NEW n \in Server, NEW msg \in applyCh[n], Received(n, msg)
  PROVE  RaftInv'
<1>1. /\ applyCh' = [applyCh EXCEPT ![n] = @ \ {msg}]
      /\ replies' = IF msg.type = "snapshot" THEN replies \cup msg.reply ELSE replies
      /\ UNCHANGED <<electionVars, logVars, commitIndex, lastApplied, leaderVars, stableVars,
                     requests, historyVars>>
  BY DEF Received
<1>2. LocalInv /\ NetInv
  BY DEF RaftInv
<1>3. LocalInv'
  BY <1>1, <1>2, LocalUnchanged
<1>4. \A m \in replies' : GoodReply(m)
  <2>1. GoodApply(msg)
    BY <1>2 DEF NetInv
  <2>2. msg.type = "snapshot" => msg \in SnapshotMessage
    BY <2>1 DEF GoodApply, CommandMessage
  <2>3. msg.type = "snapshot" => msg.reply \subseteq InstallSnapShotReplyMessage
    BY <2>2 DEF SnapshotMessage
  <2> QED
    BY <1>1, <1>2, <2>3 DEF NetInv, GoodReply
<1>5. NetInv'
  <2>1. applyCh = [p \in Server |-> applyCh[p]]
    BY <1>2 DEF NetInv
  <2>2. \A p \in Server : \A x \in applyCh'[p] : GoodApply(x)
    BY <1>1, <1>2, <2>1 DEF NetInv
  <2>3. applyCh' = [p \in Server |-> applyCh'[p]] /\ DOMAIN applyCh' = Server
    BY <1>1, <2>1
  <2> QED
    BY <1>1, <1>2, <1>4, <2>2, <2>3 DEF NetInv
<1> QED
  BY <1>3, <1>5 DEF RaftInv

\* Closing the calls of a server keeps what is under way good.
LEMMA DisconnectedStep ==
  ASSUME NetInv, NEW n \in Server, NEW lost, Disconnected(n, lost)
  PROVE  NetInv'
<1>1. /\ requests' = {IF m.from = n THEN [m EXCEPT !.open = FALSE] ELSE m : m \in requests \ lost}
      /\ replies' = {r \in replies : r.to # n}
      /\ applyCh' = [p \in Server |->
           IF p = n THEN {}
           ELSE {IF msg.type = "snapshot"
                 THEN [msg EXCEPT !.reply = {r \in @ : r.to # n}]
                 ELSE msg : msg \in applyCh[p]}]
  BY DEF Disconnected
<1>2. ASSUME NEW m, GoodRequest(m)
      PROVE  GoodRequest([m EXCEPT !.open = FALSE])
  <2>1. CASE m \in RequestVoteMessage
    BY <2>1 DEF GoodRequest, RequestVoteMessage
  <2>2. CASE m \in AppendEntriesMessage /\ CountOn(m)
    BY <2>2 DEF GoodRequest, AppendEntriesMessage, CountOn
  <2>3. CASE m \in InstallSnapShotMessage /\ m.Data.Index = m.LastIncludeIndex
    BY <2>3 DEF GoodRequest, InstallSnapShotMessage
  <2> QED
    BY <1>2, <2>1, <2>2, <2>3 DEF GoodRequest
<1>3. \A m \in requests' : GoodRequest(m)
  BY <1>1, <1>2 DEF NetInv
<1>4. ASSUME NEW msg, GoodApply(msg), msg.type = "snapshot"
      PROVE  GoodApply([msg EXCEPT !.reply = {r \in @ : r.to # n}])
  <2>1. msg \in SnapshotMessage /\ msg.Data.Index = msg.Index
    BY <1>4 DEF GoodApply, CommandMessage
  <2> QED
    BY <2>1 DEF GoodApply, SnapshotMessage
<1>5. \A p \in Server : \A msg \in applyCh'[p] : GoodApply(msg)
  BY <1>1, <1>4 DEF NetInv
<1>6. applyCh' = [p \in Server |-> applyCh'[p]] /\ DOMAIN applyCh' = Server
  BY <1>1
<1> QED
  BY <1>1, <1>3, <1>5, <1>6 DEF NetInv

\* Make on a persister whose log is well formed, next to its snapshot.
LEMMA MakeInv ==
  ASSUME RaftInv, NEW n \in Server, NEW stable \in StableState, NEW lost, Make(n, stable, lost),
         WellFormed(stable.log, stable.lastIncludeIndex),
         stable.lastIncludeIndex = lastIncludeIndex[n],
         HistoryTypeOK'
  PROVE  RaftInv'
<1>1. LocalInv /\ NetInv
  BY DEF RaftInv
<1>2. /\ stable.currentTerm \in Nat /\ stable.votedFor \in Server \cup {None}
      /\ stable.log \in Seq(Entry) /\ stable.lastIncludeIndex \in Nat
      /\ stable.lastIncludeTerm \in Nat
  BY DEF StableState
<1>3. /\ currentTerm' = [currentTerm EXCEPT ![n] = stable.currentTerm]
      /\ votedFor' = [votedFor EXCEPT ![n] = stable.votedFor]
      /\ log' = [log EXCEPT ![n] = stable.log]
      /\ lastIncludeIndex' = [lastIncludeIndex EXCEPT ![n] = stable.lastIncludeIndex]
      /\ lastIncludeTerm' = [lastIncludeTerm EXCEPT ![n] = stable.lastIncludeTerm]
  BY DEF Make, readPersist
<1>4. /\ state' = [state EXCEPT ![n] = Follower]
      /\ voteCounter' = [voteCounter EXCEPT ![n] = 0]
      /\ commitIndex' = [commitIndex EXCEPT ![n] = 0]
      /\ lastApplied' = [lastApplied EXCEPT ![n] = stable.lastIncludeIndex]
      /\ nextIndex' = [nextIndex EXCEPT ![n] = [p \in Server |-> 0]]
      /\ matchIndex' = [matchIndex EXCEPT ![n] = [p \in Server |-> 0]]
      /\ sending' = [sending EXCEPT ![n] = {}]
      /\ Disconnected(n, lost)
      /\ raftstate' = [raftstate EXCEPT ![n] = stable]
      /\ snapshot' = snapshot
  BY DEF Make
<1>5. LocalTypeOK /\ log \in [Server -> Seq(Entry)] /\ snapshot \in [Server -> SnapshotData]
  BY <1>1 DEF LocalInv, LogTypeOK, StableTypeOK
<1>6. LocalTypeOK'
  <2>1. /\ currentTerm' \in [Server -> Nat] /\ votedFor' \in [Server -> Server \cup {None}]
        /\ lastIncludeIndex' \in [Server -> Nat] /\ lastIncludeTerm' \in [Server -> Nat]
    BY <1>2, <1>3, <1>5 DEF LocalTypeOK
  <2>2. /\ state' \in [Server -> {Follower, Candidate, Leader}]
        /\ voteCounter' \in [Server -> Nat] /\ commitIndex' \in [Server -> Nat]
        /\ lastApplied' \in [Server -> Nat]
    BY <1>2, <1>4, <1>5 DEF LocalTypeOK
  <2>3. /\ nextIndex' \in [Server -> [Server -> Nat]]
        /\ matchIndex' \in [Server -> [Server -> Nat]]
        /\ sending' \in [Server -> SUBSET Server]
    BY <1>4, <1>5 DEF LocalTypeOK
  <2> QED
    BY <2>1, <2>2, <2>3 DEF LocalTypeOK
<1>7. /\ currentTerm'[n] = stable.currentTerm /\ votedFor'[n] = stable.votedFor
      /\ log'[n] = stable.log /\ lastIncludeIndex'[n] = stable.lastIncludeIndex
      /\ lastIncludeTerm'[n] = stable.lastIncludeTerm
      /\ lastApplied'[n] = stable.lastIncludeIndex
  BY <1>3, <1>4, <1>5 DEF LocalTypeOK
<1>8. \A p \in Server \ {n} :
        /\ currentTerm'[p] = currentTerm[p] /\ votedFor'[p] = votedFor[p]
        /\ lastIncludeIndex'[p] = lastIncludeIndex[p]
        /\ lastIncludeTerm'[p] = lastIncludeTerm[p]
        /\ lastApplied'[p] = lastApplied[p]
  BY <1>3, <1>4, <1>5 DEF LocalTypeOK
<1>9. persist(n)
  <2>1. stable = RaftState(n)'
    BY <1>7 DEF RaftState, StableState
  <2> QED
    BY <1>4, <2>1 DEF persist
<1>10. SnapshotIndexes'
  <2>1. ASSUME NEW p \in Server
        PROVE  snapshot'[p].Index = lastIncludeIndex'[p] /\ lastIncludeIndex'[p] <= lastApplied'[p]
    <3>1. CASE p = n
      BY <1>1, <1>2, <1>4, <1>7, <3>1 DEF LocalInv, SnapshotIndexes
    <3>2. CASE p # n
      BY <1>1, <1>4, <1>8, <3>2 DEF LocalInv, SnapshotIndexes
    <3> QED
      BY <3>1, <3>2
  <2> QED
    BY <2>1 DEF SnapshotIndexes
<1>11. LocalInv'
  BY <1>1, <1>3, <1>4, <1>5, <1>6, <1>7, <1>8, <1>9, <1>10, LogStep
<1>12. NetInv'
  BY <1>1, <1>4, DisconnectedStep
<1> QED
  BY <1>11, <1>12 DEF RaftInv

\* A crash keeps the invariant: the persister holds a well-formed log.
LEMMA RestartInv ==
  ASSUME RaftInv, NEW n \in Server, Restart(n)
  PROVE  RaftInv'
<1>1. raftstate[n] \in StableState /\ raftstate[n] = RaftState(n)
  BY DEF RaftInv, LocalInv, StableTypeOK, StableStateCurrent
<1>2. /\ raftstate[n].log = log[n]
      /\ raftstate[n].lastIncludeIndex = lastIncludeIndex[n]
  BY <1>1 DEF RaftState
<1>3. WellFormed(log[n], lastIncludeIndex[n])
  BY LogsWellFormed DEF RaftInv, LocalInv
<1>4. Make(n, raftstate[n], {}) /\ HistoryTypeOK'
  BY DEF Restart, Make, RaftInv, LocalInv, HistoryTypeOK
<1> QED
  BY <1>1, <1>2, <1>3, <1>4, MakeInv

\* A crash between two persists of a handler keeps the invariant.
LEMMA FirstPersistInv ==
  ASSUME RaftInv, NEW m, m.to \in Server, m.Term \in Nat, Make(m.to, FirstPersist(m), {m}),
         cleared' \subseteq cleared \cup {<<m.to, m.Term>>}
  PROVE  RaftInv'
<1> DEFINE n == m.to
           stable == FirstPersist(m)
<1>1. raftstate[n] \in StableState /\ raftstate[n] = RaftState(n)
  BY DEF RaftInv, LocalInv, StableTypeOK, StableStateCurrent
<1>2. /\ stable \in StableState /\ stable.log = raftstate[n].log
      /\ stable.lastIncludeIndex = raftstate[n].lastIncludeIndex
  BY <1>1 DEF FirstPersist, StableState
<1>3. stable.log = log[n] /\ stable.lastIncludeIndex = lastIncludeIndex[n]
  BY <1>1, <1>2 DEF RaftState
<1>4. WellFormed(log[n], lastIncludeIndex[n])
  BY LogsWellFormed DEF RaftInv, LocalInv
<1>5. HistoryTypeOK'
  BY DEF Make, RaftInv, LocalInv, HistoryTypeOK
<1> HIDE DEF stable
<1>6. Make(n, stable, {m})
  BY DEF stable
<1> HIDE DEF n
<1>7. n \in Server
  BY DEF n
<1> QED
  BY <1>2, <1>3, <1>4, <1>5, <1>6, <1>7, MakeInv

\* A restart between the two persists of a handler keeps the invariant.
LEMMA CrashInHandlerInv ==
  ASSUME RaftInv, NEW m \in requests, CrashInHandler(m)
  PROVE  RaftInv'
<1>1. m.to \in Server /\ m.Term \in Nat
  BY RequestFields DEF RaftInv, NetInv
<1>2. CASE RestartInRequestVote(m)
  BY <1>1, <1>2, FirstPersistInv DEF RestartInRequestVote
<1>3. CASE RestartInInstallSnapShot(m)
  BY <1>1, <1>3, FirstPersistInv DEF RestartInInstallSnapShot
<1> QED
  BY <1>2, <1>3 DEF CrashInHandler

-----------------------------------------------------------------------------
(* The service.                                                            *)

\* What applierSnap does with a message keeps the types of the service.
LEMMA ServiceReceivesTyped ==
  ASSUME RaftInv, ServiceTypeOK, NEW n \in Server, NEW msg \in applyCh[n],
         InstallAtService(n, msg) \/ ApplyAtService(n, msg) \/ IgnoreAtService(n, msg)
  PROVE  ServiceTypeOK'
<1>1. GoodApply(msg)
  BY DEF RaftInv, NetInv
<1>2. /\ msg.Index \in Nat
      /\ msg.type = "command" => msg.Command \in Command \cup {NoCommand}
  BY <1>1 DEF GoodApply, CommandMessage, SnapshotMessage
<1>3. CASE InstallAtService(n, msg)
  <2>1. /\ logs' = [logs EXCEPT ![n] = [i \in {msg.Index} |-> msg.Data.Command]]
        /\ applied' = [applied EXCEPT ![n] = msg.Index]
        /\ UNCHANGED <<snapCall, failure>>
    BY <1>3 DEF InstallAtService, CondInstallSnapshot
  <2>2. DOMAIN logs' = Server /\ \A p \in Server : DOMAIN logs'[p] \subseteq Nat
    BY <1>2, <2>1 DEF ServiceTypeOK
  <2> QED
    BY <1>2, <2>1, <2>2 DEF ServiceTypeOK
<1>4. CASE ApplyAtService(n, msg)
  <2>1. /\ checkLogs(n, msg)
        /\ applied' = [applied EXCEPT ![n] = msg.Index]
        /\ snapCall' = [snapCall EXCEPT ![n] =
             IF (msg.Index + 1) % SnapShotInterval = 0 /\ failure' = NoFailure
             THEN {[Command |-> msg.Command, Index |-> msg.Index]}
             ELSE {}]
    BY <1>4 DEF ApplyAtService
  <2>2. DOMAIN logs' = Server /\ \A p \in Server : DOMAIN logs'[p] \subseteq Nat
    BY <1>2, <2>1 DEF ServiceTypeOK, checkLogs
  <2>3. failure' \in {NoFailure, OutOfOrder, Mismatch, OutOfRange}
    BY <2>1 DEF checkLogs
  <2>4. [Command |-> msg.Command, Index |-> msg.Index] \in SnapshotData
    BY <1>2, <1>4 DEF ApplyAtService, SnapshotData
  <2>5. snapCall' \in [Server -> SUBSET SnapshotData]
    BY <2>1, <2>4 DEF ServiceTypeOK
  <2>6. applied' \in [Server -> Nat]
    BY <1>2, <2>1 DEF ServiceTypeOK
  <2> QED
    BY <2>2, <2>3, <2>5, <2>6 DEF ServiceTypeOK
<1>5. CASE IgnoreAtService(n, msg)
  BY <1>5 DEF IgnoreAtService, ServiceTypeOK, serviceVars
<1> QED
  BY <1>3, <1>4, <1>5

\* A step of a peer alone leaves the service as it was.
LEMMA PeerOnlyTyped ==
  ASSUME ServiceTypeOK, PeerOnly
  PROVE  ServiceTypeOK'
BY DEF ServiceTypeOK, PeerOnly, serviceVars

\* A restart of a server's service keeps its types.
LEMMA RestartedTyped ==
  ASSUME ServiceTypeOK, NEW n \in Server, Restarted(n)
  PROVE  ServiceTypeOK'
BY DEF ServiceTypeOK, Restarted

-----------------------------------------------------------------------------
(* The cluster.                                                            *)

\* The cluster starts in the invariant.
LEMMA InitInv == Init => Inv
<1> SUFFICES ASSUME Init PROVE Inv
  OBVIOUS
<1>1. WellFormed(<<EmptyEntry>>, 0)
  BY FillerWellFormed
<1>2. log = [n \in Server |-> <<EmptyEntry>>] /\ lastIncludeIndex = [n \in Server |-> 0]
  BY DEF Init, RaftInit
<1>3. LogTypeOK /\ LogIndexes
  BY <1>1, <1>2 DEF LogTypeOK, LogIndexes, WellFormed
<1>4. LocalTypeOK /\ HistoryTypeOK
  BY DEF Init, RaftInit, LocalTypeOK, HistoryTypeOK
<1>5. StableStateCurrent
  BY DEF Init, RaftInit, StableStateCurrent, RaftState
<1>6. StableTypeOK
  <2>1. snapshot \in [Server -> SnapshotData]
    BY DEF Init, RaftInit, NoSnapshot, SnapshotData
  <2>2. <<EmptyEntry>> \in Seq(Entry)
    BY <1>1 DEF WellFormed
  <2>3. raftstate \in [Server -> StableState]
    BY <2>2 DEF Init, RaftInit, StableState
  <2> QED
    BY <2>1, <2>3 DEF StableTypeOK
<1>7. SnapshotIndexes
  BY DEF Init, RaftInit, SnapshotIndexes, NoSnapshot
<1>8. NetInv
  BY DEF Init, RaftInit, NetInv
<1>9. ServiceTypeOK
  BY DEF Init, ServiceTypeOK
<1> QED
  BY <1>3, <1>4, <1>5, <1>6, <1>7, <1>8, <1>9 DEF Inv, RaftInv, LocalInv

\* Every step of the cluster keeps the invariant.
LEMMA NextInv == Inv /\ [Next]_vars => Inv'
<1> SUFFICES ASSUME RaftInv, ServiceTypeOK, [Next]_vars PROVE RaftInv' /\ ServiceTypeOK'
  BY DEF Inv
<1>1. CASE RequestVoteCall
  BY <1>1, RequestVoteInv, PeerOnlyTyped DEF RequestVoteCall
<1>2. CASE AppendEntriesCall
  BY <1>2, AppendEntriesInv, PeerOnlyTyped DEF AppendEntriesCall
<1>3. CASE InstallSnapShotCall
  BY <1>3, InstallSnapShotInv, PeerOnlyTyped DEF InstallSnapShotCall
<1>4. CASE RequestVoteReturn
  BY <1>4, CandidateRequestVoteInv, PeerOnlyTyped DEF RequestVoteReturn
<1>5. CASE AppendEntriesReturn
  BY <1>5, LeaderSendEntriesInv, PeerOnlyTyped DEF AppendEntriesReturn
<1>6. CASE InstallSnapShotReturn
  BY <1>6, SnapshotReplyInv, PeerOnlyTyped DEF InstallSnapShotReturn
<1>7. CASE SendSnapShot
  BY <1>7, LeaderSendSnapShotInv, PeerOnlyTyped DEF SendSnapShot
<1>8. CASE Apply
  BY <1>8, ApplierInv, PeerOnlyTyped DEF Apply
<1>9. CASE ServiceReceives
  <2>1. PICK n \in Server : applierSnap(n)
    BY <1>9 DEF ServiceReceives
  <2>2. PICK msg \in applyCh[n] :
          /\ Received(n, msg)
          /\ InstallAtService(n, msg) \/ ApplyAtService(n, msg) \/ IgnoreAtService(n, msg)
    BY <2>1 DEF applierSnap
  <2> QED
    BY <2>2, ReceivedInv, ServiceReceivesTyped
<1>10. CASE ServiceSnapshots
  <2>1. PICK n \in Server : SnapshotCall(n)
    BY <1>10 DEF ServiceSnapshots
  <2>2. PICK data \in snapCall[n] :
          /\ snapCall' = [snapCall EXCEPT ![n] = {}]
          /\ UNCHANGED <<logs, applied>>
          /\ \/ Snapshot(n, data.Index, data) /\ UNCHANGED failure
             \/ SnapshotPanics(n, data.Index) /\ failure' = OutOfRange
    BY <2>1 DEF SnapshotCall
  <2>3. ServiceTypeOK'
    BY <2>2 DEF ServiceTypeOK
  <2>4. data \in SnapshotData
    BY DEF ServiceTypeOK
  <2>5. SnapshotTaken(n, data.Index, data) \/ UNCHANGED raftVars
    BY <2>2 DEF Snapshot, SnapshotIgnored, SnapshotPanics
  <2>6. UNCHANGED raftVars => RaftInv'
    <3> SUFFICES ASSUME UNCHANGED raftVars PROVE RaftInv'
      OBVIOUS
    <3>1. LocalInv'
      BY LocalUnchanged DEF raftVars, applyVars, RaftInv
    <3> QED
      BY <3>1 DEF raftVars, applyVars, netVars, RaftInv, NetInv
  <2> QED
    BY <2>3, <2>4, <2>5, <2>6, SnapshotTakenInv
<1>11. ASSUME NEW n \in Server, Tick(n) PROVE RaftInv' /\ ServiceTypeOK'
  BY <1>11, HeartbeatInv, PeerOnlyTyped DEF Tick
<1>12. ASSUME NEW n \in Server, Timeout(n) PROVE RaftInv' /\ ServiceTypeOK'
  BY <1>12, LeaderElectionInv, PeerOnlyTyped DEF Timeout
<1>13. ASSUME NEW n \in Server, NEW command \in Command, ClientStart(n, command)
       PROVE  RaftInv' /\ ServiceTypeOK'
  BY <1>13, StartInv, PeerOnlyTyped DEF ClientStart
<1>14. ASSUME NEW n \in Server, Crash(n) PROVE RaftInv' /\ ServiceTypeOK'
  BY <1>14, RestartInv, RestartedTyped DEF Crash, Restart
<1>15. ASSUME NEW m \in requests, CrashInHandler(m) PROVE RaftInv' /\ ServiceTypeOK'
  <2>1. m.to \in Server
    BY RequestFields DEF RaftInv, NetInv
  <2>2. Restarted(m.to)
    BY <1>15 DEF CrashInHandler, RestartInRequestVote, RestartInInstallSnapShot
  <2> QED
    BY <1>15, <2>1, <2>2, CrashInHandlerInv, RestartedTyped
<1>16. CASE UNCHANGED vars
  <2>1. LocalInv'
    BY <1>16, LocalUnchanged DEF vars, raftVars, applyVars, RaftInv
  <2> QED
    BY <1>16, <2>1 DEF vars, raftVars, applyVars, netVars, serviceVars, RaftInv, NetInv, ServiceTypeOK
<1> QED
  BY <1>1, <1>2, <1>3, <1>4, <1>5, <1>6, <1>7, <1>8, <1>9, <1>10, <1>11, <1>12, <1>13, <1>14,
     <1>15, <1>16 DEF Next

\* The invariant gives the properties the runs check.
LEMMA InvImplies ==
  Inv => TypeOK /\ StableStateCurrent /\ LogPositions /\ SnapshotInSync
<1> SUFFICES ASSUME Inv PROVE TypeOK /\ StableStateCurrent /\ LogPositions /\ SnapshotInSync
  OBVIOUS
<1>1. LocalInv /\ NetInv /\ ServiceTypeOK
  BY DEF Inv, RaftInv
<1>2. MessageTypeOK
  <2>1. requests \subseteq RequestVoteMessage \cup AppendEntriesMessage \cup InstallSnapShotMessage
    BY <1>1 DEF NetInv, GoodRequest
  <2>2. replies \subseteq RequestVoteReplyMessage \cup AppendEntriesReplyMessage
                            \cup InstallSnapShotReplyMessage
    BY <1>1 DEF NetInv, GoodReply
  <2>3. applyCh \in [Server -> SUBSET (CommandMessage \cup SnapshotMessage)]
    BY <1>1 DEF NetInv, GoodApply
  <2> QED
    BY <2>1, <2>2, <2>3 DEF MessageTypeOK
<1>3. EntryIndexes
  BY <1>1, RequestFields DEF NetInv, EntryIndexes, CountOn
<1>4. DataIndexes
  <2>1. \A m \in requests : m.type = "InstallSnapShot" => m.Data.Index = m.LastIncludeIndex
    BY <1>1, RequestFields DEF NetInv
  <2>2. ASSUME NEW n \in Server, NEW msg \in applyCh[n], msg.type = "snapshot"
        PROVE  msg.Data.Index = msg.Index
    BY <1>1, <2>2 DEF NetInv, GoodApply, CommandMessage
  <2> QED
    BY <2>1, <2>2 DEF DataIndexes
<1> QED
  BY <1>1, <1>2, <1>3, <1>4 DEF LocalInv, TypeOK, LogPositions, SnapshotInSync

\* The inductive invariant holds in every behaviour.
THEOREM Invariance == Spec => []Inv
BY InitInv, NextInv, PTL DEF Spec

\* Every variable keeps its type: no log of a peer is ever empty, and no
\* nextIndex, PrevLogIndex or XIndex that becomes an index is negative.
THEOREM TypeCorrect == Spec => []TypeOK
BY Invariance, InvImplies, PTL

\* Whenever rf.mu is free, the persister holds the term, the vote, the log
\* and the snapshot's place that the peer acts on.
THEOREM StableStateIsCurrent == Spec => []StableStateCurrent
BY Invariance, InvImplies, PTL

\* The offset arithmetic of compacted logs is right: position and index of
\* an entry agree in every log and in every AppendEntries under way.
THEOREM LogPositionsAgree == Spec => []LogPositions
BY Invariance, InvImplies, PTL

\* A snapshot's bytes and its index are never separated: in the persister,
\* in an InstallSnapShot, or on the way to the service.
THEOREM SnapshotsStayInSync == Spec => []SnapshotInSync
BY Invariance, InvImplies, PTL

-----------------------------------------------------------------------------
(* Terms.                                                                  *)

TermStep == \A n \in Server : currentTerm'[n] >= currentTerm[n]

\* One server's term is replaced by one that is no smaller.
LEMMA RaisedTerm ==
  ASSUME currentTerm \in [Server -> Nat], NEW n \in Server, NEW term \in Nat,
         term >= currentTerm[n], currentTerm' = [currentTerm EXCEPT ![n] = term]
  PROVE  TermStep
BY DEF TermStep

\* A step that leaves the terms alone.
LEMMA SameTerm ==
  ASSUME currentTerm \in [Server -> Nat], currentTerm' = currentTerm
  PROVE  TermStep
BY DEF TermStep

\* setNewTerm lowers no term: it ignores a smaller one unless the server is in term 0.
LEMMA SetNewTermRaises ==
  ASSUME currentTerm \in [Server -> Nat], NEW n \in Server, NEW term \in Nat, setNewTerm(n, term)
  PROVE  TermStep
<1>1. CASE term > currentTerm[n] \/ currentTerm[n] = 0
  <2>1. currentTerm' = [currentTerm EXCEPT ![n] = term] /\ term >= currentTerm[n]
    BY <1>1 DEF setNewTerm
  <2> QED
    BY <2>1, RaisedTerm
<1>2. CASE ~(term > currentTerm[n] \/ currentTerm[n] = 0)
  BY <1>2, SameTerm DEF setNewTerm
<1> QED
  BY <1>1, <1>2

\* A server that restarts finds in its persister the term it had, or the
\* later one a cut-off handler has persisted.
LEMMA RestartRaises ==
  ASSUME Inv, NEW n \in Server, NEW stable, NEW lost, Make(n, stable, lost),
         stable.currentTerm \in Nat, stable.currentTerm >= currentTerm[n]
  PROVE  TermStep
<1>1. currentTerm \in [Server -> Nat]
  BY DEF Inv, RaftInv, LocalInv, LocalTypeOK
<1>2. currentTerm' = [currentTerm EXCEPT ![n] = stable.currentTerm]
  BY DEF Make, readPersist
<1> QED
  BY <1>1, <1>2, RaisedTerm

\* No step lowers a term.
LEMMA TermsRise == Inv /\ [Next]_vars => TermStep
<1> SUFFICES ASSUME Inv, [Next]_vars PROVE TermStep
  OBVIOUS
<1>1. currentTerm \in [Server -> Nat] /\ NetInv /\ LocalInv
  BY DEF Inv, RaftInv, LocalInv, LocalTypeOK
<1>2. \A m \in requests : m.to \in Server /\ m.Term \in Nat
  BY <1>1, RequestFields DEF NetInv
<1>3. \A m \in replies : m.to \in Server /\ m.Term \in Nat
  BY <1>1, ReplyFields DEF NetInv
<1>4. CASE RequestVoteCall
  <2>1. PICK m \in requests : RequestVote(m)
    BY <1>4 DEF RequestVoteCall
  <2>2. CASE RequestVoteStale(m)
    BY <1>1, <2>2, SameTerm DEF RequestVoteStale, electionVars
  <2>3. CASE RequestVoteCurrent(m)
    BY <1>1, <1>2, <2>3, RaisedTerm DEF RequestVoteCurrent
  <2> QED
    BY <2>1, <2>2, <2>3 DEF RequestVote
<1>5. CASE AppendEntriesCall
  <2>1. PICK m \in requests : AppendEntries(m)
    BY <1>5 DEF AppendEntriesCall
  <2>2. CASE AppendNewerTerm(m)
    BY <1>1, <1>2, <2>2, SetNewTermRaises DEF AppendNewerTerm
  <2>3. CASE AppendStale(m)
    BY <1>1, <2>3, SameTerm DEF AppendStale, electionVars
  <2>4. CASE CurrentLeaderHeard(m)
    BY <1>1, <2>4, SameTerm DEF CurrentLeaderHeard
  <2> QED
    BY <2>1, <2>2, <2>3, <2>4
       DEF AppendEntries, AppendBehindSnapshot, AppendMissing, AppendConflict, AppendAccept
<1>6. CASE InstallSnapShotCall
  <2>1. PICK m \in requests : InstallSnapShot(m)
    BY <1>6 DEF InstallSnapShotCall
  <2>2. CASE InstallStale(m)
    BY <1>1, <2>2, SameTerm DEF InstallStale, electionVars
  <2>3. CASE SnapshotHeard(m)
    BY <1>1, <1>2, <2>3, RaisedTerm DEF SnapshotHeard
  <2> QED
    BY <2>1, <2>2, <2>3 DEF InstallSnapShot, InstallOld, InstallNew
<1>7. CASE RequestVoteReturn
  <2>1. PICK m \in replies : candidateRequestVote(m)
    BY <1>7 DEF RequestVoteReturn
  <2>2. CASE VoteNewerTerm(m)
    BY <1>1, <1>3, <2>2, SetNewTermRaises DEF VoteNewerTerm
  <2>3. CASE VoteIgnored(m) \/ VoteCounted(m)
    BY <1>1, <2>3, SameTerm DEF VoteIgnored, VoteCounted, BecomeLeader, electionVars
  <2> QED
    BY <2>1, <2>2, <2>3 DEF candidateRequestVote
<1>8. CASE AppendEntriesReturn
  <2>1. PICK m \in replies : leaderSendEntries(m)
    BY <1>8 DEF AppendEntriesReturn
  <2>2. CASE AppendReplyNewerTerm(m)
    BY <1>1, <1>3, <2>2, SetNewTermRaises DEF AppendReplyNewerTerm
  <2>3. CASE AppendReplyStale(m) \/ AppendReplyCurrent(m)
    BY <1>1, <2>3, SameTerm DEF AppendReplyStale, AppendReplyCurrent, electionVars
  <2> QED
    BY <2>1, <2>2, <2>3 DEF leaderSendEntries
<1>9. CASE InstallSnapShotReturn
  BY <1>1, <1>9, SameTerm DEF InstallSnapShotReturn, SnapshotReply, SnapshotReplyStale,
     SnapshotReplyNewerTerm, SnapshotReplyCurrent, electionVars
<1>10. CASE SendSnapShot \/ Apply
  BY <1>1, <1>10, SameTerm DEF SendSnapShot, leaderSendSnapShot, Apply, applier, electionVars
<1>11. CASE ServiceReceives
  BY <1>1, <1>11, SameTerm DEF ServiceReceives, applierSnap, Received, electionVars
<1>12. CASE ServiceSnapshots
  BY <1>1, <1>12, SameTerm DEF ServiceSnapshots, SnapshotCall, Snapshot, SnapshotIgnored,
     SnapshotTaken, SnapshotPanics, raftVars, electionVars
<1>13. ASSUME NEW n \in Server, Tick(n) \/ Timeout(n) PROVE TermStep
  <2>1. CASE Tick(n)
    BY <1>1, <2>1, SameTerm DEF Tick, Heartbeat, electionVars
  <2>2. CASE Timeout(n)
    <3>1. currentTerm' = [currentTerm EXCEPT ![n] = currentTerm[n] + 1]
      BY <2>2 DEF Timeout, leaderElection
    <3>2. currentTerm[n] + 1 \in Nat /\ currentTerm[n] + 1 >= currentTerm[n]
      BY <1>1
    <3> QED
      BY <1>1, <3>1, <3>2, RaisedTerm
  <2> QED
    BY <1>13, <2>1, <2>2
<1>14. ASSUME NEW n \in Server, NEW command \in Command, ClientStart(n, command) PROVE TermStep
  BY <1>1, <1>14, SameTerm DEF ClientStart, Start, electionVars
<1>15. ASSUME NEW n \in Server, Crash(n) PROVE TermStep
  <2>1. raftstate[n] = RaftState(n)
    BY <1>1 DEF LocalInv, StableStateCurrent
  <2>2. Make(n, raftstate[n], {})
    BY <1>15 DEF Crash, Restart
  <2>3. raftstate[n].currentTerm \in Nat /\ raftstate[n].currentTerm >= currentTerm[n]
    BY <1>1, <2>1 DEF RaftState
  <2> QED
    BY <2>2, <2>3, RestartRaises
<1>16. ASSUME NEW m \in requests, CrashInHandler(m) PROVE TermStep
  <2>1. m.Term >= currentTerm[m.to] /\ Make(m.to, FirstPersist(m), {m})
    BY <1>1, <1>2, <1>16 DEF CrashInHandler, RestartInRequestVote, RestartInInstallSnapShot
  <2>2. raftstate[m.to] \in StableState
    BY <1>1, <1>2 DEF LocalInv, StableTypeOK
  <2>3. FirstPersist(m).currentTerm = m.Term
    BY <2>2 DEF FirstPersist, StableState
  <2> QED
    BY <1>1, <1>2, <2>1, <2>3, RestartRaises
<1>17. CASE UNCHANGED vars
  BY <1>1, <1>17, SameTerm DEF vars, raftVars, electionVars
<1> QED
  BY <1>4, <1>5, <1>6, <1>7, <1>8, <1>9, <1>10, <1>11, <1>12, <1>13, <1>14, <1>15, <1>16,
     <1>17 DEF Next

\* No server ever goes back to an earlier term, whatever replies come late
\* and wherever a crash falls.
THEOREM TermsNeverDecrease == Spec => TermNeverDecreases
<1>1. Inv /\ [Next]_vars => [\A n \in Server : currentTerm'[n] >= currentTerm[n]]_vars
  BY TermsRise DEF TermStep
<1> QED
  BY <1>1, Invariance, PTL DEF Spec, TermNeverDecreases
=============================================================================
