--------------------------- MODULE ElectionProofs ---------------------------
(***************************************************************************)
(* Theorems about the elections of Cluster, on top of the invariant of     *)
(* ClusterProofs, for any number of servers: what a vote that was cast     *)
(* binds the voter to, what a candidate's counter counts, and, as two      *)
(* majorities intersect, when two leaders can share a term.                *)
(*                                                                         *)
(* The code counts replies, so the argument is about messages: a candidate *)
(* asks a server once per term, a request that is still under way has not  *)
(* been answered, and a granted reply stands for a vote that was cast.     *)
(***************************************************************************)
EXTENDS ClusterProofs, FiniteSetTheorems

VoteRequests == {m \in requests : m.type = "RequestVote"}

VoteReplies == {m \in replies : m.type = "RequestVoteReply" /\ m.VoteGranted = TRUE}

Voters(n, t) == {p \in Server : <<p, t, n>> \in ballots}

\* The votes of its current term that a candidate has counted: those whose
\* reply is not under way any more.
Counted(n) ==
  {p \in Voters(n, currentTerm[n]) :
     \A m \in VoteReplies : ~(m.from = p /\ m.to = n /\ m.argsTerm = currentTerm[n])}

BallotsPast ==
  \A q, c \in Server, t \in Nat :
    <<q, t, c>> \in ballots => t <= currentTerm[q] /\ t <= currentTerm[c]

VotesRemembered ==
  \A q, c \in Server :
    <<q, currentTerm[q], c>> \in ballots
      => votedFor[q] = c \/ <<q, currentTerm[q]>> \in cleared

OneVote ==
  \A q, c, d \in Server, t \in Nat :
    <<q, t, c>> \in ballots /\ <<q, t, d>> \in ballots /\ c # d => <<q, t>> \in cleared

BallotsOK == BallotsPast /\ VotesRemembered /\ OneVote

RequestsPast == \A m \in VoteRequests : m.from # m.to /\ m.Term <= currentTerm[m.from]

RequestsUnique ==
  \A m, r \in VoteRequests :
    m.from = r.from /\ m.to = r.to /\ m.Term = r.Term => m = r

RequestsUnanswered == \A m \in VoteRequests : <<m.to, m.Term, m.from>> \notin ballots

RequestsOK == RequestsPast /\ RequestsUnique /\ RequestsUnanswered

RepliesOK ==
  \A m \in VoteReplies :
    m.from # m.to /\ m.argsTerm = m.Term /\ <<m.from, m.Term, m.to>> \in ballots

CountersOK ==
  \A n \in Server : state[n] = Candidate => voteCounter[n] <= Cardinality(Counted(n))

\* The votes behind every counter, every leader and every message.
ElectionInv == BallotsOK /\ RequestsOK /\ RepliesOK /\ CountersOK /\ LeaderHasMajority

-----------------------------------------------------------------------------
(* What a step may leave as it was.                                        *)

\* A server that stays in its term keeps its vote, or is recorded to have lost it.
Remembers ==
  \A n \in Server :
    currentTerm'[n] = currentTerm[n]
      => votedFor'[n] = votedFor[n] \/ <<n, currentTerm[n]>> \in cleared'

\* A server that campaigns or leads after the step did so before, with the same votes.
Campaigns ==
  \A n \in Server : state'[n] # Follower =>
    /\ state'[n] = state[n] /\ currentTerm'[n] = currentTerm[n]
    /\ state'[n] = Candidate => voteCounter'[n] = voteCounter[n]

\* A step in which nobody votes, asks for a vote or counts one.
Quiet ==
  /\ ballots' = ballots
  /\ cleared \subseteq cleared'
  /\ Remembers /\ Campaigns
  /\ VoteReplies' \subseteq VoteReplies

\* The types this module reads out of the invariant of ClusterProofs.
ElectionTypes ==
  /\ state \in [Server -> {Follower, Candidate, Leader}]
  /\ currentTerm \in [Server -> Nat]
  /\ votedFor \in [Server -> Server \cup {None}]
  /\ voteCounter \in [Server -> Nat]
  /\ ballots \subseteq Server \X Nat \X Server
  /\ VoteRequests \subseteq RequestVoteMessage
  /\ VoteReplies \subseteq RequestVoteReplyMessage

\* They are part of that invariant.
LEMMA InvTypes == Inv => ElectionTypes
<1> SUFFICES ASSUME Inv PROVE ElectionTypes
  OBVIOUS
<1>1. LocalTypeOK /\ HistoryTypeOK /\ NetInv
  BY DEF Inv, RaftInv, LocalInv
<1>2. VoteRequests \subseteq RequestVoteMessage
  BY <1>1, RequestFields DEF VoteRequests, NetInv
<1>3. VoteReplies \subseteq RequestVoteReplyMessage
  BY <1>1, ReplyFields DEF VoteReplies, NetInv
<1> QED
  BY <1>1, <1>2, <1>3 DEF LocalTypeOK, HistoryTypeOK, ElectionTypes

\* Sets of voters are finite, so a bigger one has no fewer members.
LEMMA VotersFinite ==
  ASSUME NEW S, NEW T, S \subseteq T, T \subseteq Server
  PROVE  /\ IsFiniteSet(S) /\ IsFiniteSet(T)
         /\ Cardinality(S) \in Nat /\ Cardinality(T) \in Nat
         /\ Cardinality(S) <= Cardinality(T)
<1>1. IsFiniteSet(T)
  BY ServerAssumption, FS_Subset
<1>2. IsFiniteSet(S) /\ Cardinality(S) <= Cardinality(T)
  BY <1>1, FS_Subset
<1> QED
  BY <1>1, <1>2, FS_CardinalityType

\* More of a majority is a majority.
LEMMA MajorityGrows ==
  ASSUME NEW count \in Nat, NEW more \in Nat, count <= more, IsMajority(count)
  PROVE  IsMajority(more)
<1>1. Cardinality(Server) \in Nat
  BY ServerAssumption, FS_CardinalityType
<1> QED
  BY <1>1 DEF IsMajority

\* Ballots survive a quiet step.
LEMMA QuietBallots ==
  ASSUME ElectionTypes, ElectionTypes', BallotsOK, TermStep, Quiet
  PROVE  BallotsOK'
<1>1. BallotsPast'
  BY DEF BallotsOK, BallotsPast, TermStep, Quiet, ElectionTypes
<1>2. ASSUME NEW q \in Server, NEW c \in Server, <<q, currentTerm'[q], c>> \in ballots
      PROVE  votedFor'[q] = c \/ <<q, currentTerm'[q]>> \in cleared'
  <2>1. currentTerm'[q] <= currentTerm[q]
    BY <1>2 DEF BallotsOK, BallotsPast, ElectionTypes
  <2>2. currentTerm'[q] = currentTerm[q]
    BY <2>1 DEF TermStep, ElectionTypes
  <2>3. votedFor[q] = c \/ <<q, currentTerm[q]>> \in cleared
    BY <1>2, <2>2 DEF BallotsOK, VotesRemembered
  <2> QED
    BY <2>2, <2>3 DEF Quiet, Remembers
<1>3. VotesRemembered'
  BY <1>2 DEF VotesRemembered, Quiet
<1>4. OneVote'
  BY DEF BallotsOK, OneVote, Quiet
<1> QED
  BY <1>1, <1>3, <1>4 DEF BallotsOK

\* Requests that are still under way stay unanswered in a quiet step.
LEMMA RequestsKept ==
  ASSUME ElectionTypes, ElectionTypes', RequestsOK, TermStep, ballots' = ballots,
         VoteRequests' \subseteq VoteRequests
  PROVE  RequestsOK'
<1>1. RequestsPast'
  BY DEF RequestsOK, RequestsPast, TermStep, ElectionTypes, RequestVoteMessage
<1>2. RequestsUnique' /\ RequestsUnanswered'
  BY DEF RequestsOK, RequestsUnique, RequestsUnanswered
<1> QED
  BY <1>1, <1>2 DEF RequestsOK

\* A candidate that has lost none of the votes it counted.
LEMMA CandidateKept ==
  ASSUME ElectionTypes, ElectionTypes', CountersOK, NEW n \in Server,
         state[n] = Candidate, voteCounter'[n] = voteCounter[n],
         Counted(n) \subseteq Counted(n)'
  PROVE  voteCounter'[n] <= Cardinality(Counted(n)')
<1>1. Counted(n)' \subseteq Server
  BY DEF Counted, Voters
<1>2. /\ Cardinality(Counted(n)) \in Nat /\ Cardinality(Counted(n)') \in Nat
      /\ Cardinality(Counted(n)) <= Cardinality(Counted(n)')
  BY <1>1, VotersFinite
<1>3. voteCounter[n] <= Cardinality(Counted(n))
  BY DEF CountersOK
<1> QED
  BY <1>2, <1>3 DEF ElectionTypes

\* A leader that stays in its term, where no ballot is taken back.
LEMMA LeaderKept ==
  ASSUME LeaderHasMajority, NEW n \in Server, state[n] = Leader,
         currentTerm'[n] = currentTerm[n], ballots \subseteq ballots'
  PROVE  IsMajority(Cardinality({p \in Server : <<p, currentTerm'[n], n>> \in ballots'}))
<1> DEFINE old == {p \in Server : <<p, currentTerm[n], n>> \in ballots}
           new == {p \in Server : <<p, currentTerm'[n], n>> \in ballots'}
<1>1. old \subseteq new /\ new \subseteq Server
  OBVIOUS
<1>2. IsMajority(Cardinality(old))
  BY DEF LeaderHasMajority
<1> HIDE DEF old, new
<1>3. IsMajority(Cardinality(new))
  BY <1>1, <1>2, VotersFinite, MajorityGrows
<1> QED
  BY <1>3 DEF new

\* Counters and majorities, where only ballots are added and nobody counts.
LEMMA CountersKept ==
  ASSUME ElectionTypes, ElectionTypes', CountersOK, LeaderHasMajority, Campaigns,
         ballots \subseteq ballots',
         \A n \in Server : state'[n] = Candidate => Counted(n) \subseteq Counted(n)'
  PROVE  CountersOK' /\ LeaderHasMajority'
<1>1. ASSUME NEW n \in Server, state'[n] = Candidate
      PROVE  voteCounter'[n] <= Cardinality(Counted(n)')
  BY <1>1, CandidateKept DEF Campaigns, Candidate, Follower
<1>2. ASSUME NEW n \in Server, state'[n] = Leader
      PROVE  IsMajority(Cardinality({p \in Server : <<p, currentTerm'[n], n>> \in ballots'}))
  BY <1>2, LeaderKept DEF Campaigns, Leader, Follower
<1> QED
  BY <1>1, <1>2 DEF CountersOK, LeaderHasMajority

\* A quiet step keeps the invariant, if it does with the requests.
LEMMA QuietStep ==
  ASSUME ElectionTypes, ElectionTypes', ElectionInv, TermStep, Quiet, RequestsOK'
  PROVE  ElectionInv'
<1>1. BallotsOK'
  BY QuietBallots DEF ElectionInv
<1>2. RepliesOK'
  BY DEF ElectionInv, RepliesOK, Quiet
<1>3. \A n \in Server : state'[n] = Candidate => Counted(n) \subseteq Counted(n)'
  BY DEF Quiet, Campaigns, Candidate, Follower, Counted, Voters
<1>4. CountersOK' /\ LeaderHasMajority'
  BY <1>3, CountersKept DEF ElectionInv, Quiet
<1> QED
  BY <1>1, <1>2, <1>4 DEF ElectionInv

-----------------------------------------------------------------------------
(* Voting.                                                                 *)

\* RequestVote on a request that is not stale: a vote is cast once per
\* request, and only by a server that has not voted or was made to forget it.
LEMMA CurrentVoteInv ==
  ASSUME ElectionTypes, ElectionTypes', ElectionInv, TermStep,
         NEW m \in VoteRequests, RequestVoteCurrent(m)
  PROVE  ElectionInv'
<1> DEFINE n == m.to
           newer == m.Term > currentTerm[n]
           voted == IF newer THEN None ELSE votedFor[n]
           grant == MayVote(voted, m) /\ UpToDate(m, n)
<1>1. /\ n \in Server /\ m.from \in Server /\ m.Term \in Nat /\ m.type = "RequestVote"
      /\ m.from # n /\ m.Term <= currentTerm[m.from] /\ <<n, m.Term, m.from>> \notin ballots
  BY DEF ElectionTypes, RequestVoteMessage, ElectionInv, RequestsOK, RequestsPast,
         RequestsUnanswered
<1>2. /\ m.Term >= currentTerm[n]
      /\ state' = IF newer THEN [state EXCEPT ![n] = Follower] ELSE state
      /\ currentTerm' = [currentTerm EXCEPT ![n] = m.Term]
      /\ votedFor' = [votedFor EXCEPT ![n] = IF grant THEN m.from ELSE voted]
      /\ ballots' = IF grant THEN ballots \cup {<<n, m.Term, m.from>>} ELSE ballots
      /\ voteCounter' = voteCounter /\ cleared' = cleared
      /\ Answer(m, RequestVoteReply(m, m.Term, grant))
  BY DEF RequestVoteCurrent
<1>3. grant => voted \in {None, m.from}
  BY DEF MayVote
<1>4. grant \in BOOLEAN
  BY DEF MayVote, UpToDate
<1> HIDE DEF grant
<1>5. /\ currentTerm'[n] = m.Term
      /\ votedFor'[n] = IF grant THEN m.from ELSE voted
      /\ \A p \in Server \ {n} : currentTerm'[p] = currentTerm[p] /\ votedFor'[p] = votedFor[p]
  BY <1>1, <1>2 DEF ElectionTypes
<1>6. Campaigns
  BY <1>1, <1>2 DEF Campaigns, ElectionTypes
<1>7. VoteRequests' \subseteq VoteRequests \ {m}
  BY <1>2 DEF Answer, VoteRequests
<1>8. ASSUME NEW r \in VoteReplies', r \notin VoteReplies
      PROVE  /\ grant /\ r.from = n /\ r.to = m.from /\ r.argsTerm = m.Term /\ r.Term = m.Term
  <2>1. r = RequestVoteReply(m, m.Term, grant) /\ r.VoteGranted = TRUE
    BY <1>2, <1>8 DEF Answer, VoteReplies
  <2> QED
    BY <1>4, <2>1 DEF RequestVoteReply
<1>9. CASE ~grant
  <2>1. Remembers
    BY <1>1, <1>2, <1>5, <1>9 DEF Remembers, ElectionTypes
  <2>2. Quiet
    BY <1>2, <1>6, <1>8, <1>9, <2>1 DEF Quiet
  <2>3. RequestsOK'
    BY <1>2, <1>7, <1>9, RequestsKept DEF ElectionInv
  <2> QED
    BY <2>2, <2>3, QuietStep
<1>10. CASE grant
  <2>1. ballots' = ballots \cup {<<n, m.Term, m.from>>}
    BY <1>2, <1>10
  <2>2. BallotsPast'
    <3> SUFFICES ASSUME NEW q \in Server, NEW c \in Server, NEW t \in Nat, <<q, t, c>> \in ballots'
                 PROVE  t <= currentTerm'[q] /\ t <= currentTerm'[c]
      BY DEF BallotsPast
    <3>1. CASE <<q, t, c>> \in ballots
      <4>1. t <= currentTerm[q] /\ t <= currentTerm[c]
        BY <3>1 DEF ElectionInv, BallotsOK, BallotsPast
      <4> QED
        BY <4>1 DEF TermStep, ElectionTypes
    <3>2. CASE q = n /\ t = m.Term /\ c = m.from
      BY <1>1, <1>5, <3>2 DEF ElectionTypes
    <3> QED
      BY <2>1, <3>1, <3>2
  <2>3. ASSUME NEW c \in Server, <<n, m.Term, c>> \in ballots
        PROVE  <<n, m.Term>> \in cleared
    <3>1. m.Term = currentTerm[n]
      BY <1>1, <1>2, <2>3 DEF ElectionInv, BallotsOK, BallotsPast, ElectionTypes
    <3>2. votedFor[n] = c \/ <<n, m.Term>> \in cleared
      BY <1>1, <2>3, <3>1 DEF ElectionInv, BallotsOK, VotesRemembered
    <3>3. voted = votedFor[n]
      BY <1>1, <3>1
    <3>4. c # m.from /\ c # None
      BY <1>1, <2>3, ServerAssumption DEF None
    <3> QED
      BY <1>3, <1>10, <3>2, <3>3, <3>4
  <2>4. VotesRemembered'
    <3> SUFFICES ASSUME NEW q \in Server, NEW c \in Server, <<q, currentTerm'[q], c>> \in ballots'
                 PROVE  votedFor'[q] = c \/ <<q, currentTerm'[q]>> \in cleared
      BY <1>2 DEF VotesRemembered
    <3>1. CASE q = n
      BY <1>5, <1>10, <2>1, <2>3, <3>1
    <3>2. CASE q # n
      BY <1>5, <2>1, <3>2 DEF ElectionInv, BallotsOK, VotesRemembered
    <3> QED
      BY <3>1, <3>2
  <2>5. OneVote'
    <3> SUFFICES ASSUME NEW q \in Server, NEW c \in Server, NEW d \in Server, NEW t \in Nat,
                        <<q, t, c>> \in ballots', <<q, t, d>> \in ballots', c # d
                 PROVE  <<q, t>> \in cleared
      BY <1>2 DEF OneVote
    <3>1. CASE <<q, t, c>> \in ballots /\ <<q, t, d>> \in ballots
      BY <3>1 DEF ElectionInv, BallotsOK, OneVote
    <3>2. CASE ~(<<q, t, c>> \in ballots /\ <<q, t, d>> \in ballots)
      BY <2>1, <2>3, <3>2
    <3> QED
      BY <3>1, <3>2
  <2>6. RequestsOK'
    <3>1. RequestsPast'
      BY <1>7 DEF ElectionInv, RequestsOK, RequestsPast, TermStep, ElectionTypes, RequestVoteMessage
    <3>2. RequestsUnique'
      BY <1>7 DEF ElectionInv, RequestsOK, RequestsUnique
    <3>3. RequestsUnanswered'
      BY <1>7, <2>1 DEF ElectionInv, RequestsOK, RequestsUnique, RequestsUnanswered
    <3> QED
      BY <3>1, <3>2, <3>3 DEF RequestsOK
  <2>7. RepliesOK'
    BY <1>1, <1>8, <2>1 DEF ElectionInv, RepliesOK
  <2>8. ASSUME NEW c \in Server, state'[c] = Candidate
        PROVE  Counted(c) \subseteq Counted(c)'
    <3> SUFFICES ASSUME NEW p \in Counted(c)
                 PROVE  p \in Counted(c)'
      OBVIOUS
    <3>1. currentTerm'[c] = currentTerm[c]
      BY <1>6, <2>8 DEF Campaigns, Candidate, Follower
    <3>2. p \in Server /\ <<p, currentTerm[c], c>> \in ballots
      BY DEF Counted, Voters
    <3>3. ASSUME NEW r \in VoteReplies'
          PROVE  ~(r.from = p /\ r.to = c /\ r.argsTerm = currentTerm[c])
      BY <1>1, <1>8, <3>2 DEF Counted
    <3> QED
      BY <2>1, <3>1, <3>2, <3>3 DEF Counted, Voters
  <2>9. CountersOK' /\ LeaderHasMajority'
    BY <1>6, <2>1, <2>8, CountersKept DEF ElectionInv
  <2> QED
    BY <2>2, <2>4, <2>5, <2>6, <2>7, <2>9 DEF ElectionInv, BallotsOK
<1> QED
  BY <1>9, <1>10

\* What appendEntries sends is no request for a vote.
LEMMA AppendsAsked ==
  ASSUME NEW n \in Server, NEW heartbeat, appendEntries(n, heartbeat)
  PROVE  VoteRequests' \subseteq VoteRequests
<1>1. \A m \in EntriesToSend(n, heartbeat)' : m.type = "AppendEntries"
  BY DEF EntriesToSend, AppendEntriesArgs
<1> QED
  BY <1>1 DEF appendEntries, VoteRequests

\* A new candidate: its term is new, so is everything about it.
LEMMA ElectionStarted ==
  ASSUME ElectionTypes, ElectionTypes', ElectionInv, TermStep, NEW n \in Server,
         leaderElection(n)
  PROVE  ElectionInv'
<1> DEFINE t == currentTerm[n] + 1
<1>1. /\ currentTerm' = [currentTerm EXCEPT ![n] = t]
      /\ state' = [state EXCEPT ![n] = Candidate]
      /\ votedFor' = [votedFor EXCEPT ![n] = n]
      /\ voteCounter' = [voteCounter EXCEPT ![n] = 1]
      /\ replies' = replies /\ cleared' = cleared
      /\ ballots' = ballots \cup {<<n, currentTerm'[n], n>>}
      /\ requests' = requests
           \cup (IF state[n] = Leader THEN EntriesToSend(n, TRUE) ELSE {})
           \cup {RequestVoteArgs(n, p)' : p \in Server \ {n}}
  BY DEF leaderElection
<1>2. /\ t \in Nat /\ currentTerm[n] \in Nat /\ t > currentTerm[n] /\ currentTerm'[n] = t
      /\ state'[n] = Candidate /\ votedFor'[n] = n /\ voteCounter'[n] = 1
      /\ \A p \in Server \ {n} : /\ currentTerm'[p] = currentTerm[p] /\ state'[p] = state[p]
                                 /\ votedFor'[p] = votedFor[p] /\ voteCounter'[p] = voteCounter[p]
  BY <1>1 DEF ElectionTypes
<1>3. ballots' = ballots \cup {<<n, t, n>>}
  BY <1>1, <1>2
<1>4. \A q, c \in Server : <<q, t, c>> \in ballots => q # n /\ c # n
  BY <1>2 DEF ElectionInv, BallotsOK, BallotsPast, ElectionTypes
<1> HIDE DEF t
<1>5. VoteReplies' = VoteReplies
  BY <1>1 DEF VoteReplies
<1>6. ASSUME NEW m \in VoteRequests', m \notin VoteRequests
      PROVE  \E p \in Server \ {n} : m = RequestVoteArgs(n, p)'
  <2>1. \A r \in EntriesToSend(n, TRUE) : r.type = "AppendEntries"
    BY DEF EntriesToSend, AppendEntriesArgs
  <2> QED
    BY <1>1, <1>6, <2>1 DEF VoteRequests
<1>7. ASSUME NEW p \in Server \ {n}
      PROVE  /\ RequestVoteArgs(n, p)'.from = n /\ RequestVoteArgs(n, p)'.to = p
             /\ RequestVoteArgs(n, p)'.Term = t
  BY <1>2 DEF RequestVoteArgs
<1>8. ASSUME NEW m \in VoteRequests', m \notin VoteRequests
      PROVE  m.from = n /\ m.to \in Server \ {n} /\ m.Term = t
  BY <1>6, <1>7, <1>8
<1>9. ASSUME NEW m \in VoteRequests
      PROVE  /\ m.from \in Server /\ m.to \in Server /\ m.Term \in Nat /\ m.from # m.to
             /\ m.Term <= currentTerm[m.from] /\ <<m.to, m.Term, m.from>> \notin ballots
  BY DEF ElectionTypes, RequestVoteMessage, ElectionInv, RequestsOK, RequestsPast,
         RequestsUnanswered
<1>10. RequestsOK'
  <2>1. RequestsPast'
    <3> SUFFICES ASSUME NEW m \in VoteRequests'
                 PROVE  m.from # m.to /\ m.Term <= currentTerm'[m.from]
      BY DEF RequestsPast
    <3>1. CASE m \in VoteRequests
      <4>1. m.from \in Server /\ m.Term \in Nat /\ m.from # m.to /\ m.Term <= currentTerm[m.from]
        BY <1>9, <3>1
      <4>2. /\ currentTerm[m.from] \in Nat /\ currentTerm'[m.from] \in Nat
            /\ currentTerm[m.from] <= currentTerm'[m.from]
        BY <4>1 DEF TermStep, ElectionTypes
      <4> QED
        BY <4>1, <4>2
    <3>2. CASE m \notin VoteRequests
      BY <1>2, <1>8, <3>2
    <3> QED
      BY <3>1, <3>2
  <2>2. RequestsUnique'
    <3> SUFFICES ASSUME NEW m \in VoteRequests', NEW r \in VoteRequests',
                        m.from = r.from, m.to = r.to, m.Term = r.Term
                 PROVE  m = r
      BY DEF RequestsUnique
    <3>1. CASE m \in VoteRequests /\ r \in VoteRequests
      BY <3>1 DEF ElectionInv, RequestsOK, RequestsUnique
    <3>2. CASE m \in VoteRequests /\ r \notin VoteRequests
      <4>1. m.from = n /\ m.Term = t
        BY <1>8, <3>2
      <4>2. m.Term <= currentTerm[m.from]
        BY <1>9, <3>2
      <4> QED
        BY <1>2, <4>1, <4>2
    <3>3. CASE m \notin VoteRequests /\ r \in VoteRequests
      <4>1. r.from = n /\ r.Term = t
        BY <1>8, <3>3
      <4>2. r.Term <= currentTerm[r.from]
        BY <1>9, <3>3
      <4> QED
        BY <1>2, <4>1, <4>2
    <3>4. CASE m \notin VoteRequests /\ r \notin VoteRequests
      BY <1>6, <1>7, <3>4
    <3> QED
      BY <3>1, <3>2, <3>3, <3>4
  <2>3. RequestsUnanswered'
    <3> SUFFICES ASSUME NEW m \in VoteRequests'
                 PROVE  <<m.to, m.Term, m.from>> \notin ballots \cup {<<n, t, n>>}
      BY <1>3 DEF RequestsUnanswered
    <3>1. CASE m \in VoteRequests
      BY <1>9, <3>1
    <3>2. CASE m \notin VoteRequests
      BY <1>4, <1>8, <3>2
    <3> QED
      BY <3>1, <3>2
  <2> QED
    BY <2>1, <2>2, <2>3 DEF RequestsOK
<1>11. BallotsOK'
  <2>1. BallotsPast'
    <3> SUFFICES ASSUME NEW q \in Server, NEW c \in Server, NEW u \in Nat, <<q, u, c>> \in ballots'
                 PROVE  u <= currentTerm'[q] /\ u <= currentTerm'[c]
      BY DEF BallotsPast
    <3>1. CASE <<q, u, c>> \in ballots
      <4>1. u <= currentTerm[q] /\ u <= currentTerm[c]
        BY <3>1 DEF ElectionInv, BallotsOK, BallotsPast
      <4> QED
        BY <4>1 DEF TermStep, ElectionTypes
    <3>2. CASE q = n /\ u = t /\ c = n
      BY <1>2, <3>2
    <3> QED
      BY <1>3, <3>1, <3>2
  <2>2. VotesRemembered'
    <3> SUFFICES ASSUME NEW q \in Server, NEW c \in Server, <<q, currentTerm'[q], c>> \in ballots'
                 PROVE  votedFor'[q] = c \/ <<q, currentTerm'[q]>> \in cleared
      BY <1>1 DEF VotesRemembered
    <3>1. CASE q = n
      BY <1>2, <1>3, <1>4, <3>1
    <3>2. CASE q # n
      BY <1>2, <1>3, <3>2 DEF ElectionInv, BallotsOK, VotesRemembered
    <3> QED
      BY <3>1, <3>2
  <2>3. OneVote'
    <3> SUFFICES ASSUME NEW q \in Server, NEW c \in Server, NEW d \in Server, NEW u \in Nat,
                        <<q, u, c>> \in ballots', <<q, u, d>> \in ballots', c # d
                 PROVE  <<q, u>> \in cleared
      BY <1>1 DEF OneVote
    <3>1. CASE <<q, u, c>> \in ballots /\ <<q, u, d>> \in ballots
      BY <3>1 DEF ElectionInv, BallotsOK, OneVote
    <3>2. CASE ~(<<q, u, c>> \in ballots /\ <<q, u, d>> \in ballots)
      BY <1>3, <1>4, <3>2
    <3> QED
      BY <3>1, <3>2
  <2> QED
    BY <2>1, <2>2, <2>3 DEF BallotsOK
<1>12. RepliesOK'
  BY <1>3, <1>5 DEF ElectionInv, RepliesOK
<1>13. CountersOK'
  <2> SUFFICES ASSUME NEW c \in Server, state'[c] = Candidate
               PROVE  voteCounter'[c] <= Cardinality(Counted(c)')
    BY DEF CountersOK
  <2>1. CASE c = n
    <3>1. n \in Voters(n, currentTerm[n])'
      BY <1>2, <1>3 DEF Voters
    <3>2. \A m \in VoteReplies' : ~(m.from = n /\ m.to = n)
      BY <1>5 DEF ElectionInv, RepliesOK
    <3>3. {n} \subseteq Counted(n)'
      BY <3>1, <3>2 DEF Counted
    <3>4. Counted(n)' \subseteq Server
      BY DEF Counted, Voters
    <3>5. Cardinality({n}) = 1
      BY FS_Singleton
    <3>6. 1 <= Cardinality(Counted(n)')
      BY <3>3, <3>4, <3>5, VotersFinite
    <3> QED
      BY <1>2, <2>1, <3>6
  <2>2. CASE c # n
    <3>1. Counted(c) \subseteq Counted(c)'
      BY <1>2, <1>3, <1>5, <2>2 DEF Counted, Voters
    <3> QED
      BY <1>2, <2>2, <3>1, CandidateKept DEF ElectionInv
  <2> QED
    BY <2>1, <2>2
<1>14. LeaderHasMajority'
  <2> SUFFICES ASSUME NEW c \in Server, state'[c] = Leader
               PROVE  IsMajority(Cardinality({p \in Server : <<p, currentTerm'[c], c>> \in ballots'}))
    BY DEF LeaderHasMajority
  <2>1. c # n
    BY <1>2 DEF Candidate, Leader
  <2> QED
    BY <1>2, <1>3, <2>1, LeaderKept DEF ElectionInv
<1> QED
  BY <1>10, <1>11, <1>12, <1>13, <1>14 DEF ElectionInv

\* A counted vote: its reply was the last of this voter for this election,
\* so the counter stays below the number of voters.
LEMMA VoteCountedInv ==
  ASSUME ElectionTypes, ElectionTypes', ElectionInv, TermStep,
         NEW m \in replies, m.type = "RequestVoteReply", m.VoteGranted \in BOOLEAN, VoteCounted(m)
  PROVE  ElectionInv'
<1> DEFINE n == m.to
           t == currentTerm[n]
<1>1. m \in VoteReplies /\ m.Term = m.argsTerm /\ m.argsTerm = t
  BY DEF VoteCounted, Counts, VoteReplies
<1>2. n \in Server /\ m.from \in Server /\ m.from # n /\ <<m.from, t, n>> \in ballots
  BY <1>1 DEF ElectionTypes, RequestVoteReplyMessage, ElectionInv, RepliesOK
<1>3. /\ UNCHANGED <<currentTerm, votedFor, historyVars>>
      /\ voteCounter' = [voteCounter EXCEPT ![n] = @ + 1]
      /\ replies' = replies \ {m}
      /\ \/ /\ IsMajority(voteCounter'[n]) /\ state[n] = Candidate
            /\ state' = [state EXCEPT ![n] = Leader]
            /\ appendEntries(n, TRUE)
         \/ /\ ~(IsMajority(voteCounter'[n]) /\ state[n] = Candidate)
            /\ state' = state /\ requests' = requests
  BY DEF VoteCounted, BecomeLeader, Consumed
<1>4. ballots' = ballots /\ cleared' = cleared
  BY <1>3 DEF historyVars
<1>5. VoteReplies' = VoteReplies \ {m}
  BY <1>3 DEF VoteReplies
<1>6. VoteRequests' \subseteq VoteRequests
  BY <1>2, <1>3, AppendsAsked DEF VoteRequests
<1>7. RequestsOK'
  BY <1>4, <1>6, RequestsKept DEF ElectionInv
<1>8. BallotsOK'
  BY <1>3, <1>4 DEF ElectionInv, BallotsOK, BallotsPast, VotesRemembered, OneVote
<1>9. RepliesOK'
  BY <1>4, <1>5 DEF ElectionInv, RepliesOK
<1>10. /\ voteCounter'[n] = voteCounter[n] + 1
       /\ \A c \in Server \ {n} : voteCounter'[c] = voteCounter[c] /\ state'[c] = state[c]
  BY <1>2, <1>3 DEF ElectionTypes
<1>11. \A c \in Server : Counted(c) \subseteq Counted(c)'
  BY <1>3, <1>4, <1>5 DEF Counted, Voters
<1>12. m.from \in Counted(n)'
  <2>1. ASSUME NEW r \in VoteReplies, r.from = m.from, r.to = n, r.argsTerm = t
        PROVE  r = m
    <3>1. r \in RequestVoteReplyMessage /\ m \in RequestVoteReplyMessage
      BY <1>1 DEF ElectionTypes
    <3>2. r.Term = m.Term /\ r.VoteGranted = TRUE /\ m.VoteGranted = TRUE
      BY <1>1, <2>1 DEF ElectionInv, RepliesOK, VoteReplies
    <3>3. r.type = m.type /\ r.argsTerm = m.argsTerm
      BY <1>1, <2>1 DEF VoteReplies
    <3> QED
      BY <2>1, <3>1, <3>2, <3>3 DEF RequestVoteReplyMessage
  <2>2. m.from \in Voters(n, t)'
    BY <1>2, <1>3, <1>4 DEF Voters
  <2> QED
    BY <1>3, <1>5, <2>1, <2>2 DEF Counted
<1>13. m.from \notin Counted(n)
  BY <1>1 DEF Counted
<1>14. state[n] = Candidate => voteCounter'[n] <= Cardinality(Counted(n)')
  <2> SUFFICES ASSUME state[n] = Candidate PROVE voteCounter'[n] <= Cardinality(Counted(n)')
    OBVIOUS
  <2>1. voteCounter[n] <= Cardinality(Counted(n))
    BY <1>2 DEF ElectionInv, CountersOK
  <2>2. Counted(n) \cup {m.from} \subseteq Counted(n)' /\ Counted(n)' \subseteq Server
    BY <1>2, <1>11, <1>12 DEF Counted, Voters
  <2>3. IsFiniteSet(Counted(n)) /\ Cardinality(Counted(n)) \in Nat
    BY VotersFinite DEF Counted, Voters
  <2>4. Cardinality(Counted(n) \cup {m.from}) = Cardinality(Counted(n)) + 1
    BY <1>13, <2>3, FS_AddElement
  <2>5. /\ Cardinality(Counted(n)') \in Nat
        /\ Cardinality(Counted(n) \cup {m.from}) <= Cardinality(Counted(n)')
    BY <2>2, VotersFinite
  <2> QED
    BY <1>2, <1>10, <2>1, <2>3, <2>4, <2>5 DEF ElectionTypes
<1>15. CountersOK'
  <2> SUFFICES ASSUME NEW c \in Server, state'[c] = Candidate
               PROVE  voteCounter'[c] <= Cardinality(Counted(c)')
    BY DEF CountersOK
  <2>1. CASE c = n
    <3>1. state[n] = Candidate
      BY <1>2, <1>3, <2>1 DEF ElectionTypes, Candidate, Leader
    <3> QED
      BY <1>14, <2>1, <3>1
  <2>2. CASE c # n
    BY <1>10, <1>11, <2>2, CandidateKept DEF ElectionInv
  <2> QED
    BY <2>1, <2>2
<1>16. LeaderHasMajority'
  <2> SUFFICES ASSUME NEW c \in Server, state'[c] = Leader
               PROVE  IsMajority(Cardinality({p \in Server : <<p, currentTerm'[c], c>> \in ballots'}))
    BY DEF LeaderHasMajority
  <2>1. CASE state[c] = Leader
    BY <1>3, <1>4, <2>1, LeaderKept DEF ElectionInv
  <2>2. CASE state[c] # Leader
    <3>1. c = n /\ state[n] = Candidate /\ IsMajority(voteCounter'[n])
      BY <1>3, <1>10, <2>2
    <3>2. Counted(n)' \subseteq Voters(n, t)' /\ Voters(n, t)' \subseteq Server
      BY <1>3 DEF Counted, Voters
    <3>3. /\ Cardinality(Counted(n)') \in Nat /\ Cardinality(Voters(n, t)') \in Nat
          /\ Cardinality(Counted(n)') <= Cardinality(Voters(n, t)')
      BY <3>2, VotersFinite
    <3>4. voteCounter'[n] \in Nat /\ voteCounter'[n] <= Cardinality(Voters(n, t)')
      BY <1>2, <1>14, <3>1, <3>3 DEF ElectionTypes
    <3>5. IsMajority(Cardinality(Voters(n, t)'))
      BY <3>1, <3>3, <3>4, MajorityGrows
    <3>6. Voters(n, t)' = {p \in Server : <<p, currentTerm'[c], c>> \in ballots'}
      BY <1>3, <3>1 DEF Voters
    <3> QED
      BY <3>5, <3>6
  <2> QED
    BY <2>1, <2>2
<1> QED
  BY <1>7, <1>8, <1>9, <1>15, <1>16 DEF ElectionInv

-----------------------------------------------------------------------------
(* Steps in which nobody votes.                                            *)

\* A step that sends no vote and no request for one.
LEMMA NoVoteStep ==
  ASSUME ElectionTypes, ElectionTypes', ElectionInv, TermStep,
         ballots' = ballots, cleared \subseteq cleared', Remembers, Campaigns,
         \A m \in requests' : m \in requests \/ m.type # "RequestVote",
         \A m \in replies' :
           m \in replies \/ m.type # "RequestVoteReply" \/ m.VoteGranted # TRUE
  PROVE  ElectionInv'
<1>1. VoteRequests' \subseteq VoteRequests /\ VoteReplies' \subseteq VoteReplies
  BY DEF VoteRequests, VoteReplies
<1>2. Quiet
  BY <1>1 DEF Quiet
<1>3. RequestsOK'
  BY <1>1, RequestsKept DEF ElectionInv
<1> QED
  BY <1>2, <1>3, QuietStep

\* A step that leaves term, vote, role and counter of every server alone.
LEMMA SameElection ==
  ASSUME UNCHANGED electionVars
  PROVE  Remembers /\ Campaigns
BY DEF electionVars, Remembers, Campaigns

\* A later term makes a follower.
LEMMA NewTermElection ==
  ASSUME ElectionTypes, NEW n \in Server, NEW term \in Nat, setNewTerm(n, term),
         term > currentTerm[n] \/ term > 0, voteCounter' = voteCounter
  PROVE  Remembers /\ Campaigns
<1>1. CASE term > currentTerm[n] \/ currentTerm[n] = 0
  <2>1. /\ state' = [state EXCEPT ![n] = Follower]
        /\ currentTerm' = [currentTerm EXCEPT ![n] = term]
        /\ votedFor' = [votedFor EXCEPT ![n] = None]
        /\ term > currentTerm[n]
    BY <1>1 DEF setNewTerm, ElectionTypes
  <2>2. Remembers
    BY <2>1 DEF Remembers, ElectionTypes
  <2>3. Campaigns
    BY <2>1 DEF Campaigns, ElectionTypes
  <2> QED
    BY <2>2, <2>3
<1>2. CASE ~(term > currentTerm[n] \/ currentTerm[n] = 0)
  BY <1>2, SameElection DEF setNewTerm, electionVars
<1> QED
  BY <1>1, <1>2

\* A handler that answers with no vote.
LEMMA AnsweredWithoutVote ==
  ASSUME NEW m, NEW reply, Answer(m, reply),
         reply.type # "RequestVoteReply" \/ reply.VoteGranted # TRUE
  PROVE  /\ \A r \in requests' : r \in requests
         /\ \A r \in replies' : r \in replies \/ r.type # "RequestVoteReply" \/ r.VoteGranted # TRUE
BY DEF Answer

\* RequestVote keeps the invariant.
LEMMA RequestVoteElection ==
  ASSUME ElectionTypes, ElectionTypes', ElectionInv, TermStep,
         NEW m \in requests, m.type = "RequestVote", RequestVote(m)
  PROVE  ElectionInv'
<1>1. CASE RequestVoteStale(m)
  <2>1. UNCHANGED electionVars /\ ballots' = ballots /\ cleared' = cleared
    BY <1>1 DEF RequestVoteStale, historyVars
  <2>2. Answer(m, RequestVoteReply(m, currentTerm[m.to], FALSE))
    BY <1>1 DEF RequestVoteStale
  <2>3. RequestVoteReply(m, currentTerm[m.to], FALSE).VoteGranted # TRUE
    BY DEF RequestVoteReply
  <2> QED
    BY <2>1, <2>2, <2>3, AnsweredWithoutVote, SameElection, NoVoteStep
<1>2. CASE RequestVoteCurrent(m)
  BY <1>2, CurrentVoteInv DEF VoteRequests
<1> QED
  BY <1>1, <1>2 DEF RequestVote

\* AppendEntries keeps the invariant: it can only end a campaign.
LEMMA AppendEntriesElection ==
  ASSUME ElectionTypes, ElectionTypes', ElectionInv, TermStep,
         NEW m \in requests, m.to \in Server, m.Term \in Nat, AppendEntries(m)
  PROVE  ElectionInv'
<1>1. ballots' = ballots /\ cleared' = cleared
  BY DEF AppendEntries, AppendNewerTerm, AppendStale, AppendBehindSnapshot, AppendMissing,
         AppendConflict, AppendAccept, CurrentLeaderHeard, historyVars
<1>2. Remembers /\ Campaigns
  <2>1. CASE AppendNewerTerm(m)
    BY <2>1, NewTermElection DEF AppendNewerTerm
  <2>2. CASE AppendStale(m)
    BY <2>2, SameElection DEF AppendStale
  <2>3. CASE CurrentLeaderHeard(m)
    <3>1. /\ state' = [state EXCEPT ![m.to] = IF @ = Candidate THEN Follower ELSE @]
          /\ UNCHANGED <<currentTerm, votedFor, voteCounter>>
      BY <2>3 DEF CurrentLeaderHeard
    <3> QED
      BY <3>1 DEF Remembers, Campaigns, ElectionTypes
  <2> QED
    BY <2>1, <2>2, <2>3
       DEF AppendEntries, AppendBehindSnapshot, AppendMissing, AppendConflict, AppendAccept
<1>3. \E reply : Answer(m, reply) /\ reply.type = "AppendEntriesReply"
  BY DEF AppendEntries, AppendNewerTerm, AppendStale, AppendBehindSnapshot, AppendMissing,
         AppendConflict, AppendAccept, AppendEntriesReply
<1>4. /\ \A r \in requests' : r \in requests
      /\ \A r \in replies' : r \in replies \/ r.type # "RequestVoteReply" \/ r.VoteGranted # TRUE
  BY <1>3, AnsweredWithoutVote
<1> QED
  BY <1>1, <1>2, <1>4, NoVoteStep

\* InstallSnapShot keeps the invariant: a vote it forgets is recorded.
LEMMA InstallSnapShotElection ==
  ASSUME ElectionTypes, ElectionTypes', ElectionInv, TermStep,
         NEW m \in requests, m.to \in Server, m.Term \in Nat, InstallSnapShot(m)
  PROVE  ElectionInv'
<1>1. ballots' = ballots /\ cleared \subseteq cleared' /\ Remembers /\ Campaigns
  <2>1. CASE InstallStale(m)
    BY <2>1, SameElection DEF InstallStale, historyVars
  <2>2. CASE SnapshotHeard(m)
    <3>1. /\ currentTerm[m.to] <= m.Term
          /\ currentTerm' = [currentTerm EXCEPT ![m.to] = m.Term]
          /\ state' = [state EXCEPT ![m.to] = Follower]
          /\ votedFor' = [votedFor EXCEPT ![m.to] = None]
          /\ cleared' = IF m.Term = currentTerm[m.to]
                        THEN cleared \cup {<<m.to, m.Term>>} ELSE cleared
          /\ voteCounter' = voteCounter /\ ballots' = ballots
      BY <2>2 DEF SnapshotHeard
    <3>2. Remembers
      BY <3>1 DEF Remembers, ElectionTypes
    <3>3. Campaigns
      BY <3>1 DEF Campaigns, ElectionTypes
    <3> QED
      BY <3>1, <3>2, <3>3
  <2> QED
    BY <2>1, <2>2 DEF InstallSnapShot, InstallOld, InstallNew
<1>2. /\ \A r \in requests' : r \in requests
      /\ \A r \in replies' : r \in replies \/ r.type # "RequestVoteReply" \/ r.VoteGranted # TRUE
  <2>1. CASE InstallStale(m) \/ InstallOld(m)
    <3>1. \E reply : Answer(m, reply) /\ reply.type = "InstallSnapShotReply"
      BY <2>1 DEF InstallStale, InstallOld, InstallSnapshotReply
    <3> QED
      BY <3>1, AnsweredWithoutVote
  <2>2. CASE InstallNew(m)
    BY <2>2 DEF InstallNew
  <2> QED
    BY <2>1, <2>2 DEF InstallSnapShot
<1> QED
  BY <1>1, <1>2, NoVoteStep

\* The candidate's goroutine keeps the invariant.
LEMMA CandidateRequestVoteElection ==
  ASSUME ElectionTypes, ElectionTypes', ElectionInv, TermStep,
         NEW m \in replies, m \in RequestVoteReplyMessage, candidateRequestVote(m)
  PROVE  ElectionInv'
<1>1. m.to \in Server /\ m.Term \in Nat /\ m.argsTerm \in Nat /\ m.VoteGranted \in BOOLEAN
      /\ m.type = "RequestVoteReply"
  BY DEF RequestVoteReplyMessage
<1>2. CASE VoteCounted(m)
  BY <1>1, <1>2, VoteCountedInv
<1>3. CASE VoteNewerTerm(m) \/ VoteIgnored(m)
  <2>1. ballots' = ballots /\ cleared' = cleared /\ Consumed(m)
    BY <1>3 DEF VoteNewerTerm, VoteIgnored, historyVars
  <2>2. CASE VoteNewerTerm(m)
    <3>1. setNewTerm(m.to, m.Term) /\ m.Term > 0 /\ voteCounter' = voteCounter
      BY <1>1, <2>2 DEF VoteNewerTerm
    <3>2. Remembers /\ Campaigns
      BY <1>1, <3>1, NewTermElection
    <3> QED
      BY <2>1, <3>2, NoVoteStep DEF Consumed
  <2>3. CASE VoteIgnored(m)
    BY <2>1, <2>3, SameElection, NoVoteStep DEF VoteIgnored, Consumed
  <2> QED
    BY <1>3, <2>2, <2>3
<1> QED
  BY <1>2, <1>3 DEF candidateRequestVote

\* The leader's goroutines keep the invariant.
LEMMA LeaderSendEntriesElection ==
  ASSUME ElectionTypes, ElectionTypes', ElectionInv, TermStep,
         NEW m \in replies, m.to \in Server, m.Term \in Nat, leaderSendEntries(m)
  PROVE  ElectionInv'
<1>1. ballots' = ballots /\ cleared' = cleared /\ Consumed(m)
  BY DEF leaderSendEntries, AppendReplyNewerTerm, AppendReplyStale, AppendReplyCurrent, historyVars
<1>2. Remembers /\ Campaigns
  <2>1. CASE AppendReplyNewerTerm(m)
    BY <2>1, NewTermElection DEF AppendReplyNewerTerm
  <2>2. CASE AppendReplyStale(m) \/ AppendReplyCurrent(m)
    BY <2>2, SameElection DEF AppendReplyStale, AppendReplyCurrent
  <2> QED
    BY <2>1, <2>2 DEF leaderSendEntries
<1> QED
  BY <1>1, <1>2, NoVoteStep DEF Consumed

\* The same for the replies to snapshots: a leader that steps down without
\* a new term forgets its vote, and that is recorded.
LEMMA SnapshotReplyElection ==
  ASSUME ElectionTypes, ElectionTypes', ElectionInv, TermStep,
         NEW m \in replies, m.to \in Server, SnapshotReply(m)
  PROVE  ElectionInv'
<1>1. CASE SnapshotReplyStale(m) \/ SnapshotReplyCurrent(m)
  BY <1>1, SameElection, NoVoteStep
     DEF SnapshotReplyStale, SnapshotReplyCurrent, Consumed, historyVars
<1>2. CASE SnapshotReplyNewerTerm(m)
  <2>1. /\ state' = [state EXCEPT ![m.to] = Follower]
        /\ votedFor' = [votedFor EXCEPT ![m.to] = None]
        /\ cleared' = cleared \cup {<<m.to, currentTerm[m.to]>>}
        /\ currentTerm' = currentTerm /\ voteCounter' = voteCounter /\ ballots' = ballots
        /\ Consumed(m)
    BY <1>2 DEF SnapshotReplyNewerTerm
  <2>2. Remembers
    BY <2>1 DEF Remembers, ElectionTypes
  <2>3. Campaigns
    BY <2>1 DEF Campaigns, ElectionTypes
  <2> QED
    BY <2>1, <2>2, <2>3, NoVoteStep DEF Consumed
<1> QED
  BY <1>1, <1>2 DEF SnapshotReply

-----------------------------------------------------------------------------
(* Crashes.                                                                *)

\* A vote that a crashed candidate asked for may still be cast: the request
\* under way is the one there was, closed.
LEMMA DisconnectedRequest ==
  ASSUME NetInv, NEW n \in Server, NEW lost, Disconnected(n, lost), NEW r \in VoteRequests'
  PROVE  \E m \in VoteRequests :
           /\ r.from = m.from /\ r.to = m.to /\ r.Term = m.Term
           /\ r = IF m.from = n THEN [m EXCEPT !.open = FALSE] ELSE m
<1>1. PICK m \in requests : r = IF m.from = n THEN [m EXCEPT !.open = FALSE] ELSE m
  BY DEF Disconnected, VoteRequests
<1>2. /\ r.type = m.type /\ r.from = m.from /\ r.to = m.to /\ r.Term = m.Term
  <2>1. GoodRequest(m)
    BY DEF NetInv
  <2> QED
    BY <1>1, <2>1
       DEF GoodRequest, RequestVoteMessage, AppendEntriesMessage, InstallSnapShotMessage
<1>3. m \in VoteRequests
  BY <1>2 DEF VoteRequests
<1> QED
  BY <1>1, <1>2, <1>3

\* A restart keeps the invariant: the server is a follower with the vote of
\* its persister, or in a later term, or its forgotten vote is recorded.
LEMMA MakeElection ==
  ASSUME ElectionTypes, ElectionTypes', ElectionInv, TermStep, NetInv,
         NEW n \in Server, NEW stable, NEW lost, Make(n, stable, lost),
         stable.currentTerm = currentTerm[n]
           => stable.votedFor = votedFor[n] \/ <<n, currentTerm[n]>> \in cleared',
         cleared \subseteq cleared'
  PROVE  ElectionInv'
<1>1. /\ currentTerm' = [currentTerm EXCEPT ![n] = stable.currentTerm]
      /\ votedFor' = [votedFor EXCEPT ![n] = stable.votedFor]
      /\ state' = [state EXCEPT ![n] = Follower]
      /\ voteCounter' = [voteCounter EXCEPT ![n] = 0]
      /\ Disconnected(n, lost) /\ ballots' = ballots
  BY DEF Make, readPersist
<1>2. Remembers
  BY <1>1 DEF Remembers, ElectionTypes
<1>3. Campaigns
  BY <1>1 DEF Campaigns, ElectionTypes
<1>4. VoteReplies' \subseteq VoteReplies
  BY <1>1 DEF Disconnected, VoteReplies
<1>5. \A r \in VoteRequests' : \E m \in VoteRequests :
        /\ r.from = m.from /\ r.to = m.to /\ r.Term = m.Term
        /\ r = IF m.from = n THEN [m EXCEPT !.open = FALSE] ELSE m
  BY <1>1, DisconnectedRequest
<1>6. RequestsOK'
  <2>1. RequestsPast'
    <3> SUFFICES ASSUME NEW r \in VoteRequests'
                 PROVE  r.from # r.to /\ r.Term <= currentTerm'[r.from]
      BY DEF RequestsPast
    <3>1. PICK m \in VoteRequests : r.from = m.from /\ r.to = m.to /\ r.Term = m.Term
      BY <1>5
    <3>2. /\ m.from \in Server /\ m.Term \in Nat /\ m.from # m.to
          /\ m.Term <= currentTerm[m.from]
      BY DEF ElectionTypes, RequestVoteMessage, ElectionInv, RequestsOK, RequestsPast
    <3>3. /\ currentTerm[m.from] \in Nat /\ currentTerm'[m.from] \in Nat
          /\ currentTerm[m.from] <= currentTerm'[m.from]
      BY <3>2 DEF TermStep, ElectionTypes
    <3> QED
      BY <3>1, <3>2, <3>3
  <2>2. RequestsUnique'
    <3> SUFFICES ASSUME NEW r \in VoteRequests', NEW q \in VoteRequests',
                        r.from = q.from, r.to = q.to, r.Term = q.Term
                 PROVE  r = q
      BY DEF RequestsUnique
    <3>1. PICK m \in VoteRequests :
            /\ r.from = m.from /\ r.to = m.to /\ r.Term = m.Term
            /\ r = IF m.from = n THEN [m EXCEPT !.open = FALSE] ELSE m
      BY <1>5
    <3>2. PICK k \in VoteRequests :
            /\ q.from = k.from /\ q.to = k.to /\ q.Term = k.Term
            /\ q = IF k.from = n THEN [k EXCEPT !.open = FALSE] ELSE k
      BY <1>5
    <3>3. m = k
      BY <3>1, <3>2 DEF ElectionInv, RequestsOK, RequestsUnique
    <3> QED
      BY <3>1, <3>2, <3>3
  <2>3. RequestsUnanswered'
    <3> SUFFICES ASSUME NEW r \in VoteRequests'
                 PROVE  <<r.to, r.Term, r.from>> \notin ballots
      BY <1>1 DEF RequestsUnanswered
    <3>1. PICK m \in VoteRequests : r.from = m.from /\ r.to = m.to /\ r.Term = m.Term
      BY <1>5
    <3> QED
      BY <3>1 DEF ElectionInv, RequestsOK, RequestsUnanswered
  <2> QED
    BY <2>1, <2>2, <2>3 DEF RequestsOK
<1>7. Quiet
  BY <1>1, <1>2, <1>3, <1>4 DEF Quiet
<1> QED
  BY <1>6, <1>7, QuietStep

\* What a crash finds in the persister is the term and the vote of the server.
LEMMA RestartElection ==
  ASSUME Inv, ElectionTypes, ElectionTypes', ElectionInv, TermStep, NEW n \in Server, Restart(n)
  PROVE  ElectionInv'
<1>1. NetInv /\ raftstate[n] = RaftState(n)
  BY DEF Inv, RaftInv, LocalInv, StableStateCurrent
<1>2. raftstate[n].votedFor = votedFor[n]
  BY <1>1 DEF RaftState
<1>3. Make(n, raftstate[n], {}) /\ cleared' = cleared
  BY DEF Restart
<1> QED
  BY <1>1, <1>2, <1>3, MakeElection

\* A crash between two persists: the term is new, or the vote that is gone is recorded.
LEMMA CrashInHandlerElection ==
  ASSUME Inv, ElectionTypes, ElectionTypes', ElectionInv, TermStep,
         NEW m \in requests, CrashInHandler(m)
  PROVE  ElectionInv'
<1>1. NetInv /\ m.to \in Server /\ m.Term \in Nat
  BY RequestFields DEF Inv, RaftInv, NetInv
<1>2. raftstate[m.to] \in StableState
  BY <1>1 DEF Inv, RaftInv, LocalInv, StableTypeOK
<1>3. FirstPersist(m).currentTerm = m.Term
  BY <1>2 DEF FirstPersist, StableState
<1>4. /\ Make(m.to, FirstPersist(m), {m}) /\ cleared \subseteq cleared'
      /\ m.Term = currentTerm[m.to] => <<m.to, currentTerm[m.to]>> \in cleared'
  <2>1. CASE RestartInRequestVote(m)
    BY <1>1, <2>1 DEF RestartInRequestVote, ElectionTypes
  <2>2. CASE RestartInInstallSnapShot(m)
    BY <2>2 DEF RestartInInstallSnapShot
  <2> QED
    BY <2>1, <2>2 DEF CrashInHandler
<1> QED
  BY <1>1, <1>3, <1>4, MakeElection

-----------------------------------------------------------------------------
(* The cluster.                                                            *)

\* Before the first election there is nothing to remember.
LEMMA ElectionInitially == Init => ElectionInv
<1> SUFFICES ASSUME Init PROVE ElectionInv
  OBVIOUS
<1>1. /\ ballots = {} /\ requests = {} /\ replies = {}
      /\ \A n \in Server : state[n] = Follower
  BY DEF Init, RaftInit
<1>2. BallotsOK
  BY <1>1 DEF BallotsOK, BallotsPast, VotesRemembered, OneVote
<1>3. RequestsOK /\ RepliesOK
  BY <1>1 DEF RequestsOK, RequestsPast, RequestsUnique, RequestsUnanswered, RepliesOK,
     VoteRequests, VoteReplies
<1>4. CountersOK /\ LeaderHasMajority
  BY <1>1 DEF CountersOK, LeaderHasMajority, Follower, Candidate, Leader
<1> QED
  BY <1>2, <1>3, <1>4 DEF ElectionInv

\* Every step of the cluster keeps the invariant.
LEMMA ElectionNext == Inv /\ ElectionInv /\ [Next]_vars => ElectionInv'
<1> SUFFICES ASSUME Inv, ElectionInv, [Next]_vars PROVE ElectionInv'
  OBVIOUS
<1>1. TermStep
  BY TermsRise
<1>2. ElectionTypes /\ ElectionTypes'
  <2>1. Inv'
    BY NextInv
  <2> QED
    BY <2>1, InvTypes, PTL
<1>3. \A m \in requests : m.from \in Server /\ m.to \in Server /\ m.Term \in Nat
  BY RequestFields DEF Inv, RaftInv, NetInv
<1>4. \A m \in replies : /\ m.to \in Server /\ m.Term \in Nat
                         /\ m.type = "RequestVoteReply" => m \in RequestVoteReplyMessage
  BY ReplyFields DEF Inv, RaftInv, NetInv
<1>5. CASE RequestVoteCall
  BY <1>1, <1>2, <1>5, RequestVoteElection DEF RequestVoteCall
<1>6. CASE AppendEntriesCall
  BY <1>1, <1>2, <1>3, <1>6, AppendEntriesElection DEF AppendEntriesCall
<1>7. CASE InstallSnapShotCall
  BY <1>1, <1>2, <1>3, <1>7, InstallSnapShotElection DEF InstallSnapShotCall
<1>8. CASE RequestVoteReturn
  BY <1>1, <1>2, <1>4, <1>8, CandidateRequestVoteElection DEF RequestVoteReturn
<1>9. CASE AppendEntriesReturn
  BY <1>1, <1>2, <1>4, <1>9, LeaderSendEntriesElection DEF AppendEntriesReturn
<1>10. CASE InstallSnapShotReturn
  BY <1>1, <1>2, <1>4, <1>10, SnapshotReplyElection DEF InstallSnapShotReturn
<1>11. CASE SendSnapShot
  <2>1. /\ UNCHANGED electionVars /\ ballots' = ballots /\ cleared' = cleared
        /\ replies' = replies
        /\ \A m \in requests' : m \in requests \/ m.type # "RequestVote"
    BY <1>11 DEF SendSnapShot, leaderSendSnapShot, InstallSnapshotArgs, historyVars
  <2> QED
    BY <1>1, <1>2, <2>1, SameElection, NoVoteStep
<1>12. CASE Apply
  <2>1. /\ UNCHANGED electionVars /\ ballots' = ballots /\ cleared' = cleared
        /\ replies' = replies /\ requests' = requests
    BY <1>12 DEF Apply, applier, historyVars, netVars
  <2> QED
    BY <1>1, <1>2, <2>1, SameElection, NoVoteStep
<1>13. CASE ServiceReceives
  <2>1. PICK n \in Server : \E msg \in applyCh[n] : Received(n, msg)
    BY <1>13 DEF ServiceReceives, applierSnap
  <2>2. PICK msg \in applyCh[n] : Received(n, msg)
    BY <2>1
  <2>3. msg.type = "snapshot" => msg.reply \subseteq InstallSnapShotReplyMessage
    <3>1. GoodApply(msg)
      BY DEF Inv, RaftInv, NetInv
    <3> QED
      BY <3>1 DEF GoodApply, CommandMessage, SnapshotMessage
  <2>4. /\ UNCHANGED electionVars /\ ballots' = ballots /\ cleared' = cleared
        /\ requests' = requests
        /\ replies' = IF msg.type = "snapshot" THEN replies \cup msg.reply ELSE replies
    BY <2>2 DEF Received, historyVars
  <2>5. \A m \in replies' : m \in replies \/ m.type # "RequestVoteReply"
    BY <2>3, <2>4 DEF InstallSnapShotReplyMessage
  <2> QED
    BY <1>1, <1>2, <2>4, <2>5, SameElection, NoVoteStep
<1>14. CASE ServiceSnapshots
  <2>1. /\ UNCHANGED electionVars /\ ballots' = ballots /\ cleared' = cleared
        /\ replies' = replies /\ requests' = requests
    BY <1>14 DEF ServiceSnapshots, SnapshotCall, Snapshot, SnapshotIgnored, SnapshotPanics,
       SnapshotTaken, raftVars, historyVars, netVars
  <2> QED
    BY <1>1, <1>2, <2>1, SameElection, NoVoteStep
<1>15. ASSUME NEW n \in Server, Tick(n) PROVE ElectionInv'
  <2>1. /\ UNCHANGED electionVars /\ ballots' = ballots /\ cleared' = cleared
        /\ replies' = replies /\ appendEntries(n, TRUE)
    BY <1>15 DEF Tick, Heartbeat, historyVars
  <2>2. \A m \in requests' : m \in requests \/ m.type # "RequestVote"
    BY <2>1, AppendsAsked DEF VoteRequests
  <2> QED
    BY <1>1, <1>2, <2>1, <2>2, SameElection, NoVoteStep
<1>16. ASSUME NEW n \in Server, Timeout(n) PROVE ElectionInv'
  BY <1>1, <1>2, <1>16, ElectionStarted DEF Timeout
<1>17. ASSUME NEW n \in Server, NEW command \in Command, ClientStart(n, command)
       PROVE  ElectionInv'
  <2>1. /\ UNCHANGED electionVars /\ ballots' = ballots /\ cleared' = cleared
        /\ replies' = replies /\ appendEntries(n, FALSE)
    BY <1>17 DEF ClientStart, Start, historyVars
  <2>2. \A m \in requests' : m \in requests \/ m.type # "RequestVote"
    BY <2>1, AppendsAsked DEF VoteRequests
  <2> QED
    BY <1>1, <1>2, <2>1, <2>2, SameElection, NoVoteStep
<1>18. ASSUME NEW n \in Server, Crash(n) PROVE ElectionInv'
  BY <1>1, <1>2, <1>18, RestartElection DEF Crash
<1>19. ASSUME NEW m \in requests, CrashInHandler(m) PROVE ElectionInv'
  BY <1>1, <1>2, <1>19, CrashInHandlerElection
<1>20. CASE UNCHANGED vars
  BY <1>1, <1>2, <1>20, SameElection, NoVoteStep DEF vars, raftVars, historyVars, netVars
<1> QED
  BY <1>5, <1>6, <1>7, <1>8, <1>9, <1>10, <1>11, <1>12, <1>13, <1>14, <1>15, <1>16, <1>17,
     <1>18, <1>19, <1>20 DEF Next

\* Two majorities of ballots for one term have a voter in common.
LEMMA CommonVoter ==
  ASSUME NEW n, NEW p, NEW t,
         IsMajority(Cardinality(Voters(n, t))), IsMajority(Cardinality(Voters(p, t)))
  PROVE  \E q \in Server : <<q, t, n>> \in ballots /\ <<q, t, p>> \in ballots
<1>1. Voters(n, t) \subseteq Server /\ Voters(p, t) \subseteq Server
  BY DEF Voters
<1>2. /\ Cardinality(Voters(n, t)) \in Nat /\ Cardinality(Voters(p, t)) \in Nat
      /\ IsFiniteSet(Server) /\ Cardinality(Server) \in Nat
  BY <1>1, ServerAssumption, VotersFinite, FS_CardinalityType
<1>3. Cardinality(Voters(n, t)) + Cardinality(Voters(p, t)) > Cardinality(Server)
  BY <1>2 DEF IsMajority
<1>4. Voters(n, t) \cap Voters(p, t) # {}
  BY <1>1, <1>2, <1>3, FS_MajoritiesIntersect
<1> QED
  BY <1>4 DEF Voters

\* Two majorities for one term need a vote that was forgotten.
LEMMA RivalsNeedClearedVote ==
  ASSUME OneVote, NEW n \in Server, NEW p \in Server, NEW t \in Nat, n # p,
         IsMajority(Cardinality(Voters(n, t))), IsMajority(Cardinality(Voters(p, t)))
  PROVE  \E q \in Server : <<q, t>> \in cleared
<1>1. PICK q \in Server : <<q, t, n>> \in ballots /\ <<q, t, p>> \in ballots
  BY CommonVoter
<1> QED
  BY <1>1 DEF OneVote

\* The invariant gives the properties the runs check.
LEMMA ElectionInvImplies ==
  Inv /\ ElectionInv =>
    /\ VoteOnceUnlessCleared /\ VoteReplyDurable
    /\ LeaderHasMajority /\ ElectionSafetyUnlessVoteCleared
<1> SUFFICES ASSUME Inv, ElectionInv
             PROVE  /\ VoteOnceUnlessCleared /\ VoteReplyDurable
                    /\ LeaderHasMajority /\ ElectionSafetyUnlessVoteCleared
  OBVIOUS
<1>1. ElectionTypes
  BY InvTypes
<1>2. VoteOnceUnlessCleared
  <2> SUFFICES ASSUME NEW b \in ballots, NEW c \in ballots, b[1] = c[1], b[2] = c[2], b[3] # c[3]
               PROVE  <<b[1], b[2]>> \in cleared
    BY DEF VoteOnceUnlessCleared
  <2>1. b \in Server \X Nat \X Server /\ c \in Server \X Nat \X Server
    BY <1>1 DEF ElectionTypes
  <2>2. /\ b = <<b[1], b[2], b[3]>> /\ b[1] \in Server /\ b[2] \in Nat /\ b[3] \in Server
        /\ c = <<c[1], c[2], c[3]>> /\ c[3] \in Server
    BY <2>1
  <2>3. <<b[1], b[2], b[3]>> \in ballots /\ <<b[1], b[2], c[3]>> \in ballots
    BY <2>2
  <2> QED
    BY <2>2, <2>3 DEF ElectionInv, BallotsOK, OneVote
<1>3. VoteReplyDurable
  <2> SUFFICES ASSUME NEW m \in VoteReplies
               PROVE  \/ raftstate[m.from].currentTerm > m.Term
                      \/ raftstate[m.from].currentTerm = m.Term
                           /\ raftstate[m.from].votedFor = m.to
                      \/ <<m.from, m.Term>> \in cleared
    <3>1. \A m \in replies : m.type = "RequestVoteReply" => m.VoteGranted \in BOOLEAN
      BY ReplyFields DEF Inv, RaftInv, NetInv, RequestVoteReplyMessage
    <3> QED
      BY <3>1 DEF VoteReplyDurable, VoteReplies
  <2>1. /\ m.from \in Server /\ m.to \in Server /\ m.Term \in Nat
        /\ <<m.from, m.Term, m.to>> \in ballots
    BY <1>1 DEF ElectionTypes, RequestVoteReplyMessage, ElectionInv, RepliesOK
  <2>2. /\ raftstate[m.from].currentTerm = currentTerm[m.from]
        /\ raftstate[m.from].votedFor = votedFor[m.from]
    <3>1. raftstate[m.from] = RaftState(m.from)
      BY <2>1 DEF Inv, RaftInv, LocalInv, StableStateCurrent
    <3> QED
      BY <3>1 DEF RaftState
  <2>3. m.Term <= currentTerm[m.from] /\ currentTerm[m.from] \in Nat
    BY <1>1, <2>1 DEF ElectionTypes, ElectionInv, BallotsOK, BallotsPast
  <2>4. CASE m.Term = currentTerm[m.from]
    <3>1. <<m.from, currentTerm[m.from], m.to>> \in ballots
      BY <2>1, <2>4
    <3>2. votedFor[m.from] = m.to \/ <<m.from, currentTerm[m.from]>> \in cleared
      BY <2>1, <3>1 DEF ElectionInv, BallotsOK, VotesRemembered
    <3> QED
      BY <2>2, <2>4, <3>2
  <2>5. CASE m.Term < currentTerm[m.from]
    BY <2>1, <2>2, <2>3, <2>5
  <2> QED
    BY <2>1, <2>3, <2>4, <2>5
<1>4. ElectionSafetyUnlessVoteCleared
  <2> SUFFICES ASSUME NEW n \in Server, NEW p \in Server, state[n] = Leader, state[p] = Leader,
                      currentTerm[n] = currentTerm[p], n # p
               PROVE  \E q \in Server : <<q, currentTerm[n]>> \in cleared
    BY DEF ElectionSafetyUnlessVoteCleared
  <2>1. /\ IsMajority(Cardinality(Voters(n, currentTerm[n])))
        /\ IsMajority(Cardinality(Voters(p, currentTerm[n])))
    BY DEF ElectionInv, LeaderHasMajority, Voters
  <2>2. currentTerm[n] \in Nat /\ OneVote
    BY <1>1 DEF ElectionTypes, ElectionInv, BallotsOK
  <2> QED
    BY <2>1, <2>2, RivalsNeedClearedVote
<1> QED
  BY <1>2, <1>3, <1>4 DEF ElectionInv

\* The votes behind counters, leaders and messages are there in every behaviour.
THEOREM ElectionInvariance == Spec => []ElectionInv
BY Invariance, NextInv, ElectionInitially, ElectionNext, PTL DEF Spec

\* A server votes for two candidates of one term only if InstallSnapShot, or
\* a reply to it, made it forget its vote in that term: no crash between the
\* two persists of RequestVote and no repeated request does.
THEOREM VotesOnceUnlessCleared == Spec => []VoteOnceUnlessCleared
BY Invariance, ElectionInvariance, ElectionInvImplies, PTL

\* A granted vote under way to its candidate is on the voter's disk, unless
\* the voter has gone on to a later term or was made to forget.
THEOREM VoteRepliesAreDurable == Spec => []VoteReplyDurable
BY Invariance, ElectionInvariance, ElectionInvImplies, PTL

\* candidateRequestVote counts replies, yet a leader has a majority of
\* distinct servers behind it, whatever replies were late, lost or of
\* earlier elections.
THEOREM LeadersHaveMajority == Spec => []LeaderHasMajority
BY Invariance, ElectionInvariance, ElectionInvImplies, PTL

\* Two servers lead one term only if some server was made to forget its vote
\* in that term: the clearing of votedFor in InstallSnapShot, and in the
\* reply to it, is the only way to it.
THEOREM ElectionsAreSafeUnlessVoteCleared == Spec => []ElectionSafetyUnlessVoteCleared
BY Invariance, ElectionInvariance, ElectionInvImplies, PTL

=============================================================================
