----------------------------- MODULE MCCluster -----------------------------
(***************************************************************************)
(* Cluster on small instances: the steps of the environment (timers,       *)
(* clients, crashes) have a budget per server, everything else is free.    *)
(***************************************************************************)
EXTENDS Cluster

CONSTANTS
  Links,           \* <<n, p>>: requests of n reach p (config.connect, disconnect)
  MaxElections,    \* times each server's election timer expires
  MaxHeartbeats,   \* ticks of each server as a leader
  MaxRestarts,     \* crashes of each server
  MaxStarts        \* commands given to Start, in the order of their numbers

VARIABLES elections, heartbeats, restarts, starts

budget == <<elections, heartbeats, restarts, starts>>
MCVars == <<vars, budget>>

MCCommand == 1..MaxStarts

\* Counts for the first, the second and the third server.
Per(first, second, third) == [n \in Server |-> <<first, second, third>>[n + 1]]
None0 == Per(0, 0, 0)
Each1 == Per(1, 1, 1)
First1 == Per(1, 0, 0)
First1Third2 == Per(1, 0, 2)
First2 == Per(2, 0, 0)
First1Second1 == Per(1, 1, 0)
First2Third2 == Per(2, 0, 2)

AllLinks == Server \X Server
FirstOut == {<<0, 1>>, <<2, 0>>}
Chain == {<<0, 1>>, <<1, 2>>}
IntoSecond == {<<0, 1>>, <<2, 1>>}

MCInit ==
  /\ Init
  /\ elections = None0 /\ heartbeats = None0 /\ restarts = None0
  /\ starts = 0

\* Requests go over the links there are.
Connected == \A m \in requests \ requests' : <<m.from, m.to>> \in Links

Free == Connected /\ UNCHANGED budget

BoundedTimeout(n) ==
  /\ elections[n] < MaxElections[n]
  /\ elections' = [elections EXCEPT ![n] = @ + 1]
  /\ Timeout(n)
  /\ UNCHANGED <<heartbeats, restarts, starts>>

BoundedTick(n) ==
  /\ heartbeats[n] < MaxHeartbeats[n]
  /\ heartbeats' = [heartbeats EXCEPT ![n] = @ + 1]
  /\ Tick(n)
  /\ UNCHANGED <<elections, restarts, starts>>

BoundedStart(n) ==
  /\ starts < MaxStarts
  /\ starts' = starts + 1
  /\ ClientStart(n, starts + 1)
  /\ UNCHANGED <<elections, heartbeats, restarts>>

BoundedRestart(n) ==
  /\ restarts[n] < MaxRestarts[n]
  /\ restarts' = [restarts EXCEPT ![n] = @ + 1]
  /\ UNCHANGED <<elections, heartbeats, starts>>

MCNext ==
  \/ RequestVoteCall /\ Free
  \/ AppendEntriesCall /\ Free
  \/ InstallSnapShotCall /\ Free
  \/ RequestVoteReturn /\ UNCHANGED budget
  \/ AppendEntriesReturn /\ UNCHANGED budget
  \/ InstallSnapShotReturn /\ UNCHANGED budget
  \/ SendSnapShot /\ UNCHANGED budget
  \/ Apply /\ UNCHANGED budget
  \/ ServiceReceives /\ UNCHANGED budget
  \/ ServiceSnapshots /\ UNCHANGED budget
  \/ \E n \in Server : BoundedTimeout(n)
  \/ \E n \in Server : BoundedTick(n)
  \/ \E n \in Server : BoundedStart(n)
  \/ \E n \in Server : Crash(n) /\ BoundedRestart(n)
  \/ \E m \in requests : CrashInHandler(m) /\ Connected /\ BoundedRestart(m.to)

MCSpec == MCInit /\ [][MCNext]_MCVars
=============================================================================
