--------------------------- MODULE ServiceProofs ---------------------------
(***************************************************************************)
(* The order in which the tester's service sees what its peer applies.     *)
(* Nothing in the peer keeps a command that the applier sends behind the   *)
(* snapshot that InstallSnapShot sends, and a crash loses a snapshot that  *)
(* the service has not taken: the run ApplyOrder has the gap that follows. *)
(* The first theorem says that there is no third way to one, the second    *)
(* what every gap looks like to the service that meets it.                 *)
(***************************************************************************)
EXTENDS ClusterProofs

\* A snapshot on its way to the service is the last thing that the peer
\* counts as applied: the applier has not gone on, or ahead of it.
SnapshotNext ==
  \A n \in Server : \A msg \in applyCh[n] :
    msg.type = "snapshot" => msg.Index = lastApplied[n]

\* The service takes a snapshot that is on its way, or another one is there
\* still: no crash comes in between.
SnapshotKept ==
  \A n \in Server : \A msg \in applyCh[n] :
    msg.type = "snapshot" =>
      applied'[n] = msg.Index \/ \E later \in applyCh'[n] : later.type = "snapshot"

-----------------------------------------------------------------------------
(* The inductive invariant.                                                *)

\* The service of n has what it needs to take index i + 1.
Held(n, i) == i = 0 \/ i \in DOMAIN logs[n]

AppliedHeld(n) == Held(n, applied[n]) /\ applied[n] <= lastApplied[n]

\* What the peer counts as applied has reached the service, or is on its way.
LastHeld(n) ==
  Held(n, lastApplied[n]) \/ \E msg \in applyCh[n] : msg.Index = lastApplied[n]

\* So has what a restart will count as applied.
PlaceHeld(n) ==
  Held(n, lastIncludeIndex[n]) \/ \E msg \in applyCh[n] : msg.type = "snapshot"

CallHeld(n) ==
  \A data \in snapCall[n] : Held(n, data.Index) /\ data.Index <= lastApplied[n]

\* A command on its way continues what the service has, or is none of its business.
MessageHeld(n, msg) ==
  /\ msg.type = "snapshot" => msg.Index <= lastIncludeIndex[n]
  /\ msg.type = "command" =>
       /\ msg.Index <= lastApplied[n]
       /\ Held(n, msg.Index - 1) \/ msg.Index <= applied[n]

MessagesHeld(n) == \A msg \in applyCh[n] : MessageHeld(n, msg)

ServiceInv(n) ==
  AppliedHeld(n) /\ LastHeld(n) /\ PlaceHeld(n) /\ CallHeld(n) /\ MessagesHeld(n)

GapInv == NoGapInApply /\ \A n \in Server : ServiceInv(n)

-----------------------------------------------------------------------------
(* What a step does to one service.                                        *)

\* What the invariant reads of a peer and its service.
Indexes(n) ==
  /\ lastApplied[n] \in Nat /\ lastIncludeIndex[n] \in Nat /\ applied[n] \in Nat
  /\ lastIncludeIndex[n] <= lastApplied[n]
  /\ \A msg \in applyCh[n] : msg.Index \in Nat /\ msg.type \in {"command", "snapshot"}

IndexesOK == \A n \in Server : Indexes(n)

\* They are natural numbers, and a snapshot covers only what counts as applied.
LEMMA IndexesTyped == Inv => IndexesOK
<1> SUFFICES ASSUME Inv, NEW n \in Server PROVE Indexes(n)
  BY DEF IndexesOK
<1>1. /\ lastApplied[n] \in Nat /\ lastIncludeIndex[n] \in Nat /\ applied[n] \in Nat
      /\ lastIncludeIndex[n] <= lastApplied[n]
  BY DEF Inv, RaftInv, LocalInv, LocalTypeOK, SnapshotIndexes, ServiceTypeOK
<1>2. ASSUME NEW msg \in applyCh[n]
      PROVE  msg.Index \in Nat /\ msg.type \in {"command", "snapshot"}
  BY DEF Inv, RaftInv, NetInv, GoodApply, CommandMessage, SnapshotMessage
<1> QED
  BY <1>1, <1>2 DEF Indexes

\* The service of n and what is on its way to it, but for who waits for a reply.
SameMessages(n) ==
  /\ \A r \in applyCh'[n] : \E msg \in applyCh[n] : r.type = msg.type /\ r.Index = msg.Index
  /\ \A msg \in applyCh[n] : \E r \in applyCh'[n] : r.type = msg.type /\ r.Index = msg.Index

Untouched(n) ==
  /\ lastApplied'[n] = lastApplied[n] /\ lastIncludeIndex'[n] = lastIncludeIndex[n]
  /\ logs'[n] = logs[n] /\ applied'[n] = applied[n] /\ snapCall'[n] = snapCall[n]
  /\ SameMessages(n)

\* A step that does not concern them keeps the invariant.
LEMMA UntouchedKept ==
  ASSUME NEW n \in Server, ServiceInv(n), Untouched(n)
  PROVE  ServiceInv(n)'
<1>1. \A i : Held(n, i)' <=> Held(n, i)
  BY DEF Untouched, Held
<1>2. AppliedHeld(n)' /\ CallHeld(n)'
  BY <1>1 DEF ServiceInv, AppliedHeld, CallHeld, Untouched
<1>3. LastHeld(n)' /\ PlaceHeld(n)'
  BY <1>1 DEF ServiceInv, LastHeld, PlaceHeld, Untouched, SameMessages
<1>4. MessagesHeld(n)'
  <2> SUFFICES ASSUME NEW r \in applyCh'[n] PROVE MessageHeld(n, r)'
    BY DEF MessagesHeld
  <2>1. PICK msg \in applyCh[n] : r.type = msg.type /\ r.Index = msg.Index
    BY DEF Untouched, SameMessages
  <2>2. MessageHeld(n, msg)
    BY DEF ServiceInv, MessagesHeld
  <2> QED
    BY <1>1, <2>1, <2>2 DEF MessageHeld, Untouched
<1> QED
  BY <1>2, <1>3, <1>4 DEF ServiceInv

\* A step that leaves the indexes, the channel and the service of every server alone.
Quiet ==
  UNCHANGED <<lastApplied, lastIncludeIndex, applyCh, logs, applied, snapCall>>

\* Such a step keeps the invariant of every service.
LEMMA QuietKept ==
  ASSUME GapInv, Quiet, NEW n \in Server
  PROVE  ServiceInv(n)'
BY UntouchedKept DEF Quiet, Untouched, SameMessages, GapInv

\* The applier offers the next command: the service has the one before it,
\* or that one is covered by a snapshot that is on its way, which SnapshotNext
\* rules out.
LEMMA ApplierKept ==
  ASSUME Inv, GapInv, SnapshotNext', PeerOnly, NEW n \in Server, applier(n), NEW p \in Server
  PROVE  ServiceInv(p)'
<1> DEFINE new == [type |-> "command", Index |-> lastApplied[n] + 1,
                   Command |-> restoreLog(n, lastApplied[n] + 1).Command]
<1>1. /\ \A msg \in applyCh[n] : msg.type # "command"
      /\ lastApplied' = [lastApplied EXCEPT ![n] = @ + 1]
      /\ applyCh' = [applyCh EXCEPT ![n] = @ \cup {new}]
      /\ lastIncludeIndex' = lastIncludeIndex
      /\ logs' = logs /\ applied' = applied /\ snapCall' = snapCall
  BY DEF applier, logVars, PeerOnly, serviceVars
<1>2. new.type = "command" /\ new.Index = lastApplied[n] + 1
  OBVIOUS
<1> HIDE DEF new
<1>3. /\ DOMAIN applyCh = Server /\ lastApplied \in [Server -> Nat]
      /\ Indexes(n) /\ ServiceInv(n) /\ ServiceInv(p)
  BY IndexesTyped DEF IndexesOK, Inv, RaftInv, LocalInv, NetInv, LocalTypeOK, GapInv
<1>4. CASE p # n
  BY <1>1, <1>3, <1>4, UntouchedKept DEF Untouched, SameMessages
<1>5. CASE p = n
  <2>1. /\ applyCh'[n] = applyCh[n] \cup {new} /\ lastApplied'[n] = lastApplied[n] + 1
        /\ lastApplied[n] \in Nat /\ applied[n] \in Nat
    BY <1>1, <1>3 DEF Indexes
  <2>2. \A i : Held(n, i)' <=> Held(n, i)
    BY <1>1 DEF Held
  <2>3. ~ \E msg \in applyCh[n] : msg.Index = lastApplied[n]
    <3> SUFFICES ASSUME NEW msg \in applyCh[n], msg.Index = lastApplied[n] PROVE FALSE
      OBVIOUS
    <3>1. msg.type = "snapshot"
      BY <1>1, <1>3 DEF Indexes
    <3>2. msg.Index = lastApplied'[n]
      BY <2>1, <3>1 DEF SnapshotNext
    <3> QED
      BY <2>1, <3>2
  <2>4. Held(n, lastApplied[n])
    BY <1>3, <2>3 DEF ServiceInv, LastHeld
  <2>5. AppliedHeld(n)' /\ LastHeld(n)' /\ PlaceHeld(n)'
    BY <1>1, <1>2, <1>3, <2>1, <2>2 DEF ServiceInv, AppliedHeld, LastHeld, PlaceHeld
  <2>6. CallHeld(n)'
    <3> SUFFICES ASSUME NEW data \in snapCall[n]
                 PROVE  Held(n, data.Index)' /\ data.Index <= lastApplied'[n]
      BY <1>1 DEF CallHeld
    <3>1. data.Index \in Nat
      BY DEF Inv, ServiceTypeOK, SnapshotData
    <3> QED
      BY <1>3, <2>1, <2>2, <3>1 DEF ServiceInv, CallHeld
  <2>7. ASSUME NEW msg \in applyCh'[n] PROVE MessageHeld(n, msg)'
    <3>1. CASE msg = new
      <4>1. msg.Index - 1 = lastApplied[n] /\ msg.Index <= lastApplied'[n]
        BY <1>2, <2>1, <3>1
      <4> QED
        BY <1>2, <2>2, <2>4, <3>1, <4>1 DEF MessageHeld
    <3>2. CASE msg \in applyCh[n]
      BY <1>1, <1>3, <2>1, <3>2 DEF ServiceInv, MessagesHeld, MessageHeld
    <3> QED
      BY <2>1, <3>1, <3>2
  <2> QED
    BY <1>5, <2>5, <2>6, <2>7 DEF ServiceInv, MessagesHeld
<1> QED
  BY <1>4, <1>5

\* The service takes a snapshot, which is the last thing its peer counts as
\* applied: the commands behind it are none of its business any more.
LEMMA InstallKept ==
  ASSUME Inv, GapInv, SnapshotNext, NEW n \in Server, NEW msg \in applyCh[n],
         Received(n, msg), InstallAtService(n, msg), snapCall[n] = {}
  PROVE  ServiceInv(n)'
<1>1. /\ msg.type = "snapshot" /\ msg.Index = lastApplied[n]
      /\ lastApplied'[n] = lastApplied[n] /\ lastIncludeIndex'[n] = lastIncludeIndex[n]
      /\ snapCall'[n] = {}
  BY DEF InstallAtService, SnapshotNext, Received, logVars
<1>2. /\ Indexes(n) /\ ServiceInv(n) /\ DOMAIN applyCh = Server
      /\ n \in DOMAIN logs /\ applied \in [Server -> Nat]
  BY IndexesTyped DEF IndexesOK, GapInv, Inv, RaftInv, NetInv, ServiceTypeOK
<1>3. applyCh'[n] = applyCh[n] \ {msg}
  BY <1>2 DEF Received
<1>4. /\ logs' = [logs EXCEPT ![n] = [i \in {msg.Index} |-> msg.Data.Command]]
      /\ applied'[n] = msg.Index
  BY <1>2 DEF InstallAtService, CondInstallSnapshot
<1>5. Held(n, msg.Index)'
  BY <1>2, <1>4 DEF Held
<1>6. lastIncludeIndex[n] = msg.Index
  BY <1>1, <1>2 DEF ServiceInv, MessagesHeld, MessageHeld, Indexes
<1>7. AppliedHeld(n)' /\ LastHeld(n)' /\ PlaceHeld(n)' /\ CallHeld(n)'
  BY <1>1, <1>2, <1>4, <1>5, <1>6 DEF AppliedHeld, LastHeld, PlaceHeld, CallHeld, Indexes
<1>8. ASSUME NEW later \in applyCh'[n] PROVE MessageHeld(n, later)'
  BY <1>1, <1>2, <1>3, <1>4, <1>8 DEF ServiceInv, MessagesHeld, MessageHeld
<1> QED
  BY <1>7, <1>8 DEF ServiceInv, MessagesHeld

\* The service takes a command that continues what it has.
LEMMA ApplyKept ==
  ASSUME Inv, GapInv, NEW n \in Server, NEW msg \in applyCh[n],
         Received(n, msg), ApplyAtService(n, msg)
  PROVE  ServiceInv(n)' /\ NoGapInApply'
<1>1. /\ msg.type = "command" /\ msg.Index > applied[n] /\ checkLogs(n, msg)
      /\ lastApplied'[n] = lastApplied[n] /\ lastIncludeIndex'[n] = lastIncludeIndex[n]
      /\ applied' = [applied EXCEPT ![n] = msg.Index]
      /\ snapCall' = [snapCall EXCEPT ![n] =
           IF (msg.Index + 1) % SnapShotInterval = 0 /\ failure' = NoFailure
           THEN {[Command |-> msg.Command, Index |-> msg.Index]}
           ELSE {}]
  BY DEF ApplyAtService, Received, logVars
<1>2. /\ Indexes(n) /\ ServiceInv(n) /\ DOMAIN applyCh = Server /\ n \in DOMAIN logs
      /\ applied \in [Server -> Nat] /\ DOMAIN snapCall = Server
  BY IndexesTyped DEF IndexesOK, GapInv, Inv, RaftInv, NetInv, ServiceTypeOK
<1>3. applyCh'[n] = applyCh[n] \ {msg}
  BY <1>2 DEF Received
<1>4. msg.Index \in Nat /\ applied[n] \in Nat /\ msg.Index <= lastApplied[n]
      /\ Held(n, msg.Index - 1)
  BY <1>1, <1>2 DEF Indexes, ServiceInv, MessagesHeld, MessageHeld
<1>5. DOMAIN logs'[n] = DOMAIN logs[n] \cup {msg.Index}
  BY <1>1, <1>2 DEF checkLogs
<1>6. NoGapInApply'
  <2>1. ~(msg.Index > 1 /\ msg.Index - 1 \notin DOMAIN logs[n])
    BY <1>4 DEF Held
  <2> QED
    BY <1>1, <2>1 DEF checkLogs, NoGapInApply, OutOfOrder, Mismatch, NoFailure
<1>7. Held(n, msg.Index)' /\ \A i : Held(n, i) => Held(n, i)'
  BY <1>5 DEF Held
<1>8. applied'[n] = msg.Index
  BY <1>1, <1>2
<1>9. AppliedHeld(n)'
  BY <1>1, <1>4, <1>7, <1>8 DEF AppliedHeld
<1>10. LastHeld(n)'
  BY <1>1, <1>2, <1>3, <1>7 DEF ServiceInv, LastHeld
<1>11. PlaceHeld(n)'
  BY <1>1, <1>2, <1>3, <1>7 DEF ServiceInv, PlaceHeld
<1>12. CallHeld(n)'
  <2>1. \A data \in snapCall'[n] : data.Index = msg.Index
    BY <1>1, <1>2
  <2> QED
    BY <1>1, <1>4, <1>7, <2>1 DEF CallHeld
<1>13. ASSUME NEW later \in applyCh'[n] PROVE MessageHeld(n, later)'
  <2>1. MessageHeld(n, later) /\ later.Index \in Nat
    BY <1>2, <1>3 DEF ServiceInv, MessagesHeld, Indexes
  <2> QED
    BY <1>1, <1>4, <1>7, <1>8, <2>1 DEF MessageHeld
<1> QED
  BY <1>6, <1>9, <1>10, <1>11, <1>12, <1>13 DEF ServiceInv, MessagesHeld

\* The service has the command already.
LEMMA IgnoreKept ==
  ASSUME Inv, GapInv, NEW n \in Server, NEW msg \in applyCh[n],
         Received(n, msg), IgnoreAtService(n, msg)
  PROVE  ServiceInv(n)'
<1>1. /\ msg.type = "command" /\ msg.Index <= applied[n]
      /\ lastApplied'[n] = lastApplied[n] /\ lastIncludeIndex'[n] = lastIncludeIndex[n]
      /\ logs' = logs /\ applied' = applied /\ snapCall' = snapCall
  BY DEF IgnoreAtService, Received, logVars, serviceVars
<1>2. Indexes(n) /\ ServiceInv(n) /\ DOMAIN applyCh = Server
  BY IndexesTyped DEF IndexesOK, GapInv, Inv, RaftInv, NetInv
<1>3. applyCh'[n] = applyCh[n] \ {msg}
  BY <1>2 DEF Received
<1>4. \A i : Held(n, i)' <=> Held(n, i)
  BY <1>1 DEF Held
<1>5. LastHeld(n)'
  <2>1. CASE msg.Index = lastApplied[n]
    <3>1. Held(n, lastApplied[n])
      BY <1>1, <1>2, <2>1 DEF Indexes, ServiceInv, AppliedHeld
    <3> QED
      BY <1>1, <1>4, <3>1 DEF LastHeld
  <2>2. CASE msg.Index # lastApplied[n]
    BY <1>1, <1>2, <1>3, <1>4, <2>2 DEF ServiceInv, LastHeld
  <2> QED
    BY <2>1, <2>2
<1>6. AppliedHeld(n)' /\ PlaceHeld(n)' /\ CallHeld(n)'
  BY <1>1, <1>2, <1>3, <1>4 DEF ServiceInv, AppliedHeld, PlaceHeld, CallHeld
<1>7. ASSUME NEW later \in applyCh'[n] PROVE MessageHeld(n, later)'
  BY <1>1, <1>2, <1>3, <1>4 DEF ServiceInv, MessagesHeld, MessageHeld
<1> QED
  BY <1>5, <1>6, <1>7 DEF ServiceInv, MessagesHeld

\* Any step of a service: the others are left alone.
LEMMA ReceivesKept ==
  ASSUME Inv, GapInv, SnapshotNext, NEW n \in Server, applierSnap(n)
  PROVE  GapInv'
<1> PICK msg \in applyCh[n] :
      /\ Received(n, msg)
      /\ InstallAtService(n, msg) \/ ApplyAtService(n, msg) \/ IgnoreAtService(n, msg)
  BY DEF applierSnap
<1>1. ServiceInv(n)' /\ NoGapInApply'
  <2>1. UNCHANGED failure => NoGapInApply'
    BY DEF GapInv, NoGapInApply
  <2> QED
    BY <2>1, InstallKept, ApplyKept, IgnoreKept
       DEF applierSnap, InstallAtService, IgnoreAtService, serviceVars
<1>2. ASSUME NEW p \in Server, p # n PROVE ServiceInv(p)'
  <2>1. /\ lastApplied' = lastApplied /\ lastIncludeIndex' = lastIncludeIndex
        /\ applyCh'[p] = applyCh[p]
    BY <1>2 DEF Received, logVars, Inv, RaftInv, NetInv
  <2>2. logs'[p] = logs[p] /\ applied'[p] = applied[p] /\ snapCall'[p] = snapCall[p]
    BY <1>2 DEF InstallAtService, CondInstallSnapshot, ApplyAtService, checkLogs,
       IgnoreAtService, serviceVars, Inv, ServiceTypeOK
  <2> QED
    BY <2>1, <2>2, UntouchedKept DEF Untouched, SameMessages, GapInv
<1> QED
  BY <1>1, <1>2 DEF GapInv

\* A snapshot is put on its way to the service.
LEMMA InstallNewKept ==
  ASSUME Inv, GapInv, PeerOnly, NEW m \in requests, m \in InstallSnapShotMessage, InstallNew(m),
         NEW p \in Server
  PROVE  ServiceInv(p)'
<1> DEFINE n == m.to
           index == m.LastIncludeIndex
           new == [type |-> "snapshot", Index |-> m.LastIncludeIndex, Term |-> m.LastIncludeTerm,
                   Data |-> m.Data,
                   reply |-> IF m.open THEN {InstallSnapshotReply(m, m.Term)} ELSE {}]
<1>1. n \in Server /\ index \in Nat
  BY DEF InstallSnapShotMessage
<1>2. /\ lastIncludeIndex[n] < index
      /\ lastIncludeIndex' = [lastIncludeIndex EXCEPT ![n] = index]
      /\ lastApplied' = [lastApplied EXCEPT ![n] = AtLeast(@, index)]
      /\ applyCh' = [applyCh EXCEPT ![n] = @ \cup {new}]
      /\ logs' = logs /\ applied' = applied /\ snapCall' = snapCall
  BY DEF InstallNew, PeerOnly, serviceVars
<1>3. new.type = "snapshot" /\ new.Index = index
  OBVIOUS
<1> HIDE DEF new, n, index
<1>4. /\ DOMAIN applyCh = Server /\ lastApplied \in [Server -> Nat]
      /\ lastIncludeIndex \in [Server -> Nat]
      /\ Indexes(n) /\ ServiceInv(n) /\ ServiceInv(p)
  BY <1>1, IndexesTyped DEF IndexesOK, Inv, RaftInv, LocalInv, NetInv, LocalTypeOK, GapInv
<1>5. CASE p # n
  BY <1>2, <1>4, <1>5, UntouchedKept DEF Untouched, SameMessages
<1>6. CASE p = n
  <2>1. /\ applyCh'[n] = applyCh[n] \cup {new} /\ lastIncludeIndex'[n] = index
        /\ lastApplied'[n] = lastApplied[n] \/ lastApplied'[n] = index
        /\ lastApplied'[n] >= lastApplied[n] /\ lastApplied'[n] \in Nat
    BY <1>1, <1>2, <1>4 DEF AtLeast
  <2>2. \A i : Held(n, i)' <=> Held(n, i)
    BY <1>2 DEF Held
  <2>3. AppliedHeld(n)'
    BY <1>2, <1>4, <2>1, <2>2 DEF ServiceInv, AppliedHeld, Indexes
  <2>4. LastHeld(n)'
    BY <1>3, <1>4, <2>1, <2>2 DEF ServiceInv, LastHeld
  <2>5. PlaceHeld(n)'
    BY <1>3, <2>1 DEF PlaceHeld
  <2>6. CallHeld(n)'
    <3> SUFFICES ASSUME NEW data \in snapCall[n]
                 PROVE  Held(n, data.Index)' /\ data.Index <= lastApplied'[n]
      BY <1>2 DEF CallHeld
    <3>1. data.Index \in Nat
      BY <1>1 DEF Inv, ServiceTypeOK, SnapshotData
    <3> QED
      BY <1>4, <2>1, <2>2, <3>1 DEF ServiceInv, CallHeld, Indexes
  <2>7. ASSUME NEW msg \in applyCh'[n] PROVE MessageHeld(n, msg)'
    <3>1. CASE msg = new
      BY <1>1, <1>3, <2>1, <3>1 DEF MessageHeld
    <3>2. CASE msg \in applyCh[n]
      <4>1. MessageHeld(n, msg) /\ msg.Index \in Nat
        BY <1>4, <3>2 DEF ServiceInv, MessagesHeld, Indexes
      <4> QED
        BY <1>1, <1>2, <1>4, <2>1, <2>2, <4>1 DEF MessageHeld, Indexes
    <3> QED
      BY <2>1, <3>1, <3>2
  <2> QED
    BY <1>6, <2>3, <2>4, <2>5, <2>6, <2>7 DEF ServiceInv, MessagesHeld
<1> QED
  BY <1>5, <1>6

\* A snapshot that the service itself takes is of a command it has.
LEMMA SnapshotTakenKept ==
  ASSUME Inv, GapInv, NEW n \in Server, NEW data \in snapCall[n],
         SnapshotTaken(n, data.Index, data),
         snapCall' = [snapCall EXCEPT ![n] = {}], UNCHANGED <<logs, applied>>,
         NEW p \in Server
  PROVE  ServiceInv(p)'
<1> DEFINE index == data.Index
<1>1. /\ lastIncludeIndex[n] < index
      /\ lastIncludeIndex' = [lastIncludeIndex EXCEPT ![n] = index]
      /\ lastApplied' = [lastApplied EXCEPT ![n] = AtLeast(@, index)]
      /\ applyCh' = applyCh
  BY DEF SnapshotTaken
<1>2. index \in Nat /\ Held(n, index) /\ index <= lastApplied[n]
  BY DEF Inv, ServiceTypeOK, SnapshotData, GapInv, ServiceInv, CallHeld
<1> HIDE DEF index
<1>3. /\ lastApplied \in [Server -> Nat] /\ lastIncludeIndex \in [Server -> Nat]
      /\ DOMAIN snapCall = Server /\ Indexes(n) /\ ServiceInv(n) /\ ServiceInv(p)
  BY IndexesTyped DEF IndexesOK, Inv, RaftInv, LocalInv, LocalTypeOK, ServiceTypeOK, GapInv
<1>4. CASE p # n
  BY <1>1, <1>3, <1>4, UntouchedKept DEF Untouched, SameMessages
<1>5. CASE p = n
  <2>1. lastApplied'[n] = lastApplied[n] /\ lastIncludeIndex'[n] = index /\ snapCall'[n] = {}
    BY <1>1, <1>2, <1>3 DEF AtLeast
  <2>2. \A i : Held(n, i)' <=> Held(n, i)
    BY DEF Held
  <2>3. AppliedHeld(n)' /\ LastHeld(n)' /\ PlaceHeld(n)' /\ CallHeld(n)'
    BY <1>1, <1>2, <1>3, <2>1, <2>2
       DEF ServiceInv, AppliedHeld, LastHeld, PlaceHeld, CallHeld
  <2>4. ASSUME NEW msg \in applyCh'[n] PROVE MessageHeld(n, msg)'
    <3>1. MessageHeld(n, msg) /\ msg.Index \in Nat
      BY <1>1, <1>3 DEF ServiceInv, MessagesHeld, Indexes
    <3> QED
      BY <1>1, <1>2, <1>3, <2>1, <2>2, <3>1 DEF MessageHeld, Indexes
  <2> QED
    BY <1>5, <2>3, <2>4 DEF ServiceInv, MessagesHeld
<1> QED
  BY <1>4, <1>5

\* A restarted peer counts as applied what its snapshot covers, and the
\* service has it: no snapshot was lost on its way.
LEMMA MakeKept ==
  ASSUME Inv, GapInv, SnapshotNext, SnapshotKept, NEW n \in Server, NEW stable, NEW lost,
         Make(n, stable, lost), Restarted(n),
         stable.lastIncludeIndex = raftstate[n].lastIncludeIndex, NEW p \in Server
  PROVE  ServiceInv(p)'
<1>1. /\ lastApplied \in [Server -> Nat] /\ lastIncludeIndex \in [Server -> Nat]
      /\ applied \in [Server -> Nat] /\ DOMAIN snapCall = Server
      /\ DOMAIN applyCh = Server /\ Indexes(n) /\ ServiceInv(n) /\ ServiceInv(p)
  BY IndexesTyped DEF IndexesOK, Inv, RaftInv, LocalInv, NetInv, LocalTypeOK, ServiceTypeOK,
     GapInv
<1>0. stable.lastIncludeIndex = lastIncludeIndex[n]
  <2>1. raftstate[n] = RaftState(n)
    BY DEF Inv, RaftInv, LocalInv, StableStateCurrent
  <2> QED
    BY <2>1 DEF RaftState
<1>2. /\ lastApplied' = [lastApplied EXCEPT ![n] = lastIncludeIndex[n]]
      /\ lastIncludeIndex' = [lastIncludeIndex EXCEPT ![n] = lastIncludeIndex[n]]
      /\ applied' = [applied EXCEPT ![n] = 0] /\ snapCall' = [snapCall EXCEPT ![n] = {}]
      /\ logs' = logs /\ Disconnected(n, lost)
  BY <1>0 DEF Make, readPersist, Restarted
<1>3. CASE p # n
  <2>1. applyCh'[p] = {IF msg.type = "snapshot"
                       THEN [msg EXCEPT !.reply = {r \in @ : r.to # n}]
                       ELSE msg : msg \in applyCh[p]}
    BY <1>2, <1>3 DEF Disconnected
  <2>2. ASSUME NEW msg \in applyCh[p]
        PROVE  LET r == IF msg.type = "snapshot"
                        THEN [msg EXCEPT !.reply = {x \in @ : x.to # n}]
                        ELSE msg
               IN  r.type = msg.type /\ r.Index = msg.Index
    <3>1. GoodApply(msg)
      BY DEF Inv, RaftInv, NetInv
    <3> QED
      BY <3>1 DEF GoodApply, CommandMessage, SnapshotMessage
  <2>3. SameMessages(p)
    BY <2>1, <2>2 DEF SameMessages
  <2> QED
    BY <1>1, <1>2, <1>3, <2>3, UntouchedKept DEF Untouched
<1>4. CASE p = n
  <2>1. /\ lastApplied'[n] = lastIncludeIndex[n] /\ lastIncludeIndex'[n] = lastIncludeIndex[n]
        /\ applied'[n] = 0 /\ snapCall'[n] = {} /\ applyCh'[n] = {}
        /\ lastIncludeIndex[n] \in Nat
    BY <1>1, <1>2 DEF Disconnected
  <2>2. \A i : Held(n, i)' <=> Held(n, i)
    BY <1>2 DEF Held
  <2>3. Held(n, lastIncludeIndex[n])
    <3>1. ASSUME NEW msg \in applyCh[n], msg.type = "snapshot" PROVE lastIncludeIndex[n] = 0
      <4>1. msg.Index = 0 /\ msg.Index = lastApplied[n]
        BY <2>1, <3>1 DEF SnapshotNext, SnapshotKept
      <4> QED
        BY <1>1, <2>1, <4>1 DEF Indexes
    <3> QED
      BY <1>1, <3>1 DEF ServiceInv, PlaceHeld, Held
  <2> QED
    BY <1>4, <2>1, <2>2, <2>3
       DEF ServiceInv, AppliedHeld, LastHeld, PlaceHeld, CallHeld, MessagesHeld, Held
<1> QED
  BY <1>3, <1>4

-----------------------------------------------------------------------------
(* The theorem.                                                            *)

\* No service has taken anything at first, and nothing is on its way.
LEMMA GapInitially == Init => GapInv
BY DEF Init, RaftInit, GapInv, NoGapInApply, NoFailure, OutOfOrder, ServiceInv, AppliedHeld,
   LastHeld, PlaceHeld, CallHeld, MessagesHeld, Held

\* Every step that the theorem allows keeps the invariant.
LEMMA GapNext ==
  Inv /\ GapInv /\ SnapshotNext /\ SnapshotNext' /\ [Next]_vars /\ [SnapshotKept]_vars => GapInv'
<1> SUFFICES ASSUME Inv, GapInv, SnapshotNext, SnapshotNext', [Next]_vars, [SnapshotKept]_vars
             PROVE  GapInv'
  OBVIOUS
<1>1. UNCHANGED failure => NoGapInApply'
  BY DEF GapInv, NoGapInApply
<1>2. Quiet /\ UNCHANGED failure => GapInv'
  BY <1>1, QuietKept DEF GapInv
<1>3. PeerOnly => UNCHANGED <<failure, logs, applied, snapCall>>
  BY DEF PeerOnly, serviceVars
<1>4. PeerOnly /\ UNCHANGED <<lastApplied, lastIncludeIndex, applyCh>> => GapInv'
  BY <1>2, <1>3 DEF Quiet
<1>5. CASE RequestVoteCall
  BY <1>4, <1>5 DEF RequestVoteCall, RequestVote, RequestVoteStale, RequestVoteCurrent, logVars,
     applyVars
<1>6. CASE AppendEntriesCall
  BY <1>4, <1>6 DEF AppendEntriesCall, AppendEntries, AppendNewerTerm, AppendStale,
     AppendBehindSnapshot, AppendMissing, AppendConflict, AppendAccept, CurrentLeaderHeard,
     logVars, applyVars
<1>7. CASE InstallSnapShotCall
  <2>1. PICK m \in requests : m.type = "InstallSnapShot" /\ InstallSnapShot(m)
    BY <1>7 DEF InstallSnapShotCall
  <2>2. m \in InstallSnapShotMessage
    BY <2>1, RequestFields DEF Inv, RaftInv, NetInv
  <2>3. CASE InstallNew(m)
    BY <1>1, <1>3, <1>7, <2>2, <2>3, InstallNewKept DEF InstallSnapShotCall, GapInv
  <2>4. CASE InstallStale(m) \/ InstallOld(m)
    BY <1>4, <1>7, <2>4 DEF InstallSnapShotCall, InstallStale, InstallOld, logVars, applyVars
  <2> QED
    BY <2>1, <2>3, <2>4 DEF InstallSnapShot
<1>8. CASE RequestVoteReturn
  BY <1>4, <1>8 DEF RequestVoteReturn, candidateRequestVote, VoteNewerTerm, VoteIgnored,
     VoteCounted, BecomeLeader, logVars, applyVars
<1>9. CASE AppendEntriesReturn
  BY <1>4, <1>9 DEF AppendEntriesReturn, leaderSendEntries, AppendReplyNewerTerm,
     AppendReplyStale, AppendReplyCurrent, logVars, applyVars
<1>10. CASE InstallSnapShotReturn
  BY <1>4, <1>10 DEF InstallSnapShotReturn, SnapshotReply, SnapshotReplyStale,
     SnapshotReplyNewerTerm, SnapshotReplyCurrent, logVars, applyVars
<1>11. CASE SendSnapShot
  BY <1>4, <1>11 DEF SendSnapShot, leaderSendSnapShot, logVars, applyVars
<1>12. CASE Apply
  BY <1>1, <1>3, <1>12, ApplierKept DEF Apply, GapInv
<1>13. CASE ServiceReceives
  BY <1>13, ReceivesKept DEF ServiceReceives
<1>14. CASE ServiceSnapshots
  <2>1. PICK n \in Server : SnapshotCall(n)
    BY <1>14 DEF ServiceSnapshots
  <2>2. PICK data \in snapCall[n] :
          /\ snapCall' = [snapCall EXCEPT ![n] = {}]
          /\ UNCHANGED <<logs, applied>>
          /\ \/ Snapshot(n, data.Index, data) /\ UNCHANGED failure
             \/ SnapshotPanics(n, data.Index) /\ failure' = OutOfRange
    BY <2>1 DEF SnapshotCall
  <2>3. NoGapInApply'
    BY <1>1, <2>2 DEF NoGapInApply, OutOfRange, OutOfOrder
  <2>4. CASE SnapshotTaken(n, data.Index, data)
    BY <2>2, <2>3, <2>4, SnapshotTakenKept DEF GapInv
  <2>5. CASE UNCHANGED raftVars
    <3>1. UNCHANGED <<lastApplied, lastIncludeIndex, applyCh, logs, applied>>
      BY <2>2, <2>5 DEF raftVars, logVars, applyVars
    <3>2. ASSUME NEW p \in Server PROVE ServiceInv(p)'
      <4>1. ServiceInv(p) /\ snapCall'[p] \subseteq snapCall[p]
        BY <2>2 DEF GapInv, Inv, ServiceTypeOK
      <4> QED
        BY <3>1, <4>1 DEF ServiceInv, AppliedHeld, LastHeld, PlaceHeld, CallHeld, MessagesHeld,
           MessageHeld, Held
    <3> QED
      BY <2>3, <3>2 DEF GapInv
  <2> QED
    BY <2>2, <2>4, <2>5 DEF Snapshot, SnapshotIgnored, SnapshotPanics
<1>15. ASSUME NEW n \in Server, Tick(n) PROVE GapInv'
  BY <1>4, <1>15 DEF Tick, Heartbeat, logVars, applyVars
<1>16. ASSUME NEW n \in Server, Timeout(n) PROVE GapInv'
  BY <1>4, <1>16 DEF Timeout, leaderElection, logVars, applyVars
<1>17. ASSUME NEW n \in Server, NEW command \in Command, ClientStart(n, command) PROVE GapInv'
  BY <1>4, <1>17 DEF ClientStart, Start, applyVars
<1>18. ASSUME NEW n \in Server, NEW stable, NEW lost, Make(n, stable, lost), Restarted(n),
              stable.lastIncludeIndex = raftstate[n].lastIncludeIndex
       PROVE  GapInv'
  <2>1. UNCHANGED failure
    BY <1>18 DEF Restarted
  <2>2. CASE SnapshotKept
    BY <1>1, <1>18, <2>1, <2>2, MakeKept DEF GapInv
  <2>3. CASE UNCHANGED vars
    BY <1>2, <2>3 DEF Quiet, vars, raftVars, serviceVars, logVars, applyVars
  <2> QED
    BY <2>2, <2>3
<1>19. ASSUME NEW n \in Server, Crash(n) PROVE GapInv'
  BY <1>18, <1>19 DEF Crash, Restart
<1>20. ASSUME NEW m \in requests, CrashInHandler(m) PROVE GapInv'
  <2>1. m.to \in Server
    BY RequestFields DEF Inv, RaftInv, NetInv
  <2>2. Make(m.to, FirstPersist(m), {m}) /\ Restarted(m.to)
    BY <1>20 DEF CrashInHandler, RestartInRequestVote, RestartInInstallSnapShot
  <2>3. FirstPersist(m).lastIncludeIndex = raftstate[m.to].lastIncludeIndex
    BY <2>1 DEF FirstPersist, Inv, RaftInv, LocalInv, StableTypeOK, StableState
  <2> QED
    BY <1>18, <2>1, <2>2, <2>3
<1>21. CASE UNCHANGED vars
  BY <1>2, <1>21 DEF Quiet, vars, raftVars, serviceVars, logVars, applyVars
<1> QED
  BY <1>5, <1>6, <1>7, <1>8, <1>9, <1>10, <1>11, <1>12, <1>13, <1>14, <1>15, <1>16, <1>17, <1>19,
     <1>20, <1>21 DEF Next

\* The tester never sees an index before the one that precedes it, across
\* restarts of the peer and its service, as long as a snapshot that
\* InstallSnapShot sends is the last thing its peer counts as applied until the
\* service takes it, and no crash comes before that.
THEOREM GapsNeedASnapshot ==
  Spec /\ []SnapshotNext /\ [][SnapshotKept]_vars => []NoGapInApply
<1>1. GapInv => NoGapInApply
  BY DEF GapInv
<1> QED
  BY <1>1, GapInitially, GapNext, Invariance, PTL DEF Spec

-----------------------------------------------------------------------------
(* What every gap looks like.  The invariant makes no assumption on crashes *)
(* or on the order on applyCh, and holds until the tester ends the process. *)

\* A snapshot is only taken of what the service has gone through.
CallApplied(n) == \A data \in snapCall[n] : data.Index <= applied[n]

\* Above the peer's snapshot, the service has left out no index.
Contiguous(n) ==
  \A last \in DOMAIN logs[n] : \A i \in lastIncludeIndex[n]..last : Held(n, i)

\* A command on its way is the last that the peer counts as applied, unless
\* the peer has jumped to a snapshot since.
OnItsWay(n, msg) ==
  /\ msg.type = "snapshot" => 0 < msg.Index /\ msg.Index <= lastIncludeIndex[n]
  /\ msg.type = "command" =>
       /\ msg.Index <= lastApplied[n]
       /\ msg.Index = lastApplied[n] \/ lastApplied[n] <= lastIncludeIndex[n]

AllOnTheirWay(n) == \A msg \in applyCh[n] : OnItsWay(n, msg)

\* The applier waits until the service has taken its command.
OneCommand(n) ==
  \A msg, other \in applyCh[n] :
    msg.type = "command" /\ other.type = "command" => msg.Index = other.Index

\* The service has what the peer counts as applied, or gets it next, and it
\* can take the command that is on its way.
LastComes(n) ==
  \/ Held(n, lastApplied[n])
  \/ \E msg \in applyCh[n] : msg.type = "command" /\ msg.Index = lastApplied[n]

CommandFits(n) ==
  \A msg \in applyCh[n] :
    msg.type = "command" => Held(n, msg.Index - 1) \/ msg.Index <= applied[n]

InStep(n) == LastComes(n) /\ CommandFits(n)

OrderInv(n) ==
  /\ AppliedHeld(n) /\ CallApplied(n) /\ Contiguous(n) /\ AllOnTheirWay(n) /\ OneCommand(n)
  /\ LagsSnapshot(n) \/ InStep(n)

LagInv == Running => \A n \in Server : OrderInv(n)

\* A step that does not concern a service does not disturb its invariant.
LEMMA UntouchedInOrder ==
  ASSUME NEW n \in Server, OrderInv(n), Untouched(n)
  PROVE  OrderInv(n)'
<1>1. \A i : Held(n, i)' <=> Held(n, i)
  BY DEF Untouched, Held
<1>2. AppliedHeld(n)' /\ CallApplied(n)' /\ Contiguous(n)'
  BY <1>1 DEF OrderInv, AppliedHeld, CallApplied, Contiguous, Untouched
<1>3. AllOnTheirWay(n)'
  BY DEF OrderInv, AllOnTheirWay, OnItsWay, Untouched, SameMessages
<1>4. OneCommand(n)'
  BY DEF OrderInv, OneCommand, Untouched, SameMessages
<1>5. LagsSnapshot(n)' <=> LagsSnapshot(n)
  BY DEF LagsSnapshot, Untouched
<1>6. LastComes(n) => LastComes(n)'
  BY <1>1 DEF LastComes, Untouched, SameMessages
<1>7. CommandFits(n) => CommandFits(n)'
  BY <1>1 DEF CommandFits, Untouched, SameMessages
<1> QED
  BY <1>2, <1>3, <1>4, <1>5, <1>6, <1>7 DEF OrderInv, InStep

\* Nor does a step that leaves what they read of every server alone.
LEMMA QuietInOrder ==
  ASSUME \A n \in Server : OrderInv(n), Quiet, NEW n \in Server
  PROVE  OrderInv(n)'
BY UntouchedInOrder DEF Quiet, Untouched, SameMessages

\* The applier offers the next command when none is on its way: a service in
\* step has the one before it.
LEMMA ApplierInOrder ==
  ASSUME Inv, \A s \in Server : OrderInv(s), PeerOnly, NEW n \in Server, applier(n),
         NEW p \in Server
  PROVE  OrderInv(p)'
<1> DEFINE new == [type |-> "command", Index |-> lastApplied[n] + 1,
                   Command |-> restoreLog(n, lastApplied[n] + 1).Command]
<1>1. /\ \A msg \in applyCh[n] : msg.type # "command"
      /\ lastApplied' = [lastApplied EXCEPT ![n] = @ + 1]
      /\ applyCh' = [applyCh EXCEPT ![n] = @ \cup {new}]
      /\ lastIncludeIndex' = lastIncludeIndex
      /\ logs' = logs /\ applied' = applied /\ snapCall' = snapCall
  BY DEF applier, logVars, PeerOnly, serviceVars
<1>2. new.type = "command" /\ new.Index = lastApplied[n] + 1
  OBVIOUS
<1> HIDE DEF new
<1>3. /\ DOMAIN applyCh = Server /\ lastApplied \in [Server -> Nat]
      /\ Indexes(n) /\ OrderInv(n) /\ OrderInv(p)
  BY IndexesTyped DEF IndexesOK, Inv, RaftInv, LocalInv, NetInv, LocalTypeOK
<1>4. CASE p # n
  BY <1>1, <1>3, <1>4, UntouchedInOrder DEF Untouched, SameMessages
<1>5. CASE p = n
  <2>1. /\ applyCh'[n] = applyCh[n] \cup {new} /\ lastApplied'[n] = lastApplied[n] + 1
        /\ lastApplied[n] \in Nat /\ applied[n] \in Nat
    BY <1>1, <1>3 DEF Indexes
  <2>2. \A i : Held(n, i)' <=> Held(n, i)
    BY <1>1 DEF Held
  <2>3. AppliedHeld(n)' /\ CallApplied(n)' /\ Contiguous(n)'
    BY <1>1, <1>3, <2>1, <2>2 DEF OrderInv, AppliedHeld, CallApplied, Contiguous
  <2>4. AllOnTheirWay(n)'
    BY <1>1, <1>2, <1>3, <2>1 DEF OrderInv, AllOnTheirWay, OnItsWay
  <2>5. OneCommand(n)'
    BY <1>1, <1>2, <2>1 DEF OneCommand
  <2>6. LagsSnapshot(n)' <=> LagsSnapshot(n)
    BY <1>1 DEF LagsSnapshot
  <2>7. LastComes(n)'
    BY <1>2, <2>1 DEF LastComes
  <2>8. ASSUME InStep(n) PROVE CommandFits(n)'
    <3>1. Held(n, lastApplied[n])
      BY <1>1, <2>8 DEF InStep, LastComes
    <3>2. new.Index - 1 = lastApplied[n]
      BY <1>2, <2>1
    <3> QED
      BY <1>1, <2>1, <2>2, <3>1, <3>2 DEF CommandFits
  <2> QED
    BY <1>3, <1>5, <2>3, <2>4, <2>5, <2>6, <2>7, <2>8 DEF OrderInv, InStep
<1> QED
  BY <1>4, <1>5

\* The service takes a snapshot, and one index is all it has.
LEMMA InstallInOrder ==
  ASSUME Inv, NEW n \in Server, OrderInv(n), NEW msg \in applyCh[n],
         Received(n, msg), InstallAtService(n, msg), snapCall[n] = {}
  PROVE  OrderInv(n)'
<1>1. /\ msg.type = "snapshot"
      /\ lastApplied'[n] = lastApplied[n] /\ lastIncludeIndex'[n] = lastIncludeIndex[n]
      /\ snapCall'[n] = {}
  BY DEF InstallAtService, Received, logVars
<1>2. /\ Indexes(n) /\ DOMAIN applyCh = Server
      /\ n \in DOMAIN logs /\ applied \in [Server -> Nat]
  BY IndexesTyped DEF IndexesOK, Inv, RaftInv, NetInv, ServiceTypeOK
<1>3. applyCh'[n] = applyCh[n] \ {msg}
  BY <1>2 DEF Received
<1>4. /\ logs' = [logs EXCEPT ![n] = [i \in {msg.Index} |-> msg.Data.Command]]
      /\ applied'[n] = msg.Index
  BY <1>2 DEF InstallAtService, CondInstallSnapshot
<1>5. DOMAIN logs'[n] = {msg.Index}
  BY <1>2, <1>4
<1>6. 0 < msg.Index /\ msg.Index <= lastIncludeIndex[n] /\ msg.Index \in Nat
  BY <1>1, <1>2 DEF OrderInv, AllOnTheirWay, OnItsWay, Indexes
<1>7. AppliedHeld(n)' /\ CallApplied(n)'
  BY <1>1, <1>2, <1>4, <1>5, <1>6 DEF AppliedHeld, CallApplied, Held, Indexes
<1>8. Contiguous(n)'
  BY <1>1, <1>2, <1>5, <1>6 DEF Contiguous, Held, Indexes
<1>9. AllOnTheirWay(n)' /\ OneCommand(n)'
  BY <1>1, <1>3 DEF OrderInv, AllOnTheirWay, OnItsWay, OneCommand
<1>10. LagsSnapshot(n)'
  BY <1>1, <1>2, <1>4, <1>5, <1>6 DEF LagsSnapshot, Indexes
<1> QED
  BY <1>7, <1>8, <1>9, <1>10 DEF OrderInv

\* The service takes a command that continues what it has.  If its peer's
\* snapshot had not reached it, it has what the snapshot covers now.
LEMMA ApplyInOrder ==
  ASSUME Inv, NEW n \in Server, OrderInv(n), NEW msg \in applyCh[n],
         Received(n, msg), ApplyAtService(n, msg), failure' = NoFailure
  PROVE  OrderInv(n)'
<1>1. /\ msg.type = "command" /\ msg.Index > applied[n] /\ checkLogs(n, msg)
      /\ lastApplied'[n] = lastApplied[n] /\ lastIncludeIndex'[n] = lastIncludeIndex[n]
      /\ applied' = [applied EXCEPT ![n] = msg.Index]
      /\ snapCall' = [snapCall EXCEPT ![n] =
           IF (msg.Index + 1) % SnapShotInterval = 0 /\ failure' = NoFailure
           THEN {[Command |-> msg.Command, Index |-> msg.Index]}
           ELSE {}]
  BY DEF ApplyAtService, Received, logVars
<1>2. /\ Indexes(n) /\ DOMAIN applyCh = Server /\ n \in DOMAIN logs
      /\ DOMAIN logs[n] \subseteq Nat
      /\ applied \in [Server -> Nat] /\ DOMAIN snapCall = Server
  BY IndexesTyped DEF IndexesOK, Inv, RaftInv, NetInv, ServiceTypeOK
<1>3. applyCh'[n] = applyCh[n] \ {msg}
  BY <1>2 DEF Received
<1>4. /\ msg.Index \in Nat /\ applied[n] \in Nat /\ lastApplied[n] \in Nat
      /\ lastIncludeIndex[n] \in Nat /\ lastIncludeIndex[n] <= lastApplied[n]
      /\ msg.Index <= lastApplied[n]
      /\ msg.Index = lastApplied[n] \/ lastApplied[n] <= lastIncludeIndex[n]
  BY <1>1, <1>2 DEF Indexes, OrderInv, AllOnTheirWay, OnItsWay
<1>5. DOMAIN logs'[n] = DOMAIN logs[n] \cup {msg.Index}
  BY <1>1, <1>2 DEF checkLogs
<1>6. Held(n, msg.Index - 1)
  <2>1. ~(msg.Index > 1 /\ msg.Index - 1 \notin DOMAIN logs[n])
    BY <1>1 DEF checkLogs, OutOfOrder, NoFailure
  <2> QED
    BY <1>1, <1>4, <2>1 DEF Held
<1>7. Held(n, msg.Index)' /\ \A i : Held(n, i) => Held(n, i)'
  BY <1>5 DEF Held
<1>8. applied'[n] = msg.Index
  BY <1>1, <1>2
<1>9. AppliedHeld(n)'
  BY <1>1, <1>4, <1>7, <1>8 DEF AppliedHeld
<1>10. CallApplied(n)'
  <2>1. \A data \in snapCall'[n] : data.Index = msg.Index
    BY <1>1, <1>2
  <2> QED
    BY <1>4, <1>8, <2>1 DEF CallApplied
<1>11. Contiguous(n)'
  <2> SUFFICES ASSUME NEW last \in DOMAIN logs'[n], NEW i \in lastIncludeIndex[n]..last
               PROVE  Held(n, i)'
    BY <1>1 DEF Contiguous
  <2>1. CASE last \in DOMAIN logs[n]
    BY <1>7, <2>1 DEF OrderInv, Contiguous
  <2>2. CASE last = msg.Index
    <3>1. CASE i = msg.Index
      BY <1>7, <3>1
    <3>2. CASE i # msg.Index
      <4>1. i \in Nat /\ i <= msg.Index - 1 /\ i \in lastIncludeIndex[n]..(msg.Index - 1)
        BY <1>4, <2>2, <3>2
      <4>2. CASE msg.Index - 1 = 0
        <5>1. i = 0
          BY <1>4, <4>1, <4>2
        <5> QED
          BY <5>1 DEF Held
      <4>3. CASE msg.Index - 1 \in DOMAIN logs[n]
        BY <1>7, <4>1, <4>3 DEF OrderInv, Contiguous
      <4> QED
        BY <1>6, <4>2, <4>3 DEF Held
    <3> QED
      BY <3>1, <3>2
  <2> QED
    BY <1>5, <2>1, <2>2
<1>12. AllOnTheirWay(n)' /\ OneCommand(n)'
  BY <1>1, <1>3 DEF OrderInv, AllOnTheirWay, OnItsWay, OneCommand
<1>13. CommandFits(n)'
  <2> SUFFICES ASSUME NEW other \in applyCh'[n], other.type = "command"
               PROVE  other.Index <= applied'[n]
    BY DEF CommandFits
  <2>1. other.Index = msg.Index
    BY <1>1, <1>3 DEF OrderInv, OneCommand
  <2> QED
    BY <1>4, <1>8, <2>1
<1>14. ASSUME ~LagsSnapshot(n)' PROVE LastComes(n)'
  <2>1. CASE msg.Index = lastApplied[n]
    BY <1>1, <1>7, <2>1 DEF LastComes
  <2>2. CASE msg.Index # lastApplied[n]
    <3>1. lastApplied[n] = lastIncludeIndex[n]
      BY <1>4, <2>2
    <3>2. lastIncludeIndex[n] = 0 \/ lastIncludeIndex[n] \in DOMAIN logs'[n]
      BY <1>1, <1>4, <1>14 DEF LagsSnapshot
    <3> QED
      BY <1>1, <3>1, <3>2 DEF LastComes, Held
  <2> QED
    BY <2>1, <2>2
<1> QED
  BY <1>9, <1>10, <1>11, <1>12, <1>13, <1>14 DEF OrderInv, InStep

\* The service has the command already.
LEMMA IgnoreInOrder ==
  ASSUME Inv, NEW n \in Server, OrderInv(n), NEW msg \in applyCh[n],
         Received(n, msg), IgnoreAtService(n, msg)
  PROVE  OrderInv(n)'
<1>1. /\ msg.type = "command" /\ msg.Index <= applied[n]
      /\ lastApplied'[n] = lastApplied[n] /\ lastIncludeIndex'[n] = lastIncludeIndex[n]
      /\ logs' = logs /\ applied' = applied /\ snapCall' = snapCall
  BY DEF IgnoreAtService, Received, logVars, serviceVars
<1>2. Indexes(n) /\ DOMAIN applyCh = Server
  BY IndexesTyped DEF IndexesOK, Inv, RaftInv, NetInv
<1>3. applyCh'[n] = applyCh[n] \ {msg}
  BY <1>2 DEF Received
<1>4. \A i : Held(n, i)' <=> Held(n, i)
  BY <1>1 DEF Held
<1>5. AppliedHeld(n)' /\ CallApplied(n)' /\ Contiguous(n)'
  BY <1>1, <1>4 DEF OrderInv, AppliedHeld, CallApplied, Contiguous
<1>6. AllOnTheirWay(n)' /\ OneCommand(n)'
  BY <1>1, <1>3 DEF OrderInv, AllOnTheirWay, OnItsWay, OneCommand
<1>7. LagsSnapshot(n)' <=> LagsSnapshot(n)
  BY <1>1 DEF LagsSnapshot
<1>8. ASSUME InStep(n) PROVE InStep(n)'
  <2>1. CommandFits(n)'
    BY <1>1, <1>3, <1>4, <1>8 DEF InStep, CommandFits
  <2>2. CASE msg.Index = lastApplied[n]
    <3>1. Held(n, lastApplied[n])
      BY <1>1, <1>2, <2>2 DEF Indexes, OrderInv, AppliedHeld
    <3> QED
      BY <1>1, <1>4, <2>1, <3>1 DEF InStep, LastComes
  <2>3. CASE msg.Index # lastApplied[n]
    <3>1. LastComes(n)'
      BY <1>1, <1>3, <1>4, <1>8, <2>3 DEF InStep, LastComes
    <3> QED
      BY <2>1, <3>1 DEF InStep
  <2> QED
    BY <2>2, <2>3
<1> QED
  BY <1>5, <1>6, <1>7, <1>8 DEF OrderInv

\* Any step of a service that does not end the process.
LEMMA ReceivesInOrder ==
  ASSUME Inv, \A s \in Server : OrderInv(s), NEW n \in Server, applierSnap(n),
         failure' = NoFailure, NEW p \in Server
  PROVE  OrderInv(p)'
<1> PICK msg \in applyCh[n] :
      /\ Received(n, msg)
      /\ InstallAtService(n, msg) \/ ApplyAtService(n, msg) \/ IgnoreAtService(n, msg)
  BY DEF applierSnap
<1>1. OrderInv(n)'
  BY InstallInOrder, ApplyInOrder, IgnoreInOrder DEF applierSnap
<1>2. ASSUME p # n PROVE OrderInv(p)'
  <2>1. /\ lastApplied' = lastApplied /\ lastIncludeIndex' = lastIncludeIndex
        /\ applyCh'[p] = applyCh[p]
    BY <1>2 DEF Received, logVars, Inv, RaftInv, NetInv
  <2>2. logs'[p] = logs[p] /\ applied'[p] = applied[p] /\ snapCall'[p] = snapCall[p]
    BY <1>2 DEF InstallAtService, CondInstallSnapshot, ApplyAtService, checkLogs,
       IgnoreAtService, serviceVars, Inv, ServiceTypeOK
  <2> QED
    BY <2>1, <2>2, UntouchedInOrder DEF Untouched, SameMessages
<1> QED
  BY <1>1, <1>2

\* The peer jumps to a snapshot of its leader.  A service that lacked the
\* place of the snapshot before has nothing above it.
LEMMA InstallNewInOrder ==
  ASSUME Inv, \A s \in Server : OrderInv(s), PeerOnly, NEW m \in requests,
         m \in InstallSnapShotMessage, InstallNew(m), NEW p \in Server
  PROVE  OrderInv(p)'
<1> DEFINE n == m.to
           index == m.LastIncludeIndex
           new == [type |-> "snapshot", Index |-> m.LastIncludeIndex, Term |-> m.LastIncludeTerm,
                   Data |-> m.Data,
                   reply |-> IF m.open THEN {InstallSnapshotReply(m, m.Term)} ELSE {}]
<1>1. n \in Server /\ index \in Nat
  BY DEF InstallSnapShotMessage
<1>2. /\ lastIncludeIndex[n] < index
      /\ lastIncludeIndex' = [lastIncludeIndex EXCEPT ![n] = index]
      /\ lastApplied' = [lastApplied EXCEPT ![n] = AtLeast(@, index)]
      /\ applyCh' = [applyCh EXCEPT ![n] = @ \cup {new}]
      /\ logs' = logs /\ applied' = applied /\ snapCall' = snapCall
  BY DEF InstallNew, PeerOnly, serviceVars
<1>3. new.type = "snapshot" /\ new.Index = index
  OBVIOUS
<1> HIDE DEF new, n, index
<1>4. /\ DOMAIN applyCh = Server /\ lastApplied \in [Server -> Nat]
      /\ lastIncludeIndex \in [Server -> Nat]
      /\ Indexes(n) /\ OrderInv(n) /\ OrderInv(p)
  BY <1>1, IndexesTyped DEF IndexesOK, Inv, RaftInv, LocalInv, NetInv, LocalTypeOK
<1>5. CASE p # n
  BY <1>2, <1>4, <1>5, UntouchedInOrder DEF Untouched, SameMessages
<1>6. CASE p = n
  <2>1. /\ applyCh'[n] = applyCh[n] \cup {new} /\ lastIncludeIndex'[n] = index
        /\ \/ lastApplied'[n] = lastApplied[n] /\ index <= lastApplied[n]
           \/ lastApplied'[n] = index
        /\ lastApplied'[n] >= lastApplied[n] /\ lastApplied'[n] \in Nat
        /\ lastApplied[n] \in Nat /\ lastIncludeIndex[n] \in Nat /\ applied[n] \in Nat
        /\ lastIncludeIndex[n] < index
    BY <1>1, <1>2, <1>4 DEF AtLeast, Indexes
  <2>2. \A i : Held(n, i)' <=> Held(n, i)
    BY <1>2 DEF Held
  <2>3. AppliedHeld(n)' /\ CallApplied(n)'
    BY <1>2, <1>4, <2>1, <2>2 DEF OrderInv, AppliedHeld, CallApplied
  <2>4. Contiguous(n)'
    BY <1>1, <1>2, <1>4, <2>1, <2>2 DEF OrderInv, Contiguous
  <2>5. AllOnTheirWay(n)'
    <3> SUFFICES ASSUME NEW msg \in applyCh'[n] PROVE OnItsWay(n, msg)'
      BY DEF AllOnTheirWay
    <3>1. CASE msg = new
      BY <1>1, <1>3, <2>1, <3>1 DEF OnItsWay
    <3>2. CASE msg \in applyCh[n]
      <4>1. OnItsWay(n, msg) /\ msg.Index \in Nat
        BY <1>4, <3>2 DEF OrderInv, AllOnTheirWay, Indexes
      <4> QED
        BY <1>1, <2>1, <4>1 DEF OnItsWay
    <3> QED
      BY <2>1, <3>1, <3>2
  <2>6. OneCommand(n)'
    BY <1>3, <1>4, <2>1 DEF OrderInv, OneCommand
  <2>7. ASSUME ~LagsSnapshot(n)' PROVE InStep(n)'
    <3>1. index \in DOMAIN logs[n] /\ DOMAIN logs[n] # {applied[n]}
      BY <1>1, <1>2, <2>1, <2>7 DEF LagsSnapshot
    <3>2. Held(n, lastIncludeIndex[n])
      <4>1. lastIncludeIndex[n] \in lastIncludeIndex[n]..index
        BY <1>1, <2>1
      <4> QED
        BY <1>4, <3>1, <4>1 DEF OrderInv, Contiguous
    <3>3. InStep(n)
      BY <1>4, <2>1, <3>1, <3>2 DEF OrderInv, LagsSnapshot, Held
    <3>4. LastComes(n)'
      <4>1. CASE lastApplied'[n] = index
        BY <2>2, <3>1, <4>1 DEF LastComes, Held
      <4>2. CASE lastApplied'[n] = lastApplied[n]
        BY <2>1, <2>2, <3>3, <4>2 DEF InStep, LastComes
      <4> QED
        BY <2>1, <4>1, <4>2
    <3>5. CommandFits(n)'
      BY <1>2, <1>3, <2>1, <2>2, <3>3 DEF InStep, CommandFits
    <3> QED
      BY <3>4, <3>5 DEF InStep
  <2> QED
    BY <1>6, <2>3, <2>4, <2>5, <2>6, <2>7 DEF OrderInv
<1> QED
  BY <1>5, <1>6

\* The service's own snapshot is of an index it has gone through.
LEMMA SnapshotTakenInOrder ==
  ASSUME Inv, \A s \in Server : OrderInv(s), NEW n \in Server, NEW data \in snapCall[n],
         SnapshotTaken(n, data.Index, data),
         snapCall' = [snapCall EXCEPT ![n] = {}], UNCHANGED <<logs, applied>>,
         NEW p \in Server
  PROVE  OrderInv(p)'
<1> DEFINE index == data.Index
<1>1. /\ lastIncludeIndex[n] < index
      /\ lastIncludeIndex' = [lastIncludeIndex EXCEPT ![n] = index]
      /\ lastApplied' = [lastApplied EXCEPT ![n] = AtLeast(@, index)]
      /\ applyCh' = applyCh
  BY DEF SnapshotTaken
<1>2. index \in Nat /\ index <= applied[n] /\ applied[n] <= lastApplied[n]
  BY DEF Inv, ServiceTypeOK, SnapshotData, OrderInv, CallApplied, AppliedHeld
<1> HIDE DEF index
<1>3. /\ lastApplied \in [Server -> Nat] /\ lastIncludeIndex \in [Server -> Nat]
      /\ DOMAIN snapCall = Server /\ Indexes(n) /\ OrderInv(n) /\ OrderInv(p)
  BY IndexesTyped DEF IndexesOK, Inv, RaftInv, LocalInv, LocalTypeOK, ServiceTypeOK
<1>4. CASE p # n
  BY <1>1, <1>3, <1>4, UntouchedInOrder DEF Untouched, SameMessages
<1>5. CASE p = n
  <2>1. /\ lastApplied'[n] = lastApplied[n] /\ lastIncludeIndex'[n] = index
        /\ snapCall'[n] = {} /\ applyCh'[n] = applyCh[n]
        /\ lastApplied[n] \in Nat /\ lastIncludeIndex[n] \in Nat /\ applied[n] \in Nat
        /\ index <= lastApplied[n]
    BY <1>1, <1>2, <1>3 DEF AtLeast, Indexes
  <2>2. \A i : Held(n, i)' <=> Held(n, i)
    BY DEF Held
  <2>3. AppliedHeld(n)' /\ CallApplied(n)'
    BY <1>3, <2>1, <2>2 DEF OrderInv, AppliedHeld, CallApplied
  <2>4. Contiguous(n)'
    BY <1>1, <1>2, <1>3, <2>1, <2>2 DEF OrderInv, Contiguous
  <2>5. AllOnTheirWay(n)'
    <3> SUFFICES ASSUME NEW msg \in applyCh[n] PROVE OnItsWay(n, msg)'
      BY <2>1 DEF AllOnTheirWay
    <3>1. OnItsWay(n, msg) /\ msg.Index \in Nat
      BY <1>3 DEF OrderInv, AllOnTheirWay, Indexes
    <3> QED
      BY <1>1, <1>2, <2>1, <3>1 DEF OnItsWay
  <2>6. OneCommand(n)'
    BY <1>3, <2>1 DEF OrderInv, OneCommand
  <2>7. ASSUME ~LagsSnapshot(n)' PROVE InStep(n)'
    <3>1. index \in DOMAIN logs[n] /\ DOMAIN logs[n] # {applied[n]}
      BY <1>1, <1>2, <2>1, <2>7 DEF LagsSnapshot
    <3>2. Held(n, lastIncludeIndex[n])
      <4>1. lastIncludeIndex[n] \in lastIncludeIndex[n]..index
        BY <1>1, <1>2, <2>1
      <4> QED
        BY <1>3, <3>1, <4>1 DEF OrderInv, Contiguous
    <3>3. InStep(n)
      BY <1>3, <2>1, <3>1, <3>2 DEF OrderInv, LagsSnapshot, Held
    <3> QED
      BY <2>1, <2>2, <3>3 DEF InStep, LastComes, CommandFits
  <2> QED
    BY <1>5, <2>3, <2>4, <2>5, <2>6, <2>7 DEF OrderInv
<1> QED
  BY <1>4, <1>5

\* A restarted peer counts as applied what its snapshot covers, and its
\* service starts anew with what the tester has kept.
LEMMA MakeInOrder ==
  ASSUME Inv, \A s \in Server : OrderInv(s), NEW n \in Server, NEW stable, NEW lost,
         Make(n, stable, lost), Restarted(n),
         stable.lastIncludeIndex = raftstate[n].lastIncludeIndex, NEW p \in Server
  PROVE  OrderInv(p)'
<1>1. /\ lastApplied \in [Server -> Nat] /\ lastIncludeIndex \in [Server -> Nat]
      /\ applied \in [Server -> Nat] /\ DOMAIN snapCall = Server
      /\ DOMAIN applyCh = Server /\ Indexes(n) /\ OrderInv(n) /\ OrderInv(p)
  BY IndexesTyped DEF IndexesOK, Inv, RaftInv, LocalInv, NetInv, LocalTypeOK, ServiceTypeOK
<1>2. stable.lastIncludeIndex = lastIncludeIndex[n]
  <2>1. raftstate[n] = RaftState(n)
    BY DEF Inv, RaftInv, LocalInv, StableStateCurrent
  <2> QED
    BY <2>1 DEF RaftState
<1>3. /\ lastApplied' = [lastApplied EXCEPT ![n] = lastIncludeIndex[n]]
      /\ lastIncludeIndex' = [lastIncludeIndex EXCEPT ![n] = lastIncludeIndex[n]]
      /\ applied' = [applied EXCEPT ![n] = 0] /\ snapCall' = [snapCall EXCEPT ![n] = {}]
      /\ logs' = logs /\ Disconnected(n, lost)
  BY <1>2 DEF Make, readPersist, Restarted
<1>4. CASE p # n
  <2>1. applyCh'[p] = {IF msg.type = "snapshot"
                       THEN [msg EXCEPT !.reply = {r \in @ : r.to # n}]
                       ELSE msg : msg \in applyCh[p]}
    BY <1>3, <1>4 DEF Disconnected
  <2>2. ASSUME NEW msg \in applyCh[p]
        PROVE  LET r == IF msg.type = "snapshot"
                        THEN [msg EXCEPT !.reply = {x \in @ : x.to # n}]
                        ELSE msg
               IN  r.type = msg.type /\ r.Index = msg.Index
    <3>1. GoodApply(msg)
      BY DEF Inv, RaftInv, NetInv
    <3> QED
      BY <3>1 DEF GoodApply, CommandMessage, SnapshotMessage
  <2>3. SameMessages(p)
    BY <2>1, <2>2 DEF SameMessages
  <2> QED
    BY <1>1, <1>3, <1>4, <2>3, UntouchedInOrder DEF Untouched
<1>5. CASE p = n
  <2>1. /\ lastApplied'[n] = lastIncludeIndex[n] /\ lastIncludeIndex'[n] = lastIncludeIndex[n]
        /\ applied'[n] = 0 /\ snapCall'[n] = {} /\ applyCh'[n] = {}
        /\ logs'[n] = logs[n] /\ lastIncludeIndex[n] \in Nat
    BY <1>1, <1>3 DEF Disconnected
  <2>2. AppliedHeld(n)' /\ CallApplied(n)'
    BY <2>1 DEF AppliedHeld, CallApplied, Held
  <2>3. Contiguous(n)'
    BY <1>1, <2>1 DEF OrderInv, Contiguous, Held
  <2>4. AllOnTheirWay(n)' /\ OneCommand(n)' /\ CommandFits(n)'
    BY <2>1 DEF AllOnTheirWay, OneCommand, CommandFits
  <2>5. ~LagsSnapshot(n)' => LastComes(n)'
    BY <2>1 DEF LagsSnapshot, LastComes, Held
  <2> QED
    BY <1>5, <2>2, <2>3, <2>4, <2>5 DEF OrderInv, InStep
<1> QED
  BY <1>4, <1>5

-----------------------------------------------------------------------------
(* The second theorem.                                                     *)

\* Every service is in step at first.
LEMMA LagInitially == Init => LagInv
BY DEF Init, RaftInit, LagInv, OrderInv, AppliedHeld, CallApplied, Contiguous, AllOnTheirWay,
   OneCommand, InStep, LastComes, CommandFits, Held

\* Every step keeps the invariant, unless it ends the process.
LEMMA LagNext == Inv /\ LagInv /\ [Next]_vars => LagInv'
<1> SUFFICES ASSUME Inv, LagInv, [Next]_vars, Running', NEW p \in Server
             PROVE  OrderInv(p)'
  BY DEF LagInv
<1>1. CASE UNCHANGED vars
  <2>1. Quiet /\ \A s \in Server : OrderInv(s)
    BY <1>1 DEF Quiet, vars, raftVars, serviceVars, logVars, applyVars, LagInv, Running
  <2> QED
    BY <2>1, QuietInOrder
<1>2. CASE Next
  <2> USE <1>2
  <2>1. \A s \in Server : OrderInv(s)
    BY DEF Next, RequestVoteCall, AppendEntriesCall, InstallSnapShotCall, RequestVoteReturn,
       AppendEntriesReturn, InstallSnapShotReturn, SendSnapShot, Apply, ServiceReceives,
       ServiceSnapshots, Tick, Timeout, ClientStart, Crash, CrashInHandler, PeerOnly, LagInv
  <2>2. PeerOnly => UNCHANGED <<failure, logs, applied, snapCall>>
    BY DEF PeerOnly, serviceVars
  <2>3. PeerOnly /\ UNCHANGED <<lastApplied, lastIncludeIndex, applyCh>> => OrderInv(p)'
    BY <2>1, <2>2, QuietInOrder DEF Quiet
  <2>4. CASE RequestVoteCall
    BY <2>3, <2>4 DEF RequestVoteCall, RequestVote, RequestVoteStale, RequestVoteCurrent, logVars,
       applyVars
  <2>5. CASE AppendEntriesCall
    BY <2>3, <2>5 DEF AppendEntriesCall, AppendEntries, AppendNewerTerm, AppendStale,
       AppendBehindSnapshot, AppendMissing, AppendConflict, AppendAccept, CurrentLeaderHeard,
       logVars, applyVars
  <2>6. CASE InstallSnapShotCall
    <3>1. PICK m \in requests : m.type = "InstallSnapShot" /\ InstallSnapShot(m)
      BY <2>6 DEF InstallSnapShotCall
    <3>2. m \in InstallSnapShotMessage
      BY <3>1, RequestFields DEF Inv, RaftInv, NetInv
    <3>3. CASE InstallNew(m)
      BY <2>1, <2>6, <3>2, <3>3, InstallNewInOrder DEF InstallSnapShotCall
    <3>4. CASE InstallStale(m) \/ InstallOld(m)
      BY <2>3, <2>6, <3>4 DEF InstallSnapShotCall, InstallStale, InstallOld, logVars, applyVars
    <3> QED
      BY <3>1, <3>3, <3>4 DEF InstallSnapShot
  <2>7. CASE RequestVoteReturn
    BY <2>3, <2>7 DEF RequestVoteReturn, candidateRequestVote, VoteNewerTerm, VoteIgnored,
       VoteCounted, BecomeLeader, logVars, applyVars
  <2>8. CASE AppendEntriesReturn
    BY <2>3, <2>8 DEF AppendEntriesReturn, leaderSendEntries, AppendReplyNewerTerm,
       AppendReplyStale, AppendReplyCurrent, logVars, applyVars
  <2>9. CASE InstallSnapShotReturn
    BY <2>3, <2>9 DEF InstallSnapShotReturn, SnapshotReply, SnapshotReplyStale,
       SnapshotReplyNewerTerm, SnapshotReplyCurrent, logVars, applyVars
  <2>10. CASE SendSnapShot
    BY <2>3, <2>10 DEF SendSnapShot, leaderSendSnapShot, logVars, applyVars
  <2>11. CASE Apply
    BY <2>1, <2>11, ApplierInOrder DEF Apply
  <2>12. CASE ServiceReceives
    BY <2>1, <2>12, ReceivesInOrder DEF ServiceReceives, Running
  <2>13. CASE ServiceSnapshots
    <3>1. PICK n \in Server : SnapshotCall(n)
      BY <2>13 DEF ServiceSnapshots
    <3>2. PICK data \in snapCall[n] :
            /\ snapCall' = [snapCall EXCEPT ![n] = {}]
            /\ UNCHANGED <<logs, applied>>
            /\ \/ Snapshot(n, data.Index, data) /\ UNCHANGED failure
               \/ SnapshotPanics(n, data.Index) /\ failure' = OutOfRange
      BY <3>1 DEF SnapshotCall
    <3>3. CASE SnapshotTaken(n, data.Index, data)
      BY <2>1, <3>2, <3>3, SnapshotTakenInOrder
    <3>4. CASE UNCHANGED raftVars
      <4>1. UNCHANGED <<lastApplied, lastIncludeIndex, applyCh, logs, applied>>
        BY <3>2, <3>4 DEF raftVars, logVars, applyVars
      <4>2. OrderInv(p) /\ snapCall'[p] \subseteq snapCall[p]
        BY <2>1, <3>2 DEF Inv, ServiceTypeOK
      <4> QED
        BY <4>1, <4>2 DEF OrderInv, AppliedHeld, CallApplied, Contiguous, AllOnTheirWay,
           OnItsWay, OneCommand, LagsSnapshot, InStep, LastComes, CommandFits, Held
    <3> QED
      BY <3>2, <3>3, <3>4 DEF Snapshot, SnapshotIgnored, SnapshotPanics
  <2>14. ASSUME NEW n \in Server, Tick(n) PROVE OrderInv(p)'
    BY <2>3, <2>14 DEF Tick, Heartbeat, logVars, applyVars
  <2>15. ASSUME NEW n \in Server, Timeout(n) PROVE OrderInv(p)'
    BY <2>3, <2>15 DEF Timeout, leaderElection, logVars, applyVars
  <2>16. ASSUME NEW n \in Server, NEW command \in Command, ClientStart(n, command)
         PROVE  OrderInv(p)'
    BY <2>3, <2>16 DEF ClientStart, Start, applyVars
  <2>17. ASSUME NEW n \in Server, Crash(n) PROVE OrderInv(p)'
    BY <2>1, <2>17, MakeInOrder DEF Crash, Restart
  <2>18. ASSUME NEW m \in requests, CrashInHandler(m) PROVE OrderInv(p)'
    <3>1. m.to \in Server
      BY RequestFields DEF Inv, RaftInv, NetInv
    <3>2. Make(m.to, FirstPersist(m), {m}) /\ Restarted(m.to)
      BY <2>18 DEF CrashInHandler, RestartInRequestVote, RestartInInstallSnapShot
    <3>3. FirstPersist(m).lastIncludeIndex = raftstate[m.to].lastIncludeIndex
      BY <3>1 DEF FirstPersist, Inv, RaftInv, LocalInv, StableTypeOK, StableState
    <3> QED
      BY <2>1, <3>1, <3>2, <3>3, MakeInOrder
  <2> QED
    BY <2>4, <2>5, <2>6, <2>7, <2>8, <2>9, <2>10, <2>11, <2>12, <2>13, <2>14, <2>15, <2>16,
       <2>17, <2>18 DEF Next
<1> QED
  BY <1>1, <1>2

\* A service whose log reaches its peer's snapshot, and is more than that
\* snapshot, finds the command it takes in order.
LEMMA InStepNoGap ==
  ASSUME Inv, NEW n \in Server, OrderInv(n), ~LagsSnapshot(n), NEW msg \in applyCh[n],
         ApplyAtService(n, msg)
  PROVE  failure' # OutOfOrder
<1>1. msg.type = "command" /\ msg.Index > applied[n] /\ checkLogs(n, msg)
  BY DEF ApplyAtService
<1>2. msg.Index \in Nat /\ applied[n] \in Nat
  BY IndexesTyped DEF IndexesOK, Indexes
<1>3. Held(n, msg.Index - 1)
  BY <1>1, <1>2 DEF OrderInv, InStep, CommandFits
<1>4. ~(msg.Index > 1 /\ msg.Index - 1 \notin DOMAIN logs[n])
  BY <1>2, <1>3 DEF Held
<1> QED
  BY <1>1, <1>4 DEF checkLogs, OutOfOrder, Mismatch, NoFailure

\* Only a service that takes a command meets a gap.
LEMMA GapAtService ==
  ASSUME Inv, LagInv, Next, failure' = OutOfOrder, NEW n \in Server, applied'[n] # applied[n]
  PROVE  LagsSnapshot(n)
<1>1. Running /\ ServiceReceives
  <2>1. Running /\ (UNCHANGED failure \/ failure' = OutOfRange \/ ServiceReceives)
    BY DEF Next, RequestVoteCall, AppendEntriesCall, InstallSnapShotCall, RequestVoteReturn,
       AppendEntriesReturn, InstallSnapShotReturn, SendSnapShot, Apply, ServiceReceives,
       ServiceSnapshots, SnapshotCall, Tick, Timeout, ClientStart, Crash, CrashInHandler,
       Restart, RestartInRequestVote, RestartInInstallSnapShot, Restarted, PeerOnly, serviceVars
  <2> QED
    BY <2>1 DEF Running, NoFailure, OutOfOrder, OutOfRange
<1>2. PICK s \in Server : applierSnap(s)
  BY <1>1 DEF ServiceReceives
<1>3. PICK msg \in applyCh[s] :
        InstallAtService(s, msg) \/ ApplyAtService(s, msg) \/ IgnoreAtService(s, msg)
  BY <1>2 DEF applierSnap
<1>4. ApplyAtService(s, msg)
  BY <1>1, <1>3 DEF InstallAtService, IgnoreAtService, serviceVars, Running, NoFailure, OutOfOrder
<1>5. n = s
  BY <1>4 DEF ApplyAtService, Inv, ServiceTypeOK
<1> QED
  BY <1>1, <1>4, <1>5, InStepNoGap DEF LagInv

\* Whatever crashes and overtakes, the tester never sees an index before the
\* one that precedes it, except at a service that lacks the index at which its
\* peer's snapshot ends, or that a snapshot has just set back.
THEOREM GapsBehindSnapshot == Spec => GapsOnlyBehindSnapshot
<1>1. Inv /\ LagInv /\ [Next]_vars =>
        [failure' = OutOfOrder =>
           \A n \in Server : applied'[n] # applied[n] => LagsSnapshot(n)]_vars
  BY GapAtService
<1> QED
  BY <1>1, LagInitially, LagNext, Invariance, PTL DEF Spec, GapsOnlyBehindSnapshot
=============================================================================
