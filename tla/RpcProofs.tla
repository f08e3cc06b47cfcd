----------------------------- MODULE RpcProofs ------------------------------
(***************************************************************************)
(* The goroutines of labrpc implement at-most-once calls, for any number   *)
(* of calls, of ends and of instances of the server: the types, and the    *)
(* refinement of AtMostOnce.  What has to be known of a step is where the  *)
(* other goroutines of the call are (Phases), whose Persister counts       *)
(* (TesterOK), and that a handler's update is in it (Kept).                *)
(***************************************************************************)
EXTENDS LabRpc, TLAPS

\* Where the goroutines of one call are with respect to each other.
Phase(c) ==
  /\ caller[c] \in {"idle", "sending"} => proc[c] = "none"
  /\ proc[c] \notin {"none", "finished"} => caller[c] = "waiting"
  /\ proc[c] \in {"none", "start", "reached"} => handler[c] = "none"
  /\ proc[c] \in {"replied", "delivering"} => handler[c] = "ended"
  /\ proc[c] = "reached" => server[c] # NoServer

Phases == \A c \in Call : Phase(c)

\* Only the latest instance is registered, and only while config.saved is the
\* Persister it writes to.
TesterOK ==
  /\ owner # NoServer => owner = current
  /\ registered # NoServer => registered = current /\ owner = current
  /\ tester \in {"deleted", "down", "made"} => registered = NoServer
  /\ tester = "made" => owner = current
  /\ tester = "down" => owner = NoServer

\* What a handler has done is in the Persister of its instance, and what is
\* about to be confirmed is in the one that survives.
Kept ==
  /\ \A c \in Call : server[c] <= current
  /\ \A c \in Executed : c \in disk[server[c]]
  /\ \A c \in Call : proc[c] = "delivering" => c \in Surviving

RpcInv == TypeOK /\ Phases /\ TesterOK /\ Kept

-----------------------------------------------------------------------------
(* The invariant.                                                          *)

\* Nothing is registered above the first instance when nobody has called.
LEMMA RpcInitially == Init => RpcInv
<1> SUFFICES ASSUME Init PROVE RpcInv
  OBVIOUS
<1>1. TypeOK
  BY InstancesAssumption DEF Init, TypeOK, Instance, NoServer
<1>2. Phases /\ TesterOK /\ Kept
  BY DEF Init, Phases, Phase, TesterOK, Kept, Executed, NoServer
<1> QED
  BY <1>1, <1>2 DEF RpcInv

\* A step of the goroutines of c moves nothing of another call.
LEMMA CallStep ==
  ASSUME RpcInv, TypeOK', NEW c \in Call,
         UNCHANGED <<netVars, diskVars, testerVars>>,
         \A d \in Call \ {c} :
           /\ caller'[d] = caller[d] /\ proc'[d] = proc[d]
           /\ handler'[d] = handler[d] /\ server'[d] = server[d],
         Phase(c)',
         server'[c] <= current,
         c \in Executed' => c \in disk[server'[c]],
         proc'[c] = "delivering" => c \in Surviving
  PROVE  RpcInv'
<1>1. Phases'
  BY DEF RpcInv, Phases, Phase
<1>2. TesterOK'
  BY DEF RpcInv, TesterOK, netVars, diskVars, testerVars
<1>3. Kept'
  BY DEF RpcInv, Kept, Executed, Surviving, netVars, diskVars, testerVars
<1> QED
  BY <1>1, <1>2, <1>3 DEF RpcInv

\* What the goroutines of c start from.
CallTypes(c) ==
  /\ TypeOK /\ Phase(c) /\ server[c] <= current
  /\ c \in Executed => c \in disk[server[c]]
  /\ proc[c] = "delivering" => c \in Surviving

LEMMA CallTypesHold == ASSUME RpcInv, NEW c \in Call PROVE CallTypes(c)
BY DEF RpcInv, CallTypes, Phases, Kept

\* The caller.
LEMMA CallerInv ==
  ASSUME RpcInv, NEW c \in Call, Send(c) \/ Accept(c) \/ SendFails(c)
  PROVE  RpcInv'
<1>1. CallTypes(c)
  BY CallTypesHold
<1>2. TypeOK'
  BY <1>1 DEF CallTypes, TypeOK, Phase, Send, Accept, SendFails, netVars, diskVars, testerVars
<1>3. Phase(c)'
  BY <1>1 DEF CallTypes, TypeOK, Phase, Send, Accept, SendFails
<1>4. /\ UNCHANGED <<netVars, diskVars, testerVars, handler, server>>
      /\ \A d \in Call \ {c} : caller'[d] = caller[d] /\ proc'[d] = proc[d]
      /\ proc'[c] = "delivering" => proc[c] = "delivering"
  BY <1>1 DEF CallTypes, TypeOK, Send, Accept, SendFails
<1> QED
  BY <1>1, <1>2, <1>3, <1>4, CallStep DEF CallTypes, Executed

\* The server looked up is the latest instance, or nil.
LEMMA LookUpInv ==
  ASSUME RpcInv, NEW c \in Call, readEndnameInfo(c)
  PROVE  RpcInv'
<1>1. CallTypes(c) /\ TesterOK
  BY CallTypesHold DEF RpcInv
<1>2. TypeOK' /\ Phase(c)'
  BY <1>1 DEF CallTypes, TypeOK, Phase, readEndnameInfo, netVars, diskVars, testerVars
<1>3. server'[c] <= current
  BY <1>1 DEF CallTypes, TypeOK, TesterOK, readEndnameInfo, NoServer, Instance
<1>4. c \notin Executed'
  BY <1>1 DEF CallTypes, Phase, readEndnameInfo, Executed
<1>5. /\ UNCHANGED <<netVars, diskVars, testerVars, handler, caller>>
      /\ \A d \in Call \ {c} : server'[d] = server[d] /\ proc'[d] = proc[d]
      /\ proc'[c] # "delivering"
  BY <1>1 DEF CallTypes, TypeOK, readEndnameInfo
<1> QED
  BY <1>2, <1>3, <1>4, <1>5, CallStep

\* processReq from the dispatch on: a reply that is delivered comes from the
\* registered instance, whose Persister is the one that survives.
LEMMA ProcessReqInv ==
  ASSUME RpcInv, NEW c \in Call, processReq(c)
  PROVE  RpcInv'
<1>1. CallTypes(c) /\ TesterOK
  BY CallTypesHold DEF RpcInv
<1>2. CASE readEndnameInfo(c)
  BY <1>2, LookUpInv
<1>3. CASE DropRequest(c) \/ Dispatch(c) \/ ReceiveReply(c) \/ FindDead(c) \/ CheckReply(c)
           \/ ReplyTrue(c) \/ ReplyFalse(c)
  <2>1. TypeOK'
    <3>1. CASE DropRequest(c) \/ Dispatch(c)
      BY <1>1, <3>1 DEF CallTypes, TypeOK, Phase, DropRequest, Dispatch, netVars, diskVars,
         testerVars
    <3>2. CASE ReceiveReply(c) \/ FindDead(c)
      BY <1>1, <3>2
         DEF CallTypes, TypeOK, ReceiveReply, FindDead, netVars, diskVars, testerVars
    <3>3. CASE CheckReply(c)
      BY <1>1, <3>3 DEF CallTypes, TypeOK, CheckReply, netVars, diskVars, testerVars
    <3>4. CASE ReplyTrue(c)
      BY <1>1, <3>4 DEF CallTypes, TypeOK, ReplyTrue, netVars, diskVars, testerVars
    <3>5. CASE ReplyFalse(c)
      BY <1>1, <3>5 DEF CallTypes, TypeOK, ReplyFalse, netVars, diskVars, testerVars
    <3> QED
      BY <1>3, <3>1, <3>2, <3>3, <3>4, <3>5
  <2>2. Phase(c)'
    BY <1>1, <1>3 DEF CallTypes, TypeOK, Phase, DropRequest, Dispatch, ReceiveReply, FindDead,
       CheckReply, ReplyTrue, ReplyFalse
  <2>3. /\ UNCHANGED <<netVars, diskVars, testerVars, server>>
        /\ \A d \in Call \ {c} :
             caller'[d] = caller[d] /\ proc'[d] = proc[d] /\ handler'[d] = handler[d]
        /\ c \in Executed' => c \in Executed
    BY <1>1, <1>3 DEF CallTypes, TypeOK, DropRequest, Dispatch, ReceiveReply, FindDead,
       CheckReply, ReplyTrue, ReplyFalse, Executed
  <2>4. ASSUME proc'[c] = "delivering" PROVE c \in Surviving
    <3>1. proc[c] = "replied" /\ ~isServerDead(c)
      BY <1>1, <1>3, <2>4 DEF CallTypes, TypeOK, DropRequest, Dispatch, ReceiveReply, FindDead,
         CheckReply, ReplyTrue, ReplyFalse
    <3>2. registered = server[c] /\ handler[c] = "ended"
      BY <1>1, <3>1 DEF isServerDead, CallTypes, Phase
    <3>3. server[c] # NoServer /\ c \in disk[server[c]]
      BY <1>1, <3>2 DEF CallTypes, TypeOK, Executed
    <3> QED
      BY <1>1, <3>2, <3>3 DEF TesterOK, Surviving
  <2> QED
    BY <1>1, <2>1, <2>2, <2>3, <2>4, CallStep DEF CallTypes
<1> QED
  BY <1>2, <1>3 DEF processReq

\* The handler's goroutine once it has run, and who takes its reply.
LEMMA HandlerInv ==
  ASSUME RpcInv, NEW c \in Call, Drain(c) \/ Return(c)
  PROVE  RpcInv'
<1>1. CallTypes(c)
  BY CallTypesHold
<1>2. TypeOK' /\ Phase(c)'
  BY <1>1 DEF CallTypes, TypeOK, Phase, Drain, Return, netVars, diskVars, testerVars
<1>3. /\ UNCHANGED <<netVars, diskVars, testerVars, server, caller, proc>>
      /\ \A d \in Call \ {c} : handler'[d] = handler[d]
      /\ c \in Executed
  BY <1>1 DEF CallTypes, TypeOK, Drain, Return, Executed
<1> QED
  BY <1>1, <1>2, <1>3, CallStep DEF CallTypes

\* The handler persists in the instance it was dispatched to.
LEMMA ExecuteInv ==
  ASSUME RpcInv, NEW c \in Call, Execute(c)
  PROVE  RpcInv' /\ Surviving \subseteq Surviving'
                /\ Surviving' \in {Surviving, Surviving \cup {c}}
<1>1. CallTypes(c)
  BY CallTypesHold
<1>2. server[c] \in Instance
  BY <1>1 DEF CallTypes, TypeOK, Execute
<1>3. TypeOK'
  BY <1>1, <1>2 DEF CallTypes, TypeOK, Execute, netVars, testerVars
<1>4. Surviving' \in {Surviving, Surviving \cup {c}}
  BY <1>1, <1>2 DEF CallTypes, TypeOK, Surviving, Execute
<1>5. \A k \in Instance : disk[k] \subseteq disk'[k]
  BY <1>1, <1>2 DEF CallTypes, TypeOK, Execute
<1>6. Phases' /\ TesterOK'
  BY <1>1 DEF RpcInv, CallTypes, TypeOK, Phases, Phase, TesterOK, Execute, netVars, testerVars
<1>7. ASSUME NEW d \in Executed' PROVE d \in disk'[server'[d]]
  <2>1. CASE d = c
    BY <1>1, <1>2, <2>1 DEF CallTypes, TypeOK, Execute
  <2>2. CASE d # c
    <3>1. d \in Executed /\ server'[d] = server[d] /\ server[d] \in Instance
      BY <1>1, <2>2 DEF CallTypes, TypeOK, Execute, Executed
    <3> QED
      BY <1>5, <3>1 DEF RpcInv, Kept
  <2> QED
    BY <2>1, <2>2
<1>8. Kept'
  BY <1>4, <1>7 DEF RpcInv, Kept, Execute, testerVars
<1> QED
  BY <1>3, <1>4, <1>6, <1>8 DEF RpcInv

-----------------------------------------------------------------------------
(* The tester.                                                             *)

\* Connecting, disconnecting and the end of the network.
LEMMA SwitchInv ==
  ASSUME RpcInv,
         \/ StopListening \/ Cleanup
         \/ \E e \in End : Enable(e) \/ Disable(e)
         \/ \E yes \in BOOLEAN : Reliable(yes)
  PROVE  RpcInv'
<1>1. TypeOK'
  BY DEF RpcInv, TypeOK, StopListening, Cleanup, Enable, Disable, Reliable, netVars, callVars,
     diskVars, testerVars
<1>2. /\ UNCHANGED <<callVars, diskVars, registered, current>>
      /\ tester' = tester \/ tester' = "cleaned"
  BY DEF StopListening, Cleanup, Enable, Disable, Reliable, netVars, testerVars
<1>3. Phases' /\ TesterOK' /\ Kept'
  BY <1>2 DEF RpcInv, Phases, Phase, TesterOK, Kept, Executed, Surviving, callVars, diskVars
<1> QED
  BY <1>1, <1>3 DEF RpcInv

\* What the tester's own steps need.
LEMMA TesterTypes ==
  ASSUME RpcInv
  PROVE  /\ TypeOK /\ TesterOK
         /\ Instances \in Nat /\ Instance = 1..Instances /\ NoServer = 0
BY InstancesAssumption DEF RpcInv, Instance, NoServer

\* crash1: the server is deleted before the copy of its Persister is made.
LEMMA CrashInv ==
  ASSUME RpcInv, DeleteServer \/ CopyPersister
  PROVE  RpcInv' /\ Surviving' = Surviving
<1>1. TypeOK /\ TesterOK /\ UNCHANGED <<callVars, disk, current>>
  BY TesterTypes DEF DeleteServer, CopyPersister, diskVars
<1>2. CASE DeleteServer
  <2>1. TypeOK' /\ TesterOK' /\ Surviving' = Surviving
    BY <1>1, <1>2 DEF TypeOK, TesterOK, DeleteServer, Surviving, callVars, diskVars
  <2> QED
    BY <1>1, <2>1 DEF RpcInv, Phases, Phase, Kept, Executed, callVars
<1>3. CASE CopyPersister
  <2>1. Surviving' = Surviving
    BY <1>3 DEF CopyPersister, Surviving
  <2>2. Surviving \subseteq Call
    BY <1>1 DEF TypeOK, Surviving
  <2>3. TypeOK'
    BY <1>1, <1>3, <2>2 DEF TypeOK, CopyPersister, callVars, netVars
  <2>4. TesterOK'
    BY <1>1, <1>3 DEF TesterOK, CopyPersister, netVars
  <2> QED
    BY <1>1, <2>1, <2>3, <2>4 DEF RpcInv, Phases, Phase, Kept, Executed, callVars
<1> QED
  BY <1>2, <1>3

\* start1: the new instance starts from the copy, in a Persister of its own.
LEMMA StartInv ==
  ASSUME RpcInv, Make \/ AddServer
  PROVE  RpcInv' /\ Surviving' = Surviving
<1>1. /\ TypeOK /\ TesterOK /\ UNCHANGED callVars
      /\ Instances \in Nat /\ Instance = 1..Instances /\ NoServer = 0
  BY TesterTypes DEF Make, AddServer
<1>2. CASE Make
  <2>1. /\ current + 1 \in Instance /\ current \in Nat /\ owner = NoServer
        /\ disk'[current + 1] = saved
        /\ \A k \in Instance : k <= current => disk'[k] = disk[k]
    BY <1>1, <1>2 DEF TypeOK, TesterOK, Make
  <2>2. Surviving' = Surviving
    BY <1>1, <1>2, <2>1 DEF Make, Surviving
  <2>3. TypeOK'
    BY <1>1, <1>2, <2>1 DEF TypeOK, Make, callVars, netVars
  <2>4. TesterOK'
    BY <1>1, <1>2, <2>1 DEF TesterOK, Make, netVars
  <2>5. ASSUME NEW c \in Executed PROVE c \in disk'[server[c]]
    BY <1>1, <2>1 DEF RpcInv, TypeOK, Kept, Executed
  <2>6. Kept'
    BY <1>1, <1>2, <2>1, <2>2, <2>5 DEF RpcInv, TypeOK, Kept, Executed, Make, callVars
  <2> QED
    BY <1>1, <2>2, <2>3, <2>4, <2>6 DEF RpcInv, Phases, Phase, callVars
<1>3. CASE AddServer
  <2>1. TypeOK' /\ TesterOK' /\ Surviving' = Surviving
    BY <1>1, <1>3 DEF TypeOK, TesterOK, AddServer, Surviving, callVars, diskVars
  <2> QED
    BY <1>1, <1>3, <2>1
       DEF RpcInv, Phases, Phase, Kept, Executed, AddServer, callVars, diskVars
<1> QED
  BY <1>2, <1>3

-----------------------------------------------------------------------------
(* The refinement.                                                         *)

\* Every step keeps the invariant.
LEMMA RpcNext == RpcInv /\ [Next]_vars => RpcInv'
<1> SUFFICES ASSUME RpcInv, [Next]_vars PROVE RpcInv'
  OBVIOUS
<1>1. CASE UNCHANGED vars
  BY <1>1 DEF RpcInv, TypeOK, Phases, Phase, TesterOK, Kept, Executed, Surviving,
     vars, netVars, callVars, diskVars, testerVars
<1> QED
  BY <1>1, CallerInv, ProcessReqInv, HandlerInv, ExecuteInv, SwitchInv, CrashInv, StartInv DEF Next

\* An idle network is an idle abstract one.
LEMMA RefinesInit == Init => Rpc!Init
BY InstancesAssumption DEF Init, Rpc!Init, Outcome, Executed, Surviving, NoServer, Instance

\* The steps of a call: what the caller learns, and nothing else.
LEMMA RefinesCall ==
  ASSUME RpcInv, NEW c \in Call,
         Send(c) \/ Accept(c) \/ SendFails(c) \/ processReq(c) \/ Drain(c) \/ Return(c)
  PROVE  [Rpc!Next]_(Rpc!vars)
<1>1. CallTypes(c)
  BY CallTypesHold
<1>2. Surviving' = Surviving
  BY DEF Send, Accept, SendFails, processReq, readEndnameInfo, DropRequest, Dispatch,
     ReceiveReply, FindDead, CheckReply, ReplyTrue, ReplyFalse, Drain, Return, Surviving, diskVars
<1>3. Executed' = Executed
  <2>1. \A d \in Call \ {c} : handler'[d] = handler[d]
    BY <1>1 DEF CallTypes, TypeOK, Send, Accept, SendFails, processReq, readEndnameInfo,
       DropRequest, Dispatch, ReceiveReply, FindDead, CheckReply, ReplyTrue, ReplyFalse, Drain,
       Return
  <2>2. c \in Executed' <=> c \in Executed
    BY <1>1 DEF CallTypes, TypeOK, Phase, Send, Accept, SendFails, processReq, readEndnameInfo,
       DropRequest, Dispatch, ReceiveReply, FindDead, CheckReply, ReplyTrue, ReplyFalse, Drain,
       Return, Executed
  <2> QED
    BY <2>1, <2>2 DEF Executed
<1>4. CASE Send(c)
  <2>1. Outcome[c] = "idle" /\ Outcome' = [Outcome EXCEPT ![c] = "pending"]
    BY <1>1, <1>4 DEF CallTypes, TypeOK, Send, Outcome
  <2> QED
    BY <1>2, <1>3, <2>1 DEF Rpc!Next, Rpc!Send
<1>5. CASE SendFails(c) \/ ReplyFalse(c)
  <2>1. Outcome[c] = "pending" /\ Outcome' = [Outcome EXCEPT ![c] = "false"]
    BY <1>1, <1>5 DEF CallTypes, TypeOK, Phase, SendFails, ReplyFalse, Outcome
  <2> QED
    BY <1>2, <1>3, <2>1 DEF Rpc!Next, Rpc!ReturnFalse
<1>6. CASE ReplyTrue(c)
  <2>1. Outcome[c] = "pending" /\ Outcome' = [Outcome EXCEPT ![c] = "true"]
    BY <1>1, <1>6 DEF CallTypes, TypeOK, Phase, ReplyTrue, Outcome
  <2>2. c \in Surviving
    BY <1>1, <1>6 DEF CallTypes, ReplyTrue
  <2> QED
    BY <1>2, <1>3, <2>1, <2>2 DEF Rpc!Next, Rpc!ReturnTrue
<1>7. CASE \/ Accept(c) \/ readEndnameInfo(c) \/ DropRequest(c) \/ Dispatch(c)
           \/ ReceiveReply(c) \/ FindDead(c) \/ CheckReply(c) \/ Drain(c) \/ Return(c)
  <2>1. Outcome' = Outcome
    BY <1>1, <1>7 DEF CallTypes, TypeOK, Accept, readEndnameInfo, DropRequest, Dispatch,
       ReceiveReply, FindDead, CheckReply, Drain, Return, Outcome
  <2> QED
    BY <1>2, <1>3, <2>1 DEF Rpc!vars
<1> QED
  BY <1>4, <1>5, <1>6, <1>7 DEF processReq

\* The handler runs: the call is executed, and durably if its instance is
\* the one whose Persister survives.
LEMMA RefinesExecute ==
  ASSUME RpcInv, NEW c \in Call, Execute(c)
  PROVE  Rpc!Next
<1>1. CallTypes(c)
  BY CallTypesHold
<1>2. Outcome' = Outcome /\ Outcome[c] # "idle"
  BY <1>1 DEF CallTypes, TypeOK, Phase, Execute, Outcome
<1>3. c \notin Executed /\ Executed' = Executed \cup {c}
  BY <1>1 DEF CallTypes, TypeOK, Execute, Executed
<1>4. Surviving' \in {Surviving, Surviving \cup {c}}
  BY ExecuteInv
<1> QED
  BY <1>2, <1>3, <1>4 DEF Rpc!Next, Rpc!Execute

\* Every step is one of the abstract network, or a stutter.
LEMMA RefinesNext == RpcInv /\ [Next]_vars => [Rpc!Next]_(Rpc!vars)
<1> SUFFICES ASSUME RpcInv, [Next]_vars PROVE [Rpc!Next]_(Rpc!vars)
  OBVIOUS
<1>1. CASE \/ StopListening \/ Cleanup \/ UNCHANGED vars
           \/ \E e \in End : Enable(e) \/ Disable(e)
           \/ \E yes \in BOOLEAN : Reliable(yes)
  BY <1>1 DEF StopListening, Cleanup, Enable, Disable, Reliable, vars, callVars, diskVars,
     Rpc!vars, Outcome, Executed, Surviving
<1>2. CASE DeleteServer \/ CopyPersister \/ Make \/ AddServer
  <2>1. Surviving' = Surviving
    BY <1>2, CrashInv, StartInv
  <2>2. Outcome' = Outcome /\ Executed' = Executed
    BY <1>2 DEF DeleteServer, CopyPersister, Make, AddServer, callVars, Outcome, Executed
  <2> QED
    BY <2>1, <2>2 DEF Rpc!vars
<1> QED
  BY <1>1, <1>2, RefinesCall, RefinesExecute DEF Next

\* The goroutines of a call, the Persisters and the tester keep their types;
\* no request is dispatched to a server that is nil.
THEOREM RpcTypeCorrect == Spec => []TypeOK
<1>1. RpcInv => TypeOK
  BY DEF RpcInv
<1> QED
  BY <1>1, RpcInitially, RpcNext, PTL DEF Spec

\* processReq, isServerDead, crash1 and start1 together implement calls that
\* are executed at most once and whose TRUE outlives every crash.
THEOREM RpcRefinement == Spec => AtMostOnceRpc
<1>1. RpcInv /\ [Next]_vars => [Rpc!Next]_(Rpc!vars)
  BY RefinesNext
<1> QED
  BY <1>1, RpcInitially, RpcNext, RefinesInit, PTL DEF Spec, AtMostOnceRpc, Rpc!Spec
=============================================================================
