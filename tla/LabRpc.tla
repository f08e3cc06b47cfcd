------------------------------- MODULE LabRpc -------------------------------
(***************************************************************************)
(* The simulated network of src/src/labrpc/labrpc.go as the goroutines it  *)
(* is made of, for the calls to one server, together with the part of the  *)
(* tester (src/src/raft/config.go) that takes the server down and brings   *)
(* it up again: Network and persister are changed in an order on which the *)
(* network's promise to its callers depends.                               *)
(*                                                                         *)
(* Per call there are up to three goroutines: the caller in Call, the      *)
(* network in processReq, and the one that runs the server's handler.      *)
(* What a request and a reply contain is left out; that a handler ran is   *)
(* visible in the persister of the instance it ran in.  Delays are steps   *)
(* that come late, so longDelays and longReordering add nothing.           *)
(***************************************************************************)
EXTENDS Integers, FiniteSets

CONSTANTS
  Call,       \* RPCs to the server
  End,        \* ClientEnds that are connected to the server
  EndOf,      \* the ClientEnd of each call
  Instances   \* how often the server is started

ASSUME EndOfAssumption == EndOf \in [Call -> End]
ASSUME InstancesAssumption == Instances \in Nat \ {0}

Instance == 1..Instances

NoServer == 0

VARIABLES
  enabled,      \* Network.enabled
  registered,   \* Network.servers of the server: an instance, or nil
  reliable,     \* Network.reliable
  listening,    \* the goroutine of MakeNetwork has not returned
  caller,       \* Call: idle, sending, waiting, or what it has returned
  proc,         \* processReq: where it is
  server,       \* processReq: the server it has looked up
  lossy,        \* processReq: it has found the network unreliable
  handler,      \* the goroutine that runs server.dispatch
  disk,         \* the Persister of each instance: the calls it has executed
  owner,        \* the instance that config.saved shares its Persister with
  saved,        \* what config.saved holds when it is a copy
  tester,       \* crash1, start1 and cleanup: where they are
  current       \* the latest instance

netVars == <<enabled, registered, reliable, listening>>
callVars == <<caller, proc, server, lossy, handler>>
diskVars == <<disk, owner, saved>>
testerVars == <<tester, current>>
vars == <<netVars, callVars, diskVars, testerVars>>

\* Network.done is closed: cleanup is the last thing the tester does.
closed == tester = "cleaned"

\* isServerDead: the end is disabled, or the server is not the one looked up.
isServerDead(c) == ~enabled[EndOf[c]] \/ registered # server[c]

\* What the next instance of the server will start from.
Surviving == IF owner = NoServer THEN saved ELSE disk[owner]

-----------------------------------------------------------------------------
(* The caller, and the goroutine of MakeNetwork.                           *)

\* Call up to the select.
Send(c) ==
  /\ caller[c] = "idle"
  /\ caller' = [caller EXCEPT ![c] = "sending"]
  /\ UNCHANGED <<netVars, proc, server, lossy, handler, diskVars, testerVars>>

\* The network takes the request from endCh.
Accept(c) ==
  /\ listening
  /\ caller[c] = "sending"
  /\ caller' = [caller EXCEPT ![c] = "waiting"]
  /\ proc' = [proc EXCEPT ![c] = "start"]
  /\ UNCHANGED <<netVars, server, lossy, handler, diskVars, testerVars>>

\* The select of Call has no case for the end of the network.
SendFailsMutant(c) == FALSE /\ UNCHANGED vars

\* The whole network has been cleaned up.
SendFails(c) ==
  /\ closed
  /\ caller[c] = "sending"
  /\ caller' = [caller EXCEPT ![c] = "false"]
  /\ UNCHANGED <<netVars, proc, server, lossy, handler, diskVars, testerVars>>

StopListening ==
  /\ closed /\ listening
  /\ listening' = FALSE
  /\ UNCHANGED <<enabled, registered, reliable, callVars, diskVars, testerVars>>

-----------------------------------------------------------------------------
(* processReq.                                                             *)

readEndnameInfo(c) ==
  /\ proc[c] = "start"
  /\ server' = [server EXCEPT ![c] = registered]
  /\ lossy' = [lossy EXCEPT ![c] = ~reliable]
  /\ proc' = [proc EXCEPT ![c] =
       IF enabled[EndOf[c]] /\ registered # NoServer THEN "reached" ELSE "failing"]
  /\ UNCHANGED <<netVars, caller, handler, diskVars, testerVars>>

DropRequest(c) ==
  /\ proc[c] = "reached" /\ lossy[c]
  /\ proc' = [proc EXCEPT ![c] = "failing"]
  /\ UNCHANGED <<netVars, caller, server, lossy, handler, diskVars, testerVars>>

\* The handler gets a goroutine of its own.
Dispatch(c) ==
  /\ proc[c] = "reached"
  /\ proc' = [proc EXCEPT ![c] = "waiting"]
  /\ handler' = [handler EXCEPT ![c] = "called"]
  /\ UNCHANGED <<netVars, caller, server, lossy, diskVars, testerVars>>

\* <-ech
ReceiveReply(c) ==
  /\ proc[c] = "waiting" /\ handler[c] = "returned"
  /\ proc' = [proc EXCEPT ![c] = "replied"]
  /\ handler' = [handler EXCEPT ![c] = "ended"]
  /\ UNCHANGED <<netVars, caller, server, lossy, diskVars, testerVars>>

\* The server is only ever asked for its reply.
FindDeadMutant(c) == FALSE /\ UNCHANGED vars

\* One of the looks taken every 100 ms finds the server dead.
FindDead(c) ==
  /\ proc[c] = "waiting" /\ isServerDead(c)
  /\ proc' = [proc EXCEPT ![c] = "failing"]
  /\ UNCHANGED <<netVars, caller, server, lossy, handler, diskVars, testerVars>>

\* The reply is drained in any case, not only when nobody waits for it.
DrainMutant2(c) ==
  /\ handler[c] = "returned"
  /\ handler' = [handler EXCEPT ![c] = "ended"]
  /\ UNCHANGED <<netVars, caller, proc, server, lossy, diskVars, testerVars>>

DrainMutant1(c) == FALSE /\ UNCHANGED vars

\* The goroutine left behind to take a reply that nobody waits for.
Drain(c) ==
  /\ proc[c] \in {"failing", "finished"} /\ handler[c] = "returned"
  /\ handler' = [handler EXCEPT ![c] = "ended"]
  /\ UNCHANGED <<netVars, caller, proc, server, lossy, diskVars, testerVars>>

\* The reply is passed on without a second look at the server.
CheckReplyMutant(c) ==
  /\ proc[c] = "replied"
  /\ proc' = [proc EXCEPT ![c] = "delivering"]
  /\ UNCHANGED <<netVars, caller, server, lossy, handler, diskVars, testerVars>>

\* Of a server that has died since, and on a lossy network, no reply arrives.
CheckReply(c) ==
  /\ proc[c] = "replied"
  /\ \/ ~isServerDead(c) /\ proc' = [proc EXCEPT ![c] = "delivering"]
     \/ (isServerDead(c) \/ lossy[c]) /\ proc' = [proc EXCEPT ![c] = "failing"]
  /\ UNCHANGED <<netVars, caller, server, lossy, handler, diskVars, testerVars>>

ReplyTrue(c) ==
  /\ proc[c] = "delivering"
  /\ caller' = [caller EXCEPT ![c] = "true"]
  /\ proc' = [proc EXCEPT ![c] = "finished"]
  /\ lossy' = [lossy EXCEPT ![c] = FALSE]
  /\ UNCHANGED <<netVars, server, handler, diskVars, testerVars>>

ReplyFalse(c) ==
  /\ proc[c] = "failing"
  /\ caller' = [caller EXCEPT ![c] = "false"]
  /\ proc' = [proc EXCEPT ![c] = "finished"]
  /\ lossy' = [lossy EXCEPT ![c] = FALSE]
  /\ UNCHANGED <<netVars, server, handler, diskVars, testerVars>>

-----------------------------------------------------------------------------
(* The handler.                                                            *)

\* server.dispatch up to the point where the handler has persisted what it
\* did, in the instance that was looked up, dead or not.
Execute(c) ==
  /\ handler[c] = "called"
  /\ handler' = [handler EXCEPT ![c] = "executed"]
  /\ disk' = [disk EXCEPT ![server[c]] = @ \cup {c}]
  /\ UNCHANGED <<netVars, caller, proc, server, lossy, owner, saved, testerVars>>

\* The handler may take long to return, or block for ever.
Return(c) ==
  /\ handler[c] = "executed"
  /\ handler' = [handler EXCEPT ![c] = "returned"]
  /\ UNCHANGED <<netVars, caller, proc, server, lossy, diskVars, testerVars>>

-----------------------------------------------------------------------------
(* The tester: one goroutine.                                              *)

\* connect and disconnect, end by end.
Enable(e) ==
  /\ tester = "up" /\ ~enabled[e]
  /\ enabled' = [enabled EXCEPT ![e] = TRUE]
  /\ UNCHANGED <<registered, reliable, listening, callVars, diskVars, testerVars>>

Disable(e) ==
  /\ tester = "up" /\ enabled[e]
  /\ enabled' = [enabled EXCEPT ![e] = FALSE]
  /\ UNCHANGED <<registered, reliable, listening, callVars, diskVars, testerVars>>

Reliable(yes) ==
  /\ tester = "up" /\ reliable # yes
  /\ reliable' = yes
  /\ UNCHANGED <<enabled, registered, listening, callVars, diskVars, testerVars>>

\* crash1, after it has disconnected the server.
DeleteServer ==
  /\ tester = "up" /\ \A e \in End : ~enabled[e]
  /\ registered' = NoServer
  /\ tester' = "deleted"
  /\ UNCHANGED <<enabled, reliable, listening, callVars, diskVars, current>>

\* crash1, with the persister first and DeleteServer after it.
CopyPersisterMutant ==
  /\ tester \in {"up", "deleted"} /\ owner # NoServer
  /\ saved' = Surviving
  /\ owner' = NoServer
  /\ tester' = IF tester = "up" THEN tester ELSE "down"
  /\ UNCHANGED <<netVars, callVars, disk, current>>

\* config.saved becomes a Persister the old instance does not know.  crash1
\* and start1 copy it more than once, which changes nothing more.
CopyPersister ==
  /\ tester = "deleted"
  /\ saved' = Surviving
  /\ owner' = NoServer
  /\ tester' = "down"
  /\ UNCHANGED <<netVars, callVars, disk, current>>

\* start1: the new instance writes to the Persister in config.saved.
Make ==
  /\ tester = "down" /\ current < Instances
  /\ current' = current + 1
  /\ disk' = [disk EXCEPT ![current + 1] = saved]
  /\ owner' = current + 1
  /\ tester' = "made"
  /\ UNCHANGED <<netVars, callVars, saved>>

AddServer ==
  /\ tester = "made"
  /\ registered' = current
  /\ tester' = "up"
  /\ UNCHANGED <<enabled, reliable, listening, callVars, diskVars, current>>

Cleanup ==
  /\ tester = "up"
  /\ tester' = "cleaned"
  /\ UNCHANGED <<netVars, callVars, diskVars, current>>

-----------------------------------------------------------------------------

Init ==
  /\ enabled = [e \in End |-> TRUE]
  /\ registered = 1
  /\ reliable = TRUE
  /\ listening = TRUE
  /\ caller = [c \in Call |-> "idle"]
  /\ proc = [c \in Call |-> "none"]
  /\ server = [c \in Call |-> NoServer]
  /\ lossy = [c \in Call |-> FALSE]
  /\ handler = [c \in Call |-> "none"]
  /\ disk = [k \in Instance |-> {}]
  /\ owner = 1
  /\ saved = {}
  /\ tester = "up"
  /\ current = 1

\* The goroutines of the network on behalf of call c.
processReq(c) ==
  \/ readEndnameInfo(c) \/ DropRequest(c) \/ Dispatch(c)
  \/ ReceiveReply(c) \/ FindDead(c) \/ CheckReply(c)
  \/ ReplyTrue(c) \/ ReplyFalse(c)

Next ==
  \/ \E c \in Call : Send(c)
  \/ \E c \in Call : Accept(c)
  \/ \E c \in Call : SendFails(c)
  \/ \E c \in Call : processReq(c)
  \/ \E c \in Call : Drain(c)
  \/ \E c \in Call : Execute(c)
  \/ \E c \in Call : Return(c)
  \/ StopListening
  \/ \E e \in End : Enable(e)
  \/ \E e \in End : Disable(e)
  \/ \E yes \in BOOLEAN : Reliable(yes)
  \/ DeleteServer \/ CopyPersister \/ Make \/ AddServer
  \/ Cleanup

\* Go schedules every goroutine that can go on.  Nothing is assumed of the
\* tester, of when calls are made, or of handlers: they may never return.
Fairness ==
  \A c \in Call :
    /\ WF_vars(Accept(c))
    /\ WF_vars(SendFails(c))
    /\ WF_vars(processReq(c))
    /\ WF_vars(Drain(c))

Spec == Init /\ [][Next]_vars

FairSpec == Spec /\ Fairness

-----------------------------------------------------------------------------
(* Properties.                                                             *)

\* Types; no request is dispatched to a server that is nil, and a request
\* that waits for its handler's reply has a handler that can still give it.
TypeOK ==
  /\ enabled \in [End -> BOOLEAN]
  /\ registered \in Instance \cup {NoServer}
  /\ reliable \in BOOLEAN /\ listening \in BOOLEAN
  /\ caller \in [Call -> {"idle", "sending", "waiting", "true", "false"}]
  /\ proc \in [Call -> {"none", "start", "reached", "waiting", "replied", "delivering",
                        "failing", "finished"}]
  /\ server \in [Call -> Instance \cup {NoServer}]
  /\ lossy \in [Call -> BOOLEAN]
  /\ handler \in [Call -> {"none", "called", "executed", "returned", "ended"}]
  /\ \A c \in Call : handler[c] # "none" => server[c] # NoServer
  /\ \A c \in Call : proc[c] = "waiting" => handler[c] \in {"called", "executed", "returned"}
  /\ disk \in [Instance -> SUBSET Call]
  /\ owner \in Instance \cup {NoServer}
  /\ saved \subseteq Call
  /\ tester \in {"up", "deleted", "down", "made", "cleaned"}
  /\ current \in Instance

Executed == {c \in Call : handler[c] \in {"executed", "returned", "ended"}}

Outcome ==
  [c \in Call |-> IF caller[c] \in {"sending", "waiting"} THEN "pending" ELSE caller[c]]

Rpc == INSTANCE AtMostOnce WITH outcome <- Outcome, executed <- Executed, durable <- Surviving

\* The network keeps the promise the peers are built on: at most one
\* execution per call, and TRUE only for an execution that every later
\* instance of the server remembers, although handlers of dead instances go
\* on running and persisting.
AtMostOnceRpc == Rpc!Spec

\* Call returns, after a delay perhaps, unless the handler does not return.
CallReturns ==
  \A c \in Call :
    \/ []<>(caller[c] \notin {"sending", "waiting"})
    \/ <>[](handler[c] \in {"called", "executed"})

\* Once the server a call was dispatched to is no longer the registered one,
\* the call returns even if its handler never does.
DeadServerFreesCaller ==
  \A c \in Call :
    proc[c] = "waiting" /\ registered # server[c] ~> caller[c] \in {"true", "false"}

\* The goroutine of a handler that returns ends, also when nobody waits for
\* its reply any more.
HandlersEnd == \A c \in Call : handler[c] = "returned" ~> handler[c] = "ended"
=============================================================================
