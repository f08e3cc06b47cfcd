----------------------------- MODULE AtMostOnce -----------------------------
(***************************************************************************)
(* What a peer may rely on when it sends an RPC: the request is executed   *)
(* at most once, at any time after it was sent, even after the caller was  *)
(* told that it failed; and a call that returns TRUE was executed by a     *)
(* server whose restarts will remember it.                                 *)
(***************************************************************************)
CONSTANT Call

VARIABLES
  outcome,    \* what the caller knows of each call
  executed,   \* calls whose handler has run
  durable     \* those of them that the server's persister has kept

vars == <<outcome, executed, durable>>

TypeOK ==
  /\ outcome \in [Call -> {"idle", "pending", "true", "false"}]
  /\ executed \subseteq Call
  /\ durable \subseteq executed

Init ==
  /\ outcome = [c \in Call |-> "idle"]
  /\ executed = {}
  /\ durable = {}

Send(c) ==
  /\ outcome[c] = "idle"
  /\ outcome' = [outcome EXCEPT ![c] = "pending"]
  /\ UNCHANGED <<executed, durable>>

\* A handler of an instance that has been replaced leaves no trace.
Execute(c) ==
  /\ outcome[c] # "idle"
  /\ c \notin executed
  /\ executed' = executed \cup {c}
  /\ durable' \in {durable, durable \cup {c}}
  /\ UNCHANGED outcome

ReturnTrue(c) ==
  /\ outcome[c] = "pending"
  /\ c \in durable
  /\ outcome' = [outcome EXCEPT ![c] = "true"]
  /\ UNCHANGED <<executed, durable>>

ReturnFalse(c) ==
  /\ outcome[c] = "pending"
  /\ outcome' = [outcome EXCEPT ![c] = "false"]
  /\ UNCHANGED <<executed, durable>>

Next == \E c \in Call : Send(c) \/ Execute(c) \/ ReturnTrue(c) \/ ReturnFalse(c)

Spec == Init /\ [][Next]_vars
=============================================================================
