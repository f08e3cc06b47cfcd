------------------------------ MODULE MCLabRpc ------------------------------
(***************************************************************************)
(* LabRpc with two calls over one end, which connect and disconnect switch *)
(* for both of them at once.                                               *)
(***************************************************************************)
EXTENDS LabRpc

SameEnd == [c \in Call |-> CHOOSE e \in End : TRUE]
=============================================================================
