------------------------------ MODULE MCRpcMux ------------------------------
(***************************************************************************)
(* Instances of RpcMux for TLC.                                            *)
(***************************************************************************)
EXTENDS RpcMux

CONSTANTS c1, c2, c3

\* Ids of their own, as in mux_test.go.
OwnIds == [c \in Call |-> IF c = c1 THEN 1 ELSE IF c = c2 THEN 2 ELSE 3]

\* c1 and c3 carry one id: a call is retried under the id of the one that timed out.
SharedIds == [c \in Call |-> IF c = c2 THEN 2 ELSE 1]

OwnOrShared == {OwnIds, SharedIds}
Own == {OwnIds}
=============================================================================
