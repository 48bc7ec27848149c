---------------------------- MODULE MCGroupCall ----------------------------
(***************************************************************************)
(* Three users, one of them with two sockets, one group call, and two      *)
(* handlers that may close it.                                             *)
(***************************************************************************)
EXTENDS GroupCall, TLC

CONSTANTS u1, u2, u3, k1, k2, k3, k4

MCOwner == k1 :> u1 @@ k2 :> u1 @@ k3 :> u2 @@ k4 :> u3
=============================================================================
