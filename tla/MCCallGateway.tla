--------------------------- MODULE MCCallGateway ---------------------------
(***************************************************************************)
(* Two users, one with two sockets, so that it connects twice or comes     *)
(* back; two calls, so that a walk over the calls has a second entry to    *)
(* visit; one hang-up to race the disconnects.                             *)
(***************************************************************************)
EXTENDS CallGateway, TLC

CONSTANTS u1, u2, k1, k2, k3

MCOwner == k1 :> u1 @@ k2 :> u1 @@ k3 :> u2
=============================================================================
