------------------------- MODULE MCGroupMembership -------------------------
(* Three people and a group some of them are in, two handlers at a time. *)
EXTENDS GroupMembership, TLC

Symmetry == Permutations(Users) \cup Permutations(Handlers)
=============================================================================
