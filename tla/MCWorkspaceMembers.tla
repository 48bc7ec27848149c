------------------------- MODULE MCWorkspaceMembers -------------------------
(* Three people, two requests at a time, and a limit that can be reached. *)
EXTENDS WorkspaceMembers, TLC

Symmetry == Permutations(Users) \cup Permutations(Handlers)
=============================================================================
