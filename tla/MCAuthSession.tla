--------------------------- MODULE MCAuthSession ---------------------------
(***************************************************************************)
(* Three requests on one account, two seconds of clock, one reset.  The    *)
(* requests are interchangeable: no property names one.                    *)
(***************************************************************************)
EXTENDS AuthSession, TLC

Symmetry == Permutations(Requests)
=============================================================================
