----------------------------- MODULE MCContacts -----------------------------
(* Two users with two requests and two conversations, two handlers at a time. *)
EXTENDS Contacts, TLC

Symmetry == Permutations(Users) \cup Permutations(Handlers) \cup Permutations(Requests)
            \cup Permutations(Convs)
=============================================================================
