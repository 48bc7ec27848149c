--------------------------- MODULE MCMessageStore ---------------------------
(* Two users, two handlers at a time, pages of two messages and one pin. *)
EXTENDS MessageStore, TLC

Symmetry == Permutations(Users) \cup Permutations(Handlers) \cup Permutations(Keys)
            \cup Permutations(Emojis)
=============================================================================
