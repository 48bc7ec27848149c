---------------------------- MODULE MessageBoard ----------------------------
(***************************************************************************)
(* What the chat promises about the messages of a conversation: they are   *)
(* appended and stay, each user has one reaction to each message and it is *)
(* changed by that user only, and what was taken back - a message recalled *)
(* by its sender, removed by an admin, hidden by a user from itself - is   *)
(* never shown again.                                                      *)
(***************************************************************************)
EXTENDS Naturals, Sequences

CONSTANTS Users, Emojis, None

VARIABLE board    \* the messages in their order: reactions and what was taken back

\* A message is taken back for everyone, by an admin, or for one user.
Marks == {"recalled", "removed"} \cup Users

Blank == [reaction |-> [u \in Users |-> None], back |-> {}]

Init == board \in {<<>>} \cup {<<Blank>>, <<Blank, Blank>>}

Post == board' = Append(board, Blank)

\* User u reacts to message m, reacts anew, or takes the reaction away.
React(m, u, e) == board' = [board EXCEPT ![m].reaction[u] = e]

\* One message is taken back, or all that there are by one user for itself.
TakeBack(m, k) == board' = [board EXCEPT ![m].back = @ \cup {k}]

Clear(u) == board' = [m \in DOMAIN board |-> [board[m] EXCEPT !.back = @ \cup {u}]]

Next ==
    \/ Post
    \/ \E m \in DOMAIN board, u \in Users, e \in Emojis \cup {None} : React(m, u, e)
    \/ \E m \in DOMAIN board, k \in Marks : TakeBack(m, k)
    \/ \E u \in Users : Clear(u)

Spec == Init /\ [][Next]_board
=============================================================================
