----------------------------- MODULE QrTicket ------------------------------
(***************************************************************************)
(* What QR login promises the browser that shows the code: each code is a  *)
(* ticket that goes from pending to confirmed to expired and never back,   *)
(* and every answer to the browser is the state the ticket has right then, *)
(* with the login data only while the ticket is confirmed.                 *)
(***************************************************************************)
CONSTANTS Sessions, LoginData, None

VARIABLES
    ticket,      \* the state of each code
    loginData,   \* who confirmed it, with the token made for the browser
    answer       \* the last answer the browser got

Answer(s) == [status |-> ticket[s], data |-> loginData[s]]

Init ==
    /\ ticket = [s \in Sessions |-> "none"]
    /\ loginData = [s \in Sessions |-> None]
    /\ answer = [s \in Sessions |-> [status |-> "none", data |-> None]]

Issue(s) ==
    /\ ticket[s] = "none"
    /\ ticket' = [ticket EXCEPT ![s] = "pending"]
    /\ UNCHANGED <<loginData, answer>>

\* Two phones may confirm one code, and the later one takes it over.
Confirm(s, d) ==
    /\ ticket[s] \in {"pending", "confirmed"}
    /\ ticket' = [ticket EXCEPT ![s] = "confirmed"]
    /\ loginData' = [loginData EXCEPT ![s] = d]
    /\ UNCHANGED answer

\* Time, or a restart of the server, ends any number of tickets at once.
Expire(S) ==
    /\ \A s \in S : ticket[s] \in {"pending", "confirmed"}
    /\ ticket' = [s \in Sessions |-> IF s \in S THEN "expired" ELSE ticket[s]]
    /\ loginData' = [s \in Sessions |-> IF s \in S THEN None ELSE loginData[s]]
    /\ UNCHANGED answer

Ask(s) ==
    /\ ticket[s] # "none"
    /\ answer' = [answer EXCEPT ![s] = Answer(s)]
    /\ UNCHANGED <<ticket, loginData>>

Next ==
    \/ \E s \in Sessions : Issue(s) \/ Ask(s)
    \/ \E s \in Sessions, d \in LoginData : Confirm(s, d)
    \/ \E S \in SUBSET Sessions : Expire(S)

Spec == Init /\ [][Next]_<<ticket, loginData, answer>>
=============================================================================
