------------------------------ MODULE QrLogin ------------------------------
(***************************************************************************)
(* Logging a browser in with a QR code (AuthService): the two in-memory    *)
(* maps qrLoginSessions and qrLoginTokens, the browser that creates a code *)
(* and polls it, and the phones that confirm it.  Each entry point first   *)
(* drops the expired entries; nothing else does.                           *)
(*                                                                         *)
(* A confirmation keeps a reference to the session object while it waits   *)
(* for the database, and puts that object back into the map at the end.    *)
(***************************************************************************)
EXTENDS Naturals

CONSTANTS
    Sessions,   \* session ids; the qrToken of a session is one to one with its id
    Users,      \* accounts whose phones may confirm
    Requests,   \* confirmation requests
    Lifetime,   \* how long a code lives (two minutes)
    MaxTime,    \* bound on the clock
    None

Logins == [user : Users, iat : 0..MaxTime]

ASSUME QrAssumption ==
    /\ Lifetime \in Nat \ {0}
    /\ MaxTime \in Nat
    /\ None \notin Logins \cup Sessions \cup Users

VARIABLES
    now,
    expiresAt,         \* of every session object ever made; 0 for an id not used yet
    session,           \* the session objects: status and loginData
    qrLoginSessions,   \* the ids that are keys of the map of sessions
    qrLoginTokens,     \* the ids whose token is a key of the map of tokens
    web,               \* the web session token in each account's row; None is NULL or
                       \* a token that no confirmation signed
    confirm,           \* the confirmation requests
    answer,            \* the last answer to the browser that polls a session
    displaced          \* history: the confirmations whose saved token another write of
                       \* the row has replaced

vars == <<now, expiresAt, session, qrLoginSessions, qrLoginTokens, web, confirm, answer,
          displaced>>

Steps == {"new", "finding", "saving", "saved", "done", "failed"}

Init ==
    /\ now = 0
    /\ expiresAt = [s \in Sessions |-> 0]
    /\ session = [s \in Sessions |-> [status |-> "pending", data |-> None]]
    /\ qrLoginSessions = {}
    /\ qrLoginTokens = {}
    /\ web = [u \in Users |-> None]
    /\ confirm = [r \in Requests |->
                     [step |-> "new", session |-> None, user |-> None, login |-> None]]
    /\ answer = [s \in Sessions |-> [status |-> "none", data |-> None]]
    /\ displaced = {}

\* Mutant: an entry outlives its expiry by one tick.
Expired_Late == {s \in qrLoginSessions : expiresAt[s] < now}

\* The entries cleanupExpiredQrLoginSessions drops.
Expired == {s \in qrLoginSessions : expiresAt[s] <= now}

\* Mutant: cleanup forgets the map of tokens.
TokensKept_All == qrLoginTokens

\* Cleanup walks over the sessions, and drops the token of each one it drops.
TokensKept == qrLoginTokens \ Expired

\* Mutant: a poll is answered before anything is dropped.
SessionsKept_All == qrLoginSessions

SessionsKept == qrLoginSessions \ Expired

\* createQrLoginSession.
Create(s) ==
    /\ expiresAt[s] = 0
    /\ now + Lifetime <= MaxTime
    /\ expiresAt' = [expiresAt EXCEPT ![s] = now + Lifetime]
    /\ qrLoginSessions' = SessionsKept \cup {s}
    /\ qrLoginTokens' = TokensKept \cup {s}
    /\ UNCHANGED <<now, session, web, confirm, answer, displaced>>

\* getQrLoginSession: a session that is not in the map is reported as expired.
Poll(s) ==
    /\ expiresAt[s] # 0
    /\ qrLoginSessions' = SessionsKept
    /\ qrLoginTokens' = TokensKept
    /\ answer' = [answer EXCEPT ![s] =
                    IF s \in SessionsKept THEN session[s]
                    ELSE [status |-> "expired", data |-> None]]
    /\ UNCHANGED <<now, expiresAt, session, web, confirm, displaced>>

\* The session confirmQrLogin finds by its token is one it may confirm.
Confirmable(s) ==
    /\ s \in TokensKept
    /\ s \in SessionsKept
    /\ session[s].status # "confirmed"

\* A handler that threw or was cut off, with its variables gone.
Failed == [step |-> "failed", session |-> None, user |-> None, login |-> None]

\* confirmQrLogin up to the query for the user.  It throws for an unknown code and
\* returns early for a confirmed one, after it has cleaned up.
ConfirmStart(r, s, u) ==
    /\ confirm[r].step = "new"
    /\ expiresAt[s] # 0
    /\ qrLoginSessions' = SessionsKept
    /\ qrLoginTokens' = TokensKept
    /\ confirm' = [confirm EXCEPT ![r] =
                     IF Confirmable(s)
                     THEN [step |-> "finding", session |-> s, user |-> u, login |-> None]
                     ELSE Failed]
    /\ UNCHANGED <<now, expiresAt, session, web, answer, displaced>>

\* The user is found, and the token is signed with the second it is now.
ConfirmFind(r) ==
    /\ confirm[r].step = "finding"
    /\ LET t == [user |-> confirm[r].user, iat |-> now]
       IN  confirm' = [confirm EXCEPT ![r] = [@ EXCEPT !.step = "saving", !.login = t]]
    /\ UNCHANGED <<now, expiresAt, session, qrLoginSessions, qrLoginTokens, web, answer,
                   displaced>>

\* The confirmations that have saved their token in the row of u.
Saved(u) == {r \in Requests : confirm[r].user = u /\ confirm[r].step \in {"saved", "done"}}

\* A save of the row of u that leaves t, a token or NULL, as its web session.
SaveWeb(u, t) ==
    /\ web' = [web EXCEPT ![u] = t]
    /\ displaced' = displaced \cup {r \in Saved(u) : confirm[r].login # t}

\* The token replaces the web session in the user's row.
ConfirmSave(r) ==
    /\ confirm[r].step = "saving"
    /\ SaveWeb(confirm[r].user, confirm[r].login)
    /\ confirm' = [confirm EXCEPT ![r].step = "saved"]
    /\ UNCHANGED <<now, expiresAt, session, qrLoginSessions, qrLoginTokens, answer>>

\* Mutant: the object is changed as soon as the user is found, before the row is saved.
PublishStep_Early == "saving"

\* The step after which the session object is filled in.
PublishStep == "saved"

\* Mutant: the object is stored under the id of the user.
PublishKey_User(r) == confirm[r].user

\* The key the session object is stored under at the end.
PublishKey(r) == confirm[r].session

\* The displaced device was told and the device table brought up to date (a failure of
\* that is only logged): the object gets its login data and goes back into the map.
ConfirmPublish(r) ==
    /\ confirm[r].step = PublishStep
    /\ session' = [session EXCEPT ![confirm[r].session] =
                      [status |-> "confirmed", data |-> confirm[r].login]]
    /\ qrLoginSessions' = qrLoginSessions \cup {PublishKey(r)}
    /\ confirm' = [confirm EXCEPT ![r].step = "done"]
    /\ UNCHANGED <<now, expiresAt, qrLoginTokens, web, answer, displaced>>

\* The query or the save fails, or there is no such user: confirmQrLogin throws.
ConfirmThrows(r) ==
    /\ confirm[r].step \in {"finding", "saving"}
    /\ confirm' = [confirm EXCEPT ![r] = Failed]
    /\ UNCHANGED <<now, expiresAt, session, qrLoginSessions, qrLoginTokens, web, answer,
                   displaced>>

\* The other handlers that save the row: a login stores a token of its own, a logout clears
\* the column, and a profile update, a reset or the second save of a login writes back what
\* it read some time ago, perhaps the token of a confirmation.
OtherSave(u) ==
    /\ \E t \in {confirm[r].login : r \in Saved(u)} \cup {None} : SaveWeb(u, t)
    /\ UNCHANGED <<now, expiresAt, session, qrLoginSessions, qrLoginTokens, confirm, answer>>

Tick ==
    /\ now < MaxTime
    /\ now' = now + 1
    /\ UNCHANGED <<expiresAt, session, qrLoginSessions, qrLoginTokens, web, confirm, answer,
                   displaced>>

Running == {r \in Requests : confirm[r].step \in {"finding", "saving", "saved"}}

\* The server restarts: the maps are gone and so are the handlers; the rows stay.
Restart ==
    /\ qrLoginSessions' = {}
    /\ qrLoginTokens' = {}
    /\ confirm' = [r \in Requests |-> IF r \in Running THEN Failed ELSE confirm[r]]
    /\ UNCHANGED <<now, expiresAt, session, web, answer, displaced>>

Next ==
    \/ \E s \in Sessions : Create(s) \/ Poll(s)
    \/ \E r \in Requests :
        \/ \E s \in Sessions, u \in Users : ConfirmStart(r, s, u)
        \/ ConfirmFind(r)
        \/ ConfirmSave(r)
        \/ ConfirmPublish(r)
        \/ ConfirmThrows(r)
    \/ \E u \in Users : OtherSave(u)
    \/ Tick
    \/ Restart

\* The browser polls until it is told confirmed or expired, and time passes.
Fairness == WF_vars(Tick) /\ \A s \in Sessions : WF_vars(Poll(s))

Spec == Init /\ [][Next]_vars /\ Fairness

-----------------------------------------------------------------------------
Object == [status : {"pending", "confirmed"}, data : Logins \cup {None}]
Answers == [status : {"none", "pending", "confirmed", "expired"}, data : Logins \cup {None}]

Confirmation == [step : Steps, session : Sessions \cup {None},
                 user : Users \cup {None}, login : Logins \cup {None}]

TypeOK ==
    /\ now \in 0..MaxTime
    /\ expiresAt \in [Sessions -> 0..MaxTime]
    /\ session \in [Sessions -> Object]
    /\ qrLoginSessions \subseteq Sessions
    /\ qrLoginTokens \subseteq Sessions
    /\ web \in [Users -> Logins \cup {None}]
    /\ confirm \in [Requests -> Confirmation]
    /\ answer \in [Sessions -> Answers]
    /\ displaced \subseteq Requests

\* The two maps agree: a token always leads to a session, and a session without its
\* token, put back by a confirmation that outlived it, has expired, so that the next
\* cleanup drops it before anyone is shown it.
MapsAgree ==
    /\ qrLoginTokens \subseteq qrLoginSessions
    /\ \A s \in qrLoginSessions \ qrLoginTokens : expiresAt[s] <= now

\* A browser is logged in only as a user whose phone confirmed its own code, with a token
\* that was saved before the browser got it: it is the one in that user's row, unless a
\* later save of the row (of another confirmation, a login, a logout, or a handler that
\* writes back what it read) has replaced it.
LoginIsConfirmed ==
    \A s \in Sessions :
        answer[s].data # None =>
            \E r \in Requests :
                /\ confirm[r].session = s
                /\ confirm[r].login = answer[s].data
                /\ confirm[r].step = "done"
                /\ web[confirm[r].user] = answer[s].data \/ r \in displaced

\* A code is live while it is in the map and has not expired, cleaned up or not.
Live == {s \in qrLoginSessions : now < expiresAt[s]}

TicketState(s) ==
    IF expiresAt[s] = 0 THEN "none" ELSE IF s \in Live THEN session[s].status ELSE "expired"

TicketData(s) == IF s \in Live THEN session[s].data ELSE None

\* The maps, the object references and the cleanups implement the tickets of QrTicket:
\* no answer is stale, and no ticket goes backwards, though expired sessions come back
\* into the map.
Ticket == INSTANCE QrTicket WITH
    LoginData <- Logins,
    ticket <- [s \in Sessions |-> TicketState(s)],
    loginData <- [s \in Sessions |-> TicketData(s)]

ImplementsTickets == Ticket!Spec

\* Every code gets its browser a final answer.
BrowserGetsAnswer ==
    \A s \in Sessions :
        expiresAt[s] # 0 ~> answer[s].status \in {"confirmed", "expired"}

-----------------------------------------------------------------------------
(***************************************************************************)
(* The inductive invariant behind the properties above.                    *)
(***************************************************************************)

\* A session object is blank until its code is made, and only those are in the map.
ObjectsSound ==
    \A s \in Sessions :
        expiresAt[s] = 0 => /\ s \notin qrLoginSessions
                            /\ session[s] = [status |-> "pending", data |-> None]

\* A running confirmation holds an object that the maps lead to or that has expired.
ConfirmationsSound ==
    \A r \in Running :
        /\ confirm[r].session \in Sessions
        /\ confirm[r].user \in Users
        /\ confirm[r].step # "finding" => confirm[r].login \in Logins
        /\ expiresAt[confirm[r].session] # 0
        /\ \/ confirm[r].session \in qrLoginTokens
           \/ expiresAt[confirm[r].session] <= now

IInv == TypeOK /\ MapsAgree /\ ObjectsSound /\ ConfirmationsSound
=============================================================================
