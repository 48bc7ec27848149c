---------------------------- MODULE CallGateway ----------------------------
(***************************************************************************)
(* One-to-one calls in CallGateway: the maps onlineUsers and activeCalls,  *)
(* the call records in MongoDB, and the handlers that keep them together   *)
(* across their awaits: connect, disconnect, call:initiate, call:end and   *)
(* call:reject.                                                            *)
(*                                                                         *)
(* The events the handlers emit, and the relays (offer, answer, candidate, *)
(* accept, media, video upgrade), read onlineUsers and change nothing, so  *)
(* they do not appear.                                                     *)
(***************************************************************************)
EXTENDS Naturals

CONSTANTS
    Users,
    Sockets,    \* socket ids; each connects once
    Owner,      \* the user who opens a socket
    Calls,      \* call ids; each is made by one call:initiate
    HangUps,    \* call:end and call:reject messages
    None

ASSUME CallAssumption ==
    /\ Owner \in [Sockets -> Users]
    /\ None \notin Users \cup Sockets \cup Calls
    /\ Sockets \cap HangUps = {}

VARIABLES
    socket,         \* each socket: new, open or closed
    onlineUsers,    \* the last socket each user connected with
    activeCalls,    \* the ids that are keys of the map
    record,         \* the call records: none, open (no endTime) or ended
    initiate,       \* the call:initiate handler of each call
    closer,         \* the handlers that end calls: a hang-up's, or a socket's disconnect
                    \* for its user
    late            \* history: calls registered when a party had already gone

vars == <<socket, onlineUsers, activeCalls, record, initiate, closer, late>>

InitiateSteps == {"new", "asserting", "creating", "created", "registered", "failed"}
CloserSteps   == {"new", "ending", "ended", "done", "failed"}
Closers       == Sockets \cup HangUps

Init ==
    /\ socket = [k \in Sockets |-> "new"]
    /\ onlineUsers = [u \in Users |-> None]
    /\ activeCalls = {}
    /\ record = [c \in Calls |-> "none"]
    /\ initiate = [c \in Calls |-> [step |-> "new", caller |-> None, receiver |-> None]]
    /\ closer = [p \in Closers |-> [step |-> "new", user |-> None, call |-> None]]
    /\ late = {}

Parties(c) == {initiate[c].caller, initiate[c].receiver}

Online(u) == onlineUsers[u] # None

(***************************************************************************)
(* Connections.                                                            *)
(***************************************************************************)

\* Mutant: the map is given the user's id where the socket's belongs.
Connect_StoresUser(k) ==
    /\ socket[k] = "new"
    /\ socket' = [socket EXCEPT ![k] = "open"]
    /\ onlineUsers' = [onlineUsers EXCEPT ![Owner[k]] = Owner[k]]
    /\ UNCHANGED <<activeCalls, record, initiate, closer, late>>

\* handleConnection: the newest socket of a user replaces the others.
Connect(k) ==
    /\ socket[k] = "new"
    /\ socket' = [socket EXCEPT ![k] = "open"]
    /\ onlineUsers' = [onlineUsers EXCEPT ![Owner[k]] = k]
    /\ UNCHANGED <<activeCalls, record, initiate, closer, late>>

\* Mutant: the walk over the calls looks only at those the user made.
CallsOf_AsCaller(u, active) == {c \in active : initiate[c].caller = u}

\* The entries of activeCalls the walk of handleDisconnect stops at.
CallsOf(u, active) == {c \in active : u \in Parties(c)}

\* handleDisconnect runs to its next call, where it waits for endCall, or to its end.
\* The map is walked as it is at that moment: entries set while it waits are visited.
Walk(k, u, active) ==
    IF CallsOf(u, active) = {}
    THEN closer' = [closer EXCEPT ![k] = [step |-> "done", user |-> u, call |-> None]]
    ELSE \E c \in CallsOf(u, active) :
            closer' = [closer EXCEPT ![k] = [step |-> "ending", user |-> u, call |-> c]]

\* Mutant: the calls are cleaned up and the entry of the user stays.
OnlineWithout_Kept(u) == onlineUsers

\* onlineUsers once user u has been taken out.
OnlineWithout(u) == [onlineUsers EXCEPT ![u] = None]

\* handleDisconnect: only the socket onlineUsers holds takes its user offline; an older
\* one is not found in the map and leaves everything as it is.
Disconnect(k) ==
    /\ socket[k] = "open"
    /\ socket' = [socket EXCEPT ![k] = "closed"]
    /\ IF onlineUsers[Owner[k]] = k
       THEN /\ onlineUsers' = OnlineWithout(Owner[k])
            /\ Walk(k, Owner[k], activeCalls)
       ELSE UNCHANGED <<onlineUsers, closer>>
    /\ UNCHANGED <<activeCalls, record, initiate, late>>

(***************************************************************************)
(* call:initiate                                                           *)
(***************************************************************************)

\* The message arrives, and the block and privacy rules are looked up.
InitiateStart(c, k, receiver) ==
    /\ initiate[c].step = "new"
    /\ socket[k] = "open"
    /\ receiver # Owner[k]
    /\ initiate' = [initiate EXCEPT ![c] = [step |-> "asserting", caller |-> Owner[k],
                                            receiver |-> receiver]]
    /\ UNCHANGED <<socket, onlineUsers, activeCalls, record, closer, late>>

\* The rules allow the call and the receiver is online: go on to its settings.
InitiateCheck(c) ==
    /\ initiate[c].step = "asserting"
    /\ Online(initiate[c].receiver)
    /\ initiate' = [initiate EXCEPT ![c].step = "creating"]
    /\ UNCHANGED <<socket, onlineUsers, activeCalls, record, closer, late>>

\* The receiver's settings allow it, and the record is created.
InitiateCreate(c) ==
    /\ initiate[c].step = "creating"
    /\ record' = [record EXCEPT ![c] = "open"]
    /\ initiate' = [initiate EXCEPT ![c].step = "created"]
    /\ UNCHANGED <<socket, onlineUsers, activeCalls, closer, late>>

\* The call goes into the map; only now do the clients learn its id.
InitiateRegister(c) ==
    /\ initiate[c].step = "created"
    /\ activeCalls' = activeCalls \cup {c}
    /\ late' = IF \A u \in Parties(c) : Online(u) THEN late ELSE late \cup {c}
    /\ initiate' = [initiate EXCEPT ![c].step = "registered"]
    /\ UNCHANGED <<socket, onlineUsers, record, closer>>

\* A rule forbids the call, the receiver is offline, or a query fails.
InitiateFails(c) ==
    /\ initiate[c].step \in {"asserting", "creating"}
    /\ initiate' = [initiate EXCEPT ![c].step = "failed"]
    /\ UNCHANGED <<socket, onlineUsers, activeCalls, record, closer, late>>

(***************************************************************************)
(* Ending calls.                                                           *)
(***************************************************************************)

\* A socket, of whatever user, sends call:end or call:reject with the id of a call that
\* clients have been told, in the map or not; the handler looks nothing up and waits for
\* endCall.
HangUp(h, c) ==
    /\ closer[h].step = "new"
    /\ initiate[c].step = "registered"
    /\ \E k \in Sockets : socket[k] = "open"
    /\ closer' = [closer EXCEPT ![h] = [step |-> "ending", user |-> None, call |-> c]]
    /\ UNCHANGED <<socket, onlineUsers, activeCalls, record, initiate, late>>

\* endCall stamps the record, whether or not it has been ended before.
EndCall(p) ==
    /\ closer[p].step = "ending"
    /\ record' = [record EXCEPT ![closer[p].call] = "ended"]
    /\ closer' = [closer EXCEPT ![p].step = "ended"]
    /\ UNCHANGED <<socket, onlineUsers, activeCalls, initiate, late>>

\* The handler of a hang-up goes on after endCall.
HangUpFinish(h) ==
    /\ closer[h].step = "ended"
    /\ activeCalls' = activeCalls \ {closer[h].call}
    /\ closer' = [closer EXCEPT ![h].step = "done"]
    /\ UNCHANGED <<socket, onlineUsers, record, initiate, late>>

\* handleDisconnect goes on after endCall: it deletes the entry and walks on.
CleanupNext(k) ==
    /\ closer[k].step = "ended"
    /\ activeCalls' = activeCalls \ {closer[k].call}
    /\ Walk(k, closer[k].user, activeCalls')
    /\ UNCHANGED <<socket, onlineUsers, record, initiate, late>>

\* Mutant: the entry is deleted in a finally, so also when the record could not be ended.
CloserFails_Finally(p) ==
    /\ closer[p].step = "ending"
    /\ activeCalls' = activeCalls \ {closer[p].call}
    /\ closer' = [closer EXCEPT ![p].step = "failed"]
    /\ UNCHANGED <<socket, onlineUsers, record, initiate, late>>

\* endCall rejects: the handler logs the error and stops, a disconnect's with the rest of
\* its walk undone.
CloserFails(p) ==
    /\ closer[p].step = "ending"
    /\ closer' = [closer EXCEPT ![p].step = "failed"]
    /\ UNCHANGED <<socket, onlineUsers, activeCalls, record, initiate, late>>

Next ==
    \/ \E k \in Sockets :
        \/ Connect(k)
        \/ Disconnect(k)
        \/ CleanupNext(k)
    \/ \E c \in Calls :
        \/ \E k \in Sockets, u \in Users : InitiateStart(c, k, u)
        \/ InitiateCheck(c)
        \/ InitiateCreate(c)
        \/ InitiateRegister(c)
        \/ InitiateFails(c)
    \/ \E h \in HangUps :
        \/ \E c \in Calls : HangUp(h, c)
        \/ HangUpFinish(h)
    \/ \E p \in Closers : EndCall(p) \/ CloserFails(p)

\* A database call is answered in the end, and the event loop runs what waited for it.
Fairness ==
    /\ \A p \in Closers : WF_vars(EndCall(p) \/ CloserFails(p))
    /\ \A k \in Sockets : WF_vars(CleanupNext(k))

Spec == Init /\ [][Next]_vars /\ Fairness

-----------------------------------------------------------------------------
TypeOK ==
    /\ socket \in [Sockets -> {"new", "open", "closed"}]
    /\ onlineUsers \in [Users -> Sockets \cup {None}]
    /\ activeCalls \subseteq Calls
    /\ record \in [Calls -> {"none", "open", "ended"}]
    /\ initiate \in [Calls -> [step : InitiateSteps, caller : Users \cup {None},
                               receiver : Users \cup {None}]]
    /\ closer \in [Closers -> [step : CloserSteps, user : Users \cup {None},
                               call : Calls \cup {None}]]
    /\ late \subseteq Calls

\* What every emit relies on: the socket onlineUsers gives for a user is open and is that
\* user's, however the sockets of one user overlap and in whatever order they close.
OnlineSocketIsOpen ==
    \A u \in Users : Online(u) => socket[onlineUsers[u]] = "open" /\ Owner[onlineUsers[u]] = u

\* A handler of handleDisconnect that is still at work for user u, or gave up.
CleaningUpAfter(u) ==
    \E k \in Sockets : closer[k].user = u /\ closer[k].step \in {"ending", "ended", "failed"}

\* No call outlives its parties: a registered call whose party is offline is being cleaned
\* up after that party, unless the party was gone before the call was registered or the
\* database refused to end a call of that party.
AbandonedCallsAreCleanedUp ==
    \A c \in activeCalls \ late : \A u \in Parties(c) : Online(u) \/ CleaningUpAfter(u)

\* A handler between its endCall and the delete that follows.
Forgetting(c) == \E p \in Closers : closer[p].call = c /\ closer[p].step = "ended"

\* The map and the records agree: an open record is an active call, or one about to be
\* registered; an active call is open, or a handler that ended it is about to drop it.
RecordsMatchMap ==
    \A c \in Calls :
        /\ record[c] = "open" => c \in activeCalls \/ initiate[c].step = "created"
        /\ c \in activeCalls => record[c] = "open" \/ Forgetting(c)

\* When a party goes offline its calls end, or the database refuses to end one.
PeerLossEndsCall ==
    \A c \in Calls, u \in Users :
        (c \in activeCalls \ late /\ u \in Parties(c) /\ ~Online(u))
            ~> \/ c \notin activeCalls
               \/ \E k \in Sockets : closer[k].user = u /\ closer[k].step = "failed"
=============================================================================
