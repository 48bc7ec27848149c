----------------------------- MODULE GroupCall -----------------------------
(***************************************************************************)
(* Group calls in CallGateway, beside its one-to-one calls and on the same *)
(* sockets: the map activeGroupCalls with the set of participants of each  *)
(* call, the call records in MongoDB, and the chat message that shows a    *)
(* call as active until it is completed.  GatewaySpec is the whole of the  *)
(* gateway.                                                                *)
(*                                                                         *)
(* groupcall:leave and groupcall:end take the call out of the map before   *)
(* they wait for the database, unlike the handlers of one-to-one calls.    *)
(* handleDisconnect leaves group calls alone; call:end and call:reject do  *)
(* not, since endCall takes any id.                                        *)
(***************************************************************************)
EXTENDS CallGateway

CONSTANTS
    GroupCalls,   \* ids of group calls; each is made by one groupcall:initiate
    GroupClosers  \* groupcall:leave and groupcall:end messages that close a call

ASSUME GroupCallAssumption == None \notin GroupCalls

VARIABLES
    activeGroupCalls,   \* the ids that are keys of the map
    participants,       \* the set each entry holds
    groupRecord,        \* the call records: none, open or ended
    groupInitiate,      \* the groupcall:initiate handler of each call
    closing,            \* the handlers that took a call out of the map
    message,            \* callStatus of the chat message of each call, and if it came late
    hungUp              \* the calls named in a call:end or call:reject so far

groupVars == <<activeGroupCalls, participants, groupRecord, groupInitiate, closing, message,
               hungUp>>

gatewayVars == <<vars, groupVars>>

GatewayInit ==
    /\ Init
    /\ activeGroupCalls = {}
    /\ participants = [g \in GroupCalls |-> {}]
    /\ groupRecord = [g \in GroupCalls |-> "none"]
    /\ groupInitiate = [g \in GroupCalls |-> [step |-> "new", host |-> None, asked |-> {},
                                              notified |-> {}]]
    /\ closing = [h \in GroupClosers |-> [step |-> "new", call |-> None]]
    /\ message = [g \in GroupCalls |-> "none"]
    /\ hungUp = {}

\* A user who has a socket open may send, online or not.
Connected == {u \in Users : \E k \in Sockets : socket[k] = "open" /\ Owner[k] = u}

(***************************************************************************)
(* groupcall:initiate                                                      *)
(***************************************************************************)

\* The host asks a set of users; the record is created first.
GroupStart(g, host, asked) ==
    /\ groupInitiate[g].step = "new"
    /\ host \in Connected
    /\ groupInitiate' = [groupInitiate EXCEPT
         ![g] = [step |-> "creating", host |-> host,
                 asked |-> asked, notified |-> {}]]
    /\ UNCHANGED <<vars, activeGroupCalls, participants, groupRecord, closing, message, hungUp>>

GroupCreate(g) ==
    /\ groupInitiate[g].step = "creating"
    /\ groupRecord' = [groupRecord EXCEPT ![g] = "open"]
    /\ groupInitiate' = [groupInitiate EXCEPT ![g].step = "inviting"]
    /\ UNCHANGED <<vars, activeGroupCalls, participants, closing, message, hungUp>>

\* One turn of the loop over the users asked: whether u is online is read before the wait
\* for u's settings, which may turn the notification off.
GroupInvite(g, u) ==
    /\ groupInitiate[g].step = "inviting"
    /\ u \in groupInitiate[g].asked
    /\ \E notified \in {groupInitiate[g].notified} \cup
                       (IF Online(u) THEN {groupInitiate[g].notified \cup {u}} ELSE {}) :
          groupInitiate' = [groupInitiate EXCEPT ![g].asked = @ \ {u}, ![g].notified = notified]
    /\ UNCHANGED <<vars, activeGroupCalls, participants, groupRecord, closing, message, hungUp>>

\* The participants a call starts with.
FirstParticipants(g) == {groupInitiate[g].host} \cup groupInitiate[g].notified

\* All have been asked: the call goes into the map, and the clients learn its id.
GroupRegister(g) ==
    /\ groupInitiate[g].step = "inviting"
    /\ groupInitiate[g].asked = {}
    /\ activeGroupCalls' = activeGroupCalls \cup {g}
    /\ participants' = [participants EXCEPT ![g] = FirstParticipants(g)]
    /\ groupInitiate' = [groupInitiate EXCEPT ![g].step = "registered", ![g].notified = {}]
    /\ UNCHANGED <<vars, groupRecord, closing, message, hungUp>>

\* createCall or a settings query rejects.
GroupFails(g) ==
    /\ groupInitiate[g].step \in {"creating", "inviting"}
    /\ groupInitiate' = [groupInitiate EXCEPT ![g].step = "failed", ![g].asked = {},
                                                 ![g].notified = {}]
    /\ UNCHANGED <<vars, activeGroupCalls, participants, groupRecord, closing, message, hungUp>>

(***************************************************************************)
(* groupcall:join, groupcall:leave and groupcall:end, and the message.     *)
(***************************************************************************)

\* Anyone who knows the id may join while the map has the call.
Join(g, u) ==
    /\ u \in Connected
    /\ g \in activeGroupCalls
    /\ participants' = [participants EXCEPT ![g] = @ \cup {u}]
    /\ UNCHANGED <<vars, activeGroupCalls, groupRecord, groupInitiate, closing, message, hungUp>>

\* Mutant: the entry stays in the map while the record is ended, and after.
MapWithout_Kept(g) == activeGroupCalls

\* The map once the entry of g is deleted, which is done before any wait.
MapWithout(g) == activeGroupCalls \ {g}

\* Handler h closes g and waits for endCall.
Close(h, g) ==
    /\ closing[h].step = "new"
    /\ activeGroupCalls' = MapWithout(g)
    /\ closing' = [closing EXCEPT ![h] = [step |-> "ending", call |-> g]]

\* Mutant: the last one to leave does not close the call.
ClosesOnLeave_Never(left) == FALSE

\* Whether groupcall:leave closes the call it leaves with these participants.
ClosesOnLeave(left) == left = {}

\* groupcall:leave; the entry is kept while somebody is left.
Leave(h, g, u) ==
    /\ u \in Connected
    /\ g \in activeGroupCalls
    /\ LET left == participants[g] \ {u}
       IN  /\ participants' = [participants EXCEPT ![g] = left]
           /\ IF ClosesOnLeave(left) THEN Close(h, g)
              ELSE UNCHANGED <<activeGroupCalls, closing>>
    /\ UNCHANGED <<vars, groupRecord, groupInitiate, message, hungUp>>

\* groupcall:end, which only the host may send.
End(h, g) ==
    /\ groupInitiate[g].host \in Connected
    /\ g \in activeGroupCalls
    /\ Close(h, g)
    /\ UNCHANGED <<vars, participants, groupRecord, groupInitiate, message, hungUp>>

\* Mutant: the last one to leave takes the call out of the map and the record stays open.
EndGroupCall_Forgotten(h) ==
    /\ closing[h].step = "ending"
    /\ closing' = [closing EXCEPT ![h].step = "ended"]
    /\ UNCHANGED <<vars, activeGroupCalls, participants, groupRecord, groupInitiate, message,
                   hungUp>>

\* endCall stamps the record.
EndGroupCall(h) ==
    /\ closing[h].step = "ending"
    /\ groupRecord' = [groupRecord EXCEPT ![closing[h].call] = "ended"]
    /\ closing' = [closing EXCEPT ![h].step = "ended"]
    /\ UNCHANGED <<vars, activeGroupCalls, participants, groupInitiate, message, hungUp>>

\* Mutant: the message is looked up by another status.
Completed_Nothing(status) == status

\* Mutant: the message takes over the word of the record.
Completed_Ended(status) == IF status \in {"active", "late"} THEN "ended" ELSE status

\* What completeActiveCallMessage makes of the message it finds, which must be active.
Completed(status) == IF status \in {"active", "late"} THEN "completed" ELSE status

\* Mutant: endCall is not awaited.
CompleteStep_Early == "ending"

\* The step after which the message is completed.
CompleteStep == "ended"

CompleteMessage(h) ==
    /\ closing[h].step = CompleteStep
    /\ message' = [message EXCEPT ![closing[h].call] = Completed(@)]
    /\ closing' = [closing EXCEPT ![h].step = "done"]
    /\ UNCHANGED <<vars, activeGroupCalls, participants, groupRecord, groupInitiate, hungUp>>

\* endCall rejects and the handler stops; or the message cannot be completed, which is
\* logged.
ClosingFails(h) ==
    /\ closing[h].step \in {"ending", "ended"}
    /\ closing' = [closing EXCEPT ![h].step = "failed"]
    /\ UNCHANGED <<vars, activeGroupCalls, participants, groupRecord, groupInitiate, message,
                   hungUp>>

\* The host's client posts the chat message of the call once it knows the id: late if the
\* call has left the map by the time the message is stored.
PostMessage(g) ==
    /\ groupInitiate[g].step = "registered"
    /\ message[g] = "none"
    /\ message' = [message EXCEPT ![g] = IF g \in activeGroupCalls THEN "active" ELSE "late"]
    /\ UNCHANGED <<vars, activeGroupCalls, participants, groupRecord, groupInitiate, closing,
                   hungUp>>

(***************************************************************************)
(* call:end and call:reject with the id of a group call: the handler asks  *)
(* neither for a party nor for the kind of call, so the record is ended    *)
(* and the map keeps the call, which is no key of activeCalls.             *)
(***************************************************************************)

\* The id has been told and somebody has a socket open.
HangUpGroup(g) ==
    /\ groupInitiate[g].step = "registered"
    /\ Connected # {}
    /\ hungUp' = hungUp \cup {g}
    /\ UNCHANGED <<vars, activeGroupCalls, participants, groupRecord, groupInitiate, closing,
                   message>>

\* endCall, in the handler of such a message.
HangUpEndsGroup(g) ==
    /\ g \in hungUp
    /\ groupRecord' = [groupRecord EXCEPT ![g] = "ended"]
    /\ UNCHANGED <<vars, activeGroupCalls, participants, groupInitiate, closing, message, hungUp>>

GroupStep ==
    \/ \E g \in GroupCalls :
        \/ \E host \in Users : \E asked \in SUBSET (Users \ {host}) : GroupStart(g, host, asked)
        \/ GroupCreate(g)
        \/ \E u \in Users : GroupInvite(g, u)
        \/ GroupRegister(g)
        \/ GroupFails(g)
        \/ \E u \in Users : Join(g, u)
        \/ \E h \in GroupClosers, u \in Users : Leave(h, g, u)
        \/ \E h \in GroupClosers : End(h, g)
        \/ PostMessage(g)
        \/ HangUpGroup(g)
        \/ HangUpEndsGroup(g)
    \/ \E h \in GroupClosers : EndGroupCall(h) \/ CompleteMessage(h) \/ ClosingFails(h)

\* Sockets come and go, and one-to-one calls are made and ended, beside the group calls.
GatewayNext == GroupStep \/ (Next /\ UNCHANGED groupVars)

\* A database call is answered in the end.
GroupFairness ==
    \A h \in GroupClosers :
        WF_gatewayVars(EndGroupCall(h) \/ CompleteMessage(h) \/ ClosingFails(h))

GatewaySpec == GatewayInit /\ [][GatewayNext]_gatewayVars /\ Fairness /\ GroupFairness

-----------------------------------------------------------------------------
GroupTypeOK ==
    /\ activeGroupCalls \subseteq GroupCalls
    /\ participants \in [GroupCalls -> SUBSET Users]
    /\ groupRecord \in [GroupCalls -> {"none", "open", "ended"}]
    /\ groupInitiate \in
         [GroupCalls -> [step : {"new", "creating", "inviting", "registered", "failed"},
                         host : Users \cup {None}, asked : SUBSET Users,
                         notified : SUBSET Users]]
    /\ closing \in [GroupClosers -> [step : {"new", "ending", "ended", "done", "failed"},
                                     call : GroupCalls \cup {None}]]
    /\ message \in [GroupCalls -> {"none", "active", "late", "completed"}]
    /\ hungUp \subseteq GroupCalls

\* The map never keeps a call that everybody has left, whoever joins and leaves meanwhile.
ActiveMeansPopulated == \A g \in activeGroupCalls : participants[g] # {}

\* Of the last participant leaving and the host ending, only one ends a call.
ClosedOnce ==
    \A h1, h2 \in GroupClosers :
        closing[h1].call = closing[h2].call /\ closing[h1].call # None => h1 = h2

\* The map and the records agree: a call in the map is open unless a call:end or call:reject
\* named it, and an open record is a call in the map, one being set up or closed, or one
\* whose handler failed.
GroupRecordsMatchMap ==
    \A g \in GroupCalls :
        /\ g \in activeGroupCalls => groupRecord[g] = "open" \/ g \in hungUp
        /\ groupRecord[g] = "open" =>
             \/ g \in activeGroupCalls
             \/ groupInitiate[g].step \in {"inviting", "failed"}
             \/ \E h \in GroupClosers : /\ closing[h].call = g
                                       /\ closing[h].step \in {"ending", "failed"}

\* What the chat says of a call is so: when its message shows it as completed its record has
\* been ended and nobody can join it any more, whichever handler closed it, and whatever
\* failed or hung up in between.
CompletedCallIsOver ==
    \A g \in GroupCalls :
        message[g] = "completed" => groupRecord[g] = "ended" /\ g \notin activeGroupCalls

\* A message posted while its call was in the map does not show it as active for ever once
\* the call is closed, unless the database fails.
MessageIsCompleted ==
    \A g \in GroupCalls :
        (message[g] = "active" /\ g \notin activeGroupCalls)
            ~> \/ message[g] = "completed"
               \/ \E h \in GroupClosers : closing[h].call = g /\ closing[h].step = "failed"
=============================================================================
