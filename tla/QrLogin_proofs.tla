--------------------------- MODULE QrLogin_proofs ---------------------------
(***************************************************************************)
(* Proofs about QrLogin for any sessions, accounts, requests, lifetime and *)
(* clock: the types, the agreement of the two maps, and the implementation *)
(* of the tickets of QrTicket.                                             *)
(***************************************************************************)
EXTENDS QrLogin, TLAPS

\* The initial state satisfies the inductive invariant.
LEMMA InitSound == Init => IInv
  BY QrAssumption DEF Init, IInv, TypeOK, MapsAgree, ObjectsSound, ConfirmationsSound,
                      Running, Confirmation, Object, Answers, Steps

\* A cleanup keeps exactly the live entries, and of two maps that agree it makes two
\* that agree and hold no expired entry.
LEMMA CleanupFacts ==
  ASSUME TypeOK, MapsAgree
  PROVE  /\ SessionsKept \subseteq qrLoginSessions
         /\ TokensKept \subseteq qrLoginTokens
         /\ \A s \in SessionsKept : s \in Sessions /\ expiresAt[s] > now
         /\ TokensKept = SessionsKept
         /\ \A s \in qrLoginTokens \ TokensKept : expiresAt[s] <= now
  BY DEF TypeOK, MapsAgree, SessionsKept, TokensKept, Expired

\* Every step preserves the types.
LEMMA TypeStep ==
  ASSUME IInv, [Next]_vars
  PROVE  TypeOK'
<1> USE QrAssumption DEF IInv, TypeOK, Steps
<1>1. ASSUME NEW s \in Sessions, Create(s)
      PROVE  TypeOK'
  BY <1>1 DEF Create, SessionsKept, TokensKept
<1>2. ASSUME NEW s \in Sessions, Poll(s)
      PROVE  TypeOK'
  BY <1>2 DEF Poll, SessionsKept, TokensKept, Object, Answers
<1>3. ASSUME NEW r \in Requests, NEW s \in Sessions, NEW u \in Users, ConfirmStart(r, s, u)
      PROVE  TypeOK'
  BY <1>3 DEF ConfirmStart, Failed, SessionsKept, TokensKept, Confirmation
<1>4. ASSUME NEW r \in Requests, ConfirmFind(r)
      PROVE  TypeOK'
  <2>1. confirm[r].user \in Users
    BY <1>4 DEF ConfirmFind, ConfirmationsSound, Running
  <2>2. [user |-> confirm[r].user, iat |-> now] \in Logins
    BY <2>1 DEF Logins
  <2> DEFINE q == [confirm[r] EXCEPT !.step = "saving",
                                     !.login = [user |-> confirm[r].user, iat |-> now]]
  <2>3. q \in Confirmation
    BY <2>2 DEF Confirmation
  <2>4. confirm' = [confirm EXCEPT ![r] = q]
    BY <1>4 DEF ConfirmFind
  <2> HIDE DEF q
  <2> QED BY <1>4, <2>3, <2>4 DEF ConfirmFind
<1>5. ASSUME NEW r \in Requests, ConfirmSave(r)
      PROVE  TypeOK'
  <2>1. confirm[r].user \in Users /\ confirm[r].login \in Logins
    BY <1>5 DEF ConfirmSave, ConfirmationsSound, Running
  <2> QED BY <1>5, <2>1 DEF ConfirmSave, SaveWeb, Saved, Confirmation
<1>6. ASSUME NEW r \in Requests, ConfirmPublish(r)
      PROVE  TypeOK'
  <2>1. confirm[r].session \in Sessions /\ confirm[r].login \in Logins
    BY <1>6 DEF ConfirmPublish, PublishStep, ConfirmationsSound, Running
  <2>2. [status |-> "confirmed", data |-> confirm[r].login] \in Object
    BY <2>1 DEF Object
  <2> QED BY <1>6, <2>1, <2>2 DEF ConfirmPublish, PublishKey, Confirmation
<1>7. ASSUME NEW r \in Requests, ConfirmThrows(r)
      PROVE  TypeOK'
  BY <1>7 DEF ConfirmThrows, Failed, Confirmation
<1>8. CASE Tick
  BY <1>8 DEF Tick
<1>9. CASE Restart
  BY <1>9 DEF Restart, Failed, Confirmation
<1>10. CASE UNCHANGED vars
  BY <1>10 DEF vars
<1>11. ASSUME NEW u \in Users, OtherSave(u)
       PROVE  TypeOK'
  <2>1. \A r \in Requests : confirm[r].login \in Logins \cup {None}
    BY DEF Confirmation
  <2> QED BY <1>11, <2>1 DEF OtherSave, SaveWeb, Saved
<1> QED
  BY <1>1, <1>2, <1>3, <1>4, <1>5, <1>6, <1>7, <1>8, <1>9, <1>10, <1>11 DEF Next

\* Every step preserves the agreement of the maps and what the handlers know.
LEMMA MapsStep ==
  ASSUME IInv, [Next]_vars, TypeOK'
  PROVE  MapsAgree' /\ ObjectsSound' /\ ConfirmationsSound'
<1> DEFINE Goal == MapsAgree' /\ ObjectsSound' /\ ConfirmationsSound'
<1> USE QrAssumption DEF IInv
<1>k. /\ SessionsKept \subseteq qrLoginSessions
      /\ TokensKept \subseteq qrLoginTokens
      /\ \A s \in SessionsKept : s \in Sessions /\ expiresAt[s] > now
      /\ TokensKept = SessionsKept
      /\ \A s \in qrLoginTokens \ TokensKept : expiresAt[s] <= now
  BY CleanupFacts
<1>1. ASSUME NEW s \in Sessions, Create(s)
      PROVE  Goal
  <2>1. MapsAgree'
    BY <1>1, <1>k DEF Create, MapsAgree
  <2>2. ObjectsSound'
    BY <1>1, <1>k DEF Create, ObjectsSound, TypeOK
  <2>3. ConfirmationsSound'
    BY <1>1, <1>k DEF Create, ConfirmationsSound, Running, TypeOK
  <2> QED BY <2>1, <2>2, <2>3
<1>2. ASSUME NEW s \in Sessions, Poll(s)
      PROVE  Goal
  BY <1>2, <1>k DEF Poll, MapsAgree, ObjectsSound, ConfirmationsSound, Running, TypeOK
<1>3. ASSUME NEW r \in Requests, NEW s \in Sessions, NEW u \in Users, ConfirmStart(r, s, u)
      PROVE  Goal
  <2>1. MapsAgree' /\ ObjectsSound'
    BY <1>3, <1>k DEF ConfirmStart, MapsAgree, ObjectsSound, TypeOK
  <2>2. ConfirmationsSound'
    BY <1>3, <1>k DEF ConfirmStart, Confirmable, Failed, ConfirmationsSound, Running, TypeOK
  <2> QED BY <2>1, <2>2
<1>4. ASSUME NEW r \in Requests, ConfirmFind(r)
      PROVE  Goal
  BY <1>4 DEF ConfirmFind, MapsAgree, ObjectsSound, ConfirmationsSound, Running, TypeOK, Logins
<1>5. ASSUME NEW r \in Requests, ConfirmSave(r)
      PROVE  Goal
  BY <1>5 DEF ConfirmSave, MapsAgree, ObjectsSound, ConfirmationsSound, Running, TypeOK
<1>6. ASSUME NEW r \in Requests, ConfirmPublish(r)
      PROVE  Goal
  <2>1. /\ confirm[r].session \in Sessions
        /\ expiresAt[confirm[r].session] # 0
        /\ \/ confirm[r].session \in qrLoginTokens
           \/ expiresAt[confirm[r].session] <= now
    BY <1>6 DEF ConfirmPublish, PublishStep, ConfirmationsSound, Running
  <2>2. MapsAgree' /\ ObjectsSound'
    BY <1>6, <2>1 DEF ConfirmPublish, PublishKey, MapsAgree, ObjectsSound, TypeOK
  <2>3. ConfirmationsSound'
    BY <1>6 DEF ConfirmPublish, ConfirmationsSound, Running, TypeOK
  <2> QED BY <2>2, <2>3
<1>7. ASSUME NEW r \in Requests, ConfirmThrows(r)
      PROVE  Goal
  BY <1>7 DEF ConfirmThrows, Failed, MapsAgree, ObjectsSound, ConfirmationsSound, Running, TypeOK
<1>8. CASE Tick
  BY <1>8 DEF Tick, MapsAgree, ObjectsSound, ConfirmationsSound, Running, TypeOK
<1>9. CASE Restart
  <2>1. Running' = {}
    BY <1>9 DEF Restart, Failed, Running, TypeOK
  <2> QED BY <1>9, <2>1 DEF Restart, MapsAgree, ObjectsSound, ConfirmationsSound
<1>10. CASE UNCHANGED vars
  BY <1>10 DEF vars, MapsAgree, ObjectsSound, ConfirmationsSound, Running
<1>11. ASSUME NEW u \in Users, OtherSave(u)
       PROVE  Goal
  BY <1>11 DEF OtherSave, MapsAgree, ObjectsSound, ConfirmationsSound, Running
<1> QED
  BY <1>1, <1>2, <1>3, <1>4, <1>5, <1>6, <1>7, <1>8, <1>9, <1>10, <1>11 DEF Next

\* The inductive invariant holds in every reachable state.
LEMMA InductiveInvariant == Spec => []IInv
<1>1. IInv /\ [Next]_vars => IInv'
  BY TypeStep, MapsStep DEF IInv
<1> QED BY <1>1, InitSound, PTL DEF Spec

\* The state of createQrLoginSession, getQrLoginSession and confirmQrLogin has the
\* types of its declarations.
THEOREM TypeCorrect == Spec => []TypeOK
  BY InductiveInvariant, PTL DEF IInv

\* qrLoginTokens never dangles, and a session that a late confirmation put back without
\* its token has expired.
THEOREM MapsAlwaysAgree == Spec => []MapsAgree
  BY InductiveInvariant, PTL DEF IInv

(***************************************************************************)
(* The implementation of QrTicket.                                         *)
(***************************************************************************)

\* The three variables of QrTicket under the refinement mapping.
Mapped == <<[s \in Sessions |-> TicketState(s)], [s \in Sessions |-> TicketData(s)], answer>>

\* What a cleanup keeps are the live entries.
LEMMA KeptAreLive == TypeOK => SessionsKept = Live
  BY DEF TypeOK, SessionsKept, Expired, Live

\* The maps start empty, as no ticket does.
LEMMA InitMaps == Init => Ticket!Init
  BY DEF Init, Ticket!Init, TicketState, TicketData, Live

\* A step that keeps the live entries, the objects and the answers is a stutter.
LEMMA Stutter ==
  ASSUME Live' = Live, UNCHANGED <<expiresAt, session, answer>>
  PROVE  UNCHANGED Mapped
  BY DEF Mapped, TicketState, TicketData

\* createQrLoginSession issues a ticket.
LEMMA CreateIssues ==
  ASSUME IInv, NEW s \in Sessions, Create(s)
  PROVE  Ticket!Issue(s)
<1>1. Live' = Live \cup {s} /\ s \notin Live
  BY QrAssumption, KeptAreLive DEF IInv, TypeOK, ObjectsSound, Create, Live
<1>2. \A t \in Sessions \ {s} : TicketState(t)' = TicketState(t) /\ TicketData(t)' = TicketData(t)
  BY <1>1 DEF Create, TicketState, TicketData, IInv, TypeOK
<1>3. /\ TicketState(s) = "none" /\ TicketState(s)' = "pending"
      /\ TicketData(s) = None /\ TicketData(s)' = None
  BY <1>1, QrAssumption DEF Create, TicketState, TicketData, IInv, TypeOK, ObjectsSound
<1> QED
  BY <1>2, <1>3 DEF Ticket!Issue, Create

\* getQrLoginSession answers with the state of the ticket, after it has cleaned up.
LEMMA PollAsks ==
  ASSUME IInv, NEW s \in Sessions, Poll(s)
  PROVE  Ticket!Ask(s)
<1>1. Live' = Live
  BY KeptAreLive DEF IInv, TypeOK, Poll, Live
<1>2. \A t \in Sessions : TicketState(t)' = TicketState(t) /\ TicketData(t)' = TicketData(t)
  BY <1>1 DEF Poll, TicketState, TicketData
<1>3. answer'= [answer EXCEPT ![s] = [status |-> TicketState(s), data |-> TicketData(s)]]
  <2>1. session[s] = [status |-> session[s].status, data |-> session[s].data]
    BY DEF IInv, TypeOK, Object
  <2>2. SessionsKept = Live
    BY KeptAreLive DEF IInv
  <2> QED BY <2>1, <2>2 DEF Poll, TicketState, TicketData
<1>4. TicketState(s) # "none"
  BY DEF Poll, TicketState, IInv, TypeOK, Object
<1> QED
  BY <1>2, <1>3, <1>4 DEF Ticket!Ask, Ticket!Answer

\* The last step of confirmQrLogin confirms a live ticket; on an expired one it changes
\* nothing that a browser can see.
LEMMA PublishConfirms ==
  ASSUME IInv, NEW r \in Requests, ConfirmPublish(r)
  PROVE  \/ \E s \in Sessions, d \in Logins : Ticket!Confirm(s, d)
         \/ UNCHANGED Mapped
<1>1. PICK s \in Sessions, d \in Logins :
        /\ s = confirm[r].session /\ d = confirm[r].login
        /\ expiresAt[s] # 0
        /\ s \in qrLoginTokens \/ expiresAt[s] <= now
  BY DEF IInv, ConfirmationsSound, Running, ConfirmPublish, PublishStep
<1>2. /\ session' = [session EXCEPT ![s] = [status |-> "confirmed", data |-> d]]
      /\ qrLoginSessions' = qrLoginSessions \cup {s}
      /\ UNCHANGED <<now, expiresAt, answer>>
  BY <1>1 DEF ConfirmPublish, PublishKey
<1>3. Live' = Live
  BY <1>1, <1>2 DEF IInv, TypeOK, MapsAgree, Live
<1>4. \A t \in Sessions \ {s} : TicketState(t)' = TicketState(t) /\ TicketData(t)' = TicketData(t)
  BY <1>2, <1>3 DEF TicketState, TicketData, IInv, TypeOK
<1>5. CASE s \in Live
  <2>1. TicketState(s) \in {"pending", "confirmed"}
    BY <1>1, <1>5 DEF TicketState, IInv, TypeOK, Object
  <2>2. TicketState(s)' = "confirmed" /\ TicketData(s)' = d
    BY <1>1, <1>2, <1>3, <1>5 DEF TicketState, TicketData, IInv, TypeOK
  <2>3. Ticket!Confirm(s, d)
    BY <1>1, <1>2, <1>4, <2>1, <2>2 DEF Ticket!Confirm
  <2> QED BY <1>1, <2>3
<1>6. CASE s \notin Live
  <2>1. TicketState(s)' = TicketState(s) /\ TicketData(s)' = TicketData(s)
    BY <1>1, <1>2, <1>3, <1>6 DEF TicketState, TicketData
  <2> QED BY <1>2, <1>4, <2>1 DEF Mapped
<1> QED
  BY <1>5, <1>6

\* Codes that leave the live entries, and nothing else that shows, have expired.
LEMMA LosingLiveExpires ==
  ASSUME IInv, Live' \subseteq Live, UNCHANGED <<expiresAt, session, answer>>
  PROVE  Ticket!Expire(Live \ Live')
<1> DEFINE S == Live \ Live'
<1>1. \A s \in S : s \in Sessions /\ expiresAt[s] # 0
  BY DEF IInv, TypeOK, ObjectsSound, Live
<1>2. \A s \in S : /\ TicketState(s) \in {"pending", "confirmed"}
                   /\ TicketState(s)' = "expired" /\ TicketData(s)' = None
  BY <1>1 DEF TicketState, TicketData, IInv, TypeOK, Object
<1>3. \A s \in Sessions \ S : TicketState(s)' = TicketState(s) /\ TicketData(s)' = TicketData(s)
  BY DEF TicketState, TicketData
<1> HIDE DEF S
<1>4. Ticket!Expire(S)
  BY <1>1, <1>2, <1>3 DEF Ticket!Expire
<1> QED
  BY <1>4 DEF S

\* Every step of the service is a step of the tickets or none.
LEMMA StepMaps ==
  ASSUME IInv, [Next]_vars
  PROVE  [Ticket!Next]_Mapped
<1> USE DEF Ticket!Next
<1>1. ASSUME NEW s \in Sessions, Create(s)
      PROVE  Ticket!Next
  BY <1>1, CreateIssues
<1>2. ASSUME NEW s \in Sessions, Poll(s)
      PROVE  Ticket!Next
  BY <1>2, PollAsks
<1>3. ASSUME NEW r \in Requests, NEW s \in Sessions, NEW u \in Users, ConfirmStart(r, s, u)
      PROVE  UNCHANGED Mapped
  <2>1. Live' = Live
    BY <1>3, KeptAreLive DEF IInv, TypeOK, ConfirmStart, Live
  <2> QED BY <1>3, <2>1, Stutter DEF ConfirmStart
<1>4. ASSUME NEW r \in Requests, ConfirmFind(r) \/ ConfirmSave(r) \/ ConfirmThrows(r)
      PROVE  UNCHANGED Mapped
  <2>1. UNCHANGED <<now, expiresAt, session, qrLoginSessions, answer>>
    BY <1>4 DEF ConfirmFind, ConfirmSave, ConfirmThrows
  <2>2. Live' = Live
    BY <2>1 DEF Live
  <2> QED BY <2>1, <2>2, Stutter
<1>5. ASSUME NEW r \in Requests, ConfirmPublish(r)
      PROVE  Ticket!Next \/ UNCHANGED Mapped
  BY <1>5, PublishConfirms
<1>6. CASE Tick
  <2>1. Live' \subseteq Live
    BY <1>6 DEF IInv, TypeOK, Tick, Live
  <2>2. Live \ Live' \in SUBSET Sessions
    BY DEF IInv, TypeOK, Live
  <2> QED BY <1>6, <2>1, <2>2, LosingLiveExpires DEF Tick
<1>7. CASE Restart
  <2>1. Live' \subseteq Live
    BY <1>7 DEF Restart, Live
  <2>2. Live \ Live' \in SUBSET Sessions
    BY DEF IInv, TypeOK, Live
  <2> QED BY <1>7, <2>1, <2>2, LosingLiveExpires DEF Restart
<1>8. CASE UNCHANGED vars
  <2>1. UNCHANGED <<now, expiresAt, session, qrLoginSessions, answer>>
    BY <1>8 DEF vars
  <2>2. Live' = Live
    BY <2>1 DEF Live
  <2> QED BY <2>1, <2>2, Stutter
<1>9. ASSUME NEW u \in Users, OtherSave(u)
      PROVE  UNCHANGED Mapped
  <2>1. UNCHANGED <<now, expiresAt, session, qrLoginSessions, answer>>
    BY <1>9 DEF OtherSave
  <2>2. Live' = Live
    BY <2>1 DEF Live
  <2> QED BY <2>1, <2>2, Stutter
<1> QED
  BY <1>1, <1>2, <1>3, <1>4, <1>5, <1>6, <1>7, <1>8, <1>9 DEF Next

\* The two maps, the shared session objects and the cleanups on entry implement the
\* tickets: no browser is ever given a stale or an expired login.
THEOREM ServiceImplementsTickets == Spec => ImplementsTickets
<1>1. IInv /\ [Next]_vars => [Ticket!Next]_Mapped
  BY StepMaps
<1> QED
  BY <1>1, InitMaps, InductiveInvariant, PTL DEF Spec, ImplementsTickets, Ticket!Spec, Mapped

(***************************************************************************)
(* Where a login comes from.                                               *)
(***************************************************************************)

\* Some confirmation of s ended with login d.
ConfirmedWith(s, d) ==
    \E r \in Requests : /\ confirm[r].session = s
                        /\ confirm[r].login = d
                        /\ confirm[r].step = "done"

\* Once a confirmation has saved its login, that user's row holds it until another save of
\* the row replaces it.
LoginsKept ==
    \A r \in Requests :
        confirm[r].step \in {"saved", "done"} =>
            /\ confirm[r].user \in Users
            /\ web[confirm[r].user] = confirm[r].login \/ r \in displaced

\* What the session objects and the browsers hold was confirmed.
DataConfirmed ==
    \A s \in Sessions :
        /\ session[s].data # None => ConfirmedWith(s, session[s].data)
        /\ answer[s].data # None => ConfirmedWith(s, answer[s].data)

\* Whatever save replaces a login in a row records it.
LEMMA SaveWebRecords ==
  ASSUME TypeOK, LoginsKept, NEW u \in Users, NEW t, SaveWeb(u, t),
         NEW r \in Requests, confirm[r].step \in {"saved", "done"}
  PROVE  web'[confirm[r].user] = confirm[r].login \/ r \in displaced'
  BY DEF TypeOK, LoginsKept, SaveWeb, Saved

\* Every step keeps the saved logins in their rows or records who lost theirs.
LEMMA LoginsStep ==
  ASSUME IInv, LoginsKept, [Next]_vars
  PROVE  LoginsKept'
<1> USE QrAssumption DEF IInv
<1>1. ASSUME UNCHANGED <<web, displaced>>,
             \A r \in Requests :
                 confirm'[r].step \in {"saved", "done"} =>
                     /\ confirm[r].step \in {"saved", "done"}
                     /\ confirm'[r].user = confirm[r].user
                     /\ confirm'[r].login = confirm[r].login
      PROVE  LoginsKept'
  BY <1>1 DEF LoginsKept
<1>2. ASSUME NEW r \in Requests, NEW s \in Sessions, NEW u \in Users, ConfirmStart(r, s, u)
      PROVE  LoginsKept'
  BY <1>1, <1>2 DEF ConfirmStart, Failed, TypeOK
<1>3. ASSUME NEW r \in Requests, ConfirmFind(r)
      PROVE  LoginsKept'
  <2>1. /\ confirm'[r].step = "saving"
        /\ \A q \in Requests \ {r} : confirm'[q] = confirm[q]
    BY <1>3 DEF ConfirmFind, TypeOK, Confirmation
  <2> QED BY <1>1, <1>3, <2>1 DEF ConfirmFind
<1>4. ASSUME NEW r \in Requests, ConfirmSave(r)
      PROVE  LoginsKept'
  <2>1. confirm[r].user \in Users /\ SaveWeb(confirm[r].user, confirm[r].login)
    BY <1>4 DEF ConfirmSave, ConfirmationsSound, Running
  <2>2. /\ confirm'[r].user = confirm[r].user /\ confirm'[r].login = confirm[r].login
        /\ \A q \in Requests \ {r} : confirm'[q] = confirm[q]
    BY <1>4 DEF ConfirmSave, TypeOK, Confirmation
  <2>3. web'[confirm[r].user] = confirm[r].login
    BY <2>1 DEF SaveWeb, TypeOK
  <2>4. ASSUME NEW q \in Requests \ {r}, confirm[q].step \in {"saved", "done"}
        PROVE  web'[confirm[q].user] = confirm[q].login \/ q \in displaced'
    BY <2>1, <2>4, SaveWebRecords
  <2>5. \A q \in Requests \ {r} : confirm[q].step \in {"saved", "done"} => confirm[q].user \in Users
    BY DEF LoginsKept
  <2> QED BY <2>1, <2>2, <2>3, <2>4, <2>5 DEF LoginsKept
<1>5. ASSUME NEW r \in Requests, ConfirmPublish(r)
      PROVE  LoginsKept'
  <2>1. /\ confirm[r].step = "saved"
        /\ confirm'[r].user = confirm[r].user /\ confirm'[r].login = confirm[r].login
        /\ \A q \in Requests \ {r} : confirm'[q] = confirm[q]
    BY <1>5 DEF ConfirmPublish, PublishStep, TypeOK, Confirmation
  <2> QED BY <1>1, <1>5, <2>1 DEF ConfirmPublish
<1>6. ASSUME NEW r \in Requests, ConfirmThrows(r)
      PROVE  LoginsKept'
  BY <1>1, <1>6 DEF ConfirmThrows, Failed, TypeOK
<1>7. CASE Restart
  BY <1>1, <1>7 DEF Restart, Failed
<1>8. ASSUME NEW u \in Users, OtherSave(u)
      PROVE  LoginsKept'
  <2>1. PICK t : SaveWeb(u, t)
    BY <1>8 DEF OtherSave
  <2>2. confirm' = confirm
    BY <1>8 DEF OtherSave
  <2> QED BY <2>1, <2>2, SaveWebRecords DEF LoginsKept
<1>9. ASSUME UNCHANGED <<confirm, web, displaced>>
      PROVE  LoginsKept'
  BY <1>1, <1>9
<1> QED
  BY <1>2, <1>3, <1>4, <1>5, <1>6, <1>7, <1>8, <1>9 DEF Next, Create, Poll, Tick, vars

\* Every step hands on only what was confirmed.
LEMMA DataStep ==
  ASSUME IInv, DataConfirmed, [Next]_vars
  PROVE  DataConfirmed'
<1> USE QrAssumption DEF IInv, TypeOK
<1>1. ASSUME \A r \in Requests : confirm[r].step = "done" => confirm'[r] = confirm[r],
             UNCHANGED <<session, answer>>
      PROVE  DataConfirmed'
  BY <1>1 DEF DataConfirmed, ConfirmedWith
<1>2. ASSUME NEW s \in Sessions, Poll(s)
      PROVE  DataConfirmed'
  <2>1. /\ UNCHANGED <<session, confirm>>
        /\ answer'[s].data \in {session[s].data, None}
        /\ \A t \in Sessions \ {s} : answer'[t] = answer[t]
    BY <1>2 DEF Poll
  <2> QED BY <2>1 DEF DataConfirmed, ConfirmedWith
<1>3. ASSUME NEW r \in Requests, ConfirmPublish(r)
      PROVE  DataConfirmed'
  <2>1. /\ confirm'[r].step = "done"
        /\ confirm'[r].session = confirm[r].session /\ confirm'[r].login = confirm[r].login
        /\ \A q \in Requests \ {r} : confirm'[q] = confirm[q]
        /\ confirm[r].step = "saved"
        /\ answer' = answer
    BY <1>3 DEF ConfirmPublish, PublishStep, Confirmation
  <2>2. \A s \in Sessions :
          session'[s].data = IF s = confirm[r].session THEN confirm[r].login ELSE session[s].data
    BY <1>3 DEF ConfirmPublish, Object
  <2>3. ASSUME NEW q \in Requests, confirm[q].step = "done"
        PROVE  confirm'[q] = confirm[q]
    BY <2>1, <2>3
  <2>4. ASSUME NEW s \in Sessions, session'[s].data # None
        PROVE  \E q \in Requests : /\ confirm'[q].session = s
                                   /\ confirm'[q].login = session'[s].data
                                   /\ confirm'[q].step = "done"
    <3>1. CASE s = confirm[r].session
      BY <2>1, <2>2, <3>1
    <3>2. CASE s # confirm[r].session
      <4>1. session'[s].data = session[s].data
        BY <2>2, <3>2
      <4>2. PICK q \in Requests : /\ confirm[q].session = s
                                  /\ confirm[q].login = session[s].data
                                  /\ confirm[q].step = "done"
        BY <2>4, <4>1 DEF DataConfirmed, ConfirmedWith
      <4> QED BY <2>3, <4>1, <4>2
    <3> QED BY <3>1, <3>2
  <2>5. ASSUME NEW s \in Sessions, answer'[s].data # None
        PROVE  \E q \in Requests : /\ confirm'[q].session = s
                                   /\ confirm'[q].login = answer'[s].data
                                   /\ confirm'[q].step = "done"
    <3>1. PICK q \in Requests : /\ confirm[q].session = s
                                /\ confirm[q].login = answer[s].data
                                /\ confirm[q].step = "done"
      BY <2>1, <2>5 DEF DataConfirmed, ConfirmedWith
    <3> QED BY <2>1, <2>3, <3>1
  <2> QED BY <2>4, <2>5 DEF DataConfirmed, ConfirmedWith
<1>4. ASSUME NEW r \in Requests,
             \/ \E s \in Sessions, u \in Users : ConfirmStart(r, s, u)
             \/ ConfirmFind(r) \/ ConfirmSave(r) \/ ConfirmThrows(r)
      PROVE  DataConfirmed'
  <2>1. \A q \in Requests : confirm[q].step = "done" => confirm'[q] = confirm[q]
    BY <1>4 DEF ConfirmStart, ConfirmFind, ConfirmSave, ConfirmThrows
  <2> QED BY <1>1, <1>4, <2>1 DEF ConfirmStart, ConfirmFind, ConfirmSave, ConfirmThrows
<1>5. CASE Restart
  BY <1>1, <1>5 DEF Restart, Running
<1>7. ASSUME NEW u \in Users, OtherSave(u)
      PROVE  DataConfirmed'
  BY <1>1, <1>7 DEF OtherSave
<1>6. ASSUME UNCHANGED <<session, answer, confirm>>
      PROVE  DataConfirmed'
  BY <1>1, <1>6
<1> QED
  BY <1>2, <1>3, <1>4, <1>5, <1>6, <1>7 DEF Next, Create, Tick, vars

\* A browser that polls is logged in only with a login that a phone confirmed for its own
\* code and that was saved before in the user's row, where it stays until another save of
\* the row replaces it.
THEOREM LoginsAreConfirmed == Spec => []LoginIsConfirmed
<1>1. Init => LoginsKept /\ DataConfirmed
  BY DEF Init, LoginsKept, DataConfirmed
<1>2. IInv /\ LoginsKept /\ DataConfirmed /\ [Next]_vars => LoginsKept' /\ DataConfirmed'
  BY LoginsStep, DataStep
<1>3. LoginsKept /\ DataConfirmed => LoginIsConfirmed
  BY DEF LoginsKept, DataConfirmed, ConfirmedWith, LoginIsConfirmed
<1> QED
  BY <1>1, <1>2, <1>3, InductiveInvariant, PTL DEF Spec
=============================================================================
