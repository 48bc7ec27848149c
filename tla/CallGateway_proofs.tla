-------------------------- MODULE CallGateway_proofs --------------------------
(***************************************************************************)
(* Proofs about CallGateway and GroupCall, for any users, sockets, calls   *)
(* and messages.                                                           *)
(*                                                                         *)
(* The records agree with the map because a call is ended only after it    *)
(* was registered (SetUpOK), because a handler drops the entry it ended    *)
(* and no other (ClosersOK), and because a socket has its handler of       *)
(* handleDisconnect to itself (DisconnectsOnce).                           *)
(***************************************************************************)
EXTENDS GroupCall, TLAPS

\* The record is created before the call is registered, and the parties are known before.
SetUpOK ==
    \A c \in Calls :
        /\ c \in activeCalls => initiate[c].step = "registered"
        /\ initiate[c].step = "created" => record[c] = "open"
        /\ initiate[c].step # "new" => Parties(c) \subseteq Users

\* What is being ended was registered, and what was ended stays ended.
ClosersOK ==
    \A p \in Closers :
        /\ closer[p].step \in {"ending", "ended"} =>
             /\ closer[p].call \in Calls /\ initiate[closer[p].call].step = "registered"
             /\ p \in Sockets => closer[p].user \in Users
        /\ closer[p].step = "ended" => record[closer[p].call] = "ended"

DisconnectsOnce == \A k \in Sockets : socket[k] # "closed" => closer[k].step = "new"

IInv ==
    /\ TypeOK
    /\ SetUpOK
    /\ ClosersOK
    /\ DisconnectsOnce
    /\ OnlineSocketIsOpen
    /\ AbandonedCallsAreCleanedUp
    /\ RecordsMatchMap

-----------------------------------------------------------------------------
(* The walk of handleDisconnect. *)

ClosersRecord == [step : CloserSteps, user : Users \cup {None}, call : Calls \cup {None}]

\* The walk moves its own handler only, to a call of the user that is in the map, and
\* ends where there is none.
LEMMA WalkMoves ==
    ASSUME TypeOK, NEW k \in Sockets, NEW u \in Users, NEW active \in SUBSET Calls, Walk(k, u, active)
    PROVE  /\ closer' \in [Closers -> ClosersRecord]
           /\ \A p \in Closers \ {k} : closer'[p] = closer[p]
           /\ closer'[k].user = u
           /\ \/ CallsOf(u, active) = {} /\ closer'[k].step = "done" /\ closer'[k].call = None
              \/ closer'[k].step = "ending" /\ closer'[k].call \in CallsOf(u, active)
<1>1. k \in Closers /\ closer \in [Closers -> ClosersRecord]
  BY DEF Closers, TypeOK, ClosersRecord
<1>2. CallsOf(u, active) \subseteq Calls
  BY DEF CallsOf
<1>3. CASE CallsOf(u, active) = {}
  <2> DEFINE r == [step |-> "done", user |-> u, call |-> None]
  <2>1. r \in ClosersRecord /\ closer' = [closer EXCEPT ![k] = r]
    BY <1>3 DEF Walk, ClosersRecord, CloserSteps
  <2> QED BY <1>1, <1>3, <2>1
<1>4. CASE CallsOf(u, active) # {}
  <2>1. PICK c \in CallsOf(u, active) :
          closer' = [closer EXCEPT ![k] = [step |-> "ending", user |-> u, call |-> c]]
    BY <1>4 DEF Walk
  <2> DEFINE r == [step |-> "ending", user |-> u, call |-> c]
  <2>2. r \in ClosersRecord
    BY <1>2 DEF ClosersRecord, CloserSteps
  <2> QED BY <1>1, <2>1, <2>2
<1> QED BY <1>3, <1>4

-----------------------------------------------------------------------------
(* One lemma per action. *)

LEMMA InitKeeps == Init => IInv
<1> SUFFICES ASSUME Init PROVE IInv
  OBVIOUS
<1> USE CallAssumption DEF Init
<1>1. TypeOK
  BY DEF TypeOK, InitiateSteps, CloserSteps
<1>2. SetUpOK /\ ClosersOK /\ DisconnectsOnce
  BY DEF SetUpOK, ClosersOK, DisconnectsOnce, Closers
<1>3. OnlineSocketIsOpen /\ AbandonedCallsAreCleanedUp /\ RecordsMatchMap
  BY DEF OnlineSocketIsOpen, Online, AbandonedCallsAreCleanedUp, RecordsMatchMap
<1> QED BY <1>1, <1>2, <1>3 DEF IInv

LEMMA ConnectKeeps == ASSUME IInv, NEW k \in Sockets, Connect(k) PROVE IInv'
<1> USE CallAssumption DEF IInv, Connect
<1>1. TypeOK'
  BY DEF TypeOK
<1>2. SetUpOK' /\ ClosersOK'
  BY DEF SetUpOK, ClosersOK, Parties
<1>3. DisconnectsOnce'
  BY DEF DisconnectsOnce, TypeOK
<1>4. OnlineSocketIsOpen'
  BY DEF OnlineSocketIsOpen, Online, TypeOK
<1>5. AbandonedCallsAreCleanedUp'
  <2> SUFFICES ASSUME NEW c \in activeCalls \ late, NEW u \in Parties(c)
               PROVE  (Online(u) \/ CleaningUpAfter(u))'
    BY DEF AbandonedCallsAreCleanedUp, Parties
  <2>1. u \in Users
    BY DEF SetUpOK, TypeOK
  <2>2. Online(u) \/ CleaningUpAfter(u)
    BY DEF AbandonedCallsAreCleanedUp
  <2> QED BY <2>1, <2>2 DEF Online, CleaningUpAfter, TypeOK
<1>6. RecordsMatchMap'
  BY DEF RecordsMatchMap, Forgetting
<1> QED BY <1>1, <1>2, <1>3, <1>4, <1>5, <1>6

LEMMA DisconnectKeeps == ASSUME IInv, NEW k \in Sockets, Disconnect(k) PROVE IInv'
<1> USE CallAssumption DEF IInv
<1>0. k \in Closers /\ Owner[k] \in Users /\ socket[k] = "open" /\ closer[k].step = "new"
  BY DEF Closers, Disconnect, DisconnectsOnce
<1>1. CASE onlineUsers[Owner[k]] = k
  <2> DEFINE u == Owner[k]
  <2>1. /\ onlineUsers' = [onlineUsers EXCEPT ![u] = None]
        /\ socket' = [socket EXCEPT ![k] = "closed"]
        /\ UNCHANGED <<activeCalls, record, initiate, late>>
    BY <1>1 DEF Disconnect, OnlineWithout
  <2>2. /\ closer' \in [Closers -> ClosersRecord]
        /\ \A p \in Closers \ {k} : closer'[p] = closer[p]
        /\ closer'[k].user = u
        /\ \/ CallsOf(u, activeCalls) = {} /\ closer'[k].step = "done" /\ closer'[k].call = None
           \/ closer'[k].step = "ending" /\ closer'[k].call \in CallsOf(u, activeCalls)
    BY <1>0, <1>1, WalkMoves DEF Disconnect, TypeOK
  <2> HIDE DEF u
  <2>3. u \in Users /\ u = Owner[k]
    BY <1>0 DEF u
  <2>4. TypeOK'
    BY <2>1, <2>2, <2>3 DEF TypeOK, ClosersRecord
  <2>5. SetUpOK'
    BY <2>1 DEF SetUpOK, Parties
  <2>6. ClosersOK'
    BY <2>1, <2>2 DEF ClosersOK, SetUpOK, CallsOf, TypeOK
  <2>7. DisconnectsOnce'
    BY <2>1, <2>2 DEF DisconnectsOnce, TypeOK, Closers
  <2>8. OnlineSocketIsOpen'
    BY <2>1, <2>3 DEF OnlineSocketIsOpen, Online, TypeOK
  <2>9. AbandonedCallsAreCleanedUp'
    <3> SUFFICES ASSUME NEW c \in activeCalls \ late, NEW v \in Parties(c)
                 PROVE  (Online(v) \/ CleaningUpAfter(v))'
      BY <2>1 DEF AbandonedCallsAreCleanedUp, Parties
    <3>1. v \in Users
      BY DEF SetUpOK, TypeOK
    <3>2. Online(v) \/ CleaningUpAfter(v)
      BY DEF AbandonedCallsAreCleanedUp
    <3>3. CASE v = u
      BY <2>2, <3>3 DEF CleaningUpAfter, CallsOf
    <3>4. CASE v # u
      BY <1>0, <2>1, <2>2, <3>1, <3>2, <3>4 DEF Online, CleaningUpAfter, TypeOK, Closers
    <3> QED BY <3>3, <3>4
  <2>10. RecordsMatchMap'
    BY <1>0, <2>1, <2>2 DEF RecordsMatchMap, Forgetting
  <2> QED BY <2>4, <2>5, <2>6, <2>7, <2>8, <2>9, <2>10
<1>2. CASE onlineUsers[Owner[k]] # k
  <2>1. /\ socket' = [socket EXCEPT ![k] = "closed"]
        /\ UNCHANGED <<onlineUsers, closer, activeCalls, record, initiate, late>>
    BY <1>2 DEF Disconnect
  <2>2. TypeOK'
    BY <2>1 DEF TypeOK
  <2>3. SetUpOK' /\ ClosersOK'
    BY <2>1 DEF SetUpOK, ClosersOK, Parties
  <2>4. DisconnectsOnce'
    BY <2>1 DEF DisconnectsOnce, TypeOK
  <2>5. OnlineSocketIsOpen'
    BY <1>2, <2>1 DEF OnlineSocketIsOpen, Online, TypeOK
  <2>6. AbandonedCallsAreCleanedUp' /\ RecordsMatchMap'
    BY <2>1 DEF AbandonedCallsAreCleanedUp, RecordsMatchMap, Forgetting, Parties, Online,
                CleaningUpAfter
  <2> QED BY <2>2, <2>3, <2>4, <2>5, <2>6
<1> QED BY <1>1, <1>2

\* What the steps of call:initiate leave alone.
LEMMA InitiateLeaves ==
    ASSUME IInv, UNCHANGED <<socket, onlineUsers, closer>>
    PROVE  DisconnectsOnce' /\ OnlineSocketIsOpen'
  BY DEF IInv, DisconnectsOnce, OnlineSocketIsOpen, Online

LEMMA InitiateStartKeeps ==
    ASSUME IInv, NEW c \in Calls, NEW k \in Sockets, NEW u \in Users, InitiateStart(c, k, u)
    PROVE  IInv'
<1> USE CallAssumption DEF IInv, InitiateStart
<1>1. TypeOK'
  BY DEF TypeOK, InitiateSteps
<1>2. \A d \in Calls \ {c} : initiate'[d] = initiate[d]
  BY DEF TypeOK
<1>3. initiate'[c].step = "asserting" /\ Parties(c)' \subseteq Users
  BY DEF TypeOK, Parties
<1>4. c \notin activeCalls /\ initiate[c].step = "new"
  BY DEF SetUpOK
<1>5. SetUpOK'
  BY <1>2, <1>3, <1>4 DEF SetUpOK, Parties
<1>6. ClosersOK'
  BY <1>2, <1>4 DEF ClosersOK
<1>7. AbandonedCallsAreCleanedUp'
  BY <1>2, <1>4 DEF AbandonedCallsAreCleanedUp, Parties, Online, CleaningUpAfter, TypeOK
<1>8. RecordsMatchMap'
  BY <1>2, <1>4 DEF RecordsMatchMap, Forgetting
<1> QED BY <1>1, <1>5, <1>6, <1>7, <1>8, InitiateLeaves

\* A step of call:initiate that moves on, with the record or the map as it says.
LEMMA InitiateMoves ==
    ASSUME TypeOK, NEW c \in Calls, NEW step, initiate' = [initiate EXCEPT ![c].step = step]
    PROVE  /\ \A d \in Calls \ {c} : initiate'[d] = initiate[d]
           /\ initiate'[c].step = step
           /\ \A d \in Calls : Parties(d)' = Parties(d)
  BY DEF TypeOK, Parties

LEMMA InitiateGoesOnKeeps ==
    ASSUME IInv, NEW c \in Calls, InitiateCheck(c) \/ InitiateFails(c)
    PROVE  IInv'
<1> USE DEF IInv, InitiateCheck, InitiateFails
<1>2. PICK step \in {"creating", "failed"} : initiate' = [initiate EXCEPT ![c].step = step]
  OBVIOUS
<1>3. /\ \A d \in Calls \ {c} : initiate'[d] = initiate[d]
      /\ initiate'[c].step = step
      /\ \A d \in Calls : Parties(d)' = Parties(d)
  BY <1>2, InitiateMoves
<1>1. TypeOK'
  <2>1. initiate' \in [Calls -> [step : InitiateSteps, caller : Users \cup {None},
                                receiver : Users \cup {None}]]
    BY <1>2 DEF TypeOK, InitiateSteps
  <2>2. UNCHANGED <<socket, onlineUsers, activeCalls, record, closer, late>>
    OBVIOUS
  <2> QED BY <2>1, <2>2 DEF TypeOK
<1>4. c \notin activeCalls /\ initiate[c].step \in {"asserting", "creating"}
  BY DEF SetUpOK
<1>5. SetUpOK' /\ ClosersOK'
  BY <1>3, <1>4 DEF SetUpOK, ClosersOK
<1>6. AbandonedCallsAreCleanedUp'
  BY <1>3 DEF AbandonedCallsAreCleanedUp, Online, CleaningUpAfter, TypeOK
<1>7. RecordsMatchMap'
  BY <1>3, <1>4 DEF RecordsMatchMap, Forgetting
<1> QED BY <1>1, <1>5, <1>6, <1>7, InitiateLeaves

LEMMA InitiateCreateKeeps == ASSUME IInv, NEW c \in Calls, InitiateCreate(c) PROVE IInv'
<1> USE DEF IInv, InitiateCreate
<1>1. TypeOK'
  BY DEF TypeOK, InitiateSteps
<1>2. /\ \A d \in Calls \ {c} : initiate'[d] = initiate[d]
      /\ initiate'[c].step = "created"
      /\ \A d \in Calls : Parties(d)' = Parties(d)
  BY InitiateMoves
<1>3. record'[c] = "open" /\ \A d \in Calls \ {c} : record'[d] = record[d]
  BY DEF TypeOK
<1>4. c \notin activeCalls /\ initiate[c].step = "creating"
  BY DEF SetUpOK
<1>5. SetUpOK'
  BY <1>2, <1>3, <1>4 DEF SetUpOK
<1>6. ClosersOK'
  BY <1>2, <1>3, <1>4 DEF ClosersOK
<1>7. AbandonedCallsAreCleanedUp'
  BY <1>2 DEF AbandonedCallsAreCleanedUp, Online, CleaningUpAfter, TypeOK
<1>8. RecordsMatchMap'
  BY <1>2, <1>3, <1>4 DEF RecordsMatchMap, Forgetting
<1> QED BY <1>1, <1>5, <1>6, <1>7, <1>8, InitiateLeaves

LEMMA InitiateRegisterKeeps == ASSUME IInv, NEW c \in Calls, InitiateRegister(c) PROVE IInv'
<1> USE DEF IInv, InitiateRegister
<1>1. TypeOK'
  BY DEF TypeOK, InitiateSteps
<1>2. /\ \A d \in Calls \ {c} : initiate'[d] = initiate[d]
      /\ initiate'[c].step = "registered"
      /\ \A d \in Calls : Parties(d)' = Parties(d)
  BY InitiateMoves
<1>3. record[c] = "open" /\ initiate[c].step = "created"
  BY DEF SetUpOK
<1>4. SetUpOK' /\ ClosersOK'
  BY <1>2, <1>3 DEF SetUpOK, ClosersOK
<1>5. AbandonedCallsAreCleanedUp'
  <2> SUFFICES ASSUME NEW d \in activeCalls' \ late', NEW u \in Parties(d)'
               PROVE  (Online(u) \/ CleaningUpAfter(u))'
    BY DEF AbandonedCallsAreCleanedUp
  <2>1. Parties(d)' = Parties(d)
    BY <1>2 DEF TypeOK
  <2>2. Online(u) \/ CleaningUpAfter(u)
    BY <2>1 DEF AbandonedCallsAreCleanedUp
  <2> QED BY <2>2 DEF Online, CleaningUpAfter
<1>6. RecordsMatchMap'
  BY <1>2, <1>3 DEF RecordsMatchMap, Forgetting
<1> QED BY <1>1, <1>4, <1>5, <1>6, InitiateLeaves

LEMMA HangUpKeeps ==
    ASSUME IInv, NEW h \in HangUps, NEW c \in Calls, HangUp(h, c)
    PROVE  IInv'
<1> USE CallAssumption DEF IInv
<1>1. closer' = [closer EXCEPT ![h] = [step |-> "ending", user |-> None, call |-> c]]
  BY DEF HangUp
<1>2. /\ UNCHANGED <<socket, onlineUsers, activeCalls, record, initiate, late>>
      /\ initiate[c].step = "registered" /\ closer[h].step = "new"
  BY DEF HangUp
<1>3. h \in Closers /\ h \notin Sockets
  BY DEF Closers
<1>4. /\ closer'[h].step = "ending" /\ closer'[h].call = c
      /\ \A p \in Closers \ {h} : closer'[p] = closer[p]
  BY <1>1, <1>3 DEF TypeOK
<1>5. TypeOK'
  BY <1>1, <1>2 DEF TypeOK, CloserSteps
<1>6. SetUpOK' /\ OnlineSocketIsOpen'
  BY <1>2 DEF SetUpOK, Parties, OnlineSocketIsOpen, Online
<1>7. ClosersOK'
  BY <1>2, <1>3, <1>4 DEF ClosersOK
<1>8. DisconnectsOnce' /\ AbandonedCallsAreCleanedUp'
  BY <1>2, <1>3, <1>4 DEF DisconnectsOnce, AbandonedCallsAreCleanedUp, Parties, Online,
                          CleaningUpAfter, Closers
<1>9. RecordsMatchMap'
  BY <1>2, <1>4 DEF RecordsMatchMap, Forgetting
<1> QED BY <1>5, <1>6, <1>7, <1>8, <1>9

\* A closer that goes on with the same call for the same user.
LEMMA CloserMoves ==
    ASSUME TypeOK, NEW p \in Closers, NEW step, closer' = [closer EXCEPT ![p].step = step]
    PROVE  /\ closer'[p].step = step /\ closer'[p].call = closer[p].call
           /\ closer'[p].user = closer[p].user
           /\ \A q \in Closers \ {p} : closer'[q] = closer[q]
  BY DEF TypeOK

LEMMA EndCallKeeps == ASSUME IInv, NEW p \in Closers, EndCall(p) PROVE IInv'
<1> USE DEF IInv, EndCall
<1> DEFINE c == closer[p].call
<1>1. c \in Calls /\ initiate[c].step = "registered"
  BY DEF ClosersOK
<1>2. /\ closer'[p].step = "ended" /\ closer'[p].call = c
      /\ closer'[p].user = closer[p].user
      /\ \A q \in Closers \ {p} : closer'[q] = closer[q]
  BY CloserMoves
<1>3. record'[c] = "ended" /\ \A d \in Calls \ {c} : record'[d] = record[d]
  BY <1>1 DEF TypeOK
<1>4. TypeOK'
  BY <1>1 DEF TypeOK, CloserSteps
<1> HIDE DEF c
<1>5. SetUpOK' /\ OnlineSocketIsOpen'
  BY <1>1, <1>3 DEF SetUpOK, Parties, OnlineSocketIsOpen, Online
<1>6. ClosersOK'
  BY <1>1, <1>2, <1>3 DEF ClosersOK
<1>7. DisconnectsOnce' /\ AbandonedCallsAreCleanedUp'
  BY <1>2 DEF DisconnectsOnce, AbandonedCallsAreCleanedUp, Parties, Online, CleaningUpAfter,
              Closers
<1>8. RecordsMatchMap'
  BY <1>1, <1>2, <1>3 DEF RecordsMatchMap, Forgetting
<1> QED BY <1>4, <1>5, <1>6, <1>7, <1>8

LEMMA HangUpFinishKeeps == ASSUME IInv, NEW h \in HangUps, HangUpFinish(h) PROVE IInv'
<1> USE CallAssumption DEF IInv, HangUpFinish
<1> DEFINE c == closer[h].call
<1>0. h \in Closers /\ h \notin Sockets
  BY DEF Closers
<1>1. c \in Calls /\ record[c] = "ended"
  BY <1>0 DEF ClosersOK
<1>2. /\ closer'[h].step = "done"
      /\ \A q \in Closers \ {h} : closer'[q] = closer[q]
  BY <1>0, CloserMoves
<1>3. TypeOK'
  <2>1. closer' \in [Closers -> ClosersRecord]
    BY DEF TypeOK, ClosersRecord, CloserSteps
  <2>2. activeCalls' \subseteq Calls
    BY DEF TypeOK
  <2> QED BY <2>1, <2>2 DEF TypeOK, ClosersRecord
<1>4. SetUpOK' /\ OnlineSocketIsOpen'
  BY DEF SetUpOK, Parties, OnlineSocketIsOpen, Online
<1>5. ClosersOK'
  BY <1>2 DEF ClosersOK
<1>6. DisconnectsOnce' /\ AbandonedCallsAreCleanedUp'
  BY <1>0, <1>2 DEF DisconnectsOnce, AbandonedCallsAreCleanedUp, Parties, Online, CleaningUpAfter,
                    Closers
<1>7. RecordsMatchMap'
  BY <1>1, <1>2 DEF RecordsMatchMap, Forgetting
<1> QED BY <1>3, <1>4, <1>5, <1>6, <1>7

LEMMA CloserFailsKeeps == ASSUME IInv, NEW p \in Closers, CloserFails(p) PROVE IInv'
<1> USE DEF IInv, CloserFails
<1>1. /\ closer'[p].step = "failed" /\ closer'[p].call = closer[p].call
      /\ closer'[p].user = closer[p].user
      /\ \A q \in Closers \ {p} : closer'[q] = closer[q]
  BY CloserMoves
<1>2. TypeOK'
  BY DEF TypeOK, CloserSteps
<1>3. SetUpOK' /\ OnlineSocketIsOpen'
  BY DEF SetUpOK, Parties, OnlineSocketIsOpen, Online
<1>4. ClosersOK'
  BY <1>1 DEF ClosersOK
<1>5. DisconnectsOnce' /\ AbandonedCallsAreCleanedUp'
  BY <1>1 DEF DisconnectsOnce, AbandonedCallsAreCleanedUp, Parties, Online, CleaningUpAfter,
              Closers
<1>6. RecordsMatchMap'
  BY <1>1 DEF RecordsMatchMap, Forgetting
<1> QED BY <1>2, <1>3, <1>4, <1>5, <1>6

LEMMA CleanupNextKeeps == ASSUME IInv, NEW k \in Sockets, CleanupNext(k) PROVE IInv'
<1> USE CallAssumption DEF IInv
<1> DEFINE u == closer[k].user
           c == closer[k].call
<1>1. k \in Closers /\ closer[k].step = "ended" /\ socket[k] = "closed"
  BY DEF Closers, CleanupNext, DisconnectsOnce, TypeOK
<1>2. c \in Calls /\ record[c] = "ended"
  BY <1>1 DEF ClosersOK
<1>3. /\ activeCalls' = activeCalls \ {c}
      /\ UNCHANGED <<socket, onlineUsers, record, initiate, late>>
  BY DEF CleanupNext
<1>4. u \in Users
  BY <1>1 DEF ClosersOK
<1>5. /\ closer' \in [Closers -> ClosersRecord]
      /\ \A p \in Closers \ {k} : closer'[p] = closer[p]
      /\ closer'[k].user = u
      /\ \/ CallsOf(u, activeCalls') = {} /\ closer'[k].step = "done" /\ closer'[k].call = None
         \/ closer'[k].step = "ending" /\ closer'[k].call \in CallsOf(u, activeCalls')
  BY <1>3, <1>4, WalkMoves DEF CleanupNext, TypeOK
<1> HIDE DEF u, c
<1>6. TypeOK'
  BY <1>3, <1>5 DEF TypeOK, ClosersRecord
<1>7. SetUpOK' /\ OnlineSocketIsOpen'
  BY <1>3 DEF SetUpOK, Parties, OnlineSocketIsOpen, Online
<1>8. ClosersOK'
  BY <1>3, <1>5 DEF ClosersOK, SetUpOK, CallsOf, TypeOK
<1>9. DisconnectsOnce'
  BY <1>1, <1>3, <1>5 DEF DisconnectsOnce, Closers
<1>10. AbandonedCallsAreCleanedUp'
  <2> SUFFICES ASSUME NEW d \in activeCalls' \ late, NEW v \in Parties(d)
               PROVE  (Online(v) \/ CleaningUpAfter(v))'
    BY <1>3 DEF AbandonedCallsAreCleanedUp, Parties
  <2>1. Online(v) \/ CleaningUpAfter(v)
    BY <1>3 DEF AbandonedCallsAreCleanedUp
  <2>2. CASE v = u
    BY <1>5, <2>2 DEF CleaningUpAfter, CallsOf
  <2>3. CASE v # u
    BY <1>1, <1>3, <1>5, <2>1, <2>3 DEF Online, CleaningUpAfter, Closers, u
  <2> QED BY <2>2, <2>3
<1>11. RecordsMatchMap'
  BY <1>2, <1>3, <1>5 DEF RecordsMatchMap, Forgetting, c
<1> QED BY <1>6, <1>7, <1>8, <1>9, <1>10, <1>11

-----------------------------------------------------------------------------
(* The invariant. *)

LEMMA NextKeeps == IInv /\ [Next]_vars => IInv'
<1> SUFFICES ASSUME IInv, [Next]_vars PROVE IInv'
  OBVIOUS
<1>1. CASE Next
  BY <1>1, ConnectKeeps, DisconnectKeeps, CleanupNextKeeps, InitiateStartKeeps,
     InitiateGoesOnKeeps, InitiateCreateKeeps, InitiateRegisterKeeps, HangUpKeeps,
     HangUpFinishKeeps, EndCallKeeps, CloserFailsKeeps DEF Next
<1>2. CASE UNCHANGED vars
  BY <1>2 DEF vars, IInv, TypeOK, SetUpOK, ClosersOK, DisconnectsOnce, OnlineSocketIsOpen,
              AbandonedCallsAreCleanedUp, RecordsMatchMap, Parties, Online, CleaningUpAfter,
              Forgetting
<1> QED BY <1>1, <1>2

LEMMA Invariance == Spec => []IInv
  BY InitKeeps, NextKeeps, PTL DEF Spec

\* The maps, the records and the handlers of CallGateway keep their shapes: among them, that
\* handleDisconnect only ever waits for calls that exist.
THEOREM TypeCorrect == Spec => []TypeOK
  BY Invariance, PTL DEF IInv

\* However the sockets of a user overlap and close, the one in onlineUsers is open and is the
\* user's own (handleConnection, handleDisconnect).
THEOREM EmitsReachOpenSockets == Spec => []OnlineSocketIsOpen
  BY Invariance, PTL DEF IInv

\* A call whose party went offline after it was registered is being cleaned up after that
\* party, whatever calls are made and ended during the walk of handleDisconnect.
THEOREM NoCallIsAbandoned == Spec => []AbandonedCallsAreCleanedUp
  BY Invariance, PTL DEF IInv

\* activeCalls and the call records agree, up to the handlers at work, though two handlers
\* may end one call at a time (handleCallEnd, handleCallReject, handleDisconnect).
THEOREM MapMatchesRecords == Spec => []RecordsMatchMap
  BY Invariance, PTL DEF IInv

-----------------------------------------------------------------------------
(***************************************************************************)
(* Group calls, and the gateway as a whole.  What a handler closes was     *)
(* registered and is not in the map any more (ClosingOK), so no other      *)
(* handler finds it, and nothing registers it again (GroupSetUpOK).        *)
(***************************************************************************)

\* A call in the map was registered, and so was one that has a message or that a hang-up
\* named; while its users are asked its record is open.
GroupSetUpOK ==
    \A g \in GroupCalls :
        /\ groupInitiate[g].step # "new" => groupInitiate[g].host \in Users
        /\ groupInitiate[g].step = "inviting" => groupRecord[g] = "open"
        /\ g \in activeGroupCalls \/ g \in hungUp \/ message[g] # "none" =>
             groupInitiate[g].step = "registered"

ClosingOK ==
    \A h \in GroupClosers :
        /\ closing[h].call # None =>
             /\ closing[h].call \in GroupCalls \ activeGroupCalls
             /\ groupInitiate[closing[h].call].step = "registered"
        /\ closing[h].step \in {"ending", "ended"} => closing[h].call # None
        /\ closing[h].step = "ended" => groupRecord[closing[h].call] = "ended"

GroupInv ==
    /\ GroupTypeOK
    /\ GroupSetUpOK
    /\ ClosingOK
    /\ ActiveMeansPopulated
    /\ ClosedOnce
    /\ GroupRecordsMatchMap
    /\ CompletedCallIsOver

-----------------------------------------------------------------------------
LEMMA GatewayInitKeeps == GatewayInit => GroupInv
<1> SUFFICES ASSUME GatewayInit PROVE GroupInv
  OBVIOUS
<1> USE GroupCallAssumption DEF GatewayInit
<1>1. GroupTypeOK
  BY DEF GroupTypeOK
<1>2. GroupSetUpOK /\ ClosingOK
  BY DEF GroupSetUpOK, ClosingOK
<1>3. ActiveMeansPopulated /\ ClosedOnce /\ GroupRecordsMatchMap /\ CompletedCallIsOver
  BY DEF ActiveMeansPopulated, ClosedOnce, GroupRecordsMatchMap, CompletedCallIsOver
<1> QED BY <1>1, <1>2, <1>3 DEF GroupInv

LEMMA OthersKeep == ASSUME GroupInv, UNCHANGED groupVars PROVE GroupInv'
<1> USE DEF groupVars
<1>1. GroupTypeOK'
  BY DEF GroupInv, GroupTypeOK
<1>2. GroupSetUpOK' /\ ClosingOK'
  BY DEF GroupInv, GroupSetUpOK, ClosingOK
<1>3. ActiveMeansPopulated' /\ ClosedOnce' /\ GroupRecordsMatchMap' /\ CompletedCallIsOver'
  BY DEF GroupInv, ActiveMeansPopulated, ClosedOnce, GroupRecordsMatchMap, CompletedCallIsOver
<1> QED BY <1>1, <1>2, <1>3 DEF GroupInv

\* A message is posted as active or late, never as completed.
LEMMA PostMessageKeeps ==
    ASSUME GroupInv, NEW g \in GroupCalls, PostMessage(g)
    PROVE  GroupInv'
<1> USE DEF GroupInv, PostMessage
<1>1. GroupTypeOK'
  BY DEF GroupTypeOK
<1>2. \A f \in GroupCalls : message'[f] \in {message[f], "active", "late"} /\ (f # g => message'[f] = message[f])
  BY DEF GroupTypeOK
<1>3. GroupSetUpOK' /\ ClosingOK'
  BY <1>2 DEF GroupSetUpOK, ClosingOK
<1>4. ActiveMeansPopulated' /\ ClosedOnce' /\ GroupRecordsMatchMap'
  BY DEF ActiveMeansPopulated, ClosedOnce, GroupRecordsMatchMap
<1>5. CompletedCallIsOver'
  BY <1>2 DEF CompletedCallIsOver
<1> QED BY <1>1, <1>3, <1>4, <1>5

-----------------------------------------------------------------------------
(* groupcall:initiate *)

GroupRecords ==
    [step : {"new", "creating", "inviting", "registered", "failed"}, host : Users \cup {None},
     asked : SUBSET Users, notified : SUBSET Users]

\* The handler of one call goes on.
LEMMA GroupMoves ==
    ASSUME GroupInv, NEW g \in GroupCalls, NEW r \in GroupRecords, groupInitiate' = [groupInitiate EXCEPT ![g] = r]
    PROVE  /\ groupInitiate' \in [GroupCalls -> GroupRecords]
           /\ groupInitiate'[g] = r
           /\ \A f \in GroupCalls \ {g} : groupInitiate'[f] = groupInitiate[f]
  BY DEF GroupInv, GroupTypeOK, GroupRecords

LEMMA GroupStartKeeps ==
    ASSUME GroupInv, NEW g \in GroupCalls, NEW host \in Users, NEW asked \in SUBSET Users,
           GroupStart(g, host, asked)
    PROVE  GroupInv'
<1> USE DEF GroupInv, GroupStart
<1>1. groupInitiate[g].step = "new" /\ g \notin activeGroupCalls
  BY DEF GroupSetUpOK
<1>2. /\ groupInitiate'[g].step = "creating" /\ groupInitiate'[g].host = host
      /\ \A f \in GroupCalls \ {g} : groupInitiate'[f] = groupInitiate[f]
  BY DEF GroupTypeOK
<1>3. GroupTypeOK'
  BY DEF GroupTypeOK
<1>4. GroupSetUpOK' /\ ClosingOK'
  BY <1>1, <1>2 DEF GroupSetUpOK, ClosingOK
<1>5. ActiveMeansPopulated' /\ ClosedOnce' /\ GroupRecordsMatchMap' /\ CompletedCallIsOver'
  BY <1>1, <1>2 DEF ActiveMeansPopulated, ClosedOnce, GroupRecordsMatchMap, CompletedCallIsOver
<1> QED BY <1>3, <1>4, <1>5

LEMMA GroupCreateKeeps == ASSUME GroupInv, NEW g \in GroupCalls, GroupCreate(g) PROVE GroupInv'
<1> USE DEF GroupInv, GroupCreate
<1>1. groupInitiate[g].step = "creating" /\ g \notin activeGroupCalls /\ message[g] = "none"
  BY DEF GroupSetUpOK
<1> DEFINE r == [groupInitiate[g] EXCEPT !.step = "inviting"]
<1>0. r \in GroupRecords /\ groupInitiate' = [groupInitiate EXCEPT ![g] = r]
  BY DEF GroupTypeOK, GroupRecords
<1>2. /\ groupInitiate' \in [GroupCalls -> GroupRecords]
      /\ groupInitiate'[g].step = "inviting" /\ groupInitiate'[g].host = groupInitiate[g].host
      /\ \A f \in GroupCalls \ {g} : groupInitiate'[f] = groupInitiate[f]
      /\ groupRecord'[g] = "open" /\ \A f \in GroupCalls \ {g} : groupRecord'[f] = groupRecord[f]
  <2>1. /\ groupInitiate' \in [GroupCalls -> GroupRecords]
        /\ groupInitiate'[g] = r
        /\ \A f \in GroupCalls \ {g} : groupInitiate'[f] = groupInitiate[f]
    BY <1>0, GroupMoves
  <2>2. r.step = "inviting" /\ r.host = groupInitiate[g].host
    BY DEF GroupTypeOK
  <2>3. groupRecord'[g] = "open" /\ \A f \in GroupCalls \ {g} : groupRecord'[f] = groupRecord[f]
    BY DEF GroupTypeOK
  <2> QED BY <2>1, <2>2, <2>3
<1>3. GroupTypeOK'
  BY <1>2 DEF GroupTypeOK, GroupRecords
<1>4. GroupSetUpOK' /\ ClosingOK'
  BY <1>1, <1>2 DEF GroupSetUpOK, ClosingOK
<1>5. ActiveMeansPopulated' /\ ClosedOnce' /\ GroupRecordsMatchMap' /\ CompletedCallIsOver'
  BY <1>1, <1>2 DEF ActiveMeansPopulated, ClosedOnce, GroupRecordsMatchMap, CompletedCallIsOver
<1> QED BY <1>3, <1>4, <1>5

LEMMA GroupInviteKeeps ==
    ASSUME GroupInv, NEW g \in GroupCalls, NEW u \in Users, GroupInvite(g, u)
    PROVE  GroupInv'
<1> USE DEF GroupInv
<1>1. PICK notified \in SUBSET Users :
        groupInitiate' = [groupInitiate EXCEPT ![g].asked = @ \ {u}, ![g].notified = notified]
  BY DEF GroupInvite, GroupTypeOK
<1>2. UNCHANGED <<vars, activeGroupCalls, participants, groupRecord, closing, message, hungUp>>
  BY DEF GroupInvite
<1> DEFINE r == [groupInitiate[g] EXCEPT !.asked = @ \ {u}, !.notified = notified]
<1>0. r \in GroupRecords /\ groupInitiate' = [groupInitiate EXCEPT ![g] = r]
  BY <1>1 DEF GroupTypeOK, GroupRecords
<1>3. /\ groupInitiate' \in [GroupCalls -> GroupRecords]
      /\ \A f \in GroupCalls : groupInitiate'[f].step = groupInitiate[f].step /\ groupInitiate'[f].host = groupInitiate[f].host
  BY <1>0, GroupMoves DEF GroupTypeOK, GroupRecords
<1>4. GroupTypeOK'
  BY <1>2, <1>3 DEF GroupTypeOK, GroupRecords
<1>5. GroupSetUpOK' /\ ClosingOK'
  BY <1>2, <1>3 DEF GroupSetUpOK, ClosingOK
<1>6. ActiveMeansPopulated' /\ ClosedOnce' /\ GroupRecordsMatchMap' /\ CompletedCallIsOver'
  BY <1>2, <1>3 DEF ActiveMeansPopulated, ClosedOnce, GroupRecordsMatchMap, CompletedCallIsOver
<1> QED BY <1>4, <1>5, <1>6

\* The host is there when the call goes into the map.
LEMMA GroupRegisterKeeps == ASSUME GroupInv, NEW g \in GroupCalls, GroupRegister(g) PROVE GroupInv'
<1> USE DEF GroupInv, GroupRegister
<1>1. groupInitiate[g].step = "inviting" /\ g \notin activeGroupCalls /\ groupRecord[g] = "open"
  BY DEF GroupSetUpOK
<1> DEFINE r == [groupInitiate[g] EXCEPT !.step = "registered", !.notified = {}]
<1>0. r \in GroupRecords /\ groupInitiate' = [groupInitiate EXCEPT ![g] = r]
  BY DEF GroupTypeOK, GroupRecords
<1>2. /\ groupInitiate' \in [GroupCalls -> GroupRecords]
      /\ groupInitiate'[g].step = "registered" /\ groupInitiate'[g].host = groupInitiate[g].host
      /\ \A f \in GroupCalls \ {g} : groupInitiate'[f] = groupInitiate[f]
  BY <1>0, GroupMoves DEF GroupTypeOK, GroupRecords
<1>3. FirstParticipants(g) \subseteq Users /\ FirstParticipants(g) # {}
  BY <1>1 DEF FirstParticipants, GroupSetUpOK, GroupTypeOK
<1>4. participants'[g] = FirstParticipants(g)
      /\ \A f \in GroupCalls \ {g} : participants'[f] = participants[f]
  BY DEF GroupTypeOK
<1>5. GroupTypeOK'
  BY <1>2, <1>3 DEF GroupTypeOK, GroupRecords
<1>6. GroupSetUpOK'
  BY <1>1, <1>2 DEF GroupSetUpOK
<1>7. ClosingOK'
  BY <1>1, <1>2 DEF ClosingOK
<1>8. ActiveMeansPopulated' /\ ClosedOnce' /\ GroupRecordsMatchMap' /\ CompletedCallIsOver'
  BY <1>1, <1>2, <1>3, <1>4 DEF ActiveMeansPopulated, ClosedOnce, GroupRecordsMatchMap, CompletedCallIsOver, GroupTypeOK
<1> QED BY <1>5, <1>6, <1>7, <1>8

LEMMA GroupFailsKeeps == ASSUME GroupInv, NEW g \in GroupCalls, GroupFails(g) PROVE GroupInv'
<1> USE DEF GroupInv, GroupFails
<1>1. groupInitiate[g].step \in {"creating", "inviting"} /\ g \notin activeGroupCalls
  BY DEF GroupSetUpOK
<1> DEFINE r == [groupInitiate[g] EXCEPT !.step = "failed", !.asked = {}, !.notified = {}]
<1>0. r \in GroupRecords /\ groupInitiate' = [groupInitiate EXCEPT ![g] = r]
  BY DEF GroupTypeOK, GroupRecords
<1>2. /\ groupInitiate' \in [GroupCalls -> GroupRecords]
      /\ groupInitiate'[g].step = "failed" /\ groupInitiate'[g].host = groupInitiate[g].host
      /\ \A f \in GroupCalls \ {g} : groupInitiate'[f] = groupInitiate[f]
  BY <1>0, GroupMoves DEF GroupTypeOK, GroupRecords
<1>3. GroupTypeOK'
  BY <1>2 DEF GroupTypeOK, GroupRecords
<1>4. GroupSetUpOK' /\ ClosingOK'
  <2>1. GroupSetUpOK'
    BY <1>1, <1>2 DEF GroupSetUpOK
  <2>2. ClosingOK'
    BY <1>1, <1>2 DEF ClosingOK
  <2> QED BY <2>1, <2>2
<1>5. ActiveMeansPopulated' /\ ClosedOnce' /\ GroupRecordsMatchMap' /\ CompletedCallIsOver'
  BY <1>1, <1>2 DEF ActiveMeansPopulated, ClosedOnce, GroupRecordsMatchMap, CompletedCallIsOver
<1> QED BY <1>3, <1>4, <1>5

-----------------------------------------------------------------------------
(* groupcall:join, groupcall:leave and groupcall:end *)

LEMMA JoinKeeps == ASSUME GroupInv, NEW g \in GroupCalls, NEW u \in Users, Join(g, u) PROVE GroupInv'
<1> USE DEF GroupInv, Join
<1>2. participants'[g] = participants[g] \cup {u}
      /\ \A f \in GroupCalls \ {g} : participants'[f] = participants[f]
  BY DEF GroupTypeOK
<1>3. GroupTypeOK'
  BY DEF GroupTypeOK
<1>4. GroupSetUpOK' /\ ClosingOK'
  BY DEF GroupSetUpOK, ClosingOK
<1>5. ActiveMeansPopulated' /\ ClosedOnce' /\ GroupRecordsMatchMap' /\ CompletedCallIsOver'
  BY <1>2 DEF ActiveMeansPopulated, ClosedOnce, GroupRecordsMatchMap, CompletedCallIsOver, GroupTypeOK
<1> QED BY <1>3, <1>4, <1>5

\* Whoever closes a call found it in the map.
LEMMA CloseKeeps ==
    ASSUME GroupInv, NEW h \in GroupClosers, NEW g \in activeGroupCalls, Close(h, g), GroupTypeOK',
           UNCHANGED <<groupRecord, groupInitiate, message, hungUp>>,
           \A f \in GroupCalls : participants'[f] \subseteq participants[f],
           \A f \in GroupCalls \ {g} : participants'[f] = participants[f]
    PROVE  GroupInv'
<1> USE DEF GroupInv
<1>1. g \in GroupCalls /\ groupInitiate[g].step = "registered"
  BY DEF GroupTypeOK, GroupSetUpOK
<1>2. /\ activeGroupCalls' = activeGroupCalls \ {g}
      /\ closing'[h].step = "ending" /\ closing'[h].call = g
      /\ \A k \in GroupClosers \ {h} : closing'[k] = closing[k]
      /\ closing[h].step = "new"
  BY DEF Close, MapWithout, GroupTypeOK
<1>3. GroupSetUpOK'
  BY <1>2 DEF GroupSetUpOK
<1>4. ClosingOK'
  BY <1>1, <1>2, GroupCallAssumption DEF ClosingOK
<1>5. ActiveMeansPopulated'
  BY <1>2 DEF ActiveMeansPopulated, GroupTypeOK
<1>6. ClosedOnce'
  BY <1>2 DEF ClosedOnce, ClosingOK
<1>7. GroupRecordsMatchMap' /\ CompletedCallIsOver'
  BY <1>2 DEF GroupRecordsMatchMap, CompletedCallIsOver
<1> QED BY <1>3, <1>4, <1>5, <1>6, <1>7

\* The last one to leave closes the call, so that the map keeps no empty one.
LEMMA LeaveKeeps ==
    ASSUME GroupInv, NEW h \in GroupClosers, NEW g \in GroupCalls, NEW u \in Users, Leave(h, g, u)
    PROVE  GroupInv'
<1> DEFINE left == participants[g] \ {u}
<1>1. /\ g \in activeGroupCalls
      /\ participants' = [participants EXCEPT ![g] = left]
      /\ UNCHANGED <<vars, groupRecord, groupInitiate, message, hungUp>>
  BY DEF Leave
<1>2. participants'[g] = left /\ \A f \in GroupCalls \ {g} : participants'[f] = participants[f]
  BY <1>1 DEF GroupInv, GroupTypeOK
<1>3. CASE left = {}
  <2>1. Close(h, g)
    BY <1>3 DEF Leave, ClosesOnLeave
  <2>2. GroupTypeOK'
    BY <1>1, <2>1 DEF GroupInv, GroupTypeOK, Close, MapWithout
  <2>3. \A f \in GroupCalls : participants'[f] \subseteq participants[f]
    BY <1>2
  <2> QED BY <1>1, <1>2, <2>1, <2>2, <2>3, CloseKeeps
<1>4. CASE left # {}
  <2>1. UNCHANGED <<activeGroupCalls, closing>>
    BY <1>4 DEF Leave, ClosesOnLeave
  <2>2. GroupTypeOK'
    BY <1>1, <2>1 DEF GroupInv, GroupTypeOK
  <2>3. GroupSetUpOK' /\ ClosingOK'
    BY <1>1, <2>1 DEF GroupInv, GroupSetUpOK, ClosingOK
  <2>4. ActiveMeansPopulated' /\ ClosedOnce' /\ GroupRecordsMatchMap' /\ CompletedCallIsOver'
    BY <1>1, <1>2, <1>4, <2>1 DEF GroupInv, ActiveMeansPopulated, ClosedOnce, GroupRecordsMatchMap, CompletedCallIsOver, GroupTypeOK
  <2> QED BY <2>2, <2>3, <2>4 DEF GroupInv
<1> QED BY <1>3, <1>4

LEMMA EndKeeps == ASSUME GroupInv, NEW h \in GroupClosers, NEW g \in GroupCalls, End(h, g) PROVE GroupInv'
<1>1. GroupTypeOK'
  BY DEF GroupInv, GroupTypeOK, End, Close, MapWithout
<1> QED BY <1>1, CloseKeeps DEF End

-----------------------------------------------------------------------------
(* What a closing handler waits for. *)

\* A handler that goes on with the same call.
LEMMA ClosingMoves ==
    ASSUME GroupTypeOK, NEW h \in GroupClosers, NEW step, closing' = [closing EXCEPT ![h].step = step]
    PROVE  /\ closing'[h].step = step /\ closing'[h].call = closing[h].call
           /\ \A k \in GroupClosers \ {h} : closing'[k] = closing[k]
  BY DEF GroupTypeOK

LEMMA EndGroupCallKeeps == ASSUME GroupInv, NEW h \in GroupClosers, EndGroupCall(h) PROVE GroupInv'
<1> USE DEF GroupInv, EndGroupCall
<1> DEFINE g == closing[h].call
<1>1. g \in GroupCalls \ activeGroupCalls /\ groupInitiate[g].step = "registered"
  BY DEF ClosingOK
<1>2. /\ closing'[h].step = "ended" /\ closing'[h].call = g
      /\ \A k \in GroupClosers \ {h} : closing'[k] = closing[k]
  BY ClosingMoves
<1>3. groupRecord'[g] = "ended" /\ \A f \in GroupCalls \ {g} : groupRecord'[f] = groupRecord[f]
  BY <1>1 DEF GroupTypeOK
<1>4. GroupTypeOK'
  BY <1>1 DEF GroupTypeOK
<1> HIDE DEF g
<1>5. GroupSetUpOK' /\ ClosingOK'
  BY <1>1, <1>2, <1>3 DEF GroupSetUpOK, ClosingOK, g
<1>6. ActiveMeansPopulated' /\ ClosedOnce'
  BY <1>2 DEF ActiveMeansPopulated, ClosedOnce, g
<1>7. GroupRecordsMatchMap' /\ CompletedCallIsOver'
  BY <1>1, <1>2, <1>3 DEF GroupRecordsMatchMap, CompletedCallIsOver, GroupTypeOK, g
<1> QED BY <1>4, <1>5, <1>6, <1>7

\* The message is completed by a handler that has ended the record of a call it had taken out
\* of the map before.
LEMMA CompleteMessageKeeps ==
    ASSUME GroupInv, NEW h \in GroupClosers, CompleteMessage(h)
    PROVE  GroupInv'
<1> USE DEF GroupInv, CompleteMessage, CompleteStep
<1> DEFINE g == closing[h].call
<1>1. /\ closing'[h].step = "done" /\ closing'[h].call = g
      /\ \A k \in GroupClosers \ {h} : closing'[k] = closing[k]
  BY ClosingMoves
<1>2. /\ g \in GroupCalls \ activeGroupCalls /\ groupRecord[g] = "ended"
      /\ groupInitiate[g].step = "registered"
  BY DEF ClosingOK
<1>3. /\ message' \in [GroupCalls -> {"none", "active", "late", "completed"}]
      /\ \A f \in GroupCalls \ {g} : message'[f] = message[f]
  <2>1. message' = [message EXCEPT ![g] = Completed(message[g])]
    OBVIOUS
  <2>2. Completed(message[g]) \in {"none", "active", "late", "completed"}
    BY <1>2 DEF Completed, GroupTypeOK
  <2> QED BY <1>2, <2>1, <2>2 DEF GroupTypeOK
<1>4. GroupTypeOK'
  BY <1>3 DEF GroupTypeOK
<1> HIDE DEF g
<1>5. GroupSetUpOK' /\ ClosingOK'
  BY <1>1, <1>2, <1>3 DEF GroupSetUpOK, ClosingOK, g
<1>6. ActiveMeansPopulated' /\ ClosedOnce' /\ GroupRecordsMatchMap'
  BY <1>1 DEF ActiveMeansPopulated, ClosedOnce, GroupRecordsMatchMap, g
<1>7. CompletedCallIsOver'
  BY <1>2, <1>3 DEF CompletedCallIsOver
<1> QED BY <1>4, <1>5, <1>6, <1>7

LEMMA ClosingFailsKeeps == ASSUME GroupInv, NEW h \in GroupClosers, ClosingFails(h) PROVE GroupInv'
<1> USE DEF GroupInv, ClosingFails
<1>1. /\ closing'[h].step = "failed" /\ closing'[h].call = closing[h].call
      /\ \A k \in GroupClosers \ {h} : closing'[k] = closing[k]
  BY ClosingMoves
<1>2. GroupTypeOK'
  BY DEF GroupTypeOK
<1>3. GroupSetUpOK' /\ ClosingOK'
  BY <1>1 DEF GroupSetUpOK, ClosingOK
<1>4. ActiveMeansPopulated' /\ ClosedOnce' /\ GroupRecordsMatchMap' /\ CompletedCallIsOver'
  BY <1>1 DEF ActiveMeansPopulated, ClosedOnce, GroupRecordsMatchMap, CompletedCallIsOver
<1> QED BY <1>2, <1>3, <1>4

-----------------------------------------------------------------------------
(* call:end and call:reject *)

LEMMA HangUpGroupKeeps == ASSUME GroupInv, NEW g \in GroupCalls, HangUpGroup(g) PROVE GroupInv'
<1> USE DEF GroupInv, HangUpGroup
<1>1. GroupTypeOK'
  BY DEF GroupTypeOK
<1>2. GroupSetUpOK' /\ ClosingOK'
  BY DEF GroupSetUpOK, ClosingOK
<1>3. ActiveMeansPopulated' /\ ClosedOnce' /\ GroupRecordsMatchMap' /\ CompletedCallIsOver'
  BY DEF ActiveMeansPopulated, ClosedOnce, GroupRecordsMatchMap, CompletedCallIsOver
<1> QED BY <1>1, <1>2, <1>3

\* A record that is ended under a call in the map: the handler that takes the call out of the
\* map will end it again.
LEMMA HangUpEndsGroupKeeps ==
    ASSUME GroupInv, NEW g \in GroupCalls, HangUpEndsGroup(g)
    PROVE  GroupInv'
<1> USE DEF GroupInv, HangUpEndsGroup
<1>1. groupInitiate[g].step = "registered"
  BY DEF GroupSetUpOK
<1>2. groupRecord'[g] = "ended" /\ \A f \in GroupCalls \ {g} : groupRecord'[f] = groupRecord[f]
  BY DEF GroupTypeOK
<1>3. GroupTypeOK'
  BY DEF GroupTypeOK
<1>4. GroupSetUpOK' /\ ClosingOK'
  BY <1>1, <1>2 DEF GroupSetUpOK, ClosingOK
<1>5. ActiveMeansPopulated' /\ ClosedOnce' /\ GroupRecordsMatchMap' /\ CompletedCallIsOver'
  BY <1>2 DEF ActiveMeansPopulated, ClosedOnce, GroupRecordsMatchMap, CompletedCallIsOver
<1> QED BY <1>3, <1>4, <1>5

-----------------------------------------------------------------------------
(* The invariant. *)

LEMMA GatewayNextKeeps == GroupInv /\ [GatewayNext]_gatewayVars => GroupInv'
<1> SUFFICES ASSUME GroupInv, [GatewayNext]_gatewayVars PROVE GroupInv'
  OBVIOUS
<1>1. CASE GroupStep
  BY <1>1, GroupStartKeeps, GroupCreateKeeps, GroupInviteKeeps, GroupRegisterKeeps,
     GroupFailsKeeps, JoinKeeps, LeaveKeeps, EndKeeps, PostMessageKeeps, HangUpGroupKeeps,
     HangUpEndsGroupKeeps, EndGroupCallKeeps, CompleteMessageKeeps, ClosingFailsKeeps
     DEF GroupStep
<1>2. CASE UNCHANGED groupVars
  BY <1>2, OthersKeep
<1> QED BY <1>1, <1>2 DEF GatewayNext, gatewayVars

LEMMA GatewayInvariance == GatewaySpec => []GroupInv
  BY GatewayInitKeeps, GatewayNextKeeps, PTL DEF GatewaySpec

\* The map, the records and the messages of group calls keep their shapes, beside one-to-one
\* calls and sockets that come and go.
THEOREM GroupTypeCorrect == GatewaySpec => []GroupTypeOK
  BY GatewayInvariance, PTL DEF GroupInv

\* activeGroupCalls keeps no call without participants, whoever joins and leaves meanwhile
\* (handleGroupCallLeave).
THEOREM NoEmptyCall == GatewaySpec => []ActiveMeansPopulated
  BY GatewayInvariance, PTL DEF GroupInv

\* No call is closed by two handlers, though the host may end it while the last one leaves.
THEOREM OneCloser == GatewaySpec => []ClosedOnce
  BY GatewayInvariance, PTL DEF GroupInv

\* activeGroupCalls and the call records agree, up to the handlers at work or failed, and up to
\* the hang-ups that end a record by its id alone (handleCallEnd, handleCallReject).
THEOREM GroupMapMatchesRecords == GatewaySpec => []GroupRecordsMatchMap
  BY GatewayInvariance, PTL DEF GroupInv

\* A call whose message the chat shows as completed has an ended record and can be joined no
\* more, whatever leaves, ends, hangs up or fails meanwhile (completeActiveCallMessage).
THEOREM CompletedCallsAreOver == GatewaySpec => []CompletedCallIsOver
  BY GatewayInvariance, PTL DEF GroupInv

\* CallGateway's group calls use the sockets and onlineUsers of its one-to-one calls: a step
\* of a group call is one that one-to-one calls do not notice, and all others are theirs.  The
\* fairness of one-to-one calls is assumed of the gateway just as it is of them alone.
THEOREM GatewayKeepsCalls == GatewaySpec => Spec
<1>1. GatewayInit => Init
  BY DEF GatewayInit
<1>2. [GatewayNext]_gatewayVars => [Next]_vars
  <2>1. ASSUME GroupStep PROVE UNCHANGED vars
    BY <2>1 DEF GroupStep, GroupStart, GroupCreate, GroupInvite, GroupRegister, GroupFails, Join,
               Leave, End, PostMessage, HangUpGroup, HangUpEndsGroup, EndGroupCall, CompleteMessage,
               ClosingFails
  <2> QED BY <2>1 DEF GatewayNext, gatewayVars
<1> QED BY <1>1, <1>2, PTL DEF GatewaySpec, Spec

\* So with calls of both kinds at a time emits still reach open sockets, disconnects abandon no
\* one-to-one call, and activeCalls agrees with the records.
THEOREM GatewayIsSafe ==
    GatewaySpec => [](OnlineSocketIsOpen /\ AbandonedCallsAreCleanedUp /\ RecordsMatchMap)
  BY GatewayKeepsCalls, EmitsReachOpenSockets, NoCallIsAbandoned, MapMatchesRecords, PTL

=============================================================================
