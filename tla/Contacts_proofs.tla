--------------------------- MODULE Contacts_proofs ---------------------------
(***************************************************************************)
(* Proofs about Contacts, for any two users and any number of handlers,    *)
(* requests, conversations and bounds.                                     *)
(*                                                                         *)
(* BlockStands is not inductive: a handler that read the row before the    *)
(* block, or one that started since, could replace it.  FirmOK says that   *)
(* whoever writes the row under a firm block is its blocker blocking       *)
(* again.  HandlersOK says what the handlers carry.                        *)
(*                                                                         *)
(* NoTextUnderBlock speaks of the end of the checks only: TextsOK says     *)
(* what every list of checks still ahead leaves behind it.                 *)
(* OneConversation speaks of the tables only: ChatsOK says what the        *)
(* handlers that open, join and delete conversations rely on.              *)
(***************************************************************************)
EXTENDS Contacts, TLAPS

Fields == {"op", "step", "user", "doc", "read", "todo"}

\* A handler carries a user and a row, and whoever writes the row is a user.
GoodHandler(r) ==
    /\ DOMAIN r = Fields
    /\ r.user \in Users \cup {None}
    /\ r.read \in Rows
    /\ r.op \in RowWriters => r.user \in Users

HandlersOK ==
    /\ DOMAIN handler = Handlers
    /\ \A h \in Handlers : GoodHandler(handler[h])

TablesOK ==
    /\ friendship \in Rows /\ rows \in Nat
    /\ friendship.status = "blocked" <=> friendship.by # None
    /\ request \in [Requests -> [sender : Users \cup {None},
                                 status : {"none", "pending", "accepted", "declined"}]]
    /\ permission \in [Users -> {"everyone", "friends", "nobody"}]
    /\ conv \in [Convs -> [state : {"none", "open", "gone"}, part : SUBSET Users,
                           blocked : SUBSET Users]]
    /\ \A c \in Convs : conv[c].blocked \subseteq conv[c].part
    /\ starts \in 0 .. MaxStarts

HistoryOK == firm \subseteq Users /\ troubled \subseteq {"race", "failure"}

\* Under a firm block only its blocker is writing the row, to block again.
FirmOK ==
    \A u \in firm :
      /\ friendship.status = "blocked" /\ friendship.by = u
      /\ \A h \in Handlers :
           handler[h].op \in RowWriters => handler[h].op = "block" /\ handler[h].user = u

IInv == TablesOK /\ HandlersOK /\ HistoryOK /\ FirmOK

-----------------------------------------------------------------------------
(* Records. *)

LEMMA NoRowIsRow == NoRow \in Rows /\ NoRow.status = "none" /\ NoRow.by = None
  BY DEF NoRow, Rows

LEMMA IdleIsGood == GoodHandler(Idle) /\ Idle.op = "idle"
  BY NoRowIsRow DEF Idle, GoodHandler, Fields, RowWriters

LEMMA StartingIsGood ==
    ASSUME NEW op, NEW u \in Users, NEW d
    PROVE  /\ GoodHandler(Starting(op, u, d))
           /\ Starting(op, u, d).op = op /\ Starting(op, u, d).user = u
<1>1. DOMAIN Idle = Fields /\ Idle.read = NoRow
  BY DEF Idle, Fields
<1> QED BY <1>1, NoRowIsRow DEF Starting, GoodHandler, Fields

\* A record with another step or list of checks, or with a row it read, is as good.
LEMMA ChangedIsGood ==
    ASSUME NEW r, GoodHandler(r), NEW row \in Rows, NEW step, NEW todo
    PROVE  /\ GoodHandler([r EXCEPT !.read = row])
           /\ [r EXCEPT !.read = row].op = r.op /\ [r EXCEPT !.read = row].user = r.user
           /\ GoodHandler([r EXCEPT !.todo = todo])
           /\ [r EXCEPT !.todo = todo].op = r.op /\ [r EXCEPT !.todo = todo].user = r.user
           /\ GoodHandler([r EXCEPT !.step = step])
           /\ [r EXCEPT !.step = step].op = r.op /\ [r EXCEPT !.step = step].user = r.user
  BY DEF GoodHandler, Fields

LEMMA OtherIsUser == \A u : Other(u) \in Users
  BY ContactsAssumption DEF Other

-----------------------------------------------------------------------------
(* What a step of handler h does to the others, and to the history. *)

Moves(h) == \A g \in Handlers \ {h} : handler'[g] = handler[g]

LEMMA ReplacedHandler ==
    ASSUME HandlersOK, NEW h \in Handlers, NEW r, GoodHandler(r),
           handler' = [handler EXCEPT ![h] = r]
    PROVE  HandlersOK' /\ Moves(h) /\ handler'[h] = r
<1>1. DOMAIN handler' = Handlers /\ handler'[h] = r /\ Moves(h)
  BY DEF HandlersOK, Moves
<1>2. \A g \in Handlers : GoodHandler(handler[g])
  BY DEF HandlersOK
<1>3. \A g \in Handlers : GoodHandler(handler'[g])
  BY <1>1, <1>2 DEF Moves
<1>4. \A g \in Handlers : GoodHandler(handler[g])'
  BY <1>3 DEF GoodHandler, Rows
<1> QED BY <1>1, <1>4 DEF HandlersOK

LEMMA HistoryStays ==
    ASSUME HandlersOK, HistoryOK, NEW failure \in SUBSET {"failure"}, Remember(failure)
    PROVE  HistoryOK'
<1>1. \A h \in Handlers : handler[h].op = "block" => handler[h].user \in Users
  BY DEF HandlersOK, GoodHandler, RowWriters
<1>2. firm' \subseteq Users
  BY <1>1 DEF Remember, HistoryOK
<1>3. troubled' \subseteq {"race", "failure"}
  BY DEF Remember, HistoryOK
<1> QED BY <1>2, <1>3 DEF HistoryOK

\* Who is firm after a step was firm before, or has just blocked the other with nobody else
\* at the row.
LEMMA FirmComesFrom ==
    ASSUME HandlersOK, NEW h \in Handlers, Moves(h), NEW failure, Remember(failure),
           NEW u \in firm'
    PROVE  /\ \A g \in Handlers : handler'[g].op = "unblock" => handler'[g].user # u
           /\ \/ u \in firm
              \/ /\ friendship'.status = "blocked" /\ friendship'.by = u
                 /\ handler'[h] = Idle
                 /\ \A f \in Handlers \ {h} : handler[f].op \notin RowWriters
<1>1. \A g \in Handlers : handler[g].op = "block" /\ handler'[g] = Idle => g = h
  BY IdleIsGood DEF Moves
<1> QED BY <1>1 DEF Remember

\* A step that leaves the row as it is, and starts nothing that would write it.
LEMMA FirmStays ==
    ASSUME HandlersOK, FirmOK, NEW h \in Handlers, Moves(h), NEW failure, Remember(failure),
           friendship' = friendship,
           \/ handler'[h].op \notin RowWriters
           \/ handler'[h].op = handler[h].op /\ handler'[h].user = handler[h].user
    PROVE  FirmOK'
<1> SUFFICES ASSUME NEW u \in firm'
             PROVE  /\ friendship'.status = "blocked" /\ friendship'.by = u
                    /\ \A g \in Handlers : handler'[g].op \in RowWriters =>
                         handler'[g].op = "block" /\ handler'[g].user = u
  BY DEF FirmOK
<1>1. CASE u \in firm
  BY <1>1 DEF FirmOK, Moves
<1>2. CASE u \notin firm
  <2>1. /\ friendship'.status = "blocked" /\ friendship'.by = u
        /\ handler'[h] = Idle
        /\ \A f \in Handlers \ {h} : handler[f].op \notin RowWriters
    BY <1>2, FirmComesFrom
  <2>2. \A g \in Handlers : handler'[g].op \notin RowWriters
    BY <2>1, IdleIsGood DEF Moves, RowWriters
  <2> QED BY <2>1, <2>2
<1> QED BY <1>1, <1>2

\* A step after which nobody is firm but who was, with the row and its writers in order.
LEMMA FirmRow ==
    ASSUME HandlersOK, FirmOK, NEW h \in Handlers, Moves(h), NEW failure, Remember(failure),
           handler'[h] = Idle,
           \A u \in firm : friendship'.status = "blocked" /\ friendship'.by = u
    PROVE  FirmOK'
<1> SUFFICES ASSUME NEW u \in firm'
             PROVE  /\ friendship'.status = "blocked" /\ friendship'.by = u
                    /\ \A g \in Handlers : handler'[g].op \in RowWriters =>
                         handler'[g].op = "block" /\ handler'[g].user = u
  BY DEF FirmOK
<1>1. handler'[h].op \notin RowWriters
  BY IdleIsGood DEF RowWriters
<1>2. CASE u \in firm
  BY <1>1, <1>2 DEF FirmOK, Moves
<1>3. CASE u \notin firm
  BY <1>1, <1>3, FirmComesFrom DEF Moves
<1> QED BY <1>2, <1>3

-----------------------------------------------------------------------------
(* The four ways in which a handler moves. *)

LEMMA TablesStay ==
    ASSUME TablesOK, UNCHANGED tables, starts' \in 0 .. MaxStarts
    PROVE  TablesOK'
  BY DEF TablesOK, tables, Rows

LEMMA CheckKeeps ==
    ASSUME IInv, NEW h \in Handlers, NEW r, GoodHandler(r), Check(h, r),
           r.op = handler[h].op, r.user = handler[h].user,
           NEW failure \in SUBSET {"failure"}, Remember(failure)
    PROVE  IInv'
<1>1. HandlersOK' /\ Moves(h) /\ handler'[h] = r
  BY ReplacedHandler DEF Check, IInv
<1>2. TablesOK'
  BY TablesStay DEF Check, IInv, TablesOK
<1>3. HistoryOK'
  BY HistoryStays DEF IInv
<1>4. FirmOK'
  BY <1>1, FirmStays DEF IInv, Check, tables
<1> QED BY <1>1, <1>2, <1>3, <1>4 DEF IInv

LEMMA StartCounts ==
    ASSUME TablesOK, starts < MaxStarts, starts' = starts + 1
    PROVE  starts' \in 0 .. MaxStarts
  BY ContactsAssumption DEF TablesOK

LEMMA BeginKeeps ==
    ASSUME IInv, NEW h \in Handlers, NEW r, GoodHandler(r), Begin(h, r),
           r.op \notin RowWriters,
           NEW failure \in SUBSET {"failure"}, Remember(failure)
    PROVE  IInv'
<1>1. HandlersOK' /\ Moves(h) /\ handler'[h] = r
  BY ReplacedHandler DEF Begin, IInv
<1>2. TablesOK'
  BY TablesStay, StartCounts DEF Begin, IInv
<1>3. HistoryOK'
  BY HistoryStays DEF IInv
<1>4. FirmOK'
  BY <1>1, FirmStays DEF IInv, Begin, tables
<1> QED BY <1>1, <1>2, <1>3, <1>4 DEF IInv

\* A handler that writes, but not the friendship row, and goes on or is done.
LEMMA WriteKeeps ==
    ASSUME IInv, NEW h \in Handlers, NEW r, GoodHandler(r),
           handler' = [handler EXCEPT ![h] = r],
           r = Idle \/ (r.op = handler[h].op /\ r.user = handler[h].user),
           TablesOK', friendship' = friendship,
           NEW failure \in SUBSET {"failure"}, Remember(failure)
    PROVE  IInv'
<1>1. HandlersOK' /\ Moves(h) /\ handler'[h] = r
  BY ReplacedHandler DEF IInv
<1>2. HistoryOK'
  BY HistoryStays DEF IInv
<1>3. r = Idle => r.op \notin RowWriters
  BY IdleIsGood DEF RowWriters
<1>4. FirmOK'
  BY <1>1, <1>3, FirmStays DEF IInv
<1> QED BY <1>1, <1>2, <1>4 DEF IInv

LEMMA FinishIsIdle ==
    ASSUME NEW h \in Handlers, Finish(h)
    PROVE  handler' = [handler EXCEPT ![h] = Idle] /\ starts' = starts
  BY DEF Finish

LEMMA ThrowsKeeps ==
    ASSUME IInv, NEW h \in Handlers, Throws(h),
           NEW failure \in SUBSET {"failure"}, Remember(failure)
    PROVE  IInv'
<1>1. TablesOK'
  BY TablesStay, FinishIsIdle DEF Throws, IInv, TablesOK
<1> QED BY <1>1, WriteKeeps, FinishIsIdle, IdleIsGood DEF Throws, tables

\* Finish without a write.
LEMMA StopKeeps ==
    ASSUME IInv, NEW h \in Handlers, Finish(h), UNCHANGED tables,
           NEW failure \in SUBSET {"failure"}, Remember(failure)
    PROVE  IInv'
<1>1. TablesOK'
  BY TablesStay, FinishIsIdle DEF IInv, TablesOK
<1> QED BY <1>1, WriteKeeps, FinishIsIdle, IdleIsGood DEF tables

-----------------------------------------------------------------------------
(* Handlers that start at the friendship row. *)

LEMMA FirmReader ==
    ASSUME IInv, NEW h \in Handlers, NEW op \in RowWriters, NEW u \in Users,
           Begin(h, [Starting(op, u, None) EXCEPT !.read = friendship]),
           op = "unfriend" => friendship.status = "active",
           op = "block" /\ friendship.status = "blocked" => friendship.by = u,
           op = "unblock" => friendship.by = u,
           NEW failure \in SUBSET {"failure"}, Remember(failure)
    PROVE  IInv'
<1> DEFINE r == [Starting(op, u, None) EXCEPT !.read = friendship]
<1>1. GoodHandler(r) /\ r.op = op /\ r.user = u
  <2>1. friendship \in Rows
    BY DEF IInv, TablesOK
  <2>2. /\ GoodHandler(Starting(op, u, None))
        /\ Starting(op, u, None).op = op /\ Starting(op, u, None).user = u
    BY StartingIsGood
  <2> QED BY <2>1, <2>2, ChangedIsGood
<1>2. HandlersOK' /\ Moves(h) /\ handler'[h] = r
  BY <1>1, ReplacedHandler DEF Begin, IInv
<1>3. TablesOK'
  BY TablesStay, StartCounts DEF Begin, IInv
<1>4. HistoryOK'
  BY HistoryStays DEF IInv
<1>5. FirmOK'
  <2> SUFFICES ASSUME NEW v \in firm'
               PROVE  /\ friendship'.status = "blocked" /\ friendship'.by = v
                      /\ \A g \in Handlers : handler'[g].op \in RowWriters =>
                           handler'[g].op = "block" /\ handler'[g].user = v
    BY DEF FirmOK
  <2>1. handler'[h] # Idle
    BY <1>1, <1>2, IdleIsGood DEF RowWriters
  <2>2. v \in firm /\ (op = "unblock" => u # v)
    BY <1>1, <1>2, <2>1, FirmComesFrom DEF IInv
  <2>3. friendship'.status = "blocked" /\ friendship'.by = v /\ friendship' = friendship
    BY <2>2 DEF IInv, FirmOK, Begin, tables
  <2>4. op = "block" /\ u = v
    BY <2>2, <2>3 DEF RowWriters
  <2>5. \A g \in Handlers : handler[g].op \in RowWriters =>
          handler[g].op = "block" /\ handler[g].user = v
    BY <2>2 DEF IInv, FirmOK
  <2>6. handler'[h].op = "block" /\ handler'[h].user = v
    BY <1>1, <1>2, <2>4, <2>3
  <2> QED BY <1>2, <2>3, <2>5, <2>6 DEF Moves
<1> QED BY <1>2, <1>3, <1>4, <1>5 DEF IInv

\* Steps that write the row.
LEMMA RowWriteKeeps ==
    ASSUME IInv, NEW h \in Handlers, Finish(h), TablesOK',
           \A u \in firm : friendship'.status = "blocked" /\ friendship'.by = u,
           NEW failure \in SUBSET {"failure"}, Remember(failure)
    PROVE  IInv'
<1>1. HandlersOK' /\ Moves(h) /\ handler'[h] = Idle
  BY ReplacedHandler, FinishIsIdle, IdleIsGood DEF IInv
<1>2. HistoryOK'
  BY HistoryStays DEF IInv
<1>3. FirmOK'
  BY <1>1, FirmRow DEF IInv
<1> QED BY <1>1, <1>2, <1>3 DEF IInv

\* Where somebody is firm there is a row.
LEMMA FirmHasRow == ASSUME IInv, firm # {} PROVE friendship # NoRow
  BY NoRowIsRow DEF IInv, FirmOK

LEMMA SaveBlockKeeps ==
    ASSUME IInv, NEW h \in Handlers, SaveBlock(h),
           NEW failure \in SUBSET {"failure"}, Remember(failure)
    PROVE  IInv'
<1> DEFINE u == handler[h].user
           r == handler[h].read
<1>1. u \in Users /\ r \in Rows /\ u # None
  BY ContactsAssumption DEF IInv, HandlersOK, GoodHandler, SaveBlock, At, RowWriters
<1>2. /\ friendship' \in Rows /\ rows' \in Nat
      /\ friendship'.status = "blocked" /\ friendship'.by = u
  <2>1. CASE r = NoRow
    BY <1>1, <2>1 DEF SaveBlock, Insert, Rows, IInv, TablesOK
  <2>2. CASE r # NoRow
    BY <1>1, <2>2 DEF SaveBlock, SaveRow, Rows, IInv, TablesOK
  <2> QED BY <2>1, <2>2
<1>3. TablesOK'
  BY <1>1, <1>2 DEF IInv, TablesOK, SaveBlock, Finish
<1>4. \A v \in firm : v = u
  BY DEF IInv, FirmOK, SaveBlock, At, RowWriters
<1> QED BY <1>2, <1>3, <1>4, RowWriteKeeps DEF SaveBlock

LEMMA DeleteRowKeeps ==
    ASSUME IInv, NEW h \in Handlers, DeleteRow(h),
           NEW failure \in SUBSET {"failure"}, Remember(failure)
    PROVE  IInv'
<1>1. firm = {}
  BY DEF IInv, FirmOK, DeleteRow, RowWriters
<1>2. friendship' \in {friendship, NoRow} /\ rows' = rows
  BY DEF DeleteRow, RemoveRow
<1>3. TablesOK'
  BY <1>2, NoRowIsRow DEF IInv, TablesOK, DeleteRow, Finish
<1> QED BY <1>1, <1>3, RowWriteKeeps DEF DeleteRow

LEMMA AcceptInsertKeeps ==
    ASSUME IInv, NEW h \in Handlers, AcceptInsert(h),
           NEW failure \in SUBSET {"failure"}, Remember(failure)
    PROVE  IInv'
<1>1. firm = {}
  BY FirmHasRow DEF AcceptInsert, Insert
<1>2. friendship' \in Rows /\ rows' \in Nat /\ friendship'.status = "active" /\ friendship'.by = None
  BY DEF AcceptInsert, Insert, Rows, IInv, TablesOK
<1>3. TablesOK'
  BY <1>2 DEF IInv, TablesOK, AcceptInsert, Finish
<1> QED BY <1>1, <1>3, RowWriteKeeps DEF AcceptInsert

LEMMA RemoveFriendKeeps ==
    ASSUME IInv, NEW h \in Handlers, NEW u \in Users, RemoveFriend(h, u),
           NEW failure \in SUBSET {"failure"}, Remember(failure)
    PROVE  IInv'
<1>1. "unfriend" \in RowWriters
  BY DEF RowWriters
<1> QED BY <1>1, FirmReader DEF RemoveFriend

LEMMA BlockFriendKeeps ==
    ASSUME IInv, NEW h \in Handlers, NEW u \in Users, BlockFriend(h, u),
           NEW failure \in SUBSET {"failure"}, Remember(failure)
    PROVE  IInv'
<1>1. "block" \in RowWriters
  BY DEF RowWriters
<1> QED BY <1>1, FirmReader DEF BlockFriend

LEMMA UnblockFriendKeeps ==
    ASSUME IInv, NEW h \in Handlers, NEW u \in Users, UnblockFriend(h, u),
           NEW failure \in SUBSET {"failure"}, Remember(failure)
    PROVE  IInv'
<1>1. "unblock" \in RowWriters
  BY DEF RowWriters
<1> QED BY <1>1, FirmReader DEF UnblockFriend, MayUnblock

-----------------------------------------------------------------------------
(* Friend requests, and the settings. *)

\* A handler that starts with a list of checks and writes no friendship row.
LEMMA StartKeeps ==
    ASSUME IInv, NEW h \in Handlers, NEW op, op \notin RowWriters, NEW u \in Users, NEW d, NEW todo,
           \/ Begin(h, Starting(op, u, d))
           \/ Begin(h, [Starting(op, u, d) EXCEPT !.todo = todo]),
           NEW failure \in SUBSET {"failure"}, Remember(failure)
    PROVE  IInv'
<1> DEFINE r == Starting(op, u, d)
<1>1. GoodHandler(r) /\ r.op = op
  BY StartingIsGood
<1>2. GoodHandler([r EXCEPT !.todo = todo]) /\ [r EXCEPT !.todo = todo].op = r.op
  BY <1>1, NoRowIsRow, ChangedIsGood
<1>3. CASE Begin(h, r)
  BY <1>1, <1>3, BeginKeeps
<1>4. CASE Begin(h, [r EXCEPT !.todo = todo])
  BY <1>1, <1>2, <1>4, BeginKeeps
<1> QED BY <1>3, <1>4

\* A reading handler goes on at another step.
LEMMA GoOnKeeps ==
    ASSUME IInv, NEW h \in Handlers, NEW step, Check(h, [handler[h] EXCEPT !.step = step]),
           NEW failure \in SUBSET {"failure"}, Remember(failure)
    PROVE  IInv'
<1>1. GoodHandler(handler[h])
  BY DEF IInv, HandlersOK
<1> DEFINE r == [handler[h] EXCEPT !.step = step]
<1>2. GoodHandler(r) /\ r.op = handler[h].op /\ r.user = handler[h].user
  BY <1>1, NoRowIsRow, ChangedIsGood
<1> QED BY <1>2, CheckKeeps

LEMMA SendRequestKeeps ==
    ASSUME IInv, NEW h \in Handlers, NEW u \in Users, SendRequest(h, u),
           NEW failure \in SUBSET {"failure"}, Remember(failure)
    PROVE  IInv'
<1>1. "request" \notin RowWriters
  BY DEF RowWriters
<1> QED BY <1>1, StartKeeps DEF SendRequest

LEMMA PendingReadKeeps ==
    ASSUME IInv, NEW h \in Handlers, PendingRead(h),
           NEW failure \in SUBSET {"failure"}, Remember(failure)
    PROVE  IInv'
  BY GoOnKeeps DEF PendingRead

LEMMA GotoStep ==
    ASSUME IInv, NEW h \in Handlers, NEW step, Goto(h, step)
    PROVE  LET r == [handler[h] EXCEPT !.step = step]
           IN  /\ handler' = [handler EXCEPT ![h] = r] /\ starts' = starts
               /\ GoodHandler(r) /\ r.op = handler[h].op /\ r.user = handler[h].user
<1> DEFINE r == [handler[h] EXCEPT !.step = step]
<1>1. GoodHandler(handler[h])
  BY DEF IInv, HandlersOK
<1>2. GoodHandler(r) /\ r.op = handler[h].op /\ r.user = handler[h].user
  BY <1>1, NoRowIsRow, ChangedIsGood
<1>3. handler' = [handler EXCEPT ![h] = r] /\ starts' = starts
  BY DEF Goto
<1> QED BY <1>2, <1>3

\* Writes to the requests, by a handler that goes on or is done.
LEMMA RequestWriteKeeps ==
    ASSUME IInv, NEW h \in Handlers, NEW r, GoodHandler(r),
           handler' = [handler EXCEPT ![h] = r], UNCHANGED starts,
           r = Idle \/ (r.op = handler[h].op /\ r.user = handler[h].user),
           UNCHANGED <<friendship, rows, permission, conv>>,
           request' \in [Requests -> [sender : Users \cup {None},
                                      status : {"none", "pending", "accepted", "declined"}]],
           NEW failure \in SUBSET {"failure"}, Remember(failure)
    PROVE  IInv'
<1>1. TablesOK'
  BY DEF IInv, TablesOK, Rows
<1> QED BY <1>1, WriteKeeps

LEMMA SaveRequestKeeps ==
    ASSUME IInv, NEW h \in Handlers, NEW q \in Requests, SaveRequest(h, q),
           NEW failure \in SUBSET {"failure"}, Remember(failure)
    PROVE  IInv'
<1>1. handler[h].user \in Users \cup {None}
  BY DEF IInv, HandlersOK, GoodHandler
<1>2. request' \in [Requests -> [sender : Users \cup {None},
                                 status : {"none", "pending", "accepted", "declined"}]]
  BY <1>1 DEF SaveRequest, IInv, TablesOK
<1> QED BY <1>2, RequestWriteKeeps, FinishIsIdle, IdleIsGood DEF SaveRequest

LEMMA RequestDecided ==
    ASSUME NEW f \in [Requests -> [sender : Users \cup {None},
                                   status : {"none", "pending", "accepted", "declined"}]],
           NEW q, NEW status \in {"accepted", "declined"}
    PROVE  [f EXCEPT ![q].status = status]
             \in [Requests -> [sender : Users \cup {None},
                               status : {"none", "pending", "accepted", "declined"}]]
<1>1. CASE q \in Requests
  <2>1. f[q] \in [sender : Users \cup {None},
                  status : {"none", "pending", "accepted", "declined"}]
    BY <1>1
  <2>2. [f[q] EXCEPT !.status = status]
          \in [sender : Users \cup {None},
               status : {"none", "pending", "accepted", "declined"}]
    BY <2>1
  <2> QED BY <2>2
<1>2. CASE q \notin Requests
  <2>1. [f EXCEPT ![q].status = status] = f
    BY <1>2
  <2> QED BY <2>1
<1> QED BY <1>1, <1>2

LEMMA DecideKeeps ==
    ASSUME IInv, NEW h \in Handlers, NEW op \in {"accept", "decline"}, NEW q \in Requests,
           Decide(h, op, q),
           NEW failure \in SUBSET {"failure"}, Remember(failure)
    PROVE  IInv'
<1>1. op \notin RowWriters
  BY DEF RowWriters
<1>2. Other(request[q].sender) \in Users
  BY OtherIsUser
<1> QED BY <1>1, <1>2, StartKeeps DEF Decide

LEMMA DeclineRequestKeeps ==
    ASSUME IInv, NEW h \in Handlers, DeclineRequest(h),
           NEW failure \in SUBSET {"failure"}, Remember(failure)
    PROVE  IInv'
<1>1. request' \in [Requests -> [sender : Users \cup {None},
                                 status : {"none", "pending", "accepted", "declined"}]]
  BY RequestDecided DEF DeclineRequest, IInv, TablesOK
<1> QED BY <1>1, RequestWriteKeeps, FinishIsIdle, IdleIsGood DEF DeclineRequest

LEMMA AcceptRequestKeeps ==
    ASSUME IInv, NEW h \in Handlers, AcceptRequest(h),
           NEW failure \in SUBSET {"failure"}, Remember(failure)
    PROVE  IInv'
<1>1. request' \in [Requests -> [sender : Users \cup {None},
                                 status : {"none", "pending", "accepted", "declined"}]]
  BY RequestDecided DEF AcceptRequest, IInv, TablesOK
<1> QED BY <1>1, RequestWriteKeeps, GotoStep DEF AcceptRequest

LEMMA AcceptFindKeeps ==
    ASSUME IInv, NEW h \in Handlers, AcceptFind(h),
           NEW failure \in SUBSET {"failure"}, Remember(failure)
    PROVE  IInv'
  BY GoOnKeeps, StopKeeps DEF AcceptFind

LEMMA SetPermissionKeeps ==
    ASSUME IInv, NEW u \in Users, NEW p \in {"everyone", "friends", "nobody"},
           SetPermission(u, p), Remember({})
    PROVE  IInv'
<1>1. TablesOK'
  BY StartCounts DEF IInv, TablesOK, SetPermission, Rows
<1>2. HandlersOK'
  BY DEF IInv, HandlersOK, GoodHandler, SetPermission, Rows
<1>3. HistoryOK'
  BY HistoryStays DEF IInv
<1>4. \A h \in Handlers : handler[h].op = "block" => handler[h] # Idle
  BY IdleIsGood
<1>5. firm' \subseteq firm
  BY <1>4 DEF Remember, SetPermission
<1>6. FirmOK'
  BY <1>5 DEF IInv, FirmOK, SetPermission
<1> QED BY <1>1, <1>2, <1>3, <1>6 DEF IInv

-----------------------------------------------------------------------------
(* Conversations. *)

ConvRecords == [state : {"none", "open", "gone"}, part : SUBSET Users, blocked : SUBSET Users]

\* A handler writes the conversation c, and goes on or is done.
LEMMA ConvWriteKeeps ==
    ASSUME IInv, NEW h \in Handlers, NEW r, GoodHandler(r),
           handler' = [handler EXCEPT ![h] = r], UNCHANGED starts,
           r = Idle \/ (r.op = handler[h].op /\ r.user = handler[h].user),
           UNCHANGED <<friendship, rows, request, permission>>,
           NEW c, NEW d, conv' = [conv EXCEPT ![c] = d],
           c \in Convs => d \in ConvRecords /\ d.blocked \subseteq d.part,
           NEW failure \in SUBSET {"failure"}, Remember(failure)
    PROVE  IInv'
<1>1. conv' \in [Convs -> ConvRecords] /\ \A e \in Convs : conv'[e].blocked \subseteq conv'[e].part
  BY DEF IInv, TablesOK, ConvRecords
<1>2. TablesOK'
  BY <1>1 DEF IInv, TablesOK, Rows, ConvRecords
<1> QED BY <1>2, WriteKeeps

LEMMA ConvIsRecord ==
    ASSUME IInv, NEW c \in Convs
    PROVE  conv[c] \in ConvRecords /\ conv[c].blocked \subseteq conv[c].part
  BY DEF IInv, TablesOK, ConvRecords

LEMMA CheckNextKeeps ==
    ASSUME IInv, NEW h \in Handlers, CheckNext(h),
           NEW failure \in SUBSET {"failure"}, Remember(failure)
    PROVE  IInv'
<1>1. PICK row, todo : row \in Rows /\ Check(h, [handler[h] EXCEPT !.read = row, !.todo = todo])
  BY NoRowIsRow DEF CheckNext, IInv, TablesOK
<1>2. GoodHandler(handler[h])
  BY DEF IInv, HandlersOK
<1> DEFINE r == [handler[h] EXCEPT !.read = row, !.todo = todo]
<1>3. GoodHandler(r) /\ r.op = handler[h].op /\ r.user = handler[h].user
  BY <1>1, <1>2 DEF GoodHandler, Fields
<1> QED BY <1>1, <1>3, CheckKeeps

LEMMA OpenKeeps ==
    ASSUME IInv, NEW h \in Handlers, NEW u \in Users, Open(h, u),
           NEW failure \in SUBSET {"failure"}, Remember(failure)
    PROVE  IInv'
<1>1. "open" \notin RowWriters
  BY DEF RowWriters
<1> QED BY <1>1, StartKeeps DEF Open

LEMMA FindSharedKeeps ==
    ASSUME IInv, NEW h \in Handlers, FindShared(h),
           NEW failure \in SUBSET {"failure"}, Remember(failure)
    PROVE  IInv'
  BY GoOnKeeps, StopKeeps DEF FindShared

LEMMA CreateKeeps ==
    ASSUME IInv, NEW h \in Handlers, NEW c \in Convs, Create(h, c),
           NEW failure \in SUBSET {"failure"}, Remember(failure)
    PROVE  IInv'
<1> DEFINE r == [handler[h] EXCEPT !.step = "joining", !.doc = c]
           d == [conv[c] EXCEPT !.state = "open"]
<1>1. GoodHandler(handler[h])
  BY DEF IInv, HandlersOK
<1>2. GoodHandler(r) /\ r.op = handler[h].op /\ r.user = handler[h].user
  BY <1>1 DEF GoodHandler, Fields
<1>3. handler' = [handler EXCEPT ![h] = r]
  BY DEF Create
<1>4. d \in ConvRecords /\ d.blocked \subseteq d.part
  BY ConvIsRecord DEF ConvRecords
<1>5. conv' = [conv EXCEPT ![c] = d]
  BY DEF Create
<1> HIDE DEF r, d
<1> QED BY <1>2, <1>3, <1>4, <1>5, ConvWriteKeeps DEF Create

LEMMA JoinKeeps ==
    ASSUME IInv, NEW h \in Handlers, Join(h),
           NEW failure \in SUBSET {"failure"}, Remember(failure)
    PROVE  IInv'
<1> DEFINE c == handler[h].doc
           d == [conv[c] EXCEPT !.part = Users]
<1>1. c \in Convs => d \in ConvRecords /\ d.blocked \subseteq d.part
  BY ConvIsRecord DEF ConvRecords
<1>2. conv' = [conv EXCEPT ![c] = d]
  BY DEF Join
<1> HIDE DEF c, d
<1> QED BY <1>1, <1>2, ConvWriteKeeps, FinishIsIdle, IdleIsGood DEF Join

LEMMA DeleteForUserKeeps ==
    ASSUME IInv, NEW h \in Handlers, NEW u \in Users, NEW c \in Convs, DeleteForUser(h, u, c),
           NEW failure \in SUBSET {"failure"}, Remember(failure)
    PROVE  IInv'
<1>1. "delete" \notin RowWriters
  BY DEF RowWriters
<1> QED BY <1>1, StartKeeps DEF DeleteForUser

LEMMA LeaveChatKeeps ==
    ASSUME IInv, NEW h \in Handlers, LeaveChat(h),
           NEW failure \in SUBSET {"failure"}, Remember(failure)
    PROVE  IInv'
<1> DEFINE c == handler[h].doc
           d == WithoutUser(conv[c], handler[h].user)
<1>1. c \in Convs => d \in ConvRecords /\ d.blocked \subseteq d.part
  BY ConvIsRecord DEF ConvRecords, WithoutUser
<1>2. conv' = [conv EXCEPT ![c] = d]
  BY DEF LeaveChat
<1> HIDE DEF c, d
<1> QED BY <1>1, <1>2, ConvWriteKeeps, GotoStep DEF LeaveChat

LEMMA CountRemainingKeeps ==
    ASSUME IInv, NEW h \in Handlers, CountRemaining(h),
           NEW failure \in SUBSET {"failure"}, Remember(failure)
    PROVE  IInv'
  BY GoOnKeeps, StopKeeps DEF CountRemaining

LEMMA DeleteEmptyKeeps ==
    ASSUME IInv, NEW h \in Handlers, DeleteEmpty(h),
           NEW failure \in SUBSET {"failure"}, Remember(failure)
    PROVE  IInv'
<1> DEFINE d == [NoConv EXCEPT !.state = "gone"]
<1>1. d \in ConvRecords /\ d.blocked \subseteq d.part
  BY DEF ConvRecords, NoConv
<1>2. conv' = [conv EXCEPT ![handler[h].doc] = d]
  BY DEF DeleteEmpty
<1> HIDE DEF d
<1> QED BY <1>1, <1>2, ConvWriteKeeps, FinishIsIdle, IdleIsGood DEF DeleteEmpty

LEMMA BarOrLiftKeeps ==
    ASSUME IInv, NEW h \in Handlers, NEW op \in {"bar", "lift"}, NEW u \in Users,
           NEW c \in Convs, BarOrLift(h, op, u, c),
           NEW failure \in SUBSET {"failure"}, Remember(failure)
    PROVE  IInv'
<1>1. op \notin RowWriters
  BY DEF RowWriters
<1> QED BY <1>1, StartKeeps DEF BarOrLift

\* Only the row of a participant is blocked.
LEMMA SaveBarKeeps ==
    ASSUME IInv, NEW h \in Handlers, NEW op \in {"bar", "lift"}, SaveBar(h, op),
           NEW failure \in SUBSET {"failure"}, Remember(failure)
    PROVE  IInv'
<1> DEFINE c == handler[h].doc
           target == {Other(handler[h].user)} \cap conv[c].part
           b == IF op = "bar" THEN conv[c].blocked \cup target ELSE conv[c].blocked \ target
           d == [conv[c] EXCEPT !.blocked = b]
<1>1. c \in Convs => d \in ConvRecords /\ d.blocked \subseteq d.part
  BY ConvIsRecord DEF ConvRecords
<1>2. conv' = [conv EXCEPT ![c] = d]
  BY DEF SaveBar
<1> HIDE DEF c, d
<1> QED BY <1>1, <1>2, ConvWriteKeeps, FinishIsIdle, IdleIsGood DEF SaveBar

LEMMA SendKeeps ==
    ASSUME IInv, NEW h \in Handlers, NEW route \in Routes, NEW u \in Users, NEW c \in Convs,
           Send(h, route, u, c),
           NEW failure \in SUBSET {"failure"}, Remember(failure)
    PROVE  IInv'
<1>1. route \notin RowWriters
  BY DEF RowWriters, Routes
<1> QED BY <1>1, StartKeeps DEF Send

LEMMA StoreKeeps ==
    ASSUME IInv, NEW h \in Handlers, NEW route \in Routes, Store(h, route),
           NEW failure \in SUBSET {"failure"}, Remember(failure)
    PROVE  IInv'
  BY StopKeeps DEF Store

-----------------------------------------------------------------------------
(* The invariant. *)

LEMMA InitKeeps == Init => IInv
<1> SUFFICES ASSUME Init PROVE IInv
  OBVIOUS
<1>1. friendship \in Rows /\ (friendship.status = "blocked" <=> friendship.by # None)
  BY NoRowIsRow DEF Init, Rows
<1>2. conv \in [Convs -> ConvRecords] /\ \A c \in Convs : conv[c].blocked \subseteq conv[c].part
  BY DEF Init, NoConv, ConvRecords
<1>3. TablesOK
  BY <1>1, <1>2, ContactsAssumption DEF Init, TablesOK, ConvRecords, Rows
<1>4. HandlersOK
  BY IdleIsGood DEF Init, HandlersOK
<1>5. HistoryOK /\ FirmOK
  BY DEF Init, HistoryOK, FirmOK
<1> QED BY <1>3, <1>4, <1>5 DEF IInv

LEMMA FriendsKeep ==
    ASSUME IInv, NEW h \in Handlers, Friends(h), Remember({})
    PROVE  IInv'
<1>0. {} \in SUBSET {"failure"}
  OBVIOUS
<1> QED
  BY <1>0, RemoveFriendKeeps, BlockFriendKeeps, UnblockFriendKeeps, SendRequestKeeps,
     SaveBlockKeeps, DeleteRowKeeps, PendingReadKeeps, SaveRequestKeeps, DecideKeeps,
     DeclineRequestKeeps, AcceptRequestKeeps, AcceptFindKeeps, AcceptInsertKeeps
     DEF Friends

LEMMA ChatsKeep ==
    ASSUME IInv, NEW h \in Handlers, Chats(h), Remember({})
    PROVE  IInv'
<1>0. {} \in SUBSET {"failure"}
  OBVIOUS
<1> QED
  BY <1>0, OpenKeeps, CheckNextKeeps, FindSharedKeeps, CreateKeeps, JoinKeeps,
     DeleteForUserKeeps, LeaveChatKeeps, CountRemainingKeeps, DeleteEmptyKeeps,
     BarOrLiftKeeps, SaveBarKeeps, SendKeeps, StoreKeeps
     DEF Chats

LEMMA NextKeeps == IInv /\ [Next]_vars => IInv'
<1> SUFFICES ASSUME IInv, [Next]_vars PROVE IInv'
  OBVIOUS
<1>1. CASE Next
  <2>1. ASSUME NEW h \in Handlers, (Friends(h) \/ Chats(h)) /\ Remember({})
        PROVE  IInv'
    BY <2>1, FriendsKeep, ChatsKeep
  <2>2. ASSUME NEW h \in Handlers, NEW failure \in SUBSET {"failure"},
               Throws(h), Remember(failure)
        PROVE  IInv'
    BY <2>2, ThrowsKeeps
  <2>3. ASSUME NEW u \in Users, NEW p \in {"everyone", "friends", "nobody"},
               SetPermission(u, p) /\ Remember({})
        PROVE  IInv'
    BY <2>3, SetPermissionKeeps
  <2> QED BY <1>1, <2>1, <2>2, <2>3 DEF Next
<1>2. CASE UNCHANGED vars
  BY <1>2 DEF vars, tables, history, IInv, TablesOK, HandlersOK, HistoryOK, FirmOK, GoodHandler, Rows
<1> QED BY <1>1, <1>2

\* The tables keep the shapes their entities have, and a friendship row names a blocker exactly
\* when it is blocked, through every interleaving of the handlers of FriendsService,
\* FriendRequestService and ConversationService.
THEOREM TypeCorrect == Spec => []TypeOK
<1>1. IInv => TypeOK
  BY DEF IInv, TablesOK, HandlersOK, HistoryOK, TypeOK
<1> QED BY InitKeeps, NextKeeps, <1>1, PTL DEF Spec

\* Who blocks the other with no other change of the row under way stays the blocker until it
\* asks for the end of the block, whatever the other side and the requests do (blockUser,
\* unblockUser, removeFriend, acceptRequest).
THEOREM BlockStandsFirm == Spec => []BlockStands
<1>1. IInv => BlockStands
  BY DEF IInv, FirmOK, BlockStands
<1> QED BY InitKeeps, NextKeeps, <1>1, PTL DEF Spec

-----------------------------------------------------------------------------
(* A text on its way. *)

\* The checks still ahead of a text, and what the checks behind it have cleared away.
Stage(op, todo, gone) ==
    \/ op = "routed" /\ todo = <<"friendship", "relation", "permission", "chat">> /\ gone = {}
    \/ op = "routed" /\ todo = <<"relation", "permission", "chat">> /\ gone = {}
    \/ op = "routed" /\ todo = <<"permission", "chat">> /\ gone = {"friendship"}
    \/ op = "routed" /\ todo = <<"chat">> /\ gone = {"friendship", "nobody", "stranger"}
    \/ op = "message" /\ todo = <<"others", "friendship", "chat">> /\ gone = {}
    \/ op = "message" /\ todo = <<"friendship", "chat">> /\ gone = {}
    \/ op = "message" /\ todo = <<"chat">> /\ gone = {"friendship"}
    \/ op = "message" /\ todo = <<>> /\ gone = {"friendship", "chat"}
    \/ op = "socket" /\ todo = <<"participants", "relation", "permission">> /\ gone = {}
    \/ op = "socket" /\ todo = <<"relation", "permission">> /\ gone = {"chat"}
    \/ op = "socket" /\ todo = <<"permission">> /\ gone = {"chat", "friendship"}
    \/ /\ op \in {"routed", "socket"} /\ todo = <<>>
       /\ gone = {"chat", "friendship", "nobody", "stranger"}

AtPermission(todo) == todo \in {<<"permission">>, <<"permission", "chat">>}

\* Nothing that is cleared away has stood there all the time, and whoever read a friendship
\* has not been a stranger all the time.
TextOK(r, met) ==
    /\ \E gone : Stage(r.op, r.todo, gone) /\ met \cap gone = {}
    /\ AtPermission(r.todo) /\ r.read.status = "active" => "stranger" \notin met

TextsOK == \A h \in Handlers : handler[h].op \in Routes => TextOK(handler[h], under[h])

\* What a check that passes clears away.
Clears(k) ==
    CASE k \in {"chat", "participants"}   -> {"chat"}
      [] k \in {"friendship", "relation"} -> {"friendship"}
      [] k = "permission"                 -> {"nobody", "stranger"}
      [] OTHER                            -> {}

LEMMA LessIsOK ==
    ASSUME NEW r, NEW met, NEW less, TextOK(r, met), less \subseteq met
    PROVE  TextOK(r, less)
  BY DEF TextOK

\* A check further on, its own barrier is gone too.
LEMMA NextStage ==
    ASSUME NEW op, NEW todo, NEW gone, Stage(op, todo, gone), todo # <<>>
    PROVE  /\ \E g : Stage(op, Tail(todo), g) /\ g \subseteq gone \cup Clears(Head(todo))
           /\ Head(todo) = "permission" => AtPermission(todo)
           /\ AtPermission(Tail(todo)) => Head(todo) = "relation"
           /\ Head(todo) = "others" => op = "message"
           /\ Head(todo) = "participants" => op = "socket"
<1>1. CASE op = "routed" /\ todo = <<"friendship", "relation", "permission", "chat">> /\ gone = {}
  <2>1. Head(todo) = "friendship" /\ Tail(todo) = <<"relation", "permission", "chat">>
    BY <1>1
  <2>2. Stage(op, <<"relation", "permission", "chat">>, {})
    BY <1>1 DEF Stage
  <2>3. {} \subseteq gone \cup Clears("friendship")
    BY <1>1 DEF Clears
  <2> QED BY <1>1, <2>1, <2>2, <2>3 DEF AtPermission
<1>2. CASE op = "routed" /\ todo = <<"relation", "permission", "chat">> /\ gone = {}
  <2>1. Head(todo) = "relation" /\ Tail(todo) = <<"permission", "chat">>
    BY <1>2
  <2>2. Stage(op, <<"permission", "chat">>, {"friendship"})
    BY <1>2 DEF Stage
  <2>3. {"friendship"} \subseteq gone \cup Clears("relation")
    BY <1>2 DEF Clears
  <2> QED BY <1>2, <2>1, <2>2, <2>3 DEF AtPermission
<1>3. CASE op = "routed" /\ todo = <<"permission", "chat">> /\ gone = {"friendship"}
  <2>1. Head(todo) = "permission" /\ Tail(todo) = <<"chat">>
    BY <1>3
  <2>2. Stage(op, <<"chat">>, {"friendship", "nobody", "stranger"})
    BY <1>3 DEF Stage
  <2>3. {"friendship", "nobody", "stranger"} \subseteq gone \cup Clears("permission")
    BY <1>3 DEF Clears
  <2> QED BY <1>3, <2>1, <2>2, <2>3 DEF AtPermission
<1>4. CASE op = "routed" /\ todo = <<"chat">> /\ gone = {"friendship", "nobody", "stranger"}
  <2>1. Head(todo) = "chat" /\ Tail(todo) = <<>>
    BY <1>4
  <2>2. Stage(op, <<>>, {"chat", "friendship", "nobody", "stranger"})
    BY <1>4 DEF Stage
  <2>3. {"chat", "friendship", "nobody", "stranger"} \subseteq gone \cup Clears("chat")
    BY <1>4 DEF Clears
  <2> QED BY <1>4, <2>1, <2>2, <2>3 DEF AtPermission
<1>5. CASE op = "message" /\ todo = <<"others", "friendship", "chat">> /\ gone = {}
  <2>1. Head(todo) = "others" /\ Tail(todo) = <<"friendship", "chat">>
    BY <1>5
  <2>2. Stage(op, <<"friendship", "chat">>, {})
    BY <1>5 DEF Stage
  <2>3. {} \subseteq gone \cup Clears("others")
    BY <1>5 DEF Clears
  <2> QED BY <1>5, <2>1, <2>2, <2>3 DEF AtPermission
<1>6. CASE op = "message" /\ todo = <<"friendship", "chat">> /\ gone = {}
  <2>1. Head(todo) = "friendship" /\ Tail(todo) = <<"chat">>
    BY <1>6
  <2>2. Stage(op, <<"chat">>, {"friendship"})
    BY <1>6 DEF Stage
  <2>3. {"friendship"} \subseteq gone \cup Clears("friendship")
    BY <1>6 DEF Clears
  <2> QED BY <1>6, <2>1, <2>2, <2>3 DEF AtPermission
<1>7. CASE op = "message" /\ todo = <<"chat">> /\ gone = {"friendship"}
  <2>1. Head(todo) = "chat" /\ Tail(todo) = <<>>
    BY <1>7
  <2>2. Stage(op, <<>>, {"friendship", "chat"})
    BY <1>7 DEF Stage
  <2>3. {"friendship", "chat"} \subseteq gone \cup Clears("chat")
    BY <1>7 DEF Clears
  <2> QED BY <1>7, <2>1, <2>2, <2>3 DEF AtPermission
<1>8. CASE op = "socket" /\ todo = <<"participants", "relation", "permission">> /\ gone = {}
  <2>1. Head(todo) = "participants" /\ Tail(todo) = <<"relation", "permission">>
    BY <1>8
  <2>2. Stage(op, <<"relation", "permission">>, {"chat"})
    BY <1>8 DEF Stage
  <2>3. {"chat"} \subseteq gone \cup Clears("participants")
    BY <1>8 DEF Clears
  <2> QED BY <1>8, <2>1, <2>2, <2>3 DEF AtPermission
<1>9. CASE op = "socket" /\ todo = <<"relation", "permission">> /\ gone = {"chat"}
  <2>1. Head(todo) = "relation" /\ Tail(todo) = <<"permission">>
    BY <1>9
  <2>2. Stage(op, <<"permission">>, {"chat", "friendship"})
    BY <1>9 DEF Stage
  <2>3. {"chat", "friendship"} \subseteq gone \cup Clears("relation")
    BY <1>9 DEF Clears
  <2> QED BY <1>9, <2>1, <2>2, <2>3 DEF AtPermission
<1>10. CASE op = "socket" /\ todo = <<"permission">> /\ gone = {"chat", "friendship"}
  <2>1. Head(todo) = "permission" /\ Tail(todo) = <<>>
    BY <1>10
  <2>2. Stage(op, <<>>, {"chat", "friendship", "nobody", "stranger"})
    BY <1>10 DEF Stage
  <2>3. {"chat", "friendship", "nobody", "stranger"} \subseteq gone \cup Clears("permission")
    BY <1>10 DEF Clears
  <2> QED BY <1>10, <2>1, <2>2, <2>3 DEF AtPermission
<1> QED BY <1>1, <1>2, <1>3, <1>4, <1>5, <1>6, <1>7, <1>8, <1>9, <1>10 DEF Stage

\* What has passed its check is no barrier, and alone in a conversation only its block is.
LEMMA PassedIsGone ==
    ASSUME NEW k, NEW u, NEW c, NEW status, Passes(k, u, c, status)
    PROVE  /\ "chat" \in Clears(k) => "chat" \notin Barriers(u, c)
           /\ "friendship" \in Clears(k) => "friendship" \notin Barriers(u, c)
           /\ k = "permission" => "nobody" \notin Barriers(u, c)
           /\ k = "permission" /\ "stranger" \in Barriers(u, c) => status = "active"
<1>1. CASE k \in {"chat", "participants"}
  BY <1>1 DEF Passes, Barriers, ChatOpen, Clears
<1>2. CASE k \in {"friendship", "relation"}
  BY <1>2 DEF Passes, Barriers, NotBlocked, Clears
<1>3. CASE k = "permission"
  BY <1>3 DEF Passes, Barriers, ContactAllowed, Clears
<1>4. CASE k \notin {"chat", "participants", "friendship", "relation", "permission"}
  BY <1>4 DEF Clears
<1> QED BY <1>1, <1>2, <1>3, <1>4

LEMMA AloneOrFriends ==
    ASSUME NEW u, NEW c
    PROVE  /\ Other(u) \notin conv[c].part => Barriers(u, c) \subseteq {"chat"}
           /\ friendship.status = "active" => "stranger" \notin Barriers(u, c)
  BY DEF Barriers

\* What a step does to a handler that has a text under way, or begins one.
LEMMA UnderStep ==
    ASSUME NEW h \in Handlers, NEW failure, Remember(failure), handler'[h].op \in Routes
    PROVE  under'[h] = IF handler[h] = Idle THEN BarriersOf(h)'
                                            ELSE under[h] \cap BarriersOf(h)'
  BY DEF Remember

LEMMA IdleHasNoText == Idle.op \notin Routes
  BY IdleIsGood DEF Routes

LEMMA OtherTexts ==
    ASSUME TextsOK, NEW failure, Remember(failure), NEW g \in Handlers,
           handler'[g] = handler[g], handler'[g].op \in Routes
    PROVE  TextOK(handler'[g], under'[g])
<1>1. under'[g] \subseteq under[g]
  BY UnderStep, IdleHasNoText
<1>2. TextOK(handler[g], under[g])
  BY DEF TextsOK
<1>3. ASSUME NEW r, r = handler[g], NEW less, less = under'[g]
      PROVE  TextOK(r, less)
  BY <1>1, <1>2, <1>3, LessIsOK
<1>4. ASSUME NEW r, r = handler'[g], NEW less, less = under'[g]
      PROVE  TextOK(r, less)
  BY <1>3, <1>4
<1> QED BY <1>4 DEF TextOK

LEMMA TextsKept ==
    ASSUME TextsOK, NEW h \in Handlers, Moves(h), NEW failure, Remember(failure),
           handler'[h].op \in Routes => TextOK(handler'[h], under'[h])
    PROVE  TextsOK'
<1>1. \A g \in Handlers : handler'[g].op \in Routes => TextOK(handler'[g], under'[g])
  BY OtherTexts DEF Moves
<1> QED BY <1>1 DEF TextsOK, TextOK, Stage, AtPermission

\* The record of a text after a check, and of one that begins.
LEMMA CheckedText ==
    ASSUME NEW r, GoodHandler(r), NEW row, NEW todo
    PROVE  LET s == [r EXCEPT !.read = row, !.todo = todo]
           IN  /\ s.op = r.op /\ s.user = r.user /\ s.doc = r.doc
               /\ s.read = row /\ s.todo = todo
  BY DEF GoodHandler, Fields

\* A check of a text passes: with what it clears away, the text is at its next stage.
LEMMA PassedOn ==
    ASSUME NEW r, r.op \in Routes, NEW met, TextOK(r, met), r.todo # <<>>,
           NEW u, NEW c, NEW k, k = Head(r.todo), Passes(k, u, c, r.read.status),
           NEW less, less \subseteq met \cap Barriers(u, c),
           NEW s, s.op = r.op,
           s.read.status = "active" => k = "relation" /\ friendship.status = "active",
           \/ s.todo = Tail(r.todo)
           \/ /\ k \in {"others", "participants"} /\ Other(u) \notin conv[c].part
              /\ s.todo = ChecksAlone(r.op)
    PROVE  TextOK(s, less)
<1>1. PICK gone : Stage(r.op, r.todo, gone) /\ met \cap gone = {}
  BY DEF TextOK
<1>2. PICK g : Stage(r.op, Tail(r.todo), g) /\ g \subseteq gone \cup Clears(k)
  BY <1>1, NextStage
<1>3. less \cap Clears(k) = {}
  <2>1. k = "permission" /\ "stranger" \in less => FALSE
    BY <1>1, NextStage, PassedIsGone DEF TextOK
  <2>2. CASE k = "permission"
    BY <2>1, <2>2, PassedIsGone DEF Clears
  <2>3. CASE k # "permission"
    BY <2>3, PassedIsGone DEF Clears
  <2> QED BY <2>2, <2>3
<1>4. s.read.status = "active" => "stranger" \notin less
  BY AloneOrFriends
<1>5. CASE s.todo = Tail(r.todo)
  BY <1>1, <1>2, <1>3, <1>4, <1>5 DEF TextOK
<1>6. CASE /\ k \in {"others", "participants"} /\ Other(u) \notin conv[c].part
           /\ s.todo = ChecksAlone(r.op)
  <2>1. less \subseteq {"chat"}
    BY <1>6, AloneOrFriends
  <2>2. CASE k = "others"
    <3>1. s.op = "message" /\ s.todo = <<"chat">>
      BY <1>1, <1>6, <2>2, NextStage DEF ChecksAlone
    <3>2. Stage(s.op, s.todo, {"friendship"})
      BY <3>1 DEF Stage
    <3> QED BY <1>4, <2>1, <3>2 DEF TextOK
  <2>3. CASE k = "participants"
    <3>1. s.op = "socket" /\ s.todo = <<>>
      BY <1>1, <1>6, <2>3, NextStage DEF ChecksAlone
    <3>2. Stage(s.op, s.todo, {"chat", "friendship", "nobody", "stranger"})
      BY <3>1 DEF Stage
    <3>3. "chat" \notin less
      BY <1>3, <2>3 DEF Clears
    <3> QED BY <1>4, <2>1, <3>2, <3>3 DEF TextOK
  <2> QED BY <1>6, <2>2, <2>3
<1> QED BY <1>5, <1>6

LEMMA BarriersStay ==
    ASSUME UNCHANGED tables, NEW u, NEW c
    PROVE  Barriers(u, c)' = Barriers(u, c)
  BY DEF Barriers, tables

LEMMA CheckNextTexts ==
    ASSUME IInv, TextsOK, NEW h \in Handlers, CheckNext(h), NEW failure, Remember(failure)
    PROVE  TextsOK'
<1> DEFINE k == Head(handler[h].todo)
           u == handler[h].user
           c == handler[h].doc
           row == IF k = "relation" THEN friendship ELSE NoRow
           todo == IF k \in {"others", "participants"} /\ Other(u) \notin conv[c].part
                   THEN ChecksAlone(handler[h].op) ELSE Tail(handler[h].todo)
           s == [handler[h] EXCEPT !.read = row, !.todo = todo]
<1>1. /\ handler[h].todo # <<>> /\ Passes(k, u, c, handler[h].read.status)
      /\ handler' = [handler EXCEPT ![h] = s] /\ UNCHANGED tables
  BY DEF CheckNext, Check
<1>2. GoodHandler(handler[h])
  BY DEF IInv, HandlersOK
<1>3. /\ s.op = handler[h].op /\ s.user = u /\ s.doc = c /\ s.read = row /\ s.todo = todo
  BY <1>2, CheckedText
<1>4. handler'[h] = s /\ Moves(h)
  BY <1>1 DEF IInv, HandlersOK, Moves
<1>5. row.status = "active" => k = "relation" /\ friendship.status = "active"
  BY NoRowIsRow
<1>6. handler[h].op \in Routes => TextOK(s, under'[h])
  <2> SUFFICES ASSUME handler[h].op \in Routes PROVE TextOK(s, under'[h])
    OBVIOUS
  <2>1. under'[h] = under[h] \cap BarriersOf(h)'
    BY <1>3, <1>4, UnderStep, IdleHasNoText
  <2>2. ASSUME NEW v, v = u, NEW d, d = c
        PROVE  BarriersOf(h)' = Barriers(v, d)
    <3>1. BarriersOf(h)' = Barriers(v, d)'
      BY <1>3, <1>4, <2>2 DEF BarriersOf, Barriers
    <3> QED BY <1>1, <3>1, BarriersStay
  <2>3. under'[h] \subseteq under[h] \cap Barriers(u, c)
    BY <2>1, <2>2
  <2>4. TextOK(handler[h], under[h])
    BY DEF TextsOK
  <2>5. s.read.status = "active" => k = "relation" /\ friendship.status = "active"
    BY <1>3, <1>5
  <2>6. \/ s.todo = Tail(handler[h].todo)
        \/ /\ k \in {"others", "participants"} /\ Other(u) \notin conv[c].part
           /\ s.todo = ChecksAlone(handler[h].op)
    BY <1>3
  <2> HIDE DEF s, u, c, k, row, todo
  <2>7. ASSUME NEW r, r = handler[h], NEW met, met = under[h], NEW less, less = under'[h],
               NEW v, v = u, NEW d, d = c, NEW j, j = k, NEW n, n = s
        PROVE  TextOK(n, less)
    <3>1. j = Head(r.todo)
      BY <2>7 DEF k
    <3> QED BY <1>1, <1>3, <2>3, <2>4, <2>5, <2>6, <2>7, <3>1, PassedOn
  <2> QED BY <2>7
<1> HIDE DEF s
<1>7. handler'[h].op \in Routes => TextOK(handler'[h], under'[h])
  BY <1>3, <1>4, <1>6 DEF TextOK
<1> QED BY <1>4, <1>7, TextsKept

LEMMA SendTexts ==
    ASSUME IInv, TextsOK, NEW h \in Handlers, NEW route \in Routes, NEW u \in Users,
           NEW c \in Convs, Send(h, route, u, c), NEW failure, Remember(failure)
    PROVE  TextsOK'
<1> DEFINE alone == route = "routed" /\ Other(u) \notin conv[c].part
           todo == IF alone THEN ChecksAlone(route) ELSE Checks(route)
           s == [Starting(route, u, c) EXCEPT !.todo = todo]
<1>1. handler[h] = Idle /\ handler' = [handler EXCEPT ![h] = s] /\ UNCHANGED tables
  BY DEF Send, Begin
<1>2. s.op = route /\ s.user = u /\ s.doc = c /\ s.todo = todo
  BY DEF Starting, Idle
<1>3. handler'[h] = s /\ Moves(h)
  BY <1>1 DEF IInv, HandlersOK, Moves
<1>4. under'[h] = Barriers(u, c)
  <2>1. under'[h] = BarriersOf(h)'
    BY <1>1, <1>2, <1>3, UnderStep
  <2>2. BarriersOf(h)' = Barriers(u, c)'
    BY <1>2, <1>3 DEF BarriersOf, Barriers
  <2> QED BY <1>1, <2>1, <2>2, BarriersStay
<1>5. TextOK(s, under'[h])
  <2>1. CASE alone
    <3>1. todo = <<"chat">> /\ under'[h] \subseteq {"chat"}
      BY <1>4, <2>1, AloneOrFriends DEF ChecksAlone
    <3>2. Stage("routed", <<"chat">>, {"friendship", "nobody", "stranger"})
      BY DEF Stage
    <3>3. ~ AtPermission(<<"chat">>)
      BY DEF AtPermission
    <3> QED BY <1>2, <2>1, <3>1, <3>2, <3>3 DEF TextOK
  <2>2. CASE ~ alone
    <3>1. todo = Checks(route)
      BY <2>2
    <3>2. Stage(route, Checks(route), {})
      BY DEF Stage, Checks, Routes
    <3>3. ~ AtPermission(Checks(route))
      BY DEF AtPermission, Checks, Routes
    <3> QED BY <1>2, <3>1, <3>2, <3>3 DEF TextOK
  <2> QED BY <2>1, <2>2
<1>6. handler'[h].op \in Routes => TextOK(handler'[h], under'[h])
  BY <1>3, <1>5 DEF TextOK
<1> QED BY <1>3, <1>6, TextsKept

-----------------------------------------------------------------------------
(* The record of a handler that starts, goes on or is done. *)

LEMMA Replaced ==
    ASSUME IInv, NEW h \in Handlers, NEW r, handler' = [handler EXCEPT ![h] = r]
    PROVE  Moves(h) /\ handler'[h] = r
  BY DEF IInv, HandlersOK, Moves

LEMMA Finished ==
    ASSUME IInv, NEW h \in Handlers, Finish(h)
    PROVE  Moves(h) /\ handler'[h] = Idle /\ handler'[h].op = "idle"
  BY Replaced, FinishIsIdle, IdleIsGood

LEMMA StartedAs ==
    ASSUME IInv, NEW h \in Handlers, NEW r, Begin(h, r)
    PROVE  Moves(h) /\ UNCHANGED tables /\ handler[h] = Idle /\ handler'[h] = r
  BY Replaced DEF Begin

LEMMA StartingIs ==
    ASSUME NEW op, NEW u, NEW d
    PROVE  /\ Starting(op, u, d).op = op /\ Starting(op, u, d).step = "read"
           /\ Starting(op, u, d).doc = d /\ DOMAIN Starting(op, u, d) = Fields
  BY DEF Starting, Idle, Fields

LEMMA Started ==
    ASSUME IInv, NEW h \in Handlers, NEW op, NEW u, NEW d, Begin(h, Starting(op, u, d))
    PROVE  /\ Moves(h) /\ UNCHANGED tables /\ handler[h] = Idle
           /\ handler'[h].op = op /\ handler'[h].step = "read" /\ handler'[h].doc = d
  BY StartedAs, StartingIs

LEMMA StartedToCheck ==
    ASSUME IInv, NEW h \in Handlers, NEW op, NEW u, NEW d, NEW todo,
           Begin(h, [Starting(op, u, d) EXCEPT !.todo = todo])
    PROVE  /\ Moves(h) /\ UNCHANGED tables /\ handler[h] = Idle
           /\ handler'[h].op = op /\ handler'[h].step = "read" /\ handler'[h].doc = d
<1>1. ASSUME NEW r, DOMAIN r = Fields
      PROVE  /\ [r EXCEPT !.todo = todo].op = r.op /\ [r EXCEPT !.todo = todo].step = r.step
             /\ [r EXCEPT !.todo = todo].doc = r.doc
  BY <1>1 DEF Fields
<1> DEFINE s == Starting(op, u, d)
           t == [s EXCEPT !.todo = todo]
<1>2. t.op = op /\ t.step = "read" /\ t.doc = d
  <2> HIDE DEF s
  <2>1. DOMAIN s = Fields /\ s.op = op /\ s.step = "read" /\ s.doc = d
    BY StartingIs DEF s
  <2> QED BY <1>1, <2>1
<1>3. Begin(h, t)
  OBVIOUS
<1> HIDE DEF t
<1> QED BY <1>2, <1>3, StartedAs

LEMMA StartedWithRow ==
    ASSUME IInv, NEW h \in Handlers, NEW op, NEW u, NEW d, NEW row,
           Begin(h, [Starting(op, u, d) EXCEPT !.read = row])
    PROVE  /\ Moves(h) /\ UNCHANGED tables /\ handler[h] = Idle /\ handler'[h].op = op
<1>1. ASSUME NEW r, DOMAIN r = Fields
      PROVE  [r EXCEPT !.read = row].op = r.op
  BY <1>1 DEF Fields
<1> DEFINE s == Starting(op, u, d)
           t == [s EXCEPT !.read = row]
<1>2. t.op = op
  <2> HIDE DEF s
  <2>1. DOMAIN s = Fields /\ s.op = op
    BY StartingIs DEF s
  <2> QED BY <1>1, <2>1
<1>3. Begin(h, t)
  OBVIOUS
<1> HIDE DEF t
<1> QED BY <1>2, <1>3, StartedAs

LEMMA WentOn ==
    ASSUME IInv, NEW h \in Handlers, NEW step,
           \/ Goto(h, step)
           \/ Check(h, [handler[h] EXCEPT !.step = step])
    PROVE  /\ Moves(h) /\ handler'[h].step = step
           /\ handler'[h].op = handler[h].op /\ handler'[h].doc = handler[h].doc
<1>1. handler' = [handler EXCEPT ![h] = [handler[h] EXCEPT !.step = step]]
  BY DEF Goto, Check
<1>2. DOMAIN handler[h] = Fields
  BY DEF IInv, HandlersOK, GoodHandler
<1>3. /\ [handler[h] EXCEPT !.step = step].step = step
      /\ [handler[h] EXCEPT !.step = step].op = handler[h].op
      /\ [handler[h] EXCEPT !.step = step].doc = handler[h].doc
  BY <1>2 DEF Fields
<1> QED BY <1>1, <1>3, Replaced

LEMMA ThrowsFinishes ==
    ASSUME IInv, NEW h \in Handlers, Throws(h)
    PROVE  Moves(h) /\ UNCHANGED tables /\ handler'[h] = Idle
  BY Finished DEF Throws

\* Handlers that have to do with conversations and texts.
Talking == {"open", "delete"} \cup Routes

LEMMA FriendsApart ==
    ASSUME IInv, NEW h \in Handlers, Friends(h)
    PROVE  /\ Moves(h) /\ UNCHANGED conv
           /\ handler[h].op \notin Talking /\ handler'[h].op \notin Talking
<1> DEFINE Goal == /\ Moves(h) /\ UNCHANGED conv
                   /\ handler[h].op \notin Talking /\ handler'[h].op \notin Talking
           Writers == {"unfriend", "block", "unblock", "request", "accept", "decline"}
<1>0. Writers \cap Talking = {} /\ "idle" \notin Talking
  BY DEF Talking, Routes
<1> HIDE DEF Writers
<1>w. {"unfriend", "block", "unblock", "request", "accept", "decline"} = Writers
  BY DEF Writers
<1>1. ASSUME NEW op \in Writers, NEW u, NEW d, NEW row,
             \/ Begin(h, Starting(op, u, d))
             \/ Begin(h, [Starting(op, u, d) EXCEPT !.read = row])
      PROVE  Goal
  BY <1>0, <1>1, Started, StartedWithRow, IdleIsGood DEF tables
<1>2. ASSUME NEW u \in Users, RemoveFriend(h, u) PROVE Goal
  BY <1>1, <1>2, <1>w DEF RemoveFriend
<1>3. ASSUME NEW u \in Users, BlockFriend(h, u) PROVE Goal
  BY <1>1, <1>3, <1>w DEF BlockFriend
<1>4. ASSUME NEW u \in Users, UnblockFriend(h, u) PROVE Goal
  BY <1>1, <1>4, <1>w DEF UnblockFriend
<1>5. ASSUME NEW u \in Users, SendRequest(h, u) PROVE Goal
  BY <1>1, <1>5, <1>w DEF SendRequest
<1>6. ASSUME NEW q \in Requests, NEW op \in {"accept", "decline"}, Decide(h, op, q) PROVE Goal
  BY <1>1, <1>6, <1>w DEF Decide
<1>7. CASE SaveBlock(h)
  BY <1>0, <1>7, <1>w, Finished DEF SaveBlock, At
<1>8. CASE DeleteRow(h)
  BY <1>0, <1>8, <1>w, Finished DEF DeleteRow
<1>9. CASE PendingRead(h)
  BY <1>0, <1>9, <1>w, WentOn DEF PendingRead, At, Check, tables
<1>10. ASSUME NEW q \in Requests, SaveRequest(h, q) PROVE Goal
  BY <1>0, <1>10, <1>w, Finished DEF SaveRequest, At
<1>11. CASE DeclineRequest(h)
  BY <1>0, <1>11, <1>w, Finished DEF DeclineRequest, At
<1>12. CASE AcceptRequest(h)
  BY <1>0, <1>12, <1>w, WentOn DEF AcceptRequest, At
<1>13. CASE AcceptFind(h)
  BY <1>0, <1>13, <1>w, WentOn, Finished DEF AcceptFind, At, Check, tables
<1>14. CASE AcceptInsert(h)
  BY <1>0, <1>14, <1>w, Finished DEF AcceptInsert, At
<1> QED
  BY <1>2, <1>3, <1>4, <1>5, <1>6, <1>7, <1>8, <1>9, <1>10, <1>11, <1>12, <1>13, <1>14
     DEF Friends

\* A step after which its handler has no text under way.
LEMMA NoTextLeft ==
    ASSUME IInv, TextsOK, NEW h \in Handlers, NEW failure, Remember(failure),
           Moves(h), handler'[h].op \notin Routes
    PROVE  TextsOK'
  BY TextsKept

LEMMA ChatsTexts ==
    ASSUME IInv, TextsOK, NEW h \in Handlers, Chats(h), Remember({})
    PROVE  TextsOK'
<1>0. /\ "open" \notin Routes /\ "delete" \notin Routes /\ "bar" \notin Routes
      /\ "lift" \notin Routes /\ "idle" \notin Routes
  BY DEF Routes
<1>1. ASSUME NEW u \in Users, Open(h, u) PROVE TextsOK'
  <2>1. Moves(h) /\ handler'[h].op = "open"
    BY <1>1, StartedToCheck DEF Open
  <2> QED BY <1>0, <2>1, NoTextLeft
<1>2. CASE CheckNext(h)
  BY <1>2, CheckNextTexts
<1>3. CASE FindShared(h)
  BY <1>0, <1>3, WentOn, Finished, NoTextLeft DEF FindShared, Ready, At
<1>4. ASSUME NEW c \in Convs, Create(h, c) PROVE TextsOK'
  <2>1. DOMAIN handler[h] = Fields
    BY DEF IInv, HandlersOK, GoodHandler
  <2>2. Moves(h) /\ handler'[h].op = handler[h].op
    BY <1>4, <2>1 DEF Create, IInv, HandlersOK, Moves, Fields
  <2> QED BY <1>0, <1>4, <2>2, NoTextLeft DEF Create, At
<1>5. CASE Join(h)
  BY <1>0, <1>5, Finished, NoTextLeft DEF Join
<1>6. ASSUME NEW u \in Users, NEW c \in Convs, DeleteForUser(h, u, c) PROVE TextsOK'
  BY <1>0, <1>6, Started, NoTextLeft DEF DeleteForUser
<1>7. CASE LeaveChat(h)
  BY <1>0, <1>7, WentOn, NoTextLeft DEF LeaveChat, At
<1>8. CASE CountRemaining(h)
  BY <1>0, <1>8, WentOn, Finished, NoTextLeft DEF CountRemaining, At
<1>9. CASE DeleteEmpty(h)
  BY <1>0, <1>9, Finished, NoTextLeft DEF DeleteEmpty
<1>10. ASSUME NEW op \in {"bar", "lift"}, NEW u \in Users, NEW c \in Convs, BarOrLift(h, op, u, c)
       PROVE  TextsOK'
  <2>1. Moves(h) /\ handler'[h].op = op
    BY <1>10, StartedToCheck DEF BarOrLift
  <2> QED BY <1>0, <2>1, NoTextLeft
<1>11. ASSUME NEW op \in {"bar", "lift"}, SaveBar(h, op) PROVE TextsOK'
  BY <1>0, <1>11, Finished, NoTextLeft DEF SaveBar
<1>12. ASSUME NEW route \in Routes, NEW u \in Users, NEW c \in Convs, Send(h, route, u, c)
       PROVE  TextsOK'
  BY <1>12, SendTexts
<1>13. ASSUME NEW route \in Routes, Store(h, route) PROVE TextsOK'
  BY <1>0, <1>13, Finished, NoTextLeft DEF Store
<1> QED
  BY <1>1, <1>2, <1>3, <1>4, <1>5, <1>6, <1>7, <1>8, <1>9, <1>10, <1>11, <1>12, <1>13 DEF Chats

LEMMA TextsGoOn == IInv /\ TextsOK /\ [Next]_vars => TextsOK'
<1> SUFFICES ASSUME IInv, TextsOK, [Next]_vars PROVE TextsOK'
  OBVIOUS
<1>1. ASSUME NEW h \in Handlers, Friends(h), Remember({}) PROVE TextsOK'
  BY <1>1, FriendsApart, NoTextLeft DEF Talking
<1>2. ASSUME NEW h \in Handlers, Chats(h), Remember({}) PROVE TextsOK'
  BY <1>2, ChatsTexts
<1>3. ASSUME NEW h \in Handlers, NEW failure, Throws(h), Remember(failure) PROVE TextsOK'
  BY <1>3, ThrowsFinishes, NoTextLeft, IdleHasNoText
<1>4. ASSUME NEW u \in Users, NEW p, SetPermission(u, p), Remember({}) PROVE TextsOK'
  <2>1. \A g \in Handlers : handler'[g].op \in Routes => TextOK(handler'[g], under'[g])
    BY <1>4, OtherTexts DEF SetPermission
  <2> QED BY <2>1 DEF TextsOK, TextOK, Stage, AtPermission
<1>5. CASE UNCHANGED vars
  <2>1. \A g \in Handlers : handler'[g].op \in Routes => TextOK(handler'[g], under'[g])
    BY <1>5 DEF vars, history, TextsOK
  <2> QED BY <2>1 DEF TextsOK, TextOK, Stage, AtPermission
<1> QED BY <1>1, <1>2, <1>3, <1>4, <1>5 DEF Next

\* A text that is about to be stored was not in the way of one and the same block, or of one
\* and the same setting of its receiver, all the time it was being checked, on any of the three
\* routes and whatever the other handlers do between its checks (createMessageInConversation,
\* MessageService.create, chat:send_message).
THEOREM NoTextPastABlock == Spec => []NoTextUnderBlock
<1>1. Init => TextsOK
  BY IdleHasNoText DEF Init, TextsOK
<1>2. TextsOK => NoTextUnderBlock
  <2> SUFFICES ASSUME TextsOK, NEW h \in Handlers, handler[h].op \in Routes, handler[h].todo = <<>>
               PROVE  under[h] \cap (IF handler[h].op = "message" THEN {"chat", "friendship"}
                        ELSE {"chat", "friendship", "nobody", "stranger"}) = {}
    BY DEF NoTextUnderBlock
  <2>1. PICK gone : Stage(handler[h].op, <<>>, gone) /\ under[h] \cap gone = {}
    BY DEF TextsOK, TextOK
  <2>2. gone = IF handler[h].op = "message" THEN {"chat", "friendship"}
               ELSE {"chat", "friendship", "nobody", "stranger"}
    BY <2>1 DEF Stage
  <2> QED BY <2>1, <2>2
<1> QED BY InitKeeps, NextKeeps, TextsGoOn, <1>1, <1>2, PTL DEF Spec

-----------------------------------------------------------------------------
(* One conversation of two users. *)

Creating(h) == handler[h].op = "open" /\ handler[h].step \in {"creating", "joining"}
Joining(h)  == handler[h].op = "open" /\ handler[h].step = "joining"

\* Handler h is about to join conversation c, or to delete it if nobody is left.
Tends(h, c) ==
    /\ handler[h].doc = c
    /\ Joining(h) \/ (handler[h].op = "delete" /\ handler[h].step \in {"counting", "emptying"})

Empty(c) == conv[c].state = "open" /\ conv[c].part = {}

OneOpener == \A g, h \in Handlers : handler[g].op = "open" /\ handler[h].op = "open" => g = h

SharedOnce == \A c, d \in Shared : c = d

\* A conversation that is not there has no participants.
OpenForParticipants == \A c \in Convs : conv[c].state # "open" => conv[c].part = {}

\* A conversation that is deleted was there, and is not the one that is being joined.
Deletable(c) ==
    /\ c \in Convs /\ conv[c].state # "none"
    /\ \A g \in Handlers : Joining(g) => handler[g].doc # c

DeletersOK == \A h \in Handlers : handler[h].op = "delete" => Deletable(handler[h].doc)

CreatorsOK == \A h \in Handlers : Creating(h) => Shared = {}

JoinersOK == \A h \in Handlers : Joining(h) => handler[h].doc \in Convs /\ Empty(handler[h].doc)

EmptyIsTended == \A c \in Convs : Empty(c) => \E h \in Handlers : Tends(h, c)

ChatsOK ==
    /\ OneOpener /\ SharedOnce /\ OpenForParticipants
    /\ DeletersOK /\ CreatorsOK /\ JoinersOK /\ EmptyIsTended

\* Once troubled, always troubled: the premise of OneConversation is one about the past.
ChatsInv == troubled = {} => ChatsOK

LEMMA SomeUsers == Users # {}
  BY ContactsAssumption

LEMMA StillCalm ==
    ASSUME NEW failure, Remember(failure), troubled' = {}
    PROVE  troubled = {} /\ failure = {} /\ OneOpener'
<1>1. troubled = {} /\ failure = {}
  BY DEF Remember
<1>2. \A g, h \in {f \in Handlers : handler'[f].op = "open"} : g = h
  BY DEF Remember
<1> QED BY <1>1, <1>2 DEF OneOpener

SameConvs == \A c \in Convs : conv'[c].state = conv[c].state /\ conv'[c].part = conv[c].part

\* A step that changes neither the states nor the participants.
LEMMA QuietKeepsChats ==
    ASSUME ChatsOK, OneOpener', SameConvs, NEW h \in Handlers, Moves(h),
           Creating(h)' => Shared = {},
           Joining(h)' => Joining(h) /\ handler'[h].doc = handler[h].doc,
           handler'[h].op = "delete" => Deletable(handler'[h].doc),
           \A c \in Convs : Empty(c) /\ Tends(h, c) => Tends(h, c)'
    PROVE  ChatsOK'
<1>1. Shared' = Shared
  BY DEF Shared, SameConvs
<1>2. SharedOnce' /\ OpenForParticipants'
  BY <1>1 DEF ChatsOK, SharedOnce, OpenForParticipants, SameConvs
<1>3. \A g \in Handlers : Joining(g)' => Joining(g) /\ handler'[g].doc = handler[g].doc
  BY DEF Moves, Joining
<1>4. DeletersOK'
  <2>1. \A g \in Handlers : handler'[g].op = "delete" => Deletable(handler'[g].doc)
    BY DEF ChatsOK, DeletersOK, Moves
  <2> QED BY <1>3, <2>1 DEF DeletersOK, Deletable, SameConvs
<1>5. CreatorsOK'
  BY <1>1 DEF ChatsOK, CreatorsOK, Creating, Moves
<1>6. JoinersOK'
  BY <1>3 DEF ChatsOK, JoinersOK, Empty, SameConvs
<1>7. EmptyIsTended'
  <2> SUFFICES ASSUME NEW c \in Convs, Empty(c)' PROVE \E g \in Handlers : Tends(g, c)'
    BY DEF EmptyIsTended
  <2>1. Empty(c)
    BY DEF Empty, SameConvs
  <2>2. PICK g \in Handlers : Tends(g, c)
    BY <2>1 DEF ChatsOK, EmptyIsTended
  <2>3. Tends(g, c)'
    BY <2>1, <2>2 DEF Tends, Joining, Moves
  <2> QED BY <2>3
<1> QED BY <1>2, <1>4, <1>5, <1>6, <1>7 DEF ChatsOK

\* A step of a handler that neither opens nor deletes, before and after.
LEMMA AsideKeepsChats ==
    ASSUME ChatsOK, OneOpener', SameConvs, NEW h \in Handlers, Moves(h),
           handler[h].op \notin {"open", "delete"}, handler'[h].op \notin {"open", "delete"}
    PROVE  ChatsOK'
  BY QuietKeepsChats DEF Creating, Joining, Tends

\* Both sides of the block of a conversation leave its participants alone.
LEMMA SaveBarSame ==
    ASSUME IInv, NEW h \in Handlers, NEW op \in {"bar", "lift"}, SaveBar(h, op)
    PROVE  SameConvs
<1>1. PICK c, b : conv' = [conv EXCEPT ![c].blocked = b]
  BY DEF SaveBar
<1>2. \A e \in Convs : conv[e] \in ConvRecords
  BY ConvIsRecord
<1>3. DOMAIN conv = Convs
  BY DEF IInv, TablesOK
<1> QED BY <1>1, <1>2, <1>3 DEF SameConvs, ConvRecords

LEMMA UntouchedConvs == ASSUME conv' = conv PROVE SameConvs
  BY DEF SameConvs

LEMMA FinishKeepsChats ==
    ASSUME IInv, ChatsOK, OneOpener', NEW h \in Handlers, Finish(h), conv' = conv,
           \A c \in Convs : Empty(c) => ~ Tends(h, c)
    PROVE  ChatsOK'
<1>1. Moves(h) /\ handler'[h].op = "idle"
  BY Finished
<1> QED BY <1>1, QuietKeepsChats, UntouchedConvs DEF Creating, Joining

LEMMA OpenKeepsChats ==
    ASSUME IInv, ChatsOK, OneOpener', NEW h \in Handlers, NEW u \in Users, Open(h, u)
    PROVE  ChatsOK'
<1>1. /\ Moves(h) /\ conv' = conv /\ handler[h].op = "idle"
      /\ handler'[h].op = "open" /\ handler'[h].step = "read"
  BY StartedToCheck, IdleIsGood DEF Open, tables
<1> QED BY <1>1, QuietKeepsChats, UntouchedConvs DEF Creating, Joining, Tends

LEMMA FindSharedKeepsChats ==
    ASSUME IInv, ChatsOK, OneOpener', NEW h \in Handlers, FindShared(h)
    PROVE  ChatsOK'
<1>1. handler[h].op = "open" /\ handler[h].step = "read" /\ conv' = conv
  BY DEF FindShared, Ready, At, Check, tables
<1>2. \A c : ~ Tends(h, c)
  BY <1>1 DEF Tends, Joining
<1>3. CASE Shared = {}
  <2>1. Moves(h) /\ handler'[h].op = "open" /\ handler'[h].step = "creating"
    BY <1>1, <1>3, WentOn DEF FindShared, Found
  <2> QED BY <1>1, <1>2, <1>3, <2>1, QuietKeepsChats, UntouchedConvs DEF Joining
<1>4. CASE Shared # {}
  BY <1>1, <1>2, <1>4, FinishKeepsChats DEF FindShared, Found
<1> QED BY <1>3, <1>4

LEMMA DeleteForUserKeepsChats ==
    ASSUME IInv, ChatsOK, OneOpener', NEW h \in Handlers, NEW u \in Users, NEW c \in Convs,
           DeleteForUser(h, u, c)
    PROVE  ChatsOK'
<1>1. /\ Moves(h) /\ conv' = conv /\ handler[h].op = "idle"
      /\ handler'[h].op = "delete" /\ handler'[h].doc = c
  BY Started, IdleIsGood DEF DeleteForUser, tables
<1>2. conv[c].part # {}
  BY DEF DeleteForUser
<1>3. Deletable(c)
  BY <1>2 DEF ChatsOK, OpenForParticipants, JoinersOK, Deletable, Empty
<1> QED BY <1>1, <1>3, QuietKeepsChats, UntouchedConvs DEF Creating, Joining, Tends

LEMMA CountRemainingKeepsChats ==
    ASSUME IInv, ChatsOK, OneOpener', NEW h \in Handlers, CountRemaining(h)
    PROVE  ChatsOK'
<1> DEFINE c == handler[h].doc
<1>1. handler[h].op = "delete" /\ handler[h].step = "counting" /\ conv' = conv
  BY DEF CountRemaining, At, Check, tables
<1>2. CASE conv[c].part = {}
  <2>1. /\ Moves(h) /\ handler'[h].op = "delete" /\ handler'[h].step = "emptying"
        /\ handler'[h].doc = c
    BY <1>1, <1>2, WentOn DEF CountRemaining
  <2>2. Deletable(c)
    BY <1>1 DEF ChatsOK, DeletersOK
  <2> QED
    BY <1>1, <2>1, <2>2, QuietKeepsChats, UntouchedConvs DEF Creating, Joining, Tends
<1>3. CASE conv[c].part # {}
  BY <1>1, <1>3, FinishKeepsChats DEF CountRemaining, Tends, Empty
<1> QED BY <1>2, <1>3

LEMMA CreateKeepsChats ==
    ASSUME IInv, ChatsOK, OneOpener', NEW h \in Handlers, NEW c \in Convs, Create(h, c)
    PROVE  ChatsOK'
<1>1. /\ handler[h].op = "open" /\ handler[h].step = "creating"
      /\ conv[c].state = "none" /\ conv[c].part = {}
  BY DEF Create, At, ChatsOK, OpenForParticipants
<1>2. /\ Moves(h) /\ handler'[h].op = "open" /\ handler'[h].step = "joining"
      /\ handler'[h].doc = c
  <2>1. DOMAIN handler[h] = Fields
    BY DEF IInv, HandlersOK, GoodHandler
  <2>2. ASSUME NEW s, DOMAIN s = Fields, NEW r, r = [s EXCEPT !.step = "joining", !.doc = c]
        PROVE  r.op = s.op /\ r.step = "joining" /\ r.doc = c
    BY <2>2 DEF Fields
  <2>3. PICK r : r = [handler[h] EXCEPT !.step = "joining", !.doc = c]
    OBVIOUS
  <2>4. handler' = [handler EXCEPT ![h] = r]
    BY <2>3 DEF Create
  <2>5. r.op = "open" /\ r.step = "joining" /\ r.doc = c
    BY <1>1, <2>1, <2>2, <2>3
  <2> QED BY <2>4, <2>5, Replaced
<1>3. /\ \A d \in Convs : conv'[d].part = conv[d].part
      /\ \A d \in Convs \ {c} : conv'[d].state = conv[d].state
      /\ conv'[c].state = "open"
  BY ConvIsRecord DEF Create, IInv, TablesOK, ConvRecords
<1>4. Shared' = Shared /\ Shared = {}
  BY <1>1, <1>3 DEF Shared, ChatsOK, CreatorsOK, Creating
<1>5. SharedOnce' /\ OpenForParticipants'
  BY <1>3, <1>4 DEF ChatsOK, SharedOnce, OpenForParticipants
<1>6. \A g \in Handlers : Joining(g)' => g = h
  BY <1>2 DEF OneOpener, Joining
<1>7. DeletersOK'
  BY <1>1, <1>2, <1>3, <1>6 DEF ChatsOK, DeletersOK, Deletable, Moves
<1>8. CreatorsOK'
  BY <1>4 DEF CreatorsOK
<1>9. JoinersOK'
  BY <1>1, <1>2, <1>3, <1>6 DEF JoinersOK, Empty
<1>10. EmptyIsTended'
  <2> SUFFICES ASSUME NEW d \in Convs, Empty(d)' PROVE \E g \in Handlers : Tends(g, d)'
    BY DEF EmptyIsTended
  <2>1. CASE d = c
    BY <1>2, <2>1 DEF Tends, Joining
  <2>2. CASE d # c
    <3>1. Empty(d)
      BY <1>3, <2>2 DEF Empty
    <3>2. PICK g \in Handlers : Tends(g, d)
      BY <3>1 DEF ChatsOK, EmptyIsTended
    <3>3. g # h
      BY <1>1, <3>2 DEF Tends, Joining
    <3> QED BY <1>2, <3>2, <3>3 DEF Moves, Tends, Joining
  <2> QED BY <2>1, <2>2
<1> QED BY <1>5, <1>7, <1>8, <1>9, <1>10 DEF ChatsOK

\* Whoever joins is the only one that opens, and finds no conversation of both.
LEMMA JoinKeepsChats ==
    ASSUME IInv, ChatsOK, OneOpener', NEW h \in Handlers, Join(h)
    PROVE  ChatsOK'
<1> DEFINE c == handler[h].doc
<1>1. /\ handler[h].op = "open" /\ Joining(h) /\ c \in Convs /\ Empty(c) /\ Shared = {}
  BY DEF Join, At, Joining, Creating, ChatsOK, JoinersOK, CreatorsOK
<1>2. Moves(h) /\ handler'[h].op = "idle"
  BY Finished DEF Join
<1>3. /\ \A d \in Convs : conv'[d].state = conv[d].state
      /\ \A d \in Convs \ {c} : conv'[d].part = conv[d].part
      /\ conv'[c].part = Users
  BY <1>1, ConvIsRecord DEF Join, IInv, TablesOK, ConvRecords
<1>4. SharedOnce'
  BY <1>1, <1>3 DEF Shared, SharedOnce
<1>5. OpenForParticipants'
  BY <1>1, <1>3 DEF ChatsOK, OpenForParticipants, Empty
<1>6. \A g \in Handlers : handler'[g].op # "open"
  BY <1>1, <1>2 DEF ChatsOK, OneOpener, Moves
<1>7. DeletersOK'
  BY <1>2, <1>3, <1>6 DEF ChatsOK, DeletersOK, Deletable, Joining, Moves
<1>8. CreatorsOK' /\ JoinersOK'
  BY <1>6 DEF CreatorsOK, JoinersOK, Creating, Joining
<1>9. EmptyIsTended'
  <2> SUFFICES ASSUME NEW d \in Convs, Empty(d)' PROVE \E g \in Handlers : Tends(g, d)'
    BY DEF EmptyIsTended
  <2>1. d # c
    BY <1>3, SomeUsers DEF Empty
  <2>2. Empty(d)
    BY <1>3, <2>1 DEF Empty
  <2>3. PICK g \in Handlers : Tends(g, d)
    BY <2>2 DEF ChatsOK, EmptyIsTended
  <2>4. g # h
    BY <2>1, <2>3 DEF Tends
  <2> QED BY <1>2, <2>3, <2>4 DEF Moves, Tends, Joining
<1> QED BY <1>4, <1>5, <1>7, <1>8, <1>9 DEF ChatsOK

\* A handler that deletes takes participants out of its conversation, or deletes it.
LEMMA LessKeepsChats ==
    ASSUME IInv, ChatsOK, OneOpener', NEW h \in Handlers, Moves(h),
           handler[h].op = "delete", handler'[h].op # "open",
           NEW c, c = handler[h].doc,
           handler'[h].op = "delete" => handler'[h].doc = c,
           \A d \in Convs \ {c} : conv'[d] = conv[d],
           conv'[c].part \subseteq conv[c].part,
           \/ conv'[c].state = conv[c].state
           \/ conv'[c].state = "gone" /\ conv'[c].part = {},
           Empty(c)' => Tends(h, c)'
    PROVE  ChatsOK'
<1>1. c \in Convs /\ conv[c].state # "none" /\ \A g \in Handlers : Joining(g) => handler[g].doc # c
  BY DEF ChatsOK, DeletersOK, Deletable
<1>2. conv[c].part \subseteq Users
  BY <1>1, ConvIsRecord DEF ConvRecords
<1>3. Shared' \subseteq Shared
  BY <1>1, <1>2 DEF Shared
<1>4. SharedOnce' /\ OpenForParticipants'
  BY <1>1, <1>3 DEF ChatsOK, SharedOnce, OpenForParticipants
<1>5. \A g \in Handlers : Joining(g)' => g # h /\ Joining(g) /\ handler'[g].doc = handler[g].doc
  BY DEF Moves, Joining
<1>6. DeletersOK'
  <2>1. \A g \in Handlers : handler'[g].op = "delete" => Deletable(handler'[g].doc)
    BY DEF ChatsOK, DeletersOK, Moves
  <2>2. \A d \in Convs : conv[d].state # "none" => conv'[d].state # "none"
    OBVIOUS
  <2> QED BY <1>5, <2>1, <2>2 DEF DeletersOK, Deletable
<1>7. CreatorsOK'
  BY <1>3 DEF ChatsOK, CreatorsOK, Creating, Moves
<1>8. JoinersOK'
  BY <1>1, <1>5 DEF ChatsOK, JoinersOK, Empty
<1>9. EmptyIsTended'
  <2> SUFFICES ASSUME NEW d \in Convs, Empty(d)', d # c PROVE \E g \in Handlers : Tends(g, d)'
    BY DEF EmptyIsTended
  <2>1. Empty(d)
    BY DEF Empty
  <2>2. PICK g \in Handlers : Tends(g, d)
    BY <2>1 DEF ChatsOK, EmptyIsTended
  <2>3. g # h
    BY <2>2 DEF Tends
  <2> QED BY <2>2, <2>3 DEF Moves, Tends, Joining
<1> QED BY <1>4, <1>6, <1>7, <1>8, <1>9 DEF ChatsOK

LEMMA LeaveChatKeepsChats ==
    ASSUME IInv, ChatsOK, OneOpener', NEW h \in Handlers, LeaveChat(h)
    PROVE  ChatsOK'
<1>1. PICK c : c = handler[h].doc
  OBVIOUS
<1>2. handler[h].op = "delete"
  BY DEF LeaveChat, At
<1>3. /\ Moves(h) /\ handler'[h].op = "delete" /\ handler'[h].step = "counting"
      /\ handler'[h].doc = c
  BY <1>1, <1>2, WentOn DEF LeaveChat
<1>4. c \in Convs
  BY <1>1, <1>2 DEF ChatsOK, DeletersOK, Deletable
<1>5. /\ \A d \in Convs \ {c} : conv'[d] = conv[d]
      /\ conv'[c].part \subseteq conv[c].part /\ conv'[c].state = conv[c].state
  <2>1. conv' = [conv EXCEPT ![c] = WithoutUser(conv[c], handler[h].user)] /\ DOMAIN conv = Convs
    BY <1>1 DEF LeaveChat, IInv, TablesOK
  <2>2. ASSUME NEW d \in ConvRecords, NEW u
        PROVE  WithoutUser(d, u).part \subseteq d.part /\ WithoutUser(d, u).state = d.state
    BY DEF WithoutUser, ConvRecords
  <2> QED BY <1>4, <2>1, <2>2, ConvIsRecord
<1>6. Tends(h, c)'
  BY <1>3 DEF Tends
<1> QED BY <1>1, <1>2, <1>3, <1>5, <1>6, LessKeepsChats

LEMMA DeleteEmptyKeepsChats ==
    ASSUME IInv, ChatsOK, OneOpener', NEW h \in Handlers, DeleteEmpty(h)
    PROVE  ChatsOK'
<1>1. PICK c : c = handler[h].doc
  OBVIOUS
<1>2. handler[h].op = "delete"
  BY DEF DeleteEmpty, At
<1>3. Moves(h) /\ handler'[h].op = "idle"
  BY Finished DEF DeleteEmpty
<1>4. c \in Convs
  BY <1>1, <1>2 DEF ChatsOK, DeletersOK, Deletable
<1>5. /\ \A d \in Convs \ {c} : conv'[d] = conv[d]
      /\ conv'[c].part = {} /\ conv'[c].state = "gone"
  BY <1>1, <1>4 DEF DeleteEmpty, IInv, TablesOK, NoConv
<1>6. ~ Empty(c)'
  BY <1>5 DEF Empty
<1> QED BY <1>1, <1>2, <1>3, <1>5, <1>6, LessKeepsChats

LEMMA FriendsKeepChats ==
    ASSUME IInv, ChatsOK, OneOpener', NEW h \in Handlers, Friends(h)
    PROVE  ChatsOK'
  BY FriendsApart, UntouchedConvs, AsideKeepsChats DEF Talking

LEMMA ThrowsKeepsChats ==
    ASSUME IInv, ChatsOK, OneOpener', NEW h \in Handlers, Throws(h),
           handler[h].step \notin {"joining", "counting", "emptying"}
    PROVE  ChatsOK'
<1>1. \A c : ~ Tends(h, c)
  BY DEF Tends, Joining
<1> QED BY <1>1, FinishKeepsChats DEF Throws, tables

LEMMA CheckNextKeepsChats ==
    ASSUME IInv, ChatsOK, OneOpener', NEW h \in Handlers, CheckNext(h)
    PROVE  ChatsOK'
<1>1. PICK r, row, todo : /\ r = [handler[h] EXCEPT !.read = row, !.todo = todo]
                          /\ handler' = [handler EXCEPT ![h] = r] /\ conv' = conv
  BY DEF CheckNext, Check, tables
<1>2. r.op = handler[h].op /\ r.step = handler[h].step /\ r.doc = handler[h].doc
  BY <1>1 DEF IInv, HandlersOK, GoodHandler, Fields
<1>3. Moves(h) /\ handler'[h] = r
  BY <1>1, Replaced
<1>4. (Creating(h)' => Shared = {}) /\ (Joining(h)' => Joining(h))
  BY <1>2, <1>3 DEF ChatsOK, CreatorsOK, Creating, Joining
<1>5. handler'[h].op = "delete" => Deletable(handler'[h].doc)
  BY <1>2, <1>3 DEF ChatsOK, DeletersOK
<1>6. \A c \in Convs : Tends(h, c) => Tends(h, c)'
  BY <1>2, <1>3 DEF Tends, Joining
<1> QED BY <1>1, <1>2, <1>3, <1>4, <1>5, <1>6, UntouchedConvs, QuietKeepsChats

LEMMA BarsKeepChats ==
    ASSUME IInv, ChatsOK, OneOpener', NEW h \in Handlers, NEW op \in {"bar", "lift"}
    PROVE  /\ \A u \in Users, c \in Convs : BarOrLift(h, op, u, c) => ChatsOK'
           /\ SaveBar(h, op) => ChatsOK'
<1>1. ASSUME NEW u \in Users, NEW c \in Convs, BarOrLift(h, op, u, c) PROVE ChatsOK'
  <2>1. Moves(h) /\ conv' = conv /\ handler[h].op = "idle" /\ handler'[h].op = op
    BY <1>1, StartedToCheck, IdleIsGood DEF BarOrLift, tables
  <2> QED BY <2>1, AsideKeepsChats, UntouchedConvs
<1>2. CASE SaveBar(h, op)
  <2>1. Moves(h) /\ handler[h].op = op /\ handler'[h].op = "idle"
    BY <1>2, Finished DEF SaveBar, Ready, At
  <2> QED BY <1>2, <2>1, AsideKeepsChats, SaveBarSame
<1> QED BY <1>1, <1>2

LEMMA TextsKeepChats ==
    ASSUME IInv, ChatsOK, OneOpener', NEW h \in Handlers, NEW route \in Routes
    PROVE  /\ \A u \in Users, c \in Convs : Send(h, route, u, c) => ChatsOK'
           /\ Store(h, route) => ChatsOK'
<1>0. route \notin {"open", "delete"}
  BY DEF Routes
<1>1. ASSUME NEW u \in Users, NEW c \in Convs, Send(h, route, u, c) PROVE ChatsOK'
  <2>1. PICK todo : Begin(h, [Starting(route, u, c) EXCEPT !.todo = todo])
    BY <1>1 DEF Send
  <2>2. Moves(h) /\ conv' = conv /\ handler[h].op = "idle" /\ handler'[h].op = route
    BY <2>1, StartedToCheck, IdleIsGood DEF tables
  <2> QED BY <1>0, <2>2, AsideKeepsChats, UntouchedConvs
<1>2. CASE Store(h, route)
  <2>1. Moves(h) /\ conv' = conv /\ handler[h].op = route /\ handler'[h].op = "idle"
    BY <1>2, Finished DEF Store, Ready, At, tables
  <2> QED BY <1>0, <2>1, AsideKeepsChats, UntouchedConvs
<1> QED BY <1>1, <1>2

LEMMA ChatsInvHolds == IInv /\ ChatsInv /\ [Next]_vars => ChatsInv'
<1> SUFFICES ASSUME IInv, ChatsInv, [Next]_vars, troubled' = {} PROVE ChatsOK'
  BY DEF ChatsInv
<1>1. ASSUME NEW failure, Remember(failure)
      PROVE  ChatsOK /\ OneOpener' /\ failure = {}
  BY <1>1, StillCalm DEF ChatsInv
<1>2. ASSUME NEW h \in Handlers, Friends(h), Remember({}) PROVE ChatsOK'
  BY <1>1, <1>2, FriendsKeepChats
<1>3. ASSUME NEW h \in Handlers, Chats(h), Remember({}) PROVE ChatsOK'
  <2>1. ChatsOK /\ OneOpener'
    BY <1>1, <1>3
  <2> QED
    BY <1>3, <2>1, OpenKeepsChats, CheckNextKeepsChats, FindSharedKeepsChats, CreateKeepsChats,
       JoinKeepsChats, DeleteForUserKeepsChats, LeaveChatKeepsChats, CountRemainingKeepsChats,
       DeleteEmptyKeepsChats, BarsKeepChats, TextsKeepChats DEF Chats
<1>4. ASSUME NEW h \in Handlers, Throws(h),
             Remember(IF handler[h].step \in {"joining", "counting", "emptying"}
                      THEN {"failure"} ELSE {})
      PROVE  ChatsOK'
  <2>1. /\ ChatsOK /\ OneOpener'
        /\ (IF handler[h].step \in {"joining", "counting", "emptying"}
            THEN {"failure"} ELSE {}) = {}
    BY <1>1, <1>4
  <2> QED BY <1>4, <2>1, ThrowsKeepsChats
<1>5. ASSUME NEW u \in Users, NEW p, SetPermission(u, p), Remember({}) PROVE ChatsOK'
  <2>1. ChatsOK /\ conv' = conv /\ handler' = handler
    BY <1>1, <1>5 DEF SetPermission
  <2> QED
    BY <2>1 DEF ChatsOK, OneOpener, SharedOnce, OpenForParticipants, DeletersOK, CreatorsOK,
       JoinersOK, EmptyIsTended, Deletable, Creating, Joining, Tends, Empty, Shared
<1>6. CASE UNCHANGED vars
  BY <1>6 DEF vars, tables, history, ChatsInv, ChatsOK, OneOpener, SharedOnce,
     OpenForParticipants, DeletersOK, CreatorsOK, JoinersOK, EmptyIsTended, Deletable, Creating,
     Joining, Tends, Empty, Shared
<1> QED BY <1>2, <1>3, <1>4, <1>5, <1>6 DEF Next

LEMMA ChatsInvInit == Init => ChatsInv
<1> SUFFICES ASSUME Init PROVE ChatsOK
  BY DEF ChatsInv
<1>1. PICK first \in SUBSET Convs :
        /\ \A c, d \in first : c = d
        /\ conv = [c \in Convs |-> IF c \in first
                                   THEN [state |-> "open", part |-> Users, blocked |-> {}]
                                   ELSE NoConv]
  BY DEF Init
<1>2. /\ \A c \in first : conv[c].state = "open" /\ conv[c].part = Users
      /\ \A c \in Convs \ first : conv[c].state = "none" /\ conv[c].part = {}
  BY <1>1 DEF NoConv
<1>3. \A h \in Handlers : handler[h].op = "idle"
  BY IdleIsGood DEF Init
<1>4. SharedOnce
  BY <1>1, <1>2, SomeUsers DEF SharedOnce, Shared
<1>5. OpenForParticipants /\ EmptyIsTended
  BY <1>2, SomeUsers DEF OpenForParticipants, EmptyIsTended, Empty
<1>6. OneOpener /\ DeletersOK /\ CreatorsOK /\ JoinersOK
  BY <1>3 DEF OneOpener, DeletersOK, CreatorsOK, JoinersOK, Creating, Joining
<1> QED BY <1>4, <1>5, <1>6 DEF ChatsOK

\* Unless two first messages overlap or a handler failed half way, two users share at most one
\* conversation, and one without participants is about to be joined or deleted, in every
\* interleaving of opening, leaving and blocking it (createPrivateConversation,
\* deleteConversationForUser).
THEOREM SharedConversation == Spec => []OneConversation
<1>1. ChatsInv => OneConversation
  <2> SUFFICES ASSUME ChatsOK
               PROVE  /\ \A c, d \in Shared : c = d
                      /\ \A c \in Convs :
                           conv[c].state = "open" /\ conv[c].part = {} =>
                             \E h \in Handlers : handler[h].doc = c
                                 /\ handler[h].step \in {"joining", "counting", "emptying"}
    BY DEF ChatsInv, OneConversation
  <2>1. ASSUME NEW c \in Convs, Empty(c)
        PROVE  \E h \in Handlers : handler[h].doc = c
                                   /\ handler[h].step \in {"joining", "counting", "emptying"}
    BY <2>1 DEF ChatsOK, EmptyIsTended, Tends, Joining
  <2> QED BY <2>1 DEF ChatsOK, SharedOnce, Empty
<1> QED BY InitKeeps, NextKeeps, ChatsInvInit, ChatsInvHolds, <1>1, PTL DEF Spec

=============================================================================
