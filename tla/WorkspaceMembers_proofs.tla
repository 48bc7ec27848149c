----------------------- MODULE WorkspaceMembers_proofs -----------------------
(***************************************************************************)
(* Proofs about WorkspaceMembers for any users, handlers, limits and       *)
(* bounds: the types, and that somebody owns the workspace.  A running     *)
(* handler that nobody outdated still sees the rows as they are            *)
(* (FreshHandler), and every write outdates all the others.                *)
(***************************************************************************)
EXTENDS WorkspaceMembers, FiniteSetTheorems, TLAPS

Ops == {"idle", "create", "add", "approve", "reject", "demote", "remove", "transfer", "handover",
        "disband", "settings", "join"}
Steps == {"idle", "enter", "workspace", "request", "target", "reread", "save", "member",
          "pending", "ask", "decide", "authorise", "existing", "count", "owners", "change",
          "transfer", "column"}

RowRecs == [id : Nat, user : Users, role : Roles]
LiveRecs == [state : {"live"}, owner : Users, limit : Limits]
WsRecs == {NoWorkspace} \cup [state : {"live", "deleted"}, owner : Users, limit : Limits]
ReqRecs == [id : Nat, user : Users, role : Roles, status : {"PENDING", "APPROVED", "REJECTED"}]

HandlerRecs ==
    [op : Ops, step : Steps, actor : Users \cup {None}, target : Users \cup {None},
     role : Roles \cup {None}, rows : SUBSET RowRecs, seen : WsRecs, listed : SUBSET Nat,
     req : ReqRecs \cup {NoRequest}]

\* The steps that lead to a new row or request, and those that change rows.
Entering == {"member", "pending", "ask", "workspace", "existing", "count", "enter"}
Changing == {"target", "owners", "change", "transfer", "column"}

\* What a running handler has in its hands, however old.
GoodHandler(r) ==
    /\ r \in HandlerRecs
    /\ r.step \in {"member", "pending", "ask"} => r.op = "join"
    /\ r.step \in {"workspace", "existing", "count"} => r.op \in {"add", "approve"}
    /\ r.step = "enter" => r.op \in {"create", "add", "approve"}
    /\ r.step = "authorise" => r.op = "approve"
    /\ r.step = "request" => r.op \in {"approve", "reject"}
    /\ r.step = "decide" => r.op \in {"approve", "reject"}
    /\ r.step \in {"owners", "change"} => r.op \in {"demote", "remove"}
    /\ r.step \in {"transfer", "column"} => r.op \in {"transfer", "handover"}
    /\ r.step = "target" => r.op \in {"demote", "remove", "transfer", "handover"}
    /\ r.step \in {"reread", "save"} => r.op \in {"settings", "handover", "disband"}
    /\ r.op = "create" => r.step = "enter" /\ r.role = "OWNER"
    /\ r.op \in {"demote", "remove", "transfer", "handover"} => r.target \in Users
    /\ r.op = "demote" => r.role \in Roles \ {"OWNER"}
    /\ r.step \in Entering \cup {"authorise"} => r.target \in Users /\ r.role \in Roles
    /\ r.step = "save" => r.seen \in LiveRecs
    /\ r.op \in {"approve", "reject"} /\ r.step # "request" =>
         r.req \in ReqRecs /\ \E q \in requests : q.id = r.req.id
    /\ r.op \in {"transfer", "handover"} /\ r.step = "target" => r.rows # {}
    /\ \A x \in r.rows : x.id \in 1 .. ids /\ \A m \in members : m.id = x.id => m.user = x.user

\* Between the two writes of a creation or a handover.
Half(r) ==
    \/ r.op = "create"
    \/ r.op \in {"transfer", "handover"} /\ r.rows = {}

\* What a running handler knows that nobody outdated.
FreshHandler(r) ==
    /\ Live
    /\ r.op = "create" => members = {} /\ ws.owner = r.target
    /\ r.op \in {"demote", "remove"} =>
         /\ r.step = "target" => r.rows = {}
         /\ r.step \in {"owners", "change"} =>
              \E m \in members : m.user = r.target /\ r.rows = {m}
         /\ r.step = "change" =>
              \A m \in r.rows : m.role = "OWNER" => Cardinality(OwnersIn(members)) > 1
    /\ r.op \in {"transfer", "handover"} =>
         /\ r.step = "target" => \E a \in members : a.user = r.actor /\ r.rows = {a}
         /\ r.step = "transfer" =>
              \E a \in members, t \in members :
                a.user = r.actor /\ t.user = r.target /\ r.rows = {a, t}
         /\ r.step \in {"column", "reread", "save"} =>
              \E m \in members : m.user = r.target /\ m.role = "OWNER"
    /\ r.op \in {"add", "approve"} /\ r.step \in {"count", "enter"} =>
         \A m \in members : m.user # r.target
    /\ r.step = "save" => r.seen = ws /\ r.listed = {m.id : m \in members}

HandlersOK ==
    /\ DOMAIN handler = Handlers /\ handler = [h \in Handlers |-> handler[h]]
    /\ \A h \in Handlers :
         /\ GoodHandler(handler[h])
         /\ handler[h] # Idle => handler[h].step # "idle"
         /\ handler[h] # Idle /\ h \notin outdated /\ ~ disturbed => FreshHandler(handler[h])

RowsOK ==
    /\ TypeOK
    /\ ids \in Nat
    /\ disturbed \in BOOLEAN /\ shared \in BOOLEAN
    /\ Cardinality(OwnersIn(members)) > 1 => shared
    /\ ws = NoWorkspace =>
         members = {} /\ requests = {} /\ ids = 0 /\ \A h \in Handlers : handler[h] = Idle

IInv == RowsOK /\ HandlersOK /\ Owned
-----------------------------------------------------------------------------
(* Records of handlers. *)

\* A handler that goes on changes its step alone.
LEMMA StepSet ==
    ASSUME NEW c \in HandlerRecs, NEW s \in Steps, NEW r, r = [c EXCEPT !.step = s]
    PROVE  /\ r \in HandlerRecs /\ r.step = s /\ r.op = c.op
           /\ r.actor = c.actor /\ r.target = c.target /\ r.role = c.role
           /\ r.rows = c.rows /\ r.seen = c.seen /\ r.listed = c.listed /\ r.req = c.req
  BY DEF HandlerRecs

LEMMA IdleIsGood ==
    /\ Idle \in HandlerRecs /\ GoodHandler(Idle) /\ Idle.step = "idle" /\ ~ Half(Idle)
    /\ Idle.op = "idle" /\ Idle.rows = {}
  BY DEF Idle, GoodHandler, HandlerRecs, Ops, Steps, Entering, WsRecs, Half

LEMMA WsIsRec == IInv => ws \in WsRecs /\ (Live => ws \in LiveRecs /\ ws # NoWorkspace)
  BY DEF IInv, RowsOK, TypeOK, WsRecs, LiveRecs, Live, NoWorkspace

LEMMA GoodIsRec ==
    ASSUME IInv, NEW h \in Handlers
    PROVE  handler[h] \in HandlerRecs /\ GoodHandler(handler[h])
  BY DEF IInv, HandlersOK, GoodHandler

LEMMA RunningHasWorkspace ==
    ASSUME IInv, NEW h \in Handlers, handler[h].step # "idle"
    PROVE  ws # NoWorkspace /\ handler[h] # Idle
  BY DEF IInv, RowsOK, Idle

\* A handler that is replaced while the rows stay.
LEMMA Replaced ==
    ASSUME IInv, NEW h \in Handlers, NEW r,
           handler' = [handler EXCEPT ![h] = r],
           UNCHANGED <<ws, members, requests, ids, disturbed, shared>>,
           starts' \in 0 .. MaxStarts,
           outdated' = outdated \/ outdated' = outdated \ {h},
           ws # NoWorkspace,
           GoodHandler(r),
           r # Idle => r.step # "idle",
           r # Idle /\ h \notin outdated' /\ ~ disturbed => FreshHandler(r),
           handler[h].op = "create" => r.op = "create",
           Half(handler[h]) => Half(r)
    PROVE  IInv'
<1>1. RowsOK'
  BY DEF IInv, RowsOK, TypeOK, OwnersIn
<1>2. \A g \in Handlers : handler'[g] = IF g = h THEN r ELSE handler[g]
  BY DEF IInv, HandlersOK
<1>3. DOMAIN handler' = Handlers /\ handler' = [g \in Handlers |-> handler'[g]]
  BY DEF IInv, HandlersOK
<1>4. ASSUME NEW g \in Handlers
      PROVE  /\ GoodHandler(handler[g])' /\ (handler'[g] # Idle => handler'[g].step # "idle")
             /\ handler'[g] # Idle /\ g \notin outdated' /\ ~ disturbed' => FreshHandler(handler[g])'
  <2>1. CASE g = h
    <3>1. handler'[g] = r
      BY <1>2, <2>1
    <3>2. GoodHandler(handler[g])' <=> GoodHandler(r)
      BY <3>1 DEF GoodHandler
    <3>3. FreshHandler(handler[g])' <=> FreshHandler(r)
      BY <3>1 DEF FreshHandler, Live, OwnersIn
    <3> QED BY <2>1, <3>1, <3>2, <3>3
  <2>2. CASE g # h
    <3>1. handler'[g] = handler[g]
      BY <1>2, <2>2
    <3>2. GoodHandler(handler[g])' <=> GoodHandler(handler[g])
      BY <3>1 DEF GoodHandler
    <3>3. FreshHandler(handler[g])' <=> FreshHandler(handler[g])
      BY <3>1 DEF FreshHandler, Live, OwnersIn
    <3> QED BY <2>2, <3>1, <3>2, <3>3 DEF IInv, HandlersOK
  <2> QED BY <2>1, <2>2
<1>5. HandlersOK'
  BY <1>3, <1>4 DEF HandlersOK
<1>6. Owned'
  <2>1. SUFFICES ASSUME ws # NoWorkspace, ~ disturbed,
                        \A g \in Handlers : handler'[g].op # "create"
                 PROVE  (HasOwner /\ OneRowEach /\ ColumnNamesOwner)'
    BY DEF Owned
  <2>2. \A g \in Handlers : handler[g].op # "create"
    BY <1>2, <2>1
  <2>3. HasOwner /\ OneRowEach /\ ColumnNamesOwner
    BY <2>1, <2>2 DEF IInv, Owned
  <2>4. HasOwner' /\ OneRowEach'
    BY <2>3 DEF HasOwner, OneRowEach, OwnersIn
  <2>5. ASSUME NEW g \in Handlers, Halfway(g)
        PROVE  \E x \in Handlers : Halfway(x)'
    BY <1>2, <2>5 DEF Halfway, Half
  <2>6. ColumnNamesOwner'
    BY <2>3, <2>5 DEF ColumnNamesOwner
  <2> QED BY <2>4, <2>6
<1> QED BY <1>1, <1>5, <1>6 DEF IInv

\* A step that only reads.
LEMMA ReadKeeps ==
    ASSUME IInv, NEW h \in Handlers, NEW r,
           handler[h].step # "idle", handler' = [handler EXCEPT ![h] = r], Reads,
           GoodHandler(r), r.step # "idle", r.op = handler[h].op,
           h \notin outdated /\ ~ disturbed /\ FreshHandler(handler[h]) => FreshHandler(r),
           Half(handler[h]) => Half(r)
    PROVE  IInv'
<1>1. ws # NoWorkspace /\ handler[h] # Idle
  BY RunningHasWorkspace
<1>2. h \notin outdated' /\ ~ disturbed => FreshHandler(r)
  BY <1>1 DEF Reads, IInv, HandlersOK
<1>3. starts' \in 0 .. MaxStarts
  BY DEF Reads, IInv, RowsOK, TypeOK
<1> QED BY <1>1, <1>2, <1>3, Replaced DEF Reads

\* A step that only reads and goes on to another step.
LEMMA GotoKeeps ==
    ASSUME IInv, NEW h \in Handlers, NEW s \in Steps \ {"idle"}, NEW r,
           handler[h].step # "idle", Goto(h, s), Reads,
           r = [handler[h] EXCEPT !.step = s],
           GoodHandler(r),
           h \notin outdated /\ ~ disturbed /\ FreshHandler(handler[h]) => FreshHandler(r)
    PROVE  IInv'
<1>1. handler' = [handler EXCEPT ![h] = r]
  BY DEF Goto
<1>2. r.step # "idle" /\ r.op = handler[h].op /\ r.rows = handler[h].rows
  BY GoodIsRec, StepSet
<1>3. Half(handler[h]) => Half(r)
  BY <1>2 DEF Half
<1> QED BY <1>1, <1>2, <1>3, ReadKeeps
-----------------------------------------------------------------------------
(* The steps that leave the rows alone. *)

LEMMA JoinCheckMemberKeeps == ASSUME IInv, NEW h \in Handlers, JoinCheckMember(h) PROVE IInv'
<1> DEFINE c == handler[h]
           r == [c EXCEPT !.step = "pending"]
<1>1. c \in HandlerRecs /\ GoodHandler(c)
  BY GoodIsRec
<1>2. /\ r \in HandlerRecs /\ r.step = "pending" /\ r.op = c.op
      /\ r.actor = c.actor /\ r.target = c.target /\ r.role = c.role
      /\ r.rows = c.rows /\ r.seen = c.seen /\ r.listed = c.listed /\ r.req = c.req
  BY <1>1, StepSet DEF Steps
<1>3. c.step = "member" /\ Goto(h, "pending") /\ Reads
  BY DEF JoinCheckMember, At
<1>4. GoodHandler(r)
  BY <1>1, <1>2, <1>3 DEF GoodHandler, Entering
<1>5. FreshHandler(c) => FreshHandler(r)
  BY <1>1, <1>2, <1>3 DEF FreshHandler, GoodHandler
<1> HIDE DEF r
<1> QED BY <1>3, <1>4, <1>5, GotoKeeps DEF Steps, r

LEMMA JoinCheckPendingKeeps == ASSUME IInv, NEW h \in Handlers, JoinCheckPending(h) PROVE IInv'
<1> DEFINE c == handler[h]
           r == [c EXCEPT !.step = "ask"]
<1>1. c \in HandlerRecs /\ GoodHandler(c)
  BY GoodIsRec
<1>2. /\ r \in HandlerRecs /\ r.step = "ask" /\ r.op = c.op
      /\ r.actor = c.actor /\ r.target = c.target /\ r.role = c.role
      /\ r.rows = c.rows /\ r.seen = c.seen /\ r.listed = c.listed /\ r.req = c.req
  BY <1>1, StepSet DEF Steps
<1>3. c.step = "pending" /\ Goto(h, "ask") /\ Reads
  BY DEF JoinCheckPending, At
<1>4. GoodHandler(r)
  BY <1>1, <1>2, <1>3 DEF GoodHandler, Entering
<1>5. FreshHandler(c) => FreshHandler(r)
  BY <1>1, <1>2, <1>3 DEF FreshHandler, GoodHandler
<1> HIDE DEF r
<1> QED BY <1>3, <1>4, <1>5, GotoKeeps DEF Steps, r

LEMMA AddAuthoriseKeeps == ASSUME IInv, NEW h \in Handlers, AddAuthorise(h) PROVE IInv'
<1> DEFINE c == handler[h]
           r == [c EXCEPT !.step = "workspace"]
<1>1. c \in HandlerRecs /\ GoodHandler(c)
  BY GoodIsRec
<1>2. /\ r \in HandlerRecs /\ r.step = "workspace" /\ r.op = c.op
      /\ r.actor = c.actor /\ r.target = c.target /\ r.role = c.role
      /\ r.rows = c.rows /\ r.seen = c.seen /\ r.listed = c.listed /\ r.req = c.req
  BY <1>1, StepSet DEF Steps
<1>3. c.step = "authorise" /\ Goto(h, "workspace") /\ Reads
  BY DEF AddAuthorise, At
<1>4. GoodHandler(r)
  BY <1>1, <1>2, <1>3 DEF GoodHandler, Entering
<1>5. FreshHandler(c) => FreshHandler(r)
  BY <1>1, <1>2, <1>3 DEF FreshHandler, GoodHandler
<1> HIDE DEF r
<1> QED BY <1>3, <1>4, <1>5, GotoKeeps DEF Steps, r

LEMMA AddCheckExistingKeeps == ASSUME IInv, NEW h \in Handlers, AddCheckExisting(h) PROVE IInv'
<1> DEFINE c == handler[h]
           r == [c EXCEPT !.step = "count"]
<1>1. c \in HandlerRecs /\ GoodHandler(c)
  BY GoodIsRec
<1>2. /\ r \in HandlerRecs /\ r.step = "count" /\ r.op = c.op
      /\ r.actor = c.actor /\ r.target = c.target /\ r.role = c.role
      /\ r.rows = c.rows /\ r.seen = c.seen /\ r.listed = c.listed /\ r.req = c.req
  BY <1>1, StepSet DEF Steps
<1>3. c.step = "existing" /\ RowsOf(c.target) = {} /\ Goto(h, "count") /\ Reads
  BY DEF AddCheckExisting, At
<1>4. GoodHandler(r)
  BY <1>1, <1>2, <1>3 DEF GoodHandler, Entering
<1>5. FreshHandler(c) => FreshHandler(r)
  BY <1>1, <1>2, <1>3 DEF FreshHandler, GoodHandler, RowsOf, Rows
<1> HIDE DEF r
<1> QED BY <1>3, <1>4, <1>5, GotoKeeps DEF Steps, r

LEMMA CountOwnersKeeps == ASSUME IInv, NEW h \in Handlers, CountOwners(h) PROVE IInv'
<1> DEFINE c == handler[h]
           r == [c EXCEPT !.step = "change"]
<1>1. c \in HandlerRecs /\ GoodHandler(c)
  BY GoodIsRec
<1>2. /\ r \in HandlerRecs /\ r.step = "change" /\ r.op = c.op
      /\ r.actor = c.actor /\ r.target = c.target /\ r.role = c.role
      /\ r.rows = c.rows /\ r.seen = c.seen /\ r.listed = c.listed /\ r.req = c.req
  BY <1>1, StepSet DEF Steps
<1>3. c.step = "owners" /\ MayLose(Rows) /\ Goto(h, "change") /\ Reads
  BY DEF CountOwners, At
<1>4. GoodHandler(r)
  BY <1>1, <1>2, <1>3 DEF GoodHandler, Entering
<1>5. FreshHandler(c) => FreshHandler(r)
  BY <1>1, <1>2, <1>3 DEF FreshHandler, GoodHandler, MayLose, Rows
<1> HIDE DEF r
<1> QED BY <1>3, <1>4, <1>5, GotoKeeps DEF Steps, r

LEMMA AddFindWorkspaceKeeps == ASSUME IInv, NEW h \in Handlers, AddFindWorkspace(h) PROVE IInv'
<1> DEFINE c == handler[h]
           r == [[c EXCEPT !.step = "existing"] EXCEPT !.seen = ws]
<1>1. c \in HandlerRecs /\ GoodHandler(c) /\ ws \in WsRecs
  BY GoodIsRec, WsIsRec
<1>2. /\ r \in HandlerRecs /\ r.step = "existing" /\ r.op = c.op
      /\ r.actor = c.actor /\ r.target = c.target /\ r.role = c.role
      /\ r.rows = c.rows /\ r.req = c.req
  BY <1>1 DEF HandlerRecs, Steps
<1>3. c.step = "workspace" /\ Reads
  BY DEF AddFindWorkspace, At
<1>4. handler' = [handler EXCEPT ![h] = r]
  BY DEF AddFindWorkspace, IInv, HandlersOK
<1>5. GoodHandler(r)
  BY <1>1, <1>2, <1>3 DEF GoodHandler, Entering
<1>6. FreshHandler(c) => FreshHandler(r)
  BY <1>1, <1>2, <1>3 DEF FreshHandler, GoodHandler
<1>7. Half(c) => Half(r)
  BY <1>2 DEF Half
<1> HIDE DEF r
<1> QED BY <1>2, <1>3, <1>4, <1>5, <1>6, <1>7, ReadKeeps

LEMMA AddCountKeeps == ASSUME IInv, NEW h \in Handlers, AddCount(h) PROVE IInv'
<1> DEFINE c == handler[h]
           r == [[c EXCEPT !.step = "enter"] EXCEPT !.seen = NoWorkspace]
<1>1. c \in HandlerRecs /\ GoodHandler(c) /\ NoWorkspace \in WsRecs
  BY GoodIsRec DEF WsRecs
<1>2. /\ r \in HandlerRecs /\ r.step = "enter" /\ r.op = c.op
      /\ r.actor = c.actor /\ r.target = c.target /\ r.role = c.role
      /\ r.rows = c.rows /\ r.req = c.req
  BY <1>1 DEF HandlerRecs, Steps
<1>3. c.step = "count" /\ Reads
  BY DEF AddCount, At
<1>4. handler' = [handler EXCEPT ![h] = r]
  BY DEF AddCount, IInv, HandlersOK
<1>5. GoodHandler(r)
  BY <1>1, <1>2, <1>3 DEF GoodHandler, Entering
<1>6. FreshHandler(c) => FreshHandler(r)
  BY <1>1, <1>2, <1>3 DEF FreshHandler, GoodHandler
<1>7. Half(c) => Half(r)
  BY <1>2 DEF Half
<1> HIDE DEF r
<1> QED BY <1>2, <1>3, <1>4, <1>5, <1>6, <1>7, ReadKeeps

\* A row that TypeOK lets be is one a handler may carry.
LEMMA MemberIsRec == IInv => members \subseteq RowRecs
  BY DEF IInv, RowsOK, TypeOK, RowRecs

LEMMA RequestIsRec == IInv => requests \subseteq ReqRecs
  BY DEF IInv, RowsOK, TypeOK, ReqRecs

LEMMA RequestReadKeeps == ASSUME IInv, NEW h \in Handlers, RequestRead(h) PROVE IInv'
<1> DEFINE c == handler[h]
<1>1. c \in HandlerRecs /\ GoodHandler(c) /\ c.step = "request" /\ Reads
  BY GoodIsRec DEF RequestRead, At
<1>2. PICK q \in requests :
        handler' = [handler EXCEPT ![h] =
              IF @.op = "reject" THEN [@ EXCEPT !.step = "decide", !.req = q]
              ELSE [@ EXCEPT !.step = "authorise", !.req = q,
                             !.target = q.user, !.role = q.role]]
  BY DEF RequestRead
<1>3. q \in ReqRecs
  BY RequestIsRec
<1>4. CASE c.op = "reject"
  <2> DEFINE r == [c EXCEPT !.step = "decide", !.req = q]
  <2>1. /\ r \in HandlerRecs /\ r.step = "decide" /\ r.op = c.op /\ r.rows = c.rows /\ r.req = q
    BY <1>1, <1>3 DEF HandlerRecs, Steps
  <2>2. handler' = [handler EXCEPT ![h] = r]
    BY <1>2, <1>4 DEF IInv, HandlersOK
  <2>3. GoodHandler(r)
    BY <1>1, <1>3, <1>4, <2>1 DEF GoodHandler, Entering
  <2>4. FreshHandler(c) => FreshHandler(r)
    BY <1>4, <2>1 DEF FreshHandler
  <2>5. Half(c) => Half(r)
    BY <2>1 DEF Half
  <2> HIDE DEF r
  <2> QED BY <1>1, <2>1, <2>2, <2>3, <2>4, <2>5, ReadKeeps
<1>5. CASE c.op # "reject"
  <2> DEFINE r == [c EXCEPT !.step = "authorise", !.req = q, !.target = q.user, !.role = q.role]
  <2>0. q.user \in Users /\ q.role \in Roles
    BY <1>3 DEF ReqRecs
  <2>1. /\ r \in HandlerRecs /\ r.step = "authorise" /\ r.op = c.op /\ r.rows = c.rows /\ r.req = q
        /\ r.target \in Users /\ r.role \in Roles
    BY <1>1, <1>3, <2>0 DEF HandlerRecs, Steps
  <2>2. handler' = [handler EXCEPT ![h] = r]
    BY <1>2, <1>5 DEF IInv, HandlersOK
  <2>6. c.op = "approve"
    BY <1>1, <1>5 DEF GoodHandler
  <2>3. GoodHandler(r)
    BY <1>1, <1>3, <2>6, <2>1 DEF GoodHandler, Entering
  <2>4. FreshHandler(c) => FreshHandler(r)
    BY <2>6, <2>1 DEF FreshHandler
  <2>5. Half(c) => Half(r)
    BY <2>1 DEF Half
  <2> HIDE DEF r
  <2> QED BY <1>1, <2>1, <2>2, <2>3, <2>4, <2>5, ReadKeeps
<1> QED BY <1>4, <1>5
LEMMA TargetReadKeeps == ASSUME IInv, NEW h \in Handlers, TargetRead(h) PROVE IInv'
<1> DEFINE c == handler[h]
           next(m) == IF ~ Removes(c.op) THEN "transfer"
                      ELSE IF m.role = "OWNER" THEN "owners" ELSE "change"
           r(m) == [[c EXCEPT !.rows = @ \cup {m}] EXCEPT !.step = next(m)]
<1>1. c \in HandlerRecs /\ GoodHandler(c) /\ c.step = "target" /\ Reads
  BY GoodIsRec DEF TargetRead, At
<1>2. PICK m \in RowsOf(c.target) : handler' = [handler EXCEPT ![h] = r(m)]
  <2>1. PICK m \in RowsOf(c.target) :
          handler' = [handler EXCEPT ![h].rows = c.rows \cup {m}, ![h].step = next(m)]
    BY DEF TargetRead
  <2>2. h \in DOMAIN handler
    BY DEF IInv, HandlersOK
  <2> HIDE DEF next
  <2>3. handler' = [handler EXCEPT ![h] = r(m)]
    BY <2>1, <2>2, <1>1 DEF HandlerRecs
  <2> QED BY <2>1, <2>3
<1>11. m.id \in 1 .. ids /\ \A n \in members : n.id = m.id => n = m
  BY <1>2 DEF RowsOf, Rows, IInv, RowsOK, TypeOK
<1>3. m \in members /\ m \in RowRecs /\ m.user = c.target
  BY <1>2, MemberIsRec DEF RowsOf, Rows
<1>4. /\ r(m) \in HandlerRecs /\ r(m).step = next(m) /\ r(m).op = c.op
      /\ r(m).actor = c.actor /\ r(m).target = c.target /\ r(m).role = c.role
      /\ r(m).rows = c.rows \cup {m} /\ r(m).req = c.req
  BY <1>1, <1>3 DEF HandlerRecs, Steps
<1>5. c.op \in {"demote", "remove", "transfer", "handover"}
  BY <1>1 DEF GoodHandler
<1> DEFINE q == r(m)
<1>6. /\ q.step \in {"transfer", "owners", "change"}
      /\ q.step = "transfer" <=> c.op \in {"transfer", "handover"}
      /\ q.step = "change" => m.role # "OWNER"
  BY <1>4, <1>5 DEF Removes
<1> HIDE DEF r, next
<1>7. GoodHandler(q)
  BY <1>1, <1>4, <1>5, <1>6, <1>11 DEF GoodHandler, Entering
<1>8. FreshHandler(c) => FreshHandler(q)
  BY <1>1, <1>3, <1>4, <1>5, <1>6 DEF FreshHandler
<1>9. Half(c) => Half(q)
  BY <1>1, <1>4, <1>5 DEF Half, GoodHandler
<1> HIDE DEF q
<1>10. q = r(m)
  BY DEF q
<1> QED BY <1>1, <1>2, <1>4, <1>6, <1>7, <1>8, <1>9, <1>10, ReadKeeps

\* The ids of the rows a copy of the workspace lists.
LEMMA ListedAreIds == IInv => {m.id : m \in members} \subseteq Nat
  BY MemberIsRec DEF RowRecs

LEMMA RereadKeeps == ASSUME IInv, NEW h \in Handlers, Reread(h) PROVE IInv'
<1> DEFINE c == handler[h]
           r == [[c EXCEPT !.step = "save"] EXCEPT !.seen = ws, !.listed = {m.id : m \in members}]
<1>1. c \in HandlerRecs /\ GoodHandler(c) /\ c.step = "reread" /\ Reads /\ Live
  BY GoodIsRec DEF Reread, At
<1>2. ws \in LiveRecs /\ ws \in WsRecs
  BY <1>1, WsIsRec
<1>3. handler' = [handler EXCEPT ![h] = r]
  BY DEF Reread, Copied, IInv, HandlersOK
<1>4. /\ r \in HandlerRecs /\ r.step = "save" /\ r.op = c.op
      /\ r.actor = c.actor /\ r.target = c.target /\ r.role = c.role
      /\ r.rows = c.rows /\ r.req = c.req /\ r.seen = ws /\ r.listed = {m.id : m \in members}
  BY <1>1, <1>2, ListedAreIds DEF HandlerRecs, Steps
<1> HIDE DEF r
<1>5. GoodHandler(r)
  BY <1>1, <1>2, <1>4 DEF GoodHandler, Entering
<1>6. FreshHandler(c) => FreshHandler(r)
  BY <1>1, <1>4 DEF FreshHandler, GoodHandler
<1>7. Half(c) => Half(r)
  BY <1>4 DEF Half
<1> QED BY <1>1, <1>3, <1>4, <1>5, <1>6, <1>7, ReadKeeps

\* A handler that starts, but for create.
LEMMA StartKeeps ==
    ASSUME IInv, NEW h \in Handlers, NEW r, Start(h, r), Live,
           UNCHANGED <<ws, members, requests, ids, disturbed, shared>>,
           GoodHandler(r), r.step # "idle", FreshHandler(r)
    PROVE  IInv'
<1>1. ws # NoWorkspace
  BY DEF Live, NoWorkspace
<1>2. starts' \in 0 .. MaxStarts
  BY WorkspaceAssumption DEF Start, IInv, RowsOK, TypeOK
<1>3. handler[h].op # "create" /\ ~ Half(handler[h])
  BY IdleIsGood DEF Start
<1> QED BY <1>1, <1>2, <1>3, Replaced DEF Start

LEMMA BeginKeeps ==
    ASSUME IInv, NEW h \in Handlers, NEW a \in Users, NEW u \in Users \cup {None},
           NEW role \in Roles \cup {None},
           NEW op \in {"add", "approve", "reject", "demote", "remove", "transfer", "handover",
                       "disband"},
           Begin(h, op, a, u, role)
    PROVE  IInv'
<1>1. PICK m \in RowsOf(a) :
        Start(h, [Idle EXCEPT !.op = op, !.step = FirstStep(op), !.actor = a, !.target = u,
                    !.role = role, !.rows = IF op \in {"transfer", "handover"} THEN {m} ELSE {}])
  BY DEF Begin
<1> DEFINE r == [Idle EXCEPT !.op = op, !.step = FirstStep(op), !.actor = a, !.target = u,
                    !.role = role, !.rows = IF op \in {"transfer", "handover"} THEN {m} ELSE {}]
<1>2. Live /\ m \in members /\ m \in RowRecs /\ m.user = a
  BY MemberIsRec DEF RowsOf, Rows
<1>3. /\ op = "add" => FirstStep(op) = "workspace"
      /\ op \in {"approve", "reject"} => FirstStep(op) = "request"
      /\ op \in {"demote", "remove", "transfer", "handover"} => FirstStep(op) = "target"
      /\ op = "disband" => FirstStep(op) = "reread"
  BY DEF FirstStep
<1>4. FirstStep(op) \in {"workspace", "request", "target", "reread"}
  BY <1>3
<1>5. /\ r \in HandlerRecs /\ r.op = op /\ r.step = FirstStep(op) /\ r.actor = a
      /\ r.target = u /\ r.role = role
      /\ r.rows = IF op \in {"transfer", "handover"} THEN {m} ELSE {}
  <2> DEFINE first == FirstStep(op)
             rows == IF op \in {"transfer", "handover"} THEN {m} ELSE {}
  <2>1. rows \in SUBSET RowRecs
    BY <1>2
  <2>2. first \in Steps /\ op \in Ops
    BY <1>4 DEF Steps, Ops
  <2>3. a \in Users \cup {None}
    OBVIOUS
  <2> HIDE DEF first, rows
  <2>4. ASSUME NEW z \in HandlerRecs, z = [Idle EXCEPT !.op = op, !.step = first, !.actor = a,
                                            !.target = u, !.role = role, !.rows = rows]
        PROVE  /\ z.op = op /\ z.step = first /\ z.actor = a
               /\ z.target = u /\ z.role = role /\ z.rows = rows
    BY <2>4, IdleIsGood DEF HandlerRecs
  <2>5. [Idle EXCEPT !.op = op, !.step = first, !.actor = a, !.target = u, !.role = role,
                     !.rows = rows] \in HandlerRecs
    BY <2>1, <2>2, <2>3, IdleIsGood DEF HandlerRecs
  <2> QED BY <2>4, <2>5 DEF first, rows
<1>6. /\ op \in {"add", "demote", "remove", "transfer", "handover"} => u \in Users
      /\ op \in {"add", "demote"} => role \in Roles
      /\ op = "demote" => role # "OWNER"
  BY DEF Begin
<1> HIDE DEF r
<1>10. m.id \in 1 .. ids /\ \A n \in members : n.id = m.id => n = m
  BY <1>2 DEF IInv, RowsOK, TypeOK
<1>7. GoodHandler(r)
  BY <1>3, <1>4, <1>5, <1>6, <1>10 DEF GoodHandler, Entering
<1>8. FreshHandler(r)
  BY <1>2, <1>3, <1>4, <1>5 DEF FreshHandler
<1>9. Start(h, r) /\ r.step # "idle"
  BY <1>1, <1>4, <1>5 DEF r
<1> QED BY <1>2, <1>7, <1>8, <1>9, StartKeeps DEF Begin

LEMMA BeginSettingsKeeps == ASSUME IInv, NEW h \in Handlers, BeginSettings(h) PROVE IInv'
<1> DEFINE r == [[Idle EXCEPT !.op = "settings", !.step = "save"] EXCEPT
                   !.seen = ws, !.listed = {m.id : m \in members}]
<1>1. Live /\ ws \in LiveRecs /\ ws \in WsRecs
  BY WsIsRec DEF BeginSettings
<1>2. /\ r \in HandlerRecs /\ r.op = "settings" /\ r.step = "save"
      /\ r.seen = ws /\ r.listed = {m.id : m \in members} /\ r.rows = {}
  BY <1>1, ListedAreIds, IdleIsGood DEF HandlerRecs, Ops, Steps
<1> HIDE DEF r
<1>3. GoodHandler(r)
  BY <1>1, <1>2 DEF GoodHandler, Entering
<1>4. FreshHandler(r)
  BY <1>1, <1>2 DEF FreshHandler
<1>5. Start(h, r)
  BY DEF BeginSettings, Copied, r
<1> QED BY <1>1, <1>2, <1>3, <1>4, <1>5, StartKeeps DEF BeginSettings

LEMMA BeginJoinKeeps ==
    ASSUME IInv, NEW h \in Handlers, NEW u \in Users, NEW role \in Named, BeginJoin(h, u, role)
    PROVE  IInv'
<1> DEFINE r == [Idle EXCEPT !.op = "join", !.step = "member", !.target = u, !.role = Granted(role)]
<1>1. Live /\ Granted(role) \in Roles
  BY DEF BeginJoin, Granted, Roles
<1>2. /\ r \in HandlerRecs /\ r.op = "join" /\ r.step = "member" /\ r.target = u
      /\ r.role = Granted(role) /\ r.rows = {}
  BY <1>1, IdleIsGood DEF HandlerRecs, Ops, Steps
<1> HIDE DEF r
<1>3. GoodHandler(r)
  BY <1>1, <1>2 DEF GoodHandler, Entering
<1>4. FreshHandler(r)
  BY <1>1, <1>2 DEF FreshHandler
<1>5. Start(h, r)
  BY DEF BeginJoin, r
<1> QED BY <1>1, <1>2, <1>3, <1>4, <1>5, StartKeeps DEF BeginJoin
\* A handler that ends, and may have written a request.
LEMMA EndKeeps ==
    ASSUME IInv, NEW h \in Handlers, handler[h] # Idle, Finish(h),
           UNCHANGED <<ws, members, starts, shared>>, outdated' = outdated \ {h},
           TypeOK', ids' \in Nat, ids <= ids', disturbed' \in BOOLEAN, disturbed => disturbed',
           Half(handler[h]) => disturbed',
           \A q \in requests : \E p \in requests' : p.id = q.id
    PROVE  IInv'
<1>1. ws # NoWorkspace
  BY DEF IInv, RowsOK
<1>2. \A g \in Handlers : handler'[g] = IF g = h THEN Idle ELSE handler[g]
  BY DEF IInv, HandlersOK, Finish
<1>3. DOMAIN handler' = Handlers /\ handler' = [g \in Handlers |-> handler'[g]]
  BY DEF IInv, HandlersOK, Finish
<1>4. RowsOK'
  BY <1>1 DEF IInv, RowsOK, OwnersIn
<1>5. ASSUME NEW g \in Handlers
      PROVE  /\ GoodHandler(handler[g])' /\ (handler'[g] # Idle => handler'[g].step # "idle")
             /\ handler'[g] # Idle /\ g \notin outdated' /\ ~ disturbed' => FreshHandler(handler[g])'
  <2>1. CASE g = h
    <3>1. handler'[g] = Idle
      BY <1>2, <2>1
    <3>2. GoodHandler(handler[g])'
      BY <3>1 DEF GoodHandler, Idle, HandlerRecs, Ops, Steps, Entering, WsRecs
    <3> QED BY <3>1, <3>2
  <2>2. CASE g # h
    <3>1. handler'[g] = handler[g]
      BY <1>2, <2>2
    <3>2. GoodHandler(handler[g]) => GoodHandler(handler[g])'
      BY <3>1 DEF GoodHandler, IInv, RowsOK
    <3>3. FreshHandler(handler[g])' <=> FreshHandler(handler[g])
      BY <3>1 DEF FreshHandler, Live, OwnersIn
    <3> QED BY <2>2, <3>1, <3>2, <3>3 DEF IInv, HandlersOK
  <2> QED BY <2>1, <2>2
<1>6. HandlersOK'
  BY <1>3, <1>5 DEF HandlersOK
<1>7. Owned'
  <2>1. SUFFICES ASSUME ~ disturbed, ~ Half(handler[h]),
                        \A g \in Handlers : handler'[g].op # "create"
                 PROVE  (HasOwner /\ OneRowEach /\ ColumnNamesOwner)'
    BY DEF Owned
  <2>2. \A g \in Handlers : handler[g].op # "create"
    BY <1>2, <2>1 DEF Half
  <2>3. HasOwner /\ OneRowEach /\ ColumnNamesOwner
    BY <1>1, <2>1, <2>2 DEF IInv, Owned
  <2>4. HasOwner' /\ OneRowEach'
    BY <2>3 DEF HasOwner, OneRowEach, OwnersIn
  <2>5. ASSUME NEW g \in Handlers, Halfway(g)
        PROVE  \E x \in Handlers : Halfway(x)'
    BY <1>2, <2>1, <2>5 DEF Halfway, Half
  <2>6. ColumnNamesOwner'
    BY <2>3, <2>5 DEF ColumnNamesOwner
  <2> QED BY <2>4, <2>6
<1> QED BY <1>4, <1>6, <1>7 DEF IInv

LEMMA SaveRequestKeeps == ASSUME IInv, NEW h \in Handlers, SaveRequest(h) PROVE IInv'
<1> DEFINE q == [id |-> ids + 1, user |-> handler[h].target, role |-> handler[h].role,
                 status |-> "PENDING"]
<1>1. GoodHandler(handler[h]) /\ handler[h].step = "ask" /\ handler[h].op = "join"
  BY GoodIsRec DEF SaveRequest, At, GoodHandler
<1>2. handler[h].target \in Users /\ handler[h].role \in Roles
  BY <1>1 DEF GoodHandler, Entering
<1>3. handler[h] # Idle /\ ~ Half(handler[h])
  BY <1>1 DEF Idle, Half
<1>4. ids \in Nat /\ ids' = ids + 1 /\ requests' = requests \cup {q}
  BY DEF SaveRequest, IInv, RowsOK
<1>5. q \in [id : 1 .. ids', user : Users, role : Roles, status : {"PENDING", "APPROVED", "REJECTED"}]
  BY <1>2, <1>4
<1>6. \A x \in members \cup requests : x.id \in 1 .. ids
  BY DEF IInv, RowsOK, TypeOK
<1>7. q.id = ids + 1
  OBVIOUS
<1> HIDE DEF q
<1>8. TypeOK'
  <2>1. ws' = ws /\ members' = members /\ starts' = starts
    BY DEF SaveRequest
  <2>2. members' \subseteq [id : 1 .. ids', user : Users, role : Roles]
    BY <1>4, <2>1 DEF IInv, RowsOK, TypeOK
  <2>3. requests' \subseteq [id : 1 .. ids', user : Users, role : Roles,
                             status : {"PENDING", "APPROVED", "REJECTED"}]
    BY <1>4, <1>5 DEF IInv, RowsOK, TypeOK
  <2>4. \A x \in members' \cup requests', y \in members' \cup requests' : x.id = y.id => x = y
    BY <1>4, <1>6, <1>7, <2>1 DEF IInv, RowsOK, TypeOK
  <2> QED BY <2>1, <2>2, <2>3, <2>4 DEF IInv, RowsOK, TypeOK
<1> QED BY <1>3, <1>4, <1>8, EndKeeps DEF SaveRequest, IInv, RowsOK

LEMMA SaveDecisionKeeps == ASSUME IInv, NEW h \in Handlers, SaveDecision(h) PROVE IInv'
<1>1. /\ GoodHandler(handler[h]) /\ handler[h].step = "decide"
      /\ handler[h].op \in {"approve", "reject"}
  BY GoodIsRec DEF SaveDecision, At, GoodHandler
<1>2. handler[h].req \in ReqRecs /\ \E q \in requests : q.id = handler[h].req.id
  BY <1>1 DEF GoodHandler
<1>3. handler[h] # Idle /\ ~ Half(handler[h])
  BY <1>1 DEF Idle, Half
<1> DEFINE status == IF handler[h].op = "approve" THEN "APPROVED" ELSE "REJECTED"
           d == [handler[h].req EXCEPT !.status = status]
<1>4. requests' = (requests \ {q \in requests : q.id = handler[h].req.id}) \cup {d}
  BY DEF SaveDecision
<1>5. d \in ReqRecs /\ d.id = handler[h].req.id
  BY <1>2 DEF ReqRecs
<1> HIDE DEF d
<1>6. \A q \in requests : \E p \in requests' : p.id = q.id
  BY <1>4, <1>5
<1>7. TypeOK'
  <2>1. ws' = ws /\ members' = members /\ starts' = starts /\ ids' = ids
    BY DEF SaveDecision
  <2>2. d \in [id : 1 .. ids, user : Users, role : Roles, status : {"PENDING", "APPROVED", "REJECTED"}]
    BY <1>2, <1>5 DEF ReqRecs, IInv, RowsOK, TypeOK
  <2>3. requests' \subseteq [id : 1 .. ids', user : Users, role : Roles,
                             status : {"PENDING", "APPROVED", "REJECTED"}]
    BY <1>4, <2>1, <2>2 DEF IInv, RowsOK, TypeOK
  <2>4. \A x \in (members \cup requests) \ {q \in requests : q.id = d.id} : x.id # d.id
    BY <1>2, <1>5 DEF IInv, RowsOK, TypeOK
  <2>5. \A x \in members' \cup requests', y \in members' \cup requests' : x.id = y.id => x = y
    BY <1>4, <1>5, <2>1, <2>4 DEF IInv, RowsOK, TypeOK
  <2> QED BY <2>1, <2>3, <2>5 DEF IInv, RowsOK, TypeOK
<1> QED BY <1>3, <1>6, <1>7, EndKeeps DEF SaveDecision, IInv, RowsOK

LEMMA HandlerEndsKeeps == ASSUME IInv, NEW h \in Handlers, HandlerEnds(h) PROVE IInv'
<1>1. TypeOK'
  BY DEF HandlerEnds, IInv, RowsOK, TypeOK
<1>2. Half(handler[h]) => disturbed'
  BY DEF HandlerEnds, Half, Halfway
<1>3. disturbed' \in BOOLEAN /\ (disturbed => disturbed')
  BY DEF HandlerEnds, IInv, RowsOK
<1> QED BY <1>1, <1>2, <1>3, EndKeeps DEF HandlerEnds, IInv, RowsOK

LEMMA CreateKeeps ==
    ASSUME IInv, NEW h \in Handlers, NEW u \in Users, NEW limit \in Limits, Create(h, u, limit)
    PROVE  IInv'
<1> DEFINE r == [Idle EXCEPT !.op = "create", !.step = "enter", !.target = u, !.role = "OWNER"]
<1>1. /\ ws = NoWorkspace /\ members = {} /\ requests = {} /\ ids = 0
      /\ \A g \in Handlers : handler[g] = Idle
  BY DEF Create, IInv, RowsOK
<1>2. ws' = [state |-> "live", owner |-> u, limit |-> limit]
  BY DEF Create
<1>3. ws' \in LiveRecs /\ ws' # NoWorkspace /\ ws'.owner = u /\ ws'.state = "live"
  BY <1>2 DEF LiveRecs, NoWorkspace
<1>4. \A g \in Handlers : handler'[g] = IF g = h THEN r ELSE Idle
  BY <1>1 DEF Create, Start, IInv, HandlersOK
<1>5. DOMAIN handler' = Handlers /\ handler' = [g \in Handlers |-> handler'[g]]
  BY DEF Create, Start, IInv, HandlersOK
<1>6. /\ r \in HandlerRecs /\ r.op = "create" /\ r.step = "enter" /\ r.target = u
      /\ r.role = "OWNER" /\ r.rows = {}
  BY IdleIsGood DEF HandlerRecs, Ops, Steps, Roles
<1> HIDE DEF r
<1>7. RowsOK'
  <2>1. TypeOK'
    BY <1>1, <1>3, WorkspaceAssumption DEF Create, Start, IInv, RowsOK, TypeOK, LiveRecs
  <2> QED BY <1>3, <2>1 DEF Create, Start, IInv, RowsOK, OwnersIn
<1>8. HandlersOK'
  <2>1. ASSUME NEW g \in Handlers
        PROVE  GoodHandler(handler[g])'
    <3>1. CASE g = h
      BY <1>4, <1>6, <3>1 DEF GoodHandler, Entering, Roles
    <3>2. CASE g # h
      <4>1. handler'[g] = Idle
        BY <1>4, <3>2
      <4> QED BY <4>1 DEF GoodHandler, Idle, HandlerRecs, Ops, Steps, Entering, WsRecs
    <3> QED BY <3>1, <3>2
  <2>2. FreshHandler(handler[h])'
    <3>1. members' = {}
      BY <1>1 DEF Create
    <3> QED BY <1>3, <1>4, <1>6, <3>1 DEF FreshHandler, Live
  <2>3. handler'[h].step # "idle" /\ \A g \in Handlers \ {h} : handler'[g] = Idle
    BY <1>4, <1>6
  <2> QED BY <1>5, <2>1, <2>2, <2>3 DEF HandlersOK
<1>9. handler'[h].op = "create"
  BY <1>4, <1>6
<1>10. Owned'
  BY <1>9 DEF Owned
<1> QED BY <1>7, <1>8, <1>10 DEF IInv
-----------------------------------------------------------------------------
(* The writes. *)

\* Every other running handler is outdated by a write.
LEMMA WriteKeeps ==
    ASSUME IInv, NEW h \in Handlers, NEW r, handler[h] # Idle,
           handler' = [handler EXCEPT ![h] = r], Wrote(h),
           UNCHANGED <<requests, starts>>, TypeOK', ids' \in Nat, ids <= ids', ws' # NoWorkspace,
           \A n \in members' : n.id \in 1 .. ids =>
             \E m \in members : m.id = n.id /\ m.user = n.user,
           disturbed' \in BOOLEAN,
           GoodHandler(r)',
           r # Idle => r.step # "idle",
           r # Idle /\ ~ disturbed' => FreshHandler(r)',
           Owned'
    PROVE  IInv'
<1>1. RowsOK'
  BY DEF Wrote, IInv, RowsOK
<1>2. \A g \in Handlers : handler'[g] = IF g = h THEN r ELSE handler[g]
  BY DEF IInv, HandlersOK
<1>3. DOMAIN handler' = Handlers /\ handler' = [g \in Handlers |-> handler'[g]]
  BY DEF IInv, HandlersOK
<1>4. ASSUME NEW g \in Handlers
      PROVE  /\ GoodHandler(handler[g])' /\ (handler'[g] # Idle => handler'[g].step # "idle")
             /\ handler'[g] # Idle /\ g \notin outdated' /\ ~ disturbed' => FreshHandler(handler[g])'
  <2>1. CASE g = h
    <3>1. handler'[g] = r
      BY <1>2, <2>1
    <3>2. GoodHandler(handler[g])' <=> GoodHandler(r)'
      BY <3>1 DEF GoodHandler
    <3>3. FreshHandler(handler[g])' <=> FreshHandler(r)'
      BY <3>1 DEF FreshHandler
    <3> QED BY <2>1, <3>1, <3>2, <3>3
  <2>2. CASE g # h
    <3>1. handler'[g] = handler[g]
      BY <1>2, <2>2
    <3>2. GoodHandler(handler[g]) /\ (handler[g] # Idle => handler[g].step # "idle")
      BY DEF IInv, HandlersOK
    <3>3. \A x \in handler[g].rows :
            x.id \in 1 .. ids' /\ \A m \in members' : m.id = x.id => m.user = x.user
      BY <3>2 DEF GoodHandler, IInv, RowsOK
    <3>4. GoodHandler(handler[g])'
      BY <3>1, <3>2, <3>3 DEF GoodHandler
    <3>5. handler[g] # Idle => g \in outdated'
      BY <2>2 DEF Wrote
    <3> QED BY <3>1, <3>2, <3>4, <3>5
  <2> QED BY <2>1, <2>2
<1>5. HandlersOK'
  BY <1>3, <1>4 DEF HandlersOK
<1> QED BY <1>1, <1>5 DEF IInv

\* What a handler that writes knows unless something was disturbed.
LEMMA WriterIsFresh ==
    ASSUME IInv, NEW h \in Handlers, handler[h].step # "idle", ~ disturbed, h \notin outdated
    PROVE  FreshHandler(handler[h]) /\ ws # NoWorkspace
  BY RunningHasWorkspace DEF IInv, HandlersOK

\* A row written back by its id takes over the role of the copy.
LEMMA SavedRows ==
    ASSUME IInv, NEW copies \in SUBSET RowRecs
    PROVE  /\ \A n \in Saved(copies) : \E m \in members :
                /\ n.id = m.id /\ n.user = m.user /\ n \in RowRecs
                /\ \/ n = m /\ \A c \in copies : c.id # m.id
                   \/ \E c \in copies : c.id = m.id /\ n.role = c.role
           /\ \A m \in members : (\A c \in copies : c.id # m.id) => m \in Saved(copies)
           /\ \A m \in members, c \in copies : c.id = m.id =>
                \E n \in Saved(copies) : n.id = m.id /\ n.user = m.user /\ n.role = c.role
<1>1. \A m \in members, c \in copies :
        LET n == [m EXCEPT !.role = c.role] IN
        n \in RowRecs /\ n.id = m.id /\ n.user = m.user /\ n.role = c.role
  BY MemberIsRec DEF RowRecs
<1>2. ASSUME NEW n \in Saved(copies), ~ (n \in members /\ \A c \in copies : c.id # n.id)
      PROVE  \E m \in members, c \in copies : c.id = m.id /\ n = [m EXCEPT !.role = c.role]
  BY <1>2 DEF Saved
<1>3. ASSUME NEW m \in members, NEW c \in copies, c.id = m.id
      PROVE  [m EXCEPT !.role = c.role] \in Saved(copies)
  <2> DEFINE p == <<m, c>>
  <2>1. p \in {q \in members \X copies : q[1].id = q[2].id} /\ p[1] = m /\ p[2] = c
    BY <1>3
  <2> HIDE DEF p
  <2>2. [p[1] EXCEPT !.role = p[2].role] \in Saved(copies)
    BY <2>1 DEF Saved
  <2> QED BY <2>1, <2>2
<1>4. \A m \in members : (\A c \in copies : c.id # m.id) => m \in Saved(copies)
  BY DEF Saved
<1>5. ASSUME NEW n \in Saved(copies)
      PROVE  \E m \in members :
                /\ n.id = m.id /\ n.user = m.user /\ n \in RowRecs
                /\ \/ n = m /\ \A c \in copies : c.id # m.id
                   \/ \E c \in copies : c.id = m.id /\ n.role = c.role
  <2>1. CASE n \in members /\ \A c \in copies : c.id # n.id
    BY <2>1, MemberIsRec
  <2>2. CASE ~ (n \in members /\ \A c \in copies : c.id # n.id)
    <3>1. PICK m \in members, c \in copies : c.id = m.id /\ n = [m EXCEPT !.role = c.role]
      BY <1>2, <2>2
    <3>2. n \in RowRecs /\ n.id = m.id /\ n.user = m.user /\ n.role = c.role
      BY <1>1, <3>1
    <3> QED BY <3>1, <3>2
  <2> QED BY <2>1, <2>2
<1> QED BY <1>1, <1>3, <1>4, <1>5
\* Rows written back have the types of rows, when copies of one row agree.
LEMMA SavedTypes ==
    ASSUME IInv, NEW copies \in SUBSET RowRecs,
           \A m \in members, c \in copies, d \in copies :
             c.id = m.id /\ d.id = m.id => c.role = d.role
    PROVE  /\ Saved(copies) \subseteq [id : 1 .. ids, user : Users, role : Roles]
           /\ \A x \in Saved(copies) \cup requests, y \in Saved(copies) \cup requests :
                x.id = y.id => x = y
           /\ \A n \in Saved(copies) : \E m \in members : m.id = n.id /\ m.user = n.user
<1>1. \A n \in Saved(copies) : \E m \in members :
         /\ n.id = m.id /\ n.user = m.user /\ n \in RowRecs
         /\ \/ n = m /\ \A c \in copies : c.id # m.id
            \/ \E c \in copies : c.id = m.id /\ n.role = c.role
  BY SavedRows
<1>2. \A x \in members \cup requests, y \in members \cup requests : x.id = y.id => x = y
  BY DEF IInv, RowsOK, TypeOK
<1>3. Saved(copies) \subseteq [id : 1 .. ids, user : Users, role : Roles]
  <2>1. \A m \in members : m.id \in 1 .. ids
    BY DEF IInv, RowsOK, TypeOK
  <2> QED BY <1>1, <2>1 DEF RowRecs
<1>4. ASSUME NEW x \in Saved(copies), NEW y \in Saved(copies), x.id = y.id
      PROVE  x = y
  <2>1. PICK m \in members :
         /\ x.id = m.id /\ x.user = m.user /\ x \in RowRecs
         /\ \/ x = m /\ \A c \in copies : c.id # m.id
            \/ \E c \in copies : c.id = m.id /\ x.role = c.role
    BY <1>1
  <2>2. PICK n \in members :
         /\ y.id = n.id /\ y.user = n.user /\ y \in RowRecs
         /\ \/ y = n /\ \A c \in copies : c.id # n.id
            \/ \E c \in copies : c.id = n.id /\ y.role = c.role
    BY <1>1
  <2>3. m = n
    BY <1>2, <1>4, <2>1, <2>2
  <2>4. x.role = y.role
    BY <2>1, <2>2, <2>3
  <2> QED BY <2>1, <2>2, <2>3, <2>4 DEF RowRecs
<1>5. ASSUME NEW x \in Saved(copies), NEW q \in requests, x.id = q.id
      PROVE  x = q
  <2>1. PICK m \in members : x.id = m.id
    BY <1>1
  <2>2. m = q
    BY <1>2, <1>5, <2>1
  <2>3. q \in [id : 1 .. ids, user : Users, role : Roles,
               status : {"PENDING", "APPROVED", "REJECTED"}]
        /\ m \in [id : 1 .. ids, user : Users, role : Roles]
    BY DEF IInv, RowsOK, TypeOK
  <2>4. "status" \in DOMAIN q /\ "status" \notin DOMAIN m
    BY <2>3
  <2> QED BY <2>2, <2>4
<1>6. \A x \in Saved(copies) \cup requests, y \in Saved(copies) \cup requests : x.id = y.id => x = y
  BY <1>2, <1>4, <1>5
<1> QED BY <1>1, <1>3, <1>6

\* Before a write of a handler other than create, with no creation under way.
LEMMA OwnedBefore ==
    ASSUME IInv, NEW h \in Handlers, NEW r, handler' = [handler EXCEPT ![h] = r],
           handler[h].op # "create", ~ disturbed, ws # NoWorkspace,
           \A g \in Handlers : handler'[g].op # "create"
    PROVE  HasOwner /\ OneRowEach /\ ColumnNamesOwner
<1>1. \A g \in Handlers : handler[g].op # "create"
  BY DEF IInv, HandlersOK
<1> QED BY <1>1 DEF IInv, Owned

\* The owner's row of ColumnNamesOwner stands, or what excuses its absence.
LEMMA ColumnKept ==
    ASSUME IInv, NEW h \in Handlers, NEW r, handler' = [handler EXCEPT ![h] = r],
           Half(handler[h]) => Half(r), ColumnNamesOwner, Wrote(h), ws'.owner = ws.owner,
           (\E m \in members : m.user = ws.owner /\ m.role = "OWNER") =>
             shared \/ \E m \in members' : m.user = ws.owner /\ m.role = "OWNER"
    PROVE  ColumnNamesOwner'
<1>1. \A g \in Handlers : handler'[g] = IF g = h THEN r ELSE handler[g]
  BY DEF IInv, HandlersOK
<1>2. ASSUME NEW g \in Handlers, Halfway(g)
      PROVE  Halfway(g)'
  BY <1>1, <1>2 DEF Halfway, Half
<1>3. shared => shared'
  BY DEF Wrote
<1> QED BY <1>2, <1>3 DEF ColumnNamesOwner

LEMMA EnterKeeps == ASSUME IInv, NEW h \in Handlers, Enter(h) PROVE IInv'
<1> SUFFICES ASSUME NEW c, c = handler[h], NEW r,
                    r = IF c.op = "approve" THEN [c EXCEPT !.step = "decide"] ELSE Idle
             PROVE  IInv'
  OBVIOUS
<1> DEFINE n == [id |-> ids + 1, user |-> c.target, role |-> c.role]
<1>1. /\ c \in HandlerRecs /\ GoodHandler(c) /\ c.step = "enter"
      /\ c.op \in {"create", "add", "approve"} /\ c.target \in Users /\ c.role \in Roles
      /\ c.op = "create" => c.role = "OWNER"
  BY GoodIsRec DEF Enter, At, GoodHandler, Entering
<1>2. c # Idle /\ ws # NoWorkspace
  BY <1>1, RunningHasWorkspace
<1>3. handler' = [handler EXCEPT ![h] = r]
  BY DEF Enter, Goto, Finish
<1>4. ids \in Nat /\ ids' = ids + 1 /\ members' = members \cup {n}
  BY DEF Enter, IInv, RowsOK
<1>5. n.id = ids + 1 /\ n.user = c.target /\ n.role = c.role
  OBVIOUS
<1>6. n \in [id : 1 .. ids', user : Users, role : Roles]
  BY <1>1, <1>4
<1>7. \A x \in members \cup requests : x.id \in 1 .. ids
  BY DEF IInv, RowsOK, TypeOK
<1> HIDE DEF n
<1>8. TypeOK'
  <2>1. ws' = ws /\ requests' = requests /\ starts' = starts
    BY DEF Enter
  <2>2. members' \subseteq [id : 1 .. ids', user : Users, role : Roles]
    BY <1>4, <1>6 DEF IInv, RowsOK, TypeOK
  <2>3. requests' \subseteq [id : 1 .. ids', user : Users, role : Roles,
                             status : {"PENDING", "APPROVED", "REJECTED"}]
    BY <1>4, <2>1 DEF IInv, RowsOK, TypeOK
  <2>4. \A x \in members' \cup requests', y \in members' \cup requests' : x.id = y.id => x = y
    BY <1>4, <1>5, <1>7, <2>1 DEF IInv, RowsOK, TypeOK
  <2> QED BY <2>1, <2>2, <2>3, <2>4 DEF IInv, RowsOK, TypeOK
<1>9. \A x \in members' : x.id \in 1 .. ids => \E m \in members : m.id = x.id /\ m.user = x.user
  BY <1>4, <1>5
<1>10. /\ disturbed' \in BOOLEAN
       /\ ~ disturbed' => ~ disturbed /\ h \notin outdated
  BY DEF Enter, Tell, IInv, RowsOK
<1>11. ~ disturbed' => FreshHandler(c)
  BY <1>1, <1>10, WriterIsFresh
<1>12. c.op = "approve" =>
         /\ r \in HandlerRecs /\ r.step = "decide" /\ r.op = c.op /\ r.req = c.req
         /\ r.rows = c.rows
  BY <1>1, StepSet DEF Steps
<1>13. c.op # "approve" => r = Idle
  OBVIOUS
<1>14. GoodHandler(r)'
  <2>1. CASE c.op = "approve"
    <3>1. \A x \in c.rows : x.id \in 1 .. ids' /\ \A m \in members' : m.id = x.id => m.user = x.user
      BY <1>1, <1>4, <1>5 DEF GoodHandler
    <3>2. r.req \in ReqRecs /\ \E q \in requests' : q.id = r.req.id
      BY <1>1, <1>12, <2>1 DEF GoodHandler, Enter
    <3>3. r \in HandlerRecs /\ r.step = "decide" /\ r.op = "approve" /\ r.rows = c.rows
      BY <1>12, <2>1
    <3> QED BY <3>1, <3>2, <3>3 DEF GoodHandler, Entering
  <2>2. CASE c.op # "approve"
    <3>1. r = Idle
      BY <1>13, <2>2
    <3> QED BY <3>1 DEF GoodHandler, Idle, HandlerRecs, Ops, Steps, Entering, WsRecs
  <2> QED BY <2>1, <2>2
<1>15. r # Idle => r.step # "idle"
  BY <1>12, <1>13
<1>16. r # Idle /\ ~ disturbed' => FreshHandler(r)'
  <2>1. SUFFICES ASSUME c.op = "approve", ~ disturbed' PROVE FreshHandler(r)'
    BY <1>13
  <2>2. r.op = "approve" /\ r.step = "decide"
    BY <1>12, <2>1
  <2>3. ws' = ws /\ Live
    BY <1>11, <2>1 DEF FreshHandler, Enter
  <2> QED BY <2>2, <2>3 DEF FreshHandler, Live
<1>17. Owned'
  <2>1. SUFFICES ASSUME ~ disturbed', \A g \in Handlers : handler'[g].op # "create"
                 PROVE  (HasOwner /\ OneRowEach /\ ColumnNamesOwner)'
    BY DEF Owned
  <2>2. FreshHandler(c) /\ ~ disturbed
    BY <1>10, <1>11, <2>1
  <2>3. ws' = ws /\ Wrote(h)
    BY DEF Enter
  <2>4. CASE c.op = "create"
    <3>1. members' = {n} /\ n.role = "OWNER" /\ n.user = ws.owner
      BY <1>1, <1>4, <1>5, <2>2, <2>4 DEF FreshHandler
    <3> QED BY <2>3, <3>1 DEF HasOwner, OneRowEach, ColumnNamesOwner, OwnersIn
  <2>5. CASE c.op # "create"
    <3>1. HasOwner /\ OneRowEach /\ ColumnNamesOwner
      BY <1>2, <1>3, <2>1, <2>2, <2>5, OwnedBefore
    <3>2. \A m \in members : m.user # n.user
      BY <1>1, <1>5, <2>2, <2>5 DEF FreshHandler
    <3>3. HasOwner' /\ OneRowEach'
      BY <1>4, <3>1, <3>2 DEF HasOwner, OneRowEach, OwnersIn
    <3>4. ~ Half(c)
      BY <1>1, <2>5 DEF Half
    <3>5. members \subseteq members' /\ ws'.owner = ws.owner
      BY <1>4, <2>3
    <3>6. ColumnNamesOwner'
      BY <1>3, <2>3, <3>1, <3>4, <3>5, ColumnKept
    <3> QED BY <3>3, <3>6
  <2> QED BY <2>4, <2>5
<1>18. ids' \in Nat /\ ids <= ids' /\ ws' # NoWorkspace /\ Wrote(h)
       /\ UNCHANGED <<requests, starts>>
  BY <1>2, <1>4 DEF Enter
<1> QED BY <1>2, <1>3, <1>8, <1>9, <1>10, <1>14, <1>15, <1>16, <1>17, <1>18, WriteKeeps

\* Nobody gets a second row from a write that makes none.
LEMMA RowsStayOne ==
    ASSUME OneRowEach, TypeOK',
           \A n \in members' : \E m \in members : m.id = n.id /\ m.user = n.user
    PROVE  OneRowEach'
<1> SUFFICES ASSUME NEW x \in members', NEW y \in members', x.user = y.user PROVE x = y
  BY DEF OneRowEach
<1>1. PICK m \in members, n \in members : m.id = x.id /\ m.user = x.user /\ n.id = y.id /\ n.user = y.user
  OBVIOUS
<1>2. x.id = y.id
  BY <1>1 DEF OneRowEach
<1> QED BY <1>2 DEF TypeOK

\* Writes that change member rows keep the types.
LEMMA RowsTyped ==
    ASSUME IInv, UNCHANGED <<ws, requests, starts, ids>>,
           members' \subseteq [id : 1 .. ids, user : Users, role : Roles],
           \A x \in members' \cup requests, y \in members' \cup requests : x.id = y.id => x = y
    PROVE  TypeOK' /\ ids' \in Nat /\ ids <= ids'
  BY DEF IInv, RowsOK, TypeOK

LEMMA IdleStaysGood == GoodHandler(Idle)'
  BY DEF GoodHandler, Idle, HandlerRecs, Ops, Steps, Entering, WsRecs

LEMMA ChangeKeeps == ASSUME IInv, NEW h \in Handlers, Change(h) PROVE IInv'
<1> SUFFICES ASSUME NEW c, c = handler[h] PROVE IInv'
  OBVIOUS
<1>1. /\ c \in HandlerRecs /\ GoodHandler(c) /\ c.step = "change"
      /\ c.op \in {"demote", "remove"} /\ c.target \in Users /\ c.rows \in SUBSET RowRecs
      /\ c.op = "demote" => c.role \in Roles \ {"OWNER"}
  BY GoodIsRec DEF Change, At, GoodHandler, HandlerRecs
<1>2. c # Idle /\ ws # NoWorkspace
  BY <1>1, RunningHasWorkspace
<1>3. /\ handler' = [handler EXCEPT ![h] = Idle] /\ Wrote(h)
      /\ UNCHANGED <<ws, requests, starts, ids>>
  BY DEF Change, Finish
<1>4. /\ disturbed' \in BOOLEAN
      /\ ~ disturbed' => ~ disturbed /\ h \notin outdated
  BY DEF Change, Tell, IInv, RowsOK
<1>5. /\ members' \subseteq [id : 1 .. ids, user : Users, role : Roles]
      /\ \A x \in members' \cup requests, y \in members' \cup requests : x.id = y.id => x = y
      /\ \A n \in members' : \E m \in members : m.id = n.id /\ m.user = n.user
      /\ \A m \in members : (\A x \in c.rows : x.id # m.id) => m \in members'
  <2>1. CASE c.op = "remove"
    <3>1. members' = {m \in members : \A x \in c.rows : x.id # m.id}
      BY <2>1 DEF Change
    <3> QED BY <3>1 DEF IInv, RowsOK, TypeOK
  <2>2. CASE c.op = "demote"
    <3> DEFINE copies == {[x EXCEPT !.role = c.role] : x \in c.rows}
    <3>1. members' = Saved(copies)
      BY <2>2 DEF Change
    <3>2. \A x \in c.rows :
            /\ [x EXCEPT !.role = c.role] \in RowRecs
            /\ [x EXCEPT !.role = c.role].role = c.role
            /\ [x EXCEPT !.role = c.role].id = x.id
      BY <1>1, <2>2 DEF RowRecs
    <3>3. /\ copies \in SUBSET RowRecs /\ \A d \in copies : d.role = c.role
          /\ \A d \in copies : \E x \in c.rows : x.id = d.id
      BY <3>2
    <3> HIDE DEF copies
    <3>4. /\ Saved(copies) \subseteq [id : 1 .. ids, user : Users, role : Roles]
          /\ \A x \in Saved(copies) \cup requests, y \in Saved(copies) \cup requests :
               x.id = y.id => x = y
          /\ \A n \in Saved(copies) : \E m \in members : m.id = n.id /\ m.user = n.user
      BY <3>3, SavedTypes
    <3>5. \A m \in members : (\A d \in copies : d.id # m.id) => m \in Saved(copies)
      BY <3>3, SavedRows
    <3> QED BY <3>1, <3>3, <3>4, <3>5
  <2> QED BY <1>1, <2>1, <2>2
<1>6. TypeOK' /\ ids' \in Nat /\ ids <= ids'
  BY <1>3, <1>5, RowsTyped
<1>7. Owned'
  <2>1. SUFFICES ASSUME ~ disturbed', \A g \in Handlers : handler'[g].op # "create"
                 PROVE  (HasOwner /\ OneRowEach /\ ColumnNamesOwner)'
    BY DEF Owned
  <2>2. FreshHandler(c)
    BY <1>1, <1>4, <2>1, WriterIsFresh
  <2>3. PICK x \in members : x.user = c.target /\ c.rows = {x}
    BY <1>1, <2>2 DEF FreshHandler
  <2>4. x.role = "OWNER" => Cardinality(OwnersIn(members)) > 1
    BY <1>1, <2>2, <2>3 DEF FreshHandler
  <2>5. HasOwner /\ OneRowEach /\ ColumnNamesOwner
    BY <1>1, <1>2, <1>3, <1>4, <2>1, OwnedBefore
  <2>6. \A m \in members : m # x => m \in members'
    BY <1>5, <2>3 DEF IInv, RowsOK, TypeOK
  <2>7. \E o \in members : o.role = "OWNER" /\ o # x
    <3>1. CASE x.role = "OWNER"
      <4>1. OwnersIn(members) # {x}
        <5>1. Cardinality({x}) = 1
          BY FS_Singleton
        <5> QED BY <2>4, <3>1, <5>1
      <4> QED BY <3>1, <4>1 DEF OwnersIn
    <3>2. CASE x.role # "OWNER"
      BY <2>5, <3>2 DEF HasOwner, OwnersIn
    <3> QED BY <3>1, <3>2
  <2>8. HasOwner'
    BY <2>6, <2>7 DEF HasOwner, OwnersIn
  <2>9. OneRowEach'
    BY <1>5, <1>6, <2>5, RowsStayOne
  <2>10. (\E m \in members : m.user = ws.owner /\ m.role = "OWNER") =>
           shared \/ \E m \in members' : m.user = ws.owner /\ m.role = "OWNER"
    <3>1. x.role = "OWNER" => shared
      BY <2>4 DEF IInv, RowsOK
    <3> QED BY <2>6, <3>1
  <2>11. ~ Half(c) /\ ws'.owner = ws.owner
    BY <1>1, <1>3 DEF Half
  <2>12. ColumnNamesOwner'
    BY <1>3, <2>5, <2>10, <2>11, ColumnKept
  <2> QED BY <2>8, <2>9, <2>12
<1>8. \A n \in members' : n.id \in 1 .. ids => \E m \in members : m.id = n.id /\ m.user = n.user
  BY <1>5
<1>9. ws' # NoWorkspace
  BY <1>2, <1>3
<1> QED BY <1>2, <1>3, <1>4, <1>6, <1>7, <1>8, <1>9, IdleStaysGood, WriteKeeps

LEMMA TransferKeeps == ASSUME IInv, NEW h \in Handlers, Transfer(h) PROVE IInv'
<1> SUFFICES ASSUME NEW c, c = handler[h], NEW r,
                    r = [c EXCEPT !.rows = {},
                           !.step = IF c.op = "transfer" THEN "column" ELSE "reread"]
             PROVE  IInv'
  OBVIOUS
<1>1. /\ c \in HandlerRecs /\ GoodHandler(c) /\ c.step = "transfer"
      /\ c.op \in {"transfer", "handover"} /\ c.target \in Users /\ c.rows \in SUBSET RowRecs
  BY GoodIsRec DEF Transfer, At, GoodHandler, HandlerRecs
<1>2. c # Idle /\ ws # NoWorkspace
  BY <1>1, RunningHasWorkspace
<1>3. /\ handler' = [handler EXCEPT ![h] = r] /\ Wrote(h)
      /\ UNCHANGED <<ws, requests, starts, ids>>
  BY DEF Transfer, IInv, HandlersOK
<1>4. /\ disturbed' \in BOOLEAN
      /\ ~ disturbed' => ~ disturbed /\ h \notin outdated /\ c.target # c.actor
  BY DEF Transfer, IInv, RowsOK
<1>5. /\ r \in HandlerRecs /\ r.op = c.op /\ r.rows = {} /\ r.target = c.target
      /\ c.op = "transfer" => r.step = "column"
      /\ c.op = "handover" => r.step = "reread"
  BY <1>1 DEF HandlerRecs, Steps
<1> DEFINE role(x) == IF x.user = c.target /\ c.target # c.actor THEN "OWNER" ELSE "ADMIN"
           copy(x) == [x EXCEPT !.role = role(x)]
           both == {copy(x) : x \in c.rows}
<1>6. members' = Saved(both)
  BY DEF Transfer
<1>7. \A x \in c.rows :
        /\ copy(x) \in RowRecs /\ copy(x).role = role(x)
        /\ copy(x).id = x.id /\ copy(x).user = x.user /\ role(copy(x)) = role(x)
  BY <1>1 DEF RowRecs, Roles
<1> HIDE DEF role, copy
<1>8. both \in SUBSET RowRecs
  BY <1>7
<1>9. \A d \in both : d.role = role(d) /\ \E x \in c.rows : x.id = d.id /\ x.user = d.user
  BY <1>7
<1>10. \A x \in c.rows : \E d \in both : d.id = x.id /\ d.role = role(x)
  BY <1>7
<1> HIDE DEF both
<1>11. \A m \in members, d \in both : d.id = m.id => d.user = m.user
  BY <1>1, <1>9 DEF GoodHandler
<1>12. /\ members' \subseteq [id : 1 .. ids, user : Users, role : Roles]
       /\ \A x \in members' \cup requests, y \in members' \cup requests : x.id = y.id => x = y
       /\ \A n \in members' : \E m \in members : m.id = n.id /\ m.user = n.user
  <2>1. \A m \in members, d \in both, e \in both : d.id = m.id /\ e.id = m.id => d.role = e.role
    BY <1>9, <1>11 DEF role
  <2> QED BY <1>6, <1>8, <2>1, SavedTypes
<1>13. TypeOK' /\ ids' \in Nat /\ ids <= ids'
  BY <1>3, <1>12, RowsTyped
<1>14. GoodHandler(r)'
  BY <1>1, <1>5 DEF GoodHandler, Entering
<1>15. ~ disturbed' => \E n \in members' : n.user = c.target /\ n.role = "OWNER"
  <2> SUFFICES ASSUME ~ disturbed' PROVE \E n \in members' : n.user = c.target /\ n.role = "OWNER"
    OBVIOUS
  <2>1. FreshHandler(c) /\ c.target # c.actor
    BY <1>1, <1>4, WriterIsFresh
  <2>2. PICK t \in members : t.user = c.target /\ t \in c.rows
    BY <1>1, <2>1 DEF FreshHandler
  <2>3. PICK d \in both : d.id = t.id /\ d.role = "OWNER"
    BY <1>10, <2>1, <2>2 DEF role
  <2> QED BY <1>6, <1>8, <2>2, <2>3, SavedRows
<1>16. r # Idle /\ ~ disturbed' => FreshHandler(r)'
  <2> SUFFICES ASSUME ~ disturbed' PROVE FreshHandler(r)'
    OBVIOUS
  <2>1. Live'
    BY <1>1, <1>3, <1>4, WriterIsFresh DEF FreshHandler, Live
  <2> QED BY <1>1, <1>5, <1>15, <2>1 DEF FreshHandler
<1>17. r.step # "idle"
  BY <1>1, <1>5
<1>18. Owned'
  <2>1. SUFFICES ASSUME ~ disturbed', \A g \in Handlers : handler'[g].op # "create"
                 PROVE  (HasOwner /\ OneRowEach /\ ColumnNamesOwner)'
    BY DEF Owned
  <2>2. OneRowEach
    BY <1>1, <1>2, <1>3, <1>4, <2>1, OwnedBefore
  <2>3. OneRowEach'
    BY <1>12, <1>13, <2>2, RowsStayOne
  <2>4. HasOwner'
    BY <1>15, <2>1 DEF HasOwner, OwnersIn
  <2>5. handler'[h] = r
    BY <1>3 DEF IInv, HandlersOK
  <2>6. ColumnNamesOwner'
    BY <1>1, <1>5, <2>5 DEF ColumnNamesOwner, Halfway
  <2> QED BY <2>3, <2>4, <2>6
<1>19. \A n \in members' : n.id \in 1 .. ids => \E m \in members : m.id = n.id /\ m.user = n.user
  BY <1>12
<1>20. ws' # NoWorkspace
  BY <1>2, <1>3
<1> QED BY <1>2, <1>3, <1>4, <1>13, <1>14, <1>16, <1>17, <1>18, <1>19, <1>20, WriteKeeps

LEMMA SetOwnerKeeps == ASSUME IInv, NEW h \in Handlers, SetOwner(h) PROVE IInv'
<1> SUFFICES ASSUME NEW c, c = handler[h] PROVE IInv'
  OBVIOUS
<1>1. /\ GoodHandler(c) /\ c.step = "column" /\ c.op \in {"transfer", "handover"}
      /\ c.target \in Users
  BY GoodIsRec DEF SetOwner, At, GoodHandler
<1>2. c # Idle /\ ws # NoWorkspace
  BY <1>1, RunningHasWorkspace
<1>3. /\ handler' = [handler EXCEPT ![h] = Idle] /\ Wrote(h)
      /\ UNCHANGED <<members, requests, starts, ids>>
      /\ ws' = [ws EXCEPT !.owner = c.target]
  BY DEF SetOwner, Finish
<1>4. /\ disturbed' \in BOOLEAN
      /\ ~ disturbed' => ~ disturbed /\ h \notin outdated
  BY DEF SetOwner, Tell, IInv, RowsOK
<1>5. /\ ws' \in [state : {"live", "deleted"}, owner : Users, limit : Limits]
      /\ ws'.owner = c.target /\ ws'.state # "none"
  BY <1>1, <1>2, <1>3 DEF IInv, RowsOK, TypeOK
<1>6. TypeOK' /\ ids' \in Nat /\ ids <= ids' /\ ws' # NoWorkspace
  BY <1>3, <1>5 DEF IInv, RowsOK, TypeOK, NoWorkspace
<1>7. Owned'
  <2>1. SUFFICES ASSUME ~ disturbed', \A g \in Handlers : handler'[g].op # "create"
                 PROVE  (HasOwner /\ OneRowEach /\ ColumnNamesOwner)'
    BY DEF Owned
  <2>2. HasOwner /\ OneRowEach
    BY <1>1, <1>2, <1>3, <1>4, <2>1, OwnedBefore
  <2>3. \E m \in members : m.user = c.target /\ m.role = "OWNER"
    BY <1>1, <1>4, <2>1, WriterIsFresh DEF FreshHandler
  <2> QED BY <1>3, <1>5, <2>2, <2>3 DEF HasOwner, OneRowEach, ColumnNamesOwner, OwnersIn
<1>8. \A n \in members' : n.id \in 1 .. ids => \E m \in members : m.id = n.id /\ m.user = n.user
  BY <1>3
<1> QED BY <1>2, <1>3, <1>4, <1>6, <1>7, <1>8, IdleStaysGood, WriteKeeps

LEMMA SaveWorkspaceKeeps ==
    ASSUME IInv, NEW h \in Handlers, NEW limit \in Limits, SaveWorkspace(h, limit)
    PROVE  IInv'
<1> SUFFICES ASSUME NEW c, c = handler[h] PROVE IInv'
  OBVIOUS
<1>1. /\ GoodHandler(c) /\ c.step = "save" /\ c.op \in {"settings", "handover", "disband"}
      /\ c.seen \in LiveRecs
      /\ c.op = "handover" => c.target \in Users
  BY GoodIsRec DEF SaveWorkspace, At, GoodHandler
<1>2. c # Idle /\ ws # NoWorkspace
  BY <1>1, RunningHasWorkspace
<1>3. /\ handler' = [handler EXCEPT ![h] = Idle] /\ Wrote(h)
      /\ UNCHANGED <<requests, starts, ids>>
      /\ members' = {m \in members : m.id \in c.listed}
  BY DEF SaveWorkspace, Finish
<1>4. /\ disturbed' \in BOOLEAN
      /\ ~ disturbed' => ~ disturbed /\ h \notin outdated
  BY DEF SaveWorkspace, Tell, IInv, RowsOK
<1>5. /\ ws' \in [state : {"live", "deleted"}, owner : Users, limit : Limits]
      /\ c.op = "handover" => ws'.owner = c.target
      /\ c.op = "disband" => ws'.owner = ws.owner
      /\ c.op = "settings" => ws'.owner = c.seen.owner
  <2>1. CASE c.op = "handover"
    <3>1. ws' = [c.seen EXCEPT !.owner = c.target]
      BY <2>1 DEF SaveWorkspace
    <3> QED BY <1>1, <2>1, <3>1 DEF LiveRecs
  <2>2. CASE c.op = "disband"
    <3>1. ws' = [ws EXCEPT !.state = "deleted"]
      BY <2>2 DEF SaveWorkspace
    <3> QED BY <1>2, <2>2, <3>1 DEF IInv, RowsOK, TypeOK
  <2>3. CASE c.op = "settings"
    <3>1. ws' = [c.seen EXCEPT !.limit = limit]
      BY <2>3 DEF SaveWorkspace
    <3> QED BY <1>1, <2>3, <3>1 DEF LiveRecs
  <2> QED BY <1>1, <2>1, <2>2, <2>3
<1>6. TypeOK' /\ ids' \in Nat /\ ids <= ids' /\ ws' # NoWorkspace
  <2>1. ws' # NoWorkspace
    BY <1>5 DEF NoWorkspace
  <2> QED BY <1>3, <1>5, <2>1 DEF IInv, RowsOK, TypeOK
<1>7. Owned'
  <2>1. SUFFICES ASSUME ~ disturbed', \A g \in Handlers : handler'[g].op # "create"
                 PROVE  (HasOwner /\ OneRowEach /\ ColumnNamesOwner)'
    BY DEF Owned
  <2>2. HasOwner /\ OneRowEach /\ ColumnNamesOwner
    BY <1>1, <1>2, <1>3, <1>4, <2>1, OwnedBefore
  <2>3. FreshHandler(c)
    BY <1>1, <1>4, <2>1, WriterIsFresh
  <2>4. c.seen = ws /\ members' = members
    BY <1>1, <1>3, <2>3 DEF FreshHandler
  <2>5. HasOwner' /\ OneRowEach'
    BY <2>2, <2>4 DEF HasOwner, OneRowEach, OwnersIn
  <2>6. ColumnNamesOwner'
    <3>1. CASE c.op = "handover"
      <4>1. \E m \in members : m.user = c.target /\ m.role = "OWNER"
        BY <1>1, <2>3, <3>1 DEF FreshHandler
      <4> QED BY <1>5, <2>4, <3>1, <4>1 DEF ColumnNamesOwner
    <3>2. CASE c.op # "handover"
      <4>1. ~ Half(c) /\ ws'.owner = ws.owner
        BY <1>1, <1>5, <2>4, <3>2 DEF Half
      <4> QED BY <1>3, <2>2, <2>4, <4>1, ColumnKept
    <3> QED BY <3>1, <3>2
  <2> QED BY <2>5, <2>6
<1>8. \A n \in members' : n.id \in 1 .. ids => \E m \in members : m.id = n.id /\ m.user = n.user
  BY <1>3
<1> QED BY <1>2, <1>3, <1>4, <1>6, <1>7, <1>8, IdleStaysGood, WriteKeeps
-----------------------------------------------------------------------------
LEMMA InitKeeps == Init => IInv
<1> SUFFICES ASSUME Init PROVE IInv
  OBVIOUS
<1>1. RowsOK
  <2>1. OwnersIn(members) = {}
    BY DEF Init, OwnersIn
  <2>2. ~ (Cardinality(OwnersIn(members)) > 1)
    BY <2>1, FS_EmptySet
  <2>3. TypeOK
    BY WorkspaceAssumption DEF Init, TypeOK
  <2> QED BY <2>2, <2>3 DEF Init, RowsOK
<1>2. ASSUME NEW h \in Handlers
      PROVE  handler[h] = Idle
  BY <1>2 DEF Init
<1>3. HandlersOK
  BY <1>2, IdleIsGood DEF HandlersOK, Init
<1>4. Owned
  BY DEF Init, Owned
<1> QED BY <1>1, <1>3, <1>4 DEF IInv

LEMMA NextKeeps == IInv /\ [Next]_vars => IInv'
<1> SUFFICES ASSUME IInv, [Next]_vars PROVE IInv'
  OBVIOUS
<1>1. CASE UNCHANGED vars
  BY <1>1 DEF vars, IInv, RowsOK, TypeOK, OwnersIn, HandlersOK, GoodHandler, FreshHandler, Live,
              Owned, HasOwner, OneRowEach, ColumnNamesOwner, Halfway
<1>2. CASE Next
  <2>1. PICK h \in Handlers :
         \/ \E u \in Users, limit \in Limits : Create(h, u, limit)
         \/ \E a \in Users, u \in Users \cup {None}, role \in Roles \cup {None},
               op \in {"add", "approve", "reject", "demote", "remove", "transfer", "handover",
                       "disband"} : Begin(h, op, a, u, role)
         \/ BeginSettings(h)
         \/ \E u \in Users, role \in Named : BeginJoin(h, u, role)
         \/ JoinCheckMember(h) \/ JoinCheckPending(h) \/ SaveRequest(h)
         \/ RequestRead(h) \/ AddAuthorise(h) \/ AddFindWorkspace(h)
         \/ AddCheckExisting(h) \/ AddCount(h) \/ Enter(h) \/ SaveDecision(h)
         \/ TargetRead(h) \/ CountOwners(h) \/ Change(h) \/ Transfer(h) \/ SetOwner(h)
         \/ Reread(h) \/ (\E limit \in Limits : SaveWorkspace(h, limit))
         \/ HandlerEnds(h)
    BY <1>2 DEF Next
  <2> QED
    BY <2>1, CreateKeeps, BeginKeeps, BeginSettingsKeeps, BeginJoinKeeps, JoinCheckMemberKeeps,
       JoinCheckPendingKeeps, SaveRequestKeeps, RequestReadKeeps, AddAuthoriseKeeps,
       AddFindWorkspaceKeeps, AddCheckExistingKeeps, AddCountKeeps, EnterKeeps, SaveDecisionKeeps,
       TargetReadKeeps, CountOwnersKeeps, ChangeKeeps, TransferKeeps, SetOwnerKeeps, RereadKeeps,
       SaveWorkspaceKeeps, HandlerEndsKeeps
<1> QED BY <1>1, <1>2

LEMMA Invariance == Spec => []IInv
  BY InitKeeps, NextKeeps, PTL DEF Spec

\* The tables of the workspace keep their types, whatever the handlers of
\* WorkspaceMemberService and WorkspaceService do to each other: every role and every state of
\* a join request is one of its enumeration, and an id belongs to one row.
THEOREM TypeCorrect == Spec => []TypeOK
<1>1. IInv => TypeOK
  BY DEF IInv, RowsOK
<1> QED BY <1>1, Invariance, PTL

\* A workspace has an owner, a user of it one row, and the column of the owner names an owner,
\* through every order of addMember, updateRole, removeMember, transferOwner, join requests and
\* saves of the workspace, as long as no handler writes what it decided on rows that another
\* changed meanwhile, none fails between two writes, and no owner hands over to himself.
THEOREM SomebodyOwns == Spec => []Owned
<1>1. IInv => Owned
  BY DEF IInv
<1> QED BY <1>1, Invariance, PTL

=============================================================================
