----------------------- MODULE GroupMembership_proofs -----------------------
(***************************************************************************)
(* Proofs about GroupMembership, for any users, handlers and bounds.       *)
(*                                                                         *)
(* ParticipantIsMember needs the tables to have their types, and TypeOK    *)
(* needs to know what the handlers in flight carry: promoteToAdmin writes  *)
(* the row id it read, updateMemberRole the role it chose, disbandGroup    *)
(* the group row.  HandlersOK says so, and IInv is inductive.              *)
(*                                                                         *)
(* What holds while handlers of a kind do not overlap needs to know what a *)
(* handler has read and still sees: the rows of its actor and its target,  *)
(* the room, the pending request.  KInv says so, and IInv /\ KInv is       *)
(* inductive.                                                              *)
(***************************************************************************)
EXTENDS GroupMembership, FiniteSetTheorems, TLAPS

GroupRow ==
    [state : {"open", "dissolved", "gone"}, owner : Users \cup {None}, approval : BOOLEAN]

\* Sets of member rows, each a user with the id of the row.
RowSets == SUBSET (Users \X Nat)

Ops == {"idle", "add", "request", "approve", "reject", "accept", "decline", "invite",
        "transfer", "assign", "promote", "kick", "remove", "leave", "quit", "depart",
        "dissolve", "disband", "setting"}
Steps == {"idle", "authorised", "requesting", "entitled", "rejecting", "cleared",
          "answering", "inviting", "committing", "succeeding", "choosing", "departing",
          "reading", "removing"}

\* All that a handler may carry.
HandlerRecord ==
    [op : Ops, step : Steps, actor : Users \cup {None}, actorRole : Roles, actorRow : Nat,
     target : Users \cup {None}, targetRow : Nat, newRole : {"none", "member", "co_admin"},
     exitRow : Nat, doc : Requests \cup Invites \cup {None}, group : GroupRow,
     last : BOOLEAN, found : RowSets]

\* A handler about to commit has read the row of its target, and knows the role to give.
Prepared(r) ==
    r.step = "committing" => /\ r.targetRow # 0
                             /\ r.op = "assign" => r.newRole # "none"

HandlersOK ==
    /\ handler \in [Handlers -> HandlerRecord]
    /\ \A h \in Handlers : Prepared(handler[h])

IInv == TypeOK /\ HandlersOK /\ ParticipantIsMember

-----------------------------------------------------------------------------

LEMMA GoneIsGroupRow == Gone \in GroupRow
  BY DEF Gone, GroupRow

LEMMA NoRows == {} \in RowSets
  BY DEF RowSets

LEMMA IdleIsRecord == Idle \in HandlerRecord /\ Prepared(Idle)
<1>1. Idle \in HandlerRecord
  BY GoneIsGroupRow, NoRows DEF Idle, HandlerRecord, Roles, Ops, Steps
<1>2. Prepared(Idle)
  BY DEF Idle, Prepared
<1> QED BY <1>1, <1>2

LEMMA StartingIsRecord ==
    ASSUME NEW op \in Ops
    PROVE  Starting(op) \in HandlerRecord /\ Starting(op).step = "authorised"
<1>1. ASSUME NEW s \in HandlerRecord, NEW d, d = [s EXCEPT !.op = op, !.step = "authorised"]
      PROVE  d \in HandlerRecord /\ d.step = "authorised"
  <2>1. "authorised" \in Steps
    BY DEF Steps
  <2>2. d \in HandlerRecord
    BY <1>1, <2>1 DEF HandlerRecord
  <2>3. d.step = "authorised"
    BY <1>1 DEF HandlerRecord
  <2> QED BY <2>2, <2>3
<1> QED BY <1>1, IdleIsRecord DEF Starting

LEMMA DepartingIsRecord ==
    ASSUME NEW u \in Users \cup {None}, NEW id \in Nat, NEW last \in BOOLEAN
    PROVE  Departing(u, id, last) \in HandlerRecord /\ Prepared(Departing(u, id, last))
<1>1. ASSUME NEW s \in HandlerRecord, NEW d,
             d = [s EXCEPT !.step = "departing", !.target = u, !.exitRow = id, !.last = last]
      PROVE  d \in HandlerRecord /\ Prepared(d)
  <2>1. d \in HandlerRecord
    BY <1>1 DEF HandlerRecord, Ops, Steps
  <2>2. d.step = "departing"
    BY <1>1 DEF HandlerRecord
  <2> QED BY <2>1, <2>2 DEF Prepared
<1>2. Starting("depart") \in HandlerRecord
  BY StartingIsRecord DEF Ops
<1> QED BY <1>1, <1>2 DEF Departing

LEMMA KindsAreKinds ==
    \A op : Kinds(op) \subseteq {"entry", "moderation", "decision"}
  BY DEF Kinds

-----------------------------------------------------------------------------
(* The handlers stay in order when one of them is replaced by a good record. *)

LEMMA HandlerReplaced ==
    ASSUME HandlersOK, NEW h \in Handlers, NEW r \in HandlerRecord, Prepared(r),
           handler' = [handler EXCEPT ![h] = r]
    PROVE  HandlersOK'
  BY DEF HandlersOK, Prepared

LEMMA CheckKeeps ==
    ASSUME IInv, NEW h \in Handlers, NEW r \in HandlerRecord, Prepared(r), Check(h, r)
    PROVE  IInv'
  <1>1. HandlersOK'
    BY HandlerReplaced DEF Check, IInv
  <1>2. TypeOK'
    BY DEF IInv, TypeOK, Check, tables, HandlersOK
  <1>3. ParticipantIsMember'
    BY DEF IInv, ParticipantIsMember, Check, tables, Members
  <1> QED BY <1>1, <1>2, <1>3 DEF IInv

LEMMA BeginKeeps ==
    ASSUME IInv, NEW h \in Handlers, NEW r \in HandlerRecord, Prepared(r), Begin(h, r)
    PROVE  IInv'
  <1>1. HandlersOK'
    BY HandlerReplaced DEF Begin, IInv
  <1>2. raced' \subseteq {"entry", "moderation", "decision"}
    BY KindsAreKinds DEF IInv, TypeOK, Begin
  <1>3. starts' \in 0 .. MaxStarts
    BY GroupAssumption DEF IInv, TypeOK, Begin
  <1>4. TypeOK'
    BY <1>2, <1>3, <1>1 DEF IInv, TypeOK, Begin, tables, HandlersOK
  <1>5. ParticipantIsMember'
    BY DEF IInv, ParticipantIsMember, Begin, tables, Members
  <1> QED BY <1>1, <1>4, <1>5 DEF IInv

-----------------------------------------------------------------------------
(* The records of handlers that start, and of handlers that read on. *)

\* A member row has an id other than 0.
LEMMA RowHasId ==
    ASSUME IInv, NEW u \in Members
    PROVE  u \in Users /\ rowId[u] \in Nat \ {0}
  BY DEF IInv, TypeOK, Members

LEMMA UserOfDocument ==
    ASSUME IInv
    PROVE  /\ \A q \in Requests : request[q].user \in Users \cup {None}
           /\ \A i \in Invites : invite[i].user \in Users \cup {None}
  BY DEF IInv, TypeOK, Documents

\* What BeginKeeps asks of a record that differs from Starting(op) in some fields.
LEMMA StartedFor ==
    ASSUME IInv, NEW h \in Handlers, NEW op \in Ops,
           NEW u \in Users \cup {None}, NEW step \in Steps, step # "committing",
           Begin(h, [Starting(op) EXCEPT !.step = step, !.target = u])
    PROVE  IInv'
<1>1. ASSUME NEW s \in HandlerRecord, s.step = "authorised", NEW d,
             d = [s EXCEPT !.step = step, !.target = u]
      PROVE  d \in HandlerRecord /\ Prepared(d)
  <2>1. d \in HandlerRecord
    BY <1>1 DEF HandlerRecord, Steps
  <2>2. d.step = step
    BY <1>1 DEF HandlerRecord
  <2> QED BY <2>1, <2>2 DEF Prepared
<1> QED BY <1>1, StartingIsRecord, BeginKeeps

LEMMA StartedOn ==
    ASSUME IInv, NEW h \in Handlers, NEW op \in Ops,
           NEW doc \in Requests \cup Invites,
           Begin(h, [Starting(op) EXCEPT !.doc = doc])
    PROVE  IInv'
<1>1. ASSUME NEW s \in HandlerRecord, s.step = "authorised", NEW d,
             d = [s EXCEPT !.doc = doc]
      PROVE  d \in HandlerRecord /\ Prepared(d)
  <2>1. d \in HandlerRecord
    BY <1>1 DEF HandlerRecord, Steps
  <2>2. d.step = "authorised"
    BY <1>1 DEF HandlerRecord
  <2> QED BY <2>1, <2>2 DEF Prepared
<1> QED BY <1>1, StartingIsRecord, BeginKeeps

LEMMA StartedForOn ==
    ASSUME IInv, NEW h \in Handlers, NEW op \in Ops,
           NEW u \in Users \cup {None}, NEW step \in Steps, step # "committing",
           NEW doc \in Requests \cup Invites,
           Begin(h, [Starting(op) EXCEPT !.step = step, !.doc = doc, !.target = u])
    PROVE  IInv'
<1>1. ASSUME NEW s \in HandlerRecord, s.step = "authorised", NEW d,
             d = [s EXCEPT !.step = step, !.doc = doc, !.target = u]
      PROVE  d \in HandlerRecord /\ Prepared(d)
  <2>1. d \in HandlerRecord
    BY <1>1 DEF HandlerRecord, Steps
  <2>2. d.step = step
    BY <1>1 DEF HandlerRecord
  <2> QED BY <2>1, <2>2 DEF Prepared
<1> QED BY <1>1, StartingIsRecord, BeginKeeps

LEMMA StartedAnswer ==
    ASSUME IInv, NEW h \in Handlers, NEW op \in Ops,
           NEW step \in Steps, step # "committing", NEW doc \in Requests \cup Invites,
           Begin(h, [Starting(op) EXCEPT !.step = step, !.doc = doc])
    PROVE  IInv'
<1>1. ASSUME NEW s \in HandlerRecord, s.step = "authorised", NEW d,
             d = [s EXCEPT !.step = step, !.doc = doc]
      PROVE  d \in HandlerRecord /\ Prepared(d)
  <2>1. d \in HandlerRecord
    BY <1>1 DEF HandlerRecord, Steps
  <2>2. d.step = step
    BY <1>1 DEF HandlerRecord
  <2> QED BY <2>1, <2>2 DEF Prepared
<1> QED BY <1>1, StartingIsRecord, BeginKeeps

LEMMA StartedTransfer ==
    ASSUME IInv, NEW h \in Handlers, NEW op \in Ops,
           NEW a \in Users \cup {None}, NEW id \in Nat, NEW u \in Users \cup {None},
           Begin(h, [Starting(op) EXCEPT !.actor = a, !.actorRow = id, !.target = u])
    PROVE  IInv'
<1>1. ASSUME NEW s \in HandlerRecord, s.step = "authorised", NEW d,
             d = [s EXCEPT !.actor = a, !.actorRow = id, !.target = u]
      PROVE  d \in HandlerRecord /\ Prepared(d)
  <2>1. d \in HandlerRecord
    BY <1>1 DEF HandlerRecord, Steps
  <2>2. d.step = "authorised"
    BY <1>1 DEF HandlerRecord
  <2> QED BY <2>1, <2>2 DEF Prepared
<1> QED BY <1>1, StartingIsRecord, BeginKeeps

LEMMA StartedRemoval ==
    ASSUME IInv, NEW h \in Handlers, NEW op \in Ops,
           NEW r \in Roles, NEW u \in Users \cup {None},
           Begin(h, [Starting(op) EXCEPT !.actorRole = r, !.target = u])
    PROVE  IInv'
<1>1. ASSUME NEW s \in HandlerRecord, s.step = "authorised", NEW d,
             d = [s EXCEPT !.actorRole = r, !.target = u]
      PROVE  d \in HandlerRecord /\ Prepared(d)
  <2>1. d \in HandlerRecord
    BY <1>1 DEF HandlerRecord, Steps
  <2>2. d.step = "authorised"
    BY <1>1 DEF HandlerRecord
  <2> QED BY <2>1, <2>2 DEF Prepared
<1> QED BY <1>1, StartingIsRecord, BeginKeeps

LEMMA StartedAt ==
    ASSUME IInv, NEW h \in Handlers, NEW op \in Ops,
           NEW u \in Users \cup {None},
           Begin(h, [Starting(op) EXCEPT !.target = u])
    PROVE  IInv'
<1>1. ASSUME NEW s \in HandlerRecord, s.step = "authorised", NEW d,
             d = [s EXCEPT !.target = u]
      PROVE  d \in HandlerRecord /\ Prepared(d)
  <2>1. d \in HandlerRecord
    BY <1>1 DEF HandlerRecord, Steps
  <2>2. d.step = "authorised"
    BY <1>1 DEF HandlerRecord
  <2> QED BY <2>1, <2>2 DEF Prepared
<1> QED BY <1>1, StartingIsRecord, BeginKeeps

LEMMA StartedLeave ==
    ASSUME IInv, NEW h \in Handlers, NEW op \in Ops,
           NEW a \in Users \cup {None}, NEW id \in Nat, NEW r \in Roles,
           Begin(h, [Starting(op) EXCEPT !.actor = a, !.exitRow = id, !.actorRole = r])
    PROVE  IInv'
<1>1. ASSUME NEW s \in HandlerRecord, s.step = "authorised", NEW d,
             d = [s EXCEPT !.actor = a, !.exitRow = id, !.actorRole = r]
      PROVE  d \in HandlerRecord /\ Prepared(d)
  <2>1. d \in HandlerRecord
    BY <1>1 DEF HandlerRecord, Steps
  <2>2. d.step = "authorised"
    BY <1>1 DEF HandlerRecord
  <2> QED BY <2>1, <2>2 DEF Prepared
<1> QED BY <1>1, StartingIsRecord, BeginKeeps

LEMMA StartedDisband ==
    ASSUME IInv, NEW h \in Handlers, NEW op \in Ops,
           NEW g \in GroupRow,
           Begin(h, [Starting(op) EXCEPT !.group = g])
    PROVE  IInv'
<1>1. ASSUME NEW s \in HandlerRecord, s.step = "authorised", NEW d,
             d = [s EXCEPT !.group = g]
      PROVE  d \in HandlerRecord /\ Prepared(d)
  <2>1. d \in HandlerRecord
    BY <1>1 DEF HandlerRecord, Steps
  <2>2. d.step = "authorised"
    BY <1>1 DEF HandlerRecord
  <2> QED BY <2>1, <2>2 DEF Prepared
<1> QED BY <1>1, StartingIsRecord, BeginKeeps

\* What CheckKeeps asks of a record that differs from the handler in some fields.
LEMMA ReadsOn ==
    ASSUME IInv, NEW h \in Handlers, NEW step \in Steps, step # "committing",
           Check(h, [handler[h] EXCEPT !.step = step])
    PROVE  IInv'
<1>1. ASSUME NEW s \in HandlerRecord, NEW d, d = [s EXCEPT !.step = step]
      PROVE  d \in HandlerRecord /\ Prepared(d)
  <2>1. d \in HandlerRecord
    BY <1>1 DEF HandlerRecord
  <2>2. d.step = step
    BY <1>1 DEF HandlerRecord
  <2> QED BY <2>1, <2>2 DEF Prepared
<1>2. handler[h] \in HandlerRecord
  BY DEF IInv, HandlersOK
<1> QED BY <1>1, <1>2, CheckKeeps

LEMMA ReadsTarget ==
    ASSUME IInv, NEW h \in Handlers, NEW u \in Users \cup {None}, NEW step \in Steps, step # "committing",
           Check(h, [handler[h] EXCEPT !.target = u, !.step = step])
    PROVE  IInv'
<1>1. ASSUME NEW s \in HandlerRecord, NEW d, d = [s EXCEPT !.target = u, !.step = step]
      PROVE  d \in HandlerRecord /\ Prepared(d)
  <2>1. d \in HandlerRecord
    BY <1>1 DEF HandlerRecord
  <2>2. d.step = step
    BY <1>1 DEF HandlerRecord
  <2> QED BY <2>1, <2>2 DEF Prepared
<1>2. handler[h] \in HandlerRecord
  BY DEF IInv, HandlersOK
<1> QED BY <1>1, <1>2, CheckKeeps

LEMMA ReadsActorRow ==
    ASSUME IInv, NEW h \in Handlers, NEW id \in Nat, NEW step \in Steps, step # "committing",
           Check(h, [handler[h] EXCEPT !.actorRow = id, !.step = step])
    PROVE  IInv'
<1>1. ASSUME NEW s \in HandlerRecord, NEW d, d = [s EXCEPT !.actorRow = id, !.step = step]
      PROVE  d \in HandlerRecord /\ Prepared(d)
  <2>1. d \in HandlerRecord
    BY <1>1 DEF HandlerRecord
  <2>2. d.step = step
    BY <1>1 DEF HandlerRecord
  <2> QED BY <2>1, <2>2 DEF Prepared
<1>2. handler[h] \in HandlerRecord
  BY DEF IInv, HandlersOK
<1> QED BY <1>1, <1>2, CheckKeeps

LEMMA ReadsMembers ==
    ASSUME IInv, NEW h \in Handlers, NEW rs \in RowSets, NEW step \in Steps, step # "committing",
           Check(h, [handler[h] EXCEPT !.found = rs, !.step = step])
    PROVE  IInv'
<1>1. ASSUME NEW s \in HandlerRecord, NEW d, d = [s EXCEPT !.found = rs, !.step = step]
      PROVE  d \in HandlerRecord /\ Prepared(d)
  <2>1. d \in HandlerRecord
    BY <1>1 DEF HandlerRecord
  <2>2. d.step = step
    BY <1>1 DEF HandlerRecord
  <2> QED BY <2>1, <2>2 DEF Prepared
<1>2. handler[h] \in HandlerRecord
  BY DEF IInv, HandlersOK
<1> QED BY <1>1, <1>2, CheckKeeps

LEMMA ReadsTargetRow ==
    ASSUME IInv, NEW h \in Handlers, NEW id \in Nat \ {0}, handler[h].op # "assign",
           Check(h, [handler[h] EXCEPT !.targetRow = id, !.step = "committing"])
    PROVE  IInv'
<1>1. ASSUME NEW s \in HandlerRecord, s.op # "assign", NEW d,
             d = [s EXCEPT !.targetRow = id, !.step = "committing"]
      PROVE  d \in HandlerRecord /\ Prepared(d)
  <2>1. d \in HandlerRecord
    BY <1>1 DEF HandlerRecord, Steps
  <2>2. d.targetRow = id /\ d.op = s.op
    BY <1>1 DEF HandlerRecord
  <2> QED BY <2>1, <2>2, <1>1 DEF Prepared
<1>2. handler[h] \in HandlerRecord
  BY DEF IInv, HandlersOK
<1> QED BY <1>1, <1>2, CheckKeeps

LEMMA ReadsForRole ==
    ASSUME IInv, NEW h \in Handlers, NEW id \in Nat \ {0}, NEW r \in {"member", "co_admin"},
           Check(h, [handler[h] EXCEPT !.targetRow = id, !.newRole = r,
                                     !.step = "committing"])
    PROVE  IInv'
<1>1. ASSUME NEW s \in HandlerRecord, NEW d,
             d = [s EXCEPT !.targetRow = id, !.newRole = r,
                         !.step = "committing"]
      PROVE  d \in HandlerRecord /\ Prepared(d)
  <2>1. d \in HandlerRecord
    BY <1>1 DEF HandlerRecord, Steps
  <2>2. d.targetRow = id /\ d.newRole = r
    BY <1>1 DEF HandlerRecord
  <2> QED BY <2>1, <2>2, <1>1 DEF Prepared
<1>2. handler[h] \in HandlerRecord
  BY DEF IInv, HandlersOK
<1> QED BY <1>1, <1>2, CheckKeeps

-----------------------------------------------------------------------------
(* The steps that only read. *)

LEMMA StartsKeep ==
    ASSUME IInv, NEW h \in Handlers,
           \/ \E a, u \in Users : Add(h, a, u) \/ Invite(h, a, u)
           \/ \E u \in Users : Join(h, u)
           \/ \E op \in {"approve", "reject"}, a \in Users, q \in Requests : Decide(h, op, a, q)
           \/ \E i \in Invites : AcceptRead(h, i) \/ DeclineRead(h, i)
           \/ \E op \in {"transfer", "assign", "promote", "kick", "remove"}, a, u \in Users :
                 Moderate(h, op, a, u)
           \/ \E op \in {"leave", "quit"}, a \in Users : Leave(h, op, a)
           \/ \E op \in {"dissolve", "disband"}, a \in Users : End(h, op, a)
           \/ \E a \in Users : SetApproval(h, a)
    PROVE  IInv'
<1>1. ASSUME NEW a \in Users, NEW u \in Users, Add(h, a, u) PROVE IInv'
  BY <1>1, StartedFor DEF Add, Ops, Steps
<1>2. ASSUME NEW a \in Users, NEW u \in Users, Invite(h, a, u) PROVE IInv'
  BY <1>2, StartedFor DEF Invite, Ops, Steps
<1>3. ASSUME NEW u \in Users, Join(h, u) PROVE IInv'
  BY <1>3, StartedFor DEF Join, Ops, Steps
<1>4. ASSUME NEW op \in {"approve", "reject"}, NEW a \in Users, NEW q \in Requests,
             Decide(h, op, a, q)
      PROVE  IInv'
  BY <1>4, StartedOn DEF Decide, Ops
<1>5. ASSUME NEW i \in Invites, AcceptRead(h, i) PROVE IInv'
  <2>1. "accept" \in Ops /\ "entitled" \in Steps
    BY DEF Ops, Steps
  <2>2. ASSUME NEW u, u = invite[i].user
        PROVE  /\ u \in Users \cup {None}
               /\ Begin(h, [Starting("accept") EXCEPT !.step = "entitled", !.doc = i,
                                                    !.target = u])
    BY <1>5, <2>2, UserOfDocument DEF AcceptRead
  <2> QED BY <2>1, <2>2, StartedForOn
<1>6. ASSUME NEW i \in Invites, DeclineRead(h, i) PROVE IInv'
  BY <1>6, StartedAnswer DEF DeclineRead, Ops, Steps
<1>7. ASSUME NEW op \in {"transfer", "assign", "promote", "kick", "remove"},
             NEW a \in Users, NEW u \in Users, Moderate(h, op, a, u)
      PROVE  IInv'
  <2>1. rowId[a] \in Nat /\ role[a] \in Roles /\ op \in Ops
    BY DEF IInv, TypeOK, Ops
  <2>2. CASE op = "transfer"
    BY <2>1, <2>2, <1>7, StartedTransfer DEF Moderate
  <2>3. CASE op \in {"kick", "remove"}
    BY <2>1, <2>3, <1>7, StartedRemoval DEF Moderate
  <2>4. CASE op \in {"assign", "promote"}
    BY <2>1, <2>4, <1>7, StartedAt DEF Moderate
  <2> QED BY <2>2, <2>3, <2>4
<1>8. ASSUME NEW op \in {"leave", "quit"}, NEW a \in Users, Leave(h, op, a) PROVE IInv'
  <2>1. rowId[a] \in Nat /\ role[a] \in Roles /\ op \in Ops
    BY DEF IInv, TypeOK, Ops
  <2> QED BY <2>1, <1>8, StartedLeave DEF Leave
<1>9. ASSUME NEW op \in {"dissolve", "disband"}, NEW a \in Users, End(h, op, a) PROVE IInv'
  <2>1. group \in GroupRow /\ op \in Ops
    BY DEF IInv, TypeOK, GroupRow, Ops
  <2>2. Starting(op) \in HandlerRecord /\ Prepared(Starting(op))
    BY <2>1, StartingIsRecord DEF Prepared
  <2>3. CASE op = "disband"
    BY <2>1, <2>3, <1>9, StartedDisband DEF End
  <2>4. CASE op = "dissolve"
    BY <2>2, <2>4, <1>9, BeginKeeps DEF End
  <2> QED BY <2>3, <2>4
<1>10. ASSUME NEW a \in Users, SetApproval(h, a) PROVE IInv'
  <2>1. Starting("setting") \in HandlerRecord /\ Prepared(Starting("setting"))
    BY StartingIsRecord DEF Prepared, Ops
  <2> QED BY <2>1, <1>10, BeginKeeps DEF SetApproval
<1> QED BY <1>1, <1>2, <1>3, <1>4, <1>5, <1>6, <1>7, <1>8, <1>9, <1>10

LEMMA ReadsKeep ==
    ASSUME IInv, NEW h \in Handlers,
           \/ \E q \in Requests : RequestRead(h, q)
           \/ CapacityCheck(h) \/ AcceptExisting(h) \/ TargetRead(h)
           \/ \E r \in {"member", "co_admin"} : AssignRead(h, r)
           \/ LeaveRead(h) \/ QuitRead(h) \/ QuitAuthorise(h) \/ QuitTarget(h)
           \/ DisbandRead(h)
    PROVE  IInv'
<1>a. handler[h] \in HandlerRecord
  BY DEF IInv, HandlersOK
<1>b. /\ handler[h].actor \in Users \cup {None} /\ handler[h].exitRow \in Nat
      /\ handler[h].target \in Users \cup {None}
  BY <1>a DEF HandlerRecord
<1>1. ASSUME NEW q \in Requests, RequestRead(h, q) PROVE IInv'
  <2>1. request[q].user \in Users \cup {None}
    BY UserOfDocument
  <2>2. CASE handler[h].op = "approve"
    BY <2>1, <2>2, <1>1, ReadsTarget DEF RequestRead, Steps
  <2>3. CASE handler[h].op # "approve"
    BY <2>1, <2>3, <1>1, ReadsTarget DEF RequestRead, Steps
  <2> QED BY <2>2, <2>3
<1>2. ASSUME CapacityCheck(h) PROVE IInv'
  BY <1>2, ReadsOn DEF CapacityCheck, Steps
<1>3. ASSUME AcceptExisting(h) PROVE IInv'
  BY <1>3, ReadsOn DEF AcceptExisting, Steps
<1>4. ASSUME TargetRead(h) PROVE IInv'
  <2> DEFINE u == handler[h].target
  <2>1. u \in Members /\ At(h, {"transfer", "promote", "kick", "remove"}, "authorised")
    BY <1>4 DEF TargetRead
  <2>2. u \in Users /\ rowId[u] \in Nat \ {0}
    BY <2>1, RowHasId
  <2>3. CASE handler[h].op \in {"kick", "remove"}
    <3>1. Check(h, Departing(u, rowId[u], FALSE))
      BY <2>3, <1>4 DEF TargetRead
    <3> QED BY <3>1, <2>2, DepartingIsRecord, CheckKeeps
  <2>4. CASE handler[h].op \notin {"kick", "remove"}
    <3>1. handler[h].op # "assign"
      BY <2>1 DEF At
    <3> QED BY <3>1, <2>2, <2>4, <1>4, ReadsTargetRow DEF TargetRead
  <2> QED BY <2>3, <2>4
<1>5. ASSUME NEW r \in {"member", "co_admin"}, AssignRead(h, r) PROVE IInv'
  <2>1. handler[h].target \in Members
    BY <1>5 DEF AssignRead
  <2>2. rowId[handler[h].target] \in Nat \ {0}
    BY <2>1, RowHasId
  <2> QED BY <2>2, <1>5, ReadsForRole DEF AssignRead
<1>6. ASSUME LeaveRead(h) PROVE IInv'
  BY <1>6, <1>b, DepartingIsRecord, CheckKeeps DEF LeaveRead
<1>7. ASSUME QuitRead(h) PROVE IInv'
  <2> DEFINE remaining == Members \ {handler[h].actor}
  <2>1. CASE remaining # {} /\ handler[h].actorRole = "owner"
    <3>1. PICK u \in remaining :
            Check(h, [handler[h] EXCEPT !.target = u, !.step = "succeeding"])
      BY <2>1, <1>7 DEF QuitRead
    <3>2. u \in Users
      BY DEF Members
    <3> QED BY <3>1, <3>2, ReadsTarget DEF Steps
  <2>2. CASE ~ (remaining # {} /\ handler[h].actorRole = "owner")
    <3>1. Check(h, Departing(handler[h].actor, handler[h].exitRow, remaining = {}))
      BY <2>2, <1>7 DEF QuitRead
    <3>2. (remaining = {}) \in BOOLEAN
      OBVIOUS
    <3> HIDE DEF remaining
    <3> QED BY <3>1, <3>2, <1>b, DepartingIsRecord, CheckKeeps
  <2> QED BY <2>1, <2>2
<1>8. ASSUME QuitAuthorise(h) PROVE IInv'
  <2>1. handler[h].actor \in Users
    BY <1>8 DEF QuitAuthorise, Owners
  <2>2. rowId[handler[h].actor] \in Nat
    BY <2>1 DEF IInv, TypeOK
  <2> QED BY <2>2, <1>8, ReadsActorRow DEF QuitAuthorise, Steps
<1>9. ASSUME QuitTarget(h) PROVE IInv'
  <2>1. handler[h].target \in Members /\ handler[h].op # "assign"
    BY <1>9 DEF QuitTarget, At
  <2>2. rowId[handler[h].target] \in Nat \ {0}
    BY <2>1, RowHasId
  <2> QED BY <2>1, <2>2, <1>9, ReadsTargetRow DEF QuitTarget
<1>10. ASSUME DisbandRead(h) PROVE IInv'
  <2>1. {<<u, rowId[u]>> : u \in Members} \in RowSets
    BY RowHasId DEF RowSets
  <2> QED BY <2>1, <1>10, ReadsMembers DEF DisbandRead, Steps
<1> QED BY <1>1, <1>2, <1>3, <1>4, <1>5, <1>6, <1>7, <1>8, <1>9, <1>10

-----------------------------------------------------------------------------
(* The steps that write.  TypeOK in parts, so that a step shows what it changes. *)

GroupOK == group \in GroupRow

MembersOK ==
    /\ role \in [Users -> Roles]
    /\ rowId \in [Users -> Nat] /\ rows \in [Users -> Nat]
    /\ \A u \in Users : rowId[u] # 0 <=> role[u] # "none"
    /\ part \in [Users -> {"none", "member", "admin"}]

DocumentsOK == request \in Documents(Requests) /\ invite \in Documents(Invites)

HistoryOK ==
    starts \in 0 .. MaxStarts /\ raced \subseteq {"entry", "moderation", "decision"}

LEMMA TypeParts ==
    ASSUME TypeOK
    PROVE  MembersOK /\ DocumentsOK /\ GroupOK /\ HistoryOK
  BY DEF TypeOK, MembersOK, DocumentsOK, GroupOK, HistoryOK, GroupRow

LEMMA IInvFromParts ==
    ASSUME HandlersOK', MembersOK', DocumentsOK', GroupOK' /\ HistoryOK', ParticipantIsMember'
    PROVE  IInv'
<1>1. DOMAIN handler' = Handlers
  BY DEF HandlersOK
<1> QED BY <1>1 DEF IInv, TypeOK, MembersOK, DocumentsOK, GroupOK, HistoryOK, GroupRow

\* Filing and answering keep a table of requests or invites well-formed.
LEMMA DocumentFiled ==
    ASSUME NEW ids, NEW f \in Documents(ids), NEW d, NEW u \in Users \cup {None}
    PROVE  [f EXCEPT ![d] = [user |-> u, status |-> "pending"]] \in Documents(ids)
  BY DEF Documents

LEMMA DocumentAnswered ==
    ASSUME NEW ids, NEW f \in Documents(ids), NEW d,
           NEW st \in {"approved", "rejected", "accepted", "declined"}
    PROVE  [f EXCEPT ![d].status = st] \in Documents(ids)
<1>1. CASE d \in ids
  <2>1. f[d] \in [user : Users \cup {None},
                 status : {"none", "pending", "approved", "rejected", "accepted", "declined"}]
    BY <1>1 DEF Documents
  <2> DEFINE e == [f[d] EXCEPT !.status = st]
  <2>2. e \in [user : Users \cup {None},
               status : {"none", "pending", "approved", "rejected", "accepted", "declined"}]
    BY <2>1
  <2>3. [f EXCEPT ![d].status = st] = [f EXCEPT ![d] = e]
    OBVIOUS
  <2> HIDE DEF e
  <2> QED BY <1>1, <2>2, <2>3 DEF Documents
<1>2. CASE d \notin ids
  BY <1>2 DEF Documents
<1> QED BY <1>1, <1>2

\* A change of one row by its id, point by point.
LEMMA RowChanged ==
    ASSUME NEW S, NEW f \in [Users -> S], NEW u, NEW id, NEW r \in S
    PROVE  /\ WithRole(f, u, id, r) \in [Users -> S]
           /\ \A v \in Users :
                WithRole(f, u, id, r)[v] = IF v = u /\ SameRow(u, id) THEN r ELSE f[v]
  BY DEF WithRole

LEMMA PartChanged ==
    ASSUME NEW f \in [Users -> {"none", "member", "admin"}], NEW u, NEW r \in {"member", "admin"}
    PROVE  /\ WithPart(f, u, r) \in [Users -> {"none", "member", "admin"}]
           /\ \A v \in Users :
                WithPart(f, u, r)[v] = IF v = u /\ part[u] # "none" THEN r ELSE f[v]
  BY DEF WithPart

LEMMA RolesAre == {"none", "member", "co_admin", "owner"} = Roles
  BY DEF Roles

\* The row of a newcomer has a number nobody used, and is not 0.
LEMMA MemberInserted ==
    ASSUME MembersOK, NEW u, InsertMember(u), part' \in [Users -> {"none", "member", "admin"}]
    PROVE  MembersOK'
<1>1. CASE u \in Users
  <2>1. rows[u] + 1 \in Nat \ {0}
    BY <1>1 DEF MembersOK
  <2>2. /\ role' \in [Users -> Roles] /\ rowId' \in [Users -> Nat] /\ rows' \in [Users -> Nat]
        /\ \A v \in Users : role'[v] = IF v = u THEN "member" ELSE role[v]
        /\ \A v \in Users : rowId'[v] = IF v = u THEN rows[u] + 1 ELSE rowId[v]
    BY <1>1, <2>1, RolesAre DEF MembersOK, InsertMember
  <2> QED BY <2>1, <2>2 DEF MembersOK
<1>2. CASE u \notin Users
  <2>1. role' = role /\ rowId' = rowId /\ rows' = rows
    BY <1>2 DEF MembersOK, InsertMember
  <2> QED BY <2>1 DEF MembersOK
<1> QED BY <1>1, <1>2

LEMMA FinishKeeps ==
    ASSUME HandlersOK, NEW h \in Handlers, Finish(h)
    PROVE  HandlersOK'
  BY IdleIsRecord, HandlerReplaced DEF Finish

LEMMA GotoKeeps ==
    ASSUME HandlersOK, NEW h \in Handlers, NEW step \in Steps, step # "committing",
           Goto(h, step)
    PROVE  HandlersOK'
<1>1. ASSUME NEW s \in HandlerRecord, NEW d, d = [s EXCEPT !.step = step]
      PROVE  d \in HandlerRecord /\ Prepared(d)
  <2>1. d \in HandlerRecord
    BY <1>1 DEF HandlerRecord
  <2>2. d.step = step
    BY <1>1 DEF HandlerRecord
  <2> QED BY <2>1, <2>2 DEF Prepared
<1>2. /\ handler[h] \in HandlerRecord
      /\ handler' = [handler EXCEPT ![h] = [handler[h] EXCEPT !.step = step]]
  BY DEF HandlersOK, Goto
<1> QED BY <1>1, <1>2, HandlerReplaced

\* What the record of a handler says about the values it carries.
LEMMA Carried ==
    ASSUME IInv, NEW h \in Handlers
    PROVE  /\ handler[h].target \in Users \cup {None} /\ handler[h].actor \in Users \cup {None}
           /\ handler[h].targetRow \in Nat /\ handler[h].exitRow \in Nat
           /\ handler[h].newRole \in {"none", "member", "co_admin"}
           /\ handler[h].group \in GroupRow
           /\ Prepared(handler[h])
<1>1. handler[h] \in HandlerRecord /\ Prepared(handler[h])
  BY DEF IInv, HandlersOK
<1> QED BY <1>1 DEF HandlerRecord

LEMMA ThrowsKeeps ==
    ASSUME IInv, NEW h \in Handlers, Throws(h)
    PROVE  IInv'
<1>0. MembersOK /\ DocumentsOK /\ GroupOK /\ HistoryOK
  BY TypeParts DEF IInv
<1>1. HandlersOK'
  BY FinishKeeps DEF Throws, IInv
<1>2. MembersOK'
  BY <1>0 DEF MembersOK, Throws, tables
<1>3. DocumentsOK'
  BY <1>0 DEF DocumentsOK, Throws, tables
<1>4. GroupOK' /\ HistoryOK'
  BY <1>0 DEF GroupOK, HistoryOK, Throws, tables
<1>5. ParticipantIsMember'
  BY DEF IInv, ParticipantIsMember, Members, Throws, tables
<1> QED BY <1>1, <1>2, <1>3, <1>4, <1>5, IInvFromParts

LEMMA SaveRequestKeeps ==
    ASSUME IInv, NEW h \in Handlers, NEW q \in Requests, SaveRequest(h, q)
    PROVE  IInv'
<1>0. MembersOK /\ DocumentsOK /\ GroupOK /\ HistoryOK
  BY TypeParts DEF IInv
<1>1. HandlersOK'
  BY FinishKeeps DEF SaveRequest, IInv
<1>2. MembersOK'
  BY <1>0 DEF MembersOK, SaveRequest
<1>3. DocumentsOK'
  BY <1>0, Carried, DocumentFiled DEF DocumentsOK, SaveRequest
<1>4. GroupOK' /\ HistoryOK'
  BY <1>0 DEF GroupOK, HistoryOK, SaveRequest
<1>5. ParticipantIsMember'
  BY DEF IInv, ParticipantIsMember, Members, SaveRequest
<1> QED BY <1>1, <1>2, <1>3, <1>4, <1>5, IInvFromParts

LEMMA SaveInviteKeeps ==
    ASSUME IInv, NEW h \in Handlers, NEW i \in Invites, SaveInvite(h, i)
    PROVE  IInv'
<1>0. MembersOK /\ DocumentsOK /\ GroupOK /\ HistoryOK
  BY TypeParts DEF IInv
<1>1. HandlersOK'
  BY FinishKeeps DEF SaveInvite, IInv
<1>2. MembersOK'
  BY <1>0 DEF MembersOK, SaveInvite
<1>3. DocumentsOK'
  BY <1>0, Carried, DocumentFiled DEF DocumentsOK, SaveInvite
<1>4. GroupOK' /\ HistoryOK'
  BY <1>0 DEF GroupOK, HistoryOK, SaveInvite
<1>5. ParticipantIsMember'
  BY DEF IInv, ParticipantIsMember, Members, SaveInvite
<1> QED BY <1>1, <1>2, <1>3, <1>4, <1>5, IInvFromParts

LEMMA RejectKeeps ==
    ASSUME IInv, NEW h \in Handlers, Reject(h)
    PROVE  IInv'
<1>0. MembersOK /\ DocumentsOK /\ GroupOK /\ HistoryOK
  BY TypeParts DEF IInv
<1>1. HandlersOK'
  BY FinishKeeps DEF Reject, IInv
<1>2. MembersOK'
  BY <1>0 DEF MembersOK, Reject
<1>3. DocumentsOK'
  BY <1>0, DocumentAnswered DEF DocumentsOK, Reject
<1>4. GroupOK' /\ HistoryOK'
  BY <1>0 DEF GroupOK, HistoryOK, Reject
<1>5. ParticipantIsMember'
  BY DEF IInv, ParticipantIsMember, Members, Reject
<1> QED BY <1>1, <1>2, <1>3, <1>4, <1>5, IInvFromParts

LEMMA AnswerKeeps ==
    ASSUME IInv, NEW h \in Handlers, Answer(h)
    PROVE  IInv'
<1>0. MembersOK /\ DocumentsOK /\ GroupOK /\ HistoryOK
  BY TypeParts DEF IInv
<1>1. HandlersOK'
  BY FinishKeeps DEF Answer, IInv
<1>2. MembersOK'
  BY <1>0 DEF MembersOK, Answer
<1>3. DocumentsOK'
  BY <1>0, DocumentAnswered DEF DocumentsOK, Answer
<1>4. GroupOK' /\ HistoryOK'
  BY <1>0 DEF GroupOK, HistoryOK, Answer
<1>5. ParticipantIsMember'
  BY DEF IInv, ParticipantIsMember, Members, Answer
<1> QED BY <1>1, <1>2, <1>3, <1>4, <1>5, IInvFromParts

LEMMA EnterKeeps ==
    ASSUME IInv, NEW h \in Handlers, Enter(h)
    PROVE  IInv'
<1>0. MembersOK /\ DocumentsOK /\ GroupOK /\ HistoryOK
  BY TypeParts DEF IInv
<1>1. HandlersOK'
  BY FinishKeeps DEF Enter, IInv
<1>2. MembersOK'
  <2>1. part' \in [Users -> {"none", "member", "admin"}]
    BY <1>0 DEF MembersOK, Enter
  <2> QED BY <1>0, <2>1, MemberInserted DEF Enter
<1>3. DocumentsOK'
  BY <1>0, DocumentAnswered DEF DocumentsOK, Enter, InsertMember
<1>4. GroupOK' /\ HistoryOK'
  BY <1>0 DEF GroupOK, HistoryOK, Enter, InsertMember
<1>5. ParticipantIsMember'
  BY <1>0 DEF IInv, ParticipantIsMember, Members, MembersOK, Enter, InsertMember
<1> QED BY <1>1, <1>2, <1>3, <1>4, <1>5, IInvFromParts

LEMMA AcceptInsertKeeps ==
    ASSUME IInv, NEW h \in Handlers, AcceptInsert(h)
    PROVE  IInv'
<1>0. MembersOK /\ DocumentsOK /\ GroupOK /\ HistoryOK
  BY TypeParts DEF IInv
<1>1. HandlersOK'
  BY GotoKeeps DEF AcceptInsert, IInv, Steps
<1>2. MembersOK'
  <2>1. part' \in [Users -> {"none", "member", "admin"}]
    BY <1>0 DEF MembersOK, AcceptInsert
  <2> QED BY <1>0, <2>1, MemberInserted DEF AcceptInsert
<1>3. DocumentsOK'
  BY <1>0 DEF DocumentsOK, AcceptInsert, InsertMember
<1>4. GroupOK' /\ HistoryOK'
  BY <1>0 DEF GroupOK, HistoryOK, AcceptInsert, InsertMember
<1>5. ParticipantIsMember'
  BY <1>0 DEF IInv, ParticipantIsMember, Members, MembersOK, AcceptInsert, InsertMember
<1> QED BY <1>1, <1>2, <1>3, <1>4, <1>5, IInvFromParts

\* What the commit of transferAdmin does to each row: a reader of one row at a time.
LEMMA HandoverRows ==
    ASSUME IInv, NEW h \in Handlers, Handover(h), NEW a, a = handler[h].actor,
           NEW u, u = handler[h].target
    PROVE  /\ role' \in [Users -> Roles] /\ part' \in [Users -> {"none", "member", "admin"}]
           /\ \A v \in Users :
                role'[v] = IF v = u /\ SameRow(u, handler[h].targetRow) THEN "owner"
                           ELSE IF v = a /\ SameRow(a, handler[h].actorRow) THEN "member"
                           ELSE role[v]
           /\ \A v \in Users :
                part'[v] = IF v = u /\ part[u] # "none" THEN "admin"
                           ELSE IF v = a /\ part[a] # "none" THEN "member" ELSE part[v]
<1> DEFINE f == WithRole(role, a, handler[h].actorRow, "member")
           p == WithPart(part, a, "member")
<1>1. MembersOK
  BY TypeParts DEF IInv
<1>2. /\ f \in [Users -> Roles]
      /\ \A v \in Users :
           f[v] = IF v = a /\ SameRow(a, handler[h].actorRow) THEN "member" ELSE role[v]
  <2> DEFINE m == "member"
             id == handler[h].actorRow
  <2>1. role \in [Users -> Roles] /\ m \in Roles /\ f = WithRole(role, a, id, m)
    BY <1>1, RolesAre DEF MembersOK
  <2> HIDE DEF m, id, f
  <2>2. /\ f \in [Users -> Roles]
        /\ \A v \in Users : f[v] = IF v = a /\ SameRow(a, id) THEN m ELSE role[v]
    BY <2>1, RowChanged
  <2> QED BY <2>2 DEF m, id
<1>3. /\ role' \in [Users -> Roles]
      /\ \A v \in Users :
           role'[v] = IF v = u /\ SameRow(u, handler[h].targetRow) THEN "owner" ELSE f[v]
  <2>1. role' = WithRole(f, u, handler[h].targetRow, "owner")
    BY DEF Handover
  <2> HIDE DEF f
  <2> QED BY <2>1, <1>2, RolesAre, RowChanged
<1>4. /\ p \in [Users -> {"none", "member", "admin"}]
      /\ \A v \in Users : p[v] = IF v = a /\ part[a] # "none" THEN "member" ELSE part[v]
  BY <1>1, PartChanged DEF MembersOK
<1>5. /\ part' \in [Users -> {"none", "member", "admin"}]
      /\ \A v \in Users : part'[v] = IF v = u /\ part[u] # "none" THEN "admin" ELSE p[v]
  <2>1. part' = WithPart(p, u, "admin")
    BY DEF Handover
  <2> HIDE DEF p
  <2> QED BY <2>1, <1>4, PartChanged
<1> QED BY <1>2, <1>3, <1>4, <1>5

\* The handler of leaveGroup goes on to leave, the one of transferAdmin is done.
LEMMA HandoverGoesOn ==
    ASSUME IInv, NEW h \in Handlers, Handover(h)
    PROVE  handler' = [handler EXCEPT ![h] =
                         IF handler[h].op = "quit"
                         THEN Departing(handler[h].actor, handler[h].exitRow, FALSE) ELSE Idle]
  BY DEF Handover, IInv, HandlersOK

LEMMA HandoverKeeps ==
    ASSUME IInv, NEW h \in Handlers, Handover(h)
    PROVE  IInv'
<1>0. MembersOK /\ DocumentsOK /\ GroupOK /\ HistoryOK
  BY TypeParts DEF IInv
<1>1. HandlersOK'
  <2>1. CASE handler[h].op = "quit"
    <3> DEFINE d == Departing(handler[h].actor, handler[h].exitRow, FALSE)
    <3>1. d \in HandlerRecord /\ Prepared(d)
      BY Carried, DepartingIsRecord
    <3>2. handler' = [handler EXCEPT ![h] = d]
      BY <2>1, HandoverGoesOn
    <3> HIDE DEF d
    <3> QED BY <3>1, <3>2, HandlerReplaced DEF IInv
  <2>2. CASE handler[h].op # "quit"
    BY <2>2, HandoverGoesOn, IdleIsRecord, HandlerReplaced DEF IInv
  <2> QED BY <2>1, <2>2
<1>2. /\ role' \in [Users -> Roles] /\ part' \in [Users -> {"none", "member", "admin"}]
      /\ \A v \in Users : role'[v] # "none" <=> role[v] # "none"
      /\ \A v \in Users : part'[v] # "none" => part[v] # "none"
  BY HandoverRows DEF SameRow
<1>3. MembersOK'
  BY <1>0, <1>2 DEF MembersOK, Handover
<1>4. DocumentsOK'
  BY <1>0 DEF DocumentsOK, Handover
<1>5. GroupOK' /\ HistoryOK'
  BY <1>0, Carried, GoneIsGroupRow DEF GroupOK, HistoryOK, Handover, GroupRow
<1>6. ParticipantIsMember'
  BY <1>2 DEF IInv, ParticipantIsMember, Members
<1> QED BY <1>1, <1>3, <1>4, <1>5, <1>6, IInvFromParts

LEMMA AssignRows ==
    ASSUME IInv, NEW h \in Handlers, Assign(h), NEW u, u = handler[h].target,
           NEW r, r = handler[h].newRole
    PROVE  /\ r \in {"member", "co_admin"}
           /\ role' \in [Users -> Roles] /\ part' \in [Users -> {"none", "member", "admin"}]
           /\ \A v \in Users :
                role'[v] = IF v = u /\ SameRow(u, handler[h].targetRow) THEN r ELSE role[v]
           /\ \A v \in Users :
                part'[v] = IF v = u /\ part[u] # "none"
                           THEN IF r = "member" THEN "member" ELSE "admin" ELSE part[v]
<1>0. MembersOK
  BY TypeParts DEF IInv
<1>1. r \in {"member", "co_admin"}
  BY Carried DEF Assign, At, Prepared
<1>2. role' = WithRole(role, u, handler[h].targetRow, r) /\ r \in Roles
  BY <1>1, RolesAre DEF Assign
<1> DEFINE w == IF r = "member" THEN "member" ELSE "admin"
<1>3. part' = WithPart(part, u, w) /\ w \in {"member", "admin"}
  BY DEF Assign
<1> HIDE DEF w
<1>4. /\ role' \in [Users -> Roles]
      /\ \A v \in Users :
           role'[v] = IF v = u /\ SameRow(u, handler[h].targetRow) THEN r ELSE role[v]
  <2> DEFINE id == handler[h].targetRow
  <2>1. role \in [Users -> Roles] /\ r \in Roles /\ role' = WithRole(role, u, id, r)
    BY <1>0, <1>2 DEF MembersOK
  <2> HIDE DEF id
  <2>2. /\ role' \in [Users -> Roles]
        /\ \A v \in Users : role'[v] = IF v = u /\ SameRow(u, id) THEN r ELSE role[v]
    BY <2>1, RowChanged
  <2> QED BY <2>2 DEF id
<1>5. /\ part' \in [Users -> {"none", "member", "admin"}]
      /\ \A v \in Users : part'[v] = IF v = u /\ part[u] # "none" THEN w ELSE part[v]
  BY <1>0, <1>3, PartChanged DEF MembersOK
<1> QED BY <1>1, <1>4, <1>5 DEF w

LEMMA AssignKeeps ==
    ASSUME IInv, NEW h \in Handlers, Assign(h)
    PROVE  IInv'
<1>0. MembersOK /\ DocumentsOK /\ GroupOK /\ HistoryOK
  BY TypeParts DEF IInv
<1>1. HandlersOK'
  BY FinishKeeps DEF Assign, IInv
<1>2. /\ role' \in [Users -> Roles] /\ part' \in [Users -> {"none", "member", "admin"}]
      /\ \A v \in Users : role'[v] # "none" <=> role[v] # "none"
      /\ \A v \in Users : part'[v] # "none" => part[v] # "none"
  BY AssignRows DEF SameRow
<1>3. MembersOK'
  BY <1>0, <1>2 DEF MembersOK, Assign
<1>4. DocumentsOK' /\ GroupOK' /\ HistoryOK'
  BY <1>0 DEF DocumentsOK, GroupOK, HistoryOK, Assign
<1>5. ParticipantIsMember'
  BY <1>2 DEF IInv, ParticipantIsMember, Members
<1> QED BY <1>1, <1>3, <1>4, <1>5, IInvFromParts

LEMMA PromoteKeeps ==
    ASSUME IInv, NEW h \in Handlers, Promote(h)
    PROVE  IInv'
<1>0. MembersOK /\ DocumentsOK /\ GroupOK /\ HistoryOK
  BY TypeParts DEF IInv
<1>a. handler[h].targetRow \in Nat \ {0}
  BY Carried DEF Prepared, Promote, At
<1>1. HandlersOK'
  BY FinishKeeps DEF Promote, IInv
<1>2. MembersOK'
  BY <1>0, <1>a DEF MembersOK, Roles, Promote
<1>3. DocumentsOK'
  BY <1>0 DEF DocumentsOK, Promote
<1>4. GroupOK' /\ HistoryOK'
  BY <1>0 DEF GroupOK, HistoryOK, Promote
<1>5. ParticipantIsMember'
  BY <1>0 DEF IInv, ParticipantIsMember, Members, MembersOK, Promote
<1> QED BY <1>1, <1>2, <1>3, <1>4, <1>5, IInvFromParts

LEMMA CascadeKeeps ==
    ASSUME IInv, HandlersOK', Cascade
    PROVE  IInv'
<1>0. MembersOK /\ DocumentsOK /\ GroupOK /\ HistoryOK
  BY TypeParts DEF IInv
<1>1. MembersOK'
  BY <1>0 DEF MembersOK, Cascade, Roles
<1>2. DocumentsOK'
  BY DEF DocumentsOK, Cascade, Documents
<1>3. GroupOK' /\ HistoryOK'
  BY <1>0, GoneIsGroupRow DEF GroupOK, HistoryOK, Cascade
<1>4. ParticipantIsMember'
  BY DEF Cascade, ParticipantIsMember, Members
<1> QED BY <1>1, <1>2, <1>3, <1>4, IInvFromParts

LEMMA DepartRows ==
    ASSUME IInv, NEW h \in Handlers, Depart(h), ~ handler[h].last,
           NEW u, u = handler[h].target, NEW id, id = handler[h].exitRow
    PROVE  /\ role' \in [Users -> Roles] /\ rowId' \in [Users -> Nat]
           /\ part' \in [Users -> {"none", "member", "admin"}]
           /\ \A v \in Users : role'[v] = IF v = u /\ SameRow(u, id) THEN "none" ELSE role[v]
           /\ \A v \in Users : rowId'[v] = IF v = u /\ SameRow(u, id) THEN 0 ELSE rowId[v]
           /\ \A v \in Users : part'[v] = IF v = u THEN "none" ELSE part[v]
           /\ UNCHANGED <<group, rows, request, invite, starts, raced>>
<1>0. MembersOK
  BY TypeParts DEF IInv
<1>1. /\ role' = WithRole(role, u, id, "none") /\ rowId' = WithRole(rowId, u, id, 0)
      /\ part' = [part EXCEPT ![u] = "none"]
      /\ UNCHANGED <<group, rows, request, invite, starts, raced>>
  BY DEF Depart, WithoutPart
<1>2. /\ role' \in [Users -> Roles]
      /\ \A v \in Users : role'[v] = IF v = u /\ SameRow(u, id) THEN "none" ELSE role[v]
  <2> DEFINE n == "none"
  <2>1. role \in [Users -> Roles] /\ n \in Roles /\ role' = WithRole(role, u, id, n)
    BY <1>0, <1>1, RolesAre DEF MembersOK
  <2> HIDE DEF n
  <2>2. /\ role' \in [Users -> Roles]
        /\ \A v \in Users : role'[v] = IF v = u /\ SameRow(u, id) THEN n ELSE role[v]
    BY <2>1, RowChanged
  <2> QED BY <2>2 DEF n
<1>3. /\ rowId' \in [Users -> Nat]
      /\ \A v \in Users : rowId'[v] = IF v = u /\ SameRow(u, id) THEN 0 ELSE rowId[v]
  BY <1>0, <1>1, RowChanged DEF MembersOK
<1>4. /\ part' \in [Users -> {"none", "member", "admin"}]
      /\ \A v \in Users : part'[v] = IF v = u THEN "none" ELSE part[v]
  BY <1>0, <1>1 DEF MembersOK
<1> QED BY <1>1, <1>2, <1>3, <1>4

LEMMA DepartKeeps ==
    ASSUME IInv, NEW h \in Handlers, Depart(h)
    PROVE  IInv'
<1>0. MembersOK /\ DocumentsOK /\ GroupOK /\ HistoryOK
  BY TypeParts DEF IInv
<1>1. HandlersOK'
  BY FinishKeeps DEF Depart, IInv
<1>2. CASE handler[h].last
  BY <1>1, <1>2, CascadeKeeps DEF Depart
<1>3. CASE ~ handler[h].last
  <2>1. MembersOK'
    BY <1>0, <1>3, DepartRows DEF MembersOK
  <2>2. DocumentsOK' /\ GroupOK' /\ HistoryOK'
    BY <1>0, <1>3, DepartRows DEF DocumentsOK, GroupOK, HistoryOK
  <2>3. ParticipantIsMember'
    BY <1>3, DepartRows DEF IInv, ParticipantIsMember, Members
  <2> QED BY <1>1, <2>1, <2>2, <2>3, IInvFromParts
<1> QED BY <1>2, <1>3

LEMMA DissolveKeeps ==
    ASSUME IInv, NEW h \in Handlers, Dissolve(h)
    PROVE  IInv'
  BY FinishKeeps, CascadeKeeps DEF Dissolve, IInv

LEMMA DisbandMarkKeeps ==
    ASSUME IInv, NEW h \in Handlers, DisbandMark(h)
    PROVE  IInv'
<1>0. MembersOK /\ DocumentsOK /\ GroupOK /\ HistoryOK
  BY TypeParts DEF IInv
<1>1. HandlersOK'
  BY GotoKeeps DEF DisbandMark, IInv, Steps
<1>2. MembersOK'
  BY <1>0 DEF MembersOK, DisbandMark
<1>3. DocumentsOK'
  BY <1>0 DEF DocumentsOK, DisbandMark
<1>4. GroupOK' /\ HistoryOK'
  BY <1>0, Carried DEF GroupOK, HistoryOK, GroupRow, DisbandMark
<1>5. ParticipantIsMember'
  BY DEF IInv, ParticipantIsMember, Members, DisbandMark
<1> QED BY <1>1, <1>2, <1>3, <1>4, <1>5, IInvFromParts

LEMMA DisbandRemoveKeeps ==
    ASSUME IInv, NEW h \in Handlers, DisbandRemove(h)
    PROVE  IInv'
<1>0. MembersOK /\ DocumentsOK /\ GroupOK /\ HistoryOK
  BY TypeParts DEF IInv
<1>1. HandlersOK'
  BY FinishKeeps DEF DisbandRemove, IInv
<1>2. MembersOK'
  BY <1>0 DEF MembersOK, Roles, DisbandRemove
<1>3. DocumentsOK'
  BY <1>0 DEF DocumentsOK, DisbandRemove
<1>4. GroupOK' /\ HistoryOK'
  BY <1>0 DEF GroupOK, HistoryOK, DisbandRemove
<1>5. ParticipantIsMember'
  BY DEF IInv, ParticipantIsMember, Members, DisbandRemove
<1> QED BY <1>1, <1>2, <1>3, <1>4, <1>5, IInvFromParts

LEMMA SaveApprovalKeeps ==
    ASSUME IInv, NEW h \in Handlers, NEW on \in BOOLEAN, SaveApproval(h, on)
    PROVE  IInv'
<1>0. MembersOK /\ DocumentsOK /\ GroupOK /\ HistoryOK
  BY TypeParts DEF IInv
<1>1. HandlersOK'
  BY FinishKeeps DEF SaveApproval, IInv
<1>2. MembersOK'
  BY <1>0 DEF MembersOK, SaveApproval
<1>3. DocumentsOK'
  BY <1>0 DEF DocumentsOK, SaveApproval
<1>4. GroupOK' /\ HistoryOK'
  BY <1>0, GoneIsGroupRow DEF GroupOK, HistoryOK, GroupRow, SaveApproval
<1>5. ParticipantIsMember'
  BY DEF IInv, ParticipantIsMember, Members, SaveApproval
<1> QED BY <1>1, <1>2, <1>3, <1>4, <1>5, IInvFromParts

-----------------------------------------------------------------------------
(* The theorems. *)

LEMMA InitInv == Init => IInv
<1> SUFFICES ASSUME Init PROVE IInv
  OBVIOUS
<1>1. HandlersOK
  BY IdleIsRecord DEF Init, HandlersOK
<1>2. MembersOK
  BY DEF Init, MembersOK, Roles
<1>3. DocumentsOK
  BY DEF Init, DocumentsOK, Documents
<1>4. GroupOK /\ HistoryOK
  BY GroupAssumption DEF Init, GroupOK, HistoryOK, GroupRow
<1>5. ParticipantIsMember
  BY DEF Init, ParticipantIsMember, Members
<1> QED BY <1>1, <1>2, <1>3, <1>4, <1>5
    DEF IInv, TypeOK, HandlersOK, MembersOK, DocumentsOK, GroupOK, HistoryOK, GroupRow

LEMMA NextInv == IInv /\ [Next]_vars => IInv'
<1> SUFFICES ASSUME IInv, [Next]_vars PROVE IInv'
  OBVIOUS
<1>1. CASE UNCHANGED vars
  BY <1>1 DEF vars, IInv, TypeOK, HandlersOK, Prepared, ParticipantIsMember, Members
<1>2. ASSUME NEW h \in Handlers, Enters(h) PROVE IInv'
  BY <1>2, StartsKeep, ReadsKeep, SaveRequestKeeps, SaveInviteKeeps, EnterKeeps, RejectKeeps,
     AcceptInsertKeeps, AnswerKeeps DEF Enters
<1>3. ASSUME NEW h \in Handlers, Moderates(h) PROVE IInv'
  BY <1>3, StartsKeep, ReadsKeep, HandoverKeeps, AssignKeeps, PromoteKeeps, DepartKeeps
     DEF Moderates
<1>4. ASSUME NEW h \in Handlers, Ends(h) PROVE IInv'
  BY <1>4, StartsKeep, ReadsKeep, DissolveKeeps, DisbandMarkKeeps, DisbandRemoveKeeps,
     SaveApprovalKeeps DEF Ends
<1>5. ASSUME NEW h \in Handlers, Throws(h) PROVE IInv'
  BY <1>5, ThrowsKeeps
<1> QED BY <1>1, <1>2, <1>3, <1>4, <1>5 DEF Next

LEMMA Invariance == Spec => []IInv
  BY InitInv, NextInv, PTL DEF Spec

\* The tables always hold rows of their entities, for any number of users, handlers,
\* requests, invites and starts.
THEOREM TypeCorrect == Spec => []TypeOK
<1>1. IInv => TypeOK
  BY DEF IInv
<1> QED BY <1>1, Invariance, PTL

\* Whoever has a participant row, and so reads and writes in the chat, has a member row:
\* no interleaving of the handlers of the three services, and none that stops half way,
\* leaves somebody in the chat of a group they are no member of.
THEOREM OnlyMembersChat == Spec => []ParticipantIsMember
<1>1. IInv => ParticipantIsMember
  BY DEF IInv
<1> QED BY <1>1, Invariance, PTL

-----------------------------------------------------------------------------
(***************************************************************************)
(* What a handler knows.  A handler that no other of its kind overlaps     *)
(* still sees what it read: the rows, the room, the pending request.  With *)
(* that the other properties follow from what the writes do.               *)
(***************************************************************************)

\* The row with this id is still the member row of this user.
Has(u, id) == u \in Users /\ SameRow(u, id)

\* The rows a handler that changes roles or removes members has read.
KnowsRows(r) ==
    /\ r.op \in {"transfer", "assign", "promote", "kick", "remove", "leave", "quit",
                 "depart", "dissolve"} => Open
    /\ r.op = "transfer" =>
         r.actor = group.owner /\ r.target # r.actor /\ Has(r.actor, r.actorRow)
    /\ r.op \in {"quit", "leave"} =>
         Has(r.actor, r.exitRow) /\ r.actorRole = role[r.actor]
    /\ r.op = "quit" /\ r.step # "authorised" => r.target # r.actor
    /\ r.op = "quit" /\ r.step \in {"choosing", "committing"} =>
         r.actor = group.owner /\ Has(r.actor, r.actorRow)
    /\ r.op \in {"transfer", "quit", "assign", "promote"} /\ r.step = "committing" =>
         Has(r.target, r.targetRow)
    /\ r.op \in {"assign", "promote"} /\ r.step = "committing" => r.target # group.owner
    /\ r.op = "kick" => r.actorRole = "co_admin" \/ r.target # group.owner
    /\ r.op = "depart" /\ ~ r.last => r.target # group.owner /\ Has(r.target, r.exitRow)

KnowsRoom(r) == r.op \in {"add", "approve", "accept"} /\ r.step = "cleared" => HasRoom

\* The invite somebody accepts is theirs.
KnowsInvite(r) ==
    r.op = "accept" => /\ r.doc \in Invites
                       /\ invite[r.doc].user = r.target /\ invite[r.doc].status # "none"

\* A request about to be answered is open.
Answers(r) == \/ r.op = "reject" /\ r.step = "rejecting"
              \/ r.op = "approve" /\ r.step \in {"entitled", "cleared"}
KnowsRequest(r) == Answers(r) => r.doc \in Requests /\ Undecided(r.doc)

\* disbandGroup marks the group before it removes anybody.
KnowsEnd(r) == r.op = "disband" /\ r.step # "authorised" => ~ Open

Knows(r) ==
    /\ KnowsEnd(r)
    /\ "moderation" \notin raced => KnowsRows(r)
    /\ raced \cap {"entry", "moderation"} = {} => KnowsRoom(r)
    /\ group.state # "gone" => KnowsInvite(r)
    /\ group.state # "gone" /\ "decision" \notin raced => KnowsRequest(r)

\* A kind that did not race has one handler at most.
OneOfAKind ==
    \A k \in {"entry", "moderation", "decision"} : k \notin raced =>
      \A g, h \in Handlers :
        k \in Kinds(handler[g].op) /\ k \in Kinds(handler[h].op) => g = h

\* The row of a group that is gone, and an invite not yet sent, say nothing.
Blanks ==
    /\ group.state = "gone" => group = Gone
    /\ \A i \in Invites : invite[i].status = "none" => invite[i].user = None

ChatAgrees ==
    \A u \in Users :
      /\ u \in Members /\ part[u] = "none" => \E i \in Invites : invite[i].user = u
      /\ part[u] = "admin" => u \in Moderators

Orderly == Open /\ "moderation" \notin raced => Owners = {group.owner} /\ ChatAgrees

KInv == OneOfAKind /\ Blanks /\ Orderly /\ \A h \in Handlers : Knows(handler[h])

-----------------------------------------------------------------------------
(* Handlers of a kind. *)

LEMMA OpsOfAKind ==
    ASSUME NEW op
    PROVE  /\ "entry" \in Kinds(op) <=> op \in {"add", "accept", "approve", "promote"}
           /\ "decision" \in Kinds(op) <=> op \in {"approve", "reject"}
           /\ "moderation" \in Kinds(op) <=>
                op \in {"promote", "transfer", "assign", "kick", "remove", "leave", "quit",
                        "depart", "dissolve", "disband"}
  BY DEF Kinds

\* A handler that goes on, as something of no other kind, is as alone as before.
LEMMA StaysAlone ==
    ASSUME HandlersOK, OneOfAKind, NEW h \in Handlers, NEW r,
           handler' = [handler EXCEPT ![h] = r], raced' = raced,
           Kinds(r.op) \subseteq Kinds(handler[h].op)
    PROVE  OneOfAKind'
<1>1. \A g \in Handlers : Kinds(handler'[g].op) \subseteq Kinds(handler[g].op)
  <2> TAKE g \in Handlers
  <2>1. handler'[g] = IF g = h THEN r ELSE handler[g]
    BY DEF HandlersOK
  <2> QED BY <2>1
<1> QED BY <1>1 DEF OneOfAKind

LEMMA BeginsAlone ==
    ASSUME HandlersOK, OneOfAKind, NEW h \in Handlers, NEW r, Begin(h, r)
    PROVE  OneOfAKind'
<1>1. \A g \in Handlers : handler'[g] = IF g = h THEN r ELSE handler[g]
  BY DEF HandlersOK, Begin
<1>2. \A g \in Handlers : \A k :
        k \in Kinds(r.op) /\ k \in Kinds(handler[g].op) => k \in raced'
  BY DEF Begin
<1>3. raced \subseteq raced'
  BY DEF Begin
<1> QED BY <1>1, <1>2, <1>3 DEF OneOfAKind

\* While none raced, the others are not of the kind of h.
LEMMA OthersAreNot ==
    ASSUME OneOfAKind, NEW h \in Handlers, NEW g \in Handlers, g # h,
           NEW k \in {"entry", "moderation", "decision"}, k \notin raced,
           k \in Kinds(handler[h].op)
    PROVE  k \notin Kinds(handler[g].op)
  BY DEF OneOfAKind

\* A handler of another kind knows its own anyway.
LEMMA NoRowsToKnow ==
    ASSUME NEW r, "moderation" \notin Kinds(r.op)
    PROVE  KnowsRows(r) /\ KnowsRows(r)'
  BY OpsOfAKind DEF KnowsRows

LEMMA NoRoomToKnow ==
    ASSUME NEW r, "entry" \notin Kinds(r.op)
    PROVE  KnowsRoom(r) /\ KnowsRoom(r)'
  BY OpsOfAKind DEF KnowsRoom

LEMMA NoRequestToKnow ==
    ASSUME NEW r, "decision" \notin Kinds(r.op)
    PROVE  KnowsRequest(r) /\ KnowsRequest(r)'
  BY OpsOfAKind DEF KnowsRequest, Answers

\* A handler that has nothing to know.
LEMMA Ignorant ==
    ASSUME NEW r, r.op \in {"idle", "request", "decline", "invite", "setting"}
    PROVE  Knows(r) /\ Knows(r)'
<1>1. Kinds(r.op) = {} /\ r.op # "accept" /\ r.op # "disband"
  BY OpsOfAKind DEF Kinds
<1> QED BY <1>1, NoRowsToKnow, NoRoomToKnow, NoRequestToKnow
    DEF Knows, KnowsEnd, KnowsInvite

-----------------------------------------------------------------------------
(* Steps that only read, and starts. *)

\* The tables as they were, what is known of them is still true.
LEMMA SameTables ==
    ASSUME UNCHANGED tables, raced \subseteq raced'
    PROVE  /\ \A r : Knows(r) => (Knows(r))'
           /\ Blanks => Blanks'
           /\ Orderly => Orderly'
<1>1. \A r : Knows(r) => (Knows(r))'
  <2> TAKE r
  <2>1. /\ KnowsEnd(r) => KnowsEnd(r)'
        /\ KnowsRows(r) => KnowsRows(r)'
        /\ KnowsRoom(r) => KnowsRoom(r)'
        /\ KnowsInvite(r) => KnowsInvite(r)'
        /\ KnowsRequest(r) => KnowsRequest(r)'
    BY DEF tables, KnowsEnd, KnowsRows, KnowsRoom, KnowsInvite, KnowsRequest, Answers,
           Open, Has, SameRow, HasRoom, Members, Undecided
  <2>2. group' = group
    BY DEF tables
  <2> QED BY <2>1, <2>2 DEF Knows
<1>2. Blanks => Blanks'
  BY DEF Blanks, tables
<1>3. Orderly => Orderly'
  BY DEF Orderly, ChatAgrees, Open, Owners, Members, Moderators, tables
<1> QED BY <1>1, <1>2, <1>3

\* A step hands each handler a record: what each must know, read off the record.
LEMMA AllKnow ==
    ASSUME HandlersOK, NEW h \in Handlers, NEW r, handler' = [handler EXCEPT ![h] = r],
           Knows(r)',
           \A g \in Handlers : \A s : g # h /\ s = handler[g] => Knows(s)'
    PROVE  (\A g \in Handlers : Knows(handler[g]))'
<1> SUFFICES ASSUME NEW g \in Handlers PROVE Knows(handler[g])'
  OBVIOUS
<1>1. ASSUME NEW s, s = handler'[g], Knows(s)' PROVE Knows(handler[g])'
  BY <1>1 DEF Knows, KnowsEnd, KnowsRows, KnowsRoom, KnowsInvite, KnowsRequest, Answers
<1>2. CASE g = h
  BY <1>1, <1>2 DEF HandlersOK
<1>3. CASE g # h
  <2>1. handler'[g] = handler[g]
    BY <1>3 DEF HandlersOK
  <2> QED BY <1>1, <1>3, <2>1
<1> QED BY <1>2, <1>3

\* After a step that only reads, the handler has to know what it read.
LEMMA ReadKnows ==
    ASSUME IInv, KInv, NEW h \in Handlers, NEW r, Check(h, r),
           Kinds(r.op) \subseteq Kinds(handler[h].op), Knows(r)
    PROVE  KInv'
<1>1. UNCHANGED tables /\ raced' = raced /\ handler' = [handler EXCEPT ![h] = r]
  BY DEF Check
<1>2. OneOfAKind'
  BY <1>1, StaysAlone DEF IInv, KInv
<1>3. Blanks' /\ Orderly' /\ \A s : Knows(s) => Knows(s)'
  BY <1>1, SameTables DEF KInv
<1>4. (\A g \in Handlers : Knows(handler[g]))'
  BY <1>1, <1>3, AllKnow DEF IInv, KInv
<1> QED BY <1>2, <1>3, <1>4 DEF KInv

LEMMA BeginKnows ==
    ASSUME IInv, KInv, NEW h \in Handlers, NEW r, Begin(h, r), Knows(r)
    PROVE  KInv'
<1>1. UNCHANGED tables /\ raced \subseteq raced' /\ handler' = [handler EXCEPT ![h] = r]
  BY DEF Begin
<1>2. OneOfAKind'
  BY BeginsAlone DEF IInv, KInv
<1>3. Blanks' /\ Orderly' /\ \A s : Knows(s) => Knows(s)'
  BY <1>1, SameTables DEF KInv
<1>4. (\A g \in Handlers : Knows(handler[g]))'
  BY <1>1, <1>3, AllKnow DEF IInv, KInv
<1> QED BY <1>2, <1>3, <1>4 DEF KInv

LEMMA IdleIsIdle == Idle.op = "idle" /\ Kinds(Idle.op) = {}
  BY DEF Idle, Kinds

LEMMA ThrowsKnow ==
    ASSUME IInv, KInv, NEW h \in Handlers, Throws(h)
    PROVE  KInv'
<1>1. Check(h, Idle) /\ Knows(Idle)
  BY IdleIsIdle, Ignorant DEF Throws, Finish, Check
<1> QED BY <1>1, IdleIsIdle, ReadKnows

-----------------------------------------------------------------------------
(* The records of the handlers that start, field by field. *)

LEMMA StartingHas ==
    ASSUME NEW op \in Ops
    PROVE  /\ Starting(op).op = op /\ Starting(op).step = "authorised"
           /\ Starting(op) \in HandlerRecord
<1>1. ASSUME NEW s \in HandlerRecord, NEW d, d = [s EXCEPT !.op = op, !.step = "authorised"]
      PROVE  d.op = op
  BY <1>1 DEF HandlerRecord
<1> QED BY <1>1, IdleIsRecord, StartingIsRecord DEF Starting

LEMMA DepartingHas ==
    ASSUME NEW u, NEW id, NEW last
    PROVE  /\ Departing(u, id, last).op = "depart" /\ Departing(u, id, last).target = u
           /\ Departing(u, id, last).exitRow = id /\ Departing(u, id, last).last = last
<1>1. ASSUME NEW s \in HandlerRecord, s.op = "depart", NEW d,
             d = [s EXCEPT !.step = "departing", !.target = u, !.exitRow = id, !.last = last]
      PROVE  d.op = "depart" /\ d.target = u /\ d.exitRow = id /\ d.last = last
  BY <1>1 DEF HandlerRecord
<1>2. "depart" \in Ops
  BY DEF Ops
<1>3. Starting("depart").op = "depart" /\ Starting("depart") \in HandlerRecord
  BY <1>2, StartingHas
<1> QED BY <1>1, <1>3 DEF Departing

\* Who goes is known by the row.
LEMMA DepartingKnows ==
    ASSUME NEW u, NEW id, NEW last,
           "moderation" \notin raced =>
             Open /\ (~ last => u # group.owner /\ Has(u, id))
    PROVE  Knows(Departing(u, id, last))
<1>1. ASSUME NEW r, r.op = "depart", r.target = u, r.exitRow = id, r.last = last
      PROVE  Knows(r)
  <2>1. "entry" \notin Kinds(r.op) /\ "decision" \notin Kinds(r.op)
    BY <1>1, OpsOfAKind
  <2>2. KnowsRoom(r) /\ KnowsRequest(r) /\ KnowsEnd(r) /\ KnowsInvite(r)
    BY <1>1, <2>1, NoRoomToKnow, NoRequestToKnow DEF KnowsEnd, KnowsInvite
  <2>3. "moderation" \notin raced => KnowsRows(r)
    BY <1>1 DEF KnowsRows
  <2> QED BY <2>2, <2>3 DEF Knows
<1> QED BY <1>1, DepartingHas

\* A handler that moderates, and is not about to disband the group or accept an invite,
\* has to know its rows.
LEMMA ModeratorKnows ==
    ASSUME NEW r, r.op \in {"transfer", "assign", "promote", "kick", "remove", "leave",
                            "quit", "depart", "dissolve"},
           "moderation" \notin raced => KnowsRows(r)
    PROVE  Knows(r)
<1>1. "decision" \notin Kinds(r.op)
  BY OpsOfAKind
<1>2. KnowsRequest(r) /\ KnowsRoom(r) /\ KnowsEnd(r) /\ KnowsInvite(r)
  BY <1>1, NoRequestToKnow DEF KnowsRoom, KnowsEnd, KnowsInvite
<1> QED BY <1>2 DEF Knows

\* addMembers and joinGroup begin, and know nothing yet.
LEMMA EntrantKnows ==
    ASSUME NEW r, r.op \in {"add", "approve", "reject"}, r.step \in {"entitled", "authorised"},
           r.op # "add" => r.step = "authorised"
    PROVE  Knows(r)
<1>1. "moderation" \notin Kinds(r.op)
  BY OpsOfAKind
<1>2. KnowsRows(r) /\ KnowsRoom(r) /\ KnowsInvite(r) /\ KnowsRequest(r) /\ KnowsEnd(r)
  BY <1>1, NoRowsToKnow DEF KnowsRoom, KnowsInvite, KnowsRequest, Answers, KnowsEnd
<1> QED BY <1>2 DEF Knows

LEMMA AccepterKnows ==
    ASSUME NEW r, r.op = "accept", r.step = "cleared" => HasRoom, KnowsInvite(r)
    PROVE  Knows(r)
<1>1. "moderation" \notin Kinds(r.op) /\ "decision" \notin Kinds(r.op)
  BY OpsOfAKind
<1>2. KnowsRows(r) /\ KnowsRoom(r) /\ KnowsRequest(r) /\ KnowsEnd(r)
  BY <1>1, NoRowsToKnow, NoRequestToKnow DEF KnowsRoom, KnowsEnd
<1> QED BY <1>2 DEF Knows

LEMMA DisbanderKnows ==
    ASSUME NEW r, r.op = "disband", KnowsEnd(r)
    PROVE  Knows(r)
<1>1. KnowsRows(r) /\ KnowsRoom(r) /\ KnowsRequest(r) /\ KnowsInvite(r)
  BY DEF KnowsRows, KnowsRoom, KnowsRequest, Answers, KnowsInvite
<1> QED BY <1>1 DEF Knows

LEMMA ModerateKnows ==
    ASSUME IInv, KInv, NEW h \in Handlers,
           NEW op \in {"transfer", "assign", "promote", "kick", "remove"},
           NEW a \in Users, NEW u \in Users, Moderate(h, op, a, u)
    PROVE  KInv'
<1>1. op \in Ops /\ Open /\ Entitled(op, a) /\ a # u
  BY DEF Ops, Moderate
<1>2. /\ Starting(op).op = op /\ Starting(op).step = "authorised"
      /\ Starting(op) \in HandlerRecord
  BY <1>1, StartingHas
<1>3. "moderation" \notin raced => Owners = {group.owner}
  BY <1>1 DEF KInv, Orderly
<1>4. CASE op = "transfer"
  <2>1. ASSUME NEW s \in HandlerRecord, s.op = op, s.step = "authorised",
               NEW r, r = [s EXCEPT !.actor = a, !.actorRow = rowId[a], !.target = u]
        PROVE  Knows(r)
    <3>1. /\ r.op = "transfer" /\ r.step = "authorised" /\ r.actor = a /\ r.target = u
          /\ r.actorRow = rowId[a]
      BY <2>1, <1>4 DEF HandlerRecord
    <3>2. role[a] = "owner" /\ ("moderation" \notin raced => a = group.owner)
      BY <1>1, <1>3, <1>4 DEF Entitled, Owners
    <3>3. "moderation" \notin raced => KnowsRows(r)
      BY <3>1, <3>2, <1>1 DEF KnowsRows, Has, SameRow
    <3> QED BY <3>1, <3>3, ModeratorKnows
  <2> QED BY <2>1, <1>2, <1>4, BeginKnows DEF Moderate
<1>5. CASE op \in {"kick", "remove"}
  <2>1. ASSUME NEW s \in HandlerRecord, s.op = op, s.step = "authorised",
               NEW r, r = [s EXCEPT !.actorRole = role[a], !.target = u]
        PROVE  Knows(r)
    <3>1. r.op = op /\ r.step = "authorised" /\ r.actorRole = role[a] /\ r.target = u
      BY <2>1, <1>5 DEF HandlerRecord
    <3>2. "moderation" \notin raced => KnowsRows(r)
      BY <3>1, <1>1, <1>3, <1>5 DEF KnowsRows, Entitled, Moderators, Owners
    <3> QED BY <3>1, <3>2, <1>5, ModeratorKnows
  <2> QED BY <2>1, <1>2, <1>5, BeginKnows DEF Moderate
<1>6. CASE op \in {"assign", "promote"}
  <2>1. ASSUME NEW s \in HandlerRecord, s.op = op, s.step = "authorised",
               NEW r, r = [s EXCEPT !.target = u]
        PROVE  Knows(r)
    <3>1. r.op = op /\ r.step = "authorised"
      BY <2>1, <1>6 DEF HandlerRecord
    <3>2. KnowsRows(r)
      BY <3>1, <1>1, <1>6 DEF KnowsRows
    <3> QED BY <3>1, <3>2, <1>6, ModeratorKnows
  <2> QED BY <2>1, <1>2, <1>6, BeginKnows DEF Moderate
<1> QED BY <1>4, <1>5, <1>6

LEMMA LeaveKnows ==
    ASSUME IInv, KInv, NEW h \in Handlers, NEW op \in {"leave", "quit"}, NEW a \in Users,
           Leave(h, op, a)
    PROVE  KInv'
<1>1. op \in Ops /\ Open /\ a \in Members
  BY DEF Ops, Leave
<1>2. /\ Starting(op).op = op /\ Starting(op).step = "authorised"
      /\ Starting(op) \in HandlerRecord
  BY <1>1, StartingHas
<1>3. ASSUME NEW s \in HandlerRecord, s.op = op, s.step = "authorised",
             NEW r, r = [s EXCEPT !.actor = a, !.exitRow = rowId[a], !.actorRole = role[a]]
      PROVE  Knows(r)
  <2>1. /\ r.op = op /\ r.step = "authorised" /\ r.actor = a /\ r.actorRole = role[a]
        /\ r.exitRow = rowId[a]
    BY <1>3 DEF HandlerRecord
  <2>2. KnowsRows(r)
    BY <2>1, <1>1 DEF KnowsRows, Has, SameRow, Members
  <2> QED BY <2>1, <2>2, ModeratorKnows
<1> QED BY <1>2, <1>3, BeginKnows DEF Leave

LEMMA EndKnows ==
    ASSUME IInv, KInv, NEW h \in Handlers, NEW op \in {"dissolve", "disband"},
           NEW a \in Users, End(h, op, a)
    PROVE  KInv'
<1>1. op \in Ops /\ Open
  BY DEF Ops, End
<1>2. /\ Starting(op).op = op /\ Starting(op).step = "authorised"
      /\ Starting(op) \in HandlerRecord
  BY <1>1, StartingHas
<1>3. CASE op = "dissolve"
  <2>1. ASSUME NEW r, r.op = "dissolve" PROVE Knows(r)
    BY <2>1, <1>1, ModeratorKnows DEF KnowsRows
  <2>2. Begin(h, Starting(op))
    BY <1>3 DEF End
  <2> QED BY <2>1, <2>2, <1>2, <1>3, BeginKnows
<1>4. CASE op = "disband"
  <2>1. ASSUME NEW s \in HandlerRecord, s.op = op, s.step = "authorised",
               NEW r, r = [s EXCEPT !.group = group]
        PROVE  Knows(r)
    <3>1. r.op = "disband" /\ r.step = "authorised"
      BY <2>1, <1>4 DEF HandlerRecord
    <3> QED BY <3>1, DisbanderKnows DEF KnowsEnd
  <2> QED BY <2>1, <1>2, <1>4, BeginKnows DEF End
<1> QED BY <1>3, <1>4

\* The starts of the other handlers.
LEMMA EntersKnow ==
    ASSUME IInv, KInv, NEW h \in Handlers,
           \/ \E a, u \in Users : Add(h, a, u) \/ Invite(h, a, u)
           \/ \E u \in Users : Join(h, u)
           \/ \E op \in {"approve", "reject"}, a \in Users, q \in Requests : Decide(h, op, a, q)
           \/ \E i \in Invites : AcceptRead(h, i) \/ DeclineRead(h, i)
           \/ \E a \in Users : SetApproval(h, a)
    PROVE  KInv'
<1>1. ASSUME NEW u, Begin(h, [Starting("add") EXCEPT !.step = "entitled", !.target = u])
      PROVE  KInv'
  <2>1. "add" \in Ops
    BY DEF Ops
  <2>2. ASSUME NEW s \in HandlerRecord, s.op = "add",
               NEW r, r = [s EXCEPT !.step = "entitled", !.target = u]
        PROVE  Knows(r)
    <3>1. r.op = "add" /\ r.step = "entitled"
      BY <2>2 DEF HandlerRecord
    <3> QED BY <3>1, EntrantKnows
  <2> QED BY <2>1, <2>2, <1>1, StartingHas, BeginKnows
<1>2. ASSUME NEW op \in {"request", "invite"}, NEW step, NEW u,
             Begin(h, [Starting(op) EXCEPT !.step = step, !.target = u])
      PROVE  KInv'
  <2>1. op \in Ops
    BY DEF Ops
  <2>2. ASSUME NEW s \in HandlerRecord, s.op = op,
               NEW r, r = [s EXCEPT !.step = step, !.target = u]
        PROVE  Knows(r)
    <3>1. r.op = op
      BY <2>2 DEF HandlerRecord
    <3> QED BY <3>1, Ignorant
  <2> QED BY <2>1, <2>2, <1>2, StartingHas, BeginKnows
<1>3. ASSUME NEW a \in Users, NEW u \in Users, Add(h, a, u) PROVE KInv'
  BY <1>3, <1>1 DEF Add
<1>4. ASSUME NEW a \in Users, NEW u \in Users, Invite(h, a, u) PROVE KInv'
  BY <1>4, <1>2 DEF Invite
<1>5. ASSUME NEW u \in Users, Join(h, u) PROVE KInv'
  BY <1>5, <1>1, <1>2 DEF Join
<1>6. ASSUME NEW op \in {"approve", "reject"}, NEW a \in Users, NEW q \in Requests,
             Decide(h, op, a, q)
      PROVE  KInv'
  <2>1. op \in Ops
    BY DEF Ops
  <2>2. ASSUME NEW s \in HandlerRecord, s.op = op, s.step = "authorised",
               NEW r, r = [s EXCEPT !.doc = q]
        PROVE  r.op = op /\ r.step = "authorised"
    BY <2>2 DEF HandlerRecord
  <2> QED BY <2>1, <2>2, <1>6, StartingHas, EntrantKnows, BeginKnows DEF Decide
<1>7. ASSUME NEW i \in Invites, AcceptRead(h, i) PROVE KInv'
  <2>1. "accept" \in Ops
    BY DEF Ops
  <2>2. ASSUME NEW s \in HandlerRecord, s.op = "accept", NEW r,
               r = [s EXCEPT !.step = "entitled", !.doc = i, !.target = invite[i].user]
        PROVE  Knows(r)
    <3>1. r.op = "accept" /\ r.step = "entitled" /\ r.doc = i /\ r.target = invite[i].user
      BY <2>2 DEF HandlerRecord
    <3>2. KnowsInvite(r)
      BY <3>1, <1>7 DEF KnowsInvite, AcceptRead
    <3> QED BY <3>1, <3>2, AccepterKnows
  <2> QED BY <2>1, <2>2, <1>7, StartingHas, BeginKnows DEF AcceptRead
<1>8. ASSUME NEW i \in Invites, DeclineRead(h, i) PROVE KInv'
  <2>1. "decline" \in Ops
    BY DEF Ops
  <2>2. ASSUME NEW s \in HandlerRecord, s.op = "decline", NEW r,
               r = [s EXCEPT !.step = "answering", !.doc = i]
        PROVE  Knows(r)
    <3>1. r.op = "decline"
      BY <2>2 DEF HandlerRecord
    <3> QED BY <3>1, Ignorant
  <2> QED BY <2>1, <2>2, <1>8, StartingHas, BeginKnows DEF DeclineRead
<1>9. ASSUME NEW a \in Users, SetApproval(h, a) PROVE KInv'
  <2>1. "setting" \in Ops
    BY DEF Ops
  <2> QED BY <2>1, <1>9, StartingHas, Ignorant, BeginKnows DEF SetApproval
<1> QED BY <1>3, <1>4, <1>5, <1>6, <1>7, <1>8, <1>9

-----------------------------------------------------------------------------
(* The steps that only read. *)

\* What a handler in flight is and knows.
LEMMA InFlight ==
    ASSUME IInv, KInv, NEW h \in Handlers
    PROVE  handler[h] \in HandlerRecord /\ Knows(handler[h])
  BY DEF IInv, HandlersOK, KInv

LEMMA OrderlyFacts ==
    ASSUME KInv, Open, "moderation" \notin raced
    PROVE  /\ \A u \in Users : role[u] = "owner" <=> u = group.owner
           /\ group.owner \in Users /\ role[group.owner] = "owner"
           /\ ChatAgrees
<1>1. Owners = {group.owner} /\ ChatAgrees
  BY DEF KInv, Orderly
<1> QED BY <1>1 DEF Owners

LEMMA RequestReadKnows ==
    ASSUME IInv, KInv, NEW h \in Handlers, NEW q \in Requests, RequestRead(h, q)
    PROVE  KInv'
<1>1. handler[h] \in HandlerRecord /\ Knows(handler[h])
  BY InFlight
<1>2. PICK step \in {"entitled", "rejecting"} :
         Check(h, [handler[h] EXCEPT !.target = request[q].user, !.step = step])
  BY DEF RequestRead
<1>3. handler[h].op \in {"approve", "reject"} /\ handler[h].doc = q /\ Undecided(q)
  BY DEF RequestRead, At
<1>4. ASSUME NEW s \in HandlerRecord, s.op \in {"approve", "reject"}, s.doc = q,
             NEW r, r = [s EXCEPT !.target = request[q].user, !.step = step]
      PROVE  Knows(r) /\ r.op = s.op
  <2>1. r.op = s.op /\ r.doc = q /\ r.step # "cleared"
    BY <1>4 DEF HandlerRecord
  <2>2. KnowsRequest(r) /\ KnowsRoom(r) /\ KnowsInvite(r) /\ KnowsEnd(r)
    BY <2>1, <1>3, <1>4 DEF KnowsRequest, KnowsRoom, KnowsInvite, KnowsEnd
  <2>3. KnowsRows(r)
    BY <2>1, <1>4, OpsOfAKind, NoRowsToKnow
  <2> QED BY <2>1, <2>2, <2>3 DEF Knows
<1> QED BY <1>1, <1>2, <1>3, <1>4, ReadKnows

LEMMA CapacityCheckKnows ==
    ASSUME IInv, KInv, NEW h \in Handlers, CapacityCheck(h)
    PROVE  KInv'
<1>1. handler[h] \in HandlerRecord /\ Knows(handler[h])
  BY InFlight
<1>2. /\ handler[h].op \in {"add", "approve", "accept"} /\ handler[h].step = "entitled"
      /\ HasRoom /\ Check(h, [handler[h] EXCEPT !.step = "cleared"])
  BY DEF CapacityCheck, At
<1>3. ASSUME NEW s \in HandlerRecord, s.op \in {"add", "approve", "accept"},
             s.step = "entitled", Knows(s), NEW r, r = [s EXCEPT !.step = "cleared"]
      PROVE  Knows(r) /\ r.op = s.op
  <2>1. r.op = s.op /\ r.doc = s.doc /\ r.target = s.target /\ r.step = "cleared"
    BY <1>3 DEF HandlerRecord
  <2>2. KnowsRoom(r) /\ KnowsEnd(r)
    BY <2>1, <1>2, <1>3 DEF KnowsRoom, KnowsEnd
  <2>3. KnowsRows(r)
    BY <2>1, <1>3, OpsOfAKind, NoRowsToKnow
  <2>4. /\ KnowsInvite(s) => KnowsInvite(r)
        /\ KnowsRequest(s) => KnowsRequest(r)
    BY <2>1, <1>3 DEF KnowsInvite, KnowsRequest, Answers
  <2> QED BY <1>3, <2>1, <2>2, <2>3, <2>4 DEF Knows
<1> QED BY <1>1, <1>2, <1>3, ReadKnows

LEMMA AcceptExistingKnows ==
    ASSUME IInv, KInv, NEW h \in Handlers, AcceptExisting(h)
    PROVE  KInv'
<1>1. handler[h] \in HandlerRecord /\ Knows(handler[h])
  BY InFlight
<1>2. handler[h].op = "accept" /\ Check(h, [handler[h] EXCEPT !.step = "answering"])
  BY DEF AcceptExisting, At
<1>3. ASSUME NEW s \in HandlerRecord, s.op = "accept", Knows(s),
             NEW r, r = [s EXCEPT !.step = "answering"]
      PROVE  Knows(r) /\ r.op = s.op
  <2>1. r.op = "accept" /\ r.doc = s.doc /\ r.target = s.target /\ r.step = "answering"
    BY <1>3 DEF HandlerRecord
  <2>2. KnowsRows(r) /\ KnowsRequest(r)
    BY <2>1, OpsOfAKind, NoRowsToKnow, NoRequestToKnow
  <2>3. KnowsRoom(r) /\ KnowsEnd(r) /\ (KnowsInvite(s) => KnowsInvite(r))
    BY <2>1, <1>3 DEF KnowsRoom, KnowsEnd, KnowsInvite
  <2> QED BY <1>3, <2>1, <2>2, <2>3 DEF Knows
<1> QED BY <1>1, <1>2, <1>3, ReadKnows

LEMMA TargetReadKnows ==
    ASSUME IInv, KInv, NEW h \in Handlers, TargetRead(h)
    PROVE  KInv'
<1> DEFINE u == handler[h].target
<1>1. handler[h] \in HandlerRecord /\ Knows(handler[h])
  BY InFlight
<1>2. /\ handler[h].op \in {"transfer", "promote", "kick", "remove"}
      /\ handler[h].step = "authorised" /\ u \in Members
      /\ MayChange(handler[h].op, handler[h].actorRole, role[u])
  BY DEF TargetRead, At
<1>3. u \in Users /\ role[u] # "none"
  BY <1>2 DEF Members
<1>4. "moderation" \notin raced => Open /\ KnowsRows(handler[h])
  BY <1>1, <1>2 DEF Knows, KnowsRows
<1>5. "moderation" \notin raced => (role[u] = "owner" <=> u = group.owner)
  BY <1>3, <1>4, OrderlyFacts
<1>6. CASE handler[h].op \in {"kick", "remove"}
  <2>1. Check(h, Departing(u, rowId[u], FALSE))
    BY <1>6 DEF TargetRead
  <2>2. "moderation" \notin raced => u # group.owner
    BY <1>2, <1>4, <1>5, <1>6 DEF MayChange, KnowsRows
  <2>3. Knows(Departing(u, rowId[u], FALSE))
    BY <2>2, <1>3, <1>4, DepartingKnows DEF Has, SameRow
  <2>4. Kinds(Departing(u, rowId[u], FALSE).op) \subseteq Kinds(handler[h].op)
    BY <1>6, DepartingHas DEF Kinds
  <2> QED BY <2>1, <2>3, <2>4, ReadKnows
<1>7. CASE handler[h].op \notin {"kick", "remove"}
  <2>1. Check(h, [handler[h] EXCEPT !.targetRow = rowId[u], !.step = "committing"])
    BY <1>7 DEF TargetRead
  <2>2. "moderation" \notin raced /\ handler[h].op = "promote" => u # group.owner
    BY <1>2, <1>5 DEF MayChange
  <2>3. ASSUME NEW s \in HandlerRecord, s = handler[h],
               NEW r, r = [s EXCEPT !.targetRow = rowId[u], !.step = "committing"]
        PROVE  Knows(r) /\ r.op = s.op
    <3>1. /\ r.op = s.op /\ r.step = "committing" /\ r.actor = s.actor
          /\ r.actorRow = s.actorRow /\ r.target = u /\ r.targetRow = rowId[u]
      BY <2>3 DEF HandlerRecord
    <3>2. "moderation" \notin raced => KnowsRows(r)
      BY <3>1, <2>2, <2>3, <1>2, <1>3, <1>4, <1>7 DEF KnowsRows, Has, SameRow
    <3>3. r.op \in {"transfer", "promote"}
      BY <3>1, <2>3, <1>2, <1>7
    <3>4. Knows(r)
      BY <3>2, <3>3, ModeratorKnows
    <3> QED BY <3>1, <3>4
  <2> QED BY <2>1, <2>3, <1>1, ReadKnows
<1> QED BY <1>6, <1>7

LEMMA AssignReadKnows ==
    ASSUME IInv, KInv, NEW h \in Handlers, NEW n \in {"member", "co_admin"}, AssignRead(h, n)
    PROVE  KInv'
<1> DEFINE u == handler[h].target
<1>1. handler[h] \in HandlerRecord /\ Knows(handler[h])
  BY InFlight
<1>2. /\ handler[h].op = "assign" /\ u \in Members /\ role[u] # "owner"
      /\ Check(h, [handler[h] EXCEPT !.targetRow = rowId[u], !.newRole = n,
                                     !.step = "committing"])
  BY DEF AssignRead, At, MayChange
<1>3. u \in Users /\ role[u] # "none"
  BY <1>2 DEF Members
<1>4. "moderation" \notin raced => Open
  BY <1>1, <1>2 DEF Knows, KnowsRows
<1>5. "moderation" \notin raced => u # group.owner
  BY <1>2, <1>3, <1>4, OrderlyFacts
<1>6. ASSUME NEW s \in HandlerRecord, s = handler[h],
             NEW r, r = [s EXCEPT !.targetRow = rowId[u], !.newRole = n,
                                  !.step = "committing"]
      PROVE  Knows(r) /\ r.op = s.op
  <2>1. /\ r.op = "assign" /\ r.step = "committing" /\ r.target = u /\ r.targetRow = rowId[u]
    BY <1>6, <1>2 DEF HandlerRecord
  <2>2. "moderation" \notin raced => KnowsRows(r)
    BY <2>1, <1>3, <1>4, <1>5 DEF KnowsRows, Has, SameRow
  <2>3. Knows(r)
    BY <2>1, <2>2, ModeratorKnows
  <2> QED BY <2>1, <2>3, <1>2, <1>6
<1> QED BY <1>1, <1>2, <1>6, ReadKnows

\* The two leaveGroup: nobody who owns the group goes, unless nobody else is left.
LEMMA LeaveReadKnows ==
    ASSUME IInv, KInv, NEW h \in Handlers, LeaveRead(h)
    PROVE  KInv'
<1> DEFINE r == Departing(handler[h].actor, handler[h].exitRow, FALSE)
<1>1. Knows(handler[h])
  BY InFlight
<1>2. /\ handler[h].op = "leave" /\ Check(h, r)
      /\ handler[h].actorRole = "owner" => Owners \ {handler[h].actor} # {}
  BY DEF LeaveRead, At
<1>3. "moderation" \notin raced => Open /\ KnowsRows(handler[h])
  BY <1>1, <1>2 DEF Knows, KnowsRows
<1>4. "moderation" \notin raced =>
        /\ handler[h].actorRole = role[handler[h].actor]
        /\ Has(handler[h].actor, handler[h].exitRow)
  BY <1>2, <1>3 DEF KnowsRows
<1>5. "moderation" \notin raced => handler[h].actor # group.owner
  BY <1>2, <1>3, <1>4, OrderlyFacts DEF Owners
<1>6. Knows(r)
  BY <1>3, <1>4, <1>5, DepartingKnows
<1>7. Kinds(r.op) \subseteq Kinds(handler[h].op)
  BY <1>2, DepartingHas DEF Kinds
<1> QED BY <1>2, <1>6, <1>7, ReadKnows

LEMMA QuitReadKnows ==
    ASSUME IInv, KInv, NEW h \in Handlers, QuitRead(h)
    PROVE  KInv'
<1> DEFINE a == handler[h].actor
           remaining == Members \ {a}
<1>1. handler[h] \in HandlerRecord /\ Knows(handler[h])
  BY InFlight
<1>2. handler[h].op = "quit"
  BY DEF QuitRead, At
<1>3. "moderation" \notin raced => Open /\ KnowsRows(handler[h])
  BY <1>1, <1>2 DEF Knows, KnowsRows
<1>4. "moderation" \notin raced =>
        /\ handler[h].actorRole = role[a] /\ Has(a, handler[h].exitRow)
  BY <1>2, <1>3 DEF KnowsRows
<1>5. CASE remaining # {} /\ handler[h].actorRole = "owner"
  <2>1. PICK u \in remaining :
          Check(h, [handler[h] EXCEPT !.target = u, !.step = "succeeding"])
    BY <1>5 DEF QuitRead
  <2>2. ASSUME NEW s \in HandlerRecord, s = handler[h],
               NEW r, r = [s EXCEPT !.target = u, !.step = "succeeding"]
        PROVE  Knows(r) /\ r.op = s.op
    <3>1. /\ r.op = "quit" /\ r.step = "succeeding" /\ r.target = u /\ r.actor = a
          /\ r.exitRow = s.exitRow /\ r.actorRole = s.actorRole
      BY <2>2, <1>2 DEF HandlerRecord
    <3>2. "moderation" \notin raced => KnowsRows(r)
      BY <3>1, <2>2, <1>3, <1>4 DEF KnowsRows
    <3>3. Knows(r)
      BY <3>1, <3>2, ModeratorKnows
    <3> QED BY <3>1, <3>3, <2>2, <1>2
  <2> QED BY <2>1, <2>2, <1>1, ReadKnows
<1>6. CASE ~ (remaining # {} /\ handler[h].actorRole = "owner")
  <2> DEFINE r == Departing(a, handler[h].exitRow, remaining = {})
  <2>1. Check(h, r)
    BY <1>6 DEF QuitRead
  <2>2. "moderation" \notin raced /\ remaining # {} => a # group.owner
    BY <1>3, <1>4, <1>6, OrderlyFacts
  <2>3. Knows(r)
    <3> DEFINE last == remaining = {}
    <3> HIDE DEF last, a
    <3>1. "moderation" \notin raced =>
            Open /\ (~ last => a # group.owner /\ Has(a, handler[h].exitRow))
      BY <2>2, <1>3, <1>4 DEF last
    <3>2. Knows(Departing(a, handler[h].exitRow, last))
      BY <3>1, DepartingKnows
    <3> QED BY <3>2 DEF last
  <2>4. Kinds(r.op) \subseteq Kinds(handler[h].op)
    BY <1>2, DepartingHas DEF Kinds
  <2> QED BY <2>1, <2>3, <2>4, ReadKnows
<1> QED BY <1>5, <1>6

LEMMA QuitAuthoriseKnows ==
    ASSUME IInv, KInv, NEW h \in Handlers, QuitAuthorise(h)
    PROVE  KInv'
<1> DEFINE a == handler[h].actor
<1>1. handler[h] \in HandlerRecord /\ Knows(handler[h])
  BY InFlight
<1>2. /\ handler[h].op = "quit" /\ handler[h].step = "succeeding" /\ a \in Owners
      /\ Check(h, [handler[h] EXCEPT !.actorRow = rowId[a], !.step = "choosing"])
  BY DEF QuitAuthorise, At
<1>3. a \in Users /\ role[a] = "owner"
  BY <1>2 DEF Owners
<1>4. "moderation" \notin raced => Open /\ KnowsRows(handler[h])
  BY <1>1, <1>2 DEF Knows, KnowsRows
<1>5. "moderation" \notin raced => a = group.owner
  BY <1>3, <1>4, OrderlyFacts
<1>6. ASSUME NEW s \in HandlerRecord, s = handler[h],
             NEW r, r = [s EXCEPT !.actorRow = rowId[a], !.step = "choosing"]
      PROVE  Knows(r) /\ r.op = s.op
  <2>1. /\ r.op = "quit" /\ r.step = "choosing" /\ r.target = s.target /\ r.actor = a
        /\ r.exitRow = s.exitRow /\ r.actorRole = s.actorRole /\ r.actorRow = rowId[a]
    BY <1>6, <1>2 DEF HandlerRecord
  <2>2. "moderation" \notin raced => KnowsRows(r)
    BY <2>1, <1>2, <1>3, <1>4, <1>5, <1>6 DEF KnowsRows, Has, SameRow
  <2>3. Knows(r)
    BY <2>1, <2>2, ModeratorKnows
  <2> QED BY <2>1, <2>3, <1>2, <1>6
<1> QED BY <1>1, <1>2, <1>6, ReadKnows

LEMMA QuitTargetKnows ==
    ASSUME IInv, KInv, NEW h \in Handlers, QuitTarget(h)
    PROVE  KInv'
<1> DEFINE u == handler[h].target
<1>1. handler[h] \in HandlerRecord /\ Knows(handler[h])
  BY InFlight
<1>2. /\ handler[h].op = "quit" /\ handler[h].step = "choosing" /\ u \in Members
      /\ Check(h, [handler[h] EXCEPT !.targetRow = rowId[u], !.step = "committing"])
  BY DEF QuitTarget, At
<1>3. u \in Users /\ role[u] # "none"
  BY <1>2 DEF Members
<1>4. "moderation" \notin raced => Open /\ KnowsRows(handler[h])
  BY <1>1, <1>2 DEF Knows, KnowsRows
<1>5. ASSUME NEW s \in HandlerRecord, s = handler[h],
             NEW r, r = [s EXCEPT !.targetRow = rowId[u], !.step = "committing"]
      PROVE  Knows(r) /\ r.op = s.op
  <2>1. /\ r.op = "quit" /\ r.step = "committing" /\ r.target = u /\ r.actor = s.actor
        /\ r.exitRow = s.exitRow /\ r.actorRole = s.actorRole /\ r.actorRow = s.actorRow
        /\ r.targetRow = rowId[u]
    BY <1>5, <1>2 DEF HandlerRecord
  <2>2. "moderation" \notin raced => KnowsRows(r)
    BY <2>1, <1>2, <1>3, <1>4, <1>5 DEF KnowsRows, Has, SameRow
  <2>3. Knows(r)
    BY <2>1, <2>2, ModeratorKnows
  <2> QED BY <2>1, <2>3, <1>2, <1>5
<1> QED BY <1>1, <1>2, <1>5, ReadKnows

LEMMA DisbandReadKnows ==
    ASSUME IInv, KInv, NEW h \in Handlers, DisbandRead(h)
    PROVE  KInv'
<1>1. handler[h] \in HandlerRecord /\ Knows(handler[h])
  BY InFlight
<1>2. handler[h].op = "disband" /\ handler[h].step = "reading"
  BY DEF DisbandRead, At
<1>3. ~ Open
  BY <1>1, <1>2 DEF Knows, KnowsEnd
<1>4. ASSUME NEW s \in HandlerRecord, s.op = "disband", NEW f,
             NEW r, r = [s EXCEPT !.found = f, !.step = "removing"]
      PROVE  Knows(r) /\ r.op = s.op
  <2>1. r.op = "disband"
    BY <1>4 DEF HandlerRecord
  <2>2. Knows(r)
    BY <2>1, <1>3, DisbanderKnows DEF KnowsEnd
  <2> QED BY <2>1, <2>2, <1>4
<1>5. PICK f : Check(h, [handler[h] EXCEPT !.found = f, !.step = "removing"])
  BY DEF DisbandRead
<1>6. PICK r : r = [handler[h] EXCEPT !.found = f, !.step = "removing"]
  OBVIOUS
<1>7. Check(h, r)
  BY <1>5, <1>6
<1>8. Knows(r) /\ Kinds(r.op) \subseteq Kinds(handler[h].op)
  BY <1>1, <1>2, <1>4, <1>6
<1> QED BY <1>7, <1>8, ReadKnows

-----------------------------------------------------------------------------
(* The steps that write. *)

\* A write by h, told by what it leaves to the others and to h.
LEMMA WriteKnows ==
    ASSUME IInv, KInv, NEW h \in Handlers, NEW r, handler' = [handler EXCEPT ![h] = r],
           Kinds(r.op) \subseteq Kinds(handler[h].op), raced' = raced,
           Open' => Open, group.state = "gone" => group'.state = "gone",
           Blanks', Orderly', Knows(r)',
           "moderation" \notin raced =>
             \A g \in Handlers : \A s : g # h /\ s = handler[g] /\ KnowsRows(s) => KnowsRows(s)',
           raced \cap {"entry", "moderation"} = {} =>
             \A g \in Handlers : \A s : g # h /\ s = handler[g] /\ KnowsRoom(s) => KnowsRoom(s)',
           group'.state # "gone" => \A s : KnowsInvite(s) => KnowsInvite(s)',
           group'.state # "gone" /\ "decision" \notin raced =>
             \A g \in Handlers : \A s :
               g # h /\ s = handler[g] /\ KnowsRequest(s) => KnowsRequest(s)'
    PROVE  KInv'
<1>1. OneOfAKind'
  BY StaysAlone DEF IInv, KInv
<1>2. \A g \in Handlers : \A s : g # h /\ s = handler[g] => Knows(s)'
  <2> SUFFICES ASSUME NEW g \in Handlers, NEW s, g # h, s = handler[g] PROVE Knows(s)'
    OBVIOUS
  <2>1. Knows(s)
    BY DEF KInv
  <2>2. KnowsEnd(s)'
    BY <2>1 DEF Knows, KnowsEnd
  <2> QED BY <2>1, <2>2 DEF Knows
<1>3. (\A g \in Handlers : Knows(handler[g]))'
  BY <1>2, AllKnow DEF IInv
<1> QED BY <1>1, <1>3 DEF KInv

\* Fewer members leave room.
LEMMA RoomStays ==
    ASSUME Members' \subseteq Members, HasRoom
    PROVE  HasRoom'
<1>1. IsFiniteSet(Members)
  BY FS_Subset, GroupAssumption DEF Members
<1>2. /\ Cardinality(Members) \in Nat /\ Cardinality(Members') \in Nat
      /\ Cardinality(Members') <= Cardinality(Members)
  BY <1>1, FS_Subset, FS_CardinalityType
<1> QED BY <1>2, GroupAssumption DEF HasRoom

LEMMA RoomKnown ==
    ASSUME Members' \subseteq Members
    PROVE  \A s : KnowsRoom(s) => KnowsRoom(s)'
  BY RoomStays DEF KnowsRoom

\* A moderator's write: the others neither moderate nor, where it matters, lose their room.
LEMMA ModeratorWrites ==
    ASSUME IInv, KInv, NEW h \in Handlers, NEW r, handler' = [handler EXCEPT ![h] = r],
           Kinds(r.op) \subseteq Kinds(handler[h].op), raced' = raced,
           "moderation" \in Kinds(handler[h].op),
           Open' => Open, group.state = "gone" => group'.state = "gone",
           Blanks', Orderly', Knows(r)',
           raced \cap {"entry", "moderation"} = {} => Members' \subseteq Members,
           group'.state # "gone" => UNCHANGED <<request, invite>>
    PROVE  KInv'
<1>1. ASSUME "moderation" \notin raced, NEW g \in Handlers, NEW s, g # h, s = handler[g]
      PROVE  KnowsRows(s)'
  <2>1. "moderation" \notin Kinds(s.op)
    BY <1>1, OthersAreNot DEF KInv
  <2> QED BY <2>1, NoRowsToKnow
<1>2. raced \cap {"entry", "moderation"} = {} => \A s : KnowsRoom(s) => KnowsRoom(s)'
  BY RoomKnown
<1>3. group'.state # "gone" =>
        \A s : /\ KnowsInvite(s) => KnowsInvite(s)'
               /\ KnowsRequest(s) => KnowsRequest(s)'
  BY DEF KnowsInvite, KnowsRequest, Answers, Undecided
<1> QED BY <1>1, <1>2, <1>3, WriteKnows

\* The owner who was read hands the group to the member who was read.
LEMMA HandoverKnows ==
    ASSUME IInv, KInv, NEW h \in Handlers, Handover(h),
           NEW a, a = handler[h].actor, NEW u, u = handler[h].target,
           NEW id, id = handler[h].exitRow,
           NEW r, r = IF handler[h].op = "quit" THEN Departing(a, id, FALSE) ELSE Idle
    PROVE  KInv'
<1>1. Knows(handler[h]) /\ GroupOK /\ MembersOK
  BY InFlight, TypeParts DEF IInv
<1>2. /\ handler[h].op \in {"transfer", "quit"} /\ handler[h].step = "committing"
      /\ group' = IF group = Gone THEN Gone ELSE [group EXCEPT !.owner = u]
      /\ UNCHANGED <<rowId, rows, request, invite, starts, raced>>
  BY DEF Handover, At
<1>3. /\ \A v \in Users :
           role'[v] = IF v = u /\ SameRow(u, handler[h].targetRow) THEN "owner"
                      ELSE IF v = a /\ SameRow(a, handler[h].actorRow) THEN "member"
                      ELSE role[v]
      /\ \A v \in Users :
           part'[v] = IF v = u /\ part[u] # "none" THEN "admin"
                      ELSE IF v = a /\ part[a] # "none" THEN "member" ELSE part[v]
  BY HandoverRows
<1>4. Members' = Members
  BY <1>3 DEF Members, SameRow
<1>5. group'.state = group.state /\ (Open => group'.owner = u)
  BY <1>1, <1>2 DEF Gone, GroupOK, GroupRow, Open
<1>6. Blanks'
  BY <1>2, <1>5 DEF KInv, Blanks
<1>7. "moderation" \notin raced =>
        /\ Open /\ a = group.owner /\ u # a /\ u \in Users
        /\ Has(a, handler[h].actorRow) /\ Has(u, handler[h].targetRow)
  BY <1>1, <1>2 DEF Knows, KnowsRows, Has
<1>8. "moderation" \notin raced => Owners' = {u}
  BY <1>3, <1>7, OrderlyFacts DEF Owners, Has, SameRow
<1>9. "moderation" \notin raced => ChatAgrees'
  BY <1>2, <1>3, <1>4, <1>7, OrderlyFacts DEF ChatAgrees, Moderators, Has, SameRow
<1>10. Orderly'
  BY <1>2, <1>5, <1>7, <1>8, <1>9 DEF Orderly
<1>11. Knows(r)'
  <2>1. CASE handler[h].op = "quit"
    <3>1. ASSUME NEW d, d.op = "depart", d.target = a, d.exitRow = id
          PROVE  Knows(d)'
      <4>1. "moderation" \notin raced => Has(a, id)
        BY <1>1, <2>1 DEF Knows, KnowsRows
      <4>2. "moderation" \notin raced => Has(a, id)'
        BY <4>1, <1>2, <1>3 DEF Has, SameRow
      <4>3. "moderation" \notin raced => KnowsRows(d)'
        BY <3>1, <4>2, <1>5, <1>7 DEF KnowsRows, Open
      <4>4. KnowsRoom(d)' /\ KnowsRequest(d)' /\ KnowsEnd(d)' /\ KnowsInvite(d)'
        BY <3>1 DEF KnowsRoom, KnowsRequest, Answers, KnowsEnd, KnowsInvite
      <4> QED BY <4>3, <4>4, <1>2 DEF Knows
    <3>2. r = Departing(a, id, FALSE)
      BY <2>1
    <3>3. /\ Departing(a, id, FALSE).op = "depart" /\ Departing(a, id, FALSE).target = a
          /\ Departing(a, id, FALSE).exitRow = id
      <4> DEFINE no == FALSE
      <4>1. no \in BOOLEAN
        OBVIOUS
      <4> HIDE DEF no
      <4>2. /\ Departing(a, id, no).op = "depart" /\ Departing(a, id, no).target = a
            /\ Departing(a, id, no).exitRow = id
        BY DepartingHas
      <4> QED BY <4>2 DEF no
    <3> QED BY <3>1, <3>2, <3>3
  <2>2. CASE handler[h].op # "quit"
    BY <2>2, IdleIsIdle, Ignorant
  <2> QED BY <2>1, <2>2
<1>12. Kinds(r.op) \subseteq Kinds(handler[h].op) /\ "moderation" \in Kinds(handler[h].op)
  BY <1>2, IdleIsIdle, DepartingHas DEF Kinds
<1>13. handler' = [handler EXCEPT ![h] = r]
  BY HandoverGoesOn
<1> QED BY <1>2, <1>4, <1>5, <1>6, <1>10, <1>11, <1>12, <1>13, ModeratorWrites DEF Open

LEMMA AssignKnows ==
    ASSUME IInv, KInv, NEW h \in Handlers, Assign(h),
           NEW u, u = handler[h].target, NEW n, n = handler[h].newRole
    PROVE  KInv'
<1>1. Knows(handler[h])
  BY InFlight
<1>2. /\ handler[h].op = "assign" /\ handler[h].step = "committing"
      /\ handler' = [handler EXCEPT ![h] = Idle]
      /\ UNCHANGED <<group, rowId, rows, request, invite, starts, raced>>
  BY DEF Assign, At, Finish
<1>3. /\ n \in {"member", "co_admin"}
      /\ \A v \in Users :
           role'[v] = IF v = u /\ SameRow(u, handler[h].targetRow) THEN n ELSE role[v]
      /\ \A v \in Users :
           part'[v] = IF v = u /\ part[u] # "none"
                      THEN IF n = "member" THEN "member" ELSE "admin" ELSE part[v]
  BY AssignRows
<1>4. Members' = Members
  BY <1>3 DEF Members, SameRow
<1>5. Blanks' /\ Open' = Open
  BY <1>2 DEF KInv, Blanks, Open
<1>6. "moderation" \notin raced =>
        Open /\ u # group.owner /\ Has(u, handler[h].targetRow)
  BY <1>1, <1>2 DEF Knows, KnowsRows
<1>7. "moderation" \notin raced => Owners' = {group.owner}
  BY <1>3, <1>6, OrderlyFacts DEF Owners
<1>8. "moderation" \notin raced => ChatAgrees'
  BY <1>2, <1>3, <1>4, <1>6, OrderlyFacts DEF ChatAgrees, Moderators, Has, SameRow
<1>9. Orderly'
  BY <1>2, <1>7, <1>8 DEF Orderly
<1>10. /\ Knows(Idle)' /\ Kinds(Idle.op) \subseteq Kinds(handler[h].op)
       /\ "moderation" \in Kinds(handler[h].op)
  BY <1>2, IdleIsIdle, Ignorant, OpsOfAKind
<1> QED BY <1>2, <1>4, <1>5, <1>9, <1>10, ModeratorWrites

\* promoteToAdmin finds the row it read, and so inserts nobody.
LEMMA PromoteWrites ==
    ASSUME IInv, KInv, NEW h \in Handlers, Promote(h), NEW u, u = handler[h].target,
           "moderation" \notin raced
    PROVE  /\ Open /\ u \in Users /\ u # group.owner /\ role[u] # "none"
           /\ \A v \in Users : role'[v] = IF v = u THEN "co_admin" ELSE role[v]
           /\ Members' = Members
<1>1. Knows(handler[h]) /\ MembersOK
  BY InFlight, TypeParts DEF IInv
<1>2. /\ handler[h].op = "promote" /\ handler[h].step = "committing"
      /\ role' = [role EXCEPT ![u] = "co_admin"]
  BY DEF Promote, At
<1>3. Open /\ u \in Users /\ u # group.owner /\ role[u] # "none"
  BY <1>1, <1>2 DEF Knows, KnowsRows, Has, SameRow
<1>4. \A v \in Users : role'[v] = IF v = u THEN "co_admin" ELSE role[v]
  BY <1>1, <1>2 DEF MembersOK
<1>5. Members' = Members
  BY <1>3, <1>4 DEF Members
<1> QED BY <1>3, <1>4, <1>5

LEMMA PromoteKnows ==
    ASSUME IInv, KInv, NEW h \in Handlers, Promote(h), NEW u, u = handler[h].target
    PROVE  KInv'
<1>1. /\ handler[h].op = "promote" /\ handler' = [handler EXCEPT ![h] = Idle]
      /\ UNCHANGED <<group, rows, part, request, invite, starts, raced>>
  BY DEF Promote, At, Finish
<1>2. Blanks' /\ Open' = Open
  BY <1>1 DEF KInv, Blanks, Open
<1>3. "moderation" \notin raced => Owners' = {group.owner}
  BY PromoteWrites, OrderlyFacts DEF Owners
<1>4. "moderation" \notin raced => ChatAgrees'
  BY <1>1, PromoteWrites, OrderlyFacts DEF ChatAgrees, Moderators
<1>5. Orderly'
  BY <1>1, <1>3, <1>4 DEF Orderly
<1>6. "moderation" \notin raced => Members' \subseteq Members
  BY PromoteWrites
<1>7. /\ Knows(Idle)' /\ Kinds(Idle.op) \subseteq Kinds(handler[h].op)
      /\ "moderation" \in Kinds(handler[h].op)
  BY <1>1, IdleIsIdle, Ignorant, OpsOfAKind
<1> QED BY <1>1, <1>2, <1>5, <1>6, <1>7, ModeratorWrites

LEMMA CascadeKnows ==
    ASSUME IInv, KInv, NEW h \in Handlers, Cascade, Finish(h),
           "moderation" \in Kinds(handler[h].op)
    PROVE  KInv'
<1>1. handler' = [handler EXCEPT ![h] = Idle] /\ raced' = raced /\ group' = Gone
  BY DEF Cascade, Finish
<1>2. group'.state = "gone"
  BY <1>1 DEF Gone
<1>3. Blanks' /\ ~ Open' /\ Orderly' /\ Members' = {}
  BY <1>1, <1>2 DEF Blanks, Open, Orderly, Members, Cascade
<1>4. Knows(Idle)' /\ Kinds(Idle.op) \subseteq Kinds(handler[h].op)
  BY IdleIsIdle, Ignorant
<1> QED BY <1>1, <1>2, <1>3, <1>4, ModeratorWrites

LEMMA DepartKnows ==
    ASSUME IInv, KInv, NEW h \in Handlers, Depart(h),
           NEW u, u = handler[h].target, NEW id, id = handler[h].exitRow
    PROVE  KInv'
<1>1. Knows(handler[h]) /\ MembersOK
  BY InFlight, TypeParts DEF IInv
<1>2. handler[h].op = "depart" /\ handler' = [handler EXCEPT ![h] = Idle]
  BY DEF Depart, At, Finish
<1>3. "moderation" \in Kinds(handler[h].op)
  BY <1>2, OpsOfAKind
<1>4. CASE handler[h].last
  BY <1>3, <1>4, CascadeKnows DEF Depart
<1>5. CASE ~ handler[h].last
  <2>1. /\ \A v \in Users : role'[v] = IF v = u /\ SameRow(u, id) THEN "none" ELSE role[v]
        /\ \A v \in Users : part'[v] = IF v = u THEN "none" ELSE part[v]
        /\ UNCHANGED <<group, rows, request, invite, starts, raced>>
    BY <1>5, DepartRows
  <2>2. Members' \subseteq Members
    BY <2>1 DEF Members
  <2>3. Blanks' /\ Open' = Open
    BY <2>1 DEF KInv, Blanks, Open
  <2>4. "moderation" \notin raced => Open /\ u # group.owner /\ Has(u, id)
    BY <1>1, <1>2, <1>5 DEF Knows, KnowsRows
  <2>5. "moderation" \notin raced => Owners' = {group.owner}
    BY <2>1, <2>4, OrderlyFacts DEF Owners
  <2>6. "moderation" \notin raced => ChatAgrees'
    BY <2>1, <2>4, OrderlyFacts DEF ChatAgrees, Moderators, Members, Has, SameRow
  <2>7. Orderly'
    BY <2>1, <2>5, <2>6 DEF Orderly
  <2>8. Knows(Idle)' /\ Kinds(Idle.op) \subseteq Kinds(handler[h].op)
    BY IdleIsIdle, Ignorant
  <2> QED BY <1>2, <1>3, <2>1, <2>2, <2>3, <2>7, <2>8, ModeratorWrites
<1> QED BY <1>4, <1>5

LEMMA DissolveKnows ==
    ASSUME IInv, KInv, NEW h \in Handlers, Dissolve(h)
    PROVE  KInv'
<1>1. "moderation" \in Kinds(handler[h].op)
  BY OpsOfAKind DEF Dissolve, At
<1> QED BY <1>1, CascadeKnows DEF Dissolve

LEMMA DisbandMarkKnows ==
    ASSUME IInv, KInv, NEW h \in Handlers, DisbandMark(h),
           NEW r, r = [handler[h] EXCEPT !.step = "reading"]
    PROVE  KInv'
<1>1. handler[h] \in HandlerRecord /\ handler[h].group \in GroupRow /\ GroupOK
  BY InFlight, Carried, TypeParts DEF IInv
<1>2. /\ handler[h].op = "disband" /\ group # Gone
      /\ group' = [handler[h].group EXCEPT !.state = "dissolved"]
      /\ UNCHANGED <<role, rowId, rows, part, request, invite, starts, raced>>
  BY DEF DisbandMark, At
<1>3. handler' = [handler EXCEPT ![h] = r]
  BY DEF DisbandMark, Goto
<1>4. group'.state = "dissolved" /\ group.state # "gone"
  BY <1>1, <1>2 DEF GroupRow, KInv, Blanks
<1>5. Blanks' /\ ~ Open' /\ Orderly' /\ Members' = Members
  BY <1>2, <1>4 DEF KInv, Blanks, Open, Orderly, Members
<1>6. r.op = "disband"
  <2>1. ASSUME NEW s \in HandlerRecord, s.op = "disband", r = [s EXCEPT !.step = "reading"]
        PROVE  r.op = "disband"
    BY <2>1 DEF HandlerRecord
  <2> QED BY <1>1, <1>2, <2>1
<1>7. Knows(r)'
  <2>1. KnowsRows(r)' /\ KnowsRoom(r)' /\ KnowsRequest(r)' /\ KnowsInvite(r)' /\ KnowsEnd(r)'
    BY <1>5, <1>6 DEF KnowsRows, KnowsRoom, KnowsRequest, Answers, KnowsInvite, KnowsEnd
  <2> QED BY <2>1 DEF Knows
<1>8. /\ Kinds(r.op) \subseteq Kinds(handler[h].op) /\ "moderation" \in Kinds(handler[h].op)
  BY <1>2, <1>6, OpsOfAKind
<1> QED BY <1>2, <1>3, <1>4, <1>5, <1>7, <1>8, ModeratorWrites

LEMMA DisbandRemoveKnows ==
    ASSUME IInv, KInv, NEW h \in Handlers, DisbandRemove(h)
    PROVE  KInv'
<1>1. Knows(handler[h])
  BY InFlight
<1>2. /\ handler[h].op = "disband" /\ handler[h].step = "removing"
      /\ handler' = [handler EXCEPT ![h] = Idle]
      /\ UNCHANGED <<group, rows, request, invite, starts, raced>>
  BY DEF DisbandRemove, At, Finish
<1>3. ~ Open
  BY <1>1, <1>2 DEF Knows, KnowsEnd
<1>4. Members' \subseteq Members
  BY DEF DisbandRemove, Members
<1>5. Blanks' /\ ~ Open' /\ Orderly'
  BY <1>2, <1>3 DEF KInv, Blanks, Open, Orderly
<1>6. /\ Knows(Idle)' /\ Kinds(Idle.op) \subseteq Kinds(handler[h].op)
      /\ "moderation" \in Kinds(handler[h].op)
  BY <1>2, IdleIsIdle, Ignorant, OpsOfAKind
<1> QED BY <1>2, <1>4, <1>5, <1>6, ModeratorWrites

\* Somebody comes in: whoever was read before keeps the row.
LEMMA NewcomerKnows ==
    ASSUME IInv, KInv, NEW h \in Handlers, NEW r, handler' = [handler EXCEPT ![h] = r],
           Kinds(r.op) \subseteq Kinds(handler[h].op), raced' = raced,
           "entry" \in Kinds(handler[h].op), InsertMember(handler[h].target),
           NEW u, u = handler[h].target,
           UNCHANGED <<group, invite>>, Knows(r)',
           \A v \in Users : v # u => part'[v] = part[v],
           u \in Users =>
             \/ part'[u] = "member"
             \/ part'[u] = "none" /\ \E i \in Invites : invite[i].user = u,
           group'.state # "gone" /\ "decision" \notin raced =>
             \A g \in Handlers : \A s :
               g # h /\ s = handler[g] /\ KnowsRequest(s) => KnowsRequest(s)'
    PROVE  KInv'
<1>1. MembersOK
  BY TypeParts DEF IInv
<1>2. /\ group.state # "gone" /\ role[u] = "none"
      /\ \A v \in Users : v # u => role'[v] = role[v] /\ rowId'[v] = rowId[v]
      /\ u \in Users => role'[u] = "member"
      /\ u \notin Users => role' = role /\ rowId' = rowId
  BY <1>1 DEF InsertMember, MembersOK
<1>3. Blanks' /\ Open' = Open
  BY DEF KInv, Blanks, Open
<1>4. "moderation" \notin raced /\ Open => Owners' = {group.owner}
  BY <1>2, OrderlyFacts DEF Owners
<1>5. "moderation" \notin raced /\ Open => ChatAgrees'
  BY <1>2, OrderlyFacts DEF ChatAgrees, Moderators, Members
<1>6. Orderly'
  BY <1>3, <1>4, <1>5 DEF Orderly
<1>7. \A v, id : Has(v, id) => Has(v, id)' /\ role'[v] = role[v]
  BY <1>2 DEF Has, SameRow
<1>8. \A s : KnowsRows(s) => KnowsRows(s)'
  BY <1>3, <1>7 DEF KnowsRows
<1>9. ASSUME raced \cap {"entry", "moderation"} = {}, NEW g \in Handlers, NEW s, g # h,
             s = handler[g]
      PROVE  KnowsRoom(s)'
  <2>1. "entry" \notin Kinds(s.op)
    BY <1>9, OthersAreNot DEF KInv
  <2> QED BY <2>1, NoRoomToKnow
<1>10. \A s : KnowsInvite(s) => KnowsInvite(s)'
  BY DEF KnowsInvite
<1> QED BY <1>3, <1>6, <1>8, <1>9, <1>10, WriteKnows

LEMMA EnterKnows ==
    ASSUME IInv, KInv, NEW h \in Handlers, Enter(h), NEW u, u = handler[h].target
    PROVE  KInv'
<1>1. MembersOK
  BY TypeParts DEF IInv
<1>2. /\ handler[h].op \in {"add", "approve"} /\ InsertMember(handler[h].target)
      /\ handler' = [handler EXCEPT ![h] = Idle]
      /\ part' = [part EXCEPT ![u] = "member"]
      /\ handler[h].op # "approve" => request' = request
      /\ UNCHANGED <<group, invite, starts, raced>>
  BY DEF Enter, At, Finish
<1>3. /\ Knows(Idle)' /\ Kinds(Idle.op) \subseteq Kinds(handler[h].op)
      /\ "entry" \in Kinds(handler[h].op)
  BY <1>2, IdleIsIdle, Ignorant, OpsOfAKind
<1>4. /\ \A v \in Users : v # u => part'[v] = part[v]
      /\ u \in Users => part'[u] = "member"
  BY <1>1, <1>2 DEF MembersOK
<1>5. ASSUME "decision" \notin raced, NEW g \in Handlers, NEW s, g # h, s = handler[g],
             KnowsRequest(s)
      PROVE  KnowsRequest(s)'
  <2>1. CASE handler[h].op = "approve"
    <3>1. "decision" \notin Kinds(s.op)
      BY <1>5, <2>1, OthersAreNot, OpsOfAKind DEF KInv
    <3> QED BY <3>1, NoRequestToKnow
  <2>2. CASE handler[h].op # "approve"
    BY <1>2, <1>5, <2>2 DEF KnowsRequest, Answers, Undecided
  <2> QED BY <2>1, <2>2
<1> QED BY <1>2, <1>3, <1>4, <1>5, NewcomerKnows

\* Who accepts an invite is a member without a participant, and the invite says so.
LEMMA AcceptInsertKnows ==
    ASSUME IInv, KInv, NEW h \in Handlers, AcceptInsert(h), NEW u, u = handler[h].target,
           NEW r, r = [handler[h] EXCEPT !.step = "answering"]
    PROVE  KInv'
<1>1. handler[h] \in HandlerRecord /\ Knows(handler[h])
  BY InFlight
<1>2. /\ handler[h].op = "accept" /\ InsertMember(handler[h].target)
      /\ handler' = [handler EXCEPT ![h] = r]
      /\ UNCHANGED <<group, part, request, invite, starts, raced>>
  BY DEF AcceptInsert, At, Goto
<1>3. ASSUME NEW s \in HandlerRecord, s.op = "accept", r = [s EXCEPT !.step = "answering"]
      PROVE  r.op = "accept" /\ r.doc = s.doc /\ r.target = s.target /\ r.step = "answering"
  BY <1>3 DEF HandlerRecord
<1>4. /\ r.op = "accept" /\ r.doc = handler[h].doc /\ r.target = u /\ r.step = "answering"
  BY <1>1, <1>2, <1>3
<1>5. KnowsInvite(handler[h])
  BY <1>1, <1>2 DEF Knows, InsertMember
<1>6. \E i \in Invites : invite[i].user = u
  BY <1>2, <1>5 DEF KnowsInvite
<1>7. Knows(r)'
  <2>1. KnowsRows(r)' /\ KnowsRequest(r)'
    BY <1>4, OpsOfAKind, NoRowsToKnow, NoRequestToKnow
  <2>2. KnowsRoom(r)' /\ KnowsEnd(r)' /\ KnowsInvite(r)'
    BY <1>2, <1>4, <1>5 DEF KnowsRoom, KnowsEnd, KnowsInvite
  <2> QED BY <2>1, <2>2 DEF Knows
<1>8. Kinds(r.op) \subseteq Kinds(handler[h].op) /\ "entry" \in Kinds(handler[h].op)
  BY <1>2, <1>4, OpsOfAKind
<1>9. u \in Users => part[u] = "none"
  BY <1>2 DEF IInv, ParticipantIsMember, Members, InsertMember
<1>10. \A s : KnowsRequest(s) => KnowsRequest(s)'
  BY <1>2 DEF KnowsRequest, Answers, Undecided
<1> QED BY <1>2, <1>6, <1>7, <1>8, <1>9, <1>10, NewcomerKnows

\* A step that files or answers something, or sets the approval, and is done.
LEMMA DocumentKnows ==
    ASSUME IInv, KInv, NEW h \in Handlers, Finish(h), UNCHANGED <<role, rowId, part, raced>>,
           group'.state = group.state, group'.owner = group.owner, Blanks',
           \A i \in Invites : invite[i].status # "none" =>
             invite'[i].user = invite[i].user /\ invite'[i].status # "none",
           "decision" \notin raced =>
             \A g \in Handlers : \A s :
               g # h /\ s = handler[g] /\ KnowsRequest(s) => KnowsRequest(s)'
    PROVE  KInv'
<1>1. handler' = [handler EXCEPT ![h] = Idle] /\ Open' = Open
  BY DEF Finish, Open
<1>2. /\ Members' = Members /\ Owners' = Owners /\ Moderators' = Moderators
      /\ HasRoom' = HasRoom /\ \A v, id : Has(v, id)' = Has(v, id)
  BY DEF Members, Owners, Moderators, HasRoom, Has, SameRow
<1>3. ChatAgrees => ChatAgrees'
  <2>1. \A i \in Invites : invite[i].user \in Users => invite'[i].user = invite[i].user
    BY GroupAssumption DEF KInv, Blanks
  <2> QED BY <1>2, <2>1 DEF ChatAgrees
<1>4. Orderly'
  BY <1>1, <1>2, <1>3 DEF KInv, Orderly
<1>5. \A s : /\ KnowsRows(s) => KnowsRows(s)'
             /\ KnowsRoom(s) => KnowsRoom(s)'
             /\ KnowsInvite(s) => KnowsInvite(s)'
  BY <1>1, <1>2 DEF KnowsRows, KnowsRoom, KnowsInvite
<1>6. Knows(Idle)' /\ Kinds(Idle.op) \subseteq Kinds(handler[h].op)
  BY IdleIsIdle, Ignorant
<1> QED BY <1>1, <1>4, <1>5, <1>6, WriteKnows

LEMMA SaveRequestKnows ==
    ASSUME IInv, KInv, NEW h \in Handlers, NEW q \in Requests, SaveRequest(h, q)
    PROVE  KInv'
<1>1. /\ UNCHANGED <<group, role, rowId, rows, part, invite, starts, raced>> /\ Finish(h)
      /\ \A p \in Requests : p # q => request'[p] = request[p]
      /\ request[q].status = "none"
  BY DEF SaveRequest
<1>2. Blanks'
  BY <1>1 DEF KInv, Blanks
<1>3. \A s : KnowsRequest(s) => KnowsRequest(s)'
  BY <1>1 DEF KnowsRequest, Undecided, Answers
<1> QED BY <1>1, <1>2, <1>3, DocumentKnows

LEMMA RejectKnows ==
    ASSUME IInv, KInv, NEW h \in Handlers, Reject(h)
    PROVE  KInv'
<1>1. /\ UNCHANGED <<group, role, rowId, rows, part, invite, starts, raced>> /\ Finish(h)
      /\ "decision" \in Kinds(handler[h].op)
  BY OpsOfAKind DEF Reject, At
<1>2. Blanks'
  BY <1>1 DEF KInv, Blanks
<1>3. ASSUME "decision" \notin raced, NEW g \in Handlers, NEW s, g # h, s = handler[g]
      PROVE  KnowsRequest(s)'
  <2>1. "decision" \notin Kinds(s.op)
    BY <1>1, <1>3, OthersAreNot DEF KInv
  <2> QED BY <2>1, NoRequestToKnow
<1> QED BY <1>1, <1>2, <1>3, DocumentKnows

LEMMA AnswerKnows ==
    ASSUME IInv, KInv, NEW h \in Handlers, Answer(h)
    PROVE  KInv'
<1>0. DocumentsOK
  BY TypeParts DEF IInv
<1>1. /\ UNCHANGED <<group, role, rowId, rows, part, request, starts, raced>> /\ Finish(h)
      /\ invite' = [invite EXCEPT ![handler[h].doc].status =
                      IF handler[h].op = "accept" THEN "accepted" ELSE "declined"]
      /\ handler[h].op \in {"accept", "decline"} /\ group.state # "gone"
  BY DEF Answer, At
<1>2. \A i \in Invites : /\ invite'[i].user = invite[i].user
                         /\ i # handler[h].doc => invite'[i] = invite[i]
                         /\ i = handler[h].doc => invite'[i].status # "none"
  BY <1>0, <1>1 DEF DocumentsOK, Documents
<1>3. Blanks'
  BY <1>1, <1>2 DEF KInv, Blanks
<1>4. \A s : KnowsRequest(s) => KnowsRequest(s)'
  BY <1>1 DEF KnowsRequest, Undecided, Answers
<1> QED BY <1>1, <1>2, <1>3, <1>4, DocumentKnows

LEMMA SaveInviteKnows ==
    ASSUME IInv, KInv, NEW h \in Handlers, NEW i \in Invites, SaveInvite(h, i)
    PROVE  KInv'
<1>0. DocumentsOK
  BY TypeParts DEF IInv
<1>1. /\ UNCHANGED <<group, role, rowId, rows, part, request, starts, raced>> /\ Finish(h)
      /\ invite[i].status = "none"
      /\ invite' = [invite EXCEPT ![i] = [user |-> handler[h].target, status |-> "pending"]]
  BY DEF SaveInvite
<1>2. \A j \in Invites : /\ j # i => invite'[j] = invite[j]
                         /\ j = i => invite'[j].status = "pending"
  BY <1>0, <1>1 DEF DocumentsOK, Documents
<1>3. Blanks'
  BY <1>1, <1>2 DEF KInv, Blanks
<1>4. \A s : KnowsRequest(s) => KnowsRequest(s)'
  BY <1>1 DEF KnowsRequest, Undecided, Answers
<1> QED BY <1>1, <1>2, <1>3, <1>4, DocumentKnows

LEMMA SaveApprovalKnows ==
    ASSUME IInv, KInv, NEW h \in Handlers, NEW on \in BOOLEAN, SaveApproval(h, on)
    PROVE  KInv'
<1>1. /\ UNCHANGED <<role, rowId, rows, part, request, invite, starts, raced>> /\ Finish(h)
      /\ group' = IF group = Gone THEN Gone ELSE [group EXCEPT !.approval = on]
      /\ GroupOK
  BY TypeParts DEF SaveApproval, IInv
<1>2. group'.state = group.state /\ group'.owner = group.owner
  BY <1>1 DEF GroupOK, GroupRow
<1>3. Blanks'
  BY <1>1, <1>2 DEF KInv, Blanks
<1>4. \A s : KnowsRequest(s) => KnowsRequest(s)'
  BY <1>1 DEF KnowsRequest, Undecided, Answers
<1> QED BY <1>1, <1>2, <1>3, <1>4, DocumentKnows

-----------------------------------------------------------------------------
(* The theorems about handlers that do not overlap. *)

LEMMA InitKnows == Init => KInv
<1> SUFFICES ASSUME Init PROVE KInv
  OBVIOUS
<1>1. /\ \A g \in Handlers : handler[g] = Idle /\ Kinds(handler[g].op) = {}
      /\ group.state = "open"
      /\ \A i \in Invites : invite[i].status = "none" /\ invite[i].user = None
  BY IdleIsIdle DEF Init
<1>2. OneOfAKind /\ Blanks
  BY <1>1 DEF OneOfAKind, Blanks
<1>3. Owners = {group.owner} /\ ChatAgrees
  BY DEF Init, Owners, ChatAgrees, Members, Moderators
<1>4. \A g \in Handlers : Knows(handler[g])
  BY <1>1, IdleIsIdle, Ignorant
<1> QED BY <1>2, <1>3, <1>4 DEF KInv, Orderly

LEMMA NextKnows == IInv /\ KInv /\ [Next]_vars => KInv'
<1> SUFFICES ASSUME IInv, KInv, [Next]_vars PROVE KInv'
  OBVIOUS
<1>1. CASE UNCHANGED vars
  <2>1. UNCHANGED tables /\ raced' = raced /\ handler' = handler
    BY <1>1 DEF vars, tables
  <2>2. Blanks' /\ Orderly' /\ \A s : Knows(s) => Knows(s)'
    BY <2>1, SameTables DEF KInv
  <2>3. OneOfAKind'
    BY <2>1 DEF KInv, OneOfAKind
  <2>4. (\A g \in Handlers : Knows(handler[g]))'
    <3> SUFFICES ASSUME NEW g \in Handlers PROVE Knows(handler[g])'
      OBVIOUS
    <3>1. ASSUME NEW s, s = handler'[g], Knows(s)' PROVE Knows(handler[g])'
      BY <3>1 DEF Knows, KnowsEnd, KnowsRows, KnowsRoom, KnowsInvite, KnowsRequest, Answers
    <3> QED BY <2>1, <2>2, <3>1 DEF KInv
  <2> QED BY <2>2, <2>3, <2>4 DEF KInv
<1>2. ASSUME NEW h \in Handlers, Enters(h) PROVE KInv'
  <2>1. CASE Enter(h)
    BY <2>1, EnterKnows
  <2>2. CASE AcceptInsert(h)
    BY <2>2, AcceptInsertKnows
  <2>3. CASE ~ Enter(h) /\ ~ AcceptInsert(h)
    BY <1>2, <2>3, EntersKnow, RequestReadKnows, CapacityCheckKnows, AcceptExistingKnows,
       SaveRequestKnows, SaveInviteKnows, RejectKnows, AnswerKnows DEF Enters
  <2> QED BY <2>1, <2>2, <2>3
<1>3. ASSUME NEW h \in Handlers, Moderates(h) PROVE KInv'
  <2>1. CASE Handover(h)
    BY <2>1, HandoverKnows
  <2>2. CASE Assign(h)
    BY <2>2, AssignKnows
  <2>3. CASE Promote(h)
    BY <2>3, PromoteKnows
  <2>4. CASE Depart(h)
    BY <2>4, DepartKnows
  <2>5. CASE ~ Handover(h) /\ ~ Assign(h) /\ ~ Promote(h) /\ ~ Depart(h)
    BY <1>3, <2>5, ModerateKnows, LeaveKnows, TargetReadKnows, AssignReadKnows,
       LeaveReadKnows, QuitReadKnows, QuitAuthoriseKnows, QuitTargetKnows DEF Moderates
  <2> QED BY <2>1, <2>2, <2>3, <2>4, <2>5
<1>4. ASSUME NEW h \in Handlers, Ends(h) PROVE KInv'
  <2>1. CASE DisbandMark(h)
    BY <2>1, DisbandMarkKnows
  <2>2. CASE ~ DisbandMark(h)
    BY <1>4, <2>2, EndKnows, EntersKnow, DissolveKnows, DisbandReadKnows, DisbandRemoveKnows,
       SaveApprovalKnows DEF Ends
  <2> QED BY <2>1, <2>2
<1>5. ASSUME NEW h \in Handlers, Throws(h) PROVE KInv'
  BY <1>5, ThrowsKnow
<1> QED BY <1>1, <1>2, <1>3, <1>4, <1>5 DEF Next

LEMMA Knowledge == Spec => [](IInv /\ KInv)
<1>1. Init => IInv /\ KInv
  BY InitInv, InitKnows
<1>2. IInv /\ KInv /\ [Next]_vars => (IInv /\ KInv)'
  BY NextInv, NextKnows
<1> QED BY <1>1, <1>2, PTL DEF Spec

\* While no two handlers that change roles or remove members overlap, an open group has
\* exactly one owner, the one its row names: also between the commit of the successor and
\* the leaving of the former owner in leaveGroup, and however many people come in meanwhile.
THEOREM SingleOwner == Spec => []OneOwner
<1>1. KInv => OneOwner
  BY DEF KInv, Orderly, OneOwner
<1> QED BY <1>1, Knowledge, PTL

\* Under the same proviso the three services keep the participants in step with the members:
\* only who came by an invite is missing from the chat, and an admin of the chat moderates.
THEOREM ChatFollowsMembers == Spec => []TablesAgree
<1>1. KInv => TablesAgree
  BY DEF KInv, Orderly, ChatAgrees, TablesAgree
<1> QED BY <1>1, Knowledge, PTL

\* The steps that write a table; all others only read.
Writes(h) ==
    \/ \E q \in Requests : SaveRequest(h, q)
    \/ \E i \in Invites : SaveInvite(h, i)
    \/ Enter(h) \/ Reject(h) \/ AcceptInsert(h) \/ Answer(h)
    \/ Handover(h) \/ Assign(h) \/ Promote(h) \/ Depart(h)
    \/ Dissolve(h) \/ DisbandMark(h) \/ DisbandRemove(h)
    \/ \E on \in BOOLEAN : SaveApproval(h, on)

LEMMA ReadsWriteNothing ==
    ASSUME [Next]_vars
    PROVE  \/ UNCHANGED tables
           \/ \E h \in Handlers : Writes(h) /\ raced' = raced
<1>1. ASSUME NEW h \in Handlers, NEW r, Check(h, r) \/ Begin(h, r)
      PROVE  UNCHANGED tables
  BY <1>1 DEF Check, Begin
<1>2. ASSUME NEW h \in Handlers, Enters(h), ~ Writes(h) PROVE UNCHANGED tables
  BY <1>1, <1>2 DEF Enters, Writes, Add, Join, RequestRead, Decide, CapacityCheck, Invite,
                    AcceptRead, DeclineRead, AcceptExisting
<1>3. ASSUME NEW h \in Handlers, Moderates(h), ~ Writes(h) PROVE UNCHANGED tables
  BY <1>1, <1>3 DEF Moderates, Writes, Moderate, TargetRead, AssignRead, Leave, LeaveRead,
                    QuitRead, QuitAuthorise, QuitTarget
<1>4. ASSUME NEW h \in Handlers, Ends(h), ~ Writes(h) PROVE UNCHANGED tables
  BY <1>1, <1>4 DEF Ends, Writes, End, DisbandRead, SetApproval
<1>5. ASSUME NEW h \in Handlers, Throws(h) PROVE UNCHANGED tables
  BY <1>5 DEF Throws
<1>6. ASSUME NEW h \in Handlers, Writes(h) PROVE raced' = raced
  BY <1>6 DEF Writes, SaveRequest, SaveInvite, Enter, Reject, AcceptInsert, Answer, Handover,
              Assign, Promote, Depart, Dissolve, DisbandMark, DisbandRemove, SaveApproval,
              Cascade
<1>7. CASE UNCHANGED vars
  BY <1>7 DEF vars, tables
<1> QED BY <1>2, <1>3, <1>4, <1>5, <1>6, <1>7 DEF Next

LEMMA NewcomerFits ==
    ASSUME HasRoom, NEW u, InsertMember(u), MembersOK
    PROVE  Cardinality(Members') <= Limit
<1>1. IsFiniteSet(Members)
  BY FS_Subset, GroupAssumption DEF Members
<1>2. Members' \subseteq Members \cup {u}
  BY DEF Members, InsertMember, MembersOK
<1>3. /\ IsFiniteSet(Members \cup {u}) /\ Cardinality(Members) \in Nat
      /\ Cardinality(Members \cup {u}) <= Cardinality(Members) + 1
  BY <1>1, FS_AddElement, FS_CardinalityType
<1>4. /\ Cardinality(Members') \in Nat
      /\ Cardinality(Members') <= Cardinality(Members \cup {u})
  BY <1>2, <1>3, FS_Subset, FS_CardinalityType
<1>5. Cardinality(Members \cup {u}) \in Nat
  BY <1>3, FS_CardinalityType
<1> QED BY <1>3, <1>4, <1>5, GroupAssumption DEF HasRoom

\* While no two handlers that take somebody in or change the members overlap, nobody is let
\* into a group that is full, by whichever of the four ways in.
THEOREM NobodyOverTheLimit == Spec => GrowsToLimit
<1>1. ASSUME IInv, KInv, [Next]_vars, {"entry", "moderation"} \cap raced' = {},
             ~ (Members' \subseteq Members)
      PROVE  Cardinality(Members') <= Limit
  <2>1. ~ UNCHANGED tables
    BY <1>1 DEF tables, Members
  <2>2. PICK h \in Handlers : Writes(h) /\ raced' = raced
    BY <1>1, <2>1, ReadsWriteNothing
  <2>3. Knows(handler[h]) /\ MembersOK /\ raced \cap {"entry", "moderation"} = {}
    BY <1>1, <2>2, InFlight, TypeParts DEF IInv
  <2>4. CASE Enter(h) \/ AcceptInsert(h)
    <3>1. HasRoom
      BY <2>3, <2>4 DEF Knows, KnowsRoom, Enter, AcceptInsert, At
    <3> QED BY <2>3, <2>4, <3>1, NewcomerFits DEF Enter, AcceptInsert
  <2>5. CASE Handover(h) \/ Assign(h) \/ Promote(h) \/ Depart(h)
    <3>1. CASE Handover(h)
      BY <1>1, <3>1, HandoverRows DEF Members, SameRow
    <3>2. CASE Assign(h)
      BY <1>1, <3>2, AssignRows DEF Members, SameRow
    <3>3. CASE Promote(h)
      BY <1>1, <2>3, <3>3, PromoteWrites
    <3>4. CASE Depart(h) /\ handler[h].last
      BY <1>1, <3>4 DEF Depart, Cascade, Members
    <3>5. CASE Depart(h) /\ ~ handler[h].last
      BY <1>1, <3>5, DepartRows DEF Members
    <3> QED BY <2>5, <3>1, <3>2, <3>3, <3>4, <3>5
  <2>6. CASE ~ (Enter(h) \/ AcceptInsert(h) \/ Handover(h) \/ Assign(h) \/ Promote(h)
                \/ Depart(h))
    BY <1>1, <2>2, <2>6 DEF Writes, SaveRequest, SaveInvite, Reject, Answer, Dissolve,
       DisbandMark, DisbandRemove, SaveApproval, Cascade, Members
  <2> QED BY <2>4, <2>5, <2>6
<1>2. IInv /\ KInv /\ [Next]_vars =>
        [{"entry", "moderation"} \cap raced' = {} =>
           Members' \subseteq Members \/ Cardinality(Members') <= Limit]_vars
  BY <1>1
<1> QED BY <1>2, Knowledge, PTL DEF Spec, GrowsToLimit

\* Unless two handlers answer requests at a time, an answered request keeps its answer as
\* long as the group is there.
THEOREM AnswersStand == Spec => DecisionIsFinal
<1>1. ASSUME IInv, KInv, [Next]_vars, NEW q \in Requests,
             request[q].status \in {"approved", "rejected"},
             "decision" \notin raced', group' # Gone
      PROVE  request'[q] = request[q]
  <2>1. CASE UNCHANGED tables
    BY <2>1 DEF tables
  <2>2. CASE \E h \in Handlers : Writes(h) /\ raced' = raced
    <3>1. PICK h \in Handlers : Writes(h) /\ raced' = raced
      BY <2>2
    <3>2. Knows(handler[h])
      BY <1>1, InFlight
    <3>3. CASE Enter(h) \/ Reject(h)
      <4>1. CASE request' = request
        BY <4>1
      <4>2. CASE request' # request
        <5>1. Answers(handler[h]) /\ group.state # "gone"
          BY <3>3, <4>2 DEF Enter, Reject, Answers, At, InsertMember
        <5>2. q # handler[h].doc
          BY <1>1, <3>1, <3>2, <5>1 DEF Knows, KnowsRequest, Undecided
        <5>3. PICK st : request' = [request EXCEPT ![handler[h].doc].status = st]
          BY <3>3, <4>2 DEF Enter, Reject
        <5>4. DOMAIN request = Requests
          BY <1>1, TypeParts DEF IInv, DocumentsOK, Documents
        <5> QED BY <5>2, <5>3, <5>4
      <4> QED BY <4>1, <4>2
    <3>4. CASE \E p \in Requests : SaveRequest(h, p)
      BY <1>1, <3>4 DEF SaveRequest
    <3>5. CASE Depart(h) \/ Dissolve(h)
      BY <1>1, <3>5 DEF Depart, Dissolve, Cascade
    <3>6. CASE ~ (Enter(h) \/ Reject(h) \/ Depart(h) \/ Dissolve(h)
                  \/ \E p \in Requests : SaveRequest(h, p))
      BY <3>1, <3>6 DEF Writes, SaveInvite, AcceptInsert, Answer, Handover, Assign, Promote,
                        DisbandMark, DisbandRemove, SaveApproval
    <3> QED BY <3>3, <3>4, <3>5, <3>6
  <2> QED BY <1>1, <2>1, <2>2, ReadsWriteNothing
<1>2. IInv /\ KInv /\ [Next]_vars =>
        [\A q \in Requests :
           request[q].status \in {"approved", "rejected"} =>
             request'[q] = request[q] \/ "decision" \in raced' \/ group' = Gone]_vars
  BY <1>1
<1> QED BY <1>2, Knowledge, PTL DEF Spec, DecisionIsFinal
=============================================================================
