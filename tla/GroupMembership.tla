-------------------------- MODULE GroupMembership --------------------------
(***************************************************************************)
(* One group and its tables: the group row, the member rows with their     *)
(* roles, the conversation participants (who may chat), join requests and  *)
(* invites, under the handlers of GroupsService, GroupManagementService    *)
(* and GroupInviteService.                                                 *)
(*                                                                         *)
(* A handler looks up its authority, then what it acts on, and commits one *)
(* transaction.  Nothing is locked in between.  A member row has an id of  *)
(* its own: a commit that updates or deletes by id misses a row that was   *)
(* replaced, and save() inserts again a row that was deleted.              *)
(***************************************************************************)
EXTENDS Naturals, FiniteSets

CONSTANTS
    Users,
    Handlers,     \* handlers that may run at a time
    Requests,     \* ids of join requests
    Invites,      \* ids of group invites
    Limit,        \* GROUP_MEMBER_LIMIT
    CoAdminLimit, \* CO_ADMIN_LIMIT
    MaxStarts,    \* bound on the handlers that start in a behaviour
    None

ASSUME GroupAssumption ==
    /\ IsFiniteSet(Users)
    /\ Limit \in Nat /\ CoAdminLimit \in Nat /\ MaxStarts \in Nat
    /\ None \notin Users \cup Requests \cup Invites

VARIABLES
    group,      \* the group row: state, ownerId and joinRequireApproval
    role,       \* role in each user's member row, "none" without one
    rowId,      \* id of that row, 0 without one
    rows,       \* member rows a user has had so far
    part,       \* role in each user's participant row, "none" without one
    request,    \* the join requests
    invite,     \* the invites
    handler,    \* the running handlers
    starts,     \* handlers started so far
    raced       \* history: kinds of handlers that ran beside one of their own kind

vars == <<group, role, rowId, rows, part, request, invite, handler, starts, raced>>
tables == <<group, role, rowId, rows, part, request, invite>>

\* The group row once deleted.
Gone == [state |-> "gone", owner |-> None, approval |-> FALSE]

\* What a handler knows and still needs: its actor with role and row, its target with row
\* and role to give, the row it will delete, the request or invite, the group row, the members.
Idle == [op |-> "idle", step |-> "idle", actor |-> None, actorRole |-> "none", actorRow |-> 0,
         target |-> None, targetRow |-> 0, newRole |-> "none", exitRow |-> 0, doc |-> None,
         group |-> Gone, last |-> FALSE, found |-> {}]

Members    == {u \in Users : role[u] # "none"}
Moderators == {u \in Users : role[u] \in {"owner", "co_admin"}}
Owners     == {u \in Users : role[u] = "owner"}

Open == group.state = "open"

\* The row with this id is still the member row of u.
SameRow(u, id) == role[u] # "none" /\ rowId[u] = id

\* createGroupConversation: the creator owns the group, the others are plain members.
\* People who left since then make smaller groups, so any set of members is a start.
Init ==
    \E creator \in Users, first \in SUBSET Users :
        /\ creator \in first
        /\ group \in [state : {"open"}, owner : {creator}, approval : BOOLEAN]
        /\ role = [u \in Users |-> IF u = creator THEN "owner"
                                   ELSE IF u \in first THEN "member" ELSE "none"]
        /\ rowId = [u \in Users |-> IF u \in first THEN 1 ELSE 0]
        /\ rows = rowId
        /\ part = [u \in Users |-> IF u = creator THEN "admin"
                                   ELSE IF u \in first THEN "member" ELSE "none"]
        /\ request = [q \in Requests |-> [user |-> None, status |-> "none"]]
        /\ invite = [i \in Invites |-> [user |-> None, status |-> "none"]]
        /\ handler = [h \in Handlers |-> Idle]
        /\ starts = 0
        /\ raced = {}

(***************************************************************************)
(* How a handler starts, goes on and stops.                                *)
(***************************************************************************)

Kinds(op) ==
    CASE op \in {"add", "accept"} -> {"entry"}
      [] op = "approve" -> {"entry", "decision"}
      [] op = "reject"  -> {"decision"}
      [] op = "promote" -> {"entry", "moderation"}
      [] op \in {"transfer", "assign", "kick", "remove", "leave", "quit", "depart",
                 "dissolve", "disband"} -> {"moderation"}
      [] OTHER -> {}

\* Handler h starts as record r: all it has done so far is read.
Begin(h, r) ==
    /\ handler[h] = Idle
    /\ starts < MaxStarts
    /\ starts' = starts + 1
    /\ handler' = [handler EXCEPT ![h] = r]
    /\ LET others == UNION {Kinds(handler[g].op) : g \in Handlers}
       IN  raced' = raced \cup (Kinds(r.op) \cap others)
    /\ UNCHANGED tables

\* A step of h that only reads.
Check(h, r) ==
    /\ handler' = [handler EXCEPT ![h] = r]
    /\ UNCHANGED <<tables, starts, raced>>

Goto(h, step) == handler' = [handler EXCEPT ![h].step = step]
Finish(h)     == handler' = [handler EXCEPT ![h] = Idle]

At(h, ops, step) == handler[h].op \in ops /\ handler[h].step = step

\* A check fails, a constraint of the database does, or a query: the handler throws, and
\* what it committed before stays.
Throws(h) ==
    /\ handler[h] # Idle
    /\ Finish(h)
    /\ UNCHANGED <<tables, starts, raced>>

Starting(op) == [Idle EXCEPT !.op = op, !.step = "authorised"]

\* No row of the group is left: everything refers to the conversation ON DELETE CASCADE.
Cascade ==
    /\ group' = Gone
    /\ role' = [u \in Users |-> "none"]
    /\ rowId' = [u \in Users |-> 0]
    /\ part' = [u \in Users |-> "none"]
    /\ request' = [q \in Requests |-> [user |-> None, status |-> "none"]]
    /\ invite' = [i \in Invites |-> [user |-> None, status |-> "none"]]
    /\ UNCHANGED <<rows, starts, raced>>

(***************************************************************************)
(* Coming in: addMembers, joinGroup, approveJoinRequest, acceptInvite.     *)
(***************************************************************************)

Add(h, a, u) ==
    /\ Open /\ a \in Moderators /\ a # u
    /\ Begin(h, [Starting("add") EXCEPT !.step = "entitled", !.target = u])

\* joinGroup: with approval required it goes on to make a request.
Join(h, u) ==
    /\ Open /\ u \notin Members
    /\ IF group.approval
       THEN /\ \A q \in Requests : request[q] # [user |-> u, status |-> "pending"]
            /\ Begin(h, [Starting("request") EXCEPT !.step = "requesting", !.target = u])
       ELSE Begin(h, [Starting("add") EXCEPT !.step = "entitled", !.target = u])

SaveRequest(h, q) ==
    /\ At(h, {"request"}, "requesting")
    /\ group.state # "gone"
    /\ request[q].status = "none"
    /\ request' = [request EXCEPT ![q] = [user |-> handler[h].target, status |-> "pending"]]
    /\ Finish(h)
    /\ UNCHANGED <<group, role, rowId, rows, part, invite, starts, raced>>

Decide(h, op, a, q) ==
    /\ Open /\ a \in Moderators
    /\ Begin(h, [Starting(op) EXCEPT !.doc = q])

\* Mutant: a request is decided whatever was decided before.
Undecided_Any(q) == request[q].status # "none"

\* The requests that can be approved or rejected.
Undecided(q) == request[q].status = "pending"

RequestRead(h, q) ==
    /\ At(h, {"approve", "reject"}, "authorised")
    /\ handler[h].doc = q /\ Undecided(q)
    /\ Check(h, [handler[h] EXCEPT
                   !.target = request[q].user,
                   !.step = IF handler[h].op = "approve" THEN "entitled" ELSE "rejecting"])

AcceptRead(h, i) ==
    /\ invite[i].status = "pending"
    /\ Begin(h, [Starting("accept") EXCEPT !.step = "entitled", !.doc = i,
                                         !.target = invite[i].user])

\* Mutant: off by one.
HasRoom_OffByOne == Cardinality(Members) <= Limit

HasRoom == Cardinality(Members) < Limit

\* The newcomer is no member yet and the group has room.
CapacityCheck(h) ==
    /\ At(h, {"add", "approve", "accept"}, "entitled")
    /\ handler[h].target \notin Members
    /\ HasRoom
    /\ Check(h, [handler[h] EXCEPT !.step = "cleared"])

\* A new member row; the index on group and user refuses a second one, the foreign key
\* a group that is gone.
InsertMember(u) ==
    /\ group.state # "gone"
    /\ role[u] = "none"
    /\ role' = [role EXCEPT ![u] = "member"]
    /\ rows' = [rows EXCEPT ![u] = @ + 1]
    /\ rowId' = [rowId EXCEPT ![u] = rows[u] + 1]

\* One transaction for the member, the participant and the request.
Enter(h) ==
    /\ At(h, {"add", "approve"}, "cleared")
    /\ InsertMember(handler[h].target)
    /\ part' = [part EXCEPT ![handler[h].target] = "member"]
    /\ request' = IF handler[h].op = "approve"
                  THEN [request EXCEPT ![handler[h].doc].status = "approved"] ELSE request
    /\ Finish(h)
    /\ UNCHANGED <<group, invite, starts, raced>>

Reject(h) ==
    /\ At(h, {"reject"}, "rejecting")
    /\ group.state # "gone"
    /\ request' = [request EXCEPT ![handler[h].doc].status = "rejected"]
    /\ Finish(h)
    /\ UNCHANGED <<group, role, rowId, rows, part, invite, starts, raced>>

\* acceptInvite inserts the member alone, or none if there is one, and saves the invite
\* afterwards.
AcceptInsert(h) ==
    /\ At(h, {"accept"}, "cleared")
    /\ InsertMember(handler[h].target)
    /\ Goto(h, "answering")
    /\ UNCHANGED <<group, part, request, invite, starts, raced>>

AcceptExisting(h) ==
    /\ At(h, {"accept"}, "entitled")
    /\ handler[h].target \in Members
    /\ Check(h, [handler[h] EXCEPT !.step = "answering"])

DeclineRead(h, i) ==
    /\ invite[i].status = "pending"
    /\ Begin(h, [Starting("decline") EXCEPT !.step = "answering", !.doc = i])

Answer(h) ==
    /\ At(h, {"accept", "decline"}, "answering")
    /\ group.state # "gone"
    /\ invite' = [invite EXCEPT ![handler[h].doc].status =
                    IF handler[h].op = "accept" THEN "accepted" ELSE "declined"]
    /\ Finish(h)
    /\ UNCHANGED <<group, role, rowId, rows, part, request, starts, raced>>

\* sendInvite: any member of a group, dissolved or not, may ask someone who is none.
Invite(h, a, u) ==
    /\ group.state # "gone" /\ a \in Members /\ u \notin Members /\ HasRoom
    /\ \A i \in Invites : invite[i] # [user |-> u, status |-> "pending"]
    /\ Begin(h, [Starting("invite") EXCEPT !.step = "inviting", !.target = u])

SaveInvite(h, i) ==
    /\ At(h, {"invite"}, "inviting")
    /\ group.state # "gone"
    /\ invite[i].status = "none"
    /\ invite' = [invite EXCEPT ![i] = [user |-> handler[h].target, status |-> "pending"]]
    /\ Finish(h)
    /\ UNCHANGED <<group, role, rowId, rows, part, request, starts, raced>>

(***************************************************************************)
(* Roles: transferAdmin, updateMemberRole, promoteToAdmin.                 *)
(***************************************************************************)

\* All that is left to do: the row id of u goes, and the group with the last one.
Departing(u, id, last) ==
    [Starting("depart") EXCEPT !.step = "departing", !.target = u, !.exitRow = id,
                               !.last = last]

\* The role a in the group must have to start op.
Entitled(op, a) ==
    IF op \in {"kick", "remove"} THEN a \in Moderators ELSE a \in Owners

Moderate(h, op, a, u) ==
    /\ Open /\ Entitled(op, a) /\ a # u
    /\ Begin(h, CASE op = "transfer" ->
                       [Starting(op) EXCEPT !.actor = a, !.actorRow = rowId[a], !.target = u]
                  [] op \in {"kick", "remove"} ->
                       [Starting(op) EXCEPT !.actorRole = role[a], !.target = u]
                  [] OTHER -> [Starting(op) EXCEPT !.target = u])

\* Mutant: a co-admin removes the owner.
MayChange_Owner(op, by, of) == op \in {"assign", "promote"} => of # "owner"

\* What a handler started in role by may do to a member in role of.
MayChange(op, by, of) ==
    CASE op = "transfer"               -> TRUE
      [] op \in {"assign", "promote"} -> of # "owner"
      [] op = "kick"                   -> ~ (by = "co_admin" /\ of = "owner")
      [] op = "remove"                 -> of # "owner" /\ (of = "co_admin" => by = "owner")

TargetRead(h) ==
    /\ At(h, {"transfer", "promote", "kick", "remove"}, "authorised")
    /\ LET u == handler[h].target IN
       /\ u \in Members
       /\ MayChange(handler[h].op, handler[h].actorRole, role[u])
       /\ Check(h, IF handler[h].op \in {"kick", "remove"} THEN Departing(u, rowId[u], FALSE)
                   ELSE [handler[h] EXCEPT !.targetRow = rowId[u], !.step = "committing"])

\* Mutant: rows are addressed by user.
WithRole_ByUser(f, u, id, r) == [f EXCEPT ![u] = r]

\* f with role r in the member row id of u, if that row is still there.
WithRole(f, u, id, r) == IF SameRow(u, id) THEN [f EXCEPT ![u] = r] ELSE f

\* f with role r in the participant row of u, if there is one.
WithPart(f, u, r) == IF part[u] # "none" THEN [f EXCEPT ![u] = r] ELSE f

\* Mutant: the former owner stays an admin of the chat.
Handover_KeepsAdmin(h) ==
    /\ At(h, {"transfer", "quit"}, "committing")
    /\ LET a == handler[h].actor
           u == handler[h].target
       IN  /\ group' = IF group = Gone THEN Gone ELSE [group EXCEPT !.owner = u]
           /\ role' = WithRole(WithRole(role, a, handler[h].actorRow, "member"),
                               u, handler[h].targetRow, "owner")
           /\ part' = WithPart(part, u, "admin")
    /\ handler' = [handler EXCEPT ![h] =
                     IF @.op = "quit" THEN Departing(@.actor, @.exitRow, FALSE) ELSE Idle]
    /\ UNCHANGED <<rowId, rows, request, invite, starts, raced>>

\* The transaction of transferAdmin.
Handover(h) ==
    /\ At(h, {"transfer", "quit"}, "committing")
    /\ LET a == handler[h].actor
           u == handler[h].target
       IN  /\ group' = IF group = Gone THEN Gone ELSE [group EXCEPT !.owner = u]
           /\ role' = WithRole(WithRole(role, a, handler[h].actorRow, "member"),
                               u, handler[h].targetRow, "owner")
           /\ part' = WithPart(WithPart(part, a, "member"), u, "admin")
    /\ handler' = [handler EXCEPT ![h] =
                     IF @.op = "quit" THEN Departing(@.actor, @.exitRow, FALSE) ELSE Idle]
    /\ UNCHANGED <<rowId, rows, request, invite, starts, raced>>

\* updateMemberRole: a further co-admin needs room among the co-admins.
AssignRead(h, r) ==
    /\ At(h, {"assign"}, "authorised")
    /\ LET u == handler[h].target IN
       /\ u \in Members /\ MayChange("assign", "owner", role[u])
       /\ r = "co_admin" /\ role[u] # "co_admin" =>
             Cardinality({v \in Users : role[v] = "co_admin"}) < CoAdminLimit
       /\ Check(h, [handler[h] EXCEPT !.targetRow = rowId[u], !.newRole = r,
                                      !.step = "committing"])

Assign(h) ==
    /\ At(h, {"assign"}, "committing")
    /\ LET u == handler[h].target
           r == handler[h].newRole
       IN  /\ role' = WithRole(role, u, handler[h].targetRow, r)
           /\ part' = WithPart(part, u, IF r = "member" THEN "member" ELSE "admin")
    /\ Finish(h)
    /\ UNCHANGED <<group, rowId, rows, request, invite, starts, raced>>

\* promoteToAdmin saves the member it read: the row is updated, or inserted again with its
\* old id when somebody deleted it.  Neither the limit on co-admins nor the participant is
\* looked at.
Promote(h) ==
    /\ At(h, {"promote"}, "committing")
    /\ group # Gone
    /\ LET u == handler[h].target IN
       /\ u \in Members => SameRow(u, handler[h].targetRow)
       /\ role' = [role EXCEPT ![u] = "co_admin"]
       /\ rowId' = [rowId EXCEPT ![u] = handler[h].targetRow]
    /\ Finish(h)
    /\ UNCHANGED <<group, rows, part, request, invite, starts, raced>>

(***************************************************************************)
(* Going out: the two removeMember, the two leaveGroup.                    *)
(***************************************************************************)

Leave(h, op, a) ==
    /\ Open /\ a \in Members
    /\ Begin(h, [Starting(op) EXCEPT !.actor = a, !.exitRow = rowId[a],
                                     !.actorRole = role[a]])

\* GroupManagementService.leaveGroup: the only owner stays.
LeaveRead(h) ==
    /\ At(h, {"leave"}, "authorised")
    /\ handler[h].actorRole = "owner" => Owners \ {handler[h].actor} # {}
    /\ Check(h, Departing(handler[h].actor, handler[h].exitRow, FALSE))

\* GroupsService.leaveGroup: an owner names a successor, the last one closes the group.
QuitRead(h) ==
    /\ At(h, {"quit"}, "authorised")
    /\ LET remaining == Members \ {handler[h].actor} IN
       IF remaining # {} /\ handler[h].actorRole = "owner"
       THEN \E u \in remaining :
              Check(h, [handler[h] EXCEPT !.target = u, !.step = "succeeding"])
       ELSE Check(h, Departing(handler[h].actor, handler[h].exitRow, remaining = {}))

\* leaveGroup calls transferAdmin, which authorises the actor again.
QuitAuthorise(h) ==
    /\ At(h, {"quit"}, "succeeding")
    /\ Open /\ handler[h].actor \in Owners
    /\ Check(h, [handler[h] EXCEPT !.actorRow = rowId[handler[h].actor],
                                   !.step = "choosing"])

QuitTarget(h) ==
    /\ At(h, {"quit"}, "choosing")
    /\ handler[h].target \in Members
    /\ Check(h, [handler[h] EXCEPT !.targetRow = rowId[handler[h].target],
                                   !.step = "committing"])

\* Mutant: whoever goes keeps the participant row.
WithoutPart_Kept(u) == part

\* The participants without u, whatever row u had.
WithoutPart(u) == [part EXCEPT ![u] = "none"]

\* The member row goes by id, the participant by user.
Depart(h) ==
    /\ At(h, {"depart"}, "departing")
    /\ LET u  == handler[h].target
           id == handler[h].exitRow
       IN  IF handler[h].last THEN Cascade
           ELSE /\ role' = WithRole(role, u, id, "none")
                /\ rowId' = WithRole(rowId, u, id, 0)
                /\ part' = WithoutPart(u)
                /\ UNCHANGED <<group, rows, request, invite, starts, raced>>
    /\ Finish(h)

(***************************************************************************)
(* The end of a group, and its join approval.                              *)
(***************************************************************************)

End(h, op, a) ==
    /\ Open /\ a \in Owners
    /\ Begin(h, IF op = "disband" THEN [Starting(op) EXCEPT !.group = group] ELSE Starting(op))

\* dissolveGroup deletes the conversation.
Dissolve(h) ==
    /\ At(h, {"dissolve"}, "authorised")
    /\ Cascade
    /\ Finish(h)

\* disbandGroup saves the group row it read, marked; then it reads the members, and removes
\* them and whoever takes part.
DisbandMark(h) ==
    /\ At(h, {"disband"}, "authorised")
    /\ group # Gone
    /\ group' = [handler[h].group EXCEPT !.state = "dissolved"]
    /\ Goto(h, "reading")
    /\ UNCHANGED <<role, rowId, rows, part, request, invite, starts, raced>>

DisbandRead(h) ==
    /\ At(h, {"disband"}, "reading")
    /\ Check(h, [handler[h] EXCEPT !.found = {<<u, rowId[u]>> : u \in Members},
                                   !.step = "removing"])

DisbandRemove(h) ==
    /\ At(h, {"disband"}, "removing")
    /\ LET stays(u) == <<u, rowId[u]>> \notin handler[h].found IN
       /\ role' = [u \in Users |-> IF stays(u) THEN role[u] ELSE "none"]
       /\ rowId' = [u \in Users |-> IF stays(u) THEN rowId[u] ELSE 0]
    /\ part' = [u \in Users |-> "none"]
    /\ Finish(h)
    /\ UNCHANGED <<group, rows, request, invite, starts, raced>>

SetApproval(h, a) ==
    /\ Open /\ a \in Moderators
    /\ Begin(h, Starting("setting"))

SaveApproval(h, on) ==
    /\ At(h, {"setting"}, "authorised")
    /\ group' = IF group = Gone THEN Gone ELSE [group EXCEPT !.approval = on]
    /\ Finish(h)
    /\ UNCHANGED <<role, rowId, rows, part, request, invite, starts, raced>>

Enters(h) ==
    \/ \E a, u \in Users : Add(h, a, u)
    \/ \E u \in Users : Join(h, u)
    \/ \E q \in Requests : SaveRequest(h, q) \/ RequestRead(h, q)
    \/ \E op \in {"approve", "reject"}, a \in Users, q \in Requests : Decide(h, op, a, q)
    \/ CapacityCheck(h)
    \/ Enter(h)
    \/ Reject(h)
    \/ \E a, u \in Users : Invite(h, a, u)
    \/ \E i \in Invites : SaveInvite(h, i) \/ AcceptRead(h, i) \/ DeclineRead(h, i)
    \/ AcceptInsert(h)
    \/ AcceptExisting(h)
    \/ Answer(h)

Moderates(h) ==
    \/ \E op \in {"transfer", "assign", "promote", "kick", "remove"}, a, u \in Users :
           Moderate(h, op, a, u)
    \/ TargetRead(h)
    \/ Handover(h)
    \/ \E r \in {"member", "co_admin"} : AssignRead(h, r)
    \/ Assign(h)
    \/ Promote(h)
    \/ \E op \in {"leave", "quit"}, a \in Users : Leave(h, op, a)
    \/ LeaveRead(h)
    \/ QuitRead(h)
    \/ QuitAuthorise(h)
    \/ QuitTarget(h)
    \/ Depart(h)

Ends(h) ==
    \/ \E op \in {"dissolve", "disband"}, a \in Users : End(h, op, a)
    \/ Dissolve(h)
    \/ DisbandMark(h)
    \/ DisbandRead(h)
    \/ DisbandRemove(h)
    \/ \E a \in Users : SetApproval(h, a)
    \/ \E on \in BOOLEAN : SaveApproval(h, on)

Next == \E h \in Handlers : Enters(h) \/ Moderates(h) \/ Ends(h) \/ Throws(h)

Spec == Init /\ [][Next]_vars

(***************************************************************************)
(* Properties.                                                             *)
(***************************************************************************)

Roles == {"none", "member", "co_admin", "owner"}
Documents(ids) ==
    [ids -> [user : Users \cup {None},
             status : {"none", "pending", "approved", "rejected", "accepted", "declined"}]]

\* Every table holds rows of its entity.
TypeOK ==
    /\ group \in [state : {"open", "dissolved", "gone"}, owner : Users \cup {None},
                  approval : BOOLEAN]
    /\ role \in [Users -> Roles]
    /\ rowId \in [Users -> Nat] /\ rows \in [Users -> Nat]
    /\ \A u \in Users : rowId[u] # 0 <=> role[u] # "none"
    /\ part \in [Users -> {"none", "member", "admin"}]
    /\ request \in Documents(Requests) /\ invite \in Documents(Invites)
    /\ DOMAIN handler = Handlers
    /\ starts \in 0 .. MaxStarts
    /\ raced \subseteq {"entry", "moderation", "decision"}

\* However the handlers interleave, nobody reads and writes in the chat of a group without
\* being a member of it: the participants are written and deleted in one transaction with
\* the members, by user where the members go by row.
ParticipantIsMember == \A u \in Users : part[u] # "none" => u \in Members

\* While no two handlers that change roles or remove members overlap, an open group has
\* exactly one owner, the one its row names, also half way through leaveGroup and beside any
\* number of people who come in.
OneOwner == Open /\ "moderation" \notin raced => Owners = {group.owner}

\* While no two handlers that take somebody in overlap, nobody is let into a group that is
\* full; a group may be founded with more.
GrowsToLimit ==
    [][{"entry", "moderation"} \cap raced' = {} =>
         Members' \subseteq Members \/ Cardinality(Members') <= Limit]_vars

\* While no two handlers that change roles or remove members overlap, a member of an open
\* group who cannot chat came by an invite, and a participant called admin moderates the
\* group, however many people come in meanwhile.
TablesAgree ==
    Open /\ "moderation" \notin raced =>
      \A u \in Users :
        /\ u \in Members /\ part[u] = "none" => \E i \in Invites : invite[i].user = u
        /\ part[u] = "admin" => u \in Moderators

\* An answered join request keeps its answer, unless two handlers answer at a time or the
\* group goes.
DecisionIsFinal ==
    [][\A q \in Requests :
         request[q].status \in {"approved", "rejected"} =>
           request'[q] = request[q] \/ "decision" \in raced' \/ group' = Gone]_vars

\* "da tham gia nhom" says the notification of acceptInvite: who accepted an invite, and is
\* a member of the open group, takes part in its chat.  (acceptInvite writes no participant.)
AcceptedInviteCanChat ==
    Open => \A i \in Invites :
      invite[i].status = "accepted" /\ invite[i].user \in Members => part[invite[i].user] # "none"

=============================================================================
