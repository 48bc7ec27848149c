-------------------------- MODULE WorkspaceMembers --------------------------
(***************************************************************************)
(* One workspace, its member rows and its join requests, under the         *)
(* handlers of WorkspaceMemberService and WorkspaceService.  Every handler *)
(* reads, waits, decides and writes; nothing locks, and no constraint of   *)
(* the database keeps a user from having two rows or a workspace from      *)
(* losing its last owner.                                                  *)
(*                                                                         *)
(* save() of a member row writes the role of the copy; a row that is gone  *)
(* is inserted again without its workspace, where no query finds it.       *)
(* save() of the workspace writes every column of the copy, and detaches   *)
(* the member rows the copy does not list.  Queries by workspace find      *)
(* nothing in a workspace that is softly removed.                          *)
(***************************************************************************)
EXTENDS Naturals, FiniteSets

CONSTANTS
    Users,
    Handlers,   \* requests that may run at a time
    Limits,     \* values of memberLimit
    MaxStarts,  \* bound on the requests of a behaviour
    None

ASSUME WorkspaceAssumption ==
    /\ Limits \subseteq Nat \ {0} /\ MaxStarts \in Nat
    /\ None \notin Users

VARIABLES
    ws,         \* the workspace row
    members,    \* the member rows attached to the workspace
    requests,   \* the join requests
    handler,    \* what each running request has read
    starts,     \* requests started so far
    ids,        \* rows made so far
    outdated,   \* history: requests that read what another has changed since
    disturbed,  \* history: one of those wrote, failed half way, or an owner succeeded himself
    shared      \* history: the workspace had two owner rows at a time

vars == <<ws, members, requests, handler, starts, ids, outdated, disturbed, shared>>

\* GUEST has the rights of MEMBER, and is left out.
Roles == {"OWNER", "ADMIN", "MEMBER"}
Managers == {"OWNER", "ADMIN"}

\* What an invite link may name.
Named == {"OWNER", "unknown"}

NoWorkspace == [state |-> "none", owner |-> None, limit |-> 0]

NoRequest == [id |-> 0, user |-> None, role |-> None, status |-> "none"]

\* rows: member rows read; seen: the workspace read, and the rows it lists; req: the request read.
Idle == [op |-> "idle", step |-> "idle", actor |-> None, target |-> None, role |-> None,
         rows |-> {}, seen |-> NoWorkspace, listed |-> {}, req |-> NoRequest]

Init ==
    /\ ws = NoWorkspace
    /\ members = {} /\ requests = {}
    /\ handler = [h \in Handlers |-> Idle]
    /\ starts = 0 /\ ids = 0
    /\ outdated = {} /\ disturbed = FALSE /\ shared = FALSE

Live == ws.state = "live"

\* The member rows a query by workspace finds.
Rows == IF Live THEN members ELSE {}

RowsOf(u) == {m \in Rows : m.user = u}

OwnersIn(rows) == {m \in rows : m.role = "OWNER"}

At(h, step) == handler[h].step = step

Goto(h, step) == handler' = [handler EXCEPT ![h].step = step]

Finish(h) == handler' = [handler EXCEPT ![h] = Idle]

Reads == UNCHANGED <<ws, members, requests, starts, ids, outdated, disturbed, shared>>

\* History of a write of handler h to the member rows or the workspace.
Wrote(h) ==
    /\ outdated' = (outdated \cup {x \in Handlers : handler[x] # Idle}) \ {h}
    /\ shared' = (shared \/ Cardinality(OwnersIn(members')) > 1)

Tell(h) == disturbed' = (disturbed \/ h \in outdated)

(***************************************************************************)
(* A handler starts with its first query.                                  *)
(***************************************************************************)

Start(h, rec) ==
    /\ handler[h] = Idle /\ starts < MaxStarts
    /\ starts' = starts + 1
    /\ handler' = [handler EXCEPT ![h] = rec]
    /\ outdated' = outdated \ {h}

\* create saves the workspace, and the row of its owner after it.
Create(h, u, limit) ==
    /\ ws = NoWorkspace
    /\ Start(h, [Idle EXCEPT !.op = "create", !.step = "enter", !.target = u, !.role = "OWNER"])
    /\ ws' = [state |-> "live", owner |-> u, limit |-> limit]
    /\ UNCHANGED <<members, requests, ids, disturbed, shared>>

\* assertManager, and for the transfers and remove of a workspace the owner.
Entitled(op) == IF op \in {"transfer", "handover", "disband"} THEN {"OWNER"} ELSE Managers

FirstStep(op) ==
    CASE op = "add" -> "workspace"
      [] op \in {"approve", "reject"} -> "request"
      [] op \in {"demote", "remove", "transfer", "handover"} -> "target"
      [] op = "disband" -> "reread"

\* addMember, updateRole, removeMember, approveJoinRequest, rejectJoinRequest, transferOwner of
\* either service, and remove of a workspace: the actor's row is read first, and a transfer
\* keeps it.  updateRole to OWNER is transferOwner, which has nothing to do for the actor.
Begin(h, op, a, u, role) ==
    /\ \E m \in RowsOf(a) :
         /\ m.role \in Entitled(op)
         /\ Start(h, [Idle EXCEPT !.op = op, !.step = FirstStep(op), !.actor = a, !.target = u,
                        !.role = role, !.rows = IF op \in {"transfer", "handover"} THEN {m} ELSE {}])
    /\ op \in {"add", "demote", "remove", "transfer", "handover"} <=> u # None
    /\ op \in {"add", "demote"} <=> role # None
    /\ op = "demote" => role # "OWNER"
    /\ op = "transfer" => u # a
    /\ UNCHANGED <<ws, members, requests, ids, disturbed, shared>>

\* The workspace with its owner, its limit and its member rows.
Copied(rec) == [rec EXCEPT !.seen = ws, !.listed = {m.id : m \in members}]

\* update of a workspace asks for no membership.
BeginSettings(h) ==
    /\ Live
    /\ Start(h, Copied([Idle EXCEPT !.op = "settings", !.step = "save"]))
    /\ UNCHANGED <<ws, members, requests, ids, disturbed, shared>>

\* Mutant: the role of the link is taken as it stands.
Granted_AsNamed(role) == role

\* verifyInviteToken: a role the enumeration does not have counts as MEMBER.
Granted(role) == IF role \in Roles THEN role ELSE "MEMBER"

\* joinByInviteLink: a manager has made the link, with a role of the query string that nobody
\* checked, and it is valid for a week.
BeginJoin(h, u, role) ==
    /\ Live /\ ids > 0
    /\ Start(h, [Idle EXCEPT !.op = "join", !.step = "member", !.target = u,
                             !.role = Granted(role)])
    /\ UNCHANGED <<ws, members, requests, ids, disturbed, shared>>

(***************************************************************************)
(* Joining by a link.                                                      *)
(***************************************************************************)

JoinCheckMember(h) ==
    /\ At(h, "member") /\ RowsOf(handler[h].target) = {}
    /\ Goto(h, "pending") /\ Reads

JoinCheckPending(h) ==
    /\ At(h, "pending") /\ Live
    /\ \A q \in requests : ~ (q.user = handler[h].target /\ q.status = "PENDING")
    /\ Goto(h, "ask") /\ Reads

SaveRequest(h) ==
    /\ At(h, "ask")
    /\ requests' = requests \cup {[id |-> ids + 1, user |-> handler[h].target,
                                   role |-> handler[h].role, status |-> "PENDING"]}
    /\ ids' = ids + 1
    /\ Finish(h)
    /\ outdated' = outdated \ {h}
    /\ UNCHANGED <<ws, members, starts, disturbed, shared>>

(***************************************************************************)
(* addMember, also as part of approveJoinRequest, and the two decisions.   *)
(***************************************************************************)

\* approveJoinRequest goes on with addMember, which authorises the actor again.
RequestRead(h) ==
    /\ At(h, "request") /\ Live
    /\ \E q \in requests :
         /\ q.status = "PENDING"
         /\ handler' = [handler EXCEPT ![h] =
              IF @.op = "reject" THEN [@ EXCEPT !.step = "decide", !.req = q]
              ELSE [@ EXCEPT !.step = "authorise", !.req = q,
                             !.target = q.user, !.role = q.role]]
    /\ Reads

AddAuthorise(h) ==
    /\ At(h, "authorise")
    /\ \E m \in RowsOf(handler[h].actor) : m.role \in Managers
    /\ Goto(h, "workspace") /\ Reads

AddFindWorkspace(h) ==
    /\ At(h, "workspace") /\ Live
    /\ handler' = [handler EXCEPT ![h].step = "existing", ![h].seen = ws]
    /\ Reads

AddCheckExisting(h) ==
    /\ At(h, "existing") /\ RowsOf(handler[h].target) = {}
    /\ Goto(h, "count") /\ Reads

AddCount(h) ==
    /\ At(h, "count") /\ Cardinality(Rows) < handler[h].seen.limit
    /\ handler' = [handler EXCEPT ![h].step = "enter", ![h].seen = NoWorkspace]
    /\ Reads

\* The new row: of a member who is added, or of the owner of a new workspace.
Enter(h) ==
    /\ At(h, "enter")
    /\ members' = members \cup {[id |-> ids + 1, user |-> handler[h].target,
                                 role |-> handler[h].role]}
    /\ ids' = ids + 1
    /\ IF handler[h].op = "approve" THEN Goto(h, "decide") ELSE Finish(h)
    /\ Wrote(h) /\ Tell(h)
    /\ UNCHANGED <<ws, requests, starts>>

\* The request is saved with the decision, whatever became of it.
SaveDecision(h) ==
    /\ At(h, "decide")
    /\ LET status == IF handler[h].op = "approve" THEN "APPROVED" ELSE "REJECTED" IN
       requests' = (requests \ {q \in requests : q.id = handler[h].req.id})
                     \cup {[handler[h].req EXCEPT !.status = status]}
    /\ Finish(h)
    /\ outdated' = outdated \ {h}
    /\ UNCHANGED <<ws, members, starts, ids, disturbed, shared>>

(***************************************************************************)
(* updateRole, removeMember, transferOwner.                                *)
(***************************************************************************)

Removes(op) == op \in {"demote", "remove"}

\* The last owner is looked for only where the row was read as an owner's.
TargetRead(h) ==
    /\ At(h, "target")
    /\ \E m \in RowsOf(handler[h].target) :
         handler' = [handler EXCEPT ![h].rows = @ \cup {m},
                       ![h].step = IF ~ Removes(handler[h].op) THEN "transfer"
                                   ELSE IF m.role = "OWNER" THEN "owners" ELSE "change"]
    /\ Reads

\* Mutant: the owner who is leaving counts as one who stays.
MayLose_OffByOne(rows) == Cardinality(OwnersIn(rows)) >= 1

MayLose(rows) == Cardinality(OwnersIn(rows)) > 1

CountOwners(h) ==
    /\ At(h, "owners") /\ MayLose(Rows)
    /\ Goto(h, "change") /\ Reads

\* The rows with the roles that the copies of some have.
Saved(copies) ==
    {m \in members : \A c \in copies : c.id # m.id} \cup
    {[p[1] EXCEPT !.role = p[2].role] : p \in {q \in members \X copies : q[1].id = q[2].id}}

\* The role is saved, or the row is removed, by the id that was read.
Change(h) ==
    /\ At(h, "change")
    /\ members' = IF handler[h].op = "remove"
                  THEN {m \in members : \A c \in handler[h].rows : c.id # m.id}
                  ELSE Saved({[c EXCEPT !.role = handler[h].role] : c \in handler[h].rows})
    /\ Finish(h)
    /\ Wrote(h) /\ Tell(h)
    /\ UNCHANGED <<ws, requests, starts, ids>>

\* Both rows are saved in one transaction.  The owner who hands over to himself, which only
\* WorkspaceService accepts, saves his row as ADMIN, and as OWNER it has not changed.
Transfer(h) ==
    /\ At(h, "transfer")
    /\ LET yes == handler[h].target
           both == {[c EXCEPT !.role = IF c.user = yes /\ yes # handler[h].actor
                                       THEN "OWNER" ELSE "ADMIN"] : c \in handler[h].rows}
       IN  members' = Saved(both)
    /\ handler' = [handler EXCEPT ![h].rows = {},
                     ![h].step = IF handler[h].op = "transfer" THEN "column"
                                 ELSE "reread"]
    /\ Wrote(h)
    /\ disturbed' = (disturbed \/ h \in outdated \/ handler[h].target = handler[h].actor)
    /\ UNCHANGED <<ws, requests, starts, ids>>

\* WorkspaceMemberService updates the column of the owner by the workspace's id.
SetOwner(h) ==
    /\ At(h, "column")
    /\ ws' = [ws EXCEPT !.owner = handler[h].target]
    /\ UNCHANGED <<members, requests, starts, ids>>
    /\ Finish(h)
    /\ Wrote(h) /\ Tell(h)

(***************************************************************************)
(* The workspace itself.                                                   *)
(***************************************************************************)

\* findOne, of transferOwner and remove of WorkspaceService.
Reread(h) ==
    /\ At(h, "reread") /\ Live
    /\ handler' = [handler EXCEPT ![h] = Copied([@ EXCEPT !.step = "save"])]
    /\ Reads

\* The copy that was read, with the new owner, the new limit, or the mark of its removal.
SaveWorkspace(h, limit) ==
    /\ At(h, "save")
    /\ handler[h].op # "settings" => limit = handler[h].seen.limit
    /\ ws' = CASE handler[h].op = "handover" -> [handler[h].seen EXCEPT !.owner = handler[h].target]
               [] handler[h].op = "disband" -> [ws EXCEPT !.state = "deleted"]
               [] OTHER -> [handler[h].seen EXCEPT !.limit = limit]
    /\ members' = {m \in members : m.id \in handler[h].listed}
    /\ Finish(h)
    /\ Wrote(h) /\ Tell(h)
    /\ UNCHANGED <<requests, starts, ids>>

\* A new workspace without its owner's row, or a handover with the rows saved and not the column.
Halfway(h) ==
    \/ handler[h].op = "create"
    \/ handler[h].op \in {"transfer", "handover"} /\ handler[h].rows = {}

\* A check refuses or a query fails.
HandlerEnds(h) ==
    /\ handler[h] # Idle
    /\ Finish(h)
    /\ disturbed' = (disturbed \/ Halfway(h))
    /\ outdated' = outdated \ {h}
    /\ UNCHANGED <<ws, members, requests, starts, ids, shared>>

Next ==
    \/ \E h \in Handlers :
         \/ \E u \in Users, limit \in Limits : Create(h, u, limit)
         \/ \E a \in Users, u \in Users \cup {None}, role \in Roles \cup {None},
               op \in {"add", "approve", "reject", "demote", "remove", "transfer", "handover",
                       "disband"} : Begin(h, op, a, u, role)
         \/ BeginSettings(h)
         \/ \E u \in Users, role \in Named : BeginJoin(h, u, role)
         \/ JoinCheckMember(h) \/ JoinCheckPending(h) \/ SaveRequest(h)
         \/ RequestRead(h) \/ AddAuthorise(h) \/ AddFindWorkspace(h)
         \/ AddCheckExisting(h) \/ AddCount(h) \/ Enter(h) \/ SaveDecision(h)
         \/ TargetRead(h) \/ CountOwners(h) \/ Change(h) \/ Transfer(h) \/ SetOwner(h)
         \/ Reread(h) \/ (\E limit \in Limits : SaveWorkspace(h, limit))
         \/ HandlerEnds(h)

Spec == Init /\ [][Next]_vars

(***************************************************************************)
(* Properties.                                                             *)
(***************************************************************************)

\* Rows and requests are those of the entities: every role and every state of a request is one
\* of its enumeration, and an id belongs to one row.
TypeOK ==
    /\ ws = NoWorkspace \/ ws \in [state : {"live", "deleted"}, owner : Users, limit : Limits]
    /\ members \subseteq [id : 1 .. ids, user : Users, role : Roles]
    /\ requests \subseteq [id : 1 .. ids, user : Users, role : Roles,
                           status : {"PENDING", "APPROVED", "REJECTED"}]
    /\ \A x \in members \cup requests, y \in members \cup requests : x.id = y.id => x = y
    /\ starts \in 0 .. MaxStarts

\* Somebody can hand over, or disband, the workspace.
HasOwner == OwnersIn(members) # {}

OneRowEach == \A m \in members, n \in members : m.user = n.user => m = n

\* The owner in the workspace's column has the row of an owner, at least where no handover is
\* between its writes and there never were two owners one of whom could leave.
ColumnNamesOwner ==
    \/ shared
    \/ \E h \in Handlers : Halfway(h)
    \/ \E m \in members : m.user = ws.owner /\ m.role = "OWNER"

\* However many people are added, promoted, demoted, removed or handed the workspace, in any
\* order: the workspace has an owner, a user has one row, and the column and the row of the
\* owner agree - unless a handler wrote what it had decided on rows that another changed
\* meanwhile, failed between two writes, or an owner handed over to himself.
Owned ==
    ws # NoWorkspace /\ ~ disturbed /\ (\A h \in Handlers : handler[h].op # "create")
    => HasOwner /\ OneRowEach /\ ColumnNamesOwner

=============================================================================
