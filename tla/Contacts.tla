------------------------------ MODULE Contacts ------------------------------
(***************************************************************************)
(* Two users and everything between them: the friendship row and the       *)
(* friend requests (FriendRequestService, FriendsService), who may write   *)
(* to whom (PrivacyPolicyService), their private conversations with the    *)
(* block of a conversation (ConversationService), and the three routes by  *)
(* which a text is sent, with the checks each makes on its way.            *)
(*                                                                         *)
(* A handler waits between any two queries, and nothing is locked: what it *)
(* read may be out of date when it writes.  A friendship row has an id:    *)
(* remove() misses a row that was replaced, save() inserts again a row     *)
(* that was deleted, and the index on the pair refuses a second row.       *)
(***************************************************************************)
EXTENDS Naturals, Sequences

CONSTANTS
    Users,
    Handlers,   \* handlers that may run at a time
    Requests,   \* ids of friend requests
    Convs,      \* ids of private conversations
    MaxStarts,  \* bound on the handlers that start in a behaviour
    None

ASSUME ContactsAssumption ==
    /\ \E u, v \in Users : u # v /\ Users = {u, v}
    /\ MaxStarts \in Nat
    /\ None \notin Users \cup Requests \cup Convs

VARIABLES
    friendship,  \* the row of the pair
    rows,        \* friendship rows the pair has had so far
    request,     \* the friend requests
    permission,  \* messagePermission in each user's privacy settings
    conv,        \* the private conversations, with participants and who of them is blocked
    handler,     \* the running handlers
    starts,      \* handlers started so far
    under,       \* history: what has stood in the way of a text all the time it is being sent
    firm,        \* history: who blocked the other with no other change of the row under way
    troubled     \* history: "race" of two first messages, "failure" half way through a change

tables == <<friendship, rows, request, permission, conv>>
history == <<under, firm, troubled>>
vars == <<tables, handler, starts, history>>

Other(u) == CHOOSE v \in Users : v # u

NoRow == [id |-> 0, status |-> "none", by |-> None]
NoConv == [state |-> "none", part |-> {}, blocked |-> {}]

\* What a handler knows: who asked, on which document, the friendship row it read, and the
\* checks still ahead of a text.
Idle == [op |-> "idle", step |-> "idle", user |-> None, doc |-> None, read |-> NoRow,
         todo |-> <<>>]

\* Friends or strangers, with any settings and with or without a conversation: what an
\* earlier life of the two may have left.
Init ==
    /\ friendship \in {NoRow, [id |-> 1, status |-> "active", by |-> None]}
    /\ rows = friendship.id
    /\ request = [q \in Requests |-> [sender |-> None, status |-> "none"]]
    /\ permission \in [Users -> {"everyone", "friends", "nobody"}]
    /\ \E first \in SUBSET Convs :
         /\ \A c, d \in first : c = d
         /\ conv = [c \in Convs |-> IF c \in first
                                    THEN [state |-> "open", part |-> Users, blocked |-> {}]
                                    ELSE NoConv]
    /\ handler = [h \in Handlers |-> Idle]
    /\ starts = 0
    /\ under = [h \in Handlers |-> {}]
    /\ firm = {}
    /\ troubled = {}

(***************************************************************************)
(* How a handler starts, goes on and stops.                                *)
(***************************************************************************)

Begin(h, r) ==
    /\ handler[h] = Idle
    /\ starts < MaxStarts
    /\ starts' = starts + 1
    /\ handler' = [handler EXCEPT ![h] = r]
    /\ UNCHANGED tables

Starting(op, u, d) == [Idle EXCEPT !.op = op, !.step = "read", !.user = u, !.doc = d]

At(h, op, step) == handler[h].op = op /\ handler[h].step = step

\* A step of h that only reads.
Check(h, r) ==
    /\ handler' = [handler EXCEPT ![h] = r]
    /\ UNCHANGED <<tables, starts>>

Goto(h, step) ==
    /\ handler' = [handler EXCEPT ![h].step = step]
    /\ UNCHANGED starts

Finish(h) ==
    /\ handler' = [handler EXCEPT ![h] = Idle]
    /\ UNCHANGED starts

\* A check fails, or a query: the handler throws, and what it wrote stays.
Throws(h) ==
    /\ handler[h] # Idle
    /\ Finish(h)
    /\ UNCHANGED tables

(***************************************************************************)
(* The friendship row.                                                     *)
(***************************************************************************)

Insert(status, by) ==
    /\ friendship = NoRow
    /\ rows' = rows + 1
    /\ friendship' = [id |-> rows + 1, status |-> status, by |-> by]

\* save() of an entity read before.
SaveRow(r) ==
    /\ friendship = NoRow \/ friendship.id = r.id
    /\ friendship' = r
    /\ UNCHANGED rows

\* remove() of an entity read before.
RemoveRow(r) ==
    /\ friendship' = IF friendship.id = r.id THEN NoRow ELSE friendship
    /\ UNCHANGED rows

RemoveFriend(h, u) ==
    /\ friendship.status = "active"
    /\ Begin(h, [Starting("unfriend", u, None) EXCEPT !.read = friendship])

\* Somebody the other side blocked cannot block back.
BlockFriend(h, u) ==
    /\ friendship.status = "blocked" => friendship.by = u
    /\ Begin(h, [Starting("block", u, None) EXCEPT !.read = friendship])

\* Mutant: either side lifts the block.
MayUnblock_Either(u) == friendship.status = "blocked"

\* Only the blocker can unblock.
MayUnblock(u) == friendship.status = "blocked" /\ friendship.by = u

UnblockFriend(h, u) ==
    /\ MayUnblock(u)
    /\ Begin(h, [Starting("unblock", u, None) EXCEPT !.read = friendship])

SaveBlock(h) ==
    /\ At(h, "block", "read")
    /\ LET u == handler[h].user
           r == handler[h].read
       IN  IF r = NoRow THEN Insert("blocked", u)
                        ELSE SaveRow([r EXCEPT !.status = "blocked", !.by = u])
    /\ Finish(h)
    /\ UNCHANGED <<request, permission, conv>>

DeleteRow(h) ==
    /\ handler[h].op \in {"unfriend", "unblock"}
    /\ RemoveRow(handler[h].read)
    /\ Finish(h)
    /\ UNCHANGED <<request, permission, conv>>

(***************************************************************************)
(* Friend requests.                                                        *)
(***************************************************************************)

SendRequest(h, u) ==
    /\ friendship = NoRow
    /\ Begin(h, Starting("request", u, None))

PendingRead(h) ==
    /\ At(h, "request", "read")
    /\ \A q \in Requests : request[q].status # "pending"
    /\ Check(h, [handler[h] EXCEPT !.step = "saving"])

SaveRequest(h, q) ==
    /\ At(h, "request", "saving")
    /\ request[q].status = "none"
    /\ request' = [request EXCEPT ![q] = [sender |-> handler[h].user, status |-> "pending"]]
    /\ Finish(h)
    /\ UNCHANGED <<friendship, rows, permission, conv>>

Decide(h, op, q) ==
    /\ request[q].status = "pending"
    /\ Begin(h, Starting(op, Other(request[q].sender), q))

DeclineRequest(h) ==
    /\ At(h, "decline", "read")
    /\ request' = [request EXCEPT ![handler[h].doc].status = "declined"]
    /\ Finish(h)
    /\ UNCHANGED <<friendship, rows, permission, conv>>

AcceptRequest(h) ==
    /\ At(h, "accept", "read")
    /\ request' = [request EXCEPT ![handler[h].doc].status = "accepted"]
    /\ Goto(h, "finding")
    /\ UNCHANGED <<friendship, rows, permission, conv>>

\* With a friendship already there, blocked or not, accepting makes none.
AcceptFind(h) ==
    /\ At(h, "accept", "finding")
    /\ IF friendship = NoRow THEN Check(h, [handler[h] EXCEPT !.step = "inserting"])
                             ELSE Finish(h) /\ UNCHANGED tables

AcceptInsert(h) ==
    /\ At(h, "accept", "inserting")
    /\ Insert("active", None)
    /\ Finish(h)
    /\ UNCHANGED <<request, permission, conv>>

\* PrivacySettingsService.update.
SetPermission(u, p) ==
    /\ starts < MaxStarts
    /\ starts' = starts + 1
    /\ permission' = [permission EXCEPT ![u] = p]
    /\ UNCHANGED <<friendship, rows, request, conv, handler>>

(***************************************************************************)
(* Conversations and texts.  After a first query, each handler makes a     *)
(* list of checks, each a query of its own.                                *)
(***************************************************************************)

\* The checks of a handler after its first query.
Checks(op) ==
    CASE op = "open"    -> <<"relation", "permission">>
      [] op = "bar"     -> <<"member", "target">>
      [] op = "lift"    -> <<"member", "barred">>
      [] op = "routed"  -> <<"friendship", "relation", "permission", "chat">>
      [] op = "message" -> <<"others", "friendship", "chat">>
      [] op = "socket"  -> <<"participants", "relation", "permission">>

\* The three routes of a text: the conversation's, the message's, the chat gateway.
Routes == {"routed", "message", "socket"}

\* The checks of a text that are left when nobody else takes part in the conversation.
ChecksAlone(op) == IF op = "socket" THEN <<>> ELSE <<"chat">>

\* Mutant: the owner of a block may write past it.
ChatOpen_ForBlocker(u, c) == u \notin conv[c].blocked

\* getConversationBlockStatus: with a block on either participant neither may write.
ChatOpen(u, c) == conv[c].blocked = {}

\* No blocked friendship, whoever blocked whom.
NotBlocked == friendship.status # "blocked"

\* assertContactAllowed, for the relationship that was read before.
ContactAllowed(u, status) ==
    \/ permission[Other(u)] = "everyone"
    \/ permission[Other(u)] = "friends" /\ status = "active"

Passes(k, u, c, status) ==
    CASE k \in {"friendship", "relation"} -> NotBlocked
      [] k = "permission"                 -> ContactAllowed(u, status)
      [] k \in {"chat", "participants"}   -> ChatOpen(u, c)
      [] k = "member"                     -> u \in conv[c].part
      [] k = "target"                     -> Other(u) \in conv[c].part
      [] k = "barred"                     -> Other(u) \in conv[c].blocked
      [] k = "others"                     -> TRUE

\* The next check: getRelationship is remembered, the participants tell who else is there.
CheckNext(h) ==
    /\ handler[h].todo # <<>>
    /\ LET k == Head(handler[h].todo)
           u == handler[h].user
           c == handler[h].doc
           rest == Tail(handler[h].todo)
       IN  /\ Passes(k, u, c, handler[h].read.status)
           /\ Check(h, [handler[h] EXCEPT
                !.read = IF k = "relation" THEN friendship ELSE NoRow,
                !.todo = IF k \in {"others", "participants"} /\ Other(u) \notin conv[c].part
                         THEN ChecksAlone(handler[h].op) ELSE rest])

Ready(h, op) == At(h, op, "read") /\ handler[h].todo = <<>>

\* The conversations a user finds when looking for one with the other.
Shared == {c \in Convs : conv[c].part = Users}

Open(h, u) ==
    /\ NotBlocked
    /\ Begin(h, [Starting("open", u, None) EXCEPT !.todo = Checks("open")])

\* Mutant: a conversation with a block on it is not found.
Found_Unblocked == {c \in Shared : conv[c].blocked = {}}

Found == Shared

FindShared(h) ==
    /\ Ready(h, "open")
    /\ IF Found = {} THEN Check(h, [handler[h] EXCEPT !.step = "creating"])
                     ELSE Finish(h) /\ UNCHANGED tables

Create(h, c) ==
    /\ At(h, "open", "creating")
    /\ conv[c].state = "none"
    /\ conv' = [conv EXCEPT ![c].state = "open"]
    /\ handler' = [handler EXCEPT ![h].step = "joining", ![h].doc = c]
    /\ UNCHANGED <<friendship, rows, request, permission, starts>>

\* Both participants are saved in one transaction.
Join(h) ==
    /\ At(h, "open", "joining")
    /\ conv' = [conv EXCEPT ![handler[h].doc].part = Users]
    /\ Finish(h)
    /\ UNCHANGED <<friendship, rows, request, permission>>

DeleteForUser(h, u, c) ==
    /\ u \in conv[c].part
    /\ Begin(h, Starting("delete", u, c))

\* Mutant: the block of the leaver outlives the participant row.
WithoutUser_KeepsBlock(d, u) == [d EXCEPT !.part = @ \ {u}]

\* The conversation without the participant row of u, and without the block in it.
WithoutUser(d, u) == [d EXCEPT !.part = @ \ {u}, !.blocked = @ \ {u}]

LeaveChat(h) ==
    /\ At(h, "delete", "read")
    /\ conv' = [conv EXCEPT ![handler[h].doc] = WithoutUser(@, handler[h].user)]
    /\ Goto(h, "counting")
    /\ UNCHANGED <<friendship, rows, request, permission>>

CountRemaining(h) ==
    /\ At(h, "delete", "counting")
    /\ IF conv[handler[h].doc].part = {}
       THEN Check(h, [handler[h] EXCEPT !.step = "emptying"])
       ELSE Finish(h) /\ UNCHANGED tables

DeleteEmpty(h) ==
    /\ At(h, "delete", "emptying")
    /\ conv' = [conv EXCEPT ![handler[h].doc] = [NoConv EXCEPT !.state = "gone"]]
    /\ Finish(h)
    /\ UNCHANGED <<friendship, rows, request, permission>>

\* blockUserInConversation and unblockUserInConversation find both participants first.
BarOrLift(h, op, u, c) ==
    /\ conv[c].part = Users
    /\ Begin(h, [Starting(op, u, c) EXCEPT !.todo = Checks(op)])

\* update() changes the row of the other participant, if it is still there.
SaveBar(h, op) ==
    /\ Ready(h, op)
    /\ LET c == handler[h].doc
           target == {Other(handler[h].user)} \cap conv[c].part
       IN  conv' = [conv EXCEPT ![c].blocked = IF op = "bar" THEN @ \cup target
                                                             ELSE @ \ target]
    /\ Finish(h)
    /\ UNCHANGED <<friendship, rows, request, permission>>

\* The membership of the sender comes first; with it the conversation's route reads the
\* other participant.
Send(h, route, u, c) ==
    /\ u \in conv[c].part
    /\ Begin(h, [Starting(route, u, c) EXCEPT
                   !.todo = IF route = "routed" /\ Other(u) \notin conv[c].part
                            THEN ChecksAlone(route) ELSE Checks(route)])

\* The message is created, whatever happened to the conversation meanwhile.
Store(h, route) ==
    /\ Ready(h, route)
    /\ Finish(h)
    /\ UNCHANGED tables

Friends(h) ==
    \/ \E u \in Users : RemoveFriend(h, u) \/ BlockFriend(h, u) \/ UnblockFriend(h, u)
                        \/ SendRequest(h, u)
    \/ SaveBlock(h)
    \/ DeleteRow(h)
    \/ PendingRead(h)
    \/ \E q \in Requests : SaveRequest(h, q) \/ Decide(h, "accept", q) \/ Decide(h, "decline", q)
    \/ DeclineRequest(h)
    \/ AcceptRequest(h)
    \/ AcceptFind(h)
    \/ AcceptInsert(h)

Chats(h) ==
    \/ \E u \in Users : Open(h, u)
    \/ CheckNext(h)
    \/ FindShared(h)
    \/ \E c \in Convs : Create(h, c)
    \/ Join(h)
    \/ \E u \in Users, c \in Convs : DeleteForUser(h, u, c)
    \/ LeaveChat(h)
    \/ CountRemaining(h)
    \/ DeleteEmpty(h)
    \/ \E op \in {"bar", "lift"}, u \in Users, c \in Convs : BarOrLift(h, op, u, c)
    \/ \E op \in {"bar", "lift"} : SaveBar(h, op)
    \/ \E route \in Routes, u \in Users, c \in Convs : Send(h, route, u, c)
    \/ \E route \in Routes : Store(h, route)

(***************************************************************************)
(* History: what the properties remember of the steps so far.              *)
(***************************************************************************)

\* What stands in the way of a text of u in conversation c right now.
Barriers(u, c) ==
    LET accompanied == Other(u) \in conv[c].part IN
    (IF conv[c].blocked # {} THEN {"chat"} ELSE {})
    \cup (IF accompanied /\ friendship.status = "blocked" THEN {"friendship"} ELSE {})
    \cup (IF accompanied /\ permission[Other(u)] = "nobody" THEN {"nobody"} ELSE {})
    \cup (IF accompanied /\ permission[Other(u)] = "friends" /\ friendship.status # "active"
          THEN {"stranger"} ELSE {})

BarriersOf(h) == Barriers(handler[h].user, handler[h].doc)

RowWriters == {"unfriend", "block", "unblock"}

Remember(failure) ==
    /\ under' = [h \in Handlers |->
                   IF handler'[h].op \notin Routes THEN {}
                   ELSE IF handler[h] = Idle THEN BarriersOf(h)'
                   ELSE under[h] \cap BarriersOf(h)']
    /\ LET blockers == {handler[h].user : h \in
                          {g \in Handlers : /\ handler[g].op = "block" /\ handler'[g] = Idle
                                            /\ \A f \in Handlers \ {g} :
                                                 handler[f].op \notin RowWriters}}
           unblockers == {handler'[h].user : h \in {g \in Handlers : handler'[g].op = "unblock"}}
       IN  firm' = (firm \cup {u \in blockers : friendship'.status = "blocked"
                                                /\ friendship'.by = u}) \ unblockers
    /\ LET opening == {h \in Handlers : handler'[h].op = "open"}
       IN  troubled' = troubled \cup failure
                       \cup (IF \E g, h \in opening : g # h THEN {"race"} ELSE {})

Next ==
    \/ \E h \in Handlers : (Friends(h) \/ Chats(h)) /\ Remember({})
    \/ \E h \in Handlers :
         Throws(h) /\ Remember(IF handler[h].step \in {"joining", "counting", "emptying"}
                               THEN {"failure"} ELSE {})
    \/ \E u \in Users, p \in {"everyone", "friends", "nobody"} :
         SetPermission(u, p) /\ Remember({})

Spec == Init /\ [][Next]_vars

(***************************************************************************)
(* Properties.                                                             *)
(***************************************************************************)

Rows == [id : Nat, status : {"none", "active", "blocked"}, by : Users \cup {None}]

\* The rows are those of their entities; a row is blocked by somebody or is not blocked.
TypeOK ==
    /\ friendship \in Rows /\ rows \in Nat
    /\ friendship.status = "blocked" <=> friendship.by # None
    /\ request \in [Requests -> [sender : Users \cup {None},
                                 status : {"none", "pending", "accepted", "declined"}]]
    /\ permission \in [Users -> {"everyone", "friends", "nobody"}]
    /\ conv \in [Convs -> [state : {"none", "open", "gone"}, part : SUBSET Users,
                           blocked : SUBSET Users]]
    /\ \A c \in Convs : conv[c].blocked \subseteq conv[c].part
    /\ DOMAIN handler = Handlers
    /\ starts \in 0 .. MaxStarts
    /\ firm \subseteq Users
    /\ troubled \subseteq {"race", "failure"}

\* Who blocks the other, while no unfriending, blocking or unblocking is half way, stays the
\* blocker of the row until asking for the end of it, whatever requests, acceptances and
\* attempts of the other side come in between or were under way.
BlockStands ==
    \A u \in firm : friendship.status = "blocked" /\ friendship.by = u

\* A text that is about to be stored was not in the way of one and the same block, or one and
\* the same setting of its receiver, all the time it was being checked.  The message route
\* knows no settings.
NoTextUnderBlock ==
    \A h \in Handlers :
      handler[h].op \in Routes /\ handler[h].todo = <<>> =>
        under[h] \cap (IF handler[h].op = "message" THEN {"chat", "friendship"}
                       ELSE {"chat", "friendship", "nobody", "stranger"}) = {}

\* Unless two first messages overlap or a handler failed half way, two users share at most
\* one conversation, and a conversation without participants is about to be joined or
\* deleted by somebody, also when both leave it at once.
OneConversation ==
    troubled = {} =>
      /\ \A c, d \in Shared : c = d
      /\ \A c \in Convs :
           conv[c].state = "open" /\ conv[c].part = {} =>
             \E h \in Handlers : handler[h].doc = c
                                 /\ handler[h].step \in {"joining", "counting", "emptying"}

=============================================================================
