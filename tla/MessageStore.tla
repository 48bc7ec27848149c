---------------------------- MODULE MessageStore ----------------------------
(***************************************************************************)
(* The messages of one conversation in MongoDB, under MessageService, the  *)
(* chat gateway and the handlers of ConversationService that write them.   *)
(*                                                                         *)
(* Most handlers read a document, wait, and save() it.  What save() does   *)
(* is Mongoose's: it writes the paths that were changed on the copy, and   *)
(* when an array was replaced it does so only if the version is still the  *)
(* one that was read, and counts it up.  The others use update operators   *)
(* of the database.  A client that got no answer sends again, and no index *)
(* refuses the second copy: whoever reads a page skips it by its key.  The *)
(* order is that of createdAt, in milliseconds, which the messages of one  *)
(* request with several files may well have in common.                     *)
(***************************************************************************)
EXTENDS Naturals, FiniteSets, Sequences

CONSTANTS
    Users,
    Emojis,
    Keys,        \* the clientMessageIds of the messages people mean to send
    Texts,       \* the texts of messages that are sent without one
    Handlers,    \* handlers that may run at a time
    PinLimit,    \* pinned messages a conversation may have, 3 in the code
    PageSize,    \* messages of a page
    Second,      \* milliseconds of a second
    MaxTime,     \* bound on the times at which messages are sent, which begin at 1
    MaxMessages, \* bound on the messages stored
    MaxStarts,   \* bound on the handlers that start in a behaviour
    None

ASSUME StoreAssumption ==
    /\ PinLimit \in Nat /\ MaxMessages \in Nat \ {0, 1} /\ MaxStarts \in Nat
    /\ PageSize \in Nat \ {0} /\ Second \in Nat \ {0} /\ MaxTime \in Nat \ {0}
    /\ None \notin Users \cup Emojis \cup Keys \cup Texts

VARIABLES
    log,        \* the documents in the order they were stored
    handler,    \* the running handlers
    starts,     \* handlers started so far
    pinsRaced   \* history: two handlers were pinning at a time

vars == <<log, handler, starts, pinsRaced>>

\* Mutant: a message without its sender.
New_NoSender(k, u, t) ==
    [key |-> k, sender |-> None, time |-> t, version |-> 0, reactions |-> {},
     seen |-> [v \in Users |-> 0], revoked |-> FALSE, deletedByAdmin |-> FALSE,
     pinned |-> FALSE, deletedFor |-> {}]

\* A document as it is created: its key, which is a clientMessageId or else the text, its
\* sender and createdAt.
New(k, u, t) ==
    [key |-> k, sender |-> u, time |-> t, version |-> 0, reactions |-> {},
     seen |-> [v \in Users |-> 0], revoked |-> FALSE, deletedByAdmin |-> FALSE,
     pinned |-> FALSE, deletedFor |-> {}]

Times == 1 .. MaxTime

NoDoc == New(None, None, 0)

\* What a handler knows: who asked, the message and the copy of it that was read, and what
\* to write.
Idle == [op |-> "idle", step |-> "idle", user |-> None, msg |-> 0, copy |-> NoDoc,
         what |-> None]

\* The conversation so far has up to two messages, sent in one millisecond.
Init ==
    /\ log \in UNION {[1 .. n -> {New(k, u, 1) : k \in Keys \cup Texts, u \in Users}] :
                       n \in 0 .. 2}
    /\ \A m, n \in DOMAIN log :
         log[m].key = log[n].key /\ log[m].key \in Keys => log[m].sender = log[n].sender
    /\ handler = [h \in Handlers |-> Idle]
    /\ starts = 0
    /\ pinsRaced = FALSE

(***************************************************************************)
(* How a handler starts, goes on and stops.  The check of the membership,  *)
(* which every handler waits for, changes nothing: it may throw.           *)
(***************************************************************************)

Begin(h, r) ==
    /\ handler[h] = Idle
    /\ starts < MaxStarts
    /\ starts' = starts + 1
    /\ handler' = [handler EXCEPT ![h] = r]
    /\ pinsRaced' = (pinsRaced \/ (r.op = "pin" /\ \E g \in Handlers : handler[g].op = "pin"))
    /\ UNCHANGED log

\* A handler that has read message m.
Reading(op, u, m, x) ==
    [op |-> op, step |-> "read", user |-> u, msg |-> m, copy |-> log[m], what |-> x]

At(h, op, step) == handler[h].op = op /\ handler[h].step = step

Goto(h, step) == handler' = [handler EXCEPT ![h].step = step] /\ UNCHANGED <<starts, pinsRaced>>

Finish(h) == handler' = [handler EXCEPT ![h] = Idle] /\ UNCHANGED <<starts, pinsRaced>>

\* A check fails or a query does; so does a save() that finds another version.
Throws(h) ==
    /\ handler[h] # Idle
    /\ Finish(h)
    /\ UNCHANGED log

(***************************************************************************)
(* The database.                                                           *)
(***************************************************************************)

\* Mutant: the version is not compared.
SaveReactions_AnyVersion(m, old, reactions) ==
    log' = [log EXCEPT ![m].reactions = reactions, ![m].version = @ + 1]

\* save() of the copy old of message m with its array of reactions replaced.
SaveReactions(m, old, reactions) ==
    /\ log[m].version = old.version
    /\ log' = [log EXCEPT ![m].reactions = reactions, ![m].version = @ + 1]

\* save() of the copy old of message m, changed to new: the changed paths are written.
SaveFlags(m, old, new) ==
    log' = [log EXCEPT ![m] = [f \in DOMAIN @ |-> IF new[f] # old[f] THEN new[f] ELSE @[f]]]

(***************************************************************************)
(* Sending, again if need be, and forwarding.                              *)
(***************************************************************************)

\* A clientMessageId is made for one message of one sender.  A request with several files
\* sends as many messages, side by side.
Send(h, u, k) ==
    /\ k \in Keys =>
         /\ \A m \in DOMAIN log : log[m].key = k => log[m].sender = u
         /\ \A g \in Handlers : handler[g].what = k => handler[g].user = u
    /\ Begin(h, [Idle EXCEPT !.op = "send", !.step = "read", !.user = u, !.what = k])

\* createdAt is stamped before the document is on its way: two that are stored at a time may
\* have the same one, or arrive in the other order.
Create(h) ==
    /\ At(h, "send", "read")
    /\ Len(log) < MaxMessages
    /\ \E t \in Times : log' = Append(log, New(handler[h].what, handler[h].user, t))
    /\ Finish(h)

(***************************************************************************)
(* Reactions and read marks.                                               *)
(***************************************************************************)

React(h, u, m, e) == Begin(h, Reading("react", u, m, e))

\* The reactions without those of u.
Others(reactions, u) == {r \in reactions : r.user # u}

SaveReact(h) ==
    /\ At(h, "react", "read")
    /\ LET me == handler[h] IN
       SaveReactions(me.msg, me.copy,
                     Others(me.copy.reactions, me.user) \cup {[user |-> me.user, emoji |-> me.what]})
    /\ Finish(h)

Unreact(h, u, m) == Begin(h, Reading("unreact", u, m, None))

\* With nothing to remove the array is unchanged, and nothing is written.
SaveUnreact(h) ==
    /\ At(h, "unreact", "read")
    /\ LET me == handler[h]
           rest == Others(me.copy.reactions, me.user)
       IN  IF rest = me.copy.reactions THEN UNCHANGED log
                                       ELSE SaveReactions(me.msg, me.copy, rest)
    /\ Finish(h)

\* handleMessageRead takes the user's mark away and adds one with the new time: two at once
\* may leave two.
MarkRead(h, u, m) == Begin(h, [Idle EXCEPT !.op = "seen", !.step = "read", !.user = u, !.msg = m])

PullSeen(h) ==
    /\ At(h, "seen", "read")
    /\ log' = [log EXCEPT ![handler[h].msg].seen[handler[h].user] = 0]
    /\ Goto(h, "adding")

AddSeen(h) ==
    /\ At(h, "seen", "adding")
    /\ log' = [log EXCEPT ![handler[h].msg].seen[handler[h].user] = @ + 1]
    /\ Finish(h)

(***************************************************************************)
(* Taking back.                                                            *)
(***************************************************************************)

\* revokeMessageForEveryone and recallMessageWithin24Hours, by the sender.
Recall(h, u, m) == log[m].sender = u /\ Begin(h, Reading("recall", u, m, None))

\* By an admin of the group, for a message of somebody else.
AdminDelete(h, u, m) == log[m].sender # u /\ Begin(h, Reading("remove", u, m, None))

\* Done before, it is not done again.
SaveRecall(h) ==
    /\ At(h, "recall", "read")
    /\ LET me == handler[h] IN SaveFlags(me.msg, me.copy, [me.copy EXCEPT !.revoked = TRUE])
    /\ Finish(h)

SaveAdminDelete(h) ==
    /\ At(h, "remove", "read")
    /\ LET me == handler[h]
       IN  SaveFlags(me.msg, me.copy, [me.copy EXCEPT !.deletedByAdmin = TRUE])
    /\ Finish(h)

DeleteForMe(h, u, m) == Begin(h, [Idle EXCEPT !.op = "hide", !.step = "read", !.user = u, !.msg = m])

AddDeletedFor(h) ==
    /\ At(h, "hide", "read")
    /\ log' = [log EXCEPT ![handler[h].msg].deletedFor = @ \cup {handler[h].user}]
    /\ Finish(h)

ClearChatHistory(h, u) == Begin(h, [Idle EXCEPT !.op = "clear", !.step = "read", !.user = u])

AddAllDeletedFor(h) ==
    /\ At(h, "clear", "read")
    /\ log' = [m \in DOMAIN log |-> [log[m] EXCEPT !.deletedFor = @ \cup {handler[h].user}]]
    /\ Finish(h)

(***************************************************************************)
(* Pins.                                                                   *)
(***************************************************************************)

Pinned == {m \in DOMAIN log : log[m].pinned}

Pin(h, u, m) == ~ log[m].pinned /\ Begin(h, Reading("pin", u, m, None))

\* Mutant: off by one.
PinRoom_OffByOne == Cardinality(Pinned) <= PinLimit

PinRoom == Cardinality(Pinned) < PinLimit

CountPins(h) ==
    /\ At(h, "pin", "read")
    /\ PinRoom
    /\ Goto(h, "saving")
    /\ UNCHANGED log

SavePin(h) ==
    /\ At(h, "pin", "saving")
    /\ LET me == handler[h] IN SaveFlags(me.msg, me.copy, [me.copy EXCEPT !.pinned = TRUE])
    /\ Finish(h)

Unpin(h, u, m) == log[m].pinned /\ Begin(h, Reading("unpin", u, m, None))

SaveUnpin(h) ==
    /\ At(h, "unpin", "read")
    /\ LET me == handler[h] IN SaveFlags(me.msg, me.copy, [me.copy EXCEPT !.pinned = FALSE])
    /\ Finish(h)

Begins(h) ==
    \E u \in Users :
      \/ \E k \in Keys \cup Texts : Send(h, u, k)
      \/ \E m \in DOMAIN log :
           \/ \E e \in Emojis : React(h, u, m, e)
           \/ Unreact(h, u, m)
           \/ MarkRead(h, u, m)
           \/ Recall(h, u, m)
           \/ AdminDelete(h, u, m)
           \/ DeleteForMe(h, u, m)
           \/ Pin(h, u, m)
           \/ Unpin(h, u, m)
      \/ ClearChatHistory(h, u)

Goes(h) ==
    \/ Create(h)
    \/ SaveReact(h)
    \/ SaveUnreact(h)
    \/ PullSeen(h)
    \/ AddSeen(h)
    \/ SaveRecall(h)
    \/ SaveAdminDelete(h)
    \/ AddDeletedFor(h)
    \/ AddAllDeletedFor(h)
    \/ CountPins(h)
    \/ SavePin(h)
    \/ SaveUnpin(h)

Next == \E h \in Handlers : Begins(h) \/ Goes(h) \/ Throws(h)

Spec == Init /\ [][Next]_vars

(***************************************************************************)
(* Reading a page: getMessages with fetchConversationMessages.             *)
(***************************************************************************)

\* The ways to take the n newest of a set of messages: between those of one millisecond the
\* sort leaves the order open.
NewestOf(n, S) ==
    IF Cardinality(S) <= n THEN {S}
    ELSE {T \in SUBSET S :
            Cardinality(T) = n /\ \A m \in T, x \in S \ T : log[x].time <= log[m].time}

\* What was stamped before the cursor and is not hidden from the user.
Readable(u, cursor) == {m \in DOMAIN log : log[m].time < cursor /\ u \notin log[m].deletedFor}

\* Mutant: no more is fetched than a page holds.
FetchSize_Page == PageSize

\* Twice a page is fetched.
FetchSize == PageSize * 2

\* What fetched messages are told apart by: the clientMessageId or else the sender, createdAt
\* put into words, which have no milliseconds, and the text.
DedupKey(m) ==
    IF log[m].key \in Keys THEN log[m].key
                           ELSE <<log[m].sender, log[m].time \div Second, log[m].key>>

\* Of the fetched messages of one key the newest is kept.
KeptOf(found) ==
    {kept \in SUBSET found :
       /\ \A m, n \in kept : DedupKey(m) = DedupKey(n) => m = n
       /\ \A m \in found : \E n \in kept : DedupKey(n) = DedupKey(m) /\ log[n].time >= log[m].time}

Pages(u, cursor) ==
    UNION {UNION {NewestOf(PageSize, kept) : kept \in KeptOf(found)} :
             found \in NewestOf(FetchSize, Readable(u, cursor))}

\* The cursor of the next page is the time of the oldest message of a full one, and a page
\* that is not full is the last.
NextCursor(page) ==
    IF Cardinality(page) = PageSize
    THEN CHOOSE t \in {log[m].time : m \in page} : \A m \in page : t <= log[m].time
    ELSE 0

(***************************************************************************)
(* Properties.                                                             *)
(***************************************************************************)

Docs == [key : Keys \cup Texts, sender : Users, time : Times, version : Nat,
         reactions : SUBSET [user : Users, emoji : Emojis], seen : [Users -> Nat],
         revoked : BOOLEAN, deletedByAdmin : BOOLEAN, pinned : BOOLEAN,
         deletedFor : SUBSET Users]

\* The documents have the fields of the schema, and a message keeps its place in the log as
\* long as a handler is about to write it.
TypeOK ==
    /\ \A m \in DOMAIN log : log[m] \in Docs
    /\ Len(log) <= MaxMessages
    /\ DOMAIN handler = Handlers
    /\ \A h \in Handlers : handler[h].msg \in 0 .. Len(log)
    /\ starts \in 0 .. MaxStarts
    /\ pinsRaced \in BOOLEAN

\* What a reader of the documents sees of the promises of MessageBoard.
ReactionOf(m, u) == {r.emoji : r \in {s \in log[m].reactions : s.user = u}}

BoardView ==
    [m \in DOMAIN log |->
       [reaction |-> [u \in Users |->
                        IF ReactionOf(m, u) = {} THEN None
                        ELSE IF Cardinality(ReactionOf(m, u)) = 1
                             THEN CHOOSE e \in Emojis : e \in ReactionOf(m, u)
                             ELSE ReactionOf(m, u)],
        back |-> (IF log[m].revoked THEN {"recalled"} ELSE {})
                 \cup (IF log[m].deletedByAdmin THEN {"removed"} ELSE {})
                 \cup log[m].deletedFor]]

Board == INSTANCE MessageBoard WITH board <- BoardView

\* However many copies of a document are saved at a time, no reaction of another user is
\* lost, nobody has two, and nothing that was taken back is shown again.
ImplementsBoard == Board!Spec

\* Unless two handlers pin at a time, all pinned messages fit into the list that shows
\* them.
PinsAreShown == pinsRaced \/ Cardinality(Pinned) <= PinLimit

Copies(m) == {n \in DOMAIN log : DedupKey(n) = DedupKey(m)}

\* A user who scrolls through the conversation is shown every message that is not hidden
\* from the user, whatever others sent a second time and in whatever order it arrived: from
\* any cursor on, the page shows it or a copy of it, or leaves it to the next cursor, unless
\* it has its millisecond in common with the oldest message of a full page, where the edge
\* of the page may cut it off.  Of what was sent three times a page may come out short,
\* which ends the scrolling.
OnlyTiesAreSkipped ==
    (\A m \in DOMAIN log : Cardinality(Copies(m)) <= 2) =>
      \A u \in Users, cursor \in 1 .. MaxTime + 1 : \A page \in Pages(u, cursor) :
        /\ NextCursor(page) < cursor
        /\ \A m \in Readable(u, cursor) :
             \/ \E n \in page : DedupKey(n) = DedupKey(m)
             \/ log[m].time < NextCursor(page)
             \/ log[m].time = NextCursor(page)

=============================================================================
