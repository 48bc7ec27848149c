# Orion chat server: TLA+ models, checks and proofs

Orion is a NestJS chat server: REST controllers and socket.io gateways on one Node process, with
PostgreSQL (TypeORM) for accounts, groups and work items, MongoDB (Mongoose) for messages and call
records, Redis and S3 behind clients of their own, and a fair amount of state in plain JavaScript
maps. Node runs one callback at a time, so the atomic steps of the system are the stretches of a
handler **between two `await`s**; everything that is hard about it comes from what other handlers
do during the waits. The models here are cut along that line: one TLA+ action is the code from one
wait to the next, and a handler that waits is a small state machine of its own, next to any number
of others.

Source paths below are relative to `src/src/` of the repository.

## Inventory

State, operations, interaction and the difficulty of each part. The complete list of parts, with
those that are not modelled, is `components` in `PROJECT.json`; the list of what is hard to test,
with lines, is `hazards`.

| Part | State | Operations | Interacts with | Hard behaviour | Correct when |
|---|---|---|---|---|---|
| Sessions (`modules/auth`, the two guards) | `web_session_token`, `mobile_session_token`, `password_hash` of a `users` row | login, logout, confirmQrLogin, resetPassword, updateProfile, the guards | presence gateway (session:conflict), user devices | whole-entity saves around bcrypt, S3 and a 300 ms sleep | platforms stay apart; a replaced token or hash does not come back; the displaced device is told after the store |
| QR login (`auth.service.ts`) | maps `qrLoginSessions`, `qrLoginTokens` | create, poll, confirm, cleanup | the sessions above | confirmations that outlive the code; restart | a browser gets only its own, confirmed, stored login; each browser gets an answer |
| OTP, registration (`auth.service.ts`) | `otps` rows | send, verify, reset, register | SMS gateway | delete-then-save, re-insertion by save | one valid code; a code resets once |
| One-to-one calls (`modules/call`) | maps `onlineUsers`, `activeCalls`; call documents | connect, disconnect, initiate, reject, end, relays | privacy policy, notification settings, MongoDB | a walk over a live map with a wait per turn; reconnects | maps and records agree; a lost peer ends its calls |
| Group calls (`modules/call`) | map `activeGroupCalls`, call documents, chat message of the call | initiate, join, leave, end, relays | the sockets above, chat messages | last leave against host's end; message posted late; hang-ups of any id | closed once; map and records agree; a message says completed only of a call that is over, and does say so |
| Messages and rooms (`modules/message`) | message documents, socket.io rooms | send, resend, read, react, recall, remove, hide, clear, pin, page, join | membership, blocks, notifications | a copy of a document saved after others changed it; retried sends; pins counted before the save; pages cut by a time that messages share | no reaction of another is lost; nothing taken back is shown again; scrolling skips nothing but ties |
| Groups (`modules/groups`, `group-invite`) | group, member, participant, request and invite rows | add, remove, leave, transfer, promote, approve, reject, accept, dissolve | conversations, notifications | check-then-act around transactions | one owner; participants are members; the limit holds |
| Conversations, friends, requests, blocks, privacy | conversation, participant, friendship and request rows; settings | create, leave, request, accept, decline, unfriend, block, allow | chat and calls ask the policy | double creation; a row saved or removed that was read before a block; checks one after the other | one private conversation per pair; a block stands; no text passes a block |
| Presence and notifications | maps `onlineUsers`, `socketToUser`, `userLastSeen`; notification documents | connect, disconnect, heartbeat, sweep, conflict | auth, every notifier | sweep against late heartbeats and reconnects | online iff a live socket |
| Workspaces and members (`modules/workspace`, `workspace-member`) | workspace, member and join-request rows | create, add, link, approve, role change, remove, hand over, settings, disband | activity log | owners and members counted before a save; two services that write one workspace | somebody owns the workspace; one row per user; column and row of the owner agree |
| Calendar and its reminders (`modules/calendar-event`) | event and participant rows | create, update, remove, respond, a scan every 30 s | notifications | scans that overlap or fail; a copy saved after an edit | reminded once, and in the end |
| Workspace files, tasks, boards, sprints, notes, labels, goals, reports | rows of one owner or board | create, read, update, delete | activity log | little: one row at a time | — |
| AI chat, retrieval, Gemini keys | documents, embeddings, per-key counters in Redis | prompt, index, pick a key | external models | quota counters around a wait | quota respected |
| Shared services, shell, scripts, generated code | none of their own | — | — | failures of clients | — |

## Modules

| Module | Role |
|---|---|
| `AuthSession`, `MCAuthSession`, `AuthSession_proofs` | session columns of one account and the five kinds of handler that write its row |
| `QrTicket` | abstract specification: what a QR code promises the browser that shows it |
| `QrLogin`, `MCQrLogin`, `QrLogin_proofs` | the QR maps, objects and handlers; implements `QrTicket` |
| `CallGateway`, `MCCallGateway`, `CallGateway_proofs` | one-to-one calls |
| `GroupCall`, `MCGroupCall`; proofs in `CallGateway_proofs` | group calls, and the gateway as a whole: extends `CallGateway` |
| `GroupMembership`, `MCGroupMembership`, `GroupMembership_proofs` | one group: its row, members, participants, join requests and invites |
| `Contacts`, `MCContacts`, `Contacts_proofs` | two users: requests, friendship, blocks, settings, private conversations, and the checks of a text |
| `MessageBoard` | abstract specification: what the chat promises about the messages of a conversation |
| `MessageStore`, `MCMessageStore`, `MessageStore_proofs` | the message documents of one conversation and the pages of a reader; implements `MessageBoard` |
| `EventReminder`, `MCEventReminder`, `EventReminder_proofs` | calendar events, answers of guests, and the scans that remind |
| `WorkspaceMembers`, `MCWorkspaceMembers`, `WorkspaceMembers_proofs` | one workspace: its row, member rows and join requests |

### AuthSession

`row` has the three columns that handlers write back; the profile columns and `lastLoginAt` are data
no property distinguishes, and `currentSessionToken` is written and never read. `req[r]` is one HTTP
request: `snap` is the entity `findOne` returned to it, `tok` the token it signed, `old` the session
it found. TypeORM's `save` compares the entity with the row and writes every column that differs,
which is the assignment `row' = req[r].snap`: that is the point of the module. `findOne` and `save`
are the external part.

- A JWT is `[platform, iat]`. The payload has no nonce and `iat` counts seconds, so two tokens of one
  platform in one second are equal, and are equal in the model. The 24 hours of validity are longer
  than any interleaving here and left out.
- `login` is `LoginFind` (before `bcrypt.compare`), `LoginVerified`, `StoreSession`, `NotifyConflict`,
  `LoginFinish` (the second `save`, for `lastLoginAt`). `confirmQrLogin` is `QrGuard`, `QrFind`,
  `StoreSession`, `NotifyConflict`, `QrFinish`, and the token then waits in the session of the code until the browser polls (`QrPoll`) or the session is
  gone (`QrExpires`, which includes that it expired before the handler was done). `logout`, `resetPassword` and `updateProfile` are a
  find and `SaveAndReturn`.
- Handlers that throw or return before they change anything (wrong password, "session already
  replaced") are not steps. `RequestFails` lets any query, upload or hash of a running handler fail.
- `NoOrphanSession` says whose token the row may hold: one a client was given, or one whose handler runs or failed, or one of a QR code
  that nobody has polled yet or that expired unpolled. The last is the session nobody is ever given; nothing in the code finds it.
- `overlapped` is a history variable: the requests that ever ran beside another one. It only states
  what holds for a login that nothing ran beside.

### QrTicket and QrLogin

A session id and its `qrToken` are one to one, so both maps are sets of ids. The session **object** is
separate from the map (`session`, `expiresAt`), because a confirmation keeps a reference to it across
its waits and puts it back into the map at the end, after a cleanup may have dropped it. `web` is the
web token in each account's row, `answer` what the polling browser saw last. Others save that row too (login, logout, reset,
profile: `AuthSession`), and any of them may leave in it a token of its own, `NULL`, or one that it read before: `OtherSave`, which keeps apart the
tokens of confirmations only. `displaced` is a history variable, the confirmations whose token such a save, or another
confirmation, has replaced. `Restart` empties the
maps and drops the running handlers. `ConfirmThrows` stands for a query that fails or a user that is gone.

`QrTicket` knows none of this: a ticket is pending, confirmed, then expired, never goes back, and each
answer is the ticket's present state, with the login data only while it is confirmed. The refinement
calls a ticket live while it is in the map **and** has not expired, so an expired object put back into
the map is still an expired ticket. Expiry of several codes, by the clock or a restart, is one step of
`QrTicket`, and so is its empty case: an abstract stutter.

### CallGateway

`onlineUsers` maps a user to the last socket it connected with, as in the code. `closer[p]` is a handler
that ends calls: one of a hang-up message or one of a socket's disconnect. The walk of
`handleDisconnect` over `activeCalls` is `Disconnect`, then per call `EndCall` (the wait) and
`CleanupNext`. A JavaScript `Map` iterator sees entries that are added during the walk, which the
model has by choosing the next call from the map as it is at that moment; it leaves the order open,
where the code goes by insertion. So what is shown holds for every order.

Emits and the relays (offer, answer, candidate, accept, media, upgrade) read `onlineUsers` and change
nothing. `call.controller.ts` edits call records by id; the gateway never reads a record. `late` is a
history variable: calls registered when one of their parties had already gone, which the code never
cleans up. `call:end` and `call:reject` look nothing up: anybody with an open socket may name any call, also one that is over (`HangUp`). A call document cannot be created twice under one id, so each member of `Calls` is one run
of `call:initiate`.

### GroupCall

Group calls live in the same class as one-to-one calls and on the same sockets, so the module extends `CallGateway` and adds the variables
of group calls to it. `GatewaySpec` is the whole gateway: a step is one of a group call, or one of `CallGateway` that leaves the group calls alone. `Connected` are the users with an open
socket, which is not the same as online: a user whose newest socket closed is offline for the gateway and can still send through an older one. Leave and end
delete the entry before they wait, unlike one-to-one calls; a disconnect leaves group calls alone. `call:end` and `call:reject` do not: they hand
whatever id they are given to `endCall`, and that of a group call ends its record while the map keeps the call and people go on joining it
(`HangUpGroup`, `HangUpEndsGroup`). `hungUp` are the calls so named; how many messages name one does not matter.
`PostMessage` is the client posting the chat message that carries the `callId` (external); `late` marks
a message stored after the call left the map. In the invitation loop, reading `onlineUsers` and the
answer of the settings query are one step; nothing can tell them apart before the call is registered.

### GroupMembership

Three services write the same tables of a group. `role` and `rowId` are the member row of a user: `transferAdmin`,
`updateMemberRole` and the removals address the row **by the id they read** (`WithRole`, `SameRow`), `promoteToAdmin` saves the
entity it read, which inserts a row that was deleted again with its old id, and `ConversationParticipant` rows (`part`) are
written and deleted by user. `handler[h]` is one request: what it has read so far, and its next step. A handler reads its authority
(`Add`, `Decide`, `Moderate`, `Leave`, `End`, `SetApproval`), then its target or the capacity, then commits one
transaction; `acceptInvite` and `disbandGroup` commit twice. Reads of one handler that no property tells apart (the group row
and the membership of the actor; the target and the count of co-admins) are one step. Once a handler knows which row is to go,
it is a `depart` handler: the two `removeMember` and the two `leaveGroup` end alike. `Throws` stops any handler at any
step, for a check that fails, a constraint of the database or a failing query.

`addMembers` takes a list; the model adds one person per request. Names, avatars and the auto-delete time are data. The role
`admin` is in the enumeration and assigned nowhere, so `Moderators` are owners and co-admins. A group that was deleted is `Gone`:
the foreign keys cascade. `createGroupConversation` is the initial state; it does not apply the limit, and neither does `Init`.

`raced` is a history variable: the kinds of handlers (`Kinds`: entry, moderation, decision) that ran beside one of their own
kind. Check-then-act breaks the weaker properties then, as the hazards say: two transfers make two owners, two entries exceed the
limit. Handlers of different kinds may overlap as they like, e.g. an acceptance with a removal. The properties say what is left, and
`ParticipantIsMember` needs no exception.

### Contacts

Everything between two users, because that is how the code keys it: one friendship row of the pair (`friendship`, with an id: `remove`
misses a row that was replaced, `save` inserts a deleted one again, the unique index refuses a second), the requests, each user's
`messagePermission`, and the private conversations with `part` and `blocked`. `handler[h]` is one request of `FriendsService`,
`FriendRequestService` or `ConversationService`, with the row it read.

A text is a handler with the list of checks its route still makes (`Checks`): the REST route of a conversation, the message
route, which asks for no settings, and the socket's `chat:send_message` ask for the block of the conversation, the block of the
user and the setting of the receiver in different orders and with a query each. Routes for files check membership only and are
left out. The block of a conversation lives in the participant's row, so it goes when that user deletes the conversation. No endpoint
cancels a request.

`under[h]` is what has stood in the way of a text **since it started**, so that the property is not refuted by a block that came
after its check. `firm` is who blocked while no other change of the row was half way; `troubled` that two first
messages raced or a handler failed between two writes.

### MessageBoard and MessageStore

`MessageBoard` is a list of messages that only grows, with one reaction per user that only that user changes, and marks (recalled,
removed by an admin, hidden by a user) that are never taken off. `MessageStore` has the documents as Mongoose stores them. A handler that
reads a document and saves it (reactions, recall, removal, pins) keeps a copy over its waits; `save` writes the changed paths only, and
for a replaced array asks for the version it read and counts it up (`SaveReactions`, `SaveFlags`): the reactions are replaced, so
a copy that is out of date fails, and the flags are single paths, which overwrite nothing else. Read marks,
hiding and clearing are update operators of the database. Mongoose is the external part.

`log` is in the order of storing. `createdAt` is stamped before the document is on its way, in milliseconds, so that `time` may be any of
`Times`: the same for several messages (the files of one request are sent side by side, `message.controller.ts:561`) or older than that of a
message stored before. `Pages` are the outcomes of `getMessages`: of what was stamped before the cursor and is not hidden from the reader the newest two pages
(`FetchSize`, `NewestOf`, which leaves the order within a millisecond open, as the sort does), of those one message per key (`KeptOf`), of those the
newest page. The key is the `clientMessageId`, or else sender, text and `createdAt` as a string, which has whole seconds (`DedupKey`): the same words
twice in a second count as copies, and one is shown. `NextCursor` is the time of the oldest message of a full page.

`OnlyTiesAreSkipped` says of **every** cursor that a page shows a message or a copy of it, or leaves it to a cursor that is older still, **or that the message
has the millisecond of the page's oldest one**: the next page begins strictly before that, so messages beyond the edge that share it are
never shown, e.g. the fifth file of a request when the page ends within it. Nothing else is lost, and since the cursors decrease a scroll ends. The nested arrays of an older schema that the
pipeline also unwinds are abstracted. Two things the code does and no document speaks of: nothing ever sets `isDeleted`, so "cannot react
to a revoked message" refuses no recalled message; and of three copies of a message a page may come out short and end the scrolling.
Two concurrent reads of one user may leave two `seenBy` entries, which `seen` counts.

### EventReminder

`scan[s]` is the scan that began at tick `s`: it reads a batch, then for each due event its recipients, one notification at a
time, and the save of **the copy** with its mark. Ticks do not wait for it. `handler[h]` is an update, a removal or an answer, with the copy it
read. `save` of an event writes every column, attaches the participant rows of the copy, and inserts an event again that was removed. One
unit of time is the 30 seconds between scans. Participants are the owner and one guest; recurrence is stored and used
nowhere, and reminders to a group are data.

`troubled` are the events for which the code promises nothing: a full scan left them out (200 events that began unreminded keep
their places for ever and starve the later ones), a scan failed with them, two scans held them, or the owner saved under a scan.

### WorkspaceMembers

One workspace row, the member rows attached to it, and the requests of invite links. `WorkspaceMemberService` and
`WorkspaceService` both write them. `save` of a member row that is gone inserts it detached from the workspace, where no query finds it; `save` of the workspace
writes every column it read, and detaches the rows its copy does not list; soft removal hides the rows
from every query by workspace. `GUEST` has the rights of `MEMBER` and is left out. A link is valid once somebody could have made it, and its
role is the owner's or an unknown one, which `Granted` turns into a member's.

`outdated` are the running handlers that read what another has changed since, `disturbed` that one of them wrote, that a handler failed between two
writes, or that an owner handed over to himself. `update` of a workspace asks for no membership. If approval fails between the row and the decision,
the request stays pending for ever and its user is a member.

## Runs

| Run | Instance | Shows |
|---|---|---|
| `auth_session` | 3 requests, 3 seconds, 1 reset, symmetric requests | types; `PlatformSeparation`, `NoOrphanSession`, `ConflictAfterStore`, `NoResurrection` |
| `auth_conflict_comment` | 2 requests | **violation**: the comment in `login` that the token is stored before the conflict is sent does not survive a concurrent save |
| `auth_reset_message` | 2 requests | **violation**: "password changed successfully" while a login in progress restores the old hash |
| `qr_login` | 2 codes, 2 accounts, 2 confirmations, life 1, clock 0..2 | types; `MapsAgree`, `LoginIsConfirmed`, refinement of `QrTicket`, `BrowserGetsAnswer` |
| `call_gateway` | 2 users, 3 sockets, 2 calls, 1 hang-up | types; `OnlineSocketIsOpen`, `AbandonedCallsAreCleanedUp`, `RecordsMatchMap`, `PeerLossEndsCall` |
| `group_call` | 3 users with 4 sockets, 1 group call, 2 closing handlers, no one-to-one calls | types; `ActiveMeansPopulated`, `ClosedOnce`, `GroupRecordsMatchMap`, `CompletedCallIsOver`, `MessageIsCompleted` |
| `group_membership` | 3 users, 2 handlers at a time, 4 in a behaviour, 1 request, 1 invite, limit 2, symmetric users and handlers | types; `ParticipantIsMember`, `OneOwner`, `TablesAgree`, `GrowsToLimit`, `DecisionIsFinal` |
| `contacts` | 2 users, 2 handlers at a time, 4 in a behaviour, 2 requests, 2 conversations, symmetric ids | types; `BlockStands`, `NoTextUnderBlock`, `OneConversation` |
| `message_store` | 2 users, 2 emojis, 1 clientMessageId and 1 text without, times 1 and 2 in one second, 2 handlers at a time, 3 in a behaviour, up to 4 messages, 1 pin, pages of 2 | types; `PinsAreShown`, `OnlyTiesAreSkipped`, refinement of `MessageBoard` |
| `event_reminder` | 2 events, 3 ticks, 2 scans at a time with batches of 1, 1 request, starts 2 and 3, notices 1 and 2 | types; `RemindedOnce`, `EventuallyReminded` |
| `workspace_members` | 3 users, 2 handlers at a time, 4 in a behaviour, limits 2 and 3 | types; `Owned` |
| `group_invite_chat` | 2 users, 1 handler, 2 in a behaviour, 1 invite | **violation**: who accepted an invite is announced as having joined and has no participant row |

**Bounds.** Three requests on one account are one that displaces, one displaced, and one that writes
an older copy back; three values of the clock give equal and different tokens. `MaxHash` is one
reset: hashes only matter as old and new. For QR codes, life 1 on a clock up to 2 lets a code expire
under a confirmation in each of its waits, and a second code be made after that. Three sockets let one
user reconnect in either order, two calls make the walk over the map have a second turn. Group calls
do not refer to each other, so one call with three users and two closing handlers has each race; one-to-one calls are left out of that instance, whose states
they multiply by eighty: they share the sockets with group calls and nothing else, and `GatewayKeepsCalls` covers both at a time for every instance. A group of up to three
has an owner, a target and a newcomer; four handlers make a person leave and come back (a new row) under a handler that holds
the old one, and every set of members is an initial state, so that no handlers are spent on filling the group. Limit 2 is met by
two members and exceeded by three founders. In `contacts` the two may start as friends or strangers, with any settings and with or without a
conversation; four handlers are a request, its acceptance, and a block and its end around them, or two
first messages and two departures. In `message_store` up to two messages exist already, so that three handlers are two that react, pin or take
back at a time and a third that resends; four messages fill two pages of two, one of them with a copy; two times
make messages of one millisecond and an edge between two, and a second longer than both makes copies of unequal times. In `event_reminder` a batch of one
makes the other event wait, and three ticks let a scan outlast the next one. In `workspace_members` creation takes one of the four
handlers, and the others are e.g. a handover, a second owner by a link, and a removal that counts the owners.

**Deadlock** is not checked: every instance has finitely many requests, sockets and ticks, and stops when
they are used up.

**Fairness.** `QrLogin`: the browser polls until it is told an end (`WF(Poll)`), time passes (`WF(Tick)`);
nothing is assumed of phones or confirmations. `CallGateway` and `GroupCall`: a database call is answered or
rejected in the end, and the event loop runs the continuation (`WF` of `EndCall ∨ CloserFails`, of
`CleanupNext`, of the closing steps). `EventReminder`: the interval fires (`WF(Tick)`) and each query of a scan answers or
fails (`WF` of the scan's steps; failing is never required). No fairness for users, sockets or messages. The liveness properties
name failure as the alternative, because a rejected `endCall` really leaves the call behind.

## Findings

1. `auth.service.ts:714-716` says that the token is updated before the conflict is emitted so that the old
   device's logout finds no old token. `ConflictFindsNewToken` is violated with two handlers: a second
   one saves its older copy between the store and the event.
2. `auth.service.ts:1057` answers that the password was changed. `ResetSticks` is violated: a login that had
   read the row before saves the old hash back, twice, and so does a profile update.

3. `group-invite.service.ts:219` announces that the invitee joined the group. `AcceptedInviteCanChat` is violated without any race:
   `acceptInvite` writes no `ConversationParticipant`, so `chat-membership.service.ts:68-76` refuses the new member, and
   `TablesAgree` names exactly this exception.

What does hold in place of the first two is `ConflictAfterStore` (a login nothing ran beside) and `NoResurrection` (a
replaced credential returns only through a handler that read it before it was replaced).

Behaviour the models show and no document contradicts: a call registered after a party left is never cleaned
up; participants of a group call who disconnect stay in its set; a chat message posted after its call was
closed stays active; `call:end` with the id of a group call ends its record while people are in it and join it; messages that share the millisecond of a page's edge may never be
shown; a QR confirmation that outlives its code, or is not polled in time, stores a web session nobody is given.

## Proofs

The theorems hold for every value of the constants that satisfies the named assumption of the module: `AuthAssumption` (two natural
bounds; `None` is no token), `QrAssumption` (a positive life, a natural bound, `None` is nothing else), `CallAssumption` (every socket has an
owner; disconnects and hang-ups have different names), `GroupCallAssumption` (`None` is no group call), `GroupAssumption` (finitely
many users, natural limits; `None` is nobody and no document), `ContactsAssumption` (two users, a natural bound; `None` is nothing else) and `StoreAssumption` (natural limits, a page that is not empty, room for the two messages an initial state may
have) `WorkspaceAssumption` (positive limits, a natural bound, `None` is nobody)
and `ReminderAssumption` (natural times and bounds, a batch and a number of scans that are not 0; `None` is no event).

| Theorem | Statement |
|---|---|
| `AuthSession_proofs!TypeCorrect` | `Spec => []TypeOK` |
| `GuardSeparatesPlatforms` | `Spec => []PlatformSeparation` |
| `SessionsAreHandedOut` | `Spec => []NoOrphanSession` |
| `SerialLoginStoresFirst` | `Spec => []ConflictAfterStore` |
| `ReplacedCredentialsStayGone` | `Spec => NoResurrection` |
| `QrLogin_proofs!TypeCorrect` | `Spec => []TypeOK` |
| `MapsAlwaysAgree` | `Spec => []MapsAgree` |
| `LoginsAreConfirmed` | `Spec => []LoginIsConfirmed` |
| `ServiceImplementsTickets` | `Spec => Ticket!Spec` |
| `CallGateway_proofs!TypeCorrect` | `Spec => []TypeOK` |
| `EmitsReachOpenSockets` | `Spec => []OnlineSocketIsOpen` |
| `NoCallIsAbandoned` | `Spec => []AbandonedCallsAreCleanedUp` |
| `MapMatchesRecords` | `Spec => []RecordsMatchMap` |
| `GroupTypeCorrect` | `GatewaySpec => []GroupTypeOK` |
| `NoEmptyCall` | `GatewaySpec => []ActiveMeansPopulated` |
| `OneCloser` | `GatewaySpec => []ClosedOnce` |
| `GroupMapMatchesRecords` | `GatewaySpec => []GroupRecordsMatchMap` |
| `CompletedCallsAreOver` | `GatewaySpec => []CompletedCallIsOver` |
| `GatewayKeepsCalls` | `GatewaySpec => Spec` |
| `GatewayIsSafe` | `GatewaySpec => [](OnlineSocketIsOpen /\ AbandonedCallsAreCleanedUp /\ RecordsMatchMap)` |
| `GroupMembership_proofs!TypeCorrect` | `Spec => []TypeOK` |
| `OnlyMembersChat` | `Spec => []ParticipantIsMember` |
| `SingleOwner` | `Spec => []OneOwner` |
| `ChatFollowsMembers` | `Spec => []TablesAgree` |
| `NobodyOverTheLimit` | `Spec => GrowsToLimit` |
| `AnswersStand` | `Spec => DecisionIsFinal` |
| `Contacts_proofs!TypeCorrect` | `Spec => []TypeOK` |
| `BlockStandsFirm` | `Spec => []BlockStands` |
| `NoTextPastABlock` | `Spec => []NoTextUnderBlock` |
| `SharedConversation` | `Spec => []OneConversation` |
| `MessageStore_proofs!TypeCorrect` | `Spec => []TypeOK` |
| `PinsFit` | `Spec => []PinsAreShown` |
| `StoreImplementsBoard` | `Spec => Board!Spec` |
| `ScrollingSkipsOnlyTies` | `Spec => []OnlyTiesAreSkipped` |
| `WorkspaceMembers_proofs!TypeCorrect` | `Spec => []TypeOK` |
| `SomebodyOwns` | `Spec => []Owned` |
| `EventReminder_proofs!TypeCorrect` | `Spec => []TypeOK` |
| `RemindedAtMostOnce` | `Spec => []RemindedOnce` |
| `OneScanInCharge` | `Spec => []RemindersOK` |

**AuthSession.** No safety property is inductive alone, since a save copies an entity that was read long ago.
`IInv` therefore speaks of `Entities`, the row together with every copy a running handler may still save:
none of them mixes up platforms or holds a token from nowhere (`EntitiesSound`), a login carries its token in
its entity once it has signed it (`LoginCarriesToken`), and a handler outside `overlapped` runs alone
(`RunsAlone`), which is why nobody can have written between its save and its event. `NoResurrection` follows
from the same view: a step makes no entity but by copying one, signing, or hashing.

**QrLogin.** `MapsAgree` needs what a running confirmation knows: its object is in the maps or has expired
(`ConfirmationsSound`), so that what it puts back at the end is either live with its token or already dead. With
`ObjectsSound` (an id that has not been used is blank) this is `IInv`. `LoginIsConfirmed` needs besides that a confirmation has no
login before its user is found, and that a saved login stays in its row until a save of that row displaces it, which `SaveWeb` records (`LoginsKept`), and that objects and answers hold
what a finished confirmation put there (`DataConfirmed`). The refinement then has one lemma per action: each is a step
of `QrTicket` or leaves the three abstract variables alone; the publication of an expired object is the
case that needs the invariant.

**CallGateway.** A call is registered after its record is made and its parties are known (`SetUpOK`); what a handler is ending was registered, and
what it has ended stays ended (`ClosersOK`); a socket that is not closed has not begun its disconnect (`DisconnectsOnce`), which is what makes the
handler of `handleDisconnect` the one that `AbandonedCallsAreCleanedUp` promises. With the three properties this is inductive.

**GroupCall.** What a handler is closing has left the map and was registered (`ClosingOK`), so no second handler finds it; a call in the map was
registered (`GroupSetUpOK`), so nothing registers it twice. A handler that completes a message has ended the record and left the map without the call, and no call comes back into it, so `CompletedCallIsOver` is part of the same induction. A step of `CallGateway` leaves this invariant
(`GroupInv`) alone, and a step of a group call is a stutter of `CallGateway`: so `GatewaySpec` implements `Spec` (the fairness of `Spec` is part of `GatewaySpec`), and what is
proved of one-to-one calls holds of the whole gateway.

**GroupMembership.** That every participant is a member is kept by each transaction, given what the handlers in flight carry
(`HandlersOK`): a promotion writes a row id that is not 0, a role change a role that is not `none`. There is one lemma for
each form of record a reading step leaves, and one per writing step; `IInv` is `TypeOK`, `HandlersOK` and
`ParticipantIsMember`.

The other four properties hold only while handlers of a kind do not overlap, and for one reason: **a handler that is alone of its kind still sees
what it read**. `KInv` is that reason, spelled out. A kind that has not raced has at most one handler (`OneOfAKind`); a handler that moderates
knows the rows of its actor and target (`KnowsRows`: who leaves is not the owner, unless as the last one; who is promoted, demoted or
removed is not the owner), one that lets somebody in knows there is room (`KnowsRoom`), one that answers knows the request is open
(`KnowsRequest`). Reading steps establish this (one lemma each); a write keeps it for the others because those are of another kind: a newcomer
changes no row of a moderator (`NewcomerKnows`), and a moderator only makes room (`RoomStays`). `IInv /\ KInv` is inductive. That
the limit holds then needs the one fact about sets that a set with fewer than `Limit` elements has at most `Limit` after one more.

**Contacts.** Under a firm block the only handlers about to write the row are the blocker's own, to block again (`FirmOK`). That an acceptance in
three steps does no harm follows because it only inserts, which the index refuses while there is a row.

`NoTextUnderBlock` is about the moment when no check is left. `TextsOK` says the same of every moment before: of each list of checks that a route
can still have ahead (`Stage`), what the ones behind it have cleared from `under`. A check that passes clears its own barrier, and
everything else only shrinks what has stood in the way all the time. The one case in two parts is the setting "friends only": the
friendship is read by one check and used by the next, so `TextOK` remembers that whoever read a friendship has not been a stranger all the time.

`OneConversation` talks about the tables, and needs what the handlers rely on (`ChatsOK`): while nothing is `troubled` there is one opener at
most; while it creates, the two share nothing; the conversation it is about to join is empty, and nobody who deletes has it in hand;
each empty conversation has a handler that joins it or deletes it. Two users who leave at once both count no participants, and the
second deletion finds nothing.

**MessageStore.** The heart is the version: a handler's copy is no newer than the document, and a copy **with the document's version has the
document's reactions** (`GoodHandler`, in `HandlersOK`), so that a save that succeeds changes its user's reaction and nobody else's. `PinsOK` says that
whoever pins alone finds room when it saves. With these, each step is one of `MessageBoard` or a stutter.

`ScrollingSkipsOnlyTies` is a fact about the operators of a page, for any log of the right type and any outcome of the sorts. Where there are at
most two copies of a message, no more are dropped than kept (`HalfIsKept`: a dropped one maps to the kept one of its key, injectively, since a third would be one too
many), so two pages of documents hold one page of messages. Hence a page that is not full had everything before it (`LastPage`), and of a full one
all that is newer than its oldest message is on the page or has its copy there (`FullPage`). Least elements come from the
well-foundedness of the natural numbers, cardinalities from `FiniteSetTheorems`.

**WorkspaceMembers.** `Owned` holds because a handler that nobody outdated still sees the rows as they are (`FreshHandler`: the target's row, and
with it another owner, is there; the copies of the workspace and of its rows are the present ones), and because every write outdates all
running handlers but its own, so that one lemma (`WriteKeeps`) serves all six writes. What a handler carries however old (`GoodHandler`) gives the
types: a row that is saved back keeps its id and its user.

**EventReminder.** `RemindedOnce` counts what was sent, so its invariant follows an event through a scan (`Tended`): before its turn nobody has been reminded of it (`Unheard`),
at its turn those still to be notified have not been, and when it is let go it is marked, so that an event without a mark that no scan holds is unheard of. This is
kept because, of an event nothing troubles, at most one scan is in charge (`Alone`): `Find` troubles an event it takes while another scan has it, and an owner who saves an event
in a scan's hands troubles it (`AnewReminders`). `InTurn` says that a scan has each event once and the one it is at no more ahead; the five steps of a scan then share one lemma
(`TurnTaken`). `TypeOK` needs that the copies in flight are copies of rows (`Typed`) of events that existed (`NoGhosts`), since every one of them may be written back.

**Only model-checked:** the temporal properties under fairness (`BrowserGetsAnswer`, `PeerLossEndsCall`, `MessageIsCompleted`, `EventuallyReminded`: liveness
is outside what the prover handles). Every other property of a passing run is a theorem. What `OnlyTiesAreSkipped` implies for a whole scroll is an
induction over the cursors, left to the reader.

## Plan

Done, in the order of how much of the server depends on the part: sessions of an account, QR codes, one-to-one and group calls, groups,
contacts with private conversations, the message documents, workspaces and their members, the calendar's reminders, the call gateway as a whole; proofs of the safety properties of each.

Left, in order:

1. `Otp`: codes and what they authorise, with `resetPassword` of `AuthSession` (two requests for a code at once may leave two; one code may reset twice).
2. `Presence` with notifications, if the sweep is ever made to work; the conflict event it delivers is a step of `AuthSession`.
3. Composition of `Contacts` and `CallGateway` over the privacy policy: neither writes what the other reads, and the permission to call is the
   same function as the permission to write.

## Not modelled

- **OTP and registration.** Rows of a table of codes, one request at a time in practice; deletion before insertion may leave two codes when
  two are asked for at once (`auth.service.ts:304`).
- **Presence.** Connecting and disconnecting update three maps without a wait in between, and the sweep, where time would come in, returns
  at once: it looks for `server.sockets.sockets`, which the server of a namespace does not have.
- **Notifications.** One insert and one emit, without a retry; in the models a notification is a step that may fail.
- **Rooms of the chat gateway.** A socket joins after a check of membership that a removal may overtake (`chat.gateway.ts:604`), and no path takes a
  socket out of a room when its user is removed. A broadcast leaves no state behind.
- **Devices, single-row settings, files, tasks, notes, labels, goals, reports, address book.** Rows of one owner, each written by one request.
- **Gemini keys.** Counters around a wait that only choose the next key; the provider has the last word on the quota.
- Content and layout of messages, prompts, embeddings, uploads, formatting; stubs (`reminder`, `user-session`, `channel`), seed scripts.
- **The generated Prisma client**, three quarters of the repository's lines: accessors derived from a schema, without state or decisions of their own.

Each part is listed with its reason in `PROJECT.json`.
