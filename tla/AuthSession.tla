---------------------------- MODULE AuthSession ----------------------------
(***************************************************************************)
(* The session columns of one account's users row, and the HTTP handlers   *)
(* that read the row, wait, and write it back: login, QR confirmation,     *)
(* logout, password reset and profile update.                              *)
(*                                                                         *)
(* Every handler works on the entity findOne returned to it and hands the  *)
(* same entity to TypeORM's save(), which writes each column that differs  *)
(* from the database row.  A handler that waits between the two (bcrypt,   *)
(* an upload, the 300 ms pause of login) writes back what it read before.  *)
(*                                                                         *)
(* A JWT is its payload: the device type and the second it was signed in,  *)
(* so two logins of one platform in one second get the same token.         *)
(***************************************************************************)
EXTENDS Naturals

CONSTANTS
    Requests,   \* HTTP requests; each runs one handler
    MaxTime,    \* bound on the clock, in seconds
    MaxHash,    \* bound on the password hashes resets produce
    None        \* SQL NULL

Platforms == {"web", "mobile", "other"}
Headers   == {"web", "mobile", "absent"}
Tokens    == [platform : Platforms, iat : 0..MaxTime]

ASSUME AuthAssumption ==
    /\ MaxTime \in Nat
    /\ MaxHash \in Nat
    /\ None \notin Tokens

VARIABLES
    now,         \* the clock that stamps tokens
    row,         \* the account's row: both session columns and the password hash
    nextHash,    \* bcrypt salts every hash, so each reset makes a new one
    req,         \* the state of every handler
    held,        \* the tokens clients were given in a response
    notified,    \* session:conflict events sent: <<platform room, displaced token>>
    overlapped   \* history: the handlers that ever ran beside another one

vars == <<now, row, nextHash, req, held, notified, overlapped>>

Row == [web : Tokens \cup {None}, mobile : Tokens \cup {None}, pw : 0..MaxHash]

Ops   == {"login", "qr", "logout", "reset", "profile", "none"}
Steps == {"new", "guarded", "verifying", "saving", "saved", "sleeping", "published",
          "done", "expired", "failed"}

Request == [op : Ops, step : Steps, platform : Platforms, snap : Row,
            tok : Tokens \cup {None}, old : Tokens \cup {None}, hash : 0..MaxHash]

EmptyRow == [web |-> None, mobile |-> None, pw |-> 0]

\* Mutant: a login from the mobile app fills the web column.
Column_AlwaysWeb(p) == "web"

\* The column a login of platform p writes: everything that is not mobile is web.
Column(p) == IF p = "mobile" THEN "mobile" ELSE "web"

\* Handlers that hold an entity they may still save.
InFlight == {r \in Requests : req[r].step \in {"verifying", "saving", "saved", "sleeping"}}

\* Mutant: the query cache answers with the first password hash.
FindUser_CachedHash == [row EXCEPT !.pw = 0]

\* Mutant: the entity is changed and never saved.
SaveUser_Forgotten(r) == UNCHANGED row

\* findOne reads the row as it is; save overwrites it with the entity.
FindUser == row
SaveUser(r) == row' = req[r].snap

\* Mutant: the response carries the session that was found, not the one that was made.
ResponseToken_Found(r) == req[r].old

\* The token the answer of a login carries.
ResponseToken(r) == req[r].tok

\* The handler of r goes on in state q.
Move(r, q) == req' = [req EXCEPT ![r] = q]

\* A handler returns or throws: its entity is dropped.
Ended(r, step) ==
    Move(r, [req[r] EXCEPT !.step = step, !.snap = EmptyRow, !.old = None,
                           !.platform = "web"])

NewEntityReadBy(r) ==
    overlapped' = IF InFlight = {} THEN overlapped ELSE overlapped \cup InFlight \cup {r}

Init ==
    /\ now = 0
    /\ row = EmptyRow
    /\ nextHash = 1
    /\ req = [r \in Requests |->
                [op |-> "none", step |-> "new", platform |-> "web", snap |-> EmptyRow,
                 tok |-> None, old |-> None, hash |-> 0]]
    /\ held = {}
    /\ notified = {}
    /\ overlapped = {}

(***************************************************************************)
(* The guards in front of the protected routes.                            *)
(***************************************************************************)

\* The platform the session guard compares with: the x-platform header, then the
\* token's own deviceType, then whichever single column matches, then web.
GuardColumn(t, header) ==
    IF header # "absent" THEN header
    ELSE IF t.platform # "other" THEN t.platform
    ELSE IF row.mobile = t /\ row.web # t THEN "mobile" ELSE "web"

SessionGuardAccepts(t, header) == row[GuardColumn(t, header)] = t

\* JwtAuthGuard: no header means web, and any header but web and mobile takes either.
JwtGuardAccepts(t, header) ==
    row[IF header = "mobile" THEN "mobile" ELSE "web"] = t

\* A protected request passes its guard and waits for its handler to run.
Guard(r, op, accepted) ==
    /\ req[r].step = "new"
    /\ accepted
    /\ Move(r, [req[r] EXCEPT !.op = op, !.step = "guarded"])
    /\ UNCHANGED <<now, row, nextHash, held, notified, overlapped>>

QrGuard(r) ==
    \E t \in held, h \in Headers : Guard(r, "qr", SessionGuardAccepts(t, h))

ProfileGuard(r) ==
    \E t \in held, h \in {"web", "mobile"} : Guard(r, "profile", JwtGuardAccepts(t, h))

(***************************************************************************)
(* login: find, compare the password, store the token, tell the displaced  *)
(* devices, pause, save again.                                             *)
(***************************************************************************)

\* The password typed is compared with the hash that was read; a wrong one throws and
\* changes nothing, so only requests with the right one are started.
LoginFind(r, p) ==
    /\ req[r].step = "new"
    /\ Move(r, [req[r] EXCEPT !.op = "login", !.step = "verifying",
                              !.platform = p, !.snap = FindUser])
    /\ NewEntityReadBy(r)
    /\ UNCHANGED <<now, row, nextHash, held, notified>>

\* The entity x with session token t in the column of platform p.
WithSession(x, p, t) ==
    IF Column(p) = "mobile" THEN [x EXCEPT !.mobile = t] ELSE [x EXCEPT !.web = t]

\* bcrypt.compare resolves: the token is signed, the old session is taken from the
\* entity read before, and the entity gets the new token.
LoginVerified(r) ==
    /\ req[r].op = "login" /\ req[r].step = "verifying"
    /\ LET p == req[r].platform
           t == [platform |-> p, iat |-> now]
       IN  Move(r, [req[r] EXCEPT !.step = "saving",
                                  !.tok  = t,
                                  !.old  = req[r].snap[Column(p)],
                                  !.snap = WithSession(req[r].snap, p, t)])
    /\ UNCHANGED <<now, row, nextHash, held, notified, overlapped>>

\* QR confirmation reads the row, signs a web token and sets it with no wait between.
QrFind(r) ==
    /\ req[r].op = "qr" /\ req[r].step = "guarded"
    /\ LET t == [platform |-> "web", iat |-> now]
       IN  Move(r, [req[r] EXCEPT !.step = "saving",
                                  !.platform = "web",
                                  !.tok  = t,
                                  !.old  = FindUser.web,
                                  !.snap = WithSession(FindUser, "web", t)])
    /\ NewEntityReadBy(r)
    /\ UNCHANGED <<now, row, nextHash, held, notified>>

\* The save that stores the new token, of login and of QR confirmation.
StoreSession(r) ==
    /\ req[r].op \in {"login", "qr"} /\ req[r].step = "saving"
    /\ SaveUser(r)
    /\ Move(r, [req[r] EXCEPT !.step = "saved"])
    /\ UNCHANGED <<now, nextHash, held, notified, overlapped>>

\* The save resolved: session:conflict goes to the room of the platform, if a session
\* had been found, and the handler pauses.
NotifyConflict(r) ==
    /\ req[r].step = "saved"
    /\ notified' = IF req[r].old = None THEN notified
                   ELSE notified \cup {<<req[r].platform, req[r].old>>}
    /\ Move(r, [req[r] EXCEPT !.step = "sleeping"])
    /\ UNCHANGED <<now, row, nextHash, held, overlapped>>

\* login stamps lastLoginAt on the same entity and saves all of it again.
LoginFinish(r) ==
    /\ req[r].op = "login" /\ req[r].step = "sleeping"
    /\ SaveUser(r)
    /\ held' = held \cup {ResponseToken(r)}
    /\ Ended(r, "done")
    /\ UNCHANGED <<now, nextHash, notified, overlapped>>

\* QR confirmation puts the token into the session of the code and answers the phone; the
\* browser that shows the code has not got it yet.
QrFinish(r) ==
    /\ req[r].op = "qr" /\ req[r].step = "sleeping"
    /\ Ended(r, "published")
    /\ UNCHANGED <<now, row, nextHash, held, notified, overlapped>>

\* The browser asks for the state of its code and finds the token.
QrPoll(r) ==
    /\ req[r].step = "published"
    /\ held' = held \cup {ResponseToken(r)}
    /\ Move(r, [req[r] EXCEPT !.step = "done"])
    /\ UNCHANGED <<now, row, nextHash, notified, overlapped>>

\* The session of the code is gone before the browser asks: it expired, perhaps while the
\* handler still ran, or a second confirmation of the code replaced the answer.
QrExpires(r) ==
    /\ req[r].step = "published"
    /\ Move(r, [req[r] EXCEPT !.step = "expired"])
    /\ UNCHANGED <<now, row, nextHash, held, notified, overlapped>>

(***************************************************************************)
(* logout, resetPassword and updateProfile: find, change, save.            *)
(***************************************************************************)

\* The columns logout clears: the platform of the request wins, else the one whose
\* token matches (web if both do), and an unknown platform clears both.
LogoutColumns(x, t, platform) ==
    CASE platform \in {"web", "mobile"} -> {platform}
      [] platform = "other"  -> {"web", "mobile"}
      [] platform = "absent" -> IF x.web = t THEN {"web"} ELSE {"mobile"}

Cleared(x, cols) ==
    [x EXCEPT !.web    = IF "web" \in cols THEN None ELSE @,
              !.mobile = IF "mobile" \in cols THEN None ELSE @]

\* A token that matches neither column returns "session already replaced" with no write.
LogoutFind(r, t, platform) ==
    /\ req[r].step = "new"
    /\ t \in {FindUser.web, FindUser.mobile}
    /\ Move(r, [req[r] EXCEPT !.op = "logout", !.step = "saving",
                              !.snap = Cleared(FindUser, LogoutColumns(FindUser, t, platform))])
    /\ NewEntityReadBy(r)
    /\ UNCHANGED <<now, row, nextHash, held, notified>>

\* The account is read, then the OTP is checked and the new password hashed.
ResetFind(r) ==
    /\ req[r].step = "new"
    /\ nextHash <= MaxHash
    /\ Move(r, [req[r] EXCEPT !.op = "reset", !.step = "saving", !.hash = nextHash,
                              !.snap = [FindUser EXCEPT !.pw = nextHash]])
    /\ nextHash' = nextHash + 1
    /\ NewEntityReadBy(r)
    /\ UNCHANGED <<now, row, held, notified>>

\* The profile columns change and the images are uploaded; the session columns and the
\* hash are the ones read.
ProfileFind(r) ==
    /\ req[r].op = "profile" /\ req[r].step = "guarded"
    /\ Move(r, [req[r] EXCEPT !.step = "saving", !.snap = FindUser])
    /\ NewEntityReadBy(r)
    /\ UNCHANGED <<now, row, nextHash, held, notified>>

SaveAndReturn(r) ==
    /\ req[r].op \in {"logout", "reset", "profile"} /\ req[r].step = "saving"
    /\ SaveUser(r)
    /\ Ended(r, "done")
    /\ UNCHANGED <<now, nextHash, held, notified, overlapped>>

\* A query or an upload of a running handler fails: it throws, and what it had saved
\* so far stays.
RequestFails(r) ==
    /\ r \in InFlight
    /\ Ended(r, "failed")
    /\ UNCHANGED <<now, row, nextHash, held, notified, overlapped>>

Tick ==
    /\ now < MaxTime
    /\ now' = now + 1
    /\ UNCHANGED <<row, nextHash, req, held, notified, overlapped>>

\* What a handler that started does next by itself.
Continue(r) ==
    \/ LoginVerified(r)
    \/ QrFind(r)
    \/ ProfileFind(r)
    \/ StoreSession(r)
    \/ NotifyConflict(r)
    \/ LoginFinish(r)
    \/ QrFinish(r)
    \/ SaveAndReturn(r)

Next ==
    \/ \E r \in Requests :
        \/ QrGuard(r)
        \/ ProfileGuard(r)
        \/ \E p \in Platforms : LoginFind(r, p)
        \/ \E t \in held, p \in Platforms \cup {"absent"} : LogoutFind(r, t, p)
        \/ ResetFind(r)
        \/ Continue(r)
        \/ QrPoll(r)
        \/ QrExpires(r)
        \/ RequestFails(r)
    \/ Tick

Spec == Init /\ [][Next]_vars

-----------------------------------------------------------------------------
TypeOK ==
    /\ now \in 0..MaxTime
    /\ row \in Row
    /\ nextHash \in 1..(MaxHash + 1)
    /\ req \in [Requests -> Request]
    /\ held \subseteq Tokens
    /\ notified \subseteq (Platforms \X Tokens)
    /\ overlapped \subseteq Requests

\* The session guard never takes a web token for a request of the mobile app, nor a
\* mobile token for one of the browser, whatever handlers have written each other's
\* entities back.
PlatformSeparation ==
    \A t \in held :
        /\ SessionGuardAccepts(t, "mobile") => t.platform = "mobile"
        /\ SessionGuardAccepts(t, "web") => t.platform # "mobile"

\* The handler that signed the token has not answered with it: it still runs, failed, or
\* left it in the session of a QR code, where the browser still finds it or no longer does.
Unanswered(r) ==
    req[r].step \in {"saving", "saved", "sleeping", "published", "expired", "failed"}

HandedOut(t) == t \in held \/ \E r \in Requests : req[r].tok = t /\ Unanswered(r)

\* A login that was answered left no session nobody has: what the row stores is the token
\* of a client, unless the handler that signed it never answered.  A confirmed QR code is
\* answered by a poll, so one that no browser polls again does occupy the web column.
NoOrphanSession ==
    \A c \in {"web", "mobile"} : row[c] # None => HandedOut(row[c])

\* What login promises for a handler that nothing ran beside: from the save until the
\* answer, so when session:conflict reaches the displaced device, the column holds the
\* new token.
ConflictAfterStore ==
    \A r \in Requests \ overlapped :
        req[r].step \in {"saved", "sleeping"} => row[Column(req[r].platform)] = req[r].tok

\* The row and every copy of it that a running handler may still save.
Entities == {row} \cup {req[r].snap : r \in InFlight}

LiveTokens == {x[c] : x \in Entities, c \in {"web", "mobile"}}
LiveHashes == {x.pw : x \in Entities}

\* A replaced credential is gone for good once no running handler still carries it: a
\* token neither the row nor an entity in flight holds comes back only by being signed
\* again in the same second, and a replaced password hash never does.
NoResurrection ==
    [][/\ \A t \in LiveTokens' \ LiveTokens : t = None \/ t.iat = now
       /\ \A h \in LiveHashes' \ LiveHashes : h = nextHash]_vars

-----------------------------------------------------------------------------
(***************************************************************************)
(* The inductive invariant behind the properties above.                    *)
(***************************************************************************)

\* A login that has signed its token carries it in its entity; nothing else has one.
LoginCarriesToken ==
    \A r \in Requests :
        /\ req[r].step = "new" => req[r].op = "none"
        /\ req[r].step \in {"verifying", "saved", "sleeping"} => req[r].op \in {"login", "qr"}
        /\ req[r].op \notin {"login", "qr"} => req[r].tok = None
        /\ req[r].step = "published" => req[r].op = "qr" /\ req[r].tok \in Tokens
        /\ (req[r].op \in {"login", "qr"} /\ req[r].step \in {"saving", "saved", "sleeping"})
              => /\ req[r].tok \in Tokens
                 /\ req[r].snap[Column(req[r].platform)] = req[r].tok

\* No copy of the row mixes up the two columns or holds a token from nowhere.
EntitiesSound ==
    \A x \in Entities :
        /\ x.web # None => x.web.platform # "mobile" /\ HandedOut(x.web)
        /\ x.mobile # None => x.mobile.platform = "mobile" /\ HandedOut(x.mobile)

RunsAlone == \A r \in InFlight \ overlapped : InFlight = {r}

IInv ==
    /\ TypeOK
    /\ LoginCarriesToken
    /\ EntitiesSound
    /\ RunsAlone
    /\ ConflictAfterStore

-----------------------------------------------------------------------------
\* The comment in login: the token is updated before the conflict event goes out, so
\* that an old device that logs out on it no longer finds the old token.
ConflictFindsNewToken ==
    \A r \in Requests :
        (req[r].step = "saved" /\ req[r].old # None /\ req[r].old # req[r].tok)
            => row[Column(req[r].platform)] # req[r].old

\* resetPassword answers that the password was changed: the hash of the newest finished
\* reset is the one the account has.
ResetSticks ==
    \A r \in Requests :
        (/\ req[r].op = "reset" /\ req[r].step = "done"
         /\ \A q \in Requests \ {r} : req[q].hash < req[r].hash)
            => row.pw = req[r].hash
=============================================================================
