------------------------- MODULE AuthSession_proofs -------------------------
(***************************************************************************)
(* Proofs about AuthSession for any set of requests and any bounds.        *)
(***************************************************************************)
EXTENDS AuthSession, TLAPS

LEMMA EmptyRowType == EmptyRow \in Row
  BY AuthAssumption DEF EmptyRow, Row

LEMMA WithSessionType ==
    ASSUME NEW x \in Row, NEW p, NEW t \in Tokens
    PROVE  WithSession(x, p, t) \in Row
  BY DEF WithSession, Row

LEMMA ClearedType ==
    ASSUME NEW x \in Row, NEW cols
    PROVE  Cleared(x, cols) \in Row
  BY DEF Cleared, Row

LEMMA EndedType ==
    ASSUME TypeOK, NEW r \in Requests, NEW step \in Steps, Ended(r, step)
    PROVE  req' \in [Requests -> Request]
<1> DEFINE q == [req[r] EXCEPT !.step = step, !.snap = EmptyRow, !.old = None,
                               !.platform = "web"]
<1>1. req[r] \in Request
  BY DEF TypeOK
<1>2. q \in Request
  BY <1>1, EmptyRowType DEF Request, Platforms
<1> QED
  BY <1>2 DEF Ended, Move, TypeOK

LEMMA InitType == Init => TypeOK
  BY AuthAssumption, EmptyRowType DEF Init, TypeOK, EmptyRow, Row, Request, Ops, Steps, Platforms

LEMMA TypeStep == TypeOK /\ LoginCarriesToken /\ [Next]_vars => TypeOK'
<1> SUFFICES ASSUME TypeOK, LoginCarriesToken, [Next]_vars PROVE TypeOK'
  OBVIOUS
<1> USE AuthAssumption
<1>a. ASSUME NEW r \in Requests PROVE req[r] \in Request
  BY DEF TypeOK
<1>b. ASSUME NEW r \in Requests, NEW q \in Request, Move(r, q)
      PROVE  req' \in [Requests -> Request]
  BY <1>b DEF TypeOK, Move
<1>c. ASSUME NEW r \in Requests, NewEntityReadBy(r)
      PROVE  overlapped' \subseteq Requests
  BY <1>c DEF TypeOK, NewEntityReadBy, InFlight
<1>d. now \in 0..MaxTime /\ row \in Row
  BY DEF TypeOK
<1>e. ASSUME NEW r \in Requests, req[r].op \in {"login", "qr"}, req[r].step = "sleeping"
      PROVE  req[r].tok \in Tokens
  BY <1>e DEF LoginCarriesToken
<1>1. ASSUME NEW r \in Requests, NEW op \in {"qr", "profile"}, NEW accepted,
             Guard(r, op, accepted)
      PROVE TypeOK'
  <2>1. [req[r] EXCEPT !.op = op, !.step = "guarded"] \in Request
    BY <1>a DEF Request, Ops, Steps
  <2> QED
    BY <1>1, <1>b, <2>1 DEF TypeOK, Guard
<1>2. ASSUME NEW r \in Requests, NEW p \in Platforms, LoginFind(r, p) PROVE TypeOK'
  <2>1. [req[r] EXCEPT !.op = "login", !.step = "verifying", !.platform = p, !.snap = row]
          \in Request
    BY <1>a, <1>d DEF Request, Ops, Steps
  <2> QED
    BY <1>2, <1>b, <1>c, <2>1 DEF TypeOK, LoginFind, FindUser
<1>3. ASSUME NEW r \in Requests, NEW t \in held, NEW p \in Platforms \cup {"absent"},
             LogoutFind(r, t, p)
      PROVE TypeOK'
  <2>1. ASSUME NEW s \in Row
        PROVE  [req[r] EXCEPT !.op = "logout", !.step = "saving", !.snap = s] \in Request
    BY <1>a DEF Request, Ops, Steps
  <2> QED
    BY <1>3, <1>b, <1>c, <1>d, <2>1, ClearedType DEF TypeOK, LogoutFind, FindUser
<1>4. ASSUME NEW r \in Requests, ResetFind(r) PROVE TypeOK'
  <2>1. nextHash \in 0..MaxHash /\ nextHash' \in 1..(MaxHash + 1)
    BY <1>4 DEF ResetFind, TypeOK
  <2>2. [row EXCEPT !.pw = nextHash] \in Row
    BY <2>1, <1>d DEF Row
  <2>3. [req[r] EXCEPT !.op = "reset", !.step = "saving", !.hash = nextHash,
                       !.snap = [row EXCEPT !.pw = nextHash]] \in Request
    BY <1>a, <2>1, <2>2 DEF Request, Ops, Steps
  <2> QED
    BY <1>4, <1>b, <1>c, <2>1, <2>3 DEF TypeOK, ResetFind, FindUser
<1>5. ASSUME NEW r \in Requests, LoginVerified(r) PROVE TypeOK'
  <2> DEFINE p == req[r].platform
             t == [platform |-> p, iat |-> now]
             o == req[r].snap[Column(p)]
  <2>1. t \in Tokens
    BY <1>a, <1>d DEF Request, Tokens
  <2>2. req[r].snap \in Row /\ o \in Tokens \cup {None}
    BY <1>a DEF Request, Row, Column
  <2>3. WithSession(req[r].snap, p, t) \in Row
    BY <2>1, <2>2, WithSessionType
  <2>4. ASSUME NEW s \in Row, NEW u \in Tokens, NEW w \in Tokens \cup {None}
        PROVE  [req[r] EXCEPT !.step = "saving", !.tok = u, !.old = w, !.snap = s] \in Request
    BY <1>a DEF Request, Steps
  <2>5. req' \in [Requests -> Request]
    BY <1>5, <1>b, <2>1, <2>2, <2>3, <2>4 DEF LoginVerified
  <2> QED
    BY <1>5, <2>5 DEF TypeOK, LoginVerified
<1>6. ASSUME NEW r \in Requests, QrFind(r) PROVE TypeOK'
  <2> DEFINE t == [platform |-> "web", iat |-> now]
  <2>1. t \in Tokens /\ row.web \in Tokens \cup {None}
    BY <1>d DEF Tokens, Platforms, Row
  <2>2. WithSession(row, "web", t) \in Row
    BY <2>1, <1>d, WithSessionType
  <2>3. ASSUME NEW s \in Row, NEW u \in Tokens, NEW w \in Tokens \cup {None}
        PROVE  [req[r] EXCEPT !.step = "saving", !.platform = "web", !.tok = u, !.old = w,
                              !.snap = s] \in Request
    BY <1>a DEF Request, Steps, Platforms
  <2>4. req' \in [Requests -> Request]
    BY <1>6, <1>b, <2>1, <2>2, <2>3 DEF QrFind, FindUser
  <2> QED
    BY <1>6, <1>c, <2>4 DEF TypeOK, QrFind
<1>7. ASSUME NEW r \in Requests, ProfileFind(r) PROVE TypeOK'
  <2>1. [req[r] EXCEPT !.step = "saving", !.snap = row] \in Request
    BY <1>a, <1>d DEF Request, Steps
  <2> QED
    BY <1>7, <1>b, <1>c, <2>1 DEF TypeOK, ProfileFind, FindUser
<1>8. ASSUME NEW r \in Requests PROVE req[r].snap \in Row
  BY <1>a DEF Request
<1>9. ASSUME NEW r \in Requests, NEW step \in Steps
      PROVE  [req[r] EXCEPT !.step = step] \in Request
  BY <1>a DEF Request
<1>10. ASSUME NEW r \in Requests, StoreSession(r) PROVE TypeOK'
  BY <1>10, <1>b, <1>8, <1>9 DEF TypeOK, StoreSession, SaveUser, Steps
<1>11. ASSUME NEW r \in Requests, NotifyConflict(r) PROVE TypeOK'
  <2>1. req[r].platform \in Platforms /\ req[r].old \in Tokens \cup {None}
    BY <1>a DEF Request
  <2>2. notified' \subseteq Platforms \X Tokens
    BY <1>11, <2>1 DEF NotifyConflict, TypeOK
  <2> QED
    BY <1>11, <1>b, <1>9, <2>2 DEF TypeOK, NotifyConflict, Steps
<1>12. ASSUME NEW r \in Requests, LoginFinish(r) PROVE TypeOK'
  BY <1>12, <1>e, <1>8, EndedType DEF TypeOK, LoginFinish, ResponseToken, SaveUser, Steps
<1>13. ASSUME NEW r \in Requests, QrFinish(r) PROVE TypeOK'
  BY <1>13, EndedType DEF TypeOK, QrFinish, Steps
<1>14. ASSUME NEW r \in Requests, SaveAndReturn(r) PROVE TypeOK'
  BY <1>14, <1>8, EndedType DEF TypeOK, SaveAndReturn, SaveUser, Steps
<1>15. ASSUME NEW r \in Requests, RequestFails(r) PROVE TypeOK'
  BY <1>15, EndedType DEF TypeOK, RequestFails, Steps
<1>16. CASE Tick
  BY <1>16 DEF TypeOK, Tick
<1>18. ASSUME NEW r \in Requests, QrPoll(r) PROVE TypeOK'
  <2>1. ResponseToken(r) \in Tokens
    BY <1>18 DEF QrPoll, LoginCarriesToken, ResponseToken
  <2> QED
    BY <1>18, <1>b, <1>9, <2>1 DEF TypeOK, QrPoll, Steps
<1>19. ASSUME NEW r \in Requests, QrExpires(r) PROVE TypeOK'
  BY <1>19, <1>b, <1>9 DEF TypeOK, QrExpires, Steps
<1>17. CASE UNCHANGED vars
  BY <1>17 DEF TypeOK, vars
<1> QED
  BY <1>1, <1>2, <1>3, <1>4, <1>5, <1>6, <1>7, <1>10, <1>11, <1>12,
     <1>13, <1>14, <1>15, <1>16, <1>17, <1>18, <1>19
     DEF Next, Continue, QrGuard, ProfileGuard

-----------------------------------------------------------------------------
(***************************************************************************)
(* What one step does to the handlers and to the copies of the row.        *)
(***************************************************************************)
LEMMA MoveFacts ==
    ASSUME TypeOK, NEW r \in Requests, NEW q, Move(r, q)
    PROVE  req'[r] = q /\ \A s \in Requests \ {r} : req'[s] = req[s]
  BY DEF Move, TypeOK

LEMMA EndedFacts ==
    ASSUME TypeOK, NEW r \in Requests, NEW step, Ended(r, step)
    PROVE  /\ req'[r].step = step /\ req'[r].op = req[r].op /\ req'[r].tok = req[r].tok
           /\ \A s \in Requests \ {r} : req'[s] = req[s]
<1> DEFINE q == [req[r] EXCEPT !.step = step, !.snap = EmptyRow, !.old = None,
                               !.platform = "web"]
<1>1. req'[r] = q /\ \A s \in Requests \ {r} : req'[s] = req[s]
  BY MoveFacts DEF Ended
<1>2. req[r] \in Request
  BY DEF TypeOK
<1> QED
  BY <1>1, <1>2 DEF Request

LEMMA EntityType == ASSUME TypeOK, NEW x \in Entities PROVE x \in Row
  BY DEF TypeOK, Entities, InFlight, Request

\* How a copy of the row after a step comes from the copies before it: unchanged, with a
\* token signed in this second, with sessions cleared, or with a new hash.
DerivedEntity(x) ==
    \/ x \in Entities
    \/ \E y \in Entities, r \in Requests, p \in Platforms :
        LET t == [platform |-> p, iat |-> now]
        IN  x = WithSession(y, p, t) /\ req'[r].tok = t /\ req'[r].step = "saving"
    \/ \E y \in Entities, cols \in SUBSET {"web", "mobile"} : x = Cleared(y, cols)
    \/ \E y \in Entities : x = [y EXCEPT !.pw = nextHash]

LEMMA EntityStep ==
    ASSUME TypeOK, LoginCarriesToken, [Next]_vars
    PROVE  \A x \in Entities' : DerivedEntity(x)
<1> SUFFICES ASSUME NEW x \in Entities' PROVE DerivedEntity(x)
  OBVIOUS
<1>a. row \in Entities
  BY DEF Entities
<1>b. ASSUME NEW r \in InFlight PROVE req[r].snap \in Entities
  BY DEF Entities
<1>c. ASSUME NEW r \in Requests, NEW q, Move(r, q), q.snap \in Entities, row' = row
      PROVE  x \in Entities
  BY <1>c, MoveFacts DEF Entities, InFlight
<1>d. ASSUME NEW r \in Requests, NEW q, Move(r, q), q.snap = req[r].snap,
             r \in InFlight \/ q.step \notin {"verifying", "saving", "saved", "sleeping"},
             row' \in Entities
      PROVE  x \in Entities
  BY <1>d, MoveFacts DEF Entities, InFlight
<1>e. ASSUME NEW r \in Requests, NEW step \in {"published", "done", "failed"}, Ended(r, step),
             row' \in Entities
      PROVE  x \in Entities
  BY <1>e, EndedFacts DEF Entities, InFlight
<1>f. ASSUME NEW r \in Requests, NEW q, Move(r, q), row' = row
      PROVE  x \in Entities \/ x = q.snap
  BY <1>f, MoveFacts DEF Entities, InFlight
<1>g. ASSUME NEW r \in Requests PROVE req[r] \in Request
  BY DEF TypeOK
<1>1. ASSUME NEW r \in Requests, NEW op, NEW accepted, Guard(r, op, accepted)
      PROVE  x \in Entities
  <2> DEFINE q == [req[r] EXCEPT !.op = op, !.step = "guarded"]
  <2>1. q.snap = req[r].snap /\ q.step = "guarded"
    BY <1>g DEF Request
  <2> QED
    BY <1>1, <1>a, <1>d, <2>1 DEF Guard
<1>2. ASSUME NEW r \in Requests, NEW p \in Platforms, LoginFind(r, p) PROVE x \in Entities
  <2> DEFINE q == [req[r] EXCEPT !.op = "login", !.step = "verifying", !.platform = p,
                                 !.snap = row]
  <2>1. q.snap = row
    BY <1>g DEF Request
  <2> QED
    BY <1>2, <1>a, <1>c, <2>1 DEF LoginFind, FindUser
<1>3. ASSUME NEW r \in Requests, NEW t \in held, NEW p \in Platforms \cup {"absent"},
             LogoutFind(r, t, p)
      PROVE  DerivedEntity(x)
  <2> DEFINE cols == LogoutColumns(row, t, p)
             q == [req[r] EXCEPT !.op = "logout", !.step = "saving", !.snap = Cleared(row, cols)]
  <2>1. q.snap = Cleared(row, cols)
    BY <1>g DEF Request
  <2>2. cols \in SUBSET {"web", "mobile"}
    BY DEF LogoutColumns, Platforms
  <2>3. x \in Entities \/ x = Cleared(row, cols)
    BY <1>3, <1>f, <2>1 DEF LogoutFind, FindUser
  <2> QED
    BY <1>a, <2>2, <2>3 DEF DerivedEntity
<1>4. ASSUME NEW r \in Requests, ResetFind(r) PROVE DerivedEntity(x)
  <2> DEFINE q == [req[r] EXCEPT !.op = "reset", !.step = "saving", !.hash = nextHash,
                                 !.snap = [row EXCEPT !.pw = nextHash]]
  <2>1. q.snap = [row EXCEPT !.pw = nextHash]
    BY <1>g DEF Request
  <2>2. x \in Entities \/ x = [row EXCEPT !.pw = nextHash]
    BY <1>4, <1>f, <2>1 DEF ResetFind, FindUser
  <2> QED
    BY <1>a, <2>2 DEF DerivedEntity
<1>5. ASSUME NEW r \in Requests, LoginVerified(r) PROVE DerivedEntity(x)
  <2> DEFINE p == req[r].platform
             t == [platform |-> p, iat |-> now]
             y == req[r].snap
             q == [req[r] EXCEPT !.step = "saving", !.tok = t, !.old = y[Column(p)],
                                 !.snap = WithSession(y, p, t)]
  <2>1. q.snap = WithSession(y, p, t) /\ q.tok = t /\ q.step = "saving"
    BY <1>g DEF Request
  <2>2. y \in Entities /\ p \in Platforms
    BY <1>5, <1>b, <1>g DEF LoginVerified, InFlight, Request
  <2>3. Move(r, q) /\ row' = row
    BY <1>5 DEF LoginVerified
  <2>4. x \in Entities \/ x = WithSession(y, p, t)
    BY <1>f, <2>1, <2>3
  <2>5. req'[r].tok = t /\ req'[r].step = "saving"
    BY <2>1, <2>3, MoveFacts
  <2> QED
    BY <2>2, <2>4, <2>5 DEF DerivedEntity
<1>6. ASSUME NEW r \in Requests, QrFind(r) PROVE DerivedEntity(x)
  <2> DEFINE t == [platform |-> "web", iat |-> now]
             q == [req[r] EXCEPT !.step = "saving", !.platform = "web", !.tok = t,
                                 !.old = row.web, !.snap = WithSession(row, "web", t)]
  <2>1. q.snap = WithSession(row, "web", t) /\ q.tok = t /\ q.step = "saving"
    BY <1>g DEF Request
  <2>2. Move(r, q) /\ row' = row
    BY <1>6 DEF QrFind, FindUser
  <2>3. x \in Entities \/ x = WithSession(row, "web", t)
    BY <1>f, <2>1, <2>2
  <2>4. req'[r].tok = t /\ req'[r].step = "saving"
    BY <2>1, <2>2, MoveFacts
  <2> QED
    BY <1>a, <2>3, <2>4 DEF DerivedEntity, Platforms
<1>7. ASSUME NEW r \in Requests, ProfileFind(r) PROVE x \in Entities
  <2> DEFINE q == [req[r] EXCEPT !.step = "saving", !.snap = row]
  <2>1. q.snap = row
    BY <1>g DEF Request
  <2> QED
    BY <1>7, <1>a, <1>c, <2>1 DEF ProfileFind, FindUser
<1>8. ASSUME NEW r \in Requests, StoreSession(r) PROVE x \in Entities
  <2> DEFINE q == [req[r] EXCEPT !.step = "saved"]
  <2>1. q.snap = req[r].snap /\ q.step = "saved"
    BY <1>g DEF Request
  <2> QED
    BY <1>8, <1>b, <1>d, <2>1 DEF StoreSession, SaveUser, InFlight
<1>9. ASSUME NEW r \in Requests, NotifyConflict(r) PROVE x \in Entities
  <2> DEFINE q == [req[r] EXCEPT !.step = "sleeping"]
  <2>1. q.snap = req[r].snap /\ q.step = "sleeping"
    BY <1>g DEF Request
  <2> QED
    BY <1>9, <1>a, <1>d, <2>1 DEF NotifyConflict, InFlight
<1>10. ASSUME NEW r \in Requests, LoginFinish(r) PROVE x \in Entities
  BY <1>10, <1>b, <1>e DEF LoginFinish, SaveUser, InFlight
<1>11. ASSUME NEW r \in Requests, QrFinish(r) PROVE x \in Entities
  BY <1>11, <1>a, <1>e DEF QrFinish
<1>12. ASSUME NEW r \in Requests, SaveAndReturn(r) PROVE x \in Entities
  BY <1>12, <1>b, <1>e DEF SaveAndReturn, SaveUser, InFlight
<1>13. ASSUME NEW r \in Requests, RequestFails(r) PROVE x \in Entities
  BY <1>13, <1>a, <1>e DEF RequestFails
<1>14. CASE Tick
  BY <1>14 DEF Tick, Entities, InFlight, DerivedEntity
<1>15. CASE UNCHANGED vars
  BY <1>15 DEF vars, Entities, InFlight, DerivedEntity
<1>16. x \in Entities => DerivedEntity(x)
  BY DEF DerivedEntity
<1>17. ASSUME NEW r \in Requests, QrPoll(r) \/ QrExpires(r) PROVE x \in Entities
  <2>1. PICK step \in {"done", "expired"} : Move(r, [req[r] EXCEPT !.step = step])
    BY <1>17 DEF QrPoll, QrExpires
  <2> DEFINE q == [req[r] EXCEPT !.step = step]
  <2>2. q.snap = req[r].snap /\ q.step = step
    BY <1>g DEF Request
  <2> QED
    BY <1>17, <1>a, <1>d, <2>1, <2>2 DEF QrPoll, QrExpires
<1> QED
  BY <1>1, <1>2, <1>3, <1>4, <1>5, <1>6, <1>7, <1>8, <1>9, <1>10, <1>11, <1>12, <1>13,
     <1>14, <1>15, <1>16, <1>17 DEF Next, Continue, QrGuard, ProfileGuard

-----------------------------------------------------------------------------
(***************************************************************************)
(* The other parts of the inductive invariant.                             *)
(***************************************************************************)
LEMMA CarriesTokenStep == TypeOK /\ LoginCarriesToken /\ [Next]_vars => LoginCarriesToken'
<1> SUFFICES ASSUME TypeOK, LoginCarriesToken, [Next]_vars PROVE LoginCarriesToken'
  OBVIOUS
<1> DEFINE Carries(s) ==
      /\ req[s].step = "new" => req[s].op = "none"
      /\ req[s].step \in {"verifying", "saved", "sleeping"} => req[s].op \in {"login", "qr"}
      /\ req[s].op \notin {"login", "qr"} => req[s].tok = None
      /\ req[s].step = "published" => req[s].op = "qr" /\ req[s].tok \in Tokens
      /\ (req[s].op \in {"login", "qr"} /\ req[s].step \in {"saving", "saved", "sleeping"})
            => /\ req[s].tok \in Tokens
               /\ req[s].snap[Column(req[s].platform)] = req[s].tok
<1>a. ASSUME NEW r \in Requests PROVE req[r] \in Request /\ Carries(r)
  BY DEF TypeOK, LoginCarriesToken
<1>b. ASSUME NEW r \in Requests, Carries(r)', \A s \in Requests \ {r} : req'[s] = req[s]
      PROVE  LoginCarriesToken'
  BY <1>a, <1>b DEF LoginCarriesToken
<1>c. ASSUME NEW x \in Row, NEW p \in Platforms, NEW t \in Tokens
      PROVE  WithSession(x, p, t)[Column(p)] = t
  BY <1>c DEF WithSession, Column, Row
<1>d. now \in 0..MaxTime /\ row \in Row
  BY DEF TypeOK
<1>1. ASSUME NEW r \in Requests, NEW op \in {"qr", "profile"}, NEW accepted,
             Guard(r, op, accepted)
      PROVE  LoginCarriesToken'
  <2> DEFINE q == [req[r] EXCEPT !.op = op, !.step = "guarded"]
  <2>1. q.op = op /\ q.step = "guarded" /\ q.tok = None
    BY <1>1, <1>a DEF Request, Guard
  <2> QED
    BY <1>1, <1>b, <2>1, MoveFacts DEF Guard
<1>2. ASSUME NEW r \in Requests, NEW p \in Platforms, LoginFind(r, p) PROVE LoginCarriesToken'
  <2> DEFINE q == [req[r] EXCEPT !.op = "login", !.step = "verifying", !.platform = p,
                                 !.snap = row]
  <2>1. q.op = "login" /\ q.step = "verifying"
    BY <1>a DEF Request
  <2> QED
    BY <1>2, <1>b, <2>1, MoveFacts DEF LoginFind, FindUser
<1>3. ASSUME NEW r \in Requests, NEW q, Move(r, q), q.op \notin {"login", "qr"},
             q.tok = None, q.step = "saving"
      PROVE  LoginCarriesToken'
  BY <1>3, <1>b, MoveFacts
<1>4. ASSUME NEW r \in Requests, NEW q, Move(r, q), q.op \in {"login", "qr"},
             q.step \in {"saving", "saved", "sleeping"}, q.tok \in Tokens,
             q.snap[Column(q.platform)] = q.tok
      PROVE  LoginCarriesToken'
  BY <1>4, <1>b, MoveFacts
<1>5. ASSUME NEW r \in Requests, NEW t \in held, NEW p \in Platforms \cup {"absent"},
             LogoutFind(r, t, p)
      PROVE  LoginCarriesToken'
  <2> DEFINE q == [req[r] EXCEPT !.op = "logout", !.step = "saving",
                                 !.snap = Cleared(row, LogoutColumns(row, t, p))]
  <2>1. q.op = "logout" /\ q.tok = None /\ q.step = "saving"
    BY <1>a, <1>5 DEF Request, LogoutFind
  <2> QED
    BY <1>5, <1>3, <2>1 DEF LogoutFind, FindUser
<1>6. ASSUME NEW r \in Requests, ResetFind(r) PROVE LoginCarriesToken'
  <2> DEFINE q == [req[r] EXCEPT !.op = "reset", !.step = "saving", !.hash = nextHash,
                                 !.snap = [row EXCEPT !.pw = nextHash]]
  <2>1. q.op = "reset" /\ q.tok = None /\ q.step = "saving"
    BY <1>a, <1>6 DEF Request, ResetFind
  <2> QED
    BY <1>6, <1>3, <2>1 DEF ResetFind, FindUser
<1>7. ASSUME NEW r \in Requests, ProfileFind(r) PROVE LoginCarriesToken'
  <2> DEFINE q == [req[r] EXCEPT !.step = "saving", !.snap = row]
  <2>1. q.op = "profile" /\ q.tok = None /\ q.step = "saving"
    BY <1>a, <1>7 DEF Request, ProfileFind
  <2> QED
    BY <1>7, <1>3, <2>1 DEF ProfileFind, FindUser
<1>8. ASSUME NEW r \in Requests, LoginVerified(r) PROVE LoginCarriesToken'
  <2> DEFINE p == req[r].platform
             t == [platform |-> p, iat |-> now]
             y == req[r].snap
             q == [req[r] EXCEPT !.step = "saving", !.tok = t, !.old = y[Column(p)],
                                 !.snap = WithSession(y, p, t)]
  <2>1. q.op = "login" /\ q.step = "saving" /\ q.tok = t /\ q.platform = p
        /\ q.snap = WithSession(y, p, t)
    BY <1>a, <1>8 DEF Request, LoginVerified
  <2>2. p \in Platforms /\ y \in Row /\ t \in Tokens
    BY <1>a, <1>d DEF Request, Tokens
  <2>3. q.snap[Column(q.platform)] = q.tok /\ q.tok \in Tokens
    BY <2>1, <2>2, <1>c
  <2>4. Move(r, q)
    BY <1>8 DEF LoginVerified
  <2> HIDE DEF q
  <2> QED
    BY <1>4, <2>1, <2>3, <2>4
<1>9. ASSUME NEW r \in Requests, QrFind(r) PROVE LoginCarriesToken'
  <2> DEFINE t == [platform |-> "web", iat |-> now]
             q == [req[r] EXCEPT !.step = "saving", !.platform = "web", !.tok = t,
                                 !.old = row.web, !.snap = WithSession(row, "web", t)]
  <2>1. q.op = "qr" /\ q.step = "saving" /\ q.tok = t /\ q.platform = "web"
        /\ q.snap = WithSession(row, "web", t)
    BY <1>a, <1>9 DEF Request, QrFind
  <2>2. "web" \in Platforms /\ t \in Tokens
    BY <1>d DEF Platforms, Tokens
  <2>3. q.snap[Column(q.platform)] = q.tok /\ q.tok \in Tokens
    BY <2>1, <2>2, <1>c, <1>d
  <2>4. Move(r, q)
    BY <1>9 DEF QrFind, FindUser
  <2> HIDE DEF q
  <2> QED
    BY <1>4, <2>1, <2>3, <2>4
<1>10. ASSUME NEW r \in Requests, NEW step \in {"saved", "sleeping"},
              Move(r, [req[r] EXCEPT !.step = step]),
              req[r].op \in {"login", "qr"}, req[r].step \in {"saving", "saved"}
       PROVE  LoginCarriesToken'
  <2> DEFINE q == [req[r] EXCEPT !.step = step]
  <2>1. q.op = req[r].op /\ q.step = step /\ q.tok = req[r].tok
        /\ q.platform = req[r].platform /\ q.snap = req[r].snap
    BY <1>a DEF Request
  <2>2. req[r].snap[Column(req[r].platform)] = req[r].tok /\ req[r].tok \in Tokens
    BY <1>a, <1>10
  <2> QED
    BY <1>4, <1>10, <2>1, <2>2
<1>11. ASSUME NEW r \in Requests, NEW step \in {"published", "done", "failed"}, Ended(r, step),
              step = "published" => req[r].op = "qr" /\ req[r].step = "sleeping"
       PROVE  LoginCarriesToken'
  BY <1>11, <1>a, <1>b, EndedFacts
<1>15. ASSUME NEW r \in Requests, QrPoll(r) \/ QrExpires(r) PROVE LoginCarriesToken'
  <2>1. PICK step \in {"done", "expired"} : Move(r, [req[r] EXCEPT !.step = step])
    BY <1>15 DEF QrPoll, QrExpires
  <2> DEFINE q == [req[r] EXCEPT !.step = step]
  <2>2. q.op = req[r].op /\ q.step = step /\ q.tok = req[r].tok /\ req[r].op = "qr"
    BY <1>15, <1>a DEF Request, QrPoll, QrExpires
  <2> QED
    BY <1>b, <2>1, <2>2, MoveFacts
<1>12. ASSUME NEW r \in Requests, NotifyConflict(r) PROVE LoginCarriesToken'
  BY <1>12, <1>10, <1>a DEF NotifyConflict
<1>13. ASSUME NEW r \in Requests, StoreSession(r) PROVE LoginCarriesToken'
  BY <1>13, <1>10 DEF StoreSession
<1>14. CASE UNCHANGED req
  BY <1>14, <1>a DEF LoginCarriesToken
<1> QED
  BY <1>1, <1>2, <1>5, <1>6, <1>7, <1>8, <1>9, <1>11, <1>12, <1>13, <1>14, <1>15
     DEF Next, Continue, QrGuard, ProfileGuard, LoginFinish, QrFinish, SaveAndReturn,
         RequestFails, Tick, vars

LEMMA HandedOutStep ==
    ASSUME TypeOK, LoginCarriesToken, [Next]_vars, NEW t, t # None, HandedOut(t)
    PROVE  HandedOut(t)'
<1> DEFINE Holds(s) == req[s].tok = t /\ Unanswered(s)
<1>a. ASSUME NEW r \in Requests PROVE req[r] \in Request
  BY DEF TypeOK
<1>b. ASSUME NEW r \in Requests, NEW q, Move(r, q), held' = held,
             ~Holds(r) \/ (q.tok = req[r].tok /\ q.step \in {"saved", "sleeping", "expired"})
      PROVE  HandedOut(t)'
  BY <1>b, MoveFacts DEF HandedOut, Unanswered
<1>c. ASSUME NEW r \in Requests, NEW step \in {"published", "failed"}, Ended(r, step),
             held' = held
      PROVE  HandedOut(t)'
  BY <1>c, EndedFacts DEF HandedOut, Unanswered
<1>d. ASSUME NEW r \in Requests, \A s \in Requests \ {r} : req'[s] = req[s],
             held \subseteq held', Holds(r) => t \in held'
      PROVE  HandedOut(t)'
  BY <1>d DEF HandedOut, Unanswered
<1>1. ASSUME NEW r \in Requests, NEW q, Move(r, q), held' = held,
             req[r].step \in {"new", "guarded", "verifying"}
      PROVE  HandedOut(t)'
  BY <1>1, <1>b DEF Unanswered
<1>2. ASSUME NEW r \in Requests, StoreSession(r) PROVE HandedOut(t)'
  <2> DEFINE q == [req[r] EXCEPT !.step = "saved"]
  <2>1. q.tok = req[r].tok /\ q.step = "saved"
    BY <1>a DEF Request
  <2> QED
    BY <1>2, <1>b, <2>1 DEF StoreSession
<1>3. ASSUME NEW r \in Requests, NotifyConflict(r) PROVE HandedOut(t)'
  <2> DEFINE q == [req[r] EXCEPT !.step = "sleeping"]
  <2>1. q.tok = req[r].tok /\ q.step = "sleeping"
    BY <1>a DEF Request
  <2> QED
    BY <1>3, <1>b, <2>1 DEF NotifyConflict
<1>4. ASSUME NEW r \in Requests, LoginFinish(r) PROVE HandedOut(t)'
  BY <1>4, <1>d, EndedFacts DEF LoginFinish, ResponseToken
<1>5. ASSUME NEW r \in Requests, SaveAndReturn(r) PROVE HandedOut(t)'
  BY <1>5, <1>d, EndedFacts DEF SaveAndReturn, LoginCarriesToken
<1>14. ASSUME NEW r \in Requests, QrFinish(r) PROVE HandedOut(t)'
  BY <1>14, <1>c DEF QrFinish
<1>15. ASSUME NEW r \in Requests, QrPoll(r) PROVE HandedOut(t)'
  BY <1>15, <1>d, MoveFacts DEF QrPoll, ResponseToken
<1>16. ASSUME NEW r \in Requests, QrExpires(r) PROVE HandedOut(t)'
  <2> DEFINE q == [req[r] EXCEPT !.step = "expired"]
  <2>1. q.tok = req[r].tok /\ q.step = "expired"
    BY <1>a DEF Request
  <2> QED
    BY <1>16, <1>b, <2>1 DEF QrExpires
<1>6. ASSUME NEW r \in Requests, RequestFails(r) PROVE HandedOut(t)'
  BY <1>6, <1>c DEF RequestFails
<1>7. CASE UNCHANGED <<req, held>>
  BY <1>7 DEF HandedOut, Unanswered
<1>8. ASSUME NEW r \in Requests, NEW op, NEW accepted, Guard(r, op, accepted)
      PROVE  HandedOut(t)'
  BY <1>8, <1>1 DEF Guard
<1>9. ASSUME NEW r \in Requests, NEW p, LoginFind(r, p) PROVE HandedOut(t)'
  BY <1>9, <1>1 DEF LoginFind
<1>10. ASSUME NEW r \in Requests, NEW u, NEW p, LogoutFind(r, u, p) PROVE HandedOut(t)'
  BY <1>10, <1>1 DEF LogoutFind
<1>11. ASSUME NEW r \in Requests, ResetFind(r) PROVE HandedOut(t)'
  BY <1>11, <1>1 DEF ResetFind
<1>12. ASSUME NEW r \in Requests, LoginVerified(r) PROVE HandedOut(t)'
  BY <1>12, <1>1 DEF LoginVerified
<1>13. ASSUME NEW r \in Requests, QrFind(r) \/ ProfileFind(r) PROVE HandedOut(t)'
  BY <1>13, <1>1 DEF QrFind, ProfileFind
<1> QED
  BY <1>2, <1>3, <1>4, <1>5, <1>6, <1>7, <1>8, <1>9, <1>10, <1>11, <1>12, <1>13, <1>14,
     <1>15, <1>16 DEF Next, Continue, QrGuard, ProfileGuard, Tick, vars

LEMMA EntitiesSoundStep ==
    TypeOK /\ LoginCarriesToken /\ EntitiesSound /\ [Next]_vars => EntitiesSound'
<1> SUFFICES ASSUME TypeOK, LoginCarriesToken, EntitiesSound, [Next]_vars, NEW x \in Entities'
             PROVE  /\ x.web # None => x.web.platform # "mobile" /\ HandedOut(x.web)'
                    /\ x.mobile # None => x.mobile.platform = "mobile" /\ HandedOut(x.mobile)'
  BY DEF EntitiesSound
<1>1. DerivedEntity(x)
  BY EntityStep
<1>2. ASSUME NEW y \in Entities
      PROVE  /\ y \in Row
             /\ y.web # None => y.web.platform # "mobile" /\ HandedOut(y.web)'
             /\ y.mobile # None => y.mobile.platform = "mobile" /\ HandedOut(y.mobile)'
  BY EntityType, HandedOutStep DEF EntitiesSound
<1>3. CASE x \in Entities
  BY <1>2, <1>3
<1>4. ASSUME NEW y \in Entities, NEW r \in Requests, NEW p \in Platforms, NEW t,
             t = [platform |-> p, iat |-> now], x = WithSession(y, p, t),
             req'[r].tok = t, req'[r].step = "saving"
      PROVE  /\ x.web # None => x.web.platform # "mobile" /\ HandedOut(x.web)'
             /\ x.mobile # None => x.mobile.platform = "mobile" /\ HandedOut(x.mobile)'
  <2>1. HandedOut(t)' /\ t.platform = p
    BY <1>4 DEF HandedOut, Unanswered
  <2>2. CASE p = "mobile"
    <3>1. x.mobile = t /\ x.web = y.web
      BY <1>2, <1>4, <2>2 DEF WithSession, Column, Row
    <3> QED
      BY <1>2, <2>1, <2>2, <3>1
  <2>3. CASE p # "mobile"
    <3>1. x.web = t /\ x.mobile = y.mobile
      BY <1>2, <1>4, <2>3 DEF WithSession, Column, Row
    <3> QED
      BY <1>2, <2>1, <2>3, <3>1
  <2> QED
    BY <2>2, <2>3
<1>5. ASSUME NEW y \in Entities, NEW cols, x = Cleared(y, cols)
      PROVE  /\ x.web # None => x.web.platform # "mobile" /\ HandedOut(x.web)'
             /\ x.mobile # None => x.mobile.platform = "mobile" /\ HandedOut(x.mobile)'
  <2>1. x.web \in {y.web, None} /\ x.mobile \in {y.mobile, None}
    BY <1>2, <1>5 DEF Cleared, Row
  <2> QED
    BY <1>2, <2>1
<1>6. ASSUME NEW y \in Entities, x = [y EXCEPT !.pw = nextHash]
      PROVE  /\ x.web # None => x.web.platform # "mobile" /\ HandedOut(x.web)'
             /\ x.mobile # None => x.mobile.platform = "mobile" /\ HandedOut(x.mobile)'
  <2>1. x.web = y.web /\ x.mobile = y.mobile
    BY <1>2, <1>6 DEF Row
  <2> QED
    BY <1>2, <2>1
<1> QED
  BY <1>1, <1>3, <1>4, <1>5, <1>6 DEF DerivedEntity

LEMMA RunsAloneStep == TypeOK /\ RunsAlone /\ [Next]_vars => RunsAlone'
<1> SUFFICES ASSUME TypeOK, RunsAlone, [Next]_vars PROVE RunsAlone'
  OBVIOUS
<1>a. ASSUME NEW r \in Requests, NEW q, Move(r, q), NewEntityReadBy(r)
      PROVE  RunsAlone'
  <2>1. InFlight' \subseteq InFlight \cup {r}
    BY <1>a, MoveFacts DEF InFlight
  <2>2. CASE InFlight = {}
    BY <2>1, <2>2 DEF RunsAlone
  <2>3. CASE InFlight # {}
    BY <1>a, <2>1, <2>3 DEF RunsAlone, NewEntityReadBy
  <2> QED
    BY <2>2, <2>3
<1>b. ASSUME InFlight' \subseteq InFlight, overlapped' = overlapped
      PROVE  RunsAlone'
  BY <1>b DEF RunsAlone
<1>c. ASSUME NEW r \in Requests, NEW q, Move(r, q), overlapped' = overlapped,
             r \in InFlight \/ q.step \in {"guarded", "done", "expired"}
      PROVE  RunsAlone'
  <2>1. InFlight' \subseteq InFlight
    BY <1>c, MoveFacts DEF InFlight
  <2> QED
    BY <2>1, <1>b, <1>c
<1>d. ASSUME NEW r \in Requests, NEW step \in {"published", "done", "failed"}, Ended(r, step),
             overlapped' = overlapped
      PROVE  RunsAlone'
  <2>1. InFlight' \subseteq InFlight
    BY <1>d, EndedFacts DEF InFlight
  <2> QED
    BY <2>1, <1>b, <1>d
<1>1. ASSUME NEW r \in Requests, NEW op, NEW accepted, Guard(r, op, accepted)
      PROVE  RunsAlone'
  <2>1. [req[r] EXCEPT !.op = op, !.step = "guarded"].step = "guarded"
    BY DEF TypeOK, Request
  <2> QED
    BY <1>1, <1>c, <2>1 DEF Guard
<1>2. ASSUME NEW r \in Requests, NEW p, LoginFind(r, p) PROVE RunsAlone'
  BY <1>2, <1>a DEF LoginFind
<1>3. ASSUME NEW r \in Requests, NEW t, NEW p, LogoutFind(r, t, p) PROVE RunsAlone'
  BY <1>3, <1>a DEF LogoutFind
<1>4. ASSUME NEW r \in Requests, ResetFind(r) PROVE RunsAlone'
  BY <1>4, <1>a DEF ResetFind
<1>5. ASSUME NEW r \in Requests, QrFind(r) \/ ProfileFind(r) PROVE RunsAlone'
  BY <1>5, <1>a DEF QrFind, ProfileFind
<1>6. ASSUME NEW r \in Requests, LoginVerified(r) \/ StoreSession(r) \/ NotifyConflict(r)
      PROVE RunsAlone'
  BY <1>6, <1>c DEF LoginVerified, StoreSession, NotifyConflict, InFlight
<1>7. ASSUME NEW r \in Requests,
             LoginFinish(r) \/ QrFinish(r) \/ SaveAndReturn(r) \/ RequestFails(r)
      PROVE RunsAlone'
  BY <1>7, <1>d DEF LoginFinish, QrFinish, SaveAndReturn, RequestFails
<1>8. CASE UNCHANGED <<req, overlapped>>
  BY <1>8 DEF RunsAlone, InFlight
<1>9. ASSUME NEW r \in Requests, QrPoll(r) \/ QrExpires(r) PROVE RunsAlone'
  <2>1. PICK step \in {"done", "expired"} : Move(r, [req[r] EXCEPT !.step = step])
    BY <1>9 DEF QrPoll, QrExpires
  <2>2. [req[r] EXCEPT !.step = step].step = step
    BY DEF TypeOK, Request
  <2> QED
    BY <1>9, <1>c, <2>1, <2>2 DEF QrPoll, QrExpires
<1> QED
  BY <1>1, <1>2, <1>3, <1>4, <1>5, <1>6, <1>7, <1>8, <1>9
     DEF Next, Continue, QrGuard, ProfileGuard, Tick, vars

LEMMA ConflictAfterStoreStep ==
    TypeOK /\ LoginCarriesToken /\ RunsAlone /\ ConflictAfterStore /\ [Next]_vars
        => ConflictAfterStore'
<1> DEFINE Stored(s) == row[Column(req[s].platform)] = req[s].tok
           Notifying(s) == req[s].step \in {"saved", "sleeping"}
<1> SUFFICES ASSUME TypeOK, LoginCarriesToken, RunsAlone, ConflictAfterStore, [Next]_vars,
                    NEW s \in Requests, s \notin overlapped', Notifying(s)'
             PROVE  Stored(s)'
  BY DEF ConflictAfterStore
<1>a. overlapped \subseteq overlapped'
  BY DEF Next, Continue, QrGuard, ProfileGuard, Guard, LoginFind, LogoutFind, ResetFind,
         LoginVerified, QrFind, ProfileFind, StoreSession, NotifyConflict, LoginFinish,
         QrFinish, QrPoll, QrExpires, SaveAndReturn, RequestFails, Tick, vars, NewEntityReadBy
<1>b. ASSUME row' = row, req'[s] = req[s] PROVE Stored(s)'
  BY <1>a, <1>b DEF ConflictAfterStore
<1>c. ASSUME NEW r \in InFlight, req'[s] = req[s] PROVE r = s
  BY <1>a, <1>c DEF RunsAlone, InFlight
<1>d. ASSUME NEW r \in Requests PROVE req[r] \in Request
  BY DEF TypeOK
<1>1. ASSUME NEW r \in Requests, NEW q, Move(r, q), row' = row, ~(q.step \in {"saved", "sleeping"})
      PROVE  Stored(s)'
  BY <1>1, <1>b, MoveFacts
<1>2. ASSUME NEW r \in Requests, StoreSession(r) PROVE Stored(s)'
  <2> DEFINE q == [req[r] EXCEPT !.step = "saved"]
  <2>1. q.tok = req[r].tok /\ q.platform = req[r].platform
    BY <1>d DEF Request
  <2>2. req'[r] = q /\ \A u \in Requests \ {r} : req'[u] = req[u]
    BY <1>2, MoveFacts DEF StoreSession
  <2>3. s = r
    BY <1>2, <1>c, <2>2 DEF StoreSession, InFlight
  <2>4. row'[Column(req[r].platform)] = req[r].tok
    BY <1>2 DEF StoreSession, SaveUser, LoginCarriesToken
  <2> HIDE DEF q
  <2> QED
    BY <2>1, <2>2, <2>3, <2>4
<1>3. ASSUME NEW r \in Requests, NotifyConflict(r) PROVE Stored(s)'
  <2> DEFINE q == [req[r] EXCEPT !.step = "sleeping"]
  <2>1. q.tok = req[r].tok /\ q.platform = req[r].platform
    BY <1>d DEF Request
  <2>2. req'[r] = q /\ \A u \in Requests \ {r} : req'[u] = req[u]
    BY <1>3, MoveFacts DEF NotifyConflict
  <2>3. CASE s = r
    <3>1. row'[Column(req[r].platform)] = req[r].tok
      BY <1>3, <1>a, <2>3 DEF NotifyConflict, ConflictAfterStore
    <3> HIDE DEF q
    <3> QED
      BY <2>1, <2>2, <2>3, <3>1
  <2>4. CASE s # r
    BY <1>3, <1>b, <2>2, <2>4 DEF NotifyConflict
  <2> QED
    BY <2>3, <2>4
<1>4. ASSUME NEW r \in Requests, NEW step \in {"published", "done", "failed"}, Ended(r, step),
             r \in InFlight
      PROVE  Stored(s)'
  <2>1. s # r /\ req'[s] = req[s]
    BY <1>4, EndedFacts
  <2> QED
    BY <1>4, <1>c, <2>1
<1>5. ASSUME NEW r \in Requests, NEW op, NEW accepted, Guard(r, op, accepted)
      PROVE  Stored(s)'
  <2>1. [req[r] EXCEPT !.op = op, !.step = "guarded"].step = "guarded"
    BY <1>d DEF Request
  <2> QED
    BY <1>5, <1>1, <2>1 DEF Guard
<1>6. ASSUME NEW r \in Requests, NEW p, LoginFind(r, p) PROVE Stored(s)'
  <2>1. [req[r] EXCEPT !.op = "login", !.step = "verifying", !.platform = p,
                       !.snap = row].step = "verifying"
    BY <1>d DEF Request
  <2> QED
    BY <1>6, <1>1, <2>1 DEF LoginFind, FindUser
<1>7. ASSUME NEW r \in Requests, NEW t, NEW p, LogoutFind(r, t, p) PROVE Stored(s)'
  <2>1. [req[r] EXCEPT !.op = "logout", !.step = "saving",
                       !.snap = Cleared(row, LogoutColumns(row, t, p))].step = "saving"
    BY <1>d DEF Request
  <2> QED
    BY <1>7, <1>1, <2>1 DEF LogoutFind, FindUser
<1>8. ASSUME NEW r \in Requests, ResetFind(r) PROVE Stored(s)'
  <2>1. [req[r] EXCEPT !.op = "reset", !.step = "saving", !.hash = nextHash,
                       !.snap = [row EXCEPT !.pw = nextHash]].step = "saving"
    BY <1>d DEF Request
  <2> QED
    BY <1>8, <1>1, <2>1 DEF ResetFind, FindUser
<1>9. ASSUME NEW r \in Requests, LoginVerified(r) PROVE Stored(s)'
  <2> DEFINE p == req[r].platform
             t == [platform |-> p, iat |-> now]
             y == req[r].snap
             q == [req[r] EXCEPT !.step = "saving", !.tok = t, !.old = y[Column(p)],
                                 !.snap = WithSession(y, p, t)]
  <2>1. q.step = "saving"
    BY <1>d DEF Request
  <2>2. Move(r, q) /\ row' = row
    BY <1>9 DEF LoginVerified
  <2> QED
    BY <1>1, <2>1, <2>2
<1>10. ASSUME NEW r \in Requests, QrFind(r) PROVE Stored(s)'
  <2> DEFINE t == [platform |-> "web", iat |-> now]
             q == [req[r] EXCEPT !.step = "saving", !.platform = "web", !.tok = t,
                                 !.old = row.web, !.snap = WithSession(row, "web", t)]
  <2>1. q.step = "saving"
    BY <1>d DEF Request
  <2>2. Move(r, q) /\ row' = row
    BY <1>10 DEF QrFind, FindUser
  <2> QED
    BY <1>1, <2>1, <2>2
<1>11. ASSUME NEW r \in Requests, ProfileFind(r) PROVE Stored(s)'
  <2>1. [req[r] EXCEPT !.step = "saving", !.snap = row].step = "saving"
    BY <1>d DEF Request
  <2> QED
    BY <1>11, <1>1, <2>1 DEF ProfileFind, FindUser
<1>12. ASSUME NEW r \in Requests,
              LoginFinish(r) \/ QrFinish(r) \/ SaveAndReturn(r) \/ RequestFails(r)
       PROVE  Stored(s)'
  BY <1>12, <1>4 DEF LoginFinish, QrFinish, SaveAndReturn, RequestFails, InFlight
<1>13. CASE UNCHANGED <<req, row>>
  BY <1>13, <1>b
<1>14. ASSUME NEW r \in Requests, QrPoll(r) \/ QrExpires(r) PROVE Stored(s)'
  <2>1. PICK step \in {"done", "expired"} : Move(r, [req[r] EXCEPT !.step = step])
    BY <1>14 DEF QrPoll, QrExpires
  <2>2. [req[r] EXCEPT !.step = step].step = step
    BY <1>d DEF Request
  <2> QED
    BY <1>14, <1>1, <2>1, <2>2 DEF QrPoll, QrExpires
<1> QED
  BY <1>2, <1>3, <1>5, <1>6, <1>7, <1>8, <1>9, <1>10, <1>11, <1>12, <1>13, <1>14
     DEF Next, Continue, QrGuard, ProfileGuard, Tick, vars

-----------------------------------------------------------------------------
LEMMA InductiveInvariant == Spec => []IInv
<1>1. Init => IInv
  <2>1. Init => InFlight = {} /\ Entities = {EmptyRow}
    BY DEF Init, InFlight, Entities
  <2>2. Init => LoginCarriesToken
    <3> SUFFICES ASSUME Init PROVE LoginCarriesToken
      OBVIOUS
    <3>1. ASSUME NEW r \in Requests
          PROVE  req[r].op = "none" /\ req[r].step = "new" /\ req[r].tok = None
      BY DEF Init
    <3> QED
      BY <3>1 DEF LoginCarriesToken
  <2>3. Init => EntitiesSound
    BY <2>1 DEF EntitiesSound, EmptyRow
  <2>4. Init => RunsAlone /\ ConflictAfterStore
    BY <2>1 DEF Init, RunsAlone, ConflictAfterStore
  <2> QED
    BY <2>2, <2>3, <2>4, InitType DEF IInv
<1>2. IInv /\ [Next]_vars => IInv'
  BY TypeStep, CarriesTokenStep, EntitiesSoundStep, RunsAloneStep, ConflictAfterStoreStep
     DEF IInv
<1> QED
  BY <1>1, <1>2, PTL DEF Spec

\* Every variable keeps its type, in every reachable state.
THEOREM TypeCorrect == Spec => []TypeOK
<1>1. IInv => TypeOK
  BY DEF IInv
<1> QED
  BY <1>1, InductiveInvariant, PTL

\* However handlers overwrite each other's rows, the session guard never accepts a token
\* on the other platform's behalf.
THEOREM GuardSeparatesPlatforms == Spec => []PlatformSeparation
<1>1. IInv => PlatformSeparation
  <2> SUFFICES ASSUME IInv, NEW t \in held
               PROVE  /\ SessionGuardAccepts(t, "mobile") => t.platform = "mobile"
                      /\ SessionGuardAccepts(t, "web") => t.platform # "mobile"
    BY DEF PlatformSeparation
  <2>1. t # None /\ row \in Entities
    BY AuthAssumption DEF IInv, TypeOK, Entities
  <2>2. /\ SessionGuardAccepts(t, "mobile") => row.mobile = t
        /\ SessionGuardAccepts(t, "web") => row.web = t
    BY DEF SessionGuardAccepts, GuardColumn
  <2> QED
    BY <2>1, <2>2 DEF IInv, EntitiesSound
<1> QED
  BY <1>1, InductiveInvariant, PTL

\* A session the row stores is the token of a client, unless the handler that signed it
\* never answered or no browser polled its QR code, whatever handlers interleave.
THEOREM SessionsAreHandedOut == Spec => []NoOrphanSession
<1>1. IInv => NoOrphanSession
  BY DEF IInv, EntitiesSound, Entities, NoOrphanSession
<1> QED
  BY <1>1, InductiveInvariant, PTL

\* A login nothing overlapped sends its conflict event over a row that holds its token.
THEOREM SerialLoginStoresFirst == Spec => []ConflictAfterStore
<1>1. IInv => ConflictAfterStore
  BY DEF IInv
<1> QED
  BY <1>1, InductiveInvariant, PTL

\* Replaced tokens and password hashes that no running handler still carries never
\* become valid again.
THEOREM ReplacedCredentialsStayGone == Spec => NoResurrection
<1> DEFINE Step == /\ \A t \in LiveTokens' \ LiveTokens : t = None \/ t.iat = now
                   /\ \A h \in LiveHashes' \ LiveHashes : h = nextHash
<1>1. IInv /\ [Next]_vars => [Step]_vars
  <2> SUFFICES ASSUME IInv, [Next]_vars PROVE Step
    OBVIOUS
  <2>1. TypeOK /\ LoginCarriesToken
    BY DEF IInv
  <2>2. ASSUME NEW x \in Entities', NEW c \in {"web", "mobile"}, x[c] \notin LiveTokens
        PROVE  x[c] = None \/ x[c].iat = now
    <3>1. DerivedEntity(x) /\ x \notin Entities
      BY <2>1, <2>2, EntityStep DEF LiveTokens
    <3>2. ASSUME NEW y \in Entities
          PROVE  y \in Row /\ y.web \in LiveTokens /\ y.mobile \in LiveTokens
      BY <2>1, EntityType DEF LiveTokens
    <3>3. ASSUME NEW y \in Entities, NEW p \in Platforms, NEW t,
                 t = [platform |-> p, iat |-> now], x = WithSession(y, p, t)
          PROVE  x[c] = None \/ x[c].iat = now
      <4>1. x[c] \in {y.web, y.mobile, t}
        BY <3>2, <3>3 DEF WithSession, Row
      <4> QED
        BY <2>2, <3>2, <3>3, <4>1
    <3>4. ASSUME NEW y \in Entities, NEW cols, x = Cleared(y, cols)
          PROVE  x[c] = None
      <4>1. x[c] \in {y.web, y.mobile, None}
        BY <3>2, <3>4 DEF Cleared, Row
      <4> QED
        BY <2>2, <3>2, <4>1
    <3>5. ASSUME NEW y \in Entities, x = [y EXCEPT !.pw = nextHash]
          PROVE  FALSE
      <4>1. x[c] \in {y.web, y.mobile}
        BY <3>2, <3>5 DEF Row
      <4> QED
        BY <2>2, <3>2, <4>1
    <3> QED
      BY <3>1, <3>3, <3>4, <3>5 DEF DerivedEntity
  <2>3. ASSUME NEW x \in Entities', x.pw \notin LiveHashes
        PROVE  x.pw = nextHash
    <3>1. DerivedEntity(x) /\ x \notin Entities
      BY <2>1, <2>3, EntityStep DEF LiveHashes
    <3>2. ASSUME NEW y \in Entities PROVE y \in Row /\ y.pw \in LiveHashes
      BY <2>1, EntityType DEF LiveHashes
    <3>3. ASSUME NEW y \in Entities, NEW p, NEW t, x = WithSession(y, p, t) PROVE x.pw = y.pw
      BY <3>2, <3>3 DEF WithSession, Row
    <3>4. ASSUME NEW y \in Entities, NEW cols, x = Cleared(y, cols) PROVE x.pw = y.pw
      BY <3>2, <3>4 DEF Cleared, Row
    <3>5. ASSUME NEW y \in Entities, x = [y EXCEPT !.pw = nextHash] PROVE x.pw = nextHash
      BY <3>2, <3>5 DEF Row
    <3> QED
      BY <2>3, <3>1, <3>2, <3>3, <3>4, <3>5 DEF DerivedEntity
  <2>4. \A t \in LiveTokens' : \E x \in Entities', c \in {"web", "mobile"} : t = x[c]
    BY DEF LiveTokens
  <2>5. \A h \in LiveHashes' : \E x \in Entities' : h = x.pw
    BY DEF LiveHashes
  <2> QED
    BY <2>2, <2>3, <2>4, <2>5
<1>2. [][Step]_vars => NoResurrection
  BY PTL DEF NoResurrection
<1> QED
  BY <1>1, <1>2, InductiveInvariant, PTL DEF Spec
=============================================================================
