-------------------------- MODULE MessageStore_proofs --------------------------
(***************************************************************************)
(* Proofs about MessageStore, for any users, emojis, messages, handlers,   *)
(* limits and bounds: the documents keep what MessageBoard promises,       *)
(* pinned messages fit into their list unless two handlers pin at a time,  *)
(* and the pages of a reader leave out nothing but what they may cut off   *)
(* within one millisecond.                                                 *)
(*                                                                         *)
(* What carries the refinement is the version: a copy that still has the   *)
(* version of its document has its reactions (HandlersOK), so a save that  *)
(* replaces the array takes nobody else's reaction away.  What carries the *)
(* pages is counting: with two copies of a message at most, two pages of   *)
(* documents hold one page of messages.                                    *)
(***************************************************************************)
EXTENDS MessageStore, FiniteSetTheorems, TLAPS

Fields == {"op", "step", "user", "msg", "copy", "what"}

\* The handlers that save a copy, and those that name a message.
Copying == {"react", "unreact", "recall", "remove", "pin", "unpin"}
Naming  == Copying \cup {"seen", "hide"}

\* What a running handler knows about the documents.
GoodHandler(r, docs) ==
    /\ DOMAIN r = Fields
    /\ r.msg \in 0 .. Len(docs)
    /\ r.op # "idle" => r.user \in Users
    /\ r.op \in Naming => r.msg \in DOMAIN docs
    /\ r.op \in Copying =>
         /\ r.copy \in Docs
         /\ r.copy.version <= docs[r.msg].version
         /\ r.copy.version = docs[r.msg].version => r.copy.reactions = docs[r.msg].reactions
    /\ r.op = "send" => r.what \in Keys \cup Texts
    /\ r.op = "react" => r.what \in Emojis

LogOK == log \in Seq(Docs) /\ Len(log) <= MaxMessages

HandlersOK ==
    /\ DOMAIN handler = Handlers
    /\ \A h \in Handlers : GoodHandler(handler[h], log)

CountsOK == starts \in 0 .. MaxStarts /\ pinsRaced \in BOOLEAN

Pinning(h) == handler[h].op = "pin"

\* Whoever pins alone finds room for one more when it saves.
PinsOK ==
    ~ pinsRaced =>
      /\ \A g, h \in Handlers : Pinning(g) /\ Pinning(h) => g = h
      /\ \A h \in Handlers :
           Pinning(h) /\ handler[h].step = "saving" => Cardinality(Pinned) < PinLimit
      /\ Cardinality(Pinned) <= PinLimit

IInv == LogOK /\ HandlersOK /\ CountsOK /\ PinsOK

-----------------------------------------------------------------------------
(* What a document shows. *)

EmojisOf(reactions, u) == {r.emoji : r \in {s \in reactions : s.user = u}}

Shown(S) ==
    IF S = {} THEN None
    ELSE IF Cardinality(S) = 1 THEN CHOOSE e \in Emojis : e \in S ELSE S

ReactionsIn(reactions) == [u \in Users |-> Shown(EmojisOf(reactions, u))]

BackIn(d) ==
    (IF d.revoked THEN {"recalled"} ELSE {})
    \cup (IF d.deletedByAdmin THEN {"removed"} ELSE {})
    \cup d.deletedFor

View(d) == [reaction |-> ReactionsIn(d.reactions), back |-> BackIn(d)]

LEMMA BoardViewIs == BoardView = [m \in DOMAIN log |-> View(log[m])]
  BY DEF BoardView, View, ReactionsIn, Shown, BackIn, ReactionOf, EmojisOf

LEMMA ViewWrite ==
    ASSUME LogOK, NEW m \in DOMAIN log, NEW d, log' = [log EXCEPT ![m] = d]
    PROVE  BoardView' = [BoardView EXCEPT ![m] = View(d)] /\ BoardView[m] = View(log[m])
<1>1. BoardView' = [n \in DOMAIN log' |-> View(log'[n])]
  BY DEF BoardView, View, ReactionsIn, Shown, BackIn, ReactionOf, EmojisOf
<1>2. DOMAIN log' = DOMAIN log /\ log'[m] = d /\ \A n \in DOMAIN log \ {m} : log'[n] = log[n]
  BY DEF LogOK
<1> QED BY <1>1, <1>2, BoardViewIs

\* Reacting changes what is shown of one user.
LEMMA ReactShows ==
    ASSUME NEW s, NEW u \in Users, NEW e \in Emojis
    PROVE  ReactionsIn(Others(s, u) \cup {[user |-> u, emoji |-> e]})
             = [ReactionsIn(s) EXCEPT ![u] = e]
<1> DEFINE t == Others(s, u) \cup {[user |-> u, emoji |-> e]}
<1>1. \A v \in Users \ {u} : EmojisOf(t, v) = EmojisOf(s, v)
  BY DEF EmojisOf, Others
<1>2. EmojisOf(t, u) = {e}
  <2>1. {r \in t : r.user = u} = {[user |-> u, emoji |-> e]}
    BY DEF Others
  <2> HIDE DEF t
  <2>2. EmojisOf(t, u) = {r.emoji : r \in {[user |-> u, emoji |-> e]}}
    BY <2>1, Zenon DEF EmojisOf
  <2> QED BY <2>2
<1>3. Cardinality({e}) = 1
  BY FS_Singleton
<1>4. (CHOOSE x \in Emojis : x \in {e}) = e
  OBVIOUS
<1> HIDE DEF t
<1>5. ReactionsIn(t)[u] = e
  BY <1>2, <1>3, <1>4 DEF ReactionsIn, Shown
<1>6. \A v \in Users \ {u} : ReactionsIn(t)[v] = ReactionsIn(s)[v]
  BY <1>1 DEF ReactionsIn
<1>7. DOMAIN ReactionsIn(t) = Users /\ DOMAIN ReactionsIn(s) = Users
  BY DEF ReactionsIn
<1>8. ReactionsIn(t) = [v \in Users |-> ReactionsIn(t)[v]]
  BY DEF ReactionsIn
<1>9. ReactionsIn(t) = [ReactionsIn(s) EXCEPT ![u] = e]
  BY <1>5, <1>6, <1>7, <1>8
<1> QED BY <1>9 DEF t

LEMMA UnreactShows ==
    ASSUME NEW s, NEW u \in Users
    PROVE  ReactionsIn(Others(s, u)) = [ReactionsIn(s) EXCEPT ![u] = None]
<1> DEFINE t == Others(s, u)
<1>1. \A v \in Users \ {u} : EmojisOf(t, v) = EmojisOf(s, v)
  BY DEF EmojisOf, Others
<1>2. EmojisOf(t, u) = {}
  BY DEF EmojisOf, Others
<1> HIDE DEF t
<1>5. ReactionsIn(t)[u] = None
  BY <1>2 DEF ReactionsIn, Shown
<1>6. \A v \in Users \ {u} : ReactionsIn(t)[v] = ReactionsIn(s)[v]
  BY <1>1 DEF ReactionsIn
<1>7. DOMAIN ReactionsIn(t) = Users /\ DOMAIN ReactionsIn(s) = Users
  BY DEF ReactionsIn
<1>8. ReactionsIn(t) = [v \in Users |-> ReactionsIn(t)[v]]
  BY DEF ReactionsIn
<1>9. ReactionsIn(t) = [ReactionsIn(s) EXCEPT ![u] = None]
  BY <1>5, <1>6, <1>7, <1>8
<1> QED BY <1>9 DEF t

LEMMA VersionIsNat == ASSUME LogOK PROVE \A m \in DOMAIN log : log[m] \in Docs /\ log[m].version \in Nat
<1>1. \A m \in DOMAIN log : log[m] \in Docs
  BY DEF LogOK
<1> QED BY <1>1 DEF Docs

\* The three ways in which a document that is written shows: not at all, ...
LEMMA SameShown ==
    ASSUME LogOK, NEW m \in DOMAIN log, NEW d, log' = [log EXCEPT ![m] = d], View(d) = View(log[m])
    PROVE  [Board!Next]_BoardView
<1>1. BoardView' = BoardView
  BY ViewWrite, BoardViewIs
<1> QED BY <1>1

\* ... with another reaction of one user, ...
LEMMA ReactionShown ==
    ASSUME LogOK, NEW m \in DOMAIN log, NEW d, log' = [log EXCEPT ![m] = d],
           NEW u \in Users, NEW e \in Emojis \cup {None},
           ReactionsIn(d.reactions) = [ReactionsIn(log[m].reactions) EXCEPT ![u] = e],
           BackIn(d) = BackIn(log[m])
    PROVE  [Board!Next]_BoardView
<1>1. View(d) = [View(log[m]) EXCEPT !.reaction[u] = e]
  BY DEF View
<1>2. BoardView' = [BoardView EXCEPT ![m].reaction[u] = e]
  <2>1. BoardView' = [BoardView EXCEPT ![m] = View(d)] /\ View(d) = [BoardView[m] EXCEPT !.reaction[u] = e]
    BY <1>1, ViewWrite
  <2> QED BY <2>1
<1>3. m \in DOMAIN BoardView
  BY BoardViewIs
<1> QED BY <1>2, <1>3 DEF Board!Next, Board!React

\* ... or as taken back.
LEMMA BackShown ==
    ASSUME LogOK, NEW m \in DOMAIN log, NEW d, log' = [log EXCEPT ![m] = d],
           NEW k \in Board!Marks, d.reactions = log[m].reactions,
           BackIn(d) = BackIn(log[m]) \cup {k}
    PROVE  [Board!Next]_BoardView
<1>1. View(d) = [View(log[m]) EXCEPT !.back = @ \cup {k}]
  BY DEF View
<1>2. BoardView' = [BoardView EXCEPT ![m].back = @ \cup {k}]
  BY <1>1, ViewWrite
<1>3. m \in DOMAIN BoardView
  BY BoardViewIs
<1> QED BY <1>2, <1>3 DEF Board!Next, Board!TakeBack

-----------------------------------------------------------------------------
(* The handlers while documents change. *)

\* Documents stay, and one with other reactions has a higher version.
Evolves(docs, later) ==
    /\ DOMAIN docs \subseteq DOMAIN later
    /\ Len(docs) <= Len(later)
    /\ \A m \in DOMAIN docs :
         /\ docs[m].version <= later[m].version
         /\ docs[m].version = later[m].version => docs[m].reactions = later[m].reactions

LEMMA GoodStays ==
    ASSUME NEW docs \in Seq(Docs), NEW later \in Seq(Docs), Evolves(docs, later),
           NEW r, GoodHandler(r, docs)
    PROVE  GoodHandler(r, later)
<1>1. ASSUME r.op \in Copying
      PROVE  /\ r.copy.version <= later[r.msg].version
             /\ r.copy.version = later[r.msg].version => r.copy.reactions = later[r.msg].reactions
  <2>1. r.msg \in DOMAIN docs /\ r.msg \in DOMAIN later
    BY <1>1 DEF GoodHandler, Evolves, Naming
  <2>2. r.copy \in Docs /\ docs[r.msg] \in Docs /\ later[r.msg] \in Docs
    BY <1>1, <2>1 DEF GoodHandler
  <2>3. /\ r.copy.version \in Nat /\ docs[r.msg].version \in Nat
        /\ later[r.msg].version \in Nat
    BY <2>2 DEF Docs
  <2> QED BY <1>1, <2>1, <2>3 DEF GoodHandler, Evolves
<1>2. r.msg \in 0 .. Len(later)
  BY DEF GoodHandler, Evolves
<1> QED BY <1>1, <1>2 DEF GoodHandler, Evolves

LEMMA HandlersStay ==
    ASSUME LogOK, LogOK', HandlersOK, Evolves(log, log'), NEW h \in Handlers, NEW r,
           GoodHandler(r, log'), handler' = [handler EXCEPT ![h] = r]
    PROVE  /\ HandlersOK' /\ handler'[h] = r
           /\ \A g \in Handlers \ {h} : handler'[g] = handler[g]
<1>1. /\ DOMAIN handler' = Handlers /\ handler'[h] = r
      /\ \A g \in Handlers \ {h} : handler'[g] = handler[g]
  BY DEF HandlersOK
<1>2. \A g \in Handlers : GoodHandler(handler[g], log')
  BY GoodStays DEF LogOK, HandlersOK
<1>3. \A g \in Handlers : GoodHandler(handler'[g], log')
  BY <1>1, <1>2
<1> QED BY <1>1, <1>3 DEF HandlersOK, GoodHandler, Docs

LEMMA IdleIsGood == \A docs \in Seq(Docs) : GoodHandler(Idle, docs) /\ Idle.op = "idle"
  BY DEF GoodHandler, Idle, Fields, Copying, Naming

-----------------------------------------------------------------------------
(* The pins. *)

LEMMA PinnedIsFinite == ASSUME LogOK PROVE IsFiniteSet(Pinned) /\ Cardinality(Pinned) \in Nat
<1>1. DOMAIN log = 1 .. Len(log) /\ Len(log) \in Int
  BY DEF LogOK
<1>2. IsFiniteSet(DOMAIN log)
  BY <1>1, FS_Interval
<1>3. IsFiniteSet(Pinned)
  BY <1>2, FS_Subset DEF Pinned
<1> QED BY <1>3, FS_CardinalityType

\* A step that pins nothing, and starts nobody who would pin.
LEMMA PinsStay ==
    ASSUME LogOK, PinsOK, Pinned' \subseteq Pinned, NEW h \in Handlers,
           \A g \in Handlers \ {h} : handler'[g] = handler[g],
           pinsRaced' = pinsRaced,
           Pinning(h)' => /\ Pinning(h)
                          /\ handler'[h].step = "saving" => Cardinality(Pinned) < PinLimit
    PROVE  PinsOK'
<1> SUFFICES ASSUME ~ pinsRaced
             PROVE  /\ \A f, g \in Handlers : Pinning(f)' /\ Pinning(g)' => f = g
                    /\ \A g \in Handlers :
                         Pinning(g)' /\ handler'[g].step = "saving" => Cardinality(Pinned') < PinLimit
                    /\ Cardinality(Pinned') <= PinLimit
  BY DEF PinsOK
<1>1. IsFiniteSet(Pinned) /\ Cardinality(Pinned) \in Nat
  BY PinnedIsFinite
<1>2. Cardinality(Pinned') \in Nat /\ Cardinality(Pinned') <= Cardinality(Pinned)
  BY <1>1, FS_Subset, FS_CardinalityType
<1>3. \A g \in Handlers : Pinning(g)' => Pinning(g)
  BY DEF Pinning
<1>4. \A f, g \in Handlers : Pinning(f)' /\ Pinning(g)' => f = g
  BY <1>3 DEF PinsOK
<1>5. ASSUME NEW g \in Handlers, Pinning(g)', handler'[g].step = "saving"
      PROVE  Cardinality(Pinned) < PinLimit
  <2>1. CASE g = h
    BY <1>5, <2>1
  <2>2. CASE g # h
    BY <1>3, <1>5, <2>2 DEF PinsOK
  <2> QED BY <2>1, <2>2
<1>6. Cardinality(Pinned) <= PinLimit
  BY DEF PinsOK
<1> QED BY <1>1, <1>2, <1>4, <1>5, <1>6, StoreAssumption

\* A handler begins to pin: alone, or both are remembered.
LEMMA PinStarts ==
    ASSUME LogOK, PinsOK, CountsOK, Pinned' = Pinned, NEW h \in Handlers,
           \A g \in Handlers \ {h} : handler'[g] = handler[g],
           pinsRaced' = (pinsRaced \/ \E g \in Handlers : Pinning(g)),
           handler'[h].step = "read"
    PROVE  PinsOK'
<1> SUFFICES ASSUME ~ pinsRaced, \A g \in Handlers : ~ Pinning(g)
             PROVE  PinsOK'
  BY DEF PinsOK
<1>1. \A g \in Handlers : Pinning(g)' => g = h
  BY DEF Pinning
<1>2. Cardinality(Pinned) <= PinLimit
  BY DEF PinsOK
<1>3. \A g \in Handlers : ~ (Pinning(g)' /\ handler'[g].step = "saving")
  BY <1>1
<1> QED BY <1>1, <1>2, <1>3 DEF PinsOK

\* The one handler that pins alone saves its pin.
LEMMA PinSaved ==
    ASSUME LogOK, PinsOK, NEW m, Pinned' \subseteq Pinned \cup {m}, NEW h \in Handlers,
           Pinning(h), handler[h].step = "saving", handler'[h] = Idle,
           \A g \in Handlers \ {h} : handler'[g] = handler[g],
           pinsRaced' = pinsRaced
    PROVE  PinsOK'
<1> SUFFICES ASSUME ~ pinsRaced PROVE PinsOK'
  BY DEF PinsOK
<1>1. IsFiniteSet(Pinned) /\ Cardinality(Pinned) \in Nat
  BY PinnedIsFinite
<1>2. Cardinality(Pinned) < PinLimit
  BY DEF PinsOK
<1>3. /\ IsFiniteSet(Pinned \cup {m}) /\ Cardinality(Pinned \cup {m}) \in Nat
      /\ Cardinality(Pinned \cup {m}) <= Cardinality(Pinned) + 1
  <2>1. IsFiniteSet(Pinned \cup {m})
    BY <1>1, FS_AddElement
  <2>2. \/ Cardinality(Pinned \cup {m}) = Cardinality(Pinned)
        \/ Cardinality(Pinned \cup {m}) = Cardinality(Pinned) + 1
    BY <1>1, FS_AddElement
  <2> QED BY <1>1, <2>1, <2>2
<1>4. Cardinality(Pinned') \in Nat /\ Cardinality(Pinned') <= Cardinality(Pinned \cup {m})
  BY <1>3, FS_Subset, FS_CardinalityType
<1>5. Cardinality(Pinned') <= PinLimit
  BY <1>1, <1>2, <1>3, <1>4, StoreAssumption
<1>6. \A g \in Handlers : ~ Pinning(g)'
  BY DEF PinsOK, Pinning, Idle
<1> QED BY <1>5, <1>6 DEF PinsOK

-----------------------------------------------------------------------------
(* The ways in which a handler moves. *)

Good == IInv' /\ [Board!Next]_BoardView

LEMMA LogStays ==
    ASSUME LogOK, log' = log
    PROVE  LogOK' /\ Evolves(log, log') /\ Pinned' = Pinned /\ [Board!Next]_BoardView
<1>1. LogOK'
  BY DEF LogOK, Docs
<1>2. Pinned' = Pinned
  BY DEF Pinned
<1>3. BoardView' = BoardView
  BY DEF BoardView, ReactionOf
<1>4. \A m \in DOMAIN log : log[m].version \in Nat
  BY VersionIsNat
<1>5. Evolves(log, log')
  BY <1>4 DEF Evolves, LogOK
<1> QED BY <1>1, <1>2, <1>3, <1>5

\* A handler starts; with "pin" it starts at its first step.
LEMMA BeginKeeps ==
    ASSUME IInv, NEW h \in Handlers, NEW r, GoodHandler(r, log), Begin(h, r), r.step = "read"
    PROVE  Good
<1> USE DEF IInv, Begin
<1>1. LogOK' /\ Evolves(log, log') /\ Pinned' = Pinned /\ [Board!Next]_BoardView
  BY LogStays
<1>2. /\ HandlersOK' /\ handler'[h] = r
      /\ \A g \in Handlers \ {h} : handler'[g] = handler[g]
  BY <1>1, HandlersStay
<1>3. CountsOK'
  BY StoreAssumption DEF CountsOK
<1>4. PinsOK'
  <2>1. CASE r.op = "pin"
    BY <1>1, <1>2, <2>1, PinStarts DEF Pinning
  <2>2. CASE r.op # "pin"
    <3>1. pinsRaced' = pinsRaced
      BY <2>2 DEF CountsOK
    <3> QED BY <1>1, <1>2, <2>2, <3>1, PinsStay DEF Pinning
  <2> QED BY <2>1, <2>2
<1> QED BY <1>1, <1>2, <1>3, <1>4 DEF Good

\* A handler that is done, or goes on, with the documents left or written.
LEMMA StepKeeps ==
    ASSUME IInv, NEW h \in Handlers, Finish(h), LogOK', Evolves(log, log'),
           [Board!Next]_BoardView, Pinned' \subseteq Pinned
    PROVE  Good
<1> USE DEF IInv, Finish
<1>1. GoodHandler(Idle, log')
  BY IdleIsGood DEF LogOK
<1>2. /\ HandlersOK' /\ handler'[h] = Idle
      /\ \A g \in Handlers \ {h} : handler'[g] = handler[g]
  BY <1>1, HandlersStay
<1>3. CountsOK'
  BY DEF CountsOK
<1>4. PinsOK'
  BY <1>2, PinsStay DEF Pinning, Idle
<1> QED BY <1>2, <1>3, <1>4 DEF Good

LEMMA GotoKeeps ==
    ASSUME IInv, NEW h \in Handlers, NEW step, Goto(h, step), LogOK', Evolves(log, log'),
           [Board!Next]_BoardView, Pinned' \subseteq Pinned,
           Pinning(h) => Cardinality(Pinned) < PinLimit
    PROVE  Good
<1> USE DEF IInv, Goto
<1> DEFINE r == [handler[h] EXCEPT !.step = step]
<1>1. GoodHandler(handler[h], log')
  BY GoodStays DEF HandlersOK, LogOK
<1>2. GoodHandler(r, log') /\ r.op = handler[h].op
  BY <1>1 DEF GoodHandler, Fields
<1>3. handler' = [handler EXCEPT ![h] = r]
  OBVIOUS
<1> HIDE DEF r
<1>4. /\ HandlersOK' /\ handler'[h] = r
      /\ \A g \in Handlers \ {h} : handler'[g] = handler[g]
  BY <1>2, <1>3, HandlersStay
<1>5. CountsOK'
  BY DEF CountsOK
<1>6. PinsOK'
  BY <1>2, <1>4, PinsStay DEF Pinning
<1> QED BY <1>4, <1>5, <1>6 DEF Good

\* A document is written whose reactions stay, or change with the version.
LEMMA WriteEvolves ==
    ASSUME LogOK, NEW m \in DOMAIN log, NEW d \in Docs, log' = [log EXCEPT ![m] = d],
           \/ d.version = log[m].version /\ d.reactions = log[m].reactions
           \/ d.version = log[m].version + 1
    PROVE  LogOK' /\ Evolves(log, log')
<1>1. /\ log' \in Seq(Docs) /\ Len(log') = Len(log) /\ DOMAIN log' = DOMAIN log
      /\ log'[m] = d /\ \A n \in DOMAIN log \ {m} : log'[n] = log[n]
  BY DEF LogOK
<1>2. LogOK'
  BY <1>1 DEF LogOK, Docs
<1>3. \A n \in DOMAIN log : log[n].version \in Nat
  BY VersionIsNat
<1>4. Evolves(log, log')
  BY <1>1, <1>3 DEF Evolves, LogOK
<1> QED BY <1>2, <1>4

LEMMA WritePins ==
    ASSUME LogOK, NEW m \in DOMAIN log, NEW d, log' = [log EXCEPT ![m] = d]
    PROVE  /\ Pinned' \subseteq Pinned \cup {m}
           /\ (d.pinned => log[m].pinned) => Pinned' \subseteq Pinned
<1>1. DOMAIN log' = DOMAIN log /\ log'[m] = d /\ \A n \in DOMAIN log \ {m} : log'[n] = log[n]
  BY DEF LogOK
<1> QED BY <1>1 DEF Pinned

-----------------------------------------------------------------------------
(* Handlers start, or stop without a write. *)

LEMMA ReadingIsGood ==
    ASSUME LogOK, NEW op \in Copying, NEW u \in Users, NEW m \in DOMAIN log, NEW x,
           op = "react" => x \in Emojis
    PROVE  GoodHandler(Reading(op, u, m, x), log) /\ Reading(op, u, m, x).step = "read"
<1> DEFINE r == Reading(op, u, m, x)
<1>1. /\ DOMAIN r = Fields
      /\ r.op = op /\ r.step = "read" /\ r.user = u /\ r.msg = m /\ r.copy = log[m] /\ r.what = x
  BY DEF Reading, Fields
<1>2. r.copy \in Docs /\ r.copy.version <= log[m].version
  BY <1>1, VersionIsNat
<1>3. m \in 0 .. Len(log)
  BY DEF LogOK
<1>4. op # "send" /\ op \in Naming
  BY DEF Copying, Naming
<1> HIDE DEF r
<1>5. GoodHandler(r, log)
  BY <1>1, <1>2, <1>3, <1>4 DEF GoodHandler
<1> QED BY <1>1, <1>5 DEF r

\* The handlers that read no document first.
LEMMA PlainIsGood ==
    ASSUME LogOK, NEW u \in Users
    PROVE  /\ \A k \in Keys \cup Texts :
                LET r == [Idle EXCEPT !.op = "send", !.step = "read", !.user = u, !.what = k]
                IN  GoodHandler(r, log) /\ r.step = "read"
           /\ \A m \in DOMAIN log, op \in {"seen", "hide"} :
                LET r == [Idle EXCEPT !.op = op, !.step = "read", !.user = u, !.msg = m]
                IN  GoodHandler(r, log) /\ r.step = "read"
           /\ LET r == [Idle EXCEPT !.op = "clear", !.step = "read", !.user = u]
              IN  GoodHandler(r, log) /\ r.step = "read"
  BY DEF LogOK, GoodHandler, Idle, Fields, Copying, Naming

LEMMA BeginsKeep == ASSUME IInv, NEW h \in Handlers, Begins(h) PROVE Good
<1>1. PICK u \in Users :
        \/ \E k \in Keys \cup Texts : Send(h, u, k)
        \/ \E m \in DOMAIN log :
             \/ \E e \in Emojis : React(h, u, m, e)
             \/ Unreact(h, u, m)
             \/ MarkRead(h, u, m)
             \/ Recall(h, u, m)
             \/ AdminDelete(h, u, m)
             \/ DeleteForMe(h, u, m)
             \/ Pin(h, u, m)
             \/ Unpin(h, u, m)
        \/ ClearChatHistory(h, u)
  BY DEF Begins
<1>2. ASSUME NEW op \in Copying, NEW m \in DOMAIN log, NEW x, op = "react" => x \in Emojis,
             Begin(h, Reading(op, u, m, x))
      PROVE  Good
  BY <1>2, ReadingIsGood, BeginKeeps DEF IInv
<1>3. CASE \E k \in Keys \cup Texts : Send(h, u, k)
  BY <1>3, PlainIsGood, BeginKeeps DEF Send, IInv
<1>4. ASSUME NEW m \in DOMAIN log, NEW e \in Emojis, React(h, u, m, e) PROVE Good
  BY <1>2, <1>4 DEF React, Copying
<1>5. ASSUME NEW m \in DOMAIN log,
             \/ Unreact(h, u, m) \/ Recall(h, u, m) \/ AdminDelete(h, u, m)
             \/ Pin(h, u, m) \/ Unpin(h, u, m)
      PROVE  Good
  BY <1>2, <1>5 DEF Unreact, Recall, AdminDelete, Pin, Unpin, Copying
<1>6. ASSUME NEW m \in DOMAIN log, MarkRead(h, u, m) \/ DeleteForMe(h, u, m) PROVE Good
  BY <1>6, PlainIsGood, BeginKeeps DEF MarkRead, DeleteForMe, IInv
<1>7. CASE ClearChatHistory(h, u)
  BY <1>7, PlainIsGood, BeginKeeps DEF ClearChatHistory, IInv
<1> QED BY <1>1, <1>3, <1>4, <1>5, <1>6, <1>7

LEMMA StopKeeps == ASSUME IInv, NEW h \in Handlers, Finish(h), UNCHANGED log PROVE Good
  BY LogStays, StepKeeps DEF IInv

LEMMA CountPinsKeeps == ASSUME IInv, NEW h \in Handlers, CountPins(h) PROVE Good
<1>1. LogOK' /\ Evolves(log, log') /\ Pinned' = Pinned /\ [Board!Next]_BoardView
  BY LogStays DEF IInv, CountPins
<1> QED BY <1>1, GotoKeeps DEF CountPins, PinRoom

-----------------------------------------------------------------------------
(* A message is created. *)

LEMMA CreateKeeps == ASSUME IInv, NEW h \in Handlers, Create(h) PROVE Good
<1>0. PICK t \in Times : log' = Append(log, New(handler[h].what, handler[h].user, t))
  BY DEF Create
<1> DEFINE d == New(handler[h].what, handler[h].user, t)
           n == Len(log) + 1
<1>1. handler[h].what \in Keys \cup Texts /\ handler[h].user \in Users
  BY DEF IInv, HandlersOK, GoodHandler, Create, At
<1>2. d \in Docs /\ ~ d.pinned
  BY <1>1 DEF Docs, New
<1>3. log' = Append(log, d) /\ Len(log) < MaxMessages /\ Finish(h)
  BY <1>0 DEF Create
<1>4. View(d) = Board!Blank
  <2>1. EmojisOf({}, handler[h].user) = {} /\ \A u : EmojisOf({}, u) = {}
    BY DEF EmojisOf
  <2>2. ReactionsIn({}) = [u \in Users |-> None]
    BY <2>1 DEF ReactionsIn, Shown
  <2> QED BY <2>2 DEF View, BackIn, New, Board!Blank
<1> HIDE DEF d
<1>5. /\ log' \in Seq(Docs) /\ Len(log') = n /\ DOMAIN log' = 1 .. n /\ DOMAIN log = 1 .. Len(log)
      /\ log'[n] = d /\ \A m \in DOMAIN log : log'[m] = log[m]
      /\ Len(log) \in Nat
  BY <1>2, <1>3 DEF IInv, LogOK
<1>6. LogOK'
  BY <1>3, <1>5, StoreAssumption DEF LogOK, Docs
<1>7. Evolves(log, log')
  BY <1>5, VersionIsNat DEF Evolves, IInv
<1>8. Pinned' \subseteq Pinned
  BY <1>2, <1>5 DEF Pinned
<1>9. [Board!Next]_BoardView
  <2>1. BoardView' = [m \in 1 .. n |-> View(log'[m])]
    BY <1>5 DEF BoardView, View, ReactionsIn, Shown, BackIn, ReactionOf, EmojisOf
  <2>2. BoardView = [m \in 1 .. Len(log) |-> View(log[m])]
    BY <1>5, BoardViewIs
  <2>3. Len(BoardView) = Len(log)
    BY <1>5, <2>2
  <2>4. BoardView' = Append(BoardView, View(d))
    BY <1>5, <2>1, <2>2, <2>3
  <2> QED BY <1>4, <2>4 DEF Board!Next, Board!Post
<1> QED BY <1>3, <1>6, <1>7, <1>8, <1>9, StepKeeps

-----------------------------------------------------------------------------
(* Reactions. *)

\* A copy with the version of its document has its reactions.
LEMMA CopyIsFresh ==
    ASSUME IInv, NEW h \in Handlers, handler[h].op \in Copying
    PROVE  /\ handler[h].msg \in DOMAIN log /\ handler[h].user \in Users
           /\ handler[h].copy \in Docs
           /\ log[handler[h].msg].version = handler[h].copy.version =>
                handler[h].copy.reactions = log[handler[h].msg].reactions
<1>1. handler[h].op # "idle" /\ handler[h].op \in Naming
  BY DEF Copying, Naming
<1> QED BY <1>1 DEF IInv, HandlersOK, GoodHandler

LEMMA SaveReactionsKeeps ==
    ASSUME IInv, NEW h \in Handlers, Finish(h), handler[h].op \in Copying,
           NEW reactions \in SUBSET [user : Users, emoji : Emojis],
           SaveReactions(handler[h].msg, handler[h].copy, reactions),
           NEW e \in Emojis \cup {None},
           ReactionsIn(reactions)
             = [ReactionsIn(handler[h].copy.reactions) EXCEPT ![handler[h].user] = e]
    PROVE  Good
<1> DEFINE m == handler[h].msg
           d == [log[m] EXCEPT !.reactions = reactions, !.version = @ + 1]
<1>1. m \in DOMAIN log /\ handler[h].user \in Users /\ handler[h].copy.reactions = log[m].reactions
  BY CopyIsFresh DEF SaveReactions
<1>2. log[m] \in Docs /\ log[m].version \in Nat
  BY <1>1, VersionIsNat DEF IInv
<1>3. /\ d \in Docs /\ d.version = log[m].version + 1 /\ d.reactions = reactions
      /\ d.pinned = log[m].pinned /\ BackIn(d) = BackIn(log[m])
  <2> DEFINE d1 == [log[m] EXCEPT !.reactions = reactions]
  <2>3. d1 \in Docs /\ log[m].version + 1 \in Nat
    BY <1>2 DEF Docs
  <2>4. [d1 EXCEPT !.version = log[m].version + 1] \in Docs
    <3> HIDE DEF d1
    <3> QED BY <2>3 DEF Docs
  <2>1. d \in Docs
    BY <2>4
  <2>2. /\ d.version = log[m].version + 1 /\ d.reactions = reactions
        /\ d.pinned = log[m].pinned /\ d.revoked = log[m].revoked
        /\ d.deletedByAdmin = log[m].deletedByAdmin /\ d.deletedFor = log[m].deletedFor
    BY <1>2 DEF Docs
  <2> HIDE DEF d
  <2> QED BY <2>1, <2>2 DEF BackIn
<1>4. log' = [log EXCEPT ![m] = d]
  BY DEF SaveReactions
<1> HIDE DEF d, m
<1>5. LogOK' /\ Evolves(log, log')
  BY <1>1, <1>3, <1>4, WriteEvolves DEF IInv
<1>6. Pinned' \subseteq Pinned
  BY <1>1, <1>3, <1>4, WritePins DEF IInv
<1>7. [Board!Next]_BoardView
  BY <1>1, <1>3, <1>4, ReactionShown DEF IInv
<1> QED BY <1>5, <1>6, <1>7, StepKeeps

LEMMA SaveReactKeeps == ASSUME IInv, NEW h \in Handlers, SaveReact(h) PROVE Good
<1> DEFINE u == handler[h].user
           e == handler[h].what
           s == handler[h].copy.reactions
<1>1. handler[h].op = "react" /\ handler[h].op \in Copying /\ e \in Emojis
  BY DEF SaveReact, At, Copying, IInv, HandlersOK, GoodHandler
<1>2. u \in Users /\ handler[h].copy \in Docs
  BY <1>1, CopyIsFresh
<1>3. s \in SUBSET [user : Users, emoji : Emojis]
  BY <1>2 DEF Docs
<1>4. Others(s, u) \cup {[user |-> u, emoji |-> e]} \in SUBSET [user : Users, emoji : Emojis]
  BY <1>1, <1>2, <1>3 DEF Others
<1>5. ReactionsIn(Others(s, u) \cup {[user |-> u, emoji |-> e]}) = [ReactionsIn(s) EXCEPT ![u] = e]
  BY <1>1, <1>2, ReactShows
<1> QED BY <1>1, <1>4, <1>5, SaveReactionsKeeps DEF SaveReact

LEMMA SaveUnreactKeeps == ASSUME IInv, NEW h \in Handlers, SaveUnreact(h) PROVE Good
<1> DEFINE u == handler[h].user
           s == handler[h].copy.reactions
<1>1. CASE UNCHANGED log
  BY <1>1, StopKeeps DEF SaveUnreact
<1>2. CASE SaveReactions(handler[h].msg, handler[h].copy, Others(s, u))
  <2>1. handler[h].op \in Copying
    BY DEF SaveUnreact, At, Copying
  <2>2. u \in Users /\ handler[h].copy \in Docs
    BY <2>1, CopyIsFresh
  <2>3. Others(s, u) \in SUBSET [user : Users, emoji : Emojis]
    BY <2>2 DEF Docs, Others
  <2>4. ReactionsIn(Others(s, u)) = [ReactionsIn(s) EXCEPT ![u] = None]
    BY <2>2, UnreactShows
  <2> QED BY <1>2, <2>1, <2>3, <2>4, SaveReactionsKeeps DEF SaveUnreact
<1> QED BY <1>1, <1>2 DEF SaveUnreact

-----------------------------------------------------------------------------
(* Read marks and hiding: update operators of the database. *)

\* A document gets other read marks.
LEMMA SeenShows ==
    ASSUME IInv, NEW m \in DOMAIN log, NEW seen \in [Users -> Nat],
           log' = [log EXCEPT ![m] = [log[m] EXCEPT !.seen = seen]]
    PROVE  LogOK' /\ Evolves(log, log') /\ [Board!Next]_BoardView /\ Pinned' \subseteq Pinned
<1> DEFINE d == [log[m] EXCEPT !.seen = seen]
<1>1. log[m] \in Docs
  BY VersionIsNat DEF IInv
<1>2. d \in Docs
  BY <1>1 DEF Docs
<1>3. /\ d.version = log[m].version /\ d.reactions = log[m].reactions
      /\ d.pinned = log[m].pinned /\ d.revoked = log[m].revoked
      /\ d.deletedByAdmin = log[m].deletedByAdmin /\ d.deletedFor = log[m].deletedFor
  BY <1>1 DEF Docs
<1> HIDE DEF d
<1>4. log' = [log EXCEPT ![m] = d]
  BY DEF d
<1>5. View(d) = View(log[m])
  BY <1>3 DEF View, BackIn
<1>6. LogOK' /\ Evolves(log, log')
  BY <1>2, <1>3, <1>4, WriteEvolves DEF IInv
<1>7. Pinned' \subseteq Pinned
  BY <1>3, <1>4, WritePins DEF IInv
<1> QED BY <1>4, <1>5, <1>6, <1>7, SameShown DEF IInv

LEMMA NamedMessage ==
    ASSUME IInv, NEW h \in Handlers, handler[h].op \in Naming
    PROVE  handler[h].msg \in DOMAIN log /\ handler[h].user \in Users
<1>1. handler[h].op # "idle"
  BY DEF Naming, Copying
<1> QED BY <1>1 DEF IInv, HandlersOK, GoodHandler

LEMMA SeenKeeps ==
    ASSUME IInv, NEW h \in Handlers, PullSeen(h) \/ AddSeen(h)
    PROVE  Good
<1> DEFINE m == handler[h].msg
           u == handler[h].user
<1>1. handler[h].op = "seen" /\ handler[h].op \in Naming
  BY DEF PullSeen, AddSeen, At, Naming
<1>2. m \in DOMAIN log /\ u \in Users
  BY <1>1, NamedMessage
<1>3. log[m].seen \in [Users -> Nat]
  <2>1. log[m] \in Docs
    BY <1>2, VersionIsNat DEF IInv
  <2> QED BY <2>1 DEF Docs
<1>4. PICK n \in Nat : log' = [log EXCEPT ![m].seen[u] = n]
  <2>1. CASE PullSeen(h)
    BY <2>1 DEF PullSeen
  <2>2. CASE AddSeen(h)
    <3>1. log[m].seen[u] + 1 \in Nat
      BY <1>2, <1>3
    <3>2. log' = [log EXCEPT ![m].seen[u] = log[m].seen[u] + 1]
      BY <2>2 DEF AddSeen
    <3> QED BY <3>1, <3>2
  <2> QED BY <2>1, <2>2
<1> DEFINE seen == [log[m].seen EXCEPT ![u] = n]
<1>5. seen \in [Users -> Nat]
  BY <1>3
<1>6. log' = [log EXCEPT ![m] = [log[m] EXCEPT !.seen = seen]]
  BY <1>4
<1> HIDE DEF seen, m, u
<1>7. LogOK' /\ Evolves(log, log') /\ [Board!Next]_BoardView /\ Pinned' \subseteq Pinned
  BY <1>2, <1>5, <1>6, SeenShows
<1>8. ~ Pinning(h)
  BY <1>1 DEF Pinning
<1> QED BY <1>7, <1>8, GotoKeeps, StepKeeps DEF PullSeen, AddSeen

LEMMA AddDeletedForKeeps == ASSUME IInv, NEW h \in Handlers, AddDeletedFor(h) PROVE Good
<1> DEFINE m == handler[h].msg
           u == handler[h].user
           d == [log[m] EXCEPT !.deletedFor = @ \cup {u}]
<1>1. handler[h].op \in Naming
  BY DEF AddDeletedFor, At, Naming
<1>2. m \in DOMAIN log /\ u \in Users
  BY <1>1, NamedMessage
<1>3. log[m] \in Docs
  BY <1>2, VersionIsNat DEF IInv
<1>4. d \in Docs
  BY <1>2, <1>3 DEF Docs
<1>5. /\ d.version = log[m].version /\ d.reactions = log[m].reactions
      /\ d.pinned = log[m].pinned /\ d.revoked = log[m].revoked
      /\ d.deletedByAdmin = log[m].deletedByAdmin /\ d.deletedFor = log[m].deletedFor \cup {u}
  BY <1>3 DEF Docs
<1>6. log' = [log EXCEPT ![m] = d]
  BY DEF AddDeletedFor
<1> HIDE DEF d, m
<1>7. BackIn(d) = BackIn(log[m]) \cup {u} /\ u \in Board!Marks
  BY <1>2, <1>5 DEF BackIn, Board!Marks
<1> HIDE DEF u
<1>8. LogOK' /\ Evolves(log, log')
  BY <1>2, <1>4, <1>5, <1>6, WriteEvolves DEF IInv
<1>9. Pinned' \subseteq Pinned
  BY <1>2, <1>5, <1>6, WritePins DEF IInv
<1>10. [Board!Next]_BoardView
  BY <1>2, <1>5, <1>6, <1>7, BackShown DEF IInv
<1> QED BY <1>8, <1>9, <1>10, StepKeeps DEF AddDeletedFor

\* clearChatHistory hides every message there is from its user.
LEMMA AddAllDeletedForKeeps == ASSUME IInv, NEW h \in Handlers, AddAllDeletedFor(h) PROVE Good
<1> DEFINE u == handler[h].user
           D(m) == [log[m] EXCEPT !.deletedFor = @ \cup {u}]
<1>1. u \in Users
  BY DEF AddAllDeletedFor, At, IInv, HandlersOK, GoodHandler
<1>2. log' = [m \in DOMAIN log |-> D(m)] /\ Finish(h)
  BY DEF AddAllDeletedFor
<1>3. \A m \in DOMAIN log : log[m] \in Docs
  BY VersionIsNat DEF IInv
<1>4. ASSUME NEW m \in DOMAIN log
      PROVE  /\ D(m) \in Docs
             /\ D(m).version = log[m].version /\ D(m).reactions = log[m].reactions
             /\ D(m).pinned = log[m].pinned /\ D(m).revoked = log[m].revoked
             /\ D(m).deletedByAdmin = log[m].deletedByAdmin
             /\ D(m).deletedFor = log[m].deletedFor \cup {u}
  <2>1. log[m] \in Docs
    BY <1>3
  <2> QED BY <1>1, <2>1 DEF Docs
<1> HIDE DEF D
<1>5. /\ DOMAIN log' = DOMAIN log /\ \A m \in DOMAIN log : log'[m] = D(m)
      /\ Len(log) \in Nat /\ DOMAIN log = 1 .. Len(log)
  BY <1>2 DEF IInv, LogOK
<1>6. log' \in Seq(Docs) /\ Len(log') = Len(log)
  <2>1. log' \in [1 .. Len(log) -> Docs]
    BY <1>2, <1>4, <1>5
  <2> QED BY <1>5, <2>1
<1>7. LogOK'
  BY <1>6 DEF LogOK, IInv, Docs
<1>8. Evolves(log, log')
  BY <1>4, <1>5, <1>6, VersionIsNat DEF Evolves, IInv
<1>9. Pinned' \subseteq Pinned
  BY <1>4, <1>5 DEF Pinned
<1>10. [Board!Next]_BoardView
  <2>1. ASSUME NEW m \in DOMAIN log
        PROVE  View(D(m)) = [View(log[m]) EXCEPT !.back = @ \cup {u}]
    <3>1. BackIn(D(m)) = BackIn(log[m]) \cup {u}
      BY <1>4 DEF BackIn
    <3>2. D(m).reactions = log[m].reactions
      BY <1>4
    <3>3. View(D(m)) = [reaction |-> ReactionsIn(log[m].reactions), back |-> BackIn(log[m]) \cup {u}]
      BY <3>1, <3>2 DEF View
    <3>4. [View(log[m]) EXCEPT !.back = @ \cup {u}]
            = [reaction |-> ReactionsIn(log[m].reactions), back |-> BackIn(log[m]) \cup {u}]
      BY DEF View
    <3> QED BY <3>3, <3>4
  <2>2. BoardView' = [m \in DOMAIN log' |-> View(log'[m])]
    BY DEF BoardView, View, ReactionsIn, Shown, BackIn, ReactionOf, EmojisOf
  <2>3. BoardView' = [m \in DOMAIN BoardView |-> [BoardView[m] EXCEPT !.back = @ \cup {u}]]
    BY <1>5, <2>1, <2>2, BoardViewIs
  <2> QED BY <1>1, <2>3 DEF Board!Next, Board!Clear
<1> QED BY <1>2, <1>7, <1>8, <1>9, <1>10, StepKeeps

-----------------------------------------------------------------------------
(* Flags: a save writes the one that was changed on the copy, and nothing else of it. *)

With(d, flag, value) == [d EXCEPT ![flag] = value]

LEMMA FlagWritten ==
    ASSUME LogOK, NEW m \in DOMAIN log, NEW old \in Docs, NEW flag \in {"revoked", "deletedByAdmin", "pinned"},
           NEW value \in BOOLEAN, SaveFlags(m, old, With(old, flag, value))
    PROVE  \E d \in Docs :
             /\ log' = [log EXCEPT ![m] = d]
             /\ d = With(log[m], flag, value) \/ d = log[m]
<1> DEFINE new == With(old, flag, value)
           d == [f \in DOMAIN log[m] |-> IF new[f] # old[f] THEN new[f] ELSE log[m][f]]
<1>1. log[m] \in Docs
  BY VersionIsNat
<1>2. DOMAIN log[m] = {"key", "sender", "time", "version", "reactions", "seen", "revoked", "deletedByAdmin",
                       "pinned", "deletedFor"} /\ DOMAIN old = DOMAIN log[m]
  BY <1>1 DEF Docs
<1>3. log' = [log EXCEPT ![m] = d]
  BY DEF SaveFlags
<1>4. flag \in DOMAIN log[m] /\ new[flag] = value /\ \A f \in DOMAIN log[m] \ {flag} : new[f] = old[f]
  BY <1>2 DEF With
<1>5. CASE old[flag] = value
  <2>1. d = log[m]
    <3>1. log[m] = [f \in DOMAIN log[m] |-> log[m][f]]
      BY <1>1 DEF Docs
    <3>2. \A f \in DOMAIN log[m] : new[f] = old[f]
      BY <1>4, <1>5
    <3>3. d = [f \in DOMAIN log[m] |-> log[m][f]]
      BY <3>2
    <3> QED BY <3>1, <3>3
  <2> QED BY <1>1, <1>3, <2>1
<1>6. CASE old[flag] # value
  <2>1. d = With(log[m], flag, value)
    BY <1>2, <1>4, <1>6 DEF With
  <2>2. With(log[m], flag, value) \in Docs
    BY <1>1 DEF Docs, With
  <2> QED BY <1>3, <2>1, <2>2
<1> QED BY <1>5, <1>6

\* What every save of a flag leaves.
LEMMA FlagLeaves ==
    ASSUME IInv, NEW m \in DOMAIN log, NEW d \in Docs, log' = [log EXCEPT ![m] = d],
           NEW flag \in {"revoked", "deletedByAdmin", "pinned"}, NEW value \in BOOLEAN,
           d = With(log[m], flag, value) \/ d = log[m]
    PROVE  /\ LogOK' /\ Evolves(log, log')
           /\ d.reactions = log[m].reactions /\ d.deletedFor = log[m].deletedFor
           /\ flag # "revoked" => d.revoked = log[m].revoked
           /\ flag # "deletedByAdmin" => d.deletedByAdmin = log[m].deletedByAdmin
           /\ flag # "pinned" => d.pinned = log[m].pinned
           /\ flag = "revoked" => d.revoked \in {log[m].revoked, value}
           /\ flag = "deletedByAdmin" => d.deletedByAdmin \in {log[m].deletedByAdmin, value}
           /\ flag = "pinned" => d.pinned \in {log[m].pinned, value}
<1>1. log[m] \in Docs
  BY VersionIsNat DEF IInv
<1>2. /\ d.version = log[m].version
      /\ d.reactions = log[m].reactions /\ d.deletedFor = log[m].deletedFor
      /\ flag # "revoked" => d.revoked = log[m].revoked
      /\ flag # "deletedByAdmin" => d.deletedByAdmin = log[m].deletedByAdmin
      /\ flag # "pinned" => d.pinned = log[m].pinned
      /\ flag = "revoked" => d.revoked \in {log[m].revoked, value}
      /\ flag = "deletedByAdmin" => d.deletedByAdmin \in {log[m].deletedByAdmin, value}
      /\ flag = "pinned" => d.pinned \in {log[m].pinned, value}
  BY <1>1 DEF Docs, With
<1>3. LogOK' /\ Evolves(log, log')
  BY <1>2, WriteEvolves DEF IInv
<1> QED BY <1>2, <1>3

\* A flag with which a message is taken back only ever goes up.
LEMMA BackFlagKeeps ==
    ASSUME IInv, NEW h \in Handlers, Finish(h), handler[h].op \in Copying,
           NEW flag \in {"revoked", "deletedByAdmin"}, NEW up \in BOOLEAN, up = TRUE,
           SaveFlags(handler[h].msg, handler[h].copy, With(handler[h].copy, flag, up))
    PROVE  Good
<1> DEFINE m == handler[h].msg
<1>1. m \in DOMAIN log /\ handler[h].copy \in Docs
  BY CopyIsFresh
<1>0. flag \in {"revoked", "deletedByAdmin", "pinned"}
  OBVIOUS
<1>2. PICK d \in Docs : /\ log' = [log EXCEPT ![m] = d]
                        /\ d = With(log[m], flag, up) \/ d = log[m]
  BY <1>0, <1>1, FlagWritten DEF IInv
<1> HIDE DEF m
<1>3. /\ LogOK' /\ Evolves(log, log')
      /\ d.reactions = log[m].reactions /\ d.deletedFor = log[m].deletedFor
      /\ flag # "revoked" => d.revoked = log[m].revoked
      /\ flag # "deletedByAdmin" => d.deletedByAdmin = log[m].deletedByAdmin
      /\ d.pinned = log[m].pinned
      /\ flag = "revoked" => d.revoked \in {log[m].revoked, up}
      /\ flag = "deletedByAdmin" => d.deletedByAdmin \in {log[m].deletedByAdmin, up}
  BY <1>1, <1>2, FlagLeaves
<1>4. Pinned' \subseteq Pinned
  BY <1>1, <1>2, <1>3, WritePins DEF IInv
<1>5. log[m].revoked \in BOOLEAN /\ log[m].deletedByAdmin \in BOOLEAN
  <2>1. log[m] \in Docs
    BY <1>1, VersionIsNat DEF IInv
  <2> QED BY <2>1 DEF Docs
<1>6. \/ BackIn(d) = BackIn(log[m])
      \/ \E k \in {"recalled", "removed"} : BackIn(d) = BackIn(log[m]) \cup {k}
  <2>1. CASE flag = "revoked"
    BY <1>3, <1>5, <2>1 DEF BackIn
  <2>2. CASE flag = "deletedByAdmin"
    BY <1>3, <1>5, <2>2 DEF BackIn
  <2> QED BY <2>1, <2>2
<1>7. [Board!Next]_BoardView
  <2>1. CASE BackIn(d) = BackIn(log[m])
    <3>1. View(d) = View(log[m])
      BY <1>3, <2>1 DEF View
    <3> QED BY <1>1, <1>2, <3>1, SameShown DEF IInv
  <2>2. CASE \E k \in {"recalled", "removed"} : BackIn(d) = BackIn(log[m]) \cup {k}
    <3>1. PICK k \in Board!Marks : BackIn(d) = BackIn(log[m]) \cup {k}
      BY <2>2 DEF Board!Marks
    <3> QED BY <1>1, <1>2, <1>3, <3>1, BackShown DEF IInv
  <2> QED BY <1>6, <2>1, <2>2
<1> QED BY <1>3, <1>4, <1>7, StepKeeps

LEMMA SaveRecallKeeps == ASSUME IInv, NEW h \in Handlers, SaveRecall(h) PROVE Good
  BY BackFlagKeeps DEF SaveRecall, At, Copying, With

LEMMA SaveAdminDeleteKeeps == ASSUME IInv, NEW h \in Handlers, SaveAdminDelete(h) PROVE Good
  BY BackFlagKeeps DEF SaveAdminDelete, At, Copying, With

\* A pin shows in no document of the board.
LEMMA PinFlag ==
    ASSUME IInv, NEW h \in Handlers, handler[h].op \in Copying, NEW value \in BOOLEAN,
           SaveFlags(handler[h].msg, handler[h].copy, With(handler[h].copy, "pinned", value))
    PROVE  /\ LogOK' /\ Evolves(log, log') /\ [Board!Next]_BoardView
           /\ Pinned' \subseteq Pinned \cup {handler[h].msg}
           /\ value = FALSE => Pinned' \subseteq Pinned
<1> DEFINE m == handler[h].msg
<1>1. m \in DOMAIN log /\ handler[h].copy \in Docs
  BY CopyIsFresh
<1>2. PICK d \in Docs : /\ log' = [log EXCEPT ![m] = d]
                        /\ d = With(log[m], "pinned", value) \/ d = log[m]
  BY <1>1, FlagWritten DEF IInv
<1> HIDE DEF m
<1>3. /\ LogOK' /\ Evolves(log, log')
      /\ d.reactions = log[m].reactions /\ d.deletedFor = log[m].deletedFor
      /\ d.revoked = log[m].revoked /\ d.deletedByAdmin = log[m].deletedByAdmin
      /\ d.pinned \in {log[m].pinned, value}
  BY <1>1, <1>2, FlagLeaves
<1>4. View(d) = View(log[m])
  BY <1>3 DEF View, BackIn
<1>5. Pinned' \subseteq Pinned \cup {m} /\ (value = FALSE => Pinned' \subseteq Pinned)
  BY <1>1, <1>2, <1>3, WritePins DEF IInv
<1>6. [Board!Next]_BoardView
  BY <1>1, <1>2, <1>4, SameShown DEF IInv
<1> QED BY <1>3, <1>5, <1>6 DEF m

LEMMA SaveUnpinKeeps == ASSUME IInv, NEW h \in Handlers, SaveUnpin(h) PROVE Good
<1>1. handler[h].op \in Copying
  BY DEF SaveUnpin, At, Copying
<1>2. /\ LogOK' /\ Evolves(log, log') /\ [Board!Next]_BoardView
      /\ Pinned' \subseteq Pinned
  BY <1>1, PinFlag DEF SaveUnpin, With
<1> QED BY <1>2, StepKeeps DEF SaveUnpin

LEMMA SavePinKeeps == ASSUME IInv, NEW h \in Handlers, SavePin(h) PROVE Good
<1>1. handler[h].op \in Copying /\ Pinning(h) /\ handler[h].step = "saving"
  BY DEF SavePin, At, Copying, Pinning
<1>2. /\ LogOK' /\ Evolves(log, log') /\ [Board!Next]_BoardView
      /\ Pinned' \subseteq Pinned \cup {handler[h].msg}
  BY <1>1, PinFlag DEF SavePin, With
<1>3. GoodHandler(Idle, log')
  BY <1>2, IdleIsGood DEF LogOK
<1>4. handler' = [handler EXCEPT ![h] = Idle] /\ UNCHANGED <<starts, pinsRaced>>
  BY DEF SavePin, Finish
<1>5. /\ HandlersOK' /\ handler'[h] = Idle
      /\ \A g \in Handlers \ {h} : handler'[g] = handler[g]
  BY <1>2, <1>3, <1>4, HandlersStay DEF IInv
<1>6. CountsOK'
  BY <1>4 DEF CountsOK, IInv
<1>7. PinsOK'
  BY <1>1, <1>2, <1>4, <1>5, PinSaved DEF IInv
<1> QED BY <1>2, <1>5, <1>6, <1>7 DEF Good, IInv

-----------------------------------------------------------------------------
(* The invariant and the refinement. *)

LEMMA InitKeeps == Init => IInv /\ Board!Init
<1> SUFFICES ASSUME Init PROVE IInv /\ Board!Init
  OBVIOUS
<1> DEFINE D == {New(k, u, 1) : k \in Keys \cup Texts, u \in Users}
<1>1. \A d \in D : d \in Docs /\ ~ d.pinned /\ d.reactions = {} /\ BackIn(d) = {}
  <2>1. ASSUME NEW k \in Keys \cup Texts, NEW u \in Users
        PROVE  LET d == New(k, u, 1)
               IN  d \in Docs /\ ~ d.pinned /\ d.reactions = {} /\ BackIn(d) = {}
    BY StoreAssumption DEF New, Docs, BackIn, Times
  <2> QED BY <2>1
<1>2. PICK n \in 0 .. 2 : log \in [1 .. n -> D]
  BY DEF Init
<1> HIDE DEF D
<1>3. log \in Seq(Docs) /\ Len(log) = n /\ DOMAIN log = 1 .. n /\ \A m \in 1 .. n : log[m] \in D
  <2>1. log \in [1 .. n -> Docs]
    BY <1>1, <1>2
  <2> QED BY <1>2, <2>1
<1>4. LogOK
  BY <1>3, StoreAssumption DEF LogOK
<1>5. HandlersOK
  BY <1>3, IdleIsGood DEF Init, HandlersOK
<1>6. CountsOK
  <2>1. starts \in 0 .. MaxStarts
    BY StoreAssumption DEF Init
  <2>2. pinsRaced \in BOOLEAN
    BY DEF Init
  <2> QED BY <2>1, <2>2 DEF CountsOK
<1>7. PinsOK
  <2>1. Pinned = {}
    BY <1>1, <1>3 DEF Pinned
  <2>2. Cardinality(Pinned) = 0
    BY <2>1, FS_EmptySet
  <2>3. \A h \in Handlers : ~ Pinning(h)
    BY DEF Init, Pinning, Idle
  <2> QED BY <2>2, <2>3, StoreAssumption DEF PinsOK
<1>8. Board!Init
  <2>1. ReactionsIn({}) = [u \in Users |-> None]
    <3>1. \A u : EmojisOf({}, u) = {}
      BY DEF EmojisOf
    <3> QED BY <3>1 DEF ReactionsIn, Shown
  <2>2. \A d \in D : View(d) = Board!Blank
    BY <1>1, <2>1 DEF View, Board!Blank
  <2>3. BoardView = [m \in 1 .. n |-> Board!Blank]
    BY <1>3, <2>2, BoardViewIs
  <2>4. CASE n = 0
    BY <2>3, <2>4 DEF Board!Init
  <2>5. CASE n = 1
    BY <2>3, <2>5 DEF Board!Init
  <2>6. CASE n = 2
    BY <2>3, <2>6 DEF Board!Init
  <2> QED BY <2>4, <2>5, <2>6
<1> QED BY <1>4, <1>5, <1>6, <1>7, <1>8 DEF IInv

LEMMA NextIsGood == ASSUME IInv, [Next]_vars PROVE Good
<1>1. CASE Next
  <2>1. PICK h \in Handlers : Begins(h) \/ Goes(h) \/ Throws(h)
    BY <1>1 DEF Next
  <2>2. CASE Goes(h)
    BY <2>2, CreateKeeps, SaveReactKeeps, SaveUnreactKeeps, SeenKeeps, SaveRecallKeeps,
       SaveAdminDeleteKeeps, AddDeletedForKeeps, AddAllDeletedForKeeps, CountPinsKeeps,
       SavePinKeeps, SaveUnpinKeeps DEF Goes
  <2>3. CASE Throws(h)
    BY <2>3, StopKeeps DEF Throws
  <2> QED BY <2>1, <2>2, <2>3, BeginsKeep
<1>2. CASE UNCHANGED vars
  <2>1. LogOK' /\ Pinned' = Pinned /\ [Board!Next]_BoardView
    BY <1>2, LogStays DEF IInv, vars
  <2>2. HandlersOK'
    BY <1>2 DEF vars, IInv, HandlersOK, GoodHandler, Docs
  <2>3. CountsOK' /\ PinsOK'
    BY <1>2, <2>1 DEF vars, IInv, CountsOK, PinsOK, Pinning
  <2> QED BY <2>1, <2>2, <2>3 DEF Good, IInv
<1> QED BY <1>1, <1>2

LEMMA Invariance == Spec => []IInv
<1>1. IInv /\ [Next]_vars => IInv'
  BY NextIsGood DEF Good
<1> QED BY InitKeeps, <1>1, PTL DEF Spec

\* The documents keep the fields of the schema, and each message keeps its place while
\* handlers of MessageService are about to write it.
THEOREM TypeCorrect == Spec => []TypeOK
<1>1. IInv => TypeOK
  <2> SUFFICES ASSUME IInv PROVE TypeOK
    OBVIOUS
  <2>1. \A m \in DOMAIN log : log[m] \in Docs
    BY VersionIsNat DEF IInv
  <2> QED BY <2>1 DEF IInv, LogOK, HandlersOK, GoodHandler, CountsOK, TypeOK
<1> QED BY Invariance, <1>1, PTL

\* Unless two handlers pin at a time, a conversation has no more pinned messages than its
\* limit (pinMessage counts before it saves).
THEOREM PinsFit == Spec => []PinsAreShown
<1>1. IInv => PinsAreShown
  BY DEF IInv, PinsOK, PinsAreShown
<1> QED BY Invariance, <1>1, PTL

\* However many copies of a document MessageService saves at a time, no reaction of another
\* user is lost and nothing taken back is shown again: each step is one of MessageBoard, or
\* shows nothing.
THEOREM StoreImplementsBoard == Spec => ImplementsBoard
<1>1. IInv /\ [Next]_vars => [Board!Next]_BoardView
  BY NextIsGood DEF Good
<1> QED BY Invariance, InitKeeps, <1>1, PTL DEF Spec, ImplementsBoard, Board!Spec

-----------------------------------------------------------------------------
(* The newest of a finite set of messages. *)

LEMMA Least ==
    ASSUME NEW S, S \subseteq Nat, S # {}
    PROVE  \E m \in S : \A n \in S : m <= n
<1>1. PICK m \in S : \A n \in S : <<n, m>> \notin OpToRel(<, Nat)
  BY NatLessThanWellFounded, WFMin
<1>2. \A n \in S : ~ (n < m)
  BY <1>1 DEF OpToRel
<1> QED BY <1>2

LEMMA FinitePart ==
    ASSUME NEW N \in Nat, NEW S, S \subseteq 1 .. N
    PROVE  /\ IsFiniteSet(S) /\ Cardinality(S) \in Nat
           /\ \A T \in SUBSET S : /\ IsFiniteSet(T) /\ Cardinality(T) \in Nat
                                  /\ Cardinality(T) <= Cardinality(S)
<1>1. IsFiniteSet(1 .. N)
  BY FS_Interval
<1>2. IsFiniteSet(S)
  BY <1>1, FS_Subset
<1> QED BY <1>2, FS_Subset, FS_CardinalityType

LEMMA TimeIsNat == ASSUME LogOK PROVE \A m \in DOMAIN log : log[m].time \in Nat /\ log[m].time > 0
<1> SUFFICES ASSUME NEW m \in DOMAIN log PROVE log[m].time \in Nat /\ log[m].time > 0
  OBVIOUS
<1>1. log[m] \in Docs
  BY DEF LogOK
<1>2. log[m].time \in 1 .. MaxTime
  BY <1>1 DEF Docs, Times
<1> QED BY <1>2, StoreAssumption

\* However the newest n of a set are chosen, they are n unless they are all of it, and nothing
\* else is newer.
LEMMA NewestIs ==
    ASSUME LogOK, NEW S, S \subseteq DOMAIN log, NEW n \in Nat, NEW T \in NewestOf(n, S)
    PROVE  /\ T \subseteq S
           /\ \A m \in T, x \in S \ T : log[x].time <= log[m].time
           /\ Cardinality(T) \in 0 .. n
           /\ T # S => Cardinality(T) = n
<1>1. Cardinality(S) \in Nat
  <2>1. S \subseteq 1 .. Len(log) /\ Len(log) \in Nat
    BY DEF LogOK
  <2> QED BY <2>1, FinitePart
<1>2. CASE Cardinality(S) <= n
  BY <1>1, <1>2 DEF NewestOf
<1>3. CASE ~ (Cardinality(S) <= n)
  BY <1>3 DEF NewestOf
<1> QED BY <1>2, <1>3

-----------------------------------------------------------------------------
(* Pages. *)

FewCopies == \A m \in DOMAIN log : Cardinality(Copies(m)) <= 2

\* Among three messages of one key two are one and the same.
LEMMA NoThird ==
    ASSUME LogOK, FewCopies, NEW x \in DOMAIN log, NEW y \in DOMAIN log, NEW z \in DOMAIN log,
           DedupKey(x) = DedupKey(z), DedupKey(y) = DedupKey(z), x # z, y # z
    PROVE  x = y
<1> SUFFICES ASSUME x # y PROVE FALSE
  OBVIOUS
<1>1. {x, y, z} \in SUBSET Copies(z)
  BY DEF Copies
<1>2. Copies(z) \subseteq 1 .. Len(log) /\ Len(log) \in Nat
  BY DEF LogOK, Copies
<1>3. IsFiniteSet(Copies(z)) /\ Cardinality(Copies(z)) \in Nat
  BY <1>2, FinitePart
<1>4. Cardinality({x, y, z}) <= Cardinality(Copies(z))
  BY <1>1, <1>3, FS_Subset
<1>5. Cardinality({x, y, z}) = 3
  <2>1. IsFiniteSet({x}) /\ Cardinality({x}) = 1
    BY FS_Singleton
  <2>0. ASSUME NEW A, IsFiniteSet(A), NEW b, b \notin A
        PROVE  IsFiniteSet(A \cup {b}) /\ Cardinality(A \cup {b}) = Cardinality(A) + 1
    BY <2>0, FS_AddElement
  <2>2. IsFiniteSet({x} \cup {y}) /\ Cardinality({x} \cup {y}) = 2
    <3>1. Cardinality({x} \cup {y}) = Cardinality({x}) + 1 /\ IsFiniteSet({x} \cup {y})
      BY <2>0, <2>1
    <3> QED BY <2>1, <3>1
  <2>3. Cardinality(({x} \cup {y}) \cup {z}) = 3
    <3>1. Cardinality(({x} \cup {y}) \cup {z}) = Cardinality({x} \cup {y}) + 1
      BY <2>0, <2>2
    <3> QED BY <2>2, <3>1
  <2>4. ({x} \cup {y}) \cup {z} = {x, y, z}
    OBVIOUS
  <2> QED BY <2>3, <2>4
<1> QED BY <1>3, <1>4, <1>5 DEF FewCopies

\* With two copies of a message at most, no more are dropped than kept.
LEMMA HalfIsKept ==
    ASSUME LogOK, FewCopies, NEW found, found \subseteq DOMAIN log, NEW kept \in KeptOf(found)
    PROVE  Cardinality(found) <= 2 * Cardinality(kept)
<1> DEFINE E == found \ kept
<1>1. /\ Len(log) \in Nat /\ found \subseteq 1 .. Len(log)
      /\ kept \in SUBSET found /\ E \in SUBSET found
  BY DEF LogOK, KeptOf
<1>2. /\ IsFiniteSet(found) /\ IsFiniteSet(kept) /\ IsFiniteSet(E)
      /\ Cardinality(found) \in Nat /\ Cardinality(kept) \in Nat /\ Cardinality(E) \in Nat
  BY <1>1, FinitePart
<1>3. \A x \in E : \E z \in kept : DedupKey(z) = DedupKey(x)
  BY DEF KeptOf
<1> DEFINE f == [x \in E |-> CHOOSE z \in kept : DedupKey(z) = DedupKey(x)]
<1>4. f \in [E -> kept] /\ \A x \in E : DedupKey(f[x]) = DedupKey(x)
  <2>1. ASSUME NEW x \in E
        PROVE  LET z == CHOOSE z \in kept : DedupKey(z) = DedupKey(x)
               IN  z \in kept /\ DedupKey(z) = DedupKey(x)
    BY <1>3
  <2>2. \A x \in E : f[x] \in kept /\ DedupKey(f[x]) = DedupKey(x)
    BY <2>1
  <2> QED BY <2>2
<1> HIDE DEF f
<1>5. ~ (Cardinality(kept) < Cardinality(E))
  <2> SUFFICES ASSUME Cardinality(kept) < Cardinality(E) PROVE FALSE
    OBVIOUS
  <2> HIDE DEF E
  <2>1. PICK x, y \in E : x # y /\ f[x] = f[y]
    BY <1>2, <1>4, FS_PigeonHole
  <2>2. /\ f[x] \in kept
        /\ DedupKey(f[x]) = DedupKey(x) /\ DedupKey(f[x]) = DedupKey(y)
    <3>1. DedupKey(f[x]) = DedupKey(x) /\ DedupKey(f[y]) = DedupKey(y)
      BY <1>4
    <3> QED BY <1>4, <2>1, <3>1
  <2>3. x \in DOMAIN log /\ y \in DOMAIN log /\ f[x] \in DOMAIN log
    BY <1>1, <2>1, <2>2 DEF E
  <2>4. x # f[x] /\ y # f[x]
    BY <2>1, <2>2 DEF E
  <2> QED BY <2>1, <2>2, <2>3, <2>4, NoThird
<1>6. Cardinality(E) = Cardinality(found) - Cardinality(kept)
  <2>1. found \cap kept = kept
    BY <1>1
  <2>2. Cardinality(found \ kept) = Cardinality(found) - Cardinality(found \cap kept)
    BY <1>2, FS_Difference
  <2> QED BY <2>1, <2>2
<1> HIDE DEF E
<1> QED BY <1>2, <1>5, <1>6

\* What a page has fetched, kept and shows.
LEMMA PageIs ==
    ASSUME LogOK, NEW u, NEW cursor, NEW page \in Pages(u, cursor)
    PROVE  \E found \in SUBSET Readable(u, cursor) : \E kept \in KeptOf(found) :
             /\ page \subseteq kept /\ kept \subseteq found
             /\ found \subseteq DOMAIN log
             /\ \A m \in page, x \in kept \ page : log[x].time <= log[m].time
             /\ \A m \in found, x \in Readable(u, cursor) \ found : log[x].time <= log[m].time
             /\ page # kept => Cardinality(page) = PageSize
             /\ Cardinality(page) \in 0 .. PageSize
             /\ found # Readable(u, cursor) => Cardinality(found) = PageSize * 2
<1>1. PICK found \in NewestOf(FetchSize, Readable(u, cursor)) :
        \E kept \in KeptOf(found) : page \in NewestOf(PageSize, kept)
  BY DEF Pages
<1>2. PICK kept \in KeptOf(found) : page \in NewestOf(PageSize, kept)
  BY <1>1
<1>3. Readable(u, cursor) \subseteq DOMAIN log /\ kept \subseteq found
  BY DEF Readable, KeptOf
<1>4. PageSize \in Nat /\ FetchSize \in Nat /\ FetchSize = PageSize * 2
  BY StoreAssumption DEF FetchSize
<1>5. /\ found \subseteq Readable(u, cursor)
      /\ \A m \in found, x \in Readable(u, cursor) \ found : log[x].time <= log[m].time
      /\ found # Readable(u, cursor) => Cardinality(found) = PageSize * 2
  <2>1. FetchSize \in Nat /\ Readable(u, cursor) \subseteq DOMAIN log
    BY <1>3, <1>4
  <2>2. /\ found \subseteq Readable(u, cursor)
        /\ \A m \in found, x \in Readable(u, cursor) \ found : log[x].time <= log[m].time
        /\ found # Readable(u, cursor) => Cardinality(found) = FetchSize
    BY <2>1, NewestIs
  <2> QED BY <1>4, <2>2
<1>6. kept \subseteq DOMAIN log
  BY <1>3, <1>5
<1>7. /\ page \subseteq kept
      /\ \A m \in page, x \in kept \ page : log[x].time <= log[m].time
      /\ page # kept => Cardinality(page) = PageSize
      /\ Cardinality(page) \in 0 .. PageSize
  BY <1>2, <1>4, <1>6, NewestIs
<1> QED BY <1>2, <1>3, <1>5, <1>7

\* A page that is not full shows all there is.
LEMMA LastPage ==
    ASSUME LogOK, FewCopies, NEW u, NEW cursor, NEW page \in Pages(u, cursor),
           Cardinality(page) # PageSize, NEW m \in Readable(u, cursor)
    PROVE  \E n \in page : DedupKey(n) = DedupKey(m)
<1>1. PICK found \in SUBSET Readable(u, cursor) : \E kept \in KeptOf(found) :
        /\ page = kept /\ found \subseteq DOMAIN log
        /\ Cardinality(kept) \in 0 .. PageSize
        /\ found # Readable(u, cursor) => Cardinality(found) = PageSize * 2
  BY PageIs
<1>2. /\ page \in KeptOf(found) /\ found \subseteq DOMAIN log
      /\ Cardinality(page) \in 0 .. PageSize
      /\ found # Readable(u, cursor) => Cardinality(found) = PageSize * 2
  BY <1>1
<1>3. Cardinality(found) <= 2 * Cardinality(page)
  BY <1>2, HalfIsKept
<1>4. found = Readable(u, cursor)
  BY <1>2, <1>3, StoreAssumption
<1> QED BY <1>2, <1>4 DEF KeptOf

\* A full page leaves what it does not show to an older cursor, but for the millisecond of its
\* oldest message.
LEMMA FullPage ==
    ASSUME LogOK, NEW u, NEW cursor \in Nat, NEW page \in Pages(u, cursor),
           Cardinality(page) = PageSize
    PROVE  /\ NextCursor(page) < cursor
           /\ \A m \in Readable(u, cursor) :
                \/ \E n \in page : DedupKey(n) = DedupKey(m)
                \/ log[m].time < NextCursor(page)
                \/ log[m].time = NextCursor(page)
<1> DEFINE next == NextCursor(page)
           times == {log[m].time : m \in page}
<1>1. PICK found \in SUBSET Readable(u, cursor) : \E kept \in KeptOf(found) :
        /\ page \subseteq kept /\ kept \subseteq found /\ found \subseteq DOMAIN log
        /\ \A m \in page, x \in kept \ page : log[x].time <= log[m].time
        /\ \A m \in found, x \in Readable(u, cursor) \ found : log[x].time <= log[m].time
  BY PageIs
<1>2. PICK kept \in KeptOf(found) :
        /\ page \subseteq kept /\ kept \subseteq found /\ found \subseteq DOMAIN log
        /\ \A m \in page, x \in kept \ page : log[x].time <= log[m].time
        /\ \A m \in found, x \in Readable(u, cursor) \ found : log[x].time <= log[m].time
  BY <1>1
<1>3. PICK oldest \in page : next = log[oldest].time
  <2>1. page # {}
    BY StoreAssumption, FS_EmptySet
  <2>2. times \subseteq Nat /\ times # {}
    BY <1>2, <2>1, TimeIsNat
  <2>3. \E t \in times : \A x \in times : t <= x
    BY <2>2, Least
  <2>4. \E t \in times : \A m \in page : t <= log[m].time
    BY <2>3
  <2>5. next = CHOOSE t \in times : \A m \in page : t <= log[m].time
    BY DEF NextCursor
  <2>6. next \in times
    BY <2>4, <2>5
  <2> QED BY <2>6
<1>4. oldest \in Readable(u, cursor) /\ next \in Nat /\ next < cursor
  BY <1>2, <1>3, TimeIsNat DEF Readable
<1>5. ASSUME NEW m \in Readable(u, cursor), ~ \E n \in page : DedupKey(n) = DedupKey(m)
      PROVE  log[m].time <= next
  <2>1. m \in DOMAIN log /\ log[m].time \in Nat
    BY TimeIsNat DEF Readable
  <2>2. CASE m \notin found
    BY <1>2, <1>3, <2>2
  <2>3. CASE m \in found
    <3>1. PICK n \in kept : DedupKey(n) = DedupKey(m) /\ log[n].time >= log[m].time
      BY <2>3 DEF KeptOf
    <3>2. n \notin page /\ n \in DOMAIN log
      BY <1>2, <1>5, <3>1
    <3>3. log[n].time <= next /\ log[n].time \in Nat
      BY <1>2, <1>3, <3>1, <3>2, TimeIsNat
    <3> QED BY <1>4, <2>1, <3>1, <3>3
  <2> QED BY <2>2, <2>3
<1> HIDE DEF next
<1>6. \A m \in Readable(u, cursor) : log[m].time \in Nat
  BY TimeIsNat DEF Readable
<1> QED BY <1>4, <1>5, <1>6 DEF next

\* A user who scrolls up from any cursor is shown every message not hidden from the user, as long
\* as no message was stored more than twice, in every state that the handlers leave and however
\* the sort orders what is equal: what the page does not show it leaves to an older cursor, but
\* for the millisecond it ends in, and a page that is not full is the last
\* (getMessagesByConversation, fetchConversationMessages).
THEOREM ScrollingSkipsOnlyTies == Spec => []OnlyTiesAreSkipped
<1>1. IInv => OnlyTiesAreSkipped
  <2> SUFFICES ASSUME LogOK, FewCopies, NEW u \in Users, NEW cursor \in 1 .. MaxTime + 1,
                      NEW page \in Pages(u, cursor)
               PROVE  /\ NextCursor(page) < cursor
                      /\ \A m \in Readable(u, cursor) :
                           \/ \E n \in page : DedupKey(n) = DedupKey(m)
                           \/ log[m].time < NextCursor(page)
                           \/ log[m].time = NextCursor(page)
    BY DEF IInv, OnlyTiesAreSkipped, FewCopies
  <2>1. cursor \in Nat /\ 0 < cursor
    BY StoreAssumption
  <2>2. CASE Cardinality(page) = PageSize
    BY <2>1, <2>2, FullPage
  <2>3. CASE Cardinality(page) # PageSize
    <3>1. NextCursor(page) = 0
      BY <2>3 DEF NextCursor
    <3> QED BY <2>1, <2>3, <3>1, LastPage
  <2> QED BY <2>2, <2>3
<1> QED BY Invariance, <1>1, PTL

=============================================================================
