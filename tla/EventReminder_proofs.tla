------------------------- MODULE EventReminder_proofs -------------------------
(***************************************************************************)
(* Proofs about EventReminder, for any events, requests, batch size and    *)
(* bounds.                                                                 *)
(*                                                                         *)
(* RemindedOnce speaks of what was sent only.  That a scan does not send   *)
(* again what was sent needs the way of an event through a scan: before    *)
(* its turn nobody has been reminded of it, at its turn those who are left *)
(* have not, and once it is let go it is marked (Tended); and that, of an  *)
(* event nothing troubles, only one scan is in charge (Alone).  TypeOK     *)
(* needs to know that the copies in flight are copies of rows (Typed).     *)
(***************************************************************************)
EXTENDS EventReminder, TLAPS

Items == [id : Events, copy : EventRows]

ScanSteps == {"idle", "finding", "resolving", "notifying", "saving"}

ScanRecords ==
    [step : ScanSteps, todo : SUBSET Items, at : Items \cup {NoItem}, rest : SUBSET Recipients]

Requests == [op : {"update", "remove", "respond"}, id : Events, copy : EventRows] \cup {Idle}

\* The types of all variables, those of the copies in flight included.
Typed ==
    /\ clock \in 0 .. MaxTime /\ starts \in 0 .. MaxStarts /\ ids \in Nat
    /\ event \in [Events -> EventRows]
    /\ scan \in [Scans -> ScanRecords]
    /\ handler \in [Handlers -> Requests]
    /\ reminded \in [Events -> [Recipients -> Nat]]
    /\ since \in [Events -> 0 .. MaxTime]
    /\ troubled \subseteq Events

\* An event that is gone has left nothing, and nobody holds a copy of one.
NoGhosts ==
    /\ \A e \in Events : event[e].state = "none" => event[e] = NoEvent
    /\ \A s \in Scans : /\ \A t \in scan[s].todo : t.copy.state = "open"
                        /\ scan[s].at # NoItem => scan[s].at.copy.state = "open"
    /\ \A h \in Handlers : handler[h] # Idle => handler[h].copy.state = "open"

\* The events a scan has still ahead.
Ahead(r) == {t.id : t \in r.todo}

\* A scan goes through what it found one by one: each event once, and the one it is at is
\* not ahead of it any more.
InTurn(r) ==
    /\ r.step \in {"idle", "finding"} => r = [IdleScan EXCEPT !.step = r.step]
    /\ r.step = "resolving" => r.at = NoItem
    /\ r.step \in {"notifying", "saving"} => r.at # NoItem
    /\ \A t, u \in r.todo : t.id = u.id => t = u
    /\ r.at.id \notin Ahead(r)

ScansOK ==
    /\ \A s \in Scans : InTurn(scan[s])
    /\ \A s \in Scans : s > clock => scan[s] = IdleScan

HeldBy(e, r) == e \in Ahead(r) \cup ({r.at.id} \ {None})

\* Nobody has been reminded of e yet.
Unheard(e) == \A r \in Recipients : reminded[e][r] = 0

\* At most one scan is in charge of e.
Alone(e) == \A s, t \in Scans : HeldBy(e, scan[s]) /\ HeldBy(e, scan[t]) => s = t

\* What has been said of e, by how far the scan in charge of it has come.
Tended(e) ==
    /\ \A r \in Recipients : reminded[e][r] <= 1
    /\ \A s \in Scans : e \in Ahead(scan[s]) => Unheard(e)
    /\ \A s \in Scans : scan[s].step = "notifying" /\ scan[s].at.id = e =>
                          \A r \in scan[s].rest : reminded[e][r] = 0
    /\ ~ event[e].sent /\ (\A s \in Scans : ~ HeldBy(e, scan[s])) => Unheard(e)

RemindersOK == \A e \in Events \ troubled : Alone(e) /\ Tended(e)

IInv == Typed /\ NoGhosts /\ ScansOK /\ RemindersOK

-----------------------------------------------------------------------------
(* Types. *)

LEMMA NoEventIsRow == ids \in Nat => NoEvent \in EventRows
  BY DEF NoEvent, EventRows

\* Participant rows are only ever added.
LEMMA RowsGrow ==
    ASSUME ids \in Nat, ids' \in {ids, ids + 1}
    PROVE  /\ EventRows \subseteq EventRows' /\ Items \subseteq Items'
           /\ ScanRecords \subseteq ScanRecords' /\ Requests \subseteq Requests'
<1>1. 0 .. ids \subseteq 0 .. ids'
  OBVIOUS
<1>2. EventRows \subseteq EventRows'
  <2> DEFINE Rows(n)   == [id : 0 .. n, status : {"pending", "accepted", "declined"}]
             Values(R) == [state : {"none", "open"}, start : Starts \cup {0},
                           notice : Notices \cup {0}, sent : BOOLEAN, rows : SUBSET R]
  <2>1. Rows(ids) \subseteq Rows(ids')
    BY <1>1
  <2>2. EventRows = Values(Rows(ids)) /\ EventRows' = Values(Rows(ids'))
    BY DEF EventRows
  <2> HIDE DEF Rows
  <2>3. Values(Rows(ids)) \subseteq Values(Rows(ids'))
    BY <2>1
  <2> QED BY <2>2, <2>3
<1>3. Items \subseteq Items'
  BY <1>2 DEF Items
<1>4. ScanRecords \subseteq ScanRecords'
  <2> DEFINE Records(I) == [step : ScanSteps, todo : SUBSET I, at : I \cup {NoItem},
                            rest : SUBSET Recipients]
  <2>1. ScanRecords = Records(Items) /\ ScanRecords' = Records(Items')
    BY DEF ScanRecords
  <2> HIDE DEF Items
  <2>2. Records(Items) \subseteq Records(Items')
    BY <1>3
  <2> QED BY <2>1, <2>2
<1>5. Requests \subseteq Requests'
  BY <1>2 DEF Requests
<1> QED BY <1>2, <1>3, <1>4, <1>5

LEMMA ScanRecordOf ==
    ASSUME NEW step \in ScanSteps, NEW todo \in SUBSET Items, NEW at \in Items \cup {NoItem},
           NEW rest \in SUBSET Recipients
    PROVE  [step |-> step, todo |-> todo, at |-> at, rest |-> rest] \in ScanRecords
<1> HIDE DEF Items, NoItem, Recipients
<1> QED BY DEF ScanRecords

\* An idle scan, and one that has just begun, hold nothing.
LEMMA NothingHeld ==
    ASSUME NEW step \in ScanSteps, NEW r, r = [IdleScan EXCEPT !.step = step]
    PROVE  /\ r \in ScanRecords /\ r.step = step /\ r.todo = {} /\ r.at = NoItem /\ r.rest = {}
           /\ r.at.id = None
           /\ \A e \in Events : ~ HeldBy(e, r)
<1>1. r = [step |-> step, todo |-> {}, at |-> NoItem, rest |-> {}]
  BY DEF IdleScan
<1>2. r.at.id = None
  BY <1>1 DEF NoItem
<1>3. r \in ScanRecords
  <2>1. {} \in SUBSET Items /\ NoItem \in Items \cup {NoItem} /\ {} \in SUBSET Recipients
    OBVIOUS
  <2>2. [step |-> step, todo |-> {}, at |-> NoItem, rest |-> {}] \in ScanRecords
    BY <2>1, ScanRecordOf
  <2> QED BY <1>1, <2>2
<1> QED BY <1>1, <1>2, <1>3 DEF HeldBy, Ahead

LEMMA IdleScanIs == IdleScan.step = "idle" /\ IdleScan = [IdleScan EXCEPT !.step = "idle"]
  BY DEF IdleScan

\* What a scan holds are events.
LEMMA HeldAre ==
    ASSUME NEW s \in Scans
    PROVE  \A e \in Events : e \in Held(s) <=> HeldBy(e, scan[s])
  BY DEF Held, HeldBy, Ahead

LEMMA ScanReplaced ==
    ASSUME Typed, NEW s \in Scans, NEW r \in ScanRecords, scan' = [scan EXCEPT ![s] = r]
    PROVE  /\ scan' \in [Scans -> ScanRecords]
           /\ scan'[s] = r /\ \A t \in Scans \ {s} : scan'[t] = scan[t]
  BY DEF Typed

-----------------------------------------------------------------------------
(* How the reminders stand. *)

LEMMA SameReminders ==
    ASSUME RemindersOK, UNCHANGED <<scan, reminded, troubled>>,
           \A e \in Events : event'[e].sent = event[e].sent
    PROVE  RemindersOK'
<1> SUFFICES ASSUME NEW e \in Events \ troubled PROVE Alone(e)' /\ Tended(e)'
  BY DEF RemindersOK
<1>1. Alone(e) /\ Tended(e)
  BY DEF RemindersOK
<1> QED BY <1>1 DEF Alone, Tended, Unheard, HeldBy, Ahead

\* The owner saves an event: it is new to everybody, unless a scan has it in hand.
LEMMA AnewReminders ==
    ASSUME Typed, RemindersOK, NEW e \in Events, Anew(e), UNCHANGED scan,
           \A f \in Events \ {e} : event'[f] = event[f]
    PROVE  RemindersOK'
<1> SUFFICES ASSUME NEW f \in Events \ troubled' PROVE Alone(f)' /\ Tended(f)'
  BY DEF RemindersOK
<1>1. reminded' = [reminded EXCEPT ![e] = [r \in Recipients |-> 0]]
  BY DEF Anew
<1>2. CASE f # e
  <2>1. f \notin troubled
    BY <1>2 DEF Anew
  <2>2. reminded'[f] = reminded[f] /\ event'[f] = event[f]
    BY <1>1, <1>2 DEF Typed
  <2>3. Alone(f) /\ Tended(f)
    BY <2>1 DEF RemindersOK
  <2> QED BY <2>2, <2>3 DEF Alone, Tended, Unheard, HeldBy, Ahead
<1>3. CASE f = e
  <2>1. ~ Scanned(e)
    BY <1>3 DEF Anew
  <2>2. \A s \in Scans : ~ HeldBy(e, scan[s])
    BY <2>1, HeldAre DEF Scanned
  <2>3. \A r \in Recipients : reminded'[e][r] = 0
    BY <1>1 DEF Typed
  <2>4. \A s \in Scans : e \notin Ahead(scan[s]) /\ scan[s].at.id # e
    BY <2>2, ReminderAssumption DEF HeldBy
  <2>5. Unheard(e)'
    BY <2>3 DEF Unheard
  <2>6. Alone(e)'
    BY <2>2 DEF Alone, HeldBy, Ahead
  <2>7. Tended(e)'
    <3>1. \A r \in Recipients : reminded'[e][r] <= 1
      BY <2>3
    <3>2. \A s \in Scans : e \notin Ahead(scan[s])' /\ scan'[s].at.id # e
      BY <2>4 DEF Ahead
    <3> QED BY <2>5, <3>1, <3>2 DEF Tended
  <2> QED BY <1>3, <2>6, <2>7
<1> QED BY <1>2, <1>3

\* One scan moves on: what it takes nobody else has, what it has ahead nobody has heard of, and
\* what it lets go is marked or was not begun.
LEMMA TurnTaken ==
    ASSUME NEW e \in Events, Alone(e), Tended(e), NEW s \in Scans, NEW r,
           scan'[s] = r, \A t \in Scans \ {s} : scan'[t] = scan[t],
           HeldBy(e, r) => \A t \in Scans \ {s} : ~ HeldBy(e, scan[t]),
           \A x \in Recipients : reminded'[e][x] <= 1,
           reminded'[e] = reminded[e] \/ HeldBy(e, scan[s]),
           e \in Ahead(r) => Unheard(e)',
           r.step = "notifying" /\ r.at.id = e => \A x \in r.rest : reminded'[e][x] = 0,
           /\ ~ event'[e].sent /\ ~ HeldBy(e, r)
           /\ \A t \in Scans \ {s} : ~ HeldBy(e, scan[t])
           => Unheard(e)',
           e # None
    PROVE  Alone(e)' /\ Tended(e)'
<1>1. \A t \in Scans : HeldBy(e, scan[t])' <=> HeldBy(e, scan'[t])
  BY DEF HeldBy, Ahead
<1>2. Alone(e)'
  BY <1>1 DEF Alone
<1>3. \A t \in Scans : Ahead(scan[t])' = Ahead(scan'[t])
  BY DEF Ahead
<1>4. \A t \in Scans \ {s} : HeldBy(e, scan[t]) => reminded'[e] = reminded[e]
  BY DEF Alone
<1>5. \A t \in Scans \ {s} : e \in Ahead(scan[t]) => Unheard(e)'
  <2> SUFFICES ASSUME NEW t \in Scans \ {s}, e \in Ahead(scan[t]) PROVE Unheard(e)'
    OBVIOUS
  <2>1. HeldBy(e, scan[t]) /\ Unheard(e)
    BY DEF HeldBy, Tended
  <2> QED BY <1>4, <2>1 DEF Unheard
<1>6. \A t \in Scans : e \in Ahead(scan'[t]) => Unheard(e)'
  BY <1>5
<1>7. \A t \in Scans : scan'[t].step = "notifying" /\ scan'[t].at.id = e =>
                          \A x \in scan'[t].rest : reminded'[e][x] = 0
  <2> SUFFICES ASSUME NEW t \in Scans \ {s}, scan[t].step = "notifying", scan[t].at.id = e
               PROVE  \A x \in scan[t].rest : reminded'[e][x] = 0
    OBVIOUS
  <2>1. HeldBy(e, scan[t])
    BY DEF HeldBy
  <2> QED BY <1>4, <2>1 DEF Tended
<1>8. ~ event'[e].sent /\ (\A t \in Scans : ~ HeldBy(e, scan'[t])) => Unheard(e)'
  OBVIOUS
<1> HIDE DEF Unheard
<1>9. Tended(e)'
  BY <1>1, <1>3, <1>6, <1>7, <1>8 DEF Tended
<1> QED BY <1>2, <1>9

-----------------------------------------------------------------------------
(* The steps of a scan. *)

LEMMA SameRows ==
    ASSUME ids' = ids
    PROVE  /\ EventRows' = EventRows /\ Items' = Items
           /\ ScanRecords' = ScanRecords /\ Requests' = Requests
<1>1. EventRows' = EventRows
  BY DEF EventRows
<1>2. Items' = Items
  BY <1>1 DEF Items
<1> QED BY <1>1, <1>2 DEF ScanRecords, Requests

\* What a step of a scan leaves alone keeps its type.
LEMMA ScanTypes ==
    ASSUME Typed, NEW s \in Scans, NEW r \in ScanRecords, scan' = [scan EXCEPT ![s] = r],
           clock' \in 0 .. MaxTime, event' \in [Events -> EventRows],
           UNCHANGED <<handler, starts, ids, since>>,
           reminded' \in [Events -> [Recipients -> Nat]], troubled' \subseteq Events
    PROVE  Typed'
<1>1. scan' \in [Scans -> ScanRecords]
  BY ScanReplaced
<1> QED BY <1>1, SameRows DEF Typed

LEMMA ScanGhosts ==
    ASSUME Typed, NoGhosts, NEW s \in Scans, NEW r \in ScanRecords, scan' = [scan EXCEPT ![s] = r],
           UNCHANGED handler,
           \A e \in Events : event'[e] = event[e] \/ event'[e].state = "open",
           \A t \in r.todo : t.copy.state = "open",
           r.at # NoItem => r.at.copy.state = "open"
    PROVE  NoGhosts'
<1>1. scan'[s] = r /\ \A t \in Scans \ {s} : scan'[t] = scan[t]
  BY ScanReplaced
<1>2. \A e \in Events : event'[e].state = "none" => event'[e] = NoEvent
  BY DEF NoGhosts
<1> QED BY <1>1, <1>2 DEF NoGhosts

LEMMA ScansGoOn ==
    ASSUME Typed, ScansOK, NEW s \in Scans, NEW r \in ScanRecords, scan' = [scan EXCEPT ![s] = r],
           InTurn(r), s <= clock', clock' \in {clock, clock + 1}
    PROVE  ScansOK'
<1>1. scan'[s] = r /\ \A t \in Scans \ {s} : scan'[t] = scan[t]
  BY ScanReplaced
<1>2. \A t \in Scans : InTurn(scan'[t])
  BY <1>1 DEF ScansOK
<1>3. \A t \in Scans : t > clock' => scan'[t] = IdleScan
  <2>1. clock \in Nat /\ Scans \subseteq Nat
    BY ReminderAssumption DEF Typed, Scans
  <2> QED BY <1>1, <2>1 DEF ScansOK
<1>4. \A t \in Scans : InTurn(scan[t])' <=> InTurn(scan'[t])
  BY DEF InTurn, Ahead
<1> QED BY <1>2, <1>3, <1>4 DEF ScansOK

\* A scan at work has begun.
LEMMA HasBegun ==
    ASSUME Typed, ScansOK, NEW s \in Scans, scan[s].step # "idle"
    PROVE  s <= clock
<1>1. s \in Nat /\ clock \in Nat
  BY ReminderAssumption DEF Typed, Scans
<1>2. scan[s] # IdleScan
  BY DEF IdleScan
<1> QED BY <1>1, <1>2 DEF ScansOK

\* What is said of a scan that is idle or has just begun.
LEMMA BlankIsInTurn ==
    ASSUME NEW step \in {"idle", "finding"}, NEW r, r = [IdleScan EXCEPT !.step = step]
    PROVE  InTurn(r)
<1>1. /\ r.step = step /\ r.todo = {} /\ r.at.id = None
      /\ r = [IdleScan EXCEPT !.step = r.step]
  BY NothingHeld DEF ScanSteps
<1> QED BY <1>1 DEF InTurn, Ahead

LEMMA IdleIsInTurn == InTurn(IdleScan) /\ IdleScan \in ScanRecords
  BY BlankIsInTurn, IdleScanIs, NothingHeld DEF ScanSteps

LEMMA TickKeeps == ASSUME IInv, Tick PROVE IInv'
<1> DEFINE s == clock + 1
<1>1. s \in Scans /\ clock' = s /\ scan[s] = IdleScan /\ s \in 0 .. MaxTime
  BY ReminderAssumption DEF IInv, Typed, ScansOK, Scans, Tick
<1>2. PICK r : r = [IdleScan EXCEPT !.step = "finding"]
  OBVIOUS
<1>3. /\ r \in ScanRecords /\ r.step = "finding" /\ r.todo = {} /\ r.at = NoItem /\ r.at.id = None
      /\ \A e \in Events : ~ HeldBy(e, r)
  BY <1>2, NothingHeld DEF ScanSteps
<1>4. scan' = [scan EXCEPT ![s] = r]
  BY <1>1, <1>2 DEF Tick
<1>5. UNCHANGED <<event, handler, starts, ids, reminded, since, troubled>>
  BY DEF Tick
<1> HIDE DEF s
<1>6. Typed'
  BY <1>1, <1>3, <1>4, <1>5, ScanTypes DEF IInv, Typed
<1>7. NoGhosts'
  BY <1>1, <1>3, <1>4, <1>5, ScanGhosts DEF IInv
<1>8. ScansOK'
  <2>1. InTurn(r)
    BY <1>2, BlankIsInTurn
  <2>2. s <= clock' /\ clock' \in {clock, clock + 1}
    BY <1>1, ReminderAssumption DEF Scans, s
  <2> QED BY <1>1, <1>3, <1>4, <2>1, <2>2, ScansGoOn DEF IInv
<1>9. RemindersOK'
  <2> SUFFICES ASSUME NEW e \in Events \ troubled PROVE Alone(e)' /\ Tended(e)'
    BY <1>5 DEF RemindersOK
  <2>1. Alone(e) /\ Tended(e)
    BY DEF IInv, RemindersOK
  <2>2. scan'[s] = r /\ \A t \in Scans \ {s} : scan'[t] = scan[t]
    BY <1>1, <1>3, <1>4, ScanReplaced DEF IInv
  <2>3. ~ HeldBy(e, scan[s]) /\ ~ HeldBy(e, r)
    BY <1>1, <1>3, IdleScanIs, NothingHeld DEF ScanSteps
  <2>4. /\ ~ event'[e].sent /\ ~ HeldBy(e, r) /\ \A t \in Scans \ {s} : ~ HeldBy(e, scan[t])
        => Unheard(e)'
    BY <1>5, <2>1, <2>3 DEF Tended, Unheard
  <2>5. (\A x \in Recipients : reminded'[e][x] <= 1) /\ reminded'[e] = reminded[e]
    BY <1>5, <2>1 DEF Tended
  <2>6. e \notin Ahead(r) /\ r.step # "notifying" /\ e # None
    BY <1>3, ReminderAssumption DEF Ahead
  <2> QED BY <1>1, <2>1, <2>2, <2>3, <2>4, <2>5, <2>6, TurnTaken
<1> QED BY <1>6, <1>7, <1>8, <1>9 DEF IInv

LEMMA ScanIs ==
    ASSUME Typed, NEW s \in Scans
    PROVE  /\ scan[s] \in ScanRecords
           /\ scan[s].step \in ScanSteps /\ scan[s].todo \in SUBSET Items
           /\ scan[s].at \in Items \cup {NoItem} /\ scan[s].rest \in SUBSET Recipients
           /\ scan[s] = [step |-> scan[s].step, todo |-> scan[s].todo,
                         at |-> scan[s].at, rest |-> scan[s].rest]
<1>1. scan[s] \in ScanRecords
  BY DEF Typed
<1> HIDE DEF Items, NoItem, Recipients
<1>2. \A q \in ScanRecords :
        /\ q.step \in ScanSteps /\ q.todo \in SUBSET Items
        /\ q.at \in Items \cup {NoItem} /\ q.rest \in SUBSET Recipients
        /\ q = [step |-> q.step, todo |-> q.todo, at |-> q.at, rest |-> q.rest]
  BY DEF ScanRecords
<1> QED BY <1>1, <1>2

\* What a scan takes nobody has been reminded of, unless another scan has it as well.
LEMMA FindKeeps ==
    ASSUME IInv, NEW s \in Scans, NEW batch \in SUBSET Events, Find(s, batch)
    PROVE  IInv'
<1> DEFINE due == {e \in batch : Due(event[e], s)}
           found == {[id |-> e, copy |-> event[e]] : e \in due}
           twice == {e \in due : \E t \in Scans : e \in Held(t)}
<1>1. /\ scan[s] = [IdleScan EXCEPT !.step = "finding"] /\ scan[s].step = "finding"
      /\ \A e \in Events : ~ HeldBy(e, scan[s])
  <2>1. scan[s].step = "finding"
    BY DEF Find
  <2>2. scan[s] = [IdleScan EXCEPT !.step = "finding"]
    BY <2>1 DEF IInv, ScansOK, InTurn
  <2> QED BY <2>1, <2>2, NothingHeld DEF ScanSteps
<1>2. PICK r : r = IF due = {} THEN IdleScan
                   ELSE [scan[s] EXCEPT !.step = "resolving", !.todo = found]
  OBVIOUS
<1>3. scan' = [scan EXCEPT ![s] = r] /\ troubled' = troubled \cup (Unsent \ batch) \cup twice
  BY <1>2 DEF Find
<1>4. UNCHANGED <<clock, event, handler, starts, ids, reminded, since>>
  BY DEF Find
<1>5. due \subseteq Unsent /\ Unsent \subseteq Events
  BY DEF Find, Unsent
<1>6. found \in SUBSET Items
  <2> SUFFICES ASSUME NEW e \in due PROVE [id |-> e, copy |-> event[e]] \in Items
    OBVIOUS
  <2>1. e \in Events /\ event[e] \in EventRows
    BY <1>5 DEF IInv, Typed
  <2> HIDE DEF due
  <2> QED BY <2>1 DEF Items
<1>7. /\ r \in ScanRecords /\ InTurn(r) /\ Ahead(r) = due /\ r.at = NoItem /\ r.step # "notifying"
      /\ \A t \in r.todo : t.copy.state = "open"
  <2>1. CASE due = {}
    <3>1. r = IdleScan
      BY <1>2, <2>1
    <3>2. r.todo = {} /\ r.at = NoItem /\ r.step = "idle"
      BY <3>1 DEF IdleScan
    <3>3. Ahead(r) = due
      BY <2>1, <3>2 DEF Ahead
    <3> QED BY <3>1, <3>2, <3>3, IdleIsInTurn
  <2>2. CASE due # {}
    <3>1. r = [step |-> "resolving", todo |-> found, at |-> NoItem, rest |-> {}]
      BY <1>1, <1>2, <2>2 DEF IdleScan
    <3> HIDE DEF found
    <3>2. r \in ScanRecords
      BY <1>6, <3>1, ScanRecordOf DEF ScanSteps
    <3>3. r.todo = found /\ r.at = NoItem /\ r.step = "resolving"
      BY <3>1
    <3>4. \A t \in found : t.id \in due /\ t.copy = event[t.id]
      BY DEF found
    <3>5. \A e \in due : [id |-> e, copy |-> event[e]] \in found
      BY DEF found
    <3>6. Ahead(r) = due
      <4>1. Ahead(r) \subseteq due
        BY <3>3, <3>4 DEF Ahead
      <4>2. ASSUME NEW e \in due PROVE e \in Ahead(r)
        <5>1. [id |-> e, copy |-> event[e]].id = e
          OBVIOUS
        <5> QED BY <3>3, <3>5, <5>1 DEF Ahead
      <4> QED BY <4>1, <4>2
    <3>7. \A t, u \in found : t.id = u.id => t = u
      <4>1. \A t \in found : t = [id |-> t.id, copy |-> event[t.id]]
        BY DEF found
      <4> QED BY <4>1
    <3>8. NoItem.id \notin due
      BY <1>5, ReminderAssumption DEF NoItem
    <3>9. InTurn(r)
      BY <3>3, <3>6, <3>7, <3>8 DEF InTurn
    <3>10. \A t \in found : t.copy.state = "open"
      BY <1>5, <3>4 DEF Unsent
    <3> QED BY <3>2, <3>3, <3>6, <3>9, <3>10
  <2> QED BY <2>1, <2>2
<1>8. troubled' \subseteq Events
  BY <1>3, <1>5 DEF IInv, Typed
<1>9. Typed'
  BY <1>3, <1>4, <1>7, <1>8, ScanTypes DEF IInv, Typed
<1>10. NoGhosts'
  BY <1>3, <1>4, <1>7, ScanGhosts DEF IInv
<1>11. ScansOK'
  <2>1. s <= clock
    BY <1>1, HasBegun DEF IInv
  <2> QED BY <1>3, <1>4, <1>7, <2>1, ScansGoOn DEF IInv
<1>12. RemindersOK'
  <2> SUFFICES ASSUME NEW e \in Events \ troubled' PROVE Alone(e)' /\ Tended(e)'
    BY DEF RemindersOK
  <2>1. e \notin troubled /\ e \notin twice
    BY <1>3
  <2>2. Alone(e) /\ Tended(e)
    BY <2>1 DEF IInv, RemindersOK
  <2>3. scan'[s] = r /\ \A t \in Scans \ {s} : scan'[t] = scan[t]
    BY <1>3, <1>7, ScanReplaced DEF IInv
  <2>4. e # None /\ r.at.id = None
    BY <1>7, ReminderAssumption DEF NoItem
  <2>5. HeldBy(e, r) <=> e \in due
    BY <1>7, <2>4 DEF HeldBy
  <2>6. e \in due => \A t \in Scans : ~ HeldBy(e, scan[t])
    BY <2>1, HeldAre
  <2>7. ~ event[e].sent /\ (\A t \in Scans : ~ HeldBy(e, scan[t])) => Unheard(e)'
    BY <1>4, <2>2 DEF Tended, Unheard
  <2>8. e \in due => Unheard(e)'
    BY <1>5, <2>6, <2>7 DEF Unsent
  <2>9. /\ ~ event'[e].sent /\ ~ HeldBy(e, r) /\ \A t \in Scans \ {s} : ~ HeldBy(e, scan[t])
        => Unheard(e)'
    BY <1>1, <1>4, <2>7
  <2>10. (\A x \in Recipients : reminded'[e][x] <= 1) /\ reminded'[e] = reminded[e]
    BY <1>4, <2>2 DEF Tended
  <2> HIDE DEF due, twice
  <2> QED BY <1>7, <2>2, <2>3, <2>4, <2>5, <2>6, <2>8, <2>9, <2>10, TurnTaken
<1> QED BY <1>9, <1>10, <1>11, <1>12 DEF IInv

\* Taking the next event of a scan: it is not ahead any more.
LEMMA ResolveKeeps ==
    ASSUME IInv, NEW s \in Scans, NEW t \in scan[s].todo, Resolve(s, t)
    PROVE  IInv'
<1> DEFINE q == scan[s]
<1>1. q.step = "resolving" /\ InTurn(q) /\ q.at = NoItem /\ q.at.id = None
  <2>1. q.step = "resolving" /\ InTurn(q)
    BY DEF IInv, ScansOK, Resolve
  <2>2. q.at = NoItem
    BY <2>1 DEF InTurn
  <2> QED BY <2>1, <2>2 DEF NoItem
<1>2. /\ q \in ScanRecords /\ q.todo \in SUBSET Items /\ t \in Items
      /\ q = [step |-> q.step, todo |-> q.todo, at |-> q.at, rest |-> q.rest]
  BY ScanIs DEF IInv
<1>3. t.id \in Events
  BY <1>2 DEF Items
<1>4. PICK rest \in SUBSET Recipients :
        scan' = [scan EXCEPT ![s] = [@ EXCEPT !.step = "notifying", !.todo = q.todo \ {t},
                                              !.at = t, !.rest = rest]]
  BY DEF Resolve, Recipients
<1>5. PICK r : r = [q EXCEPT !.step = "notifying", !.todo = q.todo \ {t}, !.at = t,
                             !.rest = rest]
  OBVIOUS
<1>6. scan' = [scan EXCEPT ![s] = r]
  BY <1>4, <1>5
<1>7. UNCHANGED <<clock, event, handler, starts, ids, reminded, since, troubled>>
  BY DEF Resolve
<1> HIDE DEF q
<1>8. /\ r \in ScanRecords
      /\ r.step = "notifying" /\ r.todo = q.todo \ {t} /\ r.at = t /\ r.rest = rest
  <2>1. "notifying" \in ScanSteps /\ q.todo \ {t} \in SUBSET Items /\ t \in Items \cup {NoItem}
    BY <1>2 DEF ScanSteps
  <2>2. q \in [step : ScanSteps, todo : SUBSET Items, at : Items \cup {NoItem},
               rest : SUBSET Recipients]
    BY <1>2 DEF ScanRecords
  <2> HIDE DEF NoItem, Recipients
  <2> QED BY <1>5, <2>1, <2>2 DEF ScanRecords
<1>9. r.at.id = t.id
  BY <1>8
<1>10. Ahead(q) = Ahead(r) \cup {t.id} /\ t.id \notin Ahead(r)
  BY <1>1, <1>8 DEF Ahead, InTurn, q
<1>11. InTurn(r)
  <2>1. t # NoItem
    BY <1>3, ReminderAssumption DEF NoItem
  <2>2. \A u, v \in r.todo : u.id = v.id => u = v
    BY <1>1, <1>8 DEF InTurn
  <2> QED BY <1>8, <1>10, <2>1, <2>2 DEF InTurn
<1>12. \A u \in q.todo : u.copy.state = "open"
  BY DEF IInv, NoGhosts, q
<1>13. Typed'
  BY <1>6, <1>7, <1>8, ScanTypes DEF IInv, Typed
<1>14. NoGhosts'
  BY <1>6, <1>7, <1>8, <1>12, ScanGhosts DEF IInv, q
<1>15. ScansOK'
  <2>1. s <= clock
    BY <1>1, HasBegun DEF IInv, q
  <2> QED BY <1>6, <1>7, <1>8, <1>11, <2>1, ScansGoOn DEF IInv
<1>16. RemindersOK'
  <2> SUFFICES ASSUME NEW e \in Events \ troubled PROVE Alone(e)' /\ Tended(e)'
    BY <1>7 DEF RemindersOK
  <2>1. Alone(e) /\ Tended(e)
    BY DEF IInv, RemindersOK
  <2>2. scan'[s] = r /\ \A u \in Scans \ {s} : scan'[u] = scan[u]
    BY <1>6, <1>8, ScanReplaced DEF IInv
  <2>3. e # None /\ t.id # None
    BY <1>3, ReminderAssumption
  <2>4. HeldBy(e, r) <=> HeldBy(e, scan[s])
    BY <1>1, <1>9, <1>10, <2>3 DEF HeldBy, q
  <2>5. HeldBy(e, r) => \A u \in Scans \ {s} : ~ HeldBy(e, scan[u])
    BY <2>1, <2>4 DEF Alone
  <2>6. e \in Ahead(q) => Unheard(e)'
    BY <1>7, <2>1 DEF Tended, Unheard, q
  <2>7. /\ e \in Ahead(r) => Unheard(e)'
        /\ r.step = "notifying" /\ r.at.id = e => \A x \in r.rest : reminded'[e][x] = 0
    <3>1. r.rest \in SUBSET Recipients
      BY <1>8
    <3> QED BY <1>9, <1>10, <2>6, <3>1 DEF Unheard
  <2>8. /\ ~ event'[e].sent /\ ~ HeldBy(e, r) /\ \A u \in Scans \ {s} : ~ HeldBy(e, scan[u])
        => Unheard(e)'
    BY <1>7, <2>1, <2>4 DEF Tended, Unheard
  <2>9. (\A x \in Recipients : reminded'[e][x] <= 1) /\ reminded'[e] = reminded[e]
    BY <1>7, <2>1 DEF Tended
  <2> QED BY <2>1, <2>2, <2>3, <2>5, <2>7, <2>8, <2>9, TurnTaken
<1> QED BY <1>13, <1>14, <1>15, <1>16 DEF IInv

\* What is at its turn is an event with an open copy, in the hands of its scan.
LEMMA AtTurn ==
    ASSUME IInv, NEW s \in Scans, scan[s].step \in {"notifying", "saving"}
    PROVE  /\ scan[s].at \in Items /\ scan[s].at # NoItem
           /\ scan[s].at.id \in Events /\ scan[s].at.id # None
           /\ scan[s].at.copy \in EventRows /\ scan[s].at.copy.state = "open"
           /\ scan[s].at.id \notin Ahead(scan[s]) /\ HeldBy(scan[s].at.id, scan[s])
           /\ s <= clock
<1>1. InTurn(scan[s]) /\ Typed
  BY DEF IInv, ScansOK
<1>2. scan[s].at # NoItem /\ scan[s].at \in Items
  BY <1>1, ScanIs DEF InTurn
<1>3. scan[s].at.id \in Events /\ scan[s].at.copy \in EventRows
  BY <1>2 DEF Items
<1>4. scan[s].at.id \notin Ahead(scan[s]) /\ scan[s].at.copy.state = "open"
  BY <1>1, <1>2 DEF IInv, NoGhosts, InTurn
<1>5. HeldBy(scan[s].at.id, scan[s])
  BY <1>3, ReminderAssumption DEF HeldBy
<1>6. s <= clock
  BY HasBegun DEF IInv
<1> QED BY <1>2, <1>3, <1>4, <1>5, <1>6, ReminderAssumption

\* A recipient that is left has not been reminded yet.
LEMMA NotifyKeeps ==
    ASSUME IInv, NEW s \in Scans, NEW x \in Recipients, Notify(s, x)
    PROVE  IInv'
<1> DEFINE q == scan[s]
           a == q.at.id
<1>1. q.step = "notifying" /\ x \in q.rest
  BY DEF Notify
<1>2. q.at \in Items /\ q.at # NoItem /\ a \in Events /\ a # None /\ a \notin Ahead(q) /\ s <= clock
      /\ q.at.copy.state = "open"
  BY <1>1, AtTurn
<1>3. /\ q \in ScanRecords /\ q.todo \in SUBSET Items /\ q.rest \in SUBSET Recipients
      /\ q = [step |-> q.step, todo |-> q.todo, at |-> q.at, rest |-> q.rest]
  BY ScanIs DEF IInv
<1>4. PICK step \in {"notifying", "saving"} :
        scan' = [scan EXCEPT ![s] = [@ EXCEPT !.rest = q.rest \ {x}, !.step = step]]
  BY DEF Notify
<1>5. PICK r : r = [q EXCEPT !.rest = q.rest \ {x}, !.step = step]
  OBVIOUS
<1>6. scan' = [scan EXCEPT ![s] = r]
  BY <1>4, <1>5
<1>7. /\ UNCHANGED <<clock, event, handler, starts, ids, since, troubled>>
      /\ reminded' = [reminded EXCEPT ![a][x] = @ + 1]
  BY DEF Notify
<1>8. reminded \in [Events -> [Recipients -> Nat]]
  BY DEF IInv, Typed
<1>9. \A u \in q.todo : u.copy.state = "open"
  BY DEF IInv, NoGhosts
<1>10. InTurn(q)
  BY DEF IInv, ScansOK
<1> HIDE DEF q
<1>11. /\ r \in ScanRecords
       /\ r.step = step /\ r.todo = q.todo /\ r.at = q.at /\ r.rest = q.rest \ {x}
  <2>1. q.rest \ {x} \in SUBSET Recipients /\ step \in ScanSteps
    BY <1>3 DEF ScanSteps
  <2>2. q \in [step : ScanSteps, todo : SUBSET Items, at : Items \cup {NoItem},
               rest : SUBSET Recipients]
    BY <1>3 DEF ScanRecords
  <2> HIDE DEF NoItem, Recipients
  <2> QED BY <1>5, <2>1, <2>2 DEF ScanRecords
<1>12. r.step = step /\ r.todo = q.todo /\ r.at = q.at /\ r.rest = q.rest \ {x}
       /\ Ahead(r) = Ahead(q)
  BY <1>11 DEF Ahead
<1>13. InTurn(r)
  BY <1>2, <1>10, <1>12 DEF InTurn
<1>14. /\ reminded' \in [Events -> [Recipients -> Nat]]
       /\ \A e \in Events \ {a} : reminded'[e] = reminded[e]
       /\ reminded'[a][x] = reminded[a][x] + 1
       /\ \A y \in Recipients \ {x} : reminded'[a][y] = reminded[a][y]
  <2> HIDE DEF a, Recipients
  <2> QED BY <1>2, <1>7, <1>8
<1>15. Typed'
  BY <1>6, <1>7, <1>11, <1>14, ScanTypes DEF IInv, Typed
<1>16. NoGhosts'
  BY <1>2, <1>6, <1>7, <1>9, <1>11, <1>12, ScanGhosts DEF IInv
<1>17. ScansOK'
  BY <1>2, <1>6, <1>7, <1>11, <1>13, ScansGoOn DEF IInv
<1>18. RemindersOK'
  <2> SUFFICES ASSUME NEW e \in Events \ troubled PROVE Alone(e)' /\ Tended(e)'
    BY <1>7 DEF RemindersOK
  <2>1. Alone(e) /\ Tended(e)
    BY DEF IInv, RemindersOK
  <2>2. scan'[s] = r /\ \A u \in Scans \ {s} : scan'[u] = scan[u]
    BY <1>6, <1>11, ScanReplaced DEF IInv
  <2>3. e # None
    BY ReminderAssumption
  <2>4. HeldBy(e, r) <=> HeldBy(e, scan[s])
    BY <1>12 DEF HeldBy, q
  <2>5. HeldBy(e, r) => \A u \in Scans \ {s} : ~ HeldBy(e, scan[u])
    BY <2>1, <2>4 DEF Alone
  <2>6. e = a => HeldBy(e, scan[s]) /\ \A y \in q.rest : reminded[e][y] = 0
    BY <1>1, <1>2, <2>1 DEF HeldBy, Tended, q
  <2>7. \A y \in Recipients : reminded'[e][y] <= 1
    <3>1. \A y \in Recipients : reminded[e][y] <= 1 /\ reminded[e][y] \in Nat
      BY <1>8, <2>1 DEF Tended
    <3>2. e = a => reminded[e][x] = 0
      BY <1>1, <2>6
    <3> QED BY <1>14, <3>1, <3>2
  <2>8. reminded'[e] = reminded[e] \/ HeldBy(e, scan[s])
    BY <1>14, <2>6
  <2>9. e \in Ahead(r) => Unheard(e)'
    <3>1. e \in Ahead(q) => Unheard(e) /\ e # a
      BY <1>2, <2>1 DEF Tended, q
    <3> QED BY <1>12, <1>14, <3>1 DEF Unheard
  <2>10. r.step = "notifying" /\ r.at.id = e => \A y \in r.rest : reminded'[e][y] = 0
    <3>1. r.at.id = a
      BY <1>12
    <3>2. \A y \in q.rest \ {x} : y \in Recipients \ {x}
      BY <1>3
    <3> QED BY <1>12, <1>14, <2>6, <3>1, <3>2
  <2>11. /\ ~ event'[e].sent /\ ~ HeldBy(e, r) /\ \A u \in Scans \ {s} : ~ HeldBy(e, scan[u])
         => Unheard(e)'
    <3>1. ~ HeldBy(e, r) => e # a
      BY <2>4, <2>6
    <3> QED BY <1>7, <1>14, <2>1, <2>4, <3>1 DEF Tended, Unheard
  <2> HIDE DEF a
  <2> QED BY <2>1, <2>2, <2>3, <2>5, <2>7, <2>8, <2>9, <2>10, <2>11, TurnTaken
<1> QED BY <1>15, <1>16, <1>17, <1>18 DEF IInv

\* The event is let go, and marked.
LEMMA SaveReminderKeeps == ASSUME IInv, NEW s \in Scans, SaveReminder(s) PROVE IInv'
<1> DEFINE q == scan[s]
           a == q.at.id
           v == q.at.copy
<1>1. q.step = "saving" /\ event' = [event EXCEPT ![a] = Marked(v)]
  BY DEF SaveReminder
<1>2. /\ a \in Events /\ a # None /\ a \notin Ahead(q) /\ s <= clock
      /\ v \in EventRows /\ v.state = "open" /\ HeldBy(a, q)
  BY <1>1, AtTurn
<1>3. q \in ScanRecords
  BY ScanIs DEF IInv
<1>4. PICK r : r = IF q.todo = {} THEN IdleScan ELSE [q EXCEPT !.step = "resolving", !.at = NoItem]
  OBVIOUS
<1>5. scan' = [scan EXCEPT ![s] = r]
  BY <1>4 DEF SaveReminder
<1>6. UNCHANGED <<clock, handler, starts, ids, reminded, since, troubled>>
  BY DEF SaveReminder
<1>7. Marked(v) \in EventRows /\ Marked(v).state = "open" /\ Marked(v).sent
  BY <1>2 DEF Marked, EventRows
<1>8. /\ event' \in [Events -> EventRows] /\ event'[a] = Marked(v)
      /\ \A e \in Events \ {a} : event'[e] = event[e]
  BY <1>1, <1>2, <1>7 DEF IInv, Typed
<1>9. InTurn(q) /\ \A u \in q.todo : u.copy.state = "open"
  BY DEF IInv, ScansOK, NoGhosts
<1> HIDE DEF q
<1>10. /\ r \in ScanRecords /\ r.todo = q.todo /\ r.at = NoItem
       /\ r.step = "resolving" \/ r = IdleScan
  <2>1. CASE q.todo = {}
    <3>1. r = IdleScan
      BY <1>4, <2>1
    <3> QED BY <2>1, <3>1, IdleIsInTurn DEF IdleScan
  <2>2. CASE q.todo # {}
    <3>1. r = [q EXCEPT !.step = "resolving", !.at = NoItem]
      BY <1>4, <2>2
    <3>2. "resolving" \in ScanSteps /\ NoItem \in Items \cup {NoItem}
      BY DEF ScanSteps
    <3>3. q \in [step : ScanSteps, todo : SUBSET Items, at : Items \cup {NoItem},
                 rest : SUBSET Recipients]
      BY <1>3 DEF ScanRecords
    <3> HIDE DEF NoItem, Recipients
    <3> QED BY <3>1, <3>2, <3>3 DEF ScanRecords
  <2> QED BY <2>1, <2>2
<1>11. Ahead(r) = Ahead(q) /\ r.at.id = None /\ r.step # "notifying" /\ r.step # "saving"
  BY <1>10 DEF Ahead, NoItem, IdleScan
<1>12. InTurn(r)
  <2>1. CASE r = IdleScan
    BY <2>1, IdleIsInTurn
  <2>2. CASE r.step = "resolving"
    <3>1. None \notin Ahead(q)
      <4>1. \A u \in q.todo : u \in Items
        BY ScanIs DEF IInv, q
      <4> QED BY <4>1, ReminderAssumption DEF Ahead, Items
    <3> QED BY <1>9, <1>10, <1>11, <2>2, <3>1 DEF InTurn
  <2> QED BY <1>10, <2>1, <2>2
<1>13. Typed'
  BY <1>5, <1>6, <1>8, <1>10, ScanTypes DEF IInv, Typed
<1>14. NoGhosts'
  <2>1. \A e \in Events : event'[e] = event[e] \/ event'[e].state = "open"
    BY <1>7, <1>8
  <2> QED BY <1>5, <1>6, <1>9, <1>10, <2>1, ScanGhosts DEF IInv
<1>15. ScansOK'
  BY <1>2, <1>5, <1>6, <1>10, <1>12, ScansGoOn DEF IInv
<1>16. RemindersOK'
  <2> SUFFICES ASSUME NEW e \in Events \ troubled PROVE Alone(e)' /\ Tended(e)'
    BY <1>6 DEF RemindersOK
  <2>1. Alone(e) /\ Tended(e)
    BY DEF IInv, RemindersOK
  <2>2. scan'[s] = r /\ \A u \in Scans \ {s} : scan'[u] = scan[u]
    BY <1>5, <1>10, ScanReplaced DEF IInv
  <2>3. e # None
    BY ReminderAssumption
  <2>4. e # a => (HeldBy(e, r) <=> HeldBy(e, scan[s]))
    BY <1>11, <2>3 DEF HeldBy, q
  <2>5. HeldBy(e, r) => HeldBy(e, scan[s])
    BY <1>2, <2>4 DEF q
  <2>6. HeldBy(e, r) => \A u \in Scans \ {s} : ~ HeldBy(e, scan[u])
    BY <2>1, <2>5 DEF Alone
  <2>7. e \in Ahead(r) => Unheard(e)'
    BY <1>6, <1>11, <2>1 DEF Tended, Unheard, q
  <2>8. /\ ~ event'[e].sent /\ ~ HeldBy(e, r) /\ \A u \in Scans \ {s} : ~ HeldBy(e, scan[u])
        => Unheard(e)'
    BY <1>6, <1>7, <1>8, <2>1, <2>4 DEF Tended, Unheard
  <2>9. (\A x \in Recipients : reminded'[e][x] <= 1) /\ reminded'[e] = reminded[e]
    BY <1>6, <2>1 DEF Tended
  <2> QED BY <1>11, <2>1, <2>2, <2>3, <2>6, <2>7, <2>8, <2>9, TurnTaken
<1> QED BY <1>13, <1>14, <1>15, <1>16 DEF IInv

\* What a failed scan held is troubled, and the rest it had not begun.
LEMMA ScanFailsKeeps == ASSUME IInv, NEW s \in Scans, ScanFails(s) PROVE IInv'
<1> DEFINE lost == IF scan[s].step = "finding" THEN Unsent ELSE Held(s)
<1>1. /\ scan[s] # IdleScan /\ scan' = [scan EXCEPT ![s] = IdleScan]
      /\ troubled' = troubled \cup lost
      /\ UNCHANGED <<clock, event, handler, starts, ids, reminded, since>>
  BY DEF ScanFails
<1>2. PICK r : r = IdleScan
  OBVIOUS
<1>3. /\ r \in ScanRecords /\ r.step = "idle" /\ r.todo = {} /\ r.at = NoItem /\ InTurn(r)
      /\ \A e \in Events : ~ HeldBy(e, r)
  BY <1>2, IdleIsInTurn, IdleScanIs, NothingHeld DEF ScanSteps
<1>4. scan' = [scan EXCEPT ![s] = r]
  BY <1>1, <1>2
<1>5. scan[s].step # "idle" /\ InTurn(scan[s])
  BY <1>1, IdleScanIs DEF IInv, ScansOK, InTurn
<1>6. lost \subseteq Events
  <2>1. scan[s].todo \in SUBSET Items /\ scan[s].at \in Items \cup {NoItem}
    BY ScanIs DEF IInv
  <2>2. \A t \in Items : t.id \in Events
    BY DEF Items
  <2>3. Held(s) \subseteq Events
    BY <2>1, <2>2 DEF Held, NoItem
  <2> QED BY <2>3 DEF Unsent
<1>7. \A e \in Events \ troubled' : ~ HeldBy(e, scan[s])
  <2>1. CASE scan[s].step = "finding"
    BY <1>5, <2>1, NothingHeld DEF InTurn, ScanSteps
  <2>2. CASE scan[s].step # "finding"
    BY <1>1, <2>2, HeldAre
  <2> QED BY <2>1, <2>2
<1>8. Typed'
  <2>1. troubled' \subseteq Events
    BY <1>1, <1>6 DEF IInv, Typed
  <2> QED BY <1>1, <1>3, <1>4, <2>1, ScanTypes DEF IInv, Typed
<1>9. NoGhosts'
  BY <1>1, <1>3, <1>4, ScanGhosts DEF IInv
<1>10. ScansOK'
  <2>1. s <= clock
    BY <1>5, HasBegun DEF IInv
  <2> QED BY <1>1, <1>3, <1>4, <2>1, ScansGoOn DEF IInv
<1>11. RemindersOK'
  <2> SUFFICES ASSUME NEW e \in Events \ troubled' PROVE Alone(e)' /\ Tended(e)'
    BY DEF RemindersOK
  <2>1. Alone(e) /\ Tended(e)
    BY <1>1 DEF IInv, RemindersOK
  <2>2. scan'[s] = r /\ \A u \in Scans \ {s} : scan'[u] = scan[u]
    BY <1>3, <1>4, ScanReplaced DEF IInv
  <2>3. e # None /\ ~ HeldBy(e, r) /\ ~ HeldBy(e, scan[s]) /\ e \notin Ahead(r)
    BY <1>3, <1>7, ReminderAssumption DEF Ahead
  <2>4. /\ ~ event'[e].sent /\ ~ HeldBy(e, r) /\ \A u \in Scans \ {s} : ~ HeldBy(e, scan[u])
        => Unheard(e)'
    BY <1>1, <2>1, <2>3 DEF Tended, Unheard
  <2>5. (\A x \in Recipients : reminded'[e][x] <= 1) /\ reminded'[e] = reminded[e]
    BY <1>1, <2>1 DEF Tended
  <2>6. r.step # "notifying"
    BY <1>3
  <2> QED BY <2>1, <2>2, <2>3, <2>4, <2>5, <2>6, TurnTaken
<1> QED BY <1>8, <1>9, <1>10, <1>11 DEF IInv

-----------------------------------------------------------------------------
(* The requests. *)

LEMMA RequestTypes ==
    ASSUME Typed, UNCHANGED <<clock, scan>>, ids' \in {ids, ids + 1},
           event' \in [Events -> EventRows'], handler' \in [Handlers -> Requests'],
           starts' \in 0 .. MaxStarts, reminded' \in [Events -> [Recipients -> Nat]],
           since' \in [Events -> 0 .. MaxTime], troubled' \subseteq Events
    PROVE  Typed'
<1>1. ids \in Nat
  BY DEF Typed
<1>2. scan' \in [Scans -> ScanRecords']
  BY <1>1, RowsGrow DEF Typed
<1> QED BY <1>1, <1>2 DEF Typed

LEMMA RequestGhosts ==
    ASSUME NoGhosts, UNCHANGED scan,
           \A e \in Events : event'[e].state = "none" => event'[e] = NoEvent,
           \A h \in Handlers : handler'[h] # Idle => handler'[h].copy.state = "open"
    PROVE  NoGhosts'
  BY DEF NoGhosts

LEMMA SameScans == ScansOK /\ UNCHANGED <<clock, scan>> => ScansOK'
  BY DEF ScansOK, InTurn, Ahead

LEMMA AnewTypes ==
    ASSUME Typed, NEW e \in Events, Anew(e)
    PROVE  /\ reminded' \in [Events -> [Recipients -> Nat]]
           /\ since' \in [Events -> 0 .. MaxTime] /\ troubled' \subseteq Events
<1>1. [r \in Recipients |-> 0] \in [Recipients -> Nat]
  OBVIOUS
<1>2. reminded' \in [Events -> [Recipients -> Nat]]
  BY <1>1 DEF Typed, Anew
<1> QED BY <1>2 DEF Typed, Anew

\* A request at work has a copy of a row that was there.
LEMMA RequestIs ==
    ASSUME Typed, NoGhosts, NEW h \in Handlers, handler[h].op # "idle"
    PROVE  /\ handler[h].id \in Events /\ handler[h].copy \in EventRows
           /\ handler[h].copy.state = "open"
<1>1. handler[h] \in Requests /\ handler[h] # Idle
  BY DEF Typed, Idle
<1>2. handler[h] \in [op : {"update", "remove", "respond"}, id : Events, copy : EventRows]
  BY <1>1 DEF Requests
<1> QED BY <1>1, <1>2 DEF NoGhosts

LEMMA FinishKeeps ==
    ASSUME Typed, NoGhosts, NEW h \in Handlers, Finish(h), ids' \in {ids, ids + 1}
    PROVE  /\ handler' \in [Handlers -> Requests']
           /\ \A g \in Handlers : handler'[g] # Idle => handler'[g].copy.state = "open"
<1>1. handler \in [Handlers -> Requests] /\ ids \in Nat
  BY DEF Typed
<1>2. Requests \subseteq Requests' /\ Idle \in Requests
  BY <1>1, RowsGrow DEF Requests
<1>3. handler' = [handler EXCEPT ![h] = Idle]
  BY DEF Finish
<1> HIDE DEF Requests, Idle
<1>4. handler' \in [Handlers -> Requests']
  BY <1>1, <1>2, <1>3
<1>5. \A g \in Handlers : handler'[g] = Idle \/ handler'[g] = handler[g]
  BY <1>1, <1>3
<1> QED BY <1>4, <1>5 DEF NoGhosts

\* A row of the entities.
LEMMA RowOf ==
    ASSUME NEW R, NEW state \in {"none", "open"}, NEW start \in Starts \cup {0},
           NEW notice \in Notices \cup {0}, NEW sent \in BOOLEAN, NEW rows \in SUBSET R
    PROVE  [state |-> state, start |-> start, notice |-> notice, sent |-> sent, rows |-> rows]
             \in [state : {"none", "open"}, start : Starts \cup {0}, notice : Notices \cup {0},
                  sent : BOOLEAN, rows : SUBSET R]
  OBVIOUS

\* A row is written.
LEMMA RowSaved ==
    ASSUME Typed, NoGhosts, NEW e \in Events, NEW v \in EventRows',
           v.state = "none" => v = NoEvent,
           event' = [event EXCEPT ![e] = v], ids' \in {ids, ids + 1}
    PROVE  /\ event' \in [Events -> EventRows']
           /\ \A f \in Events : event'[f].state = "none" => event'[f] = NoEvent
           /\ \A f \in Events \ {e} : event'[f] = event[f]
           /\ event'[e] = v
<1>1. event \in [Events -> EventRows] /\ EventRows \subseteq EventRows'
  BY RowsGrow DEF Typed
<1> HIDE DEF EventRows, NoEvent
<1>2. event' \in [Events -> EventRows']
  BY <1>1
<1>3. event'[e] = v /\ \A f \in Events \ {e} : event'[f] = event[f]
  BY <1>1
<1> QED BY <1>2, <1>3 DEF NoGhosts

LEMMA CreateKeeps ==
    ASSUME IInv, NEW e \in Events, NEW start \in Starts, NEW notice \in Notices,
           Create(e, start, notice)
    PROVE  IInv'
<1> DEFINE R == [id : 0 .. ids', status : {"pending", "accepted", "declined"}]
           row == [id |-> ids + 1, status |-> "pending"]
<1>1. /\ Typed /\ NoGhosts /\ ScansOK /\ RemindersOK
      /\ ids' = ids + 1 /\ Anew(e) /\ starts' = starts + 1 /\ starts < MaxStarts
      /\ UNCHANGED <<clock, scan, handler>>
  BY DEF IInv, Create, Counted
<1>2. PICK v : v = [state |-> "open", start |-> start, notice |-> notice, sent |-> FALSE,
                    rows |-> {row}]
  OBVIOUS
<1>3. event' = [event EXCEPT ![e] = v]
  BY <1>2 DEF Create
<1>4. v \in EventRows' /\ v.state = "open"
  <2>1. row \in R
    BY <1>1 DEF Typed
  <2>2. {row} \in SUBSET R
    BY <2>1
  <2> HIDE DEF R, row
  <2>3. v \in [state : {"none", "open"}, start : Starts \cup {0}, notice : Notices \cup {0},
               sent : BOOLEAN, rows : SUBSET R]
    BY <1>2, <2>2, RowOf
  <2> QED BY <1>2, <2>3 DEF EventRows, R
<1>5. /\ event' \in [Events -> EventRows']
      /\ \A f \in Events : event'[f].state = "none" => event'[f] = NoEvent
      /\ \A f \in Events \ {e} : event'[f] = event[f]
  BY <1>1, <1>3, <1>4, RowSaved
<1>6. starts' \in 0 .. MaxStarts
  BY <1>1, ReminderAssumption DEF Typed
<1>7. handler' \in [Handlers -> Requests']
  BY <1>1, RowsGrow DEF Typed
<1>8. Typed'
  BY <1>1, <1>5, <1>6, <1>7, AnewTypes, RequestTypes
<1>9. NoGhosts'
  <2>1. \A h \in Handlers : handler'[h] # Idle => handler'[h].copy.state = "open"
    BY <1>1 DEF NoGhosts
  <2> QED BY <1>1, <1>5, <2>1, RequestGhosts
<1>10. ScansOK' /\ RemindersOK'
  BY <1>1, <1>5, SameScans, AnewReminders
<1> QED BY <1>8, <1>9, <1>10 DEF IInv

LEMMA BeginKeeps ==
    ASSUME IInv, NEW h \in Handlers, NEW op \in {"update", "remove", "respond"}, NEW e \in Events,
           Begin(h, op, e)
    PROVE  IInv'
<1>1. /\ Typed /\ NoGhosts /\ ScansOK /\ RemindersOK /\ event[e].state = "open"
      /\ starts' = starts + 1 /\ starts < MaxStarts
      /\ UNCHANGED <<clock, event, scan, ids, reminded, since, troubled>>
  BY DEF IInv, Begin, Counted
<1>2. PICK q : q = [op |-> op, id |-> e, copy |-> event[e]]
  OBVIOUS
<1>3. handler' = [handler EXCEPT ![h] = q]
  BY <1>2 DEF Begin
<1>4. q \in Requests /\ q.copy.state = "open"
  <2>1. event[e] \in EventRows
    BY <1>1 DEF Typed
  <2>2. q \in [op : {"update", "remove", "respond"}, id : Events, copy : EventRows]
    BY <1>2, <2>1
  <2> QED BY <1>1, <1>2, <2>2 DEF Requests
<1>5. /\ handler' \in [Handlers -> Requests']
      /\ \A g \in Handlers : handler'[g] # Idle => handler'[g].copy.state = "open"
  <2>1. handler \in [Handlers -> Requests] /\ Requests' = Requests
    BY <1>1, SameRows DEF Typed
  <2>2. handler' \in [Handlers -> Requests']
    BY <1>3, <1>4, <2>1
  <2>3. \A g \in Handlers : handler'[g] = q \/ handler'[g] = handler[g]
    BY <1>3, <2>1
  <2> QED BY <1>1, <1>4, <2>2, <2>3 DEF NoGhosts
<1>6. starts' \in 0 .. MaxStarts
  BY <1>1, ReminderAssumption DEF Typed
<1>7. Typed'
  <2>1. event' \in [Events -> EventRows']
    BY <1>1, SameRows DEF Typed
  <2> QED BY <1>1, <1>5, <1>6, <2>1, RequestTypes DEF Typed
<1>8. NoGhosts'
  BY <1>1, <1>5, RequestGhosts DEF NoGhosts
<1>9. ScansOK' /\ RemindersOK'
  BY <1>1, SameScans, SameReminders
<1> QED BY <1>7, <1>8, <1>9 DEF IInv

LEMMA SaveUpdateKeeps ==
    ASSUME IInv, NEW h \in Handlers, NEW start \in Starts, NEW notice \in Notices,
           SaveUpdate(h, start, notice)
    PROVE  IInv'
<1> DEFINE e == handler[h].id
           c == handler[h].copy
           R == [id : 0 .. ids', status : {"pending", "accepted", "declined"}]
<1>1. /\ Typed /\ NoGhosts /\ ScansOK /\ RemindersOK /\ handler[h].op = "update"
      /\ ids' = ids + 1 /\ Anew(e) /\ Finish(h) /\ UNCHANGED <<clock, scan, starts>>
  BY DEF IInv, SaveUpdate
<1>2. e \in Events /\ c \in EventRows /\ c.state = "open"
  BY <1>1, RequestIs
<1>3. PICK rows \in {c.rows, Invited(c.rows), {}} :
        event' = [event EXCEPT ![e] = Edited(c, start, notice, rows)]
  BY DEF SaveUpdate
<1>4. c \in EventRows'
  BY <1>1, <1>2, RowsGrow DEF Typed
<1>5. rows \in SUBSET R
  <2>1. c.rows \in SUBSET R
    BY <1>4 DEF EventRows
  <2>2. Invited(c.rows) \in SUBSET R
    <3>1. ids + 1 \in 0 .. ids'
      BY <1>1 DEF Typed
    <3>2. \A status \in {"pending", "accepted", "declined"} : [id |-> ids + 1, status |-> status] \in R
      BY <3>1
    <3> HIDE DEF R
    <3> QED BY <3>2 DEF Invited
  <2> QED BY <2>1, <2>2
<1>6. PICK v : v = Edited(c, start, notice, rows)
  OBVIOUS
<1>7. v \in EventRows' /\ v.state = "open"
  <2> HIDE DEF R, c
  <2>1. c \in [state : {"none", "open"}, start : Starts \cup {0}, notice : Notices \cup {0},
               sent : BOOLEAN, rows : SUBSET R]
    BY <1>4 DEF EventRows, R
  <2>2. v \in [state : {"none", "open"}, start : Starts \cup {0}, notice : Notices \cup {0},
               sent : BOOLEAN, rows : SUBSET R] /\ v.state = c.state
    BY <1>5, <1>6, <2>1 DEF Edited
  <2> QED BY <1>2, <2>2 DEF EventRows, R
<1>8. event' = [event EXCEPT ![e] = v]
  BY <1>3, <1>6
<1> HIDE DEF e
<1>9. /\ event' \in [Events -> EventRows']
      /\ \A f \in Events : event'[f].state = "none" => event'[f] = NoEvent
      /\ \A f \in Events \ {e} : event'[f] = event[f]
  BY <1>1, <1>2, <1>7, <1>8, RowSaved
<1>10. /\ handler' \in [Handlers -> Requests']
       /\ \A g \in Handlers : handler'[g] # Idle => handler'[g].copy.state = "open"
  BY <1>1, FinishKeeps
<1>11. Typed'
  <2>1. starts' \in 0 .. MaxStarts
    BY <1>1 DEF Typed
  <2> QED BY <1>1, <1>2, <1>9, <1>10, <2>1, AnewTypes, RequestTypes
<1>12. NoGhosts'
  BY <1>1, <1>9, <1>10, RequestGhosts
<1>13. ScansOK' /\ RemindersOK'
  BY <1>1, <1>2, <1>9, SameScans, AnewReminders
<1> QED BY <1>11, <1>12, <1>13 DEF IInv

LEMMA RemoveKeeps == ASSUME IInv, NEW h \in Handlers, Remove(h) PROVE IInv'
<1> DEFINE e == handler[h].id
<1>1. /\ Typed /\ NoGhosts /\ ScansOK /\ RemindersOK /\ handler[h].op = "remove"
      /\ Anew(e) /\ Finish(h) /\ UNCHANGED <<clock, scan, starts, ids>>
      /\ event' = [event EXCEPT ![e] = NoEvent]
  BY DEF IInv, Remove, Removed
<1>2. e \in Events
  BY <1>1, RequestIs
<1>3. NoEvent \in EventRows'
  BY <1>1, NoEventIsRow, SameRows DEF Typed
<1> HIDE DEF e
<1>4. /\ event' \in [Events -> EventRows']
      /\ \A f \in Events : event'[f].state = "none" => event'[f] = NoEvent
      /\ \A f \in Events \ {e} : event'[f] = event[f]
  BY <1>1, <1>2, <1>3, RowSaved
<1>5. /\ handler' \in [Handlers -> Requests']
      /\ \A g \in Handlers : handler'[g] # Idle => handler'[g].copy.state = "open"
  BY <1>1, FinishKeeps
<1>6. Typed'
  <2>1. starts' \in 0 .. MaxStarts
    BY <1>1 DEF Typed
  <2> QED BY <1>1, <1>2, <1>4, <1>5, <2>1, AnewTypes, RequestTypes
<1>7. NoGhosts'
  BY <1>1, <1>4, <1>5, RequestGhosts
<1>8. ScansOK' /\ RemindersOK'
  BY <1>1, <1>2, <1>4, SameScans, AnewReminders
<1> QED BY <1>6, <1>7, <1>8 DEF IInv

LEMMA RespondKeeps ==
    ASSUME IInv, NEW h \in Handlers, NEW status \in {"accepted", "declined"}, Respond(h, status)
    PROVE  IInv'
<1> DEFINE e == handler[h].id
           R == [id : 0 .. ids, status : {"pending", "accepted", "declined"}]
<1>1. /\ Typed /\ NoGhosts /\ ScansOK /\ RemindersOK /\ handler[h].op = "respond"
      /\ Finish(h) /\ UNCHANGED <<clock, scan, starts, ids, reminded, since, troubled>>
  BY DEF IInv, Respond
<1>2. e \in Events /\ handler[h].copy \in EventRows /\ event[e] \in EventRows
  BY <1>1, RequestIs DEF Typed
<1>3. PICK r \in handler[h].copy.rows :
        /\ event[e].state = "open"
        /\ event' = [event EXCEPT ![e].rows =
                       {x \in @ : x.id # r.id} \cup {[r EXCEPT !.status = status]}]
  BY DEF Respond
<1>4. PICK rows : rows = {x \in event[e].rows : x.id # r.id} \cup {[r EXCEPT !.status = status]}
  OBVIOUS
<1>5. rows \in SUBSET R
  <2>1. event[e].rows \in SUBSET R /\ r \in R
    BY <1>2 DEF EventRows
  <2>2. [r EXCEPT !.status = status] \in R
    BY <2>1
  <2> HIDE DEF R
  <2> QED BY <1>4, <2>1, <2>2
<1>6. PICK v : v = [event[e] EXCEPT !.rows = rows]
  OBVIOUS
<1>7. v \in EventRows' /\ v.state = "open" /\ v.sent = event[e].sent
  <2> HIDE DEF R, e
  <2>1. event[e] \in [state : {"none", "open"}, start : Starts \cup {0}, notice : Notices \cup {0},
                      sent : BOOLEAN, rows : SUBSET R]
    BY <1>2 DEF EventRows, R
  <2>2. /\ v \in [state : {"none", "open"}, start : Starts \cup {0}, notice : Notices \cup {0},
                  sent : BOOLEAN, rows : SUBSET R]
        /\ v.state = event[e].state /\ v.sent = event[e].sent
    BY <1>5, <1>6, <2>1
  <2> QED BY <1>1, <1>3, <2>2, SameRows DEF EventRows, R
<1>8. event' = [event EXCEPT ![e] = v]
  BY <1>1, <1>2, <1>3, <1>4, <1>6 DEF Typed
<1> HIDE DEF e
<1>9. /\ event' \in [Events -> EventRows']
      /\ \A f \in Events : event'[f].state = "none" => event'[f] = NoEvent
      /\ \A f \in Events \ {e} : event'[f] = event[f]
      /\ event'[e] = v
  BY <1>1, <1>2, <1>7, <1>8, RowSaved
<1>10. /\ handler' \in [Handlers -> Requests']
       /\ \A g \in Handlers : handler'[g] # Idle => handler'[g].copy.state = "open"
  BY <1>1, FinishKeeps
<1>11. Typed'
  <2>1. /\ starts' \in 0 .. MaxStarts /\ reminded' \in [Events -> [Recipients -> Nat]]
        /\ since' \in [Events -> 0 .. MaxTime] /\ troubled' \subseteq Events
    BY <1>1 DEF Typed
  <2> QED BY <1>1, <1>9, <1>10, <2>1, RequestTypes
<1>12. NoGhosts'
  BY <1>1, <1>9, <1>10, RequestGhosts
<1>13. ScansOK' /\ RemindersOK'
  <2>1. \A f \in Events : event'[f].sent = event[f].sent
    BY <1>7, <1>9
  <2> QED BY <1>1, <2>1, SameScans, SameReminders
<1> QED BY <1>11, <1>12, <1>13 DEF IInv

LEMMA RequestFailsKeeps == ASSUME IInv, NEW h \in Handlers, RequestFails(h) PROVE IInv'
<1>1. /\ Typed /\ NoGhosts /\ ScansOK /\ RemindersOK /\ Finish(h)
      /\ UNCHANGED <<clock, event, scan, starts, ids, reminded, since, troubled>>
  BY DEF IInv, RequestFails
<1>2. /\ handler' \in [Handlers -> Requests']
      /\ \A g \in Handlers : handler'[g] # Idle => handler'[g].copy.state = "open"
  BY <1>1, FinishKeeps
<1>3. Typed'
  <2>1. event' \in [Events -> EventRows']
    BY <1>1, SameRows DEF Typed
  <2> QED BY <1>1, <1>2, <2>1, RequestTypes DEF Typed
<1>4. NoGhosts'
  BY <1>1, <1>2, RequestGhosts DEF NoGhosts
<1>5. ScansOK' /\ RemindersOK'
  BY <1>1, SameScans, SameReminders
<1> QED BY <1>3, <1>4, <1>5 DEF IInv

-----------------------------------------------------------------------------
(* The invariant. *)

LEMMA InitKeeps == ASSUME Init PROVE IInv
<1> DEFINE R == [id : 0 .. ids, status : {"pending", "accepted", "declined"}]
           Rows == {{}, {[id |-> 0, status |-> "accepted"]}}
<1>1. /\ clock = 0 /\ starts = 0 /\ ids = 0 /\ troubled = {}
      /\ scan = [s \in Scans |-> IdleScan] /\ handler = [h \in Handlers |-> Idle]
      /\ reminded = [e \in Events |-> [r \in Recipients |-> 0]]
      /\ since = [e \in Events |-> 0]
      /\ event \in [Events -> {NoEvent} \cup [state : {"open"}, start : Starts, notice : Notices,
                                              sent : {FALSE}, rows : Rows]]
  BY DEF Init
<1>2. Rows \subseteq SUBSET R
  <2>1. [id |-> 0, status |-> "accepted"] \in R
    BY <1>1
  <2> HIDE DEF R
  <2> QED BY <2>1
<1> HIDE DEF R, Rows
<1>3. \A e \in Events : event[e] \in EventRows /\ (event[e] = NoEvent \/ event[e].state = "open")
  <2> SUFFICES ASSUME NEW e \in Events
               PROVE  event[e] \in EventRows /\ (event[e] = NoEvent \/ event[e].state = "open")
    OBVIOUS
  <2>1. CASE event[e] = NoEvent
    BY <1>1, <2>1, NoEventIsRow
  <2>2. CASE event[e] \in [state : {"open"}, start : Starts, notice : Notices, sent : {FALSE},
                           rows : Rows]
    BY <1>2, <2>2 DEF EventRows, R
  <2> QED BY <1>1, <2>1, <2>2
<1>4. Typed
  <2>1. /\ clock \in 0 .. MaxTime /\ starts \in 0 .. MaxStarts /\ ids \in Nat
        /\ since \in [Events -> 0 .. MaxTime] /\ troubled \subseteq Events
    BY <1>1, ReminderAssumption
  <2>2. event \in [Events -> EventRows]
    <3> HIDE DEF EventRows
    <3> QED BY <1>1, <1>3
  <2>3. scan \in [Scans -> ScanRecords]
    BY <1>1, IdleIsInTurn
  <2>4. handler \in [Handlers -> Requests]
    BY <1>1 DEF Requests
  <2>5. reminded \in [Events -> [Recipients -> Nat]]
    <3>1. [r \in Recipients |-> 0] \in [Recipients -> Nat]
      OBVIOUS
    <3> QED BY <1>1, <3>1
  <2> QED BY <2>1, <2>2, <2>3, <2>4, <2>5 DEF Typed
<1>5. NoGhosts
  <2>1. \A s \in Scans : scan[s].todo = {} /\ scan[s].at = NoItem
    BY <1>1 DEF IdleScan
  <2>2. \A e \in Events : event[e].state = "none" => event[e] = NoEvent
    BY <1>3
  <2>3. \A h \in Handlers : handler[h] = Idle
    BY <1>1
  <2> QED BY <2>1, <2>2, <2>3 DEF NoGhosts
<1>6. ScansOK
  BY <1>1, IdleIsInTurn DEF ScansOK
<1>7. RemindersOK
  <2> SUFFICES ASSUME NEW e \in Events PROVE Alone(e) /\ Tended(e)
    BY DEF RemindersOK
  <2>1. \A r \in Recipients : reminded[e][r] = 0
    BY <1>1
  <2>2. \A s \in Scans : ~ HeldBy(e, scan[s]) /\ scan[s].step = "idle"
    BY <1>1, IdleScanIs, NothingHeld DEF ScanSteps
  <2> QED BY <2>1, <2>2 DEF Alone, Tended, Unheard
<1> QED BY <1>4, <1>5, <1>6, <1>7 DEF IInv

LEMMA StutterKeeps == ASSUME IInv, UNCHANGED vars PROVE IInv'
<1>1. UNCHANGED <<clock, event, scan, handler, starts, ids, reminded, since, troubled>>
  BY DEF vars
<1>2. Typed'
  BY <1>1, SameRows DEF IInv, Typed
<1>3. NoGhosts'
  BY <1>1 DEF IInv, NoGhosts
<1>4. ScansOK' /\ RemindersOK'
  BY <1>1, SameScans, SameReminders DEF IInv
<1> QED BY <1>2, <1>3, <1>4 DEF IInv

LEMMA NextKeeps == ASSUME IInv, [Next]_vars PROVE IInv'
<1>1. CASE UNCHANGED vars
  BY <1>1, StutterKeeps
<1>2. CASE Tick
  BY <1>2, TickKeeps
<1>3. ASSUME NEW s \in Scans, ScanStep(s) PROVE IInv'
  <2>1. CASE \E batch \in SUBSET Events : Find(s, batch)
    BY <2>1, FindKeeps
  <2>2. CASE \E t \in scan[s].todo : Resolve(s, t)
    BY <2>2, ResolveKeeps
  <2>3. CASE \E r \in Recipients : Notify(s, r)
    BY <2>3, NotifyKeeps
  <2>4. CASE SaveReminder(s)
    BY <2>4, SaveReminderKeeps
  <2> QED BY <1>3, <2>1, <2>2, <2>3, <2>4 DEF ScanStep
<1>4. ASSUME NEW s \in Scans, ScanFails(s) PROVE IInv'
  BY <1>4, ScanFailsKeeps
<1>5. ASSUME NEW e \in Events, NEW start \in Starts, NEW notice \in Notices,
             Create(e, start, notice)
      PROVE  IInv'
  BY <1>5, CreateKeeps
<1>6. ASSUME NEW h \in Handlers, NEW op \in {"update", "remove", "respond"}, NEW e \in Events,
             Begin(h, op, e)
      PROVE  IInv'
  BY <1>6, BeginKeeps
<1>7. ASSUME NEW h \in Handlers, NEW start \in Starts, NEW notice \in Notices,
             SaveUpdate(h, start, notice)
      PROVE  IInv'
  BY <1>7, SaveUpdateKeeps
<1>8. ASSUME NEW h \in Handlers, Remove(h) PROVE IInv'
  BY <1>8, RemoveKeeps
<1>9. ASSUME NEW h \in Handlers, NEW status \in {"accepted", "declined"}, Respond(h, status)
      PROVE  IInv'
  BY <1>9, RespondKeeps
<1>10. ASSUME NEW h \in Handlers, RequestFails(h) PROVE IInv'
  BY <1>10, RequestFailsKeeps
<1> QED BY <1>1, <1>2, <1>3, <1>4, <1>5, <1>6, <1>7, <1>8, <1>9, <1>10 DEF Next

LEMMA Invariance == Spec => []IInv
<1>1. Init => IInv
  BY InitKeeps
<1>2. IInv /\ [Next]_vars => IInv'
  BY NextKeeps
<1> QED BY <1>1, <1>2, PTL DEF Spec

\* The type of an event row depends on the rows made so far, and the copies that scans and
\* requests of CalendarEventService carry about are rows all the same: what they save, long
\* after they read it, is again an event row or the row of a removed event.
THEOREM TypeCorrect == Spec => []TypeOK
<1>1. IInv => TypeOK
  <2> SUFFICES ASSUME IInv PROVE TypeOK
    OBVIOUS
  <2>1. /\ clock \in 0 .. MaxTime /\ event \in [Events -> EventRows]
        /\ starts \in 0 .. MaxStarts /\ ids \in Nat
        /\ reminded \in [Events -> [Recipients -> Nat]]
        /\ since \in [Events -> 0 .. MaxTime] /\ troubled \subseteq Events
        /\ \A e \in Events : event[e].state = "none" => event[e] = NoEvent
    BY DEF IInv, Typed, NoGhosts
  <2>2. ASSUME NEW s \in Scans
        PROVE  /\ scan[s].step \in {"idle", "finding", "resolving", "notifying", "saving"}
               /\ Held(s) \subseteq Events /\ scan[s].rest \subseteq Recipients
    <3>1. /\ scan[s].step \in ScanSteps /\ scan[s].todo \in SUBSET Items
          /\ scan[s].at \in Items \cup {NoItem} /\ scan[s].rest \in SUBSET Recipients
      BY ScanIs DEF IInv
    <3>2. \A t \in Items : t.id \in Events
      BY DEF Items
    <3>3. Held(s) \subseteq Events
      BY <3>1, <3>2 DEF Held, NoItem
    <3> QED BY <3>1, <3>3 DEF ScanSteps
  <2>3. \A h \in Handlers : handler[h].op \in {"idle", "update", "remove", "respond"}
    <3>1. \A h \in Handlers : handler[h] \in Requests
      BY DEF IInv, Typed
    <3> QED BY <3>1 DEF Requests, Idle
  <2> QED BY <2>1, <2>2, <2>3 DEF TypeOK
<1> QED BY <1>1, Invariance, PTL

\* Nobody is reminded twice of an event its owner has not saved again, however many scans of
\* sendDueReminders overlap and however guests answer meanwhile - but for the events that a
\* scan failed with, that were in two scans' hands, or that the owner saved under a scan.
THEOREM RemindedAtMostOnce == Spec => []RemindedOnce
<1>1. IInv => RemindedOnce
  BY DEF IInv, RemindersOK, Tended, RemindedOnce
<1> QED BY <1>1, Invariance, PTL

\* Of an event nothing troubles only one scan at a time is in charge, and whoever that scan
\* has not come to yet has not been reminded: the two facts sendDueReminders rests on, which
\* reads the events without a mark and marks them one by one after it has notified.
THEOREM OneScanInCharge == Spec => []RemindersOK
<1>1. IInv => RemindersOK
  BY DEF IInv
<1> QED BY <1>1, Invariance, PTL

=============================================================================
