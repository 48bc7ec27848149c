--------------------------- MODULE EventReminder ---------------------------
(***************************************************************************)
(* Calendar events and the reminders of CalendarEventService.  A timer     *)
(* starts a scan every 30 seconds, whether or not the last one is done; a  *)
(* scan reads the events that are not marked as reminded, notifies the     *)
(* recipients of each that is due, one after the other, and saves the      *)
(* event it read with the mark.  Owners edit and remove events meanwhile,  *)
(* and guests answer invitations.                                          *)
(*                                                                         *)
(* save() of an event writes every column of the copy and attaches the     *)
(* participant rows of the copy, with their answers, in place of those     *)
(* there are; it inserts an event again that was removed.  One unit of     *)
(* time is the 30 seconds between two scans.                               *)
(***************************************************************************)
EXTENDS Naturals, FiniteSets

CONSTANTS
    Events,
    Handlers,   \* requests that may run at a time
    Starts,     \* values of startTime
    Notices,    \* values of notificationMinutes, in units of time
    BatchSize,  \* events a scan reads, 200 in the code
    MaxTime,    \* bound on the clock
    MaxScans,   \* bound on the scans that run at a time
    MaxStarts,  \* bound on the requests of a behaviour
    None

ASSUME ReminderAssumption ==
    /\ {BatchSize, MaxScans} \subseteq Nat \ {0} /\ {MaxTime, MaxStarts} \subseteq Nat
    /\ Starts \subseteq Nat /\ Notices \subseteq Nat
    /\ None \notin Events

VARIABLES
    clock,
    event,     \* the event rows with the participant rows attached to each
    scan,      \* the scans, by the time at which they began
    handler,   \* the running requests
    starts,    \* requests started so far
    ids,       \* participant rows made so far
    reminded,  \* history: reminders each recipient got since the event was last saved
    since,     \* history: when the event was last saved by its owner
    troubled   \* history: events of which a scan was full, failed or ran beside another change

vars == <<clock, event, scan, handler, starts, ids, reminded, since, troubled>>

Recipients == {"owner", "guest"}

\* The row of an event that does not exist (any more).
NoEvent == [state |-> "none", start |-> 0, notice |-> 0, sent |-> FALSE, rows |-> {}]

NoItem == [id |-> None, copy |-> NoEvent]

\* Each tick of the timer starts a scan of its own.
Scans == 1 .. MaxTime

\* A scan: the copies still ahead, the one it is at, and who is to be notified of it.
IdleScan == [step |-> "idle", todo |-> {}, at |-> NoItem, rest |-> {}]

\* A request: what is done to which event, the copy that was read, and the new participants.
Idle == [op |-> "idle", id |-> None, copy |-> NoEvent]

Unsent == {e \in Events : event[e].state = "open" /\ ~ event[e].sent}

\* The events a scan has read and not saved yet.
Held(s) == {t.id : t \in scan[s].todo} \cup ({scan[s].at.id} \ {None})

Init ==
    /\ clock = 0
    /\ event \in [Events -> {NoEvent} \cup
                    [state : {"open"}, start : Starts, notice : Notices, sent : {FALSE},
                     rows : {{}, {[id |-> 0, status |-> "accepted"]}}]]
    /\ scan = [s \in Scans |-> IdleScan]
    /\ handler = [h \in Handlers |-> Idle]
    /\ starts = 0
    /\ ids = 0
    /\ reminded = [e \in Events |-> [r \in Recipients |-> 0]]
    /\ since = [e \in Events |-> 0]
    /\ troubled = {}

(***************************************************************************)
(* The scan: sendDueReminders.                                             *)
(***************************************************************************)

Tick ==
    /\ clock < MaxTime
    /\ Cardinality({s \in Scans : scan[s] # IdleScan}) < MaxScans
    /\ clock' = clock + 1
    /\ scan' = [scan EXCEPT ![clock + 1].step = "finding"]
    /\ UNCHANGED <<event, handler, starts, ids, reminded, since, troubled>>

\* Mutant: the reminder is due only after its minute.
Due_Late(v, now) == now < v.start /\ v.start < now + v.notice

\* The reminder time has come, and the event has not.  (A day ahead is beyond the bounds.)
Due(v, now) == now < v.start /\ v.start <= now + v.notice

\* The batch is the earliest of the events without a mark.
Find(s, batch) ==
    /\ scan[s].step = "finding"
    /\ batch \subseteq Unsent
    /\ Cardinality(batch) <= BatchSize
    /\ Unsent # batch => Cardinality(batch) = BatchSize
    /\ \A e \in batch, f \in Unsent \ batch : event[e].start <= event[f].start
    /\ LET due == {e \in batch : Due(event[e], s)}
           twice == {e \in due : \E t \in Scans : e \in Held(t)}
       IN  /\ scan' = [scan EXCEPT ![s] =
                         IF due = {} THEN IdleScan
                         ELSE [@ EXCEPT !.step = "resolving",
                                        !.todo = {[id |-> e, copy |-> event[e]] : e \in due}]]
           /\ troubled' = troubled \cup (Unsent \ batch) \cup twice
    /\ UNCHANGED <<clock, event, handler, starts, ids, reminded, since>>

\* The next event, and its recipients: the owner and the guest who accepted.
Resolve(s, t) ==
    /\ scan[s].step = "resolving"
    /\ t \in scan[s].todo
    /\ \A x \in scan[s].todo : t.copy.start <= x.copy.start
    /\ scan' = [scan EXCEPT
         ![s] = [@ EXCEPT !.step = "notifying", !.todo = scan[s].todo \ {t}, !.at = t,
                          !.rest = IF \E r \in t.copy.rows : r.status = "accepted"
                                   THEN Recipients ELSE {"owner"}]]
    /\ UNCHANGED <<clock, event, handler, starts, ids, reminded, since, troubled>>

\* createAndEmit, the owner first.
Notify(s, r) ==
    /\ scan[s].step = "notifying"
    /\ r \in scan[s].rest
    /\ r = "guest" => "owner" \notin scan[s].rest
    /\ reminded' = [reminded EXCEPT ![scan[s].at.id][r] = @ + 1]
    /\ scan' = [scan EXCEPT
         ![s] = [@ EXCEPT !.rest = scan[s].rest \ {r},
                          !.step = IF scan[s].rest = {r} THEN "saving" ELSE "notifying"]]
    /\ UNCHANGED <<clock, event, handler, starts, ids, since, troubled>>

\* Mutant: the mark is not set.
Marked_Not(v) == v

Marked(v) == [v EXCEPT !.sent = TRUE]

SaveReminder(s) ==
    /\ scan[s].step = "saving"
    /\ event' = [event EXCEPT ![scan[s].at.id] = Marked(scan[s].at.copy)]
    /\ scan' = [scan EXCEPT ![s] = IF @.todo = {} THEN IdleScan
                                   ELSE [@ EXCEPT !.step = "resolving", !.at = NoItem]]
    /\ UNCHANGED <<clock, handler, starts, ids, reminded, since, troubled>>

\* A query fails, the scan ends, and the timer swallows the error.
ScanFails(s) ==
    /\ scan[s] # IdleScan
    /\ troubled' = troubled \cup (IF scan[s].step = "finding" THEN Unsent ELSE Held(s))
    /\ scan' = [scan EXCEPT ![s] = IdleScan]
    /\ UNCHANGED <<clock, event, handler, starts, ids, reminded, since>>

(***************************************************************************)
(* Requests: create, update, remove, respondToInvite.                      *)
(***************************************************************************)

\* An event is in a scan's hands, or a scan is about to read it.
Scanned(e) == \E s \in Scans : e \in Held(s) \/ scan[s].step = "finding"

\* History of an event whose owner saves or removes it.
Anew(e) ==
    /\ since' = [since EXCEPT ![e] = clock]
    /\ reminded' = [reminded EXCEPT ![e] = [r \in Recipients |-> 0]]
    /\ troubled' = IF Scanned(e) THEN troubled \cup {e} ELSE troubled \ {e}

Counted == starts < MaxStarts /\ starts' = starts + 1

Create(e, start, notice) ==
    /\ event[e] = NoEvent /\ Counted
    /\ event' = [event EXCEPT ![e] = [state |-> "open", start |-> start, notice |-> notice,
                                      sent |-> FALSE,
                                      rows |-> {[id |-> ids + 1, status |-> "pending"]}]]
    /\ ids' = ids + 1
    /\ Anew(e)
    /\ UNCHANGED <<clock, scan, handler>>

Begin(h, op, e) ==
    /\ handler[h] = Idle
    /\ event[e].state = "open" /\ Counted
    /\ op = "respond" => event[e].rows # {}
    /\ handler' = [handler EXCEPT ![h] = [op |-> op, id |-> e, copy |-> event[e]]]
    /\ UNCHANGED <<clock, event, scan, ids, reminded, since, troubled>>

Finish(h) == handler' = [handler EXCEPT ![h] = Idle]

\* A guest who is invited again keeps an answer, but for a refusal.
Invited(rows) ==
    {[id |-> ids + 1,
      status |-> IF \E r \in rows : r.status = "accepted" THEN "accepted" ELSE "pending"]}

\* The copy with its new time and participants, to be reminded of again.
Edited(v, start, notice, rows) ==
    [v EXCEPT !.start = start, !.notice = notice, !.rows = rows, !.sent = FALSE]

\* update: the participants stay those of the copy, are invited anew, or are dropped.
SaveUpdate(h, start, notice) ==
    /\ handler[h].op = "update"
    /\ LET e == handler[h].id
           v == handler[h].copy
       IN  /\ \E rows \in {v.rows, Invited(v.rows), {}} :
                event' = [event EXCEPT ![e] = Edited(v, start, notice, rows)]
           /\ Anew(e)
    /\ ids' = ids + 1
    /\ Finish(h)
    /\ UNCHANGED <<clock, scan, starts>>

\* Mutant: the participants of a removed event stay.
Removed_KeepsRows(v) == [v EXCEPT !.state = "none"]

\* The participants go with the event.
Removed(v) == NoEvent

Remove(h) ==
    /\ handler[h].op = "remove"
    /\ LET e == handler[h].id IN
       /\ event' = [event EXCEPT ![e] = Removed(@)]
       /\ Anew(e)
    /\ Finish(h)
    /\ UNCHANGED <<clock, scan, starts, ids>>

\* The guest's row is saved with its answer: a row that an update replaced meanwhile is
\* attached again, and with the event gone there is nothing to attach it to.
Respond(h, status) ==
    /\ handler[h].op = "respond"
    /\ LET e == handler[h].id IN
       \E r \in handler[h].copy.rows :
         /\ event[e].state = "open"
         /\ event' = [event EXCEPT ![e].rows =
                        {x \in @ : x.id # r.id} \cup {[r EXCEPT !.status = status]}]
    /\ Finish(h)
    /\ UNCHANGED <<clock, scan, starts, ids, reminded, since, troubled>>

RequestFails(h) ==
    /\ handler[h] # Idle
    /\ Finish(h)
    /\ UNCHANGED <<clock, event, scan, starts, ids, reminded, since, troubled>>

ScanStep(s) ==
    \/ \E batch \in SUBSET Events : Find(s, batch)
    \/ \E t \in scan[s].todo : Resolve(s, t)
    \/ \E r \in Recipients : Notify(s, r)
    \/ SaveReminder(s)

Next ==
    \/ Tick
    \/ \E s \in Scans : ScanStep(s) \/ ScanFails(s)
    \/ \E e \in Events, start \in Starts, notice \in Notices : Create(e, start, notice)
    \/ \E h \in Handlers :
         \/ \E op \in {"update", "remove", "respond"}, e \in Events : Begin(h, op, e)
         \/ \E start \in Starts, notice \in Notices : SaveUpdate(h, start, notice)
         \/ Remove(h)
         \/ \E status \in {"accepted", "declined"} : Respond(h, status)
         \/ RequestFails(h)

\* The timer of the process fires again and again, and every query answers or fails.
Fairness ==
    /\ WF_vars(Tick)
    /\ \A s \in Scans : WF_vars(ScanStep(s))

Spec == Init /\ [][Next]_vars /\ Fairness

(***************************************************************************)
(* Properties.                                                             *)
(***************************************************************************)

EventRows ==
    [state : {"none", "open"}, start : Starts \cup {0}, notice : Notices \cup {0},
     sent : BOOLEAN,
     rows : SUBSET [id : 0 .. ids, status : {"pending", "accepted", "declined"}]]

\* Rows are those of the entities, and a removed event leaves none.
TypeOK ==
    /\ clock \in 0 .. MaxTime
    /\ event \in [Events -> EventRows]
    /\ \A e \in Events : event[e].state = "none" => event[e] = NoEvent
    /\ \A s \in Scans : /\ scan[s].step \in {"idle", "finding", "resolving", "notifying", "saving"}
                        /\ Held(s) \subseteq Events /\ scan[s].rest \subseteq Recipients
    /\ \A h \in Handlers : handler[h].op \in {"idle", "update", "remove", "respond"}
    /\ starts \in 0 .. MaxStarts /\ ids \in Nat
    /\ reminded \in [Events -> [Recipients -> Nat]]
    /\ since \in [Events -> 0 .. MaxTime]
    /\ troubled \subseteq Events

\* Nobody is reminded twice of an event its owner has not saved again, however many scans
\* and answers follow - unless a scan that held the event failed half way or two held it.
RemindedOnce ==
    \A e \in Events \ troubled, r \in Recipients : reminded[e][r] <= 1

\* The event has begun, the mark is missing, and between the last change by its owner and
\* its beginning the timer fired at least once when the reminder was due.
Overdue(e) ==
    /\ event[e].state = "open" /\ ~ event[e].sent
    /\ event[e].notice > 0
    /\ since[e] + 1 < event[e].start /\ event[e].start <= clock

\* The owner of an event that lay still long enough is reminded of it in the end, also when
\* scans overlap - unless a scan was full without it, failed with it, or ran beside a change
\* of it.  (A notice of zero minutes is never due.)
EventuallyReminded ==
    \A e \in Events :
      Overdue(e) ~> (reminded[e]["owner"] > 0 \/ e \in troubled)

=============================================================================
