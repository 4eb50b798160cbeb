------------------------------ MODULE CapAlerts ------------------------------
(***************************************************************************)
(* Data caps and the alerts they fire (db.rs, runtime.rs).  Two threads of *)
(* the daemon evaluate the caps, statement by statement, each statement a  *)
(* transaction of its own: the poll thread after it has stored usage, the  *)
(* IPC thread after it has saved a cap.  The IPC thread also deletes caps  *)
(* and marks alerts delivered, one request at a time.  TrayAlerts takes it *)
(* from there to the user.                                                 *)
(***************************************************************************)
EXTENDS Integers, FiniteSets, Functions

CONSTANTS
  Guids,       \* interfaces
  Null,        \* the interface_guid of a global cap
  None,        \* no evaluation
  Amounts,     \* monthly_cap_bytes a cap may have
  DaysPerMonth,
  MaxCapId,    \* bound: cap definitions ever created
  MaxUse,      \* bound: bytes an interface uses in a month
  MaxDay       \* bound: last day

Scopes == Guids \cup {Null}
Days == 0 .. MaxDay
Threads == {"poll", "ipc"}

Percent == [pct_50 |-> 50, pct_80 |-> 80, pct_95 |-> 95]
MonthlyKinds == DOMAIN Percent
Kinds == MonthlyKinds \cup {"daily_cap"}

CapDefinition == [id : Nat, guid : Scopes, bytes : Amounts, active : BOOLEAN]
Cap(id, guid, bytes, active) ==
  [id |-> id, guid |-> guid, bytes |-> bytes, active |-> active]

Evaluation ==
  [day : Days, read : SUBSET CapDefinition, todo : SUBSET CapDefinition,
   cap : CapDefinition \cup {None}, due : SUBSET Kinds, dailyLeft : BOOLEAN]

ASSUME CapAssumption ==
  /\ IsFiniteSet(Guids)
  /\ Null \notin Guids
  /\ Amounts \subseteq Nat \ {0}
  /\ DaysPerMonth \in Nat \ {0}
  /\ MaxCapId \in Nat
  /\ MaxUse \in Nat
  /\ MaxDay \in Nat
  /\ None \notin CapDefinition
  /\ None \notin Evaluation

VARIABLES
  day,       \* the current UTC day
  used,      \* usage_records, summed per day and interface
  caps,      \* table monthly_cap_definitions
  nextCap,   \* its AUTOINCREMENT
  events,    \* table cap_alert_events
  eval       \* evaluate_cap_alerts in progress in each thread

vars == <<day, used, caps, nextCap, events, eval>>

(***************************************************************************)
(* Windows, usage and thresholds.                                          *)
(***************************************************************************)
WindowStart(kind, d) ==
  IF kind = "daily_cap" THEN d ELSE d - (d % DaysPerMonth)

InScope(guid) == IF guid = Null THEN Guids ELSE {guid}

\* query_cap_usage_bytes from the start of the window to the day itself.
Usage(guid, kind, d) ==
  SumFunctionOnSet([at \in Days \X Guids |-> used[at[1]][at[2]]],
                   (WindowStart(kind, d) .. d) \X InScope(guid))

\* A mutant of ThresholdBytes: percentages are rounded down.
ThresholdBytesDown(bytes, kind) ==
  IF kind = "daily_cap" THEN (bytes + 29) \div 30
  ELSE (bytes * Percent[kind]) \div 100

\* threshold_bytes_for_percent and derive_daily_cap_bytes: rounded up.
ThresholdBytes(bytes, kind) ==
  IF kind = "daily_cap" THEN (bytes + 29) \div 30
  ELSE (bytes * Percent[kind] + 99) \div 100

ThresholdValue(bytes, kind) ==
  IF kind = "daily_cap" THEN ThresholdBytes(bytes, kind) ELSE Percent[kind]

Reached(c, kind, d) == Usage(c.guid, kind, d) >= ThresholdBytes(c.bytes, kind)

\* The unique index on cap_alert_events.
Key(e) == <<e.cap, e.start, e.kind, e.value>>

Alert(c, kind, d) ==
  [cap |-> c.id, guid |-> c.guid, bytes |-> c.bytes,
   kind |-> kind, day |-> d, start |-> WindowStart(kind, d),
   value |-> ThresholdValue(c.bytes, kind), delivered |-> FALSE]

-----------------------------------------------------------------------------
Init ==
  /\ day = 0
  /\ used = [d \in Days |-> [g \in Guids |-> 0]]
  /\ caps = {}
  /\ nextCap = 1
  /\ events = {}
  /\ eval = [t \in Threads |-> None]

NextDay ==
  /\ day < MaxDay
  /\ day' = day + 1
  /\ UNCHANGED <<used, caps, nextCap, events, eval>>

(***************************************************************************)
(* evaluate_cap_alerts.  It works on the definitions it has read at the    *)
(* start and on the day it was called with.                                *)
(***************************************************************************)
Started(definitions) ==
  LET active == {c \in definitions : c.active}
  IN IF active = {} THEN None
     ELSE [day |-> day, read |-> active, todo |-> active, cap |-> None,
           due |-> {}, dailyLeft |-> FALSE]

\* The next cap, and which of its percentages its monthly usage has reached.
TakeCap(t) ==
  /\ eval[t] # None
  /\ eval[t].cap = None
  /\ \E c \in eval[t].todo :
       /\ \A other \in eval[t].todo : c.id <= other.id
       /\ eval' = [eval EXCEPT
            ![t].todo = @ \ {c},
            ![t].cap = c,
            ![t].due = {k \in MonthlyKinds : Reached(c, k, eval[t].day)},
            ![t].dailyLeft = TRUE]
  /\ UNCHANGED <<day, used, caps, nextCap, events>>

ReadDailyUsage(t) ==
  /\ eval[t] # None
  /\ eval[t].cap # None
  /\ eval[t].dailyLeft
  /\ eval[t].due = {}
  /\ eval' = [eval EXCEPT
       ![t].dailyLeft = FALSE,
       ![t].due = {k \in {"daily_cap"} : Reached(eval[t].cap, k, eval[t].day)}]
  /\ UNCHANGED <<day, used, caps, nextCap, events>>

\* A mutant of InsertAlert: a conflicting row is replaced.
InsertAlertReplacing(t) ==
  /\ eval[t] # None
  /\ \E k \in eval[t].due :
       LET e == Alert(eval[t].cap, k, eval[t].day)
           same == {f \in events : Key(f) = Key(e)}
       IN /\ \E c \in caps : c.id = e.cap
          /\ events' = (events \ same) \cup {e}
          /\ eval' = [eval EXCEPT ![t].due = @ \ {k}]
  /\ UNCHANGED <<day, used, caps, nextCap>>

\* A mutant of InsertAlert: the key of the unique index is not looked at.
InsertAlertAgain(t) ==
  /\ eval[t] # None
  /\ \E k \in eval[t].due :
       LET e == Alert(eval[t].cap, k, eval[t].day)
       IN /\ \E c \in caps : c.id = e.cap
          /\ events' = events \cup {e}
          /\ eval' = [eval EXCEPT ![t].due = @ \ {k}]
  /\ UNCHANGED <<day, used, caps, nextCap>>

\* A mutant of InsertAlert: foreign keys are not enforced.
InsertAlertUnchecked(t) ==
  /\ eval[t] # None
  /\ \E k \in eval[t].due :
       LET e == Alert(eval[t].cap, k, eval[t].day)
       IN /\ events' = IF \E f \in events : Key(f) = Key(e)
                       THEN events ELSE events \cup {e}
          /\ eval' = [eval EXCEPT ![t].due = @ \ {k}]
  /\ UNCHANGED <<day, used, caps, nextCap>>

\* ON CONFLICT DO NOTHING; percentages go in ascending order.
InsertAlert(t) ==
  /\ eval[t] # None
  /\ \E k \in eval[t].due :
       LET e == Alert(eval[t].cap, k, eval[t].day)
       IN /\ \A other \in eval[t].due \ {k} : Percent[k] < Percent[other]
          /\ \E c \in caps : c.id = e.cap
          /\ events' = IF \E f \in events : Key(f) = Key(e)
                       THEN events ELSE events \cup {e}
          /\ eval' = [eval EXCEPT ![t].due = @ \ {k}]
  /\ UNCHANGED <<day, used, caps, nextCap>>

\* The cap is gone, the foreign key refuses its alert and the caps that
\* follow are not evaluated.
AbortEvaluation(t) ==
  /\ eval[t] # None
  /\ eval[t].due # {}
  /\ \A c \in caps : c.id # eval[t].cap.id
  /\ eval' = [eval EXCEPT ![t] = None]
  /\ UNCHANGED <<day, used, caps, nextCap, events>>

\* A mutant of FinishCap: it returns after the first cap.
FinishFirstCap(t) ==
  /\ eval[t] # None
  /\ eval[t].cap # None
  /\ eval[t].due = {}
  /\ ~eval[t].dailyLeft
  /\ eval' = [eval EXCEPT ![t] = None]
  /\ UNCHANGED <<day, used, caps, nextCap, events>>

FinishCap(t) ==
  /\ eval[t] # None
  /\ eval[t].cap # None
  /\ eval[t].due = {}
  /\ ~eval[t].dailyLeft
  /\ eval' = [eval EXCEPT ![t] =
                IF eval[t].todo = {} THEN None ELSE [@ EXCEPT !.cap = None]]
  /\ UNCHANGED <<day, used, caps, nextCap, events>>

Evaluate(t) ==
  \/ TakeCap(t)
  \/ ReadDailyUsage(t)
  \/ InsertAlert(t)
  \/ AbortEvaluation(t)
  \/ FinishCap(t)

\* A poll stores what the interface used since the last one and evaluates.
Poll(g, n) ==
  /\ eval["poll"] = None
  /\ Usage(Null, "pct_50", day) + n <= MaxUse
  /\ used' = [used EXCEPT ![day][g] = @ + n]
  /\ eval' = [eval EXCEPT !["poll"] = Started(caps)]
  /\ UNCHANGED <<day, caps, nextCap, events>>

(***************************************************************************)
(* The IPC thread, one request at a time.                                  *)
(***************************************************************************)

\* UPSERT_CAP_DEFINITION: the row of that id, if any, is rewritten; then a
\* row is inserted unless one conflicts, and NULL conflicts with nothing.
\* An update that collides with another interface cap fails.
UpsertCap(id, guid, bytes, active) ==
  LET edited == {IF c.id = id THEN Cap(id, guid, bytes, active) ELSE c : c \in caps}
      conflicting == {c \in edited : guid # Null /\ c.guid = guid}
  IN /\ eval["ipc"] = None
     /\ Cardinality(conflicting) <= 1
     /\ IF conflicting = {}
        THEN /\ nextCap <= MaxCapId
             /\ caps' = edited \cup {Cap(nextCap, guid, bytes, active)}
             /\ nextCap' = nextCap + 1
        ELSE /\ caps' = (edited \ conflicting)
                  \cup {Cap(c.id, guid, bytes, active) : c \in conflicting}
             /\ UNCHANGED nextCap
     /\ eval' = [eval EXCEPT !["ipc"] = Started(caps')]
     /\ UNCHANGED <<day, used, events>>

\* DELETE_CAP_DEFINITION, with its alerts (ON DELETE CASCADE).
DeleteCap(id) ==
  /\ eval["ipc"] = None
  /\ caps' = {c \in caps : c.id # id}
  /\ events' = {e \in events : e.cap # id}
  /\ UNCHANGED <<day, used, nextCap, eval>>

\* MARK_CAP_ALERT_EVENTS_DELIVERED.
MarkDelivered(marked) ==
  /\ eval["ipc"] = None
  /\ events' = {IF e \in marked THEN [e EXCEPT !.delivered = TRUE] ELSE e
                  : e \in events}
  /\ UNCHANGED <<day, used, caps, nextCap, eval>>

\* The daemon dies, and is started again; nothing of an evaluation is kept.
DaemonRestart ==
  /\ \E t \in Threads : eval[t] # None
  /\ eval' = [t \in Threads |-> None]
  /\ UNCHANGED <<day, used, caps, nextCap, events>>

-----------------------------------------------------------------------------
Requests ==
  \/ \E id \in 0 .. MaxCapId, guid \in Scopes, bytes \in Amounts,
        active \in BOOLEAN : UpsertCap(id, guid, bytes, active)
  \/ \E id \in 1 .. MaxCapId : DeleteCap(id)
  \/ \E e \in events : MarkDelivered({e})

Next ==
  \/ NextDay
  \/ \E g \in Guids, n \in 0 .. MaxUse : Poll(g, n)
  \/ \E t \in Threads : Evaluate(t)
  \/ Requests
  \/ DaemonRestart

Spec == Init /\ [][Next]_vars

-----------------------------------------------------------------------------
AlertRecord ==
  [cap : Nat, guid : Scopes, bytes : Amounts, kind : Kinds, day : Days,
   start : Int, value : Int, delivered : BOOLEAN]

TypeOK ==
  /\ day \in Days
  /\ used \in [Days -> [Guids -> Nat]]
  /\ caps \subseteq CapDefinition
  /\ nextCap \in Nat \ {0}
  /\ events \subseteq AlertRecord
  /\ eval \in [Threads -> Evaluation \cup {None}]

(***************************************************************************)
(* An alert belongs to a cap that exists, although evaluations work on a   *)
(* list of caps read earlier and caps are deleted meanwhile.               *)
(***************************************************************************)
NoOrphanAlerts == \A e \in events : \E c \in caps : c.id = e.cap

(***************************************************************************)
(* One-shot alerts: no two rows for the same cap, window and threshold,    *)
(* although two threads evaluate at the same time.                         *)
(***************************************************************************)
OneShotAlerts == \A e, f \in events : Key(e) = Key(f) => e = f

(***************************************************************************)
(* What makes both inductive: an evaluation that has an alert to insert is *)
(* at a cap.                                                               *)
(***************************************************************************)
DueHasCap == \A t \in Threads : eval[t] # None /\ eval[t].due # {} => eval[t].cap # None

IInv == TypeOK /\ DueHasCap /\ NoOrphanAlerts /\ OneShotAlerts

(***************************************************************************)
(* PRD US-06: 50%, 80%, 95% of the cap and a thirtieth of it in a day: the *)
(* usage of the window of an alert has really reached that part of the cap *)
(* the alert speaks of.                                                    *)
(***************************************************************************)
AlertsJustified ==
  \A e \in events :
    IF e.kind = "daily_cap"
    THEN 30 * Usage(e.guid, e.kind, e.day) >= e.bytes
    ELSE 100 * Usage(e.guid, e.kind, e.day) >= Percent[e.kind] * e.bytes

(***************************************************************************)
(* A delivered alert never becomes new again: no later evaluation of the   *)
(* same window and no edit of the cap shows it to the user once more.      *)
(***************************************************************************)
DeliveredStays ==
  [][\A e \in events, f \in events' :
       Key(e) = Key(f) /\ e.delivered => f.delivered]_vars

(***************************************************************************)
(* When the evaluation of a poll comes to its end, every cap it found      *)
(* active and that still exists has its alert for every threshold usage    *)
(* had reached at that poll.                                               *)
(***************************************************************************)
Settled(c, kind, d) ==
  (\E x \in caps : x.id = c.id) /\ Reached(c, kind, d) =>
     \E e \in events : Key(e) = Key(Alert(c, kind, d))

PollMissesNothing ==
  [][FinishCap("poll") /\ eval'["poll"] = None =>
       \A c \in eval["poll"].read, k \in Kinds : Settled(c, k, eval["poll"].day)]_vars

(***************************************************************************)
(* What makes AlertsJustified inductive: what an evaluation is about to    *)
(* insert has been reached, and usage only grows.                          *)
(***************************************************************************)
DueIsReached ==
  \A t \in Threads : eval[t] # None =>
    \A k \in eval[t].due : Reached(eval[t].cap, k, eval[t].day)

(***************************************************************************)
(* What PollMissesNothing rests on: the evaluation of a poll has settled   *)
(* the caps it is done with, and of the current one what is not due, nor   *)
(* still to be looked at; a deleted cap never comes back.                  *)
(***************************************************************************)
IdsBelow == \A c \in caps \cup (IF eval["poll"] = None THEN {} ELSE eval["poll"].read) :
              c.id < nextCap

PollSettles ==
  LET ev == eval["poll"]
  IN  ev # None =>
        \A c \in ev.read \ ev.todo, k \in Kinds :
          \/ Settled(c, k, ev.day)
          \/ c = ev.cap /\ (k \in ev.due \/ (k = "daily_cap" /\ ev.dailyLeft))

PInv == IdsBelow /\ PollSettles

(***************************************************************************)
(* The schema of db.rs: UNIQUE INDEX idx_monthly_caps_scope_interface      *)
(* ON monthly_cap_definitions(scope, interface_guid), one definition for   *)
(* the machine and one for each interface.                                 *)
(***************************************************************************)
OneDefinitionPerScope == \A c, d \in caps : c.guid = d.guid => c = d
=============================================================================
