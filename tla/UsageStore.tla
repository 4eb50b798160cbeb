------------------------------ MODULE UsageStore ------------------------------
(***************************************************************************)
(* The table usage_records and what is made of it (db.rs).  Three sources  *)
(* fill it: the poll thread of the daemon, the helper's loop, which pushes *)
(* the usage of the last Window over and over, and the helper's history    *)
(* import, which pushes Span of the past in chunks.  After each poll the   *)
(* daemon deletes what retention no longer keeps and sums the hours that   *)
(* are over into usage_hourly, which the charts read.                      *)
(*                                                                         *)
(* Time passes in slots.  A row says how many busy slots it covers, for    *)
(* one app on one interface: rows of others behave alike.  Baselines and   *)
(* counters are Collector's.                                               *)
(***************************************************************************)
EXTENDS Integers, FiniteSetsExt

CONSTANTS
  HourSlots,   \* slots in an hour
  DayHours,    \* hours in a day
  Window,      \* --window-secs
  Span,        \* --days
  Chunk,       \* --chunk-hours
  Usages,      \* sets of slots in which the network was used
  Installed,   \* the slot in which the daemon is installed
  MaxTime,     \* bound: the last slot
  MaxDays,     \* bound: retention_days
  Budgets      \* bound: polls, rounds of the helper's loop, imports, requests that
               \* change retention_days, and faults of the daemon, that go together

ASSUME UsageAssumption ==
  /\ {HourSlots, DayHours, Window, Span, Chunk} \subseteq Nat \ {0}
  /\ {MaxTime, MaxDays} \subseteq Nat
  /\ Budgets \subseteq [{"polls", "pushes", "imports", "changes", "faults"} -> Nat]
  /\ Installed \in HourSlots + Span .. MaxTime
  /\ Installed >= HourSlots * DayHours
  /\ \A u \in Usages : u \subseteq 1 .. MaxTime

VARIABLES
  now,       \* the clock
  busy,      \* slots with traffic, of the past and the future
  rows,      \* usage_records
  hourly,    \* usage_hourly
  watermark, \* last_hour_ts of the aggregation, 0 for never
  settings,  \* retention_days, its last_run_day, import_status
  lastSeen,  \* interfaces.last_seen of the polled interface, 0 for no row
  poll,      \* the poll thread: where it is, its current_ts, its baseline's, the
             \* retention_days it has read, those in force since it began (history)
  helper,    \* the end of the window the loop has collected, 0 for none
  import,    \* the history import: where it is, its range and its cursor
  purged,    \* what was older than this may have been deleted (history)
  left       \* what is left of the budget

store == <<rows, hourly, watermark, settings, lastSeen>>
vars == <<now, busy, store, poll, helper, import, purged, left>>

Hour(t) == t \div HourSlots
Day(t) == Hour(t) \div DayHours

\* The slots a row speaks of.
Covered(r) == (r.from + 1) .. r.ts
Bytes(r) == Cardinality(Covered(r) \cap busy)
BytesOf(selected) == SumFunction([r \in selected |-> Bytes(r)])

\* An upsert on (ts, app_id, interface_id, source); empty samples are dropped.
Stored(r) ==
  IF Bytes(r) = 0
  THEN rows
  ELSE {q \in rows : <<q.ts, q.source>> # <<r.ts, r.source>>} \cup {r}

Down == [at |-> "down", ts |-> 0, baseline |-> 0, days |-> 0, inForce |-> {}]

Off == [at |-> "off", start |-> 0, cursor |-> 0, end |-> 0]

Init ==
  /\ now = Installed
  /\ busy \in Usages
  /\ rows = {}
  /\ hourly = {}
  /\ watermark = 0
  /\ settings = [days |-> 0, cleaned |-> 0, status |-> "idle"]
  /\ lastSeen = 0
  /\ poll = Down
  /\ helper = 0
  /\ import = Off
  /\ purged = 0
  /\ left \in Budgets

-----------------------------------------------------------------------------
(***************************************************************************)
(* The poll thread.                                                        *)
(***************************************************************************)

\* A mutant of Start: the watermark is put back with the settings.
StartForgettingWatermark ==
  /\ poll.at = "down"
  /\ poll' = [Down EXCEPT !.at = "sleeping"]
  /\ settings' = [days |-> 0, cleaned |-> 0, status |-> "idle"]
  /\ watermark' = 0
  /\ UNCHANGED <<now, busy, rows, hourly, lastSeen, helper, import, purged, left>>

\* Db::initialize puts the settings back; the delta engine is empty.
Start ==
  /\ poll.at = "down"
  /\ poll' = [Down EXCEPT !.at = "sleeping"]
  /\ settings' = [days |-> 0, cleaned |-> 0, status |-> "idle"]
  /\ UNCHANGED <<now, busy, rows, hourly, watermark, lastSeen, helper, import,
                 purged, left>>

\* sync_interfaces and insert_interface_deltas, with the timestamp of the poll.
Poll ==
  /\ poll.at = "sleeping"
  /\ left.polls > 0
  /\ left' = [left EXCEPT !.polls = @ - 1]
  /\ now > poll.baseline
  /\ poll' = [at |-> "stored", ts |-> now, baseline |-> now, days |-> 0,
              inForce |-> {settings.days}]
  /\ lastSeen' = now
  /\ rows' = IF poll.baseline = 0
             THEN rows
             ELSE Stored([ts |-> now, source |-> "interface_poll", from |-> poll.baseline])
  /\ UNCHANGED <<now, busy, hourly, watermark, settings, helper, import, purged>>

Rested(at) == [poll EXCEPT !.at = at, !.days = 0, !.inForce = {}]

\* run_retention_cleanup_if_due, once a day: it reads what the settings ask
\* for, one statement each, ...
ReadRetention ==
  /\ poll.at = "stored"
  /\ poll' = IF settings.cleaned >= Day(poll.ts)
             THEN Rested("retained")
             ELSE [poll EXCEPT !.at = "cleaning", !.days = settings.days]
  /\ UNCHANGED <<now, busy, store, helper, import, purged, left>>

\* A mutant of Clean: the deletion is not bounded by the days that were read.
CleanCurrentDay ==
  /\ poll.at = "cleaning"
  /\ poll.days > 0
  /\ poll' = Rested("retained")
  /\ settings' = [settings EXCEPT !.cleaned = Day(poll.ts)]
  /\ rows' = {r \in rows : Day(r.ts) >= Day(poll.ts)}
  /\ purged' = Max({Day(poll.ts) * DayHours * HourSlots, purged})
  /\ UNCHANGED <<now, busy, hourly, watermark, lastSeen, helper, import, left>>

\* ... and deletes in a transaction of its own, with what it has read.
Clean ==
  /\ poll.at = "cleaning"
  /\ poll' = Rested("retained")
  /\ settings' = [settings EXCEPT !.cleaned = Day(poll.ts)]
  /\ IF poll.days = 0
     THEN UNCHANGED <<rows, purged>>
     ELSE LET cutoff == (Day(poll.ts) - poll.days) * DayHours * HourSlots
          IN  /\ rows' = {r \in rows : r.ts >= cutoff}
              /\ purged' = Max({cutoff, purged})
  /\ UNCHANGED <<now, busy, hourly, watermark, lastSeen, helper, import, left>>

\* A transaction or a read fails, which is logged: the next poll tries again.
CleanFails ==
  /\ poll.at \in {"stored", "cleaning"}
  /\ left.faults > 0
  /\ left' = [left EXCEPT !.faults = @ - 1]
  /\ poll' = Rested("retained")
  /\ UNCHANGED <<now, busy, store, helper, import, purged>>

\* The hours a run of the aggregation sums up.
FirstHour(current) ==
  IF watermark # 0 THEN watermark + 1
  ELSE IF rows = {} THEN current ELSE Hour(Min({r.ts : r \in rows}))

\* A mutant of DueHours: the hour that has begun is summed as well.
DueHoursAndCurrent(current) == FirstHour(current) .. current

DueHours(current) == FirstHour(current) .. current - 1

\* A mutant of Sum: the first slot of the next hour is added as well.
SumInclusive(hour, source) ==
  [hour |-> hour, source |-> source,
   bytes |-> BytesOf({r \in rows : /\ r.source = source
                                   /\ hour * HourSlots <= r.ts
                                   /\ r.ts <= (hour + 1) * HourSlots})]

Sum(hour, source) ==
  [hour |-> hour, source |-> source,
   bytes |-> BytesOf({r \in rows : Hour(r.ts) = hour /\ r.source = source})]

\* run_hourly_aggregation_if_due: the sums replace those with the same key.
Aggregate ==
  /\ poll.at = "retained"
  /\ poll' = Rested("sleeping")
  /\ LET due == DueHours(Hour(poll.ts))
         sums == {Sum(Hour(r.ts), r.source) : r \in {q \in rows : Hour(q.ts) \in due}}
     IN  IF watermark >= Hour(poll.ts) - 1 \/ due = {}
         THEN UNCHANGED <<hourly, watermark>>
         ELSE /\ hourly' = sums \cup {o \in hourly : \A s \in sums :
                                        <<s.hour, s.source>> # <<o.hour, o.source>>}
              /\ watermark' = Max(due)
  /\ UNCHANGED <<now, busy, rows, settings, lastSeen, helper, import, purged, left>>

AggregateFails ==
  /\ poll.at = "retained"
  /\ left.faults > 0
  /\ left' = [left EXCEPT !.faults = @ - 1]
  /\ poll' = Rested("sleeping")
  /\ UNCHANGED <<now, busy, store, helper, import, purged>>

Die ==
  /\ poll.at # "down"
  /\ left.faults > 0
  /\ poll' = Down
  /\ left' = [left EXCEPT !.faults = @ - 1]
  /\ UNCHANGED <<now, busy, store, helper, import, purged>>

(***************************************************************************)
(* Requests, served by the IPC thread while the daemon is up.              *)
(***************************************************************************)
Up == poll.at # "down"

SetRetention(days) ==
  /\ Up
  /\ days # settings.days => left.changes > 0
  /\ left' = IF days = settings.days THEN left ELSE [left EXCEPT !.changes = @ - 1]
  /\ settings' = [settings EXCEPT !.days = days]
  /\ poll' = IF poll.at \in {"stored", "cleaning"}
             THEN [poll EXCEPT !.inForce = @ \cup {days}] ELSE poll
  /\ UNCHANGED <<now, busy, rows, hourly, watermark, lastSeen, helper, import,
                 purged>>

\* INGEST_ATTRIBUTED_USAGE.
Ingest(source, from, to) ==
  /\ Up
  /\ rows' = Stored([ts |-> to, source |-> source, from |-> from])
  /\ UNCHANGED <<now, busy, hourly, watermark, settings, lastSeen, poll, purged>>

\* SET_IMPORT_STATUS, whose failure the helper ignores.
Report(status) ==
  \/ /\ Up
     /\ settings' = [settings EXCEPT !.status = status]
  \/ UNCHANGED settings

(***************************************************************************)
(* The helper.                                                             *)
(***************************************************************************)

\* The loop asks Windows for the last Window ...
Collect ==
  /\ helper = 0
  /\ left.pushes > 0
  /\ left' = [left EXCEPT !.pushes = @ - 1]
  /\ helper' = now
  /\ UNCHANGED <<now, busy, store, poll, import, purged>>

\* ... and pushes it, or fails to and goes on with the next.
Push ==
  /\ helper # 0
  /\ helper' = 0
  /\ UNCHANGED <<import, left>>
  /\ \/ Ingest("helper", helper - Window, helper)
     \/ UNCHANGED <<now, busy, store, poll, purged>>

ImportChanges(changes) ==
  /\ import' = changes
  /\ UNCHANGED <<now, busy, rows, hourly, watermark, lastSeen, poll, helper, purged>>

StartImport ==
  /\ import.at = "off"
  /\ left.imports > 0
  /\ left' = [left EXCEPT !.imports = @ - 1]
  /\ Report("running")
  /\ ImportChanges([at |-> "chunk", start |-> now - Span, cursor |-> now - Span,
                    end |-> now])

ChunkEnd == Min({import.cursor + Chunk, import.end})

PushChunk ==
  /\ import.at = "chunk"
  /\ import' = [import EXCEPT !.at = "report", !.cursor = ChunkEnd]
  /\ UNCHANGED <<helper, left>>
  /\ Ingest("import", import.cursor, ChunkEnd)

\* A mutant of ChunkFails: the import goes on with the next chunk.
ChunkSkipped ==
  /\ import.at = "chunk"
  /\ ImportChanges([import EXCEPT !.at = "report", !.cursor = ChunkEnd])
  /\ UNCHANGED <<settings, left>>

\* Windows or the daemon refuses: the import ends, and says so to nobody.
ChunkFails ==
  /\ import.at = "chunk"
  /\ ImportChanges(Off)
  /\ UNCHANGED <<settings, left>>

ReportProgress ==
  /\ import.at = "report"
  /\ Report("running")
  /\ ImportChanges([import EXCEPT !.at = IF import.cursor < import.end
                                         THEN "chunk" ELSE "complete"])
  /\ UNCHANGED left

\* The range stays in import as long as its completion is what is reported.
Complete ==
  /\ import.at = "complete"
  /\ Report("complete")
  /\ ImportChanges([import EXCEPT !.at = "off"])
  /\ UNCHANGED left

Tick ==
  /\ now < MaxTime
  /\ now' = now + 1
  /\ UNCHANGED <<busy, store, poll, helper, import, purged, left>>

-----------------------------------------------------------------------------
Next ==
  \/ Start \/ Poll \/ ReadRetention \/ Clean \/ CleanFails
  \/ Aggregate \/ AggregateFails \/ Die
  \/ \E days \in 0 .. MaxDays : SetRetention(days)
  \/ Collect \/ Push
  \/ StartImport \/ PushChunk \/ ChunkFails \/ ReportProgress \/ Complete
  \/ Tick

Spec == Init /\ [][Next]_vars

-----------------------------------------------------------------------------
Sources == {"interface_poll", "helper", "import"}
Row == [ts : Nat, source : Sources, from : Int]
HourSum == [hour : Nat, source : Sources, bytes : Nat]

TypeOK ==
  /\ now \in Nat
  /\ busy \in Usages
  /\ rows \subseteq Row /\ IsFiniteSet(rows)
  /\ hourly \subseteq HourSum /\ IsFiniteSet(hourly)
  /\ watermark \in Nat
  /\ settings \in [days : Nat, cleaned : Nat, status : {"idle", "running", "complete"}]
  /\ lastSeen \in Nat
  /\ poll \in [at : {"down", "sleeping", "stored", "cleaning", "retained"},
               ts : Nat, baseline : Nat, days : Nat, inForce : SUBSET Nat]
  /\ helper \in Nat
  /\ import \in [at : {"off", "chunk", "report", "complete"},
                 start : Nat, cursor : Nat, end : Nat]
  /\ purged \in Nat

Rows(source) == {r \in rows : r.source = source}

(***************************************************************************)
(* implementation-status.md, pre-aggregation: the hours the aggregation    *)
(* has passed are summed up as the poll rows say, whatever died, was       *)
(* restarted or was deleted in between.                                    *)
(***************************************************************************)
PollHoursSummed ==
  \A r \in Rows("interface_poll") :
    Hour(r.ts) <= watermark => Sum(Hour(r.ts), "interface_poll") \in hourly

(***************************************************************************)
(* The archive of hours outlives the rows it was made of: no restart, no   *)
(* deletion and no late row ever changes an hour that was summed.          *)
(***************************************************************************)
SumsAreFinal == [][hourly \subseteq hourly']_vars

(***************************************************************************)
(* Rows disappear only for a retention that was in force since the poll    *)
(* began: not for one that was replaced before, nor after a restart, which *)
(* puts the setting back.                                                  *)
(***************************************************************************)
Replaced(r) == \E q \in rows' : q.ts = r.ts /\ q.source = r.source

DeletionsWereAskedFor ==
  [][\A r \in rows \ rows' :
       Replaced(r) \/ \E days \in poll.inForce \ {0} : Day(r.ts) < Day(poll.ts) - days]_vars

(***************************************************************************)
(* README.md, chunked import: an import that is reported complete has left *)
(* no gap in the range it was asked for, but for what retention deletes.   *)
(***************************************************************************)
ImportHasNoGap ==
  settings.status = "complete" /\ import.at = "off" =>
    \A slot \in busy \cap ((import.start + 1) .. import.end) :
      slot < purged \/ \E r \in Rows("import") : slot \in Covered(r)

\* A mutant of Cutover: the polls since the last one take precedence.
CutoverAtLastPoll ==
  LET candidates == {r.ts : r \in Rows("interface_poll")} \cup ({lastSeen} \ {0})
  IN  IF candidates = {} THEN {} ELSE {Max(candidates)}

\* poll_cutover: the first sign of the daemon at work.
Cutover ==
  LET candidates == {r.ts : r \in Rows("interface_poll")} \cup ({lastSeen} \ {0})
  IN  IF candidates = {} THEN {} ELSE {Min(candidates)}

\* What query_cap_usage_bytes adds up.
CapRows ==
  Rows("interface_poll") \cup {r \in Rows("import") : \A c \in Cutover : r.ts < c}

(***************************************************************************)
(* README.md, source cutover: polls and imports that cap usage counts do   *)
(* not speak of the same time, but for the first interval polled, where an *)
(* import may end.                                                         *)
(***************************************************************************)
CapsCountOnce ==
  \A r \in CapRows, p \in Rows("interface_poll") :
    r.source = "import" /\ Covered(r) \cap Covered(p) # {} =>
      \A q \in Rows("interface_poll") : p.ts <= q.ts

(***************************************************************************)
(* What makes these inductive.  Nothing is stored from the future, nor     *)
(* from before the first hour; ...                                         *)
(***************************************************************************)
Clocks ==
  /\ Installed <= now /\ now <= MaxTime
  /\ poll.ts <= now
  /\ poll.baseline <= now
  /\ helper # 0 => Installed <= helper /\ helper <= now
  /\ \A r \in rows : HourSlots <= r.ts /\ r.ts <= now

(***************************************************************************)
(* ... the archive ends where the aggregation has come to, before the      *)
(* current hour, and no hour is 0, the watermark of no aggregation; ...    *)
(***************************************************************************)
ArchiveEnds ==
  /\ watermark < Hour(now)
  /\ \A o \in hourly : 1 <= o.hour /\ o.hour <= watermark

(***************************************************************************)
(* ... a clean-up deletes for a retention that has been in force; ...      *)
(***************************************************************************)
RetentionRead ==
  /\ poll.at \in {"stored", "cleaning"} => settings.days \in poll.inForce
  /\ poll.at = "cleaning" => poll.days \in poll.inForce

(***************************************************************************)
(* ... a poll stores what came after the last one; ...                     *)
(***************************************************************************)
PollsInTurn ==
  /\ \A p, q \in Rows("interface_poll") : q.ts < p.ts => q.ts <= p.from
  /\ poll.baseline # 0 => \A q \in Rows("interface_poll") : q.ts <= poll.baseline

(***************************************************************************)
(* ... and an import has covered its range up to its cursor with rows that *)
(* none of its later chunks replaces.                                      *)
(***************************************************************************)
ImportAdvances ==
  /\ import.at # "off" => HourSlots <= import.start /\ import.end <= now
  /\ import.start <= import.cursor /\ import.cursor <= import.end
  /\ import.at = "chunk" => import.cursor < import.end
  /\ import.at \in {"complete", "off"} => import.cursor = import.end
  /\ \A slot \in busy \cap ((import.start + 1) .. import.cursor) :
       \/ slot < purged
       \/ \E r \in Rows("import") : slot \in Covered(r) /\ r.ts <= import.cursor

IInv ==
  /\ TypeOK /\ Clocks /\ ArchiveEnds /\ RetentionRead /\ PollsInTurn /\ ImportAdvances
  /\ PollHoursSummed

(***************************************************************************)
(* What the charts rest on besides.  A sum outlives its rows only below    *)
(* what was deleted, and is never ahead of them: ...                       *)
(***************************************************************************)
Archived(o) == o.hour * HourSlots < purged

SumsHaveRows ==
  \A o \in hourly : Archived(o) \/ \E r \in Rows(o.source) : Hour(r.ts) = o.hour

SumsLag == \A o \in hourly : Archived(o) \/ o.bytes <= Sum(o.hour, o.source).bytes

(***************************************************************************)
(* ... there is one sum and one row for each key, ...                      *)
(***************************************************************************)
KeysAreUnique ==
  /\ \A o, p \in hourly : o.hour = p.hour /\ o.source = p.source => o = p
  /\ \A r, q \in rows : r.ts = q.ts /\ r.source = q.source => r = q

(***************************************************************************)
(* ... and a row is replaced only by one that covers as much: windows have *)
(* one length, and so do chunks but for the last of an import, after which *)
(* no other of its time goes on.                                           *)
(***************************************************************************)
Length(r) == r.ts - r.from
Remains(n) == \E k \in 0 .. Span : n + k * Chunk = Span

LengthsAgree ==
  /\ \A r \in Rows("helper") : Length(r) = Window
  /\ \A r \in Rows("import") :
       /\ Length(r) \in 1 .. Chunk
       /\ r.ts = now \/ (import.at # "off" /\ r.ts = import.end) => Remains(Length(r))
  /\ import.at # "off" /\ import.cursor < import.end => Remains(import.end - import.cursor)

ArchiveInv == SumsHaveRows /\ SumsLag /\ KeysAreUnique /\ LengthsAgree

\* What query_usage_summary and query_app_breakdown add up.
SummaryRows == Rows("import") \cup Rows("helper")

(***************************************************************************)
(* README.md: "Daemon query path now enforces source-cutover precedence to *)
(* avoid overlap double-counting between import and live collection        *)
(* streams": where they speak of the same time, only imports that end      *)
(* before the helper's row are added to it.                                *)
(***************************************************************************)
SummaryCountsOnce ==
  \A r, q \in SummaryRows :
    r.source = "import" /\ q.source = "helper" /\ Covered(r) \cap Covered(q) # {} =>
      r.ts < q.ts
=============================================================================
