------------------------------ MODULE Collector ------------------------------
(***************************************************************************)
(* The poll loop of the daemon: runtime.rs reads the interface counters of *)
(* the operating system, delta.rs turns two successive readings into bytes *)
(* used, db.rs stores them as usage_records rows of source interface_poll. *)
(* Around it: the network moving bytes, adapters whose counters restart    *)
(* from zero, a wall clock that ticks, jumps over a suspend or is set back,*)
(* the IPC thread changing the poll interval, and a daemon that may die    *)
(* between any two steps.                                                  *)
(***************************************************************************)
EXTENDS Integers

CONSTANTS
  Interfaces,       \* interface GUIDs
  None,             \* no entry in a map keyed by GUID
  MaxDeltaBytes,    \* config.max_delta_bytes, the anomaly budget of one interval
  PollIntervals,    \* the poll intervals SET_SETTINGS accepts
  DefaultInterval,  \* the interval ensure_default_settings writes at startup
  MaxTraffic,       \* bound: bytes an interface moves, both directions together
  MaxClock          \* bound: largest wall-clock second

Dir == {"sent", "recv"}
Bytes == [Dir -> Nat]
Zero == [d \in Dir |-> 0]

ASSUME CollectorAssumption ==
  /\ None \notin Bytes
  /\ MaxDeltaBytes \in Nat
  /\ PollIntervals \subseteq Nat \ {0}
  /\ DefaultInterval \in PollIntervals
  /\ MaxTraffic \in Nat
  /\ MaxClock \in Nat

VARIABLES
  counter,    \* the octet counters of the OS: they grow, or restart from zero
  clock,      \* wall-clock seconds
  daemon,     \* "down", or where the poll loop stands
  sleepLeft,  \* seconds left of sleep_interruptible
  interval,   \* RuntimeState.poll_interval_seconds
  lastPoll,   \* RuntimeState.last_poll_ts, 0 before the first poll
  poll,       \* the poll in progress: its timestamp and its anomaly budget
  rows,       \* its snapshot: the counters of the interfaces it lists
  batch,      \* its deltas, computed and not yet stored
  previous,   \* DeltaEngine.previous, the baseline of each interface
  recorded,   \* bytes in usage_records, per interface and direction
  stamped,    \* the <<ts, interface>> keys of the unique index on usage_records
  \* History variables, read by the properties only.
  actual,     \* bytes the interface has really moved
  seen,       \* actual when rows was taken
  base,       \* actual when the interface was last read by compute
  shown,      \* what its counters showed then, None before the first time
  baseTs,     \* timestamp of the poll that took the baseline and ended
  excused     \* bytes given up for a reason the design names

envVars == <<counter, clock, actual>>
loopVars == <<daemon, sleepLeft, interval, lastPoll, poll, rows, batch, previous>>
dbVars == <<recorded, stamped>>
ghostVars == <<seen, base, shown, baseTs, excused>>
vars == <<envVars, loopVars, dbVars, ghostVars>>

LoopStates == {"down", "sleeping", "snapped", "synced", "computed"}

Nothing == [i \in Interfaces |-> None]
NoBytes == [i \in Interfaces |-> Zero]
NoPoll == [ts |-> 0, allowed |-> 0]

(***************************************************************************)
(* The delta engine.                                                       *)
(***************************************************************************)

\* A mutant of ObservedInterval: both ends of the interval are counted.
ObservedIntervalInclusive(last, now, nominal) ==
  IF last <= 0 \/ now <= last THEN nominal ELSE now - last + 1

\* Seconds since the last completed poll; the nominal interval when there
\* was none or when the clock did not advance.
ObservedInterval(last, now, nominal) ==
  IF last <= 0 \/ now <= last THEN nominal ELSE now - last

\* The anomaly budget, scaled to the observed interval and rounded up.
AllowedDelta(observed, nominal) ==
  (MaxDeltaBytes * observed + nominal - 1) \div nominal

\* A counter that went backwards was reset: what it shows now was moved
\* since, unless it is too much to be believed.
CounterDelta(prev, cur, allowed) ==
  IF cur >= prev THEN cur - prev
  ELSE IF cur <= allowed THEN cur ELSE 0

DeltaOf(i) ==
  [d \in Dir |-> CounterDelta(previous[i][d], rows[i][d], poll.allowed)]

\* A mutant of Emitted: a delta that just meets the budget is dropped.
EmittedBelowBudget(i) ==
  LET combined == DeltaOf(i)["sent"] + DeltaOf(i)["recv"]
  IN IF /\ rows[i] # None
        /\ previous[i] # None
        /\ combined > 0
        /\ combined < poll.allowed
     THEN DeltaOf(i)
     ELSE None

\* What compute emits for an interface: nothing on its first observation,
\* when no byte moved, and above the budget.
Emitted(i) ==
  LET combined == DeltaOf(i)["sent"] + DeltaOf(i)["recv"]
  IN IF /\ rows[i] # None
        /\ previous[i] # None
        /\ combined > 0
        /\ combined <= poll.allowed
     THEN DeltaOf(i)
     ELSE None

\* A mutant of Baseline: it does not move when the delta is emitted.
BaselineKept(i) ==
  IF rows[i] = None \/ Emitted(i) # None THEN previous[i] ELSE rows[i]

\* A mutant of Baseline: interfaces missing from the snapshot are forgotten.
BaselineRebuilt(i) == rows[i]

\* The baseline afterwards.
Baseline(i) == IF rows[i] = None THEN previous[i] ELSE rows[i]

BytesOf(entry, d) == IF entry = None THEN 0 ELSE entry[d]

(***************************************************************************)
(* What the design gives up at a reading of interface i, in terms of what  *)
(* was really moved and not of what the engine remembers: everything before*)
(* the first reading since the daemon started, everything above the budget,*)
(* and around a counter reset what was not emitted.  seen - rows is what   *)
(* had been moved at the last reset.                                       *)
(***************************************************************************)
Moved(i, d) == seen[i][d] - base[i][d]
WasReset(i) ==
  \E d \in Dir : seen[i][d] - rows[i][d] # base[i][d] - shown[i][d]
OverBudget(i) == Moved(i, "sent") + Moved(i, "recv") > poll.allowed

Excuse(i, d) ==
  IF rows[i] = None THEN 0
  ELSE IF shown[i] # None /\ WasReset(i)
       THEN Moved(i, d) - BytesOf(Emitted(i), d)
       ELSE IF shown[i] = None \/ OverBudget(i) THEN Moved(i, d) ELSE 0

-----------------------------------------------------------------------------
Init ==
  /\ counter = NoBytes
  /\ clock = 1
  /\ daemon = "down"
  /\ sleepLeft = 0
  /\ interval = DefaultInterval
  /\ lastPoll = 0
  /\ poll = NoPoll
  /\ rows = Nothing
  /\ batch = Nothing
  /\ previous = Nothing
  /\ recorded = NoBytes
  /\ stamped = {}
  /\ actual = NoBytes
  /\ seen = NoBytes
  /\ base = NoBytes
  /\ shown = Nothing
  /\ baseTs = [i \in Interfaces |-> 0]
  /\ excused = NoBytes

(***************************************************************************)
(* The environment.                                                        *)
(***************************************************************************)

Transfer(i, d) ==
  /\ actual[i]["sent"] + actual[i]["recv"] < MaxTraffic
  /\ actual' = [actual EXCEPT ![i][d] = @ + 1]
  /\ counter' = [counter EXCEPT ![i][d] = @ + 1]
  /\ UNCHANGED <<clock, loopVars, dbVars, ghostVars>>

\* A driver restart, a re-plugged adapter or a reboot.
ResetCounters(i) ==
  /\ counter[i] # Zero
  /\ counter' = [counter EXCEPT ![i] = Zero]
  /\ UNCHANGED <<clock, actual, loopVars, dbVars, ghostVars>>

Tick ==
  /\ clock < MaxClock
  /\ clock' = clock + 1
  /\ sleepLeft' = IF sleepLeft = 0 THEN 0 ELSE sleepLeft - 1
  /\ UNCHANGED <<counter, actual, daemon, interval, lastPoll, poll, rows,
                 batch, previous, dbVars, ghostVars>>

\* The wall clock moves without the sleeping thread noticing: forwards over
\* a suspend, either way when somebody sets it.
SetClock(t) ==
  /\ t # clock
  /\ clock' = t
  /\ UNCHANGED <<counter, actual, loopVars, dbVars, ghostVars>>

(***************************************************************************)
(* Start and death of the daemon.  The delta engine and RuntimeState live  *)
(* in memory and die with it; a new one polls at once, with the default    *)
(* interval because Db::initialize upserts every default setting.          *)
(***************************************************************************)
Start ==
  /\ daemon = "down"
  /\ daemon' = "sleeping"
  /\ interval' = DefaultInterval
  /\ UNCHANGED <<envVars, sleepLeft, lastPoll, poll, rows, batch, previous,
                 dbVars, ghostVars>>

ForgetPoll ==
  /\ poll' = NoPoll
  /\ rows' = Nothing
  /\ batch' = Nothing
  /\ seen' = NoBytes

\* Bytes computed and not stored are lost.
GiveUpBatch ==
  excused' = [i \in Interfaces |->
                [d \in Dir |-> excused[i][d] + BytesOf(batch[i], d)]]

Crash ==
  /\ daemon # "down"
  /\ daemon' = "down"
  /\ GiveUpBatch
  /\ ForgetPoll
  /\ sleepLeft' = 0
  /\ lastPoll' = 0
  /\ previous' = Nothing
  /\ shown' = Nothing
  /\ baseTs' = [i \in Interfaces |-> 0]
  /\ UNCHANGED <<envVars, interval, dbVars, base>>

\* SET_SETTINGS on the IPC thread; a sleep under way keeps its length.
SetInterval(n) ==
  /\ daemon # "down"
  /\ n # interval
  /\ interval' = n
  /\ UNCHANGED <<envVars, daemon, sleepLeft, lastPoll, poll, rows, batch,
                 previous, dbVars, ghostVars>>

(***************************************************************************)
(* One poll.  Every way out of it, good or bad, goes back to sleep for the *)
(* current interval.                                                       *)
(***************************************************************************)
EndPoll ==
  /\ daemon' = "sleeping"
  /\ sleepLeft' = interval
  /\ ForgetPoll

\* Read the clock and RuntimeState, then list the interfaces that are there.
TakeSnapshot(visible) ==
  /\ daemon = "sleeping"
  /\ sleepLeft = 0
  /\ daemon' = "snapped"
  /\ poll' = [ts |-> clock,
              allowed |-> AllowedDelta(
                  ObservedInterval(lastPoll, clock, interval), interval)]
  /\ rows' = [i \in Interfaces |-> IF i \in visible THEN counter[i] ELSE None]
  /\ seen' = [i \in Interfaces |-> IF i \in visible THEN actual[i] ELSE seen[i]]
  /\ UNCHANGED <<envVars, sleepLeft, interval, lastPoll, batch, previous,
                 dbVars, base, shown, baseTs, excused>>

SnapshotFails ==
  /\ daemon = "sleeping"
  /\ sleepLeft = 0
  /\ EndPoll
  /\ UNCHANGED <<envVars, interval, lastPoll, previous, dbVars, base, shown,
                 baseTs, excused>>

SyncInterfaces ==
  /\ daemon = "snapped"
  /\ daemon' = "synced"
  /\ UNCHANGED <<envVars, sleepLeft, interval, lastPoll, poll, rows, batch,
                 previous, dbVars, ghostVars>>

\* An empty snapshot returns before the database is opened.
SyncFails ==
  /\ daemon = "snapped"
  /\ rows # Nothing
  /\ EndPoll
  /\ UNCHANGED <<envVars, interval, lastPoll, previous, dbVars, base, shown,
                 baseTs, excused>>

\* DeltaEngine::compute: the baseline of every listed interface moves,
\* whether or not its delta is emitted.
ComputeDeltas ==
  /\ daemon = "synced"
  /\ daemon' = "computed"
  /\ batch' = [i \in Interfaces |-> Emitted(i)]
  /\ previous' = [i \in Interfaces |-> Baseline(i)]
  /\ shown' = [i \in Interfaces |-> IF rows[i] = None THEN shown[i] ELSE rows[i]]
  /\ base' = [i \in Interfaces |-> IF rows[i] = None THEN base[i] ELSE seen[i]]
  /\ excused' = [i \in Interfaces |->
                   [d \in Dir |-> excused[i][d] + Excuse(i, d)]]
  /\ UNCHANGED <<envVars, sleepLeft, interval, lastPoll, poll, rows, dbVars,
                 seen, baseTs>>

Pending == {i \in Interfaces : batch[i] # None}
Keys == {<<poll.ts, i>> : i \in Pending}

BaselineTimes ==
  [i \in Interfaces |-> IF rows[i] = None THEN baseTs[i] ELSE poll.ts]

\* One transaction; afterwards the cap, AFK, retention and aggregation
\* passes run, whose errors are swallowed, and last_poll_ts is set.
InsertDeltas ==
  /\ daemon = "computed"
  /\ Keys \cap stamped = {}
  /\ recorded' = [i \in Interfaces |->
                    [d \in Dir |-> recorded[i][d] + BytesOf(batch[i], d)]]
  /\ stamped' = stamped \cup Keys
  /\ lastPoll' = poll.ts
  /\ baseTs' = BaselineTimes
  /\ EndPoll
  /\ UNCHANGED <<envVars, interval, previous, base, shown, excused>>

\* The database fails, or a row of this second is already there and the
\* unique index refuses the whole transaction.
InsertFails ==
  /\ daemon = "computed"
  /\ Pending # {}
  /\ GiveUpBatch
  /\ baseTs' = BaselineTimes
  /\ EndPoll
  /\ UNCHANGED <<envVars, interval, lastPoll, previous, dbVars, base, shown>>

-----------------------------------------------------------------------------
Traffic ==
  \/ \E i \in Interfaces, d \in Dir : Transfer(i, d)
  \/ \E i \in Interfaces : ResetCounters(i)

Poll ==
  \/ \E visible \in SUBSET Interfaces : TakeSnapshot(visible)
  \/ SnapshotFails
  \/ SyncInterfaces
  \/ SyncFails
  \/ ComputeDeltas
  \/ InsertDeltas
  \/ InsertFails

Next ==
  \/ Traffic
  \/ Tick
  \/ \E t \in 1..MaxClock : SetClock(t)
  \/ Start
  \/ Crash
  \/ \E n \in PollIntervals : SetInterval(n)
  \/ Poll

Spec == Init /\ [][Next]_vars

-----------------------------------------------------------------------------
TypeOK ==
  /\ counter \in [Interfaces -> Bytes]
  /\ clock \in Nat
  /\ daemon \in LoopStates
  /\ sleepLeft \in Nat
  /\ interval \in PollIntervals
  /\ lastPoll \in Nat
  /\ poll \in [ts : Nat, allowed : Nat]
  /\ rows \in [Interfaces -> Bytes \cup {None}]
  /\ batch \in [Interfaces -> Bytes \cup {None}]
  /\ previous \in [Interfaces -> Bytes \cup {None}]
  /\ recorded \in [Interfaces -> Bytes]
  /\ stamped \subseteq Nat \X Interfaces
  /\ actual \in [Interfaces -> Bytes]
  /\ seen \in [Interfaces -> Bytes]
  /\ base \in [Interfaces -> Bytes]
  /\ shown \in [Interfaces -> Bytes \cup {None}]
  /\ baseTs \in [Interfaces -> Nat]
  /\ excused \in [Interfaces -> Bytes]

(***************************************************************************)
(* No byte is counted twice or invented: whatever the counters, the clock  *)
(* and the failures do, usage_records never holds more bytes of an         *)
(* interface than it moved.                                                *)
(***************************************************************************)
NeverOvercounts ==
  \A i \in Interfaces, d \in Dir : recorded[i][d] <= actual[i][d]

(***************************************************************************)
(* No byte is lost silently: at every moment what the interface had moved  *)
(* when the baseline was taken is recorded, or waits in the batch, or was  *)
(* given up for one of the reasons the design names (first observation,    *)
(* counter reset, over budget, failed insert, crash).  A failed snapshot, a*)
(* failed sync, an interface missing from a poll, a change of the interval *)
(* or of the clock are not among them.                                     *)
(***************************************************************************)
EveryByteAccountedFor ==
  \A i \in Interfaces, d \in Dir :
    recorded[i][d] + BytesOf(batch[i], d) + excused[i][d] = base[i][d]

(***************************************************************************)
(* What makes both inductive: a counter read later than another one either *)
(* advanced by exactly what was moved in between, or was reset and shows   *)
(* at most that.                                                           *)
(***************************************************************************)
Follows(later, earlier, movedLater, movedEarlier) ==
  \A d \in Dir :
    /\ movedEarlier[d] <= movedLater[d]
    /\ \/ later[d] - earlier[d] = movedLater[d] - movedEarlier[d]
       \/ later[d] <= movedLater[d] - movedEarlier[d]

BaselineFollowed ==
  \A i \in Interfaces :
    /\ \A d \in Dir : base[i][d] <= actual[i][d]
    /\ previous[i] # None =>
         Follows(counter[i], previous[i], actual[i], base[i])

SnapshotFollowed ==
  \A i \in Interfaces : rows[i] # None =>
    /\ Follows(counter[i], rows[i], actual[i], seen[i])
    /\ \A d \in Dir : base[i][d] <= seen[i][d]
    /\ previous[i] # None => Follows(rows[i], previous[i], seen[i], base[i])

\* The baseline is the last reading of the interface since the daemon started.
BaselineIsLastReading == previous = shown

BatchOnlyWhenComputed == daemon # "computed" => batch = Nothing

IInv ==
  /\ TypeOK
  /\ EveryByteAccountedFor
  /\ BaselineFollowed
  /\ SnapshotFollowed
  /\ BaselineIsLastReading
  /\ BatchOnlyWhenComputed

(***************************************************************************)
(* A row that is stored fits the budget of the time that really passed     *)
(* since the baseline of its interface was taken.                          *)
(***************************************************************************)
StoresFit ==
  \A i \in Interfaces : recorded'[i] # recorded[i] =>
    BytesOf(batch[i], "sent") + BytesOf(batch[i], "recv")
      <= AllowedDelta(poll.ts - baseTs[i], interval)
=============================================================================
