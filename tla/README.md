# SingularityMonitor, verified

SingularityMonitor measures how much traffic a Windows machine moves. A daemon
(Rust, `crates/daemon`) polls the interface counters, notes when nobody is at
the machine, watches data caps and serves all of this over a named pipe. A
helper (`crates/helper`) asks Windows for the traffic of single applications and
pushes it to the daemon. A viewer (C#, WinUI, `viewer`) shows it and stays in
the tray. Everything is kept in one SQLite database.

This directory holds TLA+ models of the parts of the program in which order,
failure and concurrency matter, the TLC runs that check them on small
instances, and proofs that TLAPS checks for every instance.

## The system

| Component | State | Operations | Talks to |
|---|---|---|---|
| Poll loop, `runtime.rs`, `delta.rs`, `poller.rs` | baseline per interface, time of the last poll, poll interval | snapshot, sync of interfaces, deltas, insert, sleep | database, IPC thread (the interval) |
| AFK windows, `runtime.rs` 777, `db.rs` 1719 | windows in the database | capture from the idle time, merge, retention | poll thread and IPC thread write both |
| Caps and alerts, `db.rs` 1296-1607 | definitions, alert events, delivery state | upsert, delete, evaluate, list, mark delivered | poll thread and IPC thread evaluate both |
| Daemon process, pipe, settings, `main.rs`, `service.rs`, `ipc.rs` | stop flag, pipe instance, settings in the database and in memory | start, stop, exit, accept, read, handle, reply | all clients |
| Usage table, `db.rs` 263-398, 560-906 | `usage_records`, `usage_hourly`, its watermark, retention | insert, ingest, delete, sum, the queries | poll thread, helper, viewer |
| Helper, `helper/src/main.rs` | the import's cursor | loop, chunked import, import status | Windows, the pipe |
| Tray, `TrayIconController.cs` | refresh task, dispatcher queue, what was shown | tooltip, balloons, mark, exit | the pipe, the UI thread |
| Queries, `db.rs` 725-1268, 1609-1717 | none | summary, breakdowns, heatmap, audit, forecast, anomalies | IPC thread, the usage tables |
| Reliability counters, `db.rs` 182-261 | counters and last error in the settings | mark start and exit, count errors, report | both threads, the status request |
| Viewer pages, `MainPage.xaml.cs`, `HelperManager.cs` | what is on the page, onboarding | refresh, start an import, save settings | the pipe, helper processes |

The daemon has two threads. The *poll thread* runs `poll_and_store`: snapshot,
`sync_interfaces`, deltas, insert, cap alerts, AFK window, retention, hourly
aggregation, one after the other, each a transaction of its own, and then sleeps.
The *IPC thread* serves one pipe client after another with blocking calls. They
meet in the database, where each request and each step of a poll is one or
several transactions on a connection of its own, and in one mutex-protected
record with the interval and the last poll. The tray sends a request and waits
three seconds at most; a request it has given up is still served.

Hard to test here, and what the models are for: steps of the two threads in any
order; failing inserts after state in memory has moved; counters that restart
and clocks that are set; the daemon dying between two transactions; requests
served after their sender gave up; the viewer killed between showing and
marking; rows that come late; a stop that waits for a blocking call. The list
with source lines is `hazards` in `PROJECT.json`.

What makes each component correct:

* poll loop: no byte counted twice, none lost without a reason the design names;
* AFK windows: disjoint, the union of the ranges recorded, no input inside;
* alerts: one per cap, window and threshold, never missed by a poll, justified
  by the usage, gone with their cap, delivered only after they were shown;
* pipe: one client at a time, everyone answered or told, a setting that is
  stored comes into effect and stays, a stop ends the daemon;
* usage: hours summed as polled and once for all, deletions that were asked for,
  an import without gaps, no time counted twice;
* queries: two of them agree on the same time, cutovers hold, the forecast's line
  is the best one;
* counters: a status explains the error it names, counting disturbs nothing;
* page: onboarding ends when it was earned, the card offers what it says, every
  import ends.

## Modules

`Collector`, `AfkWindows`, `CapAlerts`, `TrayAlerts`, `Daemon`, `UsageStore` and
`ViewerPage` model one component each. They share no variables: what one
abstracts another one has. `Reliability` extends `Daemon` with the books it
keeps, `Analytics` extends `UsageStore` with the queries over its tables.
Definitions keep the names of the source where they can; `map` in
`PROJECT.json` gives the lines of each. Definitions called *a mutant of X* are
wrong on purpose: with one in the place of X, TLC must find the property that
guards it violated.

**Collector** (proofs: `CollectorProofs`). `previous` is the delta engine,
`lastPoll` and `interval` the shared record, `recorded` the sums of
`usage_records`, `counter` the adapters' octets and `actual` what was really
moved. A poll is `TakeSnapshot`, `SyncInterfaces`, `ComputeDeltas`,
`InsertDeltas` or one of the failures; `ComputeDeltas` moves the baseline of
every interface listed whether or not a delta is emitted, and `InsertFails`
leaves `lastPoll` where it was. Traffic, counter resets, interfaces that come
and go, a clock that is set, `SetInterval` from the IPC thread and `Crash` may
happen anywhere. `excused` notes, per interface and direction, what the design
gives up: traffic before the first baseline, what was lost in a reset, deltas
above the anomaly budget, batches that failed.

**AfkSeconds**, **AfkWindows** (`AfkWindowsProofs`). The abstract specification
is the set of seconds noted as away: a whole range is recorded at once, old
seconds are forgotten. The detailed one has windows, and for each thread the
transaction that has read what it touches and not yet written. A deferred SQLite
transaction whose snapshot is no longer current cannot write: `OthersStale`
marks it when another one commits, and it can only roll back. `CaptureAway` computes the
window from the timestamp of the poll, the idle reading taken later and the
threshold in force.

**CapAlerts** (`CapAlertsProofs`). `evaluate_cap_alerts` runs statement by
statement without a transaction (`TakeCap`, `ReadDailyUsage`, `InsertAlert`,
`FinishCap`), in the poll thread and at a request, on the definitions it has read at its
start; meanwhile caps are edited and deleted (`ON DELETE CASCADE`; an insert
for a deleted cap aborts the evaluation) and alerts are marked. Edits keep the
behaviour of `upsert_cap_definition`: an `UPDATE` by id and then always an
`INSERT .. ON CONFLICT`.

**TrayAlerts** (`TrayAlertsProofs`). The refresh loop of the tray is cut at its
awaits: `loop` says what it waits for, `posted` that its continuation waits in
the dispatcher queue. A request that times out stays in `requests` and may be
served later. `Restart` kills the viewer. `Exit`, `LoopCancelled` and
`DisposeReturns` are the tray menu's exit.

**Daemon** (`ReliabilityProofs`). `main` is the main thread, `server` the IPC thread
cut at its blocking calls, `peer` the client at the other end of the pipe,
`inbox` its request. One setting, the poll interval, is followed through the
database (`stored`), the main thread (`read`) and the shared record (`live`).

**Reliability** (`ReliabilityProofs`). Every step of Daemon takes its
bookkeeping with it: a process opens the database for its counters (`OpenFirst`,
which puts them back), marks its start and builds the runtime (`StartRuntime`,
which opens the database again and puts them back again); a poll that fails and a
client whose line or answer fails are counted, or the count fails and is
logged (`Record`); an ended process marks its clean exit after it has reported
that it has stopped (`RuntimeEnds`, `MarkCleanExit`), when the next one may be up
already. `ReadLastError` and `ReadCounts` are the statements of a status
request. The process is the service; the console only names its stages otherwise.

**UsageStore** (`UsageProofs`). Time is cut in slots; a row covers the slots from its baseline
to its timestamp and counts the busy ones. The poll thread stores, reads
`retention_days` (`ReadRetention`), deletes what it no longer keeps (`Clean`) and
sums closed hours into `usage_hourly` (`Aggregate`), and may fail at each or
die between them; requests change the retention in between. The helper's loop
collects a window and pushes it later; an import pushes chunk after chunk and
reports. `CapRows` and `SummaryRows` are what the queries of cap usage and of the
summary add up. `purged` and `poll.inForce` are history: what may have been
deleted, and which retention was in force since the poll began.

**Analytics** (`UsageProofs`, `SumTheorems`). Each query is an operator over the two tables. A range longer
than `LongRange`, or a bucket of an hour and more, is read from `usage_hourly`.
The cutovers of heatmap and audit are read from the rows that are left. The
forecast is integer arithmetic over a common denominator (`Fit`, `Projected`),
the anomalies compare in multiples of the number of rows, so that nothing is
rounded. `Heatmap` fails unless all filters are given, as the code does, see below.

**ViewerPage** (`ViewerPageProofs`). `page` and `enabled` are the fields of the
page and its buttons; each of the `Handlers` is an `async void` handler under way,
cut at its awaits, with the import process it waits for. A request is answered at one step and its
answer shown at another, with other handlers in between; after three seconds, or
without a daemon, it fails (`Unanswered`). `StartImport`, `PushChunk`,
`PushFails` and `CompleteImport` are the helper process: it reports its status
to the daemon without caring whether that works, and what it prints at its end is
what `Conclude` judges. `earned` is history: an import of the card went through,
or the user skipped it.

## Runs

| Run | Instance | Shows |
|---|---|---|
| `collector` | 1 interface, 2 directions, interval 1 or 2, traffic up to 3 bytes, budget 2, a clock that may be set up to 2 and advances to 5 | `NeverOvercounts`, `EveryByteAccountedFor`, `IInv`; `StoredRowsFitTheirWindow` as long as clock, interval and inserts are left alone |
| `afk` | 7 seconds, thresholds 3 and 4, some ranges from IPC | `WindowsApart`, `NoInputWhileAfk`, `IInv`, `ImplementsSeconds` |
| `caps` | 1 interface, both threads; 2 caps on one day, or 1 cap edited over 2 days of a month | `NoOrphanAlerts`, `OneShotAlerts`, `AlertsJustified`, `PollMissesNothing`, `DeliveredStays` |
| `tray` | 3 alerts, lists of 2, 2 late requests, 1 restart, fairness | `DeliveredWereShown`, `IInv`, `EveryAlertShown` |
| `daemon` | 2 clients, 2 settings, fairness | `IInv`, `HotReload`, `NobodyIsLeftWaiting`, `StopCompletes` |
| `reliability` | 1 client, 2 settings, 3 errors | `RInv`, `StatusExplainsItsError`, `ImplementsDaemon` |
| `usage` | hours of 2 slots, days of 1 hour, an import of 2 slots in chunks of 1, windows of 2; five budgets of polls, pushes, imports, changes of retention and faults | `PollHoursSummed`, `SumsAreFinal`, `DeletionsWereAskedFor`, `ImportHasNoGap`, `CapsCountOnce`; of the queries `BreakdownsAddUp`, `ArchiveShowsNoMore`, `HeatmapCountsOnce`, `AuditKeepsItsSources`, `AnomaliesStandOut`, `TrendIsLeastSquares`, `SteadyUseGoesOn` |
| `page` | 2 handlers at a time, imports of 1 chunk, 2 clicks, 1 death of the daemon, fairness | `IInv`, `FlagIsEarned`, `CardOffersWhatItSays`, `OneImportPerButton`, `EveryImportEnds` |
| `caps_global`, `tray_exit`, `daemon_restart`, `usage_summary` | | violated, see below |

Each property is stated in words above its definition.

### Bounds, and why they are enough

Every bound is a constant whose comment says *bound*. Collector: a budget of 2
and traffic up to 3 admit deltas below, at and above the budget, resets that
look like growth and resets above it; `WildClock` of 2 has polls in the same
second and a clock set back, and while everything is left alone the clock goes
on to 5, for a poll after a pause. Interfaces do not influence each other in
`compute`, so one is enough for TLC, and the proofs are for any number.
AfkWindows: seven seconds hold two windows with a gap that a third range bridges
exactly, or leaves open by one second. CapAlerts: two caps so that an evaluation
that stops at the first misses one; 3 bytes, of which the four thresholds round
up to 1, 2 and 3; 40 bytes, of which a day's thirtieth is 2 and the rest out of
reach. TrayAlerts: three alerts for lists of two. Daemon has no bound: a request
is served at a time, and two clients are one that is served and one that waits.
Reliability: three errors are one in each thread and one more between the
statements of a status; one client, since the clients are Daemon's; a process
does not end before its predecessor has marked its exit, a write to the database. UsageStore:
the hour and the day that close both lie inside the run; a day is one hour, so
that a retention of one day does delete within eight slots. Everything at once
is out of TLC's reach: `Budgets` lists what goes together, an import and the loop
with polls up to the end or with a second round of the loop, an import and the loop
with a change of retention, the loop and two changes of retention with a fault, an
import with a fault; each property has a budget in which its mutant fails it. The
forecast's arithmetic is checked for all samples of up to four days with small
values. ViewerPage: two clicks beside the handler of the page's load are two
handlers that overlap, the most a pair of answers needs to come in the wrong
order; the daemon dies once, anywhere, and starts again or does not.

### Fairness

`TrayAlerts!Fairness`: the loop and the dispatcher run, a daemon that is asked
again and again answers, and mark requests and balloons do not fail for ever (strong
fairness). Without the latter an alert is, rightly, never shown.
`TrayAlerts!ExitFairSpec` grants the loop, its cancellation and the dispatcher
everything, and exit still does not complete.
`Daemon!Fairness`: threads run; reading the setting does not fail for ever;
clients come again, as the tray does on its timer, one of those that wait is
accepted in the end, and one that is connected asks, reads or leaves. The last
is an assumption on the clients and not on the code: the pipe has no timeout, and
a client that connects and stays silent holds up the others and a stop. That
clients come is needed too: `ConnectNamedPipe` does not return at a stop.
`ViewerPage!Fairness`: a request ends within its three seconds, answered or not,
the dispatcher runs what is ready, and an import process gets on with its chunks
or fails. Nothing is assumed of the daemon, which may stay down. The run may stop:
a page nobody clicks on does nothing.

### What the code does and a document says it does not

* `caps_global`: the unique index does not apply to a NULL guid, so each save of
  the global cap adds a definition (`db.rs` 1346, 2557).
* `tray_exit`: `Dispose` blocks the UI thread on a task whose continuations run
  in it (`TrayIconController.cs` 92).
* `daemon_restart`: `ensure_default_settings` writes all settings back to their
  defaults at every start (`db.rs` 1857), the onboarding flag and the
  reliability counters included.
* `usage_summary`: the summary and the app breakdown have no cutover and add
  imports to what the helper pushed of the same time (`db.rs` 805).

More behaviours TLC shows with other instances or formulas, for which no
document says otherwise clearly, or which a run above states a condition for:

* With inserts that fail, `StoredRowsFitTheirWindow` is violated: the baseline
  has moved, `last_poll_ts` has not, and the next row, of one interval, is
  judged by the budget of two.
* `NoInputWhileAfk` needs a poll to reach its idle reading two seconds before
  the shortest threshold is over (`PollsAreQuick`); with `MaxStall = 4` and a threshold of 3 a suspend in
  between puts input inside a window.
* `PollHoursSummed` stated for source `import` is violated: a poll between two
  chunks of an import moves the watermark past the hours of the chunks that
  still come, and these hours never reach `usage_hourly`, which all charts of an
  hour or longer read.
* `WF` instead of the assumption on silent clients refutes `StopCompletes`.
* The heatmap and the forecast bind all their parameters but name only the filters
  that were asked for, which rusqlite refuses: without an app filter, and
  the viewer sends none, the heatmap always fails (`db.rs` 941-966); without an
  interface and a type the forecast does (995-1012, 1094-1110).
* `HeatmapCountsOnce` needs its exception for hours whose helper rows retention
  deleted: the cutover moves, the sums stay.
* Anomalies compare the total of an hour with the average of single rows, not of
  hours (`db.rs` 1133): with two sources in an hour the baseline is too low.
* The forecast adds polls and helper rows of the same time and numbers the days it
  has without those that are missing (`db.rs` 1001, 1032).
* The helper's loop pushes five minutes every minute (`HelperManager.cs` 77), and
  rows are unique by their end: readers of helper rows add each minute five times.
* The second `initialize` of a start puts back what `mark_daemon_start` has
  counted, `session_open` included: start and unexpected counts are always 0 in a
  status, and a death is never noticed.
* A failed import leaves `import_status` at `running`: the `finally` of the page
  then disables the card's buttons again and writes over "You can retry or skip
  for now." (`MainPage.xaml.cs` 1066, 1073), until an import completes or the
  daemon is started again.
* The card's buttons come back at the first status that does not say `running`,
  which may be before the helper has reported: two imports of the card can run side by
  side. An older answer to a settings request can bring the card back after
  it was skipped, and "Initial import is running..." stays when it no longer is.

## Proofs

TLAPS proves, for every value of the constants the modules' `ASSUME`s allow:

| Theorem | Says |
|---|---|
| `CollectorProofs!TypeCorrect`, `NoOvercount`, `AllBytesAccountedFor` | types; no overcount; every byte recorded, pending or excused |
| `CollectorProofs!RowsFit` | rows of a machine left alone fit the budget of their time |
| `AfkWindowsProofs!WindowsStayApart`, `WindowsImplementSeconds` | windows disjoint and not adjacent; `AfkWindows` implements `AfkSeconds` |
| `AfkWindowsProofs!NobodyWasThere` | no input inside a window, if `PollsAreQuick` |
| `CapAlertsProofs!AlertsHaveTheirCap`, `AlertsAreOneShot` | no orphans; one alert per cap, window and threshold |
| `CapAlertsProofs!AlertsAreJustified`, `PollsMissNothing`, `DeliveredAlertsStay` | an alert's usage reached its threshold; a poll that ends has an alert for all that was reached; delivered is for good |
| `TrayAlertsProofs!DeliveredAfterShown` | what is delivered was shown |
| `ReliabilityProofs!ServedOneAtATime`, `InvariantHolds` | one client at a time; exit comes last |
| `ReliabilityProofs!BooksHold`, `StatusIsExplained` | the books are consistent; a status has counted the error it names |
| `ReliabilityProofs!DaemonIsImplemented` | `Reliability` implements `Daemon` |
| `ViewerPageProofs!OnboardingIsEarned`, `CardIsHonest`, `OneImportEach` | the page's flag, card and button, however handlers overlap |
| `UsageProofs!PollHoursAreSummed`, `ArchiveIsFinal` | hours summed as polled, once for all |
| `UsageProofs!DeletionsAsAsked`, `ImportsAreWhole`, `CapUsageCountsOnce` | deletions asked for; imports without gaps; polls and imports counted once |
| `UsageProofs!HeatmapIsCut`, `SourcesAreKept` | the cutover of the heatmap; the audit keeps to the source it has reported a time from, until the helper's rows are deleted |
| `UsageProofs!ArchiveIsNotAhead`, `BreakdownsAgree` | the archive shows no more than the rows, and as much where hours are summed; the former if `HourSlots > 1`, an hour being longer than the finest bucket |
| `UsageProofs!ReportedStandOut` | an anomaly used more than each of a baseline of ten |
| `UsageProofs!FitIsLeastSquares`, `SteadyIsProjected` | the forecast's line is the best one, for every number of days and every use; a steady change goes on. `TrendFits` and `SteadyUseIsProjected` are the samples of the run |

`PollsAreQuick` says that every threshold is at least `MaxStall + 2`, `MaxStall`
being the longest time between a poll's timestamp and its idle reading. The code
accepts no threshold below 30 seconds (`db.rs` 431), so it is an assumption on
the machine: no poll stalls for 28.

Every state property follows from an inductive invariant of its module, `IInv`,
`RInv`, `QInv` of AfkWindows, `PInv` of CapAlerts, `ArchiveInv` of UsageStore or
`AloneInv` of MCCollector. The runs check `IInv` of Collector, AfkWindows,
TrayAlerts, Daemon and ViewerPage and `RInv`; TLC has found the others, and
`PushesInTurn` of Analytics, to hold on the same instances, where they may be
added to the configuration.

* Collector: "recorded + pending + excused = moved up to the baseline" is
  preserved only if the baseline and the snapshot in hand are readings of the
  counters of their time. `BaselineFollowed` and `SnapshotFollowed` say so: a
  later reading is an earlier one plus what was moved, unless a reset was seen.
  For `RowsFit` the clock is past the last poll whenever the loop wakes
  (`ClockIsAhead`), and the last poll is never older than a baseline, of which
  there is none before the first poll (`BaselinesOfPolls`): the time a budget is
  computed from is never longer than the time the delta has been moved in.
* AfkWindows: a commit keeps windows apart because what its transaction read is
  what is there; `ReadsCurrent` says so of transactions that are not stale.
  The refinement maps windows to the union of their seconds; a commit is
  `Record`, retention `Forget`, the rest stutters. For `NobodyWasThere` the range
  a transaction is about to merge is as quiet as the windows are (`PollRange`),
  which rests on the idle reading being taken soon after the timestamp.
* CapAlerts: `DueHasCap` relates the evaluation's place to its cap; inserts
  keep the key unique and check the cap. What is due has been reached, and usage
  only grows (`DueIsReached`). A poll has settled the caps it is done with, and of
  the one it is at each threshold but those that are due or still to be looked at
  (`PollSettles`); an id is never given twice, so that a deleted cap stays away
  (`IdsBelow`).
* TrayAlerts: `OnlyShownAreMarked` extends the property to requests under way,
  `KnownWereFired` keeps ids from being used again.
* Reliability: a status is read in two statements, between which the other thread
  may write. `BooksConsistent` says that the last error has been counted;
  counters only grow while a process serves, so what was read first is still
  explained by what is read later (`StatusInProgress`); they are put back only
  by a process that does not serve yet (`BootsWhenDown`). That `Reliability`
  implements `Daemon` needs no invariant: each of its steps is a step of Daemon or
  changes none of its variables, and the identity is the refinement mapping.
  The mark of a clean exit comes after Stopped, so that the next process may be up:
  `OneLateExit` says that it is counted at most once there, and that nothing else
  of a process that serves is counted but its errors. It is preserved because the
  runtime's start puts the counters back (`BootsWhenDown`) and one mark at most is due then.
* ViewerPage: `HandlersInStep` says that a handler asks only what its kind asks
  and rests only when its process is over; `ClaimsAreEarned` that whoever is about
  to mark, or has been told that onboarding is over, or has imported for the card,
  has it earned, so that the answer may be shown at any later time. A handler that
  shows an answer ends in `UpdateOnboardingCard`, which establishes what the card
  says whatever the page was (`CardUpdated`); the others leave page and buttons
  alone (`Aside`) or are an import that begins (`ClickImportStep`) or ends (`Ends`).
* Daemon: `OneClientAtATime` ties each client's state to `peer`; `RequestInHand`
  says which steps of the server have a request.
* UsageStore: an hour that is summed is closed, because a poll stores rows from
  its own time only (`Clocks`, `PollsInTurn`) and the watermark stays behind the
  clock (`ArchiveEnds`); so what was summed is what the rows still say. A deletion
  uses a retention that has been in force (`RetentionRead`). An import has covered
  its range up to its cursor with rows that no later chunk replaces
  (`ImportAdvances`).
* Analytics rests on `ArchiveInv` too. Late rows make the rows exceed their sum,
  never the reverse (`SumsLag`), but only because a row that replaces another
  one covers as much (`LengthsAgree`): windows have one length, and the short chunk
  that ends an import ends at the time it was started.
* The audit's cutover is the end of the oldest helper row that is left. It moves
  back only with a row that ends before all others; the loop pushes a window before
  it collects the next one (`PushesInTurn`), so no push is such a row unless there
  was none (`CutOfAudit` says what is added up in terms of the rows themselves).
  It moves on only when retention deletes, oldest first.
* Sums: a query's total is a fold over a set of rows. `SumTheorems` proves that it
  does not depend on the order, that it is the sum of the totals of any division of
  the rows, and that it grows with the rows. Induction over finite sets is done by
  a counterexample that is smallest, which needs no induction rule. The breakdowns
  then agree because rows divide by hour as the archive does.
* `ReportedStandOut` is Samuelson's bound: one of ten numbers is no further than
  three deviations from their mean, so who is further than that from it is not
  among them nor below one of them.
* `FitIsLeastSquares`: the line solves the normal equations, also when all days
  are one; the error of another line exceeds its error by a sum of squares.

Not proved: liveness (`EveryAlertShown`, `HotReload`, `NobodyIsLeftWaiting`,
`StopCompletes`, `EveryImportEnds`), which TLAPS cannot reason about here. It is
only model-checked, and so is what the four runs that expect a violation refute.

## Not modelled

JSON, logging, configuration; calls of Windows, which appear as what they may
return, the metered flag of an interface among them; SQLite, taken to be atomic
per transaction, with snapshot reads and one writer; compaction, which changes no
state of the program; the performance harness, scripts and packaging. In the
models that there are: `UsageStore` leaves failing inserts to Collector, and the
upserts of apps and interfaces and the totals of an import out; `Reliability`
leaves timestamps and messages out; the `--once` mode of the daemon and the probe
mode of the helper are left out; poisoned mutexes, which need a panic, do not
occur. Of the viewer's pages only the onboarding card and the import are
modelled: the other cards send one request, show its answer and keep no state
that another one reads. Starting the helper's loop and its registration at login
are one call each: the loop's behaviour is in `UsageStore`. That
`EnsureLoopRunning` takes any process named helper, an import included, for the
loop is left out with it.

## Plan

Done, in this order: Collector, AfkSeconds and AfkWindows, CapAlerts, TrayAlerts,
Daemon, UsageStore, Analytics, ViewerPage, Reliability; proofs of every
invariant and of every action property that a run checks. Next:

1. An abstract specification of the usage table, a set of slots that are
   accounted for, and UsageStore shown to implement it.
2. Composition: Daemon's IPC thread with CapAlerts, so that an evaluation at a
   request lasts as long as the request does.
3. Proofs: shorter ones for the ranges of `UsageProofs`, by one lemma about a
   partition of rows in place of one for each query.
