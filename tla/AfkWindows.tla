----------------------------- MODULE AfkWindows -----------------------------
(***************************************************************************)
(* The AFK windows: at every poll the daemon turns the idle time of the    *)
(* machine into a range of seconds and merges it into the afk_windows      *)
(* table (runtime.rs capture_afk_window, db.rs upsert_afk_window), while   *)
(* the IPC thread merges ranges it is sent, the retention pass deletes old *)
(* windows and the user comes back at any moment.                          *)
(*                                                                         *)
(* A merge is a deferred transaction: it reads the windows the range       *)
(* touches, then writes.  SQLite lets the write through only if nothing    *)
(* was committed since the read.                                           *)
(***************************************************************************)
EXTENDS Integers

CONSTANTS
  None,
  Thresholds,  \* afk_idle_threshold_seconds as clamped by capture_afk_window
  Time,        \* seconds of the wall clock a window may reach
  IpcRanges,   \* ranges UPSERT_AFK_WINDOW requests carry
  MaxStall,    \* bound: seconds from the start of a poll to its idle reading
  MaxNow       \* bound: largest second

Writers == {"poll", "ipc"}
Range(from, to) == [start |-> from, end |-> to]
Ranges == [start : Time, end : Time]
Transactions == [range : Ranges, touched : SUBSET Ranges, stale : BOOLEAN]

ASSUME AfkAssumption ==
  /\ Thresholds \subseteq Nat \ {0}
  /\ Thresholds # {}
  /\ IpcRanges \subseteq Ranges
  /\ MaxStall \in Nat
  /\ MaxNow \in Nat \ {0}
  /\ 1 .. MaxNow \subseteq Time
  /\ Time \subseteq Nat
  /\ None \notin Transactions
  /\ None \notin Nat

VARIABLES
  now,        \* wall-clock seconds
  lastInput,  \* what GetLastInputInfo knows
  inputs,     \* every second the user touched the machine (history)
  threshold,  \* the afk_idle_threshold_seconds setting
  pollTs,     \* current_ts of the poll in progress, None between polls
  windows,    \* table afk_windows
  open        \* the merge each thread is in the middle of, None otherwise

vars == <<now, lastInput, inputs, threshold, pollTs, windows, open>>

Init ==
  /\ now = 1
  /\ lastInput = 1
  /\ inputs = {1}
  /\ threshold \in Thresholds
  /\ pollTs = None
  /\ windows = {}
  /\ open = [t \in Writers |-> None]

-----------------------------------------------------------------------------
(***************************************************************************)
(* Time and the user.                                                      *)
(***************************************************************************)

\* A poll takes time; MaxStall bounds how much until it reads the idle time.
Tick ==
  /\ now < MaxNow
  /\ pollTs # None /\ open["poll"] = None => now - pollTs < MaxStall
  /\ now' = now + 1
  /\ UNCHANGED <<lastInput, inputs, threshold, pollTs, windows, open>>

Input ==
  /\ lastInput # now
  /\ lastInput' = now
  /\ inputs' = inputs \cup {now}
  /\ UNCHANGED <<now, threshold, pollTs, windows, open>>

(***************************************************************************)
(* The merge.                                                              *)
(***************************************************************************)

\* A mutant of Touches: windows one second apart are left apart.
TouchesOverlap(w, r) == w.start <= r.end /\ w.end >= r.start

\* Overlapping the range, or adjacent to it.
Touches(w, r) == w.start <= r.end + 1 /\ w.end >= r.start - 1

Begin(t, r) ==
  /\ open[t] = None
  /\ open' = [open EXCEPT ![t] =
                [range |-> r,
                 touched |-> {w \in windows : Touches(w, r)},
                 stale |-> FALSE]]

\* Somebody else's commit makes every transaction that has read stale.
OthersStale(t) ==
  [u \in Writers |->
     IF u = t THEN None
     ELSE IF open[u] = None THEN None ELSE [open[u] EXCEPT !.stale = TRUE]]

\* SET_SETTINGS on the IPC thread.
SetThreshold(n) ==
  /\ open["ipc"] = None
  /\ n # threshold
  /\ threshold' = n
  /\ open' = OthersStale("ipc")
  /\ UNCHANGED <<now, lastInput, inputs, pollTs, windows>>

\* A mutant of MergedOf: the range only grows to the right.
MergedOfRightward(tx, w) ==
  LET parts == tx.touched \cup {tx.range}
  IN /\ w.start = tx.range.start
     /\ \E p \in parts : w.end = p.end
     /\ \A p \in parts : p.end <= w.end

\* w spans the range and every window it touches, and no more.
MergedOf(tx, w) ==
  LET parts == tx.touched \cup {tx.range}
  IN /\ \E p \in parts : w.start = p.start
     /\ \E p \in parts : w.end = p.end
     /\ \A p \in parts : w.start <= p.start /\ p.end <= w.end

\* A mutant of Commit: the write does not notice that its read is stale.
CommitStale(t) ==
  /\ open[t] # None
  /\ \E p, q \in open[t].touched \cup {open[t].range} :
       LET merged == Range(p.start, q.end)
       IN /\ MergedOf(open[t], merged)
          /\ windows' = (windows \ open[t].touched) \cup {merged}
  /\ open' = OthersStale(t)
  /\ pollTs' = IF t = "poll" THEN None ELSE pollTs
  /\ UNCHANGED <<now, lastInput, inputs, threshold>>

\* An insert when the range touches nothing; otherwise the first window it
\* touches is stretched and the others are deleted.
Commit(t) ==
  /\ open[t] # None
  /\ ~open[t].stale
  /\ \E p, q \in open[t].touched \cup {open[t].range} :
       LET merged == Range(p.start, q.end)
       IN /\ MergedOf(open[t], merged)
          /\ windows' = (windows \ open[t].touched) \cup {merged}
  /\ open' = OthersStale(t)
  /\ pollTs' = IF t = "poll" THEN None ELSE pollTs
  /\ UNCHANGED <<now, lastInput, inputs, threshold>>

\* A stale snapshot, a busy or a full database: rolled back, the poll only
\* warns and the IPC client gets an error; nobody tries again.
Rollback(t) ==
  /\ open[t] # None
  /\ open' = [open EXCEPT ![t] = None]
  /\ pollTs' = IF t = "poll" THEN None ELSE pollTs
  /\ UNCHANGED <<now, lastInput, inputs, threshold, windows>>

(***************************************************************************)
(* The poll.                                                               *)
(***************************************************************************)
StartPoll ==
  /\ pollTs = None
  /\ pollTs' = now
  /\ UNCHANGED <<now, lastInput, inputs, threshold, windows, open>>

\* A mutant of AfkStart: the window starts at the last input.
AfkStartAtInput(ts, idle) == ts - idle

\* The first second past the threshold, as seen from the poll's timestamp.
AfkStart(ts, idle) == ts - idle + threshold

\* GetLastInputInfo in whole seconds: now and the last input are rounded
\* down before the difference is known, so it may be one less.
IdleSeconds == {n \in {now - lastInput, now - lastInput - 1} : n >= 0}

Away(idle) ==
  /\ idle >= threshold
  /\ AfkStart(pollTs, idle) \in 1 .. pollTs

\* capture_afk_window up to the read of its transaction.
CaptureAway(idle) ==
  /\ pollTs # None
  /\ Away(idle)
  /\ Begin("poll", Range(AfkStart(pollTs, idle), pollTs))
  /\ UNCHANGED <<now, lastInput, inputs, threshold, pollTs, windows>>

\* Not idle for long enough, a start out of range, or the poll failed
\* before it came to this.
EndPollWithoutWindow ==
  /\ pollTs # None
  /\ open["poll"] = None
  /\ pollTs' = None
  /\ UNCHANGED <<now, lastInput, inputs, threshold, windows, open>>

\* The retention pass of the poll, after the capture.
Retain(cutoff) ==
  /\ open["poll"] = None
  /\ windows' = {w \in windows : w.end >= cutoff}
  /\ open' = OthersStale("poll")
  /\ UNCHANGED <<now, lastInput, inputs, threshold, pollTs>>

\* UPSERT_AFK_WINDOW: an impossible range is answered 400.
IpcUpsert(r) ==
  /\ r.start > 0
  /\ r.end >= r.start
  /\ Begin("ipc", r)
  /\ UNCHANGED <<now, lastInput, inputs, threshold, pollTs, windows>>

-----------------------------------------------------------------------------
PollThread ==
  \/ StartPoll
  \/ \E idle \in IdleSeconds : CaptureAway(idle)
  \/ EndPollWithoutWindow
  \/ \E cutoff \in 1 .. now : Retain(cutoff)

Next ==
  \/ Tick
  \/ Input
  \/ \E n \in Thresholds : SetThreshold(n)
  \/ PollThread
  \/ \E r \in IpcRanges : IpcUpsert(r)
  \/ \E t \in Writers : Commit(t) \/ Rollback(t)

Spec == Init /\ [][Next]_vars

-----------------------------------------------------------------------------
TypeOK ==
  /\ now \in 1 .. MaxNow
  /\ lastInput \in 1 .. now
  /\ inputs \subseteq 1 .. now
  /\ threshold \in Thresholds
  /\ pollTs \in (1 .. now) \cup {None}
  /\ windows \subseteq Ranges
  /\ open \in [Writers -> Transactions \cup {None}]

(***************************************************************************)
(* The table is a normal form of a set of seconds: every window is a range *)
(* and two windows never overlap nor follow each other without a gap, so   *)
(* that the audit neither counts a second twice nor splits one absence.    *)
(***************************************************************************)
WellFormed(r) == r.start > 0 /\ r.end >= r.start
Apart(v, w) == v.end + 1 < w.start \/ w.end + 1 < v.start

WindowsApart ==
  /\ \A w \in windows : WellFormed(w)
  /\ \A v, w \in windows : v = w \/ Apart(v, w)

(***************************************************************************)
(* PRD US-07: an AFK period is one without input.  Nobody touched the      *)
(* machine inside a recorded window, its last second excepted, for the     *)
(* input that ends the absence may come within it; nor where the IPC says  *)
(* so, or right before.                                                    *)
(***************************************************************************)
Synthetic == UNION {r.start .. r.end : r \in IpcRanges}

NoInputWhileAfk ==
  \A w \in windows, s \in inputs :
    s \in w.start .. w.end - 1 => s \in Synthetic \/ s + 1 \in Synthetic

(***************************************************************************)
(* What makes NoInputWhileAfk inductive: no second inside a window can see *)
(* an input any more; a poll records what began after the last input and   *)
(* before its own timestamp, and only where a range of the IPC begins can  *)
(* a window follow it.                                                     *)
(***************************************************************************)
Excused(s) == s \in Synthetic \/ s + 1 \in Synthetic

QuietWindows ==
  \A w \in windows : \A s \in w.start .. w.end - 1 :
    Excused(s) \/ (s \notin inputs /\ s < now)

WindowStarts ==
  \A w \in windows :
    w.start \in Synthetic \/ w.start <= (IF pollTs = None THEN now ELSE pollTs)

PollRange ==
  open["poll"] # None =>
    /\ pollTs # None
    /\ open["poll"].range.end = pollTs
    /\ \A s \in open["poll"].range.start - 1 .. pollTs - 1 : s \notin inputs

IdleReadInTime == pollTs # None /\ open["poll"] = None => now - pollTs <= MaxStall

InputsSeen == \A s \in inputs : s <= lastInput

IpcRange == open["ipc"] # None => open["ipc"].range \in IpcRanges

QInv == QuietWindows /\ WindowStarts /\ PollRange /\ IdleReadInTime /\ InputsSeen /\ IpcRange

\* A poll comes to its idle reading before the shortest threshold is over, as
\* seen in whole seconds.
PollsAreQuick == \A n \in Thresholds : MaxStall + 2 <= n

(***************************************************************************)
(* What makes WindowsApart inductive: a transaction that is not stale has  *)
(* read the table as it is.                                                *)
(***************************************************************************)
ReadsCurrent ==
  \A t \in Writers : open[t] # None =>
    /\ WellFormed(open[t].range)
    /\ ~open[t].stale =>
         open[t].touched = {w \in windows : Touches(w, open[t].range)}

IInv == TypeOK /\ WindowsApart /\ ReadsCurrent

(***************************************************************************)
(* The windows implement the set of seconds of AfkSeconds: a merge records *)
(* its whole range and nothing else, also when a stale read, a retention   *)
(* pass or a failure comes in between.                                     *)
(***************************************************************************)
Seconds == UNION {w.start .. w.end : w \in windows}

Abstract == INSTANCE AfkSeconds WITH afk <- Seconds

ImplementsSeconds == Abstract!Spec
=============================================================================
