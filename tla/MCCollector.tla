---------------------------- MODULE MCCollector ----------------------------
(***************************************************************************)
(* Small instances of Collector for TLC: one where everything goes wrong,  *)
(* and a machine left alone.                                               *)
(***************************************************************************)
EXTENDS Collector

CONSTANTS
  i1,
  WildClock   \* bound: largest second of a machine that is not left alone

VARIABLE leftAlone   \* no suspend, no failure, nobody sets clock or interval

TwoIntervals == {1, 2}

mcVars == <<vars, leftAlone>>

MCInit == Init /\ leftAlone \in BOOLEAN

\* A machine left alone, with a database that stores every batch.
AloneNext ==
  /\ leftAlone
  /\ Traffic \/ Tick \/ Start \/ Crash \/ Poll
  /\ ~InsertFails
  /\ UNCHANGED leftAlone

WildNext ==
  /\ ~leftAlone
  /\ Next
  /\ clock' <= WildClock
  /\ UNCHANGED leftAlone

MCSpec == MCInit /\ [][AloneNext \/ WildNext]_mcVars

(***************************************************************************)
(* PRD US-01: skip anomalous deltas above the budget of one interval, do   *)
(* not record them.  On a machine left alone a row that compute lets       *)
(* through fits the time since the last reading of its interface, which may*)
(* be several polls back: adapters come and go, snapshots fail, and the    *)
(* daemon crashes.                                                         *)
(***************************************************************************)
StoredRowsFitTheirWindow == [][leftAlone => StoresFit]_mcVars

(***************************************************************************)
(* Why: nobody changes the interval, the clock is past the last poll when  *)
(* the loop wakes up, and the last poll is never older than a baseline, of *)
(* which there is none before the first poll.                              *)
(***************************************************************************)
InPoll == daemon \in {"snapped", "synced", "computed"}

ClockIsAhead ==
  /\ 1 <= clock
  /\ daemon = "sleeping" => lastPoll = 0 \/ lastPoll < clock + sleepLeft
  /\ InPoll => 1 <= poll.ts /\ poll.ts <= clock /\ (lastPoll = 0 \/ lastPoll < poll.ts)

BudgetOfInterval ==
  /\ interval = DefaultInterval
  /\ InPoll =>
       poll.allowed = AllowedDelta(ObservedInterval(lastPoll, poll.ts, interval), interval)

BaselinesOfPolls ==
  /\ \A i \in Interfaces : baseTs[i] <= lastPoll
  /\ daemon = "down" => lastPoll = 0
  /\ daemon # "computed" /\ lastPoll = 0 => previous = Nothing

BatchInBudget ==
  daemon = "computed" =>
    \A i \in Interfaces : batch[i] # None =>
      lastPoll > 0 /\ BytesOf(batch[i], "sent") + BytesOf(batch[i], "recv") <= poll.allowed

AloneInv ==
  leftAlone => ClockIsAhead /\ BudgetOfInterval /\ BaselinesOfPolls /\ BatchInBudget
=============================================================================
