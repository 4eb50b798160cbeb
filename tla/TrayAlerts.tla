----------------------------- MODULE TrayAlerts -----------------------------
(***************************************************************************)
(* The tray of the viewer (TrayIconController.cs): a loop that refreshes   *)
(* the tooltip, lists the alerts the daemon has not seen delivered, shows  *)
(* each in a balloon and asks the daemon to mark those delivered.          *)
(*                                                                         *)
(* The loop is started on the UI thread and awaits without ConfigureAwait: *)
(* whatever it waits for, it goes on as a callback on the dispatcher queue *)
(* of that thread.  Balloons are callbacks on the same queue.              *)
(***************************************************************************)
EXTENDS Integers, FiniteSets

CONSTANTS
  MaxAlert,     \* bound: alerts ever fired
  ListLimit,    \* AlertPollLimit
  MaxRequests,  \* bound: mark requests on their way at once
  MaxRestarts   \* bound: times the viewer is killed and started again

ASSUME TrayAssumption ==
  /\ MaxAlert \in Nat
  /\ ListLimit \in Nat \ {0}
  /\ MaxRequests \in Nat \ {0}
  /\ MaxRestarts \in Nat

Ids == 1 .. MaxAlert

VARIABLES
  alerts,    \* cap_alert_events: the delivery_state of each id
  requests,  \* MARK_CAP_ALERT_EVENTS_DELIVERED requests not yet served
  loop,      \* what the refresh loop awaits
  posted,    \* whether that has ended and the loop is on the dispatcher queue
  balloon,   \* whether a balloon is on the dispatcher queue
  listed,    \* alerts of this round not yet shown
  shown,     \* alerts of this round shown
  ui,        \* the UI thread: "free", blocked in "disposing", "gone"
  cancelled, \* refreshLoopCts
  restarts,
  seen       \* every alert ever shown to the user (history)

daemonVars == <<alerts, requests>>
trayVars == <<loop, posted, balloon, listed, shown, ui, cancelled>>
vars == <<daemonVars, trayVars, restarts, seen>>

Awaited == {"timer", "tooltip", "list", "show", "mark", "done"}

Init ==
  /\ alerts = [i \in Ids |-> "absent"]
  /\ requests = {}
  /\ loop = "tooltip"
  /\ posted = FALSE
  /\ balloon = FALSE
  /\ listed = {}
  /\ shown = {}
  /\ ui = "free"
  /\ cancelled = FALSE
  /\ restarts = 0
  /\ seen = {}

-----------------------------------------------------------------------------
(***************************************************************************)
(* The daemon.                                                             *)
(***************************************************************************)

\* An evaluation inserts an alert; AUTOINCREMENT gives it the next id.  The
\* user has not seen this one yet.
Fire(i) ==
  /\ alerts[i] = "absent"
  /\ \A j \in 1 .. i - 1 : alerts[j] # "absent"
  /\ alerts' = [alerts EXCEPT ![i] = "new"]
  /\ seen' = seen \ {i}
  /\ UNCHANGED <<requests, trayVars, restarts>>

\* A mutant of Delete: the id may be given to another alert.
DeleteForReuse(i) ==
  /\ alerts[i] \in {"new", "delivered"}
  /\ alerts' = [alerts EXCEPT ![i] = "absent"]
  /\ UNCHANGED <<requests, trayVars, restarts, seen>>

\* Its cap is deleted, ON DELETE CASCADE; the id is never used again.
Delete(i) ==
  /\ alerts[i] \in {"new", "delivered"}
  /\ alerts' = [alerts EXCEPT ![i] = "deleted"]
  /\ UNCHANGED <<requests, trayVars, restarts, seen>>

\* mark_cap_alert_events_delivered, in one transaction, whenever the request
\* gets through: the client may have given up long before.
ServeMark(ids) ==
  /\ requests' = requests \ {ids}
  /\ alerts' = [i \in Ids |-> IF i \in ids /\ alerts[i] = "new"
                              THEN "delivered" ELSE alerts[i]]
  /\ UNCHANGED <<trayVars, restarts, seen>>

LoseMark(ids) ==
  /\ requests' = requests \ {ids}
  /\ UNCHANGED <<alerts, trayVars, restarts, seen>>

(***************************************************************************)
(* What the loop awaits comes to its end, off the UI thread.               *)
(***************************************************************************)
New == {i \in Ids : alerts[i] = "new"}

\* LIST_CAP_ALERT_EVENTS: the newest ListLimit that are not delivered.
Newest == {i \in New : Cardinality({j \in New : j > i}) < ListLimit}

\* The timer ticks; the summary, the mark request is answered, fails, times
\* out after three seconds or is cancelled.
AwaitEnds ==
  /\ loop \in {"timer", "tooltip", "mark"}
  /\ ~posted
  /\ posted' = TRUE
  /\ UNCHANGED <<daemonVars, loop, balloon, listed, shown, ui, cancelled, restarts, seen>>

ListAnswered ==
  /\ loop = "list"
  /\ ~posted
  /\ posted' = TRUE
  /\ listed' = Newest
  /\ UNCHANGED <<daemonVars, loop, balloon, shown, ui, cancelled, restarts, seen>>

ListFails ==
  /\ loop = "list"
  /\ ~posted
  /\ posted' = TRUE
  /\ UNCHANGED <<daemonVars, loop, balloon, listed, shown, ui, cancelled, restarts, seen>>

(***************************************************************************)
(* The dispatcher queue of the UI thread.                                  *)
(***************************************************************************)

\* The oldest listed alert.
ShowBalloon(i) ==
  /\ ui = "free"
  /\ balloon
  /\ i \in listed
  /\ \A j \in listed : i <= j
  /\ balloon' = FALSE
  /\ posted' = TRUE
  /\ listed' = listed \ {i}
  /\ shown' = shown \cup {i}
  /\ seen' = seen \cup {i}
  /\ UNCHANGED <<daemonVars, loop, ui, cancelled, restarts>>

BalloonFails(i) ==
  /\ ui = "free"
  /\ balloon
  /\ i \in listed
  /\ \A j \in listed : i <= j
  /\ balloon' = FALSE
  /\ posted' = TRUE
  /\ listed' = listed \ {i}
  /\ UNCHANGED <<daemonVars, loop, shown, ui, cancelled, restarts, seen>>

Resume(next) ==
  /\ ui = "free"
  /\ posted
  /\ posted' = FALSE
  /\ loop' = next

StartRound ==
  /\ loop = "timer"
  /\ Resume("tooltip")
  /\ UNCHANGED <<daemonVars, balloon, listed, shown, ui, cancelled, restarts, seen>>

AskForAlerts ==
  /\ loop = "tooltip"
  /\ Resume("list")
  /\ UNCHANGED <<daemonVars, balloon, listed, shown, ui, cancelled, restarts, seen>>

ShowNext ==
  /\ loop \in {"list", "show"}
  /\ listed # {}
  /\ Resume("show")
  /\ balloon' = TRUE
  /\ UNCHANGED <<daemonVars, listed, shown, ui, cancelled, restarts, seen>>

\* A mutant of AskToMark: every new alert is marked, shown or not.
AskToMarkAll ==
  /\ loop = "show"
  /\ listed = {}
  /\ shown # {}
  /\ Cardinality(requests) < MaxRequests
  /\ Resume("mark")
  /\ requests' = requests \cup {New}
  /\ shown' = {}
  /\ UNCHANGED <<alerts, balloon, listed, ui, cancelled, restarts, seen>>

\* One request for everything shown in this round.
AskToMark ==
  /\ loop = "show"
  /\ listed = {}
  /\ shown # {}
  /\ Cardinality(requests) < MaxRequests
  /\ Resume("mark")
  /\ requests' = requests \cup {shown}
  /\ shown' = {}
  /\ UNCHANGED <<alerts, balloon, listed, ui, cancelled, restarts, seen>>

\* A mutant of EndRound: the loop ends when there was nothing to show.
EndLoop ==
  /\ \/ loop \in {"list", "show"} /\ listed = {} /\ shown = {}
     \/ loop = "mark"
  /\ Resume(IF loop = "list" THEN "done" ELSE "timer")
  /\ UNCHANGED <<daemonVars, balloon, listed, shown, ui, cancelled, restarts, seen>>

EndRound ==
  /\ \/ loop \in {"list", "show"} /\ listed = {} /\ shown = {}
     \/ loop = "mark"
  /\ Resume("timer")
  /\ UNCHANGED <<daemonVars, balloon, listed, shown, ui, cancelled, restarts, seen>>

\* The viewer is killed, or logs off with its user, and is started again.
Restart ==
  /\ restarts < MaxRestarts
  /\ restarts' = restarts + 1
  /\ loop' = "tooltip"
  /\ posted' = FALSE
  /\ balloon' = FALSE
  /\ listed' = {}
  /\ shown' = {}
  /\ ui' = "free"
  /\ cancelled' = FALSE
  /\ UNCHANGED <<daemonVars, seen>>

(***************************************************************************)
(* Exit, from the menu of the tray: on the UI thread ExitApplication calls *)
(* Dispose, which cancels the loop and blocks until it is done.            *)
(***************************************************************************)
Exit ==
  /\ ui = "free"
  /\ ui' = "disposing"
  /\ cancelled' = TRUE
  /\ UNCHANGED <<daemonVars, loop, posted, balloon, listed, shown, restarts, seen>>

\* Where it goes on, the loop finds that it was cancelled.
LoopCancelled ==
  /\ cancelled
  /\ Resume("done")
  /\ UNCHANGED <<daemonVars, balloon, listed, shown, ui, cancelled, restarts, seen>>

DisposeReturns ==
  /\ ui = "disposing"
  /\ loop = "done"
  /\ ui' = "gone"
  /\ UNCHANGED <<daemonVars, loop, posted, balloon, listed, shown, cancelled,
                 restarts, seen>>

-----------------------------------------------------------------------------
Loop == StartRound \/ AskForAlerts \/ ShowNext \/ AskToMark \/ EndRound

Balloon == \E i \in listed : ShowBalloon(i)

Serve == \E ids \in requests : ServeMark(ids)

Next ==
  \/ \E i \in Ids : Fire(i) \/ Delete(i)
  \/ Serve
  \/ \E ids \in requests : LoseMark(ids)
  \/ AwaitEnds
  \/ ListAnswered
  \/ ListFails
  \/ Balloon
  \/ \E i \in listed : BalloonFails(i)
  \/ Loop
  \/ Restart

Spec == Init /\ [][Next]_vars

\* The timer ticks and requests end, for they time out; the UI thread runs
\* what is on its queue; lists, balloons and mark requests fail, but not
\* every time.
Fairness ==
  /\ WF_vars(AwaitEnds)
  /\ WF_vars(Loop)
  /\ SF_vars(ListAnswered)
  /\ SF_vars(Balloon)
  /\ SF_vars(Serve)

FairSpec == Spec /\ Fairness

\* The same with the Exit of the menu.
ExitNext == Next \/ Exit \/ LoopCancelled \/ DisposeReturns

ExitFairSpec ==
  /\ Init /\ [][ExitNext]_vars
  /\ Fairness
  /\ WF_vars(LoopCancelled)
  /\ WF_vars(DisposeReturns)

-----------------------------------------------------------------------------
TypeOK ==
  /\ alerts \in [Ids -> {"absent", "new", "delivered", "deleted"}]
  /\ requests \subseteq SUBSET Ids
  /\ loop \in Awaited
  /\ posted \in BOOLEAN
  /\ balloon \in BOOLEAN
  /\ listed \subseteq Ids
  /\ shown \subseteq Ids
  /\ ui \in {"free", "disposing", "gone"}
  /\ cancelled \in BOOLEAN
  /\ restarts \in Nat
  /\ seen \subseteq Ids

(***************************************************************************)
(* Nothing is marked delivered that the user was not shown, however late a *)
(* mark request is served and whatever was deleted meanwhile.              *)
(***************************************************************************)
DeliveredWereShown == \A i \in Ids : alerts[i] = "delivered" => i \in seen

(***************************************************************************)
(* What makes it inductive: only alerts that were shown are asked to be    *)
(* marked, and what the tray knows was fired and keeps its id.             *)
(***************************************************************************)
OnlyShownAreMarked == shown \subseteq seen /\ \A ids \in requests : ids \subseteq seen
KnownWereFired == \A i \in listed \cup seen : alerts[i] # "absent"

IInv == TypeOK /\ DeliveredWereShown /\ OnlyShownAreMarked /\ KnownWereFired

(***************************************************************************)
(* docs/implementation-status.md, at-least-once retry: an alert is shown   *)
(* in the end unless its cap is deleted first, although lists, balloons    *)
(* and mark requests fail, the viewer is restarted and only the newest     *)
(* alerts are listed.                                                      *)
(***************************************************************************)
EveryAlertShown ==
  \A i \in Ids : alerts[i] = "new" ~> (i \in seen \/ alerts[i] # "new")

(***************************************************************************)
(* docs/implementation-status.md, the tray is disposed on an explicit exit *)
(* with cancellation-safe teardown of the refresh loop: Exit ends.         *)
(***************************************************************************)
ExitCompletes == (ui = "disposing") ~> (ui # "disposing")
=============================================================================
