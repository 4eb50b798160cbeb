----------------------------- MODULE Reliability -----------------------------
(***************************************************************************)
(* The reliability counters of the daemon: what each of its threads writes *)
(* into the settings table when it starts, fails and exits, and what a     *)
(* status request reads back, statement by statement.  Every writer is a   *)
(* transaction of its own that commits or is given up with a line in the   *)
(* log.  Daemon says when things happen; here each of its steps takes its  *)
(* bookkeeping with it, and ImplementsDaemon checks that nothing else      *)
(* changes: counting never gets in the way of serving.                     *)
(***************************************************************************)
EXTENDS Daemon

CONSTANT MaxErrors   \* bound: errors the daemon runs into

ASSUME ReliabilityAssumption == MaxErrors \in Nat

VARIABLES
  counts,     \* start, clean_exit and unexpected_exit_count, session_open,
              \* poll_error_count, ipc_error_count
  lastError,  \* last_error_stage
  boot,       \* how far a process has come before its runtime starts
  pollError,  \* the poll failed: is it recorded?
  fault,      \* process_client returned an error not yet recorded
  marking,    \* an ended process has yet to mark its clean exit
  status,     \* the reliability part of the answer in the making
  errorsLeft

bookVars == <<counts, lastError>>
errorVars == <<pollError, fault>>
rvars == <<vars, bookVars, boot, errorVars, marking, status, errorsLeft>>

Fresh == [starts |-> 0, exits |-> 0, unexpected |-> 0, open |-> 0,
          polls |-> 0, ipc |-> 0]
NoStatus == [stage |-> "", polls |-> 0, ipc |-> 0, at |-> "none"]
Stages == {"", "service_init", "poll", "ipc"}

RInit ==
  /\ Init
  /\ counts = Fresh
  /\ lastError = ""
  /\ boot = "off"
  /\ pollError = "none"
  /\ fault = FALSE
  /\ marking = FALSE
  /\ status = NoStatus
  /\ errorsLeft = MaxErrors

-----------------------------------------------------------------------------
(***************************************************************************)
(* Writers.  None of them is retried.                                      *)
(***************************************************************************)

\* ensure_default_settings puts the counters back with the settings.
EnsureDefaults ==
  /\ counts' = Fresh
  /\ lastError' = ""

\* A mutant of Record: the error is written and not counted.
RecordUncounted(stage, counter) ==
  \/ lastError' = stage /\ UNCHANGED counts
  \/ UNCHANGED bookVars

\* increment_poll_error_count and increment_ipc_error_count.
Record(stage, counter) ==
  \/ /\ counts' = [counts EXCEPT ![counter] = @ + 1]
     /\ lastError' = stage
  \/ UNCHANGED bookVars

(***************************************************************************)
(* The start of a process: the database is opened for the counters, the    *)
(* start is marked, the runtime opens the database again.                  *)
(***************************************************************************)
OpenFirst ==
  /\ boot = "off"
  /\ StartFails
  /\ EnsureDefaults
  /\ boot' = "opened"
  /\ UNCHANGED <<errorVars, marking, status, errorsLeft>>

MarkStart ==
  /\ boot = "opened"
  /\ boot' = "marked"
  /\ \/ /\ counts' = [counts EXCEPT !.starts = @ + 1, !.open = 1,
                        !.unexpected = IF counts.open = 1 THEN @ + 1 ELSE @]
        /\ UNCHANGED lastError
     \/ UNCHANGED bookVars
  /\ UNCHANGED <<vars, errorVars, marking, status, errorsLeft>>

StartRuntime ==
  /\ boot = "marked"
  /\ Start
  /\ EnsureDefaults
  /\ boot' = "off"
  /\ UNCHANGED <<errorVars, marking, status, errorsLeft>>

\* CollectorRuntime::new fails, before or after the settings were put back;
\* record_daemon_error, and the process ends.
RuntimeFails ==
  /\ boot = "marked"
  /\ errorsLeft > 0
  /\ errorsLeft' = errorsLeft - 1
  /\ boot' = "off"
  /\ StartFails
  /\ \/ UNCHANGED counts /\ lastError' \in {"service_init", lastError}
     \/ counts' = Fresh /\ lastError' \in {"service_init", ""}
  /\ UNCHANGED <<errorVars, marking, status>>

CrashInBoot ==
  /\ boot # "off"
  /\ boot' = "off"
  /\ UNCHANGED <<vars, bookVars, errorVars, marking, status, errorsLeft>>

(***************************************************************************)
(* The main thread.                                                        *)
(***************************************************************************)
PollFails ==
  /\ main = "polling"
  /\ pollError = "none"
  /\ errorsLeft > 0
  /\ errorsLeft' = errorsLeft - 1
  /\ pollError' = "unrecorded"
  /\ UNCHANGED <<vars, bookVars, boot, fault, marking, status>>

RecordPollError ==
  /\ pollError = "unrecorded"
  /\ pollError' = "recorded"
  /\ Record("poll", "polls")
  /\ UNCHANGED <<vars, boot, fault, marking, status, errorsLeft>>

PollEnds ==
  /\ pollError # "unrecorded"
  /\ pollError' = "none"
  /\ EndPoll \/ EndPollDatabaseFails
  /\ UNCHANGED <<bookVars, boot, fault, marking, status, errorsLeft>>

\* The IPC thread has been joined.  The service reports that it has stopped
\* and marks the exit afterwards: another one may have been started by then,
\* but none ends before its predecessor has marked (bound: one mark is due).
RuntimeEnds ==
  /\ Exit
  /\ ~marking
  /\ marking' = TRUE
  /\ UNCHANGED <<bookVars, boot, errorVars, status, errorsLeft>>

MarkCleanExit ==
  /\ marking
  /\ marking' = FALSE
  /\ \/ /\ counts' = [counts EXCEPT !.exits = @ + 1, !.open = 0]
        /\ UNCHANGED lastError
     \/ UNCHANGED bookVars
  /\ UNCHANGED <<vars, boot, errorVars, status, errorsLeft>>

Dies ==
  /\ Crash
  /\ pollError' = "none"
  /\ fault' = FALSE
  /\ status' = NoStatus
  /\ UNCHANGED <<bookVars, boot, marking, errorsLeft>>

(***************************************************************************)
(* The IPC thread.  A line too long or not UTF-8, a pipe that fails other  *)
(* than by closing and an answer nobody takes are transport errors; an     *)
(* empty line and a client that has left without asking are none.          *)
(***************************************************************************)
DropClient ==
  /\ Drop
  /\ \/ errorsLeft > 0 /\ fault' = TRUE /\ errorsLeft' = errorsLeft - 1
     \/ fault' = FALSE /\ UNCHANGED errorsLeft
  /\ UNCHANGED <<bookVars, boot, pollError, marking, status>>

\* WriteFile fails when nobody is there; past the bound it is not reported.
SendAnswer ==
  /\ Reply
  /\ \/ /\ peer = None
        /\ errorsLeft > 0
        /\ fault' = TRUE
        /\ errorsLeft' = errorsLeft - 1
     \/ /\ peer # None \/ errorsLeft = 0
        /\ fault' = FALSE
        /\ UNCHANGED errorsLeft
  /\ UNCHANGED <<bookVars, boot, pollError, marking, status>>

\* A mutant of RecordTransportError: the first one ends the thread.
RecordAndBreak ==
  /\ fault
  /\ server = "closing"
  /\ Record("ipc", "ipc")
  /\ fault' = FALSE
  /\ server' = "ended"
  /\ UNCHANGED <<mainVars, stored, live, peer, inbox, client, saved, boot,
                 pollError, marking, status, errorsLeft>>

RecordTransportError ==
  /\ fault
  /\ server = "closing"
  /\ Record("ipc", "ipc")
  /\ fault' = FALSE
  /\ UNCHANGED <<vars, boot, pollError, marking, status, errorsLeft>>

Disconnect ==
  /\ ~fault
  /\ Close
  /\ status' = NoStatus
  /\ UNCHANGED <<bookVars, boot, errorVars, marking, errorsLeft>>

\* A mutant of ReadLastError: the counts are read first, the error with the
\* answer.
ReadCountsFirst ==
  /\ server = "reading"
  /\ inbox = Query
  /\ \/ /\ status.at = "none"
        /\ status' = [status EXCEPT !.polls = counts.polls, !.ipc = counts.ipc,
                                    !.at = "counts"]
        /\ UNCHANGED vars
     \/ /\ status.at = "counts"
        /\ HandleQuery
        /\ status' = [status EXCEPT !.stage = lastError, !.at = "whole"]
  /\ UNCHANGED <<bookVars, boot, errorVars, marking, errorsLeft>>

\* get_reliability_status: the last error is read before the counts ...
ReadLastError ==
  /\ server = "reading"
  /\ inbox = Query
  /\ status.at = "none"
  /\ status' = [status EXCEPT !.stage = lastError, !.at = "error"]
  /\ UNCHANGED <<vars, bookVars, boot, errorVars, marking, errorsLeft>>

\* ... and then the answer is whole.
ReadCounts ==
  /\ HandleQuery
  /\ status.at = "error"
  /\ status' = [status EXCEPT !.polls = counts.polls, !.ipc = counts.ipc, !.at = "whole"]
  /\ UNCHANGED <<bookVars, boot, errorVars, marking, errorsLeft>>

\* Another request, or a database that fails: zeros for everything.
AnswerOther ==
  /\ HandleQuery
  /\ status.at # "whole"
  /\ status' = NoStatus
  /\ UNCHANGED <<bookVars, boot, errorVars, marking, errorsLeft>>

\* The steps that keep no books.
Others ==
  /\ \/ RequestStop \/ Publish \/ WakeUp
     \/ LoopTop \/ Save \/ SaveFails \/ UpdateState \/ Flush \/ AcceptAny
     \/ \E c \in Clients : Connect(c) \/ GoOn(c) \/ GiveUp(c)
  /\ UNCHANGED <<bookVars, boot, errorVars, marking, status, errorsLeft>>

-----------------------------------------------------------------------------
Boot == OpenFirst \/ MarkStart \/ StartRuntime \/ RuntimeFails \/ CrashInBoot

MainThread ==
  PollFails \/ RecordPollError \/ PollEnds \/ RuntimeEnds \/ MarkCleanExit \/ Dies

IpcThread ==
  \/ DropClient \/ SendAnswer \/ RecordTransportError \/ Disconnect
  \/ ReadLastError \/ ReadCounts \/ AnswerOther

RNext == Boot \/ MainThread \/ IpcThread \/ Others

RSpec == RInit /\ [][RNext]_rvars

-----------------------------------------------------------------------------
CountsType ==
  [starts : Nat, exits : Nat, unexpected : Nat, open : {0, 1}, polls : Nat, ipc : Nat]

TypeR ==
  /\ counts \in CountsType
  /\ lastError \in Stages
  /\ boot \in {"off", "opened", "marked"}
  /\ pollError \in {"none", "unrecorded", "recorded"}
  /\ fault \in BOOLEAN
  /\ marking \in BOOLEAN
  /\ status \in [stage : Stages, polls : Nat, ipc : Nat, at : {"none", "error", "whole"}]
  /\ errorsLeft \in Nat

(***************************************************************************)
(* What StatusExplainsItsError rests on: the last error and its count are  *)
(* written in one transaction and put back together, and while a status is *)
(* read nobody puts them back: only a process that serves nobody does.     *)
(***************************************************************************)
Explained(stage, c) == (stage = "poll" => c.polls > 0) /\ (stage = "ipc" => c.ipc > 0)

BooksConsistent == Explained(lastError, counts)

StatusInProgress ==
  /\ status.at = "error" => /\ server = "reading" /\ inbox = Query
                            /\ Explained(status.stage, counts)
  /\ status.at = "whole" => server \in {"replying", "flushing", "closing"}

BootsWhenDown == boot # "off" => main = "down"

ErrorsInTheirStep ==
  /\ fault => server = "closing"
  /\ pollError # "none" => main = "polling"

(***************************************************************************)
(* A status that names a failed poll or a transport error as the last error*)
(* has counted it, although it is read in several statements while the     *)
(* other thread records errors between them.                               *)
(***************************************************************************)
StatusExplainsItsError == status.at = "whole" => Explained(status.stage, status)

BooksInv ==
  /\ IInv
  /\ TypeR
  /\ BooksConsistent
  /\ StatusInProgress
  /\ StatusExplainsItsError
  /\ BootsWhenDown
  /\ ErrorsInTheirStep

(***************************************************************************)
(* What a process that serves has in its books of itself and the last one: *)
(* its runtime has put back what its start marked, the open session        *)
(* included, and the mark of a clean exit that came only after the Stopped *)
(* of the last process is counted among its own, once.                     *)
(***************************************************************************)
LateExits == counts.exits + (IF marking THEN 1 ELSE 0)

OneLateExit ==
  main # "down" =>
    /\ counts.starts = 0 /\ counts.unexpected = 0 /\ counts.open = 0
    /\ LateExits <= 1

RInv == BooksInv /\ OneLateExit

(***************************************************************************)
(* implementation-status.md, R-04: events are recorded "without changing   *)
(* normal request semantics".  With its books, whether a record commits or *)
(* fails, the daemon does nothing that Daemon does not do.                 *)
(***************************************************************************)
ImplementsDaemon == Spec
=============================================================================
