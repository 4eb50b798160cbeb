-------------------------- MODULE ReliabilityProofs --------------------------
(***************************************************************************)
(* Proofs about Daemon, and about Reliability, which keeps books on it: the*)
(* books follow the daemon and never lead it, and a status explains the    *)
(* error it names.                                                         *)
(***************************************************************************)
EXTENDS Reliability, TLAPS

-----------------------------------------------------------------------------
(***************************************************************************)
(* Daemon, for any number of clients and any settings.                     *)
(***************************************************************************)

LEMMA InitInvariant == Init => IInv
BY DaemonAssumption
   DEF Init, IInv, TypeOK, OneClientAtATime, ExitIsLast, RequestInHand,
       MainStates, ServerStates, ClientStates, Connected, Requests

\* The main thread works on a setting, and serves nobody.
LEMMA MainStep ==
  ASSUME IInv,
         \/ StartFails \/ RequestStop \/ EndPoll \/ EndPollDatabaseFails
         \/ Publish \/ WakeUp
  PROVE  IInv'
<1>1. UNCHANGED <<serverVars, client, saved>>
  BY DEF StartFails, RequestStop, EndPoll, EndPollDatabaseFails, Publish, WakeUp
<1>2. main = "down" <=> main' = "down"
  BY DEF StartFails, RequestStop, EndPoll, EndPollDatabaseFails, Publish, WakeUp,
         mainVars
<1>3. TypeOK'
  BY <1>1, DaemonAssumption
     DEF IInv, TypeOK, MainStates, StartFails, RequestStop, EndPoll,
         EndPollDatabaseFails, Publish, WakeUp, mainVars, serverVars
<1>4. OneClientAtATime' /\ ExitIsLast' /\ RequestInHand'
  BY <1>1, <1>2 DEF IInv, OneClientAtATime, ExitIsLast, RequestInHand, serverVars
<1>5. QED
  BY <1>3, <1>4 DEF IInv

LEMMA StartStep == ASSUME IInv, Start PROVE IInv'
<1>1. peer = None /\ inbox = None
  BY DEF IInv, ExitIsLast, OneClientAtATime, RequestInHand, Start
<1>2. TypeOK'
  BY DaemonAssumption DEF IInv, TypeOK, MainStates, ServerStates, Start
<1>3. OneClientAtATime' /\ ExitIsLast' /\ RequestInHand'
  BY <1>1 DEF IInv, OneClientAtATime, ExitIsLast, RequestInHand, Start
<1>4. QED
  BY <1>2, <1>3 DEF IInv

\* Clean or not, an exit leaves no client connected.
LEMMA LeaveStep == ASSUME IInv, Exit \/ Crash PROVE IInv'
<1>1. Leave /\ UNCHANGED <<read, stored, live, saved>>
  BY DEF Exit, Crash
<1>2. TypeOK'
  BY <1>1 DEF IInv, TypeOK, MainStates, ServerStates, ClientStates, Leave
<1>3. \A c \in Clients : client'[c] \notin Connected /\ c # None
  BY <1>1, DaemonAssumption DEF IInv, TypeOK, Connected, Leave
<1>4. OneClientAtATime' /\ ExitIsLast' /\ RequestInHand'
  BY <1>1, <1>3 DEF OneClientAtATime, ExitIsLast, RequestInHand, Connected, Leave
<1>5. QED
  BY <1>2, <1>4 DEF IInv

\* The server goes on, with the client and the request it has.
LEMMA ServeStep ==
  ASSUME IInv,
         \/ LoopTop \/ Drop \/ HandleQuery \/ Save \/ SaveFails
         \/ UpdateState \/ Flush
  PROVE  IInv'
<1>1. UNCHANGED <<main, stop, read, peer, inbox, client>>
  BY DEF LoopTop, Drop, HandleQuery, Save, SaveFails, UpdateState, Flush, mainVars
<1>2. TypeOK'
  BY <1>1 DEF IInv, TypeOK, ServerStates, RequestInHand, LoopTop, Drop, HandleQuery,
              Save, SaveFails, UpdateState, Flush
<1>3. OneClientAtATime'
  BY <1>1 DEF IInv, OneClientAtATime, LoopTop, Drop, HandleQuery, Save, SaveFails,
              UpdateState, Flush
<1>4. ExitIsLast' /\ RequestInHand'
  BY <1>1 DEF IInv, ExitIsLast, RequestInHand, LoopTop, Drop, HandleQuery, Save,
              SaveFails, UpdateState, Flush
<1>5. QED
  BY <1>2, <1>3, <1>4 DEF IInv

LEMMA ReplyStep == ASSUME IInv, Reply PROVE IInv'
<1>1. TypeOK'
  BY DEF IInv, TypeOK, ServerStates, ClientStates, Connected, mainVars, Reply
<1>2. UNCHANGED <<main, peer, inbox>> /\ server = "replying"
  BY DEF Reply, mainVars
<1>3. CASE peer = None
  BY <1>1, <1>2, <1>3
     DEF IInv, OneClientAtATime, ExitIsLast, RequestInHand, Reply
<1>4. CASE peer # None
  <2>1. peer \in Clients /\ client[peer] \in Connected
    BY <1>4 DEF IInv, TypeOK, OneClientAtATime
  <2>2. /\ client' = [client EXCEPT ![peer] = "answered"]
        /\ server' = "flushing"
    BY <1>4 DEF Reply
  <2>3. /\ client'[peer] = "answered"
        /\ \A c \in Clients : c # peer => client'[c] = client[c]
    BY <2>1, <2>2 DEF IInv, TypeOK
  <2>4. OneClientAtATime'
    BY <1>2, <2>1, <2>2, <2>3 DEF IInv, OneClientAtATime, Connected
  <2>5. ExitIsLast' /\ RequestInHand'
    BY <1>2, <2>2, <2>3 DEF IInv, ExitIsLast, RequestInHand
  <2>6. QED
    BY <1>1, <2>4, <2>5 DEF IInv
<1>5. QED
  BY <1>3, <1>4

LEMMA CloseStep == ASSUME IInv, Close PROVE IInv'
<1>1. TypeOK'
  BY DEF IInv, TypeOK, ServerStates, ClientStates, mainVars, Close
<1>2. \A c \in Clients : client'[c] \notin Connected /\ c # None
  BY DaemonAssumption DEF IInv, TypeOK, OneClientAtATime, Connected, Close
<1>3. OneClientAtATime' /\ ExitIsLast' /\ RequestInHand'
  BY <1>2 DEF IInv, OneClientAtATime, ExitIsLast, RequestInHand, mainVars, Close
<1>4. QED
  BY <1>1, <1>3 DEF IInv

LEMMA AcceptStep ==
  ASSUME IInv, NEW c \in Clients, Accept(c) \/ ConnectFails(c) PROVE IInv'
<1>0. c # None
  BY DaemonAssumption
<1>1. TypeOK'
  BY DEF IInv, TypeOK, ServerStates, ClientStates, Connected, mainVars, Accept,
         ConnectFails
<1>2. peer = None /\ client[c] = "waiting"
  BY DEF IInv, OneClientAtATime, Accept, ConnectFails
<1>3. \A d \in Clients : d # c => client'[d] = client[d]
  BY DEF IInv, TypeOK, Accept, ConnectFails
<1>4. OneClientAtATime'
  <2>1. \A d \in Clients : client[d] \notin Connected
    BY <1>2, DaemonAssumption DEF IInv, OneClientAtATime
  <2>2. CASE Accept(c)
    <3>1. client'[c] \in Connected /\ peer' = c /\ server' = "reading"
      BY <2>2 DEF IInv, TypeOK, Connected, Accept
    <3>2. QED
      BY <1>3, <2>1, <3>1 DEF OneClientAtATime
  <2>3. CASE ConnectFails(c)
    <3>1. client'[c] \notin Connected /\ peer' = None
      BY <1>2, <2>3 DEF IInv, TypeOK, Connected, ConnectFails
    <3>2. QED
      BY <1>3, <2>1, <3>1, DaemonAssumption DEF OneClientAtATime
  <2>4. QED
    BY <2>2, <2>3
<1>5. inbox' = None
  BY DEF IInv, RequestInHand, Accept, ConnectFails
<1>6. ExitIsLast' /\ RequestInHand'
  BY <1>5 DEF IInv, ExitIsLast, RequestInHand, mainVars, Accept, ConnectFails
<1>7. QED
  BY <1>1, <1>4, <1>6 DEF IInv

LEMMA ClientStep ==
  ASSUME IInv, NEW c \in Clients, Connect(c) \/ GoOn(c) \/ GiveUp(c) PROVE IInv'
<1>0. c # None
  BY DaemonAssumption
<1>1. CASE Connect(c)
  <2>1. TypeOK'
    BY <1>1 DEF IInv, TypeOK, ClientStates, mainVars, serverVars, Connect
  <2>2. QED
    BY <1>1, <2>1 DEF IInv, TypeOK, OneClientAtATime, ExitIsLast, RequestInHand,
                      Connected, mainVars, serverVars, Connect
<1>2. ASSUME NEW request \in Requests, Ask(c, request) PROVE IInv'
  <2>1. TypeOK'
    BY <1>2 DEF IInv, TypeOK, ClientStates, Connected, mainVars, Ask
  <2>2. peer = c
    BY <1>2 DEF IInv, OneClientAtATime, Connected, Ask
  <2>3. \A d \in Clients : client[d] \in Connected <=> client'[d] \in Connected
    BY <1>2 DEF IInv, TypeOK, Connected, Ask
  <2>4. OneClientAtATime' /\ ExitIsLast'
    BY <1>2, <2>3 DEF IInv, OneClientAtATime, ExitIsLast, mainVars, Ask
  <2>5. server \notin {"none", "creating", "listening", "ended"}
    BY <1>0, <2>2 DEF IInv, OneClientAtATime
  <2>6. server # "updating"
    BY <1>2, DaemonAssumption DEF IInv, RequestInHand, Requests, Ask
  <2>7. \A d \in Clients : client'[d] # "asking"
    BY <1>2, <2>2 DEF IInv, TypeOK, OneClientAtATime, Connected, Ask
  <2>8. RequestInHand'
    BY <1>2, <2>5, <2>6, <2>7 DEF RequestInHand, Ask
  <2>9. QED
    BY <2>1, <2>4, <2>8 DEF IInv
<1>3. CASE Gone(c)
  <2>1. TypeOK'
    BY <1>3 DEF IInv, TypeOK, ClientStates, mainVars, Gone
  <2>2. /\ client'[c] = "away"
        /\ \A d \in Clients : d # c => client'[d] = client[d]
    BY <1>3 DEF IInv, TypeOK, Gone
  <2>3. OneClientAtATime'
    BY <1>0, <1>3, <2>2, DaemonAssumption DEF IInv, OneClientAtATime, Connected, Gone
  <2>4. ExitIsLast' /\ RequestInHand'
    BY <1>3, <2>2 DEF IInv, ExitIsLast, RequestInHand, mainVars, Gone
  <2>5. QED
    BY <2>1, <2>3, <2>4 DEF IInv
<1>4. QED
  BY <1>1, <1>2, <1>3 DEF GoOn, ReadAnswer, GiveUp

LEMMA StepInvariant == IInv /\ [Next]_vars => IInv'
<1> SUFFICES ASSUME IInv, [Next]_vars PROVE IInv'
  OBVIOUS
<1>1. CASE UNCHANGED vars
  BY <1>1 DEF IInv, TypeOK, OneClientAtATime, ExitIsLast, RequestInHand, vars,
              mainVars, serverVars
<1>2. CASE Next
  BY <1>2, StartStep, MainStep, LeaveStep, ServeStep, ReplyStep, CloseStep, AcceptStep,
     ClientStep
     DEF Next, Main, Server, AcceptAny
<1>3. QED
  BY <1>1, <1>2

\* TypeOK, OneClientAtATime and ExitIsLast are invariants, with what the
\* server's steps rely on.
THEOREM InvariantHolds == Spec => []IInv
<1>1. QED
  BY InitInvariant, StepInvariant, PTL DEF Spec

\* The pipe has one client at a time, the one the server answers, and a clean
\* exit comes after the IPC thread's end.
THEOREM ServedOneAtATime == Spec => [](OneClientAtATime /\ ExitIsLast)
<1>1. IInv => OneClientAtATime /\ ExitIsLast
  BY DEF IInv
<1>2. QED
  BY <1>1, InvariantHolds, PTL

-----------------------------------------------------------------------------

(***************************************************************************)
(* Every step with its books is a step of the daemon or none at all.       *)
(***************************************************************************)
LEMMA BooksAreAside == [RNext]_rvars => [Next]_vars
<1> SUFFICES ASSUME [RNext]_rvars PROVE [Next]_vars
  OBVIOUS
<1>1. CASE UNCHANGED rvars
  BY <1>1 DEF rvars
<1>2. CASE Boot
  BY <1>2 DEF Boot, OpenFirst, MarkStart, StartRuntime, RuntimeFails, CrashInBoot, Next
<1>3. CASE MainThread
  BY <1>3 DEF MainThread, PollFails, RecordPollError, PollEnds, RuntimeEnds,
     MarkCleanExit, Dies, Next, Main
<1>4. CASE IpcThread
  BY <1>4 DEF IpcThread, DropClient, SendAnswer, RecordTransportError, Disconnect,
     ReadLastError, ReadCounts, AnswerOther, Next, Server
<1>5. CASE Others
  BY <1>5 DEF Others, Next, Main, Server
<1>6. QED
  BY <1>1, <1>2, <1>3, <1>4, <1>5 DEF RNext

\* The daemon with its reliability counters implements the daemon without.
THEOREM DaemonIsImplemented == RSpec => ImplementsDaemon
<1>1. RInit => Init
  BY DEF RInit
<1>2. QED
  BY <1>1, BooksAreAside, PTL DEF RSpec, Spec, ImplementsDaemon

-----------------------------------------------------------------------------
LEMMA BooksInit == RInit => BooksInv
<1> SUFFICES ASSUME RInit PROVE BooksInv
  OBVIOUS
<1>1. IInv
  BY InitInvariant DEF RInit
<1>2. TypeR
  BY ReliabilityAssumption DEF RInit, TypeR, CountsType, Fresh, Stages, NoStatus
<1>3. QED
  BY <1>1, <1>2 DEF RInit, BooksInv, BooksConsistent, StatusInProgress, BootsWhenDown,
     StatusExplainsItsError, ErrorsInTheirStep, Explained, Fresh, NoStatus

\* What the books say of the status being read, and of nothing else.
StatusKept ==
  /\ status.at = "error" => Explained(status.stage, counts)
  /\ StatusExplainsItsError

\* Recording an error keeps what is explained explained.
LEMMA RecordStep ==
  ASSUME BooksInv, NEW s, NEW k,
         <<s, k>> \in {<<"poll", "polls">>, <<"ipc", "ipc">>}, Record(s, k),
         UNCHANGED status
  PROVE  /\ counts' \in CountsType /\ lastError' \in Stages
         /\ BooksConsistent' /\ StatusKept'
<1>0. counts \in CountsType /\ lastError \in Stages /\ BooksConsistent /\ StatusKept
  BY DEF BooksInv, TypeR, StatusInProgress, StatusKept
<1>1. CASE UNCHANGED bookVars
  BY <1>0, <1>1 DEF bookVars, BooksConsistent, StatusKept, StatusExplainsItsError, Explained
<1>2. CASE /\ counts' = [counts EXCEPT ![k] = @ + 1]
           /\ lastError' = s
  <2>1. \/ s = "poll" /\ k = "polls"
        \/ s = "ipc" /\ k = "ipc"
    OBVIOUS
  <2>2. counts' \in CountsType /\ counts'[k] > 0
    BY <1>0, <1>2, <2>1 DEF CountsType
  <2>3. counts'.polls >= counts.polls /\ counts'.ipc >= counts.ipc
    BY <1>0, <1>2, <2>1 DEF CountsType
  <2>4. lastError' \in Stages
    BY <1>2, <2>1 DEF Stages
  <2>5. BooksConsistent'
    BY <1>2, <2>1, <2>2 DEF BooksConsistent, Explained
  <2>6. StatusKept'
    BY <1>0, <2>2, <2>3 DEF StatusKept, StatusExplainsItsError, Explained, CountsType
  <2>7. QED
    BY <2>2, <2>4, <2>5, <2>6
<1>3. QED
  BY <1>1, <1>2 DEF Record

\* A process that starts serves nobody, so no status is being read.
LEMMA BootStep == ASSUME BooksInv, Boot PROVE BooksInv'
<1>1. IInv'
  BY BooksAreAside, StepInvariant DEF BooksInv, RNext
<1>2. main = "down" /\ server = "none"
  BY DEF BooksInv, IInv, ExitIsLast, BootsWhenDown, Boot, OpenFirst, StartFails,
         MarkStart, StartRuntime, Start, RuntimeFails, CrashInBoot
<1>3. status.at = "none" /\ fault = FALSE /\ pollError = "none"
  BY <1>2 DEF BooksInv, TypeR, StatusInProgress, ErrorsInTheirStep
<1>4. UNCHANGED <<status, pollError, fault, marking>>
  BY DEF Boot, OpenFirst, MarkStart, StartRuntime, RuntimeFails, CrashInBoot, errorVars
<1>5. counts' \in CountsType /\ lastError' \in Stages /\ BooksConsistent'
  <2>1. CASE OpenFirst \/ StartRuntime
    <3>1. counts' = Fresh /\ lastError' = ""
      BY <2>1 DEF OpenFirst, StartRuntime, EnsureDefaults
    <3>2. QED
      BY <3>1 DEF Fresh, CountsType, Stages, BooksConsistent, Explained
  <2>2. CASE MarkStart
    <3>1. CASE UNCHANGED bookVars
      BY <3>1 DEF bookVars, BooksInv, TypeR, BooksConsistent, Explained
    <3>2. CASE /\ counts' = [counts EXCEPT !.starts = @ + 1, !.open = 1,
                         !.unexpected = IF counts.open = 1 THEN @ + 1 ELSE @]
               /\ UNCHANGED lastError
      <4> DEFINE m == counts.starts + 1
      <4> DEFINE n == IF counts.open = 1 THEN counts.unexpected + 1 ELSE counts.unexpected
      <4>1. counts' = [counts EXCEPT !.starts = m, !.open = 1, !.unexpected = n]
        BY <3>2
      <4>a. counts \in CountsType
        BY DEF BooksInv, TypeR
      <4>b. m \in Nat /\ n \in Nat
        BY <4>a DEF CountsType
      <4> HIDE DEF m, n
      <4>2. counts' \in CountsType /\ counts'.polls = counts.polls /\ counts'.ipc = counts.ipc
        BY <4>1, <4>a, <4>b DEF CountsType
      <4>3. QED
        BY <3>2, <4>2 DEF BooksInv, TypeR, BooksConsistent, Explained
    <3>3. QED
      BY <2>2, <3>1, <3>2 DEF MarkStart
  <2>3. CASE RuntimeFails
    <3>1. CASE UNCHANGED counts /\ lastError' \in {"service_init", lastError}
      BY <3>1 DEF BooksInv, TypeR, Stages, BooksConsistent, Explained
    <3>2. CASE counts' = Fresh /\ lastError' \in {"service_init", ""}
      BY <3>2 DEF Fresh, CountsType, Stages, BooksConsistent, Explained
    <3>3. QED
      BY <2>3, <3>1, <3>2 DEF RuntimeFails
  <2>4. CASE CrashInBoot
    BY <2>4 DEF CrashInBoot, BooksInv, TypeR, BooksConsistent, Explained, bookVars
  <2>5. QED
    BY <2>1, <2>2, <2>3, <2>4 DEF Boot
<1>6. boot' \in {"off", "opened", "marked"} /\ errorsLeft' \in Nat
  <2>1. boot' \in {"off", "opened", "marked"}
    BY DEF Boot, OpenFirst, MarkStart, StartRuntime, RuntimeFails, CrashInBoot
  <2>2. errorsLeft' = errorsLeft \/ (errorsLeft > 0 /\ errorsLeft' = errorsLeft - 1)
    BY DEF Boot, OpenFirst, MarkStart, StartRuntime, RuntimeFails, CrashInBoot
  <2>3. QED
    BY <2>1, <2>2 DEF BooksInv, TypeR
<1>7. BootsWhenDown'
  BY <1>2 DEF BootsWhenDown, Boot, OpenFirst, StartFails, mainVars, MarkStart, vars,
     StartRuntime, RuntimeFails, CrashInBoot
<1>8. TypeR' /\ StatusInProgress' /\ StatusExplainsItsError' /\ ErrorsInTheirStep'
  BY <1>3, <1>4, <1>5, <1>6
     DEF BooksInv, TypeR, StatusInProgress, StatusExplainsItsError, ErrorsInTheirStep
<1>9. QED
  BY <1>1, <1>5, <1>7, <1>8 DEF BooksInv

\* Nothing is being read or recorded when the IPC thread has been joined.
LEMMA MainThreadStep == ASSUME BooksInv, MainThread PROVE BooksInv'
<1>1. IInv'
  BY BooksAreAside, StepInvariant DEF BooksInv, RNext
<1>2. CASE PollFails
  BY <1>1, <1>2 DEF PollFails, BooksInv, TypeR, BooksConsistent, StatusInProgress,
     StatusExplainsItsError, BootsWhenDown, ErrorsInTheirStep, Explained, bookVars,
     vars, mainVars, serverVars
<1>3. CASE RecordPollError
  <2>1. counts' \in CountsType /\ lastError' \in Stages /\ BooksConsistent' /\ StatusKept'
    BY <1>3, RecordStep DEF RecordPollError
  <2>2. TypeR' /\ BootsWhenDown' /\ ErrorsInTheirStep'
    BY <1>3, <2>1 DEF RecordPollError, BooksInv, TypeR, BootsWhenDown, ErrorsInTheirStep,
       vars, mainVars, serverVars
  <2>3. StatusInProgress' /\ StatusExplainsItsError'
    BY <1>3, <2>1 DEF RecordPollError, BooksInv, StatusInProgress, StatusKept, vars, serverVars
  <2>4. QED
    BY <1>1, <2>1, <2>2, <2>3 DEF BooksInv
<1>4. CASE PollEnds
  BY <1>1, <1>4 DEF PollEnds, EndPoll, EndPollDatabaseFails, BooksInv, TypeR, BooksConsistent,
     StatusInProgress, StatusExplainsItsError, BootsWhenDown, ErrorsInTheirStep,
     Explained, bookVars, serverVars
<1>5. CASE RuntimeEnds
  <2>1. fault = FALSE /\ pollError = "none" /\ status.at = "none"
    BY <1>5 DEF RuntimeEnds, Exit, BooksInv, TypeR, StatusInProgress, ErrorsInTheirStep
  <2>2. QED
    BY <1>1, <1>5, <2>1 DEF RuntimeEnds, Exit, Leave, BooksInv, TypeR, BooksConsistent,
       StatusInProgress, StatusExplainsItsError, BootsWhenDown, ErrorsInTheirStep,
       Explained, bookVars, errorVars
<1>6. CASE MarkCleanExit
  <2>1. counts' \in CountsType /\ counts'.polls = counts.polls /\ counts'.ipc = counts.ipc
        /\ lastError' = lastError
    <3>0. counts \in CountsType
      BY DEF BooksInv, TypeR
    <3>1. CASE UNCHANGED bookVars
      BY <3>0, <3>1 DEF bookVars
    <3>2. CASE /\ counts' = [counts EXCEPT !.exits = @ + 1, !.open = 0]
               /\ UNCHANGED lastError
      <4> DEFINE m == counts.exits + 1
      <4>1. counts' = [counts EXCEPT !.exits = m, !.open = 0]
        BY <3>2
      <4>2. m \in Nat
        BY <3>0 DEF CountsType
      <4> HIDE DEF m
      <4>3. QED
        BY <3>0, <3>2, <4>1, <4>2 DEF CountsType
    <3>3. QED
      BY <1>6, <3>1, <3>2 DEF MarkCleanExit, bookVars
  <2>2. QED
    BY <1>1, <1>6, <2>1 DEF MarkCleanExit, BooksInv, TypeR, BooksConsistent,
       StatusInProgress, StatusExplainsItsError, BootsWhenDown, ErrorsInTheirStep,
       Explained, errorVars, vars, mainVars, serverVars
<1>7. CASE Dies
  BY <1>1, <1>7 DEF Dies, Crash, Leave, BooksInv, TypeR, Stages, BooksConsistent, NoStatus,
     StatusInProgress, StatusExplainsItsError, BootsWhenDown, ErrorsInTheirStep,
     Explained, bookVars
<1>8. QED
  BY <1>2, <1>3, <1>4, <1>5, <1>6, <1>7 DEF MainThread

LEMMA IpcThreadStep == ASSUME BooksInv, IpcThread PROVE BooksInv'
<1>1. IInv'
  BY BooksAreAside, StepInvariant DEF BooksInv, RNext
<1>2. CASE DropClient
  <2>1. status.at = "none"
    BY <1>2, DaemonAssumption DEF DropClient, Drop, BooksInv, TypeR, StatusInProgress, Requests
  <2>2. QED
    <3>1. errorsLeft' \in Nat /\ fault' \in BOOLEAN
      <4>1. errorsLeft \in Nat
        BY DEF BooksInv, TypeR
      <4>2. \/ errorsLeft > 0 /\ fault' = TRUE /\ errorsLeft' = errorsLeft - 1
            \/ fault' = FALSE /\ errorsLeft' = errorsLeft
        BY <1>2 DEF DropClient
      <4>3. fault' \in BOOLEAN
        BY <4>2
      <4>4. errorsLeft' \in Nat
        BY <4>1, <4>2
      <4>5. QED
        BY <4>3, <4>4
    <3>2. server' = "closing"
          /\ UNCHANGED <<main, counts, lastError, boot, pollError, marking, status>>
      BY <1>2 DEF DropClient, Drop, bookVars, mainVars
    <3>3. QED
      BY <1>1, <2>1, <3>1, <3>2 DEF BooksInv, TypeR, BooksConsistent, StatusInProgress,
         StatusExplainsItsError, BootsWhenDown, ErrorsInTheirStep, Explained
<1>3. CASE SendAnswer
  <2>1. status.at # "error"
    BY <1>3 DEF SendAnswer, Reply, BooksInv, StatusInProgress
  <2>2. server' \in {"closing", "flushing"} /\ (fault' => server' = "closing")
        /\ fault' \in BOOLEAN
    BY <1>3 DEF SendAnswer, Reply
  <2>5. errorsLeft' \in Nat
    <3>1. errorsLeft \in Nat
      BY DEF BooksInv, TypeR
    <3>2. QED
      BY <1>3, <3>1 DEF SendAnswer
  <2>3. UNCHANGED <<main, counts, lastError, boot, pollError, marking, status>>
    BY <1>3 DEF SendAnswer, Reply, bookVars, mainVars
  <2>4. QED
    BY <1>1, <2>1, <2>2, <2>3, <2>5 DEF BooksInv, TypeR, BooksConsistent,
       StatusInProgress, StatusExplainsItsError, BootsWhenDown, ErrorsInTheirStep, Explained
<1>4. CASE RecordTransportError
  <2>1. counts' \in CountsType /\ lastError' \in Stages /\ BooksConsistent' /\ StatusKept'
    BY <1>4, RecordStep DEF RecordTransportError
  <2>2. TypeR' /\ BootsWhenDown' /\ ErrorsInTheirStep'
    BY <1>4, <2>1 DEF RecordTransportError, BooksInv, TypeR, BootsWhenDown,
       ErrorsInTheirStep, vars, mainVars, serverVars
  <2>3. StatusInProgress' /\ StatusExplainsItsError'
    BY <1>4, <2>1 DEF RecordTransportError, BooksInv, StatusInProgress, StatusKept, vars,
       serverVars
  <2>4. QED
    BY <1>1, <2>1, <2>2, <2>3 DEF BooksInv
<1>5. CASE Disconnect
  BY <1>1, <1>5 DEF Disconnect, Close, NoStatus, BooksInv, TypeR, Stages, BooksConsistent,
     StatusInProgress, StatusExplainsItsError, BootsWhenDown, ErrorsInTheirStep,
     Explained, bookVars, errorVars, mainVars
<1>6. CASE ReadLastError
  <2>1. /\ status'.at = "error" /\ status'.stage = lastError
        /\ status' \in [stage : Stages, polls : Nat, ipc : Nat, at : {"none", "error", "whole"}]
    BY <1>6 DEF ReadLastError, BooksInv, TypeR
  <2>2. QED
    BY <1>1, <1>6, <2>1 DEF ReadLastError, BooksInv, TypeR, BooksConsistent,
       StatusInProgress, StatusExplainsItsError, BootsWhenDown, ErrorsInTheirStep,
       Explained, bookVars, errorVars, vars, mainVars, serverVars
<1>7. CASE ReadCounts
  <2>1. /\ status'.at = "whole" /\ status'.stage = status.stage
        /\ status'.polls = counts.polls /\ status'.ipc = counts.ipc
        /\ status' \in [stage : Stages, polls : Nat, ipc : Nat, at : {"none", "error", "whole"}]
    BY <1>7 DEF ReadCounts, BooksInv, TypeR, CountsType
  <2>2. QED
    BY <1>1, <1>7, <2>1 DEF ReadCounts, HandleQuery, BooksInv, TypeR, BooksConsistent,
       StatusInProgress, StatusExplainsItsError, BootsWhenDown, ErrorsInTheirStep,
       Explained, bookVars, errorVars, mainVars
<1>8. CASE AnswerOther
  BY <1>1, <1>8 DEF AnswerOther, HandleQuery, NoStatus, BooksInv, TypeR, Stages,
     BooksConsistent, StatusInProgress, StatusExplainsItsError, BootsWhenDown,
     ErrorsInTheirStep, Explained, bookVars, errorVars, mainVars
<1>9. QED
  BY <1>2, <1>3, <1>4, <1>5, <1>6, <1>7, <1>8 DEF IpcThread

\* A status being read has its request in the pipe, and a transport error its
\* client: nobody else comes between.
LEMMA OthersStep == ASSUME BooksInv, Others PROVE BooksInv'
<1>1. IInv'
  BY BooksAreAside, StepInvariant DEF BooksInv, RNext
<1>2. UNCHANGED <<counts, lastError, boot, pollError, fault, marking, status, errorsLeft>>
  BY DEF Others, bookVars, errorVars
<1>3. /\ main = "down" <=> main' = "down"
      /\ main = "polling" => main' = "polling"
  BY DEF Others, RequestStop, Publish, WakeUp, LoopTop, Save, SaveFails, UpdateState,
     Flush, AcceptAny, Accept, ConnectFails, Connect, GoOn, Ask, ReadAnswer, GiveUp,
     Gone, mainVars
<1>4. /\ server = "closing" => server' = "closing"
      /\ status.at = "whole" => server' \in {"replying", "flushing", "closing"}
  BY DEF Others, RequestStop, Publish, WakeUp, LoopTop, Save, SaveFails, UpdateState,
     Flush, AcceptAny, Accept, ConnectFails, Connect, GoOn, Ask, ReadAnswer, GiveUp,
     Gone, serverVars, BooksInv, StatusInProgress
<1>5. status.at = "error" => server' = "reading" /\ inbox' = Query
  <2> SUFFICES ASSUME status.at = "error" PROVE server' = "reading" /\ inbox' = Query
    OBVIOUS
  <2>1. server = "reading" /\ inbox = Query /\ Query \notin Settings /\ Query # None
    BY DaemonAssumption DEF BooksInv, StatusInProgress, Requests
  <2>2. \A c \in Clients : client[c] # "asking"
    BY <2>1 DEF BooksInv, IInv, RequestInHand
  <2>3. QED
    BY <2>1, <2>2 DEF Others, RequestStop, Publish, WakeUp, LoopTop, Save, SaveFails,
       UpdateState, Flush, AcceptAny, Accept, ConnectFails, Connect, GoOn, Ask,
       ReadAnswer, GiveUp, Gone, serverVars
<1>6. QED
  BY <1>1, <1>2, <1>3, <1>4, <1>5 DEF BooksInv, TypeR, BooksConsistent, StatusInProgress,
     StatusExplainsItsError, BootsWhenDown, ErrorsInTheirStep, Explained

LEMMA BooksStep == BooksInv /\ [RNext]_rvars => BooksInv'
<1> SUFFICES ASSUME BooksInv, [RNext]_rvars PROVE BooksInv'
  OBVIOUS
<1>1. CASE UNCHANGED rvars
  <2>1. IInv'
    BY BooksAreAside, StepInvariant DEF BooksInv
  <2>2. QED
    BY <1>1, <2>1 DEF rvars, vars, mainVars, serverVars, bookVars, errorVars, BooksInv, TypeR,
       BooksConsistent, StatusInProgress, StatusExplainsItsError, BootsWhenDown,
       ErrorsInTheirStep, Explained
<1>2. CASE RNext
  BY <1>2, BootStep, MainThreadStep, IpcThreadStep, OthersStep DEF RNext
<1>3. QED
  BY <1>1, <1>2

LEMMA LateExitInit == RInit => OneLateExit
BY DEF RInit, Init, OneLateExit

\* What is recorded of errors is none of a start or an exit.
LEMMA ExitsAside ==
  ASSUME BooksInv, NEW s, NEW k \in {"polls", "ipc"}, Record(s, k)
  PROVE  /\ counts'.starts = counts.starts /\ counts'.unexpected = counts.unexpected
         /\ counts'.open = counts.open /\ counts'.exits = counts.exits
<1>1. counts \in CountsType
  BY DEF BooksInv, TypeR
<1>2. CASE UNCHANGED bookVars
  BY <1>2 DEF bookVars
<1>3. CASE counts' = [counts EXCEPT ![k] = @ + 1]
  BY <1>1, <1>3 DEF CountsType
<1>4. QED
  BY <1>2, <1>3 DEF Record

LEMMA LateExitStep ==
  ASSUME BooksInv, OneLateExit, [RNext]_rvars
  PROVE  OneLateExit'
<1>1. counts \in CountsType /\ counts.exits \in Nat /\ marking \in BOOLEAN
  BY DEF BooksInv, TypeR, CountsType
<1>2. ASSUME UNCHANGED <<counts, marking>>, main' # "down" => main # "down"
      PROVE  OneLateExit'
  BY <1>2 DEF OneLateExit, LateExits
<1>3. ASSUME NEW s, NEW k \in {"polls", "ipc"}, Record(s, k), UNCHANGED <<main, marking>>
      PROVE  OneLateExit'
  <2>1. /\ counts'.starts = counts.starts /\ counts'.unexpected = counts.unexpected
        /\ counts'.open = counts.open /\ counts'.exits = counts.exits
    BY <1>3, ExitsAside
  <2>2. QED
    BY <1>3, <2>1 DEF OneLateExit, LateExits
<1>4. CASE UNCHANGED rvars
  BY <1>2, <1>4 DEF rvars, vars, mainVars, bookVars
<1>5. CASE Boot
  <2>1. CASE StartRuntime
    <3>1. /\ counts'.starts = 0 /\ counts'.unexpected = 0 /\ counts'.open = 0
          /\ counts'.exits = 0
      BY <2>1 DEF StartRuntime, EnsureDefaults, Fresh
    <3>2. LateExits' <= 1
      BY <3>1 DEF LateExits
    <3>3. QED
      BY <3>1, <3>2 DEF OneLateExit
  <2>2. CASE ~ StartRuntime
    <3>1. main = "down" /\ main' = main
      BY <1>5, <2>2 DEF Boot, OpenFirst, MarkStart, RuntimeFails, CrashInBoot, StartFails,
         vars, mainVars, BooksInv, BootsWhenDown
    <3>2. QED
      BY <3>1 DEF OneLateExit
  <2>3. QED
    BY <2>1, <2>2
<1>6. CASE PollFails \/ PollEnds
  BY <1>2, <1>6 DEF PollFails, PollEnds, EndPoll, EndPollDatabaseFails, bookVars, vars, mainVars
<1>7. CASE RecordPollError
  BY <1>3, <1>7 DEF RecordPollError, vars, mainVars
<1>8. CASE RuntimeEnds \/ Dies
  <2>1. main' = "down"
    BY <1>8 DEF RuntimeEnds, Dies, Exit, Crash, Leave
  <2>2. QED
    BY <2>1 DEF OneLateExit
<1>9. CASE MarkCleanExit
  <2>1. main' = main /\ marking = TRUE /\ marking' = FALSE
    BY <1>9 DEF MarkCleanExit, vars, mainVars
  <2>2. CASE UNCHANGED bookVars
    BY <1>1, <2>1, <2>2 DEF bookVars, OneLateExit, LateExits
  <2>3. CASE counts' = [counts EXCEPT !.exits = @ + 1, !.open = 0]
    <3>1. /\ counts'.starts = counts.starts /\ counts'.unexpected = counts.unexpected
          /\ counts'.open = 0 /\ counts'.exits = counts.exits + 1
      BY <1>1, <2>3 DEF CountsType
    <3>2. QED
      BY <1>1, <2>1, <3>1 DEF OneLateExit, LateExits
  <2>4. QED
    BY <1>9, <2>2, <2>3 DEF MarkCleanExit
<1>10. CASE RecordTransportError
  BY <1>3, <1>10 DEF RecordTransportError, vars, mainVars
<1>11. CASE IpcThread /\ ~ RecordTransportError
  <2>1. UNCHANGED <<main, counts, marking>>
    BY <1>11 DEF IpcThread, DropClient, Drop, SendAnswer, Reply, Disconnect, Close,
       ReadLastError, ReadCounts, AnswerOther, HandleQuery, bookVars, vars, mainVars
  <2>2. QED
    BY <1>2, <2>1
<1>12. CASE Others
  <2>1. UNCHANGED <<counts, marking>>
    BY <1>12 DEF Others, bookVars
  <2>2. main' # "down" => main # "down"
    BY <1>12 DEF Others, RequestStop, Publish, WakeUp, LoopTop, Save, SaveFails, UpdateState,
       Flush, AcceptAny, Accept, ConnectFails, Connect, GoOn, Ask, ReadAnswer, GiveUp,
       Gone, mainVars
  <2>3. QED
    BY <1>2, <2>1, <2>2
<1>13. QED
  BY <1>4, <1>5, <1>6, <1>7, <1>8, <1>9, <1>10, <1>11, <1>12
  DEF RNext, MainThread

\* The invariant of the books, with the daemon's own.
THEOREM BooksHold == RSpec => []RInv
<1>1. RInit => BooksInv /\ OneLateExit
  BY BooksInit, LateExitInit
<1>2. BooksInv /\ OneLateExit /\ [RNext]_rvars => (BooksInv /\ OneLateExit)'
  BY BooksStep, LateExitStep
<1>3. RInv <=> BooksInv /\ OneLateExit
  BY DEF RInv
<1>4. QED
  BY <1>1, <1>2, <1>3, PTL DEF RSpec

\* A status never names as the last error one that it has not counted.
THEOREM StatusIsExplained == RSpec => []StatusExplainsItsError
<1>1. RInv => StatusExplainsItsError
  BY DEF RInv, BooksInv
<1>2. QED
  BY <1>1, BooksHold, PTL
=============================================================================
