-------------------------------- MODULE Daemon --------------------------------
(***************************************************************************)
(* The daemon process and its two threads.  The main thread (main.rs,      *)
(* service.rs, runtime.rs) opens the database, polls, sleeps for the       *)
(* interval the settings ask for and, once a stop was requested, waits for *)
(* the IPC thread before it records a clean exit.  The IPC thread (ipc.rs) *)
(* serves one pipe client after the other, every call of it blocking.  One *)
(* of the requests, SET_SETTINGS, changes what the main thread works with. *)
(*                                                                         *)
(* Collector, AfkWindows, CapAlerts and UsageStore say what polls and      *)
(* requests do to the rest of the database.                                *)
(***************************************************************************)
EXTENDS Integers

CONSTANTS
  Clients,   \* processes that talk to the pipe: the viewer, its tray, the helper
  Settings,  \* values of poll_interval_seconds
  Default,   \* the one ensure_default_settings writes
  Fallback,  \* the one of config.rs, used when the database cannot be read
  Query,     \* any request that changes nothing here
  Broken,    \* a line too long, not UTF-8, or empty
  None

Requests == Settings \cup {Query, Broken}

ASSUME DaemonAssumption ==
  /\ Default \in Settings /\ Fallback \in Settings
  /\ Query # Broken
  /\ Query \notin Settings /\ Broken \notin Settings
  /\ None \notin Requests /\ None \notin Clients

VARIABLES
  main,     \* where the main thread stands
  stop,     \* stop_requested
  read,     \* the interval it has read and not yet published
  stored,   \* the setting in the database
  live,     \* RuntimeState.poll_interval_seconds
  server,   \* where the IPC thread stands
  peer,     \* the client at the other end of the pipe, None when it left
  inbox,    \* the request in the pipe
  client,   \* what each client is doing
  saved     \* the last setting a client had stored (history)

mainVars == <<main, stop, read>>
serverVars == <<server, peer, inbox>>
vars == <<mainVars, stored, live, serverVars, client, saved>>

MainStates == {"down", "polling", "publishing", "sleeping", "joining"}
ServerStates == {"none", "creating", "listening", "reading", "updating",
                 "replying", "flushing", "closing", "ended"}
Connected == {"asking", "asked", "answered"}
ClientStates == {"away", "waiting"} \cup Connected

Init ==
  /\ main = "down"
  /\ stop = FALSE
  /\ read = Default
  /\ stored = Default
  /\ live = Default
  /\ server = "none"
  /\ peer = None
  /\ inbox = None
  /\ client = [c \in Clients |-> "away"]
  /\ saved = None

-----------------------------------------------------------------------------
(***************************************************************************)
(* The main thread.                                                        *)
(***************************************************************************)

\* Db::initialize, twice: once for the reliability counters, once in
\* CollectorRuntime::new.  Each upserts every setting to its default.
Start ==
  /\ main = "down"
  /\ main' = "polling"
  /\ stored' = Default
  /\ live' = Default
  /\ server' = "creating"
  /\ UNCHANGED <<stop, read, peer, inbox, client, saved>>

\* The first one succeeds and the second one does not.
StartFails ==
  /\ main = "down"
  /\ stored' = Default
  /\ UNCHANGED <<mainVars, live, serverVars, client, saved>>

\* A mutant of EndPoll: the interval is not read again.
EndPollWithLive ==
  /\ main = "polling"
  /\ main' = "publishing"
  /\ read' = live
  /\ UNCHANGED <<stop, stored, live, serverVars, client, saved>>

\* A poll is over, well or not, and the interval is read again ...
EndPoll ==
  /\ main = "polling"
  /\ main' = "publishing"
  /\ read' = stored
  /\ UNCHANGED <<stop, stored, live, serverVars, client, saved>>

EndPollDatabaseFails ==
  /\ main = "polling"
  /\ main' = "publishing"
  /\ read' = Fallback
  /\ UNCHANGED <<stop, stored, live, serverVars, client, saved>>

\* ... and put where the next poll and the status take it from.
Publish ==
  /\ main = "publishing"
  /\ main' = "sleeping"
  /\ live' = read
  /\ UNCHANGED <<stop, read, stored, serverVars, client, saved>>

WakeUp ==
  /\ main = "sleeping"
  /\ main' = IF stop THEN "joining" ELSE "polling"
  /\ UNCHANGED <<stop, read, stored, live, serverVars, client, saved>>

\* Ctrl-C, or SERVICE_CONTROL_STOP.
RequestStop ==
  /\ main # "down"
  /\ ~stop
  /\ stop' = TRUE
  /\ UNCHANGED <<main, read, stored, live, serverVars, client, saved>>

Leave ==
  /\ main' = "down"
  /\ stop' = FALSE
  /\ server' = "none"
  /\ peer' = None
  /\ inbox' = None
  /\ client' = [c \in Clients |->
                  IF client[c] \in Connected THEN "away" ELSE client[c]]

\* A mutant of Exit: the IPC thread is not waited for.
ExitAtOnce ==
  /\ main = "joining"
  /\ main' = "down"
  /\ stop' = FALSE
  /\ UNCHANGED <<read, stored, live, serverVars, client, saved>>

\* The IPC thread is joined; mark_daemon_clean_exit; the process ends.
Exit ==
  /\ main = "joining"
  /\ server = "ended"
  /\ Leave
  /\ UNCHANGED <<read, stored, live, saved>>

Crash ==
  /\ main # "down"
  /\ Leave
  /\ UNCHANGED <<read, stored, live, saved>>

(***************************************************************************)
(* The IPC thread: spawn_server and process_client.                        *)
(***************************************************************************)

\* A mutant of LoopTop: the flag is not looked at.
LoopTopAgain ==
  /\ server = "creating"
  /\ server' = "listening"
  /\ UNCHANGED <<mainVars, stored, live, peer, inbox, client, saved>>

\* CreateNamedPipeW.  When it fails the thread sleeps and is here again.
LoopTop ==
  /\ server = "creating"
  /\ server' = IF stop THEN "ended" ELSE "listening"
  /\ UNCHANGED <<mainVars, stored, live, peer, inbox, client, saved>>

\* ConnectNamedPipe returns only when a client connects, stop or no stop.
Accept(c) ==
  /\ server = "listening"
  /\ client[c] = "waiting"
  /\ server' = "reading"
  /\ peer' = c
  /\ client' = [client EXCEPT ![c] = "asking"]
  /\ UNCHANGED <<mainVars, stored, live, inbox, saved>>

\* The client was gone before the call.
ConnectFails(c) ==
  /\ server = "listening"
  /\ client[c] = "waiting"
  /\ server' = IF stop THEN "ended" ELSE "creating"
  /\ client' = [client EXCEPT ![c] = "away"]
  /\ UNCHANGED <<mainVars, stored, live, peer, inbox, saved>>

\* ReadFile finds the other end closed, or a request that is no request:
\* no answer, at most a transport error to count.
Drop ==
  /\ server = "reading"
  /\ \/ inbox = Broken
     \/ inbox = None /\ peer = None
  /\ server' = "closing"
  /\ UNCHANGED <<mainVars, stored, live, peer, inbox, client, saved>>

HandleQuery ==
  /\ server = "reading"
  /\ inbox = Query
  /\ server' = "replying"
  /\ UNCHANGED <<mainVars, stored, live, peer, inbox, client, saved>>

\* apply_settings commits, then RuntimeState is brought up to date.
Save ==
  /\ server = "reading"
  /\ inbox \in Settings
  /\ server' = "updating"
  /\ stored' = inbox
  /\ saved' = inbox
  /\ UNCHANGED <<mainVars, live, peer, inbox, client>>

SaveFails ==
  /\ server = "reading"
  /\ inbox \in Settings
  /\ server' = "replying"
  /\ UNCHANGED <<mainVars, stored, live, peer, inbox, client, saved>>

UpdateState ==
  /\ server = "updating"
  /\ server' = "replying"
  /\ live' = inbox
  /\ UNCHANGED <<mainVars, stored, peer, inbox, client, saved>>

\* WriteFile, which fails when the client has left.
Reply ==
  /\ server = "replying"
  /\ IF peer = None
     THEN server' = "closing" /\ UNCHANGED client
     ELSE /\ server' = "flushing"
          /\ client' = [client EXCEPT ![peer] = "answered"]
  /\ UNCHANGED <<mainVars, stored, live, peer, inbox, saved>>

\* FlushFileBuffers returns when the client has read its answer or left.
Flush ==
  /\ server = "flushing"
  /\ peer = None
  /\ server' = "closing"
  /\ UNCHANGED <<mainVars, stored, live, peer, inbox, client, saved>>

\* A mutant of Close: a client that was not answered is kept.
CloseKeepsPeer ==
  /\ server = "closing"
  /\ server' = "creating"
  /\ inbox' = None
  /\ UNCHANGED <<mainVars, stored, live, peer, client, saved>>

\* DisconnectNamedPipe: whoever is still connected finds the pipe broken.
Close ==
  /\ server = "closing"
  /\ server' = "creating"
  /\ peer' = None
  /\ inbox' = None
  /\ client' = [c \in Clients |-> IF c = peer THEN "away" ELSE client[c]]
  /\ UNCHANGED <<mainVars, stored, live, saved>>

(***************************************************************************)
(* The clients: one request per connection.                                *)
(***************************************************************************)
Connect(c) ==
  /\ client[c] = "away"
  /\ client' = [client EXCEPT ![c] = "waiting"]
  /\ UNCHANGED <<mainVars, stored, live, serverVars, saved>>

Ask(c, request) ==
  /\ client[c] = "asking"
  /\ client' = [client EXCEPT ![c] = "asked"]
  /\ inbox' = request
  /\ UNCHANGED <<mainVars, stored, live, server, peer, saved>>

Gone(c) ==
  /\ client' = [client EXCEPT ![c] = "away"]
  /\ peer' = IF peer = c THEN None ELSE peer
  /\ UNCHANGED <<mainVars, stored, live, server, inbox, saved>>

ReadAnswer(c) == client[c] = "answered" /\ Gone(c)

\* Three seconds are over, or the process ends; what it asked stays in the
\* pipe and is served.
GiveUp(c) == client[c] \in {"waiting", "asking", "asked"} /\ Gone(c)

-----------------------------------------------------------------------------
Main == Publish \/ WakeUp \/ Exit

Server ==
  \/ LoopTop \/ Drop \/ HandleQuery \/ Save \/ SaveFails
  \/ UpdateState \/ Reply \/ Flush \/ Close

AcceptAny == \E c \in Clients : Accept(c) \/ ConnectFails(c)

\* What a connected client does of its own.
GoOn(c) == (\E request \in Requests : Ask(c, request)) \/ ReadAnswer(c)

Next ==
  \/ Start \/ StartFails \/ RequestStop \/ Crash
  \/ EndPoll \/ EndPollDatabaseFails \/ Main
  \/ Server \/ AcceptAny
  \/ \E c \in Clients : Connect(c) \/ GoOn(c) \/ GiveUp(c)

Spec == Init /\ [][Next]_vars

\* Both threads run.  Clients come again and again, as the tray does on its
\* timer; they may give up waiting, but one of them is accepted in the end; one
\* that is connected asks at once or times out, and reads its answer.  Reading
\* the setting fails, but not every time.
Fairness ==
  /\ WF_vars(Main)
  /\ WF_vars(EndPoll \/ EndPollDatabaseFails) /\ SF_vars(EndPoll)
  /\ WF_vars(Server)
  /\ SF_vars(AcceptAny)
  /\ \A c \in Clients : WF_vars(Connect(c)) /\ WF_vars(GoOn(c))

FairSpec == Spec /\ Fairness

-----------------------------------------------------------------------------
TypeOK ==
  /\ main \in MainStates
  /\ stop \in BOOLEAN
  /\ read \in Settings
  /\ stored \in Settings
  /\ live \in Settings
  /\ server \in ServerStates
  /\ peer \in Clients \cup {None}
  /\ inbox \in Requests \cup {None}
  /\ client \in [Clients -> ClientStates]
  /\ saved \in Settings \cup {None}

(***************************************************************************)
(* One client at a time, and the server knows which: an answer can only    *)
(* reach the client that asked, also when others come, give up and come    *)
(* again while its request is served.                                      *)
(***************************************************************************)
OneClientAtATime ==
  /\ \A c \in Clients : client[c] \in Connected <=> peer = c
  /\ peer # None => server \in {"reading", "updating", "replying", "flushing", "closing"}

(***************************************************************************)
(* A clean exit comes last: once the daemon is down no thread of it serves *)
(* a request.                                                              *)
(***************************************************************************)
ExitIsLast == main = "down" <=> server = "none"

\* What the steps of the server rely on.
RequestInHand ==
  /\ server = "updating" => inbox \in Settings
  /\ server \in {"none", "creating", "listening", "ended"} => inbox = None
  /\ \A c \in Clients : client[c] = "asking" => inbox = None

IInv == TypeOK /\ OneClientAtATime /\ ExitIsLast /\ RequestInHand

(***************************************************************************)
(* PRD, hot reload: a setting that stays stored is what the daemon works   *)
(* with again and again, also when the main thread published, after the    *)
(* request was served, the one it had read before, or could not read it.   *)
(***************************************************************************)
HotReload ==
  \A s \in Settings : <>[](stored = s /\ main # "down") => []<>(live = s)

(***************************************************************************)
(* Who has sent a request hears of it, or that the pipe is broken; the     *)
(* helper waits without a timeout.                                         *)
(***************************************************************************)
NobodyIsLeftWaiting == \A c \in Clients : client[c] = "asked" ~> client[c] # "asked"

(***************************************************************************)
(* A stop that was requested ends the daemon, as long as clients keep      *)
(* coming: it is their connections that let the IPC thread see the flag.   *)
(***************************************************************************)
StopCompletes == stop ~> main = "down"

(***************************************************************************)
(* README.md, persistent completion state; implementation-status.md,       *)
(* daemon settings persist in SQLite: the setting stored last is the one   *)
(* the database has, also after the daemon was started again.              *)
(***************************************************************************)
SettingsPersist == saved # None => stored = saved
=============================================================================
