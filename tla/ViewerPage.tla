------------------------------ MODULE ViewerPage ------------------------------
(***************************************************************************)
(* The onboarding card and the history import of the viewer's main page    *)
(* (MainPage.xaml.cs, HelperManager.cs) with the import process they start *)
(* (helper/src/main.rs).  The page's handlers are async void: one UI thread*)
(* runs them, and at every await another handler may run.  A request is    *)
(* answered by the daemon at one moment and its answer is applied to the   *)
(* page at a later one, in any order between handlers.  The daemon is seen *)
(* from outside, two of its settings only: import_status and               *)
(* onboarding_completed, which a restart puts back to their defaults.      *)
(***************************************************************************)
EXTENDS Integers

CONSTANTS
  Handlers,   \* bound: handlers that run at the same time
  None,       \* no handler, no answer
  Chunks,     \* chunks of an import
  MaxClicks,  \* bound: buttons pressed
  MaxDeaths   \* bound: times the daemon dies

Buttons == {"import", "onboardImport", "onboardSkip"}
ImportKinds == {"import", "onboard"}
Kinds == ImportKinds \cup {"load", "refresh", "skip"}
Steps == {"settings", "status", "poll", "final", "mark"}
Texts == {"", "prompt", "starting", "running", "retry", "finished",
          "dismissed", "unable"}
Statuses == {"idle", "running", "complete"}
Replies == Statuses \cup {"failed", "onboarded", "fresh", "applied"}
RunStates == {"off", "started", "pushing", "done", "failed"}

Idle == [kind |-> None, step |-> None, at |-> "idle", answer |-> None,
         run |-> "off", chunks |-> 0]

ASSUME ViewerAssumption ==
  /\ Handlers # {}
  /\ None \notin Kinds \cup Steps \cup Replies
  /\ Chunks \in Nat \ {0}
  /\ {MaxClicks, MaxDeaths} \subseteq Nat

VARIABLES
  page,     \* onboardingCompleted, onboardingStateLoaded, isImportRunning, the card's text
  enabled,  \* IsEnabled of the three buttons
  handler,  \* the handlers under way, each with the import process it waits for
  daemon,   \* is it up, and its settings import_status and onboarding_completed
  earned,   \* an import of the card succeeded, or the user skipped it (history)
  left      \* what is left of the bounds

vars == <<page, enabled, handler, daemon, earned, left>>

Running(h) == handler[h].kind # None
Importing == \E h \in Handlers : handler[h].kind \in ImportKinds
Shown(p) == p.loaded /\ ~p.completed

Ask(h, step) == [handler[h] EXCEPT !.step = step, !.at = "asked", !.answer = None]

Trigger(kind) == IF kind = "import" THEN "import" ELSE "onboardImport"

Init ==
  /\ page = [completed |-> FALSE, loaded |-> FALSE, busy |-> FALSE, text |-> ""]
  /\ enabled = [b \in Buttons |-> TRUE]
  /\ handler = [h \in Handlers |->
       IF h = CHOOSE k \in Handlers : TRUE
       THEN [Idle EXCEPT !.kind = "load", !.step = "settings", !.at = "asked"]
       ELSE Idle]
  /\ daemon \in [up : {TRUE}, status : Statuses, onboarded : {FALSE}]
  /\ earned = FALSE
  /\ left = [clicks |-> MaxClicks, deaths |-> MaxDeaths]

-----------------------------------------------------------------------------
(***************************************************************************)
(* The page.                                                               *)
(***************************************************************************)

Card(p) ==
  IF ~Shown(p) THEN p
  ELSE IF p.busy THEN [p EXCEPT !.text = "running"]
  ELSE IF p.text = "" THEN [p EXCEPT !.text = "prompt"]
  ELSE p

\* UpdateOnboardingCard: a card that is not shown keeps its buttons as they are.
UpdateOnboardingCard(p, e) ==
  /\ page' = Card(p)
  /\ enabled' = IF Shown(p)
                THEN [e EXCEPT !["onboardImport"] = ~p.busy, !["onboardSkip"] = ~p.busy]
                ELSE e

\* A mutant of SetImportControlsEnabled: the trigger is not among them.
SetCardControlsEnabled(value, kind) ==
  [b \in Buttons |-> IF b \in {"onboardImport", "onboardSkip"} THEN value ELSE enabled[b]]

SetImportControlsEnabled(value, kind) ==
  [b \in Buttons |-> IF b \in {Trigger(kind), "onboardImport", "onboardSkip"}
                     THEN value ELSE enabled[b]]

\* A mutant of EndImport: the controls are enabled without a look at the status.
EndImportBlindly(h, p) ==
  /\ page' = p
  /\ enabled' = SetImportControlsEnabled(TRUE, handler[h].kind)
  /\ handler' = [handler EXCEPT ![h] = Idle]

\* The finally block of RunHistoryImportAsync.
EndImport(h, p) ==
  /\ UpdateOnboardingCard(p, SetImportControlsEnabled(TRUE, handler[h].kind))
  /\ handler' = [handler EXCEPT ![h] = Idle]

Clicked(h) ==
  /\ ~Running(h)
  /\ left.clicks > 0
  /\ left' = [left EXCEPT !.clicks = @ - 1]
  /\ UNCHANGED daemon

Begin(h, kind, step) == [Idle EXCEPT !.kind = kind, !.step = step, !.at = "asked"]

ClickRefresh(h) ==
  /\ Clicked(h)
  /\ handler' = [handler EXCEPT ![h] = Begin(h, "refresh", "status")]
  /\ UNCHANGED <<page, enabled, earned>>

ClickSkip(h) ==
  /\ Clicked(h)
  /\ Shown(page) /\ enabled["onboardSkip"]
  /\ handler' = [handler EXCEPT ![h] = Begin(h, "skip", "mark")]
  /\ earned' = TRUE
  /\ UNCHANGED <<page, enabled>>

\* RunHistoryImportAsync up to its first await.  Without a helper.exe the
\* import is over at once and the loop is not entered.
ClickImport(h, kind, found) ==
  /\ Clicked(h)
  /\ enabled[Trigger(kind)]
  /\ kind = "onboard" => Shown(page)
  /\ enabled' = SetImportControlsEnabled(FALSE, kind)
  /\ page' = IF kind = "onboard" THEN [page EXCEPT !.text = "starting"] ELSE page
  /\ handler' = [handler EXCEPT ![h] =
       IF found
       THEN [Begin(h, kind, "poll") EXCEPT !.run = "started", !.chunks = Chunks]
       ELSE [Begin(h, kind, "final") EXCEPT !.run = "failed"]]
  /\ UNCHANGED earned

\* What comes after a status has been shown.
AfterStatus(h) ==
  CASE handler[h].step = "poll" -> [handler[h] EXCEPT !.at = "waiting", !.answer = None]
    [] handler[h].step = "final" -> [handler[h] EXCEPT !.at = "resting", !.answer = None]
    [] OTHER -> IF handler[h].kind = "refresh" THEN Ask(h, "settings") ELSE Idle

\* RefreshStatusAsync: an import that cannot be asked about is not running.
ShowStatus(h) ==
  /\ handler[h].at = "answered"
  /\ handler[h].step \in {"status", "poll", "final"}
  /\ UpdateOnboardingCard([page EXCEPT !.busy = handler[h].answer = "running"], enabled)
  /\ handler' = [handler EXCEPT ![h] = AfterStatus(h)]
  /\ UNCHANGED <<daemon, earned, left>>

\* LoadSettingsAsync.
ShowSettings(h) ==
  LET failed == handler[h].answer = "failed"
  IN /\ handler[h].at = "answered"
     /\ handler[h].step = "settings"
     /\ UpdateOnboardingCard(
          [page EXCEPT !.loaded = ~failed,
                       !.completed = IF failed THEN @ ELSE handler[h].answer = "onboarded"],
          enabled)
     /\ handler' = [handler EXCEPT ![h] =
                      IF handler[h].kind = "load" THEN Ask(h, "status") ELSE Idle]
     /\ UNCHANGED <<daemon, earned, left>>

\* MarkOnboardingCompletedAsync: the card says so after it has been updated.
Marked(h) ==
  IF handler[h].answer = "failed" THEN [page EXCEPT !.text = "unable"]
  ELSE [page EXCEPT !.loaded = TRUE, !.completed = TRUE,
          !.text = IF handler[h].kind = "skip" THEN "dismissed" ELSE "finished"]

ShowMarked(h) ==
  /\ handler[h].at = "answered"
  /\ handler[h].step = "mark"
  /\ IF handler[h].kind = "onboard"
     THEN EndImport(h, Marked(h))
     ELSE /\ page' = Marked(h)
          /\ handler' = [handler EXCEPT ![h] = Idle]
          /\ UNCHANGED enabled
  /\ UNCHANGED <<daemon, earned, left>>

\* A mutant of WaitForImport: the page waits for the status it shows, too.
WaitForStatus(h) ==
  /\ handler[h].at = "waiting"
  /\ handler' = [handler EXCEPT ![h] =
                   IF handler[h].run \in {"done", "failed"} /\ ~page.busy
                   THEN Ask(h, "final") ELSE Ask(h, "poll")]
  /\ UNCHANGED <<page, enabled, daemon, earned, left>>

\* The loop of RunHistoryImportAsync, once a second, until the process exits.
WaitForImport(h) ==
  /\ handler[h].at = "waiting"
  /\ handler' = [handler EXCEPT ![h] =
                   IF handler[h].run \in {"done", "failed"}
                   THEN Ask(h, "final") ELSE Ask(h, "poll")]
  /\ UNCHANGED <<page, enabled, daemon, earned, left>>

\* A mutant of Conclude: what the process printed is not looked at.
ConcludeAlways(h) ==
  /\ handler[h].at = "resting"
  /\ IF handler[h].kind = "onboard"
     THEN /\ handler' = [handler EXCEPT ![h] = Ask(h, "mark")]
          /\ UNCHANGED <<page, enabled>>
     ELSE EndImport(h, page)
  /\ UNCHANGED <<daemon, earned, left>>

\* The page is refreshed; an import of the card is judged by its output.
Conclude(h) ==
  /\ handler[h].at = "resting"
  /\ IF handler[h].kind = "import" THEN EndImport(h, page)
     ELSE IF handler[h].run = "failed" THEN EndImport(h, [page EXCEPT !.text = "retry"])
     ELSE /\ handler' = [handler EXCEPT ![h] = Ask(h, "mark")]
          /\ UNCHANGED <<page, enabled>>
  /\ UNCHANGED <<daemon, earned, left>>

-----------------------------------------------------------------------------
(***************************************************************************)
(* The daemon, one request at a time.                                      *)
(***************************************************************************)
Answer(h) ==
  /\ handler[h].at = "asked"
  /\ daemon.up
  /\ handler' = [handler EXCEPT ![h].at = "answered", ![h].answer =
       CASE handler[h].step = "settings" -> IF daemon.onboarded THEN "onboarded" ELSE "fresh"
         [] handler[h].step = "mark" -> "applied"
         [] OTHER -> daemon.status]
  /\ daemon' = IF handler[h].step = "mark" THEN [daemon EXCEPT !.onboarded = TRUE] ELSE daemon
  /\ UNCHANGED <<page, enabled, earned, left>>

\* No daemon, or three seconds without an answer; what was asked of a daemon
\* that is only late may be done all the same.
Unanswered(h) ==
  /\ handler[h].at = "asked"
  /\ handler' = [handler EXCEPT ![h].at = "answered", ![h].answer = "failed"]
  /\ daemon' \in {daemon} \cup
       {d \in {[daemon EXCEPT !.onboarded = TRUE]} : daemon.up /\ handler[h].step = "mark"}
  /\ UNCHANGED <<page, enabled, earned, left>>

Die ==
  /\ daemon.up
  /\ left.deaths > 0
  /\ left' = [left EXCEPT !.deaths = @ - 1]
  /\ daemon' = [daemon EXCEPT !.up = FALSE]
  /\ UNCHANGED <<page, enabled, handler, earned>>

\* Db::initialize puts every setting back to its default.
Start ==
  /\ ~daemon.up
  /\ daemon' = [up |-> TRUE, status |-> "idle", onboarded |-> FALSE]
  /\ UNCHANGED <<page, enabled, handler, earned, left>>

-----------------------------------------------------------------------------
(***************************************************************************)
(* The import process of a handler.  A report that does not get through is *)
(* ignored, a chunk that does not get through ends the process, and the    *)
(* status stays as it was last reported.                                   *)
(***************************************************************************)
Report(status) ==
  \/ daemon.up /\ daemon' = [daemon EXCEPT !.status = status]
  \/ UNCHANGED daemon

StartImport(h) ==
  /\ handler[h].run = "started"
  /\ handler' = [handler EXCEPT ![h].run = "pushing"]
  /\ Report("running")
  /\ UNCHANGED <<page, enabled, earned, left>>

\* A mutant of PushChunk: the cursor is not compared with the end.
PushChunkBeyond(h) ==
  /\ handler[h].run = "pushing"
  /\ daemon.up
  /\ handler' = [handler EXCEPT ![h].chunks = @ - 1]
  /\ Report("running")
  /\ UNCHANGED <<page, enabled, earned, left>>

PushChunk(h) ==
  /\ handler[h].run = "pushing"
  /\ handler[h].chunks > 0
  /\ daemon.up
  /\ handler' = [handler EXCEPT ![h].chunks = @ - 1]
  /\ Report("running")
  /\ UNCHANGED <<page, enabled, earned, left>>

PushFails(h) ==
  /\ handler[h].run = "pushing"
  /\ handler[h].chunks > 0
  /\ handler' = [handler EXCEPT ![h].run = "failed"]
  /\ UNCHANGED <<page, enabled, daemon, earned, left>>

CompleteImport(h) ==
  /\ handler[h].run = "pushing"
  /\ handler[h].chunks = 0
  /\ handler' = [handler EXCEPT ![h].run = "done"]
  /\ earned' = (earned \/ handler[h].kind = "onboard")
  /\ Report("complete")
  /\ UNCHANGED <<page, enabled, left>>

-----------------------------------------------------------------------------
Handle(h) ==
  \/ Answer(h)
  \/ Unanswered(h)
  \/ ShowStatus(h)
  \/ ShowSettings(h)
  \/ ShowMarked(h)
  \/ WaitForImport(h)
  \/ Conclude(h)

Import(h) ==
  \/ StartImport(h)
  \/ PushChunk(h)
  \/ PushFails(h)
  \/ CompleteImport(h)

Click(h) ==
  \/ ClickRefresh(h)
  \/ ClickSkip(h)
  \/ \E kind \in ImportKinds, found \in BOOLEAN : ClickImport(h, kind, found)

Next ==
  \/ \E h \in Handlers : Handle(h) \/ Import(h) \/ Click(h)
  \/ Die
  \/ Start

\* A request ends within three seconds, the dispatcher runs what is ready,
\* and an import process gets on with its chunks.
Fairness ==
  \A h \in Handlers : WF_vars(Handle(h)) /\ WF_vars(Import(h))

Spec == Init /\ [][Next]_vars
FairSpec == Spec /\ Fairness

-----------------------------------------------------------------------------
HandlerType ==
  [kind : Kinds \cup {None}, step : Steps \cup {None},
   at : {"idle", "asked", "answered", "waiting", "resting"},
   answer : Replies \cup {None}, run : RunStates, chunks : 0 .. Chunks]

TypeOK ==
  /\ page \in [completed : BOOLEAN, loaded : BOOLEAN, busy : BOOLEAN, text : Texts]
  /\ enabled \in [Buttons -> BOOLEAN]
  /\ handler \in [Handlers -> HandlerType]
  /\ daemon \in [up : BOOLEAN, status : Statuses, onboarded : BOOLEAN]
  /\ earned \in BOOLEAN
  /\ left \in [clicks : Nat, deaths : Nat]

(***************************************************************************)
(* Onboarding is over, for the page and for the daemon, only when an import*)
(* of the card has really gone through or the user has skipped it: not     *)
(* after an import that failed, whatever answers are lost or come late.    *)
(***************************************************************************)
FlagIsEarned == page.completed \/ daemon.onboarded => earned

(***************************************************************************)
(* The card offers what it says.  With no import of the page under way, its*)
(* two buttons are enabled exactly when the page believes that no import   *)
(* runs, and a text that invites to retry or to skip stands only above     *)
(* buttons that are enabled.                                               *)
(***************************************************************************)
CardOffersWhatItSays ==
  Shown(page) /\ ~Importing =>
    /\ enabled["onboardImport"] = ~page.busy
    /\ enabled["onboardSkip"] = ~page.busy
    /\ page.text \in {"retry", "prompt"} => ~page.busy

(***************************************************************************)
(* Import 60 Days is pressed again only when its last import is over: at   *)
(* most one handler of that button runs, and it is disabled exactly then.  *)
(* Two imports from the card may well run side by side.                    *)
(***************************************************************************)
OneImportPerButton ==
  /\ \A h, k \in Handlers :
       handler[h].kind = "import" /\ handler[k].kind = "import" => h = k
  /\ enabled["import"] <=> \A h \in Handlers : handler[h].kind # "import"

(***************************************************************************)
(* What these rest on: a handler asks only what its kind asks, it rests    *)
(* only when its import is over, and it has earned what it is about to     *)
(* mark or has been told.                                                  *)
(***************************************************************************)
InStep(s) ==
  /\ s.kind = None => s.at = "idle"
  /\ s.kind \in {"load", "refresh"} => s.step \in {"settings", "status"}
  /\ s.kind = "skip" => s.step = "mark"
  /\ s.kind = "import" => s.step \in {"poll", "final"}
  /\ s.kind = "onboard" => s.step \in {"poll", "final", "mark"}
  /\ s.at = "waiting" => s.step = "poll"
  /\ s.at = "resting" => s.step = "final"
  /\ s.step = "final" => s.run \in {"done", "failed"}
  /\ s.step \in {"poll", "final"} => s.kind \in ImportKinds

Claims(s) ==
  s.step = "mark" \/ s.answer = "onboarded" \/ (s.kind = "onboard" /\ s.run = "done")

HandlersInStep == \A h \in Handlers : InStep(handler[h])

ClaimsAreEarned == \A h \in Handlers : Claims(handler[h]) => earned

IInv ==
  /\ TypeOK
  /\ HandlersInStep
  /\ ClaimsAreEarned
  /\ FlagIsEarned
  /\ CardOffersWhatItSays
  /\ OneImportPerButton

(***************************************************************************)
(* Every import the user starts comes to an end and gives its controls     *)
(* back: also when its process fails and leaves the status at running, when*)
(* the daemon is away, and when other handlers show older answers.         *)
(***************************************************************************)
EveryImportEnds ==
  \A h \in Handlers : handler[h].kind \in ImportKinds ~> handler[h].kind = None
=============================================================================
