--------------------------- MODULE ViewerPageProofs ---------------------------
(***************************************************************************)
(* Proofs about ViewerPage: whatever handlers overlap and whatever answers *)
(* are lost or late, onboarding is earned and the card offers what it says.*)
(***************************************************************************)
EXTENDS ViewerPage, TLAPS

LEMMA IdleFits ==
  /\ Idle \in HandlerType /\ InStep(Idle) /\ ~Claims(Idle)
  /\ Idle.kind = None /\ Idle.answer = None /\ Idle.run = "off"
BY ViewerAssumption DEF Idle, HandlerType, InStep, Claims, RunStates, Kinds, ImportKinds,
   Steps, Replies

\* A handler that begins has asked what it begins with.
LEMMA BeginFits ==
  ASSUME NEW h, NEW kind \in Kinds, NEW step \in Steps
  PROVE  /\ Begin(h, kind, step) \in HandlerType
         /\ Begin(h, kind, step).kind = kind
         /\ Begin(h, kind, step).step = step
         /\ Begin(h, kind, step).at = "asked"
         /\ Begin(h, kind, step).answer = None
         /\ Begin(h, kind, step).run = "off"
BY IdleFits DEF Begin, HandlerType

LEMMA AskFits ==
  ASSUME NEW h \in Handlers, handler[h] \in HandlerType, NEW step \in Steps
  PROVE  /\ Ask(h, step) \in HandlerType
         /\ Ask(h, step).kind = handler[h].kind
         /\ Ask(h, step).step = step
         /\ Ask(h, step).at = "asked"
         /\ Ask(h, step).answer = None
         /\ Ask(h, step).run = handler[h].run
BY DEF Ask, HandlerType

\* A step that puts one handler in another place, which fits it there.
LEMMA OneHandler ==
  ASSUME IInv, NEW h \in Handlers, NEW s \in HandlerType, InStep(s),
         handler' = [handler EXCEPT ![h] = s]
  PROVE  /\ handler' \in [Handlers -> HandlerType]
         /\ HandlersInStep'
         /\ handler'[h] = s
         /\ \A k \in Handlers \ {h} : handler'[k] = handler[k]
<1>1. handler \in [Handlers -> HandlerType] /\ HandlersInStep
  BY DEF IInv, TypeOK
<1>2. handler' \in [Handlers -> HandlerType] /\ handler'[h] = s
  BY <1>1
<1>3. \A k \in Handlers \ {h} : handler'[k] = handler[k]
  BY <1>1
<1>4. HandlersInStep'
  BY <1>1, <1>2, <1>3 DEF HandlersInStep
<1>5. QED
  BY <1>2, <1>3, <1>4

\* Nobody loses what was earned.
LEMMA OneClaim ==
  ASSUME IInv, NEW h \in Handlers, NEW s \in HandlerType,
         handler' = [handler EXCEPT ![h] = s],
         earned \in BOOLEAN, earned' \in BOOLEAN, earned => earned', Claims(s) => earned'
  PROVE  ClaimsAreEarned'
<1>1. handler \in [Handlers -> HandlerType] /\ ClaimsAreEarned
  BY DEF IInv, TypeOK
<1>2. \A k \in Handlers : handler'[k] = IF k = h THEN s ELSE handler[k]
  BY <1>1
<1>3. ASSUME NEW k \in Handlers, Claims(handler'[k]) PROVE earned'
  <2>1. CASE k = h
    BY <1>2, <1>3, <2>1
  <2>2. CASE k # h
    BY <1>1, <1>2, <1>3, <2>2 DEF ClaimsAreEarned
  <2>3. QED
    BY <2>1, <2>2
<1>4. QED
  BY <1>3 DEF ClaimsAreEarned, Claims

-----------------------------------------------------------------------------
LEMMA InitInvariant == Init => IInv
<1> SUFFICES ASSUME Init PROVE IInv
  OBVIOUS
<1> DEFINE load == [Idle EXCEPT !.kind = "load", !.step = "settings", !.at = "asked"]
<1>1. load \in HandlerType /\ InStep(load) /\ ~Claims(load) /\ load.kind = "load"
  <2>1. PICK h \in Handlers : TRUE
    BY ViewerAssumption
  <2>2. load = Begin(h, "load", "settings") /\ "load" \in Kinds /\ "settings" \in Steps
    BY DEF Begin, Kinds, Steps
  <2> HIDE DEF load
  <2>3. QED
    BY <2>2, BeginFits, ViewerAssumption DEF InStep, Claims, Kinds, ImportKinds, Replies
<1>2. \A h \in Handlers : handler[h] = Idle \/ handler[h] = load
  BY DEF Init
<1>3. handler \in [Handlers -> HandlerType]
  BY <1>1, IdleFits DEF Init
<1> HIDE DEF load
<1>4. TypeOK
  <2>1. daemon \in [up : BOOLEAN, status : Statuses, onboarded : BOOLEAN]
    BY DEF Init
  <2>2. page \in [completed : BOOLEAN, loaded : BOOLEAN, busy : BOOLEAN, text : Texts]
    BY DEF Init, Texts
  <2>3. left \in [clicks : Nat, deaths : Nat]
    BY ViewerAssumption DEF Init
  <2>4. QED
    BY <1>3, <2>1, <2>2, <2>3 DEF Init, TypeOK
<1>5. HandlersInStep /\ ClaimsAreEarned
  BY <1>1, <1>2, IdleFits DEF HandlersInStep, ClaimsAreEarned
<1>6. FlagIsEarned /\ CardOffersWhatItSays
  BY DEF Init, FlagIsEarned, CardOffersWhatItSays, Shown
<1>7. \A h \in Handlers : handler[h].kind # "import"
  BY <1>1, <1>2, IdleFits, ViewerAssumption DEF Kinds, ImportKinds
<1>8. OneImportPerButton
  BY <1>7 DEF OneImportPerButton, Init, Buttons
<1>9. QED
  BY <1>4, <1>5, <1>6, <1>8 DEF IInv

PageType == [completed : BOOLEAN, loaded : BOOLEAN, busy : BOOLEAN, text : Texts]
DaemonType == [up : BOOLEAN, status : Statuses, onboarded : BOOLEAN]
LeftType == [clicks : Nat, deaths : Nat]

LEMMA Types ==
  ASSUME IInv
  PROVE  /\ page \in PageType /\ enabled \in [Buttons -> BOOLEAN]
         /\ handler \in [Handlers -> HandlerType] /\ daemon \in DaemonType
         /\ earned \in BOOLEAN /\ left \in LeftType
         /\ page.completed \/ daemon.onboarded => earned
         /\ \A h \in Handlers : InStep(handler[h]) /\ (Claims(handler[h]) => earned)
BY DEF IInv, TypeOK, PageType, DaemonType, LeftType, FlagIsEarned, HandlersInStep,
   ClaimsAreEarned

\* A step of one handler that the page does not show.
LEMMA Aside ==
  ASSUME IInv, NEW h \in Handlers, NEW s \in HandlerType, InStep(s),
         handler' = [handler EXCEPT ![h] = s], UNCHANGED <<page, enabled>>,
         s.kind \in ImportKinds <=> handler[h].kind \in ImportKinds,
         s.kind = "import" <=> handler[h].kind = "import",
         daemon' \in DaemonType, left' \in LeftType, earned' \in BOOLEAN,
         earned => earned', Claims(s) => earned',
         daemon'.onboarded => daemon.onboarded \/ earned'
  PROVE  IInv'
<1>1. /\ handler' \in [Handlers -> HandlerType] /\ HandlersInStep'
      /\ handler'[h] = s /\ \A k \in Handlers \ {h} : handler'[k] = handler[k]
  BY OneHandler
<1>2. ClaimsAreEarned'
  BY OneClaim, Types
<1>3. TypeOK'
  BY <1>1, Types DEF TypeOK, PageType, DaemonType, LeftType
<1>4. FlagIsEarned'
  BY Types DEF FlagIsEarned
<1>5. \A k \in Handlers : /\ handler'[k].kind \in ImportKinds <=> handler[k].kind \in ImportKinds
                          /\ handler'[k].kind = "import" <=> handler[k].kind = "import"
  BY <1>1
<1>6. CardOffersWhatItSays'
  BY <1>5 DEF IInv, CardOffersWhatItSays, Importing, Shown
<1>7. OneImportPerButton'
  BY <1>5 DEF IInv, OneImportPerButton
<1>8. QED
  BY <1>1, <1>2, <1>3, <1>4, <1>6, <1>7 DEF IInv

\* The card is brought up to date with the page that is shown.
LEMMA CardUpdated ==
  ASSUME NEW p \in PageType, NEW e \in [Buttons -> BOOLEAN], UpdateOnboardingCard(p, e)
  PROVE  /\ page' \in PageType /\ enabled' \in [Buttons -> BOOLEAN]
         /\ page'.completed = p.completed
         /\ enabled'["import"] = e["import"]
         /\ CardOffersWhatItSays'
<1>1. /\ page' \in PageType /\ page'.completed = p.completed
      /\ page'.loaded = p.loaded /\ page'.busy = p.busy
      /\ Shown(p) => (page'.text \in {"retry", "prompt"} => ~p.busy)
  <2>1. CASE page' = p /\ (Shown(p) => ~p.busy)
    BY <2>1
  <2>2. CASE page' = [p EXCEPT !.text = "running"]
    BY <2>2 DEF PageType, Texts
  <2>3. CASE page' = [p EXCEPT !.text = "prompt"] /\ ~p.busy
    BY <2>3 DEF PageType, Texts
  <2>4. QED
    BY <2>1, <2>2, <2>3 DEF UpdateOnboardingCard, Card
<1>2. /\ enabled' \in [Buttons -> BOOLEAN] /\ enabled'["import"] = e["import"]
      /\ Shown(p) => enabled'["onboardImport"] = ~p.busy /\ enabled'["onboardSkip"] = ~p.busy
  <2>1. p.busy \in BOOLEAN
    BY DEF PageType
  <2>2. QED
    BY <2>1 DEF UpdateOnboardingCard, Buttons
<1>3. QED
  BY <1>1, <1>2 DEF CardOffersWhatItSays, Shown

\* A handler that is no import shows an answer.
LEMMA Shows ==
  ASSUME IInv, NEW h \in Handlers, NEW s \in HandlerType, InStep(s), ~Claims(s) \/ earned,
         handler' = [handler EXCEPT ![h] = s],
         s.kind = "import" <=> handler[h].kind = "import",
         NEW p \in PageType, p.completed => earned, UpdateOnboardingCard(p, enabled),
         UNCHANGED <<daemon, earned, left>>
  PROVE  IInv'
<1>1. /\ handler' \in [Handlers -> HandlerType] /\ HandlersInStep'
      /\ handler'[h] = s /\ \A k \in Handlers \ {h} : handler'[k] = handler[k]
  BY OneHandler
<1>2. ClaimsAreEarned'
  BY OneClaim, Types
<1>3. /\ page' \in PageType /\ enabled' \in [Buttons -> BOOLEAN]
      /\ page'.completed = p.completed /\ enabled'["import"] = enabled["import"]
      /\ CardOffersWhatItSays'
  BY CardUpdated, Types
<1>4. TypeOK'
  BY <1>1, <1>3, Types DEF TypeOK, PageType, DaemonType, LeftType
<1>5. FlagIsEarned'
  BY <1>3, Types DEF FlagIsEarned
<1>6. OneImportPerButton'
  <2>1. \A k \in Handlers : handler'[k].kind = "import" <=> handler[k].kind = "import"
    BY <1>1
  <2>2. QED
    BY <1>3, <2>1 DEF IInv, OneImportPerButton
<1>7. QED
  BY <1>1, <1>2, <1>3, <1>4, <1>5, <1>6 DEF IInv

\* An import gives its controls back.
LEMMA Ends ==
  ASSUME IInv, NEW h \in Handlers, handler[h].kind \in ImportKinds,
         NEW p \in PageType, p.completed => earned, EndImport(h, p),
         UNCHANGED <<daemon, earned, left>>
  PROVE  IInv'
<1> DEFINE e == SetImportControlsEnabled(TRUE, handler[h].kind)
<1>0. handler' = [handler EXCEPT ![h] = Idle] /\ UpdateOnboardingCard(p, e)
  BY DEF EndImport
<1>1. /\ handler' \in [Handlers -> HandlerType] /\ HandlersInStep'
      /\ handler'[h] = Idle /\ \A k \in Handlers \ {h} : handler'[k] = handler[k]
  BY <1>0, OneHandler, IdleFits
<1>2. ClaimsAreEarned'
  BY <1>0, OneClaim, Types, IdleFits
<1>3. /\ e \in [Buttons -> BOOLEAN]
      /\ e["import"] <=> enabled["import"] \/ handler[h].kind = "import"
  BY Types DEF SetImportControlsEnabled, Buttons, Trigger
<1>4. /\ page' \in PageType /\ enabled' \in [Buttons -> BOOLEAN]
      /\ page'.completed = p.completed /\ enabled'["import"] = e["import"]
      /\ CardOffersWhatItSays'
  <2> HIDE DEF e
  <2>1. QED
    BY <1>0, <1>3, CardUpdated
<1> HIDE DEF e
<1>5. TypeOK'
  BY <1>1, <1>4, Types DEF TypeOK, PageType, DaemonType, LeftType
<1>6. FlagIsEarned'
  BY <1>4, Types DEF FlagIsEarned
<1>7. Idle.kind # "import"
  BY IdleFits, ViewerAssumption DEF Kinds, ImportKinds
<1>8. OneImportPerButton'
  BY <1>1, <1>3, <1>4, <1>7 DEF IInv, OneImportPerButton
<1>9. QED
  BY <1>1, <1>2, <1>4, <1>5, <1>6, <1>8 DEF IInv

-----------------------------------------------------------------------------
LEMMA ClickImportStep ==
  ASSUME IInv, NEW h \in Handlers, NEW kind \in ImportKinds, NEW found \in BOOLEAN,
         ClickImport(h, kind, found)
  PROVE  IInv'
<1> DEFINE s == IF found
                THEN [Begin(h, kind, "poll") EXCEPT !.run = "started", !.chunks = Chunks]
                ELSE [Begin(h, kind, "final") EXCEPT !.run = "failed"]
<1>0. /\ left.clicks > 0 /\ left' = [left EXCEPT !.clicks = @ - 1]
      /\ handler' = [handler EXCEPT ![h] = s] /\ UNCHANGED <<daemon, earned>>
      /\ enabled[Trigger(kind)] /\ enabled' = SetImportControlsEnabled(FALSE, kind)
      /\ page' = IF kind = "onboard" THEN [page EXCEPT !.text = "starting"] ELSE page
  BY DEF ClickImport, Clicked
<1>1. /\ s \in HandlerType /\ s.kind = kind /\ s.at = "asked" /\ s.answer = None
      /\ s.step \in {"poll", "final"} /\ (s.step = "final" => s.run = "failed")
      /\ s.run # "done"
  <2>1. kind \in Kinds /\ "poll" \in Steps /\ "final" \in Steps /\ Chunks \in Nat
    BY ViewerAssumption DEF Kinds, Steps
  <2>2. /\ Begin(h, kind, "poll") \in HandlerType /\ Begin(h, kind, "poll").kind = kind
        /\ Begin(h, kind, "poll").step = "poll" /\ Begin(h, kind, "poll").at = "asked"
        /\ Begin(h, kind, "poll").answer = None
    BY <2>1, BeginFits
  <2>3. /\ Begin(h, kind, "final") \in HandlerType /\ Begin(h, kind, "final").kind = kind
        /\ Begin(h, kind, "final").step = "final" /\ Begin(h, kind, "final").at = "asked"
        /\ Begin(h, kind, "final").answer = None
    BY <2>1, BeginFits
  <2>4. ASSUME NEW b \in HandlerType, NEW t,
               \/ t = [b EXCEPT !.run = "started", !.chunks = Chunks]
               \/ t = [b EXCEPT !.run = "failed"]
        PROVE  /\ t \in HandlerType /\ t.kind = b.kind /\ t.at = b.at
               /\ t.step = b.step /\ t.answer = b.answer
               /\ t.run \in {"started", "failed"}
    <3>1. Chunks \in 0 .. Chunks
      BY <2>1
    <3>2. CASE t = [b EXCEPT !.run = "started", !.chunks = Chunks]
      BY <3>1, <3>2 DEF HandlerType, RunStates
    <3>3. CASE t = [b EXCEPT !.run = "failed"]
      BY <3>3 DEF HandlerType, RunStates
    <3>4. QED
      BY <2>4, <3>2, <3>3
  <2>5. CASE found
    <3>1. s = [Begin(h, kind, "poll") EXCEPT !.run = "started", !.chunks = Chunks]
      BY <2>5
    <3> HIDE DEF s
    <3>2. QED
      BY <2>2, <2>4, <3>1
  <2>6. CASE ~found
    <3>1. s = [Begin(h, kind, "final") EXCEPT !.run = "failed"]
      BY <2>6
    <3>2. s.run = "failed"
      BY <2>3, <3>1 DEF HandlerType
    <3> HIDE DEF s
    <3>3. QED
      BY <2>3, <2>4, <3>1, <3>2
  <2>7. QED
    BY <2>5, <2>6
<1> HIDE DEF s
<1>2. InStep(s) /\ ~Claims(s)
  BY <1>1, ViewerAssumption DEF InStep, Claims, ImportKinds, Kinds, Replies
<1>3. /\ handler' \in [Handlers -> HandlerType] /\ HandlersInStep'
      /\ handler'[h] = s /\ \A k \in Handlers \ {h} : handler'[k] = handler[k]
  BY <1>0, <1>1, <1>2, OneHandler
<1>4. ClaimsAreEarned'
  BY <1>0, <1>1, <1>2, OneClaim, Types
<1>5. page' \in PageType /\ page'.completed = page.completed
  BY <1>0, Types DEF PageType, Texts
<1>6. left' \in LeftType
  BY <1>0, Types DEF LeftType
<1>7. enabled' \in [Buttons -> BOOLEAN]
  BY <1>0, Types DEF SetImportControlsEnabled
<1>8. TypeOK'
  BY <1>0, <1>3, <1>5, <1>6, <1>7, Types DEF TypeOK, PageType, DaemonType, LeftType
<1>9. FlagIsEarned'
  BY <1>0, <1>5, Types DEF FlagIsEarned
<1>10. CardOffersWhatItSays'
  BY <1>1, <1>3 DEF CardOffersWhatItSays, Importing
<1>11. handler[h].kind = None /\ None # "import"
  BY ViewerAssumption DEF ClickImport, Clicked, Running, Kinds, ImportKinds
<1>12. OneImportPerButton'
  <2>1. CASE kind = "import"
    <3>1. ~enabled'["import"] /\ \A k \in Handlers : handler[k].kind # "import"
      BY <1>0, <2>1 DEF IInv, OneImportPerButton, SetImportControlsEnabled, Trigger, Buttons
    <3>2. QED
      BY <1>1, <1>3, <2>1, <3>1 DEF OneImportPerButton
  <2>2. CASE kind = "onboard"
    <3>1. enabled'["import"] = enabled["import"]
      BY <1>0, <2>2 DEF SetImportControlsEnabled, Trigger, Buttons
    <3>2. \A k \in Handlers : handler'[k].kind = "import" <=> handler[k].kind = "import"
      BY <1>1, <1>3, <1>11, <2>2
    <3>3. QED
      BY <3>1, <3>2 DEF IInv, OneImportPerButton
  <2>3. QED
    BY <2>1, <2>2 DEF ImportKinds
<1>13. QED
  BY <1>3, <1>4, <1>8, <1>9, <1>10, <1>12 DEF IInv

LEMMA ClickStep ==
  ASSUME IInv, NEW h \in Handlers, Click(h)
  PROVE  IInv'
<1>1. ASSUME Clicked(h)
      PROVE  left' \in LeftType /\ daemon' \in DaemonType /\ handler[h].kind = None
  BY <1>1, Types DEF Clicked, Running, LeftType
<1>2. None # "import" /\ None \notin ImportKinds
  BY ViewerAssumption DEF Kinds, ImportKinds
<1>3. CASE ClickRefresh(h)
  <2> DEFINE s == Begin(h, "refresh", "status")
  <2>1. /\ s \in HandlerType /\ s.kind = "refresh" /\ s.step = "status"
        /\ s.at = "asked" /\ s.answer = None
    BY BeginFits DEF Kinds, Steps
  <2>2. handler' = [handler EXCEPT ![h] = s] /\ UNCHANGED <<page, enabled, daemon, earned>>
    BY <1>3 DEF ClickRefresh, Clicked
  <2> HIDE DEF s
  <2>3. InStep(s) /\ ~Claims(s)
    BY <2>1, ViewerAssumption DEF InStep, Claims, Kinds, ImportKinds, Replies
  <2>4. /\ s.kind \in ImportKinds <=> handler[h].kind \in ImportKinds
        /\ s.kind = "import" <=> handler[h].kind = "import"
    BY <1>1, <1>2, <1>3, <2>1 DEF ClickRefresh, ImportKinds
  <2>5. left' \in LeftType /\ daemon' \in DaemonType
    BY <1>1, <1>3 DEF ClickRefresh
  <2>6. /\ earned' \in BOOLEAN /\ (earned => earned') /\ (Claims(s) => earned')
        /\ UNCHANGED <<page, enabled>>
        /\ daemon'.onboarded => daemon.onboarded \/ earned'
    BY <2>2, <2>3, Types
  <2>7. QED
    BY <2>1, <2>2, <2>3, <2>4, <2>5, <2>6, Aside
<1>4. CASE ClickSkip(h)
  <2> DEFINE s == Begin(h, "skip", "mark")
  <2>1. /\ s \in HandlerType /\ s.kind = "skip" /\ s.step = "mark"
        /\ s.at = "asked" /\ s.answer = None
    BY BeginFits DEF Kinds, Steps
  <2>2. /\ handler' = [handler EXCEPT ![h] = s] /\ UNCHANGED <<page, enabled, daemon>>
        /\ earned' = TRUE
    BY <1>4 DEF ClickSkip, Clicked
  <2> HIDE DEF s
  <2>3. InStep(s)
    BY <2>1, ViewerAssumption DEF InStep, Kinds, ImportKinds
  <2>4. QED
    BY <1>1, <1>2, <1>4, <2>1, <2>2, <2>3, Aside, Types DEF ClickSkip, ImportKinds
<1>5. CASE \E kind \in ImportKinds, found \in BOOLEAN : ClickImport(h, kind, found)
  BY <1>5, ClickImportStep
<1>6. QED
  BY <1>3, <1>4, <1>5 DEF Click

-----------------------------------------------------------------------------
\* A request ends: answered, or given up.
LEMMA Answered ==
  ASSUME IInv, NEW h \in Handlers, NEW reply \in Replies, handler[h].at = "asked",
         handler' = [handler EXCEPT ![h].at = "answered", ![h].answer = reply],
         reply = "onboarded" => earned,
         daemon' \in DaemonType, daemon'.onboarded => daemon.onboarded \/ earned,
         UNCHANGED <<page, enabled, earned, left>>
  PROVE  IInv'
<1> DEFINE s == [handler[h] EXCEPT !.at = "answered", !.answer = reply]
<1>1. handler[h] \in HandlerType /\ InStep(handler[h]) /\ (Claims(handler[h]) => earned)
  BY Types
<1>2. handler' = [handler EXCEPT ![h] = s]
  OBVIOUS
<1>3. /\ s \in HandlerType /\ s.at = "answered" /\ s.answer = reply
      /\ s.kind = handler[h].kind /\ s.step = handler[h].step /\ s.run = handler[h].run
  BY <1>1 DEF HandlerType
<1> HIDE DEF s
<1>4. InStep(s)
  BY <1>1, <1>3 DEF InStep
<1>5. Claims(s) => earned
  BY <1>1, <1>3 DEF Claims
<1>6. QED
  BY <1>2, <1>3, <1>4, <1>5, Aside, Types

LEMMA AnswerStep ==
  ASSUME IInv, NEW h \in Handlers, Answer(h) \/ Unanswered(h)
  PROVE  IInv'
<1>1. /\ handler[h] \in HandlerType /\ daemon \in DaemonType
      /\ Claims(handler[h]) => earned
      /\ daemon.onboarded => earned
  BY Types
<1>2. handler[h].step = "mark" => earned
  BY <1>1 DEF Claims
<1>3. CASE Answer(h)
  <2> DEFINE reply == CASE handler[h].step = "settings" ->
                             IF daemon.onboarded THEN "onboarded" ELSE "fresh"
                        [] handler[h].step = "mark" -> "applied"
                        [] OTHER -> daemon.status
  <2>1. reply \in Replies /\ (reply = "onboarded" => earned)
    <3>1. daemon.status \in Statuses
      BY <1>1 DEF DaemonType
    <3>2. "onboarded" \notin Statuses
      BY DEF Statuses
    <3>3. CASE handler[h].step = "settings"
      BY <1>1, <3>3 DEF Replies
    <3>4. CASE handler[h].step = "mark"
      BY <3>4 DEF Replies
    <3>5. CASE handler[h].step \notin {"settings", "mark"}
      BY <3>1, <3>2, <3>5 DEF Replies
    <3>6. QED
      BY <3>3, <3>4, <3>5
  <2>2. handler' = [handler EXCEPT ![h].at = "answered", ![h].answer = reply]
    BY <1>3 DEF Answer
  <2> HIDE DEF reply
  <2>3. /\ daemon' \in DaemonType
        /\ daemon'.onboarded => daemon.onboarded \/ earned
    BY <1>1, <1>2, <1>3 DEF Answer, DaemonType
  <2>4. handler[h].at = "asked" /\ UNCHANGED <<page, enabled, earned, left>>
    BY <1>3 DEF Answer
  <2>5. QED
    BY <2>1, <2>2, <2>3, <2>4, Answered
<1>4. CASE Unanswered(h)
  <2>1. /\ daemon' \in DaemonType
        /\ daemon'.onboarded => daemon.onboarded \/ earned
    <3>1. CASE daemon' = daemon
      BY <1>1, <3>1
    <3>2. CASE daemon' = [daemon EXCEPT !.onboarded = TRUE] /\ handler[h].step = "mark"
      BY <1>1, <1>2, <3>2 DEF DaemonType
    <3>3. QED
      BY <1>4, <3>1, <3>2 DEF Unanswered
  <2>2. "failed" \in Replies
    BY DEF Replies
  <2>3. /\ handler[h].at = "asked" /\ UNCHANGED <<page, enabled, earned, left>>
        /\ handler' = [handler EXCEPT ![h].at = "answered", ![h].answer = "failed"]
    BY <1>4 DEF Unanswered
  <2>4. QED
    BY <2>1, <2>2, <2>3, Answered
<1>5. QED
  BY <1>3, <1>4

\* What a handler of the page goes on with, when it asks again.
LEMMA AsksAgain ==
  ASSUME IInv, NEW h \in Handlers, NEW step \in Steps, handler[h].kind # None,
         handler[h].kind \in {"load", "refresh"} => step \in {"settings", "status"},
         handler[h].kind = "skip" => step = "mark",
         handler[h].kind = "import" => step \in {"poll", "final"},
         handler[h].kind = "onboard" => step \in {"poll", "final", "mark"},
         step = "final" => handler[h].run \in {"done", "failed"},
         step \in {"poll", "final"} => handler[h].kind \in ImportKinds,
         step = "mark" => earned
  PROVE  /\ Ask(h, step) \in HandlerType /\ InStep(Ask(h, step))
         /\ Claims(Ask(h, step)) => earned
         /\ Ask(h, step).kind = handler[h].kind
<1>1. handler[h] \in HandlerType /\ (Claims(handler[h]) => earned)
  BY Types
<1>2. /\ Ask(h, step) \in HandlerType /\ Ask(h, step).kind = handler[h].kind
      /\ Ask(h, step).step = step /\ Ask(h, step).at = "asked"
      /\ Ask(h, step).answer = None /\ Ask(h, step).run = handler[h].run
  BY <1>1, AskFits
<1>3. InStep(Ask(h, step))
  BY <1>2 DEF InStep
<1>4. None # "onboarded"
  BY ViewerAssumption DEF Replies
<1>5. Claims(Ask(h, step)) => earned
  BY <1>1, <1>2, <1>4 DEF Claims
<1>6. QED
  BY <1>2, <1>3, <1>5

LEMMA StatusShown ==
  ASSUME IInv, NEW h \in Handlers, ShowStatus(h)
  PROVE  IInv'
<1> DEFINE s == AfterStatus(h)
           p == [page EXCEPT !.busy = handler[h].answer = "running"]
<1>0. /\ handler' = [handler EXCEPT ![h] = s] /\ UpdateOnboardingCard(p, enabled)
      /\ UNCHANGED <<daemon, earned, left>>
      /\ handler[h].at = "answered" /\ handler[h].step \in {"status", "poll", "final"}
  BY DEF ShowStatus
<1>1. /\ handler[h] \in HandlerType /\ InStep(handler[h])
      /\ Claims(handler[h]) => earned
      /\ page \in PageType /\ (page.completed => earned)
  BY Types
<1>2. p \in PageType /\ (p.completed => earned)
  <2>1. ASSUME NEW b \in BOOLEAN, NEW q, q = [page EXCEPT !.busy = b]
        PROVE  q \in PageType /\ q.completed = page.completed
    BY <1>1, <2>1 DEF PageType
  <2>2. (handler[h].answer = "running") \in BOOLEAN
    OBVIOUS
  <2>3. p \in PageType /\ p.completed = page.completed
    BY <2>1, <2>2
  <2> HIDE DEF p
  <2>4. QED
    BY <1>1, <2>3
<1>3. /\ s \in HandlerType /\ InStep(s) /\ (Claims(s) => earned)
      /\ s.kind = "import" <=> handler[h].kind = "import"
  <2>1. ASSUME NEW at \in {"waiting", "resting"}, NEW t,
               t = [handler[h] EXCEPT !.at = at, !.answer = None],
               at = "waiting" => handler[h].step = "poll",
               at = "resting" => handler[h].step = "final"
        PROVE  t \in HandlerType /\ InStep(t) /\ (Claims(t) => earned) /\ t.kind = handler[h].kind
    <3>1. /\ t \in HandlerType /\ t.at = at /\ t.answer = None /\ t.kind = handler[h].kind
          /\ t.step = handler[h].step /\ t.run = handler[h].run
      BY <1>1, <2>1 DEF HandlerType
    <3>2. None # "onboarded"
      BY ViewerAssumption DEF Replies
    <3>3. InStep(t)
      BY <1>0, <1>1, <2>1, <3>1 DEF InStep
    <3>4. Claims(t) => earned
      BY <1>1, <3>1, <3>2 DEF Claims
    <3>5. QED
      BY <3>1, <3>3, <3>4
  <2>2. CASE handler[h].step = "poll"
    <3>1. s = [handler[h] EXCEPT !.at = "waiting", !.answer = None]
      BY <2>2 DEF AfterStatus
    <3> HIDE DEF s
    <3>2. QED
      BY <2>1, <2>2, <3>1
  <2>3. CASE handler[h].step = "final"
    <3>1. s = [handler[h] EXCEPT !.at = "resting", !.answer = None]
      BY <2>3 DEF AfterStatus
    <3> HIDE DEF s
    <3>2. QED
      BY <2>1, <2>3, <3>1
  <2>4. CASE handler[h].step = "status" /\ handler[h].kind = "refresh"
    <3>1. s = Ask(h, "settings")
      BY <2>4 DEF AfterStatus
    <3>2. "settings" \in Steps /\ None # "refresh" /\ handler[h].kind \notin ImportKinds
      BY <2>4, ViewerAssumption DEF Steps, Kinds, ImportKinds
    <3>3. handler[h].kind # None
      BY <2>4, <3>2
    <3>4. /\ Ask(h, "settings") \in HandlerType /\ InStep(Ask(h, "settings"))
          /\ Claims(Ask(h, "settings")) => earned
          /\ Ask(h, "settings").kind = handler[h].kind
      BY <2>4, <3>2, <3>3, AsksAgain
    <3> HIDE DEF s
    <3>5. QED
      BY <2>4, <3>1, <3>4
  <2>5. CASE handler[h].step = "status" /\ handler[h].kind # "refresh"
    <3>1. s = Idle
      BY <2>5 DEF AfterStatus
    <3>2. handler[h].kind # "import" /\ Idle.kind # "import"
      BY <1>1, <2>5, IdleFits, ViewerAssumption DEF InStep, Kinds, ImportKinds
    <3> HIDE DEF s
    <3>3. QED
      BY <3>1, <3>2, IdleFits
  <2>6. QED
    BY <1>0, <2>2, <2>3, <2>4, <2>5
<1> HIDE DEF s, p
<1>4. QED
  BY <1>0, <1>2, <1>3, Shows

LEMMA SettingsShown ==
  ASSUME IInv, NEW h \in Handlers, ShowSettings(h)
  PROVE  IInv'
<1> DEFINE failed == handler[h].answer = "failed"
           s == IF handler[h].kind = "load" THEN Ask(h, "status") ELSE Idle
           p == [page EXCEPT !.loaded = ~failed,
                             !.completed = IF failed THEN @
                                           ELSE handler[h].answer = "onboarded"]
<1>0. /\ handler' = [handler EXCEPT ![h] = s] /\ UpdateOnboardingCard(p, enabled)
      /\ UNCHANGED <<daemon, earned, left>>
      /\ handler[h].at = "answered" /\ handler[h].step = "settings"
  BY DEF ShowSettings
<1>1. /\ handler[h] \in HandlerType /\ InStep(handler[h])
      /\ Claims(handler[h]) => earned
      /\ page \in PageType /\ (page.completed => earned)
  BY Types
<1>2. p \in PageType /\ (p.completed => earned)
  <2>1. handler[h].answer = "onboarded" => earned
    BY <1>1 DEF Claims
  <2>2. ASSUME NEW l \in BOOLEAN, NEW c \in BOOLEAN, NEW q,
               q = [page EXCEPT !.loaded = l, !.completed = c]
        PROVE  q \in PageType /\ q.completed = c
    BY <1>1, <2>2 DEF PageType
  <2>3. CASE failed
    <3>1. p = [page EXCEPT !.loaded = FALSE, !.completed = page.completed]
      BY <1>1, <2>3 DEF PageType
    <3> HIDE DEF p
    <3>2. page.completed \in BOOLEAN
      BY <1>1 DEF PageType
    <3>3. QED
      BY <1>1, <2>2, <3>1, <3>2
  <2>4. CASE ~failed
    <3> DEFINE told == handler[h].answer = "onboarded"
    <3>1. p = [page EXCEPT !.loaded = TRUE, !.completed = told]
      BY <1>1, <2>4 DEF PageType
    <3>2. told \in BOOLEAN /\ (told => earned)
      BY <2>1
    <3> HIDE DEF p, told
    <3>3. QED
      BY <2>2, <3>1, <3>2
  <2>5. QED
    BY <2>3, <2>4
<1>3. handler[h].kind \in {"load", "refresh"}
  BY <1>0, <1>1 DEF InStep, HandlerType, Kinds, ImportKinds
<1>4. None \notin {"load", "refresh", "import"} /\ "import" \notin {"load", "refresh"}
  BY ViewerAssumption DEF Kinds, ImportKinds
<1>5. /\ s \in HandlerType /\ InStep(s) /\ (Claims(s) => earned)
      /\ s.kind # "import" /\ handler[h].kind # "import"
  <2>1. CASE handler[h].kind = "load"
    <3>1. s = Ask(h, "status")
      BY <2>1
    <3>2. "status" \in Steps /\ handler[h].kind # None /\ handler[h].kind \notin ImportKinds
      BY <1>4, <2>1 DEF Steps, ImportKinds
    <3>3. /\ Ask(h, "status") \in HandlerType /\ InStep(Ask(h, "status"))
          /\ Claims(Ask(h, "status")) => earned
          /\ Ask(h, "status").kind = handler[h].kind
      BY <2>1, <3>2, AsksAgain
    <3> HIDE DEF s
    <3>4. QED
      BY <1>4, <2>1, <3>1, <3>3
  <2>2. CASE handler[h].kind # "load"
    <3>1. s = Idle
      BY <2>2
    <3> HIDE DEF s
    <3>2. QED
      BY <1>3, <1>4, <3>1, IdleFits
  <2>3. QED
    BY <2>1, <2>2
<1> HIDE DEF s, p
<1>6. QED
  BY <1>0, <1>2, <1>5, Shows

LEMMA MarkShown ==
  ASSUME IInv, NEW h \in Handlers, ShowMarked(h)
  PROVE  IInv'
<1>1. /\ handler[h] \in HandlerType /\ InStep(handler[h])
      /\ Claims(handler[h]) => earned
      /\ page \in PageType /\ (page.completed => earned)
  BY Types
<1>2. earned
  BY <1>1 DEF ShowMarked, Claims
<1>3. Marked(h) \in PageType
  <2>1. ASSUME NEW t \in Texts, NEW q,
               \/ q = [page EXCEPT !.text = t]
               \/ q = [page EXCEPT !.loaded = TRUE, !.completed = TRUE, !.text = t]
        PROVE  q \in PageType
    BY <1>1, <2>1 DEF PageType
  <2>2. {"unable", "dismissed", "finished"} \subseteq Texts
    BY DEF Texts
  <2>3. QED
    BY <2>1, <2>2 DEF Marked
<1>4. CASE handler[h].kind = "onboard"
  <2>1. EndImport(h, Marked(h)) /\ UNCHANGED <<daemon, earned, left>>
    BY <1>4 DEF ShowMarked
  <2>2. QED
    BY <1>2, <1>3, <1>4, <2>1, Ends DEF ImportKinds
<1>5. CASE handler[h].kind # "onboard"
  <2>1. /\ page' = Marked(h) /\ handler' = [handler EXCEPT ![h] = Idle]
        /\ UNCHANGED <<enabled, daemon, earned, left>>
        /\ handler[h].at = "answered" /\ handler[h].step = "mark"
    BY <1>5 DEF ShowMarked
  <2>2. handler[h].kind = "skip"
    BY <1>1, <1>5, <2>1 DEF InStep, HandlerType, Kinds, ImportKinds
  <2>3. /\ handler' \in [Handlers -> HandlerType] /\ HandlersInStep'
        /\ handler'[h] = Idle /\ \A k \in Handlers \ {h} : handler'[k] = handler[k]
    BY <2>1, OneHandler, IdleFits
  <2>4. ClaimsAreEarned'
    BY <1>2, <2>1, OneClaim, Types, IdleFits
  <2>5. TypeOK'
    BY <1>3, <2>1, <2>3, Types DEF TypeOK, PageType, DaemonType, LeftType
  <2>6. FlagIsEarned'
    BY <1>2, <2>1 DEF FlagIsEarned
  <2>7. Idle.kind \notin ImportKinds /\ "skip" \notin ImportKinds /\ "import" \in ImportKinds
    BY IdleFits, ViewerAssumption DEF Kinds, ImportKinds
  <2>8. \A k \in Handlers : /\ handler'[k].kind \in ImportKinds <=> handler[k].kind \in ImportKinds
                            /\ handler'[k].kind = "import" <=> handler[k].kind = "import"
    BY <2>2, <2>3, <2>7
  <2>9. CardOffersWhatItSays'
    <3>1. CASE handler[h].answer = "failed"
      <4>1. page' = [page EXCEPT !.text = "unable"]
        BY <2>1, <3>1 DEF Marked
      <4>2. /\ page'.text = "unable" /\ page'.busy = page.busy
            /\ page'.loaded = page.loaded /\ page'.completed = page.completed
        BY <1>1, <4>1 DEF PageType
      <4>3. QED
        BY <2>1, <2>8, <4>2 DEF IInv, CardOffersWhatItSays, Importing, Shown
    <3>2. CASE handler[h].answer # "failed"
      <4>1. page' = [page EXCEPT !.loaded = TRUE, !.completed = TRUE,
                       !.text = IF handler[h].kind = "skip" THEN "dismissed" ELSE "finished"]
        BY <2>1, <3>2 DEF Marked
      <4>2. page'.completed
        BY <1>1, <4>1 DEF PageType
      <4>3. QED
        BY <4>2 DEF CardOffersWhatItSays, Shown
    <3>3. QED
      BY <3>1, <3>2
  <2>10. OneImportPerButton'
    BY <2>1, <2>8 DEF IInv, OneImportPerButton
  <2>11. QED
    BY <2>3, <2>4, <2>5, <2>6, <2>9, <2>10 DEF IInv
<1>6. QED
  BY <1>4, <1>5

\* An import asks once more, or is judged and asks to be marked.
LEMMA ImportAsks ==
  ASSUME IInv, NEW h \in Handlers, handler[h].kind \in ImportKinds,
         NEW step \in {"poll", "final", "mark"},
         step = "final" => handler[h].run \in {"done", "failed"},
         step = "mark" => handler[h].kind = "onboard" /\ handler[h].run = "done",
         handler' = [handler EXCEPT ![h] = Ask(h, step)],
         UNCHANGED <<page, enabled, daemon, earned, left>>
  PROVE  IInv'
<1>1. None \notin ImportKinds /\ step \in Steps
  BY ViewerAssumption DEF Kinds, Steps
<1>2. handler[h].kind \notin {"load", "refresh", "skip"}
  BY DEF ImportKinds
<1>3. step = "mark" => earned
  BY Types DEF Claims
<1>4. handler[h].kind = "import" => step # "mark"
  OBVIOUS
<1>5. /\ Ask(h, step) \in HandlerType /\ InStep(Ask(h, step))
      /\ Claims(Ask(h, step)) => earned
      /\ Ask(h, step).kind = handler[h].kind
  BY <1>1, <1>2, <1>3, <1>4, AsksAgain
<1>6. /\ Ask(h, step).kind \in ImportKinds <=> handler[h].kind \in ImportKinds
      /\ Ask(h, step).kind = "import" <=> handler[h].kind = "import"
  BY <1>5
<1>7. /\ daemon' \in DaemonType /\ left' \in LeftType /\ earned' \in BOOLEAN
      /\ earned => earned'
      /\ Claims(Ask(h, step)) => earned'
      /\ daemon'.onboarded => daemon.onboarded \/ earned'
      /\ UNCHANGED <<page, enabled>>
  BY <1>5, Types
<1>8. QED
  BY <1>5, <1>6, <1>7, Aside

LEMMA WaitStep ==
  ASSUME IInv, NEW h \in Handlers, WaitForImport(h)
  PROVE  IInv'
<1>1. handler[h].kind \in ImportKinds
  BY Types DEF WaitForImport, InStep
<1>2. UNCHANGED <<page, enabled, daemon, earned, left>>
  BY DEF WaitForImport
<1>3. CASE handler[h].run \in {"done", "failed"}
  <2>1. handler' = [handler EXCEPT ![h] = Ask(h, "final")]
    BY <1>3 DEF WaitForImport
  <2>2. QED
    BY <1>1, <1>2, <1>3, <2>1, ImportAsks
<1>4. CASE handler[h].run \notin {"done", "failed"}
  <2>1. handler' = [handler EXCEPT ![h] = Ask(h, "poll")]
    BY <1>4 DEF WaitForImport
  <2>2. QED
    BY <1>1, <1>2, <2>1, ImportAsks
<1>5. QED
  BY <1>3, <1>4

LEMMA ConcludeStep ==
  ASSUME IInv, NEW h \in Handlers, Conclude(h)
  PROVE  IInv'
<1>1. /\ page \in PageType /\ (page.completed => earned)
      /\ InStep(handler[h])
  BY Types
<1>2. handler[h].kind \in ImportKinds /\ handler[h].run \in {"done", "failed"}
  BY <1>1 DEF Conclude, InStep
<1>3. UNCHANGED <<daemon, earned, left>>
  BY DEF Conclude
<1>4. CASE handler[h].kind = "import"
  <2>1. EndImport(h, page)
    BY <1>4 DEF Conclude
  <2>2. QED
    BY <1>1, <1>2, <1>3, <2>1, Ends
<1>5. CASE handler[h].kind # "import" /\ handler[h].run = "failed"
  <2> DEFINE p == [page EXCEPT !.text = "retry"]
  <2>1. EndImport(h, p)
    BY <1>5 DEF Conclude
  <2>2. p \in PageType /\ (p.completed => earned)
    BY <1>1 DEF PageType, Texts
  <2> HIDE DEF p
  <2>3. QED
    BY <1>2, <1>3, <2>1, <2>2, Ends
<1>6. CASE handler[h].kind # "import" /\ handler[h].run # "failed"
  <2>1. handler' = [handler EXCEPT ![h] = Ask(h, "mark")] /\ UNCHANGED <<page, enabled>>
    BY <1>6 DEF Conclude
  <2>2. handler[h].kind = "onboard" /\ handler[h].run = "done"
    BY <1>2, <1>6 DEF ImportKinds
  <2>3. QED
    BY <1>2, <1>3, <2>1, <2>2, ImportAsks
<1>7. QED
  BY <1>4, <1>5, <1>6

LEMMA HandleStep ==
  ASSUME IInv, NEW h \in Handlers, Handle(h)
  PROVE  IInv'
BY AnswerStep, StatusShown, SettingsShown, MarkShown, WaitStep, ConcludeStep DEF Handle

-----------------------------------------------------------------------------
\* The import process of a handler gets on, beside the page.
LEMMA ProcessMoves ==
  ASSUME IInv, NEW h \in Handlers, NEW s \in HandlerType,
         handler' = [handler EXCEPT ![h] = s],
         s.kind = handler[h].kind, s.step = handler[h].step, s.at = handler[h].at,
         s.answer = handler[h].answer, handler[h].run \in {"started", "pushing"},
         s.run = "done" /\ s.kind = "onboard" => earned',
         earned' \in BOOLEAN, earned => earned',
         daemon' \in DaemonType, daemon'.onboarded = daemon.onboarded,
         UNCHANGED <<page, enabled, left>>
  PROVE  IInv'
<1>1. InStep(handler[h]) /\ (Claims(handler[h]) => earned)
  BY Types
<1>2. InStep(s)
  BY <1>1 DEF InStep
<1>3. Claims(s) => earned'
  BY <1>1 DEF Claims
<1>4. /\ s.kind \in ImportKinds <=> handler[h].kind \in ImportKinds
      /\ s.kind = "import" <=> handler[h].kind = "import"
  OBVIOUS
<1>5. /\ left' \in LeftType /\ UNCHANGED <<page, enabled>>
      /\ daemon'.onboarded => daemon.onboarded \/ earned'
  BY Types
<1>6. QED
  BY <1>2, <1>3, <1>4, <1>5, Aside

LEMMA Reported ==
  ASSUME IInv, NEW status \in Statuses, Report(status)
  PROVE  daemon' \in DaemonType /\ daemon'.onboarded = daemon.onboarded
BY Types DEF Report, DaemonType

LEMMA ImportStep ==
  ASSUME IInv, NEW h \in Handlers, Import(h)
  PROVE  IInv'
<1>1. handler \in [Handlers -> HandlerType] /\ handler[h] \in HandlerType
      /\ earned \in BOOLEAN /\ daemon \in DaemonType
  BY Types
<1>2. {"running", "complete"} \subseteq Statuses
  BY DEF Statuses
<1>3. ASSUME NEW run \in RunStates, NEW s, s = [handler[h] EXCEPT !.run = run]
      PROVE  /\ s \in HandlerType /\ s.kind = handler[h].kind /\ s.step = handler[h].step
             /\ s.at = handler[h].at /\ s.answer = handler[h].answer /\ s.run = run
  BY <1>1, <1>3 DEF HandlerType
<1>4. CASE StartImport(h)
  <2> DEFINE s == [handler[h] EXCEPT !.run = "pushing"]
  <2>1. /\ handler' = [handler EXCEPT ![h] = s] /\ Report("running")
        /\ handler[h].run = "started" /\ UNCHANGED <<page, enabled, earned, left>>
    BY <1>4 DEF StartImport
  <2>2. /\ s \in HandlerType /\ s.kind = handler[h].kind /\ s.step = handler[h].step
        /\ s.at = handler[h].at /\ s.answer = handler[h].answer /\ s.run = "pushing"
    BY <1>3 DEF RunStates
  <2> HIDE DEF s
  <2>3. daemon' \in DaemonType /\ daemon'.onboarded = daemon.onboarded
    BY <1>2, <2>1, Reported
  <2>4. QED
    BY <1>1, <2>1, <2>2, <2>3, ProcessMoves
<1>5. CASE PushChunk(h)
  <2> DEFINE s == [handler[h] EXCEPT !.chunks = @ - 1]
  <2>1. /\ handler' = [handler EXCEPT ![h] = s] /\ Report("running")
        /\ handler[h].run = "pushing" /\ handler[h].chunks > 0
        /\ UNCHANGED <<page, enabled, earned, left>>
    BY <1>5 DEF PushChunk
  <2>2. handler[h].chunks - 1 \in 0 .. Chunks
    BY <1>1, <2>1, ViewerAssumption DEF HandlerType
  <2>3. /\ s \in HandlerType /\ s.kind = handler[h].kind /\ s.step = handler[h].step
        /\ s.at = handler[h].at /\ s.answer = handler[h].answer /\ s.run = "pushing"
    BY <1>1, <2>1, <2>2 DEF HandlerType
  <2> HIDE DEF s
  <2>4. daemon' \in DaemonType /\ daemon'.onboarded = daemon.onboarded
    BY <1>2, <2>1, Reported
  <2>5. QED
    BY <1>1, <2>1, <2>3, <2>4, ProcessMoves
<1>6. CASE PushFails(h)
  <2> DEFINE s == [handler[h] EXCEPT !.run = "failed"]
  <2>1. /\ handler' = [handler EXCEPT ![h] = s] /\ handler[h].run = "pushing"
        /\ UNCHANGED <<page, enabled, daemon, earned, left>>
    BY <1>6 DEF PushFails
  <2>2. /\ s \in HandlerType /\ s.kind = handler[h].kind /\ s.step = handler[h].step
        /\ s.at = handler[h].at /\ s.answer = handler[h].answer /\ s.run = "failed"
    BY <1>3 DEF RunStates
  <2> HIDE DEF s
  <2>3. QED
    BY <1>1, <2>1, <2>2, ProcessMoves
<1>7. CASE CompleteImport(h)
  <2> DEFINE s == [handler[h] EXCEPT !.run = "done"]
  <2>1. /\ handler' = [handler EXCEPT ![h] = s] /\ Report("complete")
        /\ handler[h].run = "pushing" /\ UNCHANGED <<page, enabled, left>>
        /\ earned' = (earned \/ handler[h].kind = "onboard")
    BY <1>7 DEF CompleteImport
  <2>2. /\ s \in HandlerType /\ s.kind = handler[h].kind /\ s.step = handler[h].step
        /\ s.at = handler[h].at /\ s.answer = handler[h].answer /\ s.run = "done"
    BY <1>3 DEF RunStates
  <2> HIDE DEF s
  <2>3. daemon' \in DaemonType /\ daemon'.onboarded = daemon.onboarded
    BY <1>2, <2>1, Reported
  <2>4. earned' \in BOOLEAN /\ (earned => earned') /\ (s.kind = "onboard" => earned')
    BY <1>1, <2>1, <2>2
  <2>5. QED
    BY <2>1, <2>2, <2>3, <2>4, ProcessMoves
<1>8. QED
  BY <1>4, <1>5, <1>6, <1>7 DEF Import

\* A daemon that dies or starts again has been told nothing new.
LEMMA DaemonStep ==
  ASSUME IInv, Die \/ Start
  PROVE  IInv'
<1>1. /\ daemon' \in DaemonType /\ left' \in LeftType
      /\ daemon'.onboarded => daemon.onboarded
  <2>1. daemon \in DaemonType /\ left \in LeftType
    BY Types
  <2>2. CASE Die
    <3>1. daemon' = [daemon EXCEPT !.up = FALSE]
      BY <2>2 DEF Die
    <3>2. daemon' \in DaemonType /\ daemon'.onboarded = daemon.onboarded
      BY <2>1, <3>1 DEF DaemonType
    <3>3. left.deaths > 0 /\ left' = [left EXCEPT !.deaths = @ - 1]
      BY <2>2 DEF Die
    <3>4. left' \in LeftType
      BY <2>1, <3>3 DEF LeftType
    <3>5. QED
      BY <3>2, <3>4
  <2>3. CASE Start
    BY <2>1, <2>3 DEF Start, DaemonType, Statuses
  <2>4. QED
    BY <2>2, <2>3
<1>2. UNCHANGED <<page, enabled, handler, earned>>
  BY DEF Die, Start
<1>3. TypeOK'
  BY <1>1, <1>2, Types DEF TypeOK, PageType, DaemonType, LeftType
<1>4. HandlersInStep' /\ ClaimsAreEarned'
  BY <1>2 DEF IInv, HandlersInStep, ClaimsAreEarned
<1>5. FlagIsEarned'
  BY <1>1, <1>2 DEF IInv, FlagIsEarned
<1>6. CardOffersWhatItSays' /\ OneImportPerButton'
  BY <1>2 DEF IInv, CardOffersWhatItSays, OneImportPerButton, Importing, Shown
<1>7. QED
  BY <1>3, <1>4, <1>5, <1>6 DEF IInv

LEMMA Stutter ==
  ASSUME IInv, UNCHANGED vars
  PROVE  IInv'
BY DEF IInv, vars, TypeOK, HandlersInStep, ClaimsAreEarned, FlagIsEarned,
   CardOffersWhatItSays, OneImportPerButton, Importing, Shown

LEMMA StepInvariant == IInv /\ [Next]_vars => IInv'
BY HandleStep, ImportStep, ClickStep, DaemonStep, Stutter DEF Next

-----------------------------------------------------------------------------
(***************************************************************************)
(* The inductive invariant: the handlers of the page, the import processes *)
(* and the daemon never leave the states their code expects of each other. *)
(***************************************************************************)
THEOREM InvariantHolds == Spec => []IInv
BY InitInvariant, StepInvariant, PTL DEF Spec

(***************************************************************************)
(* MarkOnboardingCompletedAsync is reached only after a successful import  *)
(* of the card or a skip, and LoadSettingsAsync shows no other claim.      *)
(***************************************************************************)
THEOREM OnboardingIsEarned == Spec => []FlagIsEarned
<1>1. IInv => FlagIsEarned
  BY DEF IInv
<1>2. QED
  BY <1>1, InvariantHolds, PTL

(***************************************************************************)
(* UpdateOnboardingCard leaves the card's buttons and its text in agreement*)
(* with the import the page believes in, whatever handlers overlap.        *)
(***************************************************************************)
THEOREM CardIsHonest == Spec => []CardOffersWhatItSays
<1>1. IInv => CardOffersWhatItSays
  BY DEF IInv
<1>2. QED
  BY <1>1, InvariantHolds, PTL

(***************************************************************************)
(* RunHistoryImportAsync never runs twice for the Import 60 Days button.   *)
(***************************************************************************)
THEOREM OneImportEach == Spec => []OneImportPerButton
<1>1. IInv => OneImportPerButton
  BY DEF IInv
<1>2. QED
  BY <1>1, InvariantHolds, PTL
=============================================================================
