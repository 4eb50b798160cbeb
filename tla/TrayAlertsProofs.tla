--------------------------- MODULE TrayAlertsProofs ---------------------------
(***************************************************************************)
(* Proofs about TrayAlerts, for any number of alerts, requests, restarts   *)
(* and any limit of the list.                                              *)
(***************************************************************************)
EXTENDS TrayAlerts, TLAPS

LEMMA InitInvariant == Init => IInv
<1> SUFFICES ASSUME Init PROVE IInv
  OBVIOUS
<1>1. TypeOK
  BY DEF Init, TypeOK, Awaited
<1>2. DeliveredWereShown /\ OnlyShownAreMarked /\ KnownWereFired
  BY DEF Init, DeliveredWereShown, OnlyShownAreMarked, KnownWereFired
<1>3. QED
  BY <1>1, <1>2 DEF IInv

\* The part of TypeOK about what holds no alerts.
Typed ==
  /\ loop \in Awaited
  /\ posted \in BOOLEAN
  /\ balloon \in BOOLEAN
  /\ ui \in {"free", "disposing", "gone"}
  /\ cancelled \in BOOLEAN
  /\ restarts \in Nat

\* The steps that do not touch the table.
LEMMA LoopStep ==
  ASSUME IInv,
         \/ AwaitEnds \/ ListFails \/ StartRound \/ AskForAlerts \/ ShowNext
         \/ EndRound \/ Restart \/ Exit \/ LoopCancelled \/ DisposeReturns
  PROVE  IInv'
<1>1. /\ UNCHANGED <<alerts, requests, seen>>
      /\ listed' \subseteq listed
      /\ shown' \subseteq shown
  BY DEF AwaitEnds, ListFails, StartRound, AskForAlerts, ShowNext, EndRound,
         Restart, Exit, LoopCancelled, DisposeReturns, daemonVars
<1>2. Typed'
  <2>1. Typed
    BY DEF IInv, TypeOK, Typed
  <2>2. CASE AwaitEnds \/ ListFails
    BY <2>1, <2>2 DEF Typed, AwaitEnds, ListFails
  <2>3. CASE StartRound \/ AskForAlerts
    BY <2>1, <2>3 DEF Typed, Awaited, StartRound, AskForAlerts, Resume
  <2>4. CASE ShowNext \/ EndRound
    BY <2>1, <2>4 DEF Typed, Awaited, ShowNext, EndRound, Resume
  <2>5. CASE Restart
    <3>1. restarts \in Nat
      BY <2>1 DEF Typed
    <3>2. /\ loop' = "tooltip" /\ ui' = "free" /\ restarts' = restarts + 1
          /\ posted' = FALSE /\ balloon' = FALSE /\ cancelled' = FALSE
      BY <2>5, Zenon DEF Restart
    <3>3. restarts' \in Nat
      BY <3>1, <3>2
    <3>4. QED
      BY <3>2, <3>3 DEF Typed, Awaited
  <2>6. CASE Exit \/ DisposeReturns
    BY <2>1, <2>6 DEF Typed, Exit, DisposeReturns
  <2>7. CASE LoopCancelled
    BY <2>1, <2>7 DEF Typed, Awaited, LoopCancelled, Resume
  <2>8. QED
    BY <2>2, <2>3, <2>4, <2>5, <2>6, <2>7
<1>3. TypeOK'
  BY <1>1, <1>2 DEF IInv, TypeOK, Typed
<1>4. DeliveredWereShown' /\ OnlyShownAreMarked' /\ KnownWereFired'
  BY <1>1 DEF IInv, DeliveredWereShown, OnlyShownAreMarked, KnownWereFired
<1>5. QED
  BY <1>3, <1>4 DEF IInv

LEMMA StepInvariant == IInv /\ [ExitNext]_vars => IInv'
<1> SUFFICES ASSUME IInv, [ExitNext]_vars PROVE IInv'
  OBVIOUS
<1>0. TypeOK /\ DeliveredWereShown /\ OnlyShownAreMarked /\ KnownWereFired
  BY DEF IInv
<1>1. ASSUME NEW i \in Ids, Fire(i)
      PROVE  IInv'
  <2>1. /\ alerts[i] = "absent"
        /\ alerts' = [alerts EXCEPT ![i] = "new"]
        /\ seen' = seen \ {i}
        /\ UNCHANGED <<requests, loop, posted, balloon, listed, shown, ui,
                       cancelled, restarts>>
    BY <1>1 DEF Fire, trayVars
  <2>2. seen' = seen
    BY <1>0, <2>1 DEF KnownWereFired
  <2>3. \A j \in Ids : alerts'[j] = IF j = i THEN "new" ELSE alerts[j]
    BY <1>0, <2>1 DEF TypeOK
  <2>4. TypeOK'
    BY <1>0, <2>1, <2>2 DEF TypeOK
  <2>5. DeliveredWereShown'
    BY <1>0, <2>2, <2>3 DEF DeliveredWereShown
  <2>6. OnlyShownAreMarked'
    BY <1>0, <2>1, <2>2 DEF OnlyShownAreMarked
  <2>7. KnownWereFired'
    BY <1>0, <2>1, <2>2, <2>3 DEF KnownWereFired, TypeOK
  <2>8. QED
    BY <2>4, <2>5, <2>6, <2>7 DEF IInv
<1>2. ASSUME NEW i \in Ids, Delete(i)
      PROVE  IInv'
  <2>1. /\ alerts' = [alerts EXCEPT ![i] = "deleted"]
        /\ UNCHANGED <<requests, loop, posted, balloon, listed, shown, ui,
                       cancelled, restarts, seen>>
    BY <1>2 DEF Delete, trayVars
  <2>2. \A j \in Ids : alerts'[j] = IF j = i THEN "deleted" ELSE alerts[j]
    BY <1>0, <2>1 DEF TypeOK
  <2>3. TypeOK'
    BY <1>0, <2>1 DEF TypeOK
  <2>4. DeliveredWereShown' /\ OnlyShownAreMarked'
    BY <1>0, <2>1, <2>2 DEF DeliveredWereShown, OnlyShownAreMarked
  <2>5. KnownWereFired'
    BY <1>0, <2>1, <2>2 DEF KnownWereFired, TypeOK
  <2>6. QED
    BY <2>3, <2>4, <2>5 DEF IInv
<1>3. ASSUME NEW ids \in requests, ServeMark(ids)
      PROVE  IInv'
  <2>1. /\ requests' = requests \ {ids}
        /\ alerts' = [i \in Ids |-> IF i \in ids /\ alerts[i] = "new"
                                    THEN "delivered" ELSE alerts[i]]
        /\ UNCHANGED <<loop, posted, balloon, listed, shown, ui, cancelled,
                       restarts, seen>>
    BY <1>3 DEF ServeMark, trayVars
  <2>2. ids \subseteq seen
    BY <1>0 DEF OnlyShownAreMarked
  <2>3. TypeOK'
    BY <1>0, <2>1 DEF TypeOK
  <2>4. DeliveredWereShown'
    BY <1>0, <2>1, <2>2 DEF DeliveredWereShown
  <2>5. OnlyShownAreMarked'
    BY <1>0, <2>1 DEF OnlyShownAreMarked
  <2>6. KnownWereFired'
    BY <1>0, <2>1 DEF KnownWereFired, TypeOK
  <2>7. QED
    BY <2>3, <2>4, <2>5, <2>6 DEF IInv
<1>4. ASSUME NEW ids \in requests, LoseMark(ids)
      PROVE  IInv'
  <2>1. /\ requests' \subseteq requests
        /\ UNCHANGED <<alerts, loop, posted, balloon, listed, shown, ui,
                       cancelled, restarts, seen>>
    BY <1>4 DEF LoseMark, trayVars
  <2>2. QED
    BY <1>0, <2>1 DEF IInv, TypeOK, DeliveredWereShown, OnlyShownAreMarked,
                      KnownWereFired
<1>5. CASE ListAnswered
  <2>1. /\ listed' = Newest
        /\ posted' = TRUE
        /\ UNCHANGED <<alerts, requests, loop, balloon, shown, ui, cancelled,
                       restarts, seen>>
    BY <1>5 DEF ListAnswered, daemonVars
  <2>2. Newest \subseteq Ids /\ \A i \in Newest : alerts[i] = "new"
    BY DEF Newest, New
  <2> HIDE DEF Newest
  <2>3. TypeOK'
    BY <1>0, <2>1, <2>2 DEF TypeOK
  <2>4. DeliveredWereShown' /\ OnlyShownAreMarked'
    BY <1>0, <2>1 DEF DeliveredWereShown, OnlyShownAreMarked
  <2>5. KnownWereFired'
    BY <1>0, <2>1, <2>2 DEF KnownWereFired
  <2>6. QED
    BY <2>3, <2>4, <2>5 DEF IInv
<1>6. ASSUME NEW i \in listed, ShowBalloon(i) \/ BalloonFails(i)
      PROVE  IInv'
  <2>1. /\ balloon' = FALSE
        /\ posted' = TRUE
        /\ listed' = listed \ {i}
        /\ \/ shown' = shown \cup {i} /\ seen' = seen \cup {i}
           \/ shown' = shown /\ seen' = seen
        /\ UNCHANGED <<alerts, requests, loop, ui, cancelled, restarts>>
    BY <1>6 DEF ShowBalloon, BalloonFails, daemonVars
  <2>2. TypeOK'
    BY <1>0, <2>1 DEF TypeOK
  <2>3. DeliveredWereShown' /\ OnlyShownAreMarked'
    BY <1>0, <2>1 DEF DeliveredWereShown, OnlyShownAreMarked
  <2>4. KnownWereFired'
    BY <1>0, <2>1 DEF KnownWereFired
  <2>5. QED
    BY <2>2, <2>3, <2>4 DEF IInv
<1>7. CASE AskToMark
  <2>1. /\ requests' = requests \cup {shown}
        /\ shown' = {}
        /\ loop' = "mark" /\ posted' = FALSE
        /\ UNCHANGED <<alerts, balloon, listed, ui, cancelled, restarts, seen>>
    BY <1>7 DEF AskToMark, Resume
  <2>2. TypeOK'
    BY <1>0, <2>1 DEF TypeOK, Awaited
  <2>3. DeliveredWereShown' /\ OnlyShownAreMarked' /\ KnownWereFired'
    BY <1>0, <2>1 DEF DeliveredWereShown, OnlyShownAreMarked, KnownWereFired
  <2>4. QED
    BY <2>2, <2>3 DEF IInv
<1>8. CASE UNCHANGED vars
  BY <1>0, <1>8 DEF IInv, TypeOK, DeliveredWereShown, OnlyShownAreMarked,
                    KnownWereFired, vars, daemonVars, trayVars
<1>9. QED
  BY <1>1, <1>2, <1>3, <1>4, <1>5, <1>6, <1>7, <1>8, LoopStep
  DEF ExitNext, Next, Serve, Balloon, Loop

\* The strengthened invariant holds, also while the tray is shut down.
THEOREM InvariantHolds == Spec => []IInv
<1>1. [Next]_vars => [ExitNext]_vars
  BY DEF ExitNext
<1>2. QED
  BY <1>1, InitInvariant, StepInvariant, PTL DEF Spec

\* An alert is marked delivered only after the user was shown it, for any
\* number of alerts, of mark requests served late and of restarts.
THEOREM DeliveredAfterShown == Spec => []DeliveredWereShown
<1>1. IInv => DeliveredWereShown
  BY DEF IInv
<1>2. QED
  BY <1>1, InvariantHolds, PTL
=============================================================================
