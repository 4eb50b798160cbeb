--------------------------- MODULE CapAlertsProofs ---------------------------
(***************************************************************************)
(* Proofs about CapAlerts, for every set of interfaces and amounts, every  *)
(* length of a month and every bound.                                      *)
(***************************************************************************)
EXTENDS CapAlerts, SumTheorems

LEMMA CapType ==
  ASSUME NEW id \in Nat, NEW guid \in Scopes, NEW bytes \in Amounts,
         NEW active \in BOOLEAN
  PROVE  Cap(id, guid, bytes, active) \in CapDefinition
BY DEF Cap, CapDefinition

LEMMA AmountNat == Amounts \subseteq Nat \ {0} /\ DaysPerMonth \in Nat \ {0}
BY CapAssumption

\* The row an evaluation would insert, whatever usage has become meanwhile.
LEMMA AlertType ==
  ASSUME NEW c \in CapDefinition, NEW kind \in Kinds, NEW d \in Days
  PROVE  /\ Alert(c, kind, d) \in AlertRecord
         /\ Alert(c, kind, d).cap = c.id
<1>0. MaxDay \in Nat
  BY CapAssumption
<1>a. d \in Nat
  BY <1>0 DEF Days
<1>b. c.bytes \in Nat
  BY AmountNat DEF CapDefinition
<1>1. d \in Nat /\ c.bytes \in Nat /\ DaysPerMonth \in Nat \ {0}
  BY <1>a, <1>b, AmountNat
<1>2. WindowStart(kind, d) \in Int
  <2>1. d % DaysPerMonth \in Int
    BY <1>1
  <2>2. QED
    BY <1>1, <2>1 DEF WindowStart
<1>3. kind # "daily_cap" => Percent[kind] \in Int
  BY DEF Kinds, MonthlyKinds, Percent
<1>4. (c.bytes + 29) \div 30 \in Int
  BY <1>1
<1>5. ThresholdValue(c.bytes, kind) \in Int
  BY <1>3, <1>4 DEF ThresholdValue, ThresholdBytes
<1>6. QED
  BY <1>2, <1>5 DEF Alert, AlertRecord, CapDefinition

LEMMA StartedType ==
  ASSUME TypeOK, NEW definitions \in SUBSET CapDefinition
  PROVE  /\ Started(definitions) \in Evaluation \cup {None}
         /\ Started(definitions) # None => Started(definitions).due = {}
BY DEF TypeOK, Started, Evaluation

LEMMA EvaluationFields ==
  ASSUME TypeOK, NEW t \in Threads, eval[t] # None
  PROVE  /\ eval[t] \in Evaluation
         /\ eval[t].day \in Days
         /\ eval[t].todo \in SUBSET CapDefinition
         /\ eval[t].cap \in CapDefinition \cup {None}
         /\ eval[t].due \in SUBSET Kinds
BY DEF TypeOK, Evaluation

-----------------------------------------------------------------------------
(***************************************************************************)
(* The two tables, apart from the evaluations.                             *)
(***************************************************************************)
Tables == NoOrphanAlerts /\ OneShotAlerts

LEMMA TablesUnchanged ==
  ASSUME Tables, UNCHANGED <<caps, events>>
  PROVE  Tables'
BY DEF Tables, NoOrphanAlerts, OneShotAlerts, Key

\* An insert is refused when the cap is gone and does nothing when the key is
\* taken.
LEMMA InsertKeepsTables ==
  ASSUME TypeOK, DueHasCap, Tables, NEW t \in Threads, InsertAlert(t)
  PROVE  /\ Tables'
         /\ events' \subseteq AlertRecord
<1>1. eval[t] # None
  BY DEF InsertAlert
<1>2. PICK k \in eval[t].due :
        LET e == Alert(eval[t].cap, k, eval[t].day)
        IN /\ \E c \in caps : c.id = e.cap
           /\ events' = IF \E f \in events : Key(f) = Key(e)
                        THEN events ELSE events \cup {e}
  BY DEF InsertAlert
<1> DEFINE e == Alert(eval[t].cap, k, eval[t].day)
<1>3. eval[t].cap \in CapDefinition /\ k \in Kinds /\ eval[t].day \in Days
  BY <1>1, EvaluationFields DEF DueHasCap
<1>4. e \in AlertRecord
  BY <1>3, AlertType
<1> HIDE DEF e
<1>5. /\ \E c \in caps : c.id = e.cap
      /\ events' = IF \E f \in events : Key(f) = Key(e)
                   THEN events ELSE events \cup {e}
  BY <1>2 DEF e
<1>6. caps' = caps
  BY DEF InsertAlert
<1>7. NoOrphanAlerts'
  BY <1>5, <1>6 DEF Tables, NoOrphanAlerts
<1>8. OneShotAlerts'
  <2>1. CASE \E f \in events : Key(f) = Key(e)
    BY <1>5, <2>1 DEF Tables, OneShotAlerts, Key
  <2>2. CASE ~ \E f \in events : Key(f) = Key(e)
    <3>1. events' = events \cup {e}
      BY <1>5, <2>2
    <3>2. \A f \in events : Key(f) # Key(e)
      BY <2>2
    <3>3. \A f, g \in events : Key(f) = Key(g) => f = g
      BY DEF Tables, OneShotAlerts
    <3> HIDE DEF e
    <3>4. \A f, g \in events' : Key(f) = Key(g) => f = g
      BY <3>1, <3>2, <3>3
    <3>5. QED
      BY <3>4 DEF OneShotAlerts, Key
  <2>3. QED
    BY <2>1, <2>2
<1>9. events' \subseteq AlertRecord
  BY <1>4, <1>5 DEF TypeOK
<1>10. QED
  BY <1>7, <1>8, <1>9 DEF Tables

\* Saving a cap keeps the ids there are.
LEMMA UpsertKeepsTables ==
  ASSUME TypeOK, Tables, NEW id \in 0 .. MaxCapId, NEW guid \in Scopes,
         NEW bytes \in Amounts, NEW active \in BOOLEAN,
         UpsertCap(id, guid, bytes, active)
  PROVE  /\ Tables'
         /\ caps' \in SUBSET CapDefinition
         /\ nextCap' \in Nat \ {0}
<1> DEFINE edited == {IF c.id = id THEN Cap(id, guid, bytes, active) ELSE c : c \in caps}
           conflicting == {c \in edited : guid # Null /\ c.guid = guid}
<1>0. id \in Nat
  BY CapAssumption
<1>1. edited \in SUBSET CapDefinition
  <2>1. Cap(id, guid, bytes, active) \in CapDefinition
    BY <1>0, CapType
  <2>2. QED
    BY <2>1 DEF TypeOK
<1>2. \A c \in caps : \E d \in edited : d.id = c.id
  <2>1. SUFFICES ASSUME NEW c \in caps PROVE \E d \in edited : d.id = c.id
    OBVIOUS
  <2>2. CASE c.id = id
    <3>1. Cap(id, guid, bytes, active) \in edited
      BY <2>2
    <3>2. Cap(id, guid, bytes, active).id = id
      BY DEF Cap
    <3>3. QED
      BY <2>2, <3>1, <3>2
  <2>3. CASE c.id # id
    <3>1. c \in edited
      BY <2>3
    <3>2. QED
      BY <3>1
  <2>4. QED
    BY <2>2, <2>3
<1>3. \/ /\ caps' = edited \cup {Cap(nextCap, guid, bytes, active)}
         /\ nextCap' = nextCap + 1
      \/ /\ caps' = (edited \ conflicting)
              \cup {Cap(c.id, guid, bytes, active) : c \in conflicting}
         /\ nextCap' = nextCap
  BY DEF UpsertCap
<1>4. events' = events
  BY DEF UpsertCap
<1>5. conflicting \subseteq edited
  OBVIOUS
<1> HIDE DEF edited, conflicting
<1>6. \A d \in edited : \E c \in caps' : c.id = d.id
  <2>1. SUFFICES ASSUME NEW d \in edited PROVE \E c \in caps' : c.id = d.id
    OBVIOUS
  <2>2. CASE d \in caps'
    BY <2>2
  <2>3. CASE d \notin caps'
    <3>1. d \in conflicting /\ Cap(d.id, guid, bytes, active) \in caps'
      BY <1>3, <2>3
    <3>2. Cap(d.id, guid, bytes, active).id = d.id
      BY DEF Cap
    <3>3. QED
      BY <3>1, <3>2
  <2>4. QED
    BY <2>2, <2>3
<1>7. \A c \in caps : \E d \in caps' : d.id = c.id
  BY <1>2, <1>6
<1>8. NoOrphanAlerts'
  BY <1>4, <1>7 DEF Tables, NoOrphanAlerts
<1>9. OneShotAlerts'
  BY <1>4 DEF Tables, OneShotAlerts, Key
<1>10. caps' \in SUBSET CapDefinition
  <2>1. nextCap \in Nat
    BY DEF TypeOK
  <2>2. Cap(nextCap, guid, bytes, active) \in CapDefinition
    BY <2>1, CapType
  <2>3. \A c \in conflicting : Cap(c.id, guid, bytes, active) \in CapDefinition
    <3>1. \A c \in conflicting : c.id \in Nat
      BY <1>1, <1>5 DEF CapDefinition
    <3>2. QED
      BY <3>1, CapType
  <2>4. QED
    BY <1>1, <1>3, <2>2, <2>3
<1>11. nextCap' \in Nat \ {0}
  BY <1>3 DEF TypeOK
<1>12. QED
  BY <1>8, <1>9, <1>10, <1>11 DEF Tables

\* A cap takes its alerts along.
LEMMA DeleteKeepsTables ==
  ASSUME TypeOK, Tables, NEW id, DeleteCap(id)
  PROVE  /\ Tables'
         /\ caps' \in SUBSET CapDefinition
         /\ events' \in SUBSET AlertRecord
<1>1. /\ caps' = {c \in caps : c.id # id}
      /\ events' = {e \in events : e.cap # id}
  BY DEF DeleteCap
<1>2. NoOrphanAlerts'
  BY <1>1 DEF Tables, NoOrphanAlerts
<1>3. OneShotAlerts'
  <2>1. events' \subseteq events
    BY <1>1
  <2>2. QED
    BY <2>1 DEF Tables, OneShotAlerts, Key
<1>4. QED
  BY <1>1, <1>2, <1>3 DEF Tables, TypeOK

\* Marking leaves the key and the cap of an alert alone.
LEMMA MarkKeepsTables ==
  ASSUME TypeOK, Tables, NEW marked, MarkDelivered(marked)
  PROVE  /\ Tables'
         /\ events' \in SUBSET AlertRecord
<1> DEFINE Marked(e) == IF e \in marked THEN [e EXCEPT !.delivered = TRUE] ELSE e
<1>1. caps' = caps /\ events' = {Marked(e) : e \in events}
  BY DEF MarkDelivered
<1>2. \A e \in events : /\ Marked(e) \in AlertRecord
                         /\ Marked(e).cap = e.cap
                         /\ Key(Marked(e)) = Key(e)
  BY DEF TypeOK, AlertRecord, Key
<1>3. NoOrphanAlerts'
  <2>1. ASSUME NEW f \in events' PROVE \E c \in caps' : c.id = f.cap
    <3>1. PICK e \in events : f = Marked(e)
      BY <1>1
    <3>2. f.cap = e.cap
      BY <1>2, <3>1
    <3>3. QED
      BY <1>1, <3>2 DEF Tables, NoOrphanAlerts
  <2>2. QED
    BY <2>1 DEF NoOrphanAlerts
<1>4. OneShotAlerts'
  <2>1. ASSUME NEW f \in events', NEW g \in events', Key(f) = Key(g)
        PROVE  f = g
    <3>1. PICK e \in events, h \in events : f = Marked(e) /\ g = Marked(h)
      BY <1>1
    <3> HIDE DEF Marked
    <3>2. Key(e) = Key(h)
      BY <1>2, <2>1, <3>1
    <3>3. e = h
      BY <3>2 DEF Tables, OneShotAlerts
    <3>4. QED
      BY <3>1, <3>3
  <2>2. QED
    BY <2>1 DEF OneShotAlerts, Key
<1>5. events' \in SUBSET AlertRecord
  BY <1>1, <1>2
<1>6. QED
  BY <1>3, <1>4, <1>5 DEF Tables

-----------------------------------------------------------------------------
(***************************************************************************)
(* The evaluations.                                                        *)
(***************************************************************************)
EvaluationsOK ==
  /\ eval \in [Threads -> Evaluation \cup {None}]
  /\ DueHasCap

InOrder(ev) == ev \in Evaluation /\ (ev.due # {} => ev.cap # None)

\* Giving one thread an evaluation in order, or none, keeps them all so.
LEMMA EvaluationSet ==
  ASSUME EvaluationsOK, NEW t \in Threads, NEW ev,
         ev = None \/ InOrder(ev),
         eval' = [eval EXCEPT ![t] = ev]
  PROVE  EvaluationsOK'
<1>1. /\ eval \in [Threads -> Evaluation \cup {None}]
      /\ \A u \in Threads : eval[u] # None /\ eval[u].due # {} => eval[u].cap # None
  BY DEF EvaluationsOK, DueHasCap
<1>2. ev \in Evaluation \cup {None}
  BY DEF InOrder
<1>3. eval' \in [Threads -> Evaluation \cup {None}]
  BY <1>1, <1>2
<1>4. \A u \in Threads : eval'[u] = IF u = t THEN ev ELSE eval[u]
  BY <1>1
<1>5. \A u \in Threads : eval'[u] # None /\ eval'[u].due # {} => eval'[u].cap # None
  BY <1>1, <1>4 DEF InOrder
<1>6. QED
  BY <1>3, <1>5 DEF EvaluationsOK, DueHasCap

LEMMA StartedInOrder ==
  ASSUME TypeOK, NEW definitions \in SUBSET CapDefinition
  PROVE  Started(definitions) = None \/ InOrder(Started(definitions))
BY StartedType DEF InOrder

LEMMA EvaluateKeeps ==
  ASSUME TypeOK, DueHasCap, NEW t \in Threads, Evaluate(t)
  PROVE  EvaluationsOK'
<1>0. EvaluationsOK
  BY DEF TypeOK, EvaluationsOK
<1>1. /\ eval[t] # None /\ eval[t] \in Evaluation
      /\ eval[t].todo \in SUBSET CapDefinition
      /\ eval[t].due \in SUBSET Kinds
  <2>1. eval[t] # None
    BY DEF Evaluate, TakeCap, ReadDailyUsage, InsertAlert, AbortEvaluation, FinishCap
  <2>2. QED
    BY <2>1, EvaluationFields
<1>2. eval \in [Threads -> Evaluation \cup {None}]
  BY DEF TypeOK
<1>3. CASE TakeCap(t)
  <2>1. PICK c \in eval[t].todo :
          eval' = [eval EXCEPT
            ![t].todo = @ \ {c},
            ![t].cap = c,
            ![t].due = {k \in MonthlyKinds : Reached(c, k, eval[t].day)},
            ![t].dailyLeft = TRUE]
    BY <1>3 DEF TakeCap
  <2> DEFINE reached == {k \in MonthlyKinds : Reached(c, k, eval[t].day)}
             ev == [eval[t] EXCEPT !.todo = @ \ {c}, !.cap = c,
                                   !.due = reached, !.dailyLeft = TRUE]
  <2>2. c \in CapDefinition /\ c # None
    BY <1>1, CapAssumption
  <2>3. reached \in SUBSET Kinds
    BY DEF Kinds
  <2> HIDE DEF reached
  <2>4. InOrder(ev)
    BY <1>1, <2>2, <2>3 DEF InOrder, Evaluation
  <2>5. eval' = [eval EXCEPT ![t] = ev]
    BY <1>2, <2>1 DEF reached
  <2> HIDE DEF ev
  <2>6. QED
    BY <1>0, <2>4, <2>5, EvaluationSet
<1>4. CASE ReadDailyUsage(t)
  <2> DEFINE reached == {k \in {"daily_cap"} : Reached(eval[t].cap, k, eval[t].day)}
             ev == [eval[t] EXCEPT !.dailyLeft = FALSE, !.due = reached]
  <2>1. /\ eval[t].cap # None
        /\ eval' = [eval EXCEPT ![t].dailyLeft = FALSE, ![t].due = reached]
    BY <1>4 DEF ReadDailyUsage
  <2>2. reached \in SUBSET Kinds
    BY DEF Kinds
  <2> HIDE DEF reached
  <2>3. InOrder(ev)
    BY <1>1, <2>1, <2>2 DEF InOrder, Evaluation
  <2>4. eval' = [eval EXCEPT ![t] = ev]
    BY <1>2, <2>1
  <2> HIDE DEF ev
  <2>5. QED
    BY <1>0, <2>3, <2>4, EvaluationSet
<1>5. CASE InsertAlert(t)
  <2>1. PICK k \in eval[t].due : eval' = [eval EXCEPT ![t].due = @ \ {k}]
    BY <1>5 DEF InsertAlert
  <2> DEFINE ev == [eval[t] EXCEPT !.due = @ \ {k}]
  <2>2. eval[t].cap # None
    BY <1>1, <2>1 DEF DueHasCap
  <2>3. InOrder(ev)
    BY <1>1, <2>2 DEF InOrder, Evaluation
  <2>4. eval' = [eval EXCEPT ![t] = ev]
    BY <1>2, <2>1
  <2> HIDE DEF ev
  <2>5. QED
    BY <1>0, <2>3, <2>4, EvaluationSet
<1>6. CASE AbortEvaluation(t)
  <2>1. eval' = [eval EXCEPT ![t] = None]
    BY <1>6 DEF AbortEvaluation
  <2>2. QED
    BY <1>0, <2>1, EvaluationSet
<1>7. CASE FinishCap(t)
  <2> DEFINE ev == [eval[t] EXCEPT !.cap = None]
  <2>1. /\ eval[t].due = {}
        /\ \/ eval' = [eval EXCEPT ![t] = None]
           \/ eval' = [eval EXCEPT ![t] = ev]
    BY <1>2, <1>7 DEF FinishCap
  <2>2. InOrder(ev)
    BY <1>1, <2>1 DEF InOrder, Evaluation
  <2> HIDE DEF ev
  <2>3. QED
    BY <1>0, <2>1, <2>2, EvaluationSet
<1>8. QED
  BY <1>3, <1>4, <1>5, <1>6, <1>7 DEF Evaluate

-----------------------------------------------------------------------------
(***************************************************************************)
(* The inductive invariant.                                                *)
(***************************************************************************)
LEMMA InitInvariant == Init => IInv
<1> SUFFICES ASSUME Init PROVE IInv
  OBVIOUS
<1>1. 0 \in Days
  BY CapAssumption DEF Days
<1>2. TypeOK
  BY <1>1 DEF Init, TypeOK
<1>3. DueHasCap
  BY DEF Init, DueHasCap
<1>4. NoOrphanAlerts /\ OneShotAlerts
  BY DEF Init, NoOrphanAlerts, OneShotAlerts
<1>5. QED
  BY <1>2, <1>3, <1>4 DEF IInv

LEMMA StepInvariant == IInv /\ [Next]_vars => IInv'
<1> SUFFICES ASSUME IInv, [Next]_vars PROVE IInv'
  OBVIOUS
<1>0. TypeOK /\ DueHasCap /\ Tables /\ EvaluationsOK
  BY DEF IInv, Tables, EvaluationsOK, TypeOK
<1>00. /\ day \in Days
       /\ used \in [Days -> [Guids -> Nat]]
       /\ caps \subseteq CapDefinition
       /\ nextCap \in Nat \ {0}
       /\ events \subseteq AlertRecord
  BY DEF IInv, TypeOK
<1> DEFINE Rest == /\ day' \in Days
                   /\ used' \in [Days -> [Guids -> Nat]]
                   /\ caps' \subseteq CapDefinition
                   /\ nextCap' \in Nat \ {0}
                   /\ events' \subseteq AlertRecord
<1>1. SUFFICES Rest /\ Tables' /\ EvaluationsOK'
  BY DEF IInv, TypeOK, Tables, EvaluationsOK
<1>2. UNCHANGED eval => EvaluationsOK'
  BY <1>0 DEF EvaluationsOK, DueHasCap
<1>3. CASE NextDay
  <2>1. day' \in Days
    BY <1>3, <1>00, CapAssumption DEF NextDay, Days
  <2>2. UNCHANGED <<used, caps, nextCap, events, eval>>
    BY <1>3 DEF NextDay
  <2>3. QED
    BY <1>0, <1>00, <1>2, <2>1, <2>2, TablesUnchanged
<1>4. ASSUME NEW g \in Guids, NEW n \in 0 .. MaxUse, Poll(g, n)
      PROVE  Rest /\ Tables' /\ EvaluationsOK'
  <2>1. /\ used' = [used EXCEPT ![day][g] = @ + n]
        /\ eval' = [eval EXCEPT !["poll"] = Started(caps)]
        /\ UNCHANGED <<day, caps, nextCap, events>>
        /\ "poll" \in Threads
    BY <1>4 DEF Poll, Threads
  <2>2. n \in Nat
    BY CapAssumption
  <2>3. used' \in [Days -> [Guids -> Nat]]
    BY <1>00, <2>1, <2>2
  <2>4. Started(caps) = None \/ InOrder(Started(caps))
    BY <1>0, <1>00, StartedInOrder
  <2>5. EvaluationsOK'
    BY <1>0, <2>1, <2>4, EvaluationSet
  <2>6. QED
    BY <1>0, <1>00, <2>1, <2>3, <2>5, TablesUnchanged
<1>5. ASSUME NEW t \in Threads, Evaluate(t)
      PROVE  Rest /\ Tables' /\ EvaluationsOK'
  <2>1. EvaluationsOK'
    BY <1>0, <1>5, EvaluateKeeps
  <2>2. CASE InsertAlert(t)
    <3>1. UNCHANGED <<day, used, caps, nextCap>>
      BY <2>2 DEF InsertAlert
    <3>2. QED
      BY <1>0, <1>00, <2>1, <2>2, <3>1, InsertKeepsTables
  <2>3. CASE TakeCap(t) \/ ReadDailyUsage(t) \/ AbortEvaluation(t) \/ FinishCap(t)
    <3>1. UNCHANGED <<day, used, caps, nextCap, events>>
      BY <2>3 DEF TakeCap, ReadDailyUsage, AbortEvaluation, FinishCap
    <3>2. QED
      BY <1>0, <1>00, <2>1, <3>1, TablesUnchanged
  <2>4. QED
    BY <1>5, <2>2, <2>3 DEF Evaluate
<1>6. ASSUME NEW id \in 0 .. MaxCapId, NEW guid \in Scopes, NEW bytes \in Amounts,
             NEW active \in BOOLEAN, UpsertCap(id, guid, bytes, active)
      PROVE  Rest /\ Tables' /\ EvaluationsOK'
  <2>1. Tables' /\ caps' \in SUBSET CapDefinition /\ nextCap' \in Nat \ {0}
    BY <1>0, <1>6, UpsertKeepsTables
  <2>2. /\ eval' = [eval EXCEPT !["ipc"] = Started(caps')]
        /\ UNCHANGED <<day, used, events>>
        /\ "ipc" \in Threads
    BY <1>6 DEF UpsertCap, Threads
  <2>3. Started(caps') = None \/ InOrder(Started(caps'))
    BY <1>0, <2>1, StartedInOrder
  <2>4. EvaluationsOK'
    BY <1>0, <2>2, <2>3, EvaluationSet
  <2>5. QED
    BY <1>00, <2>1, <2>2, <2>4
<1>7. ASSUME NEW id \in 1 .. MaxCapId, DeleteCap(id)
      PROVE  Rest /\ Tables' /\ EvaluationsOK'
  <2>1. UNCHANGED <<day, used, nextCap, eval>>
    BY <1>7 DEF DeleteCap
  <2>2. QED
    BY <1>0, <1>00, <1>2, <1>7, <2>1, DeleteKeepsTables
<1>8. ASSUME NEW e \in events, MarkDelivered({e})
      PROVE  Rest /\ Tables' /\ EvaluationsOK'
  <2>1. UNCHANGED <<day, used, caps, nextCap, eval>>
    BY <1>8 DEF MarkDelivered
  <2>2. QED
    BY <1>0, <1>00, <1>2, <1>8, <2>1, MarkKeepsTables
<1>9. CASE DaemonRestart
  <2>1. /\ eval' = [t \in Threads |-> None]
        /\ UNCHANGED <<day, used, caps, nextCap, events>>
    BY <1>9 DEF DaemonRestart
  <2>2. EvaluationsOK'
    BY <2>1 DEF EvaluationsOK, DueHasCap
  <2>3. QED
    BY <1>0, <1>00, <2>1, <2>2, TablesUnchanged
<1>10. CASE UNCHANGED vars
  BY <1>0, <1>00, <1>2, <1>10, TablesUnchanged DEF vars
<1>11. QED
  BY <1>3, <1>4, <1>5, <1>6, <1>7, <1>8, <1>9, <1>10 DEF Next, Requests

\* The strengthened invariant holds, whatever the two threads interleave.
THEOREM InvariantHolds == Spec => []IInv
<1>1. QED
  BY InitInvariant, StepInvariant, PTL DEF Spec

\* No alert outlives its cap, also when the cap is deleted between the moment
\* an evaluation has read it and the moment it inserts.
THEOREM AlertsHaveTheirCap == Spec => []NoOrphanAlerts
<1>1. IInv => NoOrphanAlerts
  BY DEF IInv
<1>2. QED
  BY <1>1, InvariantHolds, PTL

\* One alert for a cap, window and threshold, also when both threads evaluate
\* the same cap.
THEOREM AlertsAreOneShot == Spec => []OneShotAlerts
<1>1. IInv => OneShotAlerts
  BY DEF IInv
<1>2. QED
  BY <1>1, InvariantHolds, PTL

-----------------------------------------------------------------------------
(***************************************************************************)
(* Usage of a window, a sum, and the thresholds it is compared with.       *)
(***************************************************************************)
LEMMA WindowInDays ==
  ASSUME NEW kind \in Kinds, NEW d \in Days
  PROVE  WindowStart(kind, d) .. d \subseteq Days
<1>1. d \in Nat /\ d <= MaxDay /\ MaxDay \in Nat
  BY CapAssumption DEF Days
<1>2. d - (d % DaysPerMonth) \in Nat
  <2>1. DaysPerMonth \in Nat /\ DaysPerMonth > 0
    BY CapAssumption
  <2>2. d % DaysPerMonth \in Nat /\ d % DaysPerMonth <= d
    <3>1. CASE d < DaysPerMonth
      BY <1>1, <2>1, <3>1
    <3>2. CASE d >= DaysPerMonth
      <4>1. d % DaysPerMonth \in 0 .. DaysPerMonth - 1
        BY <1>1, <2>1
      <4>2. QED
        BY <1>1, <2>1, <3>2, <4>1
    <3>3. QED
      BY <1>1, <2>1, <3>1, <3>2
  <2>3. QED
    BY <1>1, <2>2
<1>3. WindowStart(kind, d) \in Nat
  BY <1>1, <1>2 DEF WindowStart
<1>4. QED
  BY <1>1, <1>3 DEF Days

LEMMA UsageDomain ==
  ASSUME NEW guid \in Scopes, NEW kind \in Kinds, NEW d \in Days
  PROVE  /\ (WindowStart(kind, d) .. d) \X InScope(guid) \in SUBSET (Days \X Guids)
         /\ IsFiniteSet((WindowStart(kind, d) .. d) \X InScope(guid))
<1>1. WindowStart(kind, d) .. d \subseteq Days
  BY WindowInDays
<1>2. InScope(guid) \subseteq Guids
  BY DEF InScope, Scopes
<1>3. (WindowStart(kind, d) .. d) \X InScope(guid) \in SUBSET (Days \X Guids)
  BY <1>1, <1>2
<1>4. IsFiniteSet(Days \X Guids)
  <2>1. IsFiniteSet(Days)
    BY CapAssumption, FS_Interval DEF Days
  <2>2. QED
    BY <2>1, CapAssumption, FS_Product
<1>5. QED
  BY <1>3, <1>4, FS_Subset

LEMMA UsageType ==
  ASSUME TypeOK, NEW guid \in Scopes, NEW kind \in Kinds, NEW d \in Days
  PROVE  Usage(guid, kind, d) \in Int
<1> DEFINE window == (WindowStart(kind, d) .. d) \X InScope(guid)
           before == [at \in Days \X Guids |-> used[at[1]][at[2]]]
<1>1. window \in SUBSET (Days \X Guids) /\ IsFiniteSet(window)
  BY UsageDomain
<1>2. Usage(guid, kind, d) = SumFunctionOnSet(before, window)
  BY DEF Usage
<1>3. \A at \in Days \X Guids : before[at] \in Int
  BY DEF TypeOK
<1> HIDE DEF window, before
<1>4. QED
  BY <1>1, <1>2, <1>3, SumType

\* The usage of no window ever shrinks.
LEMMA UsageGrows ==
  ASSUME used \in [Days -> [Guids -> Nat]], used' \in [Days -> [Guids -> Nat]],
         \A d \in Days, g \in Guids : used[d][g] <= used'[d][g],
         NEW guid \in Scopes, NEW kind \in Kinds, NEW d \in Days
  PROVE  /\ Usage(guid, kind, d) \in Int
         /\ Usage(guid, kind, d)' \in Int
         /\ Usage(guid, kind, d) <= Usage(guid, kind, d)'
<1> DEFINE window == (WindowStart(kind, d) .. d) \X InScope(guid)
           before == [at \in Days \X Guids |-> used[at[1]][at[2]]]
           after == [at \in Days \X Guids |-> used'[at[1]][at[2]]]
<1>1. window \in SUBSET (Days \X Guids) /\ IsFiniteSet(window)
  BY UsageDomain
<1>2. Usage(guid, kind, d) = SumFunctionOnSet(before, window)
  BY DEF Usage
<1>3. Usage(guid, kind, d)' = SumFunctionOnSet(after, window)
  BY DEF Usage
<1>4. \A at \in Days \X Guids : /\ before[at] \in Int /\ after[at] \in Int
                               /\ before[at] <= after[at]
  <2>1. ASSUME NEW at \in Days \X Guids
        PROVE  before[at] \in Int /\ after[at] \in Int /\ before[at] <= after[at]
    <3>1. at[1] \in Days /\ at[2] \in Guids
      OBVIOUS
    <3>2. before[at] = used[at[1]][at[2]] /\ after[at] = used'[at[1]][at[2]]
      OBVIOUS
    <3> HIDE DEF before, after
    <3>3. used[at[1]][at[2]] \in Nat /\ used'[at[1]][at[2]] \in Nat
      BY <3>1
    <3>4. QED
      BY <3>1, <3>2, <3>3
  <2>2. QED
    BY <2>1
<1> HIDE DEF window, before, after
<1>5. \A at \in window : /\ before[at] \in Int /\ after[at] \in Int
                         /\ before[at] <= after[at]
  BY <1>1, <1>4
<1>6. SumFunctionOnSet(before, window) \in Int /\ SumFunctionOnSet(after, window) \in Int
  BY <1>1, <1>5, SumType
<1>7. SumFunctionOnSet(before, window) <= SumFunctionOnSet(after, window)
  BY <1>1, <1>5, SumMonotone
<1>8. QED
  BY <1>2, <1>3, <1>6, <1>7

\* What an alert says of the usage of its window.
Justified(e) ==
  IF e.kind = "daily_cap"
  THEN 30 * Usage(e.guid, e.kind, e.day) >= e.bytes
  ELSE 100 * Usage(e.guid, e.kind, e.day) >= Percent[e.kind] * e.bytes

\* A threshold is rounded up: usage that reaches it has reached its part of
\* the cap.
LEMMA ReachedIsJustified ==
  ASSUME TypeOK, NEW c \in CapDefinition, NEW kind \in Kinds, NEW d \in Days,
         Reached(c, kind, d)
  PROVE  Justified(Alert(c, kind, d))
<1> DEFINE e == Alert(c, kind, d)
           u == Usage(c.guid, kind, d)
           b == c.bytes
<1>1. e.guid = c.guid /\ e.kind = kind /\ e.day = d /\ e.bytes = c.bytes
  BY DEF Alert
<1>2. u \in Int
  <2>1. c.guid \in Scopes
    BY DEF CapDefinition
  <2>2. QED
    BY <2>1, UsageType
<1>3. b \in Nat
  BY AmountNat DEF CapDefinition
<1>4. u >= ThresholdBytes(b, kind)
  BY DEF Reached
<1> HIDE DEF u, b
<1>5. CASE kind = "daily_cap"
  <2>1. u >= (b + 29) \div 30
    BY <1>4, <1>5 DEF ThresholdBytes
  <2>2. 30 * u >= b
    BY <1>2, <1>3, <2>1
  <2>3. QED
    BY <1>1, <1>5, <2>2 DEF Justified, u, b
<1>6. CASE kind # "daily_cap"
  <2>1. kind \in {"pct_50", "pct_80", "pct_95"}
    BY <1>6 DEF Kinds, MonthlyKinds, Percent
  <2>2. u >= (b * Percent[kind] + 99) \div 100
    BY <1>4, <1>6 DEF ThresholdBytes
  <2>3. Percent[kind] \in {50, 80, 95}
    BY <2>1 DEF Percent
  <2>4. 100 * u >= Percent[kind] * b
    <3>1. CASE Percent[kind] = 50
      BY <1>2, <1>3, <2>2, <3>1
    <3>2. CASE Percent[kind] = 80
      BY <1>2, <1>3, <2>2, <3>2
    <3>3. CASE Percent[kind] = 95
      BY <1>2, <1>3, <2>2, <3>3
    <3>4. QED
      BY <2>3, <3>1, <3>2, <3>3
  <2>5. QED
    BY <1>1, <1>6, <2>4 DEF Justified, u, b
<1>7. QED
  BY <1>5, <1>6

-----------------------------------------------------------------------------
(***************************************************************************)
(* Alerts are justified when they are inserted, and ever after.            *)
(***************************************************************************)
UsageKept ==
  /\ used \in [Days -> [Guids -> Nat]]
  /\ used' \in [Days -> [Guids -> Nat]]
  /\ \A d \in Days, g \in Guids : used[d][g] <= used'[d][g]

LEMMA StepKeepsUsage ==
  ASSUME TypeOK, TypeOK', [Next]_vars
  PROVE  UsageKept /\ ((\E g \in Guids, n \in 0 .. MaxUse : Poll(g, n)) \/ UNCHANGED used)
<1>1. used \in [Days -> [Guids -> Nat]] /\ used' \in [Days -> [Guids -> Nat]]
  BY DEF TypeOK
<1>2. CASE UNCHANGED used
  <2>1. \A d \in Days, g \in Guids : used[d][g] \in Nat
    BY <1>1
  <2>2. QED
    BY <1>1, <1>2, <2>1 DEF UsageKept
<1>3. ASSUME NEW h \in Guids, NEW n \in 0 .. MaxUse, Poll(h, n)
      PROVE  UsageKept
  <2>1. n \in Nat /\ day \in Days
    BY CapAssumption DEF TypeOK
  <2>2. used' = [used EXCEPT ![day][h] = @ + n]
    BY <1>3 DEF Poll
  <2>3. ASSUME NEW d \in Days, NEW g \in Guids
        PROVE  used[d][g] <= used'[d][g]
    <3>1. used[d][g] \in Nat
      BY <1>1
    <3>2. used'[d][g] = used[d][g] \/ used'[d][g] = used[d][g] + n
      BY <1>1, <2>2
    <3>3. QED
      BY <2>1, <3>1, <3>2
  <2>4. QED
    BY <1>1, <2>3 DEF UsageKept
<1>4. (\E g \in Guids, n \in 0 .. MaxUse : Poll(g, n)) \/ UNCHANGED used
  <2>1. ASSUME NEW t \in Threads, Evaluate(t) PROVE UNCHANGED used
    BY <2>1 DEF Evaluate, TakeCap, ReadDailyUsage, InsertAlert, AbortEvaluation, FinishCap
  <2>2. Requests => UNCHANGED used
    <3>1. ASSUME NEW id, NEW guid, NEW bytes, NEW active, UpsertCap(id, guid, bytes, active)
          PROVE  UNCHANGED used
      BY <3>1 DEF UpsertCap
    <3>2. ASSUME NEW id, DeleteCap(id) PROVE UNCHANGED used
      BY <3>2 DEF DeleteCap
    <3>3. ASSUME NEW marked, MarkDelivered(marked) PROVE UNCHANGED used
      BY <3>3 DEF MarkDelivered
    <3>4. QED
      BY <3>1, <3>2, <3>3 DEF Requests
  <2>3. NextDay \/ DaemonRestart \/ UNCHANGED vars => UNCHANGED used
    BY DEF NextDay, DaemonRestart, vars
  <2>4. QED
    BY <2>1, <2>2, <2>3 DEF Next
<1>5. QED
  BY <1>2, <1>3, <1>4

LEMMA ReachedStays ==
  ASSUME UsageKept
  PROVE  \A c \in CapDefinition, kind \in Kinds, d \in Days :
           Reached(c, kind, d) => Reached(c, kind, d)'
<1>1. ASSUME NEW c \in CapDefinition, NEW kind \in Kinds, NEW d \in Days,
             Reached(c, kind, d)
      PROVE  Reached(c, kind, d)'
  <2>1. c.guid \in Scopes /\ c.bytes \in Nat
    BY AmountNat DEF CapDefinition
  <2>2. /\ Usage(c.guid, kind, d) \in Int
        /\ Usage(c.guid, kind, d)' \in Int
        /\ Usage(c.guid, kind, d) <= Usage(c.guid, kind, d)'
    BY <2>1, UsageGrows DEF UsageKept
  <2>3. ThresholdBytes(c.bytes, kind) \in Int
    <3>1. (c.bytes + 29) \div 30 \in Int
      BY <2>1
    <3>2. CASE kind # "daily_cap"
      <4>1. Percent[kind] \in Int
        BY <3>2 DEF Kinds, MonthlyKinds, Percent
      <4>2. c.bytes * Percent[kind] \in Int
        BY <2>1, <4>1
      <4>3. (c.bytes * Percent[kind] + 99) \div 100 \in Int
        BY <4>2
      <4>4. QED
        BY <3>2, <4>3 DEF ThresholdBytes
    <3>3. QED
      BY <3>1, <3>2 DEF ThresholdBytes
  <2>4. Usage(c.guid, kind, d) >= ThresholdBytes(c.bytes, kind)
    BY <1>1 DEF Reached
  <2>5. Usage(c.guid, kind, d)' >= ThresholdBytes(c.bytes, kind)
    BY <2>2, <2>3, <2>4
  <2>6. QED
    BY <2>5 DEF Reached
<1>2. QED
  BY <1>1

LEMMA JustifiedStays ==
  ASSUME UsageKept
  PROVE  \A e \in AlertRecord : Justified(e) => Justified(e)'
<1>1. ASSUME NEW e \in AlertRecord, Justified(e)
      PROVE  Justified(e)'
  <2>1. e.guid \in Scopes /\ e.kind \in Kinds /\ e.day \in Days /\ e.bytes \in Nat
    BY AmountNat DEF AlertRecord
  <2>2. /\ Usage(e.guid, e.kind, e.day) \in Int
        /\ Usage(e.guid, e.kind, e.day)' \in Int
        /\ Usage(e.guid, e.kind, e.day) <= Usage(e.guid, e.kind, e.day)'
    BY <2>1, UsageGrows DEF UsageKept
  <2>3. CASE e.kind = "daily_cap"
    <3>1. 30 * Usage(e.guid, e.kind, e.day) >= e.bytes
      BY <1>1, <2>3 DEF Justified
    <3>2. 30 * Usage(e.guid, e.kind, e.day)' >= e.bytes
      BY <2>1, <2>2, <3>1
    <3>3. QED
      BY <2>3, <3>2 DEF Justified
  <2>4. CASE e.kind # "daily_cap"
    <3>1. 100 * Usage(e.guid, e.kind, e.day) >= Percent[e.kind] * e.bytes
      BY <1>1, <2>4 DEF Justified
    <3>2. Percent[e.kind] \in Int
      BY <2>1, <2>4 DEF Kinds, MonthlyKinds, Percent
    <3>3. Percent[e.kind] * e.bytes \in Int
      BY <2>1, <3>2
    <3>4. 100 * Usage(e.guid, e.kind, e.day)' >= Percent[e.kind] * e.bytes
      BY <2>2, <3>1, <3>3
    <3>5. QED
      BY <2>4, <3>4 DEF Justified
  <2>5. QED
    BY <2>3, <2>4
<1>2. QED
  BY <1>1

\* The same row, delivered or not.
LEMMA DeliveredOrNot ==
  ASSUME NEW e \in AlertRecord, Justified(e)
  PROVE  Justified([e EXCEPT !.delivered = TRUE])
BY DEF Justified, AlertRecord

LEMMA DueKept ==
  ASSUME IInv, IInv', DueIsReached, [Next]_vars
  PROVE  DueIsReached'
<1>0. TypeOK /\ TypeOK' /\ UsageKept
  BY StepKeepsUsage DEF IInv
<1>1. \A c \in CapDefinition, k \in Kinds, d \in Days : Reached(c, k, d) => Reached(c, k, d)'
  BY <1>0, ReachedStays
<1>2. ASSUME NEW t \in Threads, eval'[t] # None, NEW k \in eval'[t].due
      PROVE  Reached(eval'[t].cap, k, eval'[t].day)
  <2>1. /\ eval \in [Threads -> Evaluation \cup {None}]
        /\ eval' \in [Threads -> Evaluation \cup {None}]
        /\ DueHasCap'
    BY <1>0 DEF TypeOK, IInv
  <2>4. CASE /\ eval[t] # None /\ k \in eval[t].due
             /\ eval'[t].cap = eval[t].cap /\ eval'[t].day = eval[t].day
    BY <2>4 DEF DueIsReached
  <2>5. CASE eval'[t] = eval[t]
    BY <1>2, <2>5 DEF DueIsReached
  <2>6. CASE Evaluate(t)
    <3>1. eval[t] # None
      BY <2>6 DEF Evaluate, TakeCap, ReadDailyUsage, InsertAlert, AbortEvaluation, FinishCap
    <3>2. eval[t] \in Evaluation
      BY <2>1, <3>1
    <3>3. CASE TakeCap(t)
      <4>1. PICK c \in eval[t].todo :
              eval' = [eval EXCEPT
                ![t].todo = @ \ {c},
                ![t].cap = c,
                ![t].due = {m \in MonthlyKinds : Reached(c, m, eval[t].day)},
                ![t].dailyLeft = TRUE]
        BY <3>3 DEF TakeCap
      <4> DEFINE reached == {m \in MonthlyKinds : Reached(c, m, eval[t].day)}
      <4> HIDE DEF reached
      <4>2. eval'[t].cap = c /\ eval'[t].day = eval[t].day /\ eval'[t].due = reached
        BY <2>1, <3>2, <4>1 DEF Evaluation, reached
      <4>3. QED
        BY <1>2, <4>2 DEF reached
    <3>4. CASE ReadDailyUsage(t)
      <4> DEFINE reached == {m \in {"daily_cap"} : Reached(eval[t].cap, m, eval[t].day)}
      <4>1. eval' = [eval EXCEPT ![t].dailyLeft = FALSE, ![t].due = reached]
        BY <3>4 DEF ReadDailyUsage
      <4> HIDE DEF reached
      <4>2. /\ eval'[t].cap = eval[t].cap /\ eval'[t].day = eval[t].day
            /\ eval'[t].due = reached
        BY <2>1, <3>2, <4>1 DEF Evaluation
      <4>3. QED
        BY <1>2, <4>2 DEF reached
    <3>5. CASE InsertAlert(t)
      <4>1. PICK m \in eval[t].due : eval' = [eval EXCEPT ![t].due = @ \ {m}]
        BY <3>5 DEF InsertAlert
      <4>2. /\ eval'[t].cap = eval[t].cap /\ eval'[t].day = eval[t].day
            /\ eval'[t].due = eval[t].due \ {m}
        BY <2>1, <3>2, <4>1 DEF Evaluation
      <4>3. QED
        BY <1>2, <2>4, <3>1, <4>2
    <3>6. CASE AbortEvaluation(t)
      BY <1>2, <2>1, <3>6 DEF AbortEvaluation
    <3>7. CASE FinishCap(t)
      <4>1. /\ eval[t].due = {}
            /\ eval' = [eval EXCEPT ![t] =
                 IF eval[t].todo = {} THEN None ELSE [@ EXCEPT !.cap = None]]
        BY <3>7 DEF FinishCap
      <4>2. eval'[t].due = {}
        BY <1>2, <2>1, <3>2, <4>1 DEF Evaluation
      <4>3. QED
        BY <1>2, <4>2
    <3>8. QED
      BY <2>6, <3>3, <3>4, <3>5, <3>6, <3>7 DEF Evaluate
  <2>7. ASSUME NEW u \in Threads, u # t, Evaluate(u)
        PROVE  eval'[t] = eval[t]
    BY <2>1, <2>7 DEF Evaluate, TakeCap, ReadDailyUsage, InsertAlert,
                      AbortEvaluation, FinishCap
  <2>8. ASSUME NEW definitions \in SUBSET CapDefinition, NEW u \in Threads,
               eval' = [eval EXCEPT ![u] = Started(definitions)]
        PROVE  Reached(eval'[t].cap, k, eval'[t].day)
    <3>1. u = t => eval'[t] = Started(definitions)
      BY <2>1, <2>8
    <3>2. u = t => eval'[t].due = {}
      BY <1>0, <1>2, <3>1, StartedType
    <3>3. u # t
      BY <1>2, <3>2
    <3>4. QED
      BY <2>1, <2>5, <2>8, <3>3
  <2>9. ASSUME NEW g \in Guids, NEW n \in 0 .. MaxUse, Poll(g, n)
        PROVE  Reached(eval'[t].cap, k, eval'[t].day)
    <3>1. eval' = [eval EXCEPT !["poll"] = Started(caps)] /\ "poll" \in Threads
      BY <2>9 DEF Poll, Threads
    <3>2. caps \in SUBSET CapDefinition
      BY <1>0 DEF TypeOK
    <3>3. QED
      BY <2>8, <3>1, <3>2
  <2>10. ASSUME NEW id, NEW guid, NEW bytes, NEW active, UpsertCap(id, guid, bytes, active)
         PROVE  Reached(eval'[t].cap, k, eval'[t].day)
    <3>1. eval' = [eval EXCEPT !["ipc"] = Started(caps')] /\ "ipc" \in Threads
      BY <2>10 DEF UpsertCap, Threads
    <3>2. caps' \in SUBSET CapDefinition
      BY <1>0 DEF TypeOK
    <3>3. QED
      BY <2>8, <3>1, <3>2
  <2>11. CASE NextDay \/ (\E id : DeleteCap(id)) \/ (\E m : MarkDelivered(m)) \/ UNCHANGED vars
    <3>1. eval' = eval
      BY <2>11 DEF NextDay, DeleteCap, MarkDelivered, vars
    <3>2. QED
      BY <2>5, <3>1
  <2>12. CASE DaemonRestart
    BY <1>2, <2>12 DEF DaemonRestart
  <2>13. QED
    BY <2>5, <2>6, <2>7, <2>9, <2>10, <2>11, <2>12 DEF Next, Requests
<1>3. ASSUME NEW t \in Threads, NEW c, NEW d, eval'[t] # None, NEW k \in eval'[t].due,
             c = eval'[t].cap, d = eval'[t].day
      PROVE  Reached(c, k, d)'
  <2>1. eval' \in [Threads -> Evaluation \cup {None}] /\ DueHasCap'
    BY <1>0 DEF TypeOK, IInv
  <2>2. c \in CapDefinition /\ k \in Kinds /\ d \in Days
    BY <1>3, <2>1 DEF DueHasCap, Evaluation
  <2>3. Reached(c, k, d)
    BY <1>2, <1>3
  <2>4. QED
    BY <1>1, <2>2, <2>3
<1>4. QED
  BY <1>3 DEF DueIsReached, Reached, Usage

\* The steps that change the table of alerts.
LEMMA EventsStep ==
  ASSUME [Next]_vars
  PROVE  \/ \E t \in Threads : InsertAlert(t)
         \/ \E marked : MarkDelivered(marked)
         \/ \E id : DeleteCap(id)
         \/ UNCHANGED events
<1>1. ASSUME NEW t \in Threads, Evaluate(t), ~ InsertAlert(t) PROVE UNCHANGED events
  BY <1>1 DEF Evaluate, TakeCap, ReadDailyUsage, AbortEvaluation, FinishCap
<1>2. ASSUME NEW id, NEW guid, NEW bytes, NEW active, UpsertCap(id, guid, bytes, active)
      PROVE  UNCHANGED events
  BY <1>2 DEF UpsertCap
<1>3. ASSUME NEW g, NEW n, Poll(g, n) PROVE UNCHANGED events
  BY <1>3 DEF Poll
<1>4. NextDay \/ DaemonRestart \/ UNCHANGED vars => UNCHANGED events
  BY DEF NextDay, DaemonRestart, vars
<1>5. QED
  BY <1>1, <1>2, <1>3, <1>4 DEF Next, Requests

LEMMA JustifiedKept ==
  ASSUME IInv, IInv', DueIsReached, AlertsJustified, [Next]_vars
  PROVE  AlertsJustified'
<1>0. TypeOK /\ TypeOK' /\ UsageKept
  BY StepKeepsUsage DEF IInv
<1>1. \A e \in events : e \in AlertRecord /\ Justified(e)
  BY <1>0 DEF TypeOK, AlertsJustified, Justified
<1>2. \A e \in events' : e \in AlertRecord
  BY <1>0 DEF TypeOK
<1>3. SUFFICES ASSUME NEW e \in events' PROVE Justified(e)
  <2>1. \A e \in events' : Justified(e)'
    BY <1>0, <1>2, <1>3, JustifiedStays
  <2>2. QED
    BY <2>1 DEF AlertsJustified, Justified
<1>4. CASE e \in events
  BY <1>1, <1>4
<1>5. ASSUME NEW t \in Threads, InsertAlert(t), e \notin events
      PROVE  Justified(e)
  <2>1. eval[t] # None
    BY <1>5 DEF InsertAlert
  <2>2. PICK k \in eval[t].due : e = Alert(eval[t].cap, k, eval[t].day)
    BY <1>5 DEF InsertAlert
  <2>3. eval[t].cap \in CapDefinition /\ k \in Kinds /\ eval[t].day \in Days
    BY <1>0, <2>1, EvaluationFields DEF IInv, DueHasCap
  <2>4. Reached(eval[t].cap, k, eval[t].day)
    BY <2>1 DEF DueIsReached
  <2>5. QED
    BY <1>0, <2>2, <2>3, <2>4, ReachedIsJustified
<1>6. ASSUME NEW marked, MarkDelivered(marked), e \notin events
      PROVE  Justified(e)
  <2>1. PICK f \in events : e = [f EXCEPT !.delivered = TRUE]
    BY <1>6 DEF MarkDelivered
  <2>2. QED
    BY <1>1, <2>1, DeliveredOrNot
<1>7. CASE \E id : DeleteCap(id)
  BY <1>4, <1>7 DEF DeleteCap
<1>8. CASE UNCHANGED events
  BY <1>4, <1>8
<1>9. QED
  BY <1>4, <1>5, <1>6, <1>7, <1>8, EventsStep

\* No alert is fired before usage has reached what it says, also when the cap
\* was edited and usage grew since the evaluation has read them.
THEOREM AlertsAreJustified == Spec => []AlertsJustified
<1> DEFINE JInv == DueIsReached /\ AlertsJustified
<1>1. Init => JInv
  <2>1. Init => DueIsReached
    BY DEF Init, DueIsReached
  <2>2. Init => AlertsJustified
    BY DEF Init, AlertsJustified
  <2>3. QED
    BY <2>1, <2>2
<1>2. IInv /\ IInv' /\ JInv /\ [Next]_vars => JInv'
  BY DueKept, JustifiedKept
<1>3. JInv => AlertsJustified
  OBVIOUS
<1>4. QED
  BY <1>1, <1>2, <1>3, InvariantHolds, PTL DEF Spec

-----------------------------------------------------------------------------
(***************************************************************************)
(* Delivered alerts stay delivered.                                        *)
(***************************************************************************)
LEMMA DeliveredStep ==
  ASSUME IInv, [Next]_vars, NEW e \in events, NEW f \in events',
         Key(e) = Key(f), e.delivered
  PROVE  f.delivered
<1>1. /\ \A g \in events : g \in AlertRecord
      /\ \A g, h \in events : Key(g) = Key(h) => g = h
  BY DEF IInv, TypeOK, OneShotAlerts
<1>2. CASE f \in events
  BY <1>1, <1>2
<1>3. ASSUME NEW t \in Threads, InsertAlert(t), f \notin events
      PROVE  FALSE
  <2>1. PICK k \in eval[t].due :
          LET g == Alert(eval[t].cap, k, eval[t].day)
          IN  events' = IF \E h \in events : Key(h) = Key(g)
                        THEN events ELSE events \cup {g}
    BY <1>3 DEF InsertAlert
  <2> DEFINE g == Alert(eval[t].cap, k, eval[t].day)
  <2> HIDE DEF g
  <2>2. events' = IF \E h \in events : Key(h) = Key(g) THEN events ELSE events \cup {g}
    BY <2>1 DEF g
  <2>3. f = g /\ ~ \E h \in events : Key(h) = Key(g)
    BY <1>3, <2>2
  <2>4. QED
    BY <2>3
<1>4. ASSUME NEW marked, MarkDelivered(marked), f \notin events
      PROVE  f.delivered
  BY <1>4, <1>1 DEF MarkDelivered, AlertRecord
<1>5. CASE \E id : DeleteCap(id)
  BY <1>2, <1>5 DEF DeleteCap
<1>6. \/ \E t \in Threads : InsertAlert(t)
      \/ \E marked : MarkDelivered(marked)
      \/ \E id : DeleteCap(id)
      \/ UNCHANGED events
  BY EventsStep
<1>7. QED
  BY <1>2, <1>3, <1>4, <1>5, <1>6

\* An alert the user was shown is never shown as new again.
THEOREM DeliveredAlertsStay == Spec => DeliveredStays
<1>1. IInv /\ [Next]_vars =>
        [\A e \in events, f \in events' : Key(e) = Key(f) /\ e.delivered => f.delivered]_vars
  BY DeliveredStep
<1>2. QED
  BY <1>1, InvariantHolds, PTL DEF Spec, DeliveredStays

-----------------------------------------------------------------------------
(***************************************************************************)
(* The evaluation of a poll misses nothing.                                *)
(***************************************************************************)

\* What a step of any thread does to the two tables: the id of a deleted cap
\* does not come back, and an alert stays as long as its cap.
TablesStep ==
  /\ nextCap <= nextCap'
  /\ \A c \in caps' : c.id < nextCap'
  /\ \A i \in Nat : i < nextCap /\ (\E x \in caps' : x.id = i) => \E x \in caps : x.id = i
  /\ \A e \in events : (\E x \in caps' : x.id = e.cap) => \E f \in events' : Key(f) = Key(e)

LEMMA UpsertStep ==
  ASSUME TypeOK, \A c \in caps : c.id < nextCap, NEW id, NEW guid, NEW bytes, NEW active,
         UpsertCap(id, guid, bytes, active)
  PROVE  TablesStep
<1> DEFINE edited == {IF c.id = id THEN Cap(id, guid, bytes, active) ELSE c : c \in caps}
           conflicting == {c \in edited : guid # Null /\ c.guid = guid}
<1>1. \A y \in edited : \E x \in caps : x.id = y.id
  <2>1. Cap(id, guid, bytes, active).id = id
    BY DEF Cap
  <2>2. QED
    BY <2>1
<1>2. conflicting \subseteq edited
  OBVIOUS
<1>3. \/ /\ caps' = edited \cup {Cap(nextCap, guid, bytes, active)}
         /\ nextCap' = nextCap + 1
      \/ /\ caps' = (edited \ conflicting)
              \cup {Cap(c.id, guid, bytes, active) : c \in conflicting}
         /\ nextCap' = nextCap
  BY DEF UpsertCap
<1>4. events' = events /\ nextCap \in Nat /\ \A x \in caps : x.id \in Nat
  BY DEF UpsertCap, TypeOK, CapDefinition
<1> HIDE DEF edited, conflicting
<1>5. \A i : Cap(i, guid, bytes, active).id = i
  BY DEF Cap
<1>6. \A x \in caps' : (\E y \in caps : y.id = x.id) \/ (x.id = nextCap /\ nextCap' = nextCap + 1)
  BY <1>1, <1>2, <1>3, <1>5
<1>7. nextCap <= nextCap' /\ nextCap' \in Nat
  BY <1>3, <1>4
<1>8. \A c \in caps' : c.id < nextCap'
  BY <1>3, <1>4, <1>6
<1>9. \A i \in Nat : i < nextCap /\ (\E x \in caps' : x.id = i) => \E x \in caps : x.id = i
  BY <1>4, <1>6
<1>10. QED
  BY <1>4, <1>7, <1>8, <1>9 DEF TablesStep

LEMMA EveryTablesStep ==
  ASSUME IInv, IdsBelow, [Next]_vars
  PROVE  TablesStep
<1>1. TypeOK /\ nextCap \in Nat /\ \A c \in caps : c.id < nextCap
  BY DEF IInv, TypeOK, IdsBelow
<1>2. ASSUME UNCHANGED <<caps, nextCap, events>>
      PROVE  TablesStep
  BY <1>1, <1>2 DEF TablesStep
<1>3. ASSUME NEW t \in Threads, Evaluate(t)
      PROVE  TablesStep
  <2>1. UNCHANGED <<caps, nextCap>>
    BY <1>3 DEF Evaluate, TakeCap, ReadDailyUsage, InsertAlert, AbortEvaluation, FinishCap
  <2>2. events \subseteq events'
    <3>1. CASE InsertAlert(t)
      <4>1. PICK k \in eval[t].due :
              LET g == Alert(eval[t].cap, k, eval[t].day)
              IN  events' = IF \E h \in events : Key(h) = Key(g)
                            THEN events ELSE events \cup {g}
        BY <3>1 DEF InsertAlert
      <4>2. QED
        BY <4>1
    <3>2. CASE ~ InsertAlert(t)
      BY <1>3, <3>2 DEF Evaluate, TakeCap, ReadDailyUsage, AbortEvaluation, FinishCap
    <3>3. QED
      BY <3>1, <3>2
  <2>3. QED
    BY <1>1, <2>1, <2>2 DEF TablesStep
<1>4. ASSUME NEW id, DeleteCap(id)
      PROVE  TablesStep
  <2>1. /\ caps' = {c \in caps : c.id # id}
        /\ events' = {e \in events : e.cap # id}
        /\ nextCap' = nextCap
    BY <1>4 DEF DeleteCap
  <2>2. \A e \in events : (\E x \in caps' : x.id = e.cap) => e \in events'
    BY <2>1
  <2>3. QED
    BY <1>1, <2>1, <2>2 DEF TablesStep
<1>5. ASSUME NEW marked, MarkDelivered(marked)
      PROVE  TablesStep
  <2>1. UNCHANGED <<caps, nextCap>>
    BY <1>5 DEF MarkDelivered
  <2>2. ASSUME NEW e \in events
        PROVE  \E f \in events' : Key(f) = Key(e)
    <3> DEFINE f == IF e \in marked THEN [e EXCEPT !.delivered = TRUE] ELSE e
    <3>1. e \in AlertRecord
      BY <1>1 DEF TypeOK
    <3>2. f \in events'
      BY <1>5 DEF MarkDelivered
    <3>3. Key(f) = Key(e)
      BY <3>1 DEF AlertRecord, Key
    <3>4. QED
      BY <3>2, <3>3
  <2>3. QED
    BY <1>1, <2>1, <2>2 DEF TablesStep
<1>6. ASSUME NEW g, NEW n, Poll(g, n)
      PROVE  TablesStep
  BY <1>2, <1>6 DEF Poll
<1>7. CASE NextDay \/ DaemonRestart \/ UNCHANGED vars
  BY <1>2, <1>7 DEF NextDay, DaemonRestart, vars
<1>8. QED
  BY <1>1, <1>3, <1>4, <1>5, <1>6, <1>7, UpsertStep DEF Next, Requests

LEMMA SettledStays ==
  ASSUME IInv, IdsBelow, [Next]_vars, UNCHANGED used
  PROVE  \A c \in CapDefinition, k \in Kinds, d \in Days :
           c.id < nextCap /\ Settled(c, k, d) => Settled(c, k, d)'
<1>1. ASSUME NEW c \in CapDefinition, NEW k \in Kinds, NEW d \in Days,
             c.id < nextCap, Settled(c, k, d), \E x \in caps' : x.id = c.id,
             Reached(c, k, d)'
      PROVE  \E e \in events' : Key(e) = Key(Alert(c, k, d))
  <2>1. TablesStep
    BY EveryTablesStep
  <2>2. c.id \in Nat
    BY DEF CapDefinition
  <2>3. \E x \in caps : x.id = c.id
    BY <1>1, <2>1, <2>2 DEF TablesStep
  <2>4. Reached(c, k, d)
    BY <1>1 DEF Reached, Usage
  <2>5. PICK e \in events : Key(e) = Key(Alert(c, k, d))
    BY <1>1, <2>3, <2>4 DEF Settled
  <2>6. e.cap = c.id
    BY <2>5 DEF Key, Alert
  <2>7. PICK f \in events' : Key(f) = Key(e)
    BY <1>1, <2>1, <2>6 DEF TablesStep
  <2>8. QED
    BY <2>5, <2>7
<1>2. QED
  BY <1>1 DEF Settled

LEMMA IdsStayBelow ==
  ASSUME IInv, IInv', IdsBelow, [Next]_vars
  PROVE  IdsBelow'
<1>1. TablesStep
  BY EveryTablesStep
<1>2. /\ eval \in [Threads -> Evaluation \cup {None}]
      /\ eval' \in [Threads -> Evaluation \cup {None}]
      /\ "poll" \in Threads
  BY DEF IInv, TypeOK, Threads
<1>3. nextCap \in Nat /\ nextCap' \in Nat /\ nextCap <= nextCap'
  BY <1>1 DEF IInv, TypeOK, TablesStep
<1>4. \A c \in caps' : c.id < nextCap'
  BY <1>1 DEF TablesStep
<1>5. ASSUME eval'["poll"] # None, NEW c \in eval'["poll"].read
      PROVE  c.id < nextCap'
  <2>1. CASE eval["poll"] # None /\ c \in eval["poll"].read
    <3>1. eval["poll"].read \in SUBSET CapDefinition
      BY <1>2, <2>1 DEF Evaluation
    <3>2. c.id \in Nat
      BY <2>1, <3>1 DEF CapDefinition
    <3>3. c.id < nextCap
      BY <2>1 DEF IdsBelow
    <3>4. QED
      BY <1>3, <3>2, <3>3
  <2>2. CASE c \in caps
    <3>1. c.id \in Nat /\ c.id < nextCap
      BY <2>2 DEF IInv, TypeOK, CapDefinition, IdsBelow
    <3>2. QED
      BY <1>3, <3>1
  <2>3. CASE UNCHANGED eval
    BY <1>5, <2>1, <2>3
  <2>4. ASSUME NEW t \in Threads, Evaluate(t)
        PROVE  eval["poll"] # None /\ c \in eval["poll"].read
    <3>1. CASE t = "poll"
      <4>1. eval[t] # None
        BY <2>4 DEF Evaluate, TakeCap, ReadDailyUsage, InsertAlert, AbortEvaluation, FinishCap
      <4>2. eval'[t] = None \/ eval'[t].read = eval[t].read
        <5>1. CASE TakeCap(t)
          <6>1. PICK x \in eval[t].todo :
                  eval' = [eval EXCEPT
                    ![t].todo = @ \ {x},
                    ![t].cap = x,
                    ![t].due = {m \in MonthlyKinds : Reached(x, m, eval[t].day)},
                    ![t].dailyLeft = TRUE]
            BY <5>1 DEF TakeCap
          <6>2. QED
            BY <1>2, <4>1, <6>1 DEF Evaluation
        <5>2. CASE ReadDailyUsage(t)
          BY <1>2, <4>1, <5>2 DEF ReadDailyUsage, Evaluation
        <5>3. CASE InsertAlert(t)
          <6>1. PICK m \in eval[t].due : eval' = [eval EXCEPT ![t].due = @ \ {m}]
            BY <5>3 DEF InsertAlert
          <6>2. QED
            BY <1>2, <4>1, <6>1 DEF Evaluation
        <5>4. CASE AbortEvaluation(t)
          BY <1>2, <4>1, <5>4 DEF AbortEvaluation
        <5>5. CASE FinishCap(t)
          BY <1>2, <4>1, <5>5 DEF FinishCap, Evaluation
        <5>6. QED
          BY <2>4, <5>1, <5>2, <5>3, <5>4, <5>5 DEF Evaluate
      <4>3. QED
        BY <1>5, <3>1, <4>1, <4>2
    <3>2. CASE t # "poll"
      <4>1. eval'["poll"] = eval["poll"]
        BY <1>2, <2>4, <3>2 DEF Evaluate, TakeCap, ReadDailyUsage, InsertAlert,
                                AbortEvaluation, FinishCap
      <4>2. QED
        BY <1>5, <4>1
    <3>3. QED
      BY <3>1, <3>2
  <2>5. ASSUME NEW g, NEW n, Poll(g, n)
        PROVE  c \in caps
    <3>1. eval'["poll"] = Started(caps)
      BY <1>2, <2>5 DEF Poll
    <3>2. QED
      BY <1>5, <3>1 DEF Started
  <2>6. ASSUME NEW id, NEW guid, NEW bytes, NEW active, UpsertCap(id, guid, bytes, active)
        PROVE  eval["poll"] # None /\ c \in eval["poll"].read
    <3>1. eval'["poll"] = eval["poll"]
      BY <1>2, <2>6 DEF UpsertCap
    <3>2. QED
      BY <1>5, <3>1
  <2>7. CASE DaemonRestart
    BY <1>2, <1>5, <2>7 DEF DaemonRestart
  <2>8. CASE NextDay \/ (\E id : DeleteCap(id)) \/ (\E m : MarkDelivered(m)) \/ UNCHANGED vars
    <3>1. UNCHANGED eval
      BY <2>8 DEF NextDay, DeleteCap, MarkDelivered, vars
    <3>2. QED
      BY <2>3, <3>1
  <2>9. QED
    BY <2>1, <2>2, <2>4, <2>5, <2>6, <2>7, <2>8 DEF Next, Requests
<1>6. QED
  BY <1>4, <1>5 DEF IdsBelow

\* A step of the poll's evaluation.
LEMMA EvaluateSettles ==
  ASSUME IInv, PInv, [Next]_vars, Evaluate("poll"), eval'["poll"] # None,
         NEW d, d = eval'["poll"].day,
         NEW c \in eval'["poll"].read \ eval'["poll"].todo, NEW k \in Kinds
  PROVE  \/ Settled(c, k, d)'
         \/ c = eval'["poll"].cap
              /\ (k \in eval'["poll"].due \/ (k = "daily_cap" /\ eval'["poll"].dailyLeft))
<1> DEFINE t == "poll"
           ev == eval[t]
           next == eval'[t]
           Due(e) == k \in e.due \/ (k = "daily_cap" /\ e.dailyLeft)
<1>1. /\ eval \in [Threads -> Evaluation \cup {None}] /\ t \in Threads
      /\ TypeOK
  BY DEF IInv, TypeOK, Threads
<1>2. ev # None /\ ev \in Evaluation
  BY <1>1 DEF Evaluate, TakeCap, ReadDailyUsage, InsertAlert, AbortEvaluation, FinishCap
<1>3. /\ ev.day \in Days /\ ev.read \in SUBSET CapDefinition
      /\ ev.cap \in CapDefinition \cup {None}
      /\ ev.cap = None => ev.cap \notin CapDefinition
  BY <1>2, CapAssumption DEF Evaluation
<1>4. \A x \in ev.read \ ev.todo : Settled(x, k, ev.day) \/ (x = ev.cap /\ Due(ev))
  BY <1>2 DEF PInv, PollSettles
<1>5. UNCHANGED used /\ IdsBelow
  BY DEF Evaluate, TakeCap, ReadDailyUsage, InsertAlert, AbortEvaluation, FinishCap, PInv
<1>6. \A x \in ev.read : x.id < nextCap
  BY <1>2, <1>5 DEF IdsBelow
<1>7. \A x \in CapDefinition, m \in Kinds, o \in Days :
        x.id < nextCap /\ Settled(x, m, o) => Settled(x, m, o)'
  BY <1>5, SettledStays
<1>8. d = ev.day => \A x \in ev.read : Settled(x, k, d) => Settled(x, k, d)'
  BY <1>3, <1>6, <1>7
<1>9. SUFFICES Settled(c, k, d)' \/ (c = next.cap /\ Due(next))
  OBVIOUS
<1>10. c \in next.read \ next.todo /\ d = next.day /\ next # None
  OBVIOUS
<1>11. \A x \in CapDefinition : ~ Reached(x, k, d) => Settled(x, k, d)
  BY DEF Settled
<1>12. CASE TakeCap(t)
  <2>1. PICK x \in ev.todo :
          eval' = [eval EXCEPT
            ![t].todo = @ \ {x},
            ![t].cap = x,
            ![t].due = {m \in MonthlyKinds : Reached(x, m, eval[t].day)},
            ![t].dailyLeft = TRUE]
    BY <1>12 DEF TakeCap
  <2> DEFINE reached == {m \in MonthlyKinds : Reached(x, m, ev.day)}
  <2> HIDE DEF reached
  <2>2. /\ next.read = ev.read /\ next.todo = ev.todo \ {x} /\ next.day = ev.day
        /\ next.cap = x /\ next.due = reached /\ next.dailyLeft
    BY <1>1, <1>2, <2>1 DEF Evaluation, reached
  <2> HIDE DEF ev, next
  <2>5. CASE c = x
    <3>1. Reached(c, k, d) => Due(next)
      BY <1>10, <2>2, <2>5 DEF reached, Kinds
    <3>2. ~ Reached(c, k, d) => Settled(c, k, d)'
      BY <1>3, <1>8, <1>10, <1>11, <2>2
    <3>3. QED
      BY <2>2, <2>5, <3>1, <3>2
  <2>6. CASE c # x
    <3>1. c \in ev.read \ ev.todo
      BY <1>10, <2>2, <2>6
    <3>2. ev.cap = None
      BY <1>12 DEF TakeCap, ev
    <3>3. Settled(c, k, ev.day)
      BY <1>3, <1>4, <3>1, <3>2
    <3>4. QED
      BY <1>8, <1>10, <2>2, <3>1, <3>3
  <2>7. QED
    BY <2>5, <2>6
<1>13. CASE ReadDailyUsage(t)
  <2> DEFINE reached == {m \in {"daily_cap"} : Reached(ev.cap, m, ev.day)}
  <2>1. eval' = [eval EXCEPT ![t].dailyLeft = FALSE, ![t].due = reached]
        /\ ev.due = {} /\ ev.cap # None
    BY <1>13 DEF ReadDailyUsage
  <2> HIDE DEF reached
  <2>2. /\ next.read = ev.read /\ next.todo = ev.todo /\ next.day = ev.day
        /\ next.cap = ev.cap /\ next.due = reached
    BY <1>1, <1>2, <2>1 DEF Evaluation
  <2> HIDE DEF ev, next
  <2>4. CASE Settled(c, k, ev.day)
    BY <1>8, <1>10, <2>2, <2>4
  <2>5. CASE c = ev.cap /\ k = "daily_cap"
    <3>1. Reached(c, k, d) => Due(next)
      BY <1>10, <2>2, <2>5 DEF reached
    <3>2. ~ Reached(c, k, d) => Settled(c, k, d)'
      BY <1>3, <1>8, <1>10, <1>11, <2>2
    <3>3. QED
      BY <2>2, <2>5, <3>1, <3>2
  <2>6. QED
    BY <1>4, <1>10, <2>1, <2>2, <2>4, <2>5
<1>14. CASE InsertAlert(t)
  <2>1. PICK m \in ev.due :
          LET e == Alert(ev.cap, m, ev.day)
          IN  /\ events' = IF \E f \in events : Key(f) = Key(e)
                           THEN events ELSE events \cup {e}
              /\ eval' = [eval EXCEPT ![t].due = @ \ {m}]
    BY <1>14 DEF InsertAlert
  <2>2. /\ next.read = ev.read /\ next.todo = ev.todo /\ next.day = ev.day
        /\ next.cap = ev.cap /\ next.due = ev.due \ {m} /\ next.dailyLeft = ev.dailyLeft
    BY <1>1, <1>2, <2>1 DEF Evaluation
  <2> DEFINE e == Alert(ev.cap, m, ev.day)
  <2>3. \E f \in events' : Key(f) = Key(e)
    <3> HIDE DEF e
    <3>1. events' = IF \E f \in events : Key(f) = Key(e) THEN events ELSE events \cup {e}
      BY <2>1 DEF e
    <3>2. QED
      BY <3>1
  <2> HIDE DEF ev, next
  <2>5. CASE Settled(c, k, ev.day)
    BY <1>8, <1>10, <2>2, <2>5
  <2>6. CASE c = ev.cap /\ k = m
    <3>1. e = Alert(c, k, d)
      BY <1>10, <2>2, <2>6
    <3>2. Settled(c, k, d)'
      BY <2>3, <3>1 DEF Settled
    <3>3. QED
      BY <3>2
  <2>7. CASE c = ev.cap /\ Due(ev) /\ k # m
    BY <2>2, <2>7
  <2>8. QED
    BY <1>4, <1>10, <2>2, <2>5, <2>6, <2>7
<1>15. CASE AbortEvaluation(t)
  BY <1>1, <1>10, <1>15 DEF AbortEvaluation
<1>16. CASE FinishCap(t)
  <2>1. /\ ev.due = {} /\ ~ ev.dailyLeft
        /\ eval' = [eval EXCEPT ![t] =
             IF eval[t].todo = {} THEN None ELSE [@ EXCEPT !.cap = None]]
    BY <1>16 DEF FinishCap
  <2>2. /\ next.read = ev.read /\ next.todo = ev.todo /\ next.day = ev.day
        /\ next.cap = None
    BY <1>1, <1>2, <1>10, <2>1 DEF Evaluation
  <2> HIDE DEF ev, next
  <2>3. Settled(c, k, ev.day)
    BY <1>4, <1>10, <2>1, <2>2
  <2>4. QED
    BY <1>8, <1>10, <2>2, <2>3
<1>17. QED
  BY <1>12, <1>13, <1>14, <1>15, <1>16 DEF Evaluate

LEMMA PollKeepsSettling ==
  ASSUME IInv, IInv', PInv, [Next]_vars
  PROVE  PollSettles'
<1> DEFINE ev == eval["poll"]
           next == eval'["poll"]
<1>1. /\ eval \in [Threads -> Evaluation \cup {None}]
      /\ eval' \in [Threads -> Evaluation \cup {None}]
      /\ "poll" \in Threads /\ "ipc" \in Threads
  BY DEF IInv, TypeOK, Threads
<1>2. ASSUME next # None, NEW d, d = next.day, NEW c \in next.read \ next.todo, NEW k \in Kinds
      PROVE  \/ Settled(c, k, d)'
             \/ c = next.cap /\ (k \in next.due \/ (k = "daily_cap" /\ next.dailyLeft))
  <2>1. CASE next = ev /\ UNCHANGED used
    <3>1. ev # None /\ ev \in Evaluation
      BY <1>1, <1>2, <2>1
    <3>2. /\ d \in Days /\ c \in CapDefinition /\ c.id < nextCap
      BY <1>2, <2>1, <3>1 DEF Evaluation, PInv, IdsBelow
    <3>3. Settled(c, k, d) => Settled(c, k, d)'
      BY <2>1, <3>2, SettledStays DEF PInv
    <3>4. \/ Settled(c, k, ev.day)
          \/ c = ev.cap /\ (k \in ev.due \/ (k = "daily_cap" /\ ev.dailyLeft))
      BY <1>2, <2>1, <3>1 DEF PInv, PollSettles
    <3> HIDE DEF ev, next
    <3>5. QED
      BY <1>2, <2>1, <3>3, <3>4
  <2>2. CASE Evaluate("poll")
    BY <1>2, <2>2, EvaluateSettles
  <2>3. CASE Evaluate("ipc")
    <3>1. next = ev /\ UNCHANGED used
      BY <1>1, <2>3 DEF Evaluate, TakeCap, ReadDailyUsage, InsertAlert, AbortEvaluation,
                        FinishCap
    <3>2. QED
      BY <2>1, <3>1
  <2>4. ASSUME NEW g, NEW n, Poll(g, n)
        PROVE  FALSE
    <3>1. next = Started(caps)
      BY <1>1, <2>4 DEF Poll
    <3>2. next.read = next.todo
      BY <1>2, <3>1 DEF Started
    <3>3. QED
      BY <1>2, <3>2
  <2>5. ASSUME NEW id, NEW guid, NEW bytes, NEW active, UpsertCap(id, guid, bytes, active)
        PROVE  next = ev /\ UNCHANGED used
    BY <1>1, <2>5 DEF UpsertCap
  <2>6. CASE DaemonRestart
    BY <1>1, <1>2, <2>6 DEF DaemonRestart
  <2>7. CASE NextDay \/ (\E id : DeleteCap(id)) \/ (\E m : MarkDelivered(m)) \/ UNCHANGED vars
    <3>1. next = ev /\ UNCHANGED used
      BY <2>7 DEF NextDay, DeleteCap, MarkDelivered, vars
    <3>2. QED
      BY <2>1, <3>1
  <2>8. QED
    BY <2>1, <2>2, <2>3, <2>4, <2>5, <2>6, <2>7 DEF Next, Requests, Threads
<1>3. PICK d : d = next.day
  OBVIOUS
<1>4. ASSUME next # None, NEW c \in next.read \ next.todo, NEW k \in Kinds
      PROVE  \/ Settled(c, k, d)'
             \/ c = next.cap /\ (k \in next.due \/ (k = "daily_cap" /\ next.dailyLeft))
  BY <1>2, <1>3, <1>4
<1>5. QED
  BY <1>3, <1>4 DEF PollSettles, Settled, Reached, Usage

\* When the evaluation of a poll ends, every cap it has read has got all the
\* alerts it was due, unless somebody deleted it meanwhile.
THEOREM PollsMissNothing == Spec => PollMissesNothing
<1>1. Init => PInv
  BY DEF Init, PInv, IdsBelow, PollSettles, Threads
<1>2. IInv /\ IInv' /\ PInv /\ [Next]_vars => PInv'
  BY IdsStayBelow, PollKeepsSettling DEF PInv
<1>3. IInv /\ PInv /\ [Next]_vars =>
        [FinishCap("poll") /\ eval'["poll"] = None =>
           \A c \in eval["poll"].read, k \in Kinds : Settled(c, k, eval["poll"].day)]_vars
  <2>1. SUFFICES ASSUME IInv, PInv, FinishCap("poll"), eval'["poll"] = None,
                        NEW c \in eval["poll"].read, NEW k \in Kinds
                 PROVE  Settled(c, k, eval["poll"].day)
    OBVIOUS
  <2>2. /\ eval["poll"] # None /\ eval["poll"].due = {} /\ ~ eval["poll"].dailyLeft
        /\ eval' = [eval EXCEPT !["poll"] =
             IF eval["poll"].todo = {} THEN None ELSE [@ EXCEPT !.cap = None]]
    BY <2>1 DEF FinishCap
  <2>3. eval \in [Threads -> Evaluation \cup {None}] /\ "poll" \in Threads
    BY <2>1 DEF IInv, TypeOK, Threads
  <2>4. eval["poll"].todo = {}
    <3>1. SUFFICES ASSUME eval["poll"].todo # {} PROVE FALSE
      OBVIOUS
    <3>2. eval["poll"] \in Evaluation /\ [eval["poll"] EXCEPT !.cap = None] \in Evaluation
      BY <2>2, <2>3 DEF Evaluation
    <3>3. eval'["poll"] = [eval["poll"] EXCEPT !.cap = None]
      BY <2>2, <2>3, <3>1
    <3>4. QED
      BY <2>1, <3>2, <3>3, CapAssumption
  <2>5. QED
    BY <2>1, <2>2, <2>4 DEF PInv, PollSettles
<1>4. QED
  BY <1>1, <1>2, <1>3, InvariantHolds, PTL DEF Spec, PollMissesNothing
=============================================================================
