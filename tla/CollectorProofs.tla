--------------------------- MODULE CollectorProofs ---------------------------
(***************************************************************************)
(* Proofs about Collector, and about the machine left alone of             *)
(* MCCollector, for every set of interfaces, budget, set of intervals and  *)
(* bound.                                                                  *)
(***************************************************************************)
EXTENDS MCCollector, TLAPS

\* The anomaly budget of a poll is a natural number of bytes.
LEMMA AllowedDeltaNat ==
  ASSUME NEW last \in Nat, NEW now \in Nat, NEW nominal \in Nat \ {0}
  PROVE  AllowedDelta(ObservedInterval(last, now, nominal), nominal) \in Nat
<1> DEFINE observed == ObservedInterval(last, now, nominal)
<1>1. observed \in Nat
  BY DEF ObservedInterval
<1> HIDE DEF observed
<1>2. MaxDeltaBytes * observed \in Nat
  BY <1>1, CollectorAssumption
<1> DEFINE total == MaxDeltaBytes * observed + nominal - 1
<1>3. total \in Nat
  BY <1>2
<1> HIDE DEF total
<1>4. total \div nominal \in Nat
  BY <1>3
<1>5. QED
  BY <1>4 DEF AllowedDelta, total, observed

\* The arithmetic of the delta engine stays within the naturals.
LEMMA EmittedType ==
  ASSUME TypeOK, NEW i \in Interfaces
  PROVE  Emitted(i) \in Bytes \cup {None}
<1>1. CASE rows[i] # None /\ previous[i] # None
  <2>1. rows[i] \in Bytes /\ previous[i] \in Bytes
    BY <1>1 DEF TypeOK
  <2>2. \A d \in Dir : CounterDelta(previous[i][d], rows[i][d], poll.allowed) \in Nat
    BY <2>1 DEF CounterDelta, Bytes, TypeOK
  <2>3. DeltaOf(i) \in Bytes
    BY <2>2 DEF DeltaOf, Bytes
  <2>4. QED
    BY <2>3 DEF Emitted
<1>2. CASE rows[i] = None \/ previous[i] = None
  BY <1>2 DEF Emitted
<1>3. QED
  BY <1>1, <1>2

LEMMA BytesOfType ==
  ASSUME NEW entry \in Bytes \cup {None}, NEW d \in Dir
  PROVE  BytesOf(entry, d) \in Nat
BY DEF BytesOf, Bytes

LEMMA ZeroType == Zero \in Bytes /\ NoBytes \in [Interfaces -> Bytes]
BY DEF Zero, Bytes, NoBytes

\* What is given up for one interface, in terms of the emission it replaces.
LEMMA EmittedWithinMoved ==
  ASSUME IInv, NEW i \in Interfaces, rows[i] # None, previous[i] # None
  PROVE  \A d \in Dir : BytesOf(Emitted(i), d) <= Moved(i, d)
<1> SUFFICES ASSUME NEW d \in Dir
             PROVE  BytesOf(Emitted(i), d) <= Moved(i, d)
  OBVIOUS
<1>1. /\ rows[i][d] \in Nat
      /\ previous[i][d] \in Nat
      /\ seen[i][d] \in Nat
      /\ base[i][d] \in Nat
      /\ poll.allowed \in Nat
  BY DEF IInv, TypeOK, Bytes
<1>2. /\ base[i][d] <= seen[i][d]
      /\ \/ rows[i][d] - previous[i][d] = seen[i][d] - base[i][d]
         \/ rows[i][d] <= seen[i][d] - base[i][d]
  BY DEF IInv, SnapshotFollowed, Follows
<1>3. CounterDelta(previous[i][d], rows[i][d], poll.allowed) <= Moved(i, d)
  BY <1>1, <1>2 DEF CounterDelta, Moved
<1>4. QED
  BY <1>1, <1>2, <1>3 DEF BytesOf, Emitted, DeltaOf, Moved

-----------------------------------------------------------------------------
\* Type correctness: no handler leaves the loop, the delta engine or the
\* database in a value of another kind, a negative byte count included.
LEMMA InitType == Init => TypeOK
<1> SUFFICES ASSUME Init PROVE TypeOK
  OBVIOUS
<1>1. Zero \in Bytes /\ NoBytes \in [Interfaces -> Bytes]
  BY ZeroType
<1>2. Nothing \in [Interfaces -> Bytes \cup {None}]
  BY DEF Nothing
<1>3. QED
  BY <1>1, <1>2, CollectorAssumption DEF Init, TypeOK, NoPoll, LoopStates

\* The part of the state EndPoll and ForgetPoll write.
LEMMA ForgottenType ==
  ASSUME TypeOK, ForgetPoll
  PROVE  /\ poll' \in [ts : Nat, allowed : Nat]
         /\ rows' \in [Interfaces -> Bytes \cup {None}]
         /\ batch' \in [Interfaces -> Bytes \cup {None}]
         /\ seen' \in [Interfaces -> Bytes]
BY ZeroType DEF ForgetPoll, NoPoll, Nothing, NoBytes

LEMMA GivenUpType ==
  ASSUME TypeOK, GiveUpBatch
  PROVE  excused' \in [Interfaces -> Bytes]
<1> SUFFICES ASSUME NEW i \in Interfaces, NEW d \in Dir
             PROVE  excused[i][d] + BytesOf(batch[i], d) \in Nat
  BY DEF GiveUpBatch, Bytes
<1>1. BytesOf(batch[i], d) \in Nat
  BY BytesOfType DEF TypeOK
<1>2. excused[i][d] \in Nat
  BY DEF TypeOK, Bytes
<1>3. QED
  BY <1>1, <1>2

-----------------------------------------------------------------------------
\* At a reading that moves the baseline, what is emitted and what is given
\* up add up to what the interface really moved since the last baseline.
LEMMA ExcuseBalances ==
  ASSUME IInv, NEW i \in Interfaces, rows[i] # None, NEW d \in Dir
  PROVE  /\ Excuse(i, d) \in Nat
         /\ BytesOf(Emitted(i), d) + Excuse(i, d) = Moved(i, d)
<1>1. \A e \in Dir : /\ rows[i][e] \in Nat
                      /\ seen[i][e] \in Nat
                      /\ base[i][e] \in Nat
                      /\ base[i][e] <= seen[i][e]
  BY DEF IInv, TypeOK, Bytes, SnapshotFollowed
<1>2. \A e \in Dir : Moved(i, e) \in Nat
  BY <1>1 DEF Moved
<1>3. \A e \in Dir : BytesOf(Emitted(i), e) \in Nat
  BY EmittedType, BytesOfType DEF IInv
<1>0. shown[i] = previous[i]
  BY DEF IInv, BaselineIsLastReading
<1>4. CASE previous[i] = None
  BY <1>0, <1>2, <1>4 DEF Excuse, Emitted, BytesOf
<1>5. CASE previous[i] # None /\ WasReset(i)
  <2>1. Excuse(i, d) = Moved(i, d) - BytesOf(Emitted(i), d)
    BY <1>0, <1>5 DEF Excuse
  <2>2. BytesOf(Emitted(i), d) <= Moved(i, d)
    BY <1>5, EmittedWithinMoved
  <2>3. QED
    BY <1>2, <1>3, <2>1, <2>2
<1>6. CASE previous[i] # None /\ ~WasReset(i)
  <2>1. \A e \in Dir : previous[i][e] \in Nat
    BY <1>6 DEF IInv, TypeOK, Bytes
  <2>2. \A e \in Dir : seen[i][e] - rows[i][e] = base[i][e] - previous[i][e]
    BY <1>0, <1>6 DEF WasReset
  <2>3. \A e \in Dir : rows[i][e] >= previous[i][e]
                        /\ rows[i][e] - previous[i][e] = Moved(i, e)
    BY <1>1, <2>1, <2>2 DEF Moved
  <2>4. \A e \in Dir : DeltaOf(i)[e] = Moved(i, e)
    BY <2>3 DEF DeltaOf, CounterDelta
  <2>5. "sent" \in Dir /\ "recv" \in Dir /\ (d = "sent" \/ d = "recv")
    BY DEF Dir
  <2>6. poll.allowed \in Nat
    BY DEF IInv, TypeOK
  <2>7. CASE OverBudget(i)
    <3>1. Emitted(i) = None
      BY <1>2, <2>4, <2>5, <2>6, <2>7 DEF Emitted, OverBudget
    <3>2. Excuse(i, d) = Moved(i, d)
      BY <1>0, <1>6, <2>7 DEF Excuse
    <3>3. QED
      BY <1>2, <3>1, <3>2 DEF BytesOf
  <2>8. CASE ~OverBudget(i)
    <3>1. Excuse(i, d) = 0
      BY <1>0, <1>6, <2>8 DEF Excuse
    <3>2. Moved(i, "sent") + Moved(i, "recv") <= poll.allowed
      BY <1>2, <2>5, <2>6, <2>8 DEF OverBudget
    <3>3. BytesOf(Emitted(i), d) = Moved(i, d)
      <4>1. CASE Moved(i, "sent") + Moved(i, "recv") > 0
        <5>1. Emitted(i) = DeltaOf(i) /\ DeltaOf(i) \in Bytes
          <6>1. Emitted(i) = DeltaOf(i)
            BY <1>6, <2>4, <2>5, <3>2, <4>1 DEF Emitted
          <6>2. DeltaOf(i) \in Bytes
            BY <1>2, <2>4 DEF DeltaOf, Bytes
          <6>3. QED
            BY <6>1, <6>2
        <5>2. QED
          BY <2>4, <5>1, CollectorAssumption DEF BytesOf
      <4>2. CASE ~(Moved(i, "sent") + Moved(i, "recv") > 0)
        <5>1. Emitted(i) = None
          BY <2>4, <2>5, <4>2 DEF Emitted
        <5>2. Moved(i, "sent") = 0 /\ Moved(i, "recv") = 0
          BY <1>2, <2>5, <4>2
        <5>3. QED
          BY <2>5, <5>1, <5>2 DEF BytesOf
      <4>3. QED
        BY <4>1, <4>2
    <3>4. QED
      BY <1>2, <3>1, <3>3
  <2>9. QED
    BY <2>7, <2>8
<1>7. QED
  BY <1>4, <1>5, <1>6

-----------------------------------------------------------------------------
\* The induction, one lemma per group of actions.
LEMMA InitIInv == Init => IInv
<1> SUFFICES ASSUME Init PROVE IInv
  OBVIOUS
<1>1. TypeOK
  BY InitType
<1>2. EveryByteAccountedFor
  BY DEF Init, EveryByteAccountedFor, NoBytes, Zero, Nothing, BytesOf
<1>3. BaselineFollowed
  <2>1. \A i \in Interfaces, d \in Dir : base[i][d] = 0 /\ actual[i][d] = 0
    BY DEF Init, NoBytes, Zero
  <2>2. \A i \in Interfaces : previous[i] = None
    BY DEF Init, Nothing
  <2>3. \A i \in Interfaces, d \in Dir : base[i][d] <= actual[i][d]
    BY <2>1
  <2>4. QED
    BY <2>2, <2>3 DEF BaselineFollowed
<1>4. SnapshotFollowed /\ BaselineIsLastReading /\ BatchOnlyWhenComputed
  BY DEF Init, SnapshotFollowed, BaselineIsLastReading, BatchOnlyWhenComputed, Nothing
<1>5. QED
  BY <1>1, <1>2, <1>3, <1>4 DEF IInv

\* Nothing the network does to a counter breaks the relation between it and
\* a reading taken before: it moves a byte, or it restarts from zero.
NetworkMove(c, c2, a, a2) ==
  \A d \in Dir : \/ c2[d] = c[d] /\ a2[d] = a[d]
                 \/ c2[d] = c[d] + 1 /\ a2[d] = a[d] + 1
                 \/ c2[d] = 0 /\ a2[d] = a[d]

LEMMA FollowsLater ==
  ASSUME NEW c \in Bytes, NEW c2 \in Bytes, NEW a \in Bytes, NEW a2 \in Bytes,
         NEW p \in Bytes, NEW b \in Bytes,
         Follows(c, p, a, b), NetworkMove(c, c2, a, a2)
  PROVE  Follows(c2, p, a2, b)
<1> SUFFICES ASSUME NEW d \in Dir
             PROVE  /\ b[d] <= a2[d]
                    /\ \/ c2[d] - p[d] = a2[d] - b[d]
                       \/ c2[d] <= a2[d] - b[d]
  BY DEF Follows
<1>1. /\ c[d] \in Nat /\ c2[d] \in Nat /\ a[d] \in Nat
      /\ a2[d] \in Nat /\ p[d] \in Nat /\ b[d] \in Nat
  BY DEF Bytes
<1>2. /\ b[d] <= a[d]
      /\ \/ c[d] - p[d] = a[d] - b[d]
         \/ c[d] <= a[d] - b[d]
  BY DEF Follows
<1>3. QED
  BY <1>1, <1>2 DEF NetworkMove

\* Every step of the network is of that kind for every interface.
NetworkStep ==
  /\ counter' \in [Interfaces -> Bytes]
  /\ actual' \in [Interfaces -> Bytes]
  /\ \A i \in Interfaces :
       NetworkMove(counter[i], counter'[i], actual[i], actual'[i])

LEMMA TransferIsNetworkStep ==
  ASSUME TypeOK, NEW i \in Interfaces, NEW d \in Dir, Transfer(i, d)
  PROVE  NetworkStep
BY DEF TypeOK, Bytes, Transfer, NetworkStep, NetworkMove

LEMMA ResetIsNetworkStep ==
  ASSUME TypeOK, NEW i \in Interfaces, ResetCounters(i)
  PROVE  NetworkStep
BY DEF TypeOK, Bytes, Zero, ResetCounters, NetworkStep, NetworkMove

\* The network preserves the invariant.
LEMMA NetworkPreserves ==
  ASSUME IInv, NetworkStep, UNCHANGED <<clock, loopVars, dbVars, ghostVars>>
  PROVE  IInv'
<1> USE DEF loopVars, dbVars, ghostVars
<1>0. \A i \in Interfaces :
        /\ counter[i] \in Bytes /\ counter'[i] \in Bytes
        /\ actual[i] \in Bytes /\ actual'[i] \in Bytes
        /\ NetworkMove(counter[i], counter'[i], actual[i], actual'[i])
  BY DEF IInv, TypeOK, NetworkStep
<1>1. TypeOK'
  BY DEF IInv, TypeOK, NetworkStep
<1>2. EveryByteAccountedFor'
  BY DEF IInv, EveryByteAccountedFor, BytesOf
<1>3. BaselineFollowed'
  <2>1. ASSUME NEW i \in Interfaces, NEW d \in Dir
        PROVE  base'[i][d] <= actual'[i][d]
    <3>1. base[i][d] \in Nat /\ actual[i][d] \in Nat
      BY DEF IInv, TypeOK, Bytes
    <3>2. base[i][d] <= actual[i][d]
      BY DEF IInv, BaselineFollowed
    <3>3. actual'[i][d] = actual[i][d] \/ actual'[i][d] = actual[i][d] + 1
      BY DEF NetworkStep, NetworkMove
    <3>4. QED
      BY <3>1, <3>2, <3>3
  <2>2. ASSUME NEW i \in Interfaces, previous'[i] # None
        PROVE  Follows(counter'[i], previous'[i], actual'[i], base'[i])
    <3>1. previous[i] \in Bytes
      BY <2>2 DEF IInv, TypeOK
    <3>2. Follows(counter[i], previous[i], actual[i], base[i])
      BY <2>2 DEF IInv, BaselineFollowed
    <3>3. base[i] \in Bytes
      BY DEF IInv, TypeOK
    <3>4. QED
      BY <1>0, <3>1, <3>2, <3>3, FollowsLater
  <2>3. QED
    BY <2>1, <2>2 DEF BaselineFollowed
<1>4. SnapshotFollowed'
  <2> SUFFICES ASSUME NEW i \in Interfaces, rows[i] # None
               PROVE  Follows(counter'[i], rows[i], actual'[i], seen[i])
    BY DEF IInv, SnapshotFollowed
  <2>1. rows[i] \in Bytes /\ seen[i] \in Bytes
    BY DEF IInv, TypeOK
  <2>2. Follows(counter[i], rows[i], actual[i], seen[i])
    BY DEF IInv, SnapshotFollowed
  <2>3. QED
    BY <1>0, <2>1, <2>2, FollowsLater
<1>5. BaselineIsLastReading' /\ BatchOnlyWhenComputed'
  BY DEF IInv, BaselineIsLastReading, BatchOnlyWhenComputed
<1>6. QED
  BY <1>1, <1>2, <1>3, <1>4, <1>5 DEF IInv

-----------------------------------------------------------------------------
\* Steps that touch neither counters nor bytes.
LEMMA Untouched ==
  ASSUME IInv,
         UNCHANGED <<counter, actual, rows, batch, previous, recorded, seen,
                     base, shown, excused>>
  PROVE  /\ EveryByteAccountedFor' /\ BaselineFollowed' /\ SnapshotFollowed'
         /\ BaselineIsLastReading'
<1>1. EveryByteAccountedFor'
  BY DEF IInv, EveryByteAccountedFor
<1>2. BaselineFollowed'
  BY DEF IInv, BaselineFollowed
<1>3. SnapshotFollowed' /\ BaselineIsLastReading'
  BY DEF IInv, SnapshotFollowed, BaselineIsLastReading
<1>4. QED
  BY <1>1, <1>2, <1>3

LEMMA QuietPreserves ==
  ASSUME IInv,
         \/ Tick
         \/ \E t \in 1..MaxClock : SetClock(t)
         \/ Start
         \/ \E n \in PollIntervals : SetInterval(n)
         \/ SyncInterfaces
  PROVE  IInv'
<1> USE DEF envVars, loopVars, dbVars, ghostVars
<1>1. CASE Tick
  <2>1. TypeOK'
    BY <1>1 DEF IInv, TypeOK, Tick
  <2>2. QED
    BY <1>1, <2>1, Untouched DEF Tick, IInv, BatchOnlyWhenComputed
<1>2. ASSUME NEW t \in 1..MaxClock, SetClock(t)
      PROVE  IInv'
  <2>1. TypeOK'
    BY <1>2 DEF IInv, TypeOK, SetClock
  <2>2. QED
    BY <1>2, <2>1, Untouched DEF SetClock, IInv, BatchOnlyWhenComputed
<1>3. CASE Start
  <2>1. TypeOK'
    BY <1>3, CollectorAssumption DEF IInv, TypeOK, Start, LoopStates
  <2>2. QED
    BY <1>3, <2>1, Untouched DEF Start, IInv, BatchOnlyWhenComputed
<1>4. ASSUME NEW n \in PollIntervals, SetInterval(n)
      PROVE  IInv'
  <2>1. TypeOK'
    BY <1>4 DEF IInv, TypeOK, SetInterval
  <2>2. QED
    BY <1>4, <2>1, Untouched DEF SetInterval, IInv, BatchOnlyWhenComputed
<1>5. CASE SyncInterfaces
  <2>1. TypeOK'
    BY <1>5 DEF IInv, TypeOK, SyncInterfaces, LoopStates
  <2>2. QED
    BY <1>5, <2>1, Untouched DEF SyncInterfaces, IInv, BatchOnlyWhenComputed
<1>6. QED
  BY <1>1, <1>2, <1>3, <1>4, <1>5

\* A reading follows itself.
LEMMA FollowsItself ==
  ASSUME NEW c \in Bytes, NEW a \in Bytes
  PROVE  Follows(c, c, a, a)
BY DEF Follows, Bytes

LEMMA SnapshotPreserves ==
  ASSUME IInv, NEW visible \in SUBSET Interfaces, TakeSnapshot(visible)
  PROVE  IInv'
<1> USE DEF envVars, dbVars
<1>1. TypeOK'
  <2>1. interval \in Nat \ {0} /\ lastPoll \in Nat /\ clock \in Nat
    BY CollectorAssumption DEF IInv, TypeOK
  <2>2. AllowedDelta(ObservedInterval(lastPoll, clock, interval), interval) \in Nat
    BY <2>1, AllowedDeltaNat
  <2>3. poll' \in [ts : Nat, allowed : Nat]
    BY <2>1, <2>2 DEF TakeSnapshot
  <2>4. /\ rows' \in [Interfaces -> Bytes \cup {None}]
        /\ seen' \in [Interfaces -> Bytes]
    BY DEF IInv, TypeOK, TakeSnapshot
  <2>5. QED
    BY <2>3, <2>4 DEF IInv, TypeOK, TakeSnapshot, LoopStates
<1>2. EveryByteAccountedFor'
  BY DEF IInv, EveryByteAccountedFor, TakeSnapshot
<1>3. BaselineFollowed'
  BY DEF IInv, BaselineFollowed, TakeSnapshot
<1>4. SnapshotFollowed'
  <2> SUFFICES ASSUME NEW i \in Interfaces, rows'[i] # None
      PROVE  /\ Follows(counter[i], rows'[i], actual[i], seen'[i])
             /\ \A d \in Dir : base[i][d] <= seen'[i][d]
             /\ previous[i] # None => Follows(rows'[i], previous[i], seen'[i], base[i])
    BY DEF SnapshotFollowed, TakeSnapshot
  <2>1. rows'[i] = counter[i] /\ seen'[i] = actual[i]
    BY DEF TakeSnapshot
  <2>2. Follows(counter[i], counter[i], actual[i], actual[i])
    BY FollowsItself DEF IInv, TypeOK
  <2>3. QED
    BY <2>1, <2>2 DEF IInv, BaselineFollowed
<1>5. BaselineIsLastReading' /\ BatchOnlyWhenComputed'
  BY DEF IInv, BaselineIsLastReading, BatchOnlyWhenComputed, TakeSnapshot
<1>6. QED
  BY <1>1, <1>2, <1>3, <1>4, <1>5 DEF IInv

\* Leaving a poll forgets its snapshot and its batch.
LEMMA Forgotten ==
  ASSUME IInv, ForgetPoll, UNCHANGED <<counter, actual, base>>,
         \/ UNCHANGED <<previous, shown>>
         \/ previous' = Nothing /\ shown' = Nothing
  PROVE  /\ BaselineFollowed' /\ SnapshotFollowed'
         /\ BaselineIsLastReading' /\ BatchOnlyWhenComputed'
<1>1. BaselineFollowed'
  BY DEF IInv, BaselineFollowed, Nothing
<1>2. SnapshotFollowed'
  BY DEF ForgetPoll, SnapshotFollowed, Nothing
<1>3. BaselineIsLastReading' /\ BatchOnlyWhenComputed'
  BY DEF IInv, ForgetPoll, BaselineIsLastReading, BatchOnlyWhenComputed
<1>4. QED
  BY <1>1, <1>2, <1>3

LEMMA FailedPollPreserves ==
  ASSUME IInv, SnapshotFails \/ SyncFails
  PROVE  IInv'
<1>1. /\ daemon # "computed"
      /\ EndPoll
      /\ UNCHANGED <<envVars, interval, lastPoll, previous, dbVars, base,
                     shown, baseTs, excused>>
  BY DEF SnapshotFails, SyncFails
<1> USE <1>1 DEF EndPoll, envVars, dbVars
<1>2. TypeOK'
  BY ForgottenType, CollectorAssumption DEF IInv, TypeOK, LoopStates
<1>3. EveryByteAccountedFor'
  <2>1. batch = Nothing /\ batch' = Nothing
    BY DEF IInv, BatchOnlyWhenComputed, ForgetPoll
  <2>2. QED
    BY <2>1 DEF IInv, EveryByteAccountedFor
<1>4. BaselineFollowed' /\ SnapshotFollowed' /\ BaselineIsLastReading'
      /\ BatchOnlyWhenComputed'
  BY Forgotten
<1>5. QED
  BY <1>2, <1>3, <1>4 DEF IInv

\* DeltaEngine::compute: the baseline moves to the snapshot, and the bytes in
\* between are emitted or given up.
LEMMA ComputePreserves ==
  ASSUME IInv, ComputeDeltas
  PROVE  IInv'
<1> USE DEF envVars, dbVars
<1>1. \A i \in Interfaces, d \in Dir : Excuse(i, d) \in Nat
  BY ExcuseBalances DEF Excuse
<1>2. TypeOK'
  <2>1. batch' \in [Interfaces -> Bytes \cup {None}]
    BY EmittedType DEF IInv, ComputeDeltas
  <2>2. /\ previous' \in [Interfaces -> Bytes \cup {None}]
        /\ shown' \in [Interfaces -> Bytes \cup {None}]
    BY DEF IInv, TypeOK, ComputeDeltas, Baseline
  <2>3. base' \in [Interfaces -> Bytes]
    BY DEF IInv, TypeOK, ComputeDeltas
  <2>4. excused' \in [Interfaces -> Bytes]
    <3>1. \A i \in Interfaces, d \in Dir : excused[i][d] + Excuse(i, d) \in Nat
      BY <1>1 DEF IInv, TypeOK, Bytes
    <3>2. QED
      BY <3>1 DEF ComputeDeltas, Bytes
  <2>5. QED
    BY <2>1, <2>2, <2>3, <2>4 DEF IInv, TypeOK, ComputeDeltas, LoopStates
<1>3. EveryByteAccountedFor'
  <2> SUFFICES ASSUME NEW i \in Interfaces, NEW d \in Dir
      PROVE  recorded[i][d] + BytesOf(batch'[i], d) + excused'[i][d] = base'[i][d]
    BY DEF EveryByteAccountedFor, ComputeDeltas
  <2>1. recorded[i][d] \in Nat /\ excused[i][d] \in Nat /\ base[i][d] \in Nat
        /\ seen[i][d] \in Nat
    BY DEF IInv, TypeOK, Bytes
  <2>2. recorded[i][d] + excused[i][d] = base[i][d]
    <3>1. batch[i] = None
      BY DEF IInv, BatchOnlyWhenComputed, ComputeDeltas, Nothing
    <3>2. recorded[i][d] + BytesOf(batch[i], d) + excused[i][d] = base[i][d]
      BY DEF IInv, EveryByteAccountedFor
    <3>3. BytesOf(batch[i], d) = 0
      BY <3>1 DEF BytesOf
    <3>4. QED
      BY <2>1, <3>2, <3>3
  <2>3. batch'[i] = Emitted(i) /\ excused'[i][d] = excused[i][d] + Excuse(i, d)
    BY DEF ComputeDeltas
  <2>4. CASE rows[i] = None
    <3>1. Emitted(i) = None /\ Excuse(i, d) = 0 /\ base'[i] = base[i]
      BY <2>4 DEF Emitted, Excuse, ComputeDeltas
    <3>2. BytesOf(batch'[i], d) = 0
      BY <2>3, <3>1 DEF BytesOf
    <3>3. QED
      BY <2>1, <2>2, <2>3, <3>1, <3>2
  <2>5. CASE rows[i] # None
    <3>1. BytesOf(Emitted(i), d) + Excuse(i, d) = Moved(i, d)
      BY <2>5, ExcuseBalances
    <3>2. base'[i] = seen[i]
      BY <2>5 DEF ComputeDeltas
    <3>3. BytesOf(Emitted(i), d) \in Nat
      BY EmittedType, BytesOfType DEF IInv
    <3>4. Moved(i, d) = seen[i][d] - base[i][d]
      BY DEF Moved
    <3>5. QED
      BY <1>1, <2>1, <2>2, <2>3, <3>1, <3>2, <3>3, <3>4
  <2>6. QED
    BY <2>4, <2>5
<1>4. BaselineFollowed'
  <2> SUFFICES ASSUME NEW i \in Interfaces
      PROVE  /\ \A d \in Dir : base'[i][d] <= actual[i][d]
             /\ previous'[i] # None =>
                  Follows(counter[i], previous'[i], actual[i], base'[i])
    BY DEF BaselineFollowed, ComputeDeltas
  <2>1. CASE rows[i] = None
    BY <2>1 DEF IInv, BaselineFollowed, ComputeDeltas, Baseline
  <2>2. CASE rows[i] # None
    <3>1. previous'[i] = rows[i] /\ base'[i] = seen[i]
      BY <2>2 DEF ComputeDeltas, Baseline
    <3>2. Follows(counter[i], rows[i], actual[i], seen[i])
      BY <2>2 DEF IInv, SnapshotFollowed
    <3>3. \A d \in Dir : seen[i][d] <= actual[i][d]
      BY <3>2 DEF Follows
    <3>4. QED
      BY <3>1, <3>2, <3>3
  <2>3. QED
    BY <2>1, <2>2
<1>5. SnapshotFollowed'
  <2> SUFFICES ASSUME NEW i \in Interfaces, rows[i] # None
      PROVE  /\ Follows(counter[i], rows[i], actual[i], seen[i])
             /\ \A d \in Dir : base'[i][d] <= seen[i][d]
             /\ Follows(rows[i], previous'[i], seen[i], base'[i])
    BY DEF SnapshotFollowed, ComputeDeltas
  <2>1. previous'[i] = rows[i] /\ base'[i] = seen[i]
    BY DEF ComputeDeltas, Baseline
  <2>2. rows[i] \in Bytes /\ seen[i] \in Bytes
    BY DEF IInv, TypeOK
  <2>3. Follows(rows[i], rows[i], seen[i], seen[i])
    BY <2>2, FollowsItself
  <2>4. \A d \in Dir : seen[i][d] <= seen[i][d]
    BY <2>3 DEF Follows
  <2>5. QED
    BY <2>1, <2>3, <2>4 DEF IInv, SnapshotFollowed
<1>6. BaselineIsLastReading' /\ BatchOnlyWhenComputed'
  BY DEF IInv, BaselineIsLastReading, BatchOnlyWhenComputed, ComputeDeltas, Baseline
<1>7. QED
  BY <1>2, <1>3, <1>4, <1>5, <1>6 DEF IInv

\* A batch that is given up, by a failed insert or a crash, is excused.
LEMMA GivenUpAccounted ==
  ASSUME IInv, GiveUpBatch, ForgetPoll, UNCHANGED <<recorded, base>>
  PROVE  EveryByteAccountedFor'
<1> SUFFICES ASSUME NEW i \in Interfaces, NEW d \in Dir
    PROVE  recorded[i][d] + BytesOf(batch'[i], d) + excused'[i][d] = base[i][d]
  BY DEF EveryByteAccountedFor
<1>1. recorded[i][d] \in Nat /\ excused[i][d] \in Nat /\ base[i][d] \in Nat
  BY DEF IInv, TypeOK, Bytes
<1>2. BytesOf(batch[i], d) \in Nat
  BY BytesOfType DEF IInv, TypeOK
<1>3. recorded[i][d] + BytesOf(batch[i], d) + excused[i][d] = base[i][d]
  BY DEF IInv, EveryByteAccountedFor
<1>4. excused'[i][d] = excused[i][d] + BytesOf(batch[i], d)
  BY DEF GiveUpBatch
<1>5. BytesOf(batch'[i], d) = 0
  BY DEF ForgetPoll, Nothing, BytesOf
<1>6. QED
  BY <1>1, <1>2, <1>3, <1>4, <1>5

LEMMA InsertPreserves ==
  ASSUME IInv, InsertDeltas
  PROVE  IInv'
<1> USE DEF envVars, EndPoll
<1>1. \A i \in Interfaces, d \in Dir :
        /\ recorded[i][d] \in Nat /\ excused[i][d] \in Nat
        /\ BytesOf(batch[i], d) \in Nat
        /\ recorded'[i][d] = recorded[i][d] + BytesOf(batch[i], d)
  BY BytesOfType DEF IInv, TypeOK, Bytes, InsertDeltas
<1>2. TypeOK'
  <2>1. recorded' \in [Interfaces -> Bytes]
    BY <1>1 DEF InsertDeltas, Bytes
  <2>2. poll.ts \in Nat
    BY DEF IInv, TypeOK
  <2>3. stamped' \subseteq Nat \X Interfaces
    BY <2>2 DEF IInv, TypeOK, InsertDeltas, Keys, Pending
  <2>4. baseTs' \in [Interfaces -> Nat]
    BY <2>2 DEF IInv, TypeOK, InsertDeltas, BaselineTimes
  <2>5. /\ poll' \in [ts : Nat, allowed : Nat]
        /\ rows' \in [Interfaces -> Bytes \cup {None}]
        /\ batch' \in [Interfaces -> Bytes \cup {None}]
        /\ seen' \in [Interfaces -> Bytes]
    BY ForgottenType DEF IInv, InsertDeltas
  <2>6. interval \in Nat
    BY CollectorAssumption DEF IInv, TypeOK
  <2>7. QED
    BY <2>1, <2>2, <2>3, <2>4, <2>5, <2>6 DEF IInv, TypeOK, InsertDeltas, LoopStates
<1>3. EveryByteAccountedFor'
  <2> SUFFICES ASSUME NEW i \in Interfaces, NEW d \in Dir
      PROVE  recorded'[i][d] + BytesOf(batch'[i], d) + excused[i][d] = base[i][d]
    BY DEF EveryByteAccountedFor, InsertDeltas
  <2>1. recorded[i][d] + BytesOf(batch[i], d) + excused[i][d] = base[i][d]
    BY DEF IInv, EveryByteAccountedFor
  <2>2. BytesOf(batch'[i], d) = 0
    BY DEF InsertDeltas, ForgetPoll, Nothing, BytesOf
  <2>3. base[i][d] \in Nat
    BY DEF IInv, TypeOK, Bytes
  <2>4. QED
    BY <1>1, <2>1, <2>2, <2>3
<1>4. BaselineFollowed' /\ SnapshotFollowed' /\ BaselineIsLastReading'
      /\ BatchOnlyWhenComputed'
  BY Forgotten DEF InsertDeltas
<1>5. QED
  BY <1>2, <1>3, <1>4 DEF IInv

LEMMA InsertFailsPreserves ==
  ASSUME IInv, InsertFails
  PROVE  IInv'
<1> USE DEF envVars, dbVars, EndPoll
<1>1. TypeOK'
  <2>1. excused' \in [Interfaces -> Bytes]
    BY GivenUpType DEF IInv, InsertFails
  <2>2. baseTs' \in [Interfaces -> Nat]
    <3>1. poll.ts \in Nat
      BY DEF IInv, TypeOK
    <3>2. QED
      BY <3>1 DEF IInv, TypeOK, InsertFails, BaselineTimes
  <2>3. /\ poll' \in [ts : Nat, allowed : Nat]
        /\ rows' \in [Interfaces -> Bytes \cup {None}]
        /\ batch' \in [Interfaces -> Bytes \cup {None}]
        /\ seen' \in [Interfaces -> Bytes]
    BY ForgottenType DEF IInv, InsertFails
  <2>4. interval \in Nat
    BY CollectorAssumption DEF IInv, TypeOK
  <2>5. QED
    BY <2>1, <2>2, <2>3, <2>4 DEF IInv, TypeOK, InsertFails, LoopStates
<1>2. EveryByteAccountedFor'
  BY GivenUpAccounted DEF InsertFails
<1>3. BaselineFollowed' /\ SnapshotFollowed' /\ BaselineIsLastReading'
      /\ BatchOnlyWhenComputed'
  BY Forgotten DEF InsertFails
<1>4. QED
  BY <1>1, <1>2, <1>3 DEF IInv

LEMMA CrashPreserves ==
  ASSUME IInv, Crash
  PROVE  IInv'
<1> USE DEF envVars, dbVars
<1>1. TypeOK'
  <2>1. excused' \in [Interfaces -> Bytes]
    BY GivenUpType DEF IInv, Crash
  <2>2. /\ poll' \in [ts : Nat, allowed : Nat]
        /\ rows' \in [Interfaces -> Bytes \cup {None}]
        /\ batch' \in [Interfaces -> Bytes \cup {None}]
        /\ seen' \in [Interfaces -> Bytes]
    BY ForgottenType DEF IInv, Crash
  <2>3. /\ previous' \in [Interfaces -> Bytes \cup {None}]
        /\ shown' \in [Interfaces -> Bytes \cup {None}]
    BY DEF Crash, Nothing
  <2>4. QED
    BY <2>1, <2>2, <2>3 DEF IInv, TypeOK, Crash, LoopStates
<1>2. EveryByteAccountedFor'
  BY GivenUpAccounted DEF Crash
<1>3. BaselineFollowed' /\ SnapshotFollowed' /\ BaselineIsLastReading'
      /\ BatchOnlyWhenComputed'
  BY Forgotten DEF Crash
<1>4. QED
  BY <1>1, <1>2, <1>3 DEF IInv

-----------------------------------------------------------------------------
\* The invariant is inductive: it holds at first and every step keeps it.
LEMMA StepPreserves ==
  ASSUME IInv, [Next]_vars
  PROVE  IInv'
<1>1. CASE Traffic
  <2>1. ASSUME NEW i \in Interfaces, NEW d \in Dir, Transfer(i, d)
        PROVE  IInv'
    <3>1. NetworkStep
      BY <2>1, TransferIsNetworkStep DEF IInv
    <3>2. QED
      BY <2>1, <3>1, NetworkPreserves DEF Transfer
  <2>2. ASSUME NEW i \in Interfaces, ResetCounters(i)
        PROVE  IInv'
    <3>1. NetworkStep
      BY <2>2, ResetIsNetworkStep DEF IInv
    <3>2. QED
      BY <2>2, <3>1, NetworkPreserves DEF ResetCounters
  <2>3. QED
    BY <1>1, <2>1, <2>2 DEF Traffic
<1>2. CASE \/ Tick
           \/ \E t \in 1..MaxClock : SetClock(t)
           \/ Start
           \/ \E n \in PollIntervals : SetInterval(n)
  BY <1>2, QuietPreserves
<1>3. CASE Crash
  BY <1>3, CrashPreserves
<1>4. CASE Poll
  BY <1>4, SnapshotPreserves, FailedPollPreserves, QuietPreserves,
     ComputePreserves, InsertPreserves, InsertFailsPreserves DEF Poll
<1>5. CASE UNCHANGED vars
  <2>1. TypeOK'
    BY <1>5 DEF IInv, TypeOK, vars, envVars, loopVars, dbVars, ghostVars
  <2>2. QED
    BY <1>5, <2>1, Untouched
    DEF IInv, BatchOnlyWhenComputed, vars, envVars, loopVars, dbVars, ghostVars
<1>6. QED
  BY <1>1, <1>2, <1>3, <1>4, <1>5 DEF Next

\* Every reachable state satisfies the inductive invariant, its type
\* invariant included.
THEOREM InvariantHolds == Spec => []IInv
<1>1. Init => IInv
  BY InitIInv
<1>2. IInv /\ [Next]_vars => IInv'
  BY StepPreserves
<1>3. QED
  BY <1>1, <1>2, PTL DEF Spec

THEOREM TypeCorrect == Spec => []TypeOK
<1>1. IInv => TypeOK
  BY DEF IInv
<1>2. QED
  BY <1>1, InvariantHolds, PTL

\* No byte is lost silently by the poll loop.
THEOREM AllBytesAccountedFor == Spec => []EveryByteAccountedFor
<1>1. IInv => EveryByteAccountedFor
  BY DEF IInv
<1>2. QED
  BY <1>1, InvariantHolds, PTL

\* No byte is counted twice or invented, whatever is reset, fails or dies.
THEOREM NoOvercount == Spec => []NeverOvercounts
<1>1. IInv => NeverOvercounts
  <2> SUFFICES ASSUME IInv, NEW i \in Interfaces, NEW d \in Dir
               PROVE  recorded[i][d] <= actual[i][d]
    BY DEF NeverOvercounts
  <2>1. recorded[i][d] \in Nat /\ excused[i][d] \in Nat
        /\ base[i][d] \in Nat /\ actual[i][d] \in Nat
    BY DEF IInv, TypeOK, Bytes
  <2>2. BytesOf(batch[i], d) \in Nat
    BY BytesOfType DEF IInv, TypeOK
  <2>3. recorded[i][d] + BytesOf(batch[i], d) + excused[i][d] = base[i][d]
    BY DEF IInv, EveryByteAccountedFor
  <2>4. base[i][d] <= actual[i][d]
    BY DEF IInv, BaselineFollowed
  <2>5. QED
    BY <2>1, <2>2, <2>3, <2>4
<1>2. QED
  BY <1>1, InvariantHolds, PTL

-----------------------------------------------------------------------------
(***************************************************************************)
(* A machine left alone.                                                   *)
(***************************************************************************)

\* More time, more budget.
LEMMA AllowedGrows ==
  ASSUME NEW s \in Nat, NEW t \in Nat, s <= t, NEW nominal \in Nat \ {0}
  PROVE  /\ AllowedDelta(s, nominal) \in Int /\ AllowedDelta(t, nominal) \in Int
         /\ AllowedDelta(s, nominal) <= AllowedDelta(t, nominal)
<1> DEFINE a == MaxDeltaBytes * s
           b == MaxDeltaBytes * t
<1>1. MaxDeltaBytes \in Nat
  BY CollectorAssumption
<1>2. a \in Nat /\ b \in Nat /\ a <= b
  <2>1. b = a + MaxDeltaBytes * (t - s) /\ MaxDeltaBytes * (t - s) \in Nat
    BY <1>1
  <2>2. a \in Nat /\ b \in Nat
    BY <1>1
  <2> HIDE DEF a, b
  <2>3. QED
    BY <2>1, <2>2
<1> HIDE DEF a, b
<1> DEFINE p == (a + nominal - 1) \div nominal
           q == (b + nominal - 1) \div nominal
<1>3. /\ p \in Int /\ q \in Int /\ p * nominal \in Int /\ q * nominal \in Int
      /\ p * nominal <= a + nominal - 1
      /\ b + nominal - 1 < q * nominal + nominal
  BY <1>2
<1>4. AllowedDelta(s, nominal) = p /\ AllowedDelta(t, nominal) = q
  BY DEF AllowedDelta, a, b
<1> HIDE DEF p, q
<1>5. p * nominal < q * nominal + nominal
  BY <1>2, <1>3
<1>6. ASSUME q < p PROVE FALSE
  <2>1. p = q + 1 + (p - q - 1) /\ p - q - 1 \in Nat
    BY <1>3, <1>6
  <2>2. p * nominal = q * nominal + nominal + (p - q - 1) * nominal
        /\ (p - q - 1) * nominal \in Nat
    BY <1>3, <2>1
  <2>3. QED
    BY <1>3, <1>5, <2>2
<1>7. p <= q
  BY <1>3, <1>6
<1>8. QED
  BY <1>3, <1>4, <1>7

LEMMA MCStep == ASSUME [AloneNext \/ WildNext]_mcVars PROVE [Next]_vars /\ leftAlone' = leftAlone
BY DEF AloneNext, WildNext, mcVars, Next

LEMMA RunIsCollector == MCSpec => Spec /\ [](IInv /\ leftAlone \in BOOLEAN)
<1>1. MCInit => Init /\ leftAlone \in BOOLEAN
  BY DEF MCInit
<1>2. [AloneNext \/ WildNext]_mcVars => [Next]_vars /\ leftAlone' = leftAlone
  BY MCStep
<1>3. leftAlone \in BOOLEAN /\ leftAlone' = leftAlone => (leftAlone \in BOOLEAN)'
  OBVIOUS
<1>4. QED
  BY <1>1, <1>2, <1>3, InvariantHolds, PTL DEF MCSpec, Spec

LEMMA AloneSteps ==
  ASSUME leftAlone, [AloneNext \/ WildNext]_mcVars
  PROVE  \/ UNCHANGED vars
         \/ Traffic
         \/ Tick
         \/ Start
         \/ Crash
         \/ \E visible \in SUBSET Interfaces : TakeSnapshot(visible)
         \/ SnapshotFails \/ SyncInterfaces \/ SyncFails \/ ComputeDeltas \/ InsertDeltas
BY DEF AloneNext, WildNext, mcVars, Poll

LEMMA AloneInit == ASSUME MCInit PROVE AloneInv
<1>1. /\ clock = 1 /\ daemon = "down" /\ interval = DefaultInterval /\ lastPoll = 0
      /\ previous = Nothing /\ baseTs = [i \in Interfaces |-> 0]
  BY DEF MCInit, Init
<1>2. ClockIsAhead
  BY <1>1 DEF ClockIsAhead, InPoll
<1>3. BudgetOfInterval
  BY <1>1 DEF BudgetOfInterval, InPoll
<1>4. BaselinesOfPolls
  BY <1>1 DEF BaselinesOfPolls
<1>5. BatchInBudget
  BY <1>1 DEF BatchInBudget
<1>6. QED
  BY <1>2, <1>3, <1>4, <1>5 DEF AloneInv

LEMMA Later ==
  ASSUME NEW t \in Nat, NEW a \in Nat, NEW b \in Nat, NEW c \in Int, NEW d \in Int,
         t < a + b, c + d >= a + b
  PROVE  t < c + d
OBVIOUS

LEMMA AlonePreserves ==
  ASSUME IInv, AloneInv, [AloneNext \/ WildNext]_mcVars
  PROVE  AloneInv'
<1> SUFFICES ASSUME leftAlone
             PROVE  ClockIsAhead' /\ BudgetOfInterval' /\ BaselinesOfPolls' /\ BatchInBudget'
  BY MCStep DEF AloneInv
<1> DEFINE Goal == ClockIsAhead' /\ BudgetOfInterval' /\ BaselinesOfPolls' /\ BatchInBudget'
<1>1. ClockIsAhead /\ BudgetOfInterval /\ BaselinesOfPolls /\ BatchInBudget
  BY DEF AloneInv
<1>2. /\ clock \in Nat /\ sleepLeft \in Nat /\ interval \in Nat \ {0} /\ lastPoll \in Nat
      /\ poll.ts \in Nat /\ \A i \in Interfaces : baseTs[i] \in Nat
  BY CollectorAssumption DEF IInv, TypeOK
<1>3. CASE UNCHANGED vars
  BY <1>1, <1>3 DEF ClockIsAhead, BudgetOfInterval, BaselinesOfPolls, BatchInBudget, InPoll,
     vars, envVars, loopVars, dbVars, ghostVars
<1>4. CASE Traffic
  <2>1. UNCHANGED <<clock, loopVars, dbVars, ghostVars>>
    BY <1>4 DEF Traffic, Transfer, ResetCounters
  <2>2. QED
    BY <1>1, <2>1 DEF ClockIsAhead, BudgetOfInterval, BaselinesOfPolls, BatchInBudget, InPoll,
       loopVars, dbVars, ghostVars
<1>5. CASE Tick
  <2>1. /\ clock' = clock + 1 /\ clock' + sleepLeft' >= clock + sleepLeft
        /\ UNCHANGED <<daemon, interval, lastPoll, poll, previous, batch, baseTs>>
    BY <1>2, <1>5 DEF Tick, ghostVars
  <2>2. sleepLeft' \in Int /\ clock' \in Int
    BY <1>2, <1>5 DEF Tick
  <2>3. ClockIsAhead'
    <3>1. 1 <= clock'
      BY <1>1, <1>2, <2>1 DEF ClockIsAhead
    <3>2. daemon = "sleeping" => lastPoll = 0 \/ lastPoll < clock' + sleepLeft'
      <4>1. SUFFICES ASSUME daemon = "sleeping", lastPoll # 0
                     PROVE  lastPoll < clock' + sleepLeft'
        OBVIOUS
      <4>2. lastPoll < clock + sleepLeft
        BY <1>1, <4>1 DEF ClockIsAhead
      <4>3. QED
        BY <1>2, <2>1, <2>2, <4>2, Later
    <3>3. InPoll => 1 <= poll.ts /\ poll.ts <= clock' /\ (lastPoll = 0 \/ lastPoll < poll.ts)
      BY <1>1, <1>2, <2>1 DEF ClockIsAhead
    <3>4. InPoll' = InPoll
      BY <2>1 DEF InPoll
    <3>5. QED
      BY <2>1, <3>1, <3>2, <3>3, <3>4 DEF ClockIsAhead
  <2>4. BudgetOfInterval' /\ BaselinesOfPolls' /\ BatchInBudget'
    BY <1>1, <2>1 DEF BudgetOfInterval, BaselinesOfPolls, BatchInBudget, InPoll
  <2>5. QED
    BY <2>3, <2>4
<1>6. CASE Start
  <2>1. /\ daemon = "down" /\ daemon' = "sleeping" /\ interval' = DefaultInterval
        /\ UNCHANGED <<clock, sleepLeft, lastPoll, poll, previous, batch, baseTs>>
    BY <1>6 DEF Start, envVars, ghostVars
  <2>2. ClockIsAhead' /\ BudgetOfInterval'
    BY <1>1, <2>1 DEF ClockIsAhead, BudgetOfInterval, BaselinesOfPolls, InPoll
  <2>3. BaselinesOfPolls' /\ BatchInBudget'
    BY <1>1, <2>1 DEF BaselinesOfPolls, BatchInBudget
  <2>4. QED
    BY <2>2, <2>3
<1>7. CASE Crash
  <2>1. /\ daemon' = "down" /\ lastPoll' = 0 /\ previous' = Nothing
        /\ baseTs' = [i \in Interfaces |-> 0] /\ UNCHANGED <<clock, interval>>
    BY <1>7 DEF Crash, envVars
  <2>2. ClockIsAhead' /\ BudgetOfInterval'
    BY <1>1, <2>1 DEF ClockIsAhead, BudgetOfInterval, InPoll
  <2>3. BaselinesOfPolls' /\ BatchInBudget'
    BY <1>1, <2>1 DEF BaselinesOfPolls, BatchInBudget
  <2>4. QED
    BY <2>2, <2>3
<1>8. ASSUME NEW visible \in SUBSET Interfaces, TakeSnapshot(visible)
      PROVE  Goal
  <2>1. /\ daemon = "sleeping" /\ sleepLeft = 0 /\ daemon' = "snapped"
        /\ poll' = [ts |-> clock,
                    allowed |-> AllowedDelta(
                      ObservedInterval(lastPoll, clock, interval), interval)]
        /\ UNCHANGED <<clock, interval, lastPoll, previous, batch, baseTs>>
    BY <1>8 DEF TakeSnapshot, envVars
  <2>2. ClockIsAhead'
    <3>1. poll'.ts = clock
      BY <2>1
    <3>2. 1 <= clock /\ (lastPoll = 0 \/ lastPoll < clock)
      BY <1>1, <1>2, <2>1 DEF ClockIsAhead
    <3>3. QED
      BY <1>2, <2>1, <3>1, <3>2 DEF ClockIsAhead
  <2>3. BudgetOfInterval'
    BY <1>1, <2>1 DEF BudgetOfInterval, InPoll
  <2>4. BaselinesOfPolls' /\ BatchInBudget'
    BY <1>1, <2>1 DEF BaselinesOfPolls, BatchInBudget
  <2>5. QED
    BY <2>2, <2>3, <2>4
<1>9. CASE SnapshotFails
  <2>1. /\ daemon = "sleeping" /\ sleepLeft = 0 /\ daemon' = "sleeping"
        /\ sleepLeft' = interval
        /\ UNCHANGED <<clock, interval, lastPoll, previous, baseTs>>
    BY <1>9 DEF SnapshotFails, EndPoll, envVars
  <2>2. ClockIsAhead' /\ BudgetOfInterval'
    BY <1>1, <1>2, <2>1 DEF ClockIsAhead, BudgetOfInterval, InPoll
  <2>3. BaselinesOfPolls' /\ BatchInBudget'
    BY <1>1, <2>1 DEF BaselinesOfPolls, BatchInBudget
  <2>4. QED
    BY <2>2, <2>3
<1>10. CASE SyncInterfaces
  <2>1. /\ daemon = "snapped" /\ daemon' = "synced"
        /\ UNCHANGED <<clock, interval, lastPoll, poll, previous, batch, baseTs>>
    BY <1>10 DEF SyncInterfaces, envVars, ghostVars
  <2>2. ClockIsAhead' /\ BudgetOfInterval'
    BY <1>1, <2>1 DEF ClockIsAhead, BudgetOfInterval, InPoll
  <2>3. BaselinesOfPolls' /\ BatchInBudget'
    BY <1>1, <2>1 DEF BaselinesOfPolls, BatchInBudget
  <2>4. QED
    BY <2>2, <2>3
<1>11. CASE SyncFails
  <2>1. /\ daemon = "snapped" /\ daemon' = "sleeping" /\ sleepLeft' = interval
        /\ UNCHANGED <<clock, interval, lastPoll, previous, baseTs>>
    BY <1>11 DEF SyncFails, EndPoll, envVars
  <2>2. ClockIsAhead' /\ BudgetOfInterval'
    BY <1>1, <1>2, <2>1 DEF ClockIsAhead, BudgetOfInterval, InPoll
  <2>3. BaselinesOfPolls' /\ BatchInBudget'
    BY <1>1, <2>1 DEF BaselinesOfPolls, BatchInBudget
  <2>4. QED
    BY <2>2, <2>3
<1>12. CASE ComputeDeltas
  <2>1. /\ daemon = "synced" /\ daemon' = "computed"
        /\ batch' = [i \in Interfaces |-> Emitted(i)]
        /\ UNCHANGED <<clock, interval, lastPoll, poll, baseTs>>
    BY <1>12 DEF ComputeDeltas, envVars
  <2>2. ClockIsAhead' /\ BudgetOfInterval'
    BY <1>1, <2>1 DEF ClockIsAhead, BudgetOfInterval, InPoll
  <2>3. BaselinesOfPolls'
    BY <1>1, <2>1 DEF BaselinesOfPolls
  <2>4. ASSUME NEW i \in Interfaces, Emitted(i) # None
        PROVE  /\ lastPoll > 0
               /\ BytesOf(Emitted(i), "sent") + BytesOf(Emitted(i), "recv") <= poll.allowed
    <3>1. /\ Emitted(i) = DeltaOf(i) /\ previous[i] # None
          /\ DeltaOf(i)["sent"] + DeltaOf(i)["recv"] <= poll.allowed
      BY <2>4 DEF Emitted
    <3>2. lastPoll # 0
      BY <1>1, <2>1, <3>1 DEF BaselinesOfPolls, Nothing
    <3>3. QED
      BY <1>2, <2>4, <3>1, <3>2 DEF BytesOf
  <2>5. BatchInBudget'
    BY <2>1, <2>4 DEF BatchInBudget, BytesOf
  <2>6. QED
    BY <2>2, <2>3, <2>5
<1>13. CASE InsertDeltas
  <2>1. /\ daemon = "computed" /\ daemon' = "sleeping" /\ sleepLeft' = interval
        /\ lastPoll' = poll.ts /\ baseTs' = BaselineTimes
        /\ UNCHANGED <<clock, interval, previous>>
    BY <1>13 DEF InsertDeltas, EndPoll, envVars
  <2>2. ClockIsAhead' /\ BudgetOfInterval'
    BY <1>1, <1>2, <2>1 DEF ClockIsAhead, BudgetOfInterval, InPoll
  <2>3. BaselinesOfPolls'
    BY <1>1, <1>2, <2>1 DEF BaselinesOfPolls, ClockIsAhead, InPoll, BaselineTimes
  <2>4. BatchInBudget'
    BY <2>1 DEF BatchInBudget
  <2>5. QED
    BY <2>2, <2>3, <2>4
<1>14. QED
  BY <1>3, <1>4, <1>5, <1>6, <1>7, <1>8, <1>9, <1>10, <1>11, <1>12, <1>13, AloneSteps

LEMMA AloneStores ==
  ASSUME IInv, AloneInv, leftAlone, [AloneNext \/ WildNext]_mcVars
  PROVE  StoresFit
<1>1. SUFFICES ASSUME NEW i \in Interfaces, recorded'[i] # recorded[i]
               PROVE  BytesOf(batch[i], "sent") + BytesOf(batch[i], "recv")
                        <= AllowedDelta(poll.ts - baseTs[i], interval)
  BY DEF StoresFit
<1>2. InsertDeltas
  <2>1. ASSUME ~ InsertDeltas PROVE recorded' = recorded
    BY <2>1, AloneSteps DEF Traffic, Transfer, ResetCounters, Tick, Start, Crash, TakeSnapshot,
       SnapshotFails, SyncInterfaces, SyncFails, ComputeDeltas, dbVars, vars
  <2>2. QED
    BY <1>1, <2>1
<1>3. daemon = "computed" /\ recorded'[i] = [d \in Dir |-> recorded[i][d] + BytesOf(batch[i], d)]
  BY <1>2 DEF InsertDeltas
<1>4. batch[i] # None
  <2>1. SUFFICES ASSUME batch[i] = None PROVE FALSE
    OBVIOUS
  <2>2. recorded[i] \in [Dir -> Nat]
    BY DEF IInv, TypeOK, Bytes
  <2>3. \A d \in Dir : recorded[i][d] + BytesOf(batch[i], d) = recorded[i][d]
    BY <2>1, <2>2 DEF BytesOf
  <2>4. QED
    BY <1>1, <1>3, <2>2, <2>3
<1>5. /\ poll.ts \in Nat /\ baseTs[i] \in Nat /\ lastPoll \in Nat /\ interval \in Nat \ {0}
      /\ BytesOf(batch[i], "sent") \in Nat /\ BytesOf(batch[i], "recv") \in Nat
  BY CollectorAssumption, BytesOfType DEF IInv, TypeOK, Dir
<1>6. /\ lastPoll > 0 /\ lastPoll < poll.ts /\ baseTs[i] <= lastPoll
      /\ BytesOf(batch[i], "sent") + BytesOf(batch[i], "recv") <= poll.allowed
      /\ poll.allowed = AllowedDelta(ObservedInterval(lastPoll, poll.ts, interval), interval)
  BY <1>3, <1>4, <1>5 DEF AloneInv, ClockIsAhead, BudgetOfInterval, BaselinesOfPolls,
     BatchInBudget, InPoll
<1>7. ObservedInterval(lastPoll, poll.ts, interval) = poll.ts - lastPoll
  BY <1>5, <1>6 DEF ObservedInterval
<1>8. /\ poll.ts - lastPoll \in Nat /\ poll.ts - baseTs[i] \in Nat
      /\ poll.ts - lastPoll <= poll.ts - baseTs[i]
  BY <1>5, <1>6
<1>9. /\ AllowedDelta(poll.ts - lastPoll, interval) \in Int
      /\ AllowedDelta(poll.ts - baseTs[i], interval) \in Int
      /\ AllowedDelta(poll.ts - lastPoll, interval)
           <= AllowedDelta(poll.ts - baseTs[i], interval)
  BY <1>5, <1>8, AllowedGrows
<1>10. QED
  BY <1>5, <1>6, <1>7, <1>9

(***************************************************************************)
(* For any interfaces, budget, interval and clock: as long as clock,       *)
(* interval and inserts are left alone, a row that is stored fits the time *)
(* since its baseline, however many polls failed or missed its interface.  *)
(***************************************************************************)
THEOREM RowsFit == MCSpec => StoredRowsFitTheirWindow
<1>1. MCInit => AloneInv
  BY AloneInit
<1>2. IInv /\ AloneInv /\ [AloneNext \/ WildNext]_mcVars => AloneInv'
  BY AlonePreserves
<1>3. IInv /\ AloneInv /\ [AloneNext \/ WildNext]_mcVars => [leftAlone => StoresFit]_mcVars
  BY AloneStores
<1>4. MCSpec => []IInv
  BY RunIsCollector, PTL
<1>5. QED
  BY <1>1, <1>2, <1>3, <1>4, PTL DEF MCSpec, StoredRowsFitTheirWindow
=============================================================================
