----------------------------- MODULE UsageProofs -----------------------------
(***************************************************************************)
(* Proofs about UsageStore and Analytics, for any slots, windows, usage,   *)
(* retention and faults.                                                   *)
(***************************************************************************)
EXTENDS Analytics, SumTheorems, SequenceTheorems

-----------------------------------------------------------------------------
(***************************************************************************)
(* Hours, days and extreme values.                                         *)
(***************************************************************************)
LEMMA DivBounds ==
  ASSUME NEW n \in Int, NEW d \in Nat \ {0}
  PROVE  /\ n \div d \in Int
         /\ (n \div d) * d \in Int
         /\ (n \div d) * d <= n
         /\ n < (n \div d) * d + d
OBVIOUS

\* A multiple lies below a number exactly when its factor lies below the quotient.
LEMMA MultipleBelow ==
  ASSUME NEW n \in Int, NEW d \in Nat \ {0}, NEW k \in Int
  PROVE  k * d \in Int /\ (k * d <= n <=> k <= n \div d)
<1> DEFINE q == n \div d
<1>1. q \in Int /\ q * d \in Int /\ q * d <= n /\ n < q * d + d /\ k * d \in Int
  BY DivBounds
<1> HIDE DEF q
<1>2. ASSUME k <= q PROVE k * d <= n
  <2>1. k * d <= q * d
    BY <1>1, <1>2, TimesMonotone
  <2>2. QED
    BY <1>1, <2>1
<1>3. ASSUME ~ (k <= q) PROVE n < k * d
  <2>1. q + 1 <= k /\ q + 1 \in Int
    BY <1>1, <1>3
  <2>2. (q + 1) * d <= k * d
    BY <2>1, TimesMonotone
  <2>3. (q + 1) * d = q * d + d
    BY <1>1
  <2>4. QED
    BY <1>1, <2>2, <2>3
<1>4. QED
  BY <1>1, <1>2, <1>3 DEF q

LEMMA DivMonotone ==
  ASSUME NEW m \in Int, NEW n \in Int, NEW d \in Nat \ {0}, m <= n
  PROVE  m \div d <= n \div d
<1>1. m \div d \in Int /\ (m \div d) * d \in Int /\ (m \div d) * d <= m
  BY DivBounds
<1>2. (m \div d) * d <= n
  BY <1>1
<1>3. QED
  BY <1>1, <1>2, MultipleBelow

LEMMA HoursAndDays ==
  ASSUME NEW t \in Int
  PROVE  Hour(t) \in Int /\ Day(t) \in Int
<1>1. HourSlots \in Nat \ {0} /\ DayHours \in Nat \ {0}
  BY UsageAssumption
<1>2. Hour(t) \in Int
  BY <1>1, DivBounds DEF Hour
<1>3. Day(t) \in Int
  BY <1>1, <1>2, DivBounds DEF Day
<1>4. QED
  BY <1>2, <1>3

LEMMA HourBound ==
  ASSUME NEW t \in Int, NEW h \in Int
  PROVE  h * HourSlots \in Int /\ (h * HourSlots <= t <=> h <= Hour(t))
<1>1. HourSlots \in Nat \ {0}
  BY UsageAssumption
<1>2. QED
  BY <1>1, MultipleBelow DEF Hour

LEMMA DayBound ==
  ASSUME NEW t \in Int, NEW d \in Int
  PROVE  /\ d * DayHours * HourSlots <= t <=> d * DayHours <= Hour(t)
         /\ d * DayHours * HourSlots <= t <=> d <= Day(t)
<1>1. DayHours \in Nat \ {0} /\ Hour(t) \in Int
  BY UsageAssumption, HoursAndDays
<1>2. d * DayHours \in Int /\ (d * DayHours <= Hour(t) <=> d <= Day(t))
  BY <1>1, MultipleBelow DEF Day
<1>3. d * DayHours * HourSlots <= t <=> d * DayHours <= Hour(t)
  BY <1>2, HourBound
<1>4. QED
  BY <1>2, <1>3

LEMMA HoursPass ==
  ASSUME NEW s \in Int, NEW t \in Int, s <= t
  PROVE  Hour(s) <= Hour(t)
<1>1. HourSlots \in Nat \ {0}
  BY UsageAssumption
<1>2. QED
  BY <1>1, DivMonotone DEF Hour

\* The hour of a slot of the first hour on is not 0.
LEMMA HoursBegin ==
  ASSUME NEW t \in Int, HourSlots <= t
  PROVE  1 <= Hour(t)
<1>1. 1 * HourSlots <= t
  BY UsageAssumption
<1>2. QED
  BY <1>1, HourBound

LEMMA MinOfNats ==
  ASSUME NEW S \in SUBSET Nat, S # {}
  PROVE  Min(S) \in S /\ \A x \in S : Min(S) <= x
<1>1. PICK m \in S : TRUE
  OBVIOUS
<1> DEFINE D == 0 .. m
           Q == {0 .. x : x \in {y \in S : y <= m}}
<1>2. IsFiniteSet(D) /\ Q \subseteq SUBSET D /\ Q # {}
  <2>1. IsFiniteSet(0 .. m)
    BY <1>1, FS_Interval
  <2>2. QED
    BY <1>1, <2>1
<1>3. PICK T \in Q : \A U \in Q : U \subseteq T => U = T
  <2> HIDE DEF D, Q
  <2>1. QED
    BY <1>2, Smallest
<1>4. PICK x \in S : x <= m /\ T = 0 .. x
  BY <1>3
<1>5. ASSUME NEW y \in S, ~ (x <= y) PROVE FALSE
  <2>1. 0 .. y \in Q /\ 0 .. y \subseteq T
    BY <1>1, <1>4, <1>5
  <2>2. 0 .. y = T
    BY <1>3, <2>1
  <2>3. x \in 0 .. x
    BY <1>4
  <2>4. QED
    BY <1>4, <1>5, <2>2, <2>3
<1>6. QED
  BY <1>5 DEF Min

LEMMA MinOfTwo ==
  ASSUME NEW a \in Int, NEW b \in Int
  PROVE  /\ Min({a, b}) \in {a, b}
         /\ Min({a, b}) <= a /\ Min({a, b}) <= b
<1>1. \E x \in {a, b} : \A y \in {a, b} : x <= y
  OBVIOUS
<1>2. QED
  BY <1>1 DEF Min

LEMMA MaxOfTwo ==
  ASSUME NEW a \in Int, NEW b \in Int
  PROVE  /\ Max({a, b}) \in {a, b}
         /\ a <= Max({a, b}) /\ b <= Max({a, b})
<1>1. \E x \in {a, b} : \A y \in {a, b} : x >= y
  OBVIOUS
<1>2. QED
  BY <1>1 DEF Max

LEMMA MaxOfInterval ==
  ASSUME NEW a \in Int, NEW b \in Int, a .. b # {}
  PROVE  Max(a .. b) = b
<1>1. b \in a .. b /\ \A y \in a .. b : b >= y
  OBVIOUS
<1>2. QED
  BY <1>1 DEF Max

-----------------------------------------------------------------------------
(***************************************************************************)
(* Rows and what they add up to.                                           *)
(***************************************************************************)
LEMMA Constants ==
  /\ HourSlots \in Nat \ {0} /\ DayHours \in Nat \ {0} /\ Window \in Nat \ {0}
  /\ Span \in Nat \ {0} /\ Chunk \in Nat \ {0} /\ MaxTime \in Nat /\ MaxDays \in Nat
  /\ Installed \in Nat /\ HourSlots + Span <= Installed /\ Installed <= MaxTime
BY UsageAssumption

LEMMA BytesType ==
  ASSUME NEW r, r.ts \in Int, r.from \in Int
  PROVE  /\ Covered(r) \subseteq Int /\ IsFiniteSet(Covered(r))
         /\ \A slot \in Covered(r) : r.from < slot /\ slot <= r.ts
         /\ Bytes(r) \in Nat
         /\ Bytes(r) = 0 <=> Covered(r) \cap busy = {}
<1>1. IsFiniteSet(Covered(r))
  BY FS_Interval DEF Covered
<1>2. IsFiniteSet(Covered(r) \cap busy)
  BY <1>1, FS_Intersection
<1>3. Bytes(r) \in Nat /\ (Bytes(r) = 0 <=> Covered(r) \cap busy = {})
  BY <1>2, FS_CardinalityType, FS_EmptySet DEF Bytes
<1>4. QED
  BY <1>1, <1>3 DEF Covered

LEMMA BytesAddUp ==
  ASSUME NEW S, IsFiniteSet(S), S \subseteq Row
  PROVE  BytesOf(S) \in Nat
<1> DEFINE f == [r \in S |-> Bytes(r)]
<1>1. DOMAIN f = S /\ \A r \in S : f[r] \in Nat
  BY BytesType DEF Row
<1>2. SumFunctionOnSet(f, S) \in Nat
  <2> HIDE DEF f
  <2>1. QED
    BY <1>1, SumNat
<1>3. QED
  BY <1>1, <1>2 DEF BytesOf, SumFunction

\* Sums depend on the rows they add up only.
LEMMA SameSum ==
  ASSUME NEW h, NEW s, busy' = busy,
         {q \in rows' : Hour(q.ts) = h /\ q.source = s}
           = {q \in rows : Hour(q.ts) = h /\ q.source = s}
  PROVE  Sum(h, s)' = Sum(h, s)
<1> DEFINE F(b, T) == SumFunction([q \in T |-> Cardinality(Covered(q) \cap b)])
           U == {q \in rows : Hour(q.ts) = h /\ q.source = s}
           V == {q \in rows' : Hour(q.ts) = h /\ q.source = s}
<1>1. Sum(h, s) = [hour |-> h, source |-> s, bytes |-> F(busy, U)]
  BY DEF Sum, BytesOf, Bytes
<1>2. Sum(h, s)' = [hour |-> h, source |-> s, bytes |-> F(busy', V)]
  BY DEF Sum, BytesOf, Bytes, Covered, Hour
<1>3. U = V
  OBVIOUS
<1> HIDE DEF F, U, V
<1>4. QED
  BY <1>1, <1>2, <1>3

LEMMA SumEntry ==
  ASSUME IsFiniteSet(rows), rows \subseteq Row, NEW h \in Nat, NEW s \in Sources
  PROVE  Sum(h, s) \in HourSum
<1>1. {q \in rows : Hour(q.ts) = h /\ q.source = s} \in SUBSET rows
  OBVIOUS
<1>2. IsFiniteSet({q \in rows : Hour(q.ts) = h /\ q.source = s})
  BY <1>1, FS_Subset
<1>3. BytesOf({q \in rows : Hour(q.ts) = h /\ q.source = s}) \in Nat
  BY <1>1, <1>2, BytesAddUp
<1>4. QED
  BY <1>3 DEF Sum, HourSum

\* An upsert stores a row, if it has usage, in the place of the one with its key.
LEMMA StoredRow ==
  ASSUME IsFiniteSet(rows), rows \subseteq Row, NEW r \in Row
  PROVE  /\ IsFiniteSet(Stored(r))
         /\ Stored(r) \subseteq rows \cup {r}
         /\ \A q \in rows \ Stored(r) : q.ts = r.ts /\ q.source = r.source /\ r \in Stored(r)
         /\ \A s \in Sources \ {r.source} :
              {q \in Stored(r) : q.source = s} = {q \in rows : q.source = s}
         /\ Covered(r) \cap busy # {} => r \in Stored(r)
<1>1. Covered(r) \cap busy # {} => Bytes(r) # 0
  BY BytesType DEF Row
<1>2. CASE Bytes(r) = 0
  <2>1. Stored(r) = rows
    BY <1>2 DEF Stored
  <2>2. QED
    BY <1>1, <1>2, <2>1
<1>3. CASE Bytes(r) # 0
  <2> DEFINE kept == {q \in rows : <<q.ts, q.source>> # <<r.ts, r.source>>}
  <2>1. Stored(r) = kept \cup {r}
    BY <1>3 DEF Stored
  <2>2. IsFiniteSet(kept)
    BY FS_Subset
  <2>3. IsFiniteSet(Stored(r))
    <3> HIDE DEF kept
    <3>1. QED
      BY <2>1, <2>2, FS_AddElement
  <2>4. \A q \in rows \ Stored(r) : q.ts = r.ts /\ q.source = r.source
    BY <2>1
  <2>5. ASSUME NEW s \in Sources \ {r.source}
        PROVE  {q \in Stored(r) : q.source = s} = {q \in rows : q.source = s}
    BY <2>1
  <2>6. QED
    BY <2>1, <2>3, <2>4, <2>5
<1>4. QED
  BY <1>2, <1>3

-----------------------------------------------------------------------------
(***************************************************************************)
(* The steps.  Most leave the table alone; the others store one row, or    *)
(* delete those of whole days.                                             *)
(***************************************************************************)
PollRow == [ts |-> now, source |-> "interface_poll", from |-> poll.baseline]
HelperRow == [ts |-> helper, source |-> "helper", from |-> helper - Window]
ChunkRow == [ts |-> ChunkEnd, source |-> "import", from |-> import.cursor]
CutoffDay == Day(poll.ts) - poll.days

LEMMA NewRows ==
  ASSUME IInv
  PROVE  /\ PollRow \in Row /\ HourSlots <= now
         /\ helper # 0 => HelperRow \in Row /\ HourSlots <= helper /\ helper <= now
         /\ import.at = "chunk" =>
              /\ ChunkRow \in Row /\ HourSlots <= ChunkEnd /\ ChunkEnd <= now
              /\ import.cursor < ChunkEnd /\ ChunkEnd <= import.end
              /\ import.cursor \in Nat /\ ChunkEnd \in Nat
<1>1. TypeOK /\ Clocks /\ ImportAdvances
  BY DEF IInv
<1>2. now \in Nat /\ helper \in Nat /\ import.cursor \in Nat /\ import.end \in Nat
        /\ import.start \in Nat /\ poll.baseline \in Nat
  BY <1>1 DEF TypeOK
<1>3. HourSlots <= now /\ PollRow \in Row
  BY <1>1, <1>2, Constants DEF Clocks, PollRow, Row, Sources
<1>4. ASSUME helper # 0
      PROVE  HelperRow \in Row /\ HourSlots <= helper /\ helper <= now
  BY <1>1, <1>2, <1>4, Constants DEF Clocks, HelperRow, Row, Sources
<1>5. ASSUME import.at = "chunk"
      PROVE  /\ ChunkRow \in Row /\ HourSlots <= ChunkEnd /\ ChunkEnd <= now
             /\ import.cursor < ChunkEnd /\ ChunkEnd <= import.end
             /\ import.cursor \in Nat /\ ChunkEnd \in Nat
  <2>1. /\ HourSlots <= import.start /\ import.start <= import.cursor
        /\ import.cursor < import.end /\ import.end <= now
    BY <1>1, <1>5 DEF ImportAdvances
  <2>2. import.cursor + Chunk \in Int /\ import.end \in Int
    BY <1>2, Constants
  <2>3. ChunkEnd \in {import.cursor + Chunk, import.end} /\ ChunkEnd <= import.end
    BY <2>2, MinOfTwo DEF ChunkEnd
  <2>4. /\ ChunkEnd \in Nat /\ import.cursor < ChunkEnd
    BY <1>2, <2>1, <2>3, Constants
  <2>5. ChunkRow \in Row
    BY <1>2, <2>4 DEF ChunkRow, Row, Sources
  <2>6. QED
    BY <1>2, <2>1, <2>3, <2>4, <2>5, Constants
<1>6. QED
  BY <1>3, <1>4, <1>5

LEMMA IngestedRows ==
  /\ Push => \/ helper # 0 /\ rows' = Stored(HelperRow)
             \/ rows' = rows
  /\ PushChunk => rows' = Stored(ChunkRow)
  /\ Poll => \/ poll.baseline # 0 /\ rows' = Stored(PollRow)
             \/ rows' = rows
<1>1. Push => \/ helper # 0 /\ rows' = Stored(HelperRow)
              \/ rows' = rows
  BY DEF Push, Ingest, HelperRow, store
<1>2. PushChunk => rows' = Stored(ChunkRow)
  BY DEF PushChunk, Ingest, ChunkRow
<1>3. Poll => \/ poll.baseline # 0 /\ rows' = Stored(PollRow)
              \/ rows' = rows
  BY DEF Poll, PollRow
<1>4. QED
  BY <1>1, <1>2, <1>3

\* What no step but those on the left changes.
LEMMA RowsStay ==
  ASSUME [Next]_vars, ~ Poll, ~ Push, ~ PushChunk, ~ Clean
  PROVE  rows' = rows
<1>1. CASE UNCHANGED vars
  BY <1>1 DEF vars, store
<1>2. CASE Start
  BY <1>2 DEF Start
<1>3. CASE ReadRetention \/ CleanFails \/ Aggregate \/ AggregateFails \/ Die
  BY <1>3 DEF ReadRetention, CleanFails, Aggregate, AggregateFails, Die, store
<1>4. ASSUME NEW days \in 0 .. MaxDays, SetRetention(days)
      PROVE  rows' = rows
  BY <1>4 DEF SetRetention
<1>5. CASE Collect \/ StartImport \/ ChunkFails \/ ReportProgress \/ Complete
  BY <1>5 DEF Collect, StartImport, ChunkFails, ReportProgress, Complete, ImportChanges, store
<1>6. CASE Tick
  BY <1>6 DEF Tick, store
<1>7. QED
  BY <1>1, <1>2, <1>3, <1>4, <1>5, <1>6 DEF Next

LEMMA ArchiveStays ==
  ASSUME [Next]_vars, ~ Aggregate
  PROVE  UNCHANGED <<hourly, watermark>>
<1>1. CASE UNCHANGED vars
  BY <1>1 DEF vars, store
<1>2. CASE Start \/ Poll
  BY <1>2 DEF Start, Poll
<1>3. CASE ReadRetention \/ CleanFails \/ AggregateFails \/ Die
  BY <1>3 DEF ReadRetention, CleanFails, AggregateFails, Die, store
<1>4. CASE Clean
  BY <1>4 DEF Clean
<1>5. ASSUME NEW days \in 0 .. MaxDays, SetRetention(days)
      PROVE  UNCHANGED <<hourly, watermark>>
  BY <1>5 DEF SetRetention
<1>6. CASE Push \/ PushChunk
  BY <1>6 DEF Push, PushChunk, Ingest, store
<1>7. CASE Collect \/ StartImport \/ ChunkFails \/ ReportProgress \/ Complete
  BY <1>7 DEF Collect, StartImport, ChunkFails, ReportProgress, Complete, ImportChanges, store
<1>8. CASE Tick
  BY <1>8 DEF Tick, store
<1>9. QED
  BY <1>1, <1>2, <1>3, <1>4, <1>5, <1>6, <1>7, <1>8 DEF Next

LEMMA BusyStays == ASSUME [Next]_vars PROVE busy' = busy
<1>1. CASE UNCHANGED vars
  BY <1>1 DEF vars
<1>2. CASE Start \/ Poll \/ Clean \/ Aggregate
  BY <1>2 DEF Start, Poll, Clean, Aggregate
<1>3. CASE ReadRetention \/ CleanFails \/ AggregateFails \/ Die \/ Tick
  BY <1>3 DEF ReadRetention, CleanFails, AggregateFails, Die, Tick
<1>4. ASSUME NEW days \in 0 .. MaxDays, SetRetention(days)
      PROVE  busy' = busy
  BY <1>4 DEF SetRetention
<1>5. CASE Push \/ PushChunk
  BY <1>5 DEF Push, PushChunk, Ingest
<1>6. CASE Collect \/ StartImport \/ ChunkFails \/ ReportProgress \/ Complete
  BY <1>6 DEF Collect, StartImport, ChunkFails, ReportProgress, Complete, ImportChanges
<1>7. QED
  BY <1>1, <1>2, <1>3, <1>4, <1>5, <1>6 DEF Next

\* Time and what was deleted only grow; deletions are Clean's.
LEMMA TimePasses ==
  ASSUME [Next]_vars, TypeOK
  PROVE  /\ now' \in Nat /\ now <= now'
         /\ ~ Tick => now' = now
         /\ ~ Clean => purged' = purged
<1>1. CASE UNCHANGED vars
  BY <1>1 DEF vars, TypeOK
<1>2. CASE Start \/ Poll \/ Clean \/ Aggregate
  BY <1>2 DEF Start, Poll, Clean, Aggregate, TypeOK
<1>3. CASE ReadRetention \/ CleanFails \/ AggregateFails \/ Die \/ Tick
  BY <1>3 DEF ReadRetention, CleanFails, AggregateFails, Die, Tick, TypeOK
<1>4. ASSUME NEW days \in 0 .. MaxDays, SetRetention(days)
      PROVE  now' = now /\ purged' = purged
  BY <1>4 DEF SetRetention
<1>5. CASE Push \/ PushChunk
  BY <1>5 DEF Push, PushChunk, Ingest, TypeOK
<1>6. CASE Collect \/ StartImport \/ ChunkFails \/ ReportProgress \/ Complete
  BY <1>6 DEF Collect, StartImport, ChunkFails, ReportProgress, Complete, ImportChanges, TypeOK
<1>7. QED
  BY <1>1, <1>2, <1>3, <1>4, <1>5, <1>6 DEF Next, TypeOK

\* Clean removes whole hours.
LEMMA Cleaned ==
  ASSUME IInv, Clean
  PROVE  \/ rows' = rows /\ purged' = purged
         \/ /\ poll.days > 0 /\ poll.days \in poll.inForce
            /\ CutoffDay \in Int
            /\ rows' = {r \in rows : CutoffDay <= Day(r.ts)}
            /\ rows' = {r \in rows : CutoffDay * DayHours <= Hour(r.ts)}
            /\ \A r \in rows \ rows' : r.ts < purged'
            /\ purged' \in Nat /\ purged <= purged'
            /\ \A h \in Int : purged' <= h * HourSlots => CutoffDay * DayHours <= h
<1>1. CASE poll.days = 0
  BY <1>1 DEF Clean
<1>2. CASE poll.days # 0
  <2> DEFINE cutoff == CutoffDay * DayHours * HourSlots
  <2>1. /\ poll.ts \in Nat /\ poll.days \in Nat /\ purged \in Nat
        /\ \A r \in rows : r.ts \in Nat
    BY DEF IInv, TypeOK, Row
  <2>2. poll.days > 0 /\ poll.days \in poll.inForce
    BY <1>2, <2>1 DEF Clean, IInv, RetentionRead
  <2>3. CutoffDay \in Int /\ CutoffDay * DayHours \in Int /\ cutoff \in Int
    <3>1. Day(poll.ts) \in Int
      BY <2>1, HoursAndDays
    <3>2. CutoffDay \in Int
      BY <2>1, <3>1 DEF CutoffDay
    <3>3. CutoffDay * DayHours \in Int
      BY <3>2, Constants
    <3>4. QED
      BY <3>2, <3>3, Constants
  <2>4. rows' = {r \in rows : r.ts >= cutoff} /\ purged' = Max({cutoff, purged})
    BY <1>2 DEF Clean, CutoffDay
  <2>5. purged' \in {cutoff, purged} /\ cutoff <= purged' /\ purged <= purged'
    <3> HIDE DEF cutoff
    <3>1. cutoff \in Int /\ purged \in Int
      BY <2>1, <2>3
    <3>2. /\ Max({cutoff, purged}) \in {cutoff, purged}
          /\ cutoff <= Max({cutoff, purged}) /\ purged <= Max({cutoff, purged})
      BY <3>1, MaxOfTwo
    <3>3. QED
      BY <2>4, <3>2
  <2>6. purged' \in Nat
    BY <2>1, <2>3, <2>5
  <2>7. ASSUME NEW r \in rows
        PROVE  /\ r.ts >= cutoff <=> CutoffDay * DayHours <= Hour(r.ts)
               /\ r.ts >= cutoff <=> CutoffDay <= Day(r.ts)
    <3>1. /\ cutoff <= r.ts <=> CutoffDay * DayHours <= Hour(r.ts)
          /\ cutoff <= r.ts <=> CutoffDay <= Day(r.ts)
      BY <2>1, <2>3, DayBound
    <3>2. QED
      BY <2>1, <2>3, <3>1
  <2>8. ASSUME NEW r \in rows \ rows' PROVE r.ts < purged'
    BY <2>1, <2>3, <2>4, <2>5, <2>6
  <2>9. ASSUME NEW h \in Int, purged' <= h * HourSlots
        PROVE  CutoffDay * DayHours <= h
    <3> DEFINE k == CutoffDay * DayHours
    <3> HIDE DEF k
    <3>1. k \in Int /\ k * HourSlots \in Int /\ h * HourSlots \in Int /\ k * HourSlots <= h * HourSlots
      BY <2>3, <2>5, <2>6, <2>9, Constants DEF k
    <3>2. ASSUME h < k PROVE FALSE
      <4>1. h + 1 \in Int /\ h + 1 <= k
        BY <3>1, <3>2
      <4>2. (h + 1) * HourSlots <= k * HourSlots
        BY <3>1, <4>1, TimesMonotone, Constants
      <4>3. (h + 1) * HourSlots = h * HourSlots + HourSlots
        BY Constants
      <4>4. QED
        BY <3>1, <4>2, <4>3, Constants
    <3>3. QED
      BY <3>1, <3>2 DEF k
  <2>10. QED
    <3> HIDE DEF cutoff
    <3>1. /\ rows' = {r \in rows : CutoffDay <= Day(r.ts)}
          /\ rows' = {r \in rows : CutoffDay * DayHours <= Hour(r.ts)}
      BY <2>4, <2>7
    <3>2. QED
      BY <2>2, <2>3, <2>5, <2>6, <2>8, <2>9, <3>1
<1>3. QED
  BY <1>1, <1>2

-----------------------------------------------------------------------------
(***************************************************************************)
(* An aggregation adds the sums of the hours after its watermark, and      *)
(* replaces none.                                                          *)
(***************************************************************************)
Due == DueHours(Hour(poll.ts))
DueSums == {Sum(Hour(r.ts), r.source) : r \in {q \in rows : Hour(q.ts) \in Due}}

LEMMA FirstDueHour ==
  ASSUME IInv, Due # {}
  PROVE  /\ FirstHour(Hour(poll.ts)) \in Nat /\ 1 <= FirstHour(Hour(poll.ts))
         /\ watermark < FirstHour(Hour(poll.ts))
         /\ Due = FirstHour(Hour(poll.ts)) .. Hour(poll.ts) - 1
         /\ \A r \in rows : watermark < Hour(r.ts) => FirstHour(Hour(poll.ts)) <= Hour(r.ts)
<1> DEFINE c == Hour(poll.ts)
           T == {r.ts : r \in rows}
<1>1. /\ watermark \in Nat /\ poll.ts \in Nat /\ c \in Int
      /\ \A r \in rows : r.ts \in Nat /\ Hour(r.ts) \in Int /\ HourSlots <= r.ts /\ 1 <= Hour(r.ts)
  BY HoursAndDays, HoursBegin DEF IInv, TypeOK, Row, Clocks
<1>2. Due = FirstHour(c) .. c - 1
  BY DEF Due, DueHours
<1>3. CASE watermark # 0
  <2>1. FirstHour(c) = watermark + 1
    BY <1>3 DEF FirstHour
  <2>2. QED
    BY <1>1, <1>2, <2>1
<1>4. CASE watermark = 0 /\ rows # {}
  <2>1. FirstHour(c) = Hour(Min(T))
    BY <1>4 DEF FirstHour
  <2>2. T \in SUBSET Nat /\ T # {}
    BY <1>1, <1>4
  <2>3. Min(T) \in T /\ \A t \in T : Min(T) <= t
    <3> HIDE DEF T
    <3>1. QED
      BY <2>2, MinOfNats
  <2>4. PICK q \in rows : Min(T) = q.ts
    BY <2>3
  <2>5. 1 <= FirstHour(c) /\ FirstHour(c) \in Int
    BY <1>1, <2>1, <2>4
  <2>6. ASSUME NEW r \in rows PROVE FirstHour(c) <= Hour(r.ts)
    <3>1. q.ts <= r.ts
      BY <2>3, <2>4
    <3>2. QED
      BY <1>1, <2>1, <2>4, <3>1, HoursPass
  <2>7. QED
    BY <1>2, <1>4, <2>5, <2>6
<1>5. CASE watermark = 0 /\ rows = {}
  <2>1. FirstHour(c) = c
    BY <1>5 DEF FirstHour
  <2>2. QED
    BY <1>1, <1>2, <2>1
<1>6. QED
  BY <1>3, <1>4, <1>5

LEMMA Aggregated ==
  ASSUME IInv, Aggregate
  PROVE  \/ UNCHANGED <<hourly, watermark>>
         \/ /\ hourly' = DueSums \cup hourly
            /\ watermark' = Hour(poll.ts) - 1 /\ watermark' \in Nat
            /\ \A h \in Due : h \in Nat /\ watermark < h /\ h <= watermark'
            /\ \A r \in rows : Hour(r.ts) <= watermark' =>
                 Hour(r.ts) <= watermark \/ Hour(r.ts) \in Due
<1> DEFINE c == Hour(poll.ts)
<1>1. CASE watermark >= c - 1 \/ Due = {}
  BY <1>1 DEF Aggregate, Due
<1>2. CASE ~ (watermark >= c - 1 \/ Due = {})
  <2>1. /\ hourly' = DueSums \cup {o \in hourly : \A s \in DueSums :
                                     <<s.hour, s.source>> # <<o.hour, o.source>>}
        /\ watermark' = Max(Due)
    BY <1>2 DEF Aggregate, Due, DueSums
  <2>2. /\ watermark \in Nat /\ c \in Int
        /\ \A r \in rows : r.ts \in Nat /\ Hour(r.ts) \in Int
    BY HoursAndDays DEF IInv, TypeOK, Row
  <2>3. /\ FirstHour(c) \in Nat /\ 1 <= FirstHour(c) /\ watermark < FirstHour(c)
        /\ Due = FirstHour(c) .. c - 1
        /\ \A r \in rows : watermark < Hour(r.ts) => FirstHour(c) <= Hour(r.ts)
    BY <1>2, FirstDueHour
  <2> HIDE DEF c
  <2>4. watermark' = c - 1
    <3>1. FirstHour(c) .. c - 1 # {} /\ FirstHour(c) \in Int /\ c - 1 \in Int
      BY <1>2, <2>2, <2>3
    <3>2. Max(FirstHour(c) .. c - 1) = c - 1
      BY <3>1, MaxOfInterval
    <3>3. QED
      BY <2>1, <2>3, <3>2
  <2>5. \A h \in Due : h \in Nat /\ watermark < h /\ h <= c - 1
    BY <2>2, <2>3
  <2>6. ASSUME NEW s \in DueSums PROVE s.hour \in Due
    <3>1. PICK r \in rows : Hour(r.ts) \in Due /\ s = Sum(Hour(r.ts), r.source)
      BY DEF DueSums
    <3>2. s.hour = Hour(r.ts)
      BY <3>1 DEF Sum
    <3>3. QED
      BY <3>1, <3>2
  <2>7. \A o \in hourly : o.hour \in Nat /\ o.hour <= watermark
    BY DEF IInv, TypeOK, HourSum, ArchiveEnds
  <2>8. hourly' = DueSums \cup hourly
    BY <2>1, <2>2, <2>5, <2>6, <2>7
  <2>9. ASSUME NEW r \in rows, Hour(r.ts) <= c - 1
        PROVE  Hour(r.ts) <= watermark \/ Hour(r.ts) \in Due
    BY <2>2, <2>3, <2>9
  <2>10. c - 1 \in Nat
    BY <1>2, <2>2, <2>3
  <2>11. QED
    BY <2>4, <2>5, <2>8, <2>9, <2>10 DEF c
<1>3. QED
  BY <1>1, <1>2

LEMMA DueSumsType ==
  ASSUME IInv
  PROVE  /\ \A r \in rows : Hour(r.ts) \in Due => Sum(Hour(r.ts), r.source) \in DueSums
         /\ \A s \in DueSums : /\ s \in HourSum
                               /\ \E r \in rows : /\ Hour(r.ts) \in Due
                                                  /\ s = Sum(Hour(r.ts), r.source)
         /\ IsFiniteSet(DueSums)
<1> DEFINE D == {q \in rows : Hour(q.ts) \in Due}
           F(r) == Sum(Hour(r.ts), r.source)
<1>1. IsFiniteSet(rows) /\ rows \subseteq Row
  BY DEF IInv, TypeOK
<1>2. IsFiniteSet(D)
  BY <1>1, FS_Subset
<1>3. DueSums = {F(r) : r \in D}
  BY DEF DueSums
<1>4. ASSUME NEW r \in rows PROVE Sum(Hour(r.ts), r.source) \in HourSum
  <2>1. r.ts \in Nat /\ r.source \in Sources /\ 1 <= Hour(r.ts) /\ Hour(r.ts) \in Int
    BY HoursAndDays, HoursBegin DEF IInv, TypeOK, Row, Clocks
  <2>2. QED
    BY <1>1, <2>1, SumEntry
<1>5. IsFiniteSet(DueSums)
  <2> DEFINE f == [r \in D |-> F(r)]
  <2>1. f \in Surjection(D, DueSums)
    BY <1>3 DEF Surjection
  <2> HIDE DEF f, D
  <2>2. QED
    BY <1>2, <2>1, FS_Surjection
<1>6. QED
  BY <1>3, <1>4, <1>5

-----------------------------------------------------------------------------
(***************************************************************************)
(* The invariant.                                                          *)
(***************************************************************************)
LEMMA InitInvariant == ASSUME Init PROVE IInv
<1>1. /\ now = Installed /\ rows = {} /\ hourly = {} /\ watermark = 0 /\ lastSeen = 0
      /\ settings = [days |-> 0, cleaned |-> 0, status |-> "idle"]
      /\ poll = Down /\ helper = 0 /\ import = Off /\ purged = 0 /\ busy \in Usages
  BY DEF Init
<1>2. TypeOK
  BY <1>1, FS_EmptySet, Constants DEF TypeOK, Down, Off
<1>3. Clocks
  BY <1>1, Constants DEF Clocks, Down
<1>4. ArchiveEnds
  <2>1. 1 <= Hour(Installed)
    BY HoursBegin, Constants
  <2>2. Hour(Installed) \in Int
    BY HoursAndDays, Constants
  <2>3. QED
    BY <1>1, <2>1, <2>2 DEF ArchiveEnds
<1>5. RetentionRead /\ PollsInTurn
  BY <1>1 DEF RetentionRead, PollsInTurn, Down, Rows
<1>6. ImportAdvances
  BY <1>1 DEF ImportAdvances, Off
<1>7. PollHoursSummed
  BY <1>1 DEF PollHoursSummed, Rows
<1>8. QED
  BY <1>2, <1>3, <1>4, <1>5, <1>6, <1>7 DEF IInv

LEMMA TableTypes ==
  ASSUME IInv, [Next]_vars
  PROVE  rows' \subseteq Row /\ IsFiniteSet(rows')
<1>1. rows \subseteq Row /\ IsFiniteSet(rows)
  BY DEF IInv, TypeOK
<1>2. ASSUME NEW r \in Row, rows' = Stored(r)
      PROVE  rows' \subseteq Row /\ IsFiniteSet(rows')
  BY <1>1, <1>2, StoredRow
<1>3. CASE Poll
  <2>1. PollRow \in Row
    BY NewRows
  <2>2. QED
    BY <1>1, <1>2, <1>3, <2>1, IngestedRows
<1>4. CASE Push
  <2>1. helper # 0 => HelperRow \in Row
    BY NewRows
  <2>2. QED
    BY <1>1, <1>2, <1>4, <2>1, IngestedRows
<1>5. CASE PushChunk
  <2>1. import.at = "chunk"
    BY <1>5 DEF PushChunk
  <2>2. ChunkRow \in Row
    BY <2>1, NewRows
  <2>3. QED
    BY <1>2, <1>5, <2>2, IngestedRows
<1>6. CASE Clean
  <2>1. rows' \in SUBSET rows
    BY <1>6, Cleaned
  <2>2. QED
    BY <1>1, <2>1, FS_Subset
<1>7. QED
  BY <1>1, <1>3, <1>4, <1>5, <1>6, RowsStay

LEMMA ArchiveTypes ==
  ASSUME IInv, [Next]_vars
  PROVE  hourly' \subseteq HourSum /\ IsFiniteSet(hourly') /\ watermark' \in Nat
<1>1. hourly \subseteq HourSum /\ IsFiniteSet(hourly) /\ watermark \in Nat
  BY DEF IInv, TypeOK
<1>2. CASE Aggregate
  <2>1. DueSums \subseteq HourSum /\ IsFiniteSet(DueSums)
    BY DueSumsType
  <2>2. IsFiniteSet(DueSums \cup hourly)
    BY <1>1, <2>1, FS_Union
  <2>3. QED
    BY <1>1, <1>2, <2>1, <2>2, Aggregated
<1>3. CASE ~ Aggregate
  BY <1>1, <1>3, ArchiveStays
<1>4. QED
  BY <1>2, <1>3

PollStates == {"down", "sleeping", "stored", "cleaning", "retained"}
PollType == [at : PollStates, ts : Nat, baseline : Nat, days : Nat, inForce : SUBSET Nat]
SettingsType == [days : Nat, cleaned : Nat, status : {"idle", "running", "complete"}]
ImportType ==
  [at : {"off", "chunk", "report", "complete"}, start : Nat, cursor : Nat, end : Nat]

LEMMA ThreadTypes ==
  ASSUME IInv, [Next]_vars
  PROVE  /\ settings' \in SettingsType /\ poll' \in PollType /\ import' \in ImportType
         /\ lastSeen' \in Nat /\ helper' \in Nat
<1> DEFINE Types == /\ settings \in SettingsType /\ poll \in PollType /\ import \in ImportType
                    /\ lastSeen \in Nat /\ helper \in Nat
<1>1. Types /\ now \in Nat
  BY DEF IInv, TypeOK, SettingsType, PollType, PollStates, ImportType
<1>2. Down \in PollType /\ [Down EXCEPT !.at = "sleeping"] \in PollType /\ Off \in ImportType
  BY DEF Down, PollType, PollStates, Off, ImportType
<1>3. ASSUME NEW at \in PollStates PROVE Rested(at) \in PollType
  BY <1>1 DEF Rested, PollType, PollStates
<1>4. CASE UNCHANGED vars
  BY <1>1, <1>4 DEF vars, store
<1>5. CASE Start
  BY <1>1, <1>2, <1>5 DEF Start, SettingsType
<1>6. CASE Poll
  BY <1>1, <1>6 DEF Poll, PollType, PollStates, SettingsType
<1>7. CASE ReadRetention
  <2>1. poll' \in PollType
    BY <1>1, <1>3, <1>7 DEF ReadRetention, PollType, PollStates, SettingsType
  <2>2. QED
    BY <1>1, <1>7, <2>1 DEF ReadRetention, store
<1>8. CASE Clean
  <2>1. Day(poll.ts) \in Nat
    <3>1. poll.ts \in Nat /\ Day(poll.ts) \in Int
      BY <1>1, HoursAndDays DEF PollType
    <3>2. 0 * DayHours * HourSlots <= poll.ts
      BY <3>1, Constants
    <3>3. 0 <= Day(poll.ts)
      BY <3>1, <3>2, DayBound
    <3>4. QED
      BY <3>1, <3>3
  <2>2. settings' \in SettingsType
    BY <1>1, <1>8, <2>1 DEF Clean, SettingsType
  <2>3. poll' \in PollType
    BY <1>3, <1>8 DEF Clean, PollStates
  <2>4. QED
    BY <1>1, <1>8, <2>2, <2>3 DEF Clean
<1>9. CASE CleanFails \/ AggregateFails \/ Aggregate
  <2>1. poll' \in PollType
    BY <1>3, <1>9 DEF CleanFails, AggregateFails, Aggregate, PollStates
  <2>2. UNCHANGED <<settings, import, lastSeen, helper>>
    BY <1>9 DEF CleanFails, AggregateFails, Aggregate, store
  <2>3. QED
    BY <1>1, <2>1, <2>2
<1>10. CASE Die
  BY <1>1, <1>2, <1>10 DEF Die, store
<1>11. ASSUME NEW days \in 0 .. MaxDays, SetRetention(days)
       PROVE  Types'
  <2>1. days \in Nat
    BY Constants
  <2>2. settings' \in SettingsType
    BY <1>1, <1>11, <2>1 DEF SetRetention, SettingsType
  <2>3. poll' \in PollType
    BY <1>1, <1>11, <2>1 DEF SetRetention, PollType, PollStates
  <2>4. QED
    BY <1>1, <1>11, <2>2, <2>3 DEF SetRetention
<1>12. ASSUME NEW status \in {"idle", "running", "complete"}, Report(status)
       PROVE  settings' \in SettingsType
  BY <1>1, <1>12 DEF Report, SettingsType
<1>13. CASE Collect \/ Push
  BY <1>1, <1>13 DEF Collect, Push, Ingest, store
<1>14. CASE StartImport
  <2>1. now - Span \in Nat
    BY <1>1, Constants DEF IInv, Clocks
  <2>2. import' \in ImportType
    BY <1>1, <1>14, <2>1 DEF StartImport, ImportChanges, ImportType
  <2>3. QED
    BY <1>1, <1>12, <1>14, <2>2 DEF StartImport, ImportChanges
<1>15. CASE PushChunk
  <2>1. ChunkEnd \in Nat
    BY <1>15, NewRows DEF PushChunk
  <2>2. import' \in ImportType
    BY <1>1, <1>15, <2>1 DEF PushChunk, ImportType
  <2>3. QED
    BY <1>1, <1>15, <2>2 DEF PushChunk, Ingest
<1>16. CASE ChunkFails
  BY <1>1, <1>2, <1>16 DEF ChunkFails, ImportChanges
<1>17. CASE ReportProgress \/ Complete
  <2>1. import' \in ImportType
    BY <1>1, <1>17 DEF ReportProgress, Complete, ImportChanges, ImportType
  <2>2. QED
    BY <1>1, <1>12, <1>17, <2>1 DEF ReportProgress, Complete, ImportChanges
<1>18. CASE Tick
  BY <1>1, <1>18 DEF Tick, store
<1>19. QED
  BY <1>4, <1>5, <1>6, <1>7, <1>8, <1>9, <1>10, <1>11, <1>13, <1>14, <1>15, <1>16,
     <1>17, <1>18 DEF Next

LEMMA TypeStep == ASSUME IInv, [Next]_vars PROVE TypeOK'
<1>1. TypeOK
  BY DEF IInv
<1>2. now' \in Nat /\ busy' \in Usages
  BY <1>1, TimePasses, BusyStays DEF TypeOK
<1>3. purged' \in Nat
  BY <1>1, TimePasses, Cleaned DEF TypeOK
<1>4. QED
  BY <1>2, <1>3, TableTypes, ArchiveTypes, ThreadTypes
     DEF TypeOK, SettingsType, PollType, PollStates, ImportType

\* What the poll thread and the loop remember are times they have seen.
LEMMA TimesSeen ==
  ASSUME IInv, [Next]_vars
  PROVE  /\ poll'.ts \in {poll.ts, 0, now}
         /\ poll'.baseline \in {poll.baseline, 0, now}
         /\ ~ Poll => poll'.baseline \in {poll.baseline, 0}
         /\ helper' \in {helper, 0, now}
<1>1. poll \in PollType
  BY DEF IInv, TypeOK, PollType, PollStates
<1>2. ASSUME NEW at PROVE Rested(at).ts = poll.ts /\ Rested(at).baseline = poll.baseline
  BY <1>1 DEF Rested, PollType
<1>3. CASE UNCHANGED vars
  BY <1>3 DEF vars
<1>4. CASE Start \/ Die
  BY <1>4 DEF Start, Die, Down
<1>5. CASE Poll
  BY <1>5 DEF Poll
<1>6. CASE ReadRetention
  BY <1>1, <1>2, <1>6 DEF ReadRetention, PollType
<1>7. CASE Clean \/ CleanFails \/ Aggregate \/ AggregateFails
  BY <1>2, <1>7 DEF Clean, CleanFails, Aggregate, AggregateFails
<1>8. ASSUME NEW days \in 0 .. MaxDays, SetRetention(days)
      PROVE  helper' = helper /\ poll'.ts = poll.ts /\ poll'.baseline = poll.baseline
  BY <1>1, <1>8 DEF SetRetention, PollType
<1>9. CASE Collect \/ Push \/ PushChunk \/ Tick
  BY <1>9 DEF Collect, Push, PushChunk, Ingest, Tick
<1>10. CASE StartImport \/ ChunkFails \/ ReportProgress \/ Complete
  BY <1>10 DEF StartImport, ChunkFails, ReportProgress, Complete, ImportChanges
<1>11. QED
  BY <1>3, <1>4, <1>5, <1>6, <1>7, <1>8, <1>9, <1>10 DEF Next

LEMMA ClocksStep == ASSUME IInv, [Next]_vars PROVE Clocks'
<1>1. /\ Clocks /\ now \in Nat /\ now' \in Nat /\ now <= now'
      /\ poll.ts \in Nat /\ poll.baseline \in Nat /\ helper \in Nat /\ \A r \in rows : r.ts \in Nat
  BY TimePasses DEF IInv, TypeOK, Row
<1>2. Installed <= now' /\ now' <= MaxTime
  <2>1. CASE Tick
    BY <1>1, <2>1, Constants DEF Tick, Clocks
  <2>2. CASE ~ Tick
    BY <1>1, <2>2, TimePasses DEF Clocks, IInv
  <2>3. QED
    BY <2>1, <2>2
<1>3. /\ poll'.ts <= now' /\ poll'.baseline <= now'
      /\ helper' # 0 => Installed <= helper' /\ helper' <= now'
  <2>1. /\ poll'.ts \in {poll.ts, 0, now} /\ poll'.baseline \in {poll.baseline, 0, now}
        /\ helper' \in {helper, 0, now}
    BY TimesSeen
  <2>2. QED
    BY <1>1, <2>1, Constants DEF Clocks
<1>4. \A r \in rows' : HourSlots <= r.ts /\ r.ts <= now'
  <2>1. \A r \in rows : HourSlots <= r.ts /\ r.ts <= now'
    BY <1>1, Constants DEF Clocks
  <2>2. ASSUME NEW q \in Row, rows' = Stored(q), HourSlots <= q.ts, q.ts <= now
        PROVE  \A r \in rows' : HourSlots <= r.ts /\ r.ts <= now'
    <3>1. Stored(q) \subseteq rows \cup {q}
      BY StoredRow DEF IInv, TypeOK
    <3>2. q.ts <= now'
      BY <1>1, <2>2 DEF Row
    <3>3. QED
      BY <2>1, <2>2, <3>1, <3>2
  <2>3. CASE Poll
    <3>1. PollRow \in Row /\ PollRow.ts = now /\ HourSlots <= now
      BY NewRows DEF PollRow
    <3>2. QED
      BY <1>1, <2>1, <2>2, <2>3, <3>1, IngestedRows
  <2>4. CASE Push
    <3>1. HelperRow.ts = helper
      BY DEF HelperRow
    <3>2. QED
      BY <2>1, <2>2, <2>4, <3>1, NewRows, IngestedRows
  <2>5. CASE PushChunk
    <3>1. ChunkRow.ts = ChunkEnd /\ import.at = "chunk"
      BY <2>5 DEF PushChunk, ChunkRow
    <3>2. QED
      BY <2>2, <2>5, <3>1, NewRows, IngestedRows
  <2>6. CASE Clean
    BY <2>1, <2>6, Cleaned
  <2>7. QED
    BY <2>1, <2>3, <2>4, <2>5, <2>6, RowsStay
<1>5. QED
  BY <1>2, <1>3, <1>4 DEF Clocks

LEMMA ArchiveEndsStep == ASSUME IInv, [Next]_vars PROVE ArchiveEnds'
<1>1. /\ now \in Nat /\ now' \in Nat /\ now <= now' /\ Hour(now) \in Int /\ Hour(now') \in Int
      /\ watermark \in Nat /\ watermark < Hour(now)
      /\ \A o \in hourly : o.hour \in Nat /\ 1 <= o.hour /\ o.hour <= watermark
  BY TimePasses, HoursAndDays DEF IInv, TypeOK, ArchiveEnds, HourSum
<1>2. Hour(now) <= Hour(now')
  BY <1>1, HoursPass
<1>3. ASSUME UNCHANGED <<hourly, watermark>> PROVE ArchiveEnds'
  BY <1>1, <1>2, <1>3 DEF ArchiveEnds, Hour
<1>4. CASE Aggregate /\ ~ UNCHANGED <<hourly, watermark>>
  <2>1. /\ hourly' = DueSums \cup hourly
        /\ watermark' = Hour(poll.ts) - 1 /\ watermark' \in Nat
        /\ \A h \in Due : h \in Nat /\ watermark < h /\ h <= watermark'
    BY <1>4, Aggregated
  <2>2. Hour(poll.ts) \in Int /\ Hour(poll.ts) <= Hour(now)
    BY HoursAndDays, HoursPass DEF IInv, TypeOK, Clocks
  <2>3. watermark' < Hour(now')
    BY <1>1, <1>2, <2>1, <2>2
  <2>4. Due # {}
    BY <1>4 DEF Aggregate, Due
  <2>5. ASSUME NEW s \in DueSums PROVE 1 <= s.hour /\ s.hour <= watermark'
    <3>1. PICK r \in rows : Hour(r.ts) \in Due /\ s = Sum(Hour(r.ts), r.source)
      BY DueSumsType
    <3>2. s.hour \in Due
      BY <3>1 DEF Sum
    <3>3. QED
      BY <1>1, <2>1, <3>2
  <2>6. ASSUME NEW o \in hourly PROVE 1 <= o.hour /\ o.hour <= watermark'
    BY <1>1, <2>1, <2>4
  <2>7. QED
    BY <2>1, <2>3, <2>5, <2>6 DEF ArchiveEnds, Hour
<1>5. QED
  BY <1>3, <1>4, ArchiveStays

LEMMA RetentionReadStep == ASSUME IInv, [Next]_vars PROVE RetentionRead'
<1>1. RetentionRead /\ poll \in PollType /\ settings \in SettingsType
  BY DEF IInv, TypeOK, PollType, PollStates, SettingsType
<1>2. ASSUME UNCHANGED poll, settings'.days = settings.days PROVE RetentionRead'
  BY <1>1, <1>2 DEF RetentionRead
<1>3. ASSUME poll'.at \notin {"stored", "cleaning"} PROVE RetentionRead'
  BY <1>3 DEF RetentionRead
<1>4. CASE UNCHANGED vars
  BY <1>2, <1>4 DEF vars, store
<1>5. CASE Start \/ Die
  BY <1>3, <1>5 DEF Start, Die, Down
<1>6. CASE Poll
  BY <1>6 DEF Poll, RetentionRead
<1>7. CASE ReadRetention
  BY <1>1, <1>7 DEF ReadRetention, Rested, store, RetentionRead, PollType
<1>8. CASE Clean \/ CleanFails \/ Aggregate \/ AggregateFails
  BY <1>1, <1>3, <1>8 DEF Clean, CleanFails, Aggregate, AggregateFails, Rested, PollType
<1>9. ASSUME NEW days \in 0 .. MaxDays, SetRetention(days)
      PROVE  RetentionRead'
  <2>1. settings'.days = days
    BY <1>1, <1>9 DEF SetRetention, SettingsType
  <2>2. CASE poll.at \in {"stored", "cleaning"}
    <3>1. poll' = [poll EXCEPT !.inForce = @ \cup {days}]
      BY <1>9, <2>2 DEF SetRetention
    <3>2. /\ poll'.at = poll.at /\ poll'.days = poll.days
          /\ poll'.inForce = poll.inForce \cup {days}
      BY <1>1, <3>1 DEF PollType
    <3>3. QED
      BY <1>1, <2>1, <3>2 DEF RetentionRead
  <2>3. CASE poll.at \notin {"stored", "cleaning"}
    BY <1>3, <1>9, <2>3 DEF SetRetention
  <2>4. QED
    BY <2>2, <2>3
<1>10. CASE Collect \/ Push \/ PushChunk \/ Tick
  BY <1>2, <1>10 DEF Collect, Push, PushChunk, Ingest, Tick, store
<1>11. ASSUME NEW status, Report(status) PROVE settings'.days = settings.days
  BY <1>1, <1>11 DEF Report, SettingsType
<1>12. CASE StartImport \/ ChunkFails \/ ReportProgress \/ Complete
  BY <1>2, <1>11, <1>12 DEF StartImport, ChunkFails, ReportProgress, Complete, ImportChanges
<1>13. QED
  BY <1>4, <1>5, <1>6, <1>7, <1>8, <1>9, <1>10, <1>12 DEF Next

\* Only a poll changes the rows of the polls otherwise than by deleting some.
LEMMA PollRowsStay ==
  ASSUME IInv, [Next]_vars, ~ Poll
  PROVE  Rows("interface_poll")' \subseteq Rows("interface_poll")
<1>1. ASSUME NEW q \in Row, rows' = Stored(q), q.source \in {"helper", "import"}
      PROVE  Rows("interface_poll")' \subseteq Rows("interface_poll")
  <2>1. Stored(q) \subseteq rows \cup {q}
    BY StoredRow DEF IInv, TypeOK
  <2>2. QED
    BY <1>1, <2>1 DEF Rows
<1>2. CASE Push
  <2>1. HelperRow.source = "helper" /\ (helper # 0 => HelperRow \in Row)
    BY NewRows DEF HelperRow
  <2>2. CASE rows' = rows
    BY <2>2 DEF Rows
  <2>3. QED
    BY <1>1, <1>2, <2>1, <2>2, IngestedRows
<1>3. CASE PushChunk
  <2>1. ChunkRow.source = "import" /\ ChunkRow \in Row
    BY <1>3, NewRows DEF ChunkRow, PushChunk
  <2>2. QED
    BY <1>1, <1>3, <2>1, IngestedRows
<1>4. CASE Clean
  <2>1. rows' \subseteq rows
    BY <1>4, Cleaned
  <2>2. QED
    BY <2>1 DEF Rows
<1>5. CASE rows' = rows
  BY <1>5 DEF Rows
<1>6. QED
  BY <1>2, <1>3, <1>4, <1>5, RowsStay

LEMMA PollsInTurnStep == ASSUME IInv, [Next]_vars PROVE PollsInTurn'
<1>1. /\ PollsInTurn /\ poll.baseline \in Nat /\ now \in Nat /\ poll.baseline <= now
      /\ \A r \in rows : r.ts \in Nat /\ r.from \in Int /\ r.ts <= now
  BY DEF IInv, TypeOK, Row, Clocks
<1>2. CASE ~ Poll
  <2>1. Rows("interface_poll")' \subseteq Rows("interface_poll")
    BY <1>2, PollRowsStay
  <2>2. poll'.baseline \in {poll.baseline, 0}
    BY <1>2, TimesSeen
  <2>3. QED
    BY <1>1, <2>1, <2>2 DEF PollsInTurn
<1>3. CASE Poll
  <2>1. poll'.baseline = now /\ now > poll.baseline
    BY <1>3 DEF Poll
  <2>2. CASE rows' = rows
    <3>1. Rows("interface_poll")' = Rows("interface_poll")
      BY <2>2 DEF Rows
    <3>2. \A q \in Rows("interface_poll") : q.ts <= now
      BY <1>1 DEF Rows
    <3>3. QED
      BY <1>1, <2>1, <3>1, <3>2 DEF PollsInTurn
  <2>3. CASE poll.baseline # 0 /\ rows' = Stored(PollRow)
    <3>1. /\ Stored(PollRow) \subseteq rows \cup {PollRow}
          /\ PollRow \in Row /\ PollRow.ts = now /\ PollRow.from = poll.baseline
      BY NewRows, StoredRow DEF IInv, TypeOK, PollRow
    <3>2. Rows("interface_poll")' \subseteq Rows("interface_poll") \cup {PollRow}
      BY <2>3, <3>1 DEF Rows
    <3>3. \A q \in Rows("interface_poll") : /\ q.ts <= poll.baseline
                                            /\ q.ts \in Nat /\ q.from \in Int
      BY <1>1, <2>3 DEF PollsInTurn, Rows
    <3>4. ASSUME NEW q \in Rows("interface_poll")' PROVE q.ts <= now
      BY <1>1, <3>1, <3>2, <3>3
    <3>5. ASSUME NEW p \in Rows("interface_poll")', NEW q \in Rows("interface_poll")',
                 q.ts < p.ts
          PROVE  q.ts <= p.from
      <4>1. CASE p = PollRow
        <5>1. q # PollRow
          BY <1>1, <3>1, <3>5, <4>1
        <5>2. QED
          BY <3>1, <3>2, <3>3, <4>1, <5>1
      <4>2. CASE p # PollRow
        <5>1. p \in Rows("interface_poll")
          BY <3>2, <4>2
        <5>2. q # PollRow
          BY <1>1, <2>1, <3>1, <3>3, <3>5, <5>1
        <5>3. QED
          BY <1>1, <3>2, <3>5, <5>1, <5>2 DEF PollsInTurn
      <4>3. QED
        BY <4>1, <4>2
    <3>6. QED
      BY <2>1, <3>4, <3>5 DEF PollsInTurn
  <2>4. QED
    BY <1>3, <2>2, <2>3, IngestedRows
<1>4. QED
  BY <1>2, <1>3

\* What an import has covered stays covered, but for what is deleted.
Imported(slot) == \E r \in Rows("import") : slot \in Covered(r) /\ r.ts <= import.cursor

LEMMA CoverageStays ==
  ASSUME IInv, [Next]_vars, ~ PushChunk, import'.cursor = import.cursor,
         NEW slot \in Int, slot < purged \/ Imported(slot)
  PROVE  slot < purged' \/ Imported(slot)'
<1>1. ASSUME Rows("import") \subseteq Rows("import")', purged' = purged
      PROVE  slot < purged' \/ Imported(slot)'
  BY <1>1 DEF Imported, Covered
<1>2. ASSUME NEW q \in Row, rows' = Stored(q), q.source \in {"helper", "interface_poll"}
      PROVE  Rows("import") \subseteq Rows("import")'
  <2>1. \A r \in rows \ Stored(q) : r.source = q.source
    BY StoredRow DEF IInv, TypeOK
  <2>2. QED
    BY <1>2, <2>1 DEF Rows
<1>3. ~ Clean => purged' = purged
  BY TimePasses DEF IInv
<1>4. CASE Poll
  <2>1. PollRow.source = "interface_poll" /\ PollRow \in Row
    BY NewRows DEF PollRow
  <2>2. Rows("import") \subseteq Rows("import")'
    BY <1>2, <1>4, <2>1, IngestedRows DEF Rows
  <2>3. purged' = purged
    BY <1>4 DEF Poll
  <2>4. QED
    BY <1>1, <2>2, <2>3
<1>5. CASE Push
  <2>1. HelperRow.source = "helper" /\ (helper # 0 => HelperRow \in Row)
    BY NewRows DEF HelperRow
  <2>2. Rows("import") \subseteq Rows("import")'
    BY <1>2, <1>5, <2>1, IngestedRows DEF Rows
  <2>3. purged' = purged
    BY <1>5 DEF Push, Ingest
  <2>4. QED
    BY <1>1, <2>2, <2>3
<1>6. CASE Clean
  <2>1. CASE rows' = rows /\ purged' = purged
    BY <1>1, <2>1 DEF Rows
  <2>2. CASE ~ (rows' = rows /\ purged' = purged)
    <3>1. /\ \A r \in rows \ rows' : r.ts < purged'
          /\ purged' \in Nat /\ purged <= purged' /\ purged \in Nat
          /\ \A r \in rows : r.ts \in Nat /\ r.from \in Int
      BY <1>6, <2>2, Cleaned DEF IInv, TypeOK, Row
    <3>2. CASE slot < purged
      BY <3>1, <3>2
    <3>3. CASE Imported(slot)
      <4>1. PICK r \in rows : r.source = "import" /\ slot \in Covered(r) /\ r.ts <= import.cursor
        BY <3>3 DEF Imported, Rows
      <4>2. CASE r \in rows'
        <5>1. r \in Rows("import")'
          BY <4>1, <4>2 DEF Rows
        <5>2. QED
          BY <4>1, <5>1 DEF Imported, Covered
      <4>3. CASE r \notin rows'
        BY <3>1, <4>1, <4>3 DEF Covered
      <4>4. QED
        BY <4>2, <4>3
    <3>4. QED
      BY <3>2, <3>3
  <2>3. QED
    BY <2>1, <2>2
<1>7. CASE ~ Poll /\ ~ Push /\ ~ Clean
  BY <1>1, <1>3, <1>7, RowsStay DEF Rows
<1>8. QED
  BY <1>4, <1>5, <1>6, <1>7

\* The range and the cursor of an import.
ImportPlace ==
  /\ import.at # "off" => HourSlots <= import.start /\ import.end <= now
  /\ import.start <= import.cursor /\ import.cursor <= import.end
  /\ import.at = "chunk" => import.cursor < import.end
  /\ import.at \in {"complete", "off"} => import.cursor = import.end

ImportCovers == \A slot \in busy \cap ((import.start + 1) .. import.cursor) :
                  slot < purged \/ Imported(slot)

LEMMA ImportStays ==
  ASSUME [Next]_vars, ~ StartImport, ~ PushChunk, ~ ChunkFails, ~ ReportProgress, ~ Complete
  PROVE  import' = import
<1>1. CASE UNCHANGED vars
  BY <1>1 DEF vars
<1>2. CASE Start \/ Poll \/ Clean \/ Aggregate \/ Push \/ Collect
  BY <1>2 DEF Start, Poll, Clean, Aggregate, Push, Collect
<1>3. CASE ReadRetention \/ CleanFails \/ AggregateFails \/ Die \/ Tick
  BY <1>3 DEF ReadRetention, CleanFails, AggregateFails, Die, Tick
<1>4. ASSUME NEW days \in 0 .. MaxDays, SetRetention(days)
      PROVE  import' = import
  BY <1>4 DEF SetRetention
<1>5. QED
  BY <1>1, <1>2, <1>3, <1>4 DEF Next

LEMMA ImportStep == ASSUME IInv, [Next]_vars PROVE ImportAdvances'
<1>1. /\ ImportPlace /\ ImportCovers /\ import \in ImportType /\ now \in Nat /\ now' \in Nat
      /\ now <= now' /\ Installed <= now
  BY TimePasses DEF IInv, ImportAdvances, ImportPlace, ImportCovers, Imported, TypeOK,
     ImportType, Clocks
<1>2. busy' = busy /\ busy \subseteq Int
  BY BusyStays, UsageAssumption DEF IInv, TypeOK
<1>3. SUFFICES ImportPlace' /\ ImportCovers'
  BY DEF ImportAdvances, ImportPlace, ImportCovers, Imported
<1>4. ASSUME import' = import PROVE ImportPlace'
  BY <1>1, <1>4 DEF ImportPlace, ImportType
<1>5. ASSUME ~ PushChunk, import'.cursor = import.cursor, import'.start = import.start
      PROVE  ImportCovers'
  BY <1>1, <1>2, <1>5, CoverageStays DEF ImportCovers
<1>6. ASSUME import'.cursor = import'.start, import'.start \in Int PROVE ImportCovers'
  BY <1>6 DEF ImportCovers
<1>7. CASE StartImport
  <2>1. /\ import' = [at |-> "chunk", start |-> now - Span, cursor |-> now - Span, end |-> now]
        /\ now' = now
    BY <1>7 DEF StartImport, ImportChanges
  <2>2. ImportPlace'
    BY <1>1, <2>1, Constants DEF ImportPlace
  <2>3. ImportCovers'
    BY <1>1, <1>6, <2>1, Constants
  <2>4. QED
    BY <2>2, <2>3
<1>8. CASE ChunkFails
  <2>1. import' = Off
    BY <1>8 DEF ChunkFails, ImportChanges
  <2>2. QED
    BY <1>6, <2>1 DEF ImportPlace, Off
<1>9. CASE ReportProgress
  <2>1. /\ import.at = "report" /\ now' = now
        /\ import'.at = IF import.cursor < import.end THEN "chunk" ELSE "complete"
        /\ import'.start = import.start /\ import'.cursor = import.cursor
        /\ import'.end = import.end
    BY <1>1, <1>9 DEF ReportProgress, ImportChanges, ImportType
  <2>2. ImportPlace'
    BY <1>1, <2>1 DEF ImportPlace, ImportType
  <2>3. ~ PushChunk
    BY <2>1 DEF PushChunk
  <2>4. QED
    BY <1>5, <2>1, <2>2, <2>3
<1>10. CASE Complete
  <2>1. /\ import.at = "complete" /\ now' = now /\ import'.at = "off"
        /\ import'.start = import.start /\ import'.cursor = import.cursor
        /\ import'.end = import.end
    BY <1>1, <1>10 DEF Complete, ImportChanges, ImportType
  <2>2. ImportPlace'
    BY <1>1, <2>1 DEF ImportPlace, ImportType
  <2>3. ~ PushChunk
    BY <2>1 DEF PushChunk
  <2>4. QED
    BY <1>5, <2>1, <2>2, <2>3
<1>11. CASE PushChunk
  <2>1. /\ import.at = "chunk" /\ import'.at = "report" /\ import'.cursor = ChunkEnd
        /\ import'.start = import.start /\ import'.end = import.end
        /\ now' = now /\ purged' = purged
    BY <1>1, <1>11 DEF PushChunk, Ingest, ImportType
  <2>2. /\ ChunkRow \in Row /\ import.cursor < ChunkEnd /\ ChunkEnd <= import.end
        /\ import.cursor \in Nat /\ ChunkEnd \in Nat
    BY <2>1, NewRows
  <2>3. ImportPlace'
    BY <1>1, <2>1, <2>2 DEF ImportPlace, ImportType
  <2>4. /\ rows' = Stored(ChunkRow)
        /\ \A q \in rows \ Stored(ChunkRow) : q.ts = ChunkEnd
        /\ Covered(ChunkRow) \cap busy # {} => ChunkRow \in rows'
    BY <1>11, <2>2, IngestedRows, StoredRow DEF IInv, TypeOK, ChunkRow
  <2>5. ASSUME NEW slot \in busy, slot \in (import.start + 1) .. ChunkEnd
        PROVE  slot < purged \/ Imported(slot)'
    <3>1. CASE slot <= import.cursor
      <4>1. slot < purged \/ Imported(slot)
        BY <1>1, <2>2, <2>5, <3>1 DEF ImportCovers
      <4>2. ASSUME NEW r \in rows, r.source = "import", slot \in Covered(r),
                   r.ts <= import.cursor
            PROVE  Imported(slot)'
        <5>1. r.ts \in Nat
          BY DEF IInv, TypeOK, Row
        <5>2. r \in rows' /\ r.ts <= ChunkEnd
          BY <2>2, <2>4, <4>2, <5>1
        <5>3. QED
          BY <2>1, <4>2, <5>2 DEF Imported, Rows, Covered
      <4>3. QED
        BY <4>1, <4>2 DEF Imported, Rows
    <3>2. CASE ~ (slot <= import.cursor)
      <4>1. slot \in Int /\ slot \in Covered(ChunkRow)
        BY <1>2, <2>2, <2>5, <3>2 DEF Covered, ChunkRow
      <4>2. ChunkRow \in rows' /\ ChunkRow.source = "import" /\ ChunkRow.ts = ChunkEnd
        BY <2>4, <2>5, <4>1 DEF ChunkRow
      <4>3. \E r \in Rows("import")' : slot \in Covered(r) /\ r.ts <= ChunkEnd
        BY <2>2, <4>1, <4>2 DEF Rows
      <4>4. QED
        BY <2>1, <4>3 DEF Imported, Covered
    <3>3. QED
      BY <3>1, <3>2
  <2>6. ImportCovers'
    BY <1>2, <2>1, <2>5 DEF ImportCovers
  <2>7. QED
    BY <2>3, <2>6
<1>12. CASE ~ (StartImport \/ PushChunk \/ ChunkFails \/ ReportProgress \/ Complete)
  BY <1>4, <1>5, <1>12, ImportStays
<1>13. QED
  BY <1>7, <1>8, <1>9, <1>10, <1>11, <1>12

-----------------------------------------------------------------------------
(***************************************************************************)
(* The hours of the polls.                                                 *)
(***************************************************************************)
HourRowsOf(h, s) == {q \in rows : Hour(q.ts) = h /\ q.source = s}

\* Rows of another source and polls of the current hour leave a sum alone, and
\* so does a deletion that keeps the hour.
LEMMA OtherHoursStay ==
  ASSUME IInv, [Next]_vars, NEW h \in Nat, h <= watermark,
         NEW q \in Rows("interface_poll")', Hour(q.ts) = h
  PROVE  q \in rows /\ Sum(h, "interface_poll")' = Sum(h, "interface_poll")
<1>1. /\ watermark < Hour(now) /\ watermark \in Nat /\ Hour(now) \in Int
      /\ IsFiniteSet(rows) /\ rows \subseteq Row
      /\ \A r \in rows : r.ts \in Nat /\ Hour(r.ts) \in Int
      /\ "interface_poll" \in Sources
  BY HoursAndDays DEF IInv, ArchiveEnds, TypeOK, Row, Sources
<1>2. busy' = busy
  BY BusyStays
<1>3. SUFFICES q \in rows /\ {r \in rows' : Hour(r.ts) = h /\ r.source = "interface_poll"}
                               = {r \in rows : Hour(r.ts) = h /\ r.source = "interface_poll"}
  BY <1>2, SameSum
<1>4. q \in rows' /\ q.source = "interface_poll"
  BY DEF Rows
<1>5. ASSUME NEW x \in Row, rows' = Stored(x), x.source \in {"helper", "import"}
      PROVE  q \in rows /\ {r \in rows' : Hour(r.ts) = h /\ r.source = "interface_poll"}
                             = {r \in rows : Hour(r.ts) = h /\ r.source = "interface_poll"}
  <2>1. {r \in Stored(x) : r.source = "interface_poll"} = {r \in rows : r.source = "interface_poll"}
    BY <1>1, <1>5, StoredRow
  <2>2. QED
    BY <1>4, <1>5, <2>1
<1>6. CASE rows' = rows
  BY <1>4, <1>6
<1>7. CASE Poll /\ rows' = Stored(PollRow)
  <2>1. PollRow \in Row /\ PollRow.ts = now
    BY NewRows DEF PollRow
  <2>2. /\ Stored(PollRow) \subseteq rows \cup {PollRow}
        /\ \A r \in rows \ Stored(PollRow) : r.ts = now
    BY <1>1, <2>1, StoredRow
  <2>3. Hour(now) # h
    BY <1>1
  <2>4. QED
    BY <1>4, <1>7, <2>1, <2>2, <2>3
<1>8. CASE Push
  <2>1. HelperRow.source = "helper" /\ (helper # 0 => HelperRow \in Row)
    BY NewRows DEF HelperRow
  <2>2. QED
    BY <1>5, <1>6, <1>8, <2>1, IngestedRows
<1>9. CASE PushChunk
  <2>1. ChunkRow.source = "import" /\ ChunkRow \in Row
    BY <1>9, NewRows DEF ChunkRow, PushChunk
  <2>2. QED
    BY <1>5, <1>9, <2>1, IngestedRows
<1>10. CASE Clean /\ rows' # rows
  <2>1. /\ rows' = {r \in rows : CutoffDay * DayHours <= Hour(r.ts)}
    BY <1>10, Cleaned
  <2>2. CutoffDay * DayHours <= h
    BY <1>4, <2>1
  <2>3. QED
    BY <1>4, <2>1, <2>2
<1>11. QED
  BY <1>6, <1>7, <1>8, <1>9, <1>10, RowsStay, IngestedRows

LEMMA SummedStep == ASSUME IInv, [Next]_vars PROVE PollHoursSummed'
<1>1. SUFFICES ASSUME NEW r \in Rows("interface_poll")', Hour(r.ts) <= watermark'
               PROVE  Sum(Hour(r.ts), "interface_poll")' \in hourly'
  BY DEF PollHoursSummed, Hour
<1>2. rows' \subseteq Row /\ r \in rows' /\ r.source = "interface_poll"
  BY TableTypes DEF Rows
<1>3. Hour(r.ts) \in Int /\ HourSlots <= r.ts /\ r.ts \in Nat
  BY <1>2, HoursAndDays, ClocksStep DEF Row, Clocks
<1>4. Hour(r.ts) \in Nat
  BY <1>3, HoursBegin
<1>5. ASSUME NEW q \in rows, q.source = "interface_poll", Hour(q.ts) <= watermark
      PROVE  Sum(Hour(q.ts), "interface_poll") \in hourly
  BY <1>5 DEF IInv, PollHoursSummed, Rows
<1>6. CASE Hour(r.ts) <= watermark
  <2>1. r \in rows /\ Sum(Hour(r.ts), "interface_poll")' = Sum(Hour(r.ts), "interface_poll")
    BY <1>4, <1>6, OtherHoursStay
  <2>2. hourly \subseteq hourly'
    BY ArchiveStays, Aggregated
  <2>3. QED
    BY <1>2, <1>5, <1>6, <2>1, <2>2
<1>7. CASE Aggregate /\ ~ (Hour(r.ts) <= watermark)
  <2>1. rows' = rows /\ busy' = busy
    BY <1>7 DEF Aggregate
  <2>2. hourly' = DueSums \cup hourly /\ Hour(r.ts) \in Due
    BY <1>1, <1>2, <1>7, <2>1, Aggregated
  <2>3. Sum(Hour(r.ts), "interface_poll") \in DueSums
    BY <1>2, <2>1, <2>2, DueSumsType
  <2>4. Sum(Hour(r.ts), "interface_poll")' = Sum(Hour(r.ts), "interface_poll")
    BY <2>1, SameSum
  <2>5. QED
    BY <2>2, <2>3, <2>4
<1>8. QED
  BY <1>1, <1>6, <1>7, ArchiveStays

-----------------------------------------------------------------------------
LEMMA StepInvariant == ASSUME IInv, [Next]_vars PROVE IInv'
<1>1. TypeOK' /\ Clocks' /\ ArchiveEnds' /\ RetentionRead'
  BY TypeStep, ClocksStep, ArchiveEndsStep, RetentionReadStep
<1>2. PollsInTurn' /\ ImportAdvances' /\ PollHoursSummed'
  BY PollsInTurnStep, ImportStep, SummedStep
<1>3. QED
  BY <1>1, <1>2 DEF IInv

(***************************************************************************)
(* For any slots, usage, retention, requests and faults: types, what has   *)
(* been read and summed, and what an import has covered stay as they were  *)
(* meant.                                                                  *)
(***************************************************************************)
THEOREM InvariantHolds == Spec => []IInv
<1>1. QED
  BY InitInvariant, StepInvariant, PTL DEF Spec

(***************************************************************************)
(* Whatever dies, is restarted or is deleted: the hours the aggregation    *)
(* has passed are summed up as the poll rows say.                          *)
(***************************************************************************)
THEOREM PollHoursAreSummed == Spec => []PollHoursSummed
<1>1. IInv => PollHoursSummed
  BY DEF IInv
<1>2. QED
  BY <1>1, InvariantHolds, PTL

LEMMA ArchiveGrows == ASSUME IInv, [Next]_vars PROVE hourly \subseteq hourly'
BY ArchiveStays, Aggregated

(***************************************************************************)
(* An hour that was summed never changes and never goes.                   *)
(***************************************************************************)
THEOREM ArchiveIsFinal == Spec => SumsAreFinal
<1>1. QED
  BY InvariantHolds, ArchiveGrows, PTL DEF Spec, SumsAreFinal

DeletedAsAsked ==
  \A r \in rows \ rows' :
    Replaced(r) \/ \E days \in poll.inForce \ {0} : Day(r.ts) < Day(poll.ts) - days

LEMMA DeletionStep == ASSUME IInv, [Next]_vars PROVE DeletedAsAsked
<1>1. ASSUME NEW x \in Row, rows' = Stored(x) PROVE DeletedAsAsked
  <2>1. \A q \in rows \ Stored(x) : q.ts = x.ts /\ q.source = x.source /\ x \in Stored(x)
    BY StoredRow DEF IInv, TypeOK
  <2>2. QED
    BY <1>1, <2>1 DEF DeletedAsAsked, Replaced
<1>2. CASE rows' = rows
  BY <1>2 DEF DeletedAsAsked
<1>3. CASE Poll
  <2>1. PollRow \in Row
    BY NewRows
  <2>2. QED
    BY <1>1, <1>2, <1>3, <2>1, IngestedRows
<1>4. CASE Push
  <2>1. helper # 0 => HelperRow \in Row
    BY NewRows
  <2>2. QED
    BY <1>1, <1>2, <1>4, <2>1, IngestedRows
<1>5. CASE PushChunk
  <2>1. ChunkRow \in Row
    BY <1>5, NewRows DEF PushChunk
  <2>2. QED
    BY <1>1, <1>5, <2>1, IngestedRows
<1>6. CASE Clean /\ rows' # rows
  <2>1. /\ poll.days > 0 /\ poll.days \in poll.inForce /\ CutoffDay \in Int
        /\ rows' = {r \in rows : CutoffDay <= Day(r.ts)}
    BY <1>6, Cleaned
  <2>2. ASSUME NEW r \in rows \ rows' PROVE Day(r.ts) < Day(poll.ts) - poll.days
    <3>1. Day(r.ts) \in Int
      BY HoursAndDays DEF IInv, TypeOK, Row
    <3>2. QED
      BY <2>1, <3>1 DEF CutoffDay
  <2>3. poll.days \in poll.inForce \ {0}
    BY <2>1
  <2>4. QED
    BY <2>2, <2>3 DEF DeletedAsAsked
<1>7. QED
  BY <1>2, <1>3, <1>4, <1>5, <1>6, RowsStay

(***************************************************************************)
(* A row goes only for another with its key, or for a retention that was   *)
(* in force since the poll began.                                          *)
(***************************************************************************)
THEOREM DeletionsAsAsked == Spec => DeletionsWereAskedFor
<1>1. IInv /\ [Next]_vars => [DeletedAsAsked]_vars
  BY DeletionStep
<1>2. DeletionsWereAskedFor <=> [][DeletedAsAsked]_vars
  BY DEF DeletionsWereAskedFor, DeletedAsAsked
<1>3. QED
  BY <1>1, <1>2, InvariantHolds, PTL DEF Spec

(***************************************************************************)
(* Whatever refuses or dies: an import that is reported complete has left  *)
(* no gap but for what retention deletes.                                  *)
(***************************************************************************)
THEOREM ImportsAreWhole == Spec => []ImportHasNoGap
<1>1. IInv => ImportHasNoGap
  BY DEF IInv, ImportAdvances, ImportHasNoGap
<1>2. QED
  BY <1>1, InvariantHolds, PTL

LEMMA CutoverFirst ==
  ASSUME IInv, NEW q \in Rows("interface_poll")
  PROVE  \E c \in Cutover : c \in Nat /\ c <= q.ts
<1> DEFINE T == {r.ts : r \in Rows("interface_poll")} \cup ({lastSeen} \ {0})
<1>1. T \in SUBSET Nat /\ q.ts \in T
  BY DEF IInv, TypeOK, Row, Rows
<1>2. Cutover = {Min(T)}
  BY <1>1 DEF Cutover
<1>3. Min(T) \in T /\ Min(T) <= q.ts
  <2> HIDE DEF T
  <2>1. QED
    BY <1>1, MinOfNats
<1>4. QED
  BY <1>1, <1>2, <1>3

(***************************************************************************)
(* However polls, restarts and imports follow each other, cap usage counts *)
(* no time twice but the first interval polled.                            *)
(***************************************************************************)
THEOREM CapUsageCountsOnce == Spec => []CapsCountOnce
<1>1. IInv => CapsCountOnce
  <2>1. SUFFICES ASSUME IInv, NEW r \in CapRows, NEW p \in Rows("interface_poll"),
                        r.source = "import", NEW slot \in Covered(r) \cap Covered(p),
                        NEW q \in Rows("interface_poll")
                 PROVE  p.ts <= q.ts
    BY DEF CapsCountOnce
  <2>2. /\ r.ts \in Nat /\ r.from \in Int /\ p.ts \in Nat /\ p.from \in Int /\ q.ts \in Nat
        /\ \A c \in Cutover : r.ts < c
    BY <2>1 DEF IInv, TypeOK, Row, Rows, CapRows
  <2>3. PICK c \in Cutover : c \in Nat /\ c <= q.ts
    BY <2>1, CutoverFirst
  <2>4. r.ts < c
    BY <2>2, <2>3
  <2>5. slot <= r.ts /\ p.from < slot /\ slot \in Int
    BY <2>1, <2>2 DEF Covered
  <2>6. q.ts < p.ts => q.ts <= p.from
    BY <2>1 DEF IInv, PollsInTurn
  <2>7. QED
    BY <2>2, <2>3, <2>4, <2>5, <2>6
<1>2. QED
  BY <1>1, InvariantHolds, PTL

-----------------------------------------------------------------------------
(***************************************************************************)
(* The archive next to its rows.                                           *)
(***************************************************************************)
LEMMA BytesAsSum ==
  ASSUME NEW D, IsFiniteSet(D), D \subseteq Row, NEW S \in SUBSET D
  PROVE  /\ BytesOf(S) = SumFunctionOnSet([q \in D |-> Bytes(q)], S)
         /\ IsFiniteSet(S)
<1> DEFINE f == [q \in S |-> Bytes(q)]
           g == [q \in D |-> Bytes(q)]
<1>1. IsFiniteSet(S)
  BY FS_Subset
<1>2. /\ \A q \in S : f[q] \in Int /\ f[q] = g[q]
      /\ DOMAIN f = S
  BY BytesType DEF Row
<1>3. SumFunctionOnSet(f, S) = SumFunctionOnSet(g, S)
  <2> HIDE DEF f, g
  <2>1. QED
    BY <1>1, <1>2, SumCongruent
<1>4. QED
  BY <1>1, <1>2, <1>3 DEF BytesOf, SumFunction

LEMMA LongerCoversMore ==
  ASSUME NEW q \in Row, NEW x \in Row, q.ts = x.ts, x.from <= q.from
  PROVE  Bytes(q) <= Bytes(x)
<1>1. Covered(q) \cap busy \in SUBSET (Covered(x) \cap busy)
  BY DEF Covered, Row
<1>2. IsFiniteSet(Covered(x) \cap busy)
  <2>1. IsFiniteSet(Covered(x))
    BY BytesType DEF Row
  <2>2. QED
    BY <2>1, FS_Intersection
<1>3. QED
  BY <1>1, <1>2, FS_Subset DEF Bytes

\* A row that covers as much as the one it replaces makes no sum smaller.
LEMMA StoredGrows ==
  ASSUME IsFiniteSet(rows), rows \subseteq Row, KeysAreUnique, busy' = busy,
         NEW x \in Row, rows' = Stored(x),
         \A q \in rows : q.ts = x.ts /\ q.source = x.source => x.from <= q.from,
         NEW h \in Nat, NEW s \in Sources
  PROVE  Sum(h, s).bytes <= Sum(h, s)'.bytes
<1> DEFINE D == rows \cup {x}
           f == [q \in D |-> Bytes(q)]
           S == {q \in rows : Hour(q.ts) = h /\ q.source = s}
           T == {q \in rows' : Hour(q.ts) = h /\ q.source = s}
           kept == {q \in S : <<q.ts, q.source>> # <<x.ts, x.source>>}
<1>1. IsFiniteSet(D) /\ D \subseteq Row
  BY FS_AddElement
<1>2. \A q \in D : f[q] \in Int /\ f[q] = Bytes(q)
  BY <1>1, BytesType DEF Row
<1>3. S \in SUBSET D /\ T \in SUBSET D /\ kept \in SUBSET D
  BY StoredRow
<1>4. /\ Sum(h, s).bytes = BytesOf(S)
      /\ BytesOf(S) = SumFunctionOnSet(f, S) /\ IsFiniteSet(S)
      /\ BytesOf(T) = SumFunctionOnSet(f, T) /\ IsFiniteSet(T)
      /\ BytesOf(S) \in Nat
  <2>1. Sum(h, s).bytes = BytesOf(S)
    BY DEF Sum
  <2> HIDE DEF S, T
  <2>2. BytesOf(S) = SumFunctionOnSet(f, S) /\ IsFiniteSet(S)
    BY <1>1, <1>3, BytesAsSum
  <2>3. BytesOf(T) = SumFunctionOnSet(f, T) /\ IsFiniteSet(T)
    BY <1>1, <1>3, BytesAsSum
  <2>4. BytesOf(S) \in Nat
    BY <1>1, <1>3, <2>2, BytesAddUp
  <2>5. QED
    BY <2>1, <2>2, <2>3, <2>4
<1>5. Sum(h, s)'.bytes = BytesOf(T)
  <2> DEFINE F(b, U) == SumFunction([q \in U |-> Cardinality(Covered(q) \cap b)])
  <2>1. Sum(h, s)' = [hour |-> h, source |-> s, bytes |-> F(busy', T)]
    BY DEF Sum, BytesOf, Bytes, Covered, Hour
  <2>2. BytesOf(T) = F(busy, T)
    BY DEF BytesOf, Bytes
  <2> HIDE DEF F, T
  <2>3. QED
    BY <2>1, <2>2
<1>6. CASE S = T
  <2> HIDE DEF S, T
  <2>1. BytesOf(S) <= BytesOf(T)
    BY <1>4, <1>6
  <2>2. QED
    BY <1>4, <1>5, <2>1
<1>7. CASE S # T
  <2>1. Bytes(x) # 0
    BY <1>7 DEF Stored
  <2>2. rows' = {q \in rows : <<q.ts, q.source>> # <<x.ts, x.source>>} \cup {x}
    BY <2>1 DEF Stored
  <2>3. Hour(x.ts) = h /\ x.source = s
    BY <1>7, <2>2
  <2>4. T = kept \cup {x} /\ T \ {x} = kept /\ x \in T
    BY <2>2, <2>3
  <2>5. SumFunctionOnSet(f, T) = f[x] + SumFunctionOnSet(f, kept)
    <3> HIDE DEF f, T, kept
    <3>1. \A q \in T : f[q] \in Int
      BY <1>2, <1>3
    <3>2. QED
      BY <1>4, <2>4, <3>1, SumTakesOut
  <2>6. IsFiniteSet(kept) /\ SumFunctionOnSet(f, kept) \in Int
    <3> HIDE DEF f, kept
    <3>1. IsFiniteSet(kept)
      BY <1>1, <1>3, FS_Subset
    <3>2. \A q \in kept : f[q] \in Int
      BY <1>2, <1>3
    <3>3. QED
      BY <3>1, <3>2, SumType
  <2>7. CASE S = kept
    <3>1. f[x] \in Nat
      BY <1>2, BytesType DEF Row
    <3> HIDE DEF f, S, T, kept
    <3>2. BytesOf(S) <= BytesOf(T)
      BY <1>4, <2>5, <2>6, <2>7, <3>1
    <3>3. QED
      BY <1>4, <1>5, <3>2
  <2>8. CASE S # kept
    <3>1. PICK q \in S : q.ts = x.ts /\ q.source = x.source
      BY <2>8
    <3>2. S \ {q} = kept
      BY <3>1 DEF KeysAreUnique
    <3>3. SumFunctionOnSet(f, S) = f[q] + SumFunctionOnSet(f, kept)
      <4> HIDE DEF f, S, kept
      <4>1. \A p \in S : f[p] \in Int
        BY <1>2, <1>3
      <4>2. QED
        BY <1>4, <3>1, <3>2, <4>1, SumTakesOut
    <3>4. f[q] <= f[x] /\ f[q] \in Int /\ f[x] \in Int
      <4>1. q \in Row /\ x.from <= q.from
        BY <3>1
      <4>2. Bytes(q) <= Bytes(x)
        BY <3>1, <4>1, LongerCoversMore
      <4>3. QED
        BY <1>2, <3>1, <4>2
    <3> HIDE DEF f, S, T, kept
    <3>5. BytesOf(S) <= BytesOf(T)
      BY <1>4, <2>5, <2>6, <3>3, <3>4
    <3>6. QED
      BY <1>4, <1>5, <3>5
  <2>9. QED
    BY <2>7, <2>8
<1>8. QED
  BY <1>6, <1>7

LEMMA RowsWritten ==
  ASSUME IInv, [Next]_vars, NEW r \in rows' \ rows
  PROVE  \/ Poll /\ r = PollRow
         \/ Push /\ helper # 0 /\ r = HelperRow
         \/ PushChunk /\ r = ChunkRow
<1>1. IsFiniteSet(rows) /\ rows \subseteq Row
  BY DEF IInv, TypeOK
<1>2. CASE Poll
  <2>1. PollRow \in Row
    BY NewRows
  <2>2. Stored(PollRow) \subseteq rows \cup {PollRow}
    BY <1>1, <2>1, StoredRow
  <2>3. QED
    BY <1>2, <2>2, IngestedRows
<1>3. CASE Push
  <2>1. helper # 0 /\ rows' = Stored(HelperRow)
    BY <1>3, IngestedRows
  <2>2. HelperRow \in Row
    BY <2>1, NewRows
  <2>3. Stored(HelperRow) \subseteq rows \cup {HelperRow}
    BY <1>1, <2>2, StoredRow
  <2>4. QED
    BY <1>3, <2>1, <2>3
<1>4. CASE PushChunk
  <2>1. ChunkRow \in Row
    BY <1>4, NewRows DEF PushChunk
  <2>2. Stored(ChunkRow) \subseteq rows \cup {ChunkRow}
    BY <1>1, <2>1, StoredRow
  <2>3. QED
    BY <1>4, <2>2, IngestedRows
<1>5. CASE Clean
  BY <1>5, Cleaned
<1>6. QED
  BY <1>2, <1>3, <1>4, <1>5, RowsStay

LEMMA RowsGone ==
  ASSUME IInv, [Next]_vars, NEW r \in rows \ rows'
  PROVE  Replaced(r) \/ r.ts < purged'
<1>1. ASSUME NEW x \in Row, rows' = Stored(x) PROVE Replaced(r)
  <2>1. \A q \in rows \ Stored(x) : q.ts = x.ts /\ q.source = x.source /\ x \in Stored(x)
    BY StoredRow DEF IInv, TypeOK
  <2>2. QED
    BY <1>1, <2>1 DEF Replaced
<1>2. CASE Poll
  <2>1. PollRow \in Row
    BY NewRows
  <2>2. QED
    BY <1>1, <1>2, <2>1, IngestedRows
<1>3. CASE Push
  <2>1. helper # 0 => HelperRow \in Row
    BY NewRows
  <2>2. QED
    BY <1>1, <1>3, <2>1, IngestedRows
<1>4. CASE PushChunk
  <2>1. ChunkRow \in Row
    BY <1>4, NewRows DEF PushChunk
  <2>2. QED
    BY <1>1, <1>4, <2>1, IngestedRows
<1>5. CASE Clean
  BY <1>5, Cleaned
<1>6. QED
  BY <1>2, <1>3, <1>4, <1>5, RowsStay

LEMMA PurgedGrows ==
  ASSUME IInv, [Next]_vars
  PROVE  purged \in Nat /\ purged' \in Nat /\ purged <= purged'
<1>1. purged \in Nat
  BY DEF IInv, TypeOK
<1>2. purged' = purged \/ Clean
  BY TimePasses DEF IInv
<1>3. CASE Clean
  BY <1>1, <1>3, Cleaned
<1>4. QED
  BY <1>1, <1>2, <1>3

LEMMA RemainsOnce ==
  ASSUME NEW m \in 1 .. Chunk, NEW n \in 1 .. Chunk, Remains(m), Remains(n)
  PROVE  m = n
<1>1. Chunk \in Nat \ {0} /\ Span \in Nat
  BY Constants
<1>2. PICK a \in 0 .. Span : m + a * Chunk = Span
  BY DEF Remains
<1>3. PICK b \in 0 .. Span : n + b * Chunk = Span
  BY DEF Remains
<1>4. ASSUME NEW c \in Int, NEW d \in Int, c < d
      PROVE  c * Chunk \in Int /\ d * Chunk \in Int /\ c * Chunk + Chunk <= d * Chunk
  <2>1. c + 1 \in Int /\ c + 1 <= d
    BY <1>4
  <2>2. (c + 1) * Chunk <= d * Chunk /\ d * Chunk \in Int
    BY <1>1, <2>1, TimesMonotone
  <2>3. (c + 1) * Chunk = c * Chunk + Chunk /\ c * Chunk \in Int
    BY <1>1
  <2>4. QED
    BY <2>2, <2>3
<1>5. ~ (a < b)
  BY <1>1, <1>2, <1>3, <1>4
<1>6. ~ (b < a)
  BY <1>1, <1>2, <1>3, <1>4
<1>7. QED
  BY <1>1, <1>2, <1>3, <1>5, <1>6

LEMMA RemainsNext ==
  ASSUME NEW n \in Nat, Chunk < n, Remains(n)
  PROVE  Remains(n - Chunk)
<1>1. Chunk \in Nat \ {0} /\ Span \in Nat
  BY Constants
<1>2. PICK k \in 0 .. Span : n + k * Chunk = Span
  BY DEF Remains
<1>3. k + 1 \in Nat /\ 1 * (k + 1) <= Chunk * (k + 1) /\ Chunk * (k + 1) = k * Chunk + Chunk
  <2>1. k + 1 \in Nat
    OBVIOUS
  <2>2. 1 * (k + 1) <= Chunk * (k + 1)
    BY <1>1, <2>1, TimesMonotone
  <2>3. Chunk * (k + 1) = k * Chunk + Chunk
    BY <1>1
  <2>4. QED
    BY <2>1, <2>2, <2>3
<1>4. (k + 1) * Chunk = k * Chunk + Chunk /\ k * Chunk \in Int
  BY <1>1
<1>5. k + 1 \in 0 .. Span /\ n - Chunk + (k + 1) * Chunk = Span
  BY <1>1, <1>2, <1>3, <1>4
<1>6. QED
  BY <1>5 DEF Remains

LEMMA RemainsAll == Remains(Span)
<1>1. 0 \in 0 .. Span /\ Span + 0 * Chunk = Span
  BY Constants
<1>2. QED
  BY <1>1 DEF Remains

\* A chunk is full, or the last one.
LEMMA ChunkLength ==
  ASSUME IInv, LengthsAgree, PushChunk
  PROVE  /\ ChunkRow \in Row /\ ChunkRow.ts = ChunkEnd /\ ChunkRow.from = import.cursor
         /\ ChunkRow.source = "import"
         /\ Length(ChunkRow) \in 1 .. Chunk
         /\ ChunkEnd = import.end => Remains(Length(ChunkRow))
         /\ ChunkEnd # import.end => /\ Length(ChunkRow) = Chunk
                                     /\ Remains(import.end - ChunkEnd)
<1>1. /\ ChunkRow \in Row /\ ChunkEnd \in Nat /\ import.cursor \in Nat /\ import.end \in Nat
      /\ import.cursor < ChunkEnd /\ ChunkEnd <= import.end /\ import.at = "chunk"
      /\ Chunk \in Nat
  BY NewRows, Constants DEF PushChunk, IInv, TypeOK
<1>2. /\ ChunkRow.ts = ChunkEnd /\ ChunkRow.from = import.cursor
      /\ ChunkRow.source = "import"
  BY DEF ChunkRow
<1>3. /\ ChunkEnd \in {import.cursor + Chunk, import.end}
      /\ ChunkEnd <= import.cursor + Chunk
  <2>1. import.cursor + Chunk \in Int /\ import.end \in Int
    BY <1>1
  <2>2. QED
    BY <2>1, MinOfTwo DEF ChunkEnd
<1>4. Length(ChunkRow) = ChunkEnd - import.cursor
  BY <1>2 DEF Length
<1>5. Length(ChunkRow) \in 1 .. Chunk
  BY <1>1, <1>3, <1>4
<1>6. Remains(import.end - import.cursor)
  BY <1>1 DEF LengthsAgree
<1>7. ASSUME ChunkEnd # import.end
      PROVE  Length(ChunkRow) = Chunk /\ Remains(import.end - ChunkEnd)
  <2>1. ChunkEnd = import.cursor + Chunk
    BY <1>3, <1>7
  <2>2. /\ import.end - import.cursor \in Nat /\ Chunk < import.end - import.cursor
        /\ import.end - ChunkEnd = (import.end - import.cursor) - Chunk
    BY <1>1, <1>7, <2>1
  <2>3. Remains((import.end - import.cursor) - Chunk)
    BY <1>6, <2>2, RemainsNext
  <2>4. QED
    BY <1>1, <1>4, <2>1, <2>2, <2>3
<1>8. QED
  BY <1>1, <1>2, <1>4, <1>5, <1>6, <1>7

\* What an import's rows are compared with.
Ends == {now} \cup {e \in {import.end} : import.at # "off"}

LEMMA EndsStay ==
  ASSUME IInv, [Next]_vars, NEW t \in Nat, t <= now, t \in Ends'
  PROVE  t \in Ends
<1>1. now \in Nat /\ now' \in Nat /\ (now' = now \/ now < now')
  BY TimePasses DEF IInv, TypeOK
<1>2. import \in ImportType
  BY DEF IInv, TypeOK, ImportType
<1>3. CASE StartImport
  <2>1. import'.end = now /\ now' = now
    BY <1>3 DEF StartImport, ImportChanges
  <2>2. QED
    BY <2>1 DEF Ends
<1>4. CASE PushChunk \/ ReportProgress
  <2>1. import'.end = import.end /\ import.at # "off" /\ now' = now
    BY <1>2, <1>4 DEF PushChunk, ReportProgress, ImportChanges, Ingest, ImportType
  <2>2. QED
    BY <2>1 DEF Ends
<1>5. CASE ChunkFails \/ Complete
  <2>1. import'.at = "off" /\ now' = now
    BY <1>2, <1>5 DEF ChunkFails, Complete, ImportChanges, Off, ImportType
  <2>2. QED
    BY <2>1 DEF Ends
<1>6. CASE ~ (StartImport \/ PushChunk \/ ReportProgress \/ ChunkFails \/ Complete)
  <2>1. import' = import
    BY <1>6, ImportStays
  <2>2. t = now' => t = now
    BY <1>1
  <2>3. QED
    BY <2>1, <2>2 DEF Ends
<1>7. QED
  BY <1>3, <1>4, <1>5, <1>6

LEMMA LengthsStep == ASSUME IInv, LengthsAgree, [Next]_vars PROVE LengthsAgree'
<1>1. /\ import \in ImportType /\ now \in Nat /\ ImportPlace
      /\ \A r \in rows : r \in Row /\ r.ts <= now
  BY DEF IInv, TypeOK, ImportType, Clocks, ImportPlace, ImportAdvances
<1>2. ASSUME NEW r \in rows', r.source = "helper" PROVE Length(r) = Window
  <2>1. CASE r \in rows
    BY <1>2, <2>1 DEF LengthsAgree, Rows
  <2>2. CASE r \notin rows
    <3>1. helper # 0 /\ r = HelperRow
      BY <1>2, <2>2, RowsWritten DEF PollRow, ChunkRow
    <3>2. helper \in Nat /\ Window \in Nat
      BY Constants DEF IInv, TypeOK
    <3>3. QED
      BY <3>1, <3>2 DEF Length, HelperRow
  <2>3. QED
    BY <2>1, <2>2
<1>3. ASSUME NEW r \in rows', r.source = "import"
      PROVE  Length(r) \in 1 .. Chunk /\ (r.ts \in Ends' => Remains(Length(r)))
  <2>1. CASE r \in rows
    <3>1. Length(r) \in 1 .. Chunk /\ (r.ts \in Ends => Remains(Length(r)))
      BY <1>3, <2>1 DEF LengthsAgree, Rows, Ends
    <3>2. r.ts \in Nat /\ r.ts <= now
      BY <1>1, <2>1 DEF Row
    <3>3. QED
      BY <3>1, <3>2, EndsStay
  <2>2. CASE r \notin rows
    <3>1. PushChunk /\ r = ChunkRow
      BY <1>3, <2>2, RowsWritten DEF PollRow, HelperRow
    <3>2. /\ r.ts = ChunkEnd /\ Length(r) \in 1 .. Chunk
          /\ ChunkEnd = import.end => Remains(Length(r))
      BY <3>1, ChunkLength
    <3>3. /\ import'.end = import.end /\ now' = now
          /\ import.at = "chunk" /\ ChunkEnd <= import.end /\ ChunkEnd \in Nat
          /\ import.end \in Nat /\ import.end <= now
      BY <1>1, <3>1, NewRows DEF PushChunk, Ingest, ImportType, ImportPlace
    <3>4. ChunkEnd \in Ends' => ChunkEnd = import.end
      BY <1>1, <3>3 DEF Ends
    <3>5. QED
      BY <3>2, <3>4
  <2>3. QED
    BY <2>1, <2>2
<1>4. ASSUME import'.at # "off", import'.cursor < import'.end
      PROVE  Remains(import'.end - import'.cursor)
  <2>1. CASE StartImport
    <3>1. import'.end = now /\ import'.cursor = now - Span
      BY <2>1 DEF StartImport, ImportChanges
    <3>2. import'.end - import'.cursor = Span
      BY <1>1, <3>1, Constants
    <3>3. QED
      BY <3>2, RemainsAll
  <2>2. CASE PushChunk
    <3>1. import'.end = import.end /\ import'.cursor = ChunkEnd
      BY <1>1, <2>2 DEF PushChunk, ImportType
    <3>2. ChunkEnd # import.end
      BY <1>1, <1>4, <3>1 DEF ImportType
    <3>3. QED
      BY <2>2, <3>1, <3>2, ChunkLength
  <2>3. CASE ReportProgress
    <3>1. import'.end = import.end /\ import'.cursor = import.cursor /\ import.at # "off"
      BY <1>1, <2>3 DEF ReportProgress, ImportChanges, ImportType
    <3>2. QED
      BY <1>4, <3>1 DEF LengthsAgree
  <2>4. CASE ChunkFails \/ Complete
    BY <1>1, <1>4, <2>4 DEF ChunkFails, Complete, ImportChanges, Off, ImportType
  <2>5. CASE ~ (StartImport \/ PushChunk \/ ReportProgress \/ ChunkFails \/ Complete)
    BY <1>4, <2>5, ImportStays DEF LengthsAgree
  <2>6. QED
    BY <2>1, <2>2, <2>3, <2>4, <2>5
<1>5. QED
  <2>1. \A r \in Rows("helper")' : Length(r) = Window
    BY <1>2 DEF Rows
  <2>2. \A r \in Rows("import")' :
          Length(r) \in 1 .. Chunk /\ (r.ts \in Ends' => Remains(Length(r)))
    BY <1>3 DEF Rows
  <2>3. QED
    BY <1>4, <2>1, <2>2 DEF LengthsAgree, Ends, Length, Remains

LEMMA KeysStep == ASSUME IInv, KeysAreUnique, [Next]_vars PROVE KeysAreUnique'
<1>1. ASSUME NEW r \in rows', NEW q \in rows', r.ts = q.ts, r.source = q.source
      PROVE  r = q
  <2>1. ASSUME NEW x \in Row, rows' = Stored(x) PROVE r = q
    <3>1. \/ rows' = rows
          \/ rows' = {p \in rows : <<p.ts, p.source>> # <<x.ts, x.source>>} \cup {x}
      BY <2>1 DEF Stored
    <3>2. QED
      BY <1>1, <3>1 DEF KeysAreUnique
  <2>2. CASE rows' \subseteq rows
    BY <1>1, <2>2 DEF KeysAreUnique
  <2>3. CASE Poll
    <3>1. PollRow \in Row
      BY NewRows
    <3>2. QED
      BY <2>1, <2>2, <2>3, <3>1, IngestedRows
  <2>4. CASE Push
    <3>1. helper # 0 => HelperRow \in Row
      BY NewRows
    <3>2. QED
      BY <2>1, <2>2, <2>4, <3>1, IngestedRows
  <2>5. CASE PushChunk
    <3>1. ChunkRow \in Row
      BY <2>5, NewRows DEF PushChunk
    <3>2. QED
      BY <2>1, <2>5, <3>1, IngestedRows
  <2>6. CASE Clean
    BY <2>2, <2>6, Cleaned
  <2>7. QED
    BY <2>2, <2>3, <2>4, <2>5, <2>6, RowsStay
<1>2. ASSUME NEW o \in hourly', NEW p \in hourly', o.hour = p.hour, o.source = p.source
      PROVE  o = p
  <2>1. CASE UNCHANGED <<hourly, watermark>>
    BY <1>2, <2>1 DEF KeysAreUnique
  <2>2. CASE Aggregate /\ ~ UNCHANGED <<hourly, watermark>>
    <3>1. /\ hourly' = DueSums \cup hourly
          /\ \A h \in Due : h \in Nat /\ watermark < h
      BY <2>2, Aggregated
    <3>2. ASSUME NEW s \in DueSums PROVE s.hour \in Due /\ s = Sum(s.hour, s.source)
      <4>1. PICK r \in rows : Hour(r.ts) \in Due /\ s = Sum(Hour(r.ts), r.source)
        BY DueSumsType
      <4>2. s.hour = Hour(r.ts) /\ s.source = r.source
        BY <4>1 DEF Sum
      <4>3. QED
        BY <4>1, <4>2
    <3>3. \A s \in hourly : s.hour \in Nat /\ s.hour <= watermark
      BY DEF IInv, TypeOK, HourSum, ArchiveEnds
    <3>4. watermark \in Nat
      BY DEF IInv, TypeOK
    <3>5. CASE o \in DueSums /\ p \in DueSums
      BY <1>2, <3>2, <3>5
    <3>6. CASE o \in hourly /\ p \in hourly
      BY <1>2, <3>6 DEF KeysAreUnique
    <3>7. ASSUME NEW s \in DueSums, NEW t \in hourly PROVE s.hour # t.hour
      BY <3>1, <3>2, <3>3, <3>4
    <3>8. QED
      BY <1>2, <3>1, <3>5, <3>6, <3>7
  <2>3. QED
    BY <2>1, <2>2, ArchiveStays
<1>3. QED
  BY <1>1, <1>2 DEF KeysAreUnique

LEMMA SumsHaveRowsStep == ASSUME IInv, SumsHaveRows, [Next]_vars PROVE SumsHaveRows'
<1>1. /\ purged \in Nat /\ purged' \in Nat /\ purged <= purged'
      /\ HourSlots \in Nat \ {0}
  BY PurgedGrows, Constants
<1>2. hourly' \subseteq HourSum /\ hourly \subseteq HourSum
  BY ArchiveTypes DEF IInv, TypeOK
<1>3. ASSUME NEW o \in hourly
      PROVE  Archived(o)' \/ \E r \in Rows(o.source)' : Hour(r.ts) = o.hour
  <2>1. o.hour \in Nat /\ o.hour * HourSlots \in Nat
    BY <1>1, <1>2 DEF HourSum
  <2>2. CASE Archived(o)
    BY <1>1, <2>1, <2>2 DEF Archived
  <2>3. CASE ~ Archived(o)
    <3>1. PICK r \in rows : r.source = o.source /\ Hour(r.ts) = o.hour
      BY <2>3 DEF SumsHaveRows, Rows
    <3>2. CASE r \in rows'
      BY <3>1, <3>2 DEF Rows
    <3>3. CASE r \notin rows' /\ Replaced(r)
      BY <3>1, <3>3 DEF Replaced, Rows
    <3>4. CASE r \notin rows' /\ ~ Replaced(r)
      <4>1. r.ts < purged' /\ r.ts \in Nat
        BY <3>4, RowsGone DEF IInv, TypeOK, Row
      <4>2. o.hour * HourSlots <= r.ts
        BY <2>1, <3>1, <4>1, HourBound
      <4>3. QED
        BY <1>1, <2>1, <4>1, <4>2 DEF Archived
    <3>5. QED
      BY <3>2, <3>3, <3>4
  <2>4. QED
    BY <2>2, <2>3
<1>4. ASSUME Aggregate, NEW s \in DueSums
      PROVE  \E r \in Rows(s.source)' : Hour(r.ts) = s.hour
  <2>1. PICK r \in rows : s = Sum(Hour(r.ts), r.source)
    BY DueSumsType
  <2>2. s.hour = Hour(r.ts) /\ s.source = r.source
    BY <2>1 DEF Sum
  <2>3. rows' = rows
    BY <1>4 DEF Aggregate
  <2>4. QED
    BY <2>2, <2>3 DEF Rows
<1>5. \/ hourly' = hourly
      \/ Aggregate /\ hourly' = DueSums \cup hourly
  BY ArchiveStays, Aggregated
<1>6. QED
  BY <1>3, <1>4, <1>5 DEF SumsHaveRows, Hour

\* The rows of an hour that was summed and not deleted add up to as much or more.
LEMMA SumsGrow ==
  ASSUME IInv, ArchiveInv, [Next]_vars, NEW o \in hourly, ~ Archived(o)'
  PROVE  Sum(o.hour, o.source).bytes <= Sum(o.hour, o.source)'.bytes
<1> DEFINE h == o.hour
           s == o.source
<1>1. /\ IsFiniteSet(rows) /\ rows \subseteq Row /\ h \in Nat /\ s \in Sources
      /\ 1 <= h /\ h <= watermark /\ watermark \in Nat
      /\ watermark < Hour(now) /\ Hour(now) \in Int
      /\ \A r \in rows : r.ts \in Nat /\ Hour(r.ts) \in Int
  BY HoursAndDays DEF IInv, TypeOK, HourSum, ArchiveEnds, Row
<1>2. busy' = busy
  BY BusyStays
<1>3. Sum(h, s).bytes \in Nat
  <2>1. Sum(h, s) \in HourSum
    BY <1>1, SumEntry
  <2>2. QED
    BY <2>1 DEF HourSum
<1>4. ASSUME {q \in rows' : Hour(q.ts) = h /\ q.source = s}
               = {q \in rows : Hour(q.ts) = h /\ q.source = s}
      PROVE  Sum(h, s).bytes <= Sum(h, s)'.bytes
  <2>1. Sum(h, s)' = Sum(h, s)
    BY <1>2, <1>4, SameSum
  <2>2. QED
    BY <1>3, <2>1
<1>5. CASE rows' = rows
  BY <1>4, <1>5
<1>6. CASE Poll /\ rows' = Stored(PollRow)
  <2>1. PollRow \in Row /\ PollRow.ts = now
    BY NewRows DEF PollRow
  <2>2. /\ Stored(PollRow) \subseteq rows \cup {PollRow}
        /\ \A r \in rows \ Stored(PollRow) : r.ts = now
    BY <1>1, <2>1, StoredRow
  <2>3. Hour(now) # h
    BY <1>1
  <2>4. {q \in rows' : Hour(q.ts) = h /\ q.source = s}
          = {q \in rows : Hour(q.ts) = h /\ q.source = s}
    BY <1>6, <2>1, <2>2, <2>3
  <2>5. QED
    BY <1>4, <2>4
<1>7. CASE Push /\ rows' # rows
  <2>1. HelperRow \in Row /\ rows' = Stored(HelperRow)
    BY <1>7, NewRows, IngestedRows
  <2>2. ASSUME NEW q \in rows, q.ts = HelperRow.ts, q.source = HelperRow.source
        PROVE  HelperRow.from <= q.from
    <3>1. Length(q) = Window
      BY <2>2 DEF ArchiveInv, LengthsAgree, Rows, HelperRow
    <3>2. q.from \in Int /\ q.ts \in Nat /\ Window \in Nat /\ helper \in Nat
      BY <1>1, Constants DEF Row, IInv, TypeOK
    <3>3. QED
      BY <2>2, <3>1, <3>2 DEF Length, HelperRow
  <2>3. KeysAreUnique
    BY DEF ArchiveInv
  <2>4. QED
    BY <1>1, <1>2, <2>1, <2>2, <2>3, StoredGrows
<1>8. CASE PushChunk
  <2>1. /\ ChunkRow \in Row /\ ChunkRow.ts = ChunkEnd /\ ChunkRow.from = import.cursor
        /\ ChunkRow.source = "import" /\ Length(ChunkRow) \in 1 .. Chunk
        /\ ChunkEnd = import.end => Remains(Length(ChunkRow))
        /\ ChunkEnd # import.end => Length(ChunkRow) = Chunk
    BY <1>8, ChunkLength DEF ArchiveInv
  <2>2. rows' = Stored(ChunkRow)
    BY <1>8, IngestedRows
  <2>3. ASSUME NEW q \in rows, q.ts = ChunkRow.ts, q.source = ChunkRow.source
        PROVE  ChunkRow.from <= q.from
    <3>1. /\ Length(q) \in 1 .. Chunk
          /\ q.ts = import.end => Remains(Length(q))
      BY <1>8, <2>1, <2>3 DEF ArchiveInv, LengthsAgree, Rows, PushChunk
    <3>2. Length(q) <= Length(ChunkRow)
      <4>1. CASE ChunkEnd = import.end
        <5>1. Length(q) = Length(ChunkRow)
          BY <2>1, <2>3, <3>1, <4>1, RemainsOnce
        <5>2. QED
          BY <3>1, <5>1
      <4>2. CASE ChunkEnd # import.end
        BY <2>1, <3>1, <4>2, Constants
      <4>3. QED
        BY <4>1, <4>2
    <3>3. q.from \in Int /\ q.ts \in Nat /\ ChunkRow.from \in Int
      BY <1>1, <2>1 DEF Row
    <3>4. QED
      BY <2>3, <3>2, <3>3 DEF Length
  <2>4. KeysAreUnique
    BY DEF ArchiveInv
  <2>5. QED
    BY <1>1, <1>2, <2>1, <2>2, <2>3, <2>4, StoredGrows
<1>9. CASE Clean /\ rows' # rows
  <2>1. /\ rows' = {r \in rows : CutoffDay * DayHours <= Hour(r.ts)}
        /\ \A k \in Int : purged' <= k * HourSlots => CutoffDay * DayHours <= k
        /\ purged' \in Nat
    BY <1>9, Cleaned
  <2>2. purged' <= h * HourSlots
    BY <1>1, <2>1, Constants DEF Archived
  <2>3. CutoffDay * DayHours <= h
    BY <1>1, <2>1, <2>2
  <2>4. {q \in rows' : Hour(q.ts) = h /\ q.source = s}
          = {q \in rows : Hour(q.ts) = h /\ q.source = s}
    BY <2>1, <2>3
  <2>5. QED
    BY <1>4, <2>4
<1>10. QED
  BY <1>5, <1>6, <1>7, <1>8, <1>9, RowsStay, IngestedRows

SumsTyped == \A h \in Nat, s \in Sources : Sum(h, s) \in HourSum

LEMMA NextSumsTyped == TypeOK' => SumsTyped'
<1>1. TypeOK => SumsTyped
  BY SumEntry DEF TypeOK, SumsTyped
<1>2. QED
  BY <1>1, PTL

LEMMA SumsLagStep == ASSUME IInv, ArchiveInv, [Next]_vars PROVE SumsLag'
<1>1. /\ purged \in Nat /\ purged' \in Nat /\ purged <= purged'
      /\ HourSlots \in Nat \ {0}
      /\ hourly \subseteq HourSum
  BY PurgedGrows, Constants DEF IInv, TypeOK
<1>2. ASSUME NEW o \in hourly
      PROVE  Archived(o)' \/ o.bytes <= Sum(o.hour, o.source)'.bytes
  <2>1. o.hour \in Nat /\ o.hour * HourSlots \in Nat /\ o.bytes \in Nat /\ o.source \in Sources
    BY <1>1 DEF HourSum
  <2>2. CASE Archived(o)
    BY <1>1, <2>1, <2>2 DEF Archived
  <2>3. CASE ~ Archived(o) /\ ~ Archived(o)'
    <3>1. o.bytes <= Sum(o.hour, o.source).bytes
      BY <2>3 DEF ArchiveInv, SumsLag
    <3>2. Sum(o.hour, o.source).bytes <= Sum(o.hour, o.source)'.bytes
      BY <2>3, SumsGrow
    <3>3. Sum(o.hour, o.source) \in HourSum
      BY <2>1, SumEntry DEF IInv, TypeOK
    <3>4. Sum(o.hour, o.source)' \in HourSum
      <4>1. SumsTyped'
        BY TypeStep, NextSumsTyped
      <4>2. QED
        BY <2>1, <4>1 DEF SumsTyped
    <3>5. /\ Sum(o.hour, o.source).bytes \in Nat
          /\ Sum(o.hour, o.source)'.bytes \in Nat
      BY <3>3, <3>4 DEF HourSum
    <3>6. QED
      BY <2>1, <3>1, <3>2, <3>5
  <2>4. QED
    BY <2>2, <2>3
<1>3. ASSUME Aggregate, NEW o \in DueSums
      PROVE  o.bytes <= Sum(o.hour, o.source)'.bytes
  <2>1. PICK r \in rows : o = Sum(Hour(r.ts), r.source)
    BY DueSumsType
  <2>2. o.hour = Hour(r.ts) /\ o.source = r.source
    BY <2>1 DEF Sum
  <2>3. rows' = rows /\ busy' = busy
    BY <1>3 DEF Aggregate
  <2>4. Sum(o.hour, o.source)' = Sum(o.hour, o.source)
    BY <2>3, SameSum
  <2>5. o \in HourSum
    BY DueSumsType
  <2>6. QED
    BY <2>1, <2>2, <2>4, <2>5 DEF HourSum
<1>4. \/ hourly' = hourly
      \/ Aggregate /\ hourly' = DueSums \cup hourly
  BY ArchiveStays, Aggregated
<1>5. QED
  BY <1>2, <1>3, <1>4 DEF SumsLag

LEMMA ArchiveStep == ASSUME IInv, ArchiveInv, [Next]_vars PROVE ArchiveInv'
<1>1. SumsHaveRows' /\ SumsLag' /\ KeysAreUnique' /\ LengthsAgree'
  BY SumsHaveRowsStep, SumsLagStep, KeysStep, LengthsStep DEF ArchiveInv
<1>2. QED
  BY <1>1 DEF ArchiveInv

LEMMA InitArchive == ASSUME Init PROVE ArchiveInv
BY DEF Init, ArchiveInv, SumsHaveRows, SumsLag, KeysAreUnique, LengthsAgree, Rows, Off

(***************************************************************************)
(* For any slots, chunks, retention and faults: sums are of rows that are  *)
(* there or were deleted, never ahead of them, one for each key; and a row *)
(* is replaced only by one that covers as much.                            *)
(***************************************************************************)
THEOREM ArchiveIsSound == Spec => []ArchiveInv
<1>1. QED
  BY InvariantHolds, InitArchive, ArchiveStep, PTL DEF Spec

-----------------------------------------------------------------------------
(***************************************************************************)
(* What the queries show.                                                  *)
(***************************************************************************)
LEMMA HourStarts ==
  ASSUME NEW h \in Nat
  PROVE  h * HourSlots \in Nat /\ Hour(h * HourSlots) = h
<1> DEFINE t == h * HourSlots
<1>1. HourSlots \in Nat \ {0} /\ t \in Nat
  BY Constants
<1>2. Hour(t) \in Int
  BY <1>1, HoursAndDays
<1>3. h <= Hour(t)
  BY <1>1, HourBound
<1>4. ~ (h + 1 <= Hour(t))
  <2>1. (h + 1) * HourSlots = t + HourSlots
    BY <1>1
  <2>2. ~ ((h + 1) * HourSlots <= t)
    BY <1>1, <2>1
  <2>3. h + 1 \in Int /\ t \in Int
    BY <1>1
  <2> HIDE DEF t
  <2>4. QED
    BY <2>2, <2>3, HourBound
<1>5. QED
  BY <1>1, <1>2, <1>3, <1>4

LEMMA CutoverOfHelper ==
  ASSUME IInv, NEW r \in Rows("helper"), NEW c \in HelperCutover
  PROVE  c \in Nat /\ c <= r.ts /\ r.ts \in Nat
<1> DEFINE T == {q.ts : q \in Rows("helper")}
<1>1. T \in SUBSET Nat /\ r.ts \in T
  BY DEF IInv, TypeOK, Row, Rows
<1>2. c = Min(T)
  BY DEF HelperCutover
<1>3. Min(T) \in T /\ Min(T) <= r.ts
  <2> HIDE DEF T
  <2>1. QED
    BY <1>1, MinOfNats
<1>4. QED
  BY <1>1, <1>2, <1>3

(***************************************************************************)
(* However the loop, an import and retention overlap, the heatmap adds no  *)
(* import to the same hour of the helper but in the hour of its first row. *)
(***************************************************************************)
THEOREM HeatmapIsCut == Spec => []HeatmapCountsOnce
<1>1. IInv /\ ArchiveInv => HeatmapCountsOnce
  <2> DEFINE cells == Heatmap({"app", "interface", "type"}, 0, MaxTime + 1)
  <2>1. SUFFICES ASSUME IInv, ArchiveInv, NEW o \in cells, NEW q \in cells,
                        o.source = "import", q.source = "helper", o.ts = q.ts,
                        ~ (o.ts < purged), NEW c \in HelperCutover
                 PROVE  Hour(c) = Hour(o.ts)
    BY DEF HeatmapCountsOnce
  <2>2. o \in HourRows /\ q \in HourRows /\ HeatmapCell(o)
    BY <2>1 DEF Heatmap, Between
  <2>3. PICK e \in hourly : q.ts = e.hour * HourSlots /\ e.source = "helper"
    BY <2>1, <2>2 DEF HourRows
  <2>4. e.hour \in Nat /\ e.hour * HourSlots \in Nat /\ Hour(q.ts) = e.hour /\ purged \in Nat
    BY <2>1, <2>3, HourStarts DEF IInv, TypeOK, HourSum
  <2>5. ~ Archived(e)
    BY <2>1, <2>3 DEF Archived
  <2>6. PICK r \in Rows("helper") : Hour(r.ts) = e.hour
    BY <2>1, <2>3, <2>5 DEF ArchiveInv, SumsHaveRows
  <2>7. c \in Nat /\ c <= r.ts /\ r.ts \in Nat
    BY <2>1, CutoverOfHelper
  <2>8. q.ts < c
    BY <2>1, <2>2 DEF HeatmapCell
  <2>9. Hour(c) <= e.hour /\ e.hour <= Hour(c) /\ Hour(c) \in Int
    <3>1. Hour(c) <= Hour(r.ts) /\ Hour(c) \in Int
      BY <2>7, HoursPass, HoursAndDays
    <3>2. e.hour * HourSlots <= c
      BY <2>3, <2>4, <2>7, <2>8
    <3>3. e.hour <= Hour(c)
      BY <2>4, <2>7, <3>2, HourBound
    <3>4. QED
      BY <2>6, <3>1, <3>3
  <2>10. QED
    BY <2>1, <2>4, <2>9
<1>2. QED
  BY <1>1, InvariantHolds, ArchiveIsSound, PTL

-----------------------------------------------------------------------------
(***************************************************************************)
(* The cut of the audit, without the query's minimum: ...                  *)
(***************************************************************************)
CutOfAudit ==
  \A r \in Rows("import") : r \in Audited <=> \A h \in Rows("helper") : r.ts < h.ts

LEMMA AuditIsCut == IInv => CutOfAudit
<1>1. SUFFICES ASSUME IInv, NEW r \in Rows("import")
               PROVE  r \in Audited <=> \A h \in Rows("helper") : r.ts < h.ts
  BY DEF CutOfAudit
<1>2. r \in rows /\ r.source = "import" /\ r.ts \in Nat /\ r.ts <= MaxTime
  <2>1. r \in rows /\ r.source = "import"
    BY <1>1 DEF Rows
  <2>2. r.ts \in Nat
    BY <1>1, <2>1 DEF IInv, TypeOK, Row
  <2>3. r.ts <= now /\ now <= MaxTime /\ now \in Nat /\ MaxTime \in Nat
    BY <1>1, <2>1, Constants DEF IInv, TypeOK, Clocks
  <2>4. QED
    BY <2>1, <2>2, <2>3
<1>3. r \in Audited <=> \A c \in HelperCutover : r.ts < c
  BY <1>2, Constants DEF Audited, AuditRows
<1>4. CASE Rows("helper") = {}
  BY <1>3, <1>4 DEF HelperCutover
<1>5. CASE Rows("helper") # {}
  <2> DEFINE T == {h.ts : h \in Rows("helper")}
  <2>1. HelperCutover = {Min(T)}
    BY <1>5 DEF HelperCutover
  <2>2. T \in SUBSET Nat /\ T # {}
    BY <1>1, <1>5 DEF IInv, TypeOK, Row, Rows
  <2>3. (\A h \in Rows("helper") : r.ts < h.ts) <=> \A t \in T : r.ts < t
    <3>1. ASSUME \A h \in Rows("helper") : r.ts < h.ts, NEW t \in T PROVE r.ts < t
      BY <3>1
    <3>2. ASSUME \A t \in T : r.ts < t, NEW h \in Rows("helper") PROVE r.ts < h.ts
      <4>1. h.ts \in T
        OBVIOUS
      <4> HIDE DEF T
      <4>2. QED
        BY <3>2, <4>1
    <3> HIDE DEF T
    <3>3. QED
      BY <3>1, <3>2
  <2> HIDE DEF T
  <2>4. Min(T) \in T /\ \A t \in T : Min(T) <= t
    BY <2>2, MinOfNats
  <2>5. r.ts < Min(T) <=> \A t \in T : r.ts < t
    <3>1. Min(T) \in Nat /\ \A t \in T : t \in Nat
      BY <2>2, <2>4
    <3>2. QED
      BY <1>2, <2>4, <3>1
  <2>6. QED
    BY <1>3, <2>1, <2>3, <2>5
<1>6. QED
  BY <1>4, <1>5

\* ... the helper gets only the row that its loop has in hand, ...
LEMMA NewHelperRow ==
  ASSUME IInv, [Next]_vars, NEW q \in Rows("helper")', q \notin rows
  PROVE  helper # 0 /\ q.ts = helper /\ helper' = 0
<1>1. q \in rows' /\ q.source = "helper"
  BY DEF Rows
<1>2. ASSUME NEW x \in Row, rows' = Stored(x) PROVE q = x
  BY <1>1, <1>2, StoredRow DEF IInv, TypeOK
<1>3. CASE Push
  <2>1. helper # 0 /\ rows' = Stored(HelperRow) /\ HelperRow \in Row
    BY <1>1, <1>3, IngestedRows, NewRows
  <2>2. q = HelperRow
    BY <1>2, <2>1
  <2>3. QED
    BY <1>3, <2>1, <2>2 DEF Push, HelperRow
<1>4. CASE PushChunk
  <2>1. ChunkRow \in Row /\ rows' = Stored(ChunkRow)
    BY <1>4, IngestedRows, NewRows DEF PushChunk
  <2>2. QED
    BY <1>1, <1>2, <2>1 DEF ChunkRow
<1>5. CASE Poll
  <2>1. PollRow \in Row /\ rows' = Stored(PollRow)
    BY <1>1, <1>5, IngestedRows, NewRows
  <2>2. QED
    BY <1>1, <1>2, <2>1 DEF PollRow
<1>6. CASE Clean
  BY <1>1, <1>6, Cleaned
<1>7. QED
  BY <1>1, <1>3, <1>4, <1>5, <1>6, RowsStay

\* ... and that row ends no earlier than those it has got.
LEMMA PushesStayInTurn ==
  ASSUME IInv, PushesInTurn, [Next]_vars
  PROVE  PushesInTurn'
<1>1. SUFFICES ASSUME helper' # 0, NEW h \in Rows("helper")'
               PROVE  h.ts <= helper'
  BY DEF PushesInTurn
<1>2. h \in Rows("helper")
  BY <1>1, NewHelperRow DEF Rows
<1>3. h.ts <= now
  BY <1>2 DEF IInv, Clocks, Rows
<1>4. helper' = helper \/ helper' = now
  BY <1>1, TimesSeen
<1>5. QED
  BY <1>1, <1>2, <1>3, <1>4 DEF PushesInTurn

LEMMA SourceKept ==
  ASSUME IInv, IInv', CutOfAudit, CutOfAudit', PushesInTurn, [Next]_vars,
         NEW r \in Rows("import"), r \in rows'
  PROVE  KeepsItsSource(r)
<1>1. r \in Rows("import")' /\ r.ts \in Nat
  BY DEF Rows, IInv, TypeOK, Row
<1>2. r \in Audited <=> \A h \in Rows("helper") : r.ts < h.ts
  BY DEF CutOfAudit
<1>3. r \in Audited' <=> \A h \in Rows("helper")' : r.ts < h.ts
  BY <1>1 DEF CutOfAudit
<1>4. \A h \in Rows("helper") \cup Rows("helper")' : h.ts \in Nat
  BY DEF Rows, IInv, TypeOK, Row
<1>5. ASSUME Rows("helper") # {}, r \in Audited
      PROVE  r \in Audited'
  <2>1. SUFFICES ASSUME NEW h \in Rows("helper")' PROVE r.ts < h.ts
    BY <1>3
  <2>2. CASE h \in rows
    BY <1>2, <1>5, <2>2 DEF Rows
  <2>3. CASE h \notin rows
    <3>1. helper # 0 /\ h.ts = helper
      BY <2>3, NewHelperRow
    <3>2. PICK q \in Rows("helper") : TRUE
      BY <1>5
    <3>3. r.ts < q.ts /\ q.ts <= h.ts
      BY <1>2, <1>5, <3>1, <3>2 DEF PushesInTurn
    <3>4. QED
      BY <1>1, <1>4, <3>3
  <2>4. QED
    BY <2>2, <2>3
<1>6. ASSUME r \in Audited'
      PROVE  EarlierGone(r)
  <2>1. SUFFICES ASSUME NEW h \in Rows("helper"), h.ts <= r.ts
                 PROVE  h \notin rows' /\ h.ts < purged'
    BY DEF EarlierGone
  <2>2. \A q \in rows' : q.source = "helper" => ~ (q.ts <= r.ts)
    BY <1>1, <1>3, <1>4, <1>6 DEF Rows
  <2>3. h \in rows \ rows' /\ ~ Replaced(h)
    BY <2>1, <2>2 DEF Rows, Replaced
  <2>4. QED
    BY <2>3, RowsGone
<1>7. QED
  BY <1>3, <1>5, <1>6 DEF KeepsItsSource

(***************************************************************************)
(* However the loop, imports and retention overlap, the audit keeps to the *)
(* source it has reported a time from: the cut moves at the helper's first *)
(* push and when retention deletes, and at no other time.                  *)
(***************************************************************************)
THEOREM SourcesAreKept == Spec => AuditKeepsItsSources
<1>1. Init => PushesInTurn
  BY DEF Init, PushesInTurn
<1>2. IInv /\ PushesInTurn /\ [Next]_vars => PushesInTurn'
  BY PushesStayInTurn
<1>3. Spec => []PushesInTurn
  BY <1>1, <1>2, InvariantHolds, PTL DEF Spec
<1> DEFINE Kept == \A r \in Rows("import") : r \in rows' => KeepsItsSource(r)
<1>4. IInv /\ IInv' /\ CutOfAudit /\ CutOfAudit' /\ PushesInTurn /\ [Next]_vars => [Kept]_rows
  BY SourceKept
<1>5. Spec => []CutOfAudit
  BY AuditIsCut, InvariantHolds, PTL
<1>6. AuditKeepsItsSources <=> [][Kept]_rows
  BY DEF AuditKeepsItsSources
<1> HIDE DEF Kept
<1>7. QED
  BY <1>3, <1>4, <1>5, <1>6, InvariantHolds, PTL DEF Spec

-----------------------------------------------------------------------------
(***************************************************************************)
(* Totals of the two tables, in terms of the rows and sums they are made   *)
(* of.                                                                     *)
(***************************************************************************)
RawOf(r) == [ts |-> r.ts, source |-> r.source, bytes |-> Bytes(r)]
HourOf(o) == [ts |-> o.hour * HourSlots, source |-> o.source, bytes |-> o.bytes]

LEMMA RawTotal ==
  ASSUME IInv, KeysAreUnique, NEW Z \in SUBSET RawRows,
         NEW S \in SUBSET rows, \A r \in rows : RawOf(r) \in Z <=> r \in S
  PROVE  IsFiniteSet(Z) /\ IsFiniteSet(S) /\ Total(Z) = BytesOf(S) /\ Total(Z) \in Nat
<1> DEFINE f == [r \in S |-> Bytes(r)]
           key == [r \in S |-> RawOf(r)]
           g == [z \in Z |-> z.bytes]
<1>1. IsFiniteSet(S) /\ S \subseteq Row
  BY FS_Subset DEF IInv, TypeOK
<1>2. \A r \in S : f[r] \in Int /\ key[r] \in Z
  BY <1>1, BytesType DEF Row
<1>3. ASSUME NEW z \in Z PROVE \E r \in S : key[r] = z
  <2>1. PICK r \in rows : z = RawOf(r)
    BY DEF RawRows, RawOf
  <2>2. QED
    BY <2>1
<1>4. ASSUME NEW r \in S, NEW q \in S, key[r] = key[q] PROVE r = q
  BY <1>4 DEF KeysAreUnique, RawOf
<1>5. \A r \in S : g[key[r]] = f[r]
  BY <1>2 DEF RawOf
<1>6. DOMAIN f = S /\ DOMAIN g = Z
  OBVIOUS
<1>7. Total(Z) = SumFunctionOnSet(g, Z) /\ BytesOf(S) = SumFunctionOnSet(f, S)
  BY <1>6 DEF Total, BytesOf, SumFunction
<1>8. BytesOf(S) \in Nat
  BY <1>1, BytesAddUp
<1> HIDE DEF f, g, key
<1>9. IsFiniteSet(Z) /\ SumFunctionOnSet(g, Z) = SumFunctionOnSet(f, S)
  <2>1. Renames(key, S, Z)
    BY <1>2, <1>3, <1>4 DEF Renames, Keys
  <2>2. \A r \in S : f[r] \in Int
    BY <1>2
  <2>3. QED
    BY <1>1, <1>5, <2>1, <2>2, SumRenamed
<1>10. QED
  BY <1>1, <1>7, <1>8, <1>9

LEMMA HourTotal ==
  ASSUME IInv, NEW Z \in SUBSET HourRows,
         NEW E \in SUBSET hourly, \A o \in hourly : HourOf(o) \in Z <=> o \in E
  PROVE  /\ IsFiniteSet(Z) /\ IsFiniteSet(E)
         /\ Total(Z) = SumFunctionOnSet([o \in E |-> o.bytes], E)
<1> DEFINE f == [o \in E |-> o.bytes]
           key == [o \in E |-> HourOf(o)]
           g == [z \in Z |-> z.bytes]
<1>1. IsFiniteSet(E) /\ E \subseteq HourSum
  BY FS_Subset DEF IInv, TypeOK
<1>2. \A o \in E : f[o] \in Int /\ key[o] \in Z
  BY <1>1 DEF HourSum
<1>3. ASSUME NEW z \in Z PROVE \E o \in E : key[o] = z
  <2>1. PICK o \in hourly : z = HourOf(o)
    BY DEF HourRows, HourOf
  <2>2. QED
    BY <2>1
<1>4. ASSUME NEW o \in E, NEW p \in E, key[o] = key[p] PROVE o = p
  <2>1. /\ o.hour * HourSlots = p.hour * HourSlots
        /\ o.source = p.source /\ o.bytes = p.bytes
    BY <1>4 DEF HourOf
  <2>2. o.hour = Hour(o.hour * HourSlots) /\ p.hour = Hour(p.hour * HourSlots)
    BY <1>1, HourStarts DEF HourSum
  <2>3. QED
    BY <1>1, <2>1, <2>2 DEF HourSum
<1>5. \A o \in E : g[key[o]] = f[o]
  BY <1>2 DEF HourOf
<1>6. DOMAIN g = Z
  OBVIOUS
<1>7. Total(Z) = SumFunctionOnSet(g, Z)
  BY <1>6 DEF Total, SumFunction
<1>8. QED
  <2> HIDE DEF f, g, key
  <2>1. Renames(key, E, Z)
    BY <1>2, <1>3, <1>4 DEF Renames, Keys
  <2>2. \A o \in E : f[o] \in Int
    BY <1>2
  <2>3. IsFiniteSet(Z) /\ SumFunctionOnSet(g, Z) = SumFunctionOnSet(f, E)
    BY <1>1, <1>5, <2>1, <2>2, SumRenamed
  <2>4. QED
    BY <1>1, <1>7, <2>3 DEF f

\* What the archive shows of hours that are not deleted is in their rows.
LEMMA HoursLagRows ==
  ASSUME IInv, ArchiveInv, NEW Z \in SUBSET HourRows, \A z \in Z : ~ (z.ts < purged),
         NEW R \in SUBSET rows,
         \A r \in rows, z \in Z :
           z.ts = Hour(r.ts) * HourSlots /\ z.source = r.source => r \in R
  PROVE  Total(Z) <= BytesOf(R) /\ Total(Z) \in Nat
<1> DEFINE E == {o \in hourly : HourOf(o) \in Z}
           Of(o) == {r \in rows : Hour(r.ts) = o.hour /\ r.source = o.source}
           X == {r \in rows : \E o \in E : r \in Of(o)}
           key == [r \in X |-> CHOOSE o \in E : r \in Of(o)]
           b == [o \in E |-> o.bytes]
           g == [o \in E |-> BytesOf(Of(o))]
           f == [r \in rows |-> Bytes(r)]
<1>1. /\ IsFiniteSet(E) /\ IsFiniteSet(Z) /\ E \subseteq HourSum
      /\ Total(Z) = SumFunctionOnSet(b, E)
  <2>1. E \in SUBSET hourly /\ (\A o \in hourly : HourOf(o) \in Z <=> o \in E)
    OBVIOUS
  <2>2. E \subseteq HourSum
    BY DEF IInv, TypeOK
  <2> HIDE DEF E
  <2>3. QED
    BY <2>1, <2>2, HourTotal DEF b
<1>2. IsFiniteSet(rows) /\ rows \subseteq Row
  BY DEF IInv, TypeOK
<1>3. \A r \in rows : f[r] \in Nat /\ f[r] \in Int
  BY <1>2, BytesType DEF Row
<1>4. ASSUME NEW S \in SUBSET rows
      PROVE  BytesOf(S) = SumFunctionOnSet(f, S) /\ IsFiniteSet(S) /\ BytesOf(S) \in Nat
  <2>1. BytesOf(S) = SumFunctionOnSet(f, S) /\ IsFiniteSet(S)
    BY <1>2, BytesAsSum
  <2>2. QED
    BY <1>2, <2>1, BytesAddUp
<1>5. ASSUME NEW o \in E
      PROVE  b[o] <= g[o] /\ b[o] \in Nat /\ g[o] \in Nat /\ g[o] = SumFunctionOnSet(f, Of(o))
  <2>1. o \in hourly /\ o.hour \in Nat /\ o.bytes \in Nat /\ HourOf(o) \in Z
    BY <1>1 DEF HourSum
  <2>2. ~ Archived(o)
    BY <2>1 DEF HourOf, Archived
  <2>3. o.bytes <= BytesOf(Of(o))
    BY <2>1, <2>2 DEF ArchiveInv, SumsLag, Sum
  <2>4. Of(o) \in SUBSET rows
    OBVIOUS
  <2>5. BytesOf(Of(o)) = SumFunctionOnSet(f, Of(o)) /\ BytesOf(Of(o)) \in Nat
    <3> HIDE DEF Of, f
    <3>1. QED
      BY <1>4, <2>4
  <2>6. b[o] = o.bytes /\ g[o] = BytesOf(Of(o))
    BY <1>5
  <2> HIDE DEF b, g, Of, f
  <2>7. QED
    BY <2>1, <2>3, <2>5, <2>6
<1>6. SumFunctionOnSet(b, E) <= SumFunctionOnSet(g, E) /\ SumFunctionOnSet(b, E) \in Nat
  <2> HIDE DEF b, g, E, Of, f
  <2>1. \A o \in E : b[o] \in Int /\ g[o] \in Int /\ b[o] <= g[o]
    BY <1>5
  <2>2. SumFunctionOnSet(b, E) <= SumFunctionOnSet(g, E)
    BY <1>1, <2>1, SumMonotone
  <2>3. E \in SUBSET E
    OBVIOUS
  <2>4. SumFunctionOnSet(b, E) \in Nat
    BY <1>1, <1>5, <2>3, SumNat
  <2>5. QED
    BY <2>2, <2>4
<1>7. ASSUME NEW r \in X PROVE key[r] \in E /\ r \in Of(key[r])
  BY <1>7
<1>8. ASSUME NEW o \in E PROVE Of(o) = {r \in X : key[r] = o}
  <2>1. ASSUME NEW r \in Of(o) PROVE r \in X /\ key[r] = o
    <3>1. r \in X
      BY <2>1
    <3>2. key[r] \in E /\ r \in Of(key[r])
      BY <1>7, <3>1
    <3>3. key[r].hour = o.hour /\ key[r].source = o.source
      BY <2>1, <3>2
    <3> HIDE DEF key, X, Of
    <3>4. key[r] = o
      BY <3>2, <3>3 DEF ArchiveInv, KeysAreUnique
    <3>5. QED
      BY <3>1, <3>4
  <2>2. ASSUME NEW r \in X, key[r] = o PROVE r \in Of(o)
    BY <1>7, <2>2
  <2>3. QED
    <3> HIDE DEF key
    <3>1. QED
      BY <2>1, <2>2
<1>9. X \in SUBSET rows /\ X \subseteq R
  <2>1. ASSUME NEW r \in X PROVE r \in R
    <3>1. PICK o \in E : r \in Of(o)
      BY <2>1
    <3>2. HourOf(o) \in Z /\ HourOf(o).ts = Hour(r.ts) * HourSlots /\ HourOf(o).source = r.source
      BY <3>1 DEF HourOf
    <3>3. QED
      BY <2>1, <3>2
  <2>2. QED
    BY <2>1
<1>10. SumFunctionOnSet(g, E) = SumFunctionOnSet(f, X)
  <2>1. IsFiniteSet(X)
    BY <1>4, <1>9
  <2>2. (\A r \in X : f[r] \in Int) /\ Keys(key, X, E)
    <3> HIDE DEF f, key, X, E
    <3>1. QED
      BY <1>3, <1>7, <1>9 DEF Keys
  <2>3. SumsOfFibres(g, f, key, X, E)
    <3> HIDE DEF f, key, X, E, g, Of
    <3>1. QED
      BY <1>5, <1>8 DEF SumsOfFibres
  <2> HIDE DEF f, key, X, E, g
  <2>4. QED
    BY <1>1, <2>1, <2>2, <2>3, SumOfFibres
<1>11. SumFunctionOnSet(f, X) <= SumFunctionOnSet(f, R) /\ SumFunctionOnSet(f, X) \in Nat
  <2> HIDE DEF f, X
  <2>1. IsFiniteSet(R) /\ \A r \in R : f[r] \in Nat
    BY <1>3, <1>4
  <2>2. QED
    BY <1>9, <2>1, SumNat
<1>12. QED
  <2> HIDE DEF f, X, E, b, g
  <2>1. BytesOf(R) = SumFunctionOnSet(f, R) /\ BytesOf(R) \in Nat
    BY <1>4
  <2>2. QED
    BY <1>1, <1>6, <1>10, <1>11, <2>1

(***************************************************************************)
(* The finest buckets show each row once; coarse ones, and lists by app,   *)
(* no more than the rows.                                                  *)
(***************************************************************************)
Shown(start, end, from, to) ==
  {r \in rows : /\ start <= r.ts /\ r.ts < end /\ r.source \in Attributed
                /\ from <= r.ts /\ r.ts < to}

LEMMA ByOne == ASSUME NEW n \in Int PROVE (n \div 1) * 1 = n
OBVIOUS

LEMMA FineBuckets ==
  ASSUME IInv, KeysAreUnique, HourSlots > 1,
         NEW start \in Int, NEW end \in Int, NEW from \in Int, NEW to \in Int,
         NEW fine, fine = UsageSummary(1, start, end)
  PROVE  SumFunctionOnSet(fine, {b \in DOMAIN fine : from <= b /\ b < to})
           = BytesOf(Shown(start, end, from, to))
<1> DEFINE sel == Between(RawRows, start, end, Attributed)
           Z(b) == {x \in sel : (x.ts \div 1) * 1 = b}
           X == Shown(start, end, from, to)
           B == {b \in DOMAIN fine : from <= b /\ b < to}
           key == [r \in X |-> r.ts]
           f == [r \in rows |-> Bytes(r)]
<1>1. IsFiniteSet(rows) /\ rows \subseteq Row /\ X \in SUBSET rows
  BY DEF IInv, TypeOK, Shown
<1>2. \A r \in rows : f[r] \in Int /\ r.ts \in Nat
  BY <1>1, BytesType DEF Row
<1>3. \A x \in sel : x.ts \in Nat /\ (x.ts \div 1) * 1 = x.ts
  BY <1>2, ByOne DEF Between, RawRows
<1>4. fine = [b \in {(x.ts \div 1) * 1 : x \in sel} |-> Total(Z(b))]
  BY Constants DEF UsageSummary
<1>5. DOMAIN fine = {x.ts : x \in sel}
  BY <1>3, <1>4
<1>6. \A r \in rows : RawOf(r) \in sel <=> r.source \in Attributed /\ start <= r.ts /\ r.ts < end
  BY DEF Between, RawRows, RawOf
<1>7. IsFiniteSet(X) /\ BytesOf(X) = SumFunctionOnSet(f, X)
  <2> HIDE DEF X
  <2>1. QED
    BY <1>1, BytesAsSum
<1>8. Keys(key, X, B)
  <2>1. ASSUME NEW r \in X PROVE r.ts \in B
    <3>1. RawOf(r) \in sel /\ RawOf(r).ts = r.ts
      BY <1>6 DEF Shown, RawOf
    <3>2. r.ts \in DOMAIN fine
      BY <1>5, <3>1
    <3>3. QED
      BY <3>2 DEF Shown
  <2>2. QED
    BY <2>1 DEF Keys
<1>9. ASSUME NEW b \in B
      PROVE  /\ fine[b] = SumFunctionOnSet(f, {r \in X : key[r] = b})
             /\ \E r \in X : key[r] = b
  <2> DEFINE S == {r \in X : r.ts = b}
  <2>1. b \in DOMAIN fine /\ fine[b] = Total(Z(b)) /\ from <= b /\ b < to
    BY <1>4, <1>9
  <2>2. Z(b) \in SUBSET RawRows /\ S \in SUBSET rows
    BY <1>1 DEF Between
  <2>3. ASSUME NEW r \in rows PROVE RawOf(r) \in Z(b) <=> r \in S
    <3>1. RawOf(r).ts = r.ts /\ (RawOf(r) \in sel => (r.ts \div 1) * 1 = r.ts)
      BY <1>2, ByOne DEF RawOf
    <3>2. RawOf(r) \in Z(b) <=> RawOf(r) \in sel /\ r.ts = b
      BY <3>1
    <3>3. QED
      BY <1>6, <2>1, <3>2 DEF Shown
  <2>4. Total(Z(b)) = BytesOf(S)
    <3> HIDE DEF Z, S
    <3>1. QED
      BY <2>2, <2>3, RawTotal
  <2>5. BytesOf(S) = SumFunctionOnSet(f, S)
    <3> HIDE DEF S
    <3>1. QED
      BY <1>1, <2>2, BytesAsSum
  <2>6. S = {r \in X : key[r] = b}
    OBVIOUS
  <2>7. \E r \in X : key[r] = b
    <3>1. PICK x \in sel : x.ts = b
      BY <1>5, <2>1
    <3>2. PICK r \in rows : x = RawOf(r)
      BY <3>1 DEF Between, RawRows, RawOf
    <3>3. RawOf(r) \in sel /\ r.ts = b
      BY <3>1, <3>2 DEF RawOf
    <3>4. r \in X
      BY <1>6, <2>1, <3>3 DEF Shown
    <3>5. QED
      BY <3>3, <3>4
  <2>8. QED
    <3> HIDE DEF Z, S, X, key, f
    <3>1. QED
      BY <2>1, <2>4, <2>5, <2>6, <2>7
<1>10. IsFiniteSet(B) /\ SumsOfFibres(fine, f, key, X, B)
  <2>1. key \in [X -> B]
    BY <1>8 DEF Keys
  <2> HIDE DEF X, B, f
  <2>2. key \in Surjection(X, B)
    BY <1>9, <2>1 DEF Surjection
  <2>3. SumsOfFibres(fine, f, key, X, B)
    BY <1>9 DEF SumsOfFibres
  <2> HIDE DEF key
  <2>4. QED
    BY <1>7, <2>2, <2>3, FS_Surjection
<1>11. QED
  <2>1. \A r \in X : f[r] \in Int
    BY <1>1, <1>2
  <2>2. SumFunctionOnSet(fine, B) = SumFunctionOnSet(f, X)
    <3> HIDE DEF X, B, f, key
    <3>1. QED
      BY <1>7, <1>8, <1>10, <2>1, SumOfFibres
  <2>3. QED
    BY <1>7, <2>2

LEMMA HoursInTime == \A h \in Hours : h \in Nat
<1>1. /\ Installed - Span \in Int /\ HourSlots <= Installed - Span
      /\ Installed - Span <= MaxTime /\ MaxTime \in Int
  BY Constants
<1>2. /\ Hour(Installed - Span) \in Int /\ 1 <= Hour(Installed - Span)
      /\ Hour(MaxTime) \in Int
  BY <1>1, HoursAndDays, HoursBegin
<1>3. QED
  BY <1>2 DEF Hours

\* The rows that the hours of a range are made of lie in it.
LEMMA RowsOfHours ==
  ASSUME IInv, NEW r \in rows, NEW start \in Nat, start <= Hour(r.ts) * HourSlots
  PROVE  /\ r.ts \in Nat /\ start <= r.ts /\ r.ts < MaxTime + 1
         /\ Hour(r.ts) * HourSlots <= r.ts /\ r.ts < Hour(r.ts) * HourSlots + HourSlots
<1>1. r.ts \in Nat /\ r.ts <= now /\ now <= MaxTime /\ MaxTime \in Nat /\ now \in Nat
  BY Constants DEF IInv, TypeOK, Clocks, Row
<1>2. /\ Hour(r.ts) * HourSlots \in Int /\ Hour(r.ts) * HourSlots <= r.ts
      /\ r.ts < Hour(r.ts) * HourSlots + HourSlots
  BY <1>1, Constants, DivBounds DEF Hour
<1>3. QED
  BY <1>1, <1>2, Constants

LEMMA ArchiveShows ==
  ASSUME IInv, ArchiveInv, HourSlots > 1, NEW start \in Nat, purged <= start,
         NEW coarse, coarse = UsageSummary(HourSlots, start, MaxTime + 1),
         NEW fine, fine = UsageSummary(1, start, MaxTime + 1)
  PROVE  /\ AppBreakdown(start, MaxTime + 1)
              <= SumFunctionOnSet(fine, {b \in DOMAIN fine : start <= b /\ b < MaxTime + 1})
         /\ \A b \in DOMAIN coarse :
              coarse[b] <= SumFunctionOnSet(fine, {c \in DOMAIN fine :
                                                     b <= c /\ c < b + HourSlots})
<1> DEFINE end == MaxTime + 1
           sel == Between(HourRows, start, end, Attributed)
<1>1. end \in Int /\ purged \in Nat /\ KeysAreUnique /\ HourSlots \in Nat \ {0}
  BY Constants DEF IInv, TypeOK, ArchiveInv
<1>2. ASSUME NEW z \in sel
      PROVE  /\ z \in HourRows /\ z.ts \in Nat /\ ~ (z.ts < purged) /\ start <= z.ts
             /\ z.source \in Attributed /\ Hour(z.ts) * HourSlots = z.ts
  <2>1. PICK o \in hourly : z.ts = o.hour * HourSlots
    BY <1>2 DEF Between, HourRows
  <2>2. o.hour \in Nat
    BY DEF IInv, TypeOK, HourSum
  <2>3. z.ts \in Nat /\ Hour(z.ts) * HourSlots = z.ts
    BY <2>1, <2>2, HourStarts
  <2>4. z \in HourRows /\ start <= z.ts /\ z.source \in Attributed
    BY <1>2 DEF Between
  <2>5. QED
    BY <1>1, <2>3, <2>4
<1>3. ASSUME NEW from \in Int, NEW to \in Int
      PROVE  SumFunctionOnSet(fine, {b \in DOMAIN fine : from <= b /\ b < to})
               = BytesOf(Shown(start, end, from, to))
  <2> HIDE DEF end
  <2>1. QED
    BY <1>1, FineBuckets DEF end
<1>4. ASSUME NEW Z \in SUBSET sel, NEW from \in Int, NEW to \in Int,
             \A r \in rows, z \in Z : z.ts = Hour(r.ts) * HourSlots => from <= r.ts /\ r.ts < to
      PROVE  Total(Z) <= BytesOf(Shown(start, end, from, to))
  <2> DEFINE R == Shown(start, end, from, to)
  <2>1. R \in SUBSET rows
    BY DEF Shown
  <2>2. Z \in SUBSET HourRows /\ \A z \in Z : ~ (z.ts < purged)
    BY <1>2
  <2>3. ASSUME NEW r \in rows, NEW z \in Z, z.ts = Hour(r.ts) * HourSlots, z.source = r.source
        PROVE  r \in R
    <3>1. start <= Hour(r.ts) * HourSlots /\ r.source \in Attributed
      BY <1>2, <2>3
    <3>2. start <= r.ts /\ r.ts < end
      BY <3>1, RowsOfHours
    <3>3. from <= r.ts /\ r.ts < to
      BY <1>4, <2>3
    <3>4. QED
      BY <3>1, <3>2, <3>3 DEF Shown
  <2> HIDE DEF R
  <2>4. QED
    BY <2>1, <2>2, <2>3, HoursLagRows DEF R
<1>5. AppBreakdown(start, end) <= BytesOf(Shown(start, end, start, end))
  <2>1. CASE end - start > LongRange
    <3>1. AppBreakdown(start, end) = Total(sel)
      BY <2>1 DEF AppBreakdown, TableFor
    <3>2. ASSUME NEW r \in rows, NEW z \in sel, z.ts = Hour(r.ts) * HourSlots
          PROVE  start <= r.ts /\ r.ts < end
      <4>1. start <= Hour(r.ts) * HourSlots
        BY <1>2, <3>2
      <4>2. QED
        BY <4>1, RowsOfHours
    <3>3. start \in Int /\ sel \in SUBSET sel
      OBVIOUS
    <3> HIDE DEF sel, end
    <3>4. QED
      BY <1>1, <1>4, <3>1, <3>2, <3>3
  <2>2. CASE ~ (end - start > LongRange)
    <3> DEFINE Z == Between(RawRows, start, end, Attributed)
               S == Shown(start, end, start, end)
    <3>1. AppBreakdown(start, end) = Total(Z)
      BY <2>2 DEF AppBreakdown, TableFor
    <3>2. Z \in SUBSET RawRows /\ S \in SUBSET rows
      BY DEF Between, Shown
    <3>3. \A r \in rows : RawOf(r) \in Z <=> r \in S
      BY DEF Between, RawRows, RawOf, Shown
    <3> HIDE DEF Z, S
    <3>4. Total(Z) = BytesOf(S) /\ Total(Z) \in Nat
      BY <1>1, <3>2, <3>3, RawTotal
    <3>5. QED
      BY <3>1, <3>4 DEF S
  <2>3. QED
    BY <2>1, <2>2
<1>6. ASSUME NEW b \in DOMAIN coarse
      PROVE  b \in Int /\ coarse[b] <= BytesOf(Shown(start, end, b, b + HourSlots))
  <2> DEFINE Z == {z \in sel : (z.ts \div HourSlots) * HourSlots = b}
  <2>1. /\ coarse[b] = Total(Z)
        /\ \E z \in sel : b = (z.ts \div HourSlots) * HourSlots
    <3>1. coarse = [c \in {(z.ts \div HourSlots) * HourSlots : z \in sel} |->
                      Total({z \in sel : (z.ts \div HourSlots) * HourSlots = c})]
      BY <1>1 DEF UsageSummary
    <3>2. QED
      BY <1>6, <3>1
  <2>2. \A z \in sel : (z.ts \div HourSlots) * HourSlots = z.ts /\ z.ts \in Nat
    BY <1>2 DEF Hour
  <2>3. b \in Int /\ Z \in SUBSET sel /\ \A z \in Z : z.ts = b
    BY <2>1, <2>2
  <2>4. ASSUME NEW r \in rows, NEW z \in Z, z.ts = Hour(r.ts) * HourSlots
        PROVE  b <= r.ts /\ r.ts < b + HourSlots
    <3>1. start <= Hour(r.ts) * HourSlots /\ b = Hour(r.ts) * HourSlots
      BY <1>2, <2>3, <2>4
    <3>2. QED
      BY <3>1, RowsOfHours
  <2>5. b + HourSlots \in Int
    BY <1>1, <2>3
  <2> HIDE DEF Z, sel, end
  <2>6. QED
    BY <1>4, <2>1, <2>3, <2>4, <2>5
<1>7. QED
  <2> HIDE DEF end, sel
  <2>1. start \in Int
    OBVIOUS
  <2>2. AppBreakdown(start, end)
          <= SumFunctionOnSet(fine, {b \in DOMAIN fine : start <= b /\ b < end})
    BY <1>1, <1>3, <1>5, <2>1
  <2>3. ASSUME NEW b \in DOMAIN coarse
        PROVE  coarse[b] <= SumFunctionOnSet(fine, {c \in DOMAIN fine :
                                                      b <= c /\ c < b + HourSlots})
    <3>1. b \in Int /\ b + HourSlots \in Int
      BY <1>1, <1>6, <2>3
    <3>2. QED
      BY <1>3, <1>6, <2>3, <3>1
  <2>4. QED
    BY <2>2, <2>3 DEF end

(***************************************************************************)
(* Whatever dies or is deleted, with any usage and windows, as long as an  *)
(* hour has more than one of the finest buckets: nothing is in the archive *)
(* twice, and what is drawn or listed from it is in the finest buckets.    *)
(***************************************************************************)
THEOREM ArchiveIsNotAhead == ASSUME HourSlots > 1 PROVE Spec => []ArchiveShowsNoMore
<1>1. IInv /\ ArchiveInv => ArchiveShowsNoMore
  <2>1. SUFFICES ASSUME IInv, ArchiveInv, NEW h \in Hours, purged <= h * HourSlots
                 PROVE  LET start == h * HourSlots
                            coarse == UsageSummary(HourSlots, start, MaxTime + 1)
                            fine == UsageSummary(1, start, MaxTime + 1)
                            FineTotal(from, to) ==
                              SumFunctionOnSet(fine, {b \in DOMAIN fine : from <= b /\ b < to})
                        IN  /\ AppBreakdown(start, MaxTime + 1)
                                 <= FineTotal(start, MaxTime + 1)
                            /\ \A b \in DOMAIN coarse :
                                 coarse[b] <= FineTotal(b, b + HourSlots)
    BY DEF ArchiveShowsNoMore
  <2>2. h * HourSlots \in Nat
    BY HoursInTime, HourStarts
  <2>3. QED
    BY <2>1, <2>2, ArchiveShows
<1>2. QED
  BY <1>1, InvariantHolds, ArchiveIsSound, PTL

(***************************************************************************)
(* Hours that were summed: the archive and the rows say the same of the    *)
(* polled interface.                                                       *)
(***************************************************************************)
PollBytes(h) == Sum(h, "interface_poll").bytes

LEMMA PollBytesOfHour ==
  ASSUME IInv, ArchiveInv, NEW h \in Nat, h <= watermark, purged <= h * HourSlots
  PROVE  /\ PollBytes(h) \in Nat
         /\ PollBytes(h) = BytesOf({r \in rows : Hour(r.ts) = h /\ r.source = "interface_poll"})
         /\ PollBytes(h) = SumFunctionOnSet([o \in hourly |-> o.bytes],
                             {o \in hourly : o.hour = h /\ o.source = "interface_poll"})
<1> DEFINE U == {r \in rows : Hour(r.ts) = h /\ r.source = "interface_poll"}
           V == {o \in hourly : o.hour = h /\ o.source = "interface_poll"}
           f == [o \in hourly |-> o.bytes]
<1>1. /\ IsFiniteSet(rows) /\ rows \subseteq Row /\ IsFiniteSet(hourly)
      /\ hourly \subseteq HourSum /\ purged \in Nat /\ h * HourSlots \in Nat
  BY HourStarts DEF IInv, TypeOK
<1>2. Sum(h, "interface_poll") \in HourSum
  BY <1>1, SumEntry DEF Sources
<1>3. PollBytes(h) \in Nat /\ PollBytes(h) = BytesOf(U)
  BY <1>2 DEF PollBytes, HourSum, Sum
<1>4. CASE U = {}
  <2>1. ASSUME NEW o \in V PROVE FALSE
    <3>1. ~ Archived(o)
      BY <1>1, <2>1 DEF Archived
    <3>2. PICK r \in Rows(o.source) : Hour(r.ts) = o.hour
      BY <2>1, <3>1 DEF ArchiveInv, SumsHaveRows
    <3>3. QED
      BY <1>4, <2>1, <3>2 DEF Rows
  <2>2. V = {}
    BY <2>1
  <2>3. SumFunctionOnSet(f, {}) = 0
    BY FS_EmptySet, SumType
  <2>4. BytesOf(U) = 0
    <3> DEFINE e == [r \in U |-> Bytes(r)]
    <3>1. BytesOf(U) = SumFunctionOnSet(e, DOMAIN e) /\ DOMAIN e = {}
      BY <1>4 DEF BytesOf, SumFunction
    <3>2. SumFunctionOnSet(e, {}) = 0
      BY FS_EmptySet, SumType
    <3>3. QED
      BY <3>1, <3>2
  <2>5. QED
    BY <1>3, <2>2, <2>3, <2>4
<1>5. CASE U # {}
  <2>1. PICK r \in U : TRUE
    BY <1>5
  <2>2. Sum(h, "interface_poll") \in hourly
    BY <2>1 DEF IInv, PollHoursSummed, Rows
  <2> DEFINE s == Sum(h, "interface_poll")
  <2>3. s.hour = h /\ s.source = "interface_poll" /\ s.bytes = PollBytes(h)
    BY DEF Sum, PollBytes
  <2>4. V = {s}
    <3> HIDE DEF s
    <3>1. \A o \in V : o = s
      BY <2>2, <2>3 DEF ArchiveInv, KeysAreUnique, s
    <3>2. s \in V
      BY <2>2, <2>3 DEF s
    <3>3. QED
      BY <3>1, <3>2
  <2>5. f[s] = PollBytes(h)
    BY <2>2, <2>3
  <2>6. SumFunctionOnSet(f, {s}) = f[s]
    <3>1. f[s] \in Int
      BY <1>3, <2>5
    <3> HIDE DEF s, f
    <3>2. QED
      BY <3>1, SumOfOne
  <2> HIDE DEF s, f
  <2>7. QED
    BY <1>3, <2>4, <2>5, <2>6 DEF f
<1>6. QED
  BY <1>4, <1>5

LEMMA PollBreakdown ==
  ASSUME IInv, ArchiveInv, NEW j \in Nat, NEW k \in Nat, k <= watermark + 1,
         purged <= j * HourSlots,
         NEW bytes, \A h \in j .. k - 1 : bytes[h] = PollBytes(h)
  PROVE  InterfaceBreakdown(j * HourSlots, k * HourSlots)
           = SumFunctionOnSet(bytes, j .. k - 1)
<1> DEFINE start == j * HourSlots
           end == k * HourSlots
           poll1 == {"interface_poll"}
           B == j .. k - 1
<1>1. /\ start \in Nat /\ end \in Nat /\ IsFiniteSet(B) /\ HourSlots \in Nat \ {0}
      /\ watermark \in Nat /\ purged \in Nat
      /\ IsFiniteSet(rows) /\ rows \subseteq Row /\ IsFiniteSet(hourly) /\ hourly \subseteq HourSum
  <2>1. start \in Nat /\ end \in Nat
    BY HourStarts
  <2>2. IsFiniteSet(B)
    BY FS_Interval
  <2>3. QED
    BY <2>1, <2>2, Constants DEF IInv, TypeOK
<1>2. ASSUME NEW h \in B
      PROVE  /\ h \in Nat /\ h <= watermark /\ purged <= h * HourSlots
             /\ bytes[h] = PollBytes(h)
  <2>1. h \in Nat /\ h <= watermark /\ j <= h
    BY <1>1, <1>2
  <2>2. j * HourSlots <= h * HourSlots /\ h * HourSlots \in Int
    BY <1>1, <2>1, TimesMonotone
  <2>3. QED
    BY <1>1, <1>2, <2>1, <2>2
<1>3. ASSUME NEW t \in Nat
      PROVE  /\ start <= t /\ t < end <=> Hour(t) \in B
  <2>1. Hour(t) \in Int
    BY HoursAndDays
  <2>2. start <= t <=> j <= Hour(t)
    BY HourBound
  <2>3. end <= t <=> k <= Hour(t)
    BY HourBound
  <2>4. t < end <=> ~ (k <= Hour(t))
    BY <1>1, <2>3
  <2>5. QED
    BY <2>1, <2>2, <2>4
<1>4. CASE end - start > LongRange
  <2> DEFINE Z == Between(HourRows, start, end, poll1)
             E == {o \in hourly : o.hour \in B /\ o.source = "interface_poll"}
             f == [o \in hourly |-> o.bytes]
             e == [o \in E |-> o.bytes]
             key == [o \in E |-> o.hour]
  <2>1. InterfaceBreakdown(start, end) = Total(Z)
    BY <1>4 DEF InterfaceBreakdown, TableFor
  <2>2. ASSUME NEW o \in hourly PROVE HourOf(o) \in Z <=> o \in E
    <3>1. o.hour \in Nat /\ o.hour * HourSlots \in Nat /\ Hour(o.hour * HourSlots) = o.hour
      BY <1>1, HourStarts DEF HourSum
    <3>2. HourOf(o) \in HourRows
      BY DEF HourRows, HourOf
    <3>3. /\ HourOf(o).ts = o.hour * HourSlots /\ HourOf(o).source = o.source
      BY DEF HourOf
    <3> HIDE DEF start, end, B
    <3>4. HourOf(o) \in Z <=> /\ start <= o.hour * HourSlots /\ o.hour * HourSlots < end
                              /\ o.source = "interface_poll"
      BY <3>2, <3>3 DEF Between
    <3>5. QED
      BY <1>3, <3>1, <3>4
  <2>3. Z \in SUBSET HourRows /\ E \in SUBSET hourly
    BY DEF Between
  <2>4. IsFiniteSet(E) /\ Total(Z) = SumFunctionOnSet(e, E)
    <3> HIDE DEF Z, E
    <3>1. QED
      BY <2>2, <2>3, HourTotal DEF e
  <2>5. \A o \in E : f[o] \in Int /\ e[o] = f[o]
    BY <1>1 DEF HourSum
  <2>6. SumFunctionOnSet(e, E) = SumFunctionOnSet(f, E)
    <3> HIDE DEF e, f, E
    <3>1. QED
      BY <2>4, <2>5, SumCongruent
  <2>7. Keys(key, E, B)
    BY DEF Keys
  <2>8. SumsOfFibres(bytes, f, key, E, B)
    <3>1. ASSUME NEW h \in B
          PROVE  bytes[h] = SumFunctionOnSet(f, {o \in E : key[o] = h})
      <4>1. {o \in E : key[o] = h} = {o \in hourly : o.hour = h /\ o.source = "interface_poll"}
        OBVIOUS
      <4>2. /\ h \in Nat /\ h <= watermark /\ purged <= h * HourSlots
            /\ bytes[h] = PollBytes(h)
        BY <1>2
      <4>3. PollBytes(h) = SumFunctionOnSet(f, {o \in hourly : o.hour = h
                                                   /\ o.source = "interface_poll"})
        BY <4>2, PollBytesOfHour
      <4> HIDE DEF f, key, E, B
      <4>4. QED
        BY <4>1, <4>2, <4>3
    <3> HIDE DEF f, key, E, B
    <3>2. QED
      BY <3>1 DEF SumsOfFibres
  <2>9. SumFunctionOnSet(bytes, B) = SumFunctionOnSet(f, E)
    <3> HIDE DEF f, key, E, B
    <3>1. QED
      BY <1>1, <2>4, <2>5, <2>7, <2>8, SumOfFibres
  <2>10. QED
    <3> HIDE DEF f, key, E, Z, e
    <3>1. QED
      BY <2>1, <2>4, <2>6, <2>9
<1>5. CASE ~ (end - start > LongRange)
  <2> DEFINE Z == Between(RawRows, start, end, poll1)
             S == {r \in rows : Hour(r.ts) \in B /\ r.source = "interface_poll"}
             f == [r \in rows |-> Bytes(r)]
             key == [r \in S |-> Hour(r.ts)]
  <2>1. InterfaceBreakdown(start, end) = Total(Z)
    BY <1>5 DEF InterfaceBreakdown, TableFor
  <2>2. ASSUME NEW r \in rows PROVE RawOf(r) \in Z <=> r \in S
    <3>1. r.ts \in Nat
      BY <1>1 DEF Row
    <3>2. /\ RawOf(r) \in RawRows /\ RawOf(r).ts = r.ts /\ RawOf(r).source = r.source
      BY DEF RawRows, RawOf
    <3> HIDE DEF start, end, B
    <3>3. RawOf(r) \in Z <=> start <= r.ts /\ r.ts < end /\ r.source = "interface_poll"
      BY <3>2 DEF Between
    <3>4. QED
      BY <1>3, <3>1, <3>3
  <2>3. Z \in SUBSET RawRows /\ S \in SUBSET rows /\ KeysAreUnique
    BY DEF Between, ArchiveInv
  <2>4. Total(Z) = BytesOf(S)
    <3> HIDE DEF Z, S
    <3>1. QED
      BY <2>2, <2>3, RawTotal
  <2>5. BytesOf(S) = SumFunctionOnSet(f, S) /\ IsFiniteSet(S)
    <3> HIDE DEF S
    <3>1. QED
      BY <1>1, <2>3, BytesAsSum
  <2>6. \A r \in S : f[r] \in Int
    BY <1>1, BytesType DEF Row
  <2>7. Keys(key, S, B)
    BY DEF Keys
  <2>8. SumsOfFibres(bytes, f, key, S, B)
    <3>1. ASSUME NEW h \in B
          PROVE  bytes[h] = SumFunctionOnSet(f, {r \in S : key[r] = h})
      <4> DEFINE U == {r \in rows : Hour(r.ts) = h /\ r.source = "interface_poll"}
      <4>1. {r \in S : key[r] = h} = U /\ U \in SUBSET rows
        OBVIOUS
      <4>2. /\ h \in Nat /\ h <= watermark /\ purged <= h * HourSlots
            /\ bytes[h] = PollBytes(h)
        BY <1>2
      <4>3. PollBytes(h) = BytesOf(U)
        BY <4>2, PollBytesOfHour
      <4>4. BytesOf(U) = SumFunctionOnSet(f, U)
        <5> HIDE DEF U
        <5>1. QED
          BY <1>1, <4>1, BytesAsSum
      <4> HIDE DEF f, key, S, B, U
      <4>5. QED
        BY <4>1, <4>2, <4>3, <4>4
    <3> HIDE DEF f, key, S, B
    <3>2. QED
      BY <3>1 DEF SumsOfFibres
  <2>9. SumFunctionOnSet(bytes, B) = SumFunctionOnSet(f, S)
    <3> HIDE DEF f, key, S, B
    <3>1. QED
      BY <1>1, <2>5, <2>6, <2>7, <2>8, SumOfFibres
  <2>10. QED
    <3> HIDE DEF f, key, S, Z
    <3>1. QED
      BY <2>1, <2>4, <2>5, <2>9
<1>6. QED
  BY <1>4, <1>5

\* A range of whole hours is read as its hours are.
LEMMA BreakdownOfHours ==
  ASSUME IInv, ArchiveInv, NEW a \in Hours, NEW b \in Hours,
         a * HourSlots < (b + 1) * HourSlots, purged <= a * HourSlots,
         (b + 1) * HourSlots <= (watermark + 1) * HourSlots
  PROVE  InterfaceBreakdown(a * HourSlots, (b + 1) * HourSlots) =
           SumFunction([h \in {k \in Hours : a * HourSlots <= k * HourSlots
                                                /\ k * HourSlots < (b + 1) * HourSlots} |->
                          InterfaceBreakdown(h * HourSlots, (h + 1) * HourSlots)])
<1> DEFINE T == {k \in Hours : a * HourSlots <= k * HourSlots
                                 /\ k * HourSlots < (b + 1) * HourSlots}
           shown == [h \in T |-> InterfaceBreakdown(h * HourSlots, (h + 1) * HourSlots)]
           bytes == [h \in a .. b |-> PollBytes(h)]
<1>1. /\ a \in Nat /\ b \in Nat /\ b + 1 \in Nat /\ watermark \in Nat /\ purged \in Nat
      /\ HourSlots \in Nat \ {0}
  BY HoursInTime, Constants DEF IInv, TypeOK
<1>2. \A n, h \in Nat : n * HourSlots <= h * HourSlots <=> n <= h
  <2>1. SUFFICES ASSUME NEW n \in Nat, NEW h \in Nat
                 PROVE  n * HourSlots <= h * HourSlots <=> n <= h
    OBVIOUS
  <2>2. h * HourSlots \in Nat /\ Hour(h * HourSlots) = h
    BY HourStarts
  <2>3. QED
    BY <2>2, HourBound
<1>3. b + 1 <= watermark + 1
  BY <1>1, <1>2
<1>4. T = a .. b
  <2>1. a .. b \subseteq Hours
    <3>1. Hour(Installed - Span) \in Int /\ Hour(MaxTime) \in Int
      BY Constants, HoursAndDays
    <3>2. QED
      BY <3>1 DEF Hours
  <2>2. ASSUME NEW k \in Hours PROVE k \in T <=> k \in a .. b
    <3>1. k \in Nat /\ k * HourSlots \in Nat /\ (b + 1) * HourSlots \in Nat
      BY HoursInTime, <1>1, HourStarts
    <3>2. a * HourSlots <= k * HourSlots <=> a <= k
      BY <1>1, <1>2, <3>1
    <3>3. (b + 1) * HourSlots <= k * HourSlots <=> b + 1 <= k
      BY <1>1, <1>2, <3>1
    <3>4. k * HourSlots < (b + 1) * HourSlots <=> ~ ((b + 1) * HourSlots <= k * HourSlots)
      BY <3>1
    <3>5. k * HourSlots < (b + 1) * HourSlots <=> k <= b
      BY <1>1, <3>1, <3>3, <3>4
    <3>6. QED
      BY <1>1, <3>1, <3>2, <3>5
  <2>3. QED
    <3>1. T \subseteq Hours
      OBVIOUS
    <3> HIDE DEF T
    <3>2. QED
      BY <2>1, <2>2, <3>1
<1>5. IsFiniteSet(T)
  <2>1. IsFiniteSet(a .. b)
    BY <1>1, FS_Interval
  <2> HIDE DEF T
  <2>2. QED
    BY <1>4, <2>1
<1>6. ASSUME NEW h \in T
      PROVE  shown[h] \in Int /\ shown[h] = bytes[h]
  <2>1. h \in Nat /\ h + 1 \in Nat /\ h <= watermark /\ a <= h /\ h <= b
    BY <1>1, <1>3, <1>4
  <2>2. purged <= h * HourSlots
    <3>1. a * HourSlots \in Nat /\ h * HourSlots \in Nat
      BY <1>1, <2>1, HourStarts
    <3>2. a * HourSlots <= h * HourSlots
      BY <1>1, <1>2, <2>1
    <3>3. QED
      BY <1>1, <3>1, <3>2
  <2>3. PollBytes(h) \in Nat
    BY <2>1, <2>2, PollBytesOfHour
  <2>4. bytes[h] = PollBytes(h)
    BY <1>1, <2>1
  <2>5. h .. (h + 1) - 1 = {h} /\ h + 1 <= watermark + 1
    BY <1>1, <2>1
  <2>6. shown[h] = InterfaceBreakdown(h * HourSlots, (h + 1) * HourSlots)
    OBVIOUS
  <2> HIDE DEF bytes, shown, T
  <2>7. \A n \in h .. (h + 1) - 1 : bytes[n] = PollBytes(n)
    <3>1. ASSUME NEW n \in h .. (h + 1) - 1 PROVE bytes[n] = PollBytes(n)
      <4>1. n = h
        BY <2>5, <3>1
      <4>2. QED
        BY <2>4, <4>1
    <3>2. QED
      BY <3>1
  <2>8. InterfaceBreakdown(h * HourSlots, (h + 1) * HourSlots)
          = SumFunctionOnSet(bytes, h .. (h + 1) - 1)
    BY <2>1, <2>2, <2>5, <2>7, PollBreakdown
  <2>9. SumFunctionOnSet(bytes, {h}) = bytes[h]
    <3>1. bytes[h] \in Int
      BY <2>3, <2>4
    <3>2. QED
      BY <3>1, SumOfOne
  <2>10. shown[h] = PollBytes(h)
    BY <2>4, <2>5, <2>8, <2>9, <2>6
  <2>11. QED
    BY <2>3, <2>4, <2>10
<1>7. SumFunction(shown) = SumFunctionOnSet(shown, T)
  <2>1. DOMAIN shown = T
    OBVIOUS
  <2>2. QED
    BY <2>1 DEF SumFunction
<1>8. SumFunctionOnSet(shown, T) = SumFunctionOnSet(bytes, T)
  <2> HIDE DEF shown, bytes, T
  <2>1. QED
    BY <1>5, <1>6, SumCongruent
<1>9. InterfaceBreakdown(a * HourSlots, (b + 1) * HourSlots)
        = SumFunctionOnSet(bytes, a .. b)
  <2>1. \A h \in a .. (b + 1) - 1 : bytes[h] = PollBytes(h)
    BY <1>1
  <2>2. a .. (b + 1) - 1 = a .. b
    BY <1>1
  <2> HIDE DEF bytes
  <2>3. InterfaceBreakdown(a * HourSlots, (b + 1) * HourSlots)
          = SumFunctionOnSet(bytes, a .. (b + 1) - 1)
    BY <1>1, <1>3, <2>1, PollBreakdown
  <2>4. QED
    BY <2>2, <2>3
<1>10. QED
  <2> HIDE DEF bytes
  <2>1. SumFunction(shown) = InterfaceBreakdown(a * HourSlots, (b + 1) * HourSlots)
    BY <1>4, <1>7, <1>8, <1>9
  <2>2. QED
    BY <2>1

(***************************************************************************)
(* Whatever dies, is late or is deleted: of summed hours a range says the  *)
(* same read from the archive, or from the rows, as its hours one by one.  *)
(***************************************************************************)
THEOREM BreakdownsAgree == Spec => []BreakdownsAddUp
<1>1. IInv /\ ArchiveInv => BreakdownsAddUp
  <2>1. SUFFICES ASSUME IInv, ArchiveInv, NEW range \in WholeRanges,
                        range[2] <= (watermark + 1) * HourSlots
                 PROVE  InterfaceBreakdown(range[1], range[2]) =
                          SumFunction([h \in {k \in Hours : range[1] <= k * HourSlots
                                                /\ k * HourSlots < range[2]} |->
                            InterfaceBreakdown(h * HourSlots, (h + 1) * HourSlots)])
    BY DEF BreakdownsAddUp
  <2>2. PICK a \in Hours, b \in Hours : range = <<a * HourSlots, (b + 1) * HourSlots>>
    BY DEF WholeRanges, Ranges
  <2>3. /\ range[1] = a * HourSlots /\ range[2] = (b + 1) * HourSlots
        /\ range[1] < range[2] /\ purged <= range[1]
    BY <2>2 DEF WholeRanges, Ranges
  <2>4. /\ a * HourSlots < (b + 1) * HourSlots /\ purged <= a * HourSlots
        /\ (b + 1) * HourSlots <= (watermark + 1) * HourSlots
    BY <2>1, <2>3
  <2>5. QED
    BY <2>1, <2>3, <2>4, BreakdownOfHours
<1>2. QED
  BY <1>1, InvariantHolds, ArchiveIsSound, PTL

-----------------------------------------------------------------------------
(***************************************************************************)
(* Samuelson's bound: one of n + 1 numbers is no further from their mean   *)
(* than n deviations.  With s and q the sum and the sum of squares of the  *)
(* n others, who is more than three deviations above the mean of ten or    *)
(* less is above each of them.                                             *)
(***************************************************************************)
LEMMA NoneIsThatFar ==
  ASSUME NEW n \in Nat, n <= 9, NEW x \in Int, NEW s \in Int, NEW q \in Int,
         s * s <= n * q, n = 0 => s = 0 /\ q = 0
  PROVE  (n * x - s) * (n * x - s)
           <= 9 * ((n + 1) * (x * x + q) - (x + s) * (x + s))
<1> DEFINE i == (n + 1) * (x * x + q) - (x + s) * (x + s)
           d == n * x - s
<1>1. i \in Int /\ d \in Int /\ d * d \in Int /\ 0 <= d * d
  OBVIOUS
<1>2. 0 <= i
  <2>1. (x + s) * (x + s) <= (n + 1) * (x * x + q)
    BY SquareGrows
  <2>2. (x + s) * (x + s) \in Int /\ (n + 1) * (x * x + q) \in Int
    OBVIOUS
  <2>3. QED
    BY <2>1, <2>2
<1>3. d * d <= i * n
  <2> DEFINE r == n * q - s * s
  <2>1. r \in Int /\ 0 <= r
    OBVIOUS
  <2>2. 0 <= (n + 1) * r /\ (n + 1) * r \in Int
    <3> HIDE DEF r
    <3>1. 0 * (n + 1) <= r * (n + 1) /\ r * (n + 1) \in Int
      BY <2>1, TimesMonotone
    <3>2. QED
      BY <2>1, <3>1
  <2>3. i * n = d * d + (n + 1) * r
    OBVIOUS
  <2>4. QED
    <3> HIDE DEF r, i, d
    <3>1. QED
      BY <1>1, <2>2, <2>3
<1>4. i * n <= i * 9
  <2> HIDE DEF i
  <2>1. n * i <= 9 * i
    BY <1>1, <1>2, TimesMonotone
  <2>2. QED
    BY <1>1, <2>1
<1>5. QED
  <2> HIDE DEF i, d
  <2>1. d * d <= 9 * i
    BY <1>1, <1>3, <1>4
  <2>2. QED
    BY <2>1 DEF i, d

LEMMA FurtherThanAll ==
  ASSUME NEW n \in Nat, n <= 9, NEW x \in Int, NEW s \in Int, NEW q \in Int, NEW t \in Int,
         s * s <= n * q, n = 0 => s = 0 /\ q = 0,
         (n + 1) * t > x + s,
         ((n + 1) * t - (x + s)) * ((n + 1) * t - (x + s))
           > 9 * ((n + 1) * (x * x + q) - (x + s) * (x + s))
  PROVE  x < t
<1> DEFINE a == (n + 1) * t - (x + s)
           d == n * x - s
           i == (n + 1) * (x * x + q) - (x + s) * (x + s)
<1>1. /\ a \in Int /\ d \in Int /\ i \in Int /\ 0 < a /\ a * a > 9 * i
      /\ a * a \in Int /\ d * d \in Int
  OBVIOUS
<1>2. d * d <= 9 * i
  BY NoneIsThatFar
<1>3. ASSUME t <= x PROVE FALSE
  <2>1. a <= d
    <3>1. t * (n + 1) <= x * (n + 1)
      BY <1>3, TimesMonotone
    <3>2. x * (n + 1) = n * x + x /\ t * (n + 1) = (n + 1) * t /\ n * x \in Int
      OBVIOUS
    <3>3. (n + 1) * t <= n * x + x /\ (n + 1) * t \in Int
      BY <3>1, <3>2
    <3>4. QED
      BY <3>2, <3>3
  <2> HIDE DEF a, d, i
  <2>2. a \in Nat /\ d \in Nat
    BY <1>1, <2>1
  <2>3. a * a <= d * a /\ a * d <= d * d
    BY <1>1, <2>1, <2>2, TimesMonotone
  <2>4. a * d = d * a /\ d * a \in Int
    BY <1>1
  <2>5. QED
    BY <1>1, <1>2, <2>3, <2>4
<1>4. QED
  BY <1>3

LEMMA HourRowBytes ==
  ASSUME IInv
  PROVE  IsFiniteSet(HourRows) /\ \A r \in HourRows : r.bytes \in Nat
<1>1. hourly \subseteq HourSum /\ IsFiniteSet(hourly)
  BY DEF IInv, TypeOK
<1>2. \A r \in HourRows : r.bytes \in Nat
  BY <1>1 DEF HourRows, HourSum
<1>3. IsFiniteSet(HourRows)
  <2>1. \A o \in hourly : HourOf(o) \in HourRows <=> o \in hourly
    BY DEF HourRows, HourOf
  <2>2. QED
    BY <2>1, HourTotal
<1>4. QED
  BY <1>2, <1>3

LEMMA ExceedsAll ==
  ASSUME IInv, NEW T \in SUBSET HourRows, Cardinality(T) <= 10, NEW total \in Int,
         Exceeds(total, T), NEW b \in T
  PROVE  b.bytes < total
<1> DEFINE f == [r \in T |-> r.bytes]
           g == [r \in T |-> r.bytes * r.bytes]
           U == T \ {b}
           n == Cardinality(U)
           s == SumFunctionOnSet(f, U)
           q == SumFunctionOnSet(g, U)
           x == b.bytes
<1>1. /\ IsFiniteSet(T) /\ IsFiniteSet(U) /\ n \in Nat /\ n <= 9
      /\ Cardinality(T) = n + 1
  <2>1. IsFiniteSet(T)
    BY HourRowBytes, FS_Subset
  <2>2. IsFiniteSet(U) /\ Cardinality(U) = Cardinality(T) - 1
    BY <2>1, FS_RemoveElement
  <2>3. Cardinality(T) \in Nat /\ Cardinality(U) \in Nat
    BY <2>1, <2>2, FS_CardinalityType
  <2> HIDE DEF U
  <2>4. QED
    BY <2>1, <2>2, <2>3
<1>2. \A r \in T : /\ r.bytes \in Int /\ r.bytes * r.bytes \in Int
                   /\ f[r] = r.bytes /\ g[r] = r.bytes * r.bytes
  BY HourRowBytes
<1>3. s \in Int /\ q \in Int /\ s * s <= n * q
  <2>1. Squares(g, f, U)
    BY <1>2 DEF Squares
  <2> HIDE DEF f, g, U
  <2>2. QED
    BY <1>1, <2>1, SquareOfSum
<1>4. n = 0 => s = 0 /\ q = 0
  <2>1. SUFFICES ASSUME n = 0 PROVE s = 0 /\ q = 0
    OBVIOUS
  <2>2. U = {}
    <3> HIDE DEF U
    <3>1. QED
      BY <1>1, <2>1, FS_EmptySet
  <2>3. SumFunctionOnSet(f, {}) = 0 /\ SumFunctionOnSet(g, {}) = 0
    BY FS_EmptySet, SumType
  <2> HIDE DEF f, g, U
  <2>4. QED
    BY <2>2, <2>3
<1>5. Total(T) = x + s
  <2>1. DOMAIN f = T
    OBVIOUS
  <2>2. SumFunctionOnSet(f, T) = f[b] + SumFunctionOnSet(f, U)
    <3>1. \A r \in T : f[r] \in Int
      BY <1>2
    <3> HIDE DEF f
    <3>2. QED
      BY <1>1, <3>1, SumTakesOut
  <2>3. Total(T) = SumFunctionOnSet(f, T)
    BY <2>1 DEF Total, SumFunction
  <2>4. f[b] = x
    BY <1>2
  <2> HIDE DEF f, U, x
  <2>5. QED
    BY <2>2, <2>3, <2>4
<1>6. SumFunction(g) = x * x + q
  <2>1. DOMAIN g = T
    OBVIOUS
  <2>2. SumFunctionOnSet(g, T) = g[b] + SumFunctionOnSet(g, U)
    <3>1. \A r \in T : g[r] \in Int
      BY <1>2
    <3> HIDE DEF g
    <3>2. QED
      BY <1>1, <3>1, SumTakesOut
  <2>3. SumFunction(g) = SumFunctionOnSet(g, T)
    BY <2>1 DEF SumFunction
  <2>4. g[b] = x * x
    BY <1>2
  <2> HIDE DEF g, U, x
  <2>5. QED
    BY <2>2, <2>3, <2>4
<1>7. /\ (Cardinality(T) * total - Total(T)) * (Cardinality(T) * total - Total(T))
           > 9 * (Cardinality(T) * SumFunction(g) - Total(T) * Total(T))
      /\ Cardinality(T) * total > Total(T)
  BY DEF Exceeds
<1>8. x \in Int
  BY <1>2
<1> HIDE DEF f, g, U, n, s, q, x
<1>9. /\ ((n + 1) * total - (x + s)) * ((n + 1) * total - (x + s))
           > 9 * ((n + 1) * (x * x + q) - (x + s) * (x + s))
      /\ (n + 1) * total > x + s
  BY <1>1, <1>5, <1>6, <1>7
<1>10. x < total
  BY <1>1, <1>3, <1>4, <1>8, <1>9, FurtherThanAll
<1>11. QED
  BY <1>10 DEF x

(***************************************************************************)
(* For any usage, windows, faults and bounds: an hour that is reported as  *)
(* an anomaly used more than every row of a baseline of ten rows or less.  *)
(***************************************************************************)
THEOREM ReportedStandOut == Spec => []AnomaliesStandOut
<1>1. IInv => AnomaliesStandOut
  <2>1. SUFFICES ASSUME IInv, NEW app \in {"system", "other"},
                        NEW start \in {h * HourSlots : h \in Hours},
                        Cardinality(Baseline(app, start)) <= 10,
                        NEW ts \in Anomalies(app, start, MaxTime + 1),
                        NEW b \in Baseline(app, start)
                 PROVE  b.bytes < Total({o \in HourRows : o.ts = ts
                                            /\ o.source \in AppSources(app)})
    BY DEF AnomaliesStandOut
  <2> DEFINE data == Between(HourRows, start, MaxTime + 1, AppSources(app))
             here == {r \in data : r.ts = ts}
             T == Baseline(app, start)
  <2>2. ts \in {r.ts : r \in data} /\ Exceeds(Total(here), T)
    BY <2>1 DEF Anomalies
  <2>3. start <= ts /\ ts < MaxTime + 1
    BY <2>2 DEF Between
  <2>4. here = {o \in HourRows : o.ts = ts /\ o.source \in AppSources(app)}
    BY <2>3 DEF Between
  <2>5. T \in SUBSET HourRows
    BY DEF Baseline, Between
  <2>6. Total(here) \in Int
    <3> DEFINE f == [r \in here |-> r.bytes]
    <3>1. here \subseteq HourRows
      BY DEF Between
    <3>2. IsFiniteSet(here)
      <4> HIDE DEF here
      <4>1. QED
        BY <2>1, <3>1, HourRowBytes, FS_Subset
    <3>3. \A r \in here : f[r] \in Int
      <4> HIDE DEF here
      <4>1. QED
        BY <2>1, <3>1, HourRowBytes
    <3>4. DOMAIN f = here
      OBVIOUS
    <3>5. Total(here) = SumFunctionOnSet(f, here)
      BY <3>4 DEF Total, SumFunction
    <3> HIDE DEF f, here
    <3>6. QED
      BY <3>2, <3>3, <3>5, SumType
  <2> HIDE DEF here, T
  <2>7. b.bytes < Total(here)
    BY <2>1, <2>2, <2>5, <2>6, ExceedsAll DEF T
  <2>8. QED
    BY <2>4, <2>7
<1>2. QED
  BY <1>1, InvariantHolds, PTL

-----------------------------------------------------------------------------
(***************************************************************************)
(* The forecast, for every number of days: sums over the places of the     *)
(* days, and what they make of the line.                                   *)
(***************************************************************************)
One(n) == [i \in 1 .. n |-> 1]
Place(n) == [i \in 1 .. n |-> i - 1]
PlaceSquare(n) == [i \in 1 .. n |-> (i - 1) * (i - 1)]
Weighted(data, n) == [i \in 1 .. n |-> (i - 1) * data[i]]
DataSquare(data, n) == [i \in 1 .. n |-> data[i] * data[i]]

SumTo(f, n) == SumFunctionOnSet(f, 1 .. n)

LEMMA SumsOfPlaces ==
  ASSUME NEW n \in Nat \ {0}
  PROVE  /\ SumTo(One(n), n) = n
         /\ SumTo(Place(n), n) \in Int /\ SumTo(PlaceSquare(n), n) \in Int
         /\ SumTo(Place(n), n) * SumTo(Place(n), n) <= n * SumTo(PlaceSquare(n), n)
         /\ n * SumTo(PlaceSquare(n), n) - SumTo(Place(n), n) * SumTo(Place(n), n) \in Nat
         /\ n = 1 => SumTo(Place(n), n) = 0 /\ SumTo(PlaceSquare(n), n) = 0
         /\ n > 1 => n * SumTo(PlaceSquare(n), n)
                       - SumTo(Place(n), n) * SumTo(Place(n), n) > 0
<1> DEFINE T == 1 .. n
           U == T \ {1}
           f == Place(n)
           g == PlaceSquare(n)
           x == SumFunctionOnSet(f, T)
           xx == SumFunctionOnSet(g, T)
<1>1. IsFiniteSet(T) /\ Cardinality(T) = n /\ 1 \in T /\ IsFiniteSet(U) /\ Cardinality(U) = n - 1
  <2>1. IsFiniteSet(T) /\ Cardinality(T) = n /\ 1 \in T
    BY FS_Interval
  <2> HIDE DEF T
  <2>2. QED
    BY <2>1, FS_RemoveElement
<1>2. \A i \in T : /\ One(n)[i] = 1
                   /\ f[i] = i - 1 /\ f[i] \in Int
                   /\ g[i] = f[i] * f[i] /\ g[i] \in Int
  BY DEF One, Place, PlaceSquare
<1> HIDE DEF f, g
<1>3. f[1] = 0 /\ g[1] = 0
  <2>1. f[1] = 1 - 1 /\ g[1] = f[1] * f[1]
    <3> HIDE DEF T
    <3>1. QED
      BY <1>1, <1>2
  <2>2. QED
    BY <2>1
<1>4. SumFunctionOnSet(One(n), T) = n
  <2> HIDE DEF T
  <2>1. QED
    BY <1>1, <1>2, SumOfOnes
<1>5. /\ x \in Int /\ xx \in Int
      /\ x = SumFunctionOnSet(f, U) /\ xx = SumFunctionOnSet(g, U)
  <2>1. \A i \in T : f[i] \in Int
    BY <1>2
  <2>2. \A i \in T : g[i] \in Int
    BY <1>2
  <2>3. \A i \in U : f[i] \in Int /\ g[i] \in Int
    BY <1>2
  <2> HIDE DEF T
  <2>4. x = f[1] + SumFunctionOnSet(f, U)
    BY <1>1, <2>1, SumTakesOut
  <2>5. xx = g[1] + SumFunctionOnSet(g, U)
    BY <1>1, <2>2, SumTakesOut
  <2> HIDE DEF U
  <2>6. SumFunctionOnSet(f, U) \in Int /\ SumFunctionOnSet(g, U) \in Int
    BY <1>1, <2>3, SumType
  <2>7. QED
    BY <1>3, <2>4, <2>5, <2>6
<1>6. x * x <= (n - 1) * xx
  <2>1. Squares(g, f, U)
    BY <1>2 DEF Squares
  <2> HIDE DEF U, x, xx
  <2>2. SumFunctionOnSet(f, U) * SumFunctionOnSet(f, U)
          <= Cardinality(U) * SumFunctionOnSet(g, U)
    BY <1>1, <2>1, SquareOfSum
  <2>3. QED
    BY <1>1, <1>5, <2>2
<1>7. 0 <= xx
  <2>1. \A i \in T : g[i] \in Nat
    BY <1>2
  <2> HIDE DEF T
  <2>2. T \in SUBSET T
    OBVIOUS
  <2>3. QED
    BY <1>1, <2>1, <2>2, SumNat
<1>8. n > 1 => xx >= 1
  <2>1. SUFFICES ASSUME n > 1 PROVE xx >= 1
    OBVIOUS
  <2>2. \A i \in T : g[i] \in Nat
    BY <1>2
  <2>3. {2} \in SUBSET T /\ g[2] = 1
    BY <1>2, <2>1
  <2> HIDE DEF T
  <2>4. SumFunctionOnSet(g, {2}) <= xx
    BY <1>1, <2>2, <2>3, SumNat
  <2>5. SumFunctionOnSet(g, {2}) = 1
    BY <2>3, SumOfOne
  <2>6. QED
    BY <2>4, <2>5
<1>9. n = 1 => x = 0 /\ xx = 0
  <2>1. SUFFICES ASSUME n = 1 PROVE x = 0 /\ xx = 0
    OBVIOUS
  <2>2. U = {}
    BY <2>1
  <2>3. SumFunctionOnSet(f, {}) = 0 /\ SumFunctionOnSet(g, {}) = 0
    BY FS_EmptySet, SumType
  <2>4. QED
    BY <1>5, <2>2, <2>3
<1> HIDE DEF x, xx
<1>10. n * xx = (n - 1) * xx + xx /\ n * xx \in Int /\ x * x \in Int /\ (n - 1) * xx \in Int
  BY <1>5
<1>11. /\ x * x <= n * xx /\ n * xx - x * x \in Nat
       /\ n > 1 => n * xx - x * x > 0
  <2> DEFINE whole == n * xx
             part == (n - 1) * xx
             square == x * x
  <2>1. /\ whole \in Int /\ part \in Int /\ square \in Int
        /\ whole = part + xx /\ square <= part
    BY <1>6, <1>10
  <2> HIDE DEF whole, part, square
  <2>2. square <= whole /\ whole - square \in Nat /\ (n > 1 => whole - square > 0)
    BY <1>5, <1>7, <1>8, <2>1
  <2>3. QED
    BY <2>2 DEF whole, square
<1>12. QED
  BY <1>4, <1>5, <1>9, <1>11 DEF x, xx, f, g, SumTo

\* Fit solves the normal equations.
LEMMA NormalEquations ==
  ASSUME NEW n \in Nat, NEW x \in Int, NEW xx \in Int, NEW y \in Int, NEW xy \in Int
  PROVE  LET d == n * xx - x * x
             m == n * xy - x * y
         IN  /\ n * d * y = n * m * x + (y * d - m * x) * n
             /\ n * d * xy = n * m * xx + (y * d - m * x) * x
  OBVIOUS

LEMMA FitOfSums ==
  ASSUME NEW n \in Nat \ {0}, NEW data \in Seq(Int), Len(data) = n
  PROVE  LET x == SumTo(Place(n), n)
             xx == SumTo(PlaceSquare(n), n)
             y == SumTo(data, n)
             xy == SumTo(Weighted(data, n), n)
             d == n * xx - x * x
             m == n * xy - x * y
         IN  /\ DOMAIN data = 1 .. n /\ y \in Int /\ xy \in Int
             /\ Fit(data) = IF d = 0
                            THEN [slope |-> 0, start |-> y, unit |-> n]
                            ELSE [slope |-> n * m, start |-> y * d - m * x, unit |-> n * d]
<1>1. DOMAIN data = 1 .. n /\ \A i \in 1 .. n : data[i] \in Int
  BY LenProperties
<1>2. SumTo(data, n) \in Int
  <2>1. IsFiniteSet(1 .. n)
    BY FS_Interval
  <2>2. QED
    BY <1>1, <2>1, SumType DEF SumTo
<1>3. SumTo(Weighted(data, n), n) \in Int
  <2>1. IsFiniteSet(1 .. n)
    BY FS_Interval
  <2>2. \A i \in 1 .. n : Weighted(data, n)[i] \in Int
    BY <1>1 DEF Weighted
  <2>3. QED
    BY <2>1, <2>2, SumType DEF SumTo
<1>4. /\ SumFunction(data) = SumTo(data, n)
      /\ SumFunction([i \in 1 .. n |-> i - 1]) = SumTo(Place(n), n)
      /\ SumFunction([i \in 1 .. n |-> (i - 1) * (i - 1)]) = SumTo(PlaceSquare(n), n)
      /\ SumFunction([i \in 1 .. n |-> (i - 1) * data[i]]) = SumTo(Weighted(data, n), n)
  <2>1. /\ DOMAIN [i \in 1 .. n |-> i - 1] = 1 .. n
        /\ DOMAIN [i \in 1 .. n |-> (i - 1) * (i - 1)] = 1 .. n
        /\ DOMAIN [i \in 1 .. n |-> (i - 1) * data[i]] = 1 .. n
    OBVIOUS
  <2>2. QED
    BY <1>1, <2>1 DEF SumFunction, SumTo, Place, PlaceSquare, Weighted
<1>5. QED
  BY <1>1, <1>2, <1>3, <1>4 DEF Fit

\* The squared error in terms of the sums it depends on.
ErrorOf(n, x, xx, y, xy, dd, a, c, u) ==
  (u * u) * dd + (a * a) * xx + (c * c) * n
    + (-2 * (u * a)) * xy + (-2 * (u * c)) * y + (2 * (a * c)) * x

LEMMA ErrorOfSums ==
  ASSUME NEW n \in Nat \ {0}, NEW data \in Seq(Int), Len(data) = n,
         NEW a \in Int, NEW c \in Int, NEW u \in Int
  PROVE  /\ SumTo(DataSquare(data, n), n) \in Int
         /\ SquaredError(data, a, c, u)
              = ErrorOf(n, SumTo(Place(n), n), SumTo(PlaceSquare(n), n), SumTo(data, n),
                        SumTo(Weighted(data, n), n),
                        SumTo(DataSquare(data, n), n), a, c, u)
<1> DEFINE T == 1 .. n
           dd == [i \in T |-> data[i] * data[i]]
           p1 == [i \in T |-> (u * u) * dd[i] + (a * a) * PlaceSquare(n)[i]]
           p2 == [i \in T |-> 1 * p1[i] + (c * c) * One(n)[i]]
           p3 == [i \in T |-> 1 * p2[i] + (-2 * (u * a)) * Weighted(data, n)[i]]
           p4 == [i \in T |-> 1 * p3[i] + (-2 * (u * c)) * data[i]]
           p5 == [i \in T |-> 1 * p4[i] + (2 * (a * c)) * Place(n)[i]]
           residual(i) == u * data[i] - a * (i - 1) - c
           error == [i \in DOMAIN data |-> residual(i) * residual(i)]
<1>1. DOMAIN data = T /\ IsFiniteSet(T) /\ \A i \in T : data[i] \in Int
  BY LenProperties, FS_Interval
<1>2. ASSUME NEW i \in T
      PROVE  /\ data[i] \in Int /\ dd[i] = data[i] * data[i]
             /\ Place(n)[i] = i - 1 /\ PlaceSquare(n)[i] = (i - 1) * (i - 1)
             /\ One(n)[i] = 1 /\ Weighted(data, n)[i] = (i - 1) * data[i]
             /\ i - 1 \in Int
  BY <1>1 DEF Place, PlaceSquare, One, Weighted
<1>3. ASSUME NEW i \in T
      PROVE  /\ p1[i] = (u * u) * dd[i] + (a * a) * PlaceSquare(n)[i]
             /\ p2[i] = 1 * p1[i] + (c * c) * One(n)[i]
             /\ p3[i] = 1 * p2[i] + (-2 * (u * a)) * Weighted(data, n)[i]
             /\ p4[i] = 1 * p3[i] + (-2 * (u * c)) * data[i]
             /\ p5[i] = 1 * p4[i] + (2 * (a * c)) * Place(n)[i]
             /\ i \in DOMAIN data => error[i] = residual(i) * residual(i)
  <2> HIDE DEF T
  <2>1. p1[i] = (u * u) * dd[i] + (a * a) * PlaceSquare(n)[i]
    <3> HIDE DEF dd
    <3>1. QED
      OBVIOUS
  <2>2. p2[i] = 1 * p1[i] + (c * c) * One(n)[i]
    <3> HIDE DEF p1
    <3>1. QED
      OBVIOUS
  <2>3. p3[i] = 1 * p2[i] + (-2 * (u * a)) * Weighted(data, n)[i]
    <3> HIDE DEF p2
    <3>1. QED
      OBVIOUS
  <2>4. p4[i] = 1 * p3[i] + (-2 * (u * c)) * data[i]
    <3> HIDE DEF p3
    <3>1. QED
      OBVIOUS
  <2>5. p5[i] = 1 * p4[i] + (2 * (a * c)) * Place(n)[i]
    <3> HIDE DEF p4
    <3>1. QED
      OBVIOUS
  <2>6. i \in DOMAIN data => error[i] = residual(i) * residual(i)
    OBVIOUS
  <2> HIDE DEF p1, p2, p3, p4, p5, dd, error, residual
  <2>7. QED
    BY <2>1, <2>2, <2>3, <2>4, <2>5, <2>6
<1> HIDE DEF p1, p2, p3, p4, p5, dd, error
<1>4. /\ u * u \in Int /\ a * a \in Int /\ c * c \in Int /\ -2 * (u * a) \in Int
      /\ -2 * (u * c) \in Int /\ 2 * (a * c) \in Int /\ 1 \in Int
  OBVIOUS
<1>5. ASSUME NEW i \in T
      PROVE  /\ Weighted(data, n)[i] \in Int /\ Place(n)[i] \in Int
             /\ dd[i] \in Int /\ PlaceSquare(n)[i] \in Int /\ One(n)[i] \in Int
             /\ p1[i] \in Int /\ p2[i] \in Int /\ p3[i] \in Int /\ p4[i] \in Int
             /\ error[i] \in Int /\ error[i] = p5[i]
  <2> DEFINE d == data[i]
             k == i - 1
  <2>1. /\ d \in Int /\ k \in Int /\ dd[i] = d * d /\ PlaceSquare(n)[i] = k * k
        /\ One(n)[i] = 1 /\ Weighted(data, n)[i] = k * d /\ Place(n)[i] = k
    BY <1>2
  <2>2. error[i] = (u * d - a * k - c) * (u * d - a * k - c)
    BY <1>1, <1>3
  <2>3. p4[i] = 1 * p3[i] + (-2 * (u * c)) * d
    BY <1>3
  <2> HIDE DEF d, k, T, residual
  <2>4. /\ d * d \in Int /\ k * k \in Int /\ k * d \in Int
    BY <2>1
  <2> DEFINE e1 == p1[i]
             e2 == p2[i]
             e3 == p3[i]
             e4 == p4[i]
  <2>5. e1 = (u * u) * (d * d) + (a * a) * (k * k)
    BY <1>3, <2>1
  <2>6. e2 = 1 * e1 + (c * c) * 1
    BY <1>3, <2>1
  <2>7. e3 = 1 * e2 + (-2 * (u * a)) * (k * d)
    BY <1>3, <2>1
  <2>8. e4 = 1 * e3 + (-2 * (u * c)) * d
    BY <2>3
  <2>9. p5[i] = 1 * e4 + (2 * (a * c)) * k
    BY <1>3, <2>1
  <2> HIDE DEF e1, e2, e3, e4
  <2>10. e1 \in Int /\ e2 \in Int /\ e3 \in Int /\ e4 \in Int
    <3>1. e1 \in Int
      BY <1>4, <2>4, <2>5
    <3>2. e2 \in Int
      BY <1>4, <3>1, <2>6
    <3>3. e3 \in Int
      BY <1>4, <2>4, <3>2, <2>7
    <3>4. e4 \in Int
      BY <1>4, <2>1, <3>3, <2>8
    <3>5. QED
      BY <3>1, <3>2, <3>3, <3>4
  <2>11. (u * d - a * k - c) * (u * d - a * k - c)
           = 1 * e4 + (2 * (a * c)) * k
    BY <2>1, <2>5, <2>6, <2>7, <2>8, SMTT(30)
  <2>12. error[i] \in Int /\ error[i] = p5[i]
    <3> DEFINE m == 2 * (a * c)
               e5 == 1 * e4 + m * k
    <3>1. e5 \in Int
      <4>1. m \in Int /\ k \in Int /\ e4 \in Int
        BY <1>4, <2>1, <2>10
      <4> HIDE DEF m
      <4>2. m * k \in Int
        BY <4>1
      <4>3. QED
        BY <4>1, <4>2
    <3>2. error[i] = e5 /\ p5[i] = e5
      BY <2>2, <2>9, <2>11, Zenon
    <3> HIDE DEF e5, error, p5
    <3>3. QED
      BY <3>1, <3>2, Zenon
  <2>13. QED
    BY <2>1, <2>4, <2>10, <2>12 DEF e1, e2, e3, e4
<1>6. /\ Mixes(p1, u * u, dd, a * a, PlaceSquare(n), T)
      /\ Mixes(p2, 1, p1, c * c, One(n), T)
      /\ Mixes(p3, 1, p2, -2 * (u * a), Weighted(data, n), T)
      /\ Mixes(p4, 1, p3, -2 * (u * c), data, T)
      /\ Mixes(p5, 1, p4, 2 * (a * c), Place(n), T)
  <2> HIDE DEF T, residual
  <2>1. QED
    BY <1>1, <1>3, <1>5 DEF Mixes
<1>7. /\ SumFunctionOnSet(dd, T) \in Int
      /\ SumFunctionOnSet(p1, T) = (u * u) * SumFunctionOnSet(dd, T)
                                     + (a * a) * SumFunctionOnSet(PlaceSquare(n), T)
  BY <1>1, <1>4, <1>6, SumOfMixed
<1>8. SumFunctionOnSet(p2, T) = 1 * SumFunctionOnSet(p1, T)
                                  + (c * c) * SumFunctionOnSet(One(n), T)
  BY <1>1, <1>4, <1>6, SumOfMixed
<1>9. SumFunctionOnSet(p3, T) = 1 * SumFunctionOnSet(p2, T)
                                  + (-2 * (u * a)) * SumFunctionOnSet(Weighted(data, n), T)
  BY <1>1, <1>4, <1>6, SumOfMixed
<1>10. SumFunctionOnSet(p4, T) = 1 * SumFunctionOnSet(p3, T)
                                   + (-2 * (u * c)) * SumFunctionOnSet(data, T)
  BY <1>1, <1>4, <1>6, SumOfMixed
<1>11. SumFunctionOnSet(p5, T) = 1 * SumFunctionOnSet(p4, T)
                                   + (2 * (a * c)) * SumFunctionOnSet(Place(n), T)
  BY <1>1, <1>4, <1>6, SumOfMixed
<1>12. SquaredError(data, a, c, u) = SumFunctionOnSet(p5, T)
  <2>1. SquaredError(data, a, c, u) = SumFunction(error)
    BY DEF SquaredError, error
  <2>2. SumFunction(error) = SumFunctionOnSet(error, T)
    <3>1. DOMAIN error = T
      BY <1>1 DEF error
    <3>2. QED
      BY <3>1 DEF SumFunction
  <2> HIDE DEF T
  <2>3. SumFunctionOnSet(error, T) = SumFunctionOnSet(p5, T)
    BY <1>1, <1>5, SumCongruent
  <2>4. QED
    BY <2>1, <2>2, <2>3
<1>13. SumFunctionOnSet(One(n), T) = n
  BY SumsOfPlaces DEF SumTo
<1>14. QED
  <2>1. /\ SumFunctionOnSet(PlaceSquare(n), T) \in Int /\ SumFunctionOnSet(Place(n), T) \in Int
        /\ SumFunctionOnSet(data, T) \in Int /\ SumFunctionOnSet(Weighted(data, n), T) \in Int
    BY SumsOfPlaces, FitOfSums DEF SumTo
  <2> DEFINE s1 == SumFunctionOnSet(p1, T)
             s2 == SumFunctionOnSet(p2, T)
             s3 == SumFunctionOnSet(p3, T)
             s4 == SumFunctionOnSet(p4, T)
             s5 == SumFunctionOnSet(p5, T)
             xx == SumFunctionOnSet(PlaceSquare(n), T)
             x == SumFunctionOnSet(Place(n), T)
             y == SumFunctionOnSet(data, T)
             xy == SumFunctionOnSet(Weighted(data, n), T)
             sq == SumFunctionOnSet(dd, T)
  <2>2. /\ s1 = (u * u) * sq + (a * a) * xx /\ s2 = 1 * s1 + (c * c) * n
        /\ s3 = 1 * s2 + (-2 * (u * a)) * xy /\ s4 = 1 * s3 + (-2 * (u * c)) * y
        /\ s5 = 1 * s4 + (2 * (a * c)) * x
    BY <1>7, <1>8, <1>9, <1>10, <1>11, <1>13
  <2>3. /\ sq \in Int /\ xx \in Int /\ x \in Int /\ y \in Int /\ xy \in Int
    BY <1>7, <2>1
  <2> HIDE DEF s1, s2, s3, s4, s5, xx, x, y, xy, sq
  <2>4. s5 = ErrorOf(n, x, xx, y, xy, sq, a, c, u)
    <3>1. s1 \in Int /\ s2 = s1 + (c * c) * n /\ s2 \in Int
      BY <2>2, <2>3
    <3>2. s3 = s2 + (-2 * (u * a)) * xy /\ s3 \in Int
      BY <2>2, <2>3, <3>1
    <3>3. s4 = s3 + (-2 * (u * c)) * y /\ s4 \in Int
      BY <2>2, <2>3, <3>2
    <3>4. s5 = s4 + (2 * (a * c)) * x
      BY <2>2, <2>3, <3>3
    <3>5. QED
      BY <2>2, <3>1, <3>2, <3>3, <3>4 DEF ErrorOf
  <2>5. QED
    BY <1>12, <2>3, <2>4 DEF s5, xx, x, y, xy, sq, SumTo, dd, DataSquare

\* Who solves the normal equations has the least error.
LEMMA NormalIsLeast ==
  ASSUME NEW n \in Nat \ {0}, NEW x \in Int, NEW xx \in Int, NEW y \in Int, NEW xy \in Int,
         NEW dd \in Int, NEW u \in Int, NEW a \in Int, NEW c \in Int,
         NEW slope \in Int, NEW start \in Int,
         u * xy = slope * xx + start * x, u * y = slope * x + start * n,
         n * xx - x * x \in Nat
  PROVE  ErrorOf(n, x, xx, y, xy, dd, slope, start, u)
           <= ErrorOf(n, x, xx, y, xy, dd, a, c, u)
<1> DEFINE p == a - slope
           q == c - start
           more == (p * p) * xx + (q * q) * n + (2 * (p * q)) * x
           v == n * q + p * x
           det == n * xx - x * x
<1>1. p \in Int /\ q \in Int /\ more \in Int /\ v \in Int /\ det \in Nat
  OBVIOUS
<1>2. n * more = v * v + (p * p) * det
  OBVIOUS
<1>3. 0 <= more
  <2>1. 0 <= v * v /\ v * v \in Int
    <3> HIDE DEF v
    <3>1. QED
      BY <1>1
  <2>2. 0 <= (p * p) * det /\ (p * p) * det \in Int
    <3> HIDE DEF p, det
    <3>1. p * p \in Nat
      BY <1>1
    <3>2. 0 * det <= (p * p) * det
      BY <1>1, <3>1, TimesMonotone
    <3>3. QED
      BY <1>1, <3>1, <3>2
  <2> HIDE DEF more, v, p, det
  <2>3. 0 <= n * more
    BY <1>2, <2>1, <2>2
  <2>4. ASSUME more <= -1 PROVE FALSE
    <3>1. more * n <= (-1) * n
      BY <1>1, <2>4, TimesMonotone
    <3>2. QED
      BY <1>1, <2>3, <3>1
  <2>5. QED
    BY <1>1, <2>4
<1> DEFINE e == ErrorOf(n, x, xx, y, xy, dd, slope, start, u)
           f == ErrorOf(n, x, xx, y, xy, dd, a, c, u)
<1>4. e \in Int /\ f \in Int
  BY DEF ErrorOf
<1>5. f - e = more + (2 * p) * (slope * xx + start * x - u * xy)
                + (2 * q) * (slope * x + start * n - u * y)
  BY DEF ErrorOf
<1>6. slope * xx + start * x - u * xy = 0 /\ slope * x + start * n - u * y = 0
  OBVIOUS
<1>7. (2 * p) * 0 = 0 /\ (2 * q) * 0 = 0
  BY <1>1
<1> HIDE DEF e, f, p, q, more
<1>8. f - e = more
  BY <1>1, <1>5, <1>6, <1>7
<1>9. e <= f
  BY <1>1, <1>3, <1>4, <1>8
<1>10. QED
  BY <1>9 DEF e, f

LEMMA MaxWithZero ==
  ASSUME NEW v \in Int
  PROVE  /\ Max({0, v}) = IF v >= 0 THEN v ELSE 0
         /\ Max({v, 0}) = IF v >= 0 THEN v ELSE 0
<1> DEFINE S == {0, v}
           most == IF v >= 0 THEN v ELSE 0
<1>1. {v, 0} = S
  OBVIOUS
<1>2. \A m \in S : (\A y \in S : m >= y) <=> m = most
  OBVIOUS
<1>3. most \in S
  OBVIOUS
<1> HIDE DEF S, most
<1>4. Max(S) = most
  BY <1>2, <1>3 DEF Max
<1>5. QED
  BY <1>1, <1>4 DEF S, most

LEMMA DivOfProduct ==
  ASSUME NEW d \in Nat \ {0}, NEW w \in Int
  PROVE  (w * d) \div d = w
<1> DEFINE t == w * d
           k == t \div d
<1>1. t \in Int
  OBVIOUS
<1>2. k \in Int /\ w <= k
  BY <1>1, DivBounds, MultipleBelow
<1>3. ~ (w + 1 <= k)
  <2>1. (w + 1) * d = t + d
    OBVIOUS
  <2>2. ~ ((w + 1) * d <= t)
    BY <1>1, <2>1
  <2> HIDE DEF t
  <2>3. QED
    BY <1>1, <2>2, MultipleBelow
<1>4. QED
  BY <1>2, <1>3

LEMMA SamplesAreSequences ==
  ASSUME NEW n \in Nat, NEW S, NEW data \in [1 .. n -> S]
  PROVE  data \in Seq(S) /\ Len(data) = n
<1>1. data \in Seq(S)
  BY SeqDef
<1>2. Len(data) \in Nat /\ DOMAIN data = 1 .. Len(data)
  BY <1>1, LenProperties
<1>3. 1 .. Len(data) = 1 .. n
  BY <1>2
<1>4. QED
  BY <1>1, <1>2, <1>3

LEMMA FitIsNormal ==
  ASSUME NEW n \in Nat \ {0}, NEW data \in Seq(Int), Len(data) = n
  PROVE  LET line == Fit(data)
             x == SumTo(Place(n), n)
             xx == SumTo(PlaceSquare(n), n)
             y == SumTo(data, n)
             xy == SumTo(Weighted(data, n), n)
         IN  /\ line.slope \in Int /\ line.start \in Int /\ line.unit \in Int
             /\ line.unit * xy = line.slope * xx + line.start * x
             /\ line.unit * y = line.slope * x + line.start * n
<1> DEFINE line == Fit(data)
           x == SumTo(Place(n), n)
           xx == SumTo(PlaceSquare(n), n)
           y == SumTo(data, n)
           xy == SumTo(Weighted(data, n), n)
           d == n * xx - x * x
           m == n * xy - x * y
<1>1. /\ x \in Int /\ xx \in Int /\ y \in Int /\ xy \in Int
      /\ line = IF d = 0
                THEN [slope |-> 0, start |-> y, unit |-> n]
                ELSE [slope |-> n * m, start |-> y * d - m * x, unit |-> n * d]
  BY SumsOfPlaces, FitOfSums
<1>2. d = 0 => x = 0 /\ xx = 0 /\ xy = 0
  <2>1. SUFFICES ASSUME d = 0 PROVE x = 0 /\ xx = 0 /\ xy = 0
    OBVIOUS
  <2>2. n = 1
    <3>1. n > 1 => d > 0
      BY SumsOfPlaces
    <3>2. QED
      BY <2>1, <3>1
  <2>3. x = 0 /\ xx = 0
    BY <2>2, SumsOfPlaces
  <2>4. xy = 0
    <3> DEFINE w == Weighted(data, n)
    <3>1. 1 .. n = {1} /\ data[1] \in Int
      BY <2>2, LenProperties
    <3>2. w[1] \in Int /\ w[1] = 0
      <4>1. w[1] = (1 - 1) * data[1]
        BY <3>1 DEF Weighted
      <4>2. (1 - 1) * data[1] = 0
        BY <3>1
      <4>3. QED
        BY <4>1, <4>2
    <3> HIDE DEF w
    <3>3. SumFunctionOnSet(w, {1}) = 0
      BY <3>2, SumOfOne
    <3>4. QED
      BY <3>1, <3>3 DEF SumTo, w
  <2>5. QED
    BY <2>3, <2>4
<1> HIDE DEF line, x, xx, y, xy
<1>3. CASE d = 0
  <2>1. line.slope = 0 /\ line.start = y /\ line.unit = n
    BY <1>1, <1>3
  <2>2. x = 0 /\ xx = 0 /\ xy = 0
    BY <1>2, <1>3
  <2>3. /\ line.unit * xy = line.slope * xx + line.start * x
        /\ line.unit * y = line.slope * x + line.start * n
    BY <1>1, <2>1, <2>2
  <2>4. line.slope \in Int /\ line.start \in Int /\ line.unit \in Int
    BY <1>1, <2>1
  <2> HIDE DEF d, m
  <2>5. QED
    BY <2>3, <2>4 DEF line, x, xx, y, xy
<1>4. CASE d # 0
  <2>1. line.slope = n * m /\ line.start = y * d - m * x /\ line.unit = n * d
    BY <1>1, <1>4
  <2>2. d \in Int /\ m \in Int
    BY <1>1
  <2>3. line.slope \in Int /\ line.start \in Int /\ line.unit \in Int
    <3> HIDE DEF d, m
    <3>1. QED
      BY <1>1, <2>1, <2>2
  <2>4. /\ n * d * xy = n * m * xx + (y * d - m * x) * x
        /\ n * d * y = n * m * x + (y * d - m * x) * n
    BY <1>1, NormalEquations
  <2> HIDE DEF d, m
  <2>5. /\ line.unit * xy = line.slope * xx + line.start * x
        /\ line.unit * y = line.slope * x + line.start * n
    BY <2>1, <2>4
  <2>6. QED
    BY <2>3, <2>5 DEF line, x, xx, y, xy
<1>5. QED
  BY <1>3, <1>4

(***************************************************************************)
(* For any number of days and any usage, the line that is used is a least  *)
(* squares line: none through whole points has a smaller error.            *)
(***************************************************************************)
THEOREM FitIsLeastSquares ==
  ASSUME NEW n \in Nat \ {0}, NEW data \in Seq(Int), Len(data) = n,
         NEW slope \in Int, NEW start \in Int
  PROVE  LET line == Fit(data)
         IN  SquaredError(data, line.slope, line.start, line.unit)
               <= SquaredError(data, line.unit * slope, line.unit * start, line.unit)
<1> DEFINE line == Fit(data)
           x == SumTo(Place(n), n)
           xx == SumTo(PlaceSquare(n), n)
           y == SumTo(data, n)
           xy == SumTo(Weighted(data, n), n)
           dd == SumTo(DataSquare(data, n), n)
           u == line.unit
           a == u * slope
           c == u * start
<1>1. /\ x \in Int /\ xx \in Int /\ n * xx - x * x \in Nat
  BY SumsOfPlaces
<1>2. y \in Int /\ xy \in Int
  BY FitOfSums
<1>3. /\ line.slope \in Int /\ line.start \in Int /\ u \in Int
      /\ u * xy = line.slope * xx + line.start * x
      /\ u * y = line.slope * x + line.start * n
  BY FitIsNormal
<1>4. a \in Int /\ c \in Int
  BY <1>3
<1> HIDE DEF line, u, a, c
<1>5. /\ dd \in Int
      /\ SquaredError(data, line.slope, line.start, u)
           = ErrorOf(n, x, xx, y, xy, dd, line.slope, line.start, u)
  BY <1>3, ErrorOfSums
<1>6. SquaredError(data, a, c, u) = ErrorOf(n, x, xx, y, xy, dd, a, c, u)
  BY <1>3, <1>4, ErrorOfSums
<1> HIDE DEF x, xx, y, xy, dd
<1>7. ErrorOf(n, x, xx, y, xy, dd, line.slope, line.start, u)
        <= ErrorOf(n, x, xx, y, xy, dd, a, c, u)
  BY <1>1, <1>2, <1>3, <1>4, <1>5, NormalIsLeast
<1>8. QED
  BY <1>5, <1>6, <1>7 DEF line, u, a, c

\* The samples of the runs are some of these.
THEOREM TrendFits == Spec => []TrendIsLeastSquares
<1>1. TrendIsLeastSquares
  <2>1. SUFFICES ASSUME NEW data \in Samples, NEW slope \in -3 .. 3, NEW start \in -3 .. 6
                 PROVE  LET line == Fit(data)
                        IN  SquaredError(data, line.slope, line.start, line.unit)
                              <= SquaredError(data, line.unit * slope, line.unit * start, line.unit)
    BY DEF TrendIsLeastSquares
  <2>2. PICK n \in 1 .. 3 : data \in [1 .. n -> 0 .. 3]
    BY DEF Samples
  <2>3. data \in [1 .. n -> Int] /\ n \in Nat \ {0}
    BY <2>2
  <2>4. data \in Seq(Int) /\ Len(data) = n
    BY <2>3, SamplesAreSequences
  <2>5. slope \in Int /\ start \in Int
    OBVIOUS
  <2>6. QED
    BY <2>3, <2>4, <2>5, FitIsLeastSquares
<1>2. QED
  BY <1>1, PTL

\* Days that change by the same amount, and the day that comes next.
Progression(n, first, step) == [i \in 1 .. n |-> first + (i - 1) * step]

GoesOn(n, first, step, soFar, remaining) ==
  Projected(Progression(n, first, step), soFar, remaining)
    = soFar + remaining * Max({0, first + n * step})

(***************************************************************************)
(* Any number of days, at least two, of usage that changes by the same     *)
(* amount every day: it is projected to go on so, and never to be given    *)
(* back.                                                                   *)
(***************************************************************************)
THEOREM SteadyIsProjected ==
  ASSUME NEW n \in Nat, n > 1, NEW first \in Int, NEW step \in Int,
         NEW soFar \in Int, NEW remaining \in Nat
  PROVE  GoesOn(n, first, step, soFar, remaining)
<1> DEFINE data == Progression(n, first, step)
           x == SumTo(Place(n), n)
           xx == SumTo(PlaceSquare(n), n)
           y == SumTo(data, n)
           xy == SumTo(Weighted(data, n), n)
           d == n * xx - x * x
           m == n * xy - x * y
           next == first + n * step
           line == Fit(data)
<1>1. data \in Seq(Int) /\ Len(data) = n /\ n \in Nat \ {0} /\ next \in Int
  <2>1. data \in [1 .. n -> Int]
    BY DEF Progression
  <2> HIDE DEF data
  <2>2. QED
    BY <2>1, SamplesAreSequences
<1>2. x \in Int /\ xx \in Int /\ d > 0 /\ SumTo(One(n), n) = n
  BY <1>1, SumsOfPlaces
<1>3. ASSUME NEW i \in 1 .. n
      PROVE  /\ One(n)[i] \in Int /\ Place(n)[i] \in Int /\ PlaceSquare(n)[i] \in Int
             /\ data[i] = first * One(n)[i] + step * Place(n)[i]
             /\ Weighted(data, n)[i] = first * Place(n)[i] + step * PlaceSquare(n)[i]
  <2> DEFINE k == i - 1
  <2>1. /\ One(n)[i] = 1 /\ Place(n)[i] = k /\ PlaceSquare(n)[i] = k * k
        /\ data[i] = first + k * step /\ Weighted(data, n)[i] = k * data[i]
        /\ k \in Int
    BY DEF One, Place, PlaceSquare, Weighted, Progression
  <2> HIDE DEF data, k
  <2>2. k * k \in Int /\ first + k * step = first * 1 + step * k
        /\ k * (first + k * step) = first * k + step * (k * k)
    BY <2>1
  <2>3. QED
    BY <2>1, <2>2
<1>4. y = first * n + step * x /\ xy = first * x + step * xx
  <2>1. IsFiniteSet(1 .. n)
    BY FS_Interval
  <2> HIDE DEF data
  <2>2. Mixes(data, first, One(n), step, Place(n), 1 .. n)
    BY <1>3 DEF Mixes
  <2>3. Mixes(Weighted(data, n), first, Place(n), step, PlaceSquare(n), 1 .. n)
    BY <1>3 DEF Mixes
  <2>4. y = first * SumTo(One(n), n) + step * x
    BY <2>1, <2>2, SumOfMixed DEF SumTo
  <2>5. xy = first * x + step * xx
    BY <2>1, <2>3, SumOfMixed DEF SumTo
  <2>6. QED
    BY <1>2, <2>4, <2>5
<1> HIDE DEF data
<1>5. line = [slope |-> n * m, start |-> y * d - m * x, unit |-> n * d]
  BY <1>1, <1>2, FitOfSums
<1> HIDE DEF x, xx, y, xy, line
<1>6. /\ m = step * d /\ y * d - m * x = n * (d * first) /\ d \in Int
  <2>1. m = step * d
    BY <1>2, <1>4
  <2>2. (first * n + step * x) * d - (step * d) * x = n * (d * first)
    BY <1>2
  <2>3. QED
    BY <1>2, <1>4, <2>1, <2>2
<1> DEFINE unit == n * d
<1>7. /\ line.slope = n * (step * d) /\ line.start = n * (d * first) /\ line.unit = unit
  BY <1>5, <1>6
<1>8. unit \in Nat \ {0}
  <2> HIDE DEF d
  <2>1. 1 * n <= d * n
    BY <1>2, <1>6, TimesMonotone
  <2>2. QED
    BY <1>6, <2>1
<1>9. line.slope * n + line.start = unit * next
  <2> HIDE DEF d
  <2>1. n * (step * d) * n + n * (d * first) = (n * d) * (first + n * step)
    BY <1>6
  <2>2. QED
    BY <1>7, <2>1
<1> HIDE DEF unit, next, d, m
<1>10. Max({unit * next, 0}) = unit * Max({0, next})
  <2>1. unit * next \in Int /\ (unit * next >= 0 <=> next >= 0)
    <3>1. next * unit = unit * next /\ unit * next \in Int
      BY <1>1, <1>8
    <3>2. next >= 0 => 0 * unit <= next * unit
      BY <1>1, <1>8, TimesMonotone
    <3>3. next < 0 => next * unit <= (-1) * unit
      BY <1>1, <1>8, TimesMonotone
    <3>4. QED
      BY <1>1, <1>8, <3>1, <3>2, <3>3
  <2>2. Max({unit * next, 0}) = IF next >= 0 THEN unit * next ELSE 0
    BY <2>1, MaxWithZero
  <2>3. Max({0, next}) = IF next >= 0 THEN next ELSE 0
    BY <1>1, MaxWithZero
  <2>4. unit * 0 = 0
    BY <1>8
  <2>5. QED
    BY <2>2, <2>3, <2>4
<1>11. Max({0, next}) \in Int
  <2>1. Max({0, next}) = IF next >= 0 THEN next ELSE 0
    BY <1>1, MaxWithZero
  <2>2. QED
    BY <1>1, <2>1
<1>12. (unit * Max({0, next}) * remaining) \div unit = remaining * Max({0, next})
  <2> DEFINE w == remaining * Max({0, next})
  <2>1. w \in Int /\ unit * Max({0, next}) * remaining = w * unit
    BY <1>8, <1>11
  <2> HIDE DEF w
  <2>2. (w * unit) \div unit = w
    BY <1>8, <2>1, DivOfProduct
  <2>3. QED
    BY <2>1, <2>2 DEF w
<1>13. QED
  <2>1. Projected(data, soFar, remaining)
          = soFar + (Max({line.slope * Len(data) + line.start, 0}) * remaining) \div line.unit
    BY DEF Projected, line
  <2>2. Projected(data, soFar, remaining)
          = soFar + (Max({unit * next, 0}) * remaining) \div unit
    BY <1>1, <1>7, <1>9, <2>1
  <2>3. QED
    BY <1>10, <1>12, <2>2 DEF data, next, GoesOn

\* What the runs project is some of this.
THEOREM SteadyUseIsProjected == Spec => []SteadyUseGoesOn
<1>1. SteadyUseGoesOn
  <2>1. SUFFICES ASSUME NEW n \in 2 .. 4, NEW first \in 0 .. 6, NEW step \in -2 .. 3,
                        NEW soFar \in {0, 5}, NEW remaining \in 0 .. 3
                 PROVE  GoesOn(n, first, step, soFar, remaining)
    BY DEF SteadyUseGoesOn, Progression, GoesOn
  <2>2. /\ n \in Nat /\ n > 1 /\ first \in Int /\ step \in Int /\ soFar \in Int
        /\ remaining \in Nat
    OBVIOUS
  <2>3. QED
    BY <2>2, SteadyIsProjected
<1>2. QED
  BY <1>1, PTL
=============================================================================
