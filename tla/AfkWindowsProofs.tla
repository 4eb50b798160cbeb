-------------------------- MODULE AfkWindowsProofs --------------------------
(***************************************************************************)
(* Proofs about AfkWindows, for every set of thresholds and IPC ranges and *)
(* every bound: the table stays a normal form, and it implements the set   *)
(* of seconds of AfkSeconds.                                               *)
(***************************************************************************)
EXTENDS AfkWindows, TLAPS

RangeOf(w) == w.start .. w.end

LEMMA RangesNat ==
  ASSUME NEW r \in Ranges
  PROVE  r.start \in Nat /\ r.end \in Nat /\ r.start \in Time /\ r.end \in Time
BY AfkAssumption DEF Ranges

-----------------------------------------------------------------------------
(***************************************************************************)
(* The merge, as a fact about ranges: W is the table, T the windows that   *)
(* touch r, m what the transaction writes in their place.                  *)
(***************************************************************************)

\* What is written is a range, reaches over r and takes its two ends from it
\* or from windows that touch it.
LEMMA MergedShape ==
  ASSUME NEW r \in Ranges, WellFormed(r),
         NEW T \in SUBSET Ranges, \A w \in T : WellFormed(w),
         NEW p \in T \cup {r}, NEW q \in T \cup {r},
         NEW tx, tx.touched = T, tx.range = r,
         MergedOf(tx, Range(p.start, q.end))
  PROVE  LET m == Range(p.start, q.end)
         IN /\ m \in Ranges
            /\ WellFormed(m)
            /\ m.start = p.start /\ m.end = q.end
            /\ \A v \in T \cup {r} : m.start <= v.start /\ v.end <= m.end
<1> DEFINE m == Range(p.start, q.end)
<1>1. m.start = p.start /\ m.end = q.end
  BY DEF Range
<1>2. \A v \in T \cup {r} : m.start <= v.start /\ v.end <= m.end
  BY DEF MergedOf
<1>3. m \in Ranges
  BY RangesNat DEF Range, Ranges
<1>4. WellFormed(m)
  <2>1. p.start > 0 /\ p.start \in Nat /\ q.end \in Nat
    BY RangesNat DEF WellFormed
  <2>2. p.start <= r.start /\ r.start <= r.end /\ r.end <= q.end
    BY <1>1, <1>2 DEF WellFormed
  <2>3. r.start \in Nat /\ r.end \in Nat
    BY RangesNat
  <2>4. QED
    BY <1>1, <2>1, <2>2, <2>3 DEF WellFormed
<1>5. QED
  BY <1>1, <1>2, <1>3, <1>4

\* A window that does not touch r stays apart from what is written.
LEMMA MergedApart ==
  ASSUME NEW W \in SUBSET Ranges,
         \A v \in W : WellFormed(v),
         \A v, w \in W : v = w \/ Apart(v, w),
         NEW r \in Ranges, WellFormed(r),
         NEW T, T = {w \in W : Touches(w, r)},
         NEW p \in T \cup {r}, NEW q \in T \cup {r},
         NEW w \in W \ T
  PROVE  Apart(w, Range(p.start, q.end))
<1> DEFINE m == Range(p.start, q.end)
<1>1. m.start = p.start /\ m.end = q.end
  BY DEF Range
<1>2. /\ w.start \in Nat /\ w.end \in Nat
      /\ p.start \in Nat /\ p.end \in Nat
      /\ q.start \in Nat /\ q.end \in Nat
      /\ r.start \in Nat /\ r.end \in Nat
  BY RangesNat
<1>3. /\ w.start <= w.end
      /\ p.start <= p.end
      /\ q.start <= q.end
      /\ r.start <= r.end
  BY DEF WellFormed
<1>4. w.start > r.end + 1 \/ w.end < r.start - 1
  BY <1>2 DEF Touches
<1>5. /\ p.start <= r.end + 1 /\ p.end >= r.start - 1
      /\ q.start <= r.end + 1 /\ q.end >= r.start - 1
  BY <1>2, <1>3 DEF Touches
<1>6. /\ p = r \/ p.end + 1 < w.start \/ w.end + 1 < p.start
      /\ q = r \/ q.end + 1 < w.start \/ w.end + 1 < q.start
  BY DEF Apart
<1>7. CASE w.start > r.end + 1
  <2>1. q.end + 1 < w.start
    BY <1>2, <1>3, <1>5, <1>6, <1>7
  <2>2. QED
    BY <1>1, <2>1 DEF Apart
<1>8. CASE w.end < r.start - 1
  <2>1. w.end + 1 < p.start
    BY <1>2, <1>3, <1>5, <1>6, <1>8
  <2>2. QED
    BY <1>1, <2>1 DEF Apart
<1>9. QED
  BY <1>4, <1>7, <1>8

\* p and q are the outermost of r and the windows T that touch it.
Outermost(r, T, p, q) ==
  /\ r \in Ranges
  /\ WellFormed(r)
  /\ T \subseteq Ranges
  /\ \A w \in T : WellFormed(w) /\ Touches(w, r)
  /\ p \in T \cup {r}
  /\ q \in T \cup {r}
  /\ \A v \in T \cup {r} : p.start <= v.start /\ v.end <= q.end

\* What is written holds r and the windows that touch it, and no second more.
LEMMA MergedSeconds ==
  ASSUME NEW r, NEW T, NEW p, NEW q, Outermost(r, T, p, q)
  PROVE  \A x : x \in RangeOf(Range(p.start, q.end))
                <=> x \in RangeOf(r) \/ \E w \in T : x \in RangeOf(w)
<1>0. /\ r \in Ranges /\ WellFormed(r)
      /\ T \subseteq Ranges
      /\ \A w \in T : WellFormed(w) /\ Touches(w, r)
      /\ p \in T \cup {r} /\ q \in T \cup {r}
      /\ \A v \in T \cup {r} : p.start <= v.start /\ v.end <= q.end
  BY DEF Outermost
<1> DEFINE m == Range(p.start, q.end)
<1>1. m.start = p.start /\ m.end = q.end
  BY DEF Range
<1>2. \A v \in T \cup {r} : v.start \in Nat /\ v.end \in Nat /\ v.start <= v.end
  BY <1>0, RangesNat DEF WellFormed
<1>3. ASSUME NEW x \in RangeOf(m)
      PROVE  x \in RangeOf(r) \/ \E w \in T : x \in RangeOf(w)
  <2>1. x \in Int /\ p.start <= x /\ x <= q.end
    BY <1>0, <1>1, <1>2, <1>3 DEF RangeOf
  <2>2. CASE x \in RangeOf(r)
    BY <2>2
  <2>3. CASE x < r.start
    <3>1. p # r
      BY <1>0, <1>2, <2>1, <2>3
    <3>2. p \in T /\ p.end >= r.start - 1
      BY <1>0, <3>1 DEF Touches
    <3>3. x \in RangeOf(p)
      BY <1>2, <2>1, <2>3, <3>2 DEF RangeOf
    <3>4. QED
      BY <3>2, <3>3
  <2>4. CASE x > r.end
    <3>1. q # r
      BY <1>0, <1>2, <2>1, <2>4
    <3>2. q \in T /\ q.start <= r.end + 1
      BY <1>0, <3>1 DEF Touches
    <3>3. x \in RangeOf(q)
      BY <1>2, <2>1, <2>4, <3>2 DEF RangeOf
    <3>4. QED
      BY <3>2, <3>3
  <2>5. QED
    BY <1>0, <1>2, <2>1, <2>2, <2>3, <2>4 DEF RangeOf
<1>4. ASSUME NEW v \in T \cup {r}, NEW x \in RangeOf(v)
      PROVE  x \in RangeOf(m)
  BY <1>0, <1>1, <1>2, <1>4 DEF RangeOf
<1>5. QED
  BY <1>3, <1>4

-----------------------------------------------------------------------------
(***************************************************************************)
(* The pieces of the actions.                                              *)
(***************************************************************************)

LEMMA TransactionFields ==
  ASSUME NEW tx \in Transactions
  PROVE  /\ tx # None
         /\ tx.range \in Ranges
         /\ tx.touched \in SUBSET Ranges
         /\ tx.stale \in BOOLEAN
BY AfkAssumption DEF Transactions

\* A merge that has just read the table is in order.
LEMMA BeginKeeps ==
  ASSUME IInv, NEW t \in Writers, NEW r \in Ranges, WellFormed(r),
         Begin(t, r), windows' = windows
  PROVE  /\ open' \in [Writers -> Transactions \cup {None}]
         /\ ReadsCurrent'
<1> DEFINE tx == [range |-> r, touched |-> {w \in windows : Touches(w, r)},
                  stale |-> FALSE]
<1>1. tx \in Transactions
  BY DEF IInv, TypeOK, Transactions
<1>2. open' = [open EXCEPT ![t] = tx]
  BY DEF Begin
<1> HIDE DEF tx
<1>3. open' \in [Writers -> Transactions \cup {None}]
  BY <1>1, <1>2 DEF IInv, TypeOK
<1>4. open \in [Writers -> Transactions \cup {None}]
  BY DEF IInv, TypeOK
<1>5. ASSUME NEW u \in Writers, open'[u] # None
      PROVE  /\ WellFormed(open'[u].range)
             /\ ~open'[u].stale => open'[u].touched
                  = {w \in windows' : Touches(w, open'[u].range)}
  <2>1. CASE u = t
    <3>1. open'[u] = tx
      BY <1>2, <1>4, <2>1
    <3>2. tx.range = r /\ tx.touched = {w \in windows : Touches(w, r)}
      BY DEF tx
    <3>3. QED
      BY <3>1, <3>2
  <2>2. CASE u # t
    <3>1. open'[u] = open[u]
      BY <1>2, <1>4, <2>2
    <3>2. QED
      BY <1>5, <3>1 DEF IInv, ReadsCurrent
  <2>3. QED
    BY <2>1, <2>2
<1>6. ReadsCurrent'
  BY <1>5 DEF ReadsCurrent
<1>7. QED
  BY <1>3, <1>6

\* After a commit every transaction left open is stale, so that whatever the
\* commit did to the table none of them speaks for it.
LEMMA StaleKeeps ==
  ASSUME IInv, NEW t \in Writers, open' = OthersStale(t)
  PROVE  /\ open' \in [Writers -> Transactions \cup {None}]
         /\ ReadsCurrent'
<1>1. \A u \in Writers :
        \/ open'[u] = None
        \/ /\ open[u] \in Transactions
           /\ open'[u] = [open[u] EXCEPT !.stale = TRUE]
  BY DEF OthersStale, IInv, TypeOK
<1>2. \A tx \in Transactions :
        /\ [tx EXCEPT !.stale = TRUE] \in Transactions
        /\ [tx EXCEPT !.stale = TRUE].stale
        /\ [tx EXCEPT !.stale = TRUE].range = tx.range
  BY DEF Transactions
<1>3. open' \in [Writers -> Transactions \cup {None}]
  <2>1. \A u \in Writers : open'[u] \in Transactions \cup {None}
    BY <1>1, <1>2
  <2>2. QED
    BY <2>1 DEF OthersStale
<1>4. ASSUME NEW u \in Writers, open'[u] # None
      PROVE  WellFormed(open'[u].range) /\ open'[u].stale
  <2>1. /\ open[u] \in Transactions
        /\ open'[u] = [open[u] EXCEPT !.stale = TRUE]
    BY <1>1, <1>4
  <2>2. WellFormed(open[u].range)
    BY <2>1, TransactionFields DEF IInv, ReadsCurrent
  <2>3. QED
    BY <1>2, <2>1, <2>2
<1>5. ReadsCurrent'
  BY <1>4 DEF ReadsCurrent
<1>6. QED
  BY <1>3, <1>5

\* What a commit does to the table: m takes the place of the windows T that
\* touch r.
Replaces(r, T, m) ==
  /\ r \in Ranges /\ m \in Ranges /\ T \subseteq windows
  /\ WellFormed(r) /\ WellFormed(m)
  /\ T = {w \in windows : Touches(w, r)}
  /\ windows' = (windows \ T) \cup {m}
  /\ \A w \in windows \ T : Apart(w, m)
  /\ \A x : x \in RangeOf(m)
              <=> x \in RangeOf(r) \/ \E w \in T : x \in RangeOf(w)

LEMMA CommitShape ==
  ASSUME IInv, NEW t \in Writers, Commit(t)
  PROVE  \E T, m : Replaces(open[t].range, T, m)
<1> DEFINE tx == open[t]
           r == tx.range
           T == tx.touched
<1>1. tx \in Transactions /\ tx # None /\ ~tx.stale
  BY DEF Commit, IInv, TypeOK
<1>2. /\ r \in Ranges
      /\ WellFormed(r)
      /\ T = {w \in windows : Touches(w, r)}
  BY <1>1, TransactionFields DEF IInv, ReadsCurrent
<1>3. PICK p \in T \cup {r}, q \in T \cup {r} :
        /\ MergedOf(tx, Range(p.start, q.end))
        /\ windows' = (windows \ T) \cup {Range(p.start, q.end)}
  BY DEF Commit
<1> DEFINE m == Range(p.start, q.end)
<1>4. /\ windows \in SUBSET Ranges
      /\ \A w \in windows : WellFormed(w)
      /\ \A v, w \in windows : v = w \/ Apart(v, w)
  BY DEF IInv, TypeOK, WindowsApart
<1>5. /\ T \in SUBSET windows
      /\ T \in SUBSET Ranges
      /\ \A w \in T : WellFormed(w) /\ Touches(w, r)
  BY <1>2, <1>4
<1> HIDE DEF tx, r, T
<1>6. /\ m \in Ranges
      /\ WellFormed(m)
      /\ m.start = p.start /\ m.end = q.end
      /\ \A v \in T \cup {r} : m.start <= v.start /\ v.end <= m.end
  BY <1>2, <1>3, <1>5, MergedShape DEF tx, r, T
<1>7. \A w \in windows \ T : Apart(w, m)
  BY <1>2, <1>3, <1>4, MergedApart
<1>8. \A x : x \in RangeOf(m)
              <=> x \in RangeOf(r) \/ \E w \in T : x \in RangeOf(w)
  <2>1. \A v \in T \cup {r} : p.start <= v.start /\ v.end <= q.end
    BY <1>6
  <2>2. Outermost(r, T, p, q)
    BY <1>2, <1>5, <2>1 DEF Outermost
  <2>3. QED
    BY <2>2, MergedSeconds
<1> HIDE DEF m
<1>9. windows' = (windows \ T) \cup {m}
  BY <1>3 DEF m
<1>10. Replaces(r, T, m)
  BY <1>2, <1>5, <1>6, <1>7, <1>8, <1>9 DEF Replaces
<1>11. QED
  BY <1>10 DEF r, tx

\* Apart does not depend on the order.
LEMMA ApartSymmetric ==
  ASSUME NEW v, NEW w, Apart(v, w)
  PROVE  Apart(w, v)
BY DEF Apart

LEMMA CommitKeeps ==
  ASSUME IInv, NEW t \in Writers, Commit(t)
  PROVE  windows' \subseteq Ranges /\ WindowsApart'
<1>0. PICK T, m : Replaces(open[t].range, T, m)
  BY CommitShape
<1>1. /\ T \subseteq windows
      /\ m \in Ranges /\ WellFormed(m)
      /\ windows' = (windows \ T) \cup {m}
      /\ \A w \in windows \ T : Apart(w, m)
  BY <1>0 DEF Replaces
<1>2. /\ windows \subseteq Ranges
      /\ \A w \in windows : WellFormed(w)
      /\ \A v, w \in windows : v = w \/ Apart(v, w)
  BY DEF IInv, TypeOK, WindowsApart
<1>3. windows' \subseteq Ranges
  BY <1>1, <1>2
<1>4. \A w \in windows' : WellFormed(w)
  BY <1>1, <1>2
<1>5. ASSUME NEW v \in windows', NEW w \in windows', v # w
      PROVE  Apart(v, w)
  <2>1. CASE v # m /\ w # m
    BY <1>1, <1>2, <1>5, <2>1
  <2>2. CASE v # m /\ w = m
    BY <1>1, <2>2
  <2>3. CASE v = m
    <3>1. w \in windows \ T
      BY <1>1, <1>5, <2>3
    <3>2. QED
      BY <1>1, <2>3, <3>1, ApartSymmetric
  <2>4. QED
    BY <2>1, <2>2, <2>3
<1>6. QED
  BY <1>3, <1>4, <1>5 DEF WindowsApart

-----------------------------------------------------------------------------
(***************************************************************************)
(* The inductive invariant.                                                *)
(***************************************************************************)

LEMMA InitInvariant == Init => IInv
<1> SUFFICES ASSUME Init PROVE IInv
  OBVIOUS
<1>1. TypeOK
  BY AfkAssumption DEF Init, TypeOK
<1>2. WindowsApart
  BY DEF Init, WindowsApart
<1>3. ReadsCurrent
  BY DEF Init, ReadsCurrent
<1>4. QED
  BY <1>1, <1>2, <1>3 DEF IInv

\* Steps that touch neither the table nor a transaction.
LEMMA QuietKeeps ==
  ASSUME IInv, UNCHANGED <<windows, open>>
  PROVE  /\ windows' \subseteq Ranges
         /\ open' \in [Writers -> Transactions \cup {None}]
         /\ WindowsApart'
         /\ ReadsCurrent'
BY DEF IInv, TypeOK, WindowsApart, ReadsCurrent

LEMMA WindowsKept ==
  ASSUME IInv, UNCHANGED windows
  PROVE  windows' \subseteq Ranges /\ WindowsApart'
BY DEF IInv, TypeOK, WindowsApart

\* The range an absence gives is one the table may hold.
LEMMA AwayRange ==
  ASSUME IInv, pollTs # None, NEW idle \in IdleSeconds, Away(idle)
  PROVE  LET r == Range(AfkStart(pollTs, idle), pollTs)
         IN r \in Ranges /\ WellFormed(r)
<1>1. pollTs \in 1 .. now /\ now \in 1 .. MaxNow
  BY DEF IInv, TypeOK
<1>2. AfkStart(pollTs, idle) \in 1 .. pollTs
  BY DEF Away
<1> DEFINE from == AfkStart(pollTs, idle)
<1> HIDE DEF from
<1>3. /\ from \in 1 .. MaxNow
      /\ pollTs \in 1 .. MaxNow
      /\ from > 0
      /\ pollTs >= from
  BY <1>1, <1>2, AfkAssumption DEF from
<1>4. from \in Time /\ pollTs \in Time
  BY <1>3, AfkAssumption
<1>5. QED
  BY <1>3, <1>4 DEF Range, Ranges, WellFormed, from

LEMMA StepInvariant == IInv /\ [Next]_vars => IInv'
<1> SUFFICES ASSUME IInv, [Next]_vars PROVE IInv'
  OBVIOUS
<1>0. /\ now \in 1 .. MaxNow
      /\ lastInput \in 1 .. now
      /\ inputs \subseteq 1 .. now
      /\ threshold \in Thresholds
      /\ pollTs \in (1 .. now) \cup {None}
      /\ windows \subseteq Ranges
      /\ open \in [Writers -> Transactions \cup {None}]
      /\ MaxNow \in Nat
  BY AfkAssumption DEF IInv, TypeOK
<1>1. CASE Tick
  <2>1. UNCHANGED <<windows, open>>
    BY <1>1 DEF Tick
  <2>2. now' \in 1 .. MaxNow /\ now < now'
    BY <1>0, <1>1 DEF Tick
  <2>3. 1 .. now \subseteq 1 .. now'
    BY <1>0, <2>2
  <2>4. UNCHANGED <<lastInput, inputs, threshold, pollTs>>
    BY <1>1 DEF Tick
  <2>5. TypeOK'
    BY <1>0, <2>1, <2>2, <2>3, <2>4 DEF TypeOK
  <2>6. QED
    BY <2>1, <2>5, QuietKeeps DEF IInv
<1>2. CASE Input
  <2>1. UNCHANGED <<windows, open>>
    BY <1>2 DEF Input
  <2>2. now \in 1 .. now
    BY <1>0
  <2>3. TypeOK'
    BY <1>0, <1>2, <2>1, <2>2 DEF TypeOK, Input
  <2>4. QED
    BY <2>1, <2>3, QuietKeeps DEF IInv
<1>3. ASSUME NEW n \in Thresholds, SetThreshold(n)
      PROVE  IInv'
  <2>1. /\ "ipc" \in Writers
        /\ open' = OthersStale("ipc")
        /\ UNCHANGED windows
    BY <1>3 DEF SetThreshold, Writers
  <2>2. open' \in [Writers -> Transactions \cup {None}] /\ ReadsCurrent'
    BY <2>1, StaleKeeps
  <2>3. TypeOK'
    BY <1>0, <1>3, <2>2 DEF TypeOK, SetThreshold
  <2>4. QED
    BY <2>1, <2>2, <2>3, WindowsKept DEF IInv
<1>4. CASE StartPoll
  <2>1. UNCHANGED <<windows, open>>
    BY <1>4 DEF StartPoll
  <2>2. now \in 1 .. now
    BY <1>0
  <2>3. TypeOK'
    BY <1>0, <1>4, <2>1, <2>2 DEF TypeOK, StartPoll
  <2>4. QED
    BY <2>1, <2>3, QuietKeeps DEF IInv
<1>5. ASSUME NEW idle \in IdleSeconds, CaptureAway(idle)
      PROVE  IInv'
  <2> DEFINE r == Range(AfkStart(pollTs, idle), pollTs)
  <2>1. r \in Ranges /\ WellFormed(r)
    BY <1>5, AwayRange DEF CaptureAway
  <2>2. Begin("poll", r) /\ UNCHANGED windows /\ "poll" \in Writers
    BY <1>5 DEF CaptureAway, Writers
  <2> HIDE DEF r
  <2>3. open' \in [Writers -> Transactions \cup {None}] /\ ReadsCurrent'
    BY <2>1, <2>2, BeginKeeps
  <2>4. TypeOK'
    BY <1>0, <1>5, <2>3 DEF TypeOK, CaptureAway
  <2>5. QED
    BY <2>2, <2>3, <2>4, WindowsKept DEF IInv
<1>6. CASE EndPollWithoutWindow
  <2>1. UNCHANGED <<windows, open>>
    BY <1>6 DEF EndPollWithoutWindow
  <2>2. TypeOK'
    BY <1>0, <1>6, <2>1 DEF TypeOK, EndPollWithoutWindow
  <2>3. QED
    BY <2>1, <2>2, QuietKeeps DEF IInv
<1>7. ASSUME NEW cutoff \in 1 .. now, Retain(cutoff)
      PROVE  IInv'
  <2>1. "poll" \in Writers /\ open' = OthersStale("poll")
    BY <1>7 DEF Retain, Writers
  <2>2. open' \in [Writers -> Transactions \cup {None}] /\ ReadsCurrent'
    BY <2>1, StaleKeeps
  <2>3. windows' \subseteq windows
    BY <1>7 DEF Retain
  <2>4. WindowsApart'
    BY <2>3 DEF IInv, WindowsApart
  <2>5. TypeOK'
    BY <1>0, <1>7, <2>2, <2>3 DEF TypeOK, Retain
  <2>6. QED
    BY <2>2, <2>4, <2>5 DEF IInv
<1>8. ASSUME NEW r \in IpcRanges, IpcUpsert(r)
      PROVE  IInv'
  <2>1. r \in Ranges
    BY AfkAssumption
  <2>2. WellFormed(r) /\ Begin("ipc", r) /\ UNCHANGED windows /\ "ipc" \in Writers
    BY <1>8 DEF IpcUpsert, WellFormed, Writers
  <2>3. open' \in [Writers -> Transactions \cup {None}] /\ ReadsCurrent'
    BY <2>1, <2>2, BeginKeeps
  <2>4. TypeOK'
    BY <1>0, <1>8, <2>3 DEF TypeOK, IpcUpsert
  <2>5. QED
    BY <2>2, <2>3, <2>4, WindowsKept DEF IInv
<1>9. ASSUME NEW t \in Writers, Commit(t)
      PROVE  IInv'
  <2>1. open' = OthersStale(t)
    BY <1>9 DEF Commit
  <2>2. open' \in [Writers -> Transactions \cup {None}] /\ ReadsCurrent'
    BY <2>1, StaleKeeps
  <2>3. windows' \subseteq Ranges /\ WindowsApart'
    BY <1>9, CommitKeeps
  <2>4. pollTs' \in (1 .. now) \cup {None}
    BY <1>0, <1>9 DEF Commit
  <2>5. TypeOK'
    BY <1>0, <1>9, <2>2, <2>3, <2>4 DEF TypeOK, Commit
  <2>6. QED
    BY <2>2, <2>3, <2>5 DEF IInv
<1>10. ASSUME NEW t \in Writers, Rollback(t)
       PROVE  IInv'
  <2>1. UNCHANGED windows /\ open' = [open EXCEPT ![t] = None]
    BY <1>10 DEF Rollback
  <2>2. \A u \in Writers : open'[u] = None \/ open'[u] = open[u]
    BY <1>0, <2>1
  <2>3. open' \in [Writers -> Transactions \cup {None}]
    BY <1>0, <2>1
  <2>4. ReadsCurrent'
    BY <2>1, <2>2 DEF IInv, ReadsCurrent
  <2>5. pollTs' \in (1 .. now) \cup {None}
    BY <1>0, <1>10 DEF Rollback
  <2>6. TypeOK'
    BY <1>0, <1>10, <2>3, <2>5 DEF TypeOK, Rollback
  <2>7. QED
    BY <2>1, <2>4, <2>6, WindowsKept DEF IInv
<1>11. CASE UNCHANGED vars
  <2>1. TypeOK'
    BY <1>0, <1>11 DEF TypeOK, vars
  <2>2. QED
    BY <1>11, <2>1, QuietKeeps DEF IInv, vars
<1>12. QED
  BY <1>1, <1>2, <1>3, <1>4, <1>5, <1>6, <1>7, <1>8, <1>9, <1>10, <1>11
  DEF Next, PollThread

\* The strengthened invariant holds: a transaction the database would still
\* let through has read the table as it is.
THEOREM InvariantHolds == Spec => []IInv
<1>1. QED
  BY InitInvariant, StepInvariant, PTL DEF Spec

\* The table stays a normal form: whatever ranges the two threads merge in
\* whatever order, the windows stay well formed, disjoint and not adjacent.
THEOREM WindowsStayApart == Spec => []WindowsApart
<1>1. IInv => WindowsApart
  BY DEF IInv
<1>2. QED
  BY <1>1, InvariantHolds, PTL

-----------------------------------------------------------------------------
(***************************************************************************)
(* The refinement.                                                         *)
(***************************************************************************)

LEMMA SecondsPointwise ==
  \A x : x \in Seconds <=> \E w \in windows : x \in RangeOf(w)
BY DEF Seconds, RangeOf

LEMMA NextSecondsPointwise ==
  \A x : x \in Seconds' <=> \E w \in windows' : x \in RangeOf(w)
BY DEF Seconds, RangeOf

\* A commit records the seconds of its range, all of them and no other.
LEMMA CommitRecords ==
  ASSUME IInv, NEW t \in Writers, Commit(t)
  PROVE  Abstract!Record
<1> DEFINE r == open[t].range
<1>1. PICK T, m : Replaces(r, T, m)
  BY CommitShape
<1>2. /\ r \in Ranges /\ WellFormed(r)
      /\ T \subseteq windows
      /\ windows' = (windows \ T) \cup {m}
      /\ \A x : x \in RangeOf(m)
                 <=> x \in RangeOf(r) \/ \E w \in T : x \in RangeOf(w)
  BY <1>1 DEF Replaces
<1> HIDE DEF r
<1>3. \A x : x \in Seconds' <=> x \in Seconds \/ x \in RangeOf(r)
  <2>1. ASSUME NEW x, x \in Seconds'
        PROVE  x \in Seconds \/ x \in RangeOf(r)
    <3>1. PICK w \in windows' : x \in RangeOf(w)
      BY <2>1, NextSecondsPointwise
    <3>2. CASE w = m
      <4>1. x \in RangeOf(r) \/ \E v \in T : x \in RangeOf(v)
        BY <1>2, <3>1, <3>2
      <4>2. QED
        BY <1>2, <4>1, SecondsPointwise
    <3>3. CASE w # m
      BY <1>2, <3>1, <3>3, SecondsPointwise
    <3>4. QED
      BY <3>2, <3>3
  <2>2. ASSUME NEW x, x \in RangeOf(r)
        PROVE  x \in Seconds'
    BY <1>2, <2>2, NextSecondsPointwise
  <2>3. ASSUME NEW x, x \in Seconds
        PROVE  x \in Seconds'
    <3>1. PICK w \in windows : x \in RangeOf(w)
      BY <2>3, SecondsPointwise
    <3>2. CASE w \in T
      BY <1>2, <3>1, <3>2, NextSecondsPointwise
    <3>3. CASE w \notin T
      BY <1>2, <3>1, <3>3, NextSecondsPointwise
    <3>4. QED
      BY <3>2, <3>3
  <2>4. QED
    BY <2>1, <2>2, <2>3
<1>4. Seconds' = Seconds \cup (r.start .. r.end)
  BY <1>3 DEF RangeOf
<1>5. r.start \in Time /\ r.end \in Time /\ r.start <= r.end
  BY <1>2, RangesNat DEF WellFormed
<1>6. QED
  BY <1>4, <1>5 DEF Abstract!Record

\* The retention pass forgets only seconds older than its cutoff.
LEMMA RetainForgets ==
  ASSUME IInv, NEW cutoff \in 1 .. now, Retain(cutoff)
  PROVE  Abstract!Forget
<1>1. /\ windows \subseteq Ranges
      /\ windows' = {w \in windows : w.end >= cutoff}
      /\ now \in 1 .. MaxNow
  BY DEF Retain, IInv, TypeOK
<1>2. Seconds' \subseteq Seconds
  BY <1>1, SecondsPointwise, NextSecondsPointwise
<1>3. ASSUME NEW s \in Seconds \ Seconds'
      PROVE  s < cutoff
  <2>1. PICK w \in windows : s \in RangeOf(w)
    BY <1>3, SecondsPointwise
  <2>2. w \notin windows'
    BY <1>3, <2>1, NextSecondsPointwise
  <2>3. ~(w.end >= cutoff)
    BY <1>1, <2>1, <2>2
  <2>4. w.start \in Nat /\ w.end \in Nat
    BY <1>1, <2>1, RangesNat
  <2>5. s \in Int /\ s <= w.end
    BY <2>1, <2>4 DEF RangeOf
  <2>6. QED
    BY <2>3, <2>4, <2>5
<1>4. cutoff \in Time
  BY <1>1, AfkAssumption
<1>5. QED
  BY <1>2, <1>3, <1>4 DEF Abstract!Forget

LEMMA StepImplements == IInv /\ [Next]_vars => [Abstract!Next]_Seconds
<1> SUFFICES ASSUME IInv, [Next]_vars PROVE [Abstract!Next]_Seconds
  OBVIOUS
<1>1. UNCHANGED windows => UNCHANGED Seconds
  BY DEF Seconds
<1>2. ASSUME NEW t \in Writers, Commit(t) PROVE Abstract!Next
  BY <1>2, CommitRecords DEF Abstract!Next
<1>3. ASSUME NEW cutoff \in 1 .. now, Retain(cutoff) PROVE Abstract!Next
  BY <1>3, RetainForgets DEF Abstract!Next
<1>4. CASE UNCHANGED windows
  BY <1>1, <1>4
<1>5. CASE \/ Tick
           \/ Input
           \/ \E n \in Thresholds : SetThreshold(n)
           \/ StartPoll
           \/ \E idle \in IdleSeconds : CaptureAway(idle)
           \/ EndPollWithoutWindow
           \/ \E r \in IpcRanges : IpcUpsert(r)
           \/ \E t \in Writers : Rollback(t)
           \/ UNCHANGED vars
  <2>1. UNCHANGED windows
    BY <1>5 DEF Tick, Input, SetThreshold, StartPoll, CaptureAway,
                EndPollWithoutWindow, IpcUpsert, Rollback, vars
  <2>2. QED
    BY <1>4, <2>1
<1>6. QED
  BY <1>2, <1>3, <1>5 DEF Next, PollThread

\* The table of windows implements the set of seconds the daemon promises:
\* it starts empty, a merge adds exactly its range, the retention pass takes
\* away only what is older than its cutoff, and no other step changes it.
THEOREM WindowsImplementSeconds == Spec => ImplementsSeconds
<1>1. Init => Abstract!Init
  BY DEF Init, Abstract!Init, Seconds
<1>2. QED
  BY <1>1, StepImplements, InvariantHolds, PTL
  DEF Spec, ImplementsSeconds, Abstract!Spec

-----------------------------------------------------------------------------
(***************************************************************************)
(* No input while AFK, as long as polls read the idle time before the      *)
(* shortest threshold is over.                                             *)
(***************************************************************************)
LEMMA Numbers ==
  ASSUME TypeOK
  PROVE  /\ now \in Nat /\ lastInput \in Nat /\ lastInput <= now
         /\ \A s \in inputs : s \in Nat /\ s <= now
         /\ pollTs # None => pollTs \in Nat /\ pollTs <= now
         /\ threshold \in Nat /\ MaxStall \in Nat
         /\ \A w \in windows : w.start \in Nat /\ w.end \in Nat
BY AfkAssumption, RangesNat DEF TypeOK

\* An IPC range excuses all its seconds and the one before.
LEMMA IpcExcused ==
  ASSUME NEW r \in IpcRanges, WellFormed(r), NEW s \in r.start - 1 .. r.end
  PROVE  Excused(s) /\ r.start \in Synthetic
<1>1. r.start \in Nat /\ r.end \in Nat /\ r.start <= r.end
  BY AfkAssumption, RangesNat DEF WellFormed
<1>2. \A x \in r.start .. r.end : x \in Synthetic
  BY DEF Synthetic
<1>3. s \in r.start .. r.end \/ s + 1 \in r.start .. r.end
  BY <1>1
<1>4. QED
  BY <1>1, <1>2, <1>3 DEF Excused

\* What a poll records began two seconds after the last input, at least.
LEMMA CaptureIsQuiet ==
  ASSUME IInv, QInv, PollsAreQuick, NEW idle \in IdleSeconds, CaptureAway(idle),
         NEW s \in AfkStart(pollTs, idle) - 1 .. pollTs - 1
  PROVE  s \notin inputs
<1>1. TypeOK /\ pollTs # None /\ open["poll"] = None
  BY DEF IInv, CaptureAway, Begin
<1>2. /\ now \in Nat /\ lastInput \in Nat /\ lastInput <= now
      /\ pollTs \in Nat /\ pollTs <= now
      /\ threshold \in Nat /\ MaxStall \in Nat
  BY <1>1, Numbers
<1>3. now - pollTs <= MaxStall /\ MaxStall + 2 <= threshold
  BY <1>1 DEF QInv, IdleReadInTime, PollsAreQuick, TypeOK
<1>4. idle \in Int /\ idle <= now - lastInput
  BY <1>2 DEF IdleSeconds
<1>5. AfkStart(pollTs, idle) >= lastInput + 2
  BY <1>2, <1>3, <1>4 DEF AfkStart
<1>6. s > lastInput
  BY <1>2, <1>4, <1>5 DEF AfkStart
<1>7. \A x \in inputs : x \in Nat /\ x <= lastInput
  BY <1>1, Numbers DEF QInv, InputsSeen
<1>8. QED
  BY <1>2, <1>6, <1>7

\* Nobody touches s, nor will.
Quiet(s) == Excused(s) \/ (s \notin inputs /\ s < now)

\* What a commit writes is as quiet as what it read.
LEMMA CommitIsQuiet ==
  ASSUME IInv, QInv, NEW t \in Writers, Commit(t)
  PROVE  /\ \A w \in windows' : \A s \in w.start .. w.end - 1 : Quiet(s)
         /\ \A w \in windows' : w.start \in Synthetic
                                  \/ w.start <= (IF pollTs = None THEN now ELSE pollTs)
<1> DEFINE latest == IF pollTs = None THEN now ELSE pollTs
           r == open[t].range
<1>1. PICK T, m : Replaces(r, T, m)
  BY CommitShape
<1>2. /\ r \in Ranges /\ m \in Ranges /\ T \subseteq windows
      /\ WellFormed(r) /\ WellFormed(m)
      /\ windows' = (windows \ T) \cup {m}
      /\ \A x : x \in RangeOf(m) <=> x \in RangeOf(r) \/ \E w \in T : x \in RangeOf(w)
  BY <1>1 DEF Replaces
<1>3. /\ TypeOK
      /\ windows \subseteq Ranges
      /\ \A w \in windows : WellFormed(w)
      /\ \A v, w \in windows : v = w \/ Apart(v, w)
  BY DEF IInv, TypeOK, WindowsApart
<1>4. /\ \A w \in windows : \A s \in w.start .. w.end - 1 : Quiet(s)
      /\ \A w \in windows : w.start \in Synthetic \/ w.start <= latest
  BY DEF QInv, QuietWindows, WindowStarts, Quiet
<1>5. now \in Nat /\ latest \in Nat /\ latest <= now
  BY <1>3, Numbers
<1>6. open[t] # None /\ (t = "poll" \/ t = "ipc")
  BY DEF Commit, Writers
\* The range itself: it is quiet from the second before it to the one before
\* its end; what it ends with is excused, or is the timestamp of the poll.
<1>7. /\ \A s \in r.start - 1 .. r.end - 1 : Quiet(s)
      /\ r.start \in Synthetic \/ r.start <= latest
      /\ Excused(r.end) \/ r.end = latest
  <2>1. r.start \in Nat /\ r.end \in Nat /\ r.start <= r.end
    BY <1>2, RangesNat DEF WellFormed
  <2>2. CASE t = "ipc"
    <3>1. r \in IpcRanges
      BY <1>6, <2>2 DEF QInv, IpcRange
    <3>2. \A s \in r.start - 1 .. r.end : Excused(s) /\ r.start \in Synthetic
      BY <1>2, <3>1, IpcExcused
    <3>3. r.end \in r.start - 1 .. r.end
      BY <2>1
    <3> HIDE DEF r, latest
    <3>4. \A s \in r.start - 1 .. r.end - 1 : s \in r.start - 1 .. r.end
      BY <2>1
    <3>5. QED
      BY <3>2, <3>3, <3>4 DEF Quiet
  <2>3. CASE t = "poll"
    <3>1. /\ pollTs # None /\ r.end = pollTs
          /\ \A s \in r.start - 1 .. pollTs - 1 : s \notin inputs
      BY <1>6, <2>3 DEF QInv, PollRange
    <3>2. latest = pollTs /\ r.end = latest
      BY <3>1
    <3> HIDE DEF r, latest
    <3>3. ASSUME NEW s \in r.start - 1 .. r.end - 1
          PROVE  Quiet(s)
      <4>1. s < now
        BY <1>5, <2>1, <3>2
      <4>2. QED
        BY <3>1, <4>1 DEF Quiet
    <3>4. QED
      BY <2>1, <3>2, <3>3
  <2>4. QED
    BY <1>6, <2>2, <2>3
<1> HIDE DEF r, latest
<1>8. /\ m.start \in Nat /\ m.end \in Nat /\ m.start <= m.end
      /\ r.start \in Nat /\ r.end \in Nat /\ r.start <= r.end
      /\ \A w \in T : w.start \in Nat /\ w.end \in Nat /\ w.start <= w.end
  BY <1>2, <1>3, RangesNat DEF WellFormed
<1>9. ASSUME NEW s \in m.start .. m.end - 1
      PROVE  Quiet(s)
  <2>1. s \in RangeOf(m) /\ s + 1 \in RangeOf(m) /\ s \in Nat
    BY <1>8 DEF RangeOf
  <2>2. ASSUME NEW w \in T, s \in RangeOf(w), s + 1 \in RangeOf(w)
        PROVE  Quiet(s)
    BY <1>2, <1>4, <1>8, <2>2 DEF RangeOf
  <2>3. CASE s + 1 \in RangeOf(r)
    <3>1. s \in r.start - 1 .. r.end - 1
      BY <1>8, <2>1, <2>3 DEF RangeOf
    <3>2. QED
      BY <1>7, <3>1
  <2>4. CASE s + 1 \notin RangeOf(r)
    <3>1. PICK w \in T : s + 1 \in RangeOf(w)
      BY <1>2, <2>1, <2>4
    <3>2. CASE s \in RangeOf(w)
      BY <2>2, <3>1, <3>2
    <3>3. CASE s \notin RangeOf(w)
      <4>1. w.start = s + 1
        BY <1>8, <2>1, <3>1, <3>3 DEF RangeOf
      <4>2. CASE s \in RangeOf(r)
        <5>1. s = r.end
          BY <1>8, <2>1, <2>4, <4>2 DEF RangeOf
        <5>2. w.start \in Synthetic \/ w.start <= latest
          BY <1>2, <1>4
        <5>3. w.start \in Synthetic => Excused(s)
          BY <4>1 DEF Excused
        <5>4. ~ (r.end = latest /\ w.start <= latest)
          BY <1>5, <1>8, <4>1, <5>1
        <5>5. QED
          BY <1>7, <5>1, <5>2, <5>3, <5>4 DEF Quiet
      <4>3. CASE s \notin RangeOf(r)
        <5>1. PICK v \in T : s \in RangeOf(v)
          BY <1>2, <2>1, <4>3
        <5>2. v = w \/ Apart(v, w)
          BY <1>2, <1>3
        <5>3. v = w
          BY <1>8, <2>1, <3>1, <5>1, <5>2 DEF RangeOf, Apart
        <5>4. QED
          BY <3>3, <5>1, <5>3
      <4>4. QED
        BY <4>2, <4>3
    <3>4. QED
      BY <3>2, <3>3
  <2>5. QED
    BY <2>3, <2>4
<1>10. m.start \in Synthetic \/ m.start <= latest
  <2>1. m.start \in RangeOf(m) /\ m.start - 1 \notin RangeOf(m)
    BY <1>8 DEF RangeOf
  <2>2. CASE m.start \in RangeOf(r)
    <3>1. m.start = r.start
      <4>1. r.start \in RangeOf(m)
        BY <1>2, <1>8 DEF RangeOf
      <4>2. QED
        BY <1>8, <2>2, <4>1 DEF RangeOf
    <3>2. QED
      BY <1>7, <3>1
  <2>3. ASSUME NEW w \in T, m.start \in RangeOf(w)
        PROVE  m.start = w.start
    <3>1. w.start \in RangeOf(w)
      BY <1>8 DEF RangeOf
    <3>2. w.start \in RangeOf(m)
      BY <1>2, <3>1
    <3>3. QED
      BY <1>8, <2>3, <3>2 DEF RangeOf
  <2>4. QED
    BY <1>2, <1>4, <2>1, <2>2, <2>3
<1>11. QED
  BY <1>2, <1>4, <1>9, <1>10 DEF latest

\* Steps that leave the table, the transactions and the poll alone.
LEMMA QuietSteps ==
  ASSUME IInv, QInv, UNCHANGED <<windows, open, pollTs>>,
         now' \in Nat, now <= now',
         pollTs # None /\ open["poll"] = None => now' - pollTs <= MaxStall,
         \/ UNCHANGED <<inputs, lastInput>>
         \/ inputs' = inputs \cup {now} /\ lastInput' = now /\ now' = now
  PROVE  QInv'
<1>1. TypeOK
  BY DEF IInv
<1>2. /\ now \in Nat /\ lastInput \in Nat /\ lastInput <= now
      /\ \A s \in inputs : s \in Nat /\ s <= now
      /\ pollTs # None => pollTs \in Nat /\ pollTs <= now
      /\ \A w \in windows : w.start \in Nat /\ w.end \in Nat
  BY <1>1, Numbers
<1>3. \A s : s \in inputs' => s \in inputs \/ s = now
  OBVIOUS
<1>4. QuietWindows'
  <2>1. ASSUME NEW w \in windows, NEW s \in w.start .. w.end - 1, ~ Excused(s)
        PROVE  s \notin inputs' /\ s < now'
    <3>1. s \notin inputs /\ s < now
      BY <2>1 DEF QInv, QuietWindows
    <3>2. s \in Int
      BY <1>2
    <3>3. QED
      BY <1>2, <1>3, <3>1, <3>2
  <2>2. QED
    BY <2>1 DEF QuietWindows, Excused, Synthetic
<1>5. WindowStarts'
  <2>1. ASSUME NEW w \in windows, w.start \notin Synthetic
        PROVE  w.start <= (IF pollTs = None THEN now' ELSE pollTs)
    <3>1. w.start <= (IF pollTs = None THEN now ELSE pollTs)
      BY <2>1 DEF QInv, WindowStarts
    <3>2. QED
      BY <1>2, <3>1
  <2>2. QED
    BY <2>1 DEF WindowStarts, Synthetic
<1>6. PollRange'
  <2>1. ASSUME open["poll"] # None, NEW s \in open["poll"].range.start - 1 .. pollTs - 1
        PROVE  s \notin inputs'
    <3>1. s \notin inputs /\ pollTs # None
      BY <2>1 DEF QInv, PollRange
    <3>2. s # now
      <4>1. open["poll"].range.start \in Int
        <5>1. open["poll"] \in Transactions
          BY <1>1, <2>1 DEF TypeOK, Writers
        <5>2. QED
          BY <5>1, TransactionFields, RangesNat
      <4>2. QED
        BY <1>2, <3>1, <4>1
    <3>3. QED
      BY <1>3, <3>1, <3>2
  <2>2. QED
    BY <2>1 DEF QInv, PollRange
<1>7. IdleReadInTime'
  BY DEF IdleReadInTime
<1>8. InputsSeen'
  <2>1. \A s \in inputs' : s <= lastInput'
    BY <1>2 DEF QInv, InputsSeen
  <2>2. QED
    BY <2>1 DEF InputsSeen
<1>9. IpcRange'
  BY DEF QInv, IpcRange
<1>10. QED
  BY <1>4, <1>5, <1>6, <1>7, <1>8, <1>9 DEF QInv

\* Steps of the two threads: neither time nor the user moves.
LEMMA ThreadSteps ==
  ASSUME IInv, QInv, windows' \subseteq Ranges, UNCHANGED <<now, inputs, lastInput>>,
         \A w \in windows' : \A s \in w.start .. w.end - 1 : Quiet(s),
         \A w \in windows' : w.start \in Synthetic
                               \/ w.start <= (IF pollTs = None THEN now ELSE pollTs),
         \/ pollTs' = pollTs
         \/ pollTs' = None
         \/ pollTs = None /\ pollTs' = now,
         PollRange', IdleReadInTime', IpcRange'
  PROVE  QInv'
<1>1. TypeOK
  BY DEF IInv
<1>2. now \in Nat /\ (pollTs # None => pollTs \in Nat /\ pollTs <= now)
  BY <1>1, Numbers
<1>3. QuietWindows'
  BY DEF QuietWindows, Quiet, Excused, Synthetic
<1>4. WindowStarts'
  <2>1. ASSUME NEW w \in windows', w.start \notin Synthetic
        PROVE  w.start <= (IF pollTs' = None THEN now ELSE pollTs')
    <3>1. w.start <= (IF pollTs = None THEN now ELSE pollTs)
      BY <2>1
    <3>2. w.start \in Nat
      BY <2>1, RangesNat
    <3>3. w.start <= now
      BY <1>2, <3>1, <3>2
    <3>4. QED
      BY <3>1, <3>3
  <2>2. QED
    BY <2>1 DEF WindowStarts, Synthetic
<1>5. InputsSeen'
  BY DEF QInv, InputsSeen
<1>6. QED
  BY <1>3, <1>4, <1>5 DEF QInv

\* A commit or a change of the settings leaves the ranges of the others alone.
LEMMA StaleRanges ==
  ASSUME IInv, NEW t \in Writers, open' = OthersStale(t)
  PROVE  /\ open'[t] = None
         /\ \A u \in Writers \ {t} :
              /\ open'[u] = None <=> open[u] = None
              /\ open[u] # None => open'[u].range = open[u].range
<1>1. open \in [Writers -> Transactions \cup {None}]
  BY DEF IInv, TypeOK
<1>2. open'[t] = None
  BY DEF OthersStale
<1>3. ASSUME NEW u \in Writers \ {t}, open[u] # None
      PROVE  open'[u] # None /\ open'[u].range = open[u].range
  <2>1. open[u] \in Transactions /\ open'[u] = [open[u] EXCEPT !.stale = TRUE]
    BY <1>1, <1>3 DEF OthersStale
  <2>2. [open[u] EXCEPT !.stale = TRUE] \in Transactions
    BY <2>1 DEF Transactions
  <2>3. QED
    BY <2>1, <2>2, TransactionFields DEF Transactions
<1>4. ASSUME NEW u \in Writers \ {t}, open[u] = None
      PROVE  open'[u] = None
  BY <1>4 DEF OthersStale
<1>5. QED
  BY <1>2, <1>3, <1>4

LEMMA StepIsQuiet ==
  ASSUME IInv, IInv', QInv, PollsAreQuick, [Next]_vars
  PROVE  QInv'
<1>0. /\ "poll" \in Writers /\ "ipc" \in Writers /\ "poll" # "ipc"
      /\ TypeOK /\ windows' \subseteq Ranges
      /\ open \in [Writers -> Transactions \cup {None}]
  BY DEF IInv, TypeOK, Writers
<1>00. /\ now \in Nat /\ now' \in Nat
       /\ pollTs # None => pollTs \in Nat /\ pollTs <= now
       /\ MaxStall \in Nat
  BY <1>0, Numbers DEF IInv, TypeOK
<1>1. /\ PollRange /\ IdleReadInTime /\ IpcRange
      /\ \A w \in windows : \A s \in w.start .. w.end - 1 : Quiet(s)
      /\ \A w \in windows : w.start \in Synthetic
                              \/ w.start <= (IF pollTs = None THEN now ELSE pollTs)
  BY DEF QInv, QuietWindows, WindowStarts, Quiet
<1>2. CASE Tick
  <2>1. /\ UNCHANGED <<windows, open, pollTs, inputs, lastInput>> /\ now' = now + 1
        /\ pollTs # None /\ open["poll"] = None => now - pollTs < MaxStall
    BY <1>2 DEF Tick
  <2>2. pollTs # None /\ open["poll"] = None => now' - pollTs <= MaxStall
    BY <1>00, <2>1
  <2>3. QED
    BY <1>00, <2>1, <2>2, QuietSteps
<1>3. CASE Input
  <2>1. /\ UNCHANGED <<windows, open, pollTs, now>>
        /\ inputs' = inputs \cup {now} /\ lastInput' = now
    BY <1>3 DEF Input
  <2>2. QED
    BY <1>00, <1>1, <2>1, QuietSteps DEF IdleReadInTime
<1>4. ASSUME NEW n, SetThreshold(n)
      PROVE  QInv'
  <2>1. /\ UNCHANGED <<windows, pollTs, now, inputs, lastInput>>
        /\ open' = OthersStale("ipc")
    BY <1>4 DEF SetThreshold
  <2>2. /\ open'["ipc"] = None
        /\ open'["poll"] = None <=> open["poll"] = None
        /\ open["poll"] # None => open'["poll"].range = open["poll"].range
    BY <1>0, <2>1, StaleRanges
  <2>3. PollRange' /\ IdleReadInTime' /\ IpcRange'
    BY <1>1, <2>1, <2>2 DEF PollRange, IdleReadInTime, IpcRange
  <2>4. QED
    BY <1>0, <1>1, <2>1, <2>3, ThreadSteps
<1>5. CASE StartPoll
  <2>1. /\ UNCHANGED <<windows, open, now, inputs, lastInput>>
        /\ pollTs = None /\ pollTs' = now
    BY <1>5 DEF StartPoll
  <2>2. open["poll"] = None
    BY <1>1, <2>1 DEF PollRange
  <2>3. PollRange' /\ IpcRange'
    BY <1>1, <2>1, <2>2 DEF PollRange, IpcRange
  <2>4. IdleReadInTime'
    BY <1>00, <2>1 DEF IdleReadInTime
  <2>5. QED
    BY <1>0, <1>1, <2>1, <2>3, <2>4, ThreadSteps
<1>6. ASSUME NEW idle \in IdleSeconds, CaptureAway(idle)
      PROVE  QInv'
  <2> DEFINE r == Range(AfkStart(pollTs, idle), pollTs)
  <2>1. /\ UNCHANGED <<windows, pollTs, now, inputs, lastInput>>
        /\ pollTs # None
        /\ open' = [open EXCEPT !["poll"] = [range |-> r,
                      touched |-> {w \in windows : Touches(w, r)}, stale |-> FALSE]]
    BY <1>6 DEF CaptureAway, Begin
  <2>2. r.start = AfkStart(pollTs, idle) /\ r.end = pollTs
    BY DEF Range
  <2>3. \A s \in r.start - 1 .. pollTs - 1 : s \notin inputs
    BY <1>6, <2>2, CaptureIsQuiet
  <2> HIDE DEF r
  <2>4. open'["poll"].range = r /\ open'["ipc"] = open["ipc"]
    BY <1>0, <2>1
  <2>5. open'["poll"] # None
    <3>1. r \in Ranges
      BY <1>6, AwayRange DEF CaptureAway, r
    <3>2. [range |-> r, touched |-> {w \in windows : Touches(w, r)}, stale |-> FALSE]
            \in Transactions
      BY <1>0, <3>1 DEF TypeOK, Transactions
    <3>3. QED
      BY <1>0, <2>1, <3>2, TransactionFields
  <2>6. PollRange' /\ IdleReadInTime' /\ IpcRange'
    BY <1>1, <2>1, <2>2, <2>3, <2>4, <2>5 DEF PollRange, IdleReadInTime, IpcRange
  <2>7. QED
    BY <1>0, <1>1, <2>1, <2>6, ThreadSteps
<1>7. CASE EndPollWithoutWindow
  <2>1. /\ UNCHANGED <<windows, open, now, inputs, lastInput>>
        /\ open["poll"] = None /\ pollTs' = None
    BY <1>7 DEF EndPollWithoutWindow
  <2>2. PollRange' /\ IdleReadInTime' /\ IpcRange'
    BY <1>1, <2>1 DEF PollRange, IdleReadInTime, IpcRange
  <2>3. QED
    BY <1>0, <1>1, <2>1, <2>2, ThreadSteps
<1>8. ASSUME NEW cutoff, Retain(cutoff)
      PROVE  QInv'
  <2>1. /\ UNCHANGED <<pollTs, now, inputs, lastInput>>
        /\ windows' \subseteq windows
        /\ open["poll"] = None /\ open' = OthersStale("poll")
    BY <1>8 DEF Retain
  <2>2. /\ open'["poll"] = None
        /\ open'["ipc"] = None <=> open["ipc"] = None
        /\ open["ipc"] # None => open'["ipc"].range = open["ipc"].range
    BY <1>0, <2>1, StaleRanges
  <2>3. PollRange' /\ IdleReadInTime' /\ IpcRange'
    BY <1>1, <2>1, <2>2 DEF PollRange, IdleReadInTime, IpcRange
  <2>4. QED
    BY <1>0, <1>1, <2>1, <2>3, ThreadSteps
<1>9. ASSUME NEW r \in IpcRanges, IpcUpsert(r)
      PROVE  QInv'
  <2>1. /\ UNCHANGED <<windows, pollTs, now, inputs, lastInput>>
        /\ open' = [open EXCEPT !["ipc"] = [range |-> r,
                      touched |-> {w \in windows : Touches(w, r)}, stale |-> FALSE]]
    BY <1>9 DEF IpcUpsert, Begin
  <2>2. open'["ipc"].range = r /\ open'["poll"] = open["poll"]
    BY <1>0, <2>1
  <2>3. PollRange' /\ IdleReadInTime' /\ IpcRange'
    BY <1>1, <2>1, <2>2 DEF PollRange, IdleReadInTime, IpcRange
  <2>4. QED
    BY <1>0, <1>1, <2>1, <2>3, ThreadSteps
<1>10. ASSUME NEW t \in Writers, Commit(t)
       PROVE  QInv'
  <2>1. /\ UNCHANGED <<now, inputs, lastInput>>
        /\ open' = OthersStale(t)
        /\ pollTs' = IF t = "poll" THEN None ELSE pollTs
    BY <1>10 DEF Commit
  <2>2. /\ open'[t] = None
        /\ \A u \in Writers \ {t} :
             /\ open'[u] = None <=> open[u] = None
             /\ open[u] # None => open'[u].range = open[u].range
    BY <2>1, StaleRanges
  <2>3. PollRange' /\ IdleReadInTime' /\ IpcRange'
    <3>1. CASE t = "poll"
      BY <1>0, <1>1, <2>1, <2>2, <3>1 DEF PollRange, IdleReadInTime, IpcRange
    <3>2. CASE t = "ipc"
      BY <1>0, <1>1, <2>1, <2>2, <3>2 DEF PollRange, IdleReadInTime, IpcRange
    <3>3. QED
      BY <3>1, <3>2 DEF Writers
  <2>4. /\ \A w \in windows' : \A s \in w.start .. w.end - 1 : Quiet(s)
        /\ \A w \in windows' : w.start \in Synthetic
                                 \/ w.start <= (IF pollTs = None THEN now ELSE pollTs)
    BY <1>10, CommitIsQuiet
  <2>5. QED
    BY <1>0, <2>1, <2>3, <2>4, ThreadSteps
<1>11. ASSUME NEW t \in Writers, Rollback(t)
       PROVE  QInv'
  <2>1. /\ UNCHANGED <<windows, now, inputs, lastInput>>
        /\ open' = [open EXCEPT ![t] = None]
        /\ pollTs' = IF t = "poll" THEN None ELSE pollTs
    BY <1>11 DEF Rollback
  <2>2. /\ open'[t] = None
        /\ \A u \in Writers \ {t} : open'[u] = open[u]
    BY <1>0, <2>1
  <2>3. PollRange' /\ IdleReadInTime' /\ IpcRange'
    <3>1. CASE t = "poll"
      BY <1>0, <1>1, <2>1, <2>2, <3>1 DEF PollRange, IdleReadInTime, IpcRange
    <3>2. CASE t = "ipc"
      BY <1>0, <1>1, <2>1, <2>2, <3>2 DEF PollRange, IdleReadInTime, IpcRange
    <3>3. QED
      BY <3>1, <3>2 DEF Writers
  <2>4. QED
    BY <1>0, <1>1, <2>1, <2>3, ThreadSteps
<1>12. CASE UNCHANGED vars
  <2>1. UNCHANGED <<windows, open, pollTs, now, inputs, lastInput>>
    BY <1>12 DEF vars
  <2>2. QED
    BY <1>00, <1>1, <2>1, QuietSteps DEF IdleReadInTime
<1>13. QED
  BY <1>2, <1>3, <1>4, <1>5, <1>6, <1>7, <1>8, <1>9, <1>10, <1>11, <1>12
  DEF Next, PollThread

\* Nobody has touched the machine within a recorded absence, whatever is merged
\* into it later, if every poll comes to its idle reading in time.
THEOREM NobodyWasThere ==
  ASSUME PollsAreQuick
  PROVE  Spec => []NoInputWhileAfk
<1>1. Init => QInv
  <2>1. SUFFICES ASSUME Init PROVE QInv
    OBVIOUS
  <2>2. QuietWindows /\ WindowStarts
    BY <2>1 DEF Init, QuietWindows, WindowStarts
  <2>3. PollRange /\ IdleReadInTime /\ IpcRange
    BY <2>1 DEF Init, PollRange, IdleReadInTime, IpcRange, Writers
  <2>4. InputsSeen
    BY <2>1 DEF Init, InputsSeen
  <2>5. QED
    BY <2>2, <2>3, <2>4 DEF QInv
<1>2. IInv /\ IInv' /\ QInv /\ [Next]_vars => QInv'
  BY StepIsQuiet
<1>3. QInv => NoInputWhileAfk
  BY DEF QInv, QuietWindows, NoInputWhileAfk, Excused
<1>4. QED
  BY <1>1, <1>2, <1>3, InvariantHolds, PTL DEF Spec
=============================================================================
