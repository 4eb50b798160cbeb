----------------------------- MODULE SumTheorems -----------------------------
(***************************************************************************)
(* What SUM over the rows of a query gives, whichever order the rows come  *)
(* in: the facts the proofs about usage need of SumFunctionOnSet.          *)
(***************************************************************************)
EXTENDS Integers, Functions, FiniteSetTheorems, TLAPS

Chosen(s) == CHOOSE x \in s : TRUE

\* One step of the sum of f over s, the rest being known from g.
SumStep(f, g, s) == IF s = {} THEN 0 ELSE f[Chosen(s)] + g[s \ {Chosen(s)}]

\* g sums up f over every subset of T, one element after the other.
Solves(g, f, T) == \A s \in SUBSET T : g[s] = SumStep(f, g, s)

Adds(g, f, T) == g \in [SUBSET T -> Int] /\ Solves(g, f, T)

LEMMA Unfold ==
  ASSUME NEW f, NEW T
  PROVE  SumFunctionOnSet(f, T) = (CHOOSE g : g = [s \in SUBSET T |-> SumStep(f, g, s)])[T]
BY DEF SumFunctionOnSet, FoldFunctionOnSet, MapThenFoldSet, Chosen, SumStep

\* Among sets of subsets of a finite set, one is smallest.
LEMMA Smallest ==
  ASSUME NEW S, IsFiniteSet(S), NEW Q, Q \subseteq SUBSET S, Q # {}
  PROVE  \E T \in Q : \A U \in Q : U \subseteq T => U = T
<1>1. IsWellFoundedOn(StrictSubsetOrdering(S), SUBSET S)
  BY FS_StrictSubsetOrderingWellFounded, FS_FiniteSubsetsOfFinite
<1>2. PICK T \in Q : \A U \in Q : ~ (<<U, T>> \in StrictSubsetOrdering(S))
  BY <1>1, WFMin
<1>3. ASSUME NEW U \in Q, U \subseteq T PROVE U = T
  <2>1. U \in SUBSET S /\ T \in SUBSET S
    OBVIOUS
  <2>2. U # T => <<U, T>> \in StrictSubsetOrdering(S)
    BY <1>3, <2>1 DEF StrictSubsetOrdering
  <2>3. QED
    BY <1>2, <2>2
<1>4. QED
  BY <1>3

LEMMA ChosenIn == ASSUME NEW s, s # {} PROVE Chosen(s) \in s
BY DEF Chosen

\* Two such functions agree where both are defined.
LEMMA Agree ==
  ASSUME NEW f, NEW g, NEW T, NEW U, NEW h, Solves(g, f, T), Solves(h, f, U),
         NEW S \in SUBSET (T \cap U), IsFiniteSet(S)
  PROVE  g[S] = h[S]
<1> DEFINE Q == {s \in SUBSET S : g[s] # h[s]}
<1>1. SUFFICES ASSUME Q # {} PROVE FALSE
  OBVIOUS
<1>2. PICK s \in Q : \A u \in Q : u \subseteq s => u = s
  <2>1. Q \subseteq SUBSET S
    OBVIOUS
  <2> HIDE DEF Q
  <2>2. QED
    BY <1>1, <2>1, Smallest
<1>3. s \in SUBSET S /\ s \in SUBSET T /\ s \in SUBSET U /\ g[s] # h[s]
  OBVIOUS
<1>4. s # {}
  BY <1>3 DEF Solves, SumStep
<1> DEFINE rest == s \ {Chosen(s)}
<1>5. rest \in SUBSET S /\ rest \subseteq s /\ rest # s
  BY <1>3, <1>4, ChosenIn
<1>6. g[rest] = h[rest]
  BY <1>2, <1>5
<1>7. g[s] = f[Chosen(s)] + g[rest] /\ h[s] = f[Chosen(s)] + h[rest]
  BY <1>3, <1>4 DEF Solves, SumStep
<1>8. QED
  BY <1>3, <1>6, <1>7

\* The sum over a set is a sum over its subsets, put together.
LEMMA Exists ==
  ASSUME NEW f, NEW D, IsFiniteSet(D), \A x \in D : f[x] \in Int
  PROVE  \E g : Adds(g, f, D)
<1> DEFINE Q == {T \in SUBSET D : ~ \E g : Adds(g, f, T)}
<1>1. SUFFICES ASSUME Q # {} PROVE FALSE
  OBVIOUS
<1>2. PICK T \in Q : \A U \in Q : U \subseteq T => U = T
  <2>1. Q \subseteq SUBSET D
    OBVIOUS
  <2> HIDE DEF Q
  <2>2. QED
    BY <1>1, <2>1, Smallest
<1>3. T \in SUBSET D /\ ~ \E g : Adds(g, f, T)
  OBVIOUS
<1> DEFINE sum(U) == CHOOSE g : Adds(g, f, U)
           value(U) == sum(U)[U]
<1>4. ASSUME NEW U \in SUBSET T, U # T
      PROVE  Adds(sum(U), f, U)
  <2>1. U \notin Q
    BY <1>2, <1>4
  <2>2. \E g : Adds(g, f, U)
    BY <1>3, <2>1
  <2>3. QED
    BY <2>2
<1> HIDE DEF Q, sum
<1>5. ASSUME NEW U \in SUBSET T, U # T
      PROVE  value(U) \in Int
  BY <1>4, <1>5 DEF Adds
<1>6. ASSUME NEW U \in SUBSET T, U # T, U # {}
      PROVE  value(U) = f[Chosen(U)] + value(U \ {Chosen(U)})
  <2> DEFINE rest == U \ {Chosen(U)}
  <2>1. Chosen(U) \in U
    BY <1>6, ChosenIn
  <2>2. rest \in SUBSET T /\ rest # T /\ rest \in SUBSET U /\ U \in SUBSET U
    BY <1>6, <2>1
  <2>3. Adds(sum(U), f, U) /\ Adds(sum(rest), f, rest)
    BY <1>4, <1>6, <2>2
  <2>4. IsFiniteSet(rest)
    BY <1>3, <2>2, FS_Subset
  <2> HIDE DEF rest
  <2>5. sum(U)[rest] = sum(rest)[rest]
    BY <2>2, <2>3, <2>4, Agree DEF Adds
  <2>6. sum(U)[U] = f[Chosen(U)] + sum(U)[rest]
    BY <1>6, <2>2, <2>3 DEF Adds, Solves, SumStep, rest
  <2>7. QED
    BY <2>5, <2>6 DEF rest
<1>7. {} # T => value({}) = 0
  BY <1>4 DEF Adds, Solves, SumStep
<1> DEFINE step(s) == IF s = {} THEN 0 ELSE f[Chosen(s)] + value(s \ {Chosen(s)})
           g == [s \in SUBSET T |-> step(s)]
<1> HIDE DEF value
<1>8. ASSUME NEW s \in SUBSET T
      PROVE  step(s) \in Int
  <2>1. CASE s = {}
    BY <2>1
  <2>2. CASE s # {}
    <3>1. Chosen(s) \in s
      BY <2>2, ChosenIn
    <3>2. f[Chosen(s)] \in Int /\ value(s \ {Chosen(s)}) \in Int
      BY <1>3, <1>5, <3>1
    <3>3. QED
      BY <2>2, <3>2
  <2>3. QED
    BY <2>1, <2>2
<1>9. ASSUME NEW s \in SUBSET T, s # T
      PROVE  step(s) = value(s)
  BY <1>6, <1>7, <1>9
<1>10. g \in [SUBSET T -> Int]
  BY <1>8
<1>11. ASSUME NEW s \in SUBSET T
       PROVE  g[s] = SumStep(f, g, s)
  <2>1. CASE s = {}
    BY <2>1 DEF SumStep
  <2>2. CASE s # {}
    <3>1. Chosen(s) \in s
      BY <2>2, ChosenIn
    <3> DEFINE rest == s \ {Chosen(s)}
    <3>2. rest \in SUBSET T /\ rest # T
      BY <3>1
    <3>3. step(rest) = value(rest)
      BY <1>9, <3>2
    <3>4. g[rest] = value(rest)
      BY <3>2, <3>3
    <3>5. QED
      BY <2>2, <3>4 DEF SumStep
  <2>3. QED
    BY <2>1, <2>2
<1>12. Adds(g, f, T)
  BY <1>10, <1>11 DEF Adds, Solves
<1>13. QED
  BY <1>3, <1>12

\* SumFunctionOnSet is such a function.
LEMMA SumSolves ==
  ASSUME NEW f, NEW D, IsFiniteSet(D), \A x \in D : f[x] \in Int
  PROVE  \E g : /\ Adds(g, f, D)
                /\ \A T \in SUBSET D : SumFunctionOnSet(f, T) = g[T]
<1>1. PICK g : Adds(g, f, D)
  BY Exists
<1>2. ASSUME NEW T \in SUBSET D
      PROVE  SumFunctionOnSet(f, T) = g[T]
  <2> DEFINE P(h) == h = [s \in SUBSET T |-> SumStep(f, h, s)]
             sum == CHOOSE h : P(h)
             part == [s \in SUBSET T |-> g[s]]
  <2>1. P(part)
    <3>1. ASSUME NEW s \in SUBSET T
          PROVE  part[s] = SumStep(f, part, s)
      <4>1. s \in SUBSET D /\ s \ {Chosen(s)} \in SUBSET T
        OBVIOUS
      <4>2. part[s] = g[s] /\ part[s \ {Chosen(s)}] = g[s \ {Chosen(s)}]
        BY <4>1
      <4>3. g[s] = SumStep(f, g, s)
        BY <1>1, <4>1 DEF Adds, Solves
      <4> HIDE DEF part
      <4>4. QED
        BY <4>2, <4>3 DEF SumStep
    <3>2. part = [s \in SUBSET T |-> part[s]]
      OBVIOUS
    <3> HIDE DEF part
    <3>3. QED
      BY <3>1, <3>2
  <2>2. P(sum)
    <3> HIDE DEF P, part
    <3>1. QED
      BY <2>1
  <2>3. Solves(sum, f, T)
    <3> HIDE DEF sum
    <3>1. QED
      BY <2>2 DEF Solves
  <2>4. Solves(g, f, D) /\ T \in SUBSET (D \cap T) /\ IsFiniteSet(T)
    BY <1>1, FS_Subset DEF Adds
  <2>5. sum[T] = g[T]
    <3> HIDE DEF sum
    <3>1. QED
      BY <2>3, <2>4, Agree
  <2>6. SumFunctionOnSet(f, T) = sum[T]
    BY Unfold
  <2>7. QED
    BY <2>5, <2>6
<1>3. QED
  BY <1>1, <1>2

\* The sum of nothing is 0, and a sum is an integer.
LEMMA SumType ==
  ASSUME NEW f, NEW T, IsFiniteSet(T), \A x \in T : f[x] \in Int
  PROVE  SumFunctionOnSet(f, T) \in Int /\ SumFunctionOnSet(f, {}) = 0
<1>1. PICK g : Adds(g, f, T) /\ \A U \in SUBSET T : SumFunctionOnSet(f, U) = g[U]
  BY SumSolves
<1>2. {} \in SUBSET T /\ T \in SUBSET T
  OBVIOUS
<1>3. SumFunctionOnSet(f, T) = g[T] /\ g[T] \in Int
  BY <1>1, <1>2 DEF Adds
<1>4. SumFunctionOnSet(f, {}) = g[{}] /\ g[{}] = SumStep(f, g, {})
  BY <1>1, <1>2 DEF Adds, Solves
<1>5. QED
  BY <1>3, <1>4 DEF SumStep

\* Any element may be added last.
LEMMA SumTakesOut ==
  ASSUME NEW f, NEW T, IsFiniteSet(T), \A x \in T : f[x] \in Int, NEW x \in T
  PROVE  SumFunctionOnSet(f, T) = f[x] + SumFunctionOnSet(f, T \ {x})
<1>1. PICK g : Adds(g, f, T) /\ \A U \in SUBSET T : SumFunctionOnSet(f, U) = g[U]
  BY SumSolves
<1> DEFINE Q == {s \in SUBSET T : \E z \in s : g[s] # f[z] + g[s \ {z}]}
<1>2. ASSUME Q # {} PROVE FALSE
  <2>1. PICK s \in Q : \A u \in Q : u \subseteq s => u = s
    <3>1. Q \subseteq SUBSET T
      OBVIOUS
    <3> HIDE DEF Q
    <3>2. QED
      BY <1>2, <3>1, Smallest
  <2>2. PICK z \in s : g[s] # f[z] + g[s \ {z}]
    OBVIOUS
  <2> DEFINE y == Chosen(s)
             r == s \ {z}
             q == s \ {y}
             rest == r \ {y}
  <2>3. y \in s /\ s \in SUBSET T
    BY ChosenIn
  <2>4. g[s] = f[y] + g[q]
    BY <1>1, <2>3 DEF Adds, Solves, SumStep
  <2>5. y # z
    BY <2>2, <2>4
  <2>6. q \notin Q /\ r \notin Q
    BY <2>1, <2>3
  <2> HIDE DEF y
  <2>7. z \in q /\ q \in SUBSET T /\ y \in r /\ r \in SUBSET T /\ rest = q \ {z}
    BY <2>3, <2>5
  <2>8. g[q] = f[z] + g[rest] /\ g[r] = f[y] + g[rest]
    BY <2>6, <2>7
  <2>9. rest \in SUBSET T /\ g[rest] \in Int /\ f[y] \in Int /\ f[z] \in Int
    BY <1>1, <2>3 DEF Adds
  <2> HIDE DEF q, r, rest, Q
  <2>10. QED
    BY <2>2, <2>4, <2>8, <2>9 DEF r
<1>3. g[T] = f[x] + g[T \ {x}]
  BY <1>2
<1>4. QED
  BY <1>1, <1>3

-----------------------------------------------------------------------------
(***************************************************************************)
(* What follows from adding one element at a time.                         *)
(***************************************************************************)

\* A smaller value everywhere gives a smaller sum.
LEMMA SumMonotone ==
  ASSUME NEW T, IsFiniteSet(T), NEW f, NEW g,
         \A x \in T : f[x] \in Int /\ g[x] \in Int /\ f[x] <= g[x]
  PROVE  SumFunctionOnSet(f, T) <= SumFunctionOnSet(g, T)
<1> DEFINE F(s) == SumFunctionOnSet(f, s)
           G(s) == SumFunctionOnSet(g, s)
           Q == {s \in SUBSET T : ~ (F(s) <= G(s))}
<1> HIDE DEF F, G
<1>1. SUFFICES ASSUME Q # {} PROVE FALSE
  BY DEF F, G
<1>2. PICK s \in Q : \A u \in Q : u \subseteq s => u = s
  <2>1. Q \subseteq SUBSET T
    OBVIOUS
  <2> HIDE DEF Q
  <2>2. QED
    BY <1>1, <2>1, Smallest
<1>3. s \in SUBSET T /\ IsFiniteSet(s) /\ ~ (F(s) <= G(s))
  BY FS_Subset
<1>4. F({}) = 0 /\ G({}) = 0
  BY SumType DEF F, G
<1>5. PICK x \in s : TRUE
  BY <1>3, <1>4
<1> DEFINE rest == s \ {x}
<1>6. rest \in SUBSET T /\ IsFiniteSet(rest) /\ rest \notin Q
  BY <1>2, <1>3, FS_Subset
<1>7. F(rest) <= G(rest) /\ F(rest) \in Int /\ G(rest) \in Int
  BY <1>6, SumType DEF F, G
<1>8. F(s) = f[x] + F(rest) /\ G(s) = g[x] + G(rest)
  BY <1>3, SumTakesOut DEF F, G
<1>9. f[x] \in Int /\ g[x] \in Int /\ f[x] <= g[x]
  BY <1>3
<1> HIDE DEF rest, Q
<1>10. QED
  BY <1>3, <1>7, <1>8, <1>9

\* The sum looks at f on the set only.
LEMMA SumCongruent ==
  ASSUME NEW T, IsFiniteSet(T), NEW f, NEW g,
         \A x \in T : f[x] \in Int /\ f[x] = g[x]
  PROVE  SumFunctionOnSet(f, T) = SumFunctionOnSet(g, T)
<1>1. \A x \in T : /\ f[x] \in Int /\ g[x] \in Int
                   /\ f[x] <= g[x] /\ g[x] <= f[x]
  OBVIOUS
<1>2. SumFunctionOnSet(f, T) <= SumFunctionOnSet(g, T)
  BY <1>1, SumMonotone
<1>3. SumFunctionOnSet(g, T) <= SumFunctionOnSet(f, T)
  BY <1>1, SumMonotone
<1>4. SumFunctionOnSet(f, T) \in Int /\ SumFunctionOnSet(g, T) \in Int
  BY <1>1, SumType
<1>5. QED
  BY <1>2, <1>3, <1>4

\* What no set holds twice may be summed up in two parts.
LEMMA SumOfParts ==
  ASSUME NEW A, NEW B, IsFiniteSet(A), IsFiniteSet(B), A \cap B = {},
         NEW f, \A x \in A \cup B : f[x] \in Int
  PROVE  SumFunctionOnSet(f, A \cup B)
           = SumFunctionOnSet(f, A) + SumFunctionOnSet(f, B)
<1> DEFINE F(s) == SumFunctionOnSet(f, s)
           Q == {s \in SUBSET A : ~ (F(s \cup B) = F(s) + F(B))}
<1> HIDE DEF F
<1>1. SUFFICES ASSUME Q # {} PROVE FALSE
  BY DEF F
<1>2. PICK s \in Q : \A u \in Q : u \subseteq s => u = s
  <2>1. Q \subseteq SUBSET A
    OBVIOUS
  <2> HIDE DEF Q
  <2>2. QED
    BY <1>1, <2>1, Smallest
<1>3. s \in SUBSET A /\ IsFiniteSet(s) /\ ~ (F(s \cup B) = F(s) + F(B))
  BY FS_Subset
<1>4. F({}) = 0 /\ F(B) \in Int
  BY SumType DEF F
<1>5. s # {}
  <2>1. SUFFICES ASSUME s = {} PROVE FALSE
    OBVIOUS
  <2> HIDE DEF Q
  <2>2. F(s \cup B) = F(B)
    <3>1. s \cup B = B
      BY <2>1
    <3>2. QED
      BY <3>1
  <2>3. F(s) + F(B) = F(B)
    BY <1>4, <2>1
  <2>4. QED
    BY <1>3, <2>2, <2>3
<1>6. PICK x \in s : TRUE
  BY <1>5
<1> DEFINE rest == s \ {x}
<1>7. rest \in SUBSET A /\ IsFiniteSet(rest) /\ rest \notin Q
  BY <1>2, <1>3, FS_Subset
<1>8. F(rest \cup B) = F(rest) + F(B) /\ F(rest) \in Int
  BY <1>7, SumType DEF F
<1>9. IsFiniteSet(s \cup B) /\ x \in s \cup B /\ (s \cup B) \ {x} = rest \cup B
  BY <1>3, FS_Union
<1>10. \A y \in s \cup B : f[y] \in Int
  BY <1>3
<1>11. F(s \cup B) = f[x] + F((s \cup B) \ {x})
  BY <1>9, <1>10, SumTakesOut DEF F
<1>12. F(s) = f[x] + F(rest)
  BY <1>3, <1>10, SumTakesOut DEF F
<1>13. f[x] \in Int
  BY <1>10
<1> HIDE DEF rest, Q
<1>14. F(s \cup B) = f[x] + (F(rest) + F(B))
  BY <1>8, <1>9, <1>11
<1>15. F(s \cup B) = F(s) + F(B)
  BY <1>4, <1>8, <1>12, <1>13, <1>14
<1>16. QED
  BY <1>3, <1>15

\* Numbers add up to a number, and more of them to no less.
LEMMA SumNat ==
  ASSUME NEW T, IsFiniteSet(T), NEW f, \A x \in T : f[x] \in Nat, NEW S \in SUBSET T
  PROVE  /\ SumFunctionOnSet(f, T) \in Nat
         /\ SumFunctionOnSet(f, S) \in Nat
         /\ SumFunctionOnSet(f, S) <= SumFunctionOnSet(f, T)
<1> DEFINE F(s) == SumFunctionOnSet(f, s)
           Q == {s \in SUBSET T : ~ (0 <= F(s))}
<1> HIDE DEF F
<1>1. Q = {}
  <2>1. SUFFICES ASSUME Q # {} PROVE FALSE
    OBVIOUS
  <2>2. PICK s \in Q : \A u \in Q : u \subseteq s => u = s
    <3>1. Q \subseteq SUBSET T
      OBVIOUS
    <3> HIDE DEF Q
    <3>2. QED
      BY <2>1, <3>1, Smallest
  <2>3. s \in SUBSET T /\ IsFiniteSet(s) /\ ~ (0 <= F(s))
    BY FS_Subset
  <2>4. PICK x \in s : TRUE
    <3>1. F({}) = 0
      BY SumType DEF F
    <3>2. QED
      BY <2>3, <3>1
  <2> DEFINE rest == s \ {x}
  <2>5. rest \in SUBSET T /\ IsFiniteSet(rest) /\ rest \notin Q
    BY <2>2, <2>3, FS_Subset
  <2>6. 0 <= F(rest) /\ F(rest) \in Int /\ f[x] \in Nat
    BY <2>3, <2>5, SumType DEF F
  <2>7. F(s) = f[x] + F(rest)
    BY <2>3, SumTakesOut DEF F
  <2> HIDE DEF rest, Q
  <2>8. QED
    BY <2>3, <2>6, <2>7
<1>2. \A s \in SUBSET T : F(s) \in Nat
  <2>1. ASSUME NEW s \in SUBSET T PROVE F(s) \in Nat
    <3>1. IsFiniteSet(s)
      BY FS_Subset
    <3>2. F(s) \in Int
      BY <3>1, SumType DEF F
    <3>3. 0 <= F(s)
      BY <1>1
    <3>4. QED
      BY <3>2, <3>3
  <2>2. QED
    BY <2>1
<1>3. F(T) = F(S) + F(T \ S)
  <2>1. IsFiniteSet(S) /\ IsFiniteSet(T \ S) /\ S \cap (T \ S) = {} /\ S \cup (T \ S) = T
    BY FS_Subset
  <2>2. F(S \cup (T \ S)) = F(S) + F(T \ S)
    BY <2>1, SumOfParts DEF F
  <2>3. QED
    BY <2>1, <2>2
<1>4. F(S) \in Nat /\ F(T) \in Nat /\ F(T \ S) \in Nat
  BY <1>2
<1>5. F(S) <= F(T)
  BY <1>3, <1>4
<1>6. QED
  BY <1>4, <1>5 DEF F

\* The sum over a set of one element.
LEMMA SumOfOne ==
  ASSUME NEW f, NEW x, f[x] \in Int
  PROVE  SumFunctionOnSet(f, {x}) = f[x]
<1>1. IsFiniteSet({x}) /\ {x} \ {x} = {}
  BY FS_Singleton
<1>2. SumFunctionOnSet(f, {x}) = f[x] + SumFunctionOnSet(f, {x} \ {x})
  BY <1>1, SumTakesOut
<1>3. SumFunctionOnSet(f, {}) = 0
  BY <1>1, SumType
<1>4. QED
  BY <1>1, <1>2, <1>3

LEMMA TimesMonotone ==
  ASSUME NEW d \in Nat, NEW a \in Int, NEW b \in Int, a <= b
  PROVE  a * d \in Int /\ b * d \in Int /\ a * d <= b * d
<1>1. (b - a) * d \in Int /\ 0 <= (b - a) * d
  OBVIOUS
<1>2. (b - a) * d = b * d - a * d
  OBVIOUS
<1>3. QED
  BY <1>1, <1>2

(***************************************************************************)
(* What is added up by keys is added up once.                              *)
(***************************************************************************)
Keys(key, X, B) == \A x \in X : key[x] \in B
SumsOfFibres(g, f, key, X, B) ==
  \A b \in B : g[b] = SumFunctionOnSet(f, {x \in X : key[x] = b})

LEMMA SumOfFibres ==
  ASSUME NEW X, IsFiniteSet(X), NEW f, \A x \in X : f[x] \in Int,
         NEW B, IsFiniteSet(B), NEW key, Keys(key, X, B),
         NEW g, SumsOfFibres(g, f, key, X, B)
  PROVE  SumFunctionOnSet(g, B) = SumFunctionOnSet(f, X)
<1> DEFINE Over(U) == {x \in X : key[x] \in U}
           F(s) == SumFunctionOnSet(f, s)
           G(s) == SumFunctionOnSet(g, s)
           Q == {U \in SUBSET B : ~ (G(U) = F(Over(U)))}
<1>1. ASSUME NEW S \in SUBSET X PROVE IsFiniteSet(S) /\ F(S) \in Int /\ F({}) = 0
  <2>1. IsFiniteSet(S) /\ \A x \in S : f[x] \in Int
    BY FS_Subset
  <2>2. QED
    BY <2>1, SumType
<1>2. \A b \in B : g[b] = F({x \in X : key[x] = b}) /\ g[b] \in Int
  BY <1>1 DEF SumsOfFibres
<1>3. ASSUME NEW U \in SUBSET B PROVE IsFiniteSet(U) /\ G(U) \in Int /\ G({}) = 0
  <2>1. IsFiniteSet(U) /\ \A b \in U : g[b] \in Int
    BY <1>2, FS_Subset
  <2>2. QED
    BY <2>1, SumType
<1>4. ASSUME NEW U \in SUBSET B, NEW b \in U
      PROVE  G(U) = g[b] + G(U \ {b})
  <2>1. IsFiniteSet(U) /\ \A x \in U : g[x] \in Int
    BY <1>2, <1>3
  <2>2. QED
    BY <2>1, SumTakesOut
<1>5. ASSUME NEW U \in SUBSET B, NEW b \in U
      PROVE  F(Over(U)) = g[b] + F(Over(U \ {b}))
  <2> DEFINE one == {x \in X : key[x] = b}
             rest == Over(U \ {b})
  <2>1. Over(U) = one \cup rest /\ one \cap rest = {} /\ one \in SUBSET X /\ rest \in SUBSET X
    OBVIOUS
  <2>2. g[b] = F(one)
    BY <1>2
  <2> HIDE DEF one, rest
  <2>3. IsFiniteSet(one) /\ IsFiniteSet(rest) /\ \A x \in one \cup rest : f[x] \in Int
    BY <1>1, <2>1
  <2>4. F(one \cup rest) = F(one) + F(rest)
    BY <2>1, <2>3, SumOfParts
  <2>5. QED
    BY <2>1, <2>2, <2>4 DEF rest
<1> HIDE DEF F, G
<1>6. SUFFICES ASSUME Q # {} PROVE FALSE
  <2>1. Over(B) = X /\ B \in SUBSET B
    BY DEF Keys
  <2>2. QED
    BY <1>6, <2>1 DEF F, G
<1>7. PICK U \in Q : \A V \in Q : V \subseteq U => V = U
  <2>1. Q \subseteq SUBSET B
    OBVIOUS
  <2> HIDE DEF Q
  <2>2. QED
    BY <1>6, <2>1, Smallest
<1>8. U \in SUBSET B /\ ~ (G(U) = F(Over(U)))
  BY <1>7
<1>9. CASE U = {}
  <2>1. Over(U) = {}
    BY <1>9
  <2>2. G({}) = 0 /\ F({}) = 0
    BY <1>1, <1>3
  <2>3. QED
    BY <1>8, <1>9, <2>1, <2>2
<1>10. CASE U # {}
  <2>1. PICK b \in U : TRUE
    BY <1>10
  <2>2. U \ {b} \notin Q /\ U \ {b} \in SUBSET B
    <3>1. U \ {b} # U /\ U \ {b} \subseteq U
      OBVIOUS
    <3> HIDE DEF Q
    <3>2. QED
      BY <1>7, <1>8, <3>1
  <2>3. G(U \ {b}) = F(Over(U \ {b}))
    BY <2>2
  <2>4. QED
    <3> HIDE DEF Q, Over
    <3>1. QED
      BY <1>4, <1>5, <1>8, <2>1, <2>3
<1>11. QED
  BY <1>9, <1>10

(***************************************************************************)
(* ... and a set may be renamed.                                           *)
(***************************************************************************)
Renames(key, X, B) ==
  /\ Keys(key, X, B)
  /\ \A b \in B : \E x \in X : key[x] = b
  /\ \A x, y \in X : key[x] = key[y] => x = y

LEMMA SumRenamed ==
  ASSUME NEW X, IsFiniteSet(X), NEW f, \A x \in X : f[x] \in Int,
         NEW B, NEW key, Renames(key, X, B),
         NEW g, \A x \in X : g[key[x]] = f[x]
  PROVE  IsFiniteSet(B) /\ SumFunctionOnSet(g, B) = SumFunctionOnSet(f, X)
<1>1. IsFiniteSet(B)
  <2> DEFINE h == [x \in X |-> key[x]]
  <2>1. h \in Surjection(X, B)
    BY DEF Surjection, Renames, Keys
  <2> HIDE DEF h
  <2>2. QED
    BY <2>1, FS_Surjection
<1>2. ASSUME NEW b \in B
      PROVE  g[b] = SumFunctionOnSet(f, {x \in X : key[x] = b})
  <2>1. PICK x \in X : key[x] = b
    BY DEF Renames
  <2>2. {y \in X : key[y] = b} = {x}
    BY <2>1 DEF Renames
  <2>3. SumFunctionOnSet(f, {x}) = f[x]
    BY SumOfOne
  <2>4. g[b] = f[x]
    BY <2>1
  <2>5. QED
    BY <2>2, <2>3, <2>4
<1>3. SumsOfFibres(g, f, key, X, B) /\ Keys(key, X, B)
  BY <1>2 DEF SumsOfFibres, Renames
<1>4. QED
  BY <1>1, <1>3, SumOfFibres

\* One more part.
LEMMA SquareGrows ==
  ASSUME NEW n \in Nat, NEW s \in Int, NEW q \in Int, NEW x \in Int,
         s * s <= n * q, n = 0 => s = 0 /\ q = 0
  PROVE  (x + s) * (x + s) <= (n + 1) * (x * x + q)
<1>1. CASE n = 0
  <2>1. s = 0 /\ q = 0
    BY <1>1
  <2>2. QED
    BY <1>1, <2>1
<1>2. CASE n # 0
  <2> DEFINE y == q + n * (x * x) - 2 * (s * x)
             d == s - n * x
  <2>1. y \in Int /\ d \in Int /\ 0 <= d * d
    OBVIOUS
  <2>2. n * y = (n * q - s * s) + d * d
    OBVIOUS
  <2>3. 0 <= n * y
    BY <2>1, <2>2
  <2>4. 0 <= y
    <3> HIDE DEF y
    <3>1. ASSUME y <= -1 PROVE FALSE
      <4>1. y * n <= (-1) * n
        BY <2>1, <3>1, TimesMonotone
      <4>2. (-1) * n = -n /\ y * n = n * y
        BY <2>1
      <4>3. QED
        BY <1>2, <2>1, <2>3, <4>1, <4>2
    <3>2. QED
      BY <2>1, <3>1
  <2>5. (n + 1) * (x * x + q) - (x + s) * (x + s) = (n * q - s * s) + y
    OBVIOUS
  <2>6. 0 <= n * q - s * s /\ n * q - s * s \in Int
    OBVIOUS
  <2>7. (n + 1) * (x * x + q) \in Int /\ (x + s) * (x + s) \in Int
    OBVIOUS
  <2> HIDE DEF y, d
  <2>8. QED
    BY <2>1, <2>4, <2>5, <2>6, <2>7
<1>3. QED
  BY <1>1, <1>2

(***************************************************************************)
(* The square of a sum is at most the number of its parts times the sum of *)
(* their squares.                                                          *)
(***************************************************************************)
Squares(g, f, T) == \A x \in T : f[x] \in Int /\ g[x] = f[x] * f[x]

LEMMA SquareOfSum ==
  ASSUME NEW T, IsFiniteSet(T), NEW f, NEW g, Squares(g, f, T)
  PROVE  /\ SumFunctionOnSet(f, T) \in Int /\ SumFunctionOnSet(g, T) \in Int
         /\ SumFunctionOnSet(f, T) * SumFunctionOnSet(f, T)
              <= Cardinality(T) * SumFunctionOnSet(g, T)
<1> DEFINE F(s) == SumFunctionOnSet(f, s)
           G(s) == SumFunctionOnSet(g, s)
           Q == {U \in SUBSET T : ~ (F(U) * F(U) <= Cardinality(U) * G(U))}
<1>1. \A x \in T : f[x] \in Int /\ g[x] \in Int
  BY DEF Squares
<1>2. ASSUME NEW U \in SUBSET T
      PROVE  /\ IsFiniteSet(U) /\ F(U) \in Int /\ G(U) \in Int /\ F({}) = 0 /\ G({}) = 0
             /\ Cardinality(U) \in Nat
  <2>1. IsFiniteSet(U) /\ \A x \in U : f[x] \in Int /\ g[x] \in Int
    BY <1>1, FS_Subset
  <2>2. F(U) \in Int /\ F({}) = 0
    BY <2>1, SumType
  <2>3. G(U) \in Int /\ G({}) = 0
    BY <2>1, SumType
  <2>4. QED
    BY <2>1, <2>2, <2>3, FS_CardinalityType
<1>3. ASSUME NEW U \in SUBSET T, NEW x \in U
      PROVE  /\ F(U) = f[x] + F(U \ {x}) /\ G(U) = f[x] * f[x] + G(U \ {x})
             /\ Cardinality(U) = Cardinality(U \ {x}) + 1
  <2>1. IsFiniteSet(U) /\ (\A y \in U : f[y] \in Int) /\ (\A y \in U : g[y] \in Int)
    BY <1>1, <1>2
  <2>2. F(U) = f[x] + F(U \ {x})
    BY <2>1, SumTakesOut
  <2>3. G(U) = g[x] + G(U \ {x})
    BY <2>1, SumTakesOut
  <2>4. Cardinality(U \ {x}) = Cardinality(U) - 1 /\ Cardinality(U) \in Nat
    BY <2>1, FS_RemoveElement, FS_CardinalityType
  <2>5. g[x] = f[x] * f[x]
    BY DEF Squares
  <2>6. QED
    BY <2>2, <2>3, <2>4, <2>5
<1> HIDE DEF F, G
<1>4. SUFFICES Q = {}
  <2>1. T \in SUBSET T
    OBVIOUS
  <2>2. F(T) \in Int /\ G(T) \in Int
    BY <1>2, <2>1
  <2>3. F(T) * F(T) <= Cardinality(T) * G(T)
    BY <1>4, <2>1
  <2>4. QED
    BY <2>2, <2>3 DEF F, G
<1>5. SUFFICES ASSUME Q # {} PROVE FALSE
  OBVIOUS
<1>6. PICK U \in Q : \A V \in Q : V \subseteq U => V = U
  <2>1. Q \subseteq SUBSET T
    OBVIOUS
  <2> HIDE DEF Q
  <2>2. QED
    BY <1>5, <2>1, Smallest
<1>7. U \in SUBSET T /\ ~ (F(U) * F(U) <= Cardinality(U) * G(U))
  BY <1>6
<1>8. CASE U = {}
  <2>1. F(U) = 0 /\ G(U) = 0 /\ Cardinality(U) = 0
    BY <1>2, <1>8, FS_EmptySet
  <2>2. QED
    BY <1>7, <2>1
<1>9. CASE U # {}
  <2>1. PICK x \in U : TRUE
    BY <1>9
  <2> DEFINE V == U \ {x}
             n == Cardinality(V)
  <2>2. V \notin Q /\ V \in SUBSET T
    <3>1. V # U /\ V \subseteq U /\ V \in SUBSET T
      BY <1>7, <2>1
    <3> HIDE DEF Q, V
    <3>2. QED
      BY <1>6, <3>1
  <2>3. F(V) * F(V) <= n * G(V)
    BY <2>2
  <2>4. n \in Nat /\ F(V) \in Int /\ G(V) \in Int /\ f[x] \in Int
    <3>1. f[x] \in Int
      BY <1>1, <1>7, <2>1
    <3> HIDE DEF V
    <3>2. QED
      BY <1>2, <2>2, <3>1
  <2>5. n = 0 => F(V) = 0 /\ G(V) = 0
    <3>1. IsFiniteSet(V)
      BY <1>2, <2>2
    <3>2. n = 0 => V = {}
      BY <3>1, FS_EmptySet
    <3>3. QED
      BY <1>2, <2>2, <3>2
  <2>6. (f[x] + F(V)) * (f[x] + F(V)) <= (n + 1) * (f[x] * f[x] + G(V))
    <3> HIDE DEF V, n
    <3>1. QED
      BY <2>3, <2>4, <2>5, SquareGrows
  <2>7. /\ F(U) = f[x] + F(V) /\ G(U) = f[x] * f[x] + G(V)
        /\ Cardinality(U) = n + 1
    BY <1>3, <1>7, <2>1
  <2>8. QED
    <3> HIDE DEF V, n
    <3>1. QED
      BY <1>7, <2>6, <2>7
<1>10. QED
  BY <1>8, <1>9

(***************************************************************************)
(* Sums are linear.                                                        *)
(***************************************************************************)
Mixes(h, a, f, b, g, T) ==
  \A x \in T : f[x] \in Int /\ g[x] \in Int /\ h[x] = a * f[x] + b * g[x]

LEMMA SumOfMixed ==
  ASSUME NEW T, IsFiniteSet(T), NEW a \in Int, NEW b \in Int,
         NEW f, NEW g, NEW h, Mixes(h, a, f, b, g, T)
  PROVE  /\ SumFunctionOnSet(f, T) \in Int /\ SumFunctionOnSet(g, T) \in Int
         /\ SumFunctionOnSet(h, T)
              = a * SumFunctionOnSet(f, T) + b * SumFunctionOnSet(g, T)
<1> DEFINE F(s) == SumFunctionOnSet(f, s)
           G(s) == SumFunctionOnSet(g, s)
           H(s) == SumFunctionOnSet(h, s)
           Q == {U \in SUBSET T : ~ (H(U) = a * F(U) + b * G(U))}
<1>1. \A x \in T : /\ f[x] \in Int /\ g[x] \in Int /\ h[x] \in Int
                   /\ h[x] = a * f[x] + b * g[x]
  BY DEF Mixes
<1>2. ASSUME NEW U \in SUBSET T
      PROVE  /\ IsFiniteSet(U) /\ F(U) \in Int /\ G(U) \in Int /\ H(U) \in Int
             /\ F({}) = 0 /\ G({}) = 0 /\ H({}) = 0
  <2>1. IsFiniteSet(U) /\ \A x \in U : f[x] \in Int /\ g[x] \in Int /\ h[x] \in Int
    BY <1>1, FS_Subset
  <2>2. F(U) \in Int /\ F({}) = 0
    BY <2>1, SumType
  <2>3. G(U) \in Int /\ G({}) = 0
    BY <2>1, SumType
  <2>4. H(U) \in Int /\ H({}) = 0
    BY <2>1, SumType
  <2>5. QED
    BY <2>1, <2>2, <2>3, <2>4
<1>3. ASSUME NEW U \in SUBSET T, NEW x \in U
      PROVE  /\ F(U) = f[x] + F(U \ {x}) /\ G(U) = g[x] + G(U \ {x})
             /\ H(U) = h[x] + H(U \ {x})
  <2>1. /\ IsFiniteSet(U) /\ (\A y \in U : f[y] \in Int) /\ (\A y \in U : g[y] \in Int)
        /\ (\A y \in U : h[y] \in Int)
    BY <1>1, <1>2
  <2>2. F(U) = f[x] + F(U \ {x})
    BY <2>1, SumTakesOut
  <2>3. G(U) = g[x] + G(U \ {x})
    BY <2>1, SumTakesOut
  <2>4. H(U) = h[x] + H(U \ {x})
    BY <2>1, SumTakesOut
  <2>5. QED
    BY <2>2, <2>3, <2>4
<1> HIDE DEF F, G, H
<1>4. SUFFICES Q = {}
  <2>1. T \in SUBSET T
    OBVIOUS
  <2>2. F(T) \in Int /\ G(T) \in Int
    BY <1>2, <2>1
  <2>3. H(T) = a * F(T) + b * G(T)
    BY <1>4, <2>1
  <2>4. QED
    BY <2>2, <2>3 DEF F, G, H
<1>5. SUFFICES ASSUME Q # {} PROVE FALSE
  OBVIOUS
<1>6. PICK U \in Q : \A V \in Q : V \subseteq U => V = U
  <2>1. Q \subseteq SUBSET T
    OBVIOUS
  <2> HIDE DEF Q
  <2>2. QED
    BY <1>5, <2>1, Smallest
<1>7. U \in SUBSET T /\ ~ (H(U) = a * F(U) + b * G(U))
  BY <1>6
<1>8. PICK x \in U : TRUE
  <2>1. a * 0 + b * 0 = 0
    OBVIOUS
  <2>2. QED
    BY <1>2, <1>7, <2>1
<1> DEFINE V == U \ {x}
<1>9. V \notin Q /\ V \in SUBSET T
  <2>1. V # U /\ V \subseteq U /\ V \in SUBSET T
    BY <1>7, <1>8
  <2> HIDE DEF Q, V
  <2>2. QED
    BY <1>6, <2>1
<1>10. H(V) = a * F(V) + b * G(V)
  BY <1>9
<1>11. /\ F(U) = f[x] + F(V) /\ G(U) = g[x] + G(V) /\ H(U) = h[x] + H(V)
       /\ F(V) \in Int /\ G(V) \in Int
  BY <1>2, <1>3, <1>7, <1>8, <1>9
<1>12. f[x] \in Int /\ g[x] \in Int /\ h[x] = a * f[x] + b * g[x]
  BY <1>1, <1>7, <1>8
<1>13. /\ a * (f[x] + F(V)) = a * f[x] + a * F(V)
       /\ b * (g[x] + G(V)) = b * g[x] + b * G(V)
       /\ a * f[x] \in Int /\ a * F(V) \in Int /\ b * g[x] \in Int /\ b * G(V) \in Int
  BY <1>11, <1>12
<1>14. QED
  BY <1>7, <1>10, <1>11, <1>12, <1>13

\* Ones add up to their number.
LEMMA SumOfOnes ==
  ASSUME NEW T, IsFiniteSet(T), NEW f, \A x \in T : f[x] = 1
  PROVE  SumFunctionOnSet(f, T) = Cardinality(T)
<1> DEFINE F(s) == SumFunctionOnSet(f, s)
           Q == {U \in SUBSET T : F(U) # Cardinality(U)}
<1>1. ASSUME NEW U \in SUBSET T
      PROVE  /\ IsFiniteSet(U) /\ F(U) \in Int /\ F({}) = 0 /\ Cardinality(U) \in Nat
  <2>1. IsFiniteSet(U) /\ \A x \in U : f[x] \in Int
    BY FS_Subset
  <2>2. QED
    BY <2>1, SumType, FS_CardinalityType
<1>2. ASSUME NEW U \in SUBSET T, NEW x \in U
      PROVE  F(U) = 1 + F(U \ {x}) /\ Cardinality(U) = Cardinality(U \ {x}) + 1
  <2>1. IsFiniteSet(U) /\ (\A y \in U : f[y] \in Int) /\ f[x] = 1
    BY <1>1
  <2>2. F(U) = f[x] + F(U \ {x})
    BY <2>1, SumTakesOut
  <2>3. Cardinality(U \ {x}) = Cardinality(U) - 1 /\ Cardinality(U) \in Nat
    BY <2>1, FS_RemoveElement, FS_CardinalityType
  <2>4. QED
    BY <2>1, <2>2, <2>3
<1> HIDE DEF F
<1>3. SUFFICES Q = {}
  <2>1. T \in SUBSET T
    OBVIOUS
  <2>2. F(T) = Cardinality(T)
    BY <1>3, <2>1
  <2>3. QED
    BY <2>2 DEF F
<1>4. SUFFICES ASSUME Q # {} PROVE FALSE
  OBVIOUS
<1>5. PICK U \in Q : \A V \in Q : V \subseteq U => V = U
  <2>1. Q \subseteq SUBSET T
    OBVIOUS
  <2> HIDE DEF Q
  <2>2. QED
    BY <1>4, <2>1, Smallest
<1>6. U \in SUBSET T /\ F(U) # Cardinality(U)
  BY <1>5
<1>7. PICK x \in U : TRUE
  BY <1>1, <1>6, FS_EmptySet
<1> DEFINE V == U \ {x}
<1>8. V \notin Q /\ V \in SUBSET T
  <2>1. V # U /\ V \subseteq U /\ V \in SUBSET T
    BY <1>6, <1>7
  <2> HIDE DEF Q, V
  <2>2. QED
    BY <1>5, <2>1
<1>9. F(V) = Cardinality(V) /\ Cardinality(V) \in Nat
  BY <1>1, <1>8
<1>10. QED
  BY <1>2, <1>6, <1>7, <1>9
=============================================================================
