---------------------------- MODULE WorkersProofs ----------------------------
(***************************************************************************)
(* The two workers that workers/start.ts starts: the safety invariants of  *)
(* Exports, for every number of jobs, slots, users, attempts and stalls,   *)
(* and those of Aggregate, for every number of users, sessions, events,    *)
(* rules, attempts and days, and every length of minute and day.           *)
(*                                                                         *)
(* The invariants of Aggregate speak of sums over finite sets.  The sums   *)
(* are those of module Functions, a fold defined by a recursive function;  *)
(* the first part of the module shows what such a sum is: an element and   *)
(* the sum of the others.  Induction is made by hand: a set of             *)
(* counterexamples that is not empty has a smallest one.                   *)
(*                                                                         *)
(* Exports.  Runs of one job may overlap once its lock ran out.  What      *)
(* separates the run that holds the lock from those that lost it is the    *)
(* stall counter of the job: the invariant says that a run without the     *)
(* lock belongs to a job that has stalled, that at most one run holds the  *)
(* lock of a job, and where the run of a job that never stalled left the   *)
(* row.                                                                    *)
(*                                                                         *)
(* Aggregate.  Sessions end and events arrive late, while the worker is at *)
(* work.  What it relies on is that it reads a user's sessions before      *)
(* their events: an event lies in a session that was read, since that      *)
(* session can only have ended in between, and not before the event.       *)
(* The invariant carries this from the tables to the run, and from the run *)
(* to every row, which is what the code computes from such a reading.      *)
(***************************************************************************)
EXTENDS Exports, Aggregate, FiniteSetTheorems, WellFoundedInduction, TLAPS

(* Minimal counterexamples, and sums over finite sets.                     *)

\* A set of naturals that is not empty has a smallest one.
LEMMA NatMin ==
  ASSUME NEW B \in SUBSET Nat, B # {}
  PROVE  \E n \in B : \A m \in B : n <= m
<1> DEFINE R == {p \in Nat \X Nat : p[1] < p[2]}
<1>1. IsWellFoundedOn(R, Nat)
  BY NatLessThanWellFounded, Zenon DEF OpToRel
<1>2. PICK n \in B : \A m \in B : <<m, n>> \notin R
  BY <1>1, WFMin, B \subseteq Nat
<1>3. \A m \in B : <<m, n>> \in R <=> m < n
  OBVIOUS
<1> HIDE DEF R
<1>4. ASSUME NEW m \in B
      PROVE  n <= m
  <2>1. m \in Nat /\ n \in Nat
    OBVIOUS
  <2>2. ~ (m < n)
    BY <1>2, <1>3
  <2> QED BY <2>1, <2>2
<1> QED BY <1>4

\* Induction on finite sets, stated with a set: a non-empty set of subsets has a minimal one.
LEMMA MinimalSubset ==
  ASSUME NEW S, IsFiniteSet(S), NEW Bad \in SUBSET SUBSET S, Bad # {}
  PROVE  \E T \in Bad : \A U \in SUBSET T : U # T => U \notin Bad
<1> DEFINE Sizes == {Cardinality(T) : T \in Bad}
<1>1. \A T \in SUBSET S : IsFiniteSet(T) /\ Cardinality(T) \in Nat
  BY FS_Subset, FS_CardinalityType
<1>2. Sizes \in SUBSET Nat /\ Sizes # {}
  BY <1>1
<1>3. PICK n \in Sizes : \A m \in Sizes : n <= m
  <2> HIDE DEF Sizes
  <2> QED BY <1>2, NatMin
<1>4. PICK T \in Bad : Cardinality(T) = n
  OBVIOUS
<1>5. ASSUME NEW U \in SUBSET T, U # T, U \in Bad
      PROVE  FALSE
  <2>1. Cardinality(T) <= Cardinality(U)
    <3>1. Cardinality(U) \in Sizes
      BY <1>5
    <3> HIDE DEF Sizes
    <3> QED BY <3>1, <1>3, <1>4
  <2>2. Cardinality(U) <= Cardinality(T) /\ (Cardinality(T) = Cardinality(U) => T = U)
    BY <1>1, FS_Subset
  <2>3. Cardinality(U) \in Nat /\ Cardinality(T) \in Nat
    BY <1>1
  <2> QED BY <2>1, <2>2, <2>3, <1>5
<1> QED BY <1>5


Element(s) == CHOOSE x \in s : TRUE

SumStep(f, g, s) == IF s = {} THEN 0 ELSE f[Element(s)] + g[s \ {Element(s)}]

\* g adds the values of f up, on every subset of S.
AddsUp(f, g, S) == g = [s \in SUBSET S |-> SumStep(f, g, s)]

\* The element the fold takes first is one of the set.
LEMMA ElementIn ==
  ASSUME NEW s, s # {}
  PROVE  Element(s) \in s
BY DEF Element

\* The sum of module Functions, with its recursive function written out.
LEMMA SumUnfolds ==
  ASSUME NEW f, NEW S
  PROVE  SumFunctionOnSet(f, S) = (CHOOSE g : AddsUp(f, g, S))[S]
BY DEF SumFunctionOnSet, FoldFunctionOnSet, MapThenFoldSet, SumStep, Element, AddsUp

\* There is such a g: one that is right on the subsets of up to n elements, for every n.
LEMMA SumExists ==
  ASSUME NEW S, IsFiniteSet(S), NEW f, \A x \in S : f[x] \in Int
  PROVE  \E g \in [SUBSET S -> Int] : AddsUp(f, g, S)
<1> DEFINE Upto(g, n) == \A s \in SUBSET S : Cardinality(s) <= n => g[s] = SumStep(f, g, s)
           G == [SUBSET S -> Int]
           Bad == {n \in Nat : ~ \E g \in G : Upto(g, n)}
<1>1. \A s \in SUBSET S : IsFiniteSet(s) /\ Cardinality(s) \in Nat
  BY FS_Subset, FS_CardinalityType
<1>2. \A s \in SUBSET S : s # {} =>
         /\ Element(s) \in S /\ s \ {Element(s)} \in SUBSET S
         /\ Cardinality(s \ {Element(s)}) = Cardinality(s) - 1
  BY <1>1, ElementIn, FS_RemoveElement
<1>3. 0 \notin Bad
  <2> DEFINE zero == [s \in SUBSET S |-> 0]
  <2>1. zero \in G
    OBVIOUS
  <2>2. Upto(zero, 0)
    <3> SUFFICES ASSUME NEW s \in SUBSET S, Cardinality(s) <= 0
                 PROVE  zero[s] = SumStep(f, zero, s)
      OBVIOUS
    <3>1. s = {}
      BY <1>1, FS_EmptySet
    <3> QED BY <3>1 DEF SumStep
  <2> HIDE DEF zero, Upto, G
  <2> QED BY <2>1, <2>2
<1>4. ASSUME NEW n \in Nat, n \notin Bad
      PROVE  n + 1 \notin Bad
  <2>1. PICK g \in G : Upto(g, n)
    BY <1>4
  <2> DEFINE h == [s \in SUBSET S |-> SumStep(f, g, s)]
  <2>2. h \in G
    <3> SUFFICES ASSUME NEW s \in SUBSET S PROVE SumStep(f, g, s) \in Int
      OBVIOUS
    <3>1. CASE s = {}
      BY <3>1 DEF SumStep
    <3>2. CASE s # {}
      <4>1. f[Element(s)] \in Int /\ g[s \ {Element(s)}] \in Int
        BY <3>2, <1>2
      <4> QED BY <3>2, <4>1 DEF SumStep
    <3> QED BY <3>1, <3>2
  <2>3. Upto(h, n + 1)
    <3> SUFFICES ASSUME NEW s \in SUBSET S, Cardinality(s) <= n + 1
                 PROVE  h[s] = SumStep(f, h, s)
      OBVIOUS
    <3>1. CASE s = {}
      BY <3>1 DEF SumStep
    <3>2. CASE s # {}
      <4> DEFINE r == s \ {Element(s)}
      <4>1. r \in SUBSET S /\ Cardinality(r) <= n
        <5>1. Cardinality(s) \in Nat /\ Cardinality(r) = Cardinality(s) - 1
          BY <1>1, <1>2, <3>2
        <5>2. r \in SUBSET S
          BY <1>2, <3>2
        <5> HIDE DEF r
        <5> QED BY <5>1, <5>2
      <4>2. g[r] = h[r]
        BY <2>1, <4>1
      <4> QED BY <3>2, <4>2 DEF SumStep
    <3> QED BY <3>1, <3>2
  <2> HIDE DEF h, Upto, G
  <2> QED BY <2>2, <2>3
<1>5. Bad = {}
  <2> SUFFICES ASSUME Bad # {} PROVE FALSE
    OBVIOUS
  <2>1. PICK n \in Bad : \A m \in Bad : n <= m
    <3>1. Bad \in SUBSET Nat
      OBVIOUS
    <3> HIDE DEF Bad
    <3> QED BY <3>1, NatMin
  <2>2. n \in Nat
    OBVIOUS
  <2> HIDE DEF Bad
  <2>3. n # 0 /\ n - 1 \in Nat /\ n - 1 \notin Bad
    BY <2>1, <2>2, <1>3
  <2>4. (n - 1) + 1 \notin Bad
    BY <2>3, <1>4
  <2> QED BY <2>2, <2>4
<1>6. PICK g \in G : Upto(g, Cardinality(S))
  <2>1. Cardinality(S) \in Nat /\ Cardinality(S) \notin Bad
    BY <1>1, <1>5
  <2> HIDE DEF G, Upto
  <2> QED BY <2>1
<1>7. \A s \in SUBSET S : g[s] = SumStep(f, g, s)
  BY <1>6, FS_Subset
<1> QED BY <1>7 DEF AddsUp

\* And only one, the one of a subset being a part of it.
LEMMA SumUnique ==
  ASSUME NEW S, IsFiniteSet(S), NEW T \in SUBSET S, NEW f,
         NEW g, AddsUp(f, g, S), NEW h, AddsUp(f, h, T)
  PROVE  \A s \in SUBSET T : g[s] = h[s]
<1> DEFINE Bad == {s \in SUBSET T : g[s] # h[s]}
<1> SUFFICES ASSUME Bad # {} PROVE FALSE
  OBVIOUS
<1>1. IsFiniteSet(T) /\ Bad \in SUBSET SUBSET T
  BY FS_Subset
<1>2. PICK s \in Bad : \A u \in SUBSET s : u # s => u \notin Bad
  <2> HIDE DEF Bad
  <2> QED BY <1>1, MinimalSubset
<1>3. s \in SUBSET T /\ s \in SUBSET S /\ g[s] # h[s]
  OBVIOUS
<1>4. g[s] = SumStep(f, g, s) /\ h[s] = SumStep(f, h, s)
  BY <1>3 DEF AddsUp
<1>5. s # {}
  BY <1>3, <1>4 DEF SumStep
<1>6. g[s \ {Element(s)}] = h[s \ {Element(s)}]
  BY <1>2, <1>5, ElementIn
<1> QED BY <1>3, <1>4, <1>5, <1>6 DEF SumStep

\* What the sum of a finite set is: nothing, or an element and the sum of the others.
LEMMA SumPick ==
  ASSUME NEW S, IsFiniteSet(S), NEW f, \A x \in S : f[x] \in Int
  PROVE  /\ SumFunctionOnSet(f, S) \in Int
         /\ S = {} => SumFunctionOnSet(f, S) = 0
         /\ S # {} => SumFunctionOnSet(f, S) = f[Element(S)] + SumFunctionOnSet(f, S \ {Element(S)})
<1> DEFINE g == CHOOSE g : AddsUp(f, g, S)
<1>1. PICK g0 \in [SUBSET S -> Int] : AddsUp(f, g0, S)
  BY SumExists
<1>2. AddsUp(f, g, S) /\ SumFunctionOnSet(f, S) = g[S]
  BY <1>1, SumUnfolds
<1> HIDE DEF g
<1>3. g[S] = g0[S]
  BY <1>1, <1>2, SumUnique
<1>4. g[S] = SumStep(f, g, S)
  BY <1>2 DEF AddsUp
<1>5. ASSUME S # {}
      PROVE  SumFunctionOnSet(f, S) = f[Element(S)] + SumFunctionOnSet(f, S \ {Element(S)})
  <2> DEFINE T == S \ {Element(S)}
             h == CHOOSE h : AddsUp(f, h, T)
  <2>1. T \in SUBSET S /\ IsFiniteSet(T) /\ \A x \in T : f[x] \in Int
    BY FS_Subset
  <2>2. AddsUp(f, h, T) /\ SumFunctionOnSet(f, T) = h[T]
    <3> HIDE DEF T
    <3>1. PICK h0 \in [SUBSET T -> Int] : AddsUp(f, h0, T)
      BY <2>1, SumExists
    <3> QED BY <3>1, SumUnfolds
  <2>3. g[T] = h[T]
    <3> HIDE DEF T, h
    <3>1. \A s \in SUBSET T : g[s] = h[s]
      BY <1>2, <2>1, <2>2, SumUnique
    <3> QED BY <3>1
  <2> HIDE DEF h
  <2> QED BY <1>2, <1>4, <1>5, <2>2, <2>3 DEF SumStep
<1> QED BY <1>1, <1>2, <1>3, <1>4, <1>5 DEF SumStep

\* The order does not matter: any element may be taken out.
LEMMA SumRemove ==
  ASSUME NEW S, IsFiniteSet(S), NEW f, \A x \in S : f[x] \in Int
  PROVE  \A x \in S : SumFunctionOnSet(f, S) = f[x] + SumFunctionOnSet(f, S \ {x})
<1> DEFINE Bad == {T \in SUBSET S :
                     ~ \A x \in T : SumFunctionOnSet(f, T) = f[x] + SumFunctionOnSet(f, T \ {x})}
<1> SUFFICES ASSUME Bad # {} PROVE FALSE
  OBVIOUS
<1>1. PICK T \in Bad : \A U \in SUBSET T : U # T => U \notin Bad
  <2>1. Bad \in SUBSET SUBSET S
    OBVIOUS
  <2> HIDE DEF Bad
  <2> QED BY <2>1, MinimalSubset
<1>2. PICK x \in T : SumFunctionOnSet(f, T) # f[x] + SumFunctionOnSet(f, T \ {x})
  OBVIOUS
<1>3. \A U \in SUBSET T :
        U # T => \A y \in U : SumFunctionOnSet(f, U) = f[y] + SumFunctionOnSet(f, U \ {y})
  BY <1>1
<1>4. T \in SUBSET S
  OBVIOUS
<1> HIDE DEF Bad
<1> DEFINE p == Element(T)
           both == T \ {x, p}
<1>5. p \in T /\ p \in S /\ x \in S
  BY <1>4, ElementIn
<1>6. IsFiniteSet(T) /\ \A y \in T : f[y] \in Int
  BY <1>4, FS_Subset
<1>7. SumFunctionOnSet(f, T) = f[p] + SumFunctionOnSet(f, T \ {p})
  BY <1>5, <1>6, SumPick
<1>8. p # x
  BY <1>2, <1>7
<1>9. SumFunctionOnSet(f, T \ {p}) = f[x] + SumFunctionOnSet(f, both)
  <2>1. (T \ {p}) \ {x} = both
    OBVIOUS
  <2>2. T \ {p} \in SUBSET T /\ T \ {p} # T /\ x \in T \ {p}
    BY <1>5, <1>8
  <2> HIDE DEF p, both
  <2> QED BY <1>3, <2>1, <2>2
<1>10. SumFunctionOnSet(f, T \ {x}) = f[p] + SumFunctionOnSet(f, both)
  <2>1. (T \ {x}) \ {p} = both
    OBVIOUS
  <2>2. T \ {x} \in SUBSET T /\ T \ {x} # T /\ p \in T \ {x}
    BY <1>5, <1>8
  <2> HIDE DEF p, both
  <2> QED BY <1>3, <2>1, <2>2
<1>11. SumFunctionOnSet(f, both) \in Int
  <2>1. IsFiniteSet(both) /\ \A y \in both : f[y] \in Int
    BY <1>6, FS_Subset
  <2> HIDE DEF both
  <2> QED BY <2>1, SumPick
<1>12. f[p] \in Int /\ f[x] \in Int
  BY <1>5
<1> HIDE DEF p, both
<1> QED BY <1>2, <1>7, <1>9, <1>10, <1>11, <1>12

\* A sum of naturals is one.
LEMMA SumNat ==
  ASSUME NEW S, IsFiniteSet(S), NEW f, \A x \in S : f[x] \in Nat
  PROVE  SumFunctionOnSet(f, S) \in Nat
<1> DEFINE Bad == {T \in SUBSET S : SumFunctionOnSet(f, T) \notin Nat}
<1> SUFFICES ASSUME Bad # {} PROVE FALSE
  <2>1. S \notin Bad => SumFunctionOnSet(f, S) \in Nat
    OBVIOUS
  <2> QED BY <2>1
<1>1. PICK T \in Bad : \A U \in SUBSET T : U # T => U \notin Bad
  <2>1. Bad \in SUBSET SUBSET S
    OBVIOUS
  <2> HIDE DEF Bad
  <2> QED BY <2>1, MinimalSubset
<1>2. IsFiniteSet(T) /\ \A x \in T : f[x] \in Nat /\ f[x] \in Int
  BY FS_Subset
<1>3. T # {}
  <2> SUFFICES ASSUME T = {} PROVE FALSE
    OBVIOUS
  <2>1. SumFunctionOnSet(f, T) = 0
    BY <1>2, SumPick
  <2> QED BY <2>1
<1> DEFINE R == T \ {Element(T)}
<1>4. SumFunctionOnSet(f, T) = f[Element(T)] + SumFunctionOnSet(f, R)
  BY <1>2, <1>3, SumPick
<1>5. SumFunctionOnSet(f, R) \in Nat
  BY <1>1, <1>3, ElementIn
<1>6. f[Element(T)] \in Nat
  BY <1>2, <1>3, ElementIn
<1> HIDE DEF R
<1>7. SumFunctionOnSet(f, T) \in Nat
  BY <1>4, <1>5, <1>6
<1> QED BY <1>7

\* Only the values on the set count.
LEMMA SumAgree ==
  ASSUME NEW S, IsFiniteSet(S), NEW f, NEW h, \A x \in S : f[x] \in Int /\ f[x] = h[x]
  PROVE  SumFunctionOnSet(f, S) = SumFunctionOnSet(h, S)
<1> DEFINE Bad == {T \in SUBSET S : SumFunctionOnSet(f, T) # SumFunctionOnSet(h, T)}
<1> SUFFICES ASSUME Bad # {} PROVE FALSE
  <2>1. S \notin Bad => SumFunctionOnSet(f, S) = SumFunctionOnSet(h, S)
    OBVIOUS
  <2> QED BY <2>1
<1>1. PICK T \in Bad : \A U \in SUBSET T : U # T => U \notin Bad
  <2>1. Bad \in SUBSET SUBSET S
    OBVIOUS
  <2> HIDE DEF Bad
  <2> QED BY <2>1, MinimalSubset
<1>2. IsFiniteSet(T) /\ \A x \in T : f[x] \in Int /\ h[x] \in Int /\ f[x] = h[x]
  BY FS_Subset
<1>3. SumFunctionOnSet(f, T) # SumFunctionOnSet(h, T)
  OBVIOUS
<1>4. T # {}
  BY <1>2, <1>3, SumPick
<1> DEFINE R == T \ {Element(T)}
<1>5. SumFunctionOnSet(f, R) = SumFunctionOnSet(h, R)
  BY <1>1, <1>4, ElementIn
<1>6. f[Element(T)] = h[Element(T)]
  BY <1>2, <1>4, ElementIn
<1>7. SumFunctionOnSet(f, T) = f[Element(T)] + SumFunctionOnSet(f, R)
  BY <1>2, <1>4, SumPick
<1>8. SumFunctionOnSet(h, T) = h[Element(T)] + SumFunctionOnSet(h, R)
  BY <1>2, <1>4, SumPick
<1> QED BY <1>3, <1>5, <1>6, <1>7, <1>8
-----------------------------------------------------------------------------
(* Quotients and rounding.                                                 *)

\* What the quotient is: the number of whole b in a.
LEMMA Division ==
  ASSUME NEW a \in Int, NEW b \in Nat \ {0}
  PROVE  /\ a \div b \in Int
         /\ b * (a \div b) <= a
         /\ a < b * (a \div b) + b
<1>1. b \in Int /\ b > 0
  OBVIOUS
<1>2. a \div b \in Int /\ a % b \in 0..(b - 1) /\ a = b * (a \div b) + (a % b)
  BY <1>1
<1> QED BY <1>1, <1>2

\* Multiples of b less than b apart are in order.
LEMMA QuotientOrder ==
  ASSUME NEW b \in Nat \ {0}, NEW p \in Int, NEW q \in Int, b * p < b * q + b
  PROVE  p <= q
<1> SUFFICES ASSUME p >= q + 1 PROVE FALSE
  OBVIOUS
<1>1. b * (p - (q + 1)) >= 0
  OBVIOUS
<1>2. b * (p - (q + 1)) = b * p - b * q - b
  OBVIOUS
<1> QED BY <1>1, <1>2

\* Rounding is off by half a unit at most.
LEMMA RoundBounds ==
  ASSUME NEW a \in Int, NEW b \in Nat \ {0}
  PROVE  /\ Round(a, b) \in Int
         /\ 2 * (b * Round(a, b)) <= 2 * a + b
         /\ 2 * a < 2 * (b * Round(a, b)) + b
<1> DEFINE n == 2 * a + b
           m == 2 * b
           r == n \div m
<1>1. n \in Int /\ m \in Nat \ {0}
  OBVIOUS
<1>2. r \in Int /\ m * r <= n /\ n < m * r + m
  <2> HIDE DEF n, m
  <2> QED BY <1>1, Division
<1>3. Round(a, b) = r
  BY DEF Round
<1> HIDE DEF r
<1>4. m * r = 2 * (b * r)
  BY <1>2
<1> QED BY <1>2, <1>3, <1>4

\* Nothing else is.
LEMMA RoundIs ==
  ASSUME NEW a \in Int, NEW b \in Nat \ {0}, NEW q \in Int,
         2 * (b * q) <= 2 * a + b, 2 * a < 2 * (b * q) + b
  PROVE  Round(a, b) = q
<1> DEFINE r == Round(a, b)
<1>1. r \in Int /\ 2 * (b * r) <= 2 * a + b /\ 2 * a < 2 * (b * r) + b
  BY RoundBounds
<1> HIDE DEF r
<1>2. b * r \in Int /\ b * q \in Int
  BY <1>1
<1>3. b * r < b * q + b /\ b * q < b * r + b
  BY <1>1, <1>2
<1>4. r <= q /\ q <= r
  BY <1>1, <1>3, QuotientOrder
<1>5. r = q
  BY <1>1, <1>4
<1> QED BY <1>5 DEF r

\* Nothing becomes negative by rounding.
LEMMA RoundNat ==
  ASSUME NEW a \in Nat, NEW b \in Nat \ {0}
  PROVE  Round(a, b) \in Nat
<1> DEFINE r == Round(a, b)
<1>1. r \in Int /\ 2 * a < 2 * (b * r) + b
  BY RoundBounds
<1> HIDE DEF r
<1>2. b * 0 < b * r + b
  BY <1>1
<1>3. 0 <= r
  BY <1>1, <1>2, QuotientOrder
<1>4. r \in Nat
  BY <1>1, <1>3
<1> QED BY <1>4 DEF r

\* A whole number of units passes through it.
LEMMA RoundShift ==
  ASSUME NEW a \in Int, NEW b \in Nat \ {0}, NEW k \in Int
  PROVE  Round(a + b * k, b) = Round(a, b) + k
<1> DEFINE r == Round(a, b)
<1>1. r \in Int /\ 2 * (b * r) <= 2 * a + b /\ 2 * a < 2 * (b * r) + b
  BY RoundBounds
<1> HIDE DEF r
<1>2. b * (r + k) = b * r + b * k /\ b * r \in Int /\ b * k \in Int
  BY <1>1
<1>3. 2 * (b * (r + k)) <= 2 * (a + b * k) + b /\ 2 * (a + b * k) < 2 * (b * (r + k)) + b
  BY <1>1, <1>2
<1>4. Round(a + b * k, b) = r + k
  BY <1>1, <1>2, <1>3, RoundIs
<1> QED BY <1>4 DEF r

\* Whole units need no rounding.
LEMMA RoundWhole ==
  ASSUME NEW b \in Nat \ {0}, NEW k \in Int
  PROVE  Round(b * k, b) = k
<1> DEFINE a == b * k
<1>1. a \in Int /\ 2 * (b * k) <= 2 * a + b /\ 2 * a < 2 * (b * k) + b
  OBVIOUS
<1>2. Round(a, b) = k
  <2> HIDE DEF a
  <2> QED BY <1>1, RoundIs
<1> QED BY <1>2

\* Of no part nothing is made.
LEMMA RoundZero ==
  ASSUME NEW b \in Nat \ {0}
  PROVE  Round(0, b) = 0
BY RoundIs

\* To round two parts instead of the whole changes the result by one at most.
LEMMA RoundParts ==
  ASSUME NEW x \in Int, NEW y \in Int, NEW b \in Nat \ {0}
  PROVE  Round(x, b) + Round(y, b) - Round(x + y, b) \in {-1, 0, 1}
<1> DEFINE p == Round(x, b)
           q == Round(y, b)
           r == Round(x + y, b)
<1>1. /\ p \in Int /\ 2 * (b * p) <= 2 * x + b /\ 2 * x < 2 * (b * p) + b
      /\ q \in Int /\ 2 * (b * q) <= 2 * y + b /\ 2 * y < 2 * (b * q) + b
      /\ r \in Int /\ 2 * (b * r) <= 2 * (x + y) + b /\ 2 * (x + y) < 2 * (b * r) + b
  BY RoundBounds
<1> HIDE DEF p, q, r
<1>2. b * p \in Int /\ b * q \in Int /\ b * r \in Int
  BY <1>1
<1>3. /\ b * (p + q) = b * p + b * q
      /\ b * (r + 1) = b * r + b
      /\ b * (p + q + 1) = b * p + b * q + b
  BY <1>1
<1>4. b * (p + q) < b * (r + 1) + b
  BY <1>1, <1>2, <1>3
<1>5. b * r < b * (p + q + 1) + b
  BY <1>1, <1>2, <1>3
<1>6. p + q <= r + 1 /\ r <= p + q + 1
  BY <1>1, <1>4, <1>5, QuotientOrder
<1>7. p + q - r \in {-1, 0, 1}
  BY <1>1, <1>6
<1> QED BY <1>7 DEF p, q, r
-----------------------------------------------------------------------------
(* The exports: the inductive invariant.                                   *)

Idle(s) == At(s, "idle")

\* A run that holds the lock runs an active job, alone.
LockHeld ==
  /\ \A s \in Slot : runs[s].owned => ~Idle(s) /\ queue[runs[s].job].state = "active"
  /\ \A s, t \in Slot : runs[s].owned /\ runs[t].owned /\ runs[s].job = runs[t].job => s = t

\* A run without it belongs to a job that has stalled.
Orphaned == \A s \in Slot : ~Idle(s) /\ ~runs[s].owned => queue[runs[s].job].stalls > 0

\* A job that may still run has attempts and stalls left.
Budget ==
  \A j \in Job :
    queue[j].state \in {"none", "waiting", "active"} =>
      queue[j].failures < Attempts /\ queue[j].stalls <= MaxStalled

\* What a run has written before it gets to where it is.
Uploaded == \A s \in Slot : runs[s].pc \in {"finish", "ack"} => runs[s].job \in objects

Marked ==
  \A s \in Slot :
    queue[runs[s].job].stalls = 0 =>
      /\ runs[s].pc \in {"users", "upload", "finish"} => rows[runs[s].job].status = "running"
      /\ At(s, "ack") => rows[runs[s].job].status = "done"

\* A run starts with no user processed, and one that still counts users has some left.
Remaining ==
  \A s \in Slot :
    /\ At(s, "mark") => runs[s].processed = 0
    /\ At(s, "users") => runs[s].processed < Users

\* The inductive invariant.
ExportsInv ==
  /\ TypeOK /\ LockHeld /\ Orphaned /\ Budget
  /\ Uploaded /\ Marked /\ Remaining
  /\ DoneHasObject /\ ProgressAgrees /\ CompletedIsDone
-----------------------------------------------------------------------------
(* The progress is between that of a run that began and 95.                *)
LEMMA ProgressBound ==
  ASSUME NEW n \in 1..Users
  PROVE  Progress(n) \in 5..95
<1>1. Users \in Nat /\ Users > 0
  BY ExportsAssumption
<1> DEFINE a == 2 * (n * 90) + Users
           b == 2 * Users
<1>2. a \in Nat /\ b \in Nat /\ b > 0
  BY <1>1
<1>3. a \div b \in Nat
  <2> HIDE DEF a, b
  <2> QED BY <1>2
<1>4. Round(n * 90, Users) \in Nat
  BY <1>3 DEF Round
<1> QED
  <2> DEFINE r == Round(n * 90, Users)
  <2>1. r \in Nat
    BY <1>4
  <2>2. Progress(n) = IF 5 + r < 95 THEN 5 + r ELSE 95
    BY DEF Progress
  <2> HIDE DEF r
  <2> QED BY <2>1, <2>2

-----------------------------------------------------------------------------
\* Without rows, objects, jobs or runs there is nothing to show.
LEMMA ExportsInitEstablishes == Init => ExportsInv
<1> SUFFICES ASSUME Init PROVE ExportsInv
  OBVIOUS
<1> USE DEF Init, NoRow, NoRun, At, Idle
<1>1. TypeOK
  BY ExportsAssumption DEF TypeOK, Row, Entry, Run
<1>2. LockHeld /\ Orphaned
  BY DEF LockHeld, Orphaned
<1>3. Budget
  BY ExportsAssumption DEF Budget
<1>4. Uploaded /\ Remaining
  BY DEF Uploaded, Remaining
<1>5. Marked
  BY DEF Marked
<1>6. DoneHasObject /\ ProgressAgrees /\ CompletedIsDone
  BY DEF DoneHasObject, ProgressAgrees, CompletedIsDone
<1> QED
  BY <1>1, <1>2, <1>3, <1>4, <1>5, <1>6 DEF ExportsInv

\* A request: a new row, pending, of which no run knows yet.
LEMMA CreateRowPreserves ==
  ASSUME ExportsInv, NEW j \in Job, CreateRow(j)
  PROVE  ExportsInv'
<1> USE ExportsAssumption DEF ExportsInv, CreateRow
<1>1. TypeOK'
  <2>1. rows[j] \in Row /\ queue[j] \in Entry
    BY DEF TypeOK
  <2>2. rows' \in [Job -> Row]
    <3> DEFINE new == [rows[j] EXCEPT !.status = "pending"]
    <3>1. new \in Row
      BY <2>1 DEF Row
    <3>2. rows' = [rows EXCEPT ![j] = new]
      OBVIOUS
    <3> HIDE DEF new
    <3> QED BY <3>1, <3>2 DEF TypeOK
  <2> QED BY <2>1, <2>2 DEF TypeOK
<1>2. LockHeld'
  BY DEF LockHeld, Idle, At
<1>3. Orphaned'
  BY DEF Orphaned, Idle, At
<1>4. Budget'
  BY DEF Budget
<1>5. Uploaded'
  BY DEF Uploaded
<1>6. Remaining'
  BY DEF Remaining, At
<1>7. Marked'
  BY DEF Marked, At
<1>8. DoneHasObject'
  BY DEF DoneHasObject
<1>9. ProgressAgrees'
  BY DEF ProgressAgrees
<1>10. CompletedIsDone'
  BY DEF CompletedIsDone
<1> QED
  BY <1>1, <1>2, <1>3, <1>4, <1>5, <1>6, <1>7, <1>8, <1>9, <1>10

\* A job enters the queue with all its attempts.
LEMMA AddJobPreserves ==
  ASSUME ExportsInv, NEW j \in Job, AddJob(j)
  PROVE  ExportsInv'
<1> USE ExportsAssumption DEF ExportsInv, AddJob
<1>1. TypeOK'
  <2>1. rows[j] \in Row /\ queue[j] \in Entry
    BY DEF TypeOK
  <2>2. queue' \in [Job -> Entry]
    <3> DEFINE new == [queue[j] EXCEPT !.state = "waiting"]
    <3>1. new \in Entry
      BY <2>1 DEF Entry
    <3>2. queue' = [queue EXCEPT ![j] = new]
      OBVIOUS
    <3> HIDE DEF new
    <3> QED BY <3>1, <3>2 DEF TypeOK
  <2> QED BY <2>1, <2>2 DEF TypeOK
<1>2. LockHeld'
  BY DEF LockHeld, Idle, At
<1>3. Orphaned'
  BY DEF Orphaned, Idle, At
<1>4. Budget'
  BY DEF Budget
<1>5. Uploaded'
  BY DEF Uploaded
<1>6. Remaining'
  BY DEF Remaining, At
<1>7. Marked'
  BY DEF Marked, At
<1>8. DoneHasObject'
  BY DEF DoneHasObject
<1>9. ProgressAgrees'
  BY DEF ProgressAgrees
<1>10. CompletedIsDone'
  BY DEF CompletedIsDone
<1> QED
  BY <1>1, <1>2, <1>3, <1>4, <1>5, <1>6, <1>7, <1>8, <1>9, <1>10

\* A run takes the lock of a waiting job, which no run holds.
LEMMA TakePreserves ==
  ASSUME ExportsInv, NEW s \in Slot, Take(s)
  PROVE  ExportsInv'
<1> USE ExportsAssumption DEF ExportsInv, Take, At
<1>1. TypeOK'
  BY DEF TypeOK, Entry, Run
<1>2. LockHeld'
  BY DEF TypeOK, LockHeld, Idle
<1>3. Orphaned'
  BY DEF Orphaned, Idle
<1>4. Budget'
  BY DEF Budget
<1>5. Uploaded'
  BY DEF Uploaded
<1>6. Remaining'
  BY DEF Remaining
<1>7. Marked'
  BY DEF Marked
<1>8. DoneHasObject'
  BY DEF DoneHasObject
<1>9. ProgressAgrees'
  BY DEF ProgressAgrees
<1>10. CompletedIsDone'
  BY DEF CompletedIsDone
<1> QED
  BY <1>1, <1>2, <1>3, <1>4, <1>5, <1>6, <1>7, <1>8, <1>9, <1>10

\* The row goes back to running: its object stays.
LEMMA MarkRunningPreserves ==
  ASSUME ExportsInv, NEW s \in Slot, MarkRunning(s)
  PROVE  ExportsInv'
<1> USE ExportsAssumption DEF ExportsInv, MarkRunning, Goto, At
<1>1. TypeOK'
  <2>1. /\ runs[s] \in Run /\ runs[s].job \in Job
        /\ rows[runs[s].job] \in Row /\ queue[runs[s].job] \in Entry
    BY DEF TypeOK, Run
  <2>2. rows' \in [Job -> Row]
    <3> DEFINE new == [status |-> "running", progress |-> 5, key |-> rows[runs[s].job].key]
    <3>1. new \in Row
      BY <2>1 DEF Row
    <3>2. rows' = [rows EXCEPT ![runs[s].job] = new]
      OBVIOUS
    <3> HIDE DEF new
    <3> QED BY <3>1, <3>2 DEF TypeOK
  <2>3. runs' \in [Slot -> Run]
    <3> DEFINE new == [runs[s] EXCEPT !.pc = IF Users = 0 THEN "upload" ELSE "users"]
    <3>1. new \in Run
      BY <2>1 DEF Run
    <3>2. runs' = [runs EXCEPT ![s] = new]
      OBVIOUS
    <3> HIDE DEF new
    <3> QED BY <3>1, <3>2 DEF TypeOK
  <2> QED BY <2>1, <2>2, <2>3 DEF TypeOK
<1>2. LockHeld'
  BY DEF LockHeld, Idle
<1>3. Orphaned'
  BY DEF Orphaned, Idle
<1>4. Budget'
  BY DEF Budget
<1>5. Uploaded'
  BY DEF Uploaded
<1>6. Remaining'
  BY DEF Remaining
<1>7. Marked'
  BY DEF TypeOK, Run, Marked, LockHeld, Orphaned, Idle
<1>8. DoneHasObject'
  BY DEF DoneHasObject
<1>9. ProgressAgrees'
  BY DEF ProgressAgrees
<1>10. CompletedIsDone'
  <2>1. queue[runs[s].job].state = "active" \/ queue[runs[s].job].stalls > 0
    BY DEF LockHeld, Orphaned, Idle
  <2>2. queue[runs[s].job].stalls > 0 => queue[runs[s].job].stalls # 0
    OBVIOUS
  <2>3. \A j \in Job : j # runs[s].job => rows'[j] = rows[j]
    OBVIOUS
  <2> QED BY <2>1, <2>2, <2>3 DEF CompletedIsDone
<1> QED
  BY <1>1, <1>2, <1>3, <1>4, <1>5, <1>6, <1>7, <1>8, <1>9, <1>10

\* The progress of a run that holds the lock, or of one that lost it.
LEMMA ProcessUserPreserves ==
  ASSUME ExportsInv, NEW s \in Slot, ProcessUser(s)
  PROVE  ExportsInv'
<1> USE ExportsAssumption DEF ExportsInv, ProcessUser, At
<1>0. Progress(runs[s].processed + 1) \in 5..95
  <2>1. runs[s].processed + 1 \in 1..Users
    BY DEF TypeOK, Run, Remaining
  <2> QED BY <2>1, ProgressBound
<1>1. TypeOK'
  <2>1. /\ runs[s] \in Run /\ runs[s].job \in Job
        /\ rows[runs[s].job] \in Row /\ queue[runs[s].job] \in Entry
    BY DEF TypeOK, Run
  <2>2. rows' \in [Job -> Row]
    <3> DEFINE new == [rows[runs[s].job] EXCEPT !.progress = Progress(runs[s].processed + 1)]
    <3>1. new \in Row
      BY <2>1, <1>0 DEF Row
    <3>2. rows' = [rows EXCEPT ![runs[s].job] = new]
      OBVIOUS
    <3> HIDE DEF new
    <3> QED BY <3>1, <3>2 DEF TypeOK
  <2>3. runs' \in [Slot -> Run]
    <3> DEFINE new == [runs[s] EXCEPT !.processed = runs[s].processed + 1,
                         !.pc = IF runs[s].processed + 1 = Users THEN "upload" ELSE "users"]
    <3>1. new \in Run
      <4>1. runs[s].processed + 1 \in 0..Users
        BY <2>1 DEF Run, Remaining
      <4> QED BY <4>1, <2>1 DEF Run
    <3>2. runs' = [runs EXCEPT ![s] = new]
      OBVIOUS
    <3> HIDE DEF new
    <3> QED BY <3>1, <3>2 DEF TypeOK
  <2> QED BY <2>1, <2>2, <2>3 DEF TypeOK
<1>2. LockHeld'
  BY DEF LockHeld, Idle
<1>3. Orphaned'
  BY DEF Orphaned, Idle
<1>4. Budget'
  BY DEF Budget
<1>5. Uploaded'
  BY DEF Uploaded
<1>6. Remaining'
  BY DEF TypeOK, Run, Remaining
<1>7. Marked'
  BY DEF Marked
<1>8. DoneHasObject'
  BY DEF DoneHasObject
<1>9. ProgressAgrees'
  BY <1>0 DEF TypeOK, ProgressAgrees, Marked
<1>10. CompletedIsDone'
  BY DEF CompletedIsDone
<1> QED
  BY <1>1, <1>2, <1>3, <1>4, <1>5, <1>6, <1>7, <1>8, <1>9, <1>10

\* The object is there before the row says so.
LEMMA UploadPreserves ==
  ASSUME ExportsInv, NEW s \in Slot, Upload(s)
  PROVE  ExportsInv'
<1> USE ExportsAssumption DEF ExportsInv, Upload, Goto, At
<1>1. TypeOK'
  <2>1. /\ runs[s] \in Run /\ runs[s].job \in Job
        /\ rows[runs[s].job] \in Row /\ queue[runs[s].job] \in Entry
    BY DEF TypeOK, Run
  <2>2. runs' \in [Slot -> Run]
    <3> DEFINE new == [runs[s] EXCEPT !.pc = "finish"]
    <3>1. new \in Run
      BY <2>1 DEF Run
    <3>2. runs' = [runs EXCEPT ![s] = new]
      OBVIOUS
    <3> HIDE DEF new
    <3> QED BY <3>1, <3>2 DEF TypeOK
  <2> QED BY <2>1, <2>2 DEF TypeOK
<1>2. LockHeld'
  BY DEF LockHeld, Idle
<1>3. Orphaned'
  BY DEF Orphaned, Idle
<1>4. Budget'
  BY DEF Budget
<1>5. Uploaded'
  BY DEF Uploaded
<1>6. Remaining'
  BY DEF Remaining
<1>7. Marked'
  BY DEF Marked
<1>8. DoneHasObject'
  BY DEF DoneHasObject
<1>9. ProgressAgrees'
  BY DEF ProgressAgrees
<1>10. CompletedIsDone'
  BY DEF CompletedIsDone
<1> QED
  BY <1>1, <1>2, <1>3, <1>4, <1>5, <1>6, <1>7, <1>8, <1>9, <1>10

\* The row is done.
LEMMA FinishPreserves ==
  ASSUME ExportsInv, NEW s \in Slot, Finish(s)
  PROVE  ExportsInv'
<1> USE ExportsAssumption DEF ExportsInv, Finish, Goto, At
<1>1. TypeOK'
  <2>1. /\ runs[s] \in Run /\ runs[s].job \in Job
        /\ rows[runs[s].job] \in Row /\ queue[runs[s].job] \in Entry
    BY DEF TypeOK, Run
  <2>2. rows' \in [Job -> Row]
    <3> DEFINE new == [status |-> "done", progress |-> 100, key |-> TRUE]
    <3>1. new \in Row
      BY <2>1 DEF Row
    <3>2. rows' = [rows EXCEPT ![runs[s].job] = new]
      OBVIOUS
    <3> HIDE DEF new
    <3> QED BY <3>1, <3>2 DEF TypeOK
  <2>3. runs' \in [Slot -> Run]
    <3> DEFINE new == [runs[s] EXCEPT !.pc = "ack"]
    <3>1. new \in Run
      BY <2>1 DEF Run
    <3>2. runs' = [runs EXCEPT ![s] = new]
      OBVIOUS
    <3> HIDE DEF new
    <3> QED BY <3>1, <3>2 DEF TypeOK
  <2> QED BY <2>1, <2>2, <2>3 DEF TypeOK
<1>2. LockHeld'
  BY DEF LockHeld, Idle
<1>3. Orphaned'
  BY DEF Orphaned, Idle
<1>4. Budget'
  BY DEF Budget
<1>5. Uploaded'
  BY DEF Uploaded
<1>6. Remaining'
  BY DEF Remaining
<1>7. Marked'
  <2> SUFFICES ASSUME NEW t \in Slot, queue[runs'[t].job].stalls = 0
               PROVE  /\ runs'[t].pc \in {"users", "upload", "finish"} =>
                           rows'[runs'[t].job].status = "running"
                      /\ runs'[t].pc = "ack" => rows'[runs'[t].job].status = "done"
    BY DEF Marked
  <2>1. CASE t = s
    BY <2>1 DEF TypeOK, Run
  <2>2. CASE t # s
    <3>1. runs'[t] = runs[t] /\ runs[t].job \in Job
      BY <2>2 DEF TypeOK, Run
    <3>2. CASE runs[t].job # runs[s].job
      BY <3>1, <3>2 DEF Marked
    <3>3. CASE runs[t].job = runs[s].job
      <4>1. runs[s].owned
        BY <3>1, <3>3 DEF Orphaned, Idle
      <4>2. ~runs[t].owned
        BY <2>2, <3>3, <4>1 DEF LockHeld
      <4>3. Idle(t)
        BY <3>1, <4>2 DEF Orphaned
      <4> QED BY <3>1, <4>3 DEF Idle
    <3> QED BY <3>2, <3>3
  <2> QED BY <2>1, <2>2
<1>8. DoneHasObject'
  BY DEF DoneHasObject, Uploaded
<1>9. ProgressAgrees'
  BY DEF ProgressAgrees
<1>10. CompletedIsDone'
  BY DEF CompletedIsDone
<1> QED
  BY <1>1, <1>2, <1>3, <1>4, <1>5, <1>6, <1>7, <1>8, <1>9, <1>10

\* The queue takes the result of the run that holds the lock.
LEMMA CompletePreserves ==
  ASSUME ExportsInv, NEW s \in Slot, Complete(s)
  PROVE  ExportsInv'
<1> USE ExportsAssumption DEF ExportsInv, Complete, At, NoRun
<1>1. TypeOK'
  BY DEF TypeOK, Entry, Run
<1>2. LockHeld'
  BY DEF TypeOK, LockHeld, Idle
<1>3. Orphaned'
  BY DEF Orphaned, Idle
<1>4. Budget'
  BY DEF Budget
<1>5. Uploaded'
  BY DEF Uploaded
<1>6. Remaining'
  BY DEF Remaining
<1>7. Marked'
  <2> SUFFICES ASSUME NEW t \in Slot, queue'[runs'[t].job].stalls = 0
               PROVE  /\ runs'[t].pc \in {"users", "upload", "finish"} =>
                           rows'[runs'[t].job].status = "running"
                      /\ runs'[t].pc = "ack" => rows'[runs'[t].job].status = "done"
    BY DEF Marked
  <2>1. CASE t = s
    BY <2>1 DEF TypeOK
  <2>2. CASE t # s
    <3>1. runs'[t] = runs[t] /\ rows' = rows /\ runs[t].job \in Job /\ runs[s].job \in Job
      BY <2>2 DEF TypeOK, Run
    <3>2. \A j \in Job : queue'[j].stalls = queue[j].stalls
      BY <3>1
    <3> QED BY <3>1, <3>2 DEF Marked
  <2> QED BY <2>1, <2>2
<1>8. DoneHasObject'
  BY DEF DoneHasObject
<1>9. ProgressAgrees'
  BY DEF ProgressAgrees
<1>10. CompletedIsDone'
  BY DEF CompletedIsDone, Marked
<1> QED
  BY <1>1, <1>2, <1>3, <1>4, <1>5, <1>6, <1>7, <1>8, <1>9, <1>10

\* A failed attempt is counted if the run holds the lock.
LEMMA ThrowPreserves ==
  ASSUME ExportsInv, NEW s \in Slot, Throw(s)
  PROVE  ExportsInv'
<1> USE ExportsAssumption DEF ExportsInv, Throw, NoRun
<1>0. runs[s].owned => queue[runs[s].job].failures + 1 \in 0..Attempts
  BY DEF TypeOK, Entry, Run, LockHeld, Budget
<1>1. TypeOK'
  <2>1. /\ runs[s] \in Run /\ runs[s].job \in Job
        /\ rows[runs[s].job] \in Row /\ queue[runs[s].job] \in Entry
    BY DEF TypeOK, Run
  <2>2. queue' \in [Job -> Entry]
    <3> DEFINE new == IF runs[s].owned
                         THEN [queue[runs[s].job] EXCEPT
                                 !.failures = queue[runs[s].job].failures + 1,
                                 !.state = IF queue[runs[s].job].failures + 1 < Attempts
                                             THEN "waiting" ELSE "failed"]
                         ELSE queue[runs[s].job]
    <3>1. new \in Entry
      BY <2>1, <1>0 DEF Entry
    <3>2. queue' = [queue EXCEPT ![runs[s].job] = new]
      BY <2>1 DEF TypeOK
    <3> HIDE DEF new
    <3> QED BY <3>1, <3>2 DEF TypeOK
  <2>3. runs' \in [Slot -> Run]
    <3> DEFINE new == NoRun
    <3>1. new \in Run
      BY <2>1 DEF Run
    <3>2. runs' = [runs EXCEPT ![s] = new]
      OBVIOUS
    <3> HIDE DEF new
    <3> QED BY <3>1, <3>2 DEF TypeOK
  <2> QED BY <2>1, <2>2, <2>3 DEF TypeOK
<1>2. LockHeld'
  BY DEF TypeOK, LockHeld, Idle, At
<1>3. Orphaned'
  BY DEF Orphaned, Idle, At
<1>4. Budget'
  BY DEF Budget, LockHeld
<1>5. Uploaded'
  BY DEF Uploaded
<1>6. Remaining'
  BY DEF Remaining, At
<1>7. Marked'
  BY DEF Marked, At
<1>8. DoneHasObject'
  BY DEF DoneHasObject
<1>9. ProgressAgrees'
  BY DEF ProgressAgrees
<1>10. CompletedIsDone'
  BY DEF CompletedIsDone
<1> QED
  BY <1>1, <1>2, <1>3, <1>4, <1>5, <1>6, <1>7, <1>8, <1>9, <1>10

\* A dead run: its job has stalled.
LEMMA DiePreserves ==
  ASSUME ExportsInv, NEW s \in Slot, Die(s)
  PROVE  ExportsInv'
<1> USE ExportsAssumption DEF ExportsInv, Die, Requeued, At, NoRun
<1>1. TypeOK'
  BY DEF TypeOK, Entry, Run, LockHeld
<1>2. LockHeld'
  BY DEF TypeOK, Run, LockHeld, Idle
<1>3. Orphaned'
  BY DEF TypeOK, Entry, Run, Orphaned, Idle
<1>4. Budget'
  BY DEF TypeOK, Entry, Budget
<1>5. Uploaded'
  BY DEF Uploaded
<1>6. Remaining'
  BY DEF Remaining
<1>7. Marked'
  BY DEF TypeOK, Entry, Run, Marked
<1>8. DoneHasObject'
  BY DEF DoneHasObject
<1>9. ProgressAgrees'
  BY DEF TypeOK, Entry, ProgressAgrees
<1>10. CompletedIsDone'
  BY DEF TypeOK, CompletedIsDone
<1> QED
  BY <1>1, <1>2, <1>3, <1>4, <1>5, <1>6, <1>7, <1>8, <1>9, <1>10

\* A run goes on without the lock of its job, which has stalled.
LEMMA LoseLockPreserves ==
  ASSUME ExportsInv, NEW s \in Slot, LoseLock(s)
  PROVE  ExportsInv'
<1> USE ExportsAssumption DEF ExportsInv, LoseLock, Requeued, At
<1>1. TypeOK'
  BY DEF TypeOK, Entry, Run, LockHeld
<1>2. LockHeld'
  BY DEF TypeOK, Run, LockHeld, Idle
<1>3. Orphaned'
  BY DEF TypeOK, Entry, Run, Orphaned, Idle
<1>4. Budget'
  BY DEF TypeOK, Entry, Budget
<1>5. Uploaded'
  BY DEF Uploaded
<1>6. Remaining'
  BY DEF Remaining
<1>7. Marked'
  BY DEF TypeOK, Entry, Run, LockHeld
<1>8. DoneHasObject'
  BY DEF DoneHasObject
<1>9. ProgressAgrees'
  BY DEF TypeOK, Entry, ProgressAgrees
<1>10. CompletedIsDone'
  BY DEF TypeOK, CompletedIsDone
<1> QED
  BY <1>1, <1>2, <1>3, <1>4, <1>5, <1>6, <1>7, <1>8, <1>9, <1>10
-----------------------------------------------------------------------------
LEMMA ExportsNextPreserves == ExportsInv /\ [Next]_vars => ExportsInv'
<1> SUFFICES ASSUME ExportsInv, [Next]_vars PROVE ExportsInv'
  OBVIOUS
<1>1. ASSUME NEW j \in Job, CreateRow(j) PROVE ExportsInv'
  BY <1>1, CreateRowPreserves
<1>2. ASSUME NEW j \in Job, AddJob(j) PROVE ExportsInv'
  BY <1>2, AddJobPreserves
<1>3. ASSUME NEW s \in Slot, Take(s) PROVE ExportsInv'
  BY <1>3, TakePreserves
<1>4. ASSUME NEW s \in Slot, MarkRunning(s) PROVE ExportsInv'
  BY <1>4, MarkRunningPreserves
<1>5. ASSUME NEW s \in Slot, ProcessUser(s) PROVE ExportsInv'
  BY <1>5, ProcessUserPreserves
<1>6. ASSUME NEW s \in Slot, Upload(s) PROVE ExportsInv'
  BY <1>6, UploadPreserves
<1>7. ASSUME NEW s \in Slot, Finish(s) PROVE ExportsInv'
  BY <1>7, FinishPreserves
<1>8. ASSUME NEW s \in Slot, Complete(s) PROVE ExportsInv'
  BY <1>8, CompletePreserves
<1>9. ASSUME NEW s \in Slot, Throw(s) PROVE ExportsInv'
  BY <1>9, ThrowPreserves
<1>10. ASSUME NEW s \in Slot, Die(s) PROVE ExportsInv'
  BY <1>10, DiePreserves
<1>11. ASSUME NEW s \in Slot, LoseLock(s) PROVE ExportsInv'
  BY <1>11, LoseLockPreserves
<1>12. CASE UNCHANGED vars
  BY <1>12 DEF vars, ExportsInv, TypeOK, LockHeld, Orphaned, Budget, Uploaded, Marked, Remaining,
               Idle, At, DoneHasObject, ProgressAgrees, CompletedIsDone
<1> QED
  BY <1>1, <1>2, <1>3, <1>4, <1>5, <1>6, <1>7, <1>8, <1>9, <1>10, <1>11, <1>12 DEF Next, Step

LEMMA ExportsInvariant == Spec => []ExportsInv
<1> QED BY ExportsInitEstablishes, ExportsNextPreserves, PTL DEF Spec

\* Rows, queue and runs keep their types: in particular no job is tried or handed out more
\* often than the queue allows, however failures, deaths and expired locks follow each other.
THEOREM ExportsTypeCorrect == Spec => []TypeOK
<1>1. ExportsInv => TypeOK
  BY DEF ExportsInv
<1> QED BY <1>1, ExportsInvariant, PTL

\* A finished export can be downloaded, whichever of several runs of the job wrote its row
\* last (excel-export.ts uploads before it updates, and always under the same key).
THEOREM DoneCanBeDownloaded == Spec => []DoneHasObject
<1>1. ExportsInv => DoneHasObject
  BY DEF ExportsInv
<1> QED BY <1>1, ExportsInvariant, PTL

\* What a poller of GET /exports/:id sees: progress and status agree, and a job the queue
\* completed left a row that is done, for every number of users, retries and overlapping runs.
THEOREM PollerIsToldTheTruth == Spec => [](ProgressAgrees /\ CompletedIsDone)
<1>1. ExportsInv => ProgressAgrees /\ CompletedIsDone
  BY DEF ExportsInv
<1> QED BY <1>1, ExportsInvariant, PTL
-----------------------------------------------------------------------------
(* Days and sessions.                                                      *)

\* A day begins where the one before it ends.
LEMMA DayEnds ==
  ASSUME NEW d \in Nat
  PROVE  From(d) \in Nat /\ To(d) \in Nat /\ To(d) = From(d) + DayLength /\ From(d + 1) = To(d)
<1>1. DayLength \in Nat
  BY AggregateAssumption
<1> QED BY <1>1 DEF From, To

\* A day has a whole number of minutes.
LEMMA DayHasWholeMinutes ==
  \E q \in Nat : DayLength = Minute * q
<1>1. DayLength \in Nat /\ Minute \in Nat \ {0} /\ DayLength % Minute = 0
  BY AggregateAssumption
<1>2. DayLength = Minute * (DayLength \div Minute) + (DayLength % Minute)
  BY <1>1
<1>3. DayLength \div Minute \in Nat
  BY <1>1
<1> QED BY <1>1, <1>2, <1>3

\* Which days begin before a tick and which end after it.
LEMMA DayOrder ==
  ASSUME NEW t \in Nat, NEW d \in Nat
  PROVE  /\ DayOf(t) \in Nat
         /\ t < To(d) <=> DayOf(t) <= d
         /\ From(d) <= t <=> d <= DayOf(t)
<1> DEFINE L == DayLength
           q == t \div L
<1>1. L \in Nat \ {0}
  BY AggregateAssumption
<1>2. q \in Int /\ L * q <= t /\ t < L * q + L
  <2> HIDE DEF L
  <2> QED BY <1>1, Division
<1>3. From(d) = L * d /\ To(d) = L * d + L
  BY <1>1 DEF From, To
<1>4. DayOf(t) = q
  BY DEF DayOf
<1> HIDE DEF L, q
<1>5. L * q \in Int /\ L * d \in Int
  BY <1>1, <1>2
<1>6. q \in Nat
  <2>1. L * 0 < L * q + L
    BY <1>1, <1>2, <1>5
  <2>2. 0 <= q
    BY <1>1, <1>2, <2>1, QuotientOrder
  <2> QED BY <1>2, <2>2
<1>7. t < L * d + L => q <= d
  BY <1>1, <1>2, <1>5, QuotientOrder
<1>8. L * d <= t => d <= q
  BY <1>1, <1>2, <1>5, QuotientOrder
<1>9. q <= d => t < L * d + L
  <2>1. q <= d => L * q <= L * d
    BY <1>1, <1>2
  <2> QED BY <1>1, <1>2, <1>5, <2>1
<1>10. d <= q => L * d <= t
  <2>1. d <= q => L * d <= L * q
    BY <1>1, <1>2
  <2> QED BY <1>2, <1>5, <2>1
<1> QED BY <1>3, <1>4, <1>6, <1>7, <1>8, <1>9, <1>10

\* The day of a tick is the one it lies in.
LEMMA DayOfIs ==
  ASSUME NEW t \in Nat, NEW d \in Nat
  PROVE  DayOf(t) = d <=> From(d) <= t /\ t < To(d)
<1>1. /\ DayOf(t) \in Nat
      /\ t < To(d) <=> DayOf(t) <= d
      /\ From(d) <= t <=> d <= DayOf(t)
  BY DayOrder
<1> QED BY <1>1

\* The time of a session: it has started, and does not end before that.
Period(s) ==
  /\ s.start \in Time
  /\ s.end \in Time \cup {Never}
  /\ s.end # Never => s.start <= s.end

\* Where a session begins and ends within a day.
CutStart(d, s) == IF s.start < From(d) THEN From(d) ELSE s.start

CutEnd(d, s) == IF s.end # Never /\ s.end < To(d) THEN s.end ELSE To(d)

\* The part of a session that lies in a day.
LEMMA PartOfASession ==
  ASSUME NEW d \in Nat, NEW s, Period(s)
  PROVE  /\ CutStart(d, s) \in Nat /\ CutEnd(d, s) \in Nat
         /\ SessionMinutes(d, s) = Greater(0, Round(CutEnd(d, s) - CutStart(d, s), Minute))
         /\ s \in Selected(d, {s}) =>
              CutStart(d, s) <= CutEnd(d, s) /\ OpenTicks(d, s) = CutEnd(d, s) - CutStart(d, s)
         /\ s \notin Selected(d, {s}) => OpenTicks(d, s) = 0
<1> DEFINE a == CutStart(d, s)
           b == CutEnd(d, s)
<1>1. From(d) \in Nat /\ To(d) \in Nat /\ DayLength \in Nat /\ To(d) = From(d) + DayLength
  BY DayEnds, AggregateAssumption
<1>2. s.start \in Nat /\ s.end \in Nat \cup {Never} /\ (s.end # Never => s.start <= s.end)
  BY AggregateAssumption DEF Time, Period
<1>3. a \in Nat /\ b \in Nat
  BY <1>1, <1>2 DEF CutStart, CutEnd
<1>4. SessionMinutes(d, s) = Greater(0, Round(b - a, Minute))
  BY DEF SessionMinutes, CutStart, CutEnd
<1>5. {t \in From(d)..(To(d) - 1) : s.start <= t /\ (s.end = Never \/ t < s.end)} = a..(b - 1)
  BY <1>1, <1>2 DEF CutStart, CutEnd
<1>6. OpenTicks(d, s) = IF a > b - 1 THEN 0 ELSE b - a
  <2> HIDE DEF a, b
  <2>1. OpenTicks(d, s) = Cardinality(a..(b - 1))
    BY <1>5 DEF OpenTicks
  <2> QED BY <1>3, <2>1, FS_Interval
<1>7. s \in Selected(d, {s}) <=> s.start < To(d) /\ (s.end = Never \/ s.end >= From(d))
  BY DEF Selected
<1>8. s \in Selected(d, {s}) => a <= b
  BY <1>1, <1>2, <1>7 DEF CutStart, CutEnd
<1>9. s \notin Selected(d, {s}) => a > b - 1
  BY <1>1, <1>2, <1>7 DEF CutStart, CutEnd, Never
<1> HIDE DEF a, b
<1>10. s \in Selected(d, {s}) => OpenTicks(d, s) = b - a
  BY <1>3, <1>6, <1>8
<1> QED BY <1>3, <1>4, <1>6, <1>8, <1>9, <1>10 DEF a, b

\* In a day it is selected for, a session has the minutes of its part, rounded.
LEMMA MinutesWhenSelected ==
  ASSUME NEW d \in Nat, NEW s, Period(s), s \in Selected(d, {s})
  PROVE  SessionMinutes(d, s) = Round(CutEnd(d, s) - CutStart(d, s), Minute)
<1> DEFINE n == CutEnd(d, s) - CutStart(d, s)
           r == Round(n, Minute)
<1>1. n \in Nat /\ SessionMinutes(d, s) = Greater(0, r)
  <2>1. /\ CutStart(d, s) \in Nat /\ CutEnd(d, s) \in Nat /\ CutStart(d, s) <= CutEnd(d, s)
        /\ SessionMinutes(d, s) = Greater(0, r)
    BY PartOfASession
  <2> HIDE DEF r
  <2> QED BY <2>1
<1> HIDE DEF n
<1>2. r \in Nat
  BY <1>1, RoundNat, AggregateAssumption
<1> HIDE DEF r
<1>3. SessionMinutes(d, s) = r
  BY <1>1, <1>2 DEF Greater
<1> QED BY <1>3 DEF r, n

\* Its minutes are those of its ticks, half a minute aside.
LEMMA MinutesOfASession ==
  ASSUME NEW d \in Nat, NEW s, Period(s)
  PROVE  /\ SessionMinutes(d, s) \in Nat /\ OpenTicks(d, s) \in Nat
         /\ s \in Selected(d, {s}) =>
              /\ 2 * (Minute * SessionMinutes(d, s)) <= 2 * OpenTicks(d, s) + Minute
              /\ 2 * OpenTicks(d, s) <= 2 * (Minute * SessionMinutes(d, s)) + Minute
<1> DEFINE a == CutStart(d, s)
           b == CutEnd(d, s)
           r == Round(b - a, Minute)
<1>1. a \in Nat /\ b \in Nat /\ SessionMinutes(d, s) = Greater(0, r)
  BY PartOfASession
<1>2. Minute \in Nat \ {0}
  BY AggregateAssumption
<1>3. /\ r \in Int
      /\ 2 * (Minute * r) <= 2 * (b - a) + Minute
      /\ 2 * (b - a) < 2 * (Minute * r) + Minute
  <2> HIDE DEF a, b
  <2> QED BY <1>1, <1>2, RoundBounds
<1>4. SessionMinutes(d, s) \in Nat
  <2> HIDE DEF r
  <2> QED BY <1>1, <1>3 DEF Greater
<1>5. OpenTicks(d, s) \in Nat
  <2>1. \/ a <= b /\ OpenTicks(d, s) = b - a
        \/ OpenTicks(d, s) = 0
    BY PartOfASession
  <2> HIDE DEF a, b
  <2> QED BY <1>1, <2>1
<1>6. ASSUME s \in Selected(d, {s})
      PROVE  SessionMinutes(d, s) = r /\ OpenTicks(d, s) = b - a
  <2>1. a <= b /\ OpenTicks(d, s) = b - a
    BY <1>6, PartOfASession
  <2>2. SessionMinutes(d, s) = r
    BY <1>6, MinutesWhenSelected
  <2> QED BY <2>1, <2>2
<1> HIDE DEF a, b, r
<1>7. Minute * r \in Int
  BY <1>2, <1>3
<1> QED BY <1>1, <1>2, <1>3, <1>4, <1>5, <1>6, <1>7
-----------------------------------------------------------------------------
(* The sums of a summary.                                                  *)

\* The minutes of the sessions of a day, whatever the number of sessions.
LEMMA SumOfMinutes ==
  ASSUME NEW d \in Nat, NEW S, IsFiniteSet(S), \A s \in S : Period(s)
  PROVE  LET w == SumFunction([s \in Selected(d, S) |-> SessionMinutes(d, s)])
             o == SumFunction([s \in S |-> OpenTicks(d, s)])
         IN /\ w \in Nat /\ o \in Nat
            /\ 2 * (Minute * w) <= 2 * o + Minute * Cardinality(S)
            /\ 2 * o <= 2 * (Minute * w) + Minute * Cardinality(S)
<1> DEFINE f == [s \in S |-> SessionMinutes(d, s)]
           g == [s \in S |-> OpenTicks(d, s)]
           w(T) == SumFunctionOnSet(f, Selected(d, T))
           o(T) == SumFunctionOnSet(g, T)
           Near(T) == /\ 2 * (Minute * w(T)) <= 2 * o(T) + Minute * Cardinality(T)
                      /\ 2 * o(T) <= 2 * (Minute * w(T)) + Minute * Cardinality(T)
           Bad == {T \in SUBSET S : ~ Near(T)}
<1>1. Minute \in Nat \ {0}
  BY AggregateAssumption
<1>2. \A s \in S : f[s] \in Nat /\ g[s] \in Nat /\ f[s] \in Int /\ g[s] \in Int
  <2> SUFFICES ASSUME NEW s \in S
               PROVE  SessionMinutes(d, s) \in Nat /\ OpenTicks(d, s) \in Nat
    OBVIOUS
  <2>1. Period(s)
    OBVIOUS
  <2> QED BY <2>1, MinutesOfASession
<1> HIDE DEF f, g
<1>3. \A T \in SUBSET S : /\ IsFiniteSet(T) /\ IsFiniteSet(Selected(d, T))
                          /\ Selected(d, T) \in SUBSET T /\ Selected(d, T) \in SUBSET S
  BY FS_Subset DEF Selected
<1>4. \A T \in SUBSET S : w(T) \in Nat /\ o(T) \in Nat /\ Cardinality(T) \in Nat
  BY <1>2, <1>3, SumNat, FS_CardinalityType
<1>5. Bad = {}
  <2> SUFFICES ASSUME Bad # {} PROVE FALSE
    OBVIOUS
  <2>1. PICK T \in Bad : \A U \in SUBSET T : U # T => U \notin Bad
    <3>1. Bad \in SUBSET SUBSET S
      OBVIOUS
    <3> HIDE DEF Bad
    <3> QED BY <3>1, MinimalSubset
  <2>2. T \in SUBSET S /\ ~ Near(T)
    OBVIOUS
  <2>3. T # {}
    <3> SUFFICES ASSUME T = {} PROVE FALSE
      OBVIOUS
    <3>1. Selected(d, T) = {}
      BY DEF Selected
    <3>2. w(T) = 0 /\ o(T) = 0 /\ Cardinality(T) = 0
      BY <1>2, <1>3, <2>2, <3>1, SumPick, FS_EmptySet
    <3> HIDE DEF w, o
    <3> QED BY <1>1, <2>2, <3>2
  <2>4. PICK s \in T : TRUE
    BY <2>3
  <2> DEFINE R == T \ {s}
  <2>5. s \in S /\ R \in SUBSET S /\ R \in SUBSET T /\ R # T
    BY <2>2
  <2>6. Near(R)
    <3>1. R \notin Bad
      BY <2>1, <2>5
    <3> HIDE DEF R, Near
    <3> QED BY <2>5, <3>1
  <2>7. o(T) = g[s] + o(R)
    <3>1. IsFiniteSet(T) /\ \A x \in T : g[x] \in Int
      BY <1>2, <1>3, <2>2
    <3> QED BY <3>1, SumRemove
  <2>8. Cardinality(T) = Cardinality(R) + 1
    <3>1. Cardinality(R) = Cardinality(T) - 1
      BY <1>3, <2>2, FS_RemoveElement
    <3> QED BY <3>1, <1>4, <2>2
  <2>9. s \in Selected(d, {s}) <=> s \in Selected(d, T)
    BY DEF Selected
  <2>10. f[s] = SessionMinutes(d, s) /\ g[s] = OpenTicks(d, s)
    BY <2>5 DEF f, g
  <2>11. Period(s)
    BY <2>5
  <2> DEFINE c == Cardinality(R)
  <2>12. /\ w(R) \in Nat /\ o(R) \in Nat /\ c \in Nat /\ f[s] \in Nat /\ g[s] \in Nat
         /\ Minute * w(R) \in Nat /\ Minute * c \in Nat /\ Minute * f[s] \in Nat
         /\ Minute * (c + 1) = Minute * c + Minute
    <3>1. w(R) \in Nat /\ o(R) \in Nat /\ c \in Nat /\ f[s] \in Nat /\ g[s] \in Nat
      BY <1>2, <1>4, <2>5
    <3> HIDE DEF w, o, c
    <3> QED BY <1>1, <3>1
  <2>13. Near(R) <=> /\ 2 * (Minute * w(R)) <= 2 * o(R) + Minute * c
                     /\ 2 * o(R) <= 2 * (Minute * w(R)) + Minute * c
    OBVIOUS
  <2>14. CASE s \in Selected(d, T)
    <3>1. w(T) = f[s] + w(R)
      <4>1. Selected(d, R) = Selected(d, T) \ {s}
        BY DEF Selected
      <4>2. IsFiniteSet(Selected(d, T)) /\ \A x \in Selected(d, T) : f[x] \in Int
        BY <1>2, <1>3, <2>2
      <4>3. SumFunctionOnSet(f, Selected(d, T)) =
              f[s] + SumFunctionOnSet(f, Selected(d, T) \ {s})
        BY <2>14, <4>2, SumRemove
      <4> QED BY <4>1, <4>3
    <3>2. /\ 2 * (Minute * f[s]) <= 2 * g[s] + Minute
          /\ 2 * g[s] <= 2 * (Minute * f[s]) + Minute
      BY <2>9, <2>10, <2>11, <2>14, MinutesOfASession
    <3>3. Minute * w(T) = Minute * f[s] + Minute * w(R)
      <4> HIDE DEF w
      <4> QED BY <1>1, <2>12, <3>1
    <3>4. Near(T)
      <4> HIDE DEF w, o, R, c
      <4>1. /\ 2 * (Minute * w(T)) <= 2 * o(T) + Minute * (c + 1)
            /\ 2 * o(T) <= 2 * (Minute * w(T)) + Minute * (c + 1)
        BY <1>1, <2>6, <2>7, <2>12, <2>13, <3>2, <3>3
      <4> QED BY <2>8, <4>1 DEF c
    <3> QED BY <2>2, <3>4
  <2>15. CASE s \notin Selected(d, T)
    <3>1. w(T) = w(R)
      <4>1. Selected(d, R) = Selected(d, T)
        BY <2>15 DEF Selected
      <4> QED BY <4>1
    <3>2. g[s] = 0
      BY <2>9, <2>10, <2>11, <2>15, PartOfASession
    <3>3. Near(T)
      <4> HIDE DEF w, o, R, c
      <4>1. /\ 2 * (Minute * w(T)) <= 2 * o(T) + Minute * (c + 1)
            /\ 2 * o(T) <= 2 * (Minute * w(T)) + Minute * (c + 1)
        BY <1>1, <2>6, <2>7, <2>12, <2>13, <3>1, <3>2
      <4> QED BY <2>8, <4>1 DEF c
    <3> QED BY <2>2, <3>3
  <2> QED BY <2>14, <2>15
<1>6. Near(S) /\ w(S) \in Nat /\ o(S) \in Nat
  <2> HIDE DEF w, o
  <2> QED BY <1>4, <1>5
<1>7. SumFunction([s \in Selected(d, S) |-> SessionMinutes(d, s)]) = w(S)
  <2> DEFINE h == [s \in Selected(d, S) |-> SessionMinutes(d, s)]
  <2>1. DOMAIN h = Selected(d, S)
    OBVIOUS
  <2>2. \A s \in Selected(d, S) : f[s] \in Int /\ f[s] = h[s]
    BY <1>2, <1>3 DEF f
  <2> HIDE DEF h
  <2>3. SumFunctionOnSet(f, Selected(d, S)) = SumFunctionOnSet(h, Selected(d, S))
    BY <1>3, <2>2, SumAgree
  <2>4. SumFunction(h) = w(S)
    BY <2>1, <2>3 DEF SumFunction
  <2> QED BY <2>4 DEF h
<1>8. SumFunction([s \in S |-> OpenTicks(d, s)]) = o(S)
  BY DEF SumFunction, g
<1> HIDE DEF w, o
<1> QED BY <1>6, <1>7, <1>8
-----------------------------------------------------------------------------
(* What a summary says of the events it is computed from.                  *)

\* Sessions and events as the worker reads them: an event lies in a session it has read.
Consistent(S, E) ==
  /\ IsFiniteSet(S) /\ \A s \in S : Period(s)
  /\ IsFiniteSet(E) /\ E \subseteq Event
  /\ \A e \in E : \E s \in S : /\ s.sid = e.sid /\ s.start <= e.at
                               /\ s.end = Never \/ e.at <= s.end

Today(d, S, E) == {e \in E : InDay(d, e) /\ \E s \in Selected(d, S) : s.sid = e.sid}

Focused(T) == {e \in T : e.focus}

FocusOn(d, E) == {e \in E : e.focus /\ DayOf(e.at) = d}

MinutesOn(d, S) == SumFunction([s \in Selected(d, S) |-> SessionMinutes(d, s)])

Hits(u, T, c, rules) == {e \in T : e.focus /\ Categorize(u, e.label, rules) = c}

\* No event of the day is missed for want of a selected session.
LEMMA FocusOfTheDay ==
  ASSUME NEW d \in Nat, NEW S, NEW E, Consistent(S, E)
  PROVE  Focused(Today(d, S, E)) = FocusOn(d, E)
<1>1. ASSUME NEW e \in E
      PROVE  e \in Today(d, S, E) <=> DayOf(e.at) = d
  <2>1. PICK s \in S : s.sid = e.sid /\ s.start <= e.at /\ (s.end = Never \/ e.at <= s.end)
    BY DEF Consistent
  <2>2. e.at \in Nat /\ s.start \in Nat /\ s.end \in Nat \cup {Never}
    BY AggregateAssumption DEF Consistent, Event, Period, Time
  <2>3. From(d) \in Nat /\ To(d) \in Nat
    BY DayEnds
  <2>4. DayOf(e.at) = d <=> From(d) <= e.at /\ e.at < To(d)
    BY <2>2, DayOfIs
  <2>5. InDay(d, e) => s \in Selected(d, S)
    BY <2>1, <2>2, <2>3 DEF InDay, Selected
  <2> QED BY <2>1, <2>2, <2>3, <2>4, <2>5 DEF InDay, Today
<1>2. Today(d, S, E) \subseteq E
  BY DEF Today
<1> QED BY <1>1, <1>2 DEF Focused, FocusOn

\* The columns of a summary, with the parts of Summarise named.
LEMMA SummaryFields ==
  ASSUME NEW u, NEW d, NEW S, NEW E, NEW rules
  PROVE  LET n == Summarise(u, d, S, E, rules)
             T == Today(d, S, E)
             F == Cardinality(Focused(T))
             p == Cardinality(Hits(u, T, "productive", rules))
             q == Cardinality(Hits(u, T, "distracting", rules))
         IN n = [worked |-> MinutesOn(d, S),
                 idle |-> SumFunction([e \in {e \in T : ~e.focus} |-> Round(e.idle, Minute)]),
                 productive |-> p, neutral |-> F - p - q, distracting |-> q,
                 score |-> IF F = 0 THEN 0 ELSE Round(p * 100, F)]
BY DEF Summarise, Today, Focused, Hits, MinutesOn

\* The share of p in F, as a percentage.
LEMMA ScoreBounds ==
  ASSUME NEW p \in Nat, NEW F \in Nat, p <= F
  PROVE  LET r == IF F = 0 THEN 0 ELSE Round(p * 100, F)
         IN r \in 0..100 /\ 2 * (r * F - 100 * p) \in -F..F
<1>1. CASE F = 0
  BY <1>1
<1>2. CASE F # 0
  <2> DEFINE r == Round(p * 100, F)
  <2>1. F \in Nat \ {0} /\ p * 100 \in Nat
    BY <1>2
  <2>2. r \in Nat /\ 2 * (F * r) <= 2 * (p * 100) + F /\ 2 * (p * 100) < 2 * (F * r) + F
    BY <2>1, RoundBounds, RoundNat
  <2> HIDE DEF r
  <2>3. F * r \in Nat /\ r * F = F * r
    BY <2>2
  <2>4. F * r < F * 100 + F
    BY <2>1, <2>2, <2>3
  <2>5. r <= 100
    BY <2>1, <2>2, <2>4, QuotientOrder
  <2>6. r \in 0..100 /\ 2 * (r * F - 100 * p) \in -F..F
    BY <2>2, <2>3, <2>5
  <2> QED BY <1>2, <2>6 DEF r
<1> QED BY <1>1, <1>2

\* The counts of a set of events: the categories do not overlap.
LEMMA HitsAddUp ==
  ASSUME NEW u, NEW rules, NEW T, IsFiniteSet(T)
  PROVE  LET F == Cardinality(Focused(T))
             p == Cardinality(Hits(u, T, "productive", rules))
             q == Cardinality(Hits(u, T, "distracting", rules))
         IN F \in Nat /\ p \in Nat /\ q \in Nat /\ p + q <= F
<1> DEFINE P == Hits(u, T, "productive", rules)
           Q == Hits(u, T, "distracting", rules)
           A == Focused(T)
<1>1. A \in SUBSET T /\ P \in SUBSET A /\ Q \in SUBSET A /\ P \cap Q = {} /\ P \cup Q \in SUBSET A
  BY DEF Focused, Hits
<1> HIDE DEF A, P, Q
<1>2. IsFiniteSet(A)
  BY <1>1, FS_Subset
<1>3. IsFiniteSet(P) /\ IsFiniteSet(Q) /\ Cardinality(P \cup Q) <= Cardinality(A)
  BY <1>1, <1>2, FS_Subset
<1>4. Cardinality(P) \in Nat /\ Cardinality(Q) \in Nat /\ Cardinality(A) \in Nat
  BY <1>2, <1>3, FS_CardinalityType
<1>5. Cardinality(P \cup Q) = Cardinality(P) + Cardinality(Q)
  <2>1. Cardinality(P \cup Q) = Cardinality(P) + Cardinality(Q) - Cardinality(P \cap Q)
    BY <1>3, FS_Union
  <2>2. Cardinality(P \cap Q) = 0
    BY <1>1, FS_EmptySet
  <2> QED BY <1>4, <2>1, <2>2
<1>6. Cardinality(P) + Cardinality(Q) <= Cardinality(A)
  BY <1>3, <1>4, <1>5
<1> QED BY <1>4, <1>6 DEF A, P, Q

\* A summary is of the right type, counts every focus event of the day once, and gives the
\* productive share of them, whatever the rules and the order in which they were read.
LEMMA SummaryIsRight ==
  ASSUME NEW u, NEW d \in Nat, NEW S, NEW E, Consistent(S, E), NEW rules
  PROVE  LET n == Summarise(u, d, S, E, rules)
             total == n.productive + n.neutral + n.distracting
         IN /\ n \in Count
            /\ n.worked = MinutesOn(d, S)
            /\ total = Cardinality(FocusOn(d, E))
            /\ 2 * (n.score * total - 100 * n.productive) \in -total..total
<1> DEFINE n == Summarise(u, d, S, E, rules)
           T == Today(d, S, E)
           away == {e \in T : ~e.focus}
           idle == [e \in away |-> Round(e.idle, Minute)]
           w == MinutesOn(d, S)
           i == SumFunction(idle)
           F == Cardinality(Focused(T))
           p == Cardinality(Hits(u, T, "productive", rules))
           q == Cardinality(Hits(u, T, "distracting", rules))
           r == IF F = 0 THEN 0 ELSE Round(p * 100, F)
<1>1. n = [worked |-> w, idle |-> i, productive |-> p, neutral |-> F - p - q,
           distracting |-> q, score |-> r]
  BY SummaryFields
<1>2. IsFiniteSet(T) /\ IsFiniteSet(away) /\ away \subseteq Event
  <2>1. T \in SUBSET E /\ away \in SUBSET T
    BY DEF Today
  <2> HIDE DEF T, away
  <2>2. IsFiniteSet(T)
    BY <2>1, FS_Subset DEF Consistent
  <2> QED BY <2>1, <2>2, FS_Subset DEF Consistent
<1>3. w \in Nat
  <2>1. IsFiniteSet(S) /\ \A s \in S : Period(s)
    BY DEF Consistent
  <2> QED BY <2>1, SumOfMinutes DEF MinutesOn
<1>4. i \in Nat
  <2> HIDE DEF away
  <2>1. \A e \in away : idle[e] \in Nat
    <3> SUFFICES ASSUME NEW e \in away PROVE Round(e.idle, Minute) \in Nat
      OBVIOUS
    <3>1. e.idle \in Nat /\ Minute \in Nat \ {0}
      BY <1>2, AggregateAssumption DEF Event, Time
    <3> QED BY <3>1, RoundNat
  <2>2. DOMAIN idle = away
    OBVIOUS
  <2> HIDE DEF idle
  <2> QED BY <1>2, <2>1, <2>2, SumNat DEF SumFunction
<1>5. F \in Nat /\ p \in Nat /\ q \in Nat /\ p + q <= F
  BY <1>2, HitsAddUp
<1>6. F = Cardinality(FocusOn(d, E))
  BY FocusOfTheDay
<1> HIDE DEF T, w, i, F, p, q, away, idle
<1>7. r \in 0..100 /\ 2 * (r * F - 100 * p) \in -F..F
  <2>1. p <= F
    BY <1>5
  <2> QED BY <1>5, <2>1, ScoreBounds
<1> HIDE DEF n, r
<1>8. F - p - q \in Nat /\ p + (F - p - q) + q = F
  BY <1>5
<1>9. n \in Count
  BY <1>1, <1>3, <1>4, <1>5, <1>7, <1>8 DEF Count
<1>10. n.worked = w /\ n.productive + n.neutral + n.distracting = F
       /\ n.score = r /\ n.productive = p
  BY <1>1, <1>8
<1>11. 2 * (n.score * (n.productive + n.neutral + n.distracting) - 100 * n.productive)
         \in -(n.productive + n.neutral + n.distracting)
               ..(n.productive + n.neutral + n.distracting)
  BY <1>7, <1>10
<1>12. /\ n.productive + n.neutral + n.distracting =
            Cardinality(FocusOn(d, E))
       /\ n.worked = MinutesOn(d, S)
  BY <1>6, <1>10 DEF w
<1> QED BY <1>9, <1>11, <1>12 DEF n
-----------------------------------------------------------------------------
(* A session across several days.                                          *)

\* The minutes of the days of a closed session add up to those of the whole, one minute
\* aside, whatever the number of midnights it crosses.
LEMMA DaysOfASession ==
  ASSUME NEW s, Period(s), s.end # Never
  PROVE  SumFunction([d \in {d \in Day : s \in Selected(d, {s})} |-> SessionMinutes(d, s)])
           - Round(s.end - s.start, Minute) \in {-1, 0, 1}
<1> DEFINE D == {d \in Day : s \in Selected(d, {s})}
           f == [d \in D |-> SessionMinutes(d, s)]
           a == DayOf(s.start)
           b == DayOf(s.end)
           top == IF b <= Days THEN b ELSE Days
           P(n) == SumFunctionOnSet(f, a..n)
           x == s.start
           y == s.end
           whole == Round(y - x, Minute)
<1>1. /\ Minute \in Nat \ {0} /\ Days \in Nat /\ DayLength \in Nat
      /\ x \in Nat /\ y \in Nat /\ x <= y /\ y <= To(Days)
  BY AggregateAssumption DEF Period, Time, To, Never
<1>2. a \in Nat /\ b \in Nat
  BY <1>1, DayOrder
<1>3. \A d \in Day : s \in Selected(d, {s}) <=> a <= d /\ d <= b
  <2> SUFFICES ASSUME NEW d \in Day
               PROVE  s \in Selected(d, {s}) <=> a <= d /\ d <= b
    OBVIOUS
  <2>1. d \in Nat
    BY <1>1 DEF Day
  <2>2. s \in Selected(d, {s}) <=> x < To(d) /\ y >= From(d)
    BY DEF Selected
  <2>3. (x < To(d) <=> a <= d) /\ (From(d) <= y <=> d <= b)
    BY <1>1, <2>1, DayOrder
  <2>4. From(d) \in Nat
    BY <2>1, DayEnds
  <2> HIDE DEF a, b, x, y
  <2> QED BY <1>1, <2>2, <2>3, <2>4
<1>4. a <= b
  <2>1. x < To(b)
    <3>1. y < To(b) /\ To(b) \in Nat
      <4>1. y < To(b) <=> DayOf(y) <= b
        BY <1>1, <1>2, DayOrder
      <4>2. b = DayOf(y)
        OBVIOUS
      <4> HIDE DEF b
      <4> QED BY <1>2, <4>1, <4>2, DayEnds
    <3> HIDE DEF x, y, b
    <3> QED BY <1>1, <3>1
  <2> QED BY <1>1, <1>2, <2>1, DayOrder
<1> HIDE DEF a, b
<1>5. D = a..top
  BY <1>1, <1>2, <1>3 DEF Day
<1>6. b <= Days \/ (b = Days + 1 /\ y = To(Days))
  <2>1. b <= Days + 1
    <3>1. y < To(Days + 1)
      <4>1. To(Days) \in Nat /\ To(Days + 1) = To(Days) + DayLength /\ DayLength > 0
        BY <1>1, AggregateAssumption, DayEnds
      <4> HIDE DEF y
      <4> QED BY <1>1, <4>1
    <3> QED BY <1>1, <3>1, DayOrder DEF b
  <2>2. b = Days + 1 => y >= To(Days)
    <3>1. b = Days + 1 => From(Days + 1) <= y
      BY <1>1, DayOrder DEF b
    <3>2. From(Days + 1) = To(Days) /\ To(Days) \in Nat
      BY <1>1, DayEnds
    <3> HIDE DEF y
    <3> QED BY <1>1, <3>1, <3>2
  <2>3. To(Days) \in Nat
    BY <1>1, DayEnds
  <2> HIDE DEF y
  <2> QED BY <1>1, <1>2, <2>1, <2>2, <2>3
\* The minutes of each day.
<1>7. \A d \in a..top :
        /\ d \in Nat /\ d <= b /\ f[d] \in Nat /\ f[d] \in Int
        /\ f[d] = Round((IF d = b THEN y ELSE To(d)) - (IF d = a THEN x ELSE From(d)), Minute)
  <2> SUFFICES ASSUME NEW d \in a..top
               PROVE  /\ d \in Nat /\ d <= b /\ f[d] \in Nat /\ f[d] \in Int
                      /\ f[d] = Round((IF d = b THEN y ELSE To(d)) -
                                      (IF d = a THEN x ELSE From(d)), Minute)
    OBVIOUS
  <2>1. d \in Nat /\ a <= d /\ d <= b /\ d \in Day
    BY <1>1, <1>2 DEF Day
  <2>2. s \in Selected(d, {s}) /\ f[d] = SessionMinutes(d, s)
    BY <1>3, <1>5, <2>1
  <2>3. CutStart(d, s) = IF d = a THEN x ELSE From(d)
    <3>1. x < From(d) <=> d > a
      <4>1. (From(d) <= x <=> d <= a) /\ From(d) \in Nat
        BY <1>1, <2>1, DayOrder, DayEnds DEF a
      <4> HIDE DEF x
      <4> QED BY <1>1, <1>2, <2>1, <4>1
    <3> QED BY <1>2, <2>1, <3>1 DEF CutStart
  <2>4. CutEnd(d, s) = IF d = b THEN y ELSE To(d)
    <3>1. y < To(d) <=> b <= d
      BY <1>1, <2>1, DayOrder DEF b
    <3> QED BY <1>2, <2>1, <3>1 DEF CutEnd
  <2>5. f[d] \in Nat
    BY <2>1, <2>2, MinutesOfASession
  <2>6. f[d] = Round(CutEnd(d, s) - CutStart(d, s), Minute)
    BY <2>1, <2>2, MinutesWhenSelected
  <2> HIDE DEF f, x, y
  <2> QED BY <2>1, <2>3, <2>4, <2>5, <2>6
<1>8. SumFunction(f) = P(top)
  BY <1>5 DEF SumFunction
<1> HIDE DEF D, f
<1>9. P(a - 1) = 0
  <2>1. a..(a - 1) = {}
    BY <1>2
  <2> QED BY <2>1, SumPick, FS_EmptySet
<1>10. \A n \in a..top : P(n) = f[n] + P(n - 1) /\ P(n) \in Int
  <2> SUFFICES ASSUME NEW n \in a..top
               PROVE  P(n) = f[n] + P(n - 1) /\ P(n) \in Int
    OBVIOUS
  <2>1. IsFiniteSet(a..n) /\ n \in a..n /\ (a..n) \ {n} = a..(n - 1)
    <3>1. a \in Int /\ n \in Int /\ a <= n
      BY <1>1, <1>2
    <3> HIDE DEF top
    <3>2. n \in a..n /\ (a..n) \ {n} = a..(n - 1)
      BY <3>1
    <3> QED BY <3>1, <3>2, FS_Interval
  <2>2. \A m \in a..n : f[m] \in Int
    <3>1. a..n \subseteq a..top
      BY <1>1, <1>2
    <3> HIDE DEF top
    <3> QED BY <1>7, <3>1
  <2>3. P(n) = f[n] + SumFunctionOnSet(f, (a..n) \ {n})
    <3> HIDE DEF top
    <3> QED BY <2>1, <2>2, SumRemove
  <2>4. P(n) \in Int
    <3> HIDE DEF top
    <3> QED BY <2>1, <2>2, SumPick
  <2> QED BY <2>1, <2>3, <2>4
\* Up to a day that the session outlasts, the sum is that of the time so far.
<1>11. \A n \in a..top : n < b => P(n) = Round(To(n) - x, Minute)
  <2> DEFINE Bad == {n \in a..top : n < b /\ P(n) # Round(To(n) - x, Minute)}
  <2> SUFFICES ASSUME Bad # {} PROVE FALSE
    OBVIOUS
  <2>1. PICK n \in Bad : \A m \in Bad : n <= m
    <3>1. Bad \in SUBSET Nat
      BY <1>1, <1>2
    <3> HIDE DEF Bad
    <3> QED BY <3>1, NatMin
  <2>2. n \in a..top /\ n < b /\ P(n) # Round(To(n) - x, Minute)
    OBVIOUS
  <2>3. n \in Nat /\ n # b /\ P(n) = f[n] + P(n - 1)
    <3> HIDE DEF top, P, Bad
    <3> QED BY <1>2, <1>7, <1>10, <2>2
  <2>4. CASE n = a
    <3>1. f[n] = Round(To(n) - x, Minute)
      <4> HIDE DEF x, top, Bad
      <4> QED BY <1>7, <2>2, <2>3, <2>4
    <3>2. P(n) = f[n]
      <4>1. f[n] \in Int
        BY <1>7, <2>2
      <4> HIDE DEF P, Bad
      <4> QED BY <1>9, <2>3, <2>4, <4>1
    <3> QED BY <2>2, <3>1, <3>2
  <2>5. CASE n # a
    <3>1. n - 1 \in a..top /\ n - 1 < b /\ n - 1 \notin Bad
      <4>1. n - 1 \in a..top /\ n - 1 < b /\ ~ (n <= n - 1)
        BY <1>1, <1>2, <2>2, <2>5
      <4> HIDE DEF Bad
      <4> QED BY <2>1, <4>1
    <3>2. P(n - 1) = Round(To(n - 1) - x, Minute)
      BY <3>1
    <3>3. PICK q \in Nat : DayLength = Minute * q
      BY DayHasWholeMinutes
    <3>4. /\ n - 1 \in Nat /\ (n - 1) + 1 = n
          /\ From(n) \in Nat /\ To(n) = From(n) + DayLength /\ To(n - 1) = From(n)
      <4>1. n - 1 \in Nat /\ (n - 1) + 1 = n
        BY <1>2, <2>2, <2>3, <2>5
      <4>2. From((n - 1) + 1) = To(n - 1)
        BY <4>1, DayEnds
      <4> QED BY <2>3, <4>1, <4>2, DayEnds
    <3>5. f[n] = q
      <4>1. f[n] = Round(To(n) - From(n), Minute)
        <5> HIDE DEF top, Bad
        <5> QED BY <1>7, <2>2, <2>3, <2>5
      <4>2. To(n) - From(n) = Minute * q
        BY <1>1, <3>3, <3>4
      <4> QED BY <1>1, <4>1, <4>2, RoundWhole
    <3>6. Round(To(n) - x, Minute) = Round(To(n - 1) - x, Minute) + q
      <4>1. To(n) - x = (To(n - 1) - x) + Minute * q
        <5> HIDE DEF x
        <5> QED BY <1>1, <3>3, <3>4
      <4>2. To(n - 1) - x \in Int
        <5> HIDE DEF x
        <5> QED BY <1>1, <3>4
      <4> HIDE DEF x
      <4> QED BY <1>1, <4>1, <4>2, RoundShift
    <3>7. P(n - 1) \in Int
      <4> HIDE DEF P, top, Bad
      <4> QED BY <1>10, <3>1
    <3>8. P(n) = Round(To(n) - x, Minute)
      <4> HIDE DEF P, x, Bad
      <4> QED BY <2>3, <3>2, <3>5, <3>6, <3>7
    <3> QED BY <2>2, <3>8
  <2> QED BY <2>4, <2>5
<1>12. P(top) - whole \in {-1, 0, 1}
  <2>1. CASE b <= Days /\ a = b
    <3>1. top \in a..top /\ top = a /\ top = b
      BY <1>2, <2>1
    <3> HIDE DEF top
    <3>2. P(top) = f[top] /\ f[top] = whole /\ f[top] \in Int
      <4>1. f[top] = whole /\ f[top] \in Int
        BY <1>7, <3>1
      <4>2. P(top) = f[top] + P(a - 1)
        BY <1>10, <3>1
      <4> HIDE DEF P, whole
      <4> QED BY <1>9, <4>1, <4>2
    <3> HIDE DEF P, whole
    <3> QED BY <3>2
  <2>2. CASE b <= Days /\ a # b
    <3>1. top = b /\ b \in a..top /\ b - 1 \in a..top /\ b - 1 < b /\ b - 1 \in Nat
      BY <1>2, <1>4, <2>2
    <3> HIDE DEF top
    <3>2. P(b) = f[b] + P(b - 1)
      BY <1>10, <3>1
    <3>3. P(b - 1) = Round(To(b - 1) - x, Minute)
      BY <1>11, <3>1
    <3>4. f[b] = Round(y - From(b), Minute)
      BY <1>7, <2>2, <3>1
    <3>5. To(b - 1) = From(b) /\ From(b) \in Nat
      <4>1. From((b - 1) + 1) = To(b - 1) /\ (b - 1) + 1 = b
        BY <1>2, <3>1, DayEnds
      <4> QED BY <1>2, <4>1, DayEnds
    <3> HIDE DEF x, y
    <3>6. From(b) - x \in Int /\ y - From(b) \in Int
          /\ (From(b) - x) + (y - From(b)) = y - x
      BY <1>1, <3>5
    <3>7. Round(From(b) - x, Minute) + Round(y - From(b), Minute) - whole \in {-1, 0, 1}
      BY <1>1, <3>6, RoundParts
    <3>8. Round(From(b) - x, Minute) \in Int /\ Round(y - From(b), Minute) \in Int
      BY <1>1, <3>6, RoundBounds
    <3>9. P(top) = Round(From(b) - x, Minute) + Round(y - From(b), Minute)
      <4>1. P(b - 1) = Round(From(b) - x, Minute)
        BY <3>3, <3>5
      <4> HIDE DEF P
      <4> QED BY <3>1, <3>2, <3>4, <3>8, <4>1
    <3>10. whole \in Int
      <4>1. y - x \in Int
        BY <1>1
      <4> QED BY <1>1, <4>1, RoundBounds
    <3> HIDE DEF P, whole
    <3> QED BY <3>7, <3>8, <3>9, <3>10
  <2>3. CASE b = Days + 1 /\ a <= Days
    <3>1. top = Days /\ Days \in a..top /\ Days < b
      BY <1>1, <1>2, <2>3
    <3>2. y = To(Days)
      BY <1>1, <1>6, <2>3
    <3> HIDE DEF top
    <3>3. P(top) = Round(To(Days) - x, Minute)
      BY <1>11, <3>1
    <3>4. P(top) = whole
      BY <3>2, <3>3
    <3>5. whole \in Int
      <4> HIDE DEF x, y
      <4>1. y - x \in Int
        BY <1>1
      <4> QED BY <1>1, <4>1, RoundBounds
    <3> HIDE DEF P, whole
    <3> QED BY <3>4, <3>5
  <2>4. CASE b = Days + 1 /\ a > Days
    <3>1. a = Days + 1 /\ top = a - 1
      BY <1>1, <1>2, <1>4, <2>4
    <3>2. P(top) = 0
      BY <1>9, <3>1
    <3>3. y - x = 0
      <4>1. From(a) <= x
        BY <1>1, <1>2, DayOrder DEF a
      <4>2. From(a) = To(Days) /\ y = To(Days) /\ To(Days) \in Nat
        BY <1>1, <1>6, <2>4, <3>1, DayEnds
      <4> HIDE DEF x, y
      <4> QED BY <1>1, <4>1, <4>2
    <3>4. whole = 0
      <4>1. Round(0, Minute) = 0
        BY <1>1, RoundZero
      <4> HIDE DEF x, y
      <4> QED BY <3>3, <4>1
    <3> HIDE DEF P, whole
    <3> QED BY <3>2, <3>4
  <2> QED BY <1>1, <1>2, <1>6, <2>1, <2>2, <2>3, <2>4
<1> QED BY <1>8, <1>12 DEF D, f
-----------------------------------------------------------------------------
(* The aggregation: the inductive invariant.                               *)

\* Neither an end before its start nor an event outside its session, although both arrive late.
TablesInOrder ==
  /\ \A c \in Sid :
       /\ sessions[c].start = Never => sessions[c].end = Never
       /\ sessions[c].end # Never => sessions[c].start <= sessions[c].end
  /\ \A e \in events :
       /\ sessions[e.sid].start # Never
       /\ sessions[e.sid].start <= e.at
       /\ sessions[e.sid].end = Never \/ e.at <= sessions[e.sid].end

Started == {c \in Sid : sessions[c].start # Never}

TablesFinite == IsFiniteSet(events) /\ IsFiniteSet(Started)

\* A session that was read is still in the table as it was read, or has ended since.
StillThere(s) ==
  /\ sessions[s.sid].start = s.start
  /\ s.end # Never => sessions[s.sid].end = s.end

\* What the worker holds: the sessions of a user it is not yet done with and then, when they
\* may have gone on, the events in them.
ReadInOrder ==
  /\ Consistent(run.sessions, run.events)
  /\ \A s \in run.sessions : StillThere(s)
  /\ run.pc \in {"events", "rules"} => run.user \in run.todo

\* Every row is what the worker computes from such a reading, with the rules in some order.
ComputedFromBasis ==
  \A k \in DOMAIN summaries :
    /\ Consistent(basis[k].sessions, basis[k].events)
    /\ \E rules \in SetToSeqs(Rule) :
         summaries[k] = Summarise(k[1], k[2], basis[k].sessions, basis[k].events, rules)

AggregateInv ==
  /\ AggregateTypeOK /\ now >= DayLength
  /\ TablesInOrder /\ TablesFinite /\ ReadInOrder /\ ComputedFromBasis

\* The constants' part of what follows.
LEMMA TimeFacts ==
  /\ Days \in Nat /\ DayLength \in Nat \ {0} /\ JobAttempts \in Nat \ {0} /\ Never = -1
  /\ Time \subseteq Nat /\ Never \notin Time /\ 0 \in Time /\ DayLength \in Time
  /\ \A t \in Time, u \in Nat : u <= t => u \in Time
  /\ Day \subseteq Nat /\ 0 \in Day
<1>1. Days \in Nat /\ DayLength \in Nat \ {0} /\ JobAttempts \in Nat \ {0}
  BY AggregateAssumption
<1>2. (Days + 1) * DayLength \in Nat /\ DayLength <= (Days + 1) * DayLength
  BY <1>1
<1> QED BY <1>1, <1>2 DEF Time, Day, Never

\* A run that has read nothing yet, or is over.
LEMMA NothingRead == Consistent({}, {})
BY FS_EmptySet DEF Consistent

\* An idle worker has a state of the right type, even in an organisation without users.
LEMMA NoAggregationType == NoAggregation \in Aggregation
<1>1. 0 \in Day /\ 0 \in 0..JobAttempts
  BY TimeFacts
<1> DEFINE u == CHOOSE u \in User : TRUE
<1>2. NoAggregation.user = u
  BY DEF NoAggregation
<1> QED BY <1>1, <1>2 DEF NoAggregation, Aggregation

\* No session has started and nothing is summarised.
LEMMA AggregateInitEstablishes == AggregateInit => AggregateInv
<1> SUFFICES ASSUME AggregateInit PROVE AggregateInv
  OBVIOUS
<1> USE DEF AggregateInit
<1>1. sessions \in [Sid -> Session]
      /\ \A c \in Sid : sessions[c].start = Never /\ sessions[c].end = Never
  <2>1. {[user |-> u, start |-> Never, end |-> Never] : u \in User} \subseteq Session
    BY DEF Session
  <2>2. \A r \in {[user |-> u, start |-> Never, end |-> Never] : u \in User} :
           r.start = Never /\ r.end = Never
    OBVIOUS
  <2> QED BY <2>1, <2>2
<1>2. DOMAIN summaries = {} /\ DOMAIN basis = {}
  OBVIOUS
<1>3. AggregateTypeOK
  <2>1. now \in Time
    BY TimeFacts
  <2> QED BY <1>1, <1>2, <2>1, NoAggregationType DEF AggregateTypeOK
<1>4. TablesInOrder /\ TablesFinite
  <2>1. Started = {}
    BY <1>1 DEF Started
  <2> QED BY <1>1, <2>1, FS_EmptySet DEF TablesInOrder, TablesFinite
<1>5. ReadInOrder
  BY NothingRead DEF ReadInOrder, NoAggregation
<1>6. ComputedFromBasis
  BY <1>2 DEF ComputedFromBasis
<1>7. now >= DayLength
  BY TimeFacts
<1> QED BY <1>3, <1>4, <1>5, <1>6, <1>7 DEF AggregateInv

\* What a step that leaves the tables alone does not disturb.
LEMMA TablesUnchanged ==
  ASSUME AggregateInv, UNCHANGED <<sessions, events>>
  PROVE  TablesInOrder' /\ TablesFinite'
BY DEF AggregateInv, TablesInOrder, TablesFinite, Started

\* Nor a step that writes no summary.
LEMMA SummariesUnchanged ==
  ASSUME AggregateInv, UNCHANGED <<summaries, basis>>
  PROVE  ComputedFromBasis'
BY DEF AggregateInv, ComputedFromBasis

LEMMA TickPreserves ==
  ASSUME AggregateInv, Tick
  PROVE  AggregateInv'
<1> USE DEF Tick
<1>1. AggregateTypeOK'
  BY DEF AggregateInv, AggregateTypeOK
<1>2. now' >= DayLength
  BY TimeFacts DEF AggregateInv, AggregateTypeOK
<1>3. ReadInOrder'
  BY DEF AggregateInv, ReadInOrder, StillThere
<1> QED BY <1>1, <1>2, <1>3, TablesUnchanged, SummariesUnchanged DEF AggregateInv

\* A session starts: it has no events yet.
LEMMA StartSessionPreserves ==
  ASSUME AggregateInv, NEW c \in Sid, StartSession(c)
  PROVE  AggregateInv'
<1> USE DEF StartSession
<1> DEFINE new == [sessions[c] EXCEPT !.start = now]
<1>1. sessions[c] \in Session /\ now \in Time
  BY DEF AggregateInv, AggregateTypeOK
<1>2. new \in Session /\ new.start = now /\ new.end = sessions[c].end
  BY <1>1 DEF Session
<1>3. sessions' = [sessions EXCEPT ![c] = new]
  OBVIOUS
<1> HIDE DEF new
<1>4. sessions' \in [Sid -> Session]
  BY <1>2, <1>3 DEF AggregateInv, AggregateTypeOK
<1>5. \A d \in Sid : sessions'[d] = IF d = c THEN new ELSE sessions[d]
  BY <1>3 DEF AggregateInv, AggregateTypeOK
<1>6. AggregateTypeOK'
  BY <1>4 DEF AggregateInv, AggregateTypeOK
<1>7. TablesInOrder'
  <2>1. sessions[c].end = Never
    BY DEF AggregateInv, TablesInOrder
  <2>2. \A e \in events : e.sid \in Sid /\ e.sid # c
    BY DEF AggregateInv, AggregateTypeOK, Event, TablesInOrder
  <2>3. now # Never
    BY <1>1, TimeFacts
  <2>4. ASSUME NEW d \in Sid
        PROVE  /\ sessions'[d].start = Never => sessions'[d].end = Never
               /\ sessions'[d].end # Never => sessions'[d].start <= sessions'[d].end
    BY <1>2, <1>5, <2>1, <2>3 DEF AggregateInv, TablesInOrder
  <2>5. ASSUME NEW e \in events
        PROVE  /\ sessions'[e.sid].start # Never
               /\ sessions'[e.sid].start <= e.at
               /\ sessions'[e.sid].end = Never \/ e.at <= sessions'[e.sid].end
    BY <1>5, <2>2 DEF AggregateInv, TablesInOrder
  <2> QED BY <2>4, <2>5 DEF TablesInOrder
<1>8. TablesFinite'
  <2>1. Started' = Started \cup {c}
    BY <1>1, <1>2, <1>5, TimeFacts DEF Started
  <2> QED BY <2>1, FS_AddElement DEF AggregateInv, TablesFinite
<1>9. ReadInOrder'
  <2>1. ASSUME NEW s \in run.sessions
        PROVE  StillThere(s)'
    <3>1. s.sid \in Sid
      BY DEF AggregateInv, AggregateTypeOK, Aggregation, Snapshot
    <3>2. s.start # Never
      BY TimeFacts DEF AggregateInv, ReadInOrder, Consistent, Period
    <3> QED BY <1>5, <3>1, <3>2 DEF AggregateInv, ReadInOrder, StillThere
  <2> QED BY <2>1 DEF AggregateInv, ReadInOrder
<1> QED BY <1>6, <1>7, <1>8, <1>9, SummariesUnchanged DEF AggregateInv

\* An end is not before the start, nor before an event, though it may be in the past.
LEMMA EndSessionPreserves ==
  ASSUME AggregateInv, NEW c \in Sid, EndSession(c)
  PROVE  AggregateInv'
<1> USE DEF EndSession
<1>1. PICK t \in sessions[c].start..now :
         /\ \A e \in events : e.sid = c => e.at <= t
         /\ sessions' = [sessions EXCEPT ![c].end = t]
  OBVIOUS
<1> DEFINE new == [sessions[c] EXCEPT !.end = t]
<1>2. sessions[c] \in Session /\ now \in Time /\ sessions[c].start \in Time
  BY DEF AggregateInv, AggregateTypeOK, Session
<1>3. t \in Time /\ sessions[c].start <= t
  <2>1. now \in Nat /\ sessions[c].start \in Nat
    BY <1>2, TimeFacts
  <2>2. t \in Nat /\ t <= now /\ sessions[c].start <= t
    BY <2>1
  <2> QED BY <1>2, <2>2, TimeFacts
<1>4. new \in Session /\ new.end = t /\ new.start = sessions[c].start
  BY <1>2, <1>3 DEF Session
<1>5. sessions' = [sessions EXCEPT ![c] = new]
  BY <1>1
<1> HIDE DEF new
<1>6. sessions' \in [Sid -> Session]
  BY <1>4, <1>5 DEF AggregateInv, AggregateTypeOK
<1>7. \A d \in Sid : sessions'[d] = IF d = c THEN new ELSE sessions[d]
  BY <1>5 DEF AggregateInv, AggregateTypeOK
<1>8. AggregateTypeOK'
  BY <1>6 DEF AggregateInv, AggregateTypeOK
<1>9. TablesInOrder'
  <2>1. \A e \in events : e.sid \in Sid
    BY DEF AggregateInv, AggregateTypeOK, Event
  <2>2. ASSUME NEW d \in Sid
        PROVE  /\ sessions'[d].start = Never => sessions'[d].end = Never
               /\ sessions'[d].end # Never => sessions'[d].start <= sessions'[d].end
    BY <1>2, <1>3, <1>4, <1>7, TimeFacts DEF AggregateInv, TablesInOrder
  <2>3. ASSUME NEW e \in events
        PROVE  /\ sessions'[e.sid].start # Never
               /\ sessions'[e.sid].start <= e.at
               /\ sessions'[e.sid].end = Never \/ e.at <= sessions'[e.sid].end
    BY <1>1, <1>4, <1>7, <2>1 DEF AggregateInv, TablesInOrder
  <2> QED BY <2>2, <2>3 DEF TablesInOrder
<1>10. TablesFinite'
  <2>1. Started' = Started
    BY <1>4, <1>7 DEF Started
  <2> QED BY <2>1 DEF AggregateInv, TablesFinite
<1>11. ReadInOrder'
  <2>1. ASSUME NEW s \in run.sessions
        PROVE  StillThere(s)'
    <3>1. s.sid \in Sid
      BY DEF AggregateInv, AggregateTypeOK, Aggregation, Snapshot
    <3> QED BY <1>4, <1>7, <3>1 DEF AggregateInv, ReadInOrder, StillThere
  <2> QED BY <2>1 DEF AggregateInv, ReadInOrder
<1> QED BY <1>8, <1>9, <1>10, <1>11, SummariesUnchanged DEF AggregateInv

\* An event is stored while its session is open, and not for a time before it.
LEMMA StoreEventPreserves ==
  ASSUME AggregateInv, NEW c \in Sid, StoreEvent(c)
  PROVE  AggregateInv'
<1> USE DEF StoreEvent
<1>1. now \in Time /\ sessions[c].start \in Time /\ sessions[c].end = Never
  BY DEF AggregateInv, AggregateTypeOK, Session
<1>2. PICK new \in Event : /\ events' = events \cup {new}
                           /\ new.sid = c /\ sessions[c].start <= new.at
  <2>1. PICK t \in sessions[c].start..now :
           \/ \E l \in Label :
                events' = events \cup
                  {[sid |-> c, at |-> t, label |-> l, idle |-> 0, focus |-> TRUE]}
           \/ \E i \in {0, t - sessions[c].start} :
                events' = events \cup
                  {[sid |-> c, at |-> t, label |-> NoLabel, idle |-> i, focus |-> FALSE]}
    OBVIOUS
  <2>2. t \in Time /\ sessions[c].start <= t /\ 0 \in Time /\ t - sessions[c].start \in Time
    <3>1. now \in Nat /\ sessions[c].start \in Nat
      BY <1>1, TimeFacts
    <3>2. t \in Nat /\ t <= now /\ sessions[c].start <= t
      BY <3>1
    <3>3. t - sessions[c].start \in Nat /\ t - sessions[c].start <= t
      BY <3>1, <3>2
    <3>4. t \in Time
      BY <1>1, <3>2, TimeFacts
    <3> QED BY <3>2, <3>3, <3>4, TimeFacts
  <2>3. CASE \E l \in Label :
               events' = events \cup
                 {[sid |-> c, at |-> t, label |-> l, idle |-> 0, focus |-> TRUE]}
    <3>1. PICK l \in Label :
             events' = events \cup
               {[sid |-> c, at |-> t, label |-> l, idle |-> 0, focus |-> TRUE]}
      BY <2>3
    <3> DEFINE new == [sid |-> c, at |-> t, label |-> l, idle |-> 0, focus |-> TRUE]
    <3>2. new \in Event /\ new.sid = c /\ new.at = t
      BY <2>2 DEF Event
    <3>3. events' = events \cup {new}
      BY <3>1
    <3> HIDE DEF new
    <3> QED BY <2>2, <3>2, <3>3
  <2>4. CASE \E i \in {0, t - sessions[c].start} :
               events' = events \cup
                 {[sid |-> c, at |-> t, label |-> NoLabel, idle |-> i, focus |-> FALSE]}
    <3>1. PICK i \in {0, t - sessions[c].start} :
             events' = events \cup
               {[sid |-> c, at |-> t, label |-> NoLabel, idle |-> i, focus |-> FALSE]}
      BY <2>4
    <3> DEFINE new == [sid |-> c, at |-> t, label |-> NoLabel, idle |-> i, focus |-> FALSE]
    <3>2. i \in Time
      BY <2>2
    <3>3. new \in Event /\ new.sid = c /\ new.at = t
      BY <2>2, <3>2 DEF Event
    <3>4. events' = events \cup {new}
      BY <3>1
    <3> HIDE DEF new
    <3> QED BY <2>2, <3>3, <3>4
  <2> QED BY <2>1, <2>3, <2>4
<1>3. AggregateTypeOK'
  BY <1>2 DEF AggregateInv, AggregateTypeOK
<1>4. TablesInOrder'
  BY <1>1, <1>2 DEF AggregateInv, TablesInOrder
<1>5. TablesFinite'
  <2>1. Started' = Started
    BY DEF Started
  <2> QED BY <1>2, <2>1, FS_AddElement DEF AggregateInv, TablesFinite
<1>6. ReadInOrder'
  BY DEF AggregateInv, ReadInOrder, StillThere
<1> QED BY <1>3, <1>4, <1>5, <1>6, SummariesUnchanged DEF AggregateInv

\* The clock starts with day 1, so that there is a day before.
LEMMA StartSchedulerPreserves ==
  ASSUME AggregateInv, StartScheduler
  PROVE  AggregateInv'
<1> USE DEF StartScheduler
<1>1. DayOf(now) - 1 \in Day
  <2>1. now \in Nat /\ From(1) = DayLength /\ Days \in Nat
    BY TimeFacts DEF AggregateInv, AggregateTypeOK, From
  <2>2. DayOf(now) \in Nat /\ 1 <= DayOf(now)
    BY <2>1, DayOrder DEF AggregateInv
  <2> QED BY <2>1, <2>2 DEF Day
<1>2. AggregateTypeOK'
  BY <1>1 DEF AggregateInv, AggregateTypeOK
<1>3. ReadInOrder'
  BY DEF AggregateInv, ReadInOrder, StillThere
<1> QED BY <1>2, <1>3, TablesUnchanged, SummariesUnchanged DEF AggregateInv

\* The job gets the date of the template, and all attempts.
LEMMA FireCronPreserves ==
  ASSUME AggregateInv, FireCron
  PROVE  AggregateInv'
<1> USE DEF FireCron
<1>1. [date |-> template, left |-> JobAttempts] \in [date : Day, left : 1..JobAttempts]
  BY TimeFacts DEF AggregateInv, AggregateTypeOK
<1>2. AggregateTypeOK'
  BY <1>1 DEF AggregateInv, AggregateTypeOK
<1>3. ReadInOrder'
  BY DEF AggregateInv, ReadInOrder, StillThere
<1> QED BY <1>2, <1>3, TablesUnchanged, SummariesUnchanged DEF AggregateInv

\* The worker starts with nothing read.
LEMMA TakeJobPreserves ==
  ASSUME AggregateInv, TakeJob
  PROVE  AggregateInv'
<1> USE DEF TakeJob
<1>1. PICK j \in jobs :
         /\ jobs' = jobs \ {j}
         /\ run' = [NoAggregation EXCEPT !.pc = "sessions", !.date = j.date, !.left = j.left,
                                         !.todo = User]
  OBVIOUS
<1>2. j.date \in Day /\ j.left \in 0..JobAttempts
  BY TimeFacts DEF AggregateInv, AggregateTypeOK
<1>3. run' \in Aggregation
  BY <1>1, <1>2, NoAggregationType DEF Aggregation
<1>4. run'.sessions = {} /\ run'.events = {} /\ run'.pc = "sessions"
  BY <1>1 DEF NoAggregation
<1>5. AggregateTypeOK'
  BY <1>1, <1>3 DEF AggregateInv, AggregateTypeOK
<1>6. ReadInOrder'
  BY <1>4, NothingRead DEF ReadInOrder
<1> QED BY <1>5, <1>6, TablesUnchanged, SummariesUnchanged DEF AggregateInv

\* The sessions of a user are read, and no events yet.
LEMMA ReadSessionsPreserves ==
  ASSUME AggregateInv, ReadSessions
  PROVE  AggregateInv'
<1> USE DEF ReadSessions
<1> DEFINE mine(u) == {c \in Sid : sessions[c].user = u /\ sessions[c].start # Never}
           read(c) == [sid |-> c, start |-> sessions[c].start, end |-> sessions[c].end]
           S(u) == {read(c) : c \in mine(u)}
<1>1. PICK u \in run.todo :
         run' = [run EXCEPT !.pc = "events", !.user = u, !.sessions = S(u), !.events = {}]
  OBVIOUS
<1>2. run \in Aggregation /\ u \in User
  BY DEF AggregateInv, AggregateTypeOK, Aggregation
<1>3. \A c \in Sid : sessions[c] \in Session
  BY DEF AggregateInv, AggregateTypeOK
<1>4. \A c \in mine(u) : /\ read(c) \in Snapshot /\ Period(read(c))
                         /\ read(c).sid = c /\ read(c).start = sessions[c].start
                         /\ read(c).end = sessions[c].end
  BY <1>3 DEF AggregateInv, TablesInOrder, Session, Snapshot, Period
<1>5. IsFiniteSet(S(u))
  <2>1. IsFiniteSet(mine(u))
    <3>1. mine(u) \in SUBSET Started
      BY DEF Started
    <3> QED BY <3>1, FS_Subset DEF AggregateInv, TablesFinite
  <2> DEFINE f == [c \in mine(u) |-> read(c)]
  <2> HIDE DEF mine, read
  <2>2. f \in Surjection(mine(u), S(u))
    BY DEF Surjection
  <2> QED BY <2>1, <2>2, FS_Surjection
<1>6. \A s \in S(u) : s \in Snapshot /\ Period(s) /\ StillThere(s)
  <2> HIDE DEF mine, read
  <2> QED BY <1>4 DEF StillThere
<1> HIDE DEF S
<1>7. Consistent(S(u), {})
  BY <1>5, <1>6, FS_EmptySet DEF Consistent
<1>8. run' \in Aggregation
  BY <1>1, <1>2, <1>6 DEF Aggregation
<1>9. run'.sessions = S(u) /\ run'.events = {} /\ run'.user = u /\ run'.todo = run.todo
  BY <1>1, <1>2 DEF Aggregation
<1>10. AggregateTypeOK'
  BY <1>8 DEF AggregateInv, AggregateTypeOK
<1>11. ReadInOrder'
  BY <1>6, <1>7, <1>9 DEF ReadInOrder, StillThere
<1> QED BY <1>10, <1>11, TablesUnchanged, SummariesUnchanged DEF AggregateInv

\* The events are those of the sessions that were read, which may have ended since: an event
\* is then no later than the end, and a session that was read as ended has no later one.
LEMMA ReadEventsPreserves ==
  ASSUME AggregateInv, ReadEvents
  PROVE  AggregateInv'
<1> USE DEF ReadEvents
<1> DEFINE E == {e \in events : \E s \in run.sessions : s.sid = e.sid}
<1>1. run' = [run EXCEPT !.pc = "rules", !.events = E]
  OBVIOUS
<1>2. run \in Aggregation /\ run.user \in run.todo
  BY DEF AggregateInv, AggregateTypeOK, ReadInOrder
<1>3. E \subseteq Event
  BY DEF AggregateInv, AggregateTypeOK
<1>4. IsFiniteSet(E)
  <2>1. E \in SUBSET events
    OBVIOUS
  <2> QED BY <2>1, FS_Subset DEF AggregateInv, TablesFinite
<1>5. ASSUME NEW e \in E
      PROVE  \E s \in run.sessions : /\ s.sid = e.sid /\ s.start <= e.at
                                     /\ s.end = Never \/ e.at <= s.end
  <2>1. PICK s \in run.sessions : s.sid = e.sid
    OBVIOUS
  <2>2. /\ sessions[e.sid].start <= e.at
        /\ sessions[e.sid].end = Never \/ e.at <= sessions[e.sid].end
    BY DEF AggregateInv, TablesInOrder
  <2>3. s.start = sessions[e.sid].start /\ (s.end # Never => s.end = sessions[e.sid].end)
    BY <2>1 DEF AggregateInv, ReadInOrder, StillThere
  <2>4. s.start <= e.at /\ (s.end = Never \/ e.at <= s.end)
    BY <2>2, <2>3
  <2> QED BY <2>1, <2>4
<1>6. Consistent(run.sessions, E)
  <2>1. IsFiniteSet(run.sessions) /\ \A s \in run.sessions : Period(s)
    BY DEF AggregateInv, ReadInOrder, Consistent
  <2> HIDE DEF E
  <2> QED BY <1>3, <1>4, <1>5, <2>1 DEF Consistent
<1> HIDE DEF E
<1>7. run' \in Aggregation
  BY <1>1, <1>2, <1>3 DEF Aggregation
<1>8. /\ run'.sessions = run.sessions /\ run'.events = E
      /\ run'.user = run.user /\ run'.todo = run.todo
  BY <1>1, <1>2 DEF Aggregation
<1>9. AggregateTypeOK'
  BY <1>7 DEF AggregateInv, AggregateTypeOK
<1>10. ReadInOrder'
  BY <1>2, <1>6, <1>8 DEF AggregateInv, ReadInOrder, StillThere
<1> QED BY <1>9, <1>10, TablesUnchanged, SummariesUnchanged DEF AggregateInv

\* The row is computed from what was read; the other rows stay as they are.
LEMMA UpsertPreserves ==
  ASSUME AggregateInv, Upsert
  PROVE  AggregateInv'
<1> USE DEF Upsert, Replaced
<1> DEFINE k == <<run.user, run.date>>
           new(rules) == Summarise(run.user, run.date, run.sessions, run.events, rules)
           from == [sessions |-> run.sessions, events |-> run.events]
<1>1. run \in Aggregation /\ run.user \in User /\ run.date \in Day /\ run.date \in Nat
  BY TimeFacts DEF AggregateInv, AggregateTypeOK, Aggregation, ReadInOrder
<1>2. PICK rules \in SetToSeqs(Rule) : /\ summaries' = With(summaries, k, new(rules))
                                       /\ basis' = With(basis, k, from)
  OBVIOUS
<1>3. Consistent(run.sessions, run.events)
  BY DEF AggregateInv, ReadInOrder, StillThere
<1>4. new(rules) \in Count
  BY <1>1, <1>3, SummaryIsRight
<1>5. k \in User \X Day /\ k[1] = run.user /\ k[2] = run.date
  BY <1>1
<1>6. from.sessions = run.sessions /\ from.events = run.events
  OBVIOUS
<1> DEFINE n == new(rules)
<1>7. n = Summarise(k[1], k[2], from.sessions, from.events, rules)
  BY <1>5, <1>6
<1> HIDE DEF k, new, from, n
<1>8. /\ DOMAIN summaries' = DOMAIN summaries \cup {k}
      /\ DOMAIN basis' = DOMAIN basis \cup {k}
      /\ summaries'[k] = n /\ basis'[k] = from
      /\ \A j \in DOMAIN summaries : j # k => summaries'[j] = summaries[j]
      /\ \A j \in DOMAIN basis : j # k => basis'[j] = basis[j]
  <2>1. summaries' = [j \in DOMAIN summaries \cup {k} |-> IF j = k THEN n ELSE summaries[j]]
    BY <1>2 DEF With, n
  <2>2. basis' = [j \in DOMAIN basis \cup {k} |-> IF j = k THEN from ELSE basis[j]]
    BY <1>2 DEF With
  <2> QED BY <2>1, <2>2
<1>9. run' \in Aggregation /\ run'.sessions = run.sessions /\ run'.events = run.events
      /\ run'.pc \in {"done", "sessions"}
  BY <1>1 DEF Aggregation
<1>10. AggregateTypeOK'
  BY <1>4, <1>5, <1>8, <1>9 DEF AggregateInv, AggregateTypeOK, n
<1>11. ReadInOrder'
  BY <1>3, <1>9 DEF AggregateInv, ReadInOrder, StillThere
<1>12. ComputedFromBasis'
  <2> SUFFICES ASSUME NEW j \in DOMAIN summaries'
               PROVE  /\ Consistent(basis'[j].sessions, basis'[j].events)
                      /\ \E r \in SetToSeqs(Rule) :
                           summaries'[j] = Summarise(j[1], j[2], basis'[j].sessions,
                                                     basis'[j].events, r)
    BY DEF ComputedFromBasis
  <2>1. CASE j = k
    BY <1>3, <1>6, <1>7, <1>8, <2>1
  <2>2. CASE j # k
    <3>1. j \in DOMAIN summaries /\ j \in DOMAIN basis
      BY <1>8, <2>2 DEF AggregateInv, AggregateTypeOK
    <3>2. summaries'[j] = summaries[j] /\ basis'[j] = basis[j]
      BY <1>8, <2>2, <3>1
    <3> QED BY <3>1, <3>2 DEF AggregateInv, ComputedFromBasis
  <2> QED BY <2>1, <2>2
<1>13. now' >= DayLength
  BY DEF AggregateInv
<1> QED BY <1>10, <1>11, <1>12, <1>13, TablesUnchanged DEF AggregateInv

\* A run ends, well or not.
LEMMA EndPreserves ==
  ASSUME AggregateInv, CompleteAggregation \/ FailRun
  PROVE  AggregateInv'
<1> USE DEF CompleteAggregation, FailRun
<1>1. run' = NoAggregation
  OBVIOUS
<1>2. jobs' \subseteq [date : Day, left : 1..JobAttempts]
  <2>1. jobs \subseteq [date : Day, left : 1..JobAttempts]
    BY DEF AggregateInv, AggregateTypeOK
  <2>2. run.left > 1 =>
          [date |-> run.date, left |-> run.left - 1] \in [date : Day, left : 1..JobAttempts]
    <3>1. run.date \in Day /\ run.left \in 0..JobAttempts
      BY DEF AggregateInv, AggregateTypeOK, Aggregation
    <3>2. run.left > 1 => run.left - 1 \in 1..JobAttempts
      BY <3>1, TimeFacts
    <3> QED BY <3>1, <3>2
  <2> QED BY <2>1, <2>2
<1>3. AggregateTypeOK'
  BY <1>1, <1>2, NoAggregationType DEF AggregateInv, AggregateTypeOK
<1>4. ReadInOrder'
  BY <1>1, NothingRead DEF ReadInOrder, NoAggregation
<1> QED BY <1>3, <1>4, TablesUnchanged, SummariesUnchanged DEF AggregateInv

LEMMA AggregateNextPreserves == AggregateInv /\ [AggregateNext]_aggregateVars => AggregateInv'
<1> SUFFICES ASSUME AggregateInv, [AggregateNext]_aggregateVars PROVE AggregateInv'
  OBVIOUS
<1>1. CASE Tick
  BY <1>1, TickPreserves
<1>2. ASSUME NEW c \in Sid, StartSession(c) PROVE AggregateInv'
  BY <1>2, StartSessionPreserves
<1>3. ASSUME NEW c \in Sid, EndSession(c) PROVE AggregateInv'
  BY <1>3, EndSessionPreserves
<1>4. ASSUME NEW c \in Sid, StoreEvent(c) PROVE AggregateInv'
  BY <1>4, StoreEventPreserves
<1>5. CASE StartScheduler
  BY <1>5, StartSchedulerPreserves
<1>6. CASE FireCron
  BY <1>6, FireCronPreserves
<1>7. CASE TakeJob
  BY <1>7, TakeJobPreserves
<1>8. CASE ReadSessions
  BY <1>8, ReadSessionsPreserves
<1>9. CASE ReadEvents
  BY <1>9, ReadEventsPreserves
<1>10. CASE Upsert
  BY <1>10, UpsertPreserves
<1>11. CASE CompleteAggregation \/ FailRun
  BY <1>11, EndPreserves
<1>12. CASE UNCHANGED aggregateVars
  <2>1. UNCHANGED <<now, sessions, events, template, fired, jobs, run, summaries, basis>>
    BY <1>12 DEF aggregateVars
  <2>2. AggregateTypeOK' /\ now' >= DayLength /\ ReadInOrder'
    BY <2>1 DEF AggregateInv, AggregateTypeOK, ReadInOrder, StillThere
  <2> QED BY <2>1, <2>2, TablesUnchanged, SummariesUnchanged DEF AggregateInv
<1> QED
  BY <1>1, <1>2, <1>3, <1>4, <1>5, <1>6, <1>7, <1>8, <1>9, <1>10, <1>11, <1>12
  DEF AggregateNext
-----------------------------------------------------------------------------
(* The theorems about the aggregation.                                     *)

LEMMA AggregateInvariant == AggregateSpec => []AggregateInv
<1> QED BY AggregateInitEstablishes, AggregateNextPreserves, PTL DEF AggregateSpec

\* Tables, queue, run and summaries keep their types: in particular the template never holds
\* a day before the first, no job has more attempts than it was given, and no count of a
\* summary is negative (the neutral one is a difference), whatever the number of users,
\* sessions, events and rules.
THEOREM AggregateTypeCorrect == AggregateSpec => []AggregateTypeOK
<1>1. AggregateInv => AggregateTypeOK
  BY DEF AggregateInv
<1> QED BY <1>1, AggregateInvariant, PTL

\* A row of DailySummary is what the worker computes from one reading of the tables: neither
\* a run that failed half way nor the runs before it leave a trace in it.
THEOREM SummaryOfOneReading == AggregateSpec => []ComputedFromBasis
<1>1. AggregateInv => ComputedFromBasis
  BY DEF AggregateInv
<1> QED BY <1>1, AggregateInvariant, PTL

\* The minutes worked are those the sessions cover, half a minute per session aside, for any
\* number of sessions, lengths of day and minute, and moments at which the worker read.
THEOREM MinutesAreCovered == AggregateSpec => []WorkedIsCovered
<1>1. AggregateInv => WorkedIsCovered
  <2> SUFFICES ASSUME AggregateInv, NEW k \in DOMAIN summaries
               PROVE  LET S == basis[k].sessions
                          ticks == SumFunction([s \in S |-> OpenTicks(k[2], s)])
                          off == 2 * (summaries[k].worked * Minute - ticks)
                      IN Lesser(off, -off) >= -(Minute * Cardinality(S))
    BY DEF WorkedIsCovered
  <2> DEFINE S == basis[k].sessions
             o == SumFunction([s \in S |-> OpenTicks(k[2], s)])
             w == MinutesOn(k[2], S)
             c == Cardinality(S)
             off == 2 * (summaries[k].worked * Minute - o)
  <2>1. k[2] \in Nat
    BY TimeFacts DEF AggregateInv, AggregateTypeOK
  <2>2. Consistent(S, basis[k].events)
    BY DEF AggregateInv, ComputedFromBasis
  <2>3. PICK rules \in SetToSeqs(Rule) :
           summaries[k] = Summarise(k[1], k[2], S, basis[k].events, rules)
    BY DEF AggregateInv, ComputedFromBasis
  <2>4. summaries[k].worked = w
    <3> DEFINE n == Summarise(k[1], k[2], S, basis[k].events, rules)
    <3> HIDE DEF S
    <3>1. n.worked = w
      BY <2>1, <2>2, SummaryIsRight
    <3> QED BY <2>3, <3>1
  <2>5. IsFiniteSet(S) /\ \A s \in S : Period(s)
    BY <2>2 DEF Consistent
  <2> HIDE DEF S
  <2>6. /\ w \in Nat /\ o \in Nat
        /\ 2 * (Minute * w) <= 2 * o + Minute * c
        /\ 2 * o <= 2 * (Minute * w) + Minute * c
    BY <2>1, <2>5, SumOfMinutes DEF MinutesOn
  <2>7. c \in Nat /\ Minute \in Nat
    BY <2>5, FS_CardinalityType, AggregateAssumption
  <2> HIDE DEF w, o, c
  <2>8. Minute * w \in Nat /\ Minute * c \in Nat /\ summaries[k].worked * Minute = Minute * w
    BY <2>4, <2>6, <2>7
  <2>9. off = 2 * (Minute * w - o)
    BY <2>8
  <2> HIDE DEF off
  <2>10. Lesser(off, -off) >= -(Minute * c)
    BY <2>6, <2>8, <2>9 DEF Lesser
  <2> QED BY <2>10 DEF off, o, c, S
<1> QED BY <1>1, AggregateInvariant, PTL

\* Every focus event of the day that the worker read is counted once, in one category, and
\* the score is the productive share, half a point aside: no event is lost because its
\* session is not selected for the day, nor counted on both sides of midnight.
THEOREM FocusIsCounted == AggregateSpec => []FocusCounted
<1>1. AggregateInv => FocusCounted
  <2> SUFFICES ASSUME AggregateInv, NEW k \in DOMAIN summaries
               PROVE  LET s == summaries[k]
                          total == s.productive + s.neutral + s.distracting
                      IN /\ total = Cardinality({e \in basis[k].events :
                                                    e.focus /\ DayOf(e.at) = k[2]})
                         /\ 2 * (s.score * total - 100 * s.productive) \in -total..total
    BY DEF FocusCounted
  <2>1. k[2] \in Nat
    BY TimeFacts DEF AggregateInv, AggregateTypeOK
  <2>2. Consistent(basis[k].sessions, basis[k].events)
    BY DEF AggregateInv, ComputedFromBasis
  <2>3. PICK rules \in SetToSeqs(Rule) :
           summaries[k] = Summarise(k[1], k[2], basis[k].sessions, basis[k].events, rules)
    BY DEF AggregateInv, ComputedFromBasis
  <2> DEFINE n == Summarise(k[1], k[2], basis[k].sessions, basis[k].events, rules)
             total == n.productive + n.neutral + n.distracting
  <2>4. /\ total = Cardinality(FocusOn(k[2], basis[k].events))
        /\ 2 * (n.score * total - 100 * n.productive) \in -total..total
    BY <2>1, <2>2, SummaryIsRight
  <2>5. summaries[k] = n
    BY <2>3
  <2> HIDE DEF n
  <2>6. FocusOn(k[2], basis[k].events) = {e \in basis[k].events : e.focus /\ DayOf(e.at) = k[2]}
    BY DEF FocusOn
  <2> QED BY <2>4, <2>5, <2>6
<1> QED BY <1>1, AggregateInvariant, PTL

\* Cutting a closed session at midnight neither loses nor gains more than a minute, however
\* many midnights it crosses: the whole days in between are exact.
THEOREM DaysAreComplete == AggregateSpec => []DaysAddUp
<1>1. AggregateInv => DaysAddUp
  <2> SUFFICES ASSUME AggregateInv, NEW c \in Sid, sessions[c].end # Never
               PROVE  LET s == sessions[c]
                          sum == SumFunction([d \in {d \in Day : s \in Selected(d, {s})} |->
                                                SessionMinutes(d, s)])
                      IN sum - Round(s.end - s.start, Minute) \in {-1, 0, 1}
    BY DEF DaysAddUp
  <2>1. Period(sessions[c])
    BY DEF AggregateInv, AggregateTypeOK, TablesInOrder, Session, Period
  <2> QED BY <2>1, DaysOfASession
<1> QED BY <1>1, AggregateInvariant, PTL
=============================================================================
