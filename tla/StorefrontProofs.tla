--------------------------- MODULE StorefrontProofs ---------------------------
(***************************************************************************)
(* What holds of Storefront for every basket, price, offer, calendar and   *)
(* bound.  Totals are sums over sets of lines, which are folds; the first  *)
(* sections prove of them what an induction over the lines gives.  The     *)
(* induction is on sets: a smallest set that is no example is looked at.   *)
(***************************************************************************)
EXTENDS Storefront, FiniteSetTheorems, TLAPS

-------------------------------------------------------------------------------
(* Induction *)

\* A set of numbers that has zero and, with a number, the next one has them all.
LEMMA NatSetInduction ==
  ASSUME NEW S \in SUBSET Nat, 0 \in S, \A n \in S : n + 1 \in S
  PROVE  S = Nat
<1> SUFFICES ASSUME Nat \ S # {} PROVE FALSE
  OBVIOUS
<1>1. PICK x \in Nat \ S : \A y \in Nat \ S : ~(<<y, x>> \in OpToRel(<, Nat))
  BY NatLessThanWellFounded, WFMin
<1>2. x # 0 /\ x \in Nat
  OBVIOUS
<1>3. x - 1 \in Nat /\ x - 1 < x /\ (x - 1) + 1 = x
  BY <1>2
<1>4. x - 1 \in S
  BY <1>1, <1>3 DEF OpToRel
<1> QED BY <1>3, <1>4

\* Of finite sets there is one without a smaller one.
LEMMA SmallestSet ==
  ASSUME NEW S, IsFiniteSet(S), NEW Bad \in SUBSET (SUBSET S), Bad # {}
  PROVE  \E T \in Bad : \A U \in SUBSET T : U # T => U \notin Bad
<1>1. Bad \subseteq FiniteSubsetsOf(S)
  BY FS_Subset DEF FiniteSubsetsOf
<1>2. PICK T \in Bad : \A U \in Bad : ~(<<U, T>> \in StrictSubsetOrdering(S))
  BY <1>1, FS_StrictSubsetOrderingWellFounded, WFMin
<1> QED BY <1>1, <1>2 DEF StrictSubsetOrdering

\* What has the empty set and, with a set, that set with one element more has every finite set.
LEMMA SetInduction ==
  ASSUME NEW S, IsFiniteSet(S), NEW P, {} \in P,
         \A T \in SUBSET S, x \in S : T \in P /\ x \notin T => T \cup {x} \in P
  PROVE  S \in P
<1> DEFINE Bad == {T \in SUBSET S : T \notin P}
<1> SUFFICES ASSUME S \notin P PROVE FALSE
  OBVIOUS
<1> Bad \in SUBSET (SUBSET S) /\ Bad # {}
  OBVIOUS
<1> HIDE DEF Bad
<1>1. PICK T \in Bad : \A U \in SUBSET T : U # T => U \notin Bad
  BY SmallestSet
<1> USE DEF Bad
<1>2. PICK x : x \in T
  OBVIOUS
<1>3. T \ {x} \in P
  BY <1>1, <1>2
<1>4. x \in S /\ x \notin T \ {x} /\ T \ {x} \in SUBSET S
  BY <1>2
<1>5. (T \ {x}) \cup {x} \in P
  BY <1>3, <1>4
<1>6. (T \ {x}) \cup {x} = T
  BY <1>2
<1> QED BY <1>5, <1>6

-------------------------------------------------------------------------------
(* Sums *)

\* The element that a fold takes next, and the totals of f on the subsets of S.
Pick(s) == CHOOSE x \in s : TRUE
Adds(f, g, s) == IF s = {} THEN 0 ELSE f[Pick(s)] + g[s \ {Pick(s)}]
Totals(f, S, g) == g = [s \in SUBSET S |-> Adds(f, g, s)]

\* The fold is such a total if there is one.
LEMMA SumIsTotal ==
  ASSUME NEW f, NEW S, \E g : Totals(f, S, g)
  PROVE  \E g : Totals(f, S, g) /\ Sum(f, S) = g[S]
<1> DEFINE G == CHOOSE g : g = [s \in SUBSET S |->
                IF s = {} THEN 0 ELSE LET x == CHOOSE x \in s : TRUE IN f[x] + g[s \ {x}]]
<1>1. Sum(f, S) = G[S]
  BY DEF Sum, FoldFunctionOnSet, MapThenFoldSet
<1>2. \E g : g = [s \in SUBSET S |-> IF s = {} THEN 0 ELSE LET x == CHOOSE x \in s : TRUE IN f[x] + g[s \ {x}]]
  BY DEF Totals, Adds, Pick
<1>3. G = [s \in SUBSET S |-> IF s = {} THEN 0 ELSE LET x == CHOOSE x \in s : TRUE IN f[x] + G[s \ {x}]]
  BY <1>2
<1>4. Totals(f, S, G)
  BY <1>3 DEF Totals, Adds, Pick
<1> QED BY <1>1, <1>4

\* There is one: for the sets of at most n elements, by induction on n.
LEMMA TotalsExist ==
  ASSUME NEW f, NEW S, IsFiniteSet(S)
  PROVE  \E g : Totals(f, S, g)
<1> DEFINE Small(n) == {s \in SUBSET S : Cardinality(s) <= n}
           Partial(n, g) == g = [s \in Small(n) |-> Adds(f, g, s)]
           Reached == {n \in Nat : \E g : Partial(n, g)}
<1>1. \A s \in SUBSET S : IsFiniteSet(s) /\ Cardinality(s) \in Nat /\ Cardinality(s) <= Cardinality(S)
  BY FS_Subset, FS_CardinalityType
<1>2. \A s \in SUBSET S : s # {} =>
        /\ Pick(s) \in s
        /\ Cardinality(s \ {Pick(s)}) = Cardinality(s) - 1
  BY <1>1, FS_RemoveElement DEF Pick
<1>3. \A s \in SUBSET S : Cardinality(s) = 0 <=> s = {}
  BY <1>1, FS_EmptySet
<1>4. 0 \in Reached
  <2> DEFINE g == [s \in Small(0) |-> 0]
  <2>1. \A s \in Small(0) : s = {}
    BY <1>1, <1>3
  <2>2. Partial(0, g)
    BY <2>1 DEF Adds
  <2> QED BY <2>2
<1>5. ASSUME NEW n \in Reached PROVE n + 1 \in Reached
  <2>1. PICK g : Partial(n, g)
    OBVIOUS
  <2> DEFINE h == [s \in Small(n + 1) |-> IF s \in Small(n) THEN g[s] ELSE Adds(f, g, s)]
  <2>2. ASSUME NEW s \in Small(n + 1) PROVE h[s] = Adds(f, h, s)
    <3>1. s = {} => h[s] = 0 /\ Adds(f, h, s) = 0
      BY <1>3, <2>1 DEF Adds
    <3>2. CASE s # {}
      <4> DEFINE r == s \ {Pick(s)}
      <4>1. r \in Small(n) /\ h[r] = g[r]
        BY <1>1, <1>2, <3>2
      <4>2. Adds(f, h, s) = f[Pick(s)] + g[r] /\ Adds(f, g, s) = f[Pick(s)] + g[r]
        BY <3>2, <4>1 DEF Adds
      <4>3. h[s] = Adds(f, g, s)
        BY <2>1
      <4> QED BY <4>2, <4>3
    <3> QED BY <3>1, <3>2
  <2>3. Partial(n + 1, h)
    BY <2>2
  <2> HIDE DEF h, Partial
  <2> QED BY <2>3
<1>6. Reached = Nat
  <2> HIDE DEF Reached
  <2>1. Reached \in SUBSET Nat
    BY DEF Reached
  <2> QED BY <1>4, <1>5, <2>1, NatSetInduction
<1>7. Small(Cardinality(S)) = SUBSET S
  BY <1>1
<1>8. \E g : Partial(Cardinality(S), g)
  BY <1>1, <1>6
<1> QED BY <1>7, <1>8 DEF Totals

\* There is one only.
LEMMA TotalsAgree ==
  ASSUME NEW f, NEW S, IsFiniteSet(S), NEW T \in SUBSET S, NEW g, NEW h, Totals(f, S, g), Totals(f, T, h)
  PROVE  g[T] = h[T]
<1> DEFINE Bad == {s \in SUBSET T : g[s] # h[s]}
<1> SUFFICES ASSUME Bad # {} PROVE FALSE
  BY DEF Bad
<1>1. PICK s \in Bad : \A r \in SUBSET s : r # s => r \notin Bad
  <2> HIDE DEF Bad
  <2>1. Bad \in SUBSET (SUBSET T) /\ IsFiniteSet(T)
    BY FS_Subset DEF Bad
  <2> QED BY <2>1, SmallestSet
<1>2. s # {}
  BY DEF Totals, Adds
<1>3. Pick(s) \in s /\ s \ {Pick(s)} \in SUBSET T
  BY <1>2 DEF Pick
<1>4. g[s \ {Pick(s)}] = h[s \ {Pick(s)}]
  BY <1>1, <1>3
<1>5. g[s] = f[Pick(s)] + g[s \ {Pick(s)}] /\ h[s] = f[Pick(s)] + h[s \ {Pick(s)}]
  BY <1>2 DEF Totals, Adds
<1> QED BY <1>4, <1>5

\* The equation of the fold.
LEMMA SumIs ==
  ASSUME NEW f, NEW S, IsFiniteSet(S)
  PROVE  Sum(f, S) = IF S = {} THEN 0 ELSE f[Pick(S)] + Sum(f, S \ {Pick(S)})
<1>1. PICK g : Totals(f, S, g) /\ Sum(f, S) = g[S]
  BY TotalsExist, SumIsTotal
<1>2. CASE S # {}
  <2>1. Pick(S) \in S /\ IsFiniteSet(S \ {Pick(S)}) /\ S \ {Pick(S)} \in SUBSET S
    BY <1>2, FS_RemoveElement DEF Pick
  <2>2. PICK h : Totals(f, S \ {Pick(S)}, h) /\ Sum(f, S \ {Pick(S)}) = h[S \ {Pick(S)}]
    BY <2>1, TotalsExist, SumIsTotal
  <2>3. g[S \ {Pick(S)}] = h[S \ {Pick(S)}]
    BY <1>1, <2>1, <2>2, TotalsAgree
  <2>4. g[S] = f[Pick(S)] + g[S \ {Pick(S)}]
    BY <1>1, <1>2 DEF Totals, Adds
  <2> QED BY <1>1, <1>2, <2>2, <2>3, <2>4
<1>3. CASE S = {}
  BY <1>1, <1>3 DEF Totals, Adds
<1> QED BY <1>2, <1>3

\* The sum over nothing.
LEMMA SumEmpty == ASSUME NEW f PROVE Sum(f, {}) = 0
  BY SumIs, FS_EmptySet

\* The sum of integers is one.
LEMMA SumInt ==
  ASSUME NEW S, IsFiniteSet(S), NEW f, \A x \in S : f[x] \in Int
  PROVE  Sum(f, S) \in Int
<1> DEFINE Bad == {T \in SUBSET S : Sum(f, T) \notin Int}
<1> SUFFICES ASSUME Bad # {} PROVE FALSE
  OBVIOUS
<1>1. PICK T \in Bad : \A U \in SUBSET T : U # T => U \notin Bad
  <2> HIDE DEF Bad
  <2>1. Bad \in SUBSET (SUBSET S)
    BY DEF Bad
  <2> QED BY <2>1, SmallestSet
<1>2. IsFiniteSet(T)
  BY FS_Subset
<1>3. T # {}
  BY SumEmpty
<1>4. Pick(T) \in T /\ Sum(f, T) = f[Pick(T)] + Sum(f, T \ {Pick(T)})
  BY <1>2, <1>3, SumIs DEF Pick
<1>5. Sum(f, T \ {Pick(T)}) \in Int
  BY <1>1, <1>4
<1> QED BY <1>4, <1>5

\* Any element may be taken first.
LEMMA SumRemove ==
  ASSUME NEW S, IsFiniteSet(S), NEW f, \A x \in S : f[x] \in Int, NEW a \in S
  PROVE  Sum(f, S) = f[a] + Sum(f, S \ {a})
<1> DEFINE Bad == {T \in SUBSET S : \E x \in T : Sum(f, T) # f[x] + Sum(f, T \ {x})}
<1> SUFFICES ASSUME Bad # {} PROVE FALSE
  OBVIOUS
<1>1. PICK T \in Bad : \A U \in SUBSET T : U # T => U \notin Bad
  <2> HIDE DEF Bad
  <2>1. Bad \in SUBSET (SUBSET S)
    BY DEF Bad
  <2> QED BY <2>1, SmallestSet
<1>2. PICK x \in T : Sum(f, T) # f[x] + Sum(f, T \ {x})
  OBVIOUS
<1> DEFINE p == Pick(T)
<1>3. IsFiniteSet(T) /\ IsFiniteSet(T \ {p}) /\ IsFiniteSet(T \ {x}) /\ IsFiniteSet((T \ {p}) \ {x})
  BY FS_Subset
<1>4. p \in T /\ Sum(f, T) = f[p] + Sum(f, T \ {p})
  BY <1>2, <1>3, SumIs DEF Pick
<1>5. p # x
  BY <1>2, <1>4
<1>6. Sum(f, T \ {p}) = f[x] + Sum(f, (T \ {p}) \ {x})
  BY <1>1, <1>2, <1>4, <1>5
<1>7. Sum(f, T \ {x}) = f[p] + Sum(f, (T \ {x}) \ {p})
  BY <1>1, <1>2, <1>4, <1>5
<1>8. (T \ {x}) \ {p} = (T \ {p}) \ {x}
  OBVIOUS
<1>9. Sum(f, (T \ {p}) \ {x}) \in Int /\ f[x] \in Int /\ f[p] \in Int
  BY <1>3, <1>4, SumInt
<1> HIDE DEF p
<1>10. Sum(f, T) = f[p] + (f[x] + Sum(f, (T \ {p}) \ {x}))
  BY <1>4, <1>6
<1>11. Sum(f, T \ {x}) = f[p] + Sum(f, (T \ {p}) \ {x})
  BY <1>7, <1>8
<1> QED BY <1>2, <1>9, <1>10, <1>11

\* So any element may be added last.
LEMMA SumAdd ==
  ASSUME NEW S, IsFiniteSet(S), NEW T \in SUBSET S, NEW x \in S, x \notin T,
         NEW f, \A y \in S : f[y] \in Int
  PROVE  Sum(f, T \cup {x}) = f[x] + Sum(f, T) /\ Sum(f, T) \in Int
<1>1. IsFiniteSet(T) /\ IsFiniteSet(T \cup {x}) /\ (T \cup {x}) \ {x} = T
  BY FS_Subset
<1> QED BY <1>1, SumRemove, SumInt

\* Sums of what is close to each other, in any unit, are close to each other.
LEMMA SumGap ==
  ASSUME NEW S, IsFiniteSet(S), NEW f, NEW g, \A x \in S : f[x] \in Int /\ g[x] \in Int,
         NEW a \in Int, NEW b \in Int, NEW c \in Int,
         \A x \in S : a * f[x] - b * g[x] <= c
  PROVE  a * Sum(f, S) - b * Sum(g, S) <= c * Cardinality(S)
<1> DEFINE P == {T \in SUBSET S : a * Sum(f, T) - b * Sum(g, T) <= c * Cardinality(T)}
<1>1. {} \in P
  BY SumEmpty, FS_EmptySet
<1>2. ASSUME NEW T \in SUBSET S, NEW x \in S, T \in P, x \notin T PROVE T \cup {x} \in P
  <2>1. /\ Sum(f, T \cup {x}) = f[x] + Sum(f, T) /\ Sum(f, T) \in Int
        /\ Sum(g, T \cup {x}) = g[x] + Sum(g, T) /\ Sum(g, T) \in Int
    <3>1. (\A y \in S : f[y] \in Int) /\ (\A y \in S : g[y] \in Int)
      OBVIOUS
    <3>2. Sum(f, T \cup {x}) = f[x] + Sum(f, T) /\ Sum(f, T) \in Int
      BY <1>2, <3>1, SumAdd
    <3>3. Sum(g, T \cup {x}) = g[x] + Sum(g, T) /\ Sum(g, T) \in Int
      BY <1>2, <3>1, SumAdd
    <3> QED BY <3>2, <3>3
  <2>2. Cardinality(T) \in Nat /\ Cardinality(T \cup {x}) = Cardinality(T) + 1
    BY <1>2, FS_Subset, FS_CardinalityType, FS_AddElement
  <2>3. ASSUME NEW F \in Int, NEW G \in Int, NEW u \in Int, NEW v \in Int, NEW n \in Int,
               a * F - b * G <= c * n, a * u - b * v <= c
        PROVE  a * (u + F) - b * (v + G) <= c * (n + 1)
    <3>1. /\ a * (u + F) = a * u + a * F /\ b * (v + G) = b * v + b * G
          /\ c * (n + 1) = c * n + c
      OBVIOUS
    <3>2. /\ a * F \in Int /\ b * G \in Int /\ c * n \in Int
          /\ a * u \in Int /\ b * v \in Int
      OBVIOUS
    <3> QED BY <2>3, <3>1, <3>2
  <2>4. a * Sum(f, T) - b * Sum(g, T) <= c * Cardinality(T) /\ a * f[x] - b * g[x] <= c
    BY <1>2
  <2>5. a * (f[x] + Sum(f, T)) - b * (g[x] + Sum(g, T)) <= c * (Cardinality(T) + 1)
    BY <2>1, <2>2, <2>3, <2>4
  <2>6. T \cup {x} \in SUBSET S
    OBVIOUS
  <2> QED BY <2>1, <2>2, <2>5, <2>6
<1> HIDE DEF P
<1>3. S \in P
  BY <1>1, <1>2, SetInduction
<1> QED BY <1>3 DEF P

\* A sum of more is more.
LEMMA SumMore ==
  ASSUME NEW S, IsFiniteSet(S), NEW f, NEW g, \A x \in S : f[x] \in Int /\ g[x] \in Int /\ f[x] <= g[x]
  PROVE  Sum(f, S) <= Sum(g, S)
<1> DEFINE P == {T \in SUBSET S : Sum(f, T) <= Sum(g, T)}
<1>1. {} \in P
  <2>1. Sum(f, {}) = 0 /\ Sum(g, {}) = 0
    BY SumEmpty
  <2> QED BY <2>1
<1>2. ASSUME NEW T \in SUBSET S, NEW x \in S, T \in P, x \notin T PROVE T \cup {x} \in P
  <2>1. (\A y \in S : f[y] \in Int) /\ (\A y \in S : g[y] \in Int) /\ f[x] <= g[x]
    OBVIOUS
  <2>2. Sum(f, T \cup {x}) = f[x] + Sum(f, T) /\ Sum(f, T) \in Int
    BY <1>2, <2>1, SumAdd
  <2>3. Sum(g, T \cup {x}) = g[x] + Sum(g, T) /\ Sum(g, T) \in Int
    BY <1>2, <2>1, SumAdd
  <2>4. Sum(f, T) <= Sum(g, T)
    BY <1>2
  <2>5. Sum(f, T \cup {x}) <= Sum(g, T \cup {x})
    BY <2>1, <2>2, <2>3, <2>4
  <2> QED BY <2>5
<1> HIDE DEF P
<1>3. S \in P
  BY <1>1, <1>2, SetInduction
<1> QED BY <1>3 DEF P

\* What is added to T counts if it is worth something.
LEMMA SumPart ==
  ASSUME NEW S, IsFiniteSet(S), NEW T \in SUBSET S, NEW f, \A x \in S : f[x] \in Nat
  PROVE  /\ Sum(f, T) <= Sum(f, S)
         /\ (\A x \in S \ T : f[x] = 0) => Sum(f, T) = Sum(f, S)
<1> DEFINE Nothing == \A x \in S \ T : f[x] = 0
           Fits(U) == Sum(f, U \cap T) <= Sum(f, U) /\ (Nothing => Sum(f, U \cap T) = Sum(f, U))
           P == {U \in SUBSET S : Fits(U)}
<1>1. {} \in P
  <2>1. {} \cap T = {} /\ Sum(f, {}) = 0
    BY SumEmpty
  <2> QED BY <2>1
<1>2. ASSUME NEW U \in SUBSET S, NEW x \in S, U \in P, x \notin U PROVE U \cup {x} \in P
  <2>1. (\A y \in S : f[y] \in Int) /\ f[x] \in Nat
    OBVIOUS
  <2>2. Sum(f, U \cup {x}) = f[x] + Sum(f, U) /\ Sum(f, U) \in Int
    BY <1>2, <2>1, SumAdd
  <2>3. U \cap T \in SUBSET S /\ Fits(U) /\ (Nothing /\ x \notin T => f[x] = 0)
    BY <1>2
  <2>4. CASE x \in T
    <3>1. (U \cup {x}) \cap T = (U \cap T) \cup {x} /\ x \notin U \cap T
      BY <1>2, <2>4
    <3>2. Sum(f, (U \cap T) \cup {x}) = f[x] + Sum(f, U \cap T) /\ Sum(f, U \cap T) \in Int
      BY <2>1, <2>3, <3>1, SumAdd
    <3> HIDE DEF Nothing
    <3>3. Fits(U \cup {x})
      BY <2>1, <2>2, <2>3, <3>1, <3>2
    <3> QED BY <3>3
  <2>5. CASE x \notin T
    <3>1. (U \cup {x}) \cap T = U \cap T
      BY <2>5
    <3>2. Sum(f, U \cap T) \in Int
      <4>1. IsFiniteSet(U \cap T) /\ \A y \in U \cap T : f[y] \in Int
        BY <2>1, <2>3, FS_Subset
      <4> QED BY <4>1, SumInt
    <3> HIDE DEF Nothing
    <3>3. Fits(U \cup {x})
      BY <2>1, <2>2, <2>3, <2>5, <3>1, <3>2
    <3> QED BY <3>3
  <2> QED BY <2>4, <2>5
<1> HIDE DEF P
<1>3. S \in P
  BY <1>1, <1>2, SetInduction
<1>4. S \cap T = T
  OBVIOUS
<1> QED BY <1>3, <1>4 DEF P

\* The sum of natural numbers is one.
LEMMA SumNat ==
  ASSUME NEW S, IsFiniteSet(S), NEW f, \A x \in S : f[x] \in Nat
  PROVE  Sum(f, S) \in Nat
<1>1. Sum(f, {}) <= Sum(f, S) /\ Sum(f, {}) = 0 /\ Sum(f, S) \in Int
  BY SumPart, SumEmpty, SumInt
<1> QED BY <1>1

\* The sum over one element.
LEMMA SumOne ==
  ASSUME NEW x, NEW f, f[x] \in Int
  PROVE  Sum(f, {x}) = f[x]
<1>1. IsFiniteSet({x}) /\ {x} \ {x} = {}
  BY FS_Singleton
<1>2. Sum(f, {x}) = f[x] + Sum(f, {x} \ {x})
  BY <1>1, SumRemove
<1> QED BY <1>1, <1>2, SumEmpty

\* Of finitely many there is one whose f is not exceeded.
LEMMA Largest ==
  ASSUME NEW S, IsFiniteSet(S), S # {}, NEW f, \A x \in S : f[x] \in Int
  PROVE  \E m \in S : \A x \in S : f[x] <= f[m]
<1> DEFINE Best(T, m) == m \in T /\ \A x \in T : f[x] <= f[m]
           P == {T \in SUBSET S : T = {} \/ \E m \in T : Best(T, m)}
<1>1. {} \in P
  OBVIOUS
<1>2. ASSUME NEW T \in SUBSET S, NEW y \in S, T \in P, y \notin T PROVE T \cup {y} \in P
  <2>1. CASE T = {}
    <3>1. Best(T \cup {y}, y)
      BY <2>1
    <3> QED BY <3>1
  <2>2. CASE T # {}
    <3>1. PICK m \in T : Best(T, m)
      BY <1>2, <2>2
    <3>2. CASE f[y] <= f[m]
      <4>1. Best(T \cup {y}, m)
        BY <3>1, <3>2
      <4> QED BY <4>1
    <3>3. CASE ~(f[y] <= f[m])
      <4>1. Best(T \cup {y}, y)
        <5>1. f[m] \in Int /\ f[y] \in Int /\ \A x \in T : f[x] \in Int
          OBVIOUS
        <5> QED BY <3>1, <3>3, <5>1
      <4> QED BY <4>1
    <3> QED BY <3>2, <3>3
  <2> QED BY <2>1, <2>2
<1> HIDE DEF P
<1>3. S \in P
  BY <1>1, <1>2, SetInduction
<1> QED BY <1>3 DEF P

-------------------------------------------------------------------------------
(* Amounts *)

\* What one line is worth, for the sums.
Worths(b) == [v \in Variants |-> LineTotal(b, v)]

\* What a line costs is not negative.
LEMMA LineNat ==
  ASSUME NEW b \in Basket, NEW v \in Variants
  PROVE  LineTotal(b, v) \in Nat /\ b[v] \in Nat
<1>1. b[v] \in Nat /\ Price[v] \in Nat
  BY StorefrontAssumption DEF Basket
<1>2. \A x \in Nat, y \in Nat : x * y \in Nat
  OBVIOUS
<1> QED BY <1>1, <1>2 DEF LineTotal

\* The lines of a basket are finitely many, and what is not in it costs nothing.
LEMMA InBasket ==
  ASSUME NEW b \in Basket, NEW S \in SUBSET Variants
  PROVE  /\ IsFiniteSet(S) /\ In(b) \in SUBSET Variants /\ IsFiniteSet(In(b))
         /\ \A v \in S : Worths(b)[v] \in Nat /\ Worths(b)[v] = LineTotal(b, v)
         /\ \A v \in Variants \ In(b) : b[v] = 0 /\ LineTotal(b, v) = 0
<1>1. IsFiniteSet(S) /\ In(b) \in SUBSET Variants /\ IsFiniteSet(In(b))
  BY StorefrontAssumption, FS_Subset DEF In
<1>2. \A v \in S : Worths(b)[v] = LineTotal(b, v) /\ LineTotal(b, v) \in Nat
  BY LineNat DEF Worths
<1>3. ASSUME NEW v \in Variants \ In(b) PROVE b[v] = 0 /\ LineTotal(b, v) = 0
  <2>1. b[v] = 0 /\ Price[v] \in Nat
    BY StorefrontAssumption DEF Basket, In
  <2> QED BY <2>1 DEF LineTotal
<1> QED BY <1>1, <1>2, <1>3

\* The subtotal of checkout is a sum over lines and not negative.
LEMMA SubtotalNat ==
  ASSUME NEW b \in Basket, NEW S \in SUBSET Variants
  PROVE  Subtotal(b, S) \in Nat /\ Subtotal(b, S) = Sum(Worths(b), S)
<1>1. Subtotal(b, S) = Sum(Worths(b), S)
  BY DEF Subtotal, Worths
<1>2. IsFiniteSet(S) /\ \A v \in S : Worths(b)[v] \in Nat
  BY InBasket
<1> QED BY <1>1, <1>2, SumNat

\* The columns of an offer.
LEMMA OfferType ==
  ASSUME NEW o \in Offer
  PROVE  /\ o.value \in Int /\ o.cap \in Int /\ o.free \in Int /\ o.minimum \in Nat /\ o.quantity \in Int
         /\ o.entireStore \in BOOLEAN /\ o.coupon \in BOOLEAN /\ o.capped \in BOOLEAN
         /\ o.reward \in {"PERCENT_OFF", "FLAT_OFF", "FREE_ITEM", "FREE_SHIPPING"}
  BY DEF Offer

\* A discount before it is cut off at zero, of goods worth s.
Raw(o, s) ==
  CASE o.reward = "PERCENT_OFF" -> IF o.capped THEN SmallerOf(s * o.value, 100 * o.cap) ELSE s * o.value
    [] o.reward = "FLAT_OFF"    -> 100 * SmallerOf(o.value, s)
    [] o.reward = "FREE_ITEM"   -> 100 * o.value * o.free
    [] OTHER                    -> 0

\* calculateDiscount is the raw discount, cut off at zero (Math.max).
LEMMA DiscountIs ==
  ASSUME NEW b \in Basket, NEW o \in Offer
  PROVE  LET s == Subtotal(b, In(b)) IN
         /\ s \in Nat /\ Raw(o, s) \in Int
         /\ CalculateDiscount(o, b) = IF Raw(o, s) > 0 THEN Raw(o, s) ELSE 0
<1> DEFINE s == Subtotal(b, In(b))
<1>1. s \in Nat /\ o.value \in Int /\ o.cap \in Int /\ o.free \in Int
  BY InBasket, SubtotalNat, OfferType
<1>2. CalculateDiscount(o, b) = IF Raw(o, s) > 0 THEN Raw(o, s) ELSE 0
  BY DEF CalculateDiscount, Raw
<1> HIDE DEF s
<1>3. s * o.value \in Int /\ 100 * o.value * o.free \in Int /\ 100 * o.cap \in Int
  <2>1. \A x \in Int, y \in Int : x * y \in Int
    OBVIOUS
  <2> QED BY <1>1, <2>1
<1>4. SmallerOf(o.value, s) \in Int /\ SmallerOf(s * o.value, 100 * o.cap) \in Int
  BY <1>1, <1>3 DEF SmallerOf
<1>5. 100 * SmallerOf(o.value, s) \in Int
  BY <1>4
<1>6. Raw(o, s) \in Int
  BY <1>3, <1>4, <1>5, OfferType DEF Raw
<1> QED BY <1>1, <1>2, <1>6 DEF s

\* No offer makes a basket dearer.
LEMMA DiscountNat ==
  ASSUME NEW b \in Basket, NEW o \in Offer
  PROVE  CalculateDiscount(o, b) \in Nat
<1> DEFINE r == Raw(o, Subtotal(b, In(b)))
<1>1. r \in Int /\ CalculateDiscount(o, b) = IF r > 0 THEN r ELSE 0
  BY DiscountIs
<1> HIDE DEF r
<1> QED BY <1>1

\* Whole division.
LEMMA Divided ==
  ASSUME NEW a \in Int, NEW d \in Nat \ {0}
  PROVE  a \div d \in Int /\ d * (a \div d) <= a /\ a < d * (a \div d) + d
  OBVIOUS

\* A column of two decimals is half a paisa off at most.
LEMMA PaiseGap ==
  ASSUME NEW x \in Int
  PROVE  /\ Paise(x) \in Int /\ 100 * Paise(x) - x <= 50 /\ x - 100 * Paise(x) <= 50
         /\ x >= 0 => Paise(x) \in Nat
         /\ \A n \in Nat : x >= 100 * n => Paise(x) >= n
<1>1. CASE x >= 0
  <2>1. x + 50 \in Int /\ 100 \in Nat \ {0} /\ Paise(x) = (x + 50) \div 100
    BY <1>1 DEF Paise
  <2>2. (x + 50) \div 100 \in Int /\ 100 * ((x + 50) \div 100) <= x + 50 /\ x + 50 < 100 * ((x + 50) \div 100) + 100
    BY <2>1, Divided
  <2> QED BY <1>1, <2>1, <2>2
<1>2. CASE ~(x >= 0)
  <2>1. 50 - x \in Int /\ 100 \in Nat \ {0} /\ Paise(x) = -((50 - x) \div 100)
    BY <1>2 DEF Paise
  <2>2. (50 - x) \div 100 \in Int /\ 100 * ((50 - x) \div 100) <= 50 - x /\ 50 - x < 100 * ((50 - x) \div 100) + 100
    BY <2>1, Divided
  <2> QED BY <1>2, <2>1, <2>2
<1> QED BY <1>1, <1>2

\* Without a FREE_ITEM, and without more than a hundred percent, the goods pay for the discount.
LEMMA DiscountPaidFor ==
  ASSUME NEW b \in Basket, NEW o \in Offer, o.reward # "FREE_ITEM", o.reward = "PERCENT_OFF" => o.value <= 100
  PROVE  CalculateDiscount(o, b) <= 100 * Subtotal(b, In(b))
<1> DEFINE s == Subtotal(b, In(b))
<1>1. s \in Nat /\ Raw(o, s) \in Int /\ CalculateDiscount(o, b) = IF Raw(o, s) > 0 THEN Raw(o, s) ELSE 0
  BY DiscountIs
<1>2. o.value \in Int /\ o.cap \in Int
  BY OfferType
<1> HIDE DEF s
<1>3. CASE o.reward = "PERCENT_OFF"
  <2>1. s * o.value \in Int /\ s * o.value <= 100 * s
    <3>1. ASSUME NEW x \in Nat, NEW y \in Int, y <= 100 PROVE x * y \in Int /\ x * y <= 100 * x
      <4>1. (100 - y) \in Nat /\ x * (100 - y) \in Nat /\ x * (100 - y) = 100 * x - x * y
        BY <3>1
      <4>2. x * y \in Int
        OBVIOUS
      <4> QED BY <4>1, <4>2
    <3> QED BY <1>1, <1>2, <1>3, <3>1
  <2>2. SmallerOf(s * o.value, 100 * o.cap) <= s * o.value
    BY <1>2, <2>1 DEF SmallerOf
  <2>3. Raw(o, s) = IF o.capped THEN SmallerOf(s * o.value, 100 * o.cap) ELSE s * o.value
    BY <1>3 DEF Raw
  <2>4. Raw(o, s) <= 100 * s
    BY <1>1, <2>1, <2>2, <2>3
  <2> QED BY <1>1, <2>4 DEF s
<1>4. CASE o.reward = "FLAT_OFF"
  <2>1. Raw(o, s) = 100 * SmallerOf(o.value, s) /\ SmallerOf(o.value, s) \in Int /\ SmallerOf(o.value, s) <= s
    BY <1>1, <1>2, <1>4 DEF Raw, SmallerOf
  <2>2. Raw(o, s) <= 100 * s
    BY <1>1, <2>1
  <2> QED BY <1>1, <2>2 DEF s
<1>5. CASE o.reward = "FREE_SHIPPING"
  <2>1. Raw(o, s) = 0
    BY <1>5 DEF Raw
  <2> QED BY <1>1, <2>1 DEF s
<1> QED BY <1>3, <1>4, <1>5, OfferType

-------------------------------------------------------------------------------
(* The lines' discounts *)

\* The lines an offer is for are lines of the basket.
LEMMA EligibleLines ==
  ASSUME NEW b \in Basket, NEW o \in Offer
  PROVE  /\ Eligible(o, b) \in SUBSET In(b) /\ Eligible(o, b) \in SUBSET Variants
         /\ IsFiniteSet(Eligible(o, b)) /\ Cardinality(Eligible(o, b)) \in Nat
         /\ Cardinality(In(b)) \in Nat /\ Cardinality(Eligible(o, b)) <= Cardinality(In(b))
<1>1. Eligible(o, b) \in SUBSET In(b)
  BY DEF Eligible
<1>2. In(b) \in SUBSET Variants /\ IsFiniteSet(In(b))
  BY InBasket
<1> QED BY <1>1, <1>2, FS_Subset, FS_CardinalityType

\* A line's part of the discount is half a paisa off at most, times the worth of the lines.
LEMMA LineShare ==
  ASSUME NEW b \in Basket, NEW o \in Offer, NEW v \in Variants
  PROVE  /\ LineDiscount(o, b, v) \in Nat
         /\ v \notin Eligible(o, b) => LineDiscount(o, b, v) = 0
         /\ Subtotal(b, Eligible(o, b)) = 0 => LineDiscount(o, b, v) = 0
         /\ v \in Eligible(o, b) /\ Subtotal(b, Eligible(o, b)) # 0 =>
              LET W == Subtotal(b, Eligible(o, b))
                  D == CalculateDiscount(o, b) IN
              /\ (200 * W) * LineDiscount(o, b, v) - (2 * D) * LineTotal(b, v) <= 100 * W
              /\ (2 * D) * LineTotal(b, v) - (200 * W) * LineDiscount(o, b, v) <= 100 * W
<1> DEFINE W == Subtotal(b, Eligible(o, b))
           D == CalculateDiscount(o, b)
           l == LineTotal(b, v)
<1>1. W \in Nat /\ D \in Nat /\ l \in Nat
  BY EligibleLines, SubtotalNat, DiscountNat, LineNat
<1>2. CASE v \notin Eligible(o, b) \/ W = 0
  BY <1>2 DEF LineDiscount
<1>3. CASE v \in Eligible(o, b) /\ W # 0
  <2>1. LineDiscount(o, b, v) = (2 * D * l + 100 * W) \div (200 * W)
    BY <1>3 DEF LineDiscount
  <2> HIDE DEF W, D, l
  <2>2. 2 * D * l + 100 * W \in Nat /\ 200 * W \in Nat \ {0}
    <3>1. 2 * D * l \in Nat
      BY <1>1
    <3> QED BY <1>1, <1>3, <3>1
  <2> DEFINE a == 2 * D * l + 100 * W
             d == 200 * W
             q == a \div d
  <2>3. q \in Int /\ d * q <= a /\ a < d * q + d
    BY <2>2, Divided
  <2>4. 2 * D * l = (2 * D) * l /\ 2 * D * l \in Nat
    BY <1>1
  <2>5. q \in Nat
    BY <2>2, <2>3
  <2>6. d * q - (2 * D) * l <= 100 * W /\ (2 * D) * l - d * q <= 100 * W
    <3>1. d * q \in Int
      BY <2>2, <2>3
    <3> QED BY <1>1, <2>3, <2>4, <3>1
  <2>7. LineDiscount(o, b, v) = q
    BY <2>1
  <2> QED BY <1>3, <2>5, <2>6, <2>7 DEF W, D, l
<1> QED BY <1>2, <1>3

\* Together they are half a paisa off for each line at most, and nothing on goods that are free.
LEMMA SharesAddUp ==
  ASSUME NEW b \in Basket, NEW o \in Offer, NEW L, L = [v \in Variants |-> LineDiscount(o, b, v)]
  PROVE  LET parts == Sum(L, Variants)
             D     == CalculateDiscount(o, b)
             n     == Cardinality(In(b)) IN
         /\ parts \in Nat
         /\ Subtotal(b, Eligible(o, b)) = 0 => parts = 0
         /\ Subtotal(b, Eligible(o, b)) # 0 => 200 * parts - 2 * D <= 100 * n /\ 2 * D - 200 * parts <= 100 * n
<1> DEFINE E == Eligible(o, b)
           W == Subtotal(b, E)
           D == CalculateDiscount(o, b)
           p == Sum(L, E)
           e == Cardinality(E)
           n == Cardinality(In(b))
<1>1. /\ E \in SUBSET Variants /\ IsFiniteSet(E) /\ e \in Nat /\ n \in Nat /\ e <= n
      /\ W \in Nat /\ D \in Nat
  BY EligibleLines, SubtotalNat, DiscountNat
<1>2. (\A v \in Variants : L[v] \in Nat) /\ (\A v \in Variants \ E : L[v] = 0)
  BY LineShare
<1>3. Sum(L, Variants) = p /\ p \in Nat
  <2>1. IsFiniteSet(Variants)
    BY StorefrontAssumption
  <2>2. Sum(L, Variants) \in Nat
    BY <1>2, <2>1, SumNat
  <2>3. Sum(L, Variants) = p
    BY <1>1, <1>2, <2>1, SumPart
  <2> QED BY <2>2, <2>3
<1>4. CASE W = 0
  <2>1. \A v \in E : L[v] = 0 /\ L[v] \in Nat
    BY <1>1, <1>4, LineShare
  <2>2. Sum(L, {}) = Sum(L, E) /\ Sum(L, {}) = 0
    BY <1>1, <2>1, SumPart, SumEmpty
  <2> QED BY <1>3, <1>4, <2>2
<1>5. CASE W # 0
  <2> DEFINE w == Worths(b)
             a == 200 * W
             c == 2 * D
             g == 100 * W
  <2>1. \A v \in E : L[v] \in Int /\ w[v] \in Int /\ w[v] = LineTotal(b, v)
    <3>1. \A v \in E : w[v] \in Nat /\ w[v] = LineTotal(b, v)
      BY <1>1, InBasket
    <3> QED BY <1>1, <1>2, <3>1
  <2>2. \A v \in E : a * L[v] - c * w[v] <= g /\ c * w[v] - a * L[v] <= g
    <3> SUFFICES ASSUME NEW v \in E PROVE a * L[v] - c * w[v] <= g /\ c * w[v] - a * L[v] <= g
      OBVIOUS
    <3>1. v \in Variants /\ L[v] = LineDiscount(o, b, v)
      BY <1>1
    <3> QED BY <1>5, <2>1, <3>1, LineShare
  <2>3. Sum(w, E) = W
    BY <1>1, SubtotalNat
  <2> HIDE DEF E, W, D, w
  <2>4. a \in Int /\ c \in Int /\ g \in Int
    BY <1>1
  <2> HIDE DEF a, c, g
  <2>5. a * p - c * W <= g * e
    BY <1>1, <2>1, <2>2, <2>3, <2>4, SumGap
  <2>6. c * W - a * p <= g * e
    <3>1. \A v \in E : w[v] \in Int /\ L[v] \in Int
      BY <2>1
    <3>2. c * Sum(w, E) - a * Sum(L, E) <= g * Cardinality(E)
      BY <1>1, <2>2, <2>4, <3>1, SumGap
    <3> QED BY <2>3, <3>2
  <2> HIDE DEF p, e, n
  <2>7. ASSUME NEW x \in Nat, NEW y \in Nat, NEW z \in Nat, NEW u \in Nat, y # 0
        PROVE  /\ (200 * y) * x - (2 * z) * y <= (100 * y) * u => 200 * x - 2 * z <= 100 * u
               /\ (2 * z) * y - (200 * y) * x <= (100 * y) * u => 2 * z - 200 * x <= 100 * u
    <3> DEFINE k == 200 * x - 2 * z - 100 * u
               m == 2 * z - 200 * x - 100 * u
    <3>1. k \in Int /\ m \in Int
      OBVIOUS
    <3>2. /\ (200 * y) * x - (2 * z) * y - (100 * y) * u = y * k
          /\ (2 * z) * y - (200 * y) * x - (100 * y) * u = y * m
      OBVIOUS
    <3>3. /\ (200 * y) * x \in Int /\ (2 * z) * y \in Int /\ (100 * y) * u \in Int
          /\ 200 * x \in Int /\ 2 * z \in Int /\ 100 * u \in Int
      OBVIOUS
    <3>4. \A t \in Int : y * t <= 0 => t <= 0
      <4>1. ASSUME NEW t \in Int, t >= 1 PROVE y * t >= 1
        BY <2>7, <4>1
      <4> QED BY <4>1
    <3> HIDE DEF k, m
    <3>5. /\ (200 * y) * x - (2 * z) * y <= (100 * y) * u => k <= 0
          /\ (2 * z) * y - (200 * y) * x <= (100 * y) * u => m <= 0
      BY <3>1, <3>2, <3>3, <3>4
    <3> QED BY <3>3, <3>5 DEF k, m
  <2>8. 200 * p - 2 * D <= 100 * e /\ 2 * D - 200 * p <= 100 * e
    BY <1>1, <1>3, <1>5, <2>5, <2>6, <2>7 DEF a, c, g
  <2>9. 200 * p - 2 * D <= 100 * n /\ 2 * D - 200 * p <= 100 * n
    BY <1>1, <1>3, <2>8
  <2> QED BY <1>3, <1>5, <2>9 DEF p, D, W, E, n
<1> QED BY <1>3, <1>4, <1>5

-------------------------------------------------------------------------------
(* Winners *)

\* What an offer of these would take off; the offers that are given.
Gains(offers, b) == [o \in offers |-> CalculateDiscount(o, b)]

\* Winners are candidates, candidates are offers that run, and their discounts are comparable.
LEMMA CandidateOffers ==
  ASSUME NEW b \in Basket, NEW offers \in SUBSET OfferBook, NEW channel
  PROVE  /\ offers \in SUBSET Offer
         /\ Candidates(offers, channel, b) \in SUBSET offers /\ IsFiniteSet(Candidates(offers, channel, b))
         /\ Winners(offers, channel, b) \in SUBSET Candidates(offers, channel, b)
         /\ \A o \in offers : CalculateDiscount(o, b) \in Nat
<1>1. offers \in SUBSET Offer /\ IsFiniteSet(OfferBook) /\ Candidates(offers, channel, b) \in SUBSET offers
  BY StorefrontAssumption DEF Candidates
<1>2. IsFiniteSet(Candidates(offers, channel, b))
  BY <1>1, FS_Subset
<1>3. Winners(offers, channel, b) \in SUBSET Candidates(offers, channel, b)
  BY DEF Winners
<1>4. \A o \in offers : CalculateDiscount(o, b) \in Nat
  BY <1>1, DiscountNat
<1> QED BY <1>1, <1>2, <1>3, <1>4

\* Where there is a candidate there is a winner.
LEMMA WinnerExists ==
  ASSUME NEW b \in Basket, NEW offers \in SUBSET OfferBook, NEW channel, Candidates(offers, channel, b) # {}
  PROVE  Winners(offers, channel, b) # {}
<1> DEFINE all == Candidates(offers, channel, b)
           f == Gains(offers, b)
<1>1. IsFiniteSet(all) /\ \A o \in all : f[o] = CalculateDiscount(o, b) /\ f[o] \in Int
  BY CandidateOffers DEF Gains
<1>2. PICK m \in all : \A o \in all : f[o] <= f[m]
  <2> HIDE DEF f, all
  <2>1. all # {}
    BY DEF all
  <2>2. \A o \in all : f[o] \in Int
    BY <1>1
  <2> QED BY <1>1, <2>1, <2>2, Largest
<1>3. \A o \in all : CalculateDiscount(o, b) <= CalculateDiscount(m, b)
  BY <1>1, <1>2
<1> QED BY <1>3 DEF Winners

-------------------------------------------------------------------------------
(* More in the basket *)

LEMMA MoreLines ==
  ASSUME NEW b \in Basket, NEW c \in Basket, \A v \in Variants : c[v] >= b[v]
  PROVE  /\ In(b) \in SUBSET In(c)
         /\ Subtotal(b, In(b)) \in Nat /\ Subtotal(c, In(c)) \in Nat /\ Subtotal(b, In(b)) <= Subtotal(c, In(c))
         /\ \A S \in SUBSET In(b), T \in SUBSET In(c) :
              S \subseteq T => Sum(b, S) \in Nat /\ Sum(c, T) \in Nat /\ Sum(b, S) <= Sum(c, T)
<1>1. \A v \in Variants : b[v] \in Nat /\ c[v] \in Nat /\ Price[v] \in Nat
  BY StorefrontAssumption DEF Basket
<1>2. In(b) \in SUBSET In(c) /\ In(c) \in SUBSET Variants
  BY <1>1 DEF In
<1>3. \A S \in SUBSET Variants : IsFiniteSet(S)
  BY StorefrontAssumption, FS_Subset
<1>4. Subtotal(b, In(b)) <= Subtotal(c, In(c)) /\ Subtotal(b, In(b)) \in Nat /\ Subtotal(c, In(c)) \in Nat
  <2> DEFINE f == Worths(b)
             g == Worths(c)
  <2>1. \A v \in In(c) : f[v] \in Nat /\ g[v] \in Nat /\ f[v] <= g[v]
    <3> SUFFICES ASSUME NEW v \in In(c) PROVE f[v] \in Nat /\ g[v] \in Nat /\ f[v] <= g[v]
      OBVIOUS
    <3>1. f[v] = Price[v] * b[v] /\ g[v] = Price[v] * c[v]
      BY <1>2 DEF Worths, LineTotal
    <3>2. \A p \in Nat, x \in Nat, y \in Nat : x <= y => p * x \in Nat /\ p * y \in Nat /\ p * x <= p * y
      <4>1. ASSUME NEW p \in Nat, NEW x \in Nat, NEW y \in Nat, x <= y
            PROVE  p * x \in Nat /\ p * y \in Nat /\ p * x <= p * y
        <5>1. y - x \in Nat /\ p * (y - x) \in Nat /\ p * (y - x) = p * y - p * x
          BY <4>1
        <5> QED BY <4>1, <5>1
      <4> QED BY <4>1
    <3>3. Price[v] \in Nat /\ b[v] \in Nat /\ c[v] \in Nat /\ b[v] <= c[v]
      BY <1>1, <1>2
    <3> QED BY <3>1, <3>2, <3>3
  <2>2. /\ Subtotal(b, In(b)) = Sum(f, In(b)) /\ Subtotal(b, In(b)) \in Nat
        /\ Subtotal(c, In(c)) = Sum(g, In(c)) /\ Subtotal(c, In(c)) \in Nat
    BY <1>2, SubtotalNat
  <2> HIDE DEF f, g
  <2>3. Sum(f, In(b)) <= Sum(f, In(c))
    BY <1>2, <1>3, <2>1, SumPart
  <2>4. Sum(f, In(c)) <= Sum(g, In(c)) /\ Sum(f, In(c)) \in Int
    <3>1. \A v \in In(c) : f[v] \in Int /\ g[v] \in Int /\ f[v] <= g[v]
      BY <2>1
    <3> QED BY <1>2, <1>3, <3>1, SumMore, SumInt
  <2> QED BY <2>2, <2>3, <2>4
<1>5. ASSUME NEW S \in SUBSET In(b), NEW T \in SUBSET In(c), S \subseteq T
      PROVE  Sum(b, S) \in Nat /\ Sum(c, T) \in Nat /\ Sum(b, S) <= Sum(c, T)
  <2>1. IsFiniteSet(S) /\ IsFiniteSet(T) /\ S \in SUBSET T /\ T \in SUBSET Variants
    BY <1>2, <1>3, <1>5
  <2>2. (\A v \in T : b[v] \in Nat) /\ (\A v \in T : c[v] \in Nat) /\ (\A v \in S : b[v] \in Nat)
    BY <1>1, <2>1
  <2>3. Sum(b, S) \in Nat
    BY <2>1, <2>2, SumNat
  <2>4. Sum(b, T) \in Nat /\ Sum(b, S) <= Sum(b, T)
    BY <2>1, <2>2, SumNat, SumPart
  <2>5. Sum(c, T) \in Nat
    BY <2>1, <2>2, SumNat
  <2>6. Sum(b, T) <= Sum(c, T)
    <3>1. \A v \in T : b[v] \in Int /\ c[v] \in Int /\ b[v] <= c[v]
      BY <1>1, <2>1
    <3> QED BY <2>1, <3>1, SumMore
  <2> QED BY <2>3, <2>4, <2>5, <2>6
<1> QED BY <1>2, <1>4, <1>5

\* An offer that is given stays given, and is worth no less.
LEMMA MoreForAnOffer ==
  ASSUME NEW b \in Basket, NEW c \in Basket, \A v \in Variants : c[v] >= b[v], NEW o \in Offer
  PROVE  /\ CheckTrigger(o, b) => CheckTrigger(o, c)
         /\ CalculateDiscount(o, b) <= CalculateDiscount(o, c)
<1> DEFINE s == Subtotal(b, In(b))
           t == Subtotal(c, In(c))
           Q(x) == {v \in In(x) : o.products = {} \/ ProductOf[v] \in o.products}
<1>1. /\ o.value \in Int /\ o.cap \in Int /\ o.free \in Int /\ o.minimum \in Nat /\ o.quantity \in Int
      /\ o.reward \in {"PERCENT_OFF", "FLAT_OFF", "FREE_ITEM", "FREE_SHIPPING"}
  BY OfferType
<1>2. s \in Nat /\ t \in Nat /\ s <= t /\ In(b) \in SUBSET In(c)
  BY MoreLines
<1>3. Q(b) \in SUBSET In(b) /\ Q(c) \in SUBSET In(c) /\ Q(b) \subseteq Q(c)
  BY <1>2
<1>4. Sum(b, Q(b)) \in Nat /\ Sum(c, Q(c)) \in Nat /\ Sum(b, Q(b)) <= Sum(c, Q(c))
  <2> HIDE DEF Q
  <2> QED BY <1>3, MoreLines
<1>5. CheckTrigger(o, b) => CheckTrigger(o, c)
  <2> SUFFICES ASSUME CheckTrigger(o, b), ~o.entireStore PROVE CheckTrigger(o, c)
    BY DEF CheckTrigger
  <2>1. /\ s >= o.minimum /\ (o.products # {} => Q(b) # {}) /\ Sum(b, Q(b)) >= o.quantity
        /\ o.categories # {} => \E v \in In(b) : CategoryOf[ProductOf[v]] \in o.categories
    BY DEF CheckTrigger
  <2>2. t >= o.minimum /\ Sum(c, Q(c)) >= o.quantity
    <3> HIDE DEF s, t, Q
    <3> QED BY <1>1, <1>2, <1>4, <2>1
  <2>3. /\ o.products # {} => Q(c) # {}
        /\ o.categories # {} => \E v \in In(c) : CategoryOf[ProductOf[v]] \in o.categories
    BY <1>2, <1>3, <2>1
  <2> QED BY <2>2, <2>3 DEF CheckTrigger
<1>6. CalculateDiscount(o, b) <= CalculateDiscount(o, c)
  <2>1. /\ Raw(o, s) \in Int /\ CalculateDiscount(o, b) = IF Raw(o, s) > 0 THEN Raw(o, s) ELSE 0
        /\ Raw(o, t) \in Int /\ CalculateDiscount(o, c) = IF Raw(o, t) > 0 THEN Raw(o, t) ELSE 0
    BY DiscountIs
  <2> HIDE DEF s, t
  <2>2. Raw(o, s) > 0 => Raw(o, s) <= Raw(o, t)
    <3>1. ASSUME NEW x \in Int, NEW y \in Nat, NEW z \in Nat, y <= z
          PROVE  /\ y * x \in Int /\ z * x \in Int /\ x >= 0 => y * x <= z * x
                 /\ x < 0 => y * x <= 0
      <4>1. y * x \in Int /\ z * x \in Int /\ (z - y) \in Nat /\ (z - y) * x = z * x - y * x
        BY <3>1
      <4>2. x >= 0 => (z - y) * x >= 0
        BY <4>1
      <4>3. x < 0 => y * x <= 0
        OBVIOUS
      <4> QED BY <4>1, <4>2, <4>3
    <3>2. CASE o.reward = "PERCENT_OFF"
      <4>1. /\ s * o.value \in Int /\ t * o.value \in Int
            /\ o.value >= 0 => s * o.value <= t * o.value
            /\ o.value < 0 => s * o.value <= 0
        BY <1>1, <1>2, <3>1
      <4>2. ASSUME NEW x \in Int, NEW y \in Int, NEW k \in Int
            PROVE  /\ x <= y => SmallerOf(x, k) <= SmallerOf(y, k)
                   /\ x <= 0 => SmallerOf(x, k) <= 0
        BY DEF SmallerOf
      <4> DEFINE x == s * o.value
                 y == t * o.value
                 k == 100 * o.cap
      <4>3. x \in Int /\ y \in Int /\ k \in Int
        BY <1>1, <4>1
      <4>4. /\ Raw(o, s) = IF o.capped THEN SmallerOf(x, k) ELSE x
            /\ Raw(o, t) = IF o.capped THEN SmallerOf(y, k) ELSE y
        BY <3>2 DEF Raw
      <4>5. (o.value >= 0 /\ x <= y) \/ (o.value < 0 /\ x <= 0)
        BY <1>1, <4>1
      <4> HIDE DEF SmallerOf, x, y, k
      <4>6. /\ x <= y => SmallerOf(x, k) <= SmallerOf(y, k)
            /\ x <= 0 => SmallerOf(x, k) <= 0
        BY <4>2, <4>3
      <4>7. CASE x <= y
        BY <4>4, <4>6, <4>7
      <4>8. CASE x <= 0
        <5>1. Raw(o, s) <= 0
          BY <4>4, <4>6, <4>8
        <5> QED BY <2>1, <5>1
      <4> QED BY <4>5, <4>7, <4>8
    <3>3. CASE o.reward = "FLAT_OFF"
      <4>1. 100 * SmallerOf(o.value, s) <= 100 * SmallerOf(o.value, t)
        BY <1>1, <1>2 DEF SmallerOf
      <4> QED BY <3>3, <4>1 DEF Raw
    <3>4. CASE o.reward \in {"FREE_ITEM", "FREE_SHIPPING"}
      <4>1. Raw(o, s) = Raw(o, t)
        BY <3>4 DEF Raw
      <4> QED BY <2>1, <4>1
    <3> QED BY <1>1, <3>2, <3>3, <3>4
  <2> QED BY <2>1, <2>2
<1> QED BY <1>5, <1>6

\* So the best of them is, of more offers as well.
LEMMA MoreForAll ==
  ASSUME NEW b \in Basket, NEW c \in Basket, \A v \in Variants : c[v] >= b[v],
         NEW more \in SUBSET OfferBook, NEW offers \in SUBSET more
  PROVE  Discount(more, c) >= Discount(offers, b)
<1> DEFINE best  == CHOOSE o \in Winners(offers, "APP", b) : TRUE
           after == CHOOSE o \in Winners(more, "APP", c) : TRUE
<1>1. /\ more \in SUBSET Offer /\ offers \in SUBSET OfferBook
      /\ Candidates(offers, "APP", b) \in SUBSET offers /\ Candidates(more, "APP", c) \in SUBSET more
      /\ Winners(offers, "APP", b) \in SUBSET Candidates(offers, "APP", b)
      /\ Winners(more, "APP", c) \in SUBSET Candidates(more, "APP", c)
      /\ \A o \in more : CalculateDiscount(o, c) \in Nat
  BY CandidateOffers
<1>2. CASE Winners(offers, "APP", b) = {}
  <2>1. Discount(offers, b) = 0
    BY <1>2 DEF Discount
  <2>2. Discount(more, c) \in Nat
    <3>1. Winners(more, "APP", c) # {} => after \in more
      BY <1>1
    <3> QED BY <1>1, <3>1 DEF Discount
  <2> QED BY <2>1, <2>2
<1>3. CASE Winners(offers, "APP", b) # {}
  <2>1. /\ best \in Candidates(offers, "APP", b) /\ best \in more /\ best \in Offer
        /\ Discount(offers, b) = CalculateDiscount(best, b)
    BY <1>1, <1>3 DEF Discount
  <2> HIDE DEF best
  <2>2. /\ CalculateDiscount(best, b) \in Nat /\ CalculateDiscount(best, c) \in Nat
        /\ CalculateDiscount(best, b) <= CalculateDiscount(best, c)
    BY <1>1, <2>1, CandidateOffers, MoreForAnOffer
  <2>3. best \in Candidates(more, "APP", c)
    <3>1. CheckTrigger(best, c)
      BY <2>1, MoreForAnOffer DEF Candidates
    <3> QED BY <2>1, <2>2, <3>1 DEF Candidates
  <2>4. Winners(more, "APP", c) # {}
    BY <2>3, WinnerExists
  <2>5. after \in Winners(more, "APP", c) /\ Discount(more, c) = CalculateDiscount(after, c) /\ after \in more
    BY <1>1, <2>4 DEF Discount
  <2>6. CalculateDiscount(best, c) <= CalculateDiscount(after, c) /\ CalculateDiscount(after, c) \in Nat
    BY <1>1, <2>3, <2>5 DEF Winners
  <2> HIDE DEF after
  <2> QED BY <2>1, <2>2, <2>5, <2>6
<1> QED BY <1>2, <1>3

-------------------------------------------------------------------------------
(* The invariant *)

Entries == Hours \cup {None}

\* Yesterday of today is in the calendar, and the hours are what may be entered.
Calendar ==
  /\ now.date - 1 \in Dates
  /\ schedule \in [Weekdays -> Entries] /\ exception \in [Dates -> Entries]

Types ==
  /\ topic \in Topics /\ changes \in 0..MaxChanges /\ paused \in BOOLEAN
  /\ now \in [date : Dates, slot : Slots] /\ midnight \in Nat
  /\ running \in SUBSET OfferBook /\ basket \in Basket
  /\ checkout \in [at : {"idle", "admitted", "evaluated", "committed"}, channel : {"APP", "POS"},
                   fee : {0, Fee}, offers : SUBSET OfferBook, winner : SUBSET OfferBook]

\* The basket is what the offers were evaluated for, and the winner one of their best, if any is given.
Evaluated ==
  checkout.at \in {"evaluated", "committed"} =>
    LET best == Winners(checkout.offers, checkout.channel, basket) IN
    \/ best = {} /\ checkout.winner = {}
    \/ \E o \in best : checkout.winner = {o}

\* The order that createOrder writes for these.
Written ==
  LET w        == checkout.winner
      discount == Sum([o \in w |-> CalculateDiscount(o, basket)], w)
      subtotal == Subtotal(basket, In(basket)) IN
  [placed   |-> TRUE, subtotal |-> subtotal, fee |-> checkout.fee,
   discount |-> Paise(discount),
   total    |-> Paise(100 * (subtotal + checkout.fee) - discount),
   lines    |-> [v \in Variants |-> Sum([o \in w |-> LineDiscount(o, basket, v)], w)],
   reward   |-> IF w = {} THEN NoOne ELSE (CHOOSE o \in w : TRUE).reward]

Placed == order = IF checkout.at = "committed" THEN Written ELSE NoOrder

IInv == Calendar /\ Types /\ Evaluated /\ Placed

-------------------------------------------------------------------------------
(* What is written *)

OrderType == [placed : BOOLEAN, subtotal : Nat, fee : {0, Fee}, discount : Nat, total : Int,
              lines : [Variants -> Nat], reward : {o.reward : o \in OfferBook} \cup {NoOne}]

\* The three claims of MoneyAddsUp, for an order r.
ColumnsFit(r) == r.subtotal + r.fee - r.discount - r.total \in -1..1

LinesFit(r) ==
  LET parts == Sum(r.lines, Variants)
      n     == Cardinality(In(basket)) IN
  \/ 2 * (parts - r.discount) \in -(n + 1)..(n + 1)
  \/ parts = 0 /\ \E o \in checkout.winner : Subtotal(basket, Eligible(o, basket)) = 0

NotPaid(r) ==
  \/ r.total >= r.fee
  \/ r.reward = "FREE_ITEM"
  \/ r.reward = "PERCENT_OFF" /\ \E o \in checkout.winner : o.value > 100

\* What checkout writes where no offer was given.
LEMMA NoOfferGiven ==
  ASSUME Types, checkout.winner = {}
  PROVE  Written \in OrderType /\ ColumnsFit(Written) /\ LinesFit(Written) /\ NotPaid(Written)
<1> DEFINE s == Subtotal(basket, In(basket))
           fee == checkout.fee
           L == [v \in Variants |-> Sum([o \in {} |-> LineDiscount(o, basket, v)], {})]
           n == Cardinality(In(basket))
<1>1. s \in Nat /\ fee \in {0, Fee} /\ fee \in Nat /\ n \in Nat
  BY StorefrontAssumption, InBasket, SubtotalNat, FS_CardinalityType DEF Types
<1>2. \A v \in Variants : L[v] = 0
  BY SumEmpty
<1>3. L \in [Variants -> Nat] /\ Sum(L, Variants) = 0
  <2>1. L \in [Variants -> Nat]
    BY <1>2
  <2> HIDE DEF L
  <2>2. /\ IsFiniteSet(Variants) /\ {} \in SUBSET Variants
        /\ (\A v \in Variants : L[v] \in Nat) /\ (\A v \in Variants \ {} : L[v] = 0)
    BY <1>2, StorefrontAssumption
  <2>3. Sum(L, {}) = Sum(L, Variants)
    BY <2>2, SumPart
  <2> QED BY <2>1, <2>3, SumEmpty
<1>4. /\ Written.placed = TRUE /\ Written.subtotal = s /\ Written.fee = fee
      /\ Written.discount = Paise(0) /\ Written.total = Paise(100 * (s + fee) - 0)
      /\ Written.lines = L /\ Written.reward = NoOne
  <2>1. Sum([o \in {} |-> CalculateDiscount(o, basket)], {}) = 0
    BY SumEmpty
  <2> QED BY <2>1 DEF Written
<1>5. Written = [placed |-> TRUE, subtotal |-> s, fee |-> fee, discount |-> Paise(0),
                 total |-> Paise(100 * (s + fee) - 0), lines |-> L, reward |-> NoOne]
  <2>1. Sum([o \in {} |-> CalculateDiscount(o, basket)], {}) = 0
    BY SumEmpty
  <2> QED BY <2>1 DEF Written
<1> HIDE DEF s, fee, L, n
<1> DEFINE x == 100 * (s + fee) - 0
<1>6. x \in Int /\ x = 100 * (s + fee) /\ s + fee \in Nat
  BY <1>1
<1> HIDE DEF x
<1>7. Paise(0) \in Nat /\ 100 * Paise(0) <= 50 /\ Paise(0) = 0
  <2>1. 0 \in Int /\ 0 >= 0
    OBVIOUS
  <2>2. Paise(0) \in Int /\ 100 * Paise(0) - 0 <= 50 /\ 0 - 100 * Paise(0) <= 50
    BY <2>1, PaiseGap
  <2> QED BY <2>2
<1>8. Paise(x) \in Int /\ 100 * Paise(x) - x <= 50 /\ x - 100 * Paise(x) <= 50 /\ Paise(x) >= s + fee
  BY <1>6, PaiseGap
<1>9. Written \in OrderType
  BY <1>1, <1>3, <1>5, <1>7, <1>8 DEF OrderType, x
<1>10. ColumnsFit(Written)
  BY <1>1, <1>4, <1>6, <1>7, <1>8 DEF ColumnsFit, x
<1>11. LinesFit(Written)
  BY <1>1, <1>3, <1>4, <1>7 DEF LinesFit, n
<1>12. NotPaid(Written)
  BY <1>1, <1>4, <1>8 DEF NotPaid, x
<1> QED BY <1>9, <1>10, <1>11, <1>12

\* What checkout writes where one was: its lines share the discount as SharesAddUp says.
LEMMA OneOfferGiven ==
  ASSUME Types, NEW o \in OfferBook, checkout.winner = {o}
  PROVE  Written \in OrderType /\ ColumnsFit(Written) /\ LinesFit(Written) /\ NotPaid(Written)
<1> DEFINE s == Subtotal(basket, In(basket))
           fee == checkout.fee
           D == CalculateDiscount(o, basket)
           W == Subtotal(basket, Eligible(o, basket))
           L == [v \in Variants |-> LineDiscount(o, basket, v)]
           n == Cardinality(In(basket))
<1>1. o \in Offer /\ basket \in Basket
  BY StorefrontAssumption DEF Types
<1>2. s \in Nat /\ fee \in {0, Fee} /\ fee \in Nat /\ n \in Nat /\ D \in Nat /\ W \in Nat
  BY <1>1, StorefrontAssumption, InBasket, EligibleLines, SubtotalNat, DiscountNat, FS_CardinalityType
     DEF Types
<1>3. L \in [Variants -> Nat]
  BY <1>1, LineShare
<1>4. /\ Sum(L, Variants) \in Nat
      /\ W = 0 => Sum(L, Variants) = 0
      /\ W # 0 => 200 * Sum(L, Variants) - 2 * D <= 100 * n /\ 2 * D - 200 * Sum(L, Variants) <= 100 * n
  BY <1>1, SharesAddUp
<1>5. Sum([x \in {o} |-> CalculateDiscount(x, basket)], {o}) = D
  <2> DEFINE f == [x \in {o} |-> CalculateDiscount(x, basket)]
  <2>1. f[o] = D /\ f[o] \in Int
    BY <1>2
  <2> HIDE DEF f
  <2>2. Sum(f, {o}) = D
    BY <2>1, SumOne
  <2> QED BY <2>2 DEF f
<1>6. ASSUME NEW v \in Variants
      PROVE  Sum([x \in {o} |-> LineDiscount(x, basket, v)], {o}) = LineDiscount(o, basket, v)
  <2> DEFINE f == [x \in {o} |-> LineDiscount(x, basket, v)]
  <2>1. f[o] = LineDiscount(o, basket, v) /\ f[o] \in Int
    BY <1>1, LineShare
  <2> HIDE DEF f
  <2>2. Sum(f, {o}) = LineDiscount(o, basket, v)
    BY <2>1, SumOne
  <2> QED BY <2>2 DEF f
<1>7. Written = [placed |-> TRUE, subtotal |-> s, fee |-> fee, discount |-> Paise(D),
                 total |-> Paise(100 * (s + fee) - D), lines |-> L, reward |-> o.reward]
  <2>1. (CHOOSE x \in {o} : TRUE) = o
    OBVIOUS
  <2>2. [v \in Variants |-> Sum([x \in {o} |-> LineDiscount(x, basket, v)], {o})] = L
    BY <1>6
  <2> HIDE DEF L, D
  <2> QED BY <1>5, <2>1, <2>2 DEF Written
<1>8. D <= 100 * s \/ o.reward = "FREE_ITEM" \/ (o.reward = "PERCENT_OFF" /\ o.value > 100)
  <2>1. ASSUME ~(o.reward = "PERCENT_OFF" /\ o.value > 100) PROVE o.reward = "PERCENT_OFF" => o.value <= 100
    BY <1>1, <2>1, OfferType
  <2> QED BY <1>1, <2>1, DiscountPaidFor
<1> HIDE DEF s, fee, D, W, L
<1> DEFINE x == 100 * (s + fee) - D
           d == Paise(D)
           t == Paise(x)
           parts == Sum(L, Variants)
<1>9. d \in Nat /\ 100 * d - D <= 50 /\ D - 100 * d <= 50
  <2>1. D \in Int /\ D >= 0
    BY <1>2
  <2>2. Paise(D) \in Int /\ 100 * Paise(D) - D <= 50 /\ D - 100 * Paise(D) <= 50
    BY <2>1, PaiseGap
  <2>3. Paise(D) \in Nat
    BY <2>1, PaiseGap
  <2> QED BY <2>2, <2>3
<1>10. x \in Int /\ t \in Int /\ 100 * t - x <= 50 /\ x - 100 * t <= 50 /\ (x >= 100 * fee => t >= fee)
  <2>1. x \in Int
    BY <1>2
  <2> HIDE DEF x
  <2> QED BY <1>2, <2>1, PaiseGap
<1> HIDE DEF d, t, parts
<1>11. /\ Written.subtotal = s /\ Written.fee = fee /\ Written.discount = d /\ Written.total = t
       /\ Written.lines = L /\ Written.reward = o.reward
  BY <1>7 DEF d, t
<1>12. Written \in OrderType
  <2>1. o.reward \in {y.reward : y \in OfferBook} \cup {NoOne}
    OBVIOUS
  <2> QED BY <1>2, <1>3, <1>7, <1>9, <1>10, <2>1 DEF OrderType, d, t
<1>13. ColumnsFit(Written)
  <2>1. s + fee - d - t \in -1..1
    BY <1>2, <1>9, <1>10
  <2> QED BY <1>11, <2>1 DEF ColumnsFit
<1>14. LinesFit(Written)
  <2>1. CASE W = 0
    <3>1. \E y \in checkout.winner : Subtotal(basket, Eligible(y, basket)) = 0
      BY <2>1 DEF W
    <3> QED BY <1>4, <1>11, <2>1, <3>1 DEF LinesFit
  <2>2. CASE W # 0
    <3>1. parts \in Nat /\ 200 * parts - 2 * D <= 100 * n /\ 2 * D - 200 * parts <= 100 * n
      BY <1>4, <2>2 DEF parts
    <3> HIDE DEF n
    <3>2. 2 * (parts - d) \in -(n + 1)..(n + 1)
      BY <1>2, <1>9, <3>1
    <3> QED BY <1>11, <3>2 DEF LinesFit, parts, n
  <2> QED BY <2>1, <2>2
<1>15. NotPaid(Written)
  <2>1. CASE D <= 100 * s
    <3>1. x >= 100 * fee
      BY <1>2, <2>1
    <3> QED BY <1>10, <1>11, <3>1 DEF NotPaid
  <2>2. CASE o.reward = "FREE_ITEM"
    BY <1>11, <2>2 DEF NotPaid
  <2>3. CASE o.reward = "PERCENT_OFF" /\ o.value > 100
    BY <1>11, <2>3 DEF NotPaid
  <2> QED BY <1>8, <2>1, <2>2, <2>3
<1> QED BY <1>12, <1>13, <1>14, <1>15

\* So what checkout writes adds up in either case.
LEMMA WhatIsWritten ==
  ASSUME Types, Evaluated, checkout.at \in {"evaluated", "committed"}
  PROVE  Written \in OrderType /\ ColumnsFit(Written) /\ LinesFit(Written) /\ NotPaid(Written)
<1>1. CASE checkout.winner = {}
  BY <1>1, NoOfferGiven
<1>2. CASE checkout.winner # {}
  <2>1. PICK o : checkout.winner = {o}
    BY <1>2 DEF Evaluated
  <2>2. o \in OfferBook
    BY <2>1 DEF Types
  <2> QED BY <2>1, <2>2, OneOfferGiven
<1> QED BY <1>1, <1>2

-------------------------------------------------------------------------------
(* The invariant is kept *)

\* The calendar starts on its second date: the first is what UTC may take for it.
LEMMA FirstDateIs == FirstDate \in Dates /\ FirstDate - 1 \in Dates /\ FirstDate \in Int
<1>1. \E d \in Dates : d - 1 \in Dates /\ \A x \in Dates : d <= x + 1
  BY StorefrontAssumption
<1>2. FirstDate \in Dates /\ FirstDate - 1 \in Dates
  BY <1>1 DEF FirstDate
<1> QED BY <1>2, StorefrontAssumption

\* Both baskets a customer may start with are baskets.
LEMMA BasketsToStart == FirstBasket \in Basket /\ Empty \in Basket
<1>1. 0 \in 0..MaxQty /\ 1 \in 0..MaxQty
  BY StorefrontAssumption
<1> QED BY <1>1 DEF FirstBasket, Empty, Basket

\* The request that is none has the type of requests.
LEMMA IdleType ==
  Idle \in [at : {"idle", "admitted", "evaluated", "committed"}, channel : {"APP", "POS"},
            fee : {0, Fee}, offers : SUBSET OfferBook, winner : SUBSET OfferBook]
  BY DEF Idle

\* The invariant holds at first.
LEMMA InvInit == Init => IInv
<1> SUFFICES ASSUME Init PROVE IInv
  OBVIOUS
<1>1. Calendar
  BY FirstDateIs DEF Init, Calendar, Entries
<1>2. Types
  <2>1. Cardinality(Slots) \in Nat /\ 0 \in Slots /\ 0 \in 0..MaxChanges
    BY StorefrontAssumption, FS_CardinalityType
  <2>2. topic \in Topics /\ changes \in 0..MaxChanges /\ paused \in BOOLEAN /\ midnight \in Nat
    <3>1. topic \in Topics /\ paused \in BOOLEAN
      BY DEF Init
    <3>2. changes \in 0..MaxChanges
      BY <2>1 DEF Init
    <3>3. midnight = 0 \/ midnight = Cardinality(Slots)
      BY DEF Init
    <3> QED BY <2>1, <3>1, <3>2, <3>3
  <2>3. now \in [date : Dates, slot : Slots]
    BY <2>1, FirstDateIs DEF Init
  <2>4. running \in SUBSET OfferBook
    BY DEF Init
  <2>5. basket \in Basket /\ checkout = Idle
    BY BasketsToStart DEF Init
  <2> QED BY <2>2, <2>3, <2>4, <2>5, IdleType DEF Types
<1>3. Evaluated
  BY DEF Init, Idle, Evaluated
<1>4. Placed
  BY DEF Init, Idle, Placed
<1> QED BY <1>1, <1>2, <1>3, <1>4 DEF IInv

\* Who changes neither the basket nor the request leaves what was evaluated and written.
LEMMA RequestStays ==
  ASSUME Evaluated, Placed, UNCHANGED <<basket, checkout, order>>
  PROVE  Evaluated' /\ Placed'
<1>1. Written' = Written
  BY DEF Written
<1> QED BY <1>1 DEF Evaluated, Placed

\* Nor does a request that has not come to the offers, or that is gone, depend on the basket.
LEMMA RequestIsYoung ==
  ASSUME order' = NoOrder, checkout'.at \in {"idle", "admitted"}
  PROVE  Evaluated' /\ Placed'
  BY DEF Evaluated, Placed

\* A change of the owner's, to hours or offers, leaves the request and what was written.
LEMMA OwnerKeeps ==
  ASSUME IInv, OwnerOnly, changes < MaxChanges, changes' = changes + 1, UNCHANGED topic,
         paused' \in BOOLEAN, running' \in SUBSET OfferBook,
         schedule' \in [Weekdays -> Entries], exception' \in [Dates -> Entries]
  PROVE  IInv'
<1>1. changes' \in 0..MaxChanges
  BY StorefrontAssumption DEF IInv, Types
<1>2. Types'
  BY <1>1 DEF IInv, Types, OwnerOnly
<1>3. Calendar'
  BY DEF IInv, Calendar, OwnerOnly
<1>4. Evaluated' /\ Placed'
  BY RequestStays DEF IInv, OwnerOnly
<1> QED BY <1>2, <1>3, <1>4 DEF IInv

\* Every step keeps the invariant.
LEMMA InvNext == IInv /\ [Next]_vars => IInv'
<1> SUFFICES ASSUME IInv, [Next]_vars PROVE IInv'
  OBVIOUS
<1>1. /\ Calendar /\ Types /\ Evaluated /\ Placed
      /\ schedule \in [Weekdays -> Entries] /\ exception \in [Dates -> Entries]
      /\ paused \in BOOLEAN /\ running \in SUBSET OfferBook
  BY DEF IInv, Types, Calendar
<1>2. ASSUME NEW w \in Weekdays, NEW e \in Hours, SetHours(w, e) PROVE IInv'
  <2>1. schedule' \in [Weekdays -> Entries]
    BY <1>1, <1>2 DEF SetHours, Entries
  <2> QED BY <1>1, <1>2, <2>1, OwnerKeeps DEF SetHours, Changes
<1>3. ASSUME NEW d \in Dates, NEW e \in Entries, SetException(d, e) PROVE IInv'
  <2>1. exception' \in [Dates -> Entries]
    BY <1>1, <1>3 DEF SetException
  <2> QED BY <1>1, <1>3, <2>1, OwnerKeeps DEF SetException, Changes
<1>4. CASE TogglePause
  BY <1>1, <1>4, OwnerKeeps DEF TogglePause, Changes
<1>5. ASSUME NEW o \in OfferBook, ToggleOffer(o) PROVE IInv'
  <2>1. running' \in SUBSET OfferBook
    BY <1>1, <1>5 DEF ToggleOffer
  <2> QED BY <1>1, <1>5, <2>1, OwnerKeeps DEF ToggleOffer, Changes
<1>6. CASE TimePasses
  <2>1. now \in [date : Dates, slot : Slots] /\ now.date \in Int /\ now.date - 1 \in Dates /\ 0 \in Slots
    BY <1>1, StorefrontAssumption DEF Types, Calendar
  <2>2. now' \in [date : Dates, slot : Slots] /\ now'.date - 1 \in Dates
    <3>1. CASE now.slot + 1 \in Slots
      <4>1. now' = [now EXCEPT !.slot = now.slot + 1]
        BY <1>6, <3>1 DEF TimePasses
      <4> QED BY <2>1, <3>1, <4>1
    <3>2. CASE now.slot + 1 \notin Slots
      <4>1. now' = [date |-> now.date + 1, slot |-> 0] /\ now'.date \in Dates
        BY <1>6, <3>2 DEF TimePasses
      <4>2. (now.date + 1) - 1 = now.date
        BY <2>1
      <4> QED BY <2>1, <4>1, <4>2
    <3> QED BY <3>1, <3>2
  <2>3. Types'
    BY <1>1, <1>6, <2>2 DEF Types, TimePasses, store, owner
  <2>4. Calendar'
    BY <1>1, <1>6, <2>2 DEF Calendar, TimePasses, store
  <2>5. Evaluated' /\ Placed'
    BY <1>1, <1>6, RequestStays DEF TimePasses
  <2> QED BY <2>3, <2>4, <2>5 DEF IInv
<1>7. ASSUME NEW v \in Variants, AddItem(v) PROVE IInv'
  <2>1. basket' \in Basket
    <3>1. basket[v] \in 0..MaxQty /\ basket[v] < MaxQty /\ MaxQty \in Nat
      BY <1>1, <1>7, StorefrontAssumption DEF Types, Basket, AddItem
    <3>2. basket[v] + 1 \in 0..MaxQty
      BY <3>1
    <3> QED BY <1>1, <1>7, <3>2 DEF Types, Basket, AddItem
  <2>2. Types'
    BY <1>1, <1>7, <2>1 DEF Types, AddItem, store, owner
  <2>3. Calendar'
    BY <1>1, <1>7 DEF Calendar, AddItem, store
  <2>4. Evaluated' /\ Placed'
    BY <1>1, <1>7, RequestIsYoung DEF Placed, AddItem, Idle
  <2> QED BY <2>2, <2>3, <2>4 DEF IInv
<1>8. ASSUME NEW c \in {"APP", "POS"}, ReadStore(c) PROVE IInv'
  <2>1. PICK fee \in {0, IF c = "APP" THEN Fee ELSE 0} :
           checkout' = [Idle EXCEPT !.at = "admitted", !.channel = c, !.fee = fee]
    BY <1>8 DEF ReadStore
  <2>2. Types'
    BY <1>1, <1>8, <2>1, IdleType DEF Types, ReadStore, store, owner
  <2>3. Calendar'
    BY <1>1, <1>8 DEF Calendar, ReadStore, store
  <2>4. checkout'.at = "admitted" /\ order' = NoOrder
    BY <1>1, <1>8, <2>1 DEF Placed, ReadStore, Idle
  <2>5. Evaluated' /\ Placed'
    BY <2>4, RequestIsYoung
  <2> QED BY <2>2, <2>3, <2>5 DEF IInv
<1>9. CASE EvaluateOffersForCart
  <2> DEFINE best == Winners(running, checkout.channel, basket)
  <2>1. PICK w \in {{o} : o \in best} \cup (IF best = {} THEN {{}} ELSE {}) :
           checkout' = [checkout EXCEPT !.at = "evaluated", !.offers = running, !.winner = w]
    BY <1>9 DEF EvaluateOffersForCart
  <2>2. best \in SUBSET OfferBook
    <3>1. basket \in Basket
      BY <1>1 DEF Types
    <3>2. Candidates(running, checkout.channel, basket) \in SUBSET running
      BY <1>1, <3>1, CandidateOffers
    <3>3. best \in SUBSET Candidates(running, checkout.channel, basket)
      BY <1>1, <3>1, CandidateOffers
    <3> QED BY <1>1, <3>2, <3>3
  <2>3. w \in SUBSET OfferBook
    BY <2>2
  <2>4. /\ checkout'.at = "evaluated" /\ checkout'.offers = running /\ checkout'.winner = w
        /\ checkout'.channel = checkout.channel
    BY <1>1, <2>1 DEF Types
  <2>5. Types'
    BY <1>1, <1>9, <2>1, <2>3 DEF Types, EvaluateOffersForCart, store, owner
  <2>6. Calendar'
    BY <1>1, <1>9 DEF Calendar, EvaluateOffersForCart, store
  <2>7. Evaluated'
    <3>1. Winners(checkout'.offers, checkout'.channel, basket') = best
      BY <1>9, <2>4 DEF EvaluateOffersForCart
    <3>2. (best = {} /\ w = {}) \/ \E o \in best : w = {o}
      OBVIOUS
    <3> HIDE DEF best
    <3> QED BY <2>4, <3>1, <3>2 DEF Evaluated
  <2>8. Placed'
    BY <1>1, <1>9, <2>4 DEF Placed, EvaluateOffersForCart
  <2> QED BY <2>5, <2>6, <2>7, <2>8 DEF IInv
<1>10. CASE CreateOrder
  <2>1. /\ checkout'.at = "committed" /\ checkout'.offers = checkout.offers /\ checkout'.winner = checkout.winner
        /\ checkout'.channel = checkout.channel /\ checkout'.fee = checkout.fee /\ UNCHANGED basket
        /\ checkout.at = "evaluated"
    BY <1>1, <1>10 DEF Types, CreateOrder
  <2>2. Types'
    BY <1>1, <1>10 DEF Types, CreateOrder, store, owner
  <2>3. Calendar'
    BY <1>1, <1>10 DEF Calendar, CreateOrder, store
  <2>4. Evaluated'
    BY <1>1, <2>1 DEF Evaluated
  <2>5. Placed'
    <3>1. Written' = Written
      BY <2>1 DEF Written
    <3>2. order' = Written
      BY <1>10 DEF CreateOrder, Written
    <3> QED BY <2>1, <3>1, <3>2 DEF Placed
  <2> QED BY <2>2, <2>3, <2>4, <2>5 DEF IInv
<1>11. CASE NextCustomer
  <2>1. Types'
    BY <1>1, <1>11, IdleType, BasketsToStart DEF Types, NextCustomer, store, owner, FirstBasket
  <2>2. Calendar'
    BY <1>1, <1>11 DEF Calendar, NextCustomer, store
  <2>3. Evaluated' /\ Placed'
    BY <1>11, RequestIsYoung DEF NextCustomer, Idle
  <2> QED BY <2>1, <2>2, <2>3 DEF IInv
<1>12. CASE Abort
  <2>1. Types'
    BY <1>1, <1>12, IdleType DEF Types, Abort, store, owner
  <2>2. Calendar'
    BY <1>1, <1>12 DEF Calendar, Abort, store
  <2>3. order' = NoOrder
    BY <1>1, <1>12 DEF Placed, Abort
  <2>4. Evaluated' /\ Placed'
    BY <1>12, <2>3, RequestIsYoung DEF Abort, Idle
  <2> QED BY <2>1, <2>2, <2>4 DEF IInv
<1>13. CASE UNCHANGED vars
  <2>1. Types' /\ Calendar'
    BY <1>1, <1>13 DEF vars, store, owner, Types, Calendar
  <2>2. Evaluated' /\ Placed'
    BY <1>1, <1>13, RequestStays DEF vars
  <2> QED BY <2>1, <2>2 DEF IInv
<1> QED BY <1>2, <1>3, <1>4, <1>5, <1>6, <1>7, <1>8, <1>9, <1>10, <1>11, <1>12, <1>13 DEF Next, Entries

\* Types are kept, the winner is the best of the offers that ran when checkout looked, and the
\* order is exactly what checkout computed from the basket, the fee and that winner.
THEOREM StorefrontInvariant == Spec => []IInv
  BY InvInit, InvNext, PTL DEF Spec

-------------------------------------------------------------------------------
(* The hours *)

\* An entry of the schedule is none, or hours of the owner's.
LEMMA EntryType ==
  ASSUME NEW e \in Entries
  PROVE  /\ e.kind \in {"none", "closed", "window", "always"} /\ (e.kind = "none" <=> e = None)
         /\ e \in Entry /\ e.open \in Nat /\ e.close \in Nat
<1>1. CASE e \in Hours
  <2>1. e \in Entry /\ e.kind # "none" /\ Slots \subseteq Nat
    BY <1>1, StorefrontAssumption
  <2>2. e.kind \in {"none", "closed", "window", "always"} /\ e.open \in Slots /\ e.close \in Slots
    BY <2>1 DEF Entry
  <2>3. e # None
    BY <2>1 DEF None
  <2> QED BY <2>1, <2>2, <2>3
<1>2. CASE e = None
  BY <1>2, StorefrontAssumption DEF Entry, None
<1> QED BY <1>1, <1>2 DEF Entries

\* The tests of menu, checkout and calendar come to the same.
LEMMA HoursAgree ==
  ASSUME Calendar, Types
  PROVE  OpenAsPlanned
<1> DEFINE E == exception[UtcDate]
           d == schedule[WeekdayOf[now.date]]
<1>1. now.date \in Dates /\ now.date \in Int /\ now.slot \in Nat /\ midnight \in Nat /\ Dawn \in Nat \ {0}
  BY StorefrontAssumption DEF Types
<1>2. UtcDate \in Dates /\ Clock \in Nat
  BY <1>1 DEF UtcDate, Clock, Calendar
<1>3. WeekdayOf[now.date] \in Weekdays
  BY <1>1, StorefrontAssumption
<1>4. E \in Entries /\ d \in Entries /\ exception[now.date] \in Entries
  BY <1>1, <1>2, <1>3 DEF Calendar
<1>5. /\ E.kind \in {"none", "closed", "window", "always"} /\ (E.kind = "none" <=> E = None)
      /\ E.open \in Nat /\ E.close \in Nat
  BY <1>4, EntryType
<1>6. /\ d.kind \in {"none", "closed", "window", "always"} /\ (d.kind = "none" <=> d = None)
      /\ d.open \in Nat /\ d.close \in Nat
  BY <1>4, EntryType
<1>7. StoreClosed <=> /\ E # None => E.kind = "closed" \/ (E.kind = "window" /\ (Clock < E.open \/ Clock > E.close))
                      /\ E = None => \/ d.kind \in {"none", "closed"}
                                     \/ d.kind = "window" /\ (Clock < d.open \/ Clock > d.close)
  BY DEF StoreClosed
<1>8. MenuOpen <=> /\ ~paused
                   /\ E # None => E.kind = "always" \/ (E.kind = "window" /\ Clock >= E.open /\ Clock <= E.close)
                   /\ E = None => d.kind = "always" \/ (d.kind = "window" /\ Clock >= d.open /\ Clock <= d.close)
  BY DEF MenuOpen, Within
<1> HIDE DEF E, d
<1>9. MenuOpen <=> ~paused /\ ~StoreClosed
  <2>1. CASE E = None
    BY <1>2, <1>6, <1>7, <1>8, <2>1
  <2>2. CASE E # None
    BY <1>2, <1>5, <1>7, <1>8, <2>2
  <2> QED BY <2>1, <2>2
<1>10. ASSUME now.slot >= Dawn PROVE MenuOpen <=> ~paused /\ OpenByCalendar
  <2>1. UtcDate = now.date /\ Clock = now.slot
    BY <1>1, <1>10 DEF UtcDate, Clock
  <2>2. E = exception[now.date]
    BY <2>1 DEF E
  <2>3. OpenByCalendar <=>
          /\ E # None => E.kind = "always" \/ (E.kind = "window" /\ now.slot \in E.open..E.close)
          /\ E = None => d.kind = "always" \/ (d.kind = "window" /\ now.slot \in d.open..d.close)
    BY <2>2 DEF OpenByCalendar, d
  <2>4. /\ now.slot \in E.open..E.close <=> Clock >= E.open /\ Clock <= E.close
        /\ now.slot \in d.open..d.close <=> Clock >= d.open /\ Clock <= d.close
    BY <1>1, <1>5, <1>6, <2>1
  <2> QED BY <1>8, <2>3, <2>4
<1> QED BY <1>9, <1>10 DEF OpenAsPlanned

-------------------------------------------------------------------------------
(* The money *)

\* Hours and exceptions are functions into entries.
LEMMA EntriesFit ==
  ASSUME Calendar
  PROVE  schedule \in [Weekdays -> Entry] /\ exception \in [Dates -> Entry]
<1>1. Entries \subseteq Entry
  BY EntryType
<1> QED BY <1>1 DEF Calendar

\* What was written still adds up: nobody changes basket, winner or order until the next customer.
LEMMA MoneyFits ==
  ASSUME IInv
  PROVE  MoneyAddsUp
<1>1. Calendar /\ Types /\ Evaluated /\ Placed
  BY DEF IInv
<1>2. CASE checkout.at = "committed"
  <2>1. order = Written
    BY <1>1, <1>2 DEF Placed
  <2>2. order \in OrderType /\ ColumnsFit(order) /\ LinesFit(order) /\ NotPaid(order)
    BY <1>1, <1>2, <2>1, WhatIsWritten
  <2> QED BY <1>1, <2>2, EntriesFit
     DEF MoneyAddsUp, TypeOK, OrderType, ColumnsFit, LinesFit, NotPaid, Types
<1>3. CASE checkout.at # "committed"
  <2>1. order = NoOrder
    BY <1>1, <1>3 DEF Placed
  <2>2. order \in OrderType /\ ~order.placed
    BY <2>1, StorefrontAssumption DEF OrderType, NoOrder, Empty, NoOne
  <2> QED BY <1>1, <2>2, EntriesFit DEF MoneyAddsUp, TypeOK, OrderType, Types
<1> QED BY <1>2, <1>3

\* The menu and checkout agree at any time, and from 05:30 on with the calendar as the owner means it.
THEOREM StoresOpenAsPlanned == Spec => []OpenAsPlanned
<1>1. IInv => OpenAsPlanned
  BY HoursAgree DEF IInv
<1> QED BY <1>1, StorefrontInvariant, PTL

\* The columns of an order add up to a paisa and its lines to half a paisa each, whatever the prices and offers.
THEOREM TheMoneyAddsUp == Spec => []MoneyAddsUp
<1>1. IInv => MoneyAddsUp
  BY MoneyFits
<1> QED BY <1>1, StorefrontInvariant, PTL

\* Neither an item nor an offer more ever makes the discount smaller.
THEOREM MoreIsNeverDiscountedLess == Spec => MoreNeverDiscountsLess
<1>1. ASSUME Types, Types', running \subseteq running', \A v \in Variants : basket'[v] >= basket[v]
      PROVE  Discount(running', basket') >= Discount(running, basket)
  <2>1. basket \in Basket /\ basket' \in Basket /\ running' \in SUBSET OfferBook /\ running \in SUBSET running'
    BY <1>1 DEF Types
  <2> QED BY <1>1, <2>1, MoreForAll
<1>2. IInv /\ IInv' => [(running \subseteq running' /\ \A v \in Variants : basket'[v] >= basket[v])
                          => Discount(running', basket') >= Discount(running, basket)]_vars
  BY <1>1 DEF IInv
<1> QED BY <1>2, StorefrontInvariant, PTL DEF MoreNeverDiscountsLess
===============================================================================
