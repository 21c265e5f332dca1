----------------------------- MODULE SumProofs -----------------------------
(***************************************************************************)
(* Facts about sums, products, powers and rounding that the proofs of      *)
(* other modules share.                                                    *)
(***************************************************************************)
EXTENDS Powers, FiniteSets, FiniteSetTheorems, NaturalsInduction, TLAPS

-----------------------------------------------------------------------------
(* Numbers, and functions on them that are defined step by step.           *)

\* A set of numbers has a smallest member.
LEMMA SmallestNumber ==
  ASSUME NEW T, T \subseteq Nat, T # {}
  PROVE  \E m \in T : \A k \in T : m <= k
<1>1. \E m \in T : \A k \in T : ~(<<k, m>> \in OpToRel(<, Nat))
  BY WFMin, NatLessThanWellFounded
<1>2. ASSUME NEW k \in Nat, NEW m \in Nat, k < m PROVE <<k, m>> \in OpToRel(<, Nat)
  <2>1. <<k, m>> \in Nat \X Nat /\ <<k, m>>[1] = k /\ <<k, m>>[2] = m
    OBVIOUS
  <2>2. <<k, m>>[1] < <<k, m>>[2]
    BY <1>2
  <2>3. QED
    BY <2>1, <2>2 DEF OpToRel
<1>3. \A k, m \in Nat : ~(k < m) => m <= k
  OBVIOUS
<1>4. QED
  BY <1>1, <1>2, <1>3

\* g[i] is the product of c[1], ..., c[i].
Multiplies(c, g, n) == g = [i \in 0 .. n |-> IF i = 0 THEN 1 ELSE c[i] * g[i - 1]]

\* Two functions that multiply up agree as far as both go.
LEMMA MultipliesUnique ==
  ASSUME NEW n \in Nat, NEW m \in Nat, n <= m, NEW c, NEW g, NEW h,
         Multiplies(c, g, n), Multiplies(c, h, m)
  PROVE  \A i \in 0 .. n : g[i] = h[i]
<1> DEFINE Bad == {i \in 0 .. n : g[i] # h[i]}
<1>1. SUFFICES ASSUME Bad # {} PROVE FALSE
  OBVIOUS
<1>2. PICK i \in Bad : \A k \in Bad : i <= k
  <2>1. Bad \subseteq Nat
    OBVIOUS
  <2> HIDE DEF Bad
  <2>2. QED
    BY <1>1, <2>1, SmallestNumber
<1>3. /\ \A k \in 0 .. n : g[k] = IF k = 0 THEN 1 ELSE c[k] * g[k - 1]
      /\ \A k \in 0 .. n : h[k] = IF k = 0 THEN 1 ELSE c[k] * h[k - 1]
  BY DEF Multiplies
<1>4. i # 0
  BY <1>3
<1>5. i - 1 \in 0 .. n /\ g[i - 1] = h[i - 1]
  BY <1>2, <1>4
<1>6. g[i] = h[i]
  BY <1>3, <1>4, <1>5
<1>7. QED
  BY <1>6

\* There is one for every number.
LEMMA MultipliesExists == ASSUME NEW c PROVE \A n \in Nat : \E g : Multiplies(c, g, n)
<1> DEFINE Bad == {n \in Nat : ~\E g : Multiplies(c, g, n)}
<1>1. SUFFICES ASSUME Bad # {} PROVE FALSE
  OBVIOUS
<1>2. PICK n \in Bad : \A k \in Bad : n <= k
  <2>1. Bad \subseteq Nat
    OBVIOUS
  <2> HIDE DEF Bad
  <2>2. QED
    BY <1>1, <2>1, SmallestNumber
<1>3. n # 0
  <2>1. Multiplies(c, [i \in 0 .. 0 |-> 1], 0)
    BY DEF Multiplies
  <2>2. QED
    BY <2>1
<1>4. PICK g : Multiplies(c, g, n - 1)
  <2>1. n - 1 \in Nat /\ n - 1 \notin Bad
    BY <1>2, <1>3
  <2>2. QED
    BY <2>1
<1> DEFINE h == [i \in 0 .. n |-> IF i = n THEN c[n] * g[n - 1] ELSE g[i]]
<1>5. \A i \in 0 .. n : h[i] = IF i = 0 THEN 1 ELSE c[i] * h[i - 1]
  <2>1. \A i \in 0 .. n - 1 : g[i] = IF i = 0 THEN 1 ELSE c[i] * g[i - 1]
    BY <1>4 DEF Multiplies
  <2>2. ASSUME NEW i \in 0 .. n, i # n PROVE h[i] = IF i = 0 THEN 1 ELSE c[i] * h[i - 1]
    BY <2>1, <2>2
  <2>3. h[n] = c[n] * h[n - 1]
    BY <1>3
  <2>4. QED
    BY <1>3, <2>2, <2>3
<1>6. h = [i \in 0 .. n |-> h[i]]
  OBVIOUS
<1> HIDE DEF h
<1>7. Multiplies(c, h, n)
  BY <1>5, <1>6 DEF Multiplies
<1>8. QED
  BY <1>7

\* So there is one for all numbers.
LEMMA RunningProduct ==
  ASSUME NEW c
  PROVE  \E g : g = [n \in Nat |-> IF n = 0 THEN 1 ELSE c[n] * g[n - 1]]
<1> DEFINE R(g)  == g = [n \in Nat |-> IF n = 0 THEN 1 ELSE c[n] * g[n - 1]]
           at(n) == (CHOOSE g : Multiplies(c, g, n))
           G     == [n \in Nat |-> at(n)[n]]
<1>1. \A n \in Nat : Multiplies(c, at(n), n)
  BY MultipliesExists
<1> HIDE DEF at
<1>2. G[0] = 1
  <2>1. at(0)[0] = 1
    BY <1>1 DEF Multiplies
  <2>2. QED
    BY <2>1
<1>3. ASSUME NEW n \in Nat, n # 0 PROVE G[n] = c[n] * G[n - 1]
  <2>1. n - 1 \in Nat /\ n - 1 \in 0 .. n
    BY <1>3
  <2>2. at(n)[n] = c[n] * at(n)[n - 1]
    BY <1>1, <1>3 DEF Multiplies
  <2>3. at(n - 1)[n - 1] = at(n)[n - 1]
    BY <1>1, <2>1, MultipliesUnique
  <2>4. QED
    BY <2>1, <2>2, <2>3
<1>4. G = [n \in Nat |-> G[n]]
  OBVIOUS
<1> HIDE DEF G
<1>5. R(G)
  BY <1>2, <1>3, <1>4
<1>6. QED
  BY <1>5

-----------------------------------------------------------------------------
(* Rounding down keeps the order of numbers.                               *)

\* Rounding down keeps order.
LEMMA DivBounds ==
  ASSUME NEW a \in Int, NEW d \in Nat \ {0}
  PROVE  /\ a \div d \in Int
         /\ d * (a \div d) <= a /\ a < d * (a \div d) + d
  OBVIOUS

LEMMA Below ==
  ASSUME NEW x \in Int, NEW y \in Int, NEW d \in Nat \ {0}, d * x < d * y + d
  PROVE  x <= y
<1>1. SUFFICES ASSUME x >= y + 1 PROVE FALSE
  OBVIOUS
<1>2. d * x >= d * (y + 1)
  BY <1>1
<1>3. d * (y + 1) = d * y + d
  OBVIOUS
<1>4. d * x \in Int /\ d * y \in Int
  OBVIOUS
<1>5. QED
  BY <1>2, <1>3, <1>4

LEMMA DivKeepsOrder ==
  ASSUME NEW a \in Int, NEW b \in Int, NEW d \in Nat \ {0}, a <= b
  PROVE  a \div d <= b \div d
<1> DEFINE x == a \div d
           y == b \div d
<1>1. /\ x \in Int /\ d * x <= a
      /\ y \in Int /\ b < d * y + d
  BY DivBounds
<1> HIDE DEF x, y
<1>2. d * x \in Int /\ d * y \in Int
  BY <1>1
<1>3. d * x < d * y + d
  BY <1>1, <1>2
<1>4. x <= y
  BY <1>1, <1>3, Below
<1>5. QED
  BY <1>4 DEF x, y

\* What is at least c times the divisor is at least c after the division.
LEMMA DivAtLeast ==
  ASSUME NEW a \in Int, NEW c \in Int, NEW d \in Nat \ {0}, c * d <= a
  PROVE  c <= a \div d
<1> DEFINE x == a \div d
<1>1. x \in Int /\ a < d * x + d
  BY DivBounds
<1> HIDE DEF x
<1>2. d * x \in Int /\ d * c \in Int /\ d * c = c * d
  BY <1>1
<1>3. d * c < d * x + d
  BY <1>1, <1>2
<1>4. c <= x
  BY <1>1, <1>3, Below
<1>5. QED
  BY <1>4 DEF x

LEMMA DivAtMost ==
  ASSUME NEW a \in Int, NEW c \in Int, NEW d \in Nat \ {0}, a <= c * d
  PROVE  a \div d <= c
<1> DEFINE x == a \div d
<1>1. x \in Int /\ d * x <= a
  BY DivBounds
<1> HIDE DEF x
<1>2. d * x \in Int /\ d * c \in Int /\ d * c = c * d
  BY <1>1
<1>3. d * x < d * c + d
  BY <1>1, <1>2
<1>4. x <= c
  BY <1>1, <1>3, Below
<1>5. QED
  BY <1>4 DEF x

-----------------------------------------------------------------------------
(* Sums over finite sets.  The library's folds are recursive functions; that *)
(* they exist, and that their order does not matter, is shown by taking a     *)
(* smallest set for which it would not be so.                                *)

Chosen(s) == CHOOSE x \in s : TRUE
Adds(g, f, S) ==
  g = [s \in SUBSET S |-> IF s = {} THEN 0 ELSE f[Chosen(s)] + g[s \ {Chosen(s)}]]
Total(f, S) == (CHOOSE g : Adds(g, f, S))[S]

\* The member a fold takes of a set.
LEMMA ChosenIn == \A s : s # {} => Chosen(s) \in s
BY DEF Chosen

\* A set of subsets of a finite set has a smallest member.
LEMMA SmallestSet ==
  ASSUME NEW S, IsFiniteSet(S), NEW T, T \subseteq SUBSET S, T # {}
  PROVE  \E X \in T : \A Y \in T : Y \subseteq X => Y = X
<1>1. T \subseteq FiniteSubsetsOf(S)
  BY FS_FiniteSubsetsOfFinite
<1>2. IsWellFoundedOn(StrictSubsetOrdering(S), FiniteSubsetsOf(S))
  BY FS_StrictSubsetOrderingWellFounded
<1>3. \E X \in T : \A Y \in T : ~(<<Y, X>> \in StrictSubsetOrdering(S))
  BY <1>1, <1>2, WFMin
<1>4. QED
  BY <1>3 DEF StrictSubsetOrdering

\* A function that adds up values takes one member of a set at a time.
LEMMA AddsStep ==
  ASSUME NEW g, NEW f, NEW S, Adds(g, f, S), NEW s \in SUBSET S
  PROVE  g[s] = IF s = {} THEN 0 ELSE f[Chosen(s)] + g[s \ {Chosen(s)}]
BY DEF Adds

\* There is one such function, whatever larger set it is defined for.
LEMMA AddsUnique ==
  ASSUME NEW S, IsFiniteSet(S), NEW R, NEW T, S \subseteq R, S \subseteq T, NEW f, NEW g, NEW h,
         Adds(g, f, R), Adds(h, f, T)
  PROVE  \A s \in SUBSET S : g[s] = h[s]
<1> DEFINE Bad == {s \in SUBSET S : g[s] # h[s]}
<1>1. SUFFICES ASSUME Bad # {} PROVE FALSE
  OBVIOUS
<1>2. PICK X \in Bad : \A Y \in Bad : Y \subseteq X => Y = X
  <2> HIDE DEF Bad
  <2>1. Bad \subseteq SUBSET S
    BY DEF Bad
  <2>2. QED
    BY <2>1, <1>1, SmallestSet
<1>3. X \in SUBSET R /\ X \in SUBSET T
  OBVIOUS
<1>4. X # {}
  BY <1>3, AddsStep
<1>5. Chosen(X) \in X /\ X \ {Chosen(X)} \in SUBSET S /\ X \ {Chosen(X)} # X
  BY <1>4, ChosenIn
<1>6. g[X \ {Chosen(X)}] = h[X \ {Chosen(X)}]
  BY <1>2, <1>5
<1>7. g[X] = h[X]
  BY <1>3, <1>4, <1>6, AddsStep
<1>8. QED
  BY <1>7

\* There is such a function for every finite set.
LEMMA AddsExists ==
  ASSUME NEW S, IsFiniteSet(S), NEW f
  PROVE  \E g : Adds(g, f, S)
<1> DEFINE Bad == {s \in SUBSET S : ~\E g : Adds(g, f, s)}
<1>1. SUFFICES ASSUME Bad # {} PROVE FALSE
  OBVIOUS
<1>2. PICK X \in Bad : \A Y \in Bad : Y \subseteq X => Y = X
  <2> HIDE DEF Bad
  <2>1. Bad \subseteq SUBSET S
    BY DEF Bad
  <2>2. QED
    BY <2>1, <1>1, SmallestSet
<1> DEFINE known(s) == CHOOSE g : Adds(g, f, s)
           value(s) == IF s = {} THEN 0 ELSE f[Chosen(s)] + known(s \ {Chosen(s)})[s \ {Chosen(s)}]
           G        == [s \in SUBSET X |-> value(s)]
<1>3. \A s \in SUBSET X : s # X => Adds(known(s), f, s)
  <2>1. \A s \in SUBSET X : s # X => \E g : Adds(g, f, s)
    BY <1>2
  <2>2. QED
    BY <2>1
<1> HIDE DEF known
<1>4. ASSUME NEW s \in SUBSET X, s # X PROVE known(s)[s] = value(s)
  <2>1. CASE s = {}
    BY <2>1, <1>3, <1>4, AddsStep
  <2>2. CASE s # {}
    <3> DEFINE r == s \ {Chosen(s)}
    <3>1. Chosen(s) \in s /\ r \in SUBSET X /\ r # X
      BY <2>2, ChosenIn
    <3>2. Adds(known(s), f, s) /\ Adds(known(r), f, r)
      BY <1>3, <1>4, <3>1
    <3>3. IsFiniteSet(r)
      BY <3>1, <1>2, FS_Subset
    <3>4. known(s)[r] = known(r)[r]
      <4> HIDE DEF r
      <4>1. r \subseteq s
        BY DEF r
      <4>2. QED
        BY <4>1, <3>2, <3>3, AddsUnique
    <3>5. known(s)[s] = f[Chosen(s)] + known(s)[r]
      BY <2>2, <3>2, AddsStep
    <3>6. QED
      BY <2>2, <3>4, <3>5
  <2>3. QED
    BY <2>1, <2>2
<1>5. ASSUME NEW s \in SUBSET X, s # {} PROVE value(s) = f[Chosen(s)] + G[s \ {Chosen(s)}]
  <2> DEFINE r == s \ {Chosen(s)}
  <2>1. Chosen(s) \in s /\ r \in SUBSET X /\ r # X
    BY <1>5, ChosenIn
  <2>2. known(r)[r] = value(r)
    BY <2>1, <1>4
  <2>3. G[r] = value(r)
    BY <2>1
  <2>4. value(s) = f[Chosen(s)] + known(r)[r]
    BY <1>5
  <2> HIDE DEF value, G, r
  <2>5. f[Chosen(s)] + known(r)[r] = f[Chosen(s)] + G[r]
    BY <2>2, <2>3
  <2>6. QED
    BY <2>4, <2>5 DEF r
<1>6. Adds(G, f, X)
  <2>1. \A s \in SUBSET X : value(s) = IF s = {} THEN 0 ELSE f[Chosen(s)] + G[s \ {Chosen(s)}]
    BY <1>5
  <2>2. G = [s \in SUBSET X |-> value(s)]
    OBVIOUS
  <2> HIDE DEF value, G
  <2>3. QED
    BY <2>1, <2>2 DEF Adds
<1>7. QED
  BY <1>6

\* Any function that adds up the values of f computes the total.
LEMMA TotalIs ==
  ASSUME NEW S, IsFiniteSet(S), NEW f
  PROVE  /\ \A g : Adds(g, f, S) => g[S] = Total(f, S)
         /\ \A g : Adds(g, f, S) => \A T \in SUBSET S : g[T] = Total(f, T)
         /\ Total(f, {}) = 0
         /\ S # {} => Total(f, S) = f[Chosen(S)] + Total(f, S \ {Chosen(S)})
<1>1. \A T \in SUBSET S : IsFiniteSet(T)
  BY FS_Subset
<1>2. \A T \in SUBSET S : Adds(CHOOSE g : Adds(g, f, T), f, T)
  BY <1>1, AddsExists
<1>3. ASSUME NEW g, Adds(g, f, S), NEW T \in SUBSET S PROVE g[T] = Total(f, T)
  BY <1>1, <1>2, <1>3, AddsUnique DEF Total
<1>4. PICK g : Adds(g, f, S)
  BY AddsExists
<1>5. Total(f, {}) = 0
  <2>1. g[{}] = Total(f, {})
    BY <1>3, <1>4
  <2>2. g[{}] = 0
    BY <1>4, AddsStep
  <2>3. QED
    BY <2>1, <2>2
<1>6. S # {} => Total(f, S) = f[Chosen(S)] + Total(f, S \ {Chosen(S)})
  <2>1. g[S] = Total(f, S) /\ g[S \ {Chosen(S)}] = Total(f, S \ {Chosen(S)})
    BY <1>3, <1>4
  <2>2. S # {} => g[S] = f[Chosen(S)] + g[S \ {Chosen(S)}]
    BY <1>4, AddsStep
  <2>3. QED
    BY <2>1, <2>2
<1>7. QED
  BY <1>3, <1>5, <1>6

\* Nothing adds up to nothing.
LEMMA TotalEmpty == \A f : Total(f, {}) = 0
BY FS_EmptySet, TotalIs

\* Naturals add up to a natural.
LEMMA TotalNat ==
  ASSUME NEW S, IsFiniteSet(S), NEW f, \A x \in S : f[x] \in Nat
  PROVE  \A T \in SUBSET S : Total(f, T) \in Nat
<1> DEFINE Bad == {T \in SUBSET S : ~(Total(f, T) \in Nat)}
<1>1. SUFFICES ASSUME Bad # {} PROVE FALSE
  OBVIOUS
<1>2. PICK X \in Bad : \A Y \in Bad : Y \subseteq X => Y = X
  <2> HIDE DEF Bad
  <2>1. Bad \subseteq SUBSET S
    BY DEF Bad
  <2>2. QED
    BY <2>1, <1>1, SmallestSet
<1>3. IsFiniteSet(X) /\ \A Y \in SUBSET X : IsFiniteSet(Y)
  BY FS_Subset
<1>4. X # {}
  BY TotalEmpty
<1>5. Chosen(X) \in X /\ X \ {Chosen(X)} \in SUBSET S /\ X \ {Chosen(X)} # X
  BY <1>4, ChosenIn
<1>6. Total(f, X \ {Chosen(X)}) \in Nat
  BY <1>2, <1>5
<1>7. Total(f, X) \in Nat
  <2>1. Total(f, X) = f[Chosen(X)] + Total(f, X \ {Chosen(X)})
    BY <1>3, <1>4, TotalIs
  <2>2. f[Chosen(X)] \in Nat
    BY <1>5
  <2>3. QED
    BY <2>1, <2>2, <1>6
<1>8. QED
  BY <1>7

\* The order of a sum does not matter.
LEMMA TotalAny ==
  ASSUME NEW S, IsFiniteSet(S), NEW f, \A x \in S : f[x] \in Nat
  PROVE  \A T \in SUBSET S : \A y \in T : Total(f, T) = f[y] + Total(f, T \ {y})
<1> DEFINE Bad == {T \in SUBSET S : ~(\A y \in T : Total(f, T) = f[y] + Total(f, T \ {y}))}
<1>1. SUFFICES ASSUME Bad # {} PROVE FALSE
  OBVIOUS
<1>2. PICK X \in Bad : \A Y \in Bad : Y \subseteq X => Y = X
  <2> HIDE DEF Bad
  <2>1. Bad \subseteq SUBSET S
    BY DEF Bad
  <2>2. QED
    BY <2>1, <1>1, SmallestSet
<1>3. IsFiniteSet(X) /\ \A Y \in SUBSET X : IsFiniteSet(Y)
  BY FS_Subset
<1>4. PICK y \in X : Total(f, X) # f[y] + Total(f, X \ {y})
  BY <1>2
<1> DEFINE x == Chosen(X)
<1>5. x \in X /\ Total(f, X) = f[x] + Total(f, X \ {x})
  BY <1>3, <1>4, ChosenIn, TotalIs
<1> HIDE DEF x
<1>6. x # y
  BY <1>4, <1>5
<1>7. Total(f, X \ {x}) = f[y] + Total(f, (X \ {x}) \ {y})
  <2>1. X \ {x} \in SUBSET S /\ X \ {x} # X /\ y \in X \ {x}
    BY <1>5, <1>6
  <2>2. QED
    BY <2>1, <1>2
<1>8. Total(f, X \ {y}) = f[x] + Total(f, (X \ {y}) \ {x})
  <2>1. X \ {y} \in SUBSET S /\ X \ {y} # X /\ x \in X \ {y}
    BY <1>5, <1>6
  <2>2. QED
    BY <2>1, <1>2
<1>9. (X \ {x}) \ {y} = (X \ {y}) \ {x} /\ (X \ {x}) \ {y} \in SUBSET S
  OBVIOUS
<1>10. Total(f, (X \ {x}) \ {y}) \in Nat /\ f[x] \in Nat /\ f[y] \in Nat
  BY <1>5, <1>9, TotalNat
<1>11. Total(f, X) = f[y] + Total(f, X \ {y})
  <2> DEFINE rest == Total(f, (X \ {x}) \ {y})
  <2>1. Total(f, X) = f[x] + (f[y] + rest)
    BY <1>5, <1>7
  <2>2. Total(f, X \ {y}) = f[x] + rest
    BY <1>8, <1>9
  <2>3. rest \in Nat /\ f[x] \in Nat /\ f[y] \in Nat
    BY <1>10
  <2> HIDE DEF rest
  <2>4. QED
    BY <2>1, <2>2, <2>3
<1>12. QED
  BY <1>4, <1>11

\* Equal values have equal sums.
LEMMA TotalEqual ==
  ASSUME NEW S, IsFiniteSet(S), NEW f, NEW h, \A x \in S : f[x] \in Nat /\ h[x] = f[x]
  PROVE  Total(f, S) = Total(h, S)
<1> DEFINE Bad == {T \in SUBSET S : ~(Total(f, T) = Total(h, T))}
<1>1. SUFFICES ASSUME Bad # {} PROVE FALSE
  OBVIOUS
<1>2. PICK X \in Bad : \A Y \in Bad : Y \subseteq X => Y = X
  <2> HIDE DEF Bad
  <2>1. Bad \subseteq SUBSET S
    BY DEF Bad
  <2>2. QED
    BY <2>1, <1>1, SmallestSet
<1>3. IsFiniteSet(X) /\ \A Y \in SUBSET X : IsFiniteSet(Y)
  BY FS_Subset
<1>4. X # {}
  <2>1. Total(f, {}) = Total(h, {})
    BY TotalEmpty
  <2>2. QED
    BY <2>1
<1>5. PICK y \in X : TRUE
  BY <1>4
<1>6. Total(f, X \ {y}) = Total(h, X \ {y})
  BY <1>2
<1>7. Total(f, X) = f[y] + Total(f, X \ {y}) /\ Total(h, X) = h[y] + Total(h, X \ {y})
  BY <1>3, TotalAny
<1>8. QED
  BY <1>6, <1>7

\* The sum of two columns is the column of the sums.
LEMMA TotalSum ==
  ASSUME NEW S, IsFiniteSet(S), NEW f, NEW g, NEW h,
         \A x \in S : f[x] \in Nat /\ g[x] \in Nat /\ h[x] = f[x] + g[x]
  PROVE  Total(h, S) = Total(f, S) + Total(g, S)
<1> DEFINE Bad == {T \in SUBSET S : ~(Total(h, T) = Total(f, T) + Total(g, T))}
<1>1. SUFFICES ASSUME Bad # {} PROVE FALSE
  OBVIOUS
<1>2. PICK X \in Bad : \A Y \in Bad : Y \subseteq X => Y = X
  <2> HIDE DEF Bad
  <2>1. Bad \subseteq SUBSET S
    BY DEF Bad
  <2>2. QED
    BY <2>1, <1>1, SmallestSet
<1>3. IsFiniteSet(X) /\ \A Y \in SUBSET X : IsFiniteSet(Y)
  BY FS_Subset
<1>4. X # {}
  <2>1. Total(h, {}) = Total(f, {}) + Total(g, {})
    BY TotalEmpty
  <2>2. QED
    BY <2>1
<1>5. PICK y \in X : TRUE
  BY <1>4
<1>6. Total(h, X \ {y}) = Total(f, X \ {y}) + Total(g, X \ {y})
  BY <1>2
<1>7. /\ Total(f, X) = f[y] + Total(f, X \ {y}) /\ Total(g, X) = g[y] + Total(g, X \ {y})
      /\ Total(h, X) = h[y] + Total(h, X \ {y})
  BY <1>3, TotalAny
<1>8. Total(f, X \ {y}) \in Nat /\ Total(g, X \ {y}) \in Nat /\ f[y] \in Nat /\ g[y] \in Nat
  BY TotalNat
<1>9. QED
  BY <1>6, <1>7, <1>8

\* Only the members of A count.
LEMMA TotalWithin ==
  ASSUME NEW S, IsFiniteSet(S), NEW A, NEW f, NEW h,
         \A x \in S : f[x] \in Nat /\ h[x] = IF x \in A THEN f[x] ELSE 0
  PROVE  Total(h, S) = Total(f, S \cap A)
<1> DEFINE Bad == {T \in SUBSET S : ~(Total(h, T) = Total(f, T \cap A))}
<1>1. SUFFICES ASSUME Bad # {} PROVE FALSE
  OBVIOUS
<1>2. PICK X \in Bad : \A Y \in Bad : Y \subseteq X => Y = X
  <2> HIDE DEF Bad
  <2>1. Bad \subseteq SUBSET S
    BY DEF Bad
  <2>2. QED
    BY <2>1, <1>1, SmallestSet
<1>3. IsFiniteSet(X) /\ \A Y \in SUBSET X : IsFiniteSet(Y)
  BY FS_Subset
<1>4. X # {}
  <2>1. {} \cap A = {}
    OBVIOUS
  <2>2. QED
    BY <2>1, TotalEmpty
<1>5. PICK y \in X : TRUE
  BY <1>4
<1>6. Total(h, X \ {y}) = Total(f, (X \ {y}) \cap A)
  BY <1>2
<1>7. Total(h, X) = h[y] + Total(h, X \ {y})
  BY <1>3, TotalAny
<1>8. Total(h, X) = Total(f, X \cap A)
  <2>1. CASE y \in A
    <3>1. Total(f, X \cap A) = f[y] + Total(f, (X \cap A) \ {y})
      BY <2>1, <1>3, TotalAny
    <3>2. (X \cap A) \ {y} = (X \ {y}) \cap A
      OBVIOUS
    <3>3. QED
      BY <2>1, <3>1, <3>2, <1>6, <1>7
  <2>2. CASE y \notin A
    <3>1. (X \ {y}) \cap A = X \cap A /\ X \cap A \in SUBSET S
      BY <2>2
    <3>2. Total(f, X \cap A) \in Nat
      BY <3>1, TotalNat
    <3>3. QED
      BY <2>2, <3>1, <3>2, <1>6, <1>7
  <2>3. QED
    BY <2>1, <2>2
<1>9. QED
  BY <1>8

\* A value that is the same for all counts once for each.
LEMMA TotalConstant ==
  ASSUME NEW S, IsFiniteSet(S), NEW c \in Nat, NEW f, \A x \in S : f[x] = c
  PROVE  Total(f, S) = Cardinality(S) * c
<1> DEFINE Bad == {T \in SUBSET S : ~(Total(f, T) = Cardinality(T) * c)}
<1>1. SUFFICES ASSUME Bad # {} PROVE FALSE
  OBVIOUS
<1>2. PICK X \in Bad : \A Y \in Bad : Y \subseteq X => Y = X
  <2> HIDE DEF Bad
  <2>1. Bad \subseteq SUBSET S
    BY DEF Bad
  <2>2. QED
    BY <2>1, <1>1, SmallestSet
<1>3. IsFiniteSet(X) /\ \A Y \in SUBSET X : IsFiniteSet(Y)
  BY FS_Subset
<1>4. X # {}
  BY TotalEmpty, FS_EmptySet
<1>5. PICK y \in X : TRUE
  BY <1>4
<1>6. Total(f, X \ {y}) = Cardinality(X \ {y}) * c
  BY <1>2
<1>7. Total(f, X) = c + Total(f, X \ {y})
  BY <1>3, TotalAny
<1>8. Cardinality(X \ {y}) = Cardinality(X) - 1 /\ Cardinality(X) \in Nat
  BY <1>3, FS_RemoveElement, FS_CardinalityType
<1>9. c + (Cardinality(X) - 1) * c = Cardinality(X) * c
  BY <1>8
<1>10. QED
  BY <1>6, <1>7, <1>8, <1>9

\* A table has one sum, by rows and by columns.
LEMMA Exchange ==
  ASSUME NEW A, IsFiniteSet(A), NEW B, IsFiniteSet(B), NEW m \in [A \X B -> Nat]
  PROVE  Total([a \in A |-> Total([b \in B |-> m[<<a, b>>]], B)], A)
           = Total([b \in B |-> Total([a \in A |-> m[<<a, b>>]], A)], B)
<1> DEFINE row(a)    == [b \in B |-> m[<<a, b>>]]
           column(b) == [a \in A |-> m[<<a, b>>]]
           rows      == [a \in A |-> Total(row(a), B)]
           partial(T) == [b \in B |-> Total(column(b), T)]
<1>1. \A a \in A : \A b \in B : row(a)[b] \in Nat /\ column(b)[a] \in Nat /\ row(a)[b] = column(b)[a]
  OBVIOUS
<1>2. \A a \in A : rows[a] = Total(row(a), B) /\ rows[a] \in Nat
  BY <1>1, TotalNat
<1> HIDE DEF row, column
<1>3. \A T \in SUBSET A : \A b \in B : partial(T)[b] \in Nat
  BY <1>1, TotalNat
<1> HIDE DEF rows, partial
<1>4. \A T \in SUBSET A : Total(rows, T) = Total(partial(T), B)
  <2> DEFINE Bad == {T \in SUBSET A : ~(Total(rows, T) = Total(partial(T), B))}
  <2>1. SUFFICES ASSUME Bad # {} PROVE FALSE
    OBVIOUS
  <2>2. PICK X \in Bad : \A Y \in Bad : Y \subseteq X => Y = X
    <3> HIDE DEF Bad
    <3>1. Bad \subseteq SUBSET A
      BY DEF Bad
    <3>2. QED
      BY <3>1, <2>1, SmallestSet
  <2>3. IsFiniteSet(X) /\ \A Y \in SUBSET X : IsFiniteSet(Y)
    BY FS_Subset
  <2>4. X # {}
    <3>1. \A b \in B : partial({})[b] = 0
      BY TotalEmpty DEF partial
    <3>2. Total(partial({}), B) = Cardinality(B) * 0
      BY <3>1, TotalConstant
    <3>3. Total(rows, {}) = 0 /\ Cardinality(B) \in Nat
      BY TotalEmpty, FS_CardinalityType
    <3>4. Total(rows, {}) = Total(partial({}), B)
      BY <3>2, <3>3
    <3>5. QED
      BY <3>4
  <2>5. PICK y \in X : TRUE
    BY <2>4
  <2>6. Total(rows, X \ {y}) = Total(partial(X \ {y}), B)
    BY <2>2
  <2>7. Total(rows, X) = rows[y] + Total(rows, X \ {y})
    BY <2>3, <1>2, TotalAny
  <2>8. \A b \in B : partial(X)[b] = row(y)[b] + partial(X \ {y})[b]
    <3>1. \A b \in B : Total(column(b), X) = column(b)[y] + Total(column(b), X \ {y})
      BY <1>1, TotalAny
    <3>2. QED
      BY <3>1, <1>1 DEF partial
  <2>9. Total(partial(X), B) = Total(row(y), B) + Total(partial(X \ {y}), B)
    <3>1. \A b \in B : partial(X \ {y})[b] \in Nat /\ row(y)[b] \in Nat
      BY <1>1, <1>3
    <3>2. QED
      BY <3>1, <2>8, TotalSum
  <2>10. QED
    BY <2>2, <2>6, <2>7, <2>9, <1>2
<1>5. QED
  BY <1>4 DEF rows, row, column, partial

LEMMA TotalPositive ==
  ASSUME NEW S, IsFiniteSet(S), S # {}, NEW f, \A x \in S : f[x] \in Nat \ {0}
  PROVE  Total(f, S) \in Nat \ {0}
<1>1. PICK y \in S : TRUE
  OBVIOUS
<1>2. \A x \in S : f[x] \in Nat
  OBVIOUS
<1>3. Total(f, S) = f[y] + Total(f, S \ {y})
  BY <1>2, TotalAny
<1>4. Total(f, S \ {y}) \in Nat
  BY <1>2, TotalNat
<1>5. QED
  BY <1>3, <1>4

-----------------------------------------------------------------------------
(* Powers and products.                                                    *)

LEMMA PowerIs ==
  ASSUME NEW b
  PROVE  /\ Power(b, 0) = 1
         /\ \A n \in Nat : n # 0 => Power(b, n) = b * Power(b, n - 1)
<1> DEFINE R(g) == g = [n \in Nat |-> IF n = 0 THEN 1 ELSE b * g[n - 1]]
           c    == [n \in Nat |-> b]
           p    == CHOOSE g : R(g)
<1>1. \A n \in Nat : c[n] = b
  OBVIOUS
<1> HIDE DEF c
<1>2. PICK g : g = [n \in Nat |-> IF n = 0 THEN 1 ELSE c[n] * g[n - 1]]
  BY RunningProduct
<1>3. R(g)
  BY <1>1, <1>2
<1>4. R(p)
  BY <1>3
<1>5. \A n : Power(b, n) = p[n]
  BY DEF Power
<1> HIDE DEF p
<1>6. \A n \in Nat : p[n] = IF n = 0 THEN 1 ELSE b * p[n - 1]
  BY <1>4
<1>7. QED
  BY <1>5, <1>6

\* A product is taken like a sum.
Multiplied(g, f, S) ==
  g = [s \in SUBSET S |-> IF s = {} THEN 1 ELSE f[Chosen(s)] * g[s \ {Chosen(s)}]]
Product(f, S) == (CHOOSE g : Multiplied(g, f, S))[S]

LEMMA MultipliedStep ==
  ASSUME NEW g, NEW f, NEW S, Multiplied(g, f, S), NEW s \in SUBSET S
  PROVE  g[s] = IF s = {} THEN 1 ELSE f[Chosen(s)] * g[s \ {Chosen(s)}]
BY DEF Multiplied

\* There is one such function, whatever larger set it is defined for.
LEMMA MultipliedUnique ==
  ASSUME NEW S, IsFiniteSet(S), NEW R, NEW T, S \subseteq R, S \subseteq T, NEW f, NEW g, NEW h,
         Multiplied(g, f, R), Multiplied(h, f, T)
  PROVE  \A s \in SUBSET S : g[s] = h[s]
<1> DEFINE Bad == {s \in SUBSET S : g[s] # h[s]}
<1>1. SUFFICES ASSUME Bad # {} PROVE FALSE
  OBVIOUS
<1>2. PICK X \in Bad : \A Y \in Bad : Y \subseteq X => Y = X
  <2> HIDE DEF Bad
  <2>1. Bad \subseteq SUBSET S
    BY DEF Bad
  <2>2. QED
    BY <2>1, <1>1, SmallestSet
<1>3. X \in SUBSET R /\ X \in SUBSET T
  OBVIOUS
<1>4. X # {}
  BY <1>3, MultipliedStep
<1>5. Chosen(X) \in X /\ X \ {Chosen(X)} \in SUBSET S /\ X \ {Chosen(X)} # X
  BY <1>4, ChosenIn
<1>6. g[X \ {Chosen(X)}] = h[X \ {Chosen(X)}]
  BY <1>2, <1>5
<1>7. g[X] = h[X]
  BY <1>3, <1>4, <1>6, MultipliedStep
<1>8. QED
  BY <1>7

\* There is such a function for every finite set.
LEMMA MultipliedExists ==
  ASSUME NEW S, IsFiniteSet(S), NEW f
  PROVE  \E g : Multiplied(g, f, S)
<1> DEFINE Bad == {s \in SUBSET S : ~\E g : Multiplied(g, f, s)}
<1>1. SUFFICES ASSUME Bad # {} PROVE FALSE
  OBVIOUS
<1>2. PICK X \in Bad : \A Y \in Bad : Y \subseteq X => Y = X
  <2> HIDE DEF Bad
  <2>1. Bad \subseteq SUBSET S
    BY DEF Bad
  <2>2. QED
    BY <2>1, <1>1, SmallestSet
<1> DEFINE known(s) == CHOOSE g : Multiplied(g, f, s)
           value(s) == IF s = {} THEN 1 ELSE f[Chosen(s)] * known(s \ {Chosen(s)})[s \ {Chosen(s)}]
           G        == [s \in SUBSET X |-> value(s)]
<1>3. \A s \in SUBSET X : s # X => Multiplied(known(s), f, s)
  <2>1. \A s \in SUBSET X : s # X => \E g : Multiplied(g, f, s)
    BY <1>2
  <2>2. QED
    BY <2>1
<1> HIDE DEF known
<1>4. ASSUME NEW s \in SUBSET X, s # X PROVE known(s)[s] = value(s)
  <2>1. CASE s = {}
    BY <2>1, <1>3, <1>4, MultipliedStep
  <2>2. CASE s # {}
    <3> DEFINE r == s \ {Chosen(s)}
    <3>1. Chosen(s) \in s /\ r \in SUBSET X /\ r # X
      BY <2>2, ChosenIn
    <3>2. Multiplied(known(s), f, s) /\ Multiplied(known(r), f, r)
      BY <1>3, <1>4, <3>1
    <3>3. IsFiniteSet(r)
      BY <3>1, <1>2, FS_Subset
    <3>4. known(s)[r] = known(r)[r]
      <4> HIDE DEF r
      <4>1. r \subseteq s
        BY DEF r
      <4>2. QED
        BY <4>1, <3>2, <3>3, MultipliedUnique
    <3>5. known(s)[s] = f[Chosen(s)] * known(s)[r]
      BY <2>2, <3>2, MultipliedStep
    <3>6. QED
      BY <2>2, <3>4, <3>5
  <2>3. QED
    BY <2>1, <2>2
<1>5. ASSUME NEW s \in SUBSET X, s # {} PROVE value(s) = f[Chosen(s)] * G[s \ {Chosen(s)}]
  <2> DEFINE r == s \ {Chosen(s)}
  <2>1. Chosen(s) \in s /\ r \in SUBSET X /\ r # X
    BY <1>5, ChosenIn
  <2>2. known(r)[r] = value(r)
    BY <2>1, <1>4
  <2>3. G[r] = value(r)
    BY <2>1
  <2>4. value(s) = f[Chosen(s)] * known(r)[r]
    BY <1>5
  <2> HIDE DEF value, G, r
  <2>5. f[Chosen(s)] * known(r)[r] = f[Chosen(s)] * G[r]
    BY <2>2, <2>3
  <2>6. QED
    BY <2>4, <2>5 DEF r
<1>6. Multiplied(G, f, X)
  <2>1. \A s \in SUBSET X : value(s) = IF s = {} THEN 1 ELSE f[Chosen(s)] * G[s \ {Chosen(s)}]
    BY <1>5
  <2>2. G = [s \in SUBSET X |-> value(s)]
    OBVIOUS
  <2> HIDE DEF value, G
  <2>3. QED
    BY <2>1, <2>2 DEF Multiplied
<1>7. QED
  BY <1>6

\* Any function that multiplies the values of f computes the product.
LEMMA ProductIs ==
  ASSUME NEW S, IsFiniteSet(S), NEW f
  PROVE  /\ \A g : Multiplied(g, f, S) => g[S] = Product(f, S)
         /\ \A g : Multiplied(g, f, S) => \A T \in SUBSET S : g[T] = Product(f, T)
         /\ Product(f, {}) = 1
         /\ S # {} => Product(f, S) = f[Chosen(S)] * Product(f, S \ {Chosen(S)})
<1>1. \A T \in SUBSET S : IsFiniteSet(T)
  BY FS_Subset
<1>2. \A T \in SUBSET S : Multiplied(CHOOSE g : Multiplied(g, f, T), f, T)
  BY <1>1, MultipliedExists
<1>3. ASSUME NEW g, Multiplied(g, f, S), NEW T \in SUBSET S PROVE g[T] = Product(f, T)
  BY <1>1, <1>2, <1>3, MultipliedUnique DEF Product
<1>4. PICK g : Multiplied(g, f, S)
  BY MultipliedExists
<1>5. Product(f, {}) = 1
  <2>1. g[{}] = Product(f, {})
    BY <1>3, <1>4
  <2>2. g[{}] = 1
    BY <1>4, MultipliedStep
  <2>3. QED
    BY <2>1, <2>2
<1>6. S # {} => Product(f, S) = f[Chosen(S)] * Product(f, S \ {Chosen(S)})
  <2>1. g[S] = Product(f, S) /\ g[S \ {Chosen(S)}] = Product(f, S \ {Chosen(S)})
    BY <1>3, <1>4
  <2>2. S # {} => g[S] = f[Chosen(S)] * g[S \ {Chosen(S)}]
    BY <1>4, MultipliedStep
  <2>3. QED
    BY <2>1, <2>2
<1>7. QED
  BY <1>3, <1>5, <1>6

\* The product of nothing.
LEMMA ProductEmpty == \A f : Product(f, {}) = 1
BY FS_EmptySet, ProductIs

\* Naturals have a natural product.
LEMMA ProductNat ==
  ASSUME NEW S, IsFiniteSet(S), NEW f, \A x \in S : f[x] \in Nat
  PROVE  \A T \in SUBSET S : Product(f, T) \in Nat
<1> DEFINE Bad == {T \in SUBSET S : ~(Product(f, T) \in Nat)}
<1>1. SUFFICES ASSUME Bad # {} PROVE FALSE
  OBVIOUS
<1>2. PICK X \in Bad : \A Y \in Bad : Y \subseteq X => Y = X
  <2> HIDE DEF Bad
  <2>1. Bad \subseteq SUBSET S
    BY DEF Bad
  <2>2. QED
    BY <2>1, <1>1, SmallestSet
<1>3. IsFiniteSet(X) /\ \A Y \in SUBSET X : IsFiniteSet(Y)
  BY FS_Subset
<1>4. X # {}
  BY ProductEmpty
<1>5. Chosen(X) \in X /\ X \ {Chosen(X)} \in SUBSET S /\ X \ {Chosen(X)} # X
  BY <1>4, ChosenIn
<1>6. Product(f, X \ {Chosen(X)}) \in Nat
  BY <1>2, <1>5
<1>7. Product(f, X) \in Nat
  <2>1. Product(f, X) = f[Chosen(X)] * Product(f, X \ {Chosen(X)})
    BY <1>3, <1>4, ProductIs
  <2>2. f[Chosen(X)] \in Nat
    BY <1>5
  <2>3. QED
    BY <2>1, <2>2, <1>6
<1>8. QED
  BY <1>7

\* Larger factors, larger product.
LEMMA ProductOrder ==
  ASSUME NEW S, IsFiniteSet(S), NEW f, NEW h,
         \A x \in S : f[x] \in Nat /\ h[x] \in Nat /\ f[x] <= h[x]
  PROVE  Product(f, S) <= Product(h, S)
<1> DEFINE Bad == {T \in SUBSET S : ~(Product(f, T) <= Product(h, T))}
<1>1. SUFFICES ASSUME Bad # {} PROVE FALSE
  OBVIOUS
<1>2. PICK X \in Bad : \A Y \in Bad : Y \subseteq X => Y = X
  <2> HIDE DEF Bad
  <2>1. Bad \subseteq SUBSET S
    BY DEF Bad
  <2>2. QED
    BY <2>1, <1>1, SmallestSet
<1>3. IsFiniteSet(X)
  BY FS_Subset
<1>4. X # {}
  <2>1. Product(f, {}) = 1 /\ Product(h, {}) = 1
    BY ProductEmpty
  <2>2. QED
    BY <2>1
<1> DEFINE c == Chosen(X)
           r == X \ {c}
<1>5. c \in S /\ r \in SUBSET S /\ r # X /\ r \subseteq X
  BY <1>4, ChosenIn
<1>6. Product(f, r) <= Product(h, r)
  BY <1>2, <1>5
<1>7. Product(f, X) = f[c] * Product(f, r) /\ Product(h, X) = h[c] * Product(h, r)
  BY <1>3, <1>4, ProductIs
<1>8. Product(f, r) \in Nat /\ Product(h, r) \in Nat
  <2> HIDE DEF r
  <2>1. QED
    BY <1>5, ProductNat
<1>9. f[c] \in Nat /\ h[c] \in Nat /\ f[c] <= h[c]
  BY <1>5
<1> DEFINE a == Product(f, r)
           b == Product(h, r)
<1> HIDE DEF c, r
<1>10. f[c] * a <= h[c] * b
  <2> HIDE DEF a, b
  <2>1. a \in Nat /\ b \in Nat /\ a <= b
    BY <1>6, <1>8 DEF a, b
  <2>2. f[c] * a <= f[c] * b /\ f[c] * b <= h[c] * b
    BY <2>1, <1>9
  <2>3. QED
    BY <2>1, <2>2, <1>9
<1>11. QED
  BY <1>2, <1>7, <1>10

\* A factor of 0 leaves nothing.
LEMMA ProductZero ==
  ASSUME NEW S, IsFiniteSet(S), NEW f, \A x \in S : f[x] \in Nat, NEW y \in S, f[y] = 0
  PROVE  Product(f, S) = 0
<1> DEFINE Bad == {T \in SUBSET S : y \in T /\ Product(f, T) # 0}
<1>1. SUFFICES ASSUME Bad # {} PROVE FALSE
  OBVIOUS
<1>2. PICK X \in Bad : \A Y \in Bad : Y \subseteq X => Y = X
  <2> HIDE DEF Bad
  <2>1. Bad \subseteq SUBSET S
    BY DEF Bad
  <2>2. QED
    BY <2>1, <1>1, SmallestSet
<1>3. IsFiniteSet(X) /\ X # {}
  BY FS_Subset
<1> DEFINE c == Chosen(X)
           r == X \ {c}
<1>4. c \in S /\ r \in SUBSET S /\ r # X /\ r \subseteq X
  BY <1>3, ChosenIn
<1>5. Product(f, X) = f[c] * Product(f, r)
  BY <1>3, ProductIs
<1>6. Product(f, r) \in Nat /\ f[c] \in Nat
  <2> HIDE DEF r
  <2>1. QED
    BY <1>4, ProductNat
<1>7. CASE c = y
  BY <1>2, <1>5, <1>6, <1>7
<1>8. CASE c # y
  <2>1. y \in r
    BY <1>2, <1>8
  <2>2. Product(f, r) = 0
    BY <1>2, <1>4, <2>1
  <2>3. QED
    BY <1>2, <1>5, <1>6, <2>2
<1>9. QED
  BY <1>7, <1>8

\* Powers are natural numbers, 0 only of 0, and in the order of what they are
\* powers of.
LEMMA PowerNat ==
  ASSUME NEW b \in Nat
  PROVE  /\ \A n \in Nat : Power(b, n) \in Nat
         /\ b # 0 => \A n \in Nat : Power(b, n) # 0
<1> DEFINE Bad == {n \in Nat : ~(Power(b, n) \in Nat /\ (b # 0 => Power(b, n) # 0))}
<1>1. SUFFICES ASSUME Bad # {} PROVE FALSE
  OBVIOUS
<1>2. PICK n \in Bad : \A k \in Bad : n <= k
  <2>1. Bad \subseteq Nat
    OBVIOUS
  <2> HIDE DEF Bad
  <2>2. QED
    BY <1>1, <2>1, SmallestNumber
<1>3. n # 0
  BY PowerIs
<1>4. n - 1 \in Nat /\ Power(b, n - 1) \in Nat /\ (b # 0 => Power(b, n - 1) # 0)
  BY <1>2, <1>3
<1>5. Power(b, n) = b * Power(b, n - 1)
  BY <1>3, PowerIs
<1> DEFINE q == Power(b, n - 1)
<1> HIDE DEF q
<1>6. q \in Nat /\ (b # 0 => q # 0) /\ Power(b, n) = b * q
  BY <1>4, <1>5 DEF q
<1>7. b * q \in Nat /\ (b # 0 => b * q # 0)
  BY <1>6
<1>8. QED
  BY <1>6, <1>7

LEMMA PowerOrder ==
  ASSUME NEW a \in Nat, NEW b \in Nat, a <= b
  PROVE  \A n \in Nat : Power(a, n) <= Power(b, n)
<1> DEFINE Bad == {n \in Nat : ~(Power(a, n) <= Power(b, n))}
<1>1. SUFFICES ASSUME Bad # {} PROVE FALSE
  OBVIOUS
<1>2. PICK n \in Bad : \A k \in Bad : n <= k
  <2>1. Bad \subseteq Nat
    OBVIOUS
  <2> HIDE DEF Bad
  <2>2. QED
    BY <1>1, <2>1, SmallestNumber
<1>3. n # 0
  <2>1. Power(a, 0) = 1 /\ Power(b, 0) = 1
    BY PowerIs
  <2>2. QED
    BY <2>1
<1> DEFINE p == Power(a, n - 1)
           q == Power(b, n - 1)
<1>4. n - 1 \in Nat /\ p <= q
  BY <1>2, <1>3
<1>5. p \in Nat /\ q \in Nat
  <2>1. p \in Nat
    BY <1>4, PowerNat
  <2>2. q \in Nat
    BY <1>4, PowerNat
  <2>3. QED
    BY <2>1, <2>2
<1>6. Power(a, n) = a * p /\ Power(b, n) = b * q
  <2>1. Power(a, n) = a * p
    BY <1>3, PowerIs
  <2>2. Power(b, n) = b * q
    BY <1>3, PowerIs
  <2>3. QED
    BY <2>1, <2>2
<1> HIDE DEF p, q
<1>7. a * p <= a * q /\ a * q <= b * q
  BY <1>4, <1>5
<1>8. a * p \in Nat /\ a * q \in Nat /\ b * q \in Nat
  BY <1>5
<1>9. QED
  BY <1>2, <1>6, <1>7, <1>8

LEMMA PowerTimes ==
  ASSUME NEW a \in Nat, NEW b \in Nat
  PROVE  \A n \in Nat : Power(a * b, n) = Power(a, n) * Power(b, n)
<1> DEFINE Bad == {n \in Nat : Power(a * b, n) # Power(a, n) * Power(b, n)}
<1>1. SUFFICES ASSUME Bad # {} PROVE FALSE
  OBVIOUS
<1>2. PICK n \in Bad : \A k \in Bad : n <= k
  <2>1. Bad \subseteq Nat
    OBVIOUS
  <2> HIDE DEF Bad
  <2>2. QED
    BY <1>1, <2>1, SmallestNumber
<1>3. n # 0
  <2>1. Power(a, 0) = 1 /\ Power(b, 0) = 1 /\ Power(a * b, 0) = 1
    BY PowerIs
  <2>2. QED
    BY <2>1
<1> DEFINE p == Power(a, n - 1)
           q == Power(b, n - 1)
<1>4. n - 1 \in Nat /\ Power(a * b, n - 1) = p * q
  BY <1>2, <1>3
<1>5. p \in Nat /\ q \in Nat
  <2>1. p \in Nat
    BY <1>4, PowerNat
  <2>2. q \in Nat
    BY <1>4, PowerNat
  <2>3. QED
    BY <2>1, <2>2
<1>6. Power(a, n) = a * p /\ Power(b, n) = b * q /\ Power(a * b, n) = (a * b) * (p * q)
  <2>1. Power(a, n) = a * p
    BY <1>3, PowerIs
  <2>2. Power(b, n) = b * q
    BY <1>3, PowerIs
  <2>3. Power(a * b, n) = (a * b) * Power(a * b, n - 1)
    BY <1>3, PowerIs
  <2>4. QED
    BY <1>4, <2>1, <2>2, <2>3
<1> HIDE DEF p, q
<1>7. (a * b) * (p * q) = (a * p) * (b * q)
  BY <1>5
<1>8. QED
  BY <1>2, <1>6, <1>7

LEMMA PowerZero == \A n \in Nat : n # 0 => Power(0, n) = 0
<1>1. SUFFICES ASSUME NEW n \in Nat, n # 0 PROVE Power(0, n) = 0
  OBVIOUS
<1>2. Power(0, n) = 0 * Power(0, n - 1)
  BY <1>1, PowerIs
<1>3. n - 1 \in Nat
  BY <1>1
<1>4. Power(0, n - 1) \in Nat
  BY <1>3, PowerNat
<1>5. QED
  BY <1>2, <1>4

-----------------------------------------------------------------------------
(* Totals over parts of a set, and powers of totals.                       *)

\* Larger values, larger sum.
LEMMA TotalOrder ==
  ASSUME NEW S, IsFiniteSet(S), NEW f, NEW h,
         \A x \in S : f[x] \in Nat /\ h[x] \in Nat /\ f[x] <= h[x]
  PROVE  Total(f, S) \in Nat /\ Total(h, S) \in Nat /\ Total(f, S) <= Total(h, S)
<1> DEFINE d == [x \in S |-> h[x] - f[x]]
<1>1. \A x \in S : d[x] \in Nat /\ h[x] = f[x] + d[x]
  OBVIOUS
<1> HIDE DEF d
<1>2. Total(h, S) = Total(f, S) + Total(d, S)
  BY <1>1, TotalSum
<1>3. Total(f, S) \in Nat
  BY TotalNat
<1>4. Total(d, S) \in Nat
  BY <1>1, TotalNat
<1>5. QED
  BY <1>2, <1>3, <1>4

\* The total of one entry is the entry.
LEMMA TotalOne == ASSUME NEW f, NEW x, f[x] \in Nat PROVE Total(f, {x}) = f[x]
<1> DEFINE S == {x}
<1>1. IsFiniteSet(S) /\ (\A y \in S : f[y] \in Nat) /\ S \in SUBSET S /\ x \in S
  BY FS_Singleton
<1>2. S \ {x} = {}
  OBVIOUS
<1> HIDE DEF S
<1>3. Total(f, S) = f[x] + Total(f, S \ {x})
  BY <1>1, TotalAny
<1>4. Total(f, S \ {x}) = 0
  BY <1>2, TotalEmpty
<1>5. QED
  BY <1>3, <1>4 DEF S

\* The members of S whose key is b.
Part(S, key, b) == {x \in S : key[x] = b}

\* A total is the total of the totals of its groups.
LEMMA TotalOfGroups ==
  ASSUME NEW S, IsFiniteSet(S), NEW B, IsFiniteSet(B), NEW key, \A x \in S : key[x] \in B,
         NEW f, \A x \in S : f[x] \in Nat,
         NEW h, \A b \in B : h[b] = Total(f, Part(S, key, b))
  PROVE  Total(h, B) = Total(f, S)
<1> DEFINE m == [p \in B \X S |-> IF key[p[2]] = p[1] THEN f[p[2]] ELSE 0]
           of(b) == Part(S, key, b)
           row(b) == [x \in S |-> m[<<b, x>>]]
           col(x) == [b \in B |-> m[<<b, x>>]]
           rows == [b \in B |-> Total(row(b), S)]
           cols == [x \in S |-> Total(col(x), B)]
<1>1. m \in [B \X S -> Nat]
  OBVIOUS
<1>2. \A b \in B, x \in S : m[<<b, x>>] = IF key[x] = b THEN f[x] ELSE 0
  OBVIOUS
<1> HIDE DEF m
<1>3. Total(rows, B) = Total(cols, S)
  BY <1>1, Exchange
<1>4. \A b \in B : rows[b] = h[b]
  <2> SUFFICES ASSUME NEW b \in B PROVE rows[b] = h[b]
    OBVIOUS
  <2>1. \A x \in S : f[x] \in Nat /\ row(b)[x] = IF x \in of(b) THEN f[x] ELSE 0
    BY <1>2 DEF Part
  <2>2. rows[b] = Total(row(b), S)
    OBVIOUS
  <2>3. S \cap of(b) = of(b)
    BY DEF Part
  <2>4. h[b] = Total(f, of(b))
    OBVIOUS
  <2> HIDE DEF row, of, rows
  <2>5. Total(row(b), S) = Total(f, S \cap of(b))
    BY <2>1, TotalWithin
  <2>6. QED
    BY <2>2, <2>3, <2>4, <2>5
<1>5. \A x \in S : cols[x] = f[x]
  <2> SUFFICES ASSUME NEW x \in S PROVE cols[x] = f[x]
    OBVIOUS
  <2> DEFINE same == [b \in B |-> f[x]]
             y == key[x]
  <2>1. \A b \in B : same[b] \in Nat /\ col(x)[b] = IF b \in {y} THEN same[b] ELSE 0
    BY <1>2
  <2>2. cols[x] = Total(col(x), B)
    OBVIOUS
  <2>3. y \in B /\ same[y] = f[x] /\ f[x] \in Nat
    OBVIOUS
  <2> HIDE DEF col, cols, same, y
  <2>4. Total(col(x), B) = Total(same, B \cap {y})
    BY <2>1, TotalWithin
  <2>5. B \cap {y} = {y}
    BY <2>3
  <2>6. Total(same, {y}) = same[y]
    BY <2>3, TotalOne
  <2>7. QED
    BY <2>2, <2>3, <2>4, <2>5, <2>6
<1> HIDE DEF rows, cols
<1>6. \A x \in S : f[x] \in Nat /\ cols[x] = f[x]
  BY <1>5
<1>7. Total(f, S) = Total(cols, S)
  BY <1>6, TotalEqual
<1>8. \A b \in B : Total(f, of(b)) \in Nat
  BY TotalNat DEF Part
<1>9. \A b \in B : h[b] \in Nat /\ rows[b] = h[b]
  BY <1>4, <1>8
<1>10. Total(h, B) = Total(rows, B)
  BY <1>9, TotalEqual
<1>11. QED
  BY <1>3, <1>7, <1>10

\* Two sets of groups whose members have the same values have the same total.
LEMMA TotalRenamed ==
  ASSUME NEW S, IsFiniteSet(S), NEW B, IsFiniteSet(B), NEW key, \A x \in S : key[x] \in B,
         \A x, y \in S : key[x] = key[y] => x = y, \A b \in B : \E x \in S : key[x] = b,
         NEW f, \A x \in S : f[x] \in Nat, NEW h, \A x \in S : h[key[x]] = f[x]
  PROVE  Total(h, B) = Total(f, S) /\ Cardinality(B) = Cardinality(S)
<1>1. ASSUME NEW v, \A x \in S : v[x] \in Nat, NEW w, \A x \in S : w[key[x]] = v[x]
      PROVE  Total(w, B) = Total(v, S)
  <2>1. ASSUME NEW b \in B PROVE w[b] = Total(v, Part(S, key, b))
    <3>1. PICK x \in S : key[x] = b
      OBVIOUS
    <3>2. Part(S, key, b) = {x}
      BY <3>1 DEF Part
    <3>3. Total(v, {x}) = v[x]
      BY <1>1, TotalOne
    <3>4. w[b] = v[x]
      BY <1>1, <3>1
    <3>5. QED
      BY <3>2, <3>3, <3>4
  <2>2. QED
    BY <1>1, <2>1, TotalOfGroups
<1>2. Total(h, B) = Total(f, S)
  BY <1>1
<1> DEFINE one == [x \in S |-> 1]
           ones == [b \in B |-> 1]
<1>3. (\A x \in S : one[x] = 1) /\ (\A b \in B : ones[b] = 1)
  OBVIOUS
<1> HIDE DEF one, ones
<1>4. Total(ones, B) = Total(one, S)
  BY <1>1, <1>3
<1>5. Total(one, S) = Cardinality(S) * 1 /\ Total(ones, B) = Cardinality(B) * 1
  BY <1>3, TotalConstant
<1>6. Cardinality(S) \in Nat /\ Cardinality(B) \in Nat
  BY FS_CardinalityType
<1>7. QED
  BY <1>2, <1>4, <1>5, <1>6

\* The groups of a set have as many members as it.
LEMMA CountOfGroups ==
  ASSUME NEW S, IsFiniteSet(S), NEW B, IsFiniteSet(B), NEW key, \A x \in S : key[x] \in B,
         NEW h, \A b \in B : h[b] = Cardinality(Part(S, key, b))
  PROVE  Total(h, B) = Cardinality(S)
<1> DEFINE one == [x \in S |-> 1]
<1>1. \A x \in S : one[x] = 1
  OBVIOUS
<1> HIDE DEF one
<1>2. \A T \in SUBSET S : IsFiniteSet(T) /\ Total(one, T) = Cardinality(T)
  <2> SUFFICES ASSUME NEW T \in SUBSET S PROVE IsFiniteSet(T) /\ Total(one, T) = Cardinality(T)
    OBVIOUS
  <2>1. IsFiniteSet(T)
    BY FS_Subset
  <2>2. Cardinality(T) \in Nat
    BY <2>1, FS_CardinalityType
  <2>3. Total(one, T) = Cardinality(T) * 1
    BY <1>1, <2>1, TotalConstant
  <2>4. QED
    BY <2>1, <2>2, <2>3
<1>3. \A b \in B : h[b] = Total(one, Part(S, key, b))
  BY <1>2 DEF Part
<1>4. \A x \in S : one[x] \in Nat
  BY <1>1
<1>5. Total(h, B) = Total(one, S)
  BY <1>3, <1>4, TotalOfGroups
<1>6. QED
  BY <1>2, <1>5

\* Powers of one number add their exponents.
LEMMA PowerAdd ==
  ASSUME NEW b \in Nat, NEW m \in Nat
  PROVE  \A n \in Nat : Power(b, m + n) = Power(b, m) * Power(b, n)
<1> DEFINE Bad == {n \in Nat : Power(b, m + n) # Power(b, m) * Power(b, n)}
<1>1. SUFFICES ASSUME Bad # {} PROVE FALSE
  OBVIOUS
<1>2. PICK n \in Bad : \A k \in Bad : n <= k
  <2>1. Bad \subseteq Nat
    OBVIOUS
  <2> HIDE DEF Bad
  <2>2. QED
    BY <1>1, <2>1, SmallestNumber
<1>3. Power(b, m) \in Nat
  BY PowerNat
<1>4. n # 0
  <2>1. Power(b, 0) = 1 /\ m + 0 = m
    BY PowerIs
  <2>2. QED
    BY <1>3, <2>1
<1> DEFINE p == Power(b, m)
           q == Power(b, n - 1)
<1>5. n - 1 \in Nat /\ Power(b, m + (n - 1)) = p * q
  BY <1>2, <1>4
<1>6. q \in Nat
  BY <1>5, PowerNat
<1>7. Power(b, n) = b * q
  BY <1>4, PowerIs
<1>8. Power(b, m + n) = b * (p * q)
  <2>1. m + n \in Nat /\ m + n # 0 /\ (m + n) - 1 = m + (n - 1)
    BY <1>4
  <2>2. Power(b, m + n) = b * Power(b, (m + n) - 1)
    BY <2>1, PowerIs
  <2>3. QED
    BY <2>1, <2>2, <1>5
<1> HIDE DEF p, q
<1>9. p \in Nat /\ b * (p * q) = p * (b * q)
  BY <1>3, <1>6 DEF p
<1>10. QED
  BY <1>2, <1>7, <1>8, <1>9 DEF p

\* A larger number has larger powers.
LEMMA PowerStrict ==
  ASSUME NEW a \in Nat, NEW b \in Nat, a < b
  PROVE  \A n \in Nat : n # 0 => Power(a, n) < Power(b, n)
<1> DEFINE Bad == {n \in Nat : n # 0 /\ ~(Power(a, n) < Power(b, n))}
<1>1. SUFFICES ASSUME Bad # {} PROVE FALSE
  OBVIOUS
<1>2. PICK n \in Bad : \A k \in Bad : n <= k
  <2>1. Bad \subseteq Nat
    OBVIOUS
  <2> HIDE DEF Bad
  <2>2. QED
    BY <1>1, <2>1, SmallestNumber
<1> DEFINE p == Power(a, n - 1)
           q == Power(b, n - 1)
<1>3. n - 1 \in Nat /\ n # 0
  BY <1>2
<1>4. p <= q
  BY <1>3, PowerOrder
<1>5. p \in Nat /\ q \in Nat /\ q # 0
  <2>1. p \in Nat
    BY <1>3, PowerNat
  <2>2. b # 0
    OBVIOUS
  <2>4. q \in Nat /\ q # 0
    BY <1>3, <2>2, PowerNat
  <2>3. QED
    BY <2>1, <2>4
<1>6. Power(a, n) = a * p /\ Power(b, n) = b * q
  <2>1. Power(a, n) = a * p
    BY <1>3, PowerIs
  <2>2. Power(b, n) = b * q
    BY <1>3, PowerIs
  <2>3. QED
    BY <2>1, <2>2
<1> HIDE DEF p, q
<1>7. a * p <= a * q /\ a * q < b * q /\ a * p \in Nat /\ a * q \in Nat /\ b * q \in Nat
  BY <1>4, <1>5
<1>8. QED
  BY <1>2, <1>6, <1>7

\* The product of powers of one number is its power to the sum.
LEMMA ProductOfPowers ==
  ASSUME NEW b \in Nat, NEW S, IsFiniteSet(S), NEW w, \A x \in S : w[x] \in Nat,
         NEW f, \A x \in S : f[x] = Power(b, w[x])
  PROVE  Product(f, S) = Power(b, Total(w, S))
<1> DEFINE Bad == {T \in SUBSET S : Product(f, T) # Power(b, Total(w, T))}
<1>1. SUFFICES ASSUME Bad # {} PROVE FALSE
  OBVIOUS
<1>2. PICK X \in Bad : \A Y \in Bad : Y \subseteq X => Y = X
  <2> HIDE DEF Bad
  <2>1. Bad \subseteq SUBSET S
    BY DEF Bad
  <2>2. QED
    BY <2>1, <1>1, SmallestSet
<1>3. IsFiniteSet(X)
  BY FS_Subset
<1>4. X # {}
  <2>1. Product(f, {}) = 1 /\ Total(w, {}) = 0 /\ Power(b, 0) = 1
    BY ProductEmpty, TotalEmpty, PowerIs
  <2>2. QED
    BY <2>1
<1> DEFINE c == Chosen(X)
           r == X \ {c}
<1>5. c \in S /\ c \in X /\ r \in SUBSET S /\ r # X /\ r \subseteq X
  BY <1>4, ChosenIn
<1>6. Product(f, r) = Power(b, Total(w, r))
  BY <1>2, <1>5
<1>7. Product(f, X) = f[c] * Product(f, r)
  BY <1>3, <1>4, ProductIs
<1>8. \A x \in X : w[x] \in Nat
  BY <1>5
<1>9. Total(w, X) = w[c] + Total(w, r)
  BY <1>3, <1>5, <1>8, TotalAny
<1>10. IsFiniteSet(r) /\ \A x \in r : w[x] \in Nat
  BY <1>3, <1>5, FS_Subset
<1> HIDE DEF r, c
<1>11. Total(w, r) \in Nat
  BY <1>10, TotalNat
<1>12. Power(b, w[c] + Total(w, r)) = Power(b, w[c]) * Power(b, Total(w, r))
  BY <1>5, <1>11, PowerAdd
<1>13. QED
  BY <1>2, <1>5, <1>6, <1>7, <1>9, <1>12
=============================================================================
