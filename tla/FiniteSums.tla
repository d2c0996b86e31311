----------------------------- MODULE FiniteSums -----------------------------
(***************************************************************************)
(* Least elements, and sums over finite sets: the budgets of inspections   *)
(* and of model calls are such sums.  The library's induction theorems     *)
(* cannot be instantiated, so every induction is an argument about a least *)
(* counterexample.                                                         *)
(***************************************************************************)
EXTENDS Integers, FiniteSets, Functions, FiniteSetTheorems, NaturalsInduction,
        WellFoundedInduction, TLAPS

\* A set of numbers that is not empty has a least one.
LEMMA Least ==
  ASSUME NEW S \in SUBSET Nat, S # {}
  PROVE  \E m \in S : \A k \in 0..(m-1) : k \notin S
<1>1. PICK x \in S : \A y \in S : ~(<<y, x>> \in OpToRel(<, Nat))
  BY NatLessThanWellFounded, WFMin
<1>2. \A y \in S : ~(y < x)
  <2> TAKE y \in S
  <2>1. ~(<<y, x>> \in {ss \in Nat \X Nat : ss[1] < ss[2]})
    BY <1>1 DEF OpToRel
  <2> QED
    BY <2>1
<1> QED
  BY <1>2

Pick(s) == CHOOSE x \in s : TRUE

\* Function g holds the sums of f over subsets of S.
Sums(f, S, g) ==
  g = [s \in SUBSET S |-> IF s = {} THEN 0 ELSE f[Pick(s)] + g[s \ {Pick(s)}]]

LEMMA SumIs ==
  ASSUME NEW f, NEW S, NEW g, Sums(f, S, g)
  PROVE  \E h : Sums(f, S, h) /\ SumFunctionOnSet(f, S) = h[S]
<1> DEFINE iter[s \in SUBSET S] ==
             IF s = {} THEN 0 ELSE LET x == CHOOSE x \in s : TRUE IN f[x] + iter[s \ {x}]
           F(h) == [s \in SUBSET S |->
                     IF s = {} THEN 0 ELSE LET x == CHOOSE x \in s : TRUE IN f[x] + h[s \ {x}]]
<1>1. SumFunctionOnSet(f, S) = iter[S]
  BY DEF SumFunctionOnSet, FoldFunctionOnSet, MapThenFoldSet
<1>2. iter = CHOOSE h : h = F(h)
  OBVIOUS
<1>3. \E h : h = F(h)
  BY DEF Sums, Pick
<1>4. Sums(f, S, iter)
  BY <1>2, <1>3 DEF Sums, Pick
<1> QED
  BY <1>1, <1>4

\* The same for the subsets of at most n elements.
SmallSums(f, S, n, g) ==
  g = [s \in {t \in SUBSET S : Cardinality(t) <= n} |->
         IF s = {} THEN 0 ELSE f[Pick(s)] + g[s \ {Pick(s)}]]

LEMMA Picked ==
  ASSUME NEW S, IsFiniteSet(S), S # {}
  PROVE  /\ Pick(S) \in S /\ IsFiniteSet(S \ {Pick(S)})
         /\ Cardinality(S) \in Nat \ {0} /\ Cardinality(S \ {Pick(S)}) = Cardinality(S) - 1
<1>1. Pick(S) \in S
  BY DEF Pick
<1>2. Cardinality(S) \in Nat /\ Cardinality(S) # 0
  BY FS_CardinalityType, FS_EmptySet
<1> QED
  BY <1>1, <1>2, FS_RemoveElement

\* The recursion over subsets ends: sums exist.
LEMMA SumsExist ==
  ASSUME NEW f, NEW S, IsFiniteSet(S)
  PROVE  \E g : Sums(f, S, g)
<1> DEFINE Sub(n) == {t \in SUBSET S : Cardinality(t) <= n}
           Bad == {n \in Nat : ~\E g : SmallSums(f, S, n, g)}
<1>0. \A t \in SUBSET S : IsFiniteSet(t) /\ Cardinality(t) \in Nat /\ Cardinality(t) <= Cardinality(S)
  BY FS_Subset, FS_CardinalityType
<1>1. Bad = {}
  <2> SUFFICES ASSUME Bad # {} PROVE FALSE
    OBVIOUS
  <2>0. Bad \in SUBSET Nat
    OBVIOUS
  <2>1. PICK n \in Bad : \A k \in 0..(n-1) : k \notin Bad
    <3> HIDE DEF Bad
    <3> QED
      BY <2>0, Least
  <2>2. n # 0
    <3> DEFINE g == [s \in Sub(0) |-> 0]
    <3>1. \A s \in Sub(0) : s = {}
      BY <1>0, FS_EmptySet
    <3>2. SmallSums(f, S, 0, g)
      BY <3>1 DEF SmallSums
    <3> QED
      BY <2>1, <3>2
  <2>3. PICK g : SmallSums(f, S, n-1, g)
    <3>1. n-1 \in 0..(n-1) /\ n-1 \in Nat
      BY <2>1, <2>2
    <3> QED
      BY <2>1, <3>1
  <2> DEFINE value(s) == IF s = {} THEN 0 ELSE f[Pick(s)] + g[s \ {Pick(s)}]
             h == [s \in Sub(n) |-> value(s)]
  <2>4. \A s \in Sub(n-1) : g[s] = value(s)
    BY <2>3 DEF SmallSums
  <2>5. ASSUME NEW s \in Sub(n), s # {} PROVE h[s \ {Pick(s)}] = g[s \ {Pick(s)}]
    <3>1. s \ {Pick(s)} \in Sub(n-1) /\ s \ {Pick(s)} \in Sub(n)
      BY <1>0, <2>1, <2>5, Picked
    <3> QED
      BY <2>4, <3>1
  <2>6. SmallSums(f, S, n, h)
    <3>1. \A s \in Sub(n) : value(s) = IF s = {} THEN 0 ELSE f[Pick(s)] + h[s \ {Pick(s)}]
      BY <2>5
    <3> QED
      BY <3>1 DEF SmallSums
  <2> QED
    BY <2>1, <2>6
<1>2. PICK g : SmallSums(f, S, Cardinality(S), g)
  BY <1>0, <1>1
<1>3. Sub(Cardinality(S)) = SUBSET S
  BY <1>0
<1> QED
  BY <1>2, <1>3 DEF SmallSums, Sums

\* A set of subsets that is not empty has one that no element can be taken
\* from.
LEMMA LeastSubset ==
  ASSUME NEW U, IsFiniteSet(U), NEW Q \in SUBSET (SUBSET U), Q # {}
  PROVE  \E s \in Q : \A x \in s : s \ {x} \notin Q
<1> DEFINE Sizes == {Cardinality(s) : s \in Q}
<1>1. \A s \in Q : IsFiniteSet(s) /\ Cardinality(s) \in Nat
  BY FS_Subset, FS_CardinalityType
<1>2. Sizes \in SUBSET Nat /\ Sizes # {}
  BY <1>1
<1> HIDE DEF Sizes
<1>3. PICK n \in Sizes : \A k \in 0..(n-1) : k \notin Sizes
  BY <1>2, Least
<1> USE DEF Sizes
<1>4. PICK s \in Q : Cardinality(s) = n
  BY <1>3
<1>5. ASSUME NEW x \in s, s \ {x} \in Q PROVE FALSE
  <2>1. Cardinality(s \ {x}) = n - 1
    BY <1>1, <1>4, FS_RemoveElement
  <2>2. Cardinality(s \ {x}) \in Nat /\ Cardinality(s \ {x}) \in Sizes
    BY <1>1, <1>5
  <2>3. n \in Nat
    BY <1>2
  <2> HIDE DEF Sizes
  <2> QED
    BY <1>3, <2>1, <2>2, <2>3
<1> QED
  BY <1>4, <1>5

\* Two functions that hold sums agree where both do.
LEMMA SumsAgree ==
  ASSUME NEW f, NEW S, IsFiniteSet(S), NEW T \in SUBSET S, NEW g, Sums(f, S, g),
         NEW h, Sums(f, T, h)
  PROVE  g[T] = h[T]
<1> DEFINE Q == {t \in SUBSET T : g[t] # h[t]}
<1>1. Q = {}
  <2> SUFFICES ASSUME Q # {} PROVE FALSE
    OBVIOUS
  <2>1. IsFiniteSet(T) /\ Q \in SUBSET (SUBSET T)
    BY FS_Subset
  <2>2. PICK t \in Q : \A x \in t : t \ {x} \notin Q
    <3> HIDE DEF Q
    <3> QED
      BY <2>1, LeastSubset
  <2>3. /\ g[t] = IF t = {} THEN 0 ELSE f[Pick(t)] + g[t \ {Pick(t)}]
        /\ h[t] = IF t = {} THEN 0 ELSE f[Pick(t)] + h[t \ {Pick(t)}]
    <3>1. t \in SUBSET S /\ t \in SUBSET T
      OBVIOUS
    <3> QED
      BY <3>1 DEF Sums
  <2>4. t # {}
    BY <2>3
  <2>5. Pick(t) \in t
    BY <2>4 DEF Pick
  <2>6. g[t \ {Pick(t)}] = h[t \ {Pick(t)}]
    BY <2>2, <2>5
  <2> QED
    BY <2>3, <2>6
<1> QED
  BY <1>1

\* One element less, and its value less; whichever element it is.
LEMMA SumStep ==
  ASSUME NEW U, IsFiniteSet(U), NEW f \in [U -> Nat]
  PROVE  /\ SumFunctionOnSet(f, {}) = 0
         /\ \A S \in SUBSET U :
              /\ SumFunctionOnSet(f, S) \in Nat
              /\ \A x \in S : SumFunctionOnSet(f, S) = f[x] + SumFunctionOnSet(f, S \ {x})
<1>1. PICK g : Sums(f, U, g)
  BY SumsExist
<1>2. \A S \in SUBSET U : SumFunctionOnSet(f, S) = g[S]
  <2> TAKE S \in SUBSET U
  <2>1. IsFiniteSet(S)
    BY FS_Subset
  <2>2. PICK h : Sums(f, S, h) /\ SumFunctionOnSet(f, S) = h[S]
    BY <2>1, SumsExist, SumIs
  <2> QED
    BY <1>1, <2>2, SumsAgree
<1>3. g[{}] = 0
  <2>1. {} \in SUBSET U
    OBVIOUS
  <2> QED
    BY <1>1, <2>1 DEF Sums
<1>4. \A s \in SUBSET U : s # {} => Pick(s) \in s /\ g[s] = f[Pick(s)] + g[s \ {Pick(s)}]
  BY <1>1 DEF Sums, Pick
<1>5. \A s \in SUBSET U : g[s] \in Nat
  <2> DEFINE Q == {s \in SUBSET U : g[s] \notin Nat}
  <2> SUFFICES ASSUME Q # {} PROVE FALSE
    OBVIOUS
  <2>1. Q \in SUBSET (SUBSET U)
    OBVIOUS
  <2>2. PICK s \in Q : \A x \in s : s \ {x} \notin Q
    <3> HIDE DEF Q
    <3> QED
      BY <2>1, LeastSubset
  <2>3. s # {} /\ s \in SUBSET U
    BY <1>3
  <2>4. g[s \ {Pick(s)}] \in Nat /\ f[Pick(s)] \in Nat
    BY <1>4, <2>2, <2>3
  <2> QED
    BY <1>4, <2>3, <2>4
<1>6. \A s \in SUBSET U : \A x \in s : g[s] = f[x] + g[s \ {x}]
  <2> DEFINE Q == {s \in SUBSET U : \E x \in s : g[s] # f[x] + g[s \ {x}]}
  <2> SUFFICES ASSUME Q # {} PROVE FALSE
    OBVIOUS
  <2>1. Q \in SUBSET (SUBSET U)
    OBVIOUS
  <2>2. PICK s \in Q : \A x \in s : s \ {x} \notin Q
    <3> HIDE DEF Q
    <3> QED
      BY <2>1, LeastSubset
  <2>3. PICK x \in s : g[s] # f[x] + g[s \ {x}]
    OBVIOUS
  <2>4. s \in SUBSET U /\ s # {}
    OBVIOUS
  <2>5. PICK c \in s : c = Pick(s)
    BY <1>4, <2>4
  <2>6. g[s] = f[c] + g[s \ {c}] /\ c # x
    BY <1>4, <2>3, <2>4, <2>5
  <2>7. /\ (s \ {c}) \ {x} = (s \ {x}) \ {c} /\ (s \ {x}) \ {c} \in SUBSET U
        /\ x \in s \ {c} /\ c \in s \ {x} /\ s \ {c} \in SUBSET U /\ s \ {x} \in SUBSET U
    BY <2>4, <2>6
  <2>8. g[s \ {c}] = f[x] + g[(s \ {c}) \ {x}]
    BY <2>2, <2>7
  <2>9. g[s \ {x}] = f[c] + g[(s \ {x}) \ {c}]
    BY <2>2, <2>7
  <2>10. g[(s \ {x}) \ {c}] \in Nat /\ f[x] \in Nat /\ f[c] \in Nat
    BY <1>5, <2>4, <2>7
  <2>11. PICK rest \in Nat : rest = g[(s \ {x}) \ {c}]
    BY <2>10
  <2>12. g[s \ {c}] = f[x] + rest /\ g[s \ {x}] = f[c] + rest
    BY <2>7, <2>8, <2>9, <2>11
  <2> HIDE DEF Q
  <2> QED
    BY <2>3, <2>6, <2>10, <2>12
<1>7. {} \in SUBSET U /\ \A S \in SUBSET U : \A x \in S : S \ {x} \in SUBSET U
  OBVIOUS
<1> QED
  BY <1>2, <1>3, <1>5, <1>6, <1>7

\* More elements with larger values have a larger sum.
LEMMA SumMonotone ==
  ASSUME NEW U, IsFiniteSet(U), NEW f \in [U -> Nat], NEW h \in [U -> Nat],
         NEW T \in SUBSET U, NEW S \in SUBSET T, \A x \in S : f[x] <= h[x]
  PROVE  SumFunctionOnSet(f, S) <= SumFunctionOnSet(h, T)
<1> DEFINE F(s) == SumFunctionOnSet(f, s)
           H(s) == SumFunctionOnSet(h, s)
           Q == {t \in SUBSET T : ~(F(t \cap S) <= H(t))}
<1>1. F({}) = 0 /\ \A s \in SUBSET U : F(s) \in Nat /\ \A x \in s : F(s) = f[x] + F(s \ {x})
  BY SumStep
<1>2. H({}) = 0 /\ \A s \in SUBSET U : H(s) \in Nat /\ \A x \in s : H(s) = h[x] + H(s \ {x})
  BY SumStep
<1> HIDE DEF F, H
<1>3. Q = {}
  <2> SUFFICES ASSUME Q # {} PROVE FALSE
    OBVIOUS
  <2>1. IsFiniteSet(T) /\ Q \in SUBSET (SUBSET T)
    BY FS_Subset
  <2>2. PICK t \in Q : \A x \in t : t \ {x} \notin Q
    <3> HIDE DEF Q
    <3> QED
      BY <2>1, LeastSubset
  <2>3. t \in SUBSET T /\ ~(F(t \cap S) <= H(t))
    OBVIOUS
  <2>4. ASSUME t = {} PROVE FALSE
    <3>1. t \cap S = {}
      BY <2>4
    <3> QED
      BY <1>1, <1>2, <2>3, <2>4, <3>1
  <2>5. PICK x \in t : TRUE
    BY <2>4
  <2>6. PICK r \in SUBSET T : r = t \ {x}
    BY <2>3
  <2>7. F(r \cap S) <= H(r)
    BY <2>2, <2>5, <2>6
  <2>8. /\ r \in SUBSET U /\ t \in SUBSET U /\ r \cap S \in SUBSET U /\ t \cap S \in SUBSET U
        /\ x \in U
    BY <2>3, <2>5
  <2>9. H(t) = h[x] + H(r) /\ H(r) \in Nat /\ h[x] \in Nat /\ F(r \cap S) \in Nat
    BY <1>1, <1>2, <2>5, <2>6, <2>8
  <2>10. CASE x \in S
    <3>1. (t \cap S) \ {x} = r \cap S /\ x \in t \cap S
      BY <2>5, <2>6, <2>10
    <3>2. F(t \cap S) = f[x] + F(r \cap S) /\ f[x] \in Nat /\ f[x] <= h[x]
      BY <1>1, <2>8, <2>10, <3>1
    <3> QED
      BY <2>3, <2>7, <2>9, <3>2
  <2>11. CASE x \notin S
    <3>1. t \cap S = r \cap S
      BY <2>6, <2>11
    <3>2. F(t \cap S) = F(r \cap S)
      BY <3>1
    <3> HIDE DEF Q
    <3> QED
      BY <2>3, <2>7, <2>9, <3>2
  <2> QED
    BY <2>10, <2>11
<1>4. T \in SUBSET T /\ T \cap S = S
  OBVIOUS
<1>5. F(S) <= H(T)
  BY <1>3, <1>4
<1> QED
  BY <1>5 DEF F, H

\* Increasing one value by d increases the sum by no more.
LEMMA SumIncreased ==
  ASSUME NEW U, IsFiniteSet(U), NEW f \in [U -> Nat], NEW h \in [U -> Nat],
         NEW S \in SUBSET U, NEW p \in S, NEW d \in Nat, h[p] <= f[p] + d,
         \A x \in S \ {p} : h[x] <= f[x]
  PROVE  SumFunctionOnSet(h, S) <= SumFunctionOnSet(f, S) + d
<1>1. S \ {p} \in SUBSET U /\ S \ {p} \in SUBSET (S \ {p})
  OBVIOUS
<1>2. SumFunctionOnSet(h, S \ {p}) <= SumFunctionOnSet(f, S \ {p})
  BY <1>1, SumMonotone
<1>3. /\ SumFunctionOnSet(h, S) = h[p] + SumFunctionOnSet(h, S \ {p})
      /\ SumFunctionOnSet(h, S \ {p}) \in Nat
  BY <1>1, SumStep
<1>4. /\ SumFunctionOnSet(f, S) = f[p] + SumFunctionOnSet(f, S \ {p})
      /\ SumFunctionOnSet(f, S \ {p}) \in Nat
  BY <1>1, SumStep
<1> QED
  BY <1>2, <1>3, <1>4

\* A sum is no larger than one with a larger value for each of its elements.
LEMMA SumInjected ==
  ASSUME NEW U, IsFiniteSet(U), NEW f \in [U -> Nat], NEW S \in SUBSET U,
         NEW V, IsFiniteSet(V), NEW h \in [V -> Nat], NEW T \in SUBSET V,
         NEW g \in [S -> T], \A x, y \in S : g[x] = g[y] => x = y,
         \A x \in S : f[x] <= h[g[x]]
  PROVE  SumFunctionOnSet(f, S) <= SumFunctionOnSet(h, T)
<1> DEFINE F(s) == SumFunctionOnSet(f, s)
           H(s) == SumFunctionOnSet(h, s)
           G(s) == {g[x] : x \in s}
           Q == {s \in SUBSET S : ~(F(s) <= H(G(s)))}
<1>1. F({}) = 0 /\ \A s \in SUBSET U : F(s) \in Nat /\ \A x \in s : F(s) = f[x] + F(s \ {x})
  BY SumStep
<1>2. H({}) = 0 /\ \A s \in SUBSET V : H(s) \in Nat /\ \A x \in s : H(s) = h[x] + H(s \ {x})
  BY SumStep
<1>3. \A s \in SUBSET S : G(s) \in SUBSET T /\ G(s) \in SUBSET V
  OBVIOUS
<1>4. \A s \in SUBSET S : \A x \in s : g[x] \in G(s) /\ G(s \ {x}) = G(s) \ {g[x]}
  <2> TAKE s \in SUBSET S
  <2> TAKE x \in s
  <2>1. \A y \in s : y # x => g[y] # g[x]
    OBVIOUS
  <2> QED
    BY <2>1
<1>5. G({}) = {}
  OBVIOUS
<1> HIDE DEF F, H, G
<1>6. Q = {}
  <2> SUFFICES ASSUME Q # {} PROVE FALSE
    OBVIOUS
  <2>1. IsFiniteSet(S) /\ Q \in SUBSET (SUBSET S)
    BY FS_Subset
  <2>2. PICK s \in Q : \A x \in s : s \ {x} \notin Q
    <3> HIDE DEF Q
    <3> QED
      BY <2>1, LeastSubset
  <2>3. s \in SUBSET S /\ s \in SUBSET U /\ ~(F(s) <= H(G(s)))
    OBVIOUS
  <2>4. ASSUME s = {} PROVE FALSE
    <3>1. F(s) = 0 /\ G(s) = {}
      BY <1>1, <1>5, <2>4
    <3>2. H(G(s)) = 0
      BY <1>2, <3>1
    <3> HIDE DEF Q
    <3> QED
      BY <2>3, <3>1, <3>2
  <2>5. PICK x \in s : TRUE
    BY <2>4
  <2>6. PICK r \in SUBSET S : r = s \ {x}
    BY <2>3
  <2>7. F(r) <= H(G(r))
    BY <2>2, <2>5, <2>6
  <2>8. x \in S /\ r \in SUBSET U /\ G(r) = G(s) \ {g[x]} /\ g[x] \in G(s)
    BY <1>4, <2>3, <2>5, <2>6
  <2>9. F(s) = f[x] + F(r) /\ F(r) \in Nat /\ f[x] \in Nat
    BY <1>1, <2>3, <2>5, <2>6, <2>8
  <2>10. H(G(s)) = h[g[x]] + H(G(r)) /\ H(G(r)) \in Nat /\ h[g[x]] \in Nat
    <3>1. PICK t \in SUBSET V, k \in SUBSET V : t = G(s) /\ k = G(r)
      BY <1>3, <2>3
    <3>2. g[x] \in t /\ k = t \ {g[x]} /\ g[x] \in V
      BY <2>8, <3>1
    <3>3. H(t) = h[g[x]] + H(k) /\ H(k) \in Nat /\ h[g[x]] \in Nat
      BY <1>2, <3>1, <3>2
    <3> QED
      BY <3>1, <3>3
  <2>11. f[x] <= h[g[x]]
    BY <2>8
  <2> HIDE DEF Q
  <2> QED
    BY <2>3, <2>7, <2>9, <2>10, <2>11
<1>7. F(S) <= H(G(S)) /\ F(S) \in Nat /\ H(G(S)) \in Nat
  <2>1. S \in SUBSET S
    OBVIOUS
  <2> QED
    BY <1>1, <1>2, <1>3, <1>6, <2>1
<1>8. H(G(S)) <= H(T)
  <2>1. G(S) \in SUBSET T
    BY <1>3
  <2>2. \A x \in G(S) : h[x] <= h[x]
    BY <2>1
  <2> QED
    BY <2>1, <2>2, SumMonotone DEF H
<1>9. H(T) \in Nat
  BY <1>2
<1> QED
  BY <1>7, <1>8, <1>9 DEF F, H

\* One value of a sum becomes another.
LEMMA SumReplaced ==
  ASSUME NEW U, IsFiniteSet(U), NEW f \in [U -> Nat], NEW h \in [U -> Nat],
         NEW p \in U, \A x \in U \ {p} : h[x] = f[x]
  PROVE  \E rest \in Nat : /\ SumFunctionOnSet(f, U) = f[p] + rest
                           /\ SumFunctionOnSet(h, U) = h[p] + rest
<1>1. U \in SUBSET U /\ U \ {p} \in SUBSET U /\ U \ {p} \in SUBSET (U \ {p})
  OBVIOUS
<1>2. /\ SumFunctionOnSet(f, U) = f[p] + SumFunctionOnSet(f, U \ {p})
      /\ SumFunctionOnSet(h, U) = h[p] + SumFunctionOnSet(h, U \ {p})
      /\ SumFunctionOnSet(f, U \ {p}) \in Nat /\ SumFunctionOnSet(h, U \ {p}) \in Nat
  BY <1>1, SumStep
<1>3. \A x \in U \ {p} : h[x] <= f[x] /\ f[x] <= h[x]
  OBVIOUS
<1>4. /\ SumFunctionOnSet(f, U \ {p}) <= SumFunctionOnSet(h, U \ {p})
      /\ SumFunctionOnSet(h, U \ {p}) <= SumFunctionOnSet(f, U \ {p})
  BY <1>1, <1>3, SumMonotone
<1> QED
  BY <1>2, <1>4

\* The sum of two functions is the sum of their sums.
LEMMA SumAdded ==
  ASSUME NEW U, IsFiniteSet(U), NEW f \in [U -> Nat], NEW h \in [U -> Nat],
         NEW k \in [U -> Nat], \A x \in U : k[x] = f[x] + h[x]
  PROVE  SumFunctionOnSet(k, U) = SumFunctionOnSet(f, U) + SumFunctionOnSet(h, U)
<1> DEFINE F(s) == SumFunctionOnSet(f, s)
           H(s) == SumFunctionOnSet(h, s)
           K(s) == SumFunctionOnSet(k, s)
           Q == {s \in SUBSET U : K(s) # F(s) + H(s)}
<1>1. F({}) = 0 /\ \A s \in SUBSET U : F(s) \in Nat /\ \A x \in s : F(s) = f[x] + F(s \ {x})
  BY SumStep
<1>2. H({}) = 0 /\ \A s \in SUBSET U : H(s) \in Nat /\ \A x \in s : H(s) = h[x] + H(s \ {x})
  BY SumStep
<1>3. K({}) = 0 /\ \A s \in SUBSET U : K(s) \in Nat /\ \A x \in s : K(s) = k[x] + K(s \ {x})
  BY SumStep
<1> HIDE DEF F, H, K
<1>4. Q = {}
  <2> SUFFICES ASSUME Q # {} PROVE FALSE
    OBVIOUS
  <2>1. Q \in SUBSET (SUBSET U)
    OBVIOUS
  <2>2. PICK s \in Q : \A x \in s : s \ {x} \notin Q
    <3> HIDE DEF Q
    <3> QED
      BY <2>1, LeastSubset
  <2>3. s \in SUBSET U /\ K(s) # F(s) + H(s)
    OBVIOUS
  <2>4. ASSUME s = {} PROVE FALSE
    BY <1>1, <1>2, <1>3, <2>3, <2>4
  <2>5. PICK x \in s : TRUE
    BY <2>4
  <2>6. PICK r \in SUBSET U : r = s \ {x}
    BY <2>3
  <2>7. K(r) = F(r) + H(r)
    BY <2>2, <2>5, <2>6
  <2>8. /\ K(s) = k[x] + K(r) /\ F(s) = f[x] + F(r) /\ H(s) = h[x] + H(r)
        /\ F(r) \in Nat /\ H(r) \in Nat /\ x \in U
    BY <1>1, <1>2, <1>3, <2>3, <2>5, <2>6
  <2>9. f[x] \in Nat /\ h[x] \in Nat /\ k[x] = f[x] + h[x]
    BY <2>8
  <2> HIDE DEF Q
  <2> QED
    BY <2>3, <2>7, <2>8, <2>9
<1>5. U \in SUBSET U
  OBVIOUS
<1> QED
  BY <1>4, <1>5 DEF F, H, K

\* What is zero may be left out.
LEMMA SumSupport ==
  ASSUME NEW U, IsFiniteSet(U), NEW f \in [U -> Nat], NEW S \in SUBSET U,
         \A x \in U \ S : f[x] = 0
  PROVE  SumFunctionOnSet(f, U) = SumFunctionOnSet(f, S)
<1> DEFINE F(s) == SumFunctionOnSet(f, s)
           Q == {s \in SUBSET U : F(s) # F(s \cap S)}
<1>1. F({}) = 0 /\ \A s \in SUBSET U : F(s) \in Nat /\ \A x \in s : F(s) = f[x] + F(s \ {x})
  BY SumStep
<1> HIDE DEF F
<1>2. Q = {}
  <2> SUFFICES ASSUME Q # {} PROVE FALSE
    OBVIOUS
  <2>1. Q \in SUBSET (SUBSET U)
    OBVIOUS
  <2>2. PICK s \in Q : \A x \in s : s \ {x} \notin Q
    <3> HIDE DEF Q
    <3> QED
      BY <2>1, LeastSubset
  <2>3. s \in SUBSET U /\ F(s) # F(s \cap S)
    OBVIOUS
  <2>4. ASSUME s = {} PROVE FALSE
    <3>1. s \cap S = s
      BY <2>4
    <3> QED
      BY <2>3, <3>1
  <2>5. PICK x \in s : TRUE
    BY <2>4
  <2>6. PICK r \in SUBSET U : r = s \ {x}
    BY <2>3
  <2>7. F(r) = F(r \cap S)
    BY <2>2, <2>5, <2>6
  <2>8. F(s) = f[x] + F(r) /\ x \in U /\ F(r) \in Nat
    BY <1>1, <2>3, <2>5, <2>6
  <2>9. CASE x \in S
    <3>1. PICK t \in SUBSET U : t = s \cap S
      BY <2>3
    <3>2. x \in t /\ t \ {x} = r \cap S
      BY <2>5, <2>6, <2>9, <3>1
    <3>3. F(t) = f[x] + F(r \cap S)
      BY <1>1, <3>1, <3>2
    <3> HIDE DEF Q
    <3> QED
      BY <2>3, <2>7, <2>8, <3>1, <3>3
  <2>10. CASE x \notin S
    <3>1. s \cap S = r \cap S
      BY <2>6, <2>10
    <3>2. f[x] = 0
      BY <2>8, <2>10
    <3>3. F(s \cap S) = F(r \cap S)
      BY <3>1
    <3> HIDE DEF Q
    <3> QED
      BY <2>3, <2>7, <2>8, <3>2, <3>3
  <2> QED
    BY <2>9, <2>10
<1>3. U \in SUBSET U /\ U \cap S = S
  OBVIOUS
<1> QED
  BY <1>2, <1>3 DEF F

=============================================================================
