----------------------------- MODULE SumProofs -----------------------------
(***************************************************************************)
(* What sums over finite sets are: one value more for one element more,    *)
(* whatever the order in which the recursion takes the elements.  The      *)
(* library states induction for operators, so every induction here is by a *)
(* smallest set among those for which the claim fails.                     *)
(***************************************************************************)
EXTENDS SpaceSaving, Sums, Integers, FiniteSetTheorems, TLAPS

First(s) == CHOOSE x \in s : TRUE

SolvesSum(g, f, S) ==
  g = [s \in SUBSET S |-> IF s = {} THEN 0 ELSE f[First(s)] + g[s \ {First(s)}]]

LEMMA SumUnfolds ==
  ASSUME NEW f, NEW S
  PROVE  SumOver(f, S) = (CHOOSE g : SolvesSum(g, f, S))[S]
BY DEF SumOver, MapThenSumSet, MapThenFoldSet, SolvesSum, First

\* A nonempty set of finite sets has a smallest one in the sense of inclusion.
LEMMA SmallestSet ==
  ASSUME NEW S, IsFiniteSet(S), NEW C \in SUBSET (SUBSET S), C # {}
  PROVE  \E T \in C : \A U \in C : U \subseteq T => U = T
<1>1. C \subseteq FiniteSubsetsOf(S)
  BY FS_FiniteSubsetsOfFinite
<1>2. \E T \in C : \A U \in C : ~(<<U, T>> \in StrictSubsetOrdering(S))
  BY <1>1, FS_StrictSubsetOrderingWellFounded, WFMin
<1>3. QED
  BY <1>2 DEF StrictSubsetOrdering

LEMMA FirstIn == ASSUME NEW s, s # {} PROVE First(s) \in s
BY DEF First

LEMMA SolutionAt ==
  ASSUME NEW g, NEW f, NEW S, SolvesSum(g, f, S)
  PROVE  /\ g[{}] = 0
         /\ \A s \in SUBSET S : s # {} => g[s] = f[First(s)] + g[s \ {First(s)}]
BY DEF SolvesSum

LEMMA SolutionsAgree ==
  ASSUME NEW f, NEW S, NEW T, NEW g, NEW h, IsFiniteSet(S), SolvesSum(g, f, S), SolvesSum(h, f, T)
  PROVE  \A s \in SUBSET S : s \in SUBSET T => g[s] = h[s]
<1> DEFINE C == {s \in SUBSET S : s \in SUBSET T /\ g[s] # h[s]}
<1>1. SUFFICES ASSUME C # {} PROVE FALSE
  OBVIOUS
<1>0. C \in SUBSET (SUBSET S)
  OBVIOUS
<1>2. PICK s \in C : \A U \in C : U \subseteq s => U = s
  <2> HIDE DEF C
  <2>1. QED
    BY <1>0, <1>1, SmallestSet
<1>3. s # {}
  BY SolutionAt
<1>4. First(s) \in s
  BY <1>3, FirstIn
<1>5. s \ {First(s)} \in SUBSET S /\ s \ {First(s)} \in SUBSET T /\ s \ {First(s)} # s
  BY <1>4
<1>6. s \ {First(s)} \notin C
  BY <1>2, <1>5
<1>7. g[s \ {First(s)}] = h[s \ {First(s)}]
  BY <1>5, <1>6
<1>8. QED
  BY <1>3, <1>7, SolutionAt

LEMMA SolutionExists ==
  ASSUME NEW f, NEW S, IsFiniteSet(S)
  PROVE  \E g : SolvesSum(g, f, S)
<1> DEFINE C == {T \in SUBSET S : ~\E g : SolvesSum(g, f, T)}
<1>1. SUFFICES ASSUME C # {} PROVE FALSE
  OBVIOUS
<1>0. C \in SUBSET (SUBSET S)
  OBVIOUS
<1>2. PICK T \in C : \A U \in C : U \subseteq T => U = T
  <2> HIDE DEF C
  <2>1. QED
    BY <1>0, <1>1, SmallestSet
<1> DEFINE G(U) == CHOOSE g : SolvesSum(g, f, U)
           h == [s \in SUBSET T |-> IF s = {} THEN 0
                   ELSE f[First(s)] + G(s \ {First(s)})[s \ {First(s)}]]
<1>3. \A U \in SUBSET T : U # T => SolvesSum(G(U), f, U)
  BY <1>2
<1> HIDE DEF G
<1>4. \A U \in SUBSET T : U # T => h[U] = G(U)[U]
  <2> SUFFICES ASSUME NEW U \in SUBSET T, U # T PROVE h[U] = G(U)[U]
    OBVIOUS
  <2>1. SolvesSum(G(U), f, U)
    BY <1>3
  <2>2. CASE U = {}
    BY <2>1, <2>2, SolutionAt
  <2>3. CASE U # {}
    <3> DEFINE V == U \ {First(U)}
    <3>1. First(U) \in U /\ V \in SUBSET T /\ V # T /\ V \in SUBSET U
      BY <2>3, FirstIn
    <3>2. SolvesSum(G(V), f, V) /\ IsFiniteSet(V)
      BY <1>3, <3>1, FS_Subset
    <3>3. G(V)[V] = G(U)[V]
      BY <2>1, <3>1, <3>2, SolutionsAgree
    <3>4. G(U)[U] = f[First(U)] + G(U)[V]
      BY <2>1, <2>3, SolutionAt
    <3>5. h[U] = f[First(U)] + G(V)[V]
      BY <2>3
    <3>6. QED
      BY <3>3, <3>4, <3>5
  <2>4. QED
    BY <2>2, <2>3
<1>5. \A s \in SUBSET T : s # {} => s \ {First(s)} \in SUBSET T /\ s \ {First(s)} # T
  BY FirstIn
<1>6. SolvesSum(h, f, T)
  BY <1>4, <1>5 DEF SolvesSum
<1>7. QED
  BY <1>2, <1>6

-----------------------------------------------------------------------------
LEMMA SumSolves ==
  ASSUME NEW f, NEW S, NEW g, NEW T \in SUBSET S, IsFiniteSet(S), SolvesSum(g, f, S)
  PROVE  SumOver(f, T) = g[T]
<1> DEFINE h == CHOOSE h : SolvesSum(h, f, T)
<1>1. IsFiniteSet(T)
  BY FS_Subset
<1>2. SolvesSum(h, f, T)
  BY <1>1, SolutionExists
<1>3. SumOver(f, T) = h[T]
  BY SumUnfolds
<1> HIDE DEF h
<1>4. QED
  BY <1>1, <1>2, <1>3, SolutionsAgree

LEMMA SumEmpty == ASSUME NEW f PROVE SumOver(f, {}) = 0
<1>1. IsFiniteSet({})
  BY FS_EmptySet
<1>2. PICK g : SolvesSum(g, f, {})
  BY <1>1, SolutionExists
<1>3. QED
  BY <1>1, <1>2, SumSolves, SolutionAt

\* The sum without the element that the recursion takes first.
LEMMA SumFirst ==
  ASSUME NEW f, NEW S, IsFiniteSet(S), S # {}
  PROVE  First(S) \in S /\ SumOver(f, S) = f[First(S)] + SumOver(f, S \ {First(S)})
<1>1. First(S) \in S
  BY FirstIn
<1>2. PICK g : SolvesSum(g, f, S)
  BY SolutionExists
<1>3. SumOver(f, S) = g[S] /\ SumOver(f, S \ {First(S)}) = g[S \ {First(S)}]
  BY <1>2, SumSolves
<1>4. g[S] = f[First(S)] + g[S \ {First(S)}]
  <2>1. S \in SUBSET S
    OBVIOUS
  <2>2. QED
    BY <1>2, <2>1, SolutionAt
<1>5. QED
  BY <1>1, <1>3, <1>4

LEMMA SumType ==
  ASSUME NEW f, NEW S, IsFiniteSet(S), \A x \in S : f[x] \in Nat
  PROVE  SumOver(f, S) \in Nat
<1> DEFINE C == {T \in SUBSET S : SumOver(f, T) \notin Nat}
<1>1. SUFFICES ASSUME C # {} PROVE FALSE
  OBVIOUS
<1>2. C \in SUBSET (SUBSET S)
  OBVIOUS
<1>3. PICK T \in C : \A U \in C : U \subseteq T => U = T
  <2> HIDE DEF C
  <2>1. QED
    BY <1>1, <1>2, SmallestSet
<1>4. T # {}
  BY SumEmpty
<1>5. IsFiniteSet(T)
  BY FS_Subset
<1>6. First(T) \in T /\ SumOver(f, T) = f[First(T)] + SumOver(f, T \ {First(T)})
  BY <1>4, <1>5, SumFirst
<1>7. T \ {First(T)} \notin C
  BY <1>3, <1>6
<1>8. SumOver(f, T \ {First(T)}) \in Nat
  BY <1>7
<1>9. QED
  BY <1>6, <1>8

\* Any element can be taken out of a sum.
LEMMA SumRemove ==
  ASSUME NEW f, NEW S, IsFiniteSet(S), \A x \in S : f[x] \in Nat, NEW a \in S
  PROVE  SumOver(f, S) = f[a] + SumOver(f, S \ {a})
<1> DEFINE C == {T \in SUBSET S : \E x \in T : SumOver(f, T) # f[x] + SumOver(f, T \ {x})}
<1>1. SUFFICES ASSUME C # {} PROVE FALSE
  OBVIOUS
<1>2. C \in SUBSET (SUBSET S)
  OBVIOUS
<1>3. PICK T \in C : \A U \in C : U \subseteq T => U = T
  <2> HIDE DEF C
  <2>1. QED
    BY <1>1, <1>2, SmallestSet
<1>4. PICK x \in T : SumOver(f, T) # f[x] + SumOver(f, T \ {x})
  OBVIOUS
<1>5. \A U \in SUBSET T : IsFiniteSet(U) /\ SumOver(f, U) \in Nat
  BY FS_Subset, SumType
<1> DEFINE y == First(T)
<1>6. y \in T /\ SumOver(f, T) = f[y] + SumOver(f, T \ {y})
  BY <1>4, <1>5, SumFirst
<1> HIDE DEF y
<1>7. x # y
  BY <1>4, <1>6
<1>8. \A U \in SUBSET T : U # T => \A z \in U : SumOver(f, U) = f[z] + SumOver(f, U \ {z})
  BY <1>3
<1>9. SumOver(f, T \ {y}) = f[x] + SumOver(f, (T \ {y}) \ {x})
  BY <1>6, <1>7, <1>8
<1>10. SumOver(f, T \ {x}) = f[y] + SumOver(f, (T \ {x}) \ {y})
  BY <1>6, <1>7, <1>8
<1>11. (T \ {y}) \ {x} = (T \ {x}) \ {y}
  OBVIOUS
<1>12. f[x] \in Nat /\ f[y] \in Nat /\ SumOver(f, (T \ {x}) \ {y}) \in Nat
  BY <1>5, <1>6
<1> DEFINE r == SumOver(f, (T \ {x}) \ {y})
<1>13. SumOver(f, T) = f[y] + (f[x] + r) /\ SumOver(f, T \ {x}) = f[y] + r
  BY <1>6, <1>9, <1>10, <1>11
<1>14. f[x] \in Nat /\ f[y] \in Nat /\ r \in Nat
  BY <1>12
<1> HIDE DEF r
<1>15. f[y] + (f[x] + r) = f[x] + (f[y] + r)
  BY <1>14
<1>16. QED
  BY <1>4, <1>13, <1>15

\* One more element.
LEMMA SumAdd ==
  ASSUME NEW f, NEW S, IsFiniteSet(S), NEW a, a \notin S, \A x \in S \cup {a} : f[x] \in Nat
  PROVE  SumOver(f, S \cup {a}) = SumOver(f, S) + f[a]
<1>1. IsFiniteSet(S \cup {a}) /\ (S \cup {a}) \ {a} = S
  BY FS_AddElement
<1>2. SumOver(f, S \cup {a}) = f[a] + SumOver(f, S)
  BY <1>1, SumRemove
<1>3. QED
  BY <1>2, SumType

\* A sum depends on the values it adds.
LEMMA SumSame ==
  ASSUME NEW f, NEW g, NEW S, IsFiniteSet(S), \A x \in S : f[x] = g[x]
  PROVE  SumOver(f, S) = SumOver(g, S)
<1> DEFINE C == {T \in SUBSET S : SumOver(f, T) # SumOver(g, T)}
<1>1. SUFFICES ASSUME C # {} PROVE FALSE
  OBVIOUS
<1>2. C \in SUBSET (SUBSET S)
  OBVIOUS
<1>3. PICK T \in C : \A U \in C : U \subseteq T => U = T
  <2> HIDE DEF C
  <2>1. QED
    BY <1>1, <1>2, SmallestSet
<1>4. T # {}
  BY SumEmpty
<1>5. IsFiniteSet(T)
  BY FS_Subset
<1>6. /\ First(T) \in T /\ SumOver(f, T) = f[First(T)] + SumOver(f, T \ {First(T)})
      /\ SumOver(g, T) = g[First(T)] + SumOver(g, T \ {First(T)})
  BY <1>4, <1>5, SumFirst
<1>7. T \ {First(T)} \notin C
  BY <1>3, <1>6
<1>8. QED
  BY <1>6, <1>7

\* One value changes.
LEMMA SumChange ==
  ASSUME NEW f, NEW g, NEW S, IsFiniteSet(S), NEW a \in S,
         \A x \in S : f[x] \in Nat /\ g[x] \in Nat, \A x \in S \ {a} : g[x] = f[x]
  PROVE  SumOver(g, S) + f[a] = SumOver(f, S) + g[a]
<1>1. IsFiniteSet(S \ {a})
  BY FS_RemoveElement
<1>2. SumOver(g, S \ {a}) = SumOver(f, S \ {a}) /\ SumOver(f, S \ {a}) \in Nat
  BY <1>1, SumSame, SumType
<1>3. SumOver(f, S) = f[a] + SumOver(f, S \ {a}) /\ SumOver(g, S) = g[a] + SumOver(g, S \ {a})
  BY SumRemove
<1>4. QED
  BY <1>2, <1>3

\* What adds nothing does not count.
LEMMA SumZeros ==
  ASSUME NEW f, NEW S, IsFiniteSet(S), NEW T \in SUBSET S,
         \A x \in S : f[x] \in Nat, \A x \in S \ T : f[x] = 0
  PROVE  SumOver(f, S) = SumOver(f, T)
<1> DEFINE C == {U \in SUBSET S : T \subseteq U /\ SumOver(f, U) # SumOver(f, T)}
<1>1. SUFFICES ASSUME C # {} PROVE FALSE
  OBVIOUS
<1>2. C \in SUBSET (SUBSET S)
  OBVIOUS
<1>3. PICK U \in C : \A V \in C : V \subseteq U => V = U
  <2> HIDE DEF C
  <2>1. QED
    BY <1>1, <1>2, SmallestSet
<1>4. PICK x \in U : x \notin T
  OBVIOUS
<1>5. IsFiniteSet(U) /\ \A y \in U : f[y] \in Nat
  BY FS_Subset
<1>6. SumOver(f, U) = f[x] + SumOver(f, U \ {x})
  BY <1>5, SumRemove
<1>7. U \ {x} \notin C
  BY <1>3, <1>4
<1>8. SumOver(f, U \ {x}) = SumOver(f, T)
  BY <1>4, <1>7
<1>9. f[x] = 0 /\ SumOver(f, T) \in Nat
  <2>1. IsFiniteSet(T) /\ \A y \in T : f[y] \in Nat
    BY FS_Subset
  <2>2. QED
    BY <1>4, <2>1, SumType
<1>10. QED
  BY <1>6, <1>8, <1>9

-----------------------------------------------------------------------------
(* Tables.                                                                 *)
IsTable(t) ==
  /\ IsFiniteSet(Held(t))
  /\ \A k \in Held(t) : t.counters[k] \in Nat
  /\ t.evictions \in Nat

LEMMA CountMass ==
  ASSUME NEW t, IsTable(t), NEW key \in Held(t), NEW u, u = Count(t, key)
  PROVE  /\ IsTable(u) /\ u.evictions = t.evictions
         /\ SumOver(u.counters, Held(u)) = SumOver(t.counters, Held(t)) + 1
<1>1. /\ Held(u) = Held(t) /\ u.evictions = t.evictions
      /\ \A k \in Held(t) : u.counters[k] = IF k = key THEN t.counters[k] + 1 ELSE t.counters[k]
  BY DEF Count, Held
<1>2. IsTable(u)
  BY <1>1 DEF IsTable
<1>3. /\ \A k \in Held(t) : t.counters[k] \in Nat /\ u.counters[k] \in Nat
      /\ \A k \in Held(t) \ {key} : u.counters[k] = t.counters[k]
  BY <1>1 DEF IsTable
<1>4. SumOver(u.counters, Held(t)) + t.counters[key] = SumOver(t.counters, Held(t)) + u.counters[key]
  BY <1>3, SumChange DEF IsTable
<1>5. SumOver(u.counters, Held(t)) \in Nat /\ SumOver(t.counters, Held(t)) \in Nat
  BY <1>3, SumType DEF IsTable
<1>6. t.counters[key] \in Nat /\ u.counters[key] = t.counters[key] + 1
  BY <1>1, <1>3
<1>7. QED
  BY <1>1, <1>2, <1>4, <1>5, <1>6

LEMMA AdmitMass ==
  ASSUME NEW t, IsTable(t), NEW key, key \notin Held(t), NEW u, u = Admit(t, key)
  PROVE  /\ IsTable(u) /\ u.evictions = t.evictions
         /\ SumOver(u.counters, Held(u)) = SumOver(t.counters, Held(t)) + 1
<1>1. /\ Held(u) = Held(t) \cup {key} /\ u.evictions = t.evictions
      /\ \A k \in Held(t) : u.counters[k] = t.counters[k]
      /\ u.counters[key] = 1
  BY DEF Admit, Held
<1>2. IsFiniteSet(Held(u))
  BY <1>1, FS_AddElement DEF IsTable
<1>3. \A k \in Held(u) : u.counters[k] \in Nat
  BY <1>1 DEF IsTable
<1>4. SumOver(u.counters, Held(u)) = SumOver(u.counters, Held(t)) + 1
  BY <1>1, <1>3, SumAdd DEF IsTable
<1>5. SumOver(u.counters, Held(t)) = SumOver(t.counters, Held(t))
  BY <1>1, SumSame DEF IsTable
<1>6. QED
  BY <1>1, <1>2, <1>3, <1>4, <1>5 DEF IsTable

LEMMA DisplaceMass ==
  ASSUME NEW t, IsTable(t), NEW key, key \notin Held(t), NEW v \in Held(t),
         NEW u, u = Displace(t, v, key)
  PROVE  /\ IsTable(u) /\ u.evictions = t.evictions + 1
         /\ SumOver(u.counters, Held(u)) = SumOver(t.counters, Held(t)) + 1
<1> DEFINE R == Held(t) \ {v}
<1>1. /\ Held(u) = R \cup {key} /\ key \notin R /\ u.evictions = t.evictions + 1
      /\ \A k \in R : u.counters[k] = t.counters[k]
      /\ u.counters[key] = t.counters[v] + 1
  BY DEF Displace, Held
<1>2. IsFiniteSet(R) /\ IsFiniteSet(Held(u))
  BY <1>1, FS_AddElement, FS_RemoveElement DEF IsTable
<1>3. \A k \in Held(u) : u.counters[k] \in Nat
  BY <1>1 DEF IsTable
<1>4. SumOver(u.counters, Held(u)) = SumOver(u.counters, R) + (t.counters[v] + 1)
  BY <1>1, <1>2, <1>3, SumAdd
<1>5. SumOver(u.counters, R) = SumOver(t.counters, R)
  BY <1>1, <1>2, SumSame
<1>6. SumOver(t.counters, Held(t)) = t.counters[v] + SumOver(t.counters, R)
  BY SumRemove DEF IsTable
<1>7. SumOver(t.counters, R) \in Nat /\ t.counters[v] \in Nat
  BY <1>2, SumType DEF IsTable
<1>8. QED
  BY <1>1, <1>2, <1>3, <1>4, <1>5, <1>6, <1>7 DEF IsTable

\* An observation adds one to what a table counts, whoever is displaced.
LEMMA ObservedMass ==
  ASSUME NEW t, IsTable(t), NEW cap, NEW key, NEW u \in Observed(t, cap, key)
  PROVE  /\ IsTable(u) /\ u.evictions \in {t.evictions, t.evictions + 1}
         /\ SumOver(u.counters, Held(u)) = SumOver(t.counters, Held(t)) + 1
<1>1. CASE key \in Held(t)
  BY <1>1, CountMass DEF Observed
<1>2. CASE key \notin Held(t) /\ HasRoom(t, cap)
  BY <1>2, AdmitMass DEF Observed
<1>3. CASE key \notin Held(t) /\ ~HasRoom(t, cap)
  <2>1. PICK v \in Lightest(t) : u = Displace(t, v, key)
    BY <1>3 DEF Observed
  <2>2. v \in Held(t)
    BY DEF Lightest
  <2>3. QED
    BY <1>3, <2>1, <2>2, DisplaceMass
<1>4. QED
  BY <1>1, <1>2, <1>3

LEMMA NewTableMass == IsTable(NewTable) /\ Held(NewTable) = {} /\ SumOver(NewTable.counters, {}) = 0
<1>1. Held(NewTable) = {} /\ NewTable.evictions = 0
  BY DEF NewTable, Held
<1>2. QED
  BY <1>1, FS_EmptySet, SumEmpty DEF IsTable

-----------------------------------------------------------------------------
(* Induction over sets of numbers, and what is defined by recursion.       *)
LEMMA LeastNumber ==
  ASSUME NEW S \in SUBSET Nat, S # {}
  PROVE  \E m \in S : \A n \in S : m <= n
<1>1. PICK n : n \in S /\ n \in Nat
  OBVIOUS
<1> DEFINE C == {0 .. k : k \in {k \in S : k <= n}}
<1>2. IsFiniteSet(0 .. n)
  BY <1>1, FS_Interval
<1>0. C \in SUBSET (SUBSET (0 .. n)) /\ 0 .. n \in C
  BY <1>1
<1>3. C \subseteq FiniteSubsetsOf(0 .. n) /\ C # {}
  BY <1>0, <1>2, FS_FiniteSubsetsOfFinite
<1>4. PICK T \in C : \A U \in C : U \subseteq T => U = T
  <2> HIDE DEF C
  <2>1. \E T \in C : \A U \in C : ~(<<U, T>> \in StrictSubsetOrdering(0 .. n))
    BY <1>2, <1>3, FS_StrictSubsetOrderingWellFounded, WFMin
  <2>2. QED
    BY <1>0, <2>1 DEF StrictSubsetOrdering
<1>5. PICK m \in S : m <= n /\ T = 0 .. m
  OBVIOUS
<1>6. ASSUME NEW k \in S, k < m PROVE FALSE
  <2>1. 0 .. k \in C /\ 0 .. k \subseteq T /\ 0 .. k # T
    BY <1>1, <1>5, <1>6
  <2>2. QED
    BY <1>4, <2>1
<1>7. QED
  BY <1>6

LEMMA NumbersIn ==
  ASSUME NEW S, 0 \in S, \A n \in Nat : n \in S => n + 1 \in S
  PROVE  \A n \in Nat : n \in S
<1> DEFINE T == {n \in Nat : n \notin S}
<1>1. SUFFICES ASSUME T # {} PROVE FALSE
  OBVIOUS
<1>2. PICK m \in T : \A n \in T : m <= n
  BY <1>1, LeastNumber
<1>3. m \in Nat /\ m # 0
  OBVIOUS
<1>4. m - 1 \in Nat /\ m - 1 \notin T
  BY <1>2, <1>3
<1>5. QED
  BY <1>3, <1>4

\* A first value and a step make a sequence of values.
Runs(V, a, F, g) ==
  g \in [Nat -> V] /\ g[0] = a /\ \A n \in Nat : g[n + 1] = F[n][g[n]]

LEMMA RecursionExists ==
  ASSUME NEW V, NEW a \in V, NEW F \in [Nat -> [V -> V]]
  PROVE  \E g : Runs(V, a, F, g)
<1> DEFINE Upto(h, n) ==
             /\ h \in [0 .. n -> V] /\ h[0] = a
             /\ \A i \in 0 .. n : i < n => h[i + 1] = F[i][h[i]]
           S == {n \in Nat : \E h : Upto(h, n)}
<1>1. 0 \in S
  <2>1. Upto([i \in 0 .. 0 |-> a], 0)
    OBVIOUS
  <2>2. QED
    BY <2>1
<1>2. ASSUME NEW n \in Nat, n \in S PROVE n + 1 \in S
  <2>1. PICK h : Upto(h, n)
    BY <1>2
  <2> DEFINE g == [i \in 0 .. n + 1 |-> IF i = n + 1 THEN F[n][h[n]] ELSE h[i]]
  <2>2. F[n][h[n]] \in V
    BY <2>1
  <2>3. g \in [0 .. n + 1 -> V]
    BY <2>1, <2>2
  <2>4. \A i \in 0 .. n : g[i] = h[i]
    OBVIOUS
  <2>5. g[n + 1] = F[n][g[n]]
    <3>1. n \in 0 .. n /\ n + 1 \in 0 .. n + 1
      OBVIOUS
    <3>2. g[n] = h[n]
      BY <2>4, <3>1
    <3>3. g[n + 1] = F[n][h[n]]
      BY <3>1
    <3>4. QED
      BY <3>2, <3>3
  <2> HIDE DEF g
  <2>6. ASSUME NEW i \in 0 .. n + 1, i < n + 1 PROVE g[i + 1] = F[i][g[i]]
    <3>1. CASE i < n
      <4>1. i \in 0 .. n /\ i + 1 \in 0 .. n
        BY <3>1
      <4>2. g[i] = h[i] /\ g[i + 1] = h[i + 1]
        BY <2>4, <4>1
      <4>3. h[i + 1] = F[i][h[i]]
        BY <2>1, <3>1, <4>1
      <4>4. QED
        BY <4>2, <4>3
    <3>2. CASE i = n
      BY <2>5, <3>2
    <3>3. i < n \/ i = n
      BY <2>6
    <3>4. QED
      BY <3>1, <3>2, <3>3
  <2>7. Upto(g, n + 1)
    <3>1. g[0] = a
      BY <2>1, <2>4
    <3>2. QED
      BY <2>3, <2>6, <3>1
  <2>8. QED
    <3>1. n + 1 \in Nat /\ \E k : Upto(k, n + 1)
      BY <2>7
    <3>2. QED
      BY <3>1
<1> HIDE DEF S
<1>3. \A n \in Nat : n \in S
  BY <1>1, <1>2, NumbersIn
<1> DEFINE run(n) == CHOOSE h : Upto(h, n)
<1>4. \A n \in Nat : Upto(run(n), n)
  BY <1>3 DEF S
<1> HIDE DEF run
<1>5. ASSUME NEW n \in Nat PROVE run(n + 1)[n] = run(n)[n]
  <2> DEFINE h == run(n)
             k == run(n + 1)
             A == {i \in Nat : i <= n => h[i] = k[i]}
  <2>1. Upto(h, n) /\ Upto(k, n + 1)
    BY <1>4
  <2> HIDE DEF h, k
  <2>2. 0 \in A
    BY <2>1
  <2>3. ASSUME NEW i \in Nat, i \in A PROVE i + 1 \in A
    <3>1. SUFFICES ASSUME i + 1 <= n PROVE h[i + 1] = k[i + 1]
      OBVIOUS
    <3>2. h[i] = k[i] /\ i \in 0 .. n /\ i < n /\ i \in 0 .. n + 1 /\ i < n + 1
      BY <2>3, <3>1
    <3>3. QED
      BY <2>1, <3>2
  <2>4. n \in A
    <3> HIDE DEF A
    <3>1. QED
      BY <2>2, <2>3, NumbersIn
  <2>5. QED
    BY <2>4 DEF h, k
<1> DEFINE g == [n \in Nat |-> run(n)[n]]
<1>6. \A n \in Nat : g[n] \in V
  BY <1>4
<1>7. g[0] = a
  BY <1>4
<1>8. ASSUME NEW n \in Nat PROVE g[n + 1] = F[n][g[n]]
  <2>1. Upto(run(n + 1), n + 1)
    BY <1>4
  <2>2. run(n + 1)[n + 1] = F[n][run(n + 1)[n]]
    BY <2>1
  <2>3. QED
    BY <1>5, <2>2
<1>9. Runs(V, a, F, g)
  BY <1>6, <1>7, <1>8 DEF Runs
<1>10. QED
  BY <1>9

\* The powers of two, however they are named.
Doubles(f) == f = [k \in Nat |-> IF k = 0 THEN 1 ELSE 2 * f[k - 1]]

LEMMA Doubling ==
  ASSUME NEW p, p = CHOOSE f : Doubles(f)
  PROVE  /\ p[0] = 1
         /\ \A k \in Nat : p[k] \in Nat \ {0} /\ p[k + 1] = 2 * p[k]
<1> DEFINE V == Nat \ {0}
           F == [n \in Nat |-> [v \in V |-> 2 * v]]
<1>1. F \in [Nat -> [V -> V]] /\ 1 \in V
  OBVIOUS
<1>2. \A n \in Nat, v \in V : F[n][v] = 2 * v
  OBVIOUS
<1> HIDE DEF V, F
<1>3. PICK g : Runs(V, 1, F, g)
  BY <1>1, RecursionExists
<1>4. g \in [Nat -> V] /\ g[0] = 1 /\ \A n \in Nat : g[n + 1] = 2 * g[n]
  BY <1>2, <1>3 DEF Runs
<1>5. Doubles(g)
  <2>1. \A k \in Nat : g[k] = IF k = 0 THEN 1 ELSE 2 * g[k - 1]
    <3> SUFFICES ASSUME NEW k \in Nat PROVE g[k] = IF k = 0 THEN 1 ELSE 2 * g[k - 1]
      OBVIOUS
    <3>1. CASE k = 0
      BY <1>4, <3>1
    <3>2. CASE k # 0
      <4>1. k - 1 \in Nat /\ (k - 1) + 1 = k
        BY <3>2
      <4>2. g[(k - 1) + 1] = 2 * g[k - 1]
        BY <1>4, <4>1
      <4>3. QED
        BY <3>2, <4>1, <4>2
    <3>3. QED
      BY <3>1, <3>2
  <2>2. QED
    BY <1>4, <2>1 DEF Doubles
<1>7. Doubles(p)
  BY <1>5
<1>8. p = [k \in Nat |-> IF k = 0 THEN 1 ELSE 2 * p[k - 1]]
  BY <1>7 DEF Doubles
<1>9. p[0] = 1 /\ \A k \in Nat : p[k + 1] = 2 * p[k]
  <2>1. PICK q : q = [k \in Nat |-> IF k = 0 THEN 1 ELSE 2 * p[k - 1]]
    OBVIOUS
  <2>2. \A k \in Nat : q[k] = IF k = 0 THEN 1 ELSE 2 * p[k - 1]
    BY <2>1, Zenon
  <2>3. p = q
    BY <1>8, <2>1, Zenon
  <2>4. \A k \in Nat : p[k] = IF k = 0 THEN 1 ELSE 2 * p[k - 1]
    BY <2>2, <2>3, Zenon
  <2> HIDE <1>8
  <2>5. ASSUME NEW k \in Nat PROVE k + 1 \in Nat /\ k + 1 # 0 /\ (k + 1) - 1 = k
    OBVIOUS
  <2>6. QED
    BY ONLY <2>4, <2>5
<1> DEFINE S == {k \in Nat : p[k] \in Nat \ {0}}
<1>10. 0 \in S
  BY <1>9
<1>11. \A k \in Nat : k \in S => k + 1 \in S
  BY <1>9
<1>12. \A k \in Nat : k \in S
  <2> HIDE DEF S
  <2>1. QED
    BY <1>10, <1>11, NumbersIn
<1>13. QED
  BY <1>9, <1>12
=============================================================================
