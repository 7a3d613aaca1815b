---------------------------- MODULE SketchProofs ----------------------------
(***************************************************************************)
(* What the Space-Saving table promises for every key set, every capacity  *)
(* and every stream.  The conjunction of the five parts below is           *)
(* inductive; none of them is on its own:                                  *)
(*   - an eviction keeps NeverUnderCounted only because the newcomer, when *)
(*     it was forgotten before, was ForgottenIsLight;                      *)
(*   - an admission keeps ForgottenIsLight only because a table with room  *)
(*     has forgotten nothing, which is Bounded with ExactBeforeEviction.   *)
(* Then the statistics of values: their skeletons are such a table; their  *)
(* sketches keep accounts with what was seen (Accounts), from which the    *)
(* rank of a percentile follows; and their messages read back.             *)
(***************************************************************************)
EXTENDS ValueStats, SumProofs, TLAPS, FiniteSetTheorems

IndInv ==
  /\ TypeOK
  /\ Bounded
  /\ NeverUnderCounted
  /\ ForgottenIsLight
  /\ ExactBeforeEviction

\* The three ways an observation can go (the cases of SpaceSaving::observe).
LEMMA ObservedCases ==
  ASSUME NEW key \in Key, table' \in Observed(table, Cap, key)
  PROVE  \/ key \in Held(table) /\ table' = Count(table, key)
         \/ /\ key \notin Held(table)
            /\ Cardinality(Held(table)) < Cap
            /\ table' = Admit(table, key)
         \/ /\ key \notin Held(table)
            /\ ~(Cardinality(Held(table)) < Cap)
            /\ \E v \in Lightest(table) : table' = Displace(table, v, key)
BY DEF Observed, HasRoom

LEMMA HeldIsFinite ==
  ASSUME TypeOK
  PROVE  /\ IsFiniteSet(Held(table))
         /\ Cardinality(Held(table)) \in Nat
<1>1. IsFiniteSet(Held(table))
  BY KeyAssumption, FS_Subset DEF TypeOK
<1>2. QED
  BY <1>1, FS_CardinalityType

\* The initial table is empty and exact.
LEMMA InitInv == Init => IndInv
<1> SUFFICES ASSUME Init PROVE IndInv
  OBVIOUS
<1>1. Held(table) = {} /\ table.evictions = 0
  BY DEF Init, NewTable, Held
<1>2. TypeOK
  BY DEF TypeOK, Init, NewTable, Held
<1>3. Cardinality(Held(table)) = 0
  BY <1>1, FS_EmptySet
<1>4. Bounded
  BY <1>1, <1>3, CapAssumption DEF Bounded
<1>5. NeverUnderCounted /\ ForgottenIsLight
  BY <1>1 DEF NeverUnderCounted, ForgottenIsLight
<1>6. ExactBeforeEviction
  BY <1>1 DEF ExactBeforeEviction, Estimate, Init
<1>7. QED
  BY <1>2, <1>4, <1>5, <1>6 DEF IndInv

\* A counter that is held goes up by one together with its true frequency.
LEMMA CountStep ==
  ASSUME IndInv, NEW key \in Key, Tally(key),
         key \in Held(table), table' = Count(table, key)
  PROVE  IndInv'
<1> USE DEF IndInv, Tally
<1>1. /\ Held(table') = Held(table)
      /\ table'.evictions = table.evictions
      /\ table'.counters = [k \in Held(table) |->
            IF k = key THEN table.counters[k] + 1 ELSE table.counters[k]]
      /\ table' = [counters |-> table'.counters, evictions |-> table'.evictions]
  BY DEF Count, Held
<1>2. TypeOK'
  BY <1>1 DEF TypeOK
<1>3. Bounded'
  BY <1>1 DEF Bounded
<1>4. NeverUnderCounted'
  BY <1>1 DEF NeverUnderCounted, TypeOK
<1>5. ForgottenIsLight'
  BY <1>1 DEF ForgottenIsLight, TypeOK
<1>6. ExactBeforeEviction'
  BY <1>1 DEF ExactBeforeEviction, Estimate, TypeOK
<1>7. QED
  BY <1>2, <1>3, <1>4, <1>5, <1>6

\* A table with room has displaced nothing, so the newcomer was never seen.
LEMMA AdmitStep ==
  ASSUME IndInv, NEW key \in Key, Tally(key),
         key \notin Held(table), Cardinality(Held(table)) < Cap,
         table' = Admit(table, key)
  PROVE  IndInv'
<1> USE DEF IndInv, Tally
<1>1. /\ Held(table') = Held(table) \cup {key}
      /\ table'.evictions = table.evictions
      /\ table'.counters = [k \in Held(table) \cup {key} |->
            IF k = key THEN 1 ELSE table.counters[k]]
      /\ table' = [counters |-> table'.counters, evictions |-> table'.evictions]
  BY DEF Admit, Held
<1>2. /\ table.evictions = 0
      /\ \A k \in Key \ Held(table) : freq[k] = 0
      /\ \A k \in Held(table) : freq[k] = table.counters[k]
  <2>1. table.evictions = 0
    BY HeldIsFinite, CapAssumption DEF Bounded, TypeOK
  <2>2. QED
    BY <2>1 DEF ExactBeforeEviction, Estimate, TypeOK
<1>3. Cardinality(Held(table')) = Cardinality(Held(table)) + 1
  BY <1>1, HeldIsFinite, FS_AddElement
<1>4. TypeOK'
  BY <1>1 DEF TypeOK
<1>5. Bounded'
  BY <1>1, <1>2, <1>3, HeldIsFinite, CapAssumption DEF Bounded
<1>6. NeverUnderCounted'
  BY <1>1, <1>2 DEF NeverUnderCounted, TypeOK
<1>7. ForgottenIsLight'
  BY <1>1, <1>2 DEF ForgottenIsLight, TypeOK
<1>8. ExactBeforeEviction'
  BY <1>1, <1>2 DEF ExactBeforeEviction, Estimate, TypeOK
<1>9. QED
  BY <1>4, <1>5, <1>6, <1>7, <1>8

\* The newcomer occurred at most as often as the victim's counter says, and the
\* victim is no heavier than any key that stays.
LEMMA DisplaceStep ==
  ASSUME IndInv, NEW key \in Key, Tally(key),
         key \notin Held(table), ~(Cardinality(Held(table)) < Cap),
         NEW v \in Lightest(table), table' = Displace(table, v, key)
  PROVE  IndInv'
<1> USE DEF IndInv, Tally
<1>0. /\ v \in Held(table)
      /\ v # key
      /\ \A j \in Held(table) : table.counters[v] <= table.counters[j]
  BY DEF Lightest
<1>1. /\ Held(table') = (Held(table) \ {v}) \cup {key}
      /\ table'.evictions = table.evictions + 1
      /\ table'.counters = [k \in (Held(table) \ {v}) \cup {key} |->
            IF k = key THEN table.counters[v] + 1 ELSE table.counters[k]]
      /\ table' = [counters |-> table'.counters, evictions |-> table'.evictions]
  BY DEF Displace, Held
<1>2. Cardinality(Held(table')) = Cardinality(Held(table))
  <2>1. /\ IsFiniteSet(Held(table) \ {v})
        /\ Cardinality(Held(table) \ {v}) = Cardinality(Held(table)) - 1
    BY <1>0, HeldIsFinite, FS_RemoveElement
  <2>2. key \notin Held(table) \ {v}
    OBVIOUS
  <2>3. Cardinality(Held(table')) = Cardinality(Held(table) \ {v}) + 1
    BY <1>1, <2>1, <2>2, FS_AddElement
  <2>4. QED
    BY <2>1, <2>3, HeldIsFinite
<1>3. TypeOK'
  BY <1>0, <1>1 DEF TypeOK
<1>4. Bounded'
  BY <1>1, <1>2, HeldIsFinite, CapAssumption DEF Bounded
<1>5. NeverUnderCounted'
  BY <1>0, <1>1 DEF NeverUnderCounted, ForgottenIsLight, TypeOK
<1>6. ForgottenIsLight'
  <2> SUFFICES ASSUME NEW k \in Key \ Held(table'), NEW j \in Held(table')
               PROVE  freq'[k] <= table'.counters[j]
    BY DEF ForgottenIsLight
  <2>1. k # key /\ freq'[k] = freq[k]
    BY <1>1 DEF TypeOK
  <2>2. freq[k] <= table.counters[v]
    BY <1>0, <1>1, <2>1 DEF ForgottenIsLight, NeverUnderCounted
  <2>3. table.counters[v] <= table'.counters[j]
    BY <1>0, <1>1 DEF TypeOK
  <2>4. QED
    BY <1>0, <1>1, <2>1, <2>2, <2>3 DEF TypeOK
<1>7. ExactBeforeEviction'
  BY <1>1 DEF ExactBeforeEviction, TypeOK
<1>8. QED
  BY <1>3, <1>4, <1>5, <1>6, <1>7

LEMMA NextInv == IndInv /\ [Next]_vars => IndInv'
<1> SUFFICES ASSUME IndInv, [Next]_vars PROVE IndInv'
  OBVIOUS
<1>1. ASSUME NEW key \in Key, Observe(key) PROVE IndInv'
  <2>1. Tally(key) /\ table' \in Observed(table, Cap, key)
    BY <1>1 DEF Observe
  <2>2. QED
    BY <2>1, ObservedCases, CountStep, AdmitStep, DisplaceStep
<1>2. CASE UNCHANGED vars
  BY <1>2 DEF vars, IndInv, TypeOK, Bounded, NeverUnderCounted, ForgottenIsLight,
              ExactBeforeEviction, Estimate, Held
<1>3. QED
  BY <1>1, <1>2 DEF Next

LEMMA InvHolds == Spec => []IndInv
BY InitInv, NextInv, PTL DEF Spec

\* The table of SpaceSaving::observe is well formed in every reachable state.
THEOREM TypeCorrect == Spec => []TypeOK
BY InvHolds, PTL DEF IndInv

\* The table never outgrows its capacity, and evicts only when it is full.
THEOREM BoundedHolds == Spec => []Bounded
BY InvHolds, PTL DEF IndInv

\* No held key is ever under-counted.
THEOREM NeverUnderCountedHolds == Spec => []NeverUnderCounted
BY InvHolds, PTL DEF IndInv

\* No forgotten key is more frequent than a held one is estimated to be.
THEOREM ForgottenIsLightHolds == Spec => []ForgottenIsLight
BY InvHolds, PTL DEF IndInv

\* The table is exact until its first eviction.
THEOREM ExactBeforeEvictionHolds == Spec => []ExactBeforeEviction
BY InvHolds, PTL DEF IndInv

-----------------------------------------------------------------------------
\* Every observation is in exactly one counter: what an evicted key had counted
\* is inherited, so the counters add up to the observations made, for any
\* stream and any victims.
THEOREM MassConservedHolds == Spec => []MassConserved
<1>1. TypeOK => IsTable(table)
  BY HeldIsFinite DEF TypeOK, IsTable
<1>2. Init => MassConserved
  BY NewTableMass DEF Init, MassConserved
<1>3. TypeOK /\ MassConserved /\ [Next]_vars => MassConserved'
  <2> SUFFICES ASSUME TypeOK, MassConserved, [Next]_vars PROVE MassConserved'
    OBVIOUS
  <2>1. ASSUME NEW key \in Key, Observe(key) PROVE MassConserved'
    <3>1. table' \in Observed(table, Cap, key) /\ observations' = observations + 1
      BY <2>1 DEF Observe, Tally
    <3>2. SumOver(table'.counters, Held(table')) = SumOver(table.counters, Held(table)) + 1
      BY <1>1, <3>1, ObservedMass
    <3>3. QED
      BY <3>1, <3>2 DEF MassConserved
  <2>2. CASE UNCHANGED vars
    BY <2>2 DEF vars, MassConserved
  <2>3. QED
    BY <2>1, <2>2 DEF Next
<1>4. QED
  BY <1>2, <1>3, TypeCorrect, PTL DEF Spec

-----------------------------------------------------------------------------
(* The skeletons of a field are such a table: what holds of a table under  *)
(* any stream of keys holds of them under any stream of strings and numbers. *)
\* An observed value is an observation of the table or leaves it alone.
LEMMA ValueStep == ValueNext => [Next]_vars
<1> SUFFICES ASSUME ValueNext PROVE [Next]_vars
  OBVIOUS
<1>1. ASSUME NEW s \in Text, ObserveString(s) PROVE [Next]_vars
  <2>1. CASE s.format = "other"
    <3>1. s.skeleton \in Key
      BY <2>1, TextAssumption
    <3>2. Observe(s.skeleton)
      BY <1>1, <2>1 DEF ObserveString
    <3>3. QED
      BY <3>1, <3>2 DEF Next
  <2>2. CASE s.format # "other"
    BY <1>1, <2>2 DEF ObserveString
  <2>3. QED
    BY <2>1, <2>2
<1>2. ASSUME NEW n \in Number, ObserveNumber(n) PROVE [Next]_vars
  BY <1>2 DEF ObserveNumber
<1>3. QED
  BY <1>1, <1>2 DEF ValueNext

\* The statistics implement the table.
THEOREM ImplementsSketch == ValueSpec => Spec
<1>1. ValueInit => Init
  BY DEF ValueInit
<1>2. [ValueNext]_<<vars, valueVars>> => [Next]_vars
  BY ValueStep
<1>3. QED
  BY <1>1, <1>2, PTL DEF ValueSpec, Spec

\* The estimate of a skeleton that is held is never below its frequency, for
\* any strings, any numbers between them, and any choice of victims.
THEOREM SkeletonsNeverUnderCounted == ValueSpec => []NeverUnderCounted
BY ImplementsSketch, NeverUnderCountedHolds, PTL

-----------------------------------------------------------------------------
(* Division.                                                               *)
LEMMA Quotient ==
  ASSUME NEW a \in Nat, NEW w \in Nat \ {0}
  PROVE  a \div w \in Nat /\ w * (a \div w) <= a /\ a < w * (a \div w) + w
OBVIOUS

LEMMA IndexType ==
  ASSUME NEW m \in Nat
  PROVE  Index(m) \in Nat /\ Index(m) <= m /\ (m > 0 => Index(m) > 0)
BY DistAssumption DEF Index, CeilDiv

LEMMA IndexGrows ==
  ASSUME NEW a \in Nat, NEW b \in Nat, a <= b
  PROVE  Index(a) <= Index(b)
BY DistAssumption DEF Index, CeilDiv

-----------------------------------------------------------------------------
(* The ends of finite sets of integers.                                    *)
LEMMA HasSmallest ==
  ASSUME NEW S, IsFiniteSet(S), S # {}, NEW f, \A x \in S : f[x] \in Int
  PROVE  \E m \in S : \A x \in S : f[m] <= f[x]
<1> DEFINE Down(x) == {y \in S : f[y] <= f[x]}
           C == {Down(x) : x \in S}
<1>1. C \in SUBSET (SUBSET S) /\ C # {}
  OBVIOUS
<1>2. \E T \in C : \A U \in C : U \subseteq T => U = T
  <2> HIDE DEF C
  <2>1. QED
    BY <1>1, SmallestSet
<1>3. PICK T \in C : \A U \in C : U \subseteq T => U = T
  BY <1>2
<1>4. PICK m \in S : T = Down(m)
  BY <1>3
<1>5. ASSUME NEW x \in S, ~(f[m] <= f[x]) PROVE FALSE
  <2>1. f[x] \in Int /\ f[m] \in Int /\ f[x] < f[m]
    BY <1>5
  <2>2. \A y \in S : f[y] \in Int
    OBVIOUS
  <2>3. Down(x) \subseteq Down(m)
    BY <2>1, <2>2
  <2>4. m \in Down(m) /\ m \notin Down(x)
    BY <2>1
  <2>5. Down(x) \in C
    OBVIOUS
  <2>6. QED
    BY <1>3, <1>4, <2>3, <2>4, <2>5
<1>6. QED
  BY <1>5

LEMMA HasLeast ==
  ASSUME NEW S \in SUBSET Int, IsFiniteSet(S), S # {}
  PROVE  Min(S) \in S /\ \A x \in S : Min(S) <= x
<1> DEFINE f == [x \in S |-> x]
<1>1. \A x \in S : f[x] \in Int /\ f[x] = x
  OBVIOUS
<1> HIDE DEF f
<1>2. PICK m \in S : \A x \in S : f[m] <= f[x]
  BY <1>1, HasSmallest
<1>3. \A x \in S : m <= x
  BY <1>1, <1>2
<1>4. QED
  BY <1>3 DEF Min

LEMMA HasLargest ==
  ASSUME NEW S \in SUBSET Int, IsFiniteSet(S), S # {}
  PROVE  \E m \in S : \A x \in S : x <= m
<1> DEFINE f == [x \in S |-> -x]
<1>1. \A x \in S : f[x] \in Int /\ f[x] = -x
  OBVIOUS
<1> HIDE DEF f
<1>2. PICK m \in S : \A x \in S : f[m] <= f[x]
  BY <1>1, HasSmallest
<1>3. \A x \in S : x <= m
  BY <1>1, <1>2
<1>4. QED
  BY <1>3

\* The bucket that is evicted is one that is there.
LEMMA SmallestIsHeld ==
  ASSUME NEW f, IsFiniteSet(DOMAIN f), DOMAIN f # {}, DOMAIN f \subseteq Int,
         \A i \in DOMAIN f : f[i] \in Nat
  PROVE  Smallest(f) \in DOMAIN f
<1> DEFINE S == {i \in DOMAIN f : \A j \in DOMAIN f : f[i] <= f[j]}
<1>1. \A i \in DOMAIN f : f[i] \in Int
  OBVIOUS
<1>2. \E m \in DOMAIN f : \A j \in DOMAIN f : f[m] <= f[j]
  BY <1>1, HasSmallest
<1>3. S # {} /\ S \subseteq DOMAIN f
  BY <1>2
<1>4. IsFiniteSet(S) /\ S \in SUBSET Int
  <2> HIDE DEF S
  <2>1. QED
    BY <1>3, FS_Subset
<1>5. Min(S) \in S
  <2> HIDE DEF S
  <2>1. QED
    BY <1>3, <1>4, HasLeast
<1>6. QED
  BY <1>3, <1>5 DEF Smallest

-----------------------------------------------------------------------------
(* The buckets of one sign.                                                *)
IsBuckets(f) ==
  /\ f = [i \in DOMAIN f |-> f[i]]
  /\ DOMAIN f \subseteq 1 .. MaxValue
  /\ \A i \in DOMAIN f : f[i] \in Nat

\* What buckets hold in a set of places.
HeldIn(f, T) == SumOver(f, DOMAIN f \cap T)

LEMMA BucketsFinite ==
  ASSUME NEW f, IsBuckets(f)
  PROVE  /\ IsFiniteSet(DOMAIN f) /\ Cardinality(DOMAIN f) \in Nat
         /\ \A T : IsFiniteSet(DOMAIN f \cap T) /\ HeldIn(f, T) \in Nat
<1>1. IsFiniteSet(1 .. MaxValue)
  BY DistAssumption, FS_Interval
<1>2. IsFiniteSet(DOMAIN f)
  BY <1>1, FS_Subset DEF IsBuckets
<1>3. ASSUME NEW T PROVE IsFiniteSet(DOMAIN f \cap T) /\ HeldIn(f, T) \in Nat
  <2>1. IsFiniteSet(DOMAIN f \cap T)
    BY <1>2, FS_Subset
  <2>2. \A i \in DOMAIN f \cap T : f[i] \in Nat
    BY DEF IsBuckets
  <2>3. QED
    BY <2>1, <2>2, SumType DEF HeldIn
<1>4. QED
  BY <1>2, <1>3, FS_CardinalityType

LEMMA BumpHolds ==
  ASSUME NEW f, IsBuckets(f), NEW i \in 1 .. MaxValue, NEW g, g = Bump(f, i)
  PROVE  /\ IsBuckets(g)
         /\ DOMAIN g = DOMAIN f \cup {i}
         /\ Cardinality(DOMAIN g) \in {Cardinality(DOMAIN f), Cardinality(DOMAIN f) + 1}
<1>1. /\ DOMAIN g = DOMAIN f \cup {i}
      /\ g = [j \in DOMAIN g |-> g[j]]
      /\ \A j \in DOMAIN f : g[j] = f[j] + IF j = i THEN 1 ELSE 0
      /\ i \notin DOMAIN f => g[i] = 1
  BY DEF Bump, IsBuckets
<1>2. IsBuckets(g)
  BY <1>1 DEF IsBuckets
<1>3. Cardinality(DOMAIN g) \in {Cardinality(DOMAIN f), Cardinality(DOMAIN f) + 1}
  BY <1>1, BucketsFinite, FS_AddElement
<1>4. QED
  BY <1>1, <1>2, <1>3

LEMMA BumpAdds ==
  ASSUME NEW f, IsBuckets(f), NEW i \in 1 .. MaxValue, NEW g, g = Bump(f, i), NEW T
  PROVE  HeldIn(g, T) = HeldIn(f, T) + IF i \in T THEN 1 ELSE 0
<1>1. /\ DOMAIN g = DOMAIN f \cup {i}
      /\ g = [j \in DOMAIN g |-> g[j]]
      /\ \A j \in DOMAIN f : g[j] = f[j] + IF j = i THEN 1 ELSE 0
      /\ i \notin DOMAIN f => g[i] = 1
  BY DEF Bump, IsBuckets
<1>2. IsBuckets(g)
  BY BumpHolds
<1> DEFINE S == DOMAIN f \cap T
           R == DOMAIN g \cap T
<1>3. IsFiniteSet(S) /\ IsFiniteSet(R) /\ HeldIn(f, T) \in Nat
  BY <1>2, BucketsFinite
<1>4. \A j \in R : g[j] \in Nat
  BY <1>2 DEF IsBuckets
<1>5. \A j \in S : f[j] \in Nat
  BY DEF IsBuckets
<1>6. CASE i \notin T
  <2>1. R = S /\ \A j \in S : g[j] = f[j]
    BY <1>1, <1>6, <1>5
  <2>2. SumOver(g, S) = SumOver(f, S)
    BY <1>3, <2>1, SumSame
  <2>3. QED
    BY <1>3, <1>6, <2>1, <2>2 DEF HeldIn
<1>7. CASE i \in T /\ i \in DOMAIN f
  <2>1. R = S /\ i \in S /\ (\A j \in S \ {i} : g[j] = f[j]) /\ g[i] = f[i] + 1
    BY <1>1, <1>7, <1>5
  <2>2. SumOver(g, S) + f[i] = SumOver(f, S) + g[i]
    BY <1>3, <1>4, <1>5, <2>1, SumChange
  <2>3. SumOver(g, S) \in Nat /\ SumOver(f, S) \in Nat /\ f[i] \in Nat
    BY <1>3, <1>4, <1>5, <2>1, SumType
  <2>4. SumOver(g, S) = SumOver(f, S) + 1
    BY <2>1, <2>2, <2>3
  <2>5. QED
    BY <1>7, <2>1, <2>4 DEF HeldIn
<1>8. CASE i \in T /\ i \notin DOMAIN f
  <2>1. R = S \cup {i} /\ i \notin S /\ (\A j \in S : g[j] = f[j]) /\ g[i] = 1
    BY <1>1, <1>8, <1>5
  <2>2. SumOver(g, R) = SumOver(g, S) + g[i]
    BY <1>3, <1>4, <2>1, SumAdd
  <2>3. SumOver(g, S) = SumOver(f, S)
    BY <1>3, <2>1, SumSame
  <2>4. QED
    BY <1>8, <2>1, <2>2, <2>3 DEF HeldIn
<1>9. QED
  BY <1>6, <1>7, <1>8

LEMMA WithoutHolds ==
  ASSUME NEW f, IsBuckets(f), NEW i \in DOMAIN f, NEW g, g = Without(f, i)
  PROVE  /\ IsBuckets(g)
         /\ Cardinality(DOMAIN g) = Cardinality(DOMAIN f) - 1
         /\ \A T : HeldIn(f, T) = HeldIn(g, T) + IF i \in T THEN f[i] ELSE 0
<1>1. /\ DOMAIN g = DOMAIN f \ {i}
      /\ g = [j \in DOMAIN g |-> g[j]]
      /\ \A j \in DOMAIN g : g[j] = f[j]
  BY DEF Without
<1>2. IsBuckets(g)
  BY <1>1 DEF IsBuckets
<1>3. Cardinality(DOMAIN g) = Cardinality(DOMAIN f) - 1
  BY <1>1, BucketsFinite, FS_RemoveElement
<1>4. ASSUME NEW T PROVE HeldIn(f, T) = HeldIn(g, T) + IF i \in T THEN f[i] ELSE 0
  <2> DEFINE S == DOMAIN f \cap T
             R == DOMAIN g \cap T
  <2>1. IsFiniteSet(S) /\ IsFiniteSet(R) /\ SumOver(g, R) \in Nat
    BY <1>2, BucketsFinite DEF HeldIn
  <2>2. \A j \in S : f[j] \in Nat
    BY DEF IsBuckets
  <2>3. SumOver(g, R) = SumOver(f, R)
    BY <1>1, <2>1, SumSame
  <2>4. CASE i \notin T
    <3>1. R = S
      BY <1>1, <2>4
    <3>2. QED
      BY <2>1, <2>3, <2>4, <3>1 DEF HeldIn
  <2>5. CASE i \in T
    <3>1. R = S \ {i} /\ i \in S /\ f[i] \in Nat
      BY <1>1, <2>5, <2>2
    <3>2. SumOver(f, S) = f[i] + SumOver(f, R)
      BY <2>1, <2>2, <3>1, SumRemove
    <3>3. QED
      BY <2>1, <2>3, <2>5, <3>1, <3>2 DEF HeldIn
  <2>6. QED
    BY <2>4, <2>5
<1>5. QED
  BY <1>2, <1>3, <1>4

-----------------------------------------------------------------------------
(* A sketch and the values it was given.                                   *)
Places(b) == {i \in Int : i <= b}
PlacesBelowZero(b) == {i \in Int : -i <= b}

IsDist(d) ==
  /\ d = [pos |-> d.pos, neg |-> d.neg, zero |-> d.zero, count |-> d.count,
          min |-> d.min, max |-> d.max]
  /\ IsBuckets(d.pos) /\ IsBuckets(d.neg)
  /\ d.zero \in Nat /\ d.count \in Nat /\ d.min \in Int /\ d.max \in Int

LEMMA MassHeld ==
  ASSUME NEW d, IsDist(d), NEW b \in Int
  PROVE  /\ MassUpTo(d, b) = HeldIn(d.neg, PlacesBelowZero(b))
                             + (IF b >= 0 THEN d.zero ELSE 0) + HeldIn(d.pos, Places(b))
         /\ MassUpTo(d, b) \in Nat
<1>1. /\ {i \in DOMAIN d.neg : -i <= b} = DOMAIN d.neg \cap PlacesBelowZero(b)
      /\ {i \in DOMAIN d.pos : i <= b} = DOMAIN d.pos \cap Places(b)
  BY DistAssumption DEF IsDist, IsBuckets, Places, PlacesBelowZero
<1>2. MassUpTo(d, b) = HeldIn(d.neg, PlacesBelowZero(b))
                       + (IF b >= 0 THEN d.zero ELSE 0) + HeldIn(d.pos, Places(b))
  BY <1>1 DEF MassUpTo, HeldIn
<1>3. HeldIn(d.neg, PlacesBelowZero(b)) \in Nat /\ HeldIn(d.pos, Places(b)) \in Nat
  BY BucketsFinite DEF IsDist
<1>4. QED
  BY <1>2, <1>3 DEF IsDist

LEMMA BucketsType ==
  ASSUME NEW d, IsDist(d)
  PROVE  Buckets(d) \in Nat
BY BucketsFinite DEF IsDist, Buckets

LEMMA BucketType ==
  ASSUME NEW v \in Int
  PROVE  /\ Bucket(v) \in Int
         /\ v > 0 => Bucket(v) > 0 /\ Bucket(v) <= v
         /\ v = 0 => Bucket(v) = 0
         /\ v < 0 => Bucket(v) < 0 /\ Bucket(v) >= v
<1>1. CASE v >= 0
  BY <1>1, IndexType DEF Bucket
<1>2. CASE v < 0
  <2>1. -v \in Nat /\ Bucket(v) = -Index(-v)
    BY <1>2 DEF Bucket
  <2>2. Index(-v) \in Nat /\ Index(-v) <= -v /\ Index(-v) > 0
    BY <1>2, <2>1, IndexType
  <2>3. QED
    BY <1>2, <2>1, <2>2
<1>3. QED
  BY <1>1, <1>2

LEMMA BucketGrows ==
  ASSUME NEW v \in Int, NEW w \in Int, v <= w
  PROVE  Bucket(v) <= Bucket(w)
<1>1. CASE v >= 0
  BY <1>1, IndexGrows DEF Bucket
<1>2. CASE v < 0 /\ w >= 0
  <2>1. Bucket(v) \in Int /\ Bucket(w) \in Int /\ Bucket(v) < 0 /\ Bucket(w) >= 0
    BY <1>2, BucketType
  <2>2. QED
    BY <2>1
<1>3. CASE w < 0
  <2>1. -v \in Nat /\ -w \in Nat /\ -w <= -v
    BY <1>3
  <2>2. Index(-w) <= Index(-v) /\ Index(-w) \in Nat /\ Index(-v) \in Nat
    BY <2>1, IndexGrows, IndexType
  <2>3. QED
    BY <1>3, <2>2 DEF Bucket
<1>4. QED
  BY <1>1, <1>2, <1>3

\* What is evicted is missing from its place on.
LEMMA EvictionMass ==
  ASSUME NEW d, IsDist(d), Buckets(d) > 0, NEW e, e = EvictSmallest(d)
  PROVE  /\ IsDist(e) /\ Buckets(e) = Buckets(d) - 1
         /\ e.count = d.count /\ e.max = d.max
         /\ \E k \in Int, c \in Nat :
              /\ k <= Infinity
              /\ \A b \in Int : MassUpTo(d, b) = MassUpTo(e, b) + IF k <= b THEN c ELSE 0
<1>1. /\ IsBuckets(d.pos) /\ IsFiniteSet(DOMAIN d.pos) /\ Cardinality(DOMAIN d.pos) \in Nat
      /\ IsBuckets(d.neg) /\ IsFiniteSet(DOMAIN d.neg) /\ Cardinality(DOMAIN d.neg) \in Nat
  BY BucketsFinite DEF IsDist
<1>2. DOMAIN d.pos # {} \/ DOMAIN d.neg # {}
  <2>1. SUFFICES ASSUME DOMAIN d.pos = {}, DOMAIN d.neg = {} PROVE FALSE
    OBVIOUS
  <2>2. Cardinality({}) = 0
    BY FS_EmptySet
  <2>3. Buckets(d) = 0
    BY <2>1, <2>2 DEF Buckets
  <2>4. QED
    BY <2>3
<1>3. \/ DOMAIN d.pos # {} /\ e = [d EXCEPT !.pos = Without(d.pos, Smallest(d.pos))]
      \/ DOMAIN d.neg # {} /\ e = [d EXCEPT !.neg = Without(d.neg, Smallest(d.neg))]
  BY <1>2 DEF EvictSmallest
<1>4. CASE DOMAIN d.pos # {} /\ e = [d EXCEPT !.pos = Without(d.pos, Smallest(d.pos))]
  <2> DEFINE i == Smallest(d.pos)
             f == Without(d.pos, i)
  <2>1. i \in DOMAIN d.pos
    BY <1>1, <1>4, DistAssumption, SmallestIsHeld DEF IsBuckets
  <2>2. /\ e.pos = f /\ e.neg = d.neg /\ e.zero = d.zero
        /\ e.count = d.count /\ e.min = d.min /\ e.max = d.max
        /\ e = [pos |-> e.pos, neg |-> e.neg, zero |-> e.zero, count |-> e.count,
                min |-> e.min, max |-> e.max]
    BY <1>4 DEF IsDist
  <2> HIDE DEF i
  <2>3. /\ IsBuckets(f) /\ Cardinality(DOMAIN f) = Cardinality(DOMAIN d.pos) - 1
        /\ \A T : HeldIn(d.pos, T) = HeldIn(f, T) + IF i \in T THEN d.pos[i] ELSE 0
    BY <1>1, <2>1, WithoutHolds
  <2> HIDE DEF f
  <2>4. IsDist(e)
    BY <2>2, <2>3 DEF IsDist
  <2>5. i \in Int /\ i <= Infinity /\ d.pos[i] \in Nat
    BY <1>1, <2>1, DistAssumption DEF IsBuckets, Infinity
  <2>6. ASSUME NEW b \in Int
        PROVE  MassUpTo(d, b) = MassUpTo(e, b) + IF i <= b THEN d.pos[i] ELSE 0
    <3>1. HeldIn(d.pos, Places(b)) = HeldIn(f, Places(b)) + IF i <= b THEN d.pos[i] ELSE 0
      BY <2>3, <2>5 DEF Places
    <3>2. HeldIn(f, Places(b)) \in Nat /\ HeldIn(d.neg, PlacesBelowZero(b)) \in Nat
      BY <1>1, <2>3, BucketsFinite
    <3>3. MassUpTo(d, b) = HeldIn(d.neg, PlacesBelowZero(b))
                           + (IF b >= 0 THEN d.zero ELSE 0) + HeldIn(d.pos, Places(b))
      BY MassHeld
    <3>4. MassUpTo(e, b) = HeldIn(d.neg, PlacesBelowZero(b))
                           + (IF b >= 0 THEN d.zero ELSE 0) + HeldIn(f, Places(b))
      BY <2>2, <2>4, MassHeld
    <3>5. d.zero \in Nat
      BY DEF IsDist
    <3>6. QED
      BY <2>5, <3>1, <3>2, <3>3, <3>4, <3>5
  <2>7. Buckets(e) = Buckets(d) - 1
    BY <1>1, <2>2, <2>3 DEF Buckets
  <2>8. QED
    BY <2>2, <2>4, <2>5, <2>6, <2>7
<1>5. CASE DOMAIN d.neg # {} /\ e = [d EXCEPT !.neg = Without(d.neg, Smallest(d.neg))]
  <2> DEFINE i == Smallest(d.neg)
             f == Without(d.neg, i)
  <2>1. i \in DOMAIN d.neg
    BY <1>1, <1>5, DistAssumption, SmallestIsHeld DEF IsBuckets
  <2>2. /\ e.neg = f /\ e.pos = d.pos /\ e.zero = d.zero
        /\ e.count = d.count /\ e.min = d.min /\ e.max = d.max
        /\ e = [pos |-> e.pos, neg |-> e.neg, zero |-> e.zero, count |-> e.count,
                min |-> e.min, max |-> e.max]
    BY <1>5 DEF IsDist
  <2> HIDE DEF i
  <2>3. /\ IsBuckets(f) /\ Cardinality(DOMAIN f) = Cardinality(DOMAIN d.neg) - 1
        /\ \A T : HeldIn(d.neg, T) = HeldIn(f, T) + IF i \in T THEN d.neg[i] ELSE 0
    BY <1>1, <2>1, WithoutHolds
  <2> HIDE DEF f
  <2>4. IsDist(e)
    BY <2>2, <2>3 DEF IsDist
  <2>5. -i \in Int /\ i \in Int /\ -i <= Infinity /\ d.neg[i] \in Nat
    BY <1>1, <2>1, DistAssumption DEF IsBuckets, Infinity
  <2>6. ASSUME NEW b \in Int
        PROVE  MassUpTo(d, b) = MassUpTo(e, b) + IF -i <= b THEN d.neg[i] ELSE 0
    <3>1. HeldIn(d.neg, PlacesBelowZero(b))
            = HeldIn(f, PlacesBelowZero(b)) + IF -i <= b THEN d.neg[i] ELSE 0
      BY <2>3, <2>5 DEF PlacesBelowZero
    <3>2. HeldIn(f, PlacesBelowZero(b)) \in Nat /\ HeldIn(d.pos, Places(b)) \in Nat
      BY <1>1, <2>3, BucketsFinite
    <3>3. MassUpTo(d, b) = HeldIn(d.neg, PlacesBelowZero(b))
                           + (IF b >= 0 THEN d.zero ELSE 0) + HeldIn(d.pos, Places(b))
      BY MassHeld
    <3>4. MassUpTo(e, b) = HeldIn(f, PlacesBelowZero(b))
                           + (IF b >= 0 THEN d.zero ELSE 0) + HeldIn(d.pos, Places(b))
      BY <2>2, <2>4, MassHeld
    <3>5. d.zero \in Nat
      BY DEF IsDist
    <3>6. QED
      BY <2>5, <3>1, <3>2, <3>3, <3>4, <3>5
  <2>7. Buckets(e) = Buckets(d) - 1
    BY <1>1, <2>2, <2>3 DEF Buckets
  <2>8. QED
    BY <2>2, <2>4, <2>5, <2>6, <2>7
<1>6. QED
  BY <1>3, <1>4, <1>5

\* DistObserve before it evicts.
Counted(d, v) == [d EXCEPT !.count = @ + 1, !.min = Min({@, v}), !.max = Max({@, v})]
Put(d, v) ==
  IF v = 0 THEN [Counted(d, v) EXCEPT !.zero = @ + 1]
  ELSE IF v > 0 THEN [Counted(d, v) EXCEPT !.pos = Bump(@, Index(v))]
  ELSE [Counted(d, v) EXCEPT !.neg = Bump(@, Index(-v))]

LEMMA ObservedIsPut ==
  ASSUME NEW d, NEW v
  PROVE  DistObserve(d, v) = IF Overfull(Put(d, v)) THEN EvictSmallest(Put(d, v)) ELSE Put(d, v)
BY DEF DistObserve, Put, Counted

LEMMA MinMaxOfTwo ==
  ASSUME NEW a \in Int, NEW b \in Int
  PROVE  /\ Min({a, b}) = IF a <= b THEN a ELSE b
         /\ Max({a, b}) = IF a >= b THEN a ELSE b
<1>1. Min({a, b}) = IF a <= b THEN a ELSE b
  BY DEF Min
<1>2. Max({a, b}) = IF a >= b THEN a ELSE b
  BY DEF Max
<1>3. QED
  BY <1>1, <1>2

\* A value is counted from its bucket on.
LEMMA PutMass ==
  ASSUME NEW d, IsDist(d), NEW v \in -MaxValue .. MaxValue, NEW e, e = Put(d, v)
  PROVE  /\ IsDist(e) /\ Buckets(e) \in {Buckets(d), Buckets(d) + 1}
         /\ e.count = d.count + 1 /\ e.max = IF d.max >= v THEN d.max ELSE v
         /\ \A b \in Int : MassUpTo(e, b) = MassUpTo(d, b) + IF Bucket(v) <= b THEN 1 ELSE 0
<1> DEFINE c == Counted(d, v)
<1>0. d = [pos |-> d.pos, neg |-> d.neg, zero |-> d.zero, count |-> d.count,
           min |-> d.min, max |-> d.max]
  BY DEF IsDist
<1>1. /\ c.pos = d.pos /\ c.neg = d.neg /\ c.zero = d.zero
      /\ c.count = d.count + 1 /\ c.min = Min({d.min, v}) /\ c.max = Max({d.max, v})
      /\ c = [pos |-> c.pos, neg |-> c.neg, zero |-> c.zero, count |-> c.count,
              min |-> c.min, max |-> c.max]
  <2> DEFINE lo == Min({d.min, v})
             hi == Max({d.max, v})
  <2>1. c = [d EXCEPT !.count = d.count + 1, !.min = lo, !.max = hi]
    BY DEF Counted
  <2> HIDE DEF c, lo, hi
  <2>2. /\ c.pos = d.pos /\ c.neg = d.neg /\ c.zero = d.zero
        /\ c.count = d.count + 1 /\ c.min = lo /\ c.max = hi
        /\ c = [pos |-> c.pos, neg |-> c.neg, zero |-> c.zero, count |-> c.count,
                min |-> c.min, max |-> c.max]
    BY <1>0, <2>1
  <2>3. QED
    BY <2>2 DEF lo, hi
<1> HIDE DEF c
<1>2. v \in Int /\ MaxValue \in Nat /\ -MaxValue <= v /\ v <= MaxValue
  BY DistAssumption
<1>3. c.min \in Int /\ c.max = IF d.max >= v THEN d.max ELSE v
  BY <1>1, <1>2, MinMaxOfTwo DEF IsDist
<1>4. /\ IsBuckets(d.pos) /\ IsBuckets(d.neg) /\ d.zero \in Nat /\ d.count \in Nat
      /\ d.max \in Int
  BY DEF IsDist
<1>5. /\ Cardinality(DOMAIN d.pos) \in Nat /\ Cardinality(DOMAIN d.neg) \in Nat
      /\ \A T : HeldIn(d.pos, T) \in Nat /\ HeldIn(d.neg, T) \in Nat
  BY <1>4, BucketsFinite
<1>6. \A b \in Int :
        MassUpTo(d, b) = HeldIn(d.neg, PlacesBelowZero(b))
                         + (IF b >= 0 THEN d.zero ELSE 0) + HeldIn(d.pos, Places(b))
  BY MassHeld
<1>7. CASE v = 0
  <2>1. /\ e.pos = d.pos /\ e.neg = d.neg /\ e.zero = d.zero + 1
        /\ e.count = c.count /\ e.min = c.min /\ e.max = c.max
        /\ e = [pos |-> e.pos, neg |-> e.neg, zero |-> e.zero, count |-> e.count,
                min |-> e.min, max |-> e.max]
    BY <1>1, <1>7 DEF Put, c
  <2>2. IsDist(e)
    BY <1>1, <1>3, <1>4, <2>1 DEF IsDist
  <2>3. Bucket(v) = 0
    BY <1>7, BucketType
  <2>4. \A b \in Int :
          MassUpTo(e, b) = HeldIn(d.neg, PlacesBelowZero(b))
                           + (IF b >= 0 THEN d.zero + 1 ELSE 0) + HeldIn(d.pos, Places(b))
    BY <2>1, <2>2, MassHeld
  <2>5. ASSUME NEW b \in Int
        PROVE  MassUpTo(e, b) = MassUpTo(d, b) + IF Bucket(v) <= b THEN 1 ELSE 0
    <3>1. HeldIn(d.pos, Places(b)) \in Nat /\ HeldIn(d.neg, PlacesBelowZero(b)) \in Nat
      BY <1>5
    <3>2. QED
      BY <1>4, <1>6, <2>3, <2>4, <3>1
  <2>6. QED
    BY <1>1, <1>3, <2>1, <2>2, <2>5 DEF Buckets
<1>8. CASE v > 0
  <2> DEFINE i == Index(v)
             f == Bump(d.pos, i)
  <2>1. /\ e.pos = f /\ e.neg = d.neg /\ e.zero = d.zero
        /\ e.count = c.count /\ e.min = c.min /\ e.max = c.max
        /\ e = [pos |-> e.pos, neg |-> e.neg, zero |-> e.zero, count |-> e.count,
                min |-> e.min, max |-> e.max]
    BY <1>1, <1>8 DEF Put, c
  <2>2. i \in 1 .. MaxValue /\ Bucket(v) = i
    BY <1>2, <1>8, IndexType DEF Bucket
  <2> HIDE DEF i
  <2>0. f = Bump(d.pos, i)
    OBVIOUS
  <2> HIDE DEF f
  <2>3. /\ IsBuckets(f)
        /\ Cardinality(DOMAIN f) \in {Cardinality(DOMAIN d.pos), Cardinality(DOMAIN d.pos) + 1}
        /\ \A T : HeldIn(f, T) = HeldIn(d.pos, T) + IF i \in T THEN 1 ELSE 0
    <3> DEFINE h == d.pos
    <3>1. IsBuckets(h) /\ f = Bump(h, i)
      BY <1>4, <2>0
    <3> HIDE DEF h
    <3>2. /\ IsBuckets(f)
          /\ Cardinality(DOMAIN f) \in {Cardinality(DOMAIN h), Cardinality(DOMAIN h) + 1}
      BY <2>2, <3>1, BumpHolds
    <3>3. ASSUME NEW T PROVE HeldIn(f, T) = HeldIn(h, T) + IF i \in T THEN 1 ELSE 0
      BY <2>2, <3>1, BumpAdds
    <3>4. QED
      BY <3>2, <3>3 DEF h
  <2>4. IsDist(e)
    BY <1>1, <1>3, <1>4, <2>1, <2>3 DEF IsDist
  <2>5. ASSUME NEW b \in Int
        PROVE  MassUpTo(e, b) = MassUpTo(d, b) + IF Bucket(v) <= b THEN 1 ELSE 0
    <3>1. HeldIn(f, Places(b)) = HeldIn(d.pos, Places(b)) + IF i <= b THEN 1 ELSE 0
      BY <2>2, <2>3 DEF Places
    <3>2. MassUpTo(e, b) = HeldIn(d.neg, PlacesBelowZero(b))
                           + (IF b >= 0 THEN d.zero ELSE 0) + HeldIn(f, Places(b))
      BY <2>1, <2>4, MassHeld
    <3>3. HeldIn(d.pos, Places(b)) \in Nat /\ HeldIn(d.neg, PlacesBelowZero(b)) \in Nat
      BY <1>5
    <3>4. QED
      BY <1>4, <1>6, <2>2, <3>1, <3>2, <3>3
  <2>6. Buckets(e) \in {Buckets(d), Buckets(d) + 1}
    BY <1>5, <2>1, <2>3 DEF Buckets
  <2>7. QED
    BY <1>1, <1>3, <2>1, <2>4, <2>5, <2>6
<1>9. CASE v < 0
  <2> DEFINE i == Index(-v)
             f == Bump(d.neg, i)
  <2>1. /\ e.neg = f /\ e.pos = d.pos /\ e.zero = d.zero
        /\ e.count = c.count /\ e.min = c.min /\ e.max = c.max
        /\ e = [pos |-> e.pos, neg |-> e.neg, zero |-> e.zero, count |-> e.count,
                min |-> e.min, max |-> e.max]
    BY <1>1, <1>2, <1>9 DEF Put, c
  <2>2. i \in 1 .. MaxValue /\ Bucket(v) = -i
    <3>1. -v \in Nat /\ -v > 0 /\ -v <= MaxValue /\ Bucket(v) = -i
      BY <1>2, <1>9 DEF Bucket
    <3>2. i \in Nat /\ i <= -v /\ i > 0
      BY <3>1, IndexType
    <3>3. QED
      BY <1>2, <3>1, <3>2
  <2> HIDE DEF i
  <2>0. f = Bump(d.neg, i)
    OBVIOUS
  <2> HIDE DEF f
  <2>3. /\ IsBuckets(f)
        /\ Cardinality(DOMAIN f) \in {Cardinality(DOMAIN d.neg), Cardinality(DOMAIN d.neg) + 1}
        /\ \A T : HeldIn(f, T) = HeldIn(d.neg, T) + IF i \in T THEN 1 ELSE 0
    <3> DEFINE h == d.neg
    <3>1. IsBuckets(h) /\ f = Bump(h, i)
      BY <1>4, <2>0
    <3> HIDE DEF h
    <3>2. /\ IsBuckets(f)
          /\ Cardinality(DOMAIN f) \in {Cardinality(DOMAIN h), Cardinality(DOMAIN h) + 1}
      BY <2>2, <3>1, BumpHolds
    <3>3. ASSUME NEW T PROVE HeldIn(f, T) = HeldIn(h, T) + IF i \in T THEN 1 ELSE 0
      BY <2>2, <3>1, BumpAdds
    <3>4. QED
      BY <3>2, <3>3 DEF h
  <2>4. IsDist(e)
    BY <1>1, <1>3, <1>4, <2>1, <2>3 DEF IsDist
  <2>5. ASSUME NEW b \in Int
        PROVE  MassUpTo(e, b) = MassUpTo(d, b) + IF Bucket(v) <= b THEN 1 ELSE 0
    <3>1. HeldIn(f, PlacesBelowZero(b))
            = HeldIn(d.neg, PlacesBelowZero(b)) + IF -i <= b THEN 1 ELSE 0
      BY <2>2, <2>3 DEF PlacesBelowZero
    <3>2. MassUpTo(e, b) = HeldIn(f, PlacesBelowZero(b))
                           + (IF b >= 0 THEN d.zero ELSE 0) + HeldIn(d.pos, Places(b))
      BY <2>1, <2>4, MassHeld
    <3>3. HeldIn(d.pos, Places(b)) \in Nat /\ HeldIn(d.neg, PlacesBelowZero(b)) \in Nat
      BY <1>5
    <3>4. QED
      BY <1>4, <1>6, <2>2, <3>1, <3>2, <3>3
  <2>6. Buckets(e) \in {Buckets(d), Buckets(d) + 1}
    BY <1>5, <2>1, <2>3 DEF Buckets
  <2>7. QED
    BY <1>1, <1>3, <2>1, <2>4, <2>5, <2>6
<1>10. QED
  BY <1>2, <1>7, <1>8, <1>9

-----------------------------------------------------------------------------
(* The values that a sketch was given.                                     *)
IsHistory(seen) ==
  /\ DOMAIN seen \subseteq -MaxValue .. MaxValue
  /\ \A v \in DOMAIN seen : seen[v] \in Nat

ValuesUpTo(seen, b) == {v \in DOMAIN seen : Bucket(v) <= b}
Below(seen, b) == SumOver(seen, ValuesUpTo(seen, b))

LEMMA HistoryFinite ==
  ASSUME NEW seen, IsHistory(seen)
  PROVE  /\ IsFiniteSet(DOMAIN seen) /\ DOMAIN seen \subseteq Int
         /\ SumOver(seen, DOMAIN seen) \in Nat
<1>1. -MaxValue \in Int /\ MaxValue \in Int
  BY DistAssumption
<1>2. IsFiniteSet(-MaxValue .. MaxValue)
  BY <1>1, FS_Interval
<1>3. IsFiniteSet(DOMAIN seen) /\ DOMAIN seen \subseteq Int
  BY <1>1, <1>2, FS_Subset DEF IsHistory
<1>4. QED
  BY <1>3, SumType DEF IsHistory

LEMMA BelowType ==
  ASSUME NEW seen, IsHistory(seen), NEW b
  PROVE  IsFiniteSet(ValuesUpTo(seen, b)) /\ Below(seen, b) \in Nat
<1>1. ValuesUpTo(seen, b) \subseteq DOMAIN seen
  BY DEF ValuesUpTo
<1>2. IsFiniteSet(ValuesUpTo(seen, b))
  BY <1>1, HistoryFinite, FS_Subset
<1>3. \A v \in ValuesUpTo(seen, b) : seen[v] \in Nat
  BY <1>1 DEF IsHistory
<1>4. QED
  BY <1>2, <1>3, SumType DEF Below

Again(seen, v) == [seen EXCEPT ![v] = @ + 1]

LEMMA AgainSeen ==
  ASSUME NEW seen, IsHistory(seen), NEW v \in DOMAIN seen
  PROVE  /\ IsHistory(Again(seen, v)) /\ DOMAIN Again(seen, v) = DOMAIN seen
         /\ SumOver(Again(seen, v), DOMAIN seen) = SumOver(seen, DOMAIN seen) + 1
<1> DEFINE new == Again(seen, v)
<1>1. DOMAIN new = DOMAIN seen
  BY DEF Again
<1>2. /\ \A w \in DOMAIN seen : seen[w] \in Nat /\ new[w] \in Nat
      /\ \A w \in DOMAIN seen \ {v} : new[w] = seen[w]
      /\ new[v] = seen[v] + 1
  BY DEF IsHistory, Again
<1> HIDE DEF new
<1>3. IsHistory(new)
  BY <1>1, <1>2 DEF IsHistory
<1>4. SumOver(new, DOMAIN seen) + seen[v] = SumOver(seen, DOMAIN seen) + new[v]
  BY <1>2, HistoryFinite, SumChange
<1>5. SumOver(new, DOMAIN seen) \in Nat /\ SumOver(seen, DOMAIN seen) \in Nat
  BY <1>1, <1>3, HistoryFinite
<1>6. SumOver(new, DOMAIN seen) = SumOver(seen, DOMAIN seen) + 1
  BY <1>2, <1>4, <1>5
<1>7. QED
  BY <1>1, <1>3, <1>6 DEF new

LEMMA AgainBelow ==
  ASSUME NEW seen, IsHistory(seen), NEW v \in DOMAIN seen, NEW b \in Int
  PROVE  Below(Again(seen, v), b) = Below(seen, b) + IF Bucket(v) <= b THEN 1 ELSE 0
<1> DEFINE new == Again(seen, v)
           S == ValuesUpTo(seen, b)
<1>1. IsHistory(new) /\ DOMAIN new = DOMAIN seen
  BY AgainSeen
<1>2. /\ \A w \in DOMAIN seen : seen[w] \in Nat /\ new[w] \in Nat
      /\ \A w \in DOMAIN seen \ {v} : new[w] = seen[w]
      /\ new[v] = seen[v] + 1
  BY DEF IsHistory, Again
<1> HIDE DEF new
<1>3. ValuesUpTo(new, b) = S /\ S \subseteq DOMAIN seen /\ (v \in S <=> Bucket(v) <= b)
  BY <1>1 DEF ValuesUpTo
<1> HIDE DEF S
<1>4. IsFiniteSet(S) /\ SumOver(seen, S) \in Nat /\ SumOver(new, S) \in Nat
  <2>1. IsFiniteSet(S) /\ Below(seen, b) \in Nat
    BY BelowType DEF S
  <2>2. Below(new, b) \in Nat
    BY <1>1, BelowType
  <2>3. QED
    BY <1>3, <2>1, <2>2 DEF Below, S
<1>5. CASE v \in S
  <2>1. SumOver(new, S) + seen[v] = SumOver(seen, S) + new[v]
    BY <1>2, <1>3, <1>4, <1>5, SumChange
  <2>2. SumOver(new, S) = SumOver(seen, S) + 1
    BY <1>2, <1>4, <2>1
  <2>3. QED
    BY <1>3, <1>5, <2>2 DEF Below, S, new
<1>6. CASE v \notin S
  <2>1. \A w \in S : seen[w] = new[w]
    BY <1>2, <1>3, <1>6
  <2>2. SumOver(seen, S) = SumOver(new, S)
    BY <1>4, <2>1, SumSame
  <2>3. QED
    BY <1>3, <1>4, <1>6, <2>2 DEF Below, S, new
<1>7. QED
  BY <1>5, <1>6

\* What a sketch says of the values it was given: no more lies below a bucket
\* than was seen there, and no less but for what was lost.
Accounts(d, seen) ==
  /\ IsDist(d) /\ IsHistory(seen)
  /\ d.count = SumOver(seen, DOMAIN seen)
  /\ \A v \in DOMAIN seen : seen[v] > 0 => v <= d.max
  /\ \A b \in Int : /\ MassUpTo(d, b) <= Below(seen, b)
                    /\ Below(seen, b) <= MassUpTo(d, b) + Lost(d)

Sketched(d, seen) == Accounts(d, seen) /\ DistBounded(d)

LEMMA InfinityType == Infinity \in Int /\ Infinity > MaxValue /\ MaxValue \in Nat
BY DistAssumption DEF Infinity

LEMMA LostType ==
  ASSUME NEW d, IsDist(d)
  PROVE  HeldMass(d) \in Nat /\ Lost(d) = d.count - HeldMass(d) /\ Lost(d) \in Int
<1>1. HeldMass(d) \in Nat
  BY MassHeld, InfinityType DEF HeldMass
<1>2. QED
  BY <1>1 DEF Lost, IsDist

LEMMA PutAccounts ==
  ASSUME NEW d, NEW seen, Accounts(d, seen), NEW v \in DOMAIN seen, NEW e, e = Put(d, v)
  PROVE  /\ Accounts(e, Again(seen, v)) /\ Lost(e) = Lost(d)
         /\ Buckets(e) \in {Buckets(d), Buckets(d) + 1}
<1> DEFINE new == Again(seen, v)
<1>0. IsDist(d) /\ IsHistory(seen) /\ v \in -MaxValue .. MaxValue /\ v \in Int /\ v <= MaxValue
  BY DistAssumption DEF Accounts, IsHistory
<1>1. /\ IsDist(e) /\ Buckets(e) \in {Buckets(d), Buckets(d) + 1}
      /\ e.count = d.count + 1 /\ e.max = IF d.max >= v THEN d.max ELSE v
      /\ \A b \in Int : MassUpTo(e, b) = MassUpTo(d, b) + IF Bucket(v) <= b THEN 1 ELSE 0
  BY <1>0, PutMass
<1>2. /\ IsHistory(new) /\ DOMAIN new = DOMAIN seen
      /\ SumOver(new, DOMAIN seen) = SumOver(seen, DOMAIN seen) + 1
  BY <1>0, AgainSeen
<1>3. Bucket(v) \in Int /\ Bucket(v) <= Infinity
  <2>1. Bucket(v) \in Int /\ (Bucket(v) <= v \/ Bucket(v) <= 0)
    BY <1>0, BucketType
  <2>2. QED
    BY <1>0, <2>1, InfinityType
<1>4. Lost(e) = Lost(d)
  <2>1. HeldMass(e) = HeldMass(d) + 1
    BY <1>1, <1>3, InfinityType DEF HeldMass
  <2>2. /\ Lost(e) = e.count - HeldMass(e) /\ Lost(d) = d.count - HeldMass(d)
        /\ HeldMass(d) \in Nat /\ d.count \in Nat
    BY <1>0, <1>1, LostType DEF IsDist
  <2>3. QED
    BY <1>1, <2>1, <2>2
<1>5. e.count = SumOver(new, DOMAIN new)
  BY <1>1, <1>2 DEF Accounts
<1>6. ASSUME NEW w \in DOMAIN new, new[w] > 0 PROVE w <= e.max
  <2>1. w \in Int /\ d.max \in Int /\ seen[w] \in Nat
    BY <1>0, <1>2, HistoryFinite DEF IsDist, IsHistory
  <2>2. CASE w = v
    BY <1>0, <1>1, <2>1, <2>2
  <2>3. CASE w # v
    <3>1. seen[w] > 0
      BY <1>2, <1>6, <2>3 DEF Again
    <3>2. w <= d.max
      BY <1>2, <3>1 DEF Accounts
    <3>3. QED
      BY <1>0, <1>1, <2>1, <3>2
  <2>4. QED
    BY <2>2, <2>3
<1>7. ASSUME NEW b \in Int
      PROVE  MassUpTo(e, b) <= Below(new, b) /\ Below(new, b) <= MassUpTo(e, b) + Lost(e)
  <2>1. Below(new, b) = Below(seen, b) + IF Bucket(v) <= b THEN 1 ELSE 0
    BY <1>0, AgainBelow
  <2>2. MassUpTo(e, b) = MassUpTo(d, b) + IF Bucket(v) <= b THEN 1 ELSE 0
    BY <1>1
  <2>3. Below(seen, b) \in Nat /\ MassUpTo(d, b) \in Nat /\ Lost(d) \in Int
    BY <1>0, BelowType, MassHeld, LostType
  <2>4. MassUpTo(d, b) <= Below(seen, b) /\ Below(seen, b) <= MassUpTo(d, b) + Lost(d)
    BY DEF Accounts
  <2>5. QED
    BY <1>4, <2>1, <2>2, <2>3, <2>4
<1>8. Accounts(e, new)
  BY <1>1, <1>2, <1>5, <1>6, <1>7 DEF Accounts
<1>9. QED
  BY <1>1, <1>4, <1>8

LEMMA EvictionAccounts ==
  ASSUME NEW d, NEW seen, Accounts(d, seen), Buckets(d) > 0, NEW e, e = EvictSmallest(d)
  PROVE  Accounts(e, seen) /\ Buckets(e) = Buckets(d) - 1
<1>0. IsDist(d) /\ IsHistory(seen)
  BY DEF Accounts
<1>1. /\ IsDist(e) /\ Buckets(e) = Buckets(d) - 1
      /\ e.count = d.count /\ e.max = d.max
      /\ \E k \in Int, c \in Nat :
           /\ k <= Infinity
           /\ \A b \in Int : MassUpTo(d, b) = MassUpTo(e, b) + IF k <= b THEN c ELSE 0
  BY <1>0, EvictionMass
<1>2. PICK k \in Int, c \in Nat :
        /\ k <= Infinity
        /\ \A b \in Int : MassUpTo(d, b) = MassUpTo(e, b) + IF k <= b THEN c ELSE 0
  BY <1>1
<1>3. Lost(e) = Lost(d) + c
  <2>1. HeldMass(d) = HeldMass(e) + c
    BY <1>2, InfinityType DEF HeldMass
  <2>2. /\ Lost(e) = e.count - HeldMass(e) /\ Lost(d) = d.count - HeldMass(d)
        /\ HeldMass(e) \in Nat /\ d.count \in Nat
    BY <1>0, <1>1, LostType DEF IsDist
  <2>3. QED
    BY <1>1, <2>1, <2>2
<1>4. ASSUME NEW b \in Int
      PROVE  MassUpTo(e, b) <= Below(seen, b) /\ Below(seen, b) <= MassUpTo(e, b) + Lost(e)
  <2>1. Below(seen, b) \in Nat /\ MassUpTo(e, b) \in Nat /\ Lost(d) \in Int
    BY <1>0, <1>1, BelowType, MassHeld, LostType
  <2>2. MassUpTo(d, b) <= Below(seen, b) /\ Below(seen, b) <= MassUpTo(d, b) + Lost(d)
    BY DEF Accounts
  <2>3. MassUpTo(d, b) = MassUpTo(e, b) + IF k <= b THEN c ELSE 0
    BY <1>2
  <2>4. QED
    BY <1>3, <2>1, <2>2, <2>3
<1>5. Accounts(e, seen)
  BY <1>1, <1>4 DEF Accounts
<1>6. QED
  BY <1>1, <1>5

LEMMA ObserveSketched ==
  ASSUME NEW d, NEW seen, Sketched(d, seen), NEW v \in DOMAIN seen
  PROVE  Sketched(DistObserve(d, v), Again(seen, v))
<1> DEFINE p == Put(d, v)
           new == Again(seen, v)
<1>0. Accounts(d, seen) /\ IsDist(d) /\ Buckets(d) \in Nat /\ Lost(d) \in Int
  BY BucketsType, LostType DEF Sketched, Accounts
<1>1. /\ Accounts(p, new) /\ Lost(p) = Lost(d)
      /\ Buckets(p) \in {Buckets(d), Buckets(d) + 1}
  BY <1>0, PutAccounts
<1>2. DistObserve(d, v) = IF Overfull(p) THEN EvictSmallest(p) ELSE p
  BY ObservedIsPut
<1> HIDE DEF p, new
<1>3. Buckets(d) <= DistCap /\ (Lost(d) > 0 => Buckets(d) = DistCap) /\ DistCap \in Nat \ {0}
  BY DistAssumption DEF Sketched, DistBounded
<1>4. CASE Overfull(p)
  <2>1. Buckets(p) = DistCap + 1
    BY <1>0, <1>1, <1>3, <1>4 DEF Overfull
  <2>2. Accounts(EvictSmallest(p), new) /\ Buckets(EvictSmallest(p)) = DistCap
    BY <1>1, <1>3, <2>1, EvictionAccounts
  <2>3. QED
    BY <1>2, <1>3, <1>4, <2>2 DEF Sketched, DistBounded, new
<1>5. CASE ~Overfull(p)
  <2>1. Buckets(p) <= DistCap /\ (Lost(p) > 0 => Buckets(p) = DistCap)
    BY <1>0, <1>1, <1>3, <1>5 DEF Overfull
  <2>2. QED
    BY <1>1, <1>2, <1>5, <2>1 DEF Sketched, DistBounded, new
<1>6. QED
  BY <1>4, <1>5

-----------------------------------------------------------------------------
(* Quantiles.                                                              *)
HeldBuckets(d) == {-i : i \in DOMAIN d.neg} \cup {0} \cup DOMAIN d.pos

LEMMA HeldBucketsFinite ==
  ASSUME NEW d, IsDist(d)
  PROVE  IsFiniteSet(HeldBuckets(d)) /\ HeldBuckets(d) \subseteq Int
<1>1. -MaxValue \in Int /\ MaxValue \in Int /\ MaxValue \in Nat
  BY DistAssumption
<1>2. IsFiniteSet(-MaxValue .. MaxValue)
  BY <1>1, FS_Interval
<1>3. DOMAIN d.neg \subseteq 1 .. MaxValue /\ DOMAIN d.pos \subseteq 1 .. MaxValue
  BY DEF IsDist, IsBuckets
<1>4. HeldBuckets(d) \subseteq -MaxValue .. MaxValue
  BY <1>1, <1>3 DEF HeldBuckets
<1>5. QED
  BY <1>1, <1>2, <1>4, FS_Subset

\* Mass is where a bucket is.
LEMMA MassHasBucket ==
  ASSUME NEW d, IsDist(d), NEW b \in Int, MassUpTo(d, b) > 0
  PROVE  \E h \in HeldBuckets(d) : h <= b /\ MassUpTo(d, h) = MassUpTo(d, b)
<1> DEFINE H == {h \in HeldBuckets(d) : h <= b}
<1>1. H \subseteq HeldBuckets(d) /\ H \subseteq Int /\ IsFiniteSet(H)
  <2>1. H \subseteq HeldBuckets(d)
    OBVIOUS
  <2>2. QED
    BY <2>1, HeldBucketsFinite, FS_Subset
<1>2. DOMAIN d.neg \subseteq Int /\ DOMAIN d.pos \subseteq Int
  BY DistAssumption DEF IsDist, IsBuckets
<1>3. CASE H = {}
  <2>1. ~(0 <= b)
    BY <1>3 DEF HeldBuckets
  <2>2. {i \in DOMAIN d.neg : -i <= b} = {}
    BY <1>3 DEF HeldBuckets
  <2>3. {i \in DOMAIN d.pos : i <= b} = {}
    BY <1>3 DEF HeldBuckets
  <2>4. MassUpTo(d, b) = 0
    BY <2>1, <2>2, <2>3, SumEmpty DEF MassUpTo
  <2>5. QED
    BY <2>4
<1>4. CASE H # {}
  <2>1. PICK m \in H : \A h \in H : h <= m
    BY <1>1, <1>4, HasLargest
  <2>2. m \in Int /\ m <= b /\ m \in HeldBuckets(d)
    BY <1>1
  <2>3. \A h \in HeldBuckets(d) : h <= b <=> h <= m
    BY <2>1, <2>2, HeldBucketsFinite
  <2>4. {i \in DOMAIN d.neg : -i <= b} = {i \in DOMAIN d.neg : -i <= m}
    BY <2>3 DEF HeldBuckets
  <2>5. {i \in DOMAIN d.pos : i <= b} = {i \in DOMAIN d.pos : i <= m}
    BY <2>3 DEF HeldBuckets
  <2>6. b >= 0 <=> m >= 0
    BY <2>2, <2>3 DEF HeldBuckets
  <2>7. MassUpTo(d, m) = MassUpTo(d, b)
    BY <2>4, <2>5, <2>6 DEF MassUpTo
  <2>8. QED
    BY <2>2, <2>7
<1>5. QED
  BY <1>3, <1>4

LEMMA RankType ==
  ASSUME NEW n \in Nat \ {0}, NEW q \in Quantiles
  PROVE  Max({1, CeilDiv(q[1] * n, q[2])}) \in 1 .. n
<1>1. CeilDiv(q[1] * n, q[2]) \in Int /\ CeilDiv(q[1] * n, q[2]) <= n
  <2>1. CASE q = <<0, 1>>
    BY <2>1 DEF CeilDiv
  <2>2. CASE q = <<1, 2>>
    BY <2>2 DEF CeilDiv
  <2>3. CASE q = <<9, 10>>
    BY <2>3 DEF CeilDiv
  <2>4. CASE q = <<99, 100>>
    BY <2>4 DEF CeilDiv
  <2>5. CASE q = <<1, 1>>
    BY <2>5 DEF CeilDiv
  <2>6. QED
    BY <2>1, <2>2, <2>3, <2>4, <2>5 DEF Quantiles
<1> DEFINE r == CeilDiv(q[1] * n, q[2])
<1> HIDE DEF r
<1>2. r \in Int /\ r <= n
  BY <1>1 DEF r
<1>3. Max({1, r}) = IF 1 >= r THEN 1 ELSE r
  BY <1>2, MinMaxOfTwo
<1>4. Max({1, r}) \in 1 .. n
  BY <1>2, <1>3
<1>5. QED
  BY <1>4 DEF r

\* The largest value seen is at or above all that was seen.
LEMMA BelowMax ==
  ASSUME NEW d, NEW seen, Accounts(d, seen)
  PROVE  Below(seen, Bucket(d.max)) = d.count
<1> DEFINE D == DOMAIN seen
           S == ValuesUpTo(seen, Bucket(d.max))
<1>1. IsHistory(seen) /\ d.max \in Int /\ d.count = SumOver(seen, D)
  BY DEF Accounts, IsDist
<1>2. S \subseteq D
  BY DEF ValuesUpTo
<1>3. ASSUME NEW v \in D \ S PROVE seen[v] = 0
  <2>1. v \in Int /\ seen[v] \in Nat
    BY <1>1, HistoryFinite DEF IsHistory
  <2>2. CASE v <= d.max
    <3>1. Bucket(v) <= Bucket(d.max)
      BY <1>1, <2>1, <2>2, BucketGrows
    <3>2. QED
      BY <3>1 DEF ValuesUpTo
  <2>3. CASE ~(v <= d.max)
    BY <2>1, <2>3 DEF Accounts
  <2>4. QED
    BY <2>2, <2>3
<1>4. IsFiniteSet(D) /\ \A v \in D : seen[v] \in Nat
  BY <1>1, HistoryFinite DEF IsHistory
<1>5. SumOver(seen, D) = SumOver(seen, S)
  <2> HIDE DEF D, S
  <2>1. QED
    BY <1>2, <1>3, <1>4, SumZeros
<1>6. QED
  BY <1>1, <1>5 DEF Below

\* A bucket that is below the answer has not reached the rank.
LEMMA AnswerHasRank ==
  ASSUME NEW d, NEW seen, Accounts(d, seen), NEW q, NEW r \in 1 .. d.count, r = Target(d, q),
         NEW a, a = Quantile(d, q)
  PROVE  a \in Int /\ Below(seen, a) >= r /\ Below(seen, a - 1) < r + Lost(d)
<1> DEFINE reached == {b \in HeldBuckets(d) : MassUpTo(d, b) >= r}
<1>1. /\ IsDist(d) /\ IsHistory(seen) /\ d.count \in Nat /\ d.max \in Int /\ Lost(d) \in Int
      /\ r \in Nat /\ r >= 1 /\ r <= d.count
  BY LostType DEF Accounts, IsDist
<1>2. a = IF reached = {} THEN Bucket(d.max) ELSE Min(reached)
  BY DEF Quantile, HeldBuckets
<1>3. reached \subseteq HeldBuckets(d) /\ reached \subseteq Int /\ IsFiniteSet(reached)
  <2>1. reached \subseteq HeldBuckets(d)
    OBVIOUS
  <2>2. QED
    BY <1>1, <2>1, HeldBucketsFinite, FS_Subset
<1>4. a \in Int /\ Below(seen, a) >= r /\ \A h \in reached : a <= h \/ reached = {}
  <2>1. CASE reached = {}
    <3>1. a \in Int
      BY <1>1, <1>2, <2>1, BucketType
    <3>2. Below(seen, a) = d.count
      BY <1>2, <2>1, BelowMax
    <3>3. QED
      BY <1>1, <2>1, <3>1, <3>2
  <2>2. CASE reached # {}
    <3>1. a \in reached /\ \A h \in reached : a <= h
      BY <1>2, <1>3, <2>2, HasLeast
    <3>2. a \in Int /\ MassUpTo(d, a) >= r
      BY <1>3, <3>1
    <3>3. MassUpTo(d, a) <= Below(seen, a) /\ MassUpTo(d, a) \in Nat /\ Below(seen, a) \in Nat
      BY <1>1, <3>2, MassHeld, BelowType DEF Accounts
    <3>4. QED
      BY <1>1, <3>1, <3>2, <3>3
  <2>3. QED
    BY <2>1, <2>2
<1> DEFINE b == a - 1
<1>5. b \in Int /\ MassUpTo(d, b) \in Nat /\ Below(seen, b) \in Nat
  BY <1>1, <1>4, MassHeld, BelowType
<1>6. MassUpTo(d, b) < r
  <2>1. SUFFICES ASSUME MassUpTo(d, b) >= r PROVE FALSE
    BY <1>1, <1>5
  <2>2. MassUpTo(d, b) > 0
    BY <1>1, <1>5, <2>1
  <2>3. PICK h \in HeldBuckets(d) : h <= b /\ MassUpTo(d, h) = MassUpTo(d, b)
    BY <1>1, <1>5, <2>2, MassHasBucket
  <2>4. h \in reached /\ h \in Int /\ h < a
    BY <1>3, <1>4, <2>1, <2>3
  <2>5. QED
    BY <1>4, <2>4
<1>7. Below(seen, b) <= MassUpTo(d, b) + Lost(d)
  BY <1>5 DEF Accounts
<1>8. Below(seen, b) < r + Lost(d)
  BY <1>1, <1>5, <1>6, <1>7
<1>9. QED
  BY <1>4, <1>8

LEMMA SketchHasRank ==
  ASSUME NEW d, NEW seen, Accounts(d, seen)
  PROVE  QuantileHasRank(d, seen)
<1> DEFINE many(vs) == SumOver(seen, vs)
           rank(q) == Max({1, CeilDiv(q[1] * many(DOMAIN seen), q[2])})
<1>1. SUFFICES ASSUME d.count > 0, NEW q \in Quantiles
               PROVE  /\ many({v \in DOMAIN seen : Bucket(v) <= Quantile(d, q)}) >= rank(q)
                      /\ many({v \in DOMAIN seen : Bucket(v) < Quantile(d, q)})
                           < rank(q) + Lost(d)
  BY DEF QuantileHasRank
<1>2. d.count \in Nat /\ d.count = many(DOMAIN seen) /\ IsHistory(seen)
  BY DEF Accounts, IsDist
<1>3. rank(q) = Target(d, q)
  BY <1>2 DEF Target
<1>4. Target(d, q) \in 1 .. d.count
  BY <1>1, <1>2, RankType DEF Target
<1> HIDE DEF rank
<1> DEFINE a == Quantile(d, q)
<1>5. a \in Int /\ Below(seen, a) >= rank(q) /\ Below(seen, a - 1) < rank(q) + Lost(d)
  BY <1>3, <1>4, AnswerHasRank
<1> HIDE DEF a
<1>6. \A v \in DOMAIN seen : Bucket(v) < a <=> Bucket(v) <= a - 1
  BY <1>2, <1>5, HistoryFinite, BucketType
<1>7. /\ {v \in DOMAIN seen : Bucket(v) <= a} = ValuesUpTo(seen, a)
      /\ {v \in DOMAIN seen : Bucket(v) < a} = ValuesUpTo(seen, a - 1)
  BY <1>6 DEF ValuesUpTo
<1>8. QED
  BY <1>5, <1>7 DEF Below, a

-----------------------------------------------------------------------------
(* Messages.                                                               *)
IsMap(f) == IsFiniteSet(DOMAIN f) /\ f = [k \in DOMAIN f |-> f[k]]

\* SetToSeq lists every element, once.
LEMMA SetListed ==
  ASSUME NEW S, IsFiniteSet(S), NEW list, list = SetToSeq(S)
  PROVE  /\ DOMAIN list = 1 .. Cardinality(S) /\ DOMAIN list \subseteq Nat
         /\ \A i \in DOMAIN list : list[i] \in S
         /\ \A i, j \in DOMAIN list : list[i] = list[j] => i = j
         /\ \A x \in S : \E i \in DOMAIN list : list[i] = x
<1> DEFINE n == Cardinality(S)
<1>1. n \in Nat
  BY FS_CardinalityType
<1>2. \E f \in [1 .. n -> S] : IsInjective(f)
  <2>1. ExistsBijection(1 .. n, S)
    BY FS_CardinalityType
  <2>2. QED
    BY <2>1 DEF ExistsBijection, Bijection, Injection
<1>3. list \in [1 .. n -> S] /\ IsInjective(list)
  BY <1>2 DEF SetToSeq
<1>4. IsFiniteSet(1 .. n) /\ Cardinality(1 .. n) = n
  BY <1>1, FS_Interval
<1>5. list \in Surjection(1 .. n, S)
  <2>1. list \in Injection(1 .. n, S)
    BY <1>3 DEF Injection
  <2>2. QED
    BY <1>4, <2>1, FS_Injection
<1>6. QED
  BY <1>1, <1>3, <1>5 DEF IsInjective, Surjection

Entry(k, x) == [key |-> k, value |-> x]
EntrySet(f) == {Entry(k, f[k]) : k \in DOMAIN f}

LEMMA EntrySetFinite ==
  ASSUME NEW f, IsMap(f)
  PROVE  IsFiniteSet(EntrySet(f))
<1> DEFINE g == [k \in DOMAIN f |-> Entry(k, f[k])]
<1>1. g \in Surjection(DOMAIN f, EntrySet(f))
  BY DEF Surjection, EntrySet
<1> HIDE DEF g
<1>2. QED
  BY <1>1, FS_Surjection DEF IsMap

\* A map that went out as a list of entries comes back.
LEMMA MapRestored ==
  ASSUME NEW f, IsMap(f)
  PROVE  FromEntries(Entries(f)) = f
<1> DEFINE list == Entries(f)
<1>1. list = SetToSeq(EntrySet(f))
  BY DEF Entries, EntrySet, Entry
<1>2. /\ DOMAIN list \subseteq Nat
      /\ \A i \in DOMAIN list : list[i] \in EntrySet(f)
      /\ \A i, j \in DOMAIN list : list[i] = list[j] => i = j
      /\ \A x \in EntrySet(f) : \E i \in DOMAIN list : list[i] = x
  BY <1>1, EntrySetFinite, SetListed
<1> HIDE DEF list
<1>3. \A i \in DOMAIN list :
        /\ list[i].key \in DOMAIN f
        /\ list[i] = Entry(list[i].key, f[list[i].key])
        /\ list[i].value = f[list[i].key]
  BY <1>2 DEF EntrySet, Entry
<1>4. ASSUME NEW k \in DOMAIN f
      PROVE  \E i \in DOMAIN list : list[i].key = k
  <2>1. Entry(k, f[k]) \in EntrySet(f) /\ Entry(k, f[k]).key = k
    BY DEF EntrySet, Entry
  <2>2. PICK i \in DOMAIN list : list[i] = Entry(k, f[k])
    BY <1>2, <2>1
  <2>3. QED
    BY <2>1, <2>2
<1>5. {list[i].key : i \in DOMAIN list} = DOMAIN f
  BY <1>3, <1>4
<1>6. ASSUME NEW k \in DOMAIN f
      PROVE  list[LastAt(list, k)].value = f[k]
  <2>1. PICK i \in DOMAIN list : list[i].key = k
    BY <1>4
  <2>2. {j \in DOMAIN list : list[j].key = k} = {i}
    BY <1>2, <1>3, <2>1
  <2>3. LastAt(list, k) = i
    BY <1>2, <2>1, <2>2 DEF LastAt, Max
  <2>4. QED
    BY <1>3, <2>1, <2>3
<1>7. FromEntries(list) = [k \in DOMAIN f |-> f[k]]
  BY <1>5, <1>6 DEF FromEntries
<1>8. QED
  BY <1>7 DEF IsMap, list

-----------------------------------------------------------------------------
(* The statistics.                                                         *)
StatsTyped ==
  /\ strings = [count |-> strings.count, minLen |-> strings.minLen, maxLen |-> strings.maxLen,
                formats |-> strings.formats, lengthBuckets |-> strings.lengthBuckets,
                lengthSketch |-> strings.lengthSketch]
  /\ IsMap(strings.formats) /\ DOMAIN strings.formats \subseteq ToSet(Format)
  /\ strings.lengthBuckets = [i \in 1 .. LenBuckets |-> strings.lengthBuckets[i]]
  /\ numbers = [count |-> numbers.count, min |-> numbers.min, max |-> numbers.max,
                negative |-> numbers.negative, zero |-> numbers.zero,
                positive |-> numbers.positive, integerValued |-> numbers.integerValued,
                sketch |-> numbers.sketch]

StatsInv ==
  /\ StatsTyped
  /\ Sketched(strings.lengthSketch, lengths) /\ DOMAIN lengths = 0 .. MaxValue
  /\ Sketched(numbers.sketch, values) /\ DOMAIN values = -MaxValue .. MaxValue

LEMMA NewSketched ==
  ASSUME NEW seen, IsHistory(seen), \A v \in DOMAIN seen : seen[v] = 0
  PROVE  Sketched(NewDist, seen)
<1>1. IsBuckets(NoBuckets) /\ DOMAIN NoBuckets = {}
  BY DEF IsBuckets, NoBuckets
<1>2. IsDist(NewDist)
  BY <1>1, InfinityType DEF IsDist, NewDist
<1>3. ASSUME NEW b \in Int PROVE MassUpTo(NewDist, b) = 0
  <2>1. /\ {i \in DOMAIN NewDist.neg : -i <= b} = {}
        /\ {i \in DOMAIN NewDist.pos : i <= b} = {}
        /\ NewDist.zero = 0
    BY <1>1 DEF NewDist
  <2>2. QED
    BY <2>1, SumEmpty DEF MassUpTo
<1>4. Lost(NewDist) = 0 /\ NewDist.count = 0
  BY <1>3, InfinityType DEF Lost, HeldMass, NewDist
<1>5. Buckets(NewDist) = 0
  BY <1>1, FS_EmptySet DEF Buckets, NewDist
<1>6. ASSUME NEW T \in SUBSET DOMAIN seen PROVE SumOver(seen, T) = 0
  <2>1. IsFiniteSet(T)
    BY HistoryFinite, FS_Subset
  <2>2. SumOver(seen, T) = SumOver(seen, {})
    BY <2>1, SumZeros
  <2>3. QED
    BY <2>2, SumEmpty
<1>7. \A b \in Int : Below(seen, b) = 0
  BY <1>6 DEF Below, ValuesUpTo
<1>8. Accounts(NewDist, seen)
  BY <1>2, <1>3, <1>4, <1>6, <1>7 DEF Accounts
<1>9. QED
  BY <1>4, <1>5, <1>8, DistAssumption DEF Sketched, DistBounded

LEMMA StatsInvInit == ValueInit => StatsInv
<1> SUFFICES ASSUME ValueInit PROVE StatsInv
  OBVIOUS
<1>1. MaxValue \in Nat
  BY DistAssumption
<1>2. /\ DOMAIN lengths = 0 .. MaxValue /\ DOMAIN values = -MaxValue .. MaxValue
      /\ \A v \in DOMAIN lengths : lengths[v] = 0
      /\ \A v \in DOMAIN values : values[v] = 0
  BY DEF ValueInit
<1>3. IsHistory(lengths) /\ IsHistory(values)
  BY <1>1, <1>2 DEF IsHistory
<1>4. strings.lengthSketch = NewDist /\ numbers.sketch = NewDist
  BY DEF ValueInit, NewStrings, NewNumbers
<1>5. Sketched(strings.lengthSketch, lengths) /\ Sketched(numbers.sketch, values)
  BY <1>2, <1>3, <1>4, NewSketched
<1>6. IsMap(NoBuckets)
  BY FS_EmptySet DEF IsMap, NoBuckets
<1>7. StatsTyped
  <2>1. DOMAIN NoBuckets = {}
    BY DEF NoBuckets
  <2>2. QED
    BY <1>6, <2>1 DEF StatsTyped, ValueInit, NewStrings, NewNumbers
<1>8. QED
  BY <1>2, <1>5, <1>7 DEF StatsInv

LEMMA BumpIsMap ==
  ASSUME NEW f, IsMap(f), NEW i
  PROVE  IsMap(Bump(f, i))
<1>1. DOMAIN Bump(f, i) = DOMAIN f \cup {i}
  BY DEF Bump
<1>2. IsFiniteSet(DOMAIN Bump(f, i))
  BY <1>1, FS_AddElement DEF IsMap
<1>3. QED
  BY <1>2 DEF IsMap, Bump

LEMMA StatsInvStep == StatsInv /\ [ValueNext]_<<vars, valueVars>> => StatsInv'
<1> SUFFICES ASSUME StatsInv, [ValueNext]_<<vars, valueVars>> PROVE StatsInv'
  OBVIOUS
<1>1. ASSUME NEW s \in Text, ObserveString(s) PROVE StatsInv'
  <2>1. s.len \in DOMAIN lengths
    BY TextAssumption DEF StatsInv
  <2>2. lengths' = Again(lengths, s.len) /\ numbers' = numbers /\ values' = values
    BY <1>1 DEF ObserveString, Again
  <2>3. strings' = StringsObserve(strings, s)
    BY <1>1 DEF ObserveString
  <2>4. /\ strings'.lengthSketch = DistObserve(strings.lengthSketch, s.len)
        /\ strings'.formats = Bump(strings.formats, s.format)
        /\ strings'.lengthBuckets
             = [strings.lengthBuckets EXCEPT ![LenBucket(s.len)] = @ + 1]
        /\ strings' = [count |-> strings'.count, minLen |-> strings'.minLen,
                       maxLen |-> strings'.maxLen, formats |-> strings'.formats,
                       lengthBuckets |-> strings'.lengthBuckets,
                       lengthSketch |-> strings'.lengthSketch]
    BY <2>3 DEF StringsObserve
  <2>5. Sketched(strings'.lengthSketch, lengths')
    <3>1. Sketched(DistObserve(strings.lengthSketch, s.len), Again(lengths, s.len))
      BY <2>1, ObserveSketched DEF StatsInv
    <3>2. QED
      BY <2>2, <2>4, <3>1
  <2>6. DOMAIN lengths' = 0 .. MaxValue
    BY <2>2 DEF Again, StatsInv
  <2>7. IsMap(strings'.formats) /\ DOMAIN strings'.formats \subseteq ToSet(Format)
    <3>1. DOMAIN strings'.formats = DOMAIN strings.formats \cup {s.format}
      BY <2>4 DEF Bump
    <3>2. QED
      BY <2>4, <3>1, BumpIsMap, TextAssumption DEF StatsInv, StatsTyped
  <2>8. strings'.lengthBuckets = [i \in 1 .. LenBuckets |-> strings'.lengthBuckets[i]]
    BY <2>4 DEF StatsInv, StatsTyped
  <2>9. QED
    BY <2>2, <2>4, <2>5, <2>6, <2>7, <2>8 DEF StatsInv, StatsTyped
<1>2. ASSUME NEW n \in Number, ObserveNumber(n) PROVE StatsInv'
  <2>1. n.halves \in DOMAIN values
    BY NumberAssumption DEF StatsInv
  <2>2. values' = Again(values, n.halves) /\ strings' = strings /\ lengths' = lengths
    BY <1>2 DEF ObserveNumber, Again
  <2>3. numbers' = NumbersObserve(numbers, n)
    BY <1>2 DEF ObserveNumber
  <2>4. /\ numbers'.sketch = DistObserve(numbers.sketch, n.halves)
        /\ numbers' = [count |-> numbers'.count, min |-> numbers'.min, max |-> numbers'.max,
                       negative |-> numbers'.negative, zero |-> numbers'.zero,
                       positive |-> numbers'.positive,
                       integerValued |-> numbers'.integerValued, sketch |-> numbers'.sketch]
    BY <2>3 DEF NumbersObserve, StatsInv, StatsTyped
  <2>5. Sketched(numbers'.sketch, values')
    <3>1. Sketched(DistObserve(numbers.sketch, n.halves), Again(values, n.halves))
      BY <2>1, ObserveSketched DEF StatsInv
    <3>2. QED
      BY <2>2, <2>4, <3>1
  <2>6. DOMAIN values' = -MaxValue .. MaxValue
    BY <2>2 DEF Again, StatsInv
  <2>7. QED
    BY <2>2, <2>4, <2>5, <2>6 DEF StatsInv, StatsTyped
<1>3. CASE UNCHANGED <<vars, valueVars>>
  BY <1>3 DEF valueVars, StatsInv, StatsTyped
<1>4. QED
  BY <1>1, <1>2, <1>3 DEF ValueNext

\* The inductive invariant of the statistics of one field: whatever the values,
\* what a sketch has in its buckets falls short of what was seen below them by
\* no more than was evicted.
THEOREM StatsInvariant == ValueSpec => []StatsInv
BY StatsInvInit, StatsInvStep, PTL DEF ValueSpec

LEMMA SketchesHaveRank == StatsInv => QuantilesHaveRank
BY SketchHasRank DEF StatsInv, Sketched, QuantilesHaveRank

\* Over any stream of values, with any number and width of buckets, at least the
\* rank asked for lies at or below a percentile, and what lies below it exceeds
\* the rank by no more than was evicted; nothing is evicted before the sketch is
\* full, and it never outgrows its bound.
THEOREM QuantilesHaveRankHolds == ValueSpec => []QuantilesHaveRank
BY StatsInvariant, SketchesHaveRank, PTL

LEMMA SketchRestored ==
  ASSUME NEW d, IsDist(d)
  PROVE  DistFrom(DistMessage(Capped(d))) = Capped(d)
<1>1. IsMap(d.pos) /\ IsMap(d.neg)
  BY BucketsFinite DEF IsDist, IsBuckets, IsMap
<1>2. FromEntries(Entries(d.pos)) = d.pos /\ FromEntries(Entries(d.neg)) = d.neg
  BY <1>1, MapRestored
<1>3. QED
  BY <1>2 DEF DistFrom, DistMessage, Capped

LEMMA TableRestored ==
  ASSUME TypeOK
  PROVE  TableFrom(TableMessage(StringStats.skeletons)) = StringStats.skeletons
<1>1. IsMap(table.counters)
  BY KeyAssumption, FS_Subset DEF TypeOK, Held, IsMap
<1>2. FromEntries(Entries(table.counters)) = table.counters
  BY <1>1, MapRestored
<1>3. QED
  BY <1>2 DEF TableFrom, TableMessage, StringStats

\* No two formats have one number.
LEMMA FormatsApart ==
  /\ DOMAIN Format = 1 .. 11 /\ ToSet(Format) = {Format[n] : n \in 1 .. 11}
  /\ \A m, n \in 1 .. 11 : Format[m] = Format[n] => m = n
<1>1. DOMAIN Format = 1 .. 11
  BY DEF Format
<1>2. \A m, n \in 1 .. 11 : Format[m] = Format[n] => m = n
  BY DEF Format
<1>3. QED
  BY <1>1, <1>2 DEF ToSet

LEMMA FormatsRestored ==
  ASSUME NEW f, IsMap(f), DOMAIN f \subseteq ToSet(Format)
  PROVE  FormatsFrom(FormatsMessage(f)) = f
<1> DEFINE S == {i \in DOMAIN Format : Format[i] \in DOMAIN f}
           g == [n \in S |-> f[Format[n]]]
<1>1. S \subseteq 1 .. 11 /\ IsFiniteSet(1 .. 11)
  <2>1. S \subseteq 1 .. 11
    BY FormatsApart
  <2>2. 1 \in Int /\ 11 \in Int
    OBVIOUS
  <2>3. IsFiniteSet(1 .. 11)
    BY <2>2, FS_Interval, Zenon
  <2>4. QED
    BY <2>1, <2>3
<1>2. IsMap(g)
  BY <1>1, FS_Subset DEF IsMap
<1>3. FromEntries(FormatsMessage(f)) = g
  BY <1>2, MapRestored DEF FormatsMessage
<1>4. {Format[n] : n \in DOMAIN Format \cap S} = DOMAIN f
  BY FormatsApart
<1>5. \A n \in S : FormatNumber(Format[n]) = n
  BY FormatsApart DEF FormatNumber
<1>6. \A x \in DOMAIN f : g[FormatNumber(x)] = f[x]
  BY <1>4, <1>5
<1>7. FormatsFrom(FormatsMessage(f)) = [x \in DOMAIN f |-> f[x]]
  <2>1. DOMAIN g = S
    OBVIOUS
  <2> HIDE DEF g, S
  <2>2. QED
    BY <1>3, <1>4, <1>6, <2>1 DEF FormatsFrom
<1>8. QED
  BY <1>7 DEF IsMap

LEMMA StatsComeBack == StatsInv /\ TypeOK => StatsRestored
<1> SUFFICES ASSUME StatsInv, TypeOK PROVE StatsRestored
  OBVIOUS
<1>1. /\ DistFrom(DistMessage(Capped(strings.lengthSketch))) = Capped(strings.lengthSketch)
      /\ DistFrom(DistMessage(Capped(numbers.sketch))) = Capped(numbers.sketch)
  BY SketchRestored DEF StatsInv, Sketched, Accounts
<1>2. FormatsFrom(FormatsMessage(strings.formats)) = strings.formats
  BY FormatsRestored DEF StatsInv, StatsTyped
<1>3. TableFrom(TableMessage(StringStats.skeletons)) = StringStats.skeletons
  BY TableRestored
<1>4. strings.lengthBuckets = [i \in 1 .. LenBuckets |-> strings.lengthBuckets[i]]
  BY DEF StatsInv, StatsTyped
<1>5. StringsFrom(StringsMessage(StringStats)) = StringStats
  BY <1>1, <1>2, <1>3, <1>4 DEF StringsFrom, StringsMessage, StringStats
<1>6. NumbersFrom(NumbersMessage(NumericStats)) = NumericStats
  BY <1>1 DEF NumbersFrom, NumbersMessage, NumericStats
<1>7. QED
  BY <1>5, <1>6 DEF StatsRestored

\* The statistics of any field that are read from a snapshot are those that were
\* written, with all that they have evicted, their caps and their formats.
THEOREM StatsRestoredHolds == ValueSpec => []StatsRestored
<1>1. Spec => []TypeOK
  BY TypeCorrect, PTL
<1>2. QED
  BY <1>1, ImplementsSketch, StatsInvariant, StatsComeBack, PTL
=============================================================================
