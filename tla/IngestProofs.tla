---------------------------- MODULE IngestProofs ----------------------------
(***************************************************************************)
(* The analyzer under its driver, for any keys, caps and bounds: no event  *)
(* meets a state in which it panics, and every reference in the arena      *)
(* points into it; the arena is a tree, whose nodes were seen within the   *)
(* documents of their parents; and an overflow node is used only after its *)
(* view has given up, which it does when it is full.  The last part shows  *)
(* that the arena implements the table of module Paths.                    *)
(***************************************************************************)
EXTENDS IngestByPath, TLAPS, SequenceTheorems, FiniteSetTheorems

-----------------------------------------------------------------------------
(* Sequences of whatever.  Signatures nest without bound, so there is no   *)
(* set that the elements of the stack are taken from.                      *)
Sequence(s) == \E S : s \in Seq(S)

LEMMA SequenceLen ==
  ASSUME NEW s, Sequence(s)
  PROVE  Len(s) \in Nat /\ DOMAIN s = 1 .. Len(s)
<1>1. PICK S : s \in Seq(S)
  BY DEF Sequence
<1>2. QED
  BY <1>1, LenProperties

LEMMA SequenceEmpty ==
  /\ Sequence(<<>>) /\ Len(<<>>) = 0
  /\ \A s : Sequence(s) => (s = <<>> <=> Len(s) = 0)
<1>1. <<>> \in Seq({}) /\ Len(<<>>) = 0
  BY EmptySeq
<1>2. ASSUME NEW s, Sequence(s)
      PROVE  s = <<>> <=> Len(s) = 0
  <2>1. PICK S : s \in Seq(S)
    BY <1>2 DEF Sequence
  <2>2. QED
    BY <1>1, <2>1, EmptySeq
<1>3. QED
  BY <1>1, <1>2 DEF Sequence

LEMMA SequenceAppend ==
  ASSUME NEW s, Sequence(s), NEW e
  PROVE  /\ Sequence(Append(s, e)) /\ Len(Append(s, e)) = Len(s) + 1
         /\ \A i \in 1 .. Len(s) : Append(s, e)[i] = s[i]
         /\ Append(s, e)[Len(s) + 1] = e
<1>1. PICK S : s \in Seq(S)
  BY DEF Sequence
<1>2. s \in Seq(S \cup {e})
  BY <1>1, SeqMonotonic
<1>3. Append(s, e) \in Seq(S \cup {e})
  BY <1>2
<1>4. QED
  BY <1>2, <1>3, AppendProperties DEF Sequence

\* A function on the places of a sequence is a sequence.
LEMMA SequenceSame ==
  ASSUME NEW s, Sequence(s), NEW b, b = [i \in DOMAIN s |-> b[i]]
  PROVE  Sequence(b) /\ Len(b) = Len(s) /\ DOMAIN b = DOMAIN s
<1> DEFINE S == {b[i] : i \in DOMAIN s}
<1>1. Len(s) \in Nat /\ DOMAIN s = 1 .. Len(s)
  BY SequenceLen
<1>2. b \in [1 .. Len(s) -> S]
  BY <1>1
<1>3. b \in Seq(S)
  BY <1>1, <1>2, SeqDef
<1>4. Len(b) \in Nat /\ DOMAIN b = 1 .. Len(b)
  BY <1>3, LenProperties
<1>5. DOMAIN b = 1 .. Len(s)
  BY <1>2
<1>6. Len(b) = Len(s)
  BY <1>1, <1>4, <1>5
<1>7. QED
  BY <1>1, <1>3, <1>4, <1>6 DEF Sequence

LEMMA SequencePop ==
  ASSUME NEW s, Sequence(s), s # <<>>
  PROVE  /\ Len(s) >= 1
         /\ Sequence(Pop(s)) /\ Len(Pop(s)) = Len(s) - 1
         /\ \A i \in 1 .. Len(s) - 1 : Pop(s)[i] = s[i]
<1>1. PICK S : s \in Seq(S)
  BY DEF Sequence
<1>2. Len(s) \in Nat /\ Len(s) >= 1
  BY <1>1, EmptySeq
<1>3. \A i \in 1 .. Len(s) - 1 : s[i] \in S
  BY <1>1, <1>2, ElementOfSeq
<1> DEFINE n == Len(s) - 1
<1>4. n \in Int /\ (1 <= n \/ n = 0) /\ n - 1 + 1 = n
  <2>1. \A m \in Nat : m >= 1 => m - 1 \in Int /\ (1 <= m - 1 \/ m - 1 = 0) /\ m - 1 - 1 + 1 = m - 1
    OBVIOUS
  <2>2. QED
    BY <1>2, <2>1, Zenon
<1>5. /\ SubSeq(s, 1, n) \in Seq(S)
      /\ Len(SubSeq(s, 1, n)) = IF 1 <= n THEN n - 1 + 1 ELSE 0
      /\ \A i \in 1 .. n - 1 + 1 : SubSeq(s, 1, n)[i] = s[1 + i - 1]
  <2> HIDE DEF n
  <2>1. \A i \in 1 .. n : s[i] \in S
    BY <1>3 DEF n
  <2>2. QED
    BY <1>4, <2>1, SubSeqProperties
<1>6. Len(SubSeq(s, 1, n)) = n
  BY <1>4, <1>5
<1>7. \A i \in 1 .. n : 1 + i - 1 = i
  OBVIOUS
<1>8. \A i \in 1 .. n : SubSeq(s, 1, n)[i] = s[i]
  BY <1>4, <1>5, <1>7
<1>9. QED
  BY <1>2, <1>5, <1>6, <1>8 DEF Pop, Sequence

-----------------------------------------------------------------------------
(* The arena.                                                              *)
Ref(n) == 2 .. n   \* what a node of an arena of n nodes may refer to

IsObject(o, n) ==
  /\ DOMAIN o = {"obs", "fields", "recordAlive", "mapValue", "keyCountSum", "keyStats", "keyCounts"}
  /\ o.mapValue \in Ref(n) \cup {None}
  /\ \A k \in DOMAIN o.fields : o.fields[k] \in Ref(n)

IsArray(a, n) ==
  /\ DOMAIN a = {"obs", "positional", "positionalAlive", "bagValue", "lengthSum", "lengths", "cluster"}
  /\ a.bagValue \in Ref(n) \cup {None}
  /\ Sequence(a.positional)
  /\ \A i \in DOMAIN a.positional : a.positional[i] \in Ref(n)

IsNode(v, n) ==
  /\ DOMAIN v = {"obs", "firstDoc", "lastDoc", "scalars", "object", "array"}
  /\ IsObject(v.object, n)
  /\ IsArray(v.array, n)

IsArena(ar) ==
  /\ Sequence(ar) /\ Len(ar) >= 1
  /\ \A t \in DOMAIN ar : IsNode(ar[t], Len(ar))

\* An accumulator that exists goes on existing.
Keeps(v, w) == (HasObject(v) => HasObject(w)) /\ (HasArray(v) => HasArray(w))

\* br is an arena that ar may become.
Grows(ar, br) ==
  /\ IsArena(br) /\ Len(ar) <= Len(br)
  /\ \A t \in DOMAIN ar : Keeps(ar[t], br[t])

LEMMA ArenaLen ==
  ASSUME NEW ar, IsArena(ar)
  PROVE  Len(ar) \in Nat /\ Len(ar) >= 1 /\ DOMAIN ar = 1 .. Len(ar) /\ Root \in DOMAIN ar
<1>1. Len(ar) \in Nat /\ DOMAIN ar = 1 .. Len(ar) /\ Len(ar) >= 1
  BY SequenceLen DEF IsArena
<1>2. QED
  BY <1>1 DEF Root

LEMMA NodeLater ==
  ASSUME NEW n \in Nat, NEW m \in Nat, n <= m, NEW v, IsNode(v, n)
  PROVE  IsNode(v, m)
<1>1. Ref(n) \subseteq Ref(m)
  BY DEF Ref
<1>2. QED
  BY <1>1 DEF IsNode, IsObject, IsArray

LEMMA GrowsSame == \A ar : IsArena(ar) => Grows(ar, ar)
<1>1. TAKE ar
<1>2. HAVE IsArena(ar)
<1>3. Len(ar) <= Len(ar)
  BY <1>2, ArenaLen
<1>4. QED
  BY <1>2, <1>3 DEF Grows, Keeps

LEMMA GrowsOn ==
  ASSUME NEW ar, IsArena(ar), NEW br, Grows(ar, br), NEW cr, Grows(br, cr)
  PROVE  Grows(ar, cr)
<1>1. IsArena(br) /\ IsArena(cr) /\ Len(ar) <= Len(br) /\ Len(br) <= Len(cr)
  BY DEF Grows
<1>2. /\ Len(ar) \in Nat /\ DOMAIN ar = 1 .. Len(ar)
      /\ Len(br) \in Nat /\ DOMAIN br = 1 .. Len(br)
      /\ Len(cr) \in Nat
  BY <1>1, ArenaLen
<1>3. Len(ar) <= Len(cr) /\ DOMAIN ar \subseteq DOMAIN br
  BY <1>1, <1>2
<1>4. QED
  BY <1>1, <1>3 DEF Grows, Keeps

LEMMA GrowsDomain ==
  ASSUME NEW ar, IsArena(ar), NEW br, Grows(ar, br)
  PROVE  DOMAIN ar \subseteq DOMAIN br
<1>1. /\ Len(ar) \in Nat /\ DOMAIN ar = 1 .. Len(ar)
      /\ Len(br) \in Nat /\ DOMAIN br = 1 .. Len(br) /\ Len(ar) <= Len(br)
  BY ArenaLen DEF Grows
<1>2. QED
  BY <1>1

\* One node is replaced by one that keeps its accumulators.
LEMMA ReplaceGrows ==
  ASSUME NEW ar, IsArena(ar), NEW t \in DOMAIN ar, NEW b,
         b = [u \in DOMAIN ar |-> IF u = t THEN b[t] ELSE ar[u]],
         IsNode(b[t], Len(ar)), Keeps(ar[t], b[t])
  PROVE  Grows(ar, b) /\ Len(b) = Len(ar) /\ DOMAIN b = DOMAIN ar
<1>1. b = [u \in DOMAIN ar |-> b[u]]
  OBVIOUS
<1>2. Sequence(b) /\ Len(b) = Len(ar) /\ DOMAIN b = DOMAIN ar
  BY <1>1, SequenceSame DEF IsArena
<1>3. \A u \in DOMAIN b : IsNode(b[u], Len(b)) /\ Keeps(ar[u], b[u])
  BY <1>2 DEF IsArena, Keeps
<1>4. Len(ar) \in Nat /\ Len(ar) >= 1
  BY ArenaLen
<1>5. QED
  BY <1>2, <1>3, <1>4 DEF Grows, IsArena

LEMMA NewNodeIsNode == \A n \in Nat : IsNode(NewNode, n)
<1>1. TAKE n \in Nat
<1>2. Sequence(<<>>) /\ DOMAIN <<>> = {}
  BY SequenceEmpty
<1>3. IsObject(NewObject(None), n)
  BY DEF IsObject, NewObject
<1>4. IsArray(NewArray(None), n)
  BY <1>2 DEF IsArray, NewArray
<1>5. QED
  BY <1>3, <1>4 DEF IsNode, NewNode

LEMMA AllocGrows ==
  ASSUME NEW ar, IsArena(ar)
  PROVE  /\ Grows(ar, Alloc(ar)) /\ Len(Alloc(ar)) = FreshId(ar)
         /\ FreshId(ar) \in Ref(Len(Alloc(ar)))
         /\ \A t \in DOMAIN ar : Alloc(ar)[t] = ar[t]
<1>1. Len(ar) \in Nat /\ Len(ar) >= 1 /\ DOMAIN ar = 1 .. Len(ar) /\ Sequence(ar)
  BY ArenaLen DEF IsArena
<1>2. /\ Sequence(Alloc(ar)) /\ Len(Alloc(ar)) = Len(ar) + 1
      /\ \A t \in DOMAIN ar : Alloc(ar)[t] = ar[t]
      /\ Alloc(ar)[Len(ar) + 1] = NewNode
  BY <1>1, SequenceAppend DEF Alloc
<1>3. /\ Len(Alloc(ar)) \in Nat /\ Len(ar) <= Len(Alloc(ar)) /\ Len(Alloc(ar)) >= 1
      /\ Len(ar) + 1 \in Ref(Len(ar) + 1)
  BY <1>1, <1>2 DEF Ref
<1>4. DOMAIN Alloc(ar) = DOMAIN ar \cup {Len(ar) + 1}
  <2>1. DOMAIN Alloc(ar) = 1 .. Len(ar) + 1
    BY <1>2, SequenceLen
  <2>2. QED
    BY <1>1, <2>1
<1>5. \A t \in DOMAIN Alloc(ar) : IsNode(Alloc(ar)[t], Len(Alloc(ar)))
  <2>1. TAKE t \in DOMAIN Alloc(ar)
  <2>2. CASE t \in DOMAIN ar
    BY <1>1, <1>2, <1>3, <2>2, NodeLater DEF IsArena
  <2>3. CASE t = Len(ar) + 1
    BY <1>2, <1>3, <2>3, NewNodeIsNode
  <2>4. QED
    BY <1>4, <2>2, <2>3
<1>6. QED
  BY <1>2, <1>3, <1>5 DEF Grows, IsArena, FreshId, Keeps

\* Only counters of a node change.
SameRefs(v, w) ==
  /\ DOMAIN w = DOMAIN v
  /\ DOMAIN w.object = DOMAIN v.object
  /\ w.object.mapValue = v.object.mapValue /\ w.object.fields = v.object.fields
  /\ DOMAIN w.array = DOMAIN v.array
  /\ w.array.bagValue = v.array.bagValue /\ w.array.positional = v.array.positional

LEMMA CountGrows ==
  ASSUME NEW ar, IsArena(ar), NEW t \in DOMAIN ar, NEW b,
         b = [u \in DOMAIN ar |-> IF u = t THEN b[t] ELSE ar[u]],
         SameRefs(ar[t], b[t])
  PROVE  /\ Grows(ar, b) /\ Len(b) = Len(ar) /\ DOMAIN b = DOMAIN ar
         /\ HasObject(b[t]) = HasObject(ar[t]) /\ HasArray(b[t]) = HasArray(ar[t])
<1>1. IsNode(b[t], Len(ar))
  BY DEF IsArena, IsNode, IsObject, IsArray, SameRefs
<1>2. HasObject(b[t]) = HasObject(ar[t]) /\ HasArray(b[t]) = HasArray(ar[t])
  BY DEF HasObject, HasArray, SameRefs
<1>3. QED
  BY <1>1, <1>2, ReplaceGrows DEF Keeps

LEMMA ObsAtGrows ==
  ASSUME NEW ar, IsArena(ar), NEW t \in DOMAIN ar
  PROVE  Grows(ar, ObsAt(ar, t)) /\ DOMAIN ObsAt(ar, t) = DOMAIN ar
<1> DEFINE b == ObsAt(ar, t)
<1>1. IsNode(ar[t], Len(ar))
  BY DEF IsArena
<1>2. b = [u \in DOMAIN ar |-> IF u = t THEN b[t] ELSE ar[u]]
  BY DEF ObsAt
<1>3. SameRefs(ar[t], b[t])
  BY <1>1 DEF ObsAt, IsNode, SameRefs
<1> HIDE DEF b
<1>4. Grows(ar, b) /\ DOMAIN b = DOMAIN ar
  BY <1>2, <1>3, CountGrows
<1>5. QED
  BY <1>4 DEF b

LEMMA ScalarsGrow ==
  ASSUME NEW ar, IsArena(ar), NEW t \in DOMAIN ar, NEW kind
  PROVE  Grows(ar, [ar EXCEPT ![t].scalars[kind] = @ + 1])
<1> DEFINE b == [ar EXCEPT ![t].scalars[kind] = @ + 1]
<1>1. IsNode(ar[t], Len(ar))
  BY DEF IsArena
<1>2. b = [u \in DOMAIN ar |-> IF u = t THEN b[t] ELSE ar[u]]
  OBVIOUS
<1>3. SameRefs(ar[t], b[t])
  BY <1>1 DEF IsNode, SameRefs
<1> HIDE DEF b
<1>4. Grows(ar, b) /\ DOMAIN b = DOMAIN ar
  BY <1>2, <1>3, CountGrows
<1>5. QED
  BY <1>4 DEF b

LEMMA ObjectObsGrow ==
  ASSUME NEW ar, IsArena(ar), NEW t \in DOMAIN ar, HasObject(ar[t])
  PROVE  LET b == [ar EXCEPT ![t].object.obs = @ + 1]
         IN Grows(ar, b) /\ DOMAIN b = DOMAIN ar /\ HasObject(b[t])
<1> DEFINE b == [ar EXCEPT ![t].object.obs = @ + 1]
<1>1. IsNode(ar[t], Len(ar))
  BY DEF IsArena
<1>2. b = [u \in DOMAIN ar |-> IF u = t THEN b[t] ELSE ar[u]]
  OBVIOUS
<1>3. SameRefs(ar[t], b[t])
  BY <1>1 DEF IsNode, IsObject, SameRefs
<1> HIDE DEF b
<1>4. Grows(ar, b) /\ DOMAIN b = DOMAIN ar /\ HasObject(b[t])
  BY <1>2, <1>3, CountGrows
<1>5. QED
  BY <1>4 DEF b

LEMMA LengthsGrow ==
  ASSUME NEW ar, IsArena(ar), NEW t \in DOMAIN ar, NEW n
  PROVE  Grows(ar, [ar EXCEPT ![t].array.lengthSum = @ + n, ![t].array.lengths = Tick(@, n)])
<1> DEFINE b == [ar EXCEPT ![t].array.lengthSum = @ + n, ![t].array.lengths = Tick(@, n)]
<1>1. IsNode(ar[t], Len(ar))
  BY DEF IsArena
<1>2. b = [u \in DOMAIN ar |-> IF u = t THEN b[t] ELSE ar[u]]
  OBVIOUS
<1>3. SameRefs(ar[t], b[t])
  BY <1>1 DEF IsNode, IsArray, SameRefs
<1> HIDE DEF b
<1>4. Grows(ar, b)
  BY <1>2, <1>3, CountGrows
<1>5. QED
  BY <1>4 DEF b

LEMMA EnsureObjectGrows ==
  ASSUME NEW ar, IsArena(ar), NEW t \in DOMAIN ar
  PROVE  Grows(ar, EnsureObject(ar, t)) /\ HasObject(EnsureObject(ar, t)[t])
<1>1. CASE HasObject(ar[t])
  BY <1>1, GrowsSame DEF EnsureObject
<1>2. CASE ~HasObject(ar[t])
  <2> DEFINE al == Alloc(ar)
             b == [al EXCEPT ![t].object = NewObject(FreshId(ar))]
  <2>1. /\ Grows(ar, al) /\ IsArena(al) /\ Len(al) = FreshId(ar) /\ FreshId(ar) \in Ref(Len(al))
        /\ t \in DOMAIN al /\ al[t] = ar[t]
    BY AllocGrows, GrowsDomain DEF Grows
  <2> HIDE DEF al
  <2>2. b = [u \in DOMAIN al |-> IF u = t THEN b[t] ELSE al[u]]
    OBVIOUS
  <2>3. IsNode(al[t], Len(al))
    BY <2>1 DEF IsArena
  <2>4. /\ DOMAIN b[t] = DOMAIN al[t] /\ b[t].object = NewObject(FreshId(ar))
        /\ b[t].array = al[t].array
    BY <2>1, <2>3 DEF IsNode
  <2> HIDE DEF b
  <2>5. IsObject(NewObject(FreshId(ar)), Len(al))
    BY <2>1 DEF IsObject, NewObject
  <2>6. FreshId(ar) # None
    BY <2>1, ArenaLen, NoneAssumption DEF Ref
  <2>7. IsNode(b[t], Len(al)) /\ HasObject(b[t]) /\ Keeps(al[t], b[t])
    BY <2>3, <2>4, <2>5, <2>6 DEF IsNode, HasObject, HasArray, Keeps, NewObject
  <2>8. Grows(al, b)
    BY <2>1, <2>2, <2>7, ReplaceGrows
  <2>9. Grows(ar, b)
    BY <2>1, <2>8, GrowsOn
  <2>10. EnsureObject(ar, t) = b
    BY <1>2 DEF EnsureObject, b, al
  <2>11. QED
    BY <2>7, <2>9, <2>10
<1>3. QED
  BY <1>1, <1>2

LEMMA KeyCountSumGrows ==
  ASSUME NEW ar, IsArena(ar), NEW t \in DOMAIN ar, NEW key
  PROVE  Grows(ar, [ar EXCEPT ![t].object.keyCountSum = @ + 1, ![t].object.keyStats = Tick(@, key)])
<1> DEFINE b == [ar EXCEPT ![t].object.keyCountSum = @ + 1, ![t].object.keyStats = Tick(@, key)]
<1>1. IsNode(ar[t], Len(ar))
  BY DEF IsArena
<1>2. b = [u \in DOMAIN ar |-> IF u = t THEN b[t] ELSE ar[u]]
  OBVIOUS
<1>3. SameRefs(ar[t], b[t])
  BY <1>1 DEF IsNode, IsObject, SameRefs
<1> HIDE DEF b
<1>4. Grows(ar, b)
  BY <1>2, <1>3, CountGrows
<1>5. QED
  BY <1>4 DEF b

LEMMA KeyCountsGrow ==
  ASSUME NEW ar, IsArena(ar), NEW t \in DOMAIN ar, NEW n
  PROVE  Grows(ar, [ar EXCEPT ![t].object.keyCounts = Tick(@, n)])
<1> DEFINE b == [ar EXCEPT ![t].object.keyCounts = Tick(@, n)]
<1>1. IsNode(ar[t], Len(ar))
  BY DEF IsArena
<1>2. b = [u \in DOMAIN ar |-> IF u = t THEN b[t] ELSE ar[u]]
  OBVIOUS
<1>3. SameRefs(ar[t], b[t])
  BY <1>1 DEF IsNode, IsObject, SameRefs
<1> HIDE DEF b
<1>4. Grows(ar, b)
  BY <1>2, <1>3, CountGrows
<1>5. QED
  BY <1>4 DEF b

LEMMA ClusterGrows ==
  ASSUME NEW ar, IsArena(ar), NEW t \in DOMAIN ar, NEW table
  PROVE  Grows(ar, [ar EXCEPT ![t].array.cluster = table])
<1> DEFINE b == [ar EXCEPT ![t].array.cluster = table]
<1>1. IsNode(ar[t], Len(ar))
  BY DEF IsArena
<1>2. b = [u \in DOMAIN ar |-> IF u = t THEN b[t] ELSE ar[u]]
  OBVIOUS
<1>3. SameRefs(ar[t], b[t])
  BY <1>1 DEF IsNode, IsArray, SameRefs
<1> HIDE DEF b
<1>4. Grows(ar, b)
  BY <1>2, <1>3, CountGrows
<1>5. QED
  BY <1>4 DEF b

LEMMA RecordRetires ==
  ASSUME NEW ar, IsArena(ar), NEW t \in DOMAIN ar
  PROVE  Grows(ar, [ar EXCEPT ![t].object.recordAlive = FALSE])
<1> DEFINE b == [ar EXCEPT ![t].object.recordAlive = FALSE]
<1>1. IsNode(ar[t], Len(ar))
  BY DEF IsArena
<1>2. b = [u \in DOMAIN ar |-> IF u = t THEN b[t] ELSE ar[u]]
  OBVIOUS
<1>3. SameRefs(ar[t], b[t])
  BY <1>1 DEF IsNode, IsObject, SameRefs
<1> HIDE DEF b
<1>4. Grows(ar, b)
  BY <1>2, <1>3, CountGrows
<1>5. QED
  BY <1>4 DEF b

LEMMA PositionsRetire ==
  ASSUME NEW ar, IsArena(ar), NEW t \in DOMAIN ar
  PROVE  Grows(ar, [ar EXCEPT ![t].array.positionalAlive = FALSE])
<1> DEFINE b == [ar EXCEPT ![t].array.positionalAlive = FALSE]
<1>1. IsNode(ar[t], Len(ar))
  BY DEF IsArena
<1>2. b = [u \in DOMAIN ar |-> IF u = t THEN b[t] ELSE ar[u]]
  OBVIOUS
<1>3. SameRefs(ar[t], b[t])
  BY <1>1 DEF IsNode, IsArray, SameRefs
<1> HIDE DEF b
<1>4. Grows(ar, b)
  BY <1>2, <1>3, CountGrows
<1>5. QED
  BY <1>4 DEF b

LEMMA ArrayObsGrow ==
  ASSUME NEW ar, IsArena(ar), NEW t \in DOMAIN ar, HasArray(ar[t])
  PROVE  LET b == [ar EXCEPT ![t].array.obs = @ + 1]
         IN Grows(ar, b) /\ DOMAIN b = DOMAIN ar /\ HasArray(b[t])
<1> DEFINE b == [ar EXCEPT ![t].array.obs = @ + 1]
<1>1. IsNode(ar[t], Len(ar))
  BY DEF IsArena
<1>2. b = [u \in DOMAIN ar |-> IF u = t THEN b[t] ELSE ar[u]]
  OBVIOUS
<1>3. SameRefs(ar[t], b[t])
  BY <1>1 DEF IsNode, IsArray, SameRefs
<1> HIDE DEF b
<1>4. Grows(ar, b) /\ DOMAIN b = DOMAIN ar /\ HasArray(b[t])
  BY <1>2, <1>3, CountGrows
<1>5. QED
  BY <1>4 DEF b

LEMMA EnsureArrayGrows ==
  ASSUME NEW ar, IsArena(ar), NEW t \in DOMAIN ar
  PROVE  Grows(ar, EnsureArray(ar, t)) /\ HasArray(EnsureArray(ar, t)[t])
<1>1. CASE HasArray(ar[t])
  BY <1>1, GrowsSame DEF EnsureArray
<1>2. CASE ~HasArray(ar[t])
  <2> DEFINE al == Alloc(ar)
             b == [al EXCEPT ![t].array = NewArray(FreshId(ar))]
  <2>1. /\ Grows(ar, al) /\ IsArena(al) /\ Len(al) = FreshId(ar) /\ FreshId(ar) \in Ref(Len(al))
        /\ t \in DOMAIN al /\ al[t] = ar[t]
    BY AllocGrows, GrowsDomain DEF Grows
  <2> HIDE DEF al
  <2>2. b = [u \in DOMAIN al |-> IF u = t THEN b[t] ELSE al[u]]
    OBVIOUS
  <2>3. IsNode(al[t], Len(al))
    BY <2>1 DEF IsArena
  <2>4. /\ DOMAIN b[t] = DOMAIN al[t] /\ b[t].array = NewArray(FreshId(ar))
        /\ b[t].object = al[t].object
    BY <2>1, <2>3 DEF IsNode
  <2> HIDE DEF b
  <2>5. IsArray(NewArray(FreshId(ar)), Len(al))
    BY <2>1, SequenceEmpty DEF IsArray, NewArray
  <2>6. FreshId(ar) # None
    BY <2>1, ArenaLen, NoneAssumption DEF Ref
  <2>7. IsNode(b[t], Len(al)) /\ HasArray(b[t]) /\ Keeps(al[t], b[t])
    BY <2>3, <2>4, <2>5, <2>6 DEF IsNode, HasObject, HasArray, Keeps, NewArray
  <2>8. Grows(al, b)
    BY <2>1, <2>2, <2>7, ReplaceGrows
  <2>9. Grows(ar, b)
    BY <2>1, <2>8, GrowsOn
  <2>10. EnsureArray(ar, t) = b
    BY <1>2 DEF EnsureArray, b, al
  <2>11. QED
    BY <2>7, <2>9, <2>10
<1>3. QED
  BY <1>1, <1>2

\* The node for an item is in the arena that has it.
LEMMA ArrayChildGrows ==
  ASSUME NEW ar, IsArena(ar), NEW a \in DOMAIN ar, HasArray(ar[a]), NEW position \in Nat
  PROVE  LET child == ArrayChild(ar, a, position)
         IN Grows(ar, child.arena) /\ child.id \in Ref(Len(child.arena))
<1> DEFINE arr == ar[a].array
           known == arr.positionalAlive /\ position < Len(arr.positional)
           fresh == arr.positionalAlive /\ ~known /\ position < PositionalCap
<1>1. IsNode(ar[a], Len(ar))
  BY DEF IsArena
<1>2. CASE known
  <2>1. ArrayChild(ar, a, position) = [arena |-> ar, id |-> arr.positional[position + 1]]
    BY <1>2 DEF ArrayChild
  <2>2. DOMAIN arr.positional = 1 .. Len(arr.positional) /\ Len(arr.positional) \in Nat
    BY <1>1, SequenceLen DEF IsNode, IsArray
  <2>3. position + 1 \in DOMAIN arr.positional
    BY <1>2, <2>2
  <2>4. arr.positional[position + 1] \in Ref(Len(ar))
    BY <1>1, <2>3 DEF IsNode, IsArray
  <2>5. QED
    BY <2>1, <2>4, GrowsSame
<1>3. CASE ~known /\ fresh
  <2> DEFINE al == Alloc(ar)
             b == [al EXCEPT ![a].array.positional = Append(@, FreshId(ar))]
  <2>1. ArrayChild(ar, a, position) = [arena |-> b, id |-> FreshId(ar)]
    BY <1>3 DEF ArrayChild
  <2>2. /\ Grows(ar, al) /\ IsArena(al) /\ Len(al) = FreshId(ar) /\ FreshId(ar) \in Ref(Len(al))
        /\ a \in DOMAIN al /\ al[a] = ar[a]
    BY AllocGrows, GrowsDomain DEF Grows
  <2> HIDE DEF al
  <2>3. b = [u \in DOMAIN al |-> IF u = a THEN b[a] ELSE al[u]]
    OBVIOUS
  <2>4. IsNode(al[a], Len(al))
    BY <2>2 DEF IsArena
  <2> DEFINE old == al[a].array.positional
  <2>5. /\ DOMAIN b[a] = DOMAIN al[a] /\ b[a].object = al[a].object
        /\ DOMAIN b[a].array = DOMAIN al[a].array
        /\ b[a].array.bagValue = al[a].array.bagValue
        /\ b[a].array.positional = Append(old, FreshId(ar))
    BY <2>2, <2>4 DEF IsNode, IsArray
  <2>6. Sequence(old) /\ \A i \in DOMAIN old : old[i] \in Ref(Len(al))
    BY <2>4 DEF IsNode, IsArray
  <2> HIDE DEF b, old
  <2>7. Sequence(Append(old, FreshId(ar))) /\
        \A i \in DOMAIN Append(old, FreshId(ar)) : Append(old, FreshId(ar))[i] \in Ref(Len(al))
    <3>1. Len(old) \in Nat /\ DOMAIN old = 1 .. Len(old)
      BY <2>6, SequenceLen
    <3>2. /\ Sequence(Append(old, FreshId(ar))) /\ Len(Append(old, FreshId(ar))) = Len(old) + 1
          /\ \A i \in 1 .. Len(old) : Append(old, FreshId(ar))[i] = old[i]
          /\ Append(old, FreshId(ar))[Len(old) + 1] = FreshId(ar)
      BY <2>6, SequenceAppend
    <3>3. DOMAIN Append(old, FreshId(ar)) = 1 .. Len(old) + 1
      BY <3>2, SequenceLen
    <3>4. 1 .. Len(old) + 1 = (1 .. Len(old)) \cup {Len(old) + 1}
      BY <3>1
    <3>5. QED
      BY <2>2, <2>6, <3>1, <3>2, <3>3, <3>4
  <2>8. IsNode(b[a], Len(al)) /\ Keeps(al[a], b[a])
    BY <2>4, <2>5, <2>7 DEF IsNode, IsArray, HasObject, HasArray, Keeps
  <2>9. Grows(al, b) /\ Len(b) = Len(al)
    BY <2>2, <2>3, <2>8, ReplaceGrows
  <2>10. Grows(ar, b)
    BY <2>2, <2>9, GrowsOn
  <2>11. QED
    BY <2>1, <2>2, <2>9, <2>10
<1>4. CASE ~known /\ ~fresh
  <2> DEFINE b == [ar EXCEPT ![a].array.positionalAlive = FALSE]
  <2>1. ArrayChild(ar, a, position) = [arena |-> b, id |-> arr.bagValue]
    BY <1>4 DEF ArrayChild
  <2>2. arr.bagValue \in Ref(Len(ar))
    BY <1>1 DEF IsNode, IsArray, HasArray
  <2>3. Grows(ar, b)
    BY PositionsRetire
  <2>4. Ref(Len(ar)) \subseteq Ref(Len(b))
    BY <2>3, ArenaLen DEF Grows, Ref
  <2>5. QED
    BY <2>1, <2>2, <2>3, <2>4
<1>5. QED
  BY <1>2, <1>3, <1>4

\* The node for a key is in the arena that has it.
LEMMA ObjectChildGrows ==
  ASSUME NEW ar, IsArena(ar), NEW o \in DOMAIN ar, HasObject(ar[o]), NEW key
  PROVE  LET child == ObjectChild(ar, o, key)
         IN Grows(ar, child.arena) /\ child.id \in Ref(Len(child.arena))
<1> DEFINE obj == ar[o].object
           known == key \in DOMAIN obj.fields
           fresh == ~known /\ RecordHasRoom(obj)
<1>1. IsNode(ar[o], Len(ar))
  BY DEF IsArena
<1>2. CASE known
  <2>1. ObjectChild(ar, o, key) = [arena |-> ar, id |-> obj.fields[key]]
    BY <1>2 DEF ObjectChild
  <2>2. obj.fields[key] \in Ref(Len(ar))
    BY <1>1, <1>2 DEF IsNode, IsObject
  <2>3. QED
    BY <2>1, <2>2, GrowsSame
<1>3. CASE ~known /\ fresh
  <2> DEFINE al == Alloc(ar)
             b == [al EXCEPT ![o].object.fields =
                     [k \in DOMAIN @ \cup {key} |-> IF k = key THEN FreshId(ar) ELSE @[k]]]
  <2>1. ObjectChild(ar, o, key) = [arena |-> b, id |-> FreshId(ar)]
    BY <1>3 DEF ObjectChild
  <2>2. /\ Grows(ar, al) /\ IsArena(al) /\ Len(al) = FreshId(ar) /\ FreshId(ar) \in Ref(Len(al))
        /\ o \in DOMAIN al /\ al[o] = ar[o]
    BY AllocGrows, GrowsDomain DEF Grows
  <2> HIDE DEF al
  <2>3. b = [u \in DOMAIN al |-> IF u = o THEN b[o] ELSE al[u]]
    OBVIOUS
  <2>4. IsNode(al[o], Len(al))
    BY <2>2 DEF IsArena
  <2> DEFINE old == al[o].object.fields
             new == [k \in DOMAIN old \cup {key} |-> IF k = key THEN FreshId(ar) ELSE old[k]]
  <2>5. /\ DOMAIN b[o] = DOMAIN al[o] /\ b[o].array = al[o].array
        /\ DOMAIN b[o].object = DOMAIN al[o].object
        /\ b[o].object.mapValue = al[o].object.mapValue
        /\ b[o].object.fields = new
    BY <2>2, <2>4 DEF IsNode, IsObject
  <2>6. \A k \in DOMAIN old : old[k] \in Ref(Len(al))
    BY <2>4 DEF IsNode, IsObject
  <2>7. \A k \in DOMAIN new : new[k] \in Ref(Len(al))
    BY <2>2, <2>6
  <2> HIDE DEF b, old, new
  <2>8. IsNode(b[o], Len(al)) /\ Keeps(al[o], b[o])
    BY <2>4, <2>5, <2>7 DEF IsNode, IsObject, HasObject, HasArray, Keeps
  <2>9. Grows(al, b) /\ Len(b) = Len(al)
    BY <2>2, <2>3, <2>8, ReplaceGrows
  <2>10. Grows(ar, b)
    BY <2>2, <2>9, GrowsOn
  <2>11. QED
    BY <2>1, <2>2, <2>9, <2>10
<1>4. CASE ~known /\ ~fresh
  <2> DEFINE b == [ar EXCEPT ![o].object.recordAlive = FALSE]
  <2>1. ObjectChild(ar, o, key) = [arena |-> b, id |-> obj.mapValue]
    BY <1>4 DEF ObjectChild
  <2>2. obj.mapValue \in Ref(Len(ar))
    BY <1>1 DEF IsNode, IsObject, HasObject
  <2>3. Grows(ar, b)
    BY RecordRetires
  <2>4. Ref(Len(ar)) \subseteq Ref(Len(b))
    BY <2>3, ArenaLen DEF Grows, Ref
  <2>5. QED
    BY <2>1, <2>2, <2>3, <2>4
<1>5. QED
  BY <1>2, <1>3, <1>4

-----------------------------------------------------------------------------
(* The walk.                                                               *)
IsFrame(f, ar) ==
  /\ DOMAIN f = {"kind", "node", "position", "pendingKey", "children"}
  /\ f.kind \in {"object", "array"}
  /\ f.node \in DOMAIN ar
  /\ f.position \in Nat
  /\ f.kind = "object" => HasObject(ar[f.node])
  /\ f.kind = "array" => HasArray(ar[f.node])

Frames(st, ar) == Sequence(st) /\ \A i \in DOMAIN st : IsFrame(st[i], ar)

\* One call for each open container, after that of the document; all but the
\* last wait, and an object's frame holds a key exactly while its call waits.
Matching(st, cs) ==
  /\ Sequence(cs) /\ Len(cs) = Len(st) + 1
  /\ \A i \in DOMAIN cs : DOMAIN cs[i] = {"where", "awaits", "lastKey"} /\ cs[i].awaits \in BOOLEAN
  /\ cs[1].where = "document"
  /\ \A i \in DOMAIN st :
       /\ cs[i + 1].where = st[i].kind
       /\ cs[i].awaits
       /\ st[i].kind = "object" => (st[i].pendingKey # None <=> cs[i + 1].awaits)
       /\ st[i].kind = "array" => cs[i + 1].awaits

IndInv ==
  /\ IsArena(arena)
  /\ Frames(stack, arena)
  /\ pending \in DOMAIN arena \cup {None}
  /\ calls = <<>> => stack = <<>> /\ pending = None
  /\ calls # <<>> =>
       /\ Matching(stack, calls)
       /\ pending # None <=> Current.awaits /\ Current.where # "array"

\* What follows for the last call.
LEMMA LastCall ==
  ASSUME NEW st, Sequence(st), NEW cs, Matching(st, cs)
  PROVE  /\ Len(st) \in Nat /\ DOMAIN st = 1 .. Len(st)
         /\ Len(cs) = Len(st) + 1 /\ Sequence(cs) /\ cs # <<>>
         /\ Len(cs) \in Nat /\ DOMAIN cs = 1 .. Len(st) + 1
         /\ Len(cs) \in DOMAIN cs
         /\ cs[Len(cs)].awaits \in BOOLEAN
         /\ st = <<>> => cs[Len(cs)].where = "document"
         /\ st # <<>> => /\ Len(st) \in DOMAIN st /\ Len(st) >= 1
                         /\ cs[Len(cs)].where = st[Len(st)].kind
<1>1. Len(st) \in Nat /\ DOMAIN st = 1 .. Len(st) /\ Len(cs) = Len(st) + 1 /\ Sequence(cs)
  BY SequenceLen DEF Matching
<1>2. DOMAIN cs = 1 .. Len(cs)
  BY <1>1, SequenceLen
<1>3. Len(cs) \in Nat /\ Len(cs) \in DOMAIN cs /\ Len(cs) # 0
  BY <1>1, <1>2
<1>4. cs # <<>>
  BY <1>1, <1>3, SequenceEmpty
<1>5. cs[Len(cs)].awaits \in BOOLEAN
  BY <1>3 DEF Matching
<1>6. ASSUME st = <<>>
      PROVE  cs[Len(cs)].where = "document"
  <2>1. Len(cs) = 1
    BY <1>1, <1>6, SequenceEmpty
  <2>2. QED
    BY <2>1 DEF Matching
<1>7. ASSUME st # <<>>
      PROVE  Len(st) \in DOMAIN st /\ Len(st) >= 1 /\ cs[Len(cs)].where = st[Len(st)].kind
  <2>1. Len(st) # 0
    BY <1>7, SequenceEmpty
  <2>2. Len(st) \in DOMAIN st /\ Len(st) >= 1
    BY <1>1, <2>1
  <2>3. QED
    BY <1>1, <2>2 DEF Matching
<1>8. QED
  BY <1>1, <1>2, <1>3, <1>4, <1>5, <1>6, <1>7

\* The frames stay what they are while the arena grows.
LEMMA FramesGrow ==
  ASSUME NEW ar, IsArena(ar), NEW br, Grows(ar, br), NEW st, Frames(st, ar)
  PROVE  Frames(st, br)
<1>1. DOMAIN ar \subseteq DOMAIN br
  BY GrowsDomain
<1>2. QED
  BY <1>1 DEF Frames, IsFrame, Grows, Keeps

\* A value has a node to go to.
LEMMA HasTargetHolds ==
  ASSUME IndInv, AwaitsValue
  PROVE  HasTarget /\ (pending = None => InArray(stack))
<1>1. calls # <<>> /\ Current.awaits /\ Matching(stack, calls) /\ Sequence(stack)
  BY DEF IndInv, AwaitsValue, Frames
<1>2. CASE pending # None
  BY <1>2 DEF HasTarget
<1>3. CASE pending = None
  <2>1. calls[Len(calls)].where = "array"
    BY <1>1, <1>3 DEF IndInv, Current
  <2>2. stack # <<>>
    BY <1>1, <2>1, LastCall
  <2>3. stack[Len(stack)].kind = "array"
    BY <1>1, <2>1, <2>2, LastCall
  <2>4. QED
    BY <2>2, <2>3 DEF HasTarget, InArray
<1>4. QED
  BY <1>2, <1>3

LEMMA TargetGrows ==
  ASSUME IndInv, AwaitsValue
  PROVE  /\ Grows(arena, Target.arena) /\ IsArena(Target.arena)
         /\ Target.id \in DOMAIN Target.arena
         /\ Frames(StackAfterTarget, arena)
         /\ Matching(StackAfterTarget, calls)
<1>1. IsArena(arena) /\ Frames(stack, arena) /\ Matching(stack, calls) /\ Sequence(stack)
  BY DEF IndInv, AwaitsValue, Frames
<1>2. CASE pending # None
  <2>1. Target = [arena |-> arena, id |-> pending] /\ StackAfterTarget = stack
    BY <1>2 DEF Target, StackAfterTarget
  <2>2. pending \in DOMAIN arena
    BY <1>2 DEF IndInv
  <2>3. QED
    BY <1>1, <2>1, <2>2, GrowsSame
<1>3. CASE pending = None
  <2> DEFINE d == Len(stack)
             st == [stack EXCEPT ![d].position = @ + 1]
  <2>1. stack # <<>> /\ stack[d].kind = "array"
    BY <1>3, HasTargetHolds DEF InArray
  <2>2. d \in DOMAIN stack
    BY <1>1, <2>1, LastCall
  <2>3. IsFrame(stack[d], arena)
    BY <1>1, <2>2 DEF Frames
  <2>4. Target = ArrayChild(arena, stack[d].node, stack[d].position) /\ StackAfterTarget = st
    BY <1>3 DEF Target, StackAfterTarget, Top
  <2>5. Grows(arena, Target.arena) /\ Target.id \in Ref(Len(Target.arena))
    BY <1>1, <2>1, <2>3, <2>4, ArrayChildGrows DEF IsFrame
  <2>6. IsArena(Target.arena) /\ Target.id \in DOMAIN Target.arena
    <3>1. IsArena(Target.arena)
      BY <2>5 DEF Grows
    <3>2. QED
      BY <2>5, <3>1, ArenaLen DEF Ref
  <2>7. st = [i \in DOMAIN stack |-> st[i]]
    OBVIOUS
  <2>8. \A i \in DOMAIN stack :
          /\ DOMAIN st[i] = DOMAIN stack[i] /\ st[i].kind = stack[i].kind
          /\ st[i].node = stack[i].node /\ st[i].pendingKey = stack[i].pendingKey
          /\ st[i].position \in Nat
    BY <1>1 DEF Frames, IsFrame
  <2> HIDE DEF st, d
  <2>9. Sequence(st) /\ Len(st) = Len(stack) /\ DOMAIN st = DOMAIN stack
    BY <1>1, <2>7, SequenceSame
  <2>10. Frames(st, arena)
    BY <1>1, <2>8, <2>9 DEF Frames, IsFrame
  <2>11. Matching(st, calls)
    BY <1>1, <2>8, <2>9 DEF Matching
  <2>12. QED
    BY <2>4, <2>5, <2>6, <2>10, <2>11
<1>4. QED
  BY <1>2, <1>3

-----------------------------------------------------------------------------
\* Return changes the last call only.
LEMMA ReturnCalls ==
  ASSUME NEW st, Sequence(st), NEW cs, Matching(st, cs)
  PROVE  /\ Sequence(Return(cs)) /\ Len(Return(cs)) = Len(cs) /\ DOMAIN Return(cs) = DOMAIN cs
         /\ \A i \in DOMAIN cs :
              /\ DOMAIN Return(cs)[i] = DOMAIN cs[i]
              /\ Return(cs)[i].where = cs[i].where
              /\ i # Len(cs) => Return(cs)[i].awaits = cs[i].awaits
         /\ Return(cs)[Len(cs)].awaits = (cs[Len(cs)].where = "array")
<1> DEFINE b == Return(cs)
<1>1. Len(cs) \in DOMAIN cs /\ Sequence(cs)
  BY LastCall
<1>2. \A i \in DOMAIN cs : DOMAIN cs[i] = {"where", "awaits", "lastKey"}
  BY DEF Matching
<1>3. b = [i \in DOMAIN cs |-> b[i]]
  BY DEF Return
<1>4. /\ \A i \in DOMAIN cs :
           /\ DOMAIN b[i] = DOMAIN cs[i]
           /\ b[i].where = cs[i].where
           /\ i # Len(cs) => b[i].awaits = cs[i].awaits
      /\ b[Len(cs)].awaits = (cs[Len(cs)].where = "array")
  BY <1>1, <1>2 DEF Return
<1> HIDE DEF b
<1>5. Sequence(b) /\ Len(b) = Len(cs) /\ DOMAIN b = DOMAIN cs
  BY <1>1, <1>3, SequenceSame
<1>6. QED
  BY <1>4, <1>5 DEF b

\* A signature goes to the frame below: no other part of the stack changes.
LEMMA EmittedFrames ==
  ASSUME NEW ar, NEW st, Frames(st, ar), NEW sig, EmitChildSig(ar, st, sig)
  PROVE  /\ \/ arena' = ar
            \/ \E t \in DOMAIN ar : \E table : arena' = [ar EXCEPT ![t].array.cluster = table]
         /\ stack' = [i \in DOMAIN st |-> stack'[i]]
         /\ \A i \in DOMAIN st :
              /\ DOMAIN stack'[i] = DOMAIN st[i] /\ stack'[i].kind = st[i].kind
              /\ stack'[i].node = st[i].node /\ stack'[i].position = st[i].position
              /\ i # Len(st) => stack'[i].pendingKey = st[i].pendingKey
              /\ i = Len(st) /\ st[i].kind = "object" => stack'[i].pendingKey = None
<1> DEFINE d == Len(st)
<1>1. /\ d \in Nat /\ DOMAIN st = 1 .. d /\ (st # <<>> => d \in DOMAIN st) /\ (st = <<>> => d = 0)
      /\ \A i \in DOMAIN st : IsFrame(st[i], ar)
  <2>1. d \in Nat /\ DOMAIN st = 1 .. d /\ (st = <<>> <=> d = 0)
    BY SequenceLen, SequenceEmpty DEF Frames
  <2>2. st # <<>> => d \in 1 .. d
    BY <2>1
  <2>3. QED
    BY <2>1, <2>2 DEF Frames
<1>2. CASE EmitToArray(ar, st, sig)
  <2>1. st # <<>> /\ st[d].kind = "array" /\ d \in DOMAIN st
    BY <1>1, <1>2 DEF EmitToArray, InArray
  <2>2. st[d].node \in DOMAIN ar
    BY <1>1, <2>1 DEF IsFrame
  <2>3. PICK table : arena' = [ar EXCEPT ![st[d].node].array.cluster = table]
    BY <1>2 DEF EmitToArray, Top
  <2>4. stack' = [st EXCEPT ![d].children = @ \cup {sig}]
    BY <1>2 DEF EmitToArray
  <2>5. \A i \in DOMAIN st : DOMAIN st[i] = {"kind", "node", "position", "pendingKey", "children"}
    BY <1>1 DEF IsFrame
  <2> HIDE DEF d
  <2>6. /\ stack' = [i \in DOMAIN st |-> stack'[i]]
        /\ \A i \in DOMAIN st :
             /\ DOMAIN stack'[i] = DOMAIN st[i] /\ stack'[i].kind = st[i].kind
             /\ stack'[i].node = st[i].node /\ stack'[i].position = st[i].position
             /\ i # d => stack'[i].pendingKey = st[i].pendingKey
             /\ i = d /\ st[i].kind = "object" => stack'[i].pendingKey = None
    BY <2>1, <2>4, <2>5
  <2>7. QED
    BY <2>2, <2>3, <2>6 DEF d
<1>3. CASE EmitToObject(ar, st, sig)
  <2>1. st # <<>> /\ arena' = ar /\ d \in DOMAIN st
    BY <1>1, <1>3 DEF EmitToObject, InObject
  <2>2. stack' = [st EXCEPT ![d].children = @ \cup {<<st[d].pendingKey, sig>>},
                            ![d].pendingKey = None]
    BY <1>3 DEF EmitToObject, Top
  <2>3. \A i \in DOMAIN st : DOMAIN st[i] = {"kind", "node", "position", "pendingKey", "children"}
    BY <1>1 DEF IsFrame
  <2> HIDE DEF d
  <2>4. /\ stack' = [i \in DOMAIN st |-> stack'[i]]
        /\ \A i \in DOMAIN st :
             /\ DOMAIN stack'[i] = DOMAIN st[i] /\ stack'[i].kind = st[i].kind
             /\ stack'[i].node = st[i].node /\ stack'[i].position = st[i].position
             /\ i # d => stack'[i].pendingKey = st[i].pendingKey
             /\ i = d /\ st[i].kind = "object" => stack'[i].pendingKey = None
    BY <2>1, <2>2, <2>3
  <2>5. QED
    BY <2>1, <2>4 DEF d
<1>4. CASE EmitNowhere(ar, st)
  <2>1. st = <<>> /\ arena' = ar /\ stack' = st
    BY <1>4 DEF EmitNowhere
  <2>2. DOMAIN st = {}
    BY <1>1, <2>1
  <2>3. QED
    BY <2>1, <2>2
<1>5. QED
  BY <1>2, <1>3, <1>4 DEF EmitChildSig

\* A value is complete: its signature goes to the frame below it, and its call
\* returns to the one below.
LEMMA EmittedPreserves ==
  ASSUME NEW ar, IsArena(ar), NEW st, Frames(st, ar), NEW cs, Matching(st, cs),
         cs[Len(cs)].awaits, NEW sig,
         EmitChildSig(ar, st, sig), pending' = None, calls' = Return(cs)
  PROVE  IndInv'
<1> DEFINE d == Len(st)
<1>1. /\ Sequence(st) /\ d \in Nat /\ DOMAIN st = 1 .. d /\ Len(cs) = d + 1
      /\ \A i \in DOMAIN st : IsFrame(st[i], ar)
  BY LastCall DEF Frames
\* What the frames are afterwards.
<1>2. /\ Grows(ar, arena')
      /\ stack' = [i \in DOMAIN st |-> stack'[i]]
      /\ \A i \in DOMAIN st :
           /\ DOMAIN stack'[i] = DOMAIN st[i] /\ stack'[i].kind = st[i].kind
           /\ stack'[i].node = st[i].node /\ stack'[i].position = st[i].position
           /\ i # d => stack'[i].pendingKey = st[i].pendingKey
           /\ i = d /\ st[i].kind = "object" => stack'[i].pendingKey = None
  <2>1. \A t \in DOMAIN ar : \A table : Grows(ar, [ar EXCEPT ![t].array.cluster = table])
    BY ClusterGrows
  <2>2. Grows(ar, arena')
    <3>1. \/ arena' = ar
          \/ \E t \in DOMAIN ar : \E table : arena' = [ar EXCEPT ![t].array.cluster = table]
      BY EmittedFrames
    <3>2. CASE arena' = ar
      BY <3>2, GrowsSame
    <3>3. CASE \E t \in DOMAIN ar : \E table : arena' = [ar EXCEPT ![t].array.cluster = table]
      BY <2>1, <3>3
    <3>4. QED
      BY <3>1, <3>2, <3>3
  <2>3. QED
    BY <2>2, EmittedFrames
<1> HIDE DEF d
<1>3. Sequence(stack') /\ Len(stack') = d /\ DOMAIN stack' = DOMAIN st
  BY <1>1, <1>2, SequenceSame DEF d
<1>4. IsArena(arena') /\ Frames(st, arena')
  BY <1>2, FramesGrow DEF Grows
<1>5. Frames(stack', arena')
  BY <1>2, <1>3, <1>4 DEF Frames, IsFrame
<1>6. Matching(stack', calls')
  <2>1. /\ Sequence(calls') /\ Len(calls') = Len(cs) /\ DOMAIN calls' = DOMAIN cs
        /\ \A i \in DOMAIN cs :
              /\ DOMAIN calls'[i] = DOMAIN cs[i]
              /\ calls'[i].where = cs[i].where
              /\ i # d + 1 => calls'[i].awaits = cs[i].awaits
        /\ calls'[d + 1].awaits = (cs[d + 1].where = "array")
    BY <1>1, ReturnCalls
  <2>2. DOMAIN cs = 1 .. d + 1
    BY <1>1, LastCall
  <2>3. 1 \in DOMAIN cs /\ \A i \in 1 .. d : i \in DOMAIN cs /\ i + 1 \in DOMAIN cs /\ i # d + 1 /\ (i # d => i + 1 # d + 1)
    BY <1>1, <2>2
  <2>4. \A i \in DOMAIN calls' : DOMAIN calls'[i] = {"where", "awaits", "lastKey"} /\ calls'[i].awaits \in BOOLEAN
    <3>1. TAKE i \in DOMAIN calls'
    <3>2. DOMAIN cs[i] = {"where", "awaits", "lastKey"} /\ cs[i].awaits \in BOOLEAN
      BY <2>1 DEF Matching
    <3>3. QED
      BY <2>1, <3>2
  <2>5. calls'[1].where = "document"
    BY <2>1, <2>3 DEF Matching
  <2>6. ASSUME NEW i \in DOMAIN stack'
        PROVE  /\ calls'[i + 1].where = stack'[i].kind
               /\ calls'[i].awaits
               /\ stack'[i].kind = "object" => (stack'[i].pendingKey # None <=> calls'[i + 1].awaits)
               /\ stack'[i].kind = "array" => calls'[i + 1].awaits
    <3>1. i \in DOMAIN st /\ i \in 1 .. d
      BY <1>1, <1>3, <2>6
    <3>2. /\ cs[i + 1].where = st[i].kind
          /\ cs[i].awaits
          /\ st[i].kind = "object" => (st[i].pendingKey # None <=> cs[i + 1].awaits)
          /\ st[i].kind = "array" => cs[i + 1].awaits
      BY <3>1 DEF Matching
    <3>3. calls'[i + 1].where = stack'[i].kind /\ calls'[i].awaits
      BY <1>2, <2>1, <2>3, <3>1, <3>2
    <3>4. CASE i # d
      BY <1>2, <2>1, <2>3, <3>1, <3>2, <3>3, <3>4
    <3>5. CASE i = d
      BY <1>2, <2>1, <2>3, <3>1, <3>2, <3>3, <3>5
    <3>6. QED
      BY <3>4, <3>5
  <2>7. QED
    BY <1>1, <1>3, <2>1, <2>4, <2>5, <2>6 DEF Matching
<1>7. calls' # <<>> /\ (Current.awaits <=> Current.where = "array")'
  <2>1. /\ Len(calls') = Len(cs) /\ Len(cs) \in DOMAIN cs
        /\ calls'[Len(cs)].where = cs[Len(cs)].where
        /\ calls'[Len(cs)].awaits = (cs[Len(cs)].where = "array")
    BY <1>1, ReturnCalls, LastCall
  <2>2. calls' # <<>>
    BY <1>3, <1>6, LastCall
  <2>3. QED
    BY <2>1, <2>2 DEF Current
<1>8. QED
  BY <1>4, <1>5, <1>6, <1>7 DEF IndInv

-----------------------------------------------------------------------------
(* The actions.                                                            *)
LEMMA InitIndInv == Init => IndInv
<1>1. HAVE Init
<1>2. arena = <<NewNode>> /\ stack = <<>> /\ pending = None /\ calls = <<>>
  BY <1>1 DEF Init, AnalyzerInit
<1>3. Sequence(<<NewNode>>) /\ Len(<<NewNode>>) = 1 /\ <<NewNode>>[1] = NewNode
  <2>1. <<NewNode>> \in Seq({NewNode})
    OBVIOUS
  <2>2. QED
    BY <2>1 DEF Sequence
<1>4. IsArena(<<NewNode>>)
  <2>1. DOMAIN <<NewNode>> = 1 .. 1
    BY <1>3, SequenceLen
  <2>2. QED
    BY <1>3, <2>1, NewNodeIsNode DEF IsArena
<1>5. Frames(<<>>, arena)
  BY SequenceEmpty DEF Frames
<1>6. QED
  BY <1>2, <1>4, <1>5 DEF IndInv

LEMMA DriveDocumentPreserves ==
  ASSUME IndInv, DriveDocument
  PROVE  IndInv'
<1>1. /\ calls = <<>> /\ stack = <<>> /\ arena' = arena /\ stack' = stack
      /\ pending' = Root /\ calls' = <<Call("document")>>
  BY DEF IndInv, DriveDocument, DocumentBegin
<1> DEFINE c == Call("document")
<1>2. Sequence(<<c>>) /\ Len(<<c>>) = 1 /\ DOMAIN <<c>> = 1 .. 1 /\ <<c>>[1] = c
  <2>1. <<c>> \in Seq({c}) /\ Len(<<c>>) = 1 /\ <<c>>[1] = c
    OBVIOUS
  <2>2. Sequence(<<c>>)
    BY <2>1 DEF Sequence
  <2>3. QED
    BY <2>1, <2>2, SequenceLen
<1>3. DOMAIN c = {"where", "awaits", "lastKey"} /\ c.where = "document" /\ c.awaits = TRUE
  BY DEF Call
<1> HIDE DEF c
<1>4. Len(<<>>) = 0 /\ DOMAIN <<>> = {}
  BY SequenceEmpty
<1>5. Matching(<<>>, <<c>>)
  <2>1. Len(<<c>>) = Len(<<>>) + 1
    BY <1>2, <1>4
  <2>2. \A i \in DOMAIN <<c>> : <<c>>[i] = c
    BY <1>2
  <2>3. QED
    BY <1>2, <1>3, <1>4, <2>1, <2>2, Zenon DEF Matching
<1>6. Root \in DOMAIN arena /\ Root # None
  BY ArenaLen, NoneAssumption DEF IndInv, Root
<1>7. calls' = <<c>> /\ calls' # <<>> /\ (Current.awaits /\ Current.where # "array")'
  <2>1. calls' = <<c>>
    BY <1>1 DEF c
  <2>2. QED
    BY <1>2, <1>3, <2>1, SequenceEmpty DEF Current
<1>8. QED
  BY <1>1, <1>5, <1>6, <1>7 DEF IndInv

LEMMA FinishDocumentPreserves ==
  ASSUME IndInv, FinishDocument
  PROVE  IndInv'
<1>1. /\ calls # <<>> /\ Current.where = "document"
      /\ arena' = arena /\ stack' = stack /\ pending' = None /\ calls' = <<>>
  BY DEF FinishDocument, DocumentEnd, Walking
<1>2. Matching(stack, calls) /\ Sequence(stack) /\ \A i \in DOMAIN stack : stack[i].kind \in {"object", "array"}
  BY <1>1 DEF IndInv, Frames, IsFrame
<1>3. stack = <<>>
  <2>1. SUFFICES ASSUME stack # <<>> PROVE FALSE
    OBVIOUS
  <2>2. Len(stack) \in DOMAIN stack /\ calls[Len(calls)].where = stack[Len(stack)].kind
    BY <1>2, <2>1, LastCall
  <2>3. QED
    BY <1>1, <1>2, <2>2 DEF Current
<1>4. QED
  BY <1>1, <1>3 DEF IndInv

LEMMA DriveScalarPreserves ==
  ASSUME IndInv, NEW kind \in Kind, DriveScalar(kind)
  PROVE  IndInv'
<1> DEFINE t == Target.id
           ar == ObsAt(Target.arena, t)
           br == [ar EXCEPT ![t].scalars[kind] = @ + 1]
<1>1. AwaitsValue /\ calls' = Return(calls) /\ pending' = None
      /\ EmitChildSig(br, StackAfterTarget, ScalarSig(kind))
  BY DEF DriveScalar, Scalar
<1>2. /\ Grows(arena, Target.arena) /\ IsArena(Target.arena) /\ t \in DOMAIN Target.arena
      /\ Frames(StackAfterTarget, arena) /\ Matching(StackAfterTarget, calls)
  BY <1>1, TargetGrows
<1>3. IsArena(arena) /\ calls[Len(calls)].awaits
  BY <1>1 DEF IndInv, AwaitsValue, Current
<1>4. Grows(Target.arena, ar) /\ IsArena(ar) /\ t \in DOMAIN ar
  BY <1>2, ObsAtGrows DEF Grows
<1> HIDE DEF ar
<1>5. Grows(ar, br) /\ IsArena(br)
  BY <1>4, ScalarsGrow DEF Grows
<1> HIDE DEF br, t
<1>6. Grows(arena, br)
  BY <1>2, <1>3, <1>4, <1>5, GrowsOn
<1>7. Frames(StackAfterTarget, br)
  BY <1>2, <1>3, <1>6, FramesGrow
<1>8. QED
  BY <1>1, <1>2, <1>3, <1>5, <1>7, EmittedPreserves

\* A container is entered: its frame and its call are added.
LEMMA OpenedPreserves ==
  ASSUME IndInv, NEW st, Frames(st, arena), Matching(st, calls), AwaitsValue,
         Grows(arena, arena'), NEW f, IsFrame(f, arena'), f.pendingKey = None,
         stack' = Append(st, f), calls' = Append(calls, Call(f.kind)), pending' = None
  PROVE  IndInv'
<1> DEFINE d == Len(st)
           c == Call(f.kind)
<1>1. /\ Sequence(st) /\ d \in Nat /\ DOMAIN st = 1 .. d
      /\ Sequence(calls) /\ Len(calls) = d + 1 /\ DOMAIN calls = 1 .. d + 1 /\ calls # <<>>
  BY LastCall DEF Frames
<1>2. /\ Sequence(stack') /\ Len(stack') = d + 1
      /\ \A i \in 1 .. d : stack'[i] = st[i]
      /\ stack'[d + 1] = f
  BY <1>1, SequenceAppend
<1>3. /\ Sequence(calls') /\ Len(calls') = d + 1 + 1
      /\ \A i \in 1 .. d + 1 : calls'[i] = calls[i]
      /\ calls'[d + 1 + 1] = c
  BY <1>1, SequenceAppend
<1>4. DOMAIN stack' = 1 .. d + 1 /\ DOMAIN calls' = 1 .. d + 1 + 1
  BY <1>2, <1>3, SequenceLen
<1>5. /\ 1 .. d + 1 = (1 .. d) \cup {d + 1}
      /\ 1 .. d + 1 + 1 = (1 .. d + 1) \cup {d + 1 + 1}
      /\ 1 \in 1 .. d + 1
      /\ \A i \in 1 .. d : i \in 1 .. d + 1 /\ i + 1 \in 1 .. d + 1
      /\ d + 1 \in 1 .. d + 1
  BY <1>1
<1>6. /\ DOMAIN c = {"where", "awaits", "lastKey"} /\ c.where = f.kind
      /\ c.awaits = (f.kind # "object") /\ c.awaits \in BOOLEAN
  BY DEF Call
<1>7. IsArena(arena') /\ Frames(st, arena')
  BY FramesGrow DEF IndInv, Grows
<1> HIDE DEF d, c
<1>8. Frames(stack', arena')
  <2>1. ASSUME NEW i \in DOMAIN stack'
        PROVE  IsFrame(stack'[i], arena')
    <3>1. CASE i \in 1 .. d
      BY <1>1, <1>2, <1>7, <3>1 DEF Frames
    <3>2. CASE i = d + 1
      BY <1>2, <3>2
    <3>3. QED
      BY <1>4, <1>5, <3>1, <3>2
  <2>2. QED
    BY <1>2, <2>1 DEF Frames
<1>9. Matching(stack', calls')
  <2>1. \A i \in DOMAIN calls' : DOMAIN calls'[i] = {"where", "awaits", "lastKey"} /\ calls'[i].awaits \in BOOLEAN
    <3>1. TAKE i \in DOMAIN calls'
    <3>2. CASE i \in 1 .. d + 1
      BY <1>1, <1>3, <3>2 DEF Matching
    <3>3. CASE i = d + 1 + 1
      BY <1>3, <1>6, <3>3
    <3>4. QED
      BY <1>4, <1>5, <3>2, <3>3
  <2>2. calls'[1].where = "document"
    BY <1>3, <1>5 DEF Matching
  <2>3. ASSUME NEW i \in DOMAIN stack'
        PROVE  /\ calls'[i + 1].where = stack'[i].kind
               /\ calls'[i].awaits
               /\ stack'[i].kind = "object" => (stack'[i].pendingKey # None <=> calls'[i + 1].awaits)
               /\ stack'[i].kind = "array" => calls'[i + 1].awaits
    <3>1. CASE i \in 1 .. d
      <4>1. calls'[i] = calls[i] /\ calls'[i + 1] = calls[i + 1] /\ stack'[i] = st[i]
        BY <1>2, <1>3, <1>5, <3>1
      <4>2. QED
        BY <1>1, <3>1, <4>1 DEF Matching
    <3>2. CASE i = d + 1
      <4>1. calls'[i] = calls[d + 1] /\ calls'[i + 1] = c /\ stack'[i] = f
        BY <1>2, <1>3, <1>5, <3>2
      <4>2. calls[d + 1].awaits
        BY <1>1 DEF AwaitsValue, Current
      <4>3. f.kind \in {"object", "array"}
        BY DEF IsFrame
      <4>4. QED
        BY <1>6, <4>1, <4>2, <4>3
    <3>3. QED
      BY <1>4, <1>5, <3>1, <3>2
  <2>4. QED
    BY <1>2, <1>3, <2>1, <2>2, <2>3 DEF Matching
<1>10. calls' # <<>> /\ ~(Current.awaits /\ Current.where # "array")'
  <2>1. calls'[Len(calls')] = c
    BY <1>3
  <2>2. f.kind \in {"object", "array"}
    BY DEF IsFrame
  <2>3. calls' # <<>>
    BY <1>2, <1>9, LastCall
  <2>4. QED
    BY <1>6, <2>1, <2>2, <2>3 DEF Current
<1>11. QED
  BY <1>7, <1>8, <1>9, <1>10 DEF IndInv

LEMMA OpenArrayPreserves ==
  ASSUME IndInv, OpenArray
  PROVE  IndInv'
<1> DEFINE t == Target.id
           ar == ObsAt(Target.arena, t)
           br == EnsureArray(ar, t)
           cr == [br EXCEPT ![t].array.obs = @ + 1]
<1>1. /\ AwaitsValue /\ arena' = cr /\ stack' = Append(StackAfterTarget, ArrayFrame(t))
      /\ pending' = None /\ calls' = Append(calls, Call("array"))
  BY DEF OpenArray, ArrayBegin
<1>2. /\ Grows(arena, Target.arena) /\ IsArena(Target.arena) /\ t \in DOMAIN Target.arena
      /\ Frames(StackAfterTarget, arena) /\ Matching(StackAfterTarget, calls)
  BY <1>1, TargetGrows
<1>3. IsArena(arena)
  BY DEF IndInv
<1>4. Grows(Target.arena, ar) /\ IsArena(ar) /\ t \in DOMAIN ar
  BY <1>2, ObsAtGrows DEF Grows
<1> HIDE DEF ar
<1>5. Grows(ar, br) /\ IsArena(br) /\ t \in DOMAIN br /\ HasArray(br[t])
  BY <1>4, EnsureArrayGrows, GrowsDomain DEF Grows
<1> HIDE DEF br
<1>6. Grows(br, cr) /\ t \in DOMAIN cr /\ HasArray(cr[t])
  BY <1>5, ArrayObsGrow
<1> HIDE DEF cr
<1>7. Grows(arena, cr)
  BY <1>2, <1>3, <1>4, <1>5, <1>6, GrowsOn
<1> DEFINE f == ArrayFrame(t)
<1>8. IsFrame(f, cr) /\ f.pendingKey = None /\ f.kind = "array"
  BY <1>6 DEF IsFrame, ArrayFrame
<1> HIDE DEF f, t
<1>9. stack' = Append(StackAfterTarget, f) /\ calls' = Append(calls, Call(f.kind))
  BY <1>1, <1>8 DEF f
<1>10. QED
  BY <1>1, <1>2, <1>7, <1>8, <1>9, OpenedPreserves

LEMMA OpenObjectPreserves ==
  ASSUME IndInv, OpenObject
  PROVE  IndInv'
<1> DEFINE t == Target.id
           ar == ObsAt(Target.arena, t)
           br == EnsureObject(ar, t)
           cr == [br EXCEPT ![t].object.obs = @ + 1]
<1>1. /\ AwaitsValue /\ arena' = cr /\ stack' = Append(StackAfterTarget, ObjectFrame(t))
      /\ pending' = None /\ calls' = Append(calls, Call("object"))
  BY DEF OpenObject, ObjectBegin
<1>2. /\ Grows(arena, Target.arena) /\ IsArena(Target.arena) /\ t \in DOMAIN Target.arena
      /\ Frames(StackAfterTarget, arena) /\ Matching(StackAfterTarget, calls)
  BY <1>1, TargetGrows
<1>3. IsArena(arena)
  BY DEF IndInv
<1>4. Grows(Target.arena, ar) /\ IsArena(ar) /\ t \in DOMAIN ar
  BY <1>2, ObsAtGrows DEF Grows
<1> HIDE DEF ar
<1>5. Grows(ar, br) /\ IsArena(br) /\ t \in DOMAIN br /\ HasObject(br[t])
  BY <1>4, EnsureObjectGrows, GrowsDomain DEF Grows
<1> HIDE DEF br
<1>6. Grows(br, cr) /\ t \in DOMAIN cr /\ HasObject(cr[t])
  BY <1>5, ObjectObsGrow
<1> HIDE DEF cr
<1>7. Grows(arena, cr)
  BY <1>2, <1>3, <1>4, <1>5, <1>6, GrowsOn
<1> DEFINE f == ObjectFrame(t)
<1>8. IsFrame(f, cr) /\ f.pendingKey = None /\ f.kind = "object"
  BY <1>6 DEF IsFrame, ObjectFrame
<1> HIDE DEF f, t
<1>9. stack' = Append(StackAfterTarget, f) /\ calls' = Append(calls, Call(f.kind))
  BY <1>1, <1>8 DEF f
<1>10. QED
  BY <1>1, <1>2, <1>7, <1>8, <1>9, OpenedPreserves

\* A container is left.
LEMMA Popped ==
  ASSUME IndInv, calls # <<>>, stack # <<>>
  PROVE  /\ Frames(Pop(stack), arena) /\ Matching(Pop(stack), Pop(calls))
         /\ Pop(calls)[Len(Pop(calls))].awaits
<1> DEFINE d == Len(stack)
           st == Pop(stack)
           cs == Pop(calls)
<1>1. /\ Sequence(stack) /\ d \in Nat /\ d >= 1 /\ DOMAIN stack = 1 .. d /\ Matching(stack, calls)
      /\ Sequence(calls) /\ Len(calls) = d + 1 /\ DOMAIN calls = 1 .. d + 1
  BY LastCall DEF IndInv, Frames
<1>2. d + 1 - 1 = d
  BY <1>1
<1>3. /\ Sequence(st) /\ Len(st) = d - 1
      /\ \A i \in 1 .. d - 1 : st[i] = stack[i]
  BY <1>1, SequencePop
<1>4. Sequence(cs) /\ Len(cs) = d /\ \A i \in 1 .. d : cs[i] = calls[i]
  BY <1>1, <1>2, SequencePop
<1>5. DOMAIN st = 1 .. d - 1 /\ DOMAIN cs = 1 .. d
  BY <1>3, <1>4, SequenceLen
<1>6. /\ d - 1 + 1 = d /\ 1 \in 1 .. d /\ d \in 1 .. d
      /\ 1 .. d \subseteq 1 .. d + 1
      /\ \A i \in 1 .. d - 1 : i \in 1 .. d /\ i + 1 \in 1 .. d
  BY <1>1
<1>7. \A i \in DOMAIN stack : calls[i].awaits
  BY <1>1 DEF Matching
<1> HIDE DEF d, st, cs
<1>8. Frames(st, arena)
  BY <1>1, <1>3, <1>5, <1>6 DEF Frames, IndInv
<1>9. Matching(st, cs)
  <2>1. \A i \in DOMAIN cs : DOMAIN cs[i] = {"where", "awaits", "lastKey"} /\ cs[i].awaits \in BOOLEAN
    BY <1>1, <1>4, <1>5, <1>6 DEF Matching
  <2>2. cs[1].where = "document"
    BY <1>1, <1>4, <1>6 DEF Matching
  <2>3. ASSUME NEW i \in DOMAIN st
        PROVE  /\ cs[i + 1].where = st[i].kind
               /\ cs[i].awaits
               /\ st[i].kind = "object" => (st[i].pendingKey # None <=> cs[i + 1].awaits)
               /\ st[i].kind = "array" => cs[i + 1].awaits
    <3>1. cs[i] = calls[i] /\ cs[i + 1] = calls[i + 1] /\ st[i] = stack[i] /\ i \in DOMAIN stack
      BY <1>1, <1>3, <1>4, <1>5, <1>6
    <3>2. QED
      BY <1>1, <3>1 DEF Matching
  <2>4. QED
    BY <1>3, <1>4, <1>6, <2>1, <2>2, <2>3 DEF Matching
<1>10. cs[Len(cs)].awaits
  BY <1>1, <1>4, <1>6, <1>7
<1>11. QED
  BY <1>8, <1>9, <1>10 DEF st, cs

\* The call of a container has its frame.
LEMMA WalkingFrame ==
  ASSUME IndInv, NEW where \in {"object", "array"}, Walking(where)
  PROVE  /\ stack # <<>> /\ Len(stack) \in DOMAIN stack /\ stack[Len(stack)].kind = where
         /\ IsFrame(stack[Len(stack)], arena)
         /\ Matching(stack, calls) /\ Sequence(stack)
<1>1. Matching(stack, calls) /\ Sequence(stack) /\ calls[Len(calls)].where = where
  BY DEF IndInv, Frames, Walking, Current
<1>2. stack # <<>>
  BY <1>1, LastCall
<1>3. Len(stack) \in DOMAIN stack /\ stack[Len(stack)].kind = where
  BY <1>1, <1>2, LastCall
<1>4. QED
  BY <1>1, <1>2, <1>3 DEF IndInv, Frames

LEMMA CloseArrayPreserves ==
  ASSUME IndInv, CloseArray
  PROVE  IndInv'
<1> DEFINE f == Top(stack)
           br == [arena EXCEPT ![f.node].array.lengthSum = @ + f.position,
                               ![f.node].array.lengths = Tick(@, f.position)]
<1>1. /\ Walking("array") /\ calls # <<>> /\ calls' = Return(Pop(calls)) /\ pending' = pending
      /\ EmitChildSig(br, Pop(stack), ArraySig(f.children))
  BY DEF CloseArray, ArrayEnd, Walking
<1>2. stack # <<>> /\ IsFrame(f, arena)
  BY <1>1, WalkingFrame DEF Top
<1>3. pending' = None
  BY <1>1 DEF IndInv, Walking
<1>4. Grows(arena, br) /\ IsArena(br) /\ IsArena(arena)
  BY <1>2, LengthsGrow DEF IndInv, IsFrame, Grows
<1> HIDE DEF br, f
<1>5. /\ Frames(Pop(stack), arena) /\ Matching(Pop(stack), Pop(calls))
      /\ Pop(calls)[Len(Pop(calls))].awaits
  BY <1>1, <1>2, Popped
<1>6. Frames(Pop(stack), br)
  BY <1>4, <1>5, FramesGrow
<1>7. QED
  BY <1>1, <1>3, <1>4, <1>5, <1>6, EmittedPreserves

LEMMA CloseObjectPreserves ==
  ASSUME IndInv, CloseObject
  PROVE  IndInv'
<1> DEFINE f == Top(stack)
           n == Cardinality(f.children)
           br == [arena EXCEPT ![f.node].object.keyCounts = Tick(@, n)]
<1>1. /\ Walking("object") /\ ~Current.awaits
      /\ calls # <<>> /\ calls' = Return(Pop(calls)) /\ pending' = pending
      /\ EmitChildSig(br, Pop(stack), RecordSig(f.children))
  BY DEF CloseObject, ObjectEnd, Walking
<1>2. stack # <<>> /\ IsFrame(f, arena)
  BY <1>1, WalkingFrame DEF Top
<1>3. pending' = None
  BY <1>1 DEF IndInv
<1> HIDE DEF n, f
<1>4. Grows(arena, br) /\ IsArena(br) /\ IsArena(arena)
  <2>1. IsArena(arena) /\ f.node \in DOMAIN arena
    BY <1>2 DEF IndInv, IsFrame
  <2>2. Grows(arena, br)
    BY <2>1, KeyCountsGrow
  <2>3. QED
    BY <2>1, <2>2 DEF Grows
<1> HIDE DEF br
<1>5. /\ Frames(Pop(stack), arena) /\ Matching(Pop(stack), Pop(calls))
      /\ Pop(calls)[Len(Pop(calls))].awaits
  BY <1>1, <1>2, Popped
<1>6. Frames(Pop(stack), br)
  BY <1>4, <1>5, FramesGrow
<1>7. QED
  BY <1>1, <1>3, <1>4, <1>5, <1>6, EmittedPreserves

LEMMA DriveKeyPreserves ==
  ASSUME IndInv, NEW key \in Key, DriveKey(key)
  PROVE  IndInv'
<1> DEFINE d == Len(stack)
           o == stack[d].node
           child == ObjectChild(arena, o, key)
           br == [child.arena EXCEPT ![o].object.keyCountSum = @ + 1,
                               ![o].object.keyStats = Tick(@, key)]
           st == [stack EXCEPT ![d].pendingKey = key]
           cs == [calls EXCEPT ![Len(calls)].awaits = TRUE, ![Len(calls)].lastKey = key]
<1>1. /\ Walking("object") /\ calls # <<>> /\ arena' = br /\ pending' = child.id
      /\ stack' = st /\ calls' = cs
  BY DEF DriveKey, ObjectKey, Walking, Top
<1>2. /\ d \in DOMAIN stack /\ stack[d].kind = "object" /\ IsFrame(stack[d], arena)
      /\ Matching(stack, calls) /\ Sequence(stack) /\ IsArena(arena)
      /\ \A i \in DOMAIN stack : IsFrame(stack[i], arena)
  BY <1>1, WalkingFrame DEF IndInv, Frames
<1>3. /\ d \in Nat /\ DOMAIN stack = 1 .. d
      /\ Sequence(calls) /\ Len(calls) = d + 1 /\ DOMAIN calls = 1 .. d + 1
  BY <1>2, LastCall
<1>4. Grows(arena, child.arena) /\ child.id \in Ref(Len(child.arena)) /\ IsArena(child.arena)
  BY <1>2, ObjectChildGrows DEF IsFrame, Grows
<1>5. o \in DOMAIN child.arena
  BY <1>2, <1>4, GrowsDomain DEF IsFrame
<1>6. child.id \in DOMAIN child.arena /\ child.id # None
  BY <1>4, ArenaLen, NoneAssumption DEF Ref
<1>7. \A i \in DOMAIN stack :
        /\ DOMAIN st[i] = DOMAIN stack[i] /\ st[i].kind = stack[i].kind
        /\ st[i].node = stack[i].node /\ st[i].position = stack[i].position
        /\ i # d => st[i].pendingKey = stack[i].pendingKey
        /\ i = d => st[i].pendingKey = key
  BY <1>2 DEF IsFrame
<1>8. st = [i \in DOMAIN stack |-> st[i]]
  OBVIOUS
<1>9. \A i \in DOMAIN calls :
        /\ DOMAIN cs[i] = {"where", "awaits", "lastKey"} /\ cs[i].where = calls[i].where
        /\ cs[i].awaits = IF i = d + 1 THEN TRUE ELSE calls[i].awaits
  <2>1. \A i \in DOMAIN calls : DOMAIN calls[i] = {"where", "awaits", "lastKey"}
    BY <1>2 DEF Matching
  <2>2. QED
    BY <1>3, <2>1
<1>10. cs = [i \in DOMAIN calls |-> cs[i]]
  OBVIOUS
<1> HIDE DEF child, o, st, cs, d
<1>11. Grows(child.arena, br)
  BY <1>4, <1>5, KeyCountSumGrows
<1> HIDE DEF br
<1>12. Grows(arena, br) /\ IsArena(br) /\ DOMAIN child.arena \subseteq DOMAIN br
  <2>1. IsArena(br)
    BY <1>11 DEF Grows
  <2>2. Grows(arena, br)
    BY <1>2, <1>4, <1>11, GrowsOn
  <2>3. DOMAIN child.arena \subseteq DOMAIN br
    BY <1>4, <1>11, GrowsDomain
  <2>4. QED
    BY <2>1, <2>2, <2>3
<1>13. Sequence(st) /\ Len(st) = d /\ DOMAIN st = DOMAIN stack
  BY <1>2, <1>8, SequenceSame DEF d
<1>14. Sequence(cs) /\ Len(cs) = d + 1 /\ DOMAIN cs = DOMAIN calls
  BY <1>3, <1>10, SequenceSame
<1>15. Frames(stack, br)
  BY <1>2, <1>12, FramesGrow DEF IndInv
<1>16. Frames(st, br)
  BY <1>7, <1>13, <1>15 DEF Frames, IsFrame
<1>17. Matching(st, cs)
  <2>1. /\ 1 \in 1 .. d + 1
        /\ \A i \in 1 .. d : i \in 1 .. d + 1 /\ i + 1 \in 1 .. d + 1 /\ i # d + 1
                             /\ (i # d => i + 1 # d + 1)
    BY <1>3
  <2>2. \A i \in DOMAIN cs : DOMAIN cs[i] = {"where", "awaits", "lastKey"} /\ cs[i].awaits \in BOOLEAN
    <3>1. TAKE i \in DOMAIN cs
    <3>2. calls[i].awaits \in BOOLEAN
      BY <1>2, <1>14 DEF Matching
    <3>3. QED
      BY <1>9, <1>14, <3>2
  <2>3. cs[1].where = "document"
    BY <1>2, <1>3, <1>9, <2>1 DEF Matching
  <2>4. key # None
    BY NoneAssumption
  <2>5. ASSUME NEW i \in DOMAIN st
        PROVE  /\ cs[i + 1].where = st[i].kind
               /\ cs[i].awaits
               /\ st[i].kind = "object" => (st[i].pendingKey # None <=> cs[i + 1].awaits)
               /\ st[i].kind = "array" => cs[i + 1].awaits
    <3>1. i \in DOMAIN stack /\ i \in 1 .. d
      BY <1>3, <1>13
    <3>2. /\ calls[i + 1].where = stack[i].kind
          /\ calls[i].awaits
          /\ stack[i].kind = "object" => (stack[i].pendingKey # None <=> calls[i + 1].awaits)
          /\ stack[i].kind = "array" => calls[i + 1].awaits
      BY <1>2, <3>1 DEF Matching
    <3>3. /\ cs[i + 1].where = st[i].kind /\ cs[i].awaits = calls[i].awaits
          /\ cs[i + 1].awaits = IF i = d THEN TRUE ELSE calls[i + 1].awaits
      BY <1>3, <1>7, <1>9, <2>1, <3>1, <3>2
    <3>4. CASE i # d
      BY <1>7, <3>1, <3>2, <3>3, <3>4
    <3>5. CASE i = d
      BY <1>7, <2>4, <3>1, <3>2, <3>3, <3>5
    <3>6. QED
      BY <3>4, <3>5
  <2>6. QED
    BY <1>13, <1>14, <2>2, <2>3, <2>5 DEF Matching
<1>18. calls' # <<>> /\ (Current.awaits /\ Current.where # "array")'
  <2>1. d + 1 \in DOMAIN calls /\ calls[d + 1].where = "object"
    BY <1>1, <1>3 DEF Walking, Current
  <2>2. cs[Len(cs)].awaits /\ cs[Len(cs)].where = "object"
    BY <1>9, <1>14, <2>1
  <2>3. cs # <<>>
    BY <1>13, <1>17, LastCall
  <2>4. QED
    BY <1>1, <2>2, <2>3 DEF Current
<1>19. QED
  BY <1>1, <1>6, <1>12, <1>16, <1>17, <1>18 DEF IndInv

LEMMA NextPreserves ==
  ASSUME IndInv, [Next]_vars
  PROVE  IndInv'
<1>1. CASE Next
  BY <1>1, DriveDocumentPreserves, FinishDocumentPreserves, DriveScalarPreserves,
    OpenArrayPreserves, CloseArrayPreserves, OpenObjectPreserves, DriveKeyPreserves,
    CloseObjectPreserves DEF Next
<1>2. CASE UNCHANGED vars
  BY <1>2 DEF vars, analyzerVars, IndInv, Current
<1>3. QED
  BY <1>1, <1>2

-----------------------------------------------------------------------------
\* Between any two events the calls of drive_value, the frames of the analyzer
\* and the arena fit each other: a frame for each open container, with an
\* accumulator of its kind at a node of the arena.
THEOREM Invariant == Spec => []IndInv
<1>1. QED
  BY InitIndInv, NextPreserves, PTL DEF Spec

\* No event of any documents panics the analyzer or trips one of its
\* assertions, with any keys and caps (analyzer.rs, JsonEventSink).
THEOREM NeverPanicsHolds == Spec => []NeverPanics
<1>1. IndInv => NeverPanics
  <2>1. HAVE IndInv
  <2>2. AwaitsValue => HasTarget
    BY <2>1, HasTargetHolds
  <2>3. Walking("array") => InArray(stack)
    BY <2>1, WalkingFrame DEF InArray
  <2>4. ASSUME Walking("object"), ~Current.awaits
        PROVE  InObject(stack) /\ Top(stack).pendingKey = None
    <3>1. /\ stack # <<>> /\ Len(stack) \in DOMAIN stack /\ stack[Len(stack)].kind = "object"
          /\ Matching(stack, calls) /\ Sequence(stack)
      BY <2>1, <2>4, WalkingFrame
    <3>2. Len(calls) = Len(stack) + 1
      BY <3>1, LastCall
    <3>3. stack[Len(stack)].pendingKey # None <=> calls[Len(stack) + 1].awaits
      BY <3>1 DEF Matching
    <3>4. QED
      BY <2>4, <3>1, <3>2, <3>3 DEF InObject, Top, Current
  <2>5. ASSUME NEW i \in DOMAIN stack
        PROVE  LET n == arena[stack[i].node]
               IN /\ stack[i].kind = "object" => HasObject(n)
                  /\ stack[i].kind = "array" => HasArray(n)
                  /\ stack[i].kind = "object" /\ i < Len(stack) => stack[i].pendingKey # None
    <3>1. IsFrame(stack[i], arena)
      BY <2>1 DEF IndInv, Frames
    <3>2. ASSUME stack[i].kind = "object", i < Len(stack)
          PROVE  stack[i].pendingKey # None
      <4>1. Len(stack) \in Nat /\ DOMAIN stack = 1 .. Len(stack)
        BY <2>1, SequenceLen DEF IndInv, Frames
      <4>2. i + 1 \in DOMAIN stack /\ stack # <<>>
        BY <3>2, <4>1, SequenceEmpty
      <4>3. Matching(stack, calls)
        BY <2>1, <4>2 DEF IndInv
      <4>4. calls[i + 1].awaits
        BY <4>2, <4>3 DEF Matching
      <4>5. QED
        BY <3>2, <4>3, <4>4 DEF Matching
    <3>3. QED
      BY <3>1, <3>2 DEF IsFrame
  <2>6. calls = <<>> => Quiescent
    BY <2>1 DEF IndInv, Quiescent
  <2>7. ASSUME Walking("document")
        PROVE  stack = <<>>
    <3>1. Matching(stack, calls) /\ Sequence(stack) /\ calls[Len(calls)].where = "document"
      BY <2>1, <2>7 DEF IndInv, Frames, Walking, Current
    <3>2. ASSUME stack # <<>>
          PROVE  FALSE
      <4>1. Len(stack) \in DOMAIN stack /\ stack[Len(stack)].kind = "document"
        BY <3>1, <3>2, LastCall
      <4>2. QED
        BY <2>1, <4>1 DEF IndInv, Frames, IsFrame
    <3>3. QED
      BY <3>2
  <2>8. QED
    BY <2>2, <2>3, <2>4, <2>5, <2>6, <2>7 DEF NeverPanics
<1>2. QED
  BY <1>1, Invariant, PTL

\* Every reference of a node points into the arena, and none to the root
\* (analyzer.rs, NodeId).
THEOREM ReferencesInArena == Spec => [](\A t \in Nodes : Children(t) \subseteq Nodes \ {Root})
<1>1. IndInv => \A t \in Nodes : Children(t) \subseteq Nodes \ {Root}
  <2>1. HAVE IndInv
  <2>2. TAKE t \in Nodes
  <2>3. IsNode(arena[t], Len(arena)) /\ IsArena(arena)
    BY <2>1 DEF IndInv, IsArena, Nodes
  <2>4. Ref(Len(arena)) \subseteq Nodes \ {Root}
    BY <2>3, ArenaLen DEF Ref, Nodes, Root
  <2>5. FieldNodes(t) \subseteq Ref(Len(arena))
    BY <2>3 DEF FieldNodes, Fields, IsNode, IsObject
  <2>6. PositionNodes(t) \subseteq Ref(Len(arena))
    <3>1. CASE t \in Arrays
      BY <2>3, <3>1 DEF PositionNodes, Positional, IsNode, IsArray
    <3>2. CASE t \notin Arrays
      <4>1. DOMAIN <<>> = {}
        BY SequenceEmpty
      <4>2. QED
        BY <3>2, <4>1 DEF PositionNodes, Positional
    <3>3. QED
      BY <3>1, <3>2
  <2>7. Overflow(t) \subseteq Ref(Len(arena))
    BY <2>3 DEF Overflow, Objects, Arrays, HasObject, HasArray, IsNode, IsObject, IsArray
  <2>8. QED
    BY <2>4, <2>5, <2>6, <2>7 DEF Children
<1>2. QED
  BY <1>1, Invariant, PTL

-----------------------------------------------------------------------------
(* The places of a node that refer to others, and what they refer to.      *)
ObjectSlots(v) ==
  IF HasObject(v) THEN {<<"key", k>> : k \in DOMAIN v.object.fields} \cup {<<"object", 0>>}
  ELSE {}
ArraySlots(v) ==
  IF HasArray(v) THEN {<<"item", i>> : i \in DOMAIN v.array.positional} \cup {<<"array", 0>>}
  ELSE {}
SlotsOf(v) == ObjectSlots(v) \cup ArraySlots(v)

At(v, s) ==
  IF s[1] = "key" THEN v.object.fields[s[2]]
  ELSE IF s[1] = "item" THEN v.array.positional[s[2]]
  ELSE IF s[1] = "object" THEN v.object.mapValue
  ELSE v.array.bagValue

\* No two slots share a node.
Separate(ar) ==
  \A t, u \in DOMAIN ar : \A s \in SlotsOf(ar[t]), r \in SlotsOf(ar[u]) :
    At(ar[t], s) = At(ar[u], r) => t = u /\ s = r

\* Views are full when they give up, and until then overflow nodes are unused.
ObjectFull(v, ar) ==
  HasObject(v) =>
    /\ IsFiniteSet(DOMAIN v.object.fields) /\ Cardinality(DOMAIN v.object.fields) <= RecordCap
    /\ v.object.recordAlive => ar[v.object.mapValue].obs = 0
    /\ ~v.object.recordAlive => Cardinality(DOMAIN v.object.fields) = RecordCap
ArrayFull(v, ar) ==
  HasArray(v) =>
    /\ Len(v.array.positional) <= PositionalCap
    /\ v.array.positionalAlive => ar[v.array.bagValue].obs = 0
    /\ ~v.array.positionalAlive => Len(v.array.positional) = PositionalCap
Full(ar) == \A t \in DOMAIN ar : ObjectFull(ar[t], ar) /\ ArrayFull(ar[t], ar)

Good(ar) == IsArena(ar) /\ Separate(ar) /\ Full(ar)

\* c is no overflow node of a view that is alive.
Usable(ar, c) ==
  \A t \in DOMAIN ar :
    /\ HasObject(ar[t]) /\ ar[t].object.recordAlive => c # ar[t].object.mapValue
    /\ HasArray(ar[t]) /\ ar[t].array.positionalAlive => c # ar[t].array.bagValue

\* A view that is alive was alive, and its positions have not become fewer.
ViewsGrow(ar, br) ==
  \A a \in DOMAIN ar :
    HasArray(ar[a]) /\ br[a].array.positionalAlive =>
      ar[a].array.positionalAlive /\ Len(ar[a].array.positional) <= Len(br[a].array.positional)

\* br is what ar may become.
Ripens(ar, br) ==
  /\ Grows(ar, br) /\ Good(br)
  /\ \A c \in DOMAIN ar : Usable(ar, c) => Usable(br, c)
  /\ ViewsGrow(ar, br)

LEMMA RipensSame == \A ar : Good(ar) => Ripens(ar, ar)
<1>1. TAKE ar
<1>2. HAVE Good(ar)
<1>3. Grows(ar, ar)
  BY <1>2, GrowsSame DEF Good
<1>4. ASSUME NEW a \in DOMAIN ar
      PROVE  Len(ar[a].array.positional) <= Len(ar[a].array.positional)
  <2>1. Len(ar[a].array.positional) \in Nat
    BY <1>2, SequenceLen DEF Good, IsArena, IsNode, IsArray
  <2>2. QED
    BY <2>1
<1>5. QED
  BY <1>2, <1>3, <1>4 DEF Ripens, ViewsGrow

LEMMA RipensOn ==
  ASSUME NEW ar, Good(ar), NEW br, Ripens(ar, br), NEW cr, Ripens(br, cr)
  PROVE  Ripens(ar, cr)
<1>1. IsArena(ar) /\ IsArena(br) /\ IsArena(cr) /\ Grows(ar, br) /\ Grows(br, cr)
  BY DEF Good, Ripens
<1>2. Grows(ar, cr) /\ DOMAIN ar \subseteq DOMAIN br /\ DOMAIN br \subseteq DOMAIN cr
  BY <1>1, GrowsOn, GrowsDomain
<1>3. \A c \in DOMAIN ar : Usable(ar, c) => Usable(cr, c)
  BY <1>2 DEF Ripens
<1>4. ASSUME NEW a \in DOMAIN ar, HasArray(ar[a]), cr[a].array.positionalAlive
      PROVE  ar[a].array.positionalAlive /\ Len(ar[a].array.positional) <= Len(cr[a].array.positional)
  <2>1. HasArray(br[a]) /\ a \in DOMAIN br /\ a \in DOMAIN cr
    BY <1>1, <1>2, <1>4 DEF Grows, Keeps
  <2>2. br[a].array.positionalAlive /\ Len(br[a].array.positional) <= Len(cr[a].array.positional)
    BY <1>4, <2>1 DEF Ripens, ViewsGrow
  <2>3. ar[a].array.positionalAlive /\ Len(ar[a].array.positional) <= Len(br[a].array.positional)
    BY <1>4, <2>2, Zenon DEF Ripens, ViewsGrow
  <2>4. /\ Len(ar[a].array.positional) \in Nat /\ Len(br[a].array.positional) \in Nat
        /\ Len(cr[a].array.positional) \in Nat
    BY <1>1, <2>1, SequenceLen DEF IsArena, IsNode, IsArray
  <2>5. \A i, j, k \in Nat : i <= j /\ j <= k => i <= k
    OBVIOUS
  <2>6. QED
    BY <2>2, <2>3, <2>4, <2>5, Zenon
<1>5. QED
  BY <1>2, <1>3, <1>4 DEF Ripens, ViewsGrow

\* What a slot refers to.
LEMMA SlotRef ==
  ASSUME NEW n, NEW v, IsNode(v, n), NEW s \in SlotsOf(v)
  PROVE  At(v, s) \in Ref(n)
<1>1. CASE HasObject(v) /\ s \in {<<"key", k>> : k \in DOMAIN v.object.fields}
  BY <1>1 DEF At, IsNode, IsObject
<1>2. CASE HasArray(v) /\ s \in {<<"item", i>> : i \in DOMAIN v.array.positional}
  BY <1>2 DEF At, IsNode, IsArray
<1>3. CASE s = <<"object", 0>> /\ HasObject(v)
  BY <1>3 DEF At, IsNode, IsObject, HasObject
<1>4. CASE s = <<"array", 0>> /\ HasArray(v)
  BY <1>4 DEF At, IsNode, IsArray, HasArray
<1>5. QED
  BY <1>1, <1>2, <1>3, <1>4 DEF SlotsOf, ObjectSlots, ArraySlots

LEMMA Overflows ==
  ASSUME NEW v
  PROVE  /\ HasObject(v) => <<"object", 0>> \in SlotsOf(v) /\ At(v, <<"object", 0>>) = v.object.mapValue
         /\ HasArray(v) => <<"array", 0>> \in SlotsOf(v) /\ At(v, <<"array", 0>>) = v.array.bagValue
         /\ HasObject(v) => \A k \in DOMAIN v.object.fields :
               <<"key", k>> \in SlotsOf(v) /\ At(v, <<"key", k>>) = v.object.fields[k]
         /\ HasArray(v) => \A i \in DOMAIN v.array.positional :
               <<"item", i>> \in SlotsOf(v) /\ At(v, <<"item", i>>) = v.array.positional[i]
BY DEF SlotsOf, ObjectSlots, ArraySlots, At

\* The slots of an accumulator depend on it alone.
LEMMA SlotsByPart ==
  ASSUME NEW v, NEW w
  PROVE  /\ w.object = v.object =>
              HasObject(w) = HasObject(v) /\ ObjectSlots(w) = ObjectSlots(v)
              /\ \A s \in ObjectSlots(v) : At(w, s) = At(v, s)
         /\ w.array = v.array =>
              HasArray(w) = HasArray(v) /\ ArraySlots(w) = ArraySlots(v)
              /\ \A s \in ArraySlots(v) : At(w, s) = At(v, s)
BY DEF ObjectSlots, ArraySlots, HasObject, HasArray, At

LEMMA OverflowInArena ==
  ASSUME NEW ar, IsArena(ar), NEW t \in DOMAIN ar
  PROVE  /\ HasObject(ar[t]) => ar[t].object.mapValue \in Ref(Len(ar)) /\ ar[t].object.mapValue \in DOMAIN ar
         /\ HasArray(ar[t]) => ar[t].array.bagValue \in Ref(Len(ar)) /\ ar[t].array.bagValue \in DOMAIN ar
<1>1. IsNode(ar[t], Len(ar)) /\ Ref(Len(ar)) \subseteq DOMAIN ar
  BY ArenaLen DEF IsArena, Ref
<1>2. QED
  BY <1>1 DEF IsNode, IsObject, IsArray, HasObject, HasArray

-----------------------------------------------------------------------------
(* Steps of the arena.                                                     *)
LEMMA SameRefsSlots ==
  ASSUME NEW v, NEW w, SameRefs(v, w)
  PROVE  /\ SlotsOf(w) = SlotsOf(v) /\ \A s : At(w, s) = At(v, s)
         /\ HasObject(w) = HasObject(v) /\ HasArray(w) = HasArray(v)
BY DEF SameRefs, SlotsOf, ObjectSlots, ArraySlots, At, HasObject, HasArray

\* Nothing is attached and nothing observed.
SameDates(v, w) == w.obs = v.obs /\ w.firstDoc = v.firstDoc /\ w.lastDoc = v.lastDoc
Quiet(ar, b) ==
  /\ DOMAIN b = DOMAIN ar
  /\ \A u \in DOMAIN ar : SameRefs(ar[u], b[u]) /\ SameDates(ar[u], b[u])

LEMMA QuietOne ==
  ASSUME NEW ar, NEW t \in DOMAIN ar, NEW b,
         b = [u \in DOMAIN ar |-> IF u = t THEN b[t] ELSE ar[u]],
         SameRefs(ar[t], b[t]), SameDates(ar[t], b[t])
  PROVE  Quiet(ar, b)
<1>1. DOMAIN b = DOMAIN ar /\ \A u \in DOMAIN ar : u # t => b[u] = ar[u]
  OBVIOUS
<1>2. QED
  BY <1>1 DEF Quiet, SameRefs, SameDates

\* The views of a node stay as they are or give up for being full.
ViewsKept(v, w) ==
  /\ w.object.recordAlive => v.object.recordAlive
  /\ HasObject(v) /\ ~w.object.recordAlive => Cardinality(DOMAIN v.object.fields) = RecordCap
  /\ w.array.positionalAlive => v.array.positionalAlive
  /\ HasArray(v) /\ ~w.array.positionalAlive => Len(v.array.positional) = PositionalCap

LEMMA ViewsSame ==
  ASSUME NEW ar, Full(ar), NEW t \in DOMAIN ar, NEW w,
         w.object.recordAlive = ar[t].object.recordAlive,
         w.array.positionalAlive = ar[t].array.positionalAlive
  PROVE  ViewsKept(ar[t], w)
BY Zenon DEF ViewsKept, Full, ObjectFull, ArrayFull

\* Nodes that no alive view keeps for later count, and views give up.
LEMMA CountsRipen ==
  ASSUME NEW ar, Good(ar), NEW b, Grows(ar, b), DOMAIN b = DOMAIN ar,
         \A u \in DOMAIN ar : SameRefs(ar[u], b[u]) /\ ViewsKept(ar[u], b[u]),
         \A u \in DOMAIN ar : b[u].obs = ar[u].obs \/ Usable(ar, u)
  PROVE  Ripens(ar, b)
<1>1. IsArena(ar) /\ Separate(ar) /\ Full(ar)
  BY DEF Good
<1>2. Grows(ar, b) /\ DOMAIN b = DOMAIN ar
  OBVIOUS
<1>4. \A u \in DOMAIN ar : SameRefs(ar[u], b[u])
  OBVIOUS
<1>5. \A u \in DOMAIN ar : ViewsKept(ar[u], b[u])
  OBVIOUS
<1>6. Separate(b)
  <2>1. \A u \in DOMAIN b : u \in DOMAIN ar /\ SlotsOf(b[u]) = SlotsOf(ar[u]) /\ \A s : At(b[u], s) = At(ar[u], s)
    BY <1>2, <1>4, SameRefsSlots
  <2>2. ASSUME NEW u \in DOMAIN b, NEW v \in DOMAIN b, NEW s \in SlotsOf(b[u]), NEW r \in SlotsOf(b[v]),
               At(b[u], s) = At(b[v], r)
        PROVE  u = v /\ s = r
    <3>1. /\ u \in DOMAIN ar /\ v \in DOMAIN ar
          /\ s \in SlotsOf(ar[u]) /\ r \in SlotsOf(ar[v])
      BY <2>1, <2>2
    <3>2. At(ar[u], s) = At(ar[v], r)
      BY <2>1, <2>2
    <3>3. QED
      BY <1>1, <3>1, <3>2, Zenon DEF Separate
  <2>3. QED
    BY <2>2, Zenon DEF Separate
<1>7. \A c \in DOMAIN ar : Usable(ar, c) => Usable(b, c)
  <2>1. TAKE c \in DOMAIN ar
  <2>2. HAVE Usable(ar, c)
  <2>3. ASSUME NEW u \in DOMAIN b
        PROVE  /\ HasObject(b[u]) /\ b[u].object.recordAlive => c # b[u].object.mapValue
               /\ HasArray(b[u]) /\ b[u].array.positionalAlive => c # b[u].array.bagValue
    <3>1. u \in DOMAIN ar /\ HasObject(b[u]) = HasObject(ar[u]) /\ HasArray(b[u]) = HasArray(ar[u])
      BY <1>2, <1>4, SameRefsSlots
    <3>2. b[u].object.mapValue = ar[u].object.mapValue /\ b[u].array.bagValue = ar[u].array.bagValue
      BY <1>4, <3>1 DEF SameRefs
    <3>3. QED
      BY <1>5, <2>2, <3>1, <3>2, Zenon DEF ViewsKept, Usable
  <2>4. QED
    BY <2>3, Zenon DEF Usable
\* What an alive view does not use has counted nothing.
<1>8. ASSUME NEW u \in DOMAIN ar, NEW c \in DOMAIN ar, ar[c].obs = 0,
             \/ HasObject(ar[u]) /\ ar[u].object.recordAlive /\ c = ar[u].object.mapValue
             \/ HasArray(ar[u]) /\ ar[u].array.positionalAlive /\ c = ar[u].array.bagValue
      PROVE  b[c].obs = 0
  <2>1. ~Usable(ar, c)
    BY <1>8, Zenon DEF Usable
  <2>2. QED
    BY <1>8, <2>1
<1>9. Full(b)
  <2>1. ASSUME NEW u \in DOMAIN b
        PROVE  ObjectFull(b[u], b)
    <3>1. /\ u \in DOMAIN ar /\ HasObject(b[u]) = HasObject(ar[u])
          /\ b[u].object.mapValue = ar[u].object.mapValue
          /\ b[u].object.fields = ar[u].object.fields
      BY <1>2, <1>4, SameRefsSlots DEF SameRefs
    <3>2. SUFFICES ASSUME HasObject(ar[u])
                   PROVE  /\ IsFiniteSet(DOMAIN ar[u].object.fields)
                          /\ Cardinality(DOMAIN ar[u].object.fields) <= RecordCap
                          /\ b[u].object.recordAlive => b[ar[u].object.mapValue].obs = 0
                          /\ ~b[u].object.recordAlive => Cardinality(DOMAIN ar[u].object.fields) = RecordCap
      BY <3>1, Zenon DEF ObjectFull
    <3>3. /\ IsFiniteSet(DOMAIN ar[u].object.fields)
          /\ Cardinality(DOMAIN ar[u].object.fields) <= RecordCap
          /\ ar[u].object.recordAlive => ar[ar[u].object.mapValue].obs = 0
      BY <1>1, <3>1, <3>2, Zenon DEF Full, ObjectFull
    <3>4. ar[u].object.mapValue \in DOMAIN ar
      BY <1>1, <3>1, <3>2, OverflowInArena
    <3>5. b[u].object.recordAlive => b[ar[u].object.mapValue].obs = 0
      BY <1>5, <1>8, <3>1, <3>2, <3>3, <3>4, Zenon DEF ViewsKept
    <3>6. QED
      BY <1>5, <3>1, <3>2, <3>3, <3>5, Zenon DEF ViewsKept
  <2>2. ASSUME NEW u \in DOMAIN b
        PROVE  ArrayFull(b[u], b)
    <3>1. /\ u \in DOMAIN ar /\ HasArray(b[u]) = HasArray(ar[u])
          /\ b[u].array.bagValue = ar[u].array.bagValue
          /\ b[u].array.positional = ar[u].array.positional
      BY <1>2, <1>4, SameRefsSlots DEF SameRefs
    <3>2. SUFFICES ASSUME HasArray(ar[u])
                   PROVE  /\ Len(ar[u].array.positional) <= PositionalCap
                          /\ b[u].array.positionalAlive => b[ar[u].array.bagValue].obs = 0
                          /\ ~b[u].array.positionalAlive => Len(ar[u].array.positional) = PositionalCap
      BY <3>1, Zenon DEF ArrayFull
    <3>3. /\ Len(ar[u].array.positional) <= PositionalCap
          /\ ar[u].array.positionalAlive => ar[ar[u].array.bagValue].obs = 0
      BY <1>1, <3>1, <3>2, Zenon DEF Full, ArrayFull
    <3>4. ar[u].array.bagValue \in DOMAIN ar
      BY <1>1, <3>1, <3>2, OverflowInArena
    <3>5. b[u].array.positionalAlive => b[ar[u].array.bagValue].obs = 0
      BY <1>5, <1>8, <3>1, <3>2, <3>3, <3>4, Zenon DEF ViewsKept
    <3>6. QED
      BY <1>5, <3>1, <3>2, <3>3, <3>5, Zenon DEF ViewsKept
  <2>3. QED
    BY <2>1, <2>2, Zenon DEF Full
<1>10. ViewsGrow(ar, b)
  <2>1. SUFFICES ASSUME NEW a \in DOMAIN ar, HasArray(ar[a]), b[a].array.positionalAlive
                 PROVE  /\ ar[a].array.positionalAlive
                        /\ Len(ar[a].array.positional) <= Len(b[a].array.positional)
    BY Zenon DEF ViewsGrow
  <2>2. ar[a].array.positionalAlive
    BY <1>5, <2>1, Zenon DEF ViewsKept
  <2>3. b[a].array.positional = ar[a].array.positional
    BY <1>4 DEF SameRefs
  <2>4. Len(ar[a].array.positional) \in Nat
    BY <1>1, SequenceLen DEF IsArena, IsNode, IsArray
  <2>5. \A i \in Nat : i <= i
    OBVIOUS
  <2>6. QED
    BY <2>2, <2>3, <2>4, <2>5, Zenon
<1>11. QED
  BY <1>2, <1>6, <1>7, <1>9, <1>10, Zenon DEF Ripens, Good, Grows

\* One node counts, or a view of it gives up.
LEMMA CountRipens ==
  ASSUME NEW ar, Good(ar), NEW t \in DOMAIN ar, NEW b,
         b = [u \in DOMAIN ar |-> IF u = t THEN b[t] ELSE ar[u]],
         SameRefs(ar[t], b[t]), ViewsKept(ar[t], b[t]),
         b[t].obs = ar[t].obs \/ Usable(ar, t)
  PROVE  Ripens(ar, b) /\ DOMAIN b = DOMAIN ar
<1>1. IsArena(ar) /\ Full(ar)
  BY DEF Good
<1>2. Grows(ar, b) /\ DOMAIN b = DOMAIN ar
  BY <1>1, CountGrows
<1>3. \A u \in DOMAIN ar : u # t => b[u] = ar[u]
  OBVIOUS
<1>4. \A u \in DOMAIN ar : SameRefs(ar[u], b[u])
  BY <1>3 DEF SameRefs
<1>5. \A u \in DOMAIN ar : ViewsKept(ar[u], b[u])
  <2>1. TAKE u \in DOMAIN ar
  <2>2. CASE u = t
    BY <2>2
  <2>3. CASE u # t
    BY <1>1, <1>3, <2>3, ViewsSame
  <2>4. QED
    BY <2>2, <2>3
<1>6. \A u \in DOMAIN ar : b[u].obs = ar[u].obs \/ Usable(ar, u)
  BY <1>3
<1>7. QED
  BY <1>2, <1>4, <1>5, <1>6, CountsRipen

-----------------------------------------------------------------------------
(* A node is attached.                                                     *)
LEMMA NewNodeSlots == SlotsOf(NewNode) = {} /\ ~HasObject(NewNode) /\ ~HasArray(NewNode)
<1>1. ~HasObject(NewNode) /\ ~HasArray(NewNode)
  BY DEF NewNode, NewObject, NewArray, HasObject, HasArray
<1>2. QED
  BY <1>1 DEF SlotsOf, ObjectSlots, ArraySlots

LEMMA Apart ==
  ASSUME NEW ar, Separate(ar), NEW t \in DOMAIN ar, NEW u \in DOMAIN ar,
         NEW s \in SlotsOf(ar[t]), NEW r \in SlotsOf(ar[u]), At(ar[t], s) = At(ar[u], r)
  PROVE  t = u /\ s = r
BY DEF Separate

\* Nothing refers to the next node yet.
LEMMA SlotInArena ==
  ASSUME NEW ar, IsArena(ar), NEW u \in DOMAIN ar, NEW s \in SlotsOf(ar[u])
  PROVE  At(ar[u], s) \in DOMAIN ar /\ At(ar[u], s) # FreshId(ar)
<1>1. At(ar[u], s) \in Ref(Len(ar))
  BY SlotRef DEF IsArena
<1>2. Len(ar) \in Nat /\ DOMAIN ar = 1 .. Len(ar)
  BY ArenaLen
<1>3. QED
  BY <1>1, <1>2 DEF Ref, FreshId

\* Node t of b has the new node in slot n and else what it had in ar.
Attached(ar, t, n, b) ==
  /\ DOMAIN b = DOMAIN ar \cup {FreshId(ar)}
  /\ \A u \in DOMAIN ar : u # t => b[u] = ar[u]
  /\ SameDates(ar[t], b[t])
  /\ b[FreshId(ar)] = NewNode
  /\ n \in SlotsOf(b[t]) /\ At(b[t], n) = FreshId(ar)
  /\ \A s \in SlotsOf(ar[t]) : s \in SlotsOf(b[t]) /\ At(b[t], s) = At(ar[t], s)
  /\ \A s \in SlotsOf(b[t]) :
       \/ s = n /\ At(b[t], s) = FreshId(ar)
       \/ s \in SlotsOf(ar[t]) /\ At(b[t], s) = At(ar[t], s)
  /\ HasObject(b[t]) /\ b[t].object.recordAlive =>
       \/ b[t].object.mapValue = FreshId(ar)
       \/ /\ HasObject(ar[t]) /\ ar[t].object.recordAlive
          /\ b[t].object.mapValue = ar[t].object.mapValue
  /\ HasArray(b[t]) /\ b[t].array.positionalAlive =>
       \/ b[t].array.bagValue = FreshId(ar)
       \/ /\ HasArray(ar[t]) /\ ar[t].array.positionalAlive
          /\ b[t].array.bagValue = ar[t].array.bagValue
  /\ HasArray(ar[t]) /\ b[t].array.positionalAlive =>
       ar[t].array.positionalAlive /\ Len(ar[t].array.positional) <= Len(b[t].array.positional)

\* An event moves on in the arena: at most a node is attached to t.
Moves(ar, t, b) == Quiet(ar, b) \/ \E n : Attached(ar, t, n, b)

\* c is a child of t.
Under(ar, t, c) == \E s \in SlotsOf(ar[t]) : At(ar[t], s) = c

LEMMA MovesNowhere == \A ar, t : Moves(ar, t, ar)
BY DEF Moves, Quiet, SameRefs, SameDates

LEMMA AttachRipens ==
  ASSUME NEW ar, Good(ar), NEW t \in DOMAIN ar, NEW n, NEW b, Grows(ar, b), Attached(ar, t, n, b),
         ObjectFull(b[t], b), ArrayFull(b[t], b)
  PROVE  Ripens(ar, b)
<1>1. IsArena(ar) /\ Separate(ar) /\ Full(ar) /\ IsArena(b)
  BY DEF Good, Grows
<1>2. /\ Len(ar) \in Nat /\ DOMAIN ar = 1 .. Len(ar) /\ FreshId(ar) \notin DOMAIN ar
      /\ DOMAIN b = DOMAIN ar \cup {FreshId(ar)}
  BY <1>1, ArenaLen DEF FreshId, Attached
<1>3. ASSUME NEW u \in DOMAIN b, NEW s \in SlotsOf(b[u])
      PROVE  \/ u = t /\ s = n /\ At(b[u], s) = FreshId(ar)
             \/ /\ u \in DOMAIN ar /\ s \in SlotsOf(ar[u]) /\ At(b[u], s) = At(ar[u], s)
                /\ At(b[u], s) # FreshId(ar)
  <2>1. CASE u = FreshId(ar)
    BY <1>3, <2>1, NewNodeSlots DEF Attached
  <2>2. CASE u = t
    <3>1. \/ s = n /\ At(b[t], s) = FreshId(ar)
          \/ s \in SlotsOf(ar[t]) /\ At(b[t], s) = At(ar[t], s)
      BY <1>3, <2>2 DEF Attached
    <3>2. QED
      BY <1>1, <2>2, <3>1, SlotInArena
  <2>3. CASE u \in DOMAIN ar /\ u # t
    <3>1. b[u] = ar[u]
      BY <2>3 DEF Attached
    <3>2. QED
      BY <1>1, <1>3, <2>3, <3>1, SlotInArena
  <2>4. QED
    BY <1>3, <2>1, <2>2, <2>3 DEF Attached
<1>4. Separate(b)
  <2>1. ASSUME NEW u \in DOMAIN b, NEW v \in DOMAIN b, NEW s \in SlotsOf(b[u]), NEW r \in SlotsOf(b[v]),
               At(b[u], s) = At(b[v], r)
        PROVE  u = v /\ s = r
    <3>1. CASE At(b[u], s) = FreshId(ar)
      <4>1. u = t /\ s = n
        BY <1>3, <3>1, Zenon
      <4>2. v = t /\ r = n
        BY <1>3, <2>1, <3>1, Zenon
      <4>3. QED
        BY <4>1, <4>2, Zenon
    <3>2. CASE At(b[u], s) # FreshId(ar)
      <4>1. u \in DOMAIN ar /\ s \in SlotsOf(ar[u]) /\ At(b[u], s) = At(ar[u], s)
        BY <1>3, <3>2, Zenon
      <4>2. v \in DOMAIN ar /\ r \in SlotsOf(ar[v]) /\ At(b[v], r) = At(ar[v], r)
        BY <1>3, <2>1, <3>2, Zenon
      <4>3. At(ar[u], s) = At(ar[v], r)
        BY <2>1, <4>1, <4>2, Zenon
      <4>4. QED
        BY <1>1, <4>1, <4>2, <4>3, Apart
    <3>3. QED
      BY <3>1, <3>2, Zenon
  <2>2. QED
    BY <2>1, Zenon DEF Separate
<1>5. \A c \in DOMAIN ar : b[c].obs = ar[c].obs
  BY Zenon DEF Attached, SameDates
<1>6. Full(b)
  <2>1. ASSUME NEW u \in DOMAIN b
        PROVE  ObjectFull(b[u], b) /\ ArrayFull(b[u], b)
    <3>1. CASE u = FreshId(ar)
      <4>1. ~HasObject(b[u]) /\ ~HasArray(b[u])
        BY <3>1, NewNodeSlots DEF Attached
      <4>2. QED
        BY <4>1, Zenon DEF ObjectFull, ArrayFull
    <3>2. CASE u = t
      BY <3>2
    <3>3. CASE u \in DOMAIN ar /\ u # t
      <4>1. b[u] = ar[u] /\ ObjectFull(ar[u], ar) /\ ArrayFull(ar[u], ar)
        BY <1>1, <3>3, Zenon DEF Attached, Full
      <4>2. HasObject(ar[u]) => b[ar[u].object.mapValue].obs = ar[ar[u].object.mapValue].obs
        BY <1>1, <1>5, <3>3, OverflowInArena
      <4>3. HasArray(ar[u]) => b[ar[u].array.bagValue].obs = ar[ar[u].array.bagValue].obs
        BY <1>1, <1>5, <3>3, OverflowInArena
      <4>4. ObjectFull(ar[u], b)
        BY <4>1, <4>2, Zenon DEF ObjectFull
      <4>5. ArrayFull(ar[u], b)
        BY <4>1, <4>3, Zenon DEF ArrayFull
      <4>6. QED
        BY <4>1, <4>4, <4>5, Zenon
    <3>4. QED
      BY <1>2, <2>1, <3>1, <3>2, <3>3
  <2>2. QED
    BY <2>1, Zenon DEF Full
<1>7. ASSUME NEW c \in DOMAIN ar, Usable(ar, c)
      PROVE  Usable(b, c)
  <2>1. ASSUME NEW u \in DOMAIN b
        PROVE  /\ HasObject(b[u]) /\ b[u].object.recordAlive => c # b[u].object.mapValue
               /\ HasArray(b[u]) /\ b[u].array.positionalAlive => c # b[u].array.bagValue
    <3>1. c # FreshId(ar)
      BY <1>2
    <3>2. CASE u = FreshId(ar)
      <4>1. ~HasObject(b[u]) /\ ~HasArray(b[u])
        BY <3>2, NewNodeSlots DEF Attached
      <4>2. QED
        BY <4>1, Zenon
    <3>3. CASE u = t
      BY <1>7, <3>1, <3>3, Zenon DEF Usable, Attached
    <3>4. CASE u \in DOMAIN ar /\ u # t
      BY <1>7, <3>4, Zenon DEF Usable, Attached
    <3>5. QED
      BY <1>2, <2>1, <3>2, <3>3, <3>4
  <2>2. QED
    BY <2>1, Zenon DEF Usable
<1>8. ASSUME NEW a \in DOMAIN ar, HasArray(ar[a]), b[a].array.positionalAlive
      PROVE  ar[a].array.positionalAlive /\ Len(ar[a].array.positional) <= Len(b[a].array.positional)
  <2>1. CASE a = t
    BY <1>8, <2>1, Zenon DEF Attached
  <2>2. CASE a # t
    <3>1. b[a] = ar[a]
      BY <2>2 DEF Attached
    <3>2. Len(ar[a].array.positional) \in Nat
      BY <1>1, SequenceLen DEF IsArena, IsNode, IsArray
    <3>3. \A i \in Nat : i <= i
      OBVIOUS
    <3>4. QED
      BY <1>8, <3>1, <3>2, <3>3, Zenon
  <2>3. QED
    BY <2>1, <2>2, Zenon
<1>9. QED
  BY <1>1, <1>4, <1>6, <1>7, <1>8, Zenon DEF Ripens, Good, ViewsGrow

\* A node in a slot that is no overflow slot of an alive view is usable.
LEMMA SlotUsable ==
  ASSUME NEW ar, Good(ar), NEW t \in DOMAIN ar, NEW s \in SlotsOf(ar[t]),
         s = <<"object", 0>> => ~ar[t].object.recordAlive,
         s = <<"array", 0>> => ~ar[t].array.positionalAlive
  PROVE  Usable(ar, At(ar[t], s))
<1>1. Separate(ar)
  BY DEF Good
<1>2. ASSUME NEW u \in DOMAIN ar, HasObject(ar[u]), ar[u].object.recordAlive
      PROVE  At(ar[t], s) # ar[u].object.mapValue
  <2>1. <<"object", 0>> \in SlotsOf(ar[u]) /\ At(ar[u], <<"object", 0>>) = ar[u].object.mapValue
    BY <1>2, Overflows
  <2>2. ~(u = t /\ s = <<"object", 0>>)
    BY <1>2, Zenon
  <2>3. QED
    BY <1>1, <1>2, <2>1, <2>2, Apart
<1>3. ASSUME NEW u \in DOMAIN ar, HasArray(ar[u]), ar[u].array.positionalAlive
      PROVE  At(ar[t], s) # ar[u].array.bagValue
  <2>1. <<"array", 0>> \in SlotsOf(ar[u]) /\ At(ar[u], <<"array", 0>>) = ar[u].array.bagValue
    BY <1>3, Overflows
  <2>2. ~(u = t /\ s = <<"array", 0>>)
    BY <1>3, Zenon
  <2>3. QED
    BY <1>1, <1>3, <2>1, <2>2, Apart
<1>4. QED
  BY <1>2, <1>3, Zenon DEF Usable

-----------------------------------------------------------------------------
(* Who attaches.                                                           *)
LEMMA AllocNodes ==
  ASSUME NEW ar, IsArena(ar)
  PROVE  /\ DOMAIN Alloc(ar) = DOMAIN ar \cup {FreshId(ar)}
         /\ FreshId(ar) \notin DOMAIN ar /\ FreshId(ar) # None
         /\ Alloc(ar)[FreshId(ar)] = NewNode
         /\ \A u \in DOMAIN ar : Alloc(ar)[u] = ar[u]
<1>1. Len(ar) \in Nat /\ DOMAIN ar = 1 .. Len(ar) /\ Sequence(ar)
  BY ArenaLen DEF IsArena
<1>2. /\ Sequence(Alloc(ar)) /\ Len(Alloc(ar)) = Len(ar) + 1
      /\ \A u \in DOMAIN ar : Alloc(ar)[u] = ar[u]
      /\ Alloc(ar)[Len(ar) + 1] = NewNode
  BY <1>1, SequenceAppend DEF Alloc
<1>3. DOMAIN Alloc(ar) = 1 .. Len(ar) + 1
  BY <1>2, SequenceLen
<1>4. QED
  BY <1>1, <1>2, <1>3, NoneAssumption DEF FreshId

\* A view that did not change is full if it was.
LEMMA FullSame ==
  ASSUME NEW ar, IsArena(ar), Full(ar), NEW t \in DOMAIN ar, NEW b, NEW w,
         \A c \in DOMAIN ar : b[c].obs = ar[c].obs
  PROVE  /\ w.object = ar[t].object => ObjectFull(w, b)
         /\ w.array = ar[t].array => ArrayFull(w, b)
<1>1. ObjectFull(ar[t], ar) /\ ArrayFull(ar[t], ar)
  BY Zenon DEF Full
<1>2. HasObject(ar[t]) => b[ar[t].object.mapValue].obs = ar[ar[t].object.mapValue].obs
  BY OverflowInArena
<1>3. HasArray(ar[t]) => b[ar[t].array.bagValue].obs = ar[ar[t].array.bagValue].obs
  BY OverflowInArena
<1>4. ASSUME w.object = ar[t].object
      PROVE  ObjectFull(w, b)
  BY <1>1, <1>2, <1>4, Zenon DEF ObjectFull, HasObject
<1>5. ASSUME w.array = ar[t].array
      PROVE  ArrayFull(w, b)
  BY <1>1, <1>3, <1>5, Zenon DEF ArrayFull, HasArray
<1>6. QED
  BY <1>4, <1>5

LEMMA EnsureObjectRipens ==
  ASSUME NEW ar, Good(ar), NEW t \in DOMAIN ar
  PROVE  Ripens(ar, EnsureObject(ar, t)) /\ Moves(ar, t, EnsureObject(ar, t))
<1>1. CASE HasObject(ar[t])
  BY <1>1, RipensSame, MovesNowhere DEF EnsureObject
<1>2. CASE ~HasObject(ar[t])
  <2> DEFINE new == FreshId(ar)
             b == [Alloc(ar) EXCEPT ![t].object = NewObject(new)]
  <2>1. IsArena(ar) /\ Full(ar) /\ Grows(ar, EnsureObject(ar, t)) /\ EnsureObject(ar, t) = b
    BY <1>2, EnsureObjectGrows DEF Good, EnsureObject
  <2>2. /\ DOMAIN b = DOMAIN ar \cup {new} /\ new \notin DOMAIN ar /\ new # None
        /\ b[new] = NewNode
        /\ \A u \in DOMAIN ar : u # t => b[u] = ar[u]
        /\ b[t] = [ar[t] EXCEPT !.object = NewObject(new)]
    BY <2>1, AllocNodes
  <2>3. IsNode(ar[t], Len(ar))
    BY <2>1 DEF IsArena
  <2>4. SameDates(ar[t], b[t]) /\ b[t].object = NewObject(new) /\ b[t].array = ar[t].array
    BY <2>2, <2>3 DEF IsNode, SameDates
  <2> HIDE DEF b, new
  <2>5. /\ b[t].object.mapValue = new /\ b[t].object.recordAlive
        /\ DOMAIN b[t].object.fields = {}
    BY <2>4 DEF NewObject
  <2>6. \A c \in DOMAIN ar : b[c].obs = ar[c].obs
    BY <2>2, <2>4, Zenon DEF SameDates
  <2>7. ArrayFull(b[t], b)
    BY <2>1, <2>4, <2>6, FullSame
  <2>8. ObjectFull(b[t], b)
    <3>1. IsFiniteSet({}) /\ Cardinality({}) <= RecordCap /\ NewNode.obs = 0
      BY FS_EmptySet, CapsAssumption DEF NewNode
    <3>2. QED
      BY <2>2, <2>5, <3>1, Zenon DEF ObjectFull
  <2>9. /\ SlotsOf(b[t]) = SlotsOf(ar[t]) \cup {<<"object", 0>>}
        /\ At(b[t], <<"object", 0>>) = new
        /\ \A s \in SlotsOf(ar[t]) : At(b[t], s) = At(ar[t], s)
    <3>1. ArraySlots(b[t]) = ArraySlots(ar[t]) /\ \A s \in ArraySlots(ar[t]) : At(b[t], s) = At(ar[t], s)
      BY <2>4, SlotsByPart
    <3>2. HasObject(b[t])
      BY <2>2, <2>5 DEF HasObject
    <3>3. ObjectSlots(ar[t]) = {} /\ ObjectSlots(b[t]) = {<<"object", 0>>}
      BY <1>2, <2>5, <3>2 DEF ObjectSlots
    <3>4. At(b[t], <<"object", 0>>) = new
      BY <2>5 DEF At
    <3>5. QED
      BY <3>1, <3>3, <3>4, Zenon DEF SlotsOf
  <2>10. HasArray(ar[t]) => Len(ar[t].array.positional) <= Len(b[t].array.positional)
    <3>1. Len(ar[t].array.positional) \in Nat
      BY <2>3, SequenceLen DEF IsNode, IsArray
    <3>2. QED
      BY <2>4, <3>1
  <2>11. Attached(ar, t, <<"object", 0>>, b)
    BY <2>2, <2>4, <2>5, <2>9, <2>10, Zenon DEF Attached, HasArray, new
  <2>12. QED
    BY <2>1, <2>7, <2>8, <2>11, AttachRipens DEF Moves
<1>3. QED
  BY <1>1, <1>2

LEMMA EnsureArrayRipens ==
  ASSUME NEW ar, Good(ar), NEW t \in DOMAIN ar
  PROVE  Ripens(ar, EnsureArray(ar, t)) /\ Moves(ar, t, EnsureArray(ar, t))
<1>1. CASE HasArray(ar[t])
  BY <1>1, RipensSame, MovesNowhere DEF EnsureArray
<1>2. CASE ~HasArray(ar[t])
  <2> DEFINE new == FreshId(ar)
             b == [Alloc(ar) EXCEPT ![t].array = NewArray(new)]
  <2>1. IsArena(ar) /\ Full(ar) /\ Grows(ar, EnsureArray(ar, t)) /\ EnsureArray(ar, t) = b
    BY <1>2, EnsureArrayGrows DEF Good, EnsureArray
  <2>2. /\ DOMAIN b = DOMAIN ar \cup {new} /\ new \notin DOMAIN ar /\ new # None
        /\ b[new] = NewNode
        /\ \A u \in DOMAIN ar : u # t => b[u] = ar[u]
        /\ b[t] = [ar[t] EXCEPT !.array = NewArray(new)]
    BY <2>1, AllocNodes
  <2>3. IsNode(ar[t], Len(ar))
    BY <2>1 DEF IsArena
  <2>4. SameDates(ar[t], b[t]) /\ b[t].array = NewArray(new) /\ b[t].object = ar[t].object
    BY <2>2, <2>3 DEF IsNode, SameDates
  <2> HIDE DEF b, new
  <2>5. /\ b[t].array.bagValue = new /\ b[t].array.positionalAlive
        /\ b[t].array.positional = <<>> /\ DOMAIN <<>> = {} /\ Len(<<>>) = 0
    BY <2>4, SequenceEmpty, SequenceLen DEF NewArray
  <2>6. \A c \in DOMAIN ar : b[c].obs = ar[c].obs
    BY <2>2, <2>4, Zenon DEF SameDates
  <2>7. ObjectFull(b[t], b)
    BY <2>1, <2>4, <2>6, FullSame
  <2>8. ArrayFull(b[t], b)
    <3>1. 0 <= PositionalCap /\ NewNode.obs = 0
      BY CapsAssumption DEF NewNode
    <3>2. QED
      BY <2>2, <2>5, <3>1, Zenon DEF ArrayFull
  <2>9. /\ SlotsOf(b[t]) = SlotsOf(ar[t]) \cup {<<"array", 0>>}
        /\ At(b[t], <<"array", 0>>) = new
        /\ \A s \in SlotsOf(ar[t]) : At(b[t], s) = At(ar[t], s)
    <3>1. ObjectSlots(b[t]) = ObjectSlots(ar[t]) /\ \A s \in ObjectSlots(ar[t]) : At(b[t], s) = At(ar[t], s)
      BY <2>4, SlotsByPart
    <3>2. HasArray(b[t])
      BY <2>2, <2>5 DEF HasArray
    <3>3. ArraySlots(ar[t]) = {} /\ ArraySlots(b[t]) = {<<"array", 0>>}
      BY <1>2, <2>5, <3>2 DEF ArraySlots
    <3>4. At(b[t], <<"array", 0>>) = new
      BY <2>5 DEF At
    <3>5. QED
      BY <3>1, <3>3, <3>4, Zenon DEF SlotsOf
  <2>10. Attached(ar, t, <<"array", 0>>, b)
    BY <1>2, <2>2, <2>4, <2>5, <2>9, Zenon DEF Attached, HasObject, new
  <2>11. QED
    BY <2>1, <2>7, <2>8, <2>10, AttachRipens DEF Moves
<1>3. QED
  BY <1>1, <1>2

LEMMA Capped ==
  /\ \A c, m \in Nat : ~(c < m) /\ c <= m => c = m
  /\ \A c, m \in Nat : c < m => c + 1 <= m
  /\ \A p, l, m \in Nat : ~(p < l) /\ p <= l => p = l /\ p + 1 <= l + 1 /\ l <= l + 1
  /\ \A p, l, m \in Nat : ~(p < l) /\ ~(p < m) /\ p <= l /\ l <= m => l = m
  /\ \A p, l \in Nat : p < l => p + 1 <= l
OBVIOUS

\* The arena with the node for a key; no view that is alive keeps that node
\* for later.
LEMMA ObjectChildRipens ==
  ASSUME NEW ar, Good(ar), NEW o \in DOMAIN ar, HasObject(ar[o]), NEW key
  PROVE  LET child == ObjectChild(ar, o, key)
         IN /\ Ripens(ar, child.arena) /\ Usable(child.arena, child.id)
            /\ Moves(ar, o, child.arena) /\ Under(child.arena, o, child.id)
<1> DEFINE obj == ar[o].object
           known == key \in DOMAIN obj.fields
           fresh == ~known /\ RecordHasRoom(obj)
<1>1. IsArena(ar) /\ Full(ar) /\ IsNode(ar[o], Len(ar))
  BY DEF Good, IsArena
<1>2. /\ IsFiniteSet(DOMAIN obj.fields) /\ Cardinality(DOMAIN obj.fields) <= RecordCap
      /\ obj.recordAlive => ar[obj.mapValue].obs = 0
      /\ ~obj.recordAlive => Cardinality(DOMAIN obj.fields) = RecordCap
  BY <1>1, Zenon DEF Full, ObjectFull
<1>3. Cardinality(DOMAIN obj.fields) \in Nat /\ RecordCap \in Nat
  BY <1>2, FS_CardinalityType, CapsAssumption
<1>4. CASE known
  <2>1. ObjectChild(ar, o, key) = [arena |-> ar, id |-> obj.fields[key]]
    BY <1>4 DEF ObjectChild
  <2>2. <<"key", key>> \in SlotsOf(ar[o]) /\ At(ar[o], <<"key", key>>) = obj.fields[key]
    BY <1>4, Overflows
  <2>3. <<"key", key>> # <<"object", 0>> /\ <<"key", key>> # <<"array", 0>>
    OBVIOUS
  <2>4. Usable(ar, obj.fields[key])
    BY <2>2, <2>3, SlotUsable
  <2>5. QED
    BY <2>1, <2>2, <2>4, RipensSame, MovesNowhere DEF Under
<1>5. CASE ~known /\ fresh
  <2> DEFINE new == FreshId(ar)
             b == [Alloc(ar) EXCEPT ![o].object.fields =
                     [k \in DOMAIN @ \cup {key} |-> IF k = key THEN FreshId(ar) ELSE @[k]]]
             fields == [k \in DOMAIN obj.fields \cup {key} |-> IF k = key THEN new ELSE obj.fields[k]]
  <2>1. /\ ObjectChild(ar, o, key) = [arena |-> b, id |-> new]
        /\ obj.recordAlive /\ Cardinality(DOMAIN obj.fields) < RecordCap
    BY <1>5 DEF ObjectChild, RecordHasRoom
  <2>2. Grows(ar, ObjectChild(ar, o, key).arena)
    BY <1>1, ObjectChildGrows
  <2>3. Grows(ar, b)
    BY <2>1, <2>2
  <2>4. /\ DOMAIN b = DOMAIN ar \cup {new} /\ new \notin DOMAIN ar /\ new # None
        /\ b[new] = NewNode
        /\ \A u \in DOMAIN ar : u # o => b[u] = ar[u]
        /\ b[o] = [ar[o] EXCEPT !.object.fields = fields]
    BY <1>1, AllocNodes
  <2>5. /\ SameDates(ar[o], b[o]) /\ b[o].array = ar[o].array
        /\ b[o].object.fields = fields /\ b[o].object.mapValue = obj.mapValue
        /\ b[o].object.recordAlive = obj.recordAlive
    <3>1. /\ SameDates(ar[o], b[o]) /\ b[o].array = ar[o].array
          /\ b[o].object = [obj EXCEPT !.fields = fields]
      <4> HIDE DEF b, new, fields
      <4>1. DOMAIN ar[o] = {"obs", "firstDoc", "lastDoc", "scalars", "object", "array"}
        BY <1>1 DEF IsNode
      <4>2. QED
        BY <2>4, <4>1 DEF SameDates
    <3>2. DOMAIN obj = {"obs", "fields", "recordAlive", "mapValue", "keyCountSum", "keyStats", "keyCounts"}
      BY <1>1 DEF IsNode, IsObject
    <3> HIDE DEF b, new, fields
    <3>3. QED
      BY <3>1, <3>2
  <2>6. DOMAIN fields = DOMAIN obj.fields \cup {key}
    OBVIOUS
  <2>7. \A k \in DOMAIN fields : fields[k] = IF k = key THEN new ELSE obj.fields[k]
    OBVIOUS
  <2> HIDE DEF b, new, fields
  <2>8. \A c \in DOMAIN ar : b[c].obs = ar[c].obs
    BY <2>4, <2>5, Zenon DEF SameDates
  <2>9. ArrayFull(b[o], b)
    BY <1>1, <2>5, <2>8, FullSame
  <2>10. ObjectFull(b[o], b)
    <3>1. IsFiniteSet(DOMAIN fields) /\ Cardinality(DOMAIN fields) = Cardinality(DOMAIN obj.fields) + 1
      BY <1>2, <1>5, <2>6, FS_AddElement
    <3>2. Cardinality(DOMAIN obj.fields) + 1 <= RecordCap
      BY <1>3, <2>1, Capped, Zenon
    <3>3. b[obj.mapValue].obs = 0
      <4>1. obj.mapValue \in DOMAIN ar
        BY <1>1, OverflowInArena
      <4>2. QED
        BY <1>2, <2>1, <2>8, <4>1, Zenon
    <3>4. QED
      BY <2>1, <2>5, <3>1, <3>2, <3>3, Zenon DEF ObjectFull
  <2>11. /\ SlotsOf(b[o]) = SlotsOf(ar[o]) \cup {<<"key", key>>}
         /\ At(b[o], <<"key", key>>) = new
         /\ \A s \in SlotsOf(ar[o]) : At(b[o], s) = At(ar[o], s)
    <3>1. ArraySlots(b[o]) = ArraySlots(ar[o]) /\ \A s \in ArraySlots(ar[o]) : At(b[o], s) = At(ar[o], s)
      BY <2>5, SlotsByPart
    <3>2. HasObject(b[o])
      BY <2>5 DEF HasObject
    <3>3. ObjectSlots(b[o]) = ObjectSlots(ar[o]) \cup {<<"key", key>>}
      BY <2>5, <2>6, <3>2 DEF ObjectSlots
    <3>4. At(b[o], <<"key", key>>) = new
      BY <2>5, <2>6, <2>7 DEF At
    <3>5. ASSUME NEW s \in ObjectSlots(ar[o])
          PROVE  At(b[o], s) = At(ar[o], s)
      <4>1. CASE s = <<"object", 0>>
        BY <2>5, <4>1 DEF At
      <4>2. ASSUME NEW k \in DOMAIN obj.fields, s = <<"key", k>>
            PROVE  At(b[o], s) = At(ar[o], s)
        <5>1. fields[k] = obj.fields[k]
          BY <1>5, <2>6, <2>7, <4>2
        <5>2. QED
          BY <2>5, <4>2, <5>1 DEF At
      <4>3. QED
        BY <4>1, <4>2 DEF ObjectSlots
    <3>6. QED
      BY <3>1, <3>3, <3>4, <3>5, Zenon DEF SlotsOf
  <2>12. HasArray(ar[o]) => Len(ar[o].array.positional) <= Len(b[o].array.positional)
    <3>1. Len(ar[o].array.positional) \in Nat
      BY <1>1, SequenceLen DEF IsNode, IsArray
    <3>2. QED
      BY <2>5, <3>1
  <2>13. Attached(ar, o, <<"key", key>>, b)
    BY <2>4, <2>5, <2>11, <2>12, Zenon DEF Attached, HasArray, HasObject, new
  <2>14. Ripens(ar, b)
    BY <2>3, <2>9, <2>10, <2>13, AttachRipens
  <2>15. Usable(b, new)
    <3>2. o \in DOMAIN b /\ <<"key", key>> \in SlotsOf(b[o]) /\ At(b[o], <<"key", key>>) = new
      BY <2>4, <2>11
    <3>3. <<"key", key>> # <<"object", 0>> /\ <<"key", key>> # <<"array", 0>> /\ Good(b)
      BY <2>14 DEF Ripens
    <3>4. QED
      BY <3>2, <3>3, SlotUsable
  <2>16. QED
    BY <2>1, <2>11, <2>13, <2>14, <2>15 DEF Moves, Under
<1>6. CASE ~known /\ ~fresh
  <2> DEFINE b == [ar EXCEPT ![o].object.recordAlive = FALSE]
  <2>1. ObjectChild(ar, o, key) = [arena |-> b, id |-> obj.mapValue]
    BY <1>6 DEF ObjectChild
  <2>2. Cardinality(DOMAIN obj.fields) = RecordCap
    BY <1>2, <1>3, <1>6, Capped, Zenon DEF RecordHasRoom
  <2>3. b = [u \in DOMAIN ar |-> IF u = o THEN b[o] ELSE ar[u]]
    OBVIOUS
  <2>4. b[o].array = ar[o].array /\ SameDates(ar[o], b[o]) /\ ~b[o].object.recordAlive
    BY <1>1 DEF IsNode, IsObject, SameDates
  <2>5. SameRefs(ar[o], b[o])
    BY <1>1 DEF IsNode, IsObject, SameRefs
  <2> HIDE DEF b
  <2>6. ViewsKept(ar[o], b[o])
    <3>1. HasArray(ar[o]) /\ ~ar[o].array.positionalAlive => Len(ar[o].array.positional) = PositionalCap
      BY <1>1, Zenon DEF Full, ArrayFull
    <3>2. QED
      BY <2>2, <2>4, <3>1, Zenon DEF ViewsKept
  <2>7. Ripens(ar, b) /\ DOMAIN b = DOMAIN ar /\ Moves(ar, o, b)
    BY <2>3, <2>4, <2>5, <2>6, CountRipens, QuietOne DEF Moves, SameDates
  <2>8. HasObject(b[o]) /\ b[o].object.mapValue = obj.mapValue
    BY <2>5 DEF SameRefs, HasObject
  <2>9. /\ o \in DOMAIN b /\ <<"object", 0>> \in SlotsOf(b[o])
        /\ At(b[o], <<"object", 0>>) = obj.mapValue /\ <<"object", 0>> # <<"array", 0>>
    BY <2>7, <2>8, Overflows
  <2>10. Usable(b, obj.mapValue)
    BY <2>4, <2>7, <2>9, SlotUsable DEF Ripens
  <2>11. QED
    BY <2>1, <2>7, <2>9, <2>10 DEF Under
<1>7. QED
  BY <1>4, <1>5, <1>6

\* The arena with the node for a position, in the same way; the array has the
\* position then, if it still has positions.
LEMMA ArrayChildRipens ==
  ASSUME NEW ar, Good(ar), NEW a \in DOMAIN ar, HasArray(ar[a]), NEW position \in Nat,
         ar[a].array.positionalAlive => position <= Len(ar[a].array.positional)
  PROVE  LET child == ArrayChild(ar, a, position)
             arr == child.arena[a].array
         IN /\ Ripens(ar, child.arena) /\ Usable(child.arena, child.id)
            /\ Moves(ar, a, child.arena) /\ Under(child.arena, a, child.id)
            /\ arr.positionalAlive => position + 1 <= Len(arr.positional)
<1> DEFINE arr == ar[a].array
           known == arr.positionalAlive /\ position < Len(arr.positional)
           fresh == arr.positionalAlive /\ ~known /\ position < PositionalCap
<1>1. IsArena(ar) /\ Full(ar) /\ IsNode(ar[a], Len(ar))
  BY DEF Good, IsArena
<1>2. /\ Len(arr.positional) <= PositionalCap
      /\ arr.positionalAlive => ar[arr.bagValue].obs = 0
      /\ ~arr.positionalAlive => Len(arr.positional) = PositionalCap
  BY <1>1, Zenon DEF Full, ArrayFull
<1>3. /\ Sequence(arr.positional) /\ Len(arr.positional) \in Nat /\ PositionalCap \in Nat
      /\ DOMAIN arr.positional = 1 .. Len(arr.positional)
  BY <1>1, SequenceLen, CapsAssumption DEF IsNode, IsArray
<1>4. CASE known
  <2>1. ArrayChild(ar, a, position) = [arena |-> ar, id |-> arr.positional[position + 1]]
    BY <1>4 DEF ArrayChild
  <2>2. position + 1 <= Len(arr.positional)
    BY <1>3, <1>4, Capped, Zenon
  <2>3. position + 1 \in DOMAIN arr.positional
    BY <1>3, <2>2
  <2>4. /\ <<"item", position + 1>> \in SlotsOf(ar[a])
        /\ At(ar[a], <<"item", position + 1>>) = arr.positional[position + 1]
    BY <2>3, Overflows
  <2>5. <<"item", position + 1>> # <<"object", 0>> /\ <<"item", position + 1>> # <<"array", 0>>
    OBVIOUS
  <2>6. Usable(ar, arr.positional[position + 1])
    BY <2>4, <2>5, SlotUsable
  <2>7. Under(ar, a, arr.positional[position + 1]) /\ Ripens(ar, ar) /\ Moves(ar, a, ar)
    BY <2>4, RipensSame, MovesNowhere DEF Under
  <2>8. QED
    BY <2>1, <2>2, <2>6, <2>7
<1>5. CASE ~known /\ fresh
  <2> DEFINE new == FreshId(ar)
             b == [Alloc(ar) EXCEPT ![a].array.positional = Append(@, FreshId(ar))]
             items == Append(arr.positional, new)
             last == Len(arr.positional) + 1
  <2>1. /\ ArrayChild(ar, a, position) = [arena |-> b, id |-> new]
        /\ arr.positionalAlive
    BY <1>5 DEF ArrayChild
  <2>2. position = Len(arr.positional) /\ position + 1 <= last /\ Len(arr.positional) <= last
        /\ last <= PositionalCap
    <3>1. position = Len(arr.positional) /\ position + 1 <= last /\ Len(arr.positional) <= last
      BY <1>3, <1>5, <2>1, Capped, Zenon
    <3>2. position < PositionalCap
      BY <1>5
    <3>3. position + 1 <= PositionalCap
      BY <1>3, <3>2, Capped, Zenon
    <3>4. QED
      BY <3>1, <3>3
  <2>3. Grows(ar, ArrayChild(ar, a, position).arena)
    BY <1>1, ArrayChildGrows
  <2>4. Grows(ar, b)
    BY <2>1, <2>3
  <2>5. /\ DOMAIN b = DOMAIN ar \cup {new} /\ new \notin DOMAIN ar /\ new # None
        /\ b[new] = NewNode
        /\ \A u \in DOMAIN ar : u # a => b[u] = ar[u]
        /\ b[a] = [ar[a] EXCEPT !.array.positional = items]
    BY <1>1, AllocNodes
  <2>6. /\ Len(items) = last /\ DOMAIN items = DOMAIN arr.positional \cup {last}
        /\ \A i \in DOMAIN arr.positional : items[i] = arr.positional[i]
        /\ items[last] = new
    <3>1. /\ Sequence(items) /\ Len(items) = last /\ items[last] = new
          /\ \A i \in 1 .. Len(arr.positional) : items[i] = arr.positional[i]
      BY <1>3, SequenceAppend
    <3>2. DOMAIN items = 1 .. last
      BY <3>1, SequenceLen
    <3>3. QED
      BY <1>3, <3>1, <3>2
  <2> HIDE DEF b, new, items, last
  <2>7. /\ SameDates(ar[a], b[a]) /\ b[a].object = ar[a].object
        /\ b[a].array.positional = items /\ b[a].array.bagValue = arr.bagValue
        /\ b[a].array.positionalAlive = arr.positionalAlive
    <3>1. /\ SameDates(ar[a], b[a]) /\ b[a].object = ar[a].object
          /\ b[a].array = [arr EXCEPT !.positional = items]
      <4>1. DOMAIN ar[a] = {"obs", "firstDoc", "lastDoc", "scalars", "object", "array"}
        BY <1>1 DEF IsNode
      <4>2. QED
        BY <2>5, <4>1 DEF SameDates
    <3>2. DOMAIN arr = {"obs", "positional", "positionalAlive", "bagValue", "lengthSum", "lengths", "cluster"}
      BY <1>1 DEF IsNode, IsArray
    <3>3. QED
      BY <3>1, <3>2
  <2>8. \A c \in DOMAIN ar : b[c].obs = ar[c].obs
    BY <2>5, <2>7, Zenon DEF SameDates
  <2>9. ObjectFull(b[a], b)
    BY <1>1, <2>7, <2>8, FullSame
  <2>10. ArrayFull(b[a], b)
    <3>1. b[arr.bagValue].obs = 0
      <4>1. arr.bagValue \in DOMAIN ar
        BY <1>1, OverflowInArena
      <4>2. QED
        BY <1>2, <2>1, <2>8, <4>1, Zenon
    <3>2. QED
      BY <2>1, <2>2, <2>6, <2>7, <3>1, Zenon DEF ArrayFull
  <2>11. /\ SlotsOf(b[a]) = SlotsOf(ar[a]) \cup {<<"item", last>>}
         /\ At(b[a], <<"item", last>>) = new
         /\ \A s \in SlotsOf(ar[a]) : At(b[a], s) = At(ar[a], s)
    <3>1. ObjectSlots(b[a]) = ObjectSlots(ar[a]) /\ \A s \in ObjectSlots(ar[a]) : At(b[a], s) = At(ar[a], s)
      BY <2>7, SlotsByPart
    <3>2. HasArray(b[a])
      BY <2>7 DEF HasArray
    <3>3. ArraySlots(b[a]) = ArraySlots(ar[a]) \cup {<<"item", last>>}
      BY <2>6, <2>7, <3>2 DEF ArraySlots
    <3>4. At(b[a], <<"item", last>>) = new
      BY <2>6, <2>7 DEF At
    <3>5. ASSUME NEW s \in ArraySlots(ar[a])
          PROVE  At(b[a], s) = At(ar[a], s)
      <4>1. CASE s = <<"array", 0>>
        BY <2>7, <4>1 DEF At
      <4>2. ASSUME NEW i \in DOMAIN arr.positional, s = <<"item", i>>
            PROVE  At(b[a], s) = At(ar[a], s)
        BY <2>6, <2>7, <4>2 DEF At
      <4>3. QED
        BY <4>1, <4>2 DEF ArraySlots
    <3>6. QED
      BY <3>1, <3>3, <3>4, <3>5, Zenon DEF SlotsOf
  <2>12. Attached(ar, a, <<"item", last>>, b)
    BY <2>1, <2>2, <2>5, <2>6, <2>7, <2>11, Zenon DEF Attached, HasArray, HasObject, new
  <2>13. Ripens(ar, b)
    BY <2>4, <2>9, <2>10, <2>12, AttachRipens
  <2>14. Usable(b, new)
    <3>2. a \in DOMAIN b /\ <<"item", last>> \in SlotsOf(b[a]) /\ At(b[a], <<"item", last>>) = new
      BY <2>5, <2>11
    <3>3. <<"item", last>> # <<"object", 0>> /\ <<"item", last>> # <<"array", 0>> /\ Good(b)
      BY <2>13 DEF Ripens
    <3>4. QED
      BY <3>2, <3>3, SlotUsable
  <2>15. position + 1 <= Len(b[a].array.positional)
    BY <2>2, <2>6, <2>7
  <2>16. Moves(ar, a, b)
    BY <2>12 DEF Moves
  <2>17. Under(b, a, new)
    BY <2>11 DEF Under
  <2>18. QED
    BY <2>1, <2>13, <2>14, <2>15, <2>16, <2>17
<1>6. CASE ~known /\ ~fresh
  <2> DEFINE b == [ar EXCEPT ![a].array.positionalAlive = FALSE]
  <2>1. ArrayChild(ar, a, position) = [arena |-> b, id |-> arr.bagValue]
    BY <1>6 DEF ArrayChild
  <2>2. Len(arr.positional) = PositionalCap
    <3>1. CASE arr.positionalAlive
      <4>1. ~(position < Len(arr.positional)) /\ ~(position < PositionalCap)
        BY <1>6, <3>1, Zenon
      <4>2. position <= Len(arr.positional)
        BY <3>1, Zenon
      <4>3. \A p, l, m \in Nat : ~(p < l) /\ ~(p < m) /\ p <= l /\ l <= m => l = m
        BY Capped
      <4>4. Len(arr.positional) \in Nat /\ PositionalCap \in Nat /\ Len(arr.positional) <= PositionalCap
        BY <1>2, <1>3, Zenon
      <4> HIDE DEF arr
      <4>5. QED
        BY <4>1, <4>2, <4>3, <4>4, Zenon
    <3>2. CASE ~arr.positionalAlive
      BY <1>2, <3>2, Zenon
    <3>3. QED
      BY <3>1, <3>2, Zenon
  <2>3. b = [u \in DOMAIN ar |-> IF u = a THEN b[a] ELSE ar[u]]
    OBVIOUS
  <2>4. b[a].object = ar[a].object /\ SameDates(ar[a], b[a]) /\ ~b[a].array.positionalAlive
    BY <1>1 DEF IsNode, IsArray, SameDates
  <2>5. SameRefs(ar[a], b[a])
    BY <1>1 DEF IsNode, IsArray, SameRefs
  <2> HIDE DEF b
  <2>6. ViewsKept(ar[a], b[a])
    <3>1. HasObject(ar[a]) /\ ~ar[a].object.recordAlive => Cardinality(DOMAIN ar[a].object.fields) = RecordCap
      BY <1>1, Zenon DEF Full, ObjectFull
    <3>2. QED
      BY <2>2, <2>4, <3>1, Zenon DEF ViewsKept
  <2>7. Ripens(ar, b) /\ DOMAIN b = DOMAIN ar /\ Moves(ar, a, b)
    BY <2>3, <2>4, <2>5, <2>6, CountRipens, QuietOne DEF Moves, SameDates
  <2>8. HasArray(b[a]) /\ b[a].array.bagValue = arr.bagValue
    BY <2>5 DEF SameRefs, HasArray
  <2>9. /\ a \in DOMAIN b /\ <<"array", 0>> \in SlotsOf(b[a])
        /\ At(b[a], <<"array", 0>>) = arr.bagValue /\ <<"array", 0>> # <<"object", 0>>
    BY <2>7, <2>8, Overflows
  <2>10. Usable(b, arr.bagValue)
    BY <2>4, <2>7, <2>9, SlotUsable DEF Ripens
  <2>11. QED
    BY <2>1, <2>4, <2>7, <2>9, <2>10 DEF Under
<1>7. QED
  BY <1>4, <1>5, <1>6

-----------------------------------------------------------------------------
(* Who counts.                                                             *)
SameViews(v, w) ==
  w.object.recordAlive = v.object.recordAlive /\ w.array.positionalAlive = v.array.positionalAlive
Counts(ar, br) ==
  Ripens(ar, br) /\ Quiet(ar, br) /\ \A u \in DOMAIN ar : SameViews(ar[u], br[u])

LEMMA SameCounts ==
  ASSUME NEW ar, Good(ar), NEW t \in DOMAIN ar, NEW b,
         b = [u \in DOMAIN ar |-> IF u = t THEN b[t] ELSE ar[u]],
         SameRefs(ar[t], b[t]), SameDates(ar[t], b[t]),
         b[t].object.recordAlive = ar[t].object.recordAlive,
         b[t].array.positionalAlive = ar[t].array.positionalAlive
  PROVE  Counts(ar, b)
<1>1. ViewsKept(ar[t], b[t])
  BY ViewsSame DEF Good
<1>2. b[t].obs = ar[t].obs
  BY DEF SameDates
<1>3. Ripens(ar, b) /\ Quiet(ar, b)
  BY <1>1, <1>2, CountRipens, QuietOne
<1>4. \A u \in DOMAIN ar : u # t => b[u] = ar[u]
  OBVIOUS
<1>5. \A u \in DOMAIN ar : SameViews(ar[u], b[u])
  BY <1>4 DEF SameViews
<1>6. QED
  BY <1>3, <1>5 DEF Counts

LEMMA ObsAtRipens ==
  ASSUME NEW ar, Good(ar), NEW t \in DOMAIN ar, Usable(ar, t)
  PROVE  Ripens(ar, ObsAt(ar, t))
<1> DEFINE b == ObsAt(ar, t)
<1>1. IsNode(ar[t], Len(ar)) /\ Full(ar)
  BY DEF Good, IsArena
<1>2. b = [u \in DOMAIN ar |-> IF u = t THEN b[t] ELSE ar[u]]
  BY DEF ObsAt
<1>3. SameRefs(ar[t], b[t]) /\ b[t].object = ar[t].object /\ b[t].array = ar[t].array
  BY <1>1 DEF ObsAt, IsNode, SameRefs
<1> HIDE DEF b
<1>4. ViewsKept(ar[t], b[t])
  BY <1>1, <1>3, ViewsSame
<1>5. Ripens(ar, b)
  BY <1>2, <1>3, <1>4, CountRipens
<1>6. QED
  BY <1>5 DEF b

LEMMA ScalarsCount ==
  ASSUME NEW ar, Good(ar), NEW t \in DOMAIN ar, NEW kind
  PROVE  Counts(ar, [ar EXCEPT ![t].scalars[kind] = @ + 1])
<1> DEFINE b == [ar EXCEPT ![t].scalars[kind] = @ + 1]
<1>1. IsNode(ar[t], Len(ar))
  BY DEF Good, IsArena
<1>2. b = [u \in DOMAIN ar |-> IF u = t THEN b[t] ELSE ar[u]]
  OBVIOUS
<1>3. SameRefs(ar[t], b[t]) /\ SameDates(ar[t], b[t]) /\ b[t].object = ar[t].object /\ b[t].array = ar[t].array
  BY <1>1 DEF IsNode, SameRefs, SameDates
<1> HIDE DEF b
<1>4. Counts(ar, b)
  BY <1>2, <1>3, SameCounts
<1>5. QED
  BY <1>4 DEF b

\* Any change of an object's accumulator but of its views.
LEMMA ObjectCounts ==
  ASSUME NEW ar, Good(ar), NEW t \in DOMAIN ar, NEW object,
         DOMAIN object = DOMAIN ar[t].object,
         object.fields = ar[t].object.fields, object.mapValue = ar[t].object.mapValue,
         object.recordAlive = ar[t].object.recordAlive
  PROVE  Counts(ar, [ar EXCEPT ![t].object = object])
<1> DEFINE b == [ar EXCEPT ![t].object = object]
<1>1. IsNode(ar[t], Len(ar))
  BY DEF Good, IsArena
<1>2. b = [u \in DOMAIN ar |-> IF u = t THEN b[t] ELSE ar[u]]
  OBVIOUS
<1>3. /\ DOMAIN b[t] = DOMAIN ar[t] /\ SameDates(ar[t], b[t]) /\ b[t].array = ar[t].array
      /\ b[t].object = object
  BY <1>1 DEF IsNode, SameDates
<1> HIDE DEF b
<1>4. SameRefs(ar[t], b[t])
  BY <1>3 DEF SameRefs
<1>5. Counts(ar, b)
  BY <1>2, <1>3, <1>4, SameCounts
<1>6. QED
  BY <1>5 DEF b

LEMMA ArrayCounts ==
  ASSUME NEW ar, Good(ar), NEW t \in DOMAIN ar, NEW array,
         DOMAIN array = DOMAIN ar[t].array,
         array.positional = ar[t].array.positional, array.bagValue = ar[t].array.bagValue,
         array.positionalAlive = ar[t].array.positionalAlive
  PROVE  Counts(ar, [ar EXCEPT ![t].array = array])
<1> DEFINE b == [ar EXCEPT ![t].array = array]
<1>1. IsNode(ar[t], Len(ar))
  BY DEF Good, IsArena
<1>2. b = [u \in DOMAIN ar |-> IF u = t THEN b[t] ELSE ar[u]]
  OBVIOUS
<1>3. /\ DOMAIN b[t] = DOMAIN ar[t] /\ SameDates(ar[t], b[t]) /\ b[t].object = ar[t].object
      /\ b[t].array = array
  BY <1>1 DEF IsNode, SameDates
<1> HIDE DEF b
<1>4. SameRefs(ar[t], b[t])
  BY <1>3 DEF SameRefs
<1>5. Counts(ar, b)
  BY <1>2, <1>3, <1>4, SameCounts
<1>6. QED
  BY <1>5 DEF b

LEMMA ObjectCountersCount ==
  ASSUME NEW ar, Good(ar), NEW t \in DOMAIN ar
  PROVE  /\ Counts(ar, [ar EXCEPT ![t].object.obs = @ + 1])
         /\ \A key : Counts(ar, [ar EXCEPT ![t].object.keyCountSum = @ + 1,
                                          ![t].object.keyStats = Tick(@, key)])
         /\ \A n : Counts(ar, [ar EXCEPT ![t].object.keyCounts = Tick(@, n)])
<1> DEFINE old == ar[t].object
<1>1. DOMAIN old = {"obs", "fields", "recordAlive", "mapValue", "keyCountSum", "keyStats", "keyCounts"}
  BY DEF Good, IsArena, IsNode, IsObject
<1>2. \A n : Counts(ar, [ar EXCEPT ![t].object = [old EXCEPT !.obs = n]])
  BY <1>1, ObjectCounts
<1>3. \A n, h : Counts(ar, [ar EXCEPT ![t].object = [old EXCEPT !.keyCountSum = n, !.keyStats = h]])
  BY <1>1, ObjectCounts
<1>4. \A h : Counts(ar, [ar EXCEPT ![t].object = [old EXCEPT !.keyCounts = h]])
  BY <1>1, ObjectCounts
<1>5. QED
  BY <1>2, <1>3, <1>4

LEMMA ArrayCountersCount ==
  ASSUME NEW ar, Good(ar), NEW t \in DOMAIN ar
  PROVE  /\ Counts(ar, [ar EXCEPT ![t].array.obs = @ + 1])
         /\ \A n : Counts(ar, [ar EXCEPT ![t].array.lengthSum = @ + n, ![t].array.lengths = Tick(@, n)])
         /\ \A table : Counts(ar, [ar EXCEPT ![t].array.cluster = table])
<1> DEFINE old == ar[t].array
<1>1. DOMAIN old = {"obs", "positional", "positionalAlive", "bagValue", "lengthSum", "lengths", "cluster"}
  BY DEF Good, IsArena, IsNode, IsArray
<1>2. \A n : Counts(ar, [ar EXCEPT ![t].array = [old EXCEPT !.obs = n]])
  BY <1>1, ArrayCounts
<1>3. \A n, h : Counts(ar, [ar EXCEPT ![t].array = [old EXCEPT !.lengthSum = n, !.lengths = h]])
  BY <1>1, ArrayCounts
<1>4. \A table : Counts(ar, [ar EXCEPT ![t].array = [old EXCEPT !.cluster = table]])
  BY <1>1, ArrayCounts
<1>5. QED
  BY <1>2, <1>3, <1>4

-----------------------------------------------------------------------------
(* The walk.                                                               *)
\* An open array has reached no further than its positions.
Placed(st, ar) ==
  \A i \in DOMAIN st :
    st[i].kind = "array" /\ ar[st[i].node].array.positionalAlive =>
      st[i].position <= Len(ar[st[i].node].array.positional)

FullInv ==
  /\ IndInv
  /\ Good(arena)
  /\ pending # None => Usable(arena, pending)
  /\ Placed(stack, arena)

LEMMA RipensArena ==
  ASSUME NEW ar, Good(ar), NEW br, Ripens(ar, br)
  PROVE  /\ IsArena(ar) /\ IsArena(br) /\ Good(br) /\ Grows(ar, br)
         /\ DOMAIN ar \subseteq DOMAIN br
BY GrowsDomain DEF Good, Ripens

LEMMA PlacedRipens ==
  ASSUME NEW ar, Good(ar), NEW br, Ripens(ar, br), NEW st, Frames(st, ar), Placed(st, ar)
  PROVE  Placed(st, br)
<1>1. IsArena(ar) /\ IsArena(br) /\ DOMAIN ar \subseteq DOMAIN br /\ ViewsGrow(ar, br)
  BY RipensArena DEF Ripens
<1>2. ASSUME NEW i \in DOMAIN st, st[i].kind = "array", br[st[i].node].array.positionalAlive
      PROVE  st[i].position <= Len(br[st[i].node].array.positional)
  <2> DEFINE a == st[i].node
  <2>1. a \in DOMAIN ar /\ a \in DOMAIN br /\ HasArray(ar[a]) /\ st[i].position \in Nat
    BY <1>1, <1>2 DEF Frames, IsFrame
  <2>2. ar[a].array.positionalAlive /\ Len(ar[a].array.positional) <= Len(br[a].array.positional)
    BY <1>1, <1>2, <2>1, Zenon DEF ViewsGrow
  <2>3. st[i].position <= Len(ar[a].array.positional)
    BY <1>2, <2>2, Zenon DEF Placed
  <2>4. Len(ar[a].array.positional) \in Nat /\ Len(br[a].array.positional) \in Nat
    BY <1>1, <2>1, SequenceLen DEF IsArena, IsNode, IsArray
  <2>5. \A j, k, l \in Nat : j <= k /\ k <= l => j <= l
    OBVIOUS
  <2> HIDE DEF a
  <2>6. st[i].position <= Len(br[a].array.positional)
    BY <2>1, <2>2, <2>3, <2>4, <2>5, Zenon
  <2>7. QED
    BY <2>6 DEF a
<1>3. QED
  BY <1>2, Zenon DEF Placed

\* The node for the next value is kept for nothing else.
LEMMA TargetRipens ==
  ASSUME FullInv, AwaitsValue
  PROVE  /\ Ripens(arena, Target.arena) /\ Usable(Target.arena, Target.id)
         /\ Placed(StackAfterTarget, Target.arena)
<1>1. IndInv /\ Good(arena) /\ IsArena(arena) /\ Placed(stack, arena) /\ Frames(stack, arena)
  BY DEF FullInv, Good, IndInv
<1>2. CASE pending # None
  <2>1. Target = [arena |-> arena, id |-> pending] /\ StackAfterTarget = stack
    BY <1>2 DEF Target, StackAfterTarget
  <2>2. Ripens(arena, arena) /\ Usable(arena, pending)
    BY <1>1, <1>2, RipensSame DEF FullInv
  <2>3. QED
    BY <1>1, <2>1, <2>2
<1>3. CASE pending = None
  <2> DEFINE d == Len(stack)
             a == stack[d].node
             p == stack[d].position
             st == [stack EXCEPT ![d].position = @ + 1]
  <2>1. stack # <<>> /\ stack[d].kind = "array"
    BY <1>1, <1>3, HasTargetHolds DEF InArray
  <2>2. d \in DOMAIN stack
    <3>1. d \in Nat /\ DOMAIN stack = 1 .. d /\ d # 0
      BY <1>1, <2>1, SequenceLen, SequenceEmpty DEF Frames
    <3>2. QED
      BY <3>1
  <2>3. a \in DOMAIN arena /\ HasArray(arena[a]) /\ p \in Nat
    BY <1>1, <2>1, <2>2 DEF Frames, IsFrame
  <2>4. arena[a].array.positionalAlive => p <= Len(arena[a].array.positional)
    BY <1>1, <2>1, <2>2 DEF Placed
  <2> DEFINE child == ArrayChild(arena, a, p)
  <2>5. Target = child /\ StackAfterTarget = st
    BY <1>3 DEF Target, StackAfterTarget, Top
  <2>6. DOMAIN st = DOMAIN stack /\ \A i \in DOMAIN stack :
          /\ st[i].kind = stack[i].kind /\ st[i].node = stack[i].node
          /\ i # d => st[i].position = stack[i].position
          /\ i = d => st[i].position = p + 1
    BY <1>1, <2>2 DEF Frames, IsFrame
  <2> HIDE DEF child, st
  <2>7. /\ Ripens(arena, child.arena) /\ Usable(child.arena, child.id)
        /\ child.arena[a].array.positionalAlive => p + 1 <= Len(child.arena[a].array.positional)
    BY <1>1, <2>3, <2>4, ArrayChildRipens DEF child
  <2>8. Placed(stack, child.arena)
    BY <1>1, <2>7, PlacedRipens
  <2>9. Placed(st, child.arena)
    <3>1. ASSUME NEW i \in DOMAIN st, st[i].kind = "array", child.arena[st[i].node].array.positionalAlive
          PROVE  st[i].position <= Len(child.arena[st[i].node].array.positional)
      <4>1. CASE i = d
        BY <2>6, <2>7, <3>1, <4>1, Zenon
      <4>2. CASE i # d
        BY <2>6, <2>8, <3>1, <4>2, Zenon DEF Placed
      <4>3. QED
        BY <4>1, <4>2, Zenon
    <3>2. QED
      BY <3>1, Zenon DEF Placed
  <2>10. QED
    BY <2>5, <2>7, <2>9
<1>4. QED
  BY <1>2, <1>3

LEMMA EmittedRipens ==
  ASSUME NEW ar, Good(ar), NEW st, Frames(st, ar), Placed(st, ar), NEW sig,
         EmitChildSig(ar, st, sig)
  PROVE  /\ Good(arena') /\ Placed(stack', arena') /\ Quiet(ar, arena')
         /\ Counts(ar, arena')
<1>1. \A t \in DOMAIN ar : \A table : Counts(ar, [ar EXCEPT ![t].array.cluster = table])
  BY ArrayCountersCount
<1>2. Counts(ar, arena')
  <2>1. \/ arena' = ar
        \/ \E t \in DOMAIN ar : \E table : arena' = [ar EXCEPT ![t].array.cluster = table]
    BY EmittedFrames
  <2>2. CASE arena' = ar
    BY <2>2, RipensSame DEF Counts, Quiet, SameRefs, SameDates, SameViews
  <2>3. CASE \E t \in DOMAIN ar : \E table : arena' = [ar EXCEPT ![t].array.cluster = table]
    BY <1>1, <2>3
  <2>4. QED
    BY <2>1, <2>2, <2>3
<1>3. Placed(st, arena')
  BY <1>2, PlacedRipens DEF Counts
<1>4. DOMAIN stack' = DOMAIN st /\ \A i \in DOMAIN st :
        stack'[i].kind = st[i].kind /\ stack'[i].node = st[i].node /\ stack'[i].position = st[i].position
  BY EmittedFrames
<1>5. Placed(stack', arena')
  BY <1>3, <1>4, Zenon DEF Placed
<1>6. QED
  BY <1>2, <1>5 DEF Counts, Ripens

-----------------------------------------------------------------------------
(* The steps.                                                              *)
LEMMA FullParts ==
  ASSUME FullInv
  PROVE  /\ IndInv /\ Good(arena) /\ IsArena(arena) /\ Frames(stack, arena)
         /\ Placed(stack, arena)
BY DEF FullInv, Good, IndInv

LEMMA InitFull == Init => FullInv
<1>1. HAVE Init
<1>2. arena = <<NewNode>> /\ stack = <<>> /\ pending = None
  BY <1>1 DEF Init, AnalyzerInit
<1>3. IndInv
  BY <1>1, InitIndInv
<1>4. IsArena(arena)
  BY <1>3 DEF IndInv
<1>5. Len(arena) = 1 /\ arena[1] = NewNode
  BY <1>2
<1>6. \A t \in DOMAIN arena : arena[t] = NewNode
  BY <1>4, <1>5, ArenaLen
<1>7. \A t \in DOMAIN arena : SlotsOf(arena[t]) = {} /\ ~HasObject(arena[t]) /\ ~HasArray(arena[t])
  BY <1>6, NewNodeSlots
<1>8. Good(arena)
  BY <1>4, <1>7, Zenon DEF Good, Separate, Full, ObjectFull, ArrayFull
<1>9. DOMAIN stack = {}
  BY <1>2, SequenceEmpty, SequenceLen
<1>10. QED
  BY <1>2, <1>3, <1>8, <1>9, Zenon DEF FullInv, Placed

\* No view keeps the root for later.
LEMMA RootUsable ==
  ASSUME NEW ar, IsArena(ar)
  PROVE  Usable(ar, Root)
<1>1. Root \notin Ref(Len(ar))
  BY DEF Ref, Root
<1>2. QED
  BY <1>1, OverflowInArena, Zenon DEF Usable

LEMMA DriveDocumentFull ==
  ASSUME FullInv, DriveDocument
  PROVE  Good(arena') /\ Placed(stack', arena') /\ (pending' # None => Usable(arena', pending'))
<1>1. arena' = arena /\ stack' = stack /\ pending' = Root
  BY DEF DriveDocument, DocumentBegin
<1>2. QED
  BY <1>1, FullParts, RootUsable

LEMMA FinishDocumentFull ==
  ASSUME FullInv, FinishDocument
  PROVE  Good(arena') /\ Placed(stack', arena') /\ (pending' # None => Usable(arena', pending'))
<1>1. arena' = arena /\ stack' = stack /\ pending' = None
  BY DEF FinishDocument, DocumentEnd
<1>2. QED
  BY <1>1, FullParts

\* The value that arrives is counted.
LEMMA CountedRipens ==
  ASSUME FullInv, AwaitsValue
  PROVE  LET ar == ObsAt(Target.arena, Target.id)
         IN /\ Good(ar) /\ Target.id \in DOMAIN ar
            /\ Frames(StackAfterTarget, ar) /\ Placed(StackAfterTarget, ar)
<1> DEFINE tr == Target.arena
           t == Target.id
           st == StackAfterTarget
           ar == ObsAt(tr, t)
<1>1. IndInv /\ Good(arena) /\ IsArena(arena)
  BY FullParts
<1>2. Grows(arena, tr) /\ IsArena(tr) /\ t \in DOMAIN tr /\ Frames(st, arena)
  BY <1>1, TargetGrows
<1>3. Ripens(arena, tr) /\ Usable(tr, t) /\ Placed(st, tr)
  BY TargetRipens
<1> HIDE DEF tr, t, st
<1>4. Good(tr) /\ Frames(st, tr)
  BY <1>1, <1>2, <1>3, RipensArena, FramesGrow
<1>5. Ripens(tr, ar)
  BY <1>2, <1>3, <1>4, ObsAtRipens
<1> HIDE DEF ar
<1>6. Good(ar) /\ Grows(tr, ar) /\ DOMAIN tr \subseteq DOMAIN ar
  BY <1>4, <1>5, RipensArena
<1>7. Frames(st, ar) /\ Placed(st, ar)
  BY <1>2, <1>3, <1>4, <1>5, <1>6, FramesGrow, PlacedRipens
<1>8. Good(ar) /\ t \in DOMAIN ar /\ Frames(st, ar) /\ Placed(st, ar)
  BY <1>2, <1>6, <1>7
<1>9. QED
  BY <1>8 DEF ar, tr, t, st

LEMMA DriveScalarFull ==
  ASSUME FullInv, NEW kind \in Kind, DriveScalar(kind)
  PROVE  Good(arena') /\ Placed(stack', arena') /\ (pending' # None => Usable(arena', pending'))
<1> DEFINE t == Target.id
           st == StackAfterTarget
           ar == ObsAt(Target.arena, t)
           br == [ar EXCEPT ![t].scalars[kind] = @ + 1]
           sig == ScalarSig(kind)
<1>1. AwaitsValue /\ pending' = None /\ EmitChildSig(br, st, sig)
  BY DEF DriveScalar, Scalar
<1>2. Good(ar) /\ t \in DOMAIN ar /\ Frames(st, ar) /\ Placed(st, ar)
  BY <1>1, CountedRipens
<1> HIDE DEF ar, t, st, sig
<1>3. Ripens(ar, br)
  BY <1>2, ScalarsCount DEF Counts
<1> HIDE DEF br
<1>4. Good(br) /\ Frames(st, br) /\ Placed(st, br)
  BY <1>2, <1>3, RipensArena, FramesGrow, PlacedRipens
<1>5. Good(arena') /\ Placed(stack', arena')
  BY <1>1, <1>4, EmittedRipens
<1>6. QED
  BY <1>1, <1>5

\* A new frame starts at position 0.
LEMMA PlacedOpened ==
  ASSUME NEW ar, IsArena(ar), NEW st, Frames(st, ar), Placed(st, ar), NEW f, f.position = 0,
         f.kind = "array" => f.node \in DOMAIN ar
  PROVE  Placed(Append(st, f), ar)
<1> DEFINE b == Append(st, f)
           d == Len(st)
<1>1. Sequence(st) /\ d \in Nat /\ DOMAIN st = 1 .. d
  BY SequenceLen DEF Frames
<1>2. Sequence(b) /\ Len(b) = d + 1 /\ (\A i \in 1 .. d : b[i] = st[i]) /\ b[d + 1] = f
  BY <1>1, SequenceAppend
<1> HIDE DEF b
<1>3. DOMAIN b = 1 .. d + 1
  BY <1>2, SequenceLen
<1>4. ASSUME NEW i \in DOMAIN b, b[i].kind = "array", ar[b[i].node].array.positionalAlive
      PROVE  b[i].position <= Len(ar[b[i].node].array.positional)
  <2>1. CASE i \in 1 .. d
    <3>1. b[i] = st[i] /\ i \in DOMAIN st
      BY <1>1, <1>2, <2>1
    <3>2. QED
      BY <1>4, <3>1, Zenon DEF Placed
  <2>2. CASE i = d + 1
    <3>1. b[i] = f
      BY <1>2, <2>2
    <3>2. f.node \in DOMAIN ar
      BY <1>4, <3>1
    <3>3. Len(ar[f.node].array.positional) \in Nat
      BY <3>2, SequenceLen DEF IsArena, IsNode, IsArray
    <3>4. \A n \in Nat : 0 <= n
      OBVIOUS
    <3>5. QED
      BY <3>1, <3>3, <3>4, Zenon
  <2>3. i \in 1 .. d \/ i = d + 1
    BY <1>1, <1>3
  <2>4. QED
    BY <2>1, <2>2, <2>3
<1>5. Placed(b, ar)
  BY <1>4, Zenon DEF Placed
<1>6. QED
  BY <1>5 DEF b

LEMMA OpenArrayFull ==
  ASSUME FullInv, OpenArray
  PROVE  Good(arena') /\ Placed(stack', arena') /\ (pending' # None => Usable(arena', pending'))
<1> DEFINE t == Target.id
           st == StackAfterTarget
           ar == ObsAt(Target.arena, t)
           br == EnsureArray(ar, t)
           cr == [br EXCEPT ![t].array.obs = @ + 1]
           f == ArrayFrame(t)
<1>1. AwaitsValue /\ arena' = cr /\ stack' = Append(st, f) /\ pending' = None
  BY DEF OpenArray, ArrayBegin
<1>2. Good(ar) /\ t \in DOMAIN ar /\ Frames(st, ar) /\ Placed(st, ar)
  BY <1>1, CountedRipens
<1>3. f.position = 0 /\ f.node = t
  BY DEF ArrayFrame
<1> HIDE DEF ar, t, st, f
<1>4. Ripens(ar, br)
  BY <1>2, EnsureArrayRipens
<1> HIDE DEF br
<1>5. Good(br) /\ t \in DOMAIN br
  BY <1>2, <1>4, RipensArena
<1>6. Ripens(br, cr)
  BY <1>5, ArrayCountersCount DEF Counts
<1> HIDE DEF cr
<1>7. Ripens(ar, cr)
  BY <1>2, <1>4, <1>6, RipensOn
<1>8. Good(cr) /\ IsArena(cr) /\ t \in DOMAIN cr /\ Frames(st, cr) /\ Placed(st, cr)
  BY <1>2, <1>7, RipensArena, FramesGrow, PlacedRipens
<1>9. Placed(Append(st, f), cr)
  BY <1>3, <1>8, PlacedOpened
<1>10. QED
  BY <1>1, <1>8, <1>9

LEMMA OpenObjectFull ==
  ASSUME FullInv, OpenObject
  PROVE  Good(arena') /\ Placed(stack', arena') /\ (pending' # None => Usable(arena', pending'))
<1> DEFINE t == Target.id
           st == StackAfterTarget
           ar == ObsAt(Target.arena, t)
           br == EnsureObject(ar, t)
           cr == [br EXCEPT ![t].object.obs = @ + 1]
           f == ObjectFrame(t)
<1>1. AwaitsValue /\ arena' = cr /\ stack' = Append(st, f) /\ pending' = None
  BY DEF OpenObject, ObjectBegin
<1>2. Good(ar) /\ t \in DOMAIN ar /\ Frames(st, ar) /\ Placed(st, ar)
  BY <1>1, CountedRipens
<1>3. f.position = 0 /\ f.node = t
  BY DEF ObjectFrame
<1> HIDE DEF ar, t, st, f
<1>4. Ripens(ar, br)
  BY <1>2, EnsureObjectRipens
<1> HIDE DEF br
<1>5. Good(br) /\ t \in DOMAIN br
  BY <1>2, <1>4, RipensArena
<1>6. Ripens(br, cr)
  BY <1>5, ObjectCountersCount DEF Counts
<1> HIDE DEF cr
<1>7. Ripens(ar, cr)
  BY <1>2, <1>4, <1>6, RipensOn
<1>8. Good(cr) /\ IsArena(cr) /\ t \in DOMAIN cr /\ Frames(st, cr) /\ Placed(st, cr)
  BY <1>2, <1>7, RipensArena, FramesGrow, PlacedRipens
<1>9. Placed(Append(st, f), cr)
  BY <1>3, <1>8, PlacedOpened
<1>10. QED
  BY <1>1, <1>8, <1>9

\* Without its last frame the stack fits any arena that follows.
LEMMA PopRipens ==
  ASSUME FullInv, calls # <<>>, stack # <<>>, NEW br, Ripens(arena, br)
  PROVE  Good(br) /\ Frames(Pop(stack), br) /\ Placed(Pop(stack), br)
<1> DEFINE d == Len(stack)
           st == Pop(stack)
<1>1. IndInv /\ Good(arena) /\ IsArena(arena) /\ Frames(stack, arena) /\ Placed(stack, arena)
  BY FullParts
<1>2. Sequence(stack) /\ d \in Nat /\ DOMAIN stack = 1 .. d
  BY <1>1, SequenceLen DEF Frames
<1>3. Sequence(st) /\ Len(st) = d - 1 /\ \A i \in 1 .. d - 1 : st[i] = stack[i]
  BY <1>2, SequencePop
<1>4. Frames(st, arena)
  BY <1>1, Popped
<1> HIDE DEF st
<1>5. DOMAIN st = 1 .. d - 1
  BY <1>3, SequenceLen
<1>6. \A i \in DOMAIN st : i \in DOMAIN stack /\ st[i] = stack[i]
  BY <1>2, <1>3, <1>5
<1>7. Placed(st, arena)
  BY <1>1, <1>6, Zenon DEF Placed
<1>8. Good(br) /\ Grows(arena, br)
  BY <1>1, RipensArena
<1>9. Good(br) /\ Frames(st, br) /\ Placed(st, br)
  BY <1>1, <1>4, <1>7, <1>8, FramesGrow, PlacedRipens
<1>10. QED
  BY <1>9 DEF st

LEMMA CloseArrayFull ==
  ASSUME FullInv, CloseArray
  PROVE  Good(arena') /\ Placed(stack', arena') /\ (pending' # None => Usable(arena', pending'))
<1> DEFINE f == Top(stack)
           st == Pop(stack)
           n == f.position
           br == [arena EXCEPT ![f.node].array.lengthSum = @ + n, ![f.node].array.lengths = Tick(@, n)]
           sig == ArraySig(f.children)
<1>1. /\ Walking("array") /\ calls # <<>> /\ pending' = pending
      /\ EmitChildSig(br, st, sig)
  BY DEF CloseArray, ArrayEnd, Walking
<1>2. IndInv /\ Good(arena)
  BY FullParts
<1>3. stack # <<>> /\ f.node \in DOMAIN arena
  BY <1>1, <1>2, WalkingFrame DEF Top, IsFrame
<1>4. pending' = None
  BY <1>1, <1>2 DEF IndInv, Walking
<1> HIDE DEF f, n, sig
<1>5. Ripens(arena, br)
  BY <1>2, <1>3, ArrayCountersCount DEF Counts
<1> HIDE DEF br
<1>6. Good(br) /\ Frames(st, br) /\ Placed(st, br)
  BY <1>1, <1>3, <1>5, PopRipens
<1> HIDE DEF st
<1>7. Good(arena') /\ Placed(stack', arena')
  BY <1>1, <1>6, EmittedRipens
<1>8. QED
  BY <1>4, <1>7

LEMMA CloseObjectFull ==
  ASSUME FullInv, CloseObject
  PROVE  Good(arena') /\ Placed(stack', arena') /\ (pending' # None => Usable(arena', pending'))
<1> DEFINE f == Top(stack)
           st == Pop(stack)
           n == Cardinality(f.children)
           br == [arena EXCEPT ![f.node].object.keyCounts = Tick(@, n)]
           sig == RecordSig(f.children)
<1>1. /\ Walking("object") /\ ~Current.awaits /\ calls # <<>> /\ pending' = pending
      /\ EmitChildSig(br, st, sig)
  BY DEF CloseObject, ObjectEnd, Walking
<1>2. IndInv /\ Good(arena)
  BY FullParts
<1>3. stack # <<>> /\ f.node \in DOMAIN arena
  BY <1>1, <1>2, WalkingFrame DEF Top, IsFrame
<1>4. pending' = None
  BY <1>1, <1>2 DEF IndInv
<1> HIDE DEF f, n, sig
<1>5. Ripens(arena, br)
  BY <1>2, <1>3, ObjectCountersCount DEF Counts
<1> HIDE DEF br
<1>6. Good(br) /\ Frames(st, br) /\ Placed(st, br)
  BY <1>1, <1>3, <1>5, PopRipens
<1> HIDE DEF st
<1>7. Good(arena') /\ Placed(stack', arena')
  BY <1>1, <1>6, EmittedRipens
<1>8. QED
  BY <1>4, <1>7

LEMMA DriveKeyFull ==
  ASSUME FullInv, NEW key \in Key, DriveKey(key)
  PROVE  Good(arena') /\ Placed(stack', arena') /\ (pending' # None => Usable(arena', pending'))
<1> DEFINE d == Len(stack)
           o == stack[d].node
           child == ObjectChild(arena, o, key)
           cr == child.arena
           c == child.id
           br == [cr EXCEPT ![o].object.keyCountSum = @ + 1,
                               ![o].object.keyStats = Tick(@, key)]
           st == [stack EXCEPT ![d].pendingKey = key]
<1>1. Walking("object") /\ arena' = br /\ pending' = c /\ stack' = st
  BY DEF DriveKey, ObjectKey, Top
<1>2. IndInv /\ Good(arena) /\ IsArena(arena) /\ Frames(stack, arena) /\ Placed(stack, arena)
  BY FullParts
<1>3. d \in DOMAIN stack /\ o \in DOMAIN arena /\ HasObject(arena[o])
  BY <1>1, <1>2, WalkingFrame DEF IsFrame
<1>4. Ripens(arena, cr) /\ Usable(cr, c)
  BY <1>2, <1>3, ObjectChildRipens
<1>5. Grows(arena, cr) /\ c \in Ref(Len(cr))
  BY <1>2, <1>3, ObjectChildGrows
<1>6. DOMAIN st = DOMAIN stack /\ \A i \in DOMAIN stack :
        st[i].kind = stack[i].kind /\ st[i].node = stack[i].node /\ st[i].position = stack[i].position
  BY <1>2 DEF Frames, IsFrame
<1> HIDE DEF o, c, cr, child, st
<1>7. Good(cr) /\ o \in DOMAIN cr /\ c \in DOMAIN cr
  BY <1>2, <1>3, <1>4, <1>5, RipensArena, ArenaLen DEF Ref
<1>8. Ripens(cr, br)
  BY <1>7, ObjectCountersCount DEF Counts
<1> HIDE DEF br
<1>9. Ripens(arena, br) /\ Good(br)
  BY <1>2, <1>4, <1>7, <1>8, RipensOn, RipensArena
<1>10. Usable(br, c)
  BY <1>4, <1>7, <1>8 DEF Ripens
<1>11. Placed(stack, br)
  BY <1>2, <1>9, PlacedRipens
<1>12. Placed(st, br)
  BY <1>6, <1>11, Zenon DEF Placed
<1>13. QED
  BY <1>1, <1>9, <1>10, <1>12

LEMMA NextFull ==
  ASSUME FullInv, [Next]_vars
  PROVE  FullInv'
<1>1. IndInv'
  BY FullParts, NextPreserves
<1>2. Good(arena') /\ Placed(stack', arena') /\ (pending' # None => Usable(arena', pending'))
  <2>1. CASE Next
    BY <2>1, DriveDocumentFull, FinishDocumentFull, DriveScalarFull, OpenArrayFull, CloseArrayFull,
      OpenObjectFull, DriveKeyFull, CloseObjectFull DEF Next
  <2>2. CASE UNCHANGED vars
    BY <2>2 DEF vars, analyzerVars, FullInv
  <2>3. QED
    BY <2>1, <2>2
<1>3. QED
  BY <1>1, <1>2 DEF FullInv

-----------------------------------------------------------------------------
\* Between any two events the views of all containers are full exactly when
\* they have given up, and no value is under way to a node that a view keeps
\* for later.
THEOREM FullInvariant == Spec => []FullInv
<1>1. QED
  BY InitFull, NextFull, PTL DEF Spec

\* No two places of the documents share counters, with any keys and caps: the
\* fields, positions and overflow slots of all nodes refer to different nodes
\* (analyzer.rs, ensure_object, ensure_array, object_child, array_child).
THEOREM NoSharing == Spec => []Separate(arena)
<1>1. FullInv => Separate(arena)
  BY DEF FullInv, Good
<1>2. QED
  BY <1>1, FullInvariant, PTL

\* With any caps, the overflow node of a view counts nothing and awaits no
\* value until the view has given up, and a view that has given up is full
\* (analyzer.rs, object_child, array_child).
THEOREM OverflowOnlyWhenFullHolds == Spec => []OverflowOnlyWhenFull
<1>1. FullInv => OverflowOnlyWhenFull
  <2>1. HAVE FullInv
  <2>2. Good(arena) /\ Full(arena) /\ IsArena(arena)
    BY <2>1 DEF FullInv, Good
  <2>3. ASSUME NEW t \in Objects
        PROVE  LET obj == arena[t].object
               IN IF obj.recordAlive THEN Obs(obj.mapValue) = 0 /\ Waiting({obj.mapValue}) = 0
                  ELSE Cardinality(DOMAIN obj.fields) = RecordCap
    <3>1. t \in DOMAIN arena /\ HasObject(arena[t])
      BY DEF Objects, Nodes
    <3>2. /\ arena[t].object.recordAlive => arena[arena[t].object.mapValue].obs = 0
          /\ ~arena[t].object.recordAlive => Cardinality(DOMAIN arena[t].object.fields) = RecordCap
      BY <2>2, <3>1, Zenon DEF Full, ObjectFull
    <3>3. ASSUME arena[t].object.recordAlive
          PROVE  pending \notin {arena[t].object.mapValue}
      <4>1. CASE pending = None
        BY <3>1, <4>1 DEF HasObject
      <4>2. CASE pending # None
        BY <2>1, <3>1, <3>3, <4>2, Zenon DEF FullInv, Usable
      <4>3. QED
        BY <4>1, <4>2
    <3>4. QED
      BY <3>2, <3>3, Zenon DEF Obs, Waiting
  <2>4. ASSUME NEW t \in Arrays
        PROVE  LET arr == arena[t].array
               IN IF arr.positionalAlive THEN Obs(arr.bagValue) = 0
                  ELSE Len(arr.positional) = PositionalCap
    <3>1. t \in DOMAIN arena /\ HasArray(arena[t])
      BY DEF Arrays, Nodes
    <3>2. QED
      BY <2>2, <3>1, Zenon DEF Full, ArrayFull, Obs
  <2>5. QED
    BY <2>3, <2>4 DEF OverflowOnlyWhenFull
<1>2. QED
  BY <1>1, FullInvariant, PTL

-----------------------------------------------------------------------------
(* The tree, and the documents in which its nodes were seen.               *)
Rooted(ar) == \A c \in DOMAIN ar \ {Root} : \E t \in DOMAIN ar : t < c /\ Under(ar, t, c)

Dated(ar, doc) ==
  \A t \in DOMAIN ar :
    /\ ar[t].obs \in Nat /\ ar[t].firstDoc \in Nat /\ ar[t].lastDoc \in Nat
    /\ ar[t].firstDoc <= ar[t].lastDoc /\ ar[t].lastDoc <= doc

Within(v, w) == w.obs # 0 => v.firstDoc <= w.firstDoc /\ w.lastDoc <= v.lastDoc

\* A node that has children was seen, and its children within its documents.
Nested(ar) ==
  \A t \in DOMAIN ar : \A s \in SlotsOf(ar[t]) :
    ar[t].obs # 0 /\ Within(ar[t], ar[At(ar[t], s)])

Tree(ar, doc) == Rooted(ar) /\ Dated(ar, doc) /\ Nested(ar)

\* Node t was seen in the document that is read.
Now(ar, t, doc) == ar[t].obs # 0 /\ ar[t].lastDoc = doc
ParentsNow(ar, c, doc) == \A t \in DOMAIN ar : Under(ar, t, c) => Now(ar, t, doc)

\* br is what ar may become while the document is read.
Ages(ar, br, doc) ==
  Tree(br, doc) /\ \A t \in DOMAIN ar : t \in DOMAIN br /\ (Now(ar, t, doc) => Now(br, t, doc))

LEMMA AgesOn ==
  ASSUME NEW ar, NEW br, NEW cr, NEW doc, Ages(ar, br, doc), Ages(br, cr, doc)
  PROVE  Ages(ar, cr, doc)
BY DEF Ages

LEMMA OnlyParent ==
  ASSUME NEW ar, Separate(ar), NEW t \in DOMAIN ar, NEW c, Under(ar, t, c), NEW doc, Now(ar, t, doc)
  PROVE  ParentsNow(ar, c, doc)
<1>1. ASSUME NEW u \in DOMAIN ar, Under(ar, u, c)
      PROVE  u = t
  BY <1>1, Apart DEF Under
<1>2. QED
  BY <1>1, Zenon DEF ParentsNow

LEMMA RootParents ==
  ASSUME NEW ar, IsArena(ar), NEW doc
  PROVE  ParentsNow(ar, Root, doc)
<1>1. ASSUME NEW u \in DOMAIN ar, NEW s \in SlotsOf(ar[u])
      PROVE  At(ar[u], s) # Root
  <2>1. At(ar[u], s) \in Ref(Len(ar))
    BY <1>1, SlotRef DEF IsArena
  <2>2. QED
    BY <2>1 DEF Ref, Root
<1>2. QED
  BY <1>1, Zenon DEF ParentsNow, Under

LEMMA QuietAges ==
  ASSUME NEW ar, IsArena(ar), NEW doc, Tree(ar, doc), NEW b, Quiet(ar, b)
  PROVE  /\ Ages(ar, b, doc)
         /\ \A c : ParentsNow(ar, c, doc) => ParentsNow(b, c, doc)
<1>1. DOMAIN b = DOMAIN ar /\ \A u \in DOMAIN ar : SameDates(ar[u], b[u])
  BY DEF Quiet
<1>2. \A u \in DOMAIN ar : SlotsOf(b[u]) = SlotsOf(ar[u]) /\ \A s : At(b[u], s) = At(ar[u], s)
  BY SameRefsSlots DEF Quiet
<1>3. \A t \in DOMAIN ar : \A c : Under(b, t, c) <=> Under(ar, t, c)
  BY <1>2, Zenon DEF Under
<1>4. Rooted(b)
  BY <1>1, <1>3 DEF Rooted, Tree
<1>5. Dated(b, doc)
  BY <1>1 DEF Dated, Tree, SameDates
<1>6. \A t \in DOMAIN ar : \A s \in SlotsOf(ar[t]) : At(ar[t], s) \in DOMAIN ar
  BY SlotInArena
<1>7. Nested(b)
  <2>1. ASSUME NEW t \in DOMAIN ar, NEW s \in SlotsOf(ar[t])
        PROVE  b[t].obs # 0 /\ Within(b[t], b[At(ar[t], s)])
    <3>1. ar[t].obs # 0 /\ Within(ar[t], ar[At(ar[t], s)])
      BY DEF Tree, Nested
    <3>2. SameDates(ar[t], b[t]) /\ SameDates(ar[At(ar[t], s)], b[At(ar[t], s)])
      BY <1>1, <1>6
    <3>3. QED
      BY <3>1, <3>2, Zenon DEF SameDates, Within
  <2>2. QED
    BY <1>1, <1>2, <2>1, Zenon DEF Nested
<1>8. \A t \in DOMAIN ar : Now(b, t, doc) <=> Now(ar, t, doc)
  BY <1>1, Zenon DEF Now, SameDates
<1>9. QED
  BY <1>1, <1>3, <1>4, <1>5, <1>7, <1>8, Zenon DEF Ages, Tree, ParentsNow

LEMMA AttachAges ==
  ASSUME NEW ar, IsArena(ar), NEW doc \in Nat, Tree(ar, doc), NEW t \in DOMAIN ar, ar[t].obs # 0,
         NEW n, NEW b, Attached(ar, t, n, b)
  PROVE  Ages(ar, b, doc)
<1> DEFINE new == FreshId(ar)
<1>1. /\ DOMAIN b = DOMAIN ar \cup {new} /\ b[new] = NewNode
      /\ \A u \in DOMAIN ar : u # t => b[u] = ar[u]
      /\ SameDates(ar[t], b[t])
      /\ n \in SlotsOf(b[t]) /\ At(b[t], n) = new
  BY DEF Attached
<1>2. \A s \in SlotsOf(ar[t]) : s \in SlotsOf(b[t]) /\ At(b[t], s) = At(ar[t], s)
  BY DEF Attached
<1>3. \A s \in SlotsOf(b[t]) : \/ s = n /\ At(b[t], s) = new
                               \/ s \in SlotsOf(ar[t]) /\ At(b[t], s) = At(ar[t], s)
  BY DEF Attached
<1>4. Len(ar) \in Nat /\ DOMAIN ar = 1 .. Len(ar) /\ new = Len(ar) + 1
  BY ArenaLen DEF FreshId
<1>5. t < new /\ new \notin DOMAIN ar
  BY <1>4
<1>6. \A u \in DOMAIN ar : SameDates(ar[u], b[u])
  <2>1. TAKE u \in DOMAIN ar
  <2>2. CASE u = t
    BY <1>1, <2>2
  <2>3. CASE u # t
    BY <1>1, <2>3 DEF SameDates
  <2>4. QED
    BY <2>2, <2>3
<1>7. NewNode.obs = 0 /\ NewNode.firstDoc = 0 /\ NewNode.lastDoc = 0
  BY DEF NewNode
<1> HIDE DEF new
<1>8. \A u \in DOMAIN ar : \A c : Under(ar, u, c) => Under(b, u, c)
  <2>1. TAKE u \in DOMAIN ar
  <2>2. CASE u = t
    BY <1>2, <2>2, Zenon DEF Under
  <2>3. CASE u # t
    BY <1>1, <2>3, Zenon DEF Under
  <2>4. QED
    BY <2>2, <2>3
<1>9. Rooted(b)
  <2>1. ASSUME NEW c \in DOMAIN b \ {Root}
        PROVE  \E u \in DOMAIN b : u < c /\ Under(b, u, c)
    <3>1. CASE c = new
      BY <1>1, <1>5, <3>1, Zenon DEF Under
    <3>2. CASE c \in DOMAIN ar
      <4>1. PICK u \in DOMAIN ar : u < c /\ Under(ar, u, c)
        BY <2>1, <3>2 DEF Tree, Rooted
      <4>2. QED
        BY <1>1, <1>8, <4>1
    <3>3. QED
      BY <1>1, <2>1, <3>1, <3>2
  <2>2. QED
    BY <2>1 DEF Rooted
<1>10. Dated(b, doc)
  <2>1. ASSUME NEW u \in DOMAIN b
        PROVE  /\ b[u].obs \in Nat /\ b[u].firstDoc \in Nat /\ b[u].lastDoc \in Nat
               /\ b[u].firstDoc <= b[u].lastDoc /\ b[u].lastDoc <= doc
    <3>1. CASE u = new
      BY <1>1, <1>7, <3>1
    <3>2. CASE u \in DOMAIN ar
      BY <1>6, <3>2 DEF SameDates, Tree, Dated
    <3>3. QED
      BY <1>1, <2>1, <3>1, <3>2
  <2>2. QED
    BY <2>1 DEF Dated
<1>11. \A u \in DOMAIN ar : \A s \in SlotsOf(ar[u]) :
         b[u].obs # 0 /\ Within(b[u], b[At(ar[u], s)])
  <2>1. TAKE u \in DOMAIN ar
  <2>2. TAKE s \in SlotsOf(ar[u])
  <2>3. ar[u].obs # 0 /\ Within(ar[u], ar[At(ar[u], s)])
    BY DEF Tree, Nested
  <2>4. SameDates(ar[u], b[u]) /\ SameDates(ar[At(ar[u], s)], b[At(ar[u], s)])
    BY <1>6, SlotInArena
  <2>5. QED
    BY <2>3, <2>4, Zenon DEF SameDates, Within
<1>12. Nested(b)
  <2>1. ASSUME NEW u \in DOMAIN b, NEW s \in SlotsOf(b[u])
        PROVE  b[u].obs # 0 /\ Within(b[u], b[At(b[u], s)])
    <3>1. CASE u = new
      BY <1>1, <2>1, <3>1, NewNodeSlots
    <3>2. CASE u = t /\ s = n
      <4>1. b[u].obs # 0
        BY <1>1, <3>2 DEF SameDates
      <4>2. QED
        BY <1>1, <1>7, <3>2, <4>1, Zenon DEF Within
    <3>3. CASE u = t /\ s # n
      BY <1>3, <1>11, <2>1, <3>3, Zenon
    <3>4. CASE u \in DOMAIN ar /\ u # t
      BY <1>1, <1>11, <2>1, <3>4, Zenon
    <3>5. QED
      BY <1>1, <2>1, <3>1, <3>2, <3>3, <3>4
  <2>2. QED
    BY <2>1, Zenon DEF Nested
<1>13. \A u \in DOMAIN ar : u \in DOMAIN b /\ (Now(ar, u, doc) => Now(b, u, doc))
  BY <1>1, <1>6, Zenon DEF Now, SameDates
<1>14. QED
  BY <1>9, <1>10, <1>12, <1>13, Zenon DEF Ages, Tree

LEMMA MovesAges ==
  ASSUME NEW ar, IsArena(ar), NEW doc \in Nat, Tree(ar, doc), NEW t \in DOMAIN ar, ar[t].obs # 0,
         NEW b, Moves(ar, t, b)
  PROVE  Ages(ar, b, doc)
BY QuietAges, AttachAges DEF Moves

\* A node is seen after its parent.
LEMMA SeenAges ==
  ASSUME NEW ar, IsArena(ar), currentDoc \in Nat, Tree(ar, currentDoc), NEW t \in DOMAIN ar,
         ParentsNow(ar, t, currentDoc)
  PROVE  Ages(ar, ObsAt(ar, t), currentDoc) /\ Now(ObsAt(ar, t), t, currentDoc)
<1> DEFINE b == ObsAt(ar, t)
<1>1. IsNode(ar[t], Len(ar))
  BY DEF IsArena
<1>2. DOMAIN b = DOMAIN ar /\ \A u \in DOMAIN ar : u # t => b[u] = ar[u]
  BY DEF ObsAt
<1>3. /\ b[t].obs = ar[t].obs + 1 /\ b[t].lastDoc = currentDoc
      /\ ar[t].obs = 0 => b[t].firstDoc = currentDoc
      /\ ar[t].obs # 0 => b[t].firstDoc = ar[t].firstDoc
  BY <1>1 DEF ObsAt, IsNode
<1>4. SameRefs(ar[t], b[t])
  BY <1>1 DEF ObsAt, IsNode, SameRefs
<1> HIDE DEF b
<1>5. \A u \in DOMAIN ar : SlotsOf(b[u]) = SlotsOf(ar[u]) /\ \A s : At(b[u], s) = At(ar[u], s)
  BY <1>2, <1>4, SameRefsSlots
<1>6. \A u \in DOMAIN ar : \A c : Under(b, u, c) <=> Under(ar, u, c)
  BY <1>5, Zenon DEF Under
<1>7. Rooted(b)
  BY <1>2, <1>6 DEF Rooted, Tree
<1>8. \A u \in DOMAIN ar :
        /\ ar[u].obs \in Nat /\ ar[u].firstDoc \in Nat /\ ar[u].lastDoc \in Nat
        /\ ar[u].firstDoc <= ar[u].lastDoc /\ ar[u].lastDoc <= currentDoc
  BY DEF Tree, Dated
<1>9. b[t].obs # 0 /\ b[t].obs \in Nat /\ b[t].firstDoc \in Nat /\ b[t].firstDoc <= currentDoc
  BY <1>3, <1>8
<1>10. Dated(b, currentDoc)
  <2>1. ASSUME NEW u \in DOMAIN b
        PROVE  /\ b[u].obs \in Nat /\ b[u].firstDoc \in Nat /\ b[u].lastDoc \in Nat
               /\ b[u].firstDoc <= b[u].lastDoc /\ b[u].lastDoc <= currentDoc
    <3>1. CASE u = t
      BY <1>3, <1>9, <3>1
    <3>2. CASE u # t
      BY <1>2, <1>8, <2>1, <3>2
    <3>3. QED
      BY <3>1, <3>2
  <2>2. QED
    BY <2>1 DEF Dated
<1>11. ASSUME NEW u \in DOMAIN ar, NEW s \in SlotsOf(ar[u])
       PROVE  b[u].obs # 0 /\ Within(b[u], b[At(ar[u], s)])
  <2> DEFINE c == At(ar[u], s)
  <2>1. /\ ar[u].obs # 0 /\ c \in DOMAIN ar
        /\ ar[c].obs # 0 => ar[u].firstDoc <= ar[c].firstDoc /\ ar[c].lastDoc <= ar[u].lastDoc
    BY <1>11, SlotInArena DEF Tree, Nested, Within
  <2>2. c = t => ar[u].lastDoc = currentDoc
    BY <1>11 DEF ParentsNow, Now, Under
  <2> HIDE DEF c
  <2>3. SUFFICES b[u].obs # 0 /\ Within(b[u], b[c])
    BY DEF c
  <2>4. CASE u = t /\ c = t
    BY <1>3, <1>9, <2>4 DEF Within
  <2>5. CASE u # t /\ c = t
    <3>1. b[u] = ar[u]
      BY <1>2, <2>5
    <3>2. ar[u].firstDoc <= b[t].firstDoc
      BY <1>3, <1>8, <2>1, <2>2, <2>5
    <3>3. QED
      BY <1>3, <1>8, <2>1, <2>2, <2>5, <3>1, <3>2 DEF Within
  <2>6. CASE u = t /\ c # t
    <3>1. b[c] = ar[c]
      BY <1>2, <2>1, <2>6
    <3>2. ar[c].obs # 0 => b[t].firstDoc <= ar[c].firstDoc /\ ar[c].lastDoc <= b[t].lastDoc
      BY <1>3, <1>8, <2>1, <2>6
    <3>3. QED
      BY <1>9, <2>6, <3>1, <3>2 DEF Within
  <2>7. CASE u # t /\ c # t
    <3>1. b[c] = ar[c] /\ b[u] = ar[u]
      BY <1>2, <2>1, <2>7
    <3>2. QED
      BY <2>1, <3>1 DEF Within
  <2>8. QED
    BY <2>4, <2>5, <2>6, <2>7
<1>12. Nested(b)
  BY <1>2, <1>5, <1>11, Zenon DEF Nested
<1>13. Now(b, t, currentDoc)
  BY <1>3, <1>9, Zenon DEF Now
<1>14. \A u \in DOMAIN ar : u \in DOMAIN b /\ (Now(ar, u, currentDoc) => Now(b, u, currentDoc))
  <2>1. TAKE u \in DOMAIN ar
  <2>2. CASE u = t
    BY <1>2, <1>13, <2>2
  <2>3. CASE u # t
    BY <1>2, <2>3 DEF Now
  <2>4. QED
    BY <2>2, <2>3
<1>15. Ages(ar, b, currentDoc)
  BY <1>7, <1>10, <1>12, <1>14, Zenon DEF Ages, Tree
<1>16. QED
  BY <1>13, <1>15 DEF b

-----------------------------------------------------------------------------
(* The steps, with the documents.                                          *)
\* The open containers were seen in this document.
OpenNow(st, ar, doc) == \A i \in DOMAIN st : Now(ar, st[i].node, doc)

TreeInv ==
  /\ FullInv
  /\ currentDoc \in Nat /\ docCount \in Nat /\ currentDoc <= docCount
  /\ Tree(arena, currentDoc)
  /\ OpenNow(stack, arena, currentDoc)
  /\ pending # None => ParentsNow(arena, pending, currentDoc)

LEMMA TreeParts ==
  ASSUME TreeInv
  PROVE  /\ FullInv /\ IndInv /\ Good(arena) /\ IsArena(arena) /\ Frames(stack, arena)
         /\ Placed(stack, arena) /\ Separate(arena)
         /\ currentDoc \in Nat /\ Tree(arena, currentDoc) /\ OpenNow(stack, arena, currentDoc)
BY FullParts DEF TreeInv, Good

LEMMA OpenAges ==
  ASSUME NEW ar, NEW br, NEW doc, Ages(ar, br, doc), NEW st, Frames(st, ar), OpenNow(st, ar, doc)
  PROVE  OpenNow(st, br, doc)
BY DEF Ages, OpenNow, Frames, IsFrame

LEMMA InitTree == Init => TreeInv
<1>1. HAVE Init
<1>2. arena = <<NewNode>> /\ stack = <<>> /\ pending = None /\ currentDoc = 0 /\ docCount = 0
  BY <1>1 DEF Init, AnalyzerInit
<1>3. FullInv /\ IsArena(arena)
  BY <1>1, InitFull DEF FullInv, Good
<1>4. Len(arena) = 1 /\ arena[1] = NewNode
  BY <1>2
<1>5. DOMAIN arena = {Root} /\ arena[Root] = NewNode
  BY <1>3, <1>4, ArenaLen DEF Root
<1>6. NewNode.obs = 0 /\ NewNode.firstDoc = 0 /\ NewNode.lastDoc = 0
  BY DEF NewNode
<1>7. Dated(arena, currentDoc)
  BY <1>2, <1>5, <1>6 DEF Dated
<1>8. Rooted(arena) /\ Nested(arena)
  BY <1>5, NewNodeSlots DEF Rooted, Nested
<1>9. DOMAIN stack = {}
  BY <1>2, SequenceEmpty, SequenceLen
<1>10. QED
  BY <1>2, <1>3, <1>7, <1>8, <1>9 DEF TreeInv, Tree, OpenNow

\* What the steps have to show, but for what NextFull shows.
TreeStep ==
  /\ currentDoc' \in Nat /\ docCount' \in Nat /\ currentDoc' <= docCount'
  /\ Tree(arena', currentDoc')
  /\ OpenNow(stack', arena', currentDoc')
  /\ pending' # None => ParentsNow(arena', pending', currentDoc')

LEMMA DriveDocumentTree ==
  ASSUME TreeInv, DriveDocument
  PROVE  TreeStep
<1>1. /\ calls = <<>> /\ arena' = arena /\ stack' = stack /\ pending' = Root
      /\ currentDoc' = docCount /\ docCount' = docCount + 1
  BY DEF DriveDocument, DocumentBegin
<1>2. IndInv /\ IsArena(arena)
  BY TreeParts
<1>3. DOMAIN stack = {}
  BY <1>1, <1>2, SequenceEmpty, SequenceLen DEF IndInv
<1>4. /\ currentDoc \in Nat /\ docCount \in Nat /\ currentDoc <= docCount
      /\ Rooted(arena) /\ Nested(arena) /\ Dated(arena, currentDoc)
  BY DEF TreeInv, Tree
<1>5. Dated(arena, docCount)
  BY <1>4 DEF Dated
<1>6. docCount + 1 \in Nat /\ docCount <= docCount + 1
  BY <1>4
<1>7. QED
  BY <1>1, <1>2, <1>3, <1>4, <1>5, <1>6, RootParents DEF TreeStep, Tree, OpenNow

LEMMA FinishDocumentTree ==
  ASSUME TreeInv, FinishDocument
  PROVE  TreeStep
<1>1. /\ arena' = arena /\ stack' = stack /\ pending' = None
      /\ currentDoc' = currentDoc /\ docCount' = docCount
  BY DEF FinishDocument, DocumentEnd
<1>2. QED
  BY <1>1 DEF TreeInv, TreeStep

\* The node for the next value has its parents among the open containers.
LEMMA TargetAges ==
  ASSUME TreeInv, AwaitsValue
  PROVE  /\ Ages(arena, Target.arena, currentDoc)
         /\ ParentsNow(Target.arena, Target.id, currentDoc)
         /\ OpenNow(StackAfterTarget, arena, currentDoc)
<1>1. /\ FullInv /\ IndInv /\ Good(arena) /\ IsArena(arena) /\ Frames(stack, arena) /\ Placed(stack, arena)
      /\ currentDoc \in Nat /\ Tree(arena, currentDoc) /\ OpenNow(stack, arena, currentDoc)
  BY TreeParts
<1>2. CASE pending # None
  <2>1. Target = [arena |-> arena, id |-> pending] /\ StackAfterTarget = stack
    BY <1>2 DEF Target, StackAfterTarget
  <2>2. Quiet(arena, arena)
    BY DEF Quiet, SameRefs, SameDates
  <2>3. QED
    BY <1>1, <1>2, <2>1, <2>2, QuietAges DEF TreeInv
<1>3. CASE pending = None
  <2> DEFINE d == Len(stack)
             a == stack[d].node
             p == stack[d].position
             st == [stack EXCEPT ![d].position = @ + 1]
             child == ArrayChild(arena, a, p)
  <2>1. stack # <<>> /\ stack[d].kind = "array"
    BY <1>1, <1>3, HasTargetHolds DEF InArray
  <2>2. d \in DOMAIN stack
    <3>1. d \in Nat /\ DOMAIN stack = 1 .. d /\ d # 0
      BY <1>1, <2>1, SequenceLen, SequenceEmpty DEF Frames
    <3>2. QED
      BY <3>1
  <2>3. a \in DOMAIN arena /\ HasArray(arena[a]) /\ p \in Nat
    BY <1>1, <2>1, <2>2 DEF Frames, IsFrame
  <2>4. arena[a].array.positionalAlive => p <= Len(arena[a].array.positional)
    BY <1>1, <2>1, <2>2 DEF Placed
  <2>5. Target = child /\ StackAfterTarget = st
    BY <1>3 DEF Target, StackAfterTarget, Top
  <2>6. DOMAIN st = DOMAIN stack /\ \A i \in DOMAIN stack : st[i].node = stack[i].node
    BY <1>1, <2>2 DEF Frames, IsFrame
  <2>7. Now(arena, a, currentDoc)
    BY <1>1, <2>2 DEF OpenNow
  <2> HIDE DEF child, st
  <2>8. Ripens(arena, child.arena) /\ Moves(arena, a, child.arena) /\ Under(child.arena, a, child.id)
    BY <1>1, <2>3, <2>4, ArrayChildRipens DEF child
  <2>9. Separate(child.arena)
    BY <2>8 DEF Ripens, Good
  <2> HIDE DEF a
  <2>10. Ages(arena, child.arena, currentDoc)
    BY <1>1, <2>3, <2>7, <2>8, MovesAges DEF Now
  <2>11. a \in DOMAIN child.arena /\ Now(child.arena, a, currentDoc)
    BY <2>3, <2>7, <2>10 DEF Ages
  <2>12. ParentsNow(child.arena, child.id, currentDoc)
    BY <2>8, <2>9, <2>11, OnlyParent
  <2>13. OpenNow(st, arena, currentDoc)
    BY <1>1, <2>6 DEF OpenNow
  <2>14. QED
    BY <2>5, <2>10, <2>12, <2>13
<1>4. QED
  BY <1>2, <1>3

\* The value that arrives is seen in this document.
LEMMA SeenTarget ==
  ASSUME TreeInv, AwaitsValue
  PROVE  LET ar == ObsAt(Target.arena, Target.id)
         IN /\ Tree(ar, currentDoc) /\ Now(ar, Target.id, currentDoc)
            /\ OpenNow(StackAfterTarget, ar, currentDoc)
<1> DEFINE tr == Target.arena
           t == Target.id
           st == StackAfterTarget
           ar == ObsAt(tr, t)
<1>1. FullInv /\ IndInv /\ IsArena(arena) /\ currentDoc \in Nat
  BY TreeParts
<1>2. IsArena(tr) /\ t \in DOMAIN tr /\ Frames(st, arena)
  BY <1>1, TargetGrows
<1>3. Ages(arena, tr, currentDoc) /\ ParentsNow(tr, t, currentDoc) /\ OpenNow(st, arena, currentDoc)
  BY TargetAges
<1> HIDE DEF tr, t, st
<1>4. Tree(tr, currentDoc)
  BY <1>3 DEF Ages
<1>5. Ages(tr, ar, currentDoc) /\ Now(ar, t, currentDoc)
  BY <1>1, <1>2, <1>3, <1>4, SeenAges
<1> HIDE DEF ar
<1>6. Ages(arena, ar, currentDoc)
  BY <1>3, <1>5, AgesOn
<1>7. Tree(ar, currentDoc) /\ Now(ar, t, currentDoc) /\ OpenNow(st, ar, currentDoc)
  BY <1>2, <1>3, <1>5, <1>6, OpenAges DEF Ages
<1>8. QED
  BY <1>7 DEF ar, tr, t, st

\* A value is complete.
LEMMA EmittedAges ==
  ASSUME NEW ar, Good(ar), NEW st, Frames(st, ar), Placed(st, ar), NEW sig,
         EmitChildSig(ar, st, sig), NEW doc, Tree(ar, doc), OpenNow(st, ar, doc)
  PROVE  Tree(arena', doc) /\ OpenNow(stack', arena', doc)
<1>1. IsArena(ar) /\ Quiet(ar, arena')
  BY EmittedRipens DEF Good
<1>2. Ages(ar, arena', doc)
  BY <1>1, QuietAges
<1>3. DOMAIN stack' = DOMAIN st /\ \A i \in DOMAIN st : stack'[i].node = st[i].node
  BY EmittedFrames
<1>4. OpenNow(st, arena', doc)
  BY <1>2, OpenAges
<1>5. QED
  BY <1>2, <1>3, <1>4 DEF Ages, OpenNow

LEMMA SameDocument ==
  ASSUME TreeInv, currentDoc' = currentDoc, docCount' = docCount, pending' = None,
         Tree(arena', currentDoc), OpenNow(stack', arena', currentDoc)
  PROVE  TreeStep
BY DEF TreeInv, TreeStep

LEMMA DriveScalarTree ==
  ASSUME TreeInv, NEW kind \in Kind, DriveScalar(kind)
  PROVE  TreeStep
<1> DEFINE t == Target.id
           st == StackAfterTarget
           ar == ObsAt(Target.arena, t)
           br == [ar EXCEPT ![t].scalars[kind] = @ + 1]
           sig == ScalarSig(kind)
<1>1. /\ AwaitsValue /\ pending' = None /\ EmitChildSig(br, st, sig)
      /\ currentDoc' = currentDoc /\ docCount' = docCount
  BY DEF DriveScalar, Scalar
<1>2. Good(ar) /\ t \in DOMAIN ar /\ Frames(st, ar) /\ Placed(st, ar)
  BY <1>1, TreeParts, CountedRipens
<1>3. Tree(ar, currentDoc) /\ OpenNow(st, ar, currentDoc)
  BY <1>1, SeenTarget
<1> HIDE DEF ar, t, st, sig
<1>4. Ripens(ar, br) /\ Quiet(ar, br)
  BY <1>2, ScalarsCount DEF Counts
<1> HIDE DEF br
<1>5. Good(br) /\ Frames(st, br) /\ Placed(st, br) /\ IsArena(ar)
  BY <1>2, <1>4, RipensArena, FramesGrow, PlacedRipens
<1>6. Ages(ar, br, currentDoc)
  BY <1>3, <1>4, <1>5, QuietAges
<1>7. Tree(br, currentDoc) /\ OpenNow(st, br, currentDoc)
  BY <1>2, <1>3, <1>6, OpenAges DEF Ages
<1>8. Tree(arena', currentDoc) /\ OpenNow(stack', arena', currentDoc)
  BY <1>1, <1>5, <1>7, EmittedAges
<1>9. QED
  BY <1>1, <1>8, SameDocument

LEMMA OpenedNow ==
  ASSUME NEW ar, NEW st, Frames(st, ar), NEW doc, OpenNow(st, ar, doc), NEW f, Now(ar, f.node, doc)
  PROVE  OpenNow(Append(st, f), ar, doc)
<1> DEFINE b == Append(st, f)
           d == Len(st)
<1>1. Sequence(st) /\ d \in Nat /\ DOMAIN st = 1 .. d
  BY SequenceLen DEF Frames
<1>2. Sequence(b) /\ Len(b) = d + 1 /\ (\A i \in 1 .. d : b[i] = st[i]) /\ b[d + 1] = f
  BY <1>1, SequenceAppend
<1> HIDE DEF b
<1>3. DOMAIN b = 1 .. d + 1
  BY <1>2, SequenceLen
<1>4. \A i \in DOMAIN b : (i \in DOMAIN st /\ b[i] = st[i]) \/ b[i] = f
  BY <1>1, <1>2, <1>3
<1>5. OpenNow(b, ar, doc)
  BY <1>4, Zenon DEF OpenNow
<1>6. QED
  BY <1>5 DEF b

LEMMA OpenArrayTree ==
  ASSUME TreeInv, OpenArray
  PROVE  TreeStep
<1> DEFINE t == Target.id
           st == StackAfterTarget
           ar == ObsAt(Target.arena, t)
           br == EnsureArray(ar, t)
           cr == [br EXCEPT ![t].array.obs = @ + 1]
           f == ArrayFrame(t)
<1>1. /\ AwaitsValue /\ arena' = cr /\ stack' = Append(st, f) /\ pending' = None
      /\ currentDoc' = currentDoc /\ docCount' = docCount
  BY DEF OpenArray, ArrayBegin
<1>2. Good(ar) /\ t \in DOMAIN ar /\ Frames(st, ar) /\ Placed(st, ar) /\ currentDoc \in Nat
  BY <1>1, TreeParts, CountedRipens
<1>3. Tree(ar, currentDoc) /\ Now(ar, t, currentDoc) /\ OpenNow(st, ar, currentDoc)
  BY <1>1, SeenTarget
<1>4. f.node = t
  BY DEF ArrayFrame
<1> HIDE DEF ar, t, st, f
<1>5. Ripens(ar, br) /\ Moves(ar, t, br)
  BY <1>2, EnsureArrayRipens
<1> HIDE DEF br
<1>6. Good(br) /\ t \in DOMAIN br /\ IsArena(ar) /\ IsArena(br)
  BY <1>2, <1>5, RipensArena
<1>7. Ages(ar, br, currentDoc)
  BY <1>2, <1>3, <1>5, <1>6, MovesAges DEF Now
<1>8. Counts(br, cr)
  BY <1>6, ArrayCountersCount
<1> HIDE DEF cr
<1>9. Ages(br, cr, currentDoc)
  BY <1>6, <1>7, <1>8, QuietAges DEF Ages, Counts
<1>10. Ages(ar, cr, currentDoc)
  BY <1>7, <1>9, AgesOn
<1>11. Tree(cr, currentDoc) /\ Now(cr, t, currentDoc) /\ OpenNow(st, cr, currentDoc)
  BY <1>2, <1>3, <1>10, OpenAges DEF Ages
<1>12. Ripens(br, cr)
  BY <1>8 DEF Counts
<1>13. Frames(st, cr)
  BY <1>2, <1>5, <1>6, <1>12, RipensArena, FramesGrow
<1>14. OpenNow(Append(st, f), cr, currentDoc)
  BY <1>4, <1>11, <1>13, OpenedNow
<1>15. QED
  BY <1>1, <1>11, <1>14, SameDocument

LEMMA OpenObjectTree ==
  ASSUME TreeInv, OpenObject
  PROVE  TreeStep
<1> DEFINE t == Target.id
           st == StackAfterTarget
           ar == ObsAt(Target.arena, t)
           br == EnsureObject(ar, t)
           cr == [br EXCEPT ![t].object.obs = @ + 1]
           f == ObjectFrame(t)
<1>1. /\ AwaitsValue /\ arena' = cr /\ stack' = Append(st, f) /\ pending' = None
      /\ currentDoc' = currentDoc /\ docCount' = docCount
  BY DEF OpenObject, ObjectBegin
<1>2. Good(ar) /\ t \in DOMAIN ar /\ Frames(st, ar) /\ Placed(st, ar) /\ currentDoc \in Nat
  BY <1>1, TreeParts, CountedRipens
<1>3. Tree(ar, currentDoc) /\ Now(ar, t, currentDoc) /\ OpenNow(st, ar, currentDoc)
  BY <1>1, SeenTarget
<1>4. f.node = t
  BY DEF ObjectFrame
<1> HIDE DEF ar, t, st, f
<1>5. Ripens(ar, br) /\ Moves(ar, t, br)
  BY <1>2, EnsureObjectRipens
<1> HIDE DEF br
<1>6. Good(br) /\ t \in DOMAIN br /\ IsArena(ar) /\ IsArena(br)
  BY <1>2, <1>5, RipensArena
<1>7. Ages(ar, br, currentDoc)
  BY <1>2, <1>3, <1>5, <1>6, MovesAges DEF Now
<1>8. Counts(br, cr)
  BY <1>6, ObjectCountersCount
<1> HIDE DEF cr
<1>9. Ages(br, cr, currentDoc)
  BY <1>6, <1>7, <1>8, QuietAges DEF Ages, Counts
<1>10. Ages(ar, cr, currentDoc)
  BY <1>7, <1>9, AgesOn
<1>11. Tree(cr, currentDoc) /\ Now(cr, t, currentDoc) /\ OpenNow(st, cr, currentDoc)
  BY <1>2, <1>3, <1>10, OpenAges DEF Ages
<1>12. Ripens(br, cr)
  BY <1>8 DEF Counts
<1>13. Frames(st, cr)
  BY <1>2, <1>5, <1>6, <1>12, RipensArena, FramesGrow
<1>14. OpenNow(Append(st, f), cr, currentDoc)
  BY <1>4, <1>11, <1>13, OpenedNow
<1>15. QED
  BY <1>1, <1>11, <1>14, SameDocument

\* Without its last frame.
LEMMA PopAges ==
  ASSUME TreeInv, stack # <<>>, NEW br, Counts(arena, br)
  PROVE  Tree(br, currentDoc) /\ OpenNow(Pop(stack), br, currentDoc)
<1> DEFINE d == Len(stack)
           st == Pop(stack)
<1>1. /\ IsArena(arena) /\ Frames(stack, arena)
      /\ Tree(arena, currentDoc) /\ OpenNow(stack, arena, currentDoc)
  BY TreeParts
<1>2. Ages(arena, br, currentDoc)
  BY <1>1, QuietAges DEF Counts
<1>3. OpenNow(stack, br, currentDoc)
  BY <1>1, <1>2, OpenAges
<1>4. Sequence(stack) /\ d \in Nat /\ DOMAIN stack = 1 .. d
  BY <1>1, SequenceLen DEF Frames
<1>5. Sequence(st) /\ Len(st) = d - 1 /\ \A i \in 1 .. d - 1 : st[i] = stack[i]
  BY <1>4, SequencePop
<1> HIDE DEF st
<1>6. DOMAIN st = 1 .. d - 1
  BY <1>5, SequenceLen
<1>7. \A i \in DOMAIN st : i \in DOMAIN stack /\ st[i] = stack[i]
  BY <1>4, <1>5, <1>6
<1>8. OpenNow(st, br, currentDoc)
  BY <1>3, <1>7, Zenon DEF OpenNow
<1>9. QED
  BY <1>2, <1>8 DEF Ages, st

LEMMA CloseArrayTree ==
  ASSUME TreeInv, CloseArray
  PROVE  TreeStep
<1> DEFINE f == Top(stack)
           st == Pop(stack)
           n == f.position
           br == [arena EXCEPT ![f.node].array.lengthSum = @ + n, ![f.node].array.lengths = Tick(@, n)]
           sig == ArraySig(f.children)
<1>1. /\ Walking("array") /\ calls # <<>> /\ pending' = pending
      /\ EmitChildSig(br, st, sig)
      /\ currentDoc' = currentDoc /\ docCount' = docCount
  BY DEF CloseArray, ArrayEnd, Walking
<1>2. FullInv /\ IndInv /\ Good(arena)
  BY TreeParts
<1>3. stack # <<>> /\ f.node \in DOMAIN arena
  BY <1>1, <1>2, WalkingFrame DEF Top, IsFrame
<1>4. pending' = None
  BY <1>1, <1>2 DEF IndInv, Walking
<1> HIDE DEF f, n, sig
<1>5. Counts(arena, br)
  BY <1>2, <1>3, ArrayCountersCount
<1> HIDE DEF br
<1>6. Good(br) /\ Frames(st, br) /\ Placed(st, br)
  BY <1>1, <1>2, <1>3, <1>5, PopRipens DEF Counts
<1>7. Tree(br, currentDoc) /\ OpenNow(st, br, currentDoc)
  BY <1>3, <1>5, PopAges
<1> HIDE DEF st
<1>8. Tree(arena', currentDoc) /\ OpenNow(stack', arena', currentDoc)
  BY <1>1, <1>6, <1>7, EmittedAges
<1>9. QED
  BY <1>1, <1>4, <1>8, SameDocument

LEMMA CloseObjectTree ==
  ASSUME TreeInv, CloseObject
  PROVE  TreeStep
<1> DEFINE f == Top(stack)
           st == Pop(stack)
           n == Cardinality(f.children)
           br == [arena EXCEPT ![f.node].object.keyCounts = Tick(@, n)]
           sig == RecordSig(f.children)
<1>1. /\ Walking("object") /\ ~Current.awaits /\ calls # <<>> /\ pending' = pending
      /\ EmitChildSig(br, st, sig)
      /\ currentDoc' = currentDoc /\ docCount' = docCount
  BY DEF CloseObject, ObjectEnd, Walking
<1>2. FullInv /\ IndInv /\ Good(arena)
  BY TreeParts
<1>3. stack # <<>> /\ f.node \in DOMAIN arena
  BY <1>1, <1>2, WalkingFrame DEF Top, IsFrame
<1>4. pending' = None
  BY <1>1, <1>2 DEF IndInv
<1> HIDE DEF f, n, sig
<1>5. Counts(arena, br)
  BY <1>2, <1>3, ObjectCountersCount
<1> HIDE DEF br
<1>6. Good(br) /\ Frames(st, br) /\ Placed(st, br)
  BY <1>1, <1>2, <1>3, <1>5, PopRipens DEF Counts
<1>7. Tree(br, currentDoc) /\ OpenNow(st, br, currentDoc)
  BY <1>3, <1>5, PopAges
<1> HIDE DEF st
<1>8. Tree(arena', currentDoc) /\ OpenNow(stack', arena', currentDoc)
  BY <1>1, <1>6, <1>7, EmittedAges
<1>9. QED
  BY <1>1, <1>4, <1>8, SameDocument

LEMMA DriveKeyTree ==
  ASSUME TreeInv, NEW key \in Key, DriveKey(key)
  PROVE  TreeStep
<1> DEFINE d == Len(stack)
           o == stack[d].node
           child == ObjectChild(arena, o, key)
           cr == child.arena
           c == child.id
           br == [cr EXCEPT ![o].object.keyCountSum = @ + 1,
                               ![o].object.keyStats = Tick(@, key)]
           st == [stack EXCEPT ![d].pendingKey = key]
<1>1. /\ Walking("object") /\ arena' = br /\ pending' = c /\ stack' = st
      /\ currentDoc' = currentDoc /\ docCount' = docCount
  BY DEF DriveKey, ObjectKey, Top
<1>2. /\ IndInv /\ Good(arena) /\ IsArena(arena) /\ Frames(stack, arena)
      /\ currentDoc \in Nat /\ Tree(arena, currentDoc) /\ OpenNow(stack, arena, currentDoc)
  BY TreeParts
<1>3. d \in DOMAIN stack /\ o \in DOMAIN arena /\ HasObject(arena[o])
  BY <1>1, <1>2, WalkingFrame DEF IsFrame
<1>4. Now(arena, o, currentDoc)
  BY <1>2, <1>3 DEF OpenNow
<1>5. Ripens(arena, cr) /\ Moves(arena, o, cr) /\ Under(cr, o, c)
  BY <1>2, <1>3, ObjectChildRipens
<1>6. DOMAIN st = DOMAIN stack /\ \A i \in DOMAIN stack : st[i].node = stack[i].node
  BY <1>2 DEF Frames, IsFrame
<1> HIDE DEF o, c, cr, child, st
<1>7. Ages(arena, cr, currentDoc)
  BY <1>2, <1>3, <1>4, <1>5, MovesAges DEF Now
<1>8. Good(cr) /\ IsArena(cr) /\ Separate(cr) /\ o \in DOMAIN cr
  BY <1>2, <1>3, <1>5, RipensArena DEF Good
<1>9. ParentsNow(cr, c, currentDoc)
  BY <1>3, <1>4, <1>5, <1>7, <1>8, OnlyParent DEF Ages
<1>10. Counts(cr, br)
  BY <1>8, ObjectCountersCount
<1> HIDE DEF br
<1>11. Ages(cr, br, currentDoc) /\ ParentsNow(br, c, currentDoc)
  BY <1>7, <1>8, <1>9, <1>10, QuietAges DEF Ages, Counts
<1>12. Ages(arena, br, currentDoc)
  BY <1>7, <1>11, AgesOn
<1>13. OpenNow(stack, br, currentDoc)
  BY <1>2, <1>12, OpenAges
<1>14. OpenNow(st, br, currentDoc)
  BY <1>6, <1>13 DEF OpenNow
<1>15. QED
  BY <1>1, <1>11, <1>12, <1>14 DEF TreeStep, TreeInv, Ages

LEMMA NextTree ==
  ASSUME TreeInv, [Next]_vars
  PROVE  TreeInv'
<1>1. FullInv'
  BY NextFull DEF TreeInv
<1>2. TreeStep
  <2>1. CASE Next
    BY <2>1, DriveDocumentTree, FinishDocumentTree, DriveScalarTree, OpenArrayTree, CloseArrayTree,
      OpenObjectTree, DriveKeyTree, CloseObjectTree DEF Next
  <2>2. CASE UNCHANGED vars
    BY <2>2 DEF vars, analyzerVars, TreeInv, TreeStep
  <2>3. QED
    BY <2>1, <2>2
<1>3. QED
  BY <1>1, <1>2 DEF TreeInv, TreeStep

-----------------------------------------------------------------------------
(* How many children a node has.                                           *)
LEMMA Images ==
  ASSUME NEW S, IsFiniteSet(S), NEW f, DOMAIN f = S, \A x, y \in S : f[x] = f[y] => x = y
  PROVE  /\ IsFiniteSet({f[x] : x \in S})
         /\ Cardinality({f[x] : x \in S}) = Cardinality(S)
<1> DEFINE T == {f[x] : x \in S}
           g == [x \in S |-> f[x]]
<1>1. g \in Bijection(S, T)
  <2>1. g \in [S -> T]
    OBVIOUS
  <2>2. \A x, y \in S : g[x] = g[y] => x = y
    OBVIOUS
  <2>3. \A z \in T : \E x \in S : g[x] = z
    OBVIOUS
  <2>4. QED
    BY <2>1, <2>2, <2>3 DEF Bijection, Injection, Surjection, IsInjective
<1>2. ExistsBijection(S, T)
  BY <1>1 DEF ExistsBijection
<1>3. QED
  BY <1>2, FS_Bijection

LEMMA ObjectSlotCount ==
  ASSUME NEW v, HasObject(v), IsFiniteSet(DOMAIN v.object.fields)
  PROVE  /\ IsFiniteSet(ObjectSlots(v))
         /\ Cardinality(ObjectSlots(v)) = Cardinality(DOMAIN v.object.fields) + 1
<1> DEFINE S == DOMAIN v.object.fields
           f == [k \in S |-> <<"key", k>>]
           K == {f[k] : k \in S}
<1>1. DOMAIN f = S /\ \A x, y \in S : f[x] = f[y] => x = y
  OBVIOUS
<1>2. K = {<<"key", k>> : k \in S} /\ <<"object", 0>> \notin K
  OBVIOUS
<1> HIDE DEF f
<1>3. IsFiniteSet(K) /\ Cardinality(K) = Cardinality(S)
  BY <1>1, Images
<1>4. ObjectSlots(v) = K \cup {<<"object", 0>>}
  BY <1>2 DEF ObjectSlots
<1> DEFINE x == <<"object", 0>>
<1>5. x \notin K
  BY <1>2
<1>6. ObjectSlots(v) = K \cup {x}
  BY <1>4
<1> HIDE DEF K, S, x
<1>7. IsFiniteSet(K \cup {x}) /\ Cardinality(K \cup {x}) = Cardinality(K) + 1
  BY <1>3, <1>5, FS_AddElement
<1>8. QED
  BY <1>3, <1>6, <1>7 DEF S

LEMMA ArraySlotCount ==
  ASSUME NEW v, HasArray(v), Sequence(v.array.positional)
  PROVE  /\ IsFiniteSet(ArraySlots(v))
         /\ Cardinality(ArraySlots(v)) = Len(v.array.positional) + 1
<1> DEFINE n == Len(v.array.positional)
           S == 1 .. n
           f == [i \in S |-> <<"item", i>>]
           K == {f[i] : i \in S}
<1>1. DOMAIN f = S /\ \A x, y \in S : f[x] = f[y] => x = y
  OBVIOUS
<1>2. K = {<<"item", i>> : i \in S} /\ <<"array", 0>> \notin K
  OBVIOUS
<1>3. n \in Nat /\ DOMAIN v.array.positional = S
  BY SequenceLen
<1> HIDE DEF f, n
<1>4. IsFiniteSet(S) /\ Cardinality(S) = n
  <2>1. 1 \in Int /\ n \in Int
    BY <1>3
  <2>2. IsFiniteSet(1 .. n) /\ Cardinality(1 .. n) = IF 1 > n THEN 0 ELSE n - 1 + 1
    BY <2>1, FS_Interval
  <2>3. QED
    BY <1>3, <2>2
<1> HIDE DEF S
<1>5. IsFiniteSet(K) /\ Cardinality(K) = n
  BY <1>1, <1>4, Images
<1>6. ArraySlots(v) = K \cup {<<"array", 0>>}
  BY <1>2, <1>3 DEF ArraySlots
<1>7. n \in Nat /\ n = Len(v.array.positional)
  BY <1>3 DEF n
<1> HIDE DEF K, n
<1>8. IsFiniteSet(K \cup {<<"array", 0>>}) /\ Cardinality(K \cup {<<"array", 0>>}) = n + 1
  BY <1>2, <1>5, FS_AddElement
<1>9. QED
  BY <1>6, <1>7, <1>8

LEMMA SlotCount ==
  ASSUME NEW v, HasObject(v) => IsFiniteSet(DOMAIN v.object.fields), Sequence(v.array.positional)
  PROVE  /\ IsFiniteSet(SlotsOf(v))
         /\ Cardinality(SlotsOf(v)) =
              (IF HasObject(v) THEN Cardinality(DOMAIN v.object.fields) + 1 ELSE 0) +
              (IF HasArray(v) THEN Len(v.array.positional) + 1 ELSE 0)
<1> DEFINE o == IF HasObject(v) THEN Cardinality(DOMAIN v.object.fields) + 1 ELSE 0
           a == IF HasArray(v) THEN Len(v.array.positional) + 1 ELSE 0
<1>1. IsFiniteSet(ObjectSlots(v)) /\ Cardinality(ObjectSlots(v)) = o
  <2>1. CASE HasObject(v)
    BY <2>1, ObjectSlotCount
  <2>2. CASE ~HasObject(v)
    BY <2>2, FS_EmptySet DEF ObjectSlots
  <2>3. QED
    BY <2>1, <2>2
<1>2. IsFiniteSet(ArraySlots(v)) /\ Cardinality(ArraySlots(v)) = a
  <2>1. CASE HasArray(v)
    BY <2>1, ArraySlotCount
  <2>2. CASE ~HasArray(v)
    BY <2>2, FS_EmptySet DEF ArraySlots
  <2>3. QED
    BY <2>1, <2>2
<1>3. ObjectSlots(v) \cap ArraySlots(v) = {}
  BY DEF ObjectSlots, ArraySlots
<1>4. o \in Nat /\ a \in Nat
  BY <1>1, <1>2, FS_CardinalityType
<1> HIDE DEF o, a
<1>5. Cardinality(ObjectSlots(v) \cap ArraySlots(v)) = 0
  BY <1>3, FS_EmptySet
<1>6. /\ IsFiniteSet(SlotsOf(v))
      /\ Cardinality(SlotsOf(v)) =
           Cardinality(ObjectSlots(v)) + Cardinality(ArraySlots(v)) - Cardinality(ObjectSlots(v) \cap ArraySlots(v))
  BY <1>1, <1>2, FS_Union DEF SlotsOf
<1>7. Cardinality(SlotsOf(v)) = o + a
  BY <1>1, <1>2, <1>4, <1>5, <1>6
<1>8. QED
  BY <1>6, <1>7 DEF o, a

LEMMA ChildrenAreSlots ==
  ASSUME NEW t \in Nodes
  PROVE  Children(t) = {At(arena[t], s) : s \in SlotsOf(arena[t])}
<1> DEFINE v == arena[t]
<1>1. (t \in Objects <=> HasObject(v)) /\ (t \in Arrays <=> HasArray(v))
  BY DEF Objects, Arrays
<1>2. FieldNodes(t) \cup {arena[u].object.mapValue : u \in {t} \cap Objects} =
        {At(v, s) : s \in ObjectSlots(v)}
  <2>1. CASE HasObject(v)
    <3> DEFINE F == v.object.fields
    <3>1. FieldNodes(t) = {F[k] : k \in DOMAIN F}
      BY <1>1, <2>1 DEF FieldNodes, Fields
    <3>2. {arena[u].object.mapValue : u \in {t} \cap Objects} = {v.object.mapValue}
      BY <1>1, <2>1
    <3>3. ObjectSlots(v) = {<<"key", k>> : k \in DOMAIN F} \cup {<<"object", 0>>}
      BY <2>1 DEF ObjectSlots
    <3>4. /\ \A k \in DOMAIN F : At(v, <<"key", k>>) = F[k]
          /\ At(v, <<"object", 0>>) = v.object.mapValue
      BY <2>1, Overflows
    <3> HIDE DEF F, v
    <3>5. {At(v, s) : s \in ObjectSlots(v)} = {F[k] : k \in DOMAIN F} \cup {v.object.mapValue}
      BY <3>3, <3>4
    <3>6. QED
      BY <3>1, <3>2, <3>5
  <2>2. CASE ~HasObject(v)
    BY <1>1, <2>2 DEF FieldNodes, Fields, ObjectSlots
  <2>3. QED
    BY <2>1, <2>2
<1>3. PositionNodes(t) \cup {arena[u].array.bagValue : u \in {t} \cap Arrays} =
        {At(v, s) : s \in ArraySlots(v)}
  <2>1. CASE HasArray(v)
    <3> DEFINE P == v.array.positional
    <3>1. PositionNodes(t) = {P[i] : i \in DOMAIN P}
      BY <1>1, <2>1 DEF PositionNodes, Positional
    <3>2. {arena[u].array.bagValue : u \in {t} \cap Arrays} = {v.array.bagValue}
      BY <1>1, <2>1
    <3>3. ArraySlots(v) = {<<"item", i>> : i \in DOMAIN P} \cup {<<"array", 0>>}
      BY <2>1 DEF ArraySlots
    <3>4. /\ \A i \in DOMAIN P : At(v, <<"item", i>>) = P[i]
          /\ At(v, <<"array", 0>>) = v.array.bagValue
      BY <2>1, Overflows
    <3> HIDE DEF P, v
    <3>5. {At(v, s) : s \in ArraySlots(v)} = {P[i] : i \in DOMAIN P} \cup {v.array.bagValue}
      BY <3>3, <3>4
    <3>6. QED
      BY <3>1, <3>2, <3>5
  <2>2. CASE ~HasArray(v)
    <3>1. DOMAIN <<>> = {}
      BY SequenceEmpty, SequenceLen
    <3>2. QED
      BY <1>1, <2>2, <3>1 DEF PositionNodes, Positional, ArraySlots
  <2>3. QED
    BY <2>1, <2>2
<1>4. QED
  BY <1>2, <1>3 DEF Children, Overflow, SlotsOf

LEMMA ChildCount ==
  ASSUME Good(arena), NEW t \in Nodes
  PROVE  Cardinality(Children(t)) = References(t)
<1> DEFINE v == arena[t]
           S == SlotsOf(v)
           f == [s \in S |-> At(v, s)]
<1>1. t \in DOMAIN arena /\ IsNode(v, Len(arena)) /\ Separate(arena) /\ Full(arena)
  BY DEF Good, IsArena, Nodes
<1>2. (t \in Objects <=> HasObject(v)) /\ (t \in Arrays <=> HasArray(v))
  BY DEF Objects, Arrays
<1>3. HasObject(v) => IsFiniteSet(DOMAIN v.object.fields)
  BY <1>1, Zenon DEF Full, ObjectFull
<1>4. /\ IsFiniteSet(S)
      /\ Cardinality(S) =
           (IF HasObject(v) THEN Cardinality(DOMAIN v.object.fields) + 1 ELSE 0) +
           (IF HasArray(v) THEN Len(v.array.positional) + 1 ELSE 0)
  BY <1>1, <1>3, SlotCount DEF IsNode, IsArray
<1>5. DOMAIN f = S /\ \A s, r \in S : f[s] = f[r] => s = r
  BY <1>1, Apart
<1>6. Children(t) = {f[s] : s \in S}
  BY ChildrenAreSlots
<1> HIDE DEF f, S
<1>7. Cardinality(Children(t)) = Cardinality(S)
  BY <1>4, <1>5, <1>6, Images
<1>8. References(t) =
        (IF HasObject(v) THEN Cardinality(DOMAIN v.object.fields) + 1 ELSE 0) +
        (IF HasArray(v) THEN Len(v.array.positional) + 1 ELSE 0)
  <2>1. /\ Cardinality({t} \cap Objects) = IF HasObject(v) THEN 1 ELSE 0
        /\ Cardinality({t} \cap Arrays) = IF HasArray(v) THEN 1 ELSE 0
    <3>1. Cardinality({t}) = 1 /\ Cardinality({}) = 0
      BY FS_Singleton, FS_EmptySet
    <3>2. {t} \cap Objects = IF HasObject(v) THEN {t} ELSE {}
      BY <1>2
    <3>3. {t} \cap Arrays = IF HasArray(v) THEN {t} ELSE {}
      BY <1>2
    <3>4. QED
      BY <3>1, <3>2, <3>3
  <2>2. Cardinality(DOMAIN Fields(t)) = IF HasObject(v) THEN Cardinality(DOMAIN v.object.fields) ELSE 0
    <3>1. DOMAIN [k \in {} |-> 0] = {}
      OBVIOUS
    <3>2. QED
      BY <1>2, <3>1, FS_EmptySet DEF Fields
  <2>3. Len(Positional(t)) = IF HasArray(v) THEN Len(v.array.positional) ELSE 0
    BY <1>2, SequenceEmpty DEF Positional
  <2>4. HasObject(v) => Cardinality(DOMAIN v.object.fields) \in Nat
    BY <1>3, FS_CardinalityType
  <2>5. Len(v.array.positional) \in Nat
    BY <1>1, SequenceLen DEF IsNode, IsArray
  <2>6. ASSUME NEW a, NEW b, NEW c, NEW d, NEW x, NEW y,
               HasObject(v) => x \in Nat, y \in Nat,
               a = IF HasObject(v) THEN x ELSE 0, b = IF HasArray(v) THEN y ELSE 0,
               c = IF HasObject(v) THEN 1 ELSE 0, d = IF HasArray(v) THEN 1 ELSE 0
        PROVE  a + b + c + d =
                 (IF HasObject(v) THEN x + 1 ELSE 0) + (IF HasArray(v) THEN y + 1 ELSE 0)
    <3> HIDE DEF v
    <3>1. CASE HasObject(v)
      BY <2>6, <3>1
    <3>2. CASE ~HasObject(v)
      BY <2>6, <3>2
    <3>3. QED
      BY <3>1, <3>2
  <2> DEFINE a == Cardinality(DOMAIN Fields(t))
             b == Len(Positional(t))
             c == Cardinality({t} \cap Objects)
             d == Cardinality({t} \cap Arrays)
             x == Cardinality(DOMAIN v.object.fields)
             y == Len(v.array.positional)
  <2>7. References(t) = a + b + c + d
    BY DEF References
  <2>8. /\ HasObject(v) => x \in Nat
        /\ y \in Nat
        /\ a = IF HasObject(v) THEN x ELSE 0
        /\ b = IF HasArray(v) THEN y ELSE 0
        /\ c = IF HasObject(v) THEN 1 ELSE 0
        /\ d = IF HasArray(v) THEN 1 ELSE 0
    BY <2>1, <2>2, <2>3, <2>4, <2>5, Zenon
  <2>9. References(t) = (IF HasObject(v) THEN x + 1 ELSE 0) + (IF HasArray(v) THEN y + 1 ELSE 0)
    <3> HIDE DEF a, b, c, d, x, y, v
    <3>1. QED
      BY <2>6, <2>7, <2>8
  <2>10. QED
    BY <2>9
<1>9. QED
  BY <1>4, <1>7, <1>8

-----------------------------------------------------------------------------
\* Between any two events the arena is a tree, every node that has children was
\* seen within the documents of its parent, and what is open was seen in the
\* document that is read.
THEOREM TreeInvariant == Spec => []TreeInv
<1>1. QED
  BY InitTree, NextTree, PTL DEF Spec

\* With any keys and caps, every node but the root is referred to by exactly
\* one other, once, and was first and last seen within the documents in which
\* that one was (analyzer.rs, ensure_object, ensure_array, object_child,
\* array_child, record_doc).
THEOREM ArenaNestsHolds == Spec => []ArenaNests
<1>1. TreeInv => ArenaNests
  <2>1. HAVE TreeInv
  <2>2. /\ Good(arena) /\ IsArena(arena) /\ Separate(arena)
        /\ Rooted(arena) /\ Dated(arena, currentDoc) /\ Nested(arena)
    BY <2>1, TreeParts DEF Tree
  <2>3. Nodes = DOMAIN arena
    BY DEF Nodes
  <2>4. \A t \in Nodes : \A c : c \in Children(t) <=> Under(arena, t, c)
    BY ChildrenAreSlots DEF Under
  <2>5. \A t \in Nodes : Children(t) \subseteq Nodes \ {Root}
    <3>1. TAKE t \in Nodes
    <3>2. ASSUME NEW c \in Children(t)
          PROVE  c \in Nodes \ {Root}
      <4>1. PICK s \in SlotsOf(arena[t]) : At(arena[t], s) = c
        BY <2>4, <3>2 DEF Under
      <4>2. c \in Ref(Len(arena))
        BY <2>2, <2>3, <4>1, SlotRef DEF IsArena
      <4>3. QED
        BY <2>2, <2>3, <4>2, ArenaLen DEF Ref, Root
    <3>3. QED
      BY <3>2
  <2>6. \A t \in Nodes : Cardinality(Children(t)) = References(t)
    BY <2>2, ChildCount
  <2>7. \A t \in Nodes : \A u \in Nodes \ {t} : Children(t) \cap Children(u) = {}
    <3>1. TAKE t \in Nodes
    <3>2. TAKE u \in Nodes \ {t}
    <3>3. ASSUME NEW c, Under(arena, t, c), Under(arena, u, c)
          PROVE  FALSE
      <4>1. t = u
        BY <2>2, <2>3, <3>3, Apart DEF Under
      <4>2. QED
        BY <4>1
    <3>4. QED
      BY <2>4, <3>3
  <2>8. \A t \in Nodes \ {Root} : \E u \in Nodes : u < t /\ t \in Children(u)
    BY <2>2, <2>3, <2>4 DEF Rooted
  <2>9. ArenaIsTree
    BY <2>5, <2>6, <2>7, <2>8 DEF ArenaIsTree
  <2>10. ASSUME NEW t \in Nodes, NEW u \in Children(t), Obs(u) > 0
         PROVE  /\ arena[t].firstDoc <= arena[u].firstDoc
                /\ arena[u].firstDoc <= arena[u].lastDoc
                /\ arena[u].lastDoc <= arena[t].lastDoc
    <3>1. PICK s \in SlotsOf(arena[t]) : At(arena[t], s) = u
      BY <2>4, <2>10 DEF Under
    <3>2. u \in DOMAIN arena
      BY <2>3, <2>5
    <3>3. Within(arena[t], arena[u])
      BY <2>2, <2>3, <3>1 DEF Nested
    <3>4. arena[u].obs # 0 /\ arena[u].firstDoc <= arena[u].lastDoc
      BY <2>2, <2>10, <3>2 DEF Dated, Obs
    <3>5. QED
      BY <3>3, <3>4 DEF Within
  <2>11. DocumentsNest
    BY <2>10 DEF DocumentsNest
  <2>12. QED
    BY <2>9, <2>11 DEF ArenaNests
<1>2. QED
  BY <1>1, TreeInvariant, PTL

-----------------------------------------------------------------------------
(* The names of the nodes.                                                 *)
LEMMA SequenceEqual ==
  ASSUME NEW s, Sequence(s), NEW r, Sequence(r), Len(s) = Len(r),
         \A i \in 1 .. Len(s) : s[i] = r[i]
  PROVE  s = r
<1>1. PICK S : s \in Seq(S)
  BY DEF Sequence
<1>2. PICK R : r \in Seq(R)
  BY DEF Sequence
<1>3. s \in Seq(S \cup R) /\ r \in Seq(S \cup R)
  BY <1>1, <1>2, SeqMonotonic
<1>4. QED
  BY <1>3, SeqEqual

\* The step of a path that goes through a slot.
StepAt(s) == IF s[1] \in {"key", "item"} THEN s ELSE <<"any", s[1]>>

IsSlot(s) ==
  \/ \E k : s = <<"key", k>>
  \/ \E i : s = <<"item", i>>
  \/ s \in {<<"object", 0>>, <<"array", 0>>}

LEMMA SlotsAreSlots ==
  ASSUME NEW v, NEW s \in SlotsOf(v)
  PROVE  IsSlot(s)
BY DEF SlotsOf, ObjectSlots, ArraySlots, IsSlot

\* Different slots are different steps.
LEMMA StepsDiffer ==
  ASSUME NEW s, IsSlot(s), NEW r, IsSlot(r), StepAt(s) = StepAt(r)
  PROVE  s = r
BY DEF IsSlot, StepAt

\* The edges of an arena are its slots.
LEMMA EdgesAreSlots ==
  ASSUME NEW ar
  PROVE  /\ \A x \in Edges(ar) : \E u \in DOMAIN ar : \E s \in SlotsOf(ar[u]) :
              x = [from |-> u, step |-> StepAt(s), to |-> At(ar[u], s)]
         /\ \A u \in DOMAIN ar : \A s \in SlotsOf(ar[u]) :
              [from |-> u, step |-> StepAt(s), to |-> At(ar[u], s)] \in Edges(ar)
<1> DEFINE E(u) ==
    (IF ~HasObject(ar[u]) THEN {}
     ELSE {[from |-> u, step |-> <<"key", k>>, to |-> ar[u].object.fields[k]] :
             k \in DOMAIN ar[u].object.fields}
          \cup {[from |-> u, step |-> <<"any", "object">>, to |-> ar[u].object.mapValue]})
    \cup
    (IF ~HasArray(ar[u]) THEN {}
     ELSE {[from |-> u, step |-> <<"item", i>>, to |-> ar[u].array.positional[i]] :
             i \in DOMAIN ar[u].array.positional}
          \cup {[from |-> u, step |-> <<"any", "array">>, to |-> ar[u].array.bagValue]})
<1>1. Edges(ar) = UNION {E(u) : u \in DOMAIN ar}
  BY DEF Edges
<1> DEFINE Edge(u, s) == [from |-> u, step |-> StepAt(s), to |-> At(ar[u], s)]
<1>2. ASSUME NEW u \in DOMAIN ar
      PROVE  /\ \A k : Edge(u, <<"key", k>>) = [from |-> u, step |-> <<"key", k>>, to |-> ar[u].object.fields[k]]
             /\ \A i : Edge(u, <<"item", i>>) = [from |-> u, step |-> <<"item", i>>, to |-> ar[u].array.positional[i]]
             /\ Edge(u, <<"object", 0>>) = [from |-> u, step |-> <<"any", "object">>, to |-> ar[u].object.mapValue]
             /\ Edge(u, <<"array", 0>>) = [from |-> u, step |-> <<"any", "array">>, to |-> ar[u].array.bagValue]
  BY DEF StepAt, At
<1> HIDE DEF Edge
<1>3. ASSUME NEW u \in DOMAIN ar
      PROVE  /\ \A x \in E(u) : \E s \in SlotsOf(ar[u]) : x = Edge(u, s)
             /\ \A s \in SlotsOf(ar[u]) : Edge(u, s) \in E(u)
  <2>1. ASSUME NEW x \in E(u) PROVE \E s \in SlotsOf(ar[u]) : x = Edge(u, s)
    <3>1. CASE HasObject(ar[u]) /\ \E k \in DOMAIN ar[u].object.fields :
                  x = [from |-> u, step |-> <<"key", k>>, to |-> ar[u].object.fields[k]]
      <4> PICK k \in DOMAIN ar[u].object.fields :
                  x = [from |-> u, step |-> <<"key", k>>, to |-> ar[u].object.fields[k]]
        BY <3>1
      <4>1. x = Edge(u, <<"key", k>>)
        BY <1>2
      <4>2. <<"key", k>> \in SlotsOf(ar[u])
        BY <3>1, Overflows
      <4>3. QED
        BY <4>1, <4>2
    <3>2. CASE HasObject(ar[u]) /\ x = [from |-> u, step |-> <<"any", "object">>, to |-> ar[u].object.mapValue]
      BY <3>2, <1>2, Overflows
    <3>3. CASE HasArray(ar[u]) /\ \E i \in DOMAIN ar[u].array.positional :
                  x = [from |-> u, step |-> <<"item", i>>, to |-> ar[u].array.positional[i]]
      <4> PICK i \in DOMAIN ar[u].array.positional :
                  x = [from |-> u, step |-> <<"item", i>>, to |-> ar[u].array.positional[i]]
        BY <3>3
      <4>1. x = Edge(u, <<"item", i>>)
        BY <1>2
      <4>2. <<"item", i>> \in SlotsOf(ar[u])
        BY <3>3, Overflows
      <4>3. QED
        BY <4>1, <4>2
    <3>4. CASE HasArray(ar[u]) /\ x = [from |-> u, step |-> <<"any", "array">>, to |-> ar[u].array.bagValue]
      BY <3>4, <1>2, Overflows
    <3>5. QED
      BY <3>1, <3>2, <3>3, <3>4
  <2>2. ASSUME NEW s \in SlotsOf(ar[u]) PROVE Edge(u, s) \in E(u)
    <3>1. CASE HasObject(ar[u]) /\ \E k \in DOMAIN ar[u].object.fields : s = <<"key", k>>
      <4> PICK k \in DOMAIN ar[u].object.fields : s = <<"key", k>>
        BY <3>1
      <4>1. QED
        BY <3>1, <1>2
    <3>2. CASE HasObject(ar[u]) /\ s = <<"object", 0>>
      BY <3>2, <1>2
    <3>3. CASE HasArray(ar[u]) /\ \E i \in DOMAIN ar[u].array.positional : s = <<"item", i>>
      <4> PICK i \in DOMAIN ar[u].array.positional : s = <<"item", i>>
        BY <3>3
      <4>1. QED
        BY <3>3, <1>2
    <3>4. CASE HasArray(ar[u]) /\ s = <<"array", 0>>
      BY <3>4, <1>2
    <3>5. QED
      BY <3>1, <3>2, <3>3, <3>4 DEF SlotsOf, ObjectSlots, ArraySlots
  <2>3. QED
    BY <2>1, <2>2
<1> HIDE DEF E
<1>4. QED
  BY <1>1, <1>3 DEF Edge

\* ps names the nodes of ar by the steps that lead to them, each differently.
Names(ps, ar) ==
  /\ Sequence(ps) /\ Len(ps) = Len(ar)
  /\ \A t \in DOMAIN ar : ps[t] \in Seq(PathStep)
  /\ ps[Root] = <<>>
  /\ \A t \in DOMAIN ar : \A s \in SlotsOf(ar[t]) :
       StepAt(s) \in PathStep /\ ps[At(ar[t], s)] = Append(ps[t], StepAt(s))
  /\ \A t, u \in DOMAIN ar : ps[t] = ps[u] => t = u

LEMMA AppendTells ==
  ASSUME NEW p \in Seq(PathStep), NEW q \in Seq(PathStep), NEW a \in PathStep, NEW b \in PathStep
  PROVE  /\ Append(p, a) \in Seq(PathStep) /\ Append(p, a) # <<>>
         /\ Append(p, a)[Len(Append(p, a))] = a
         /\ Append(p, a) = Append(q, b) => p = q /\ a = b
<1>1. /\ Append(p, a) \in Seq(PathStep) /\ Append(p, a) # <<>>
      /\ Append(p, a)[Len(Append(p, a))] = a
  BY AppendProperties
<1>2. Append(p, a) = Append(q, b) => p = q /\ a = b
  BY AppendInjective
<1>3. QED
  BY <1>1, <1>2

LEMMA AppendEqual ==
  ASSUME NEW p \in Seq(PathStep), NEW q \in Seq(PathStep), NEW a \in PathStep, NEW b \in PathStep,
         Append(p, a) = Append(q, b)
  PROVE  p = q /\ a = b
BY AppendTells

LEMMA NamedSlot ==
  ASSUME NEW ps, NEW ar, Names(ps, ar), NEW t \in DOMAIN ar, NEW s \in SlotsOf(ar[t])
  PROVE  StepAt(s) \in PathStep /\ ps[At(ar[t], s)] = Append(ps[t], StepAt(s))
BY Zenon DEF Names

\* There is a node at a step from t exactly if t has that slot.
LEMMA StepKnown ==
  ASSUME NEW ps, NEW ar, Names(ps, ar), Rooted(ar), NEW t \in DOMAIN ar, NEW q \in PathStep,
         NEW c \in DOMAIN ar, ps[c] = Append(ps[t], q)
  PROVE  \E s \in SlotsOf(ar[t]) : StepAt(s) = q /\ At(ar[t], s) = c
<1>1. c # Root
  BY AppendTells DEF Names
<1>2. PICK u \in DOMAIN ar : Under(ar, u, c)
  BY <1>1 DEF Rooted
<1> PICK s \in SlotsOf(ar[u]) : At(ar[u], s) = c
  BY <1>2 DEF Under
<1>3. ps[c] = Append(ps[u], StepAt(s)) /\ StepAt(s) \in PathStep
  BY DEF Names
<1>4. ps[u] = ps[t] /\ StepAt(s) = q
  <2>1. ps[u] \in Seq(PathStep) /\ ps[t] \in Seq(PathStep)
    BY DEF Names
  <2>2. Append(ps[u], StepAt(s)) = Append(ps[t], q)
    BY <1>3
  <2> DEFINE a == StepAt(s)
             p == ps[u]
             r == ps[t]
  <2> HIDE DEF a, p, r
  <2>3. p \in Seq(PathStep) /\ r \in Seq(PathStep) /\ a \in PathStep /\ Append(p, a) = Append(r, q)
    BY <1>3, <2>1, <2>2 DEF a, p, r
  <2>4. p = r /\ a = q
    BY <2>3, AppendEqual
  <2>5. QED
    BY <2>4 DEF a, p, r
<1>5. u = t
  BY <1>4 DEF Names
<1>6. QED
  BY <1>4, <1>5

LEMMA NamesAttached ==
  ASSUME NEW ps, NEW ar, Names(ps, ar), IsArena(ar), Rooted(ar),
         NEW t \in DOMAIN ar, NEW n, StepAt(n) \in PathStep, NEW b, Attached(ar, t, n, b),
         IsArena(b)
  PROVE  LET qs == Append(ps, Append(ps[t], StepAt(n)))
         IN Names(qs, b) /\ (\A u \in DOMAIN ar : qs[u] = ps[u]) /\ Len(qs) = Len(ps) + 1
<1> DEFINE f == FreshId(ar)
           p == Append(ps[t], StepAt(n))
           qs == Append(ps, p)
<1>1. /\ Len(ar) \in Nat /\ DOMAIN ar = 1 .. Len(ar) /\ f = Len(ar) + 1 /\ f \notin DOMAIN ar
      /\ DOMAIN b = DOMAIN ar \cup {f} /\ Root \in DOMAIN ar
      /\ Len(b) \in Nat /\ DOMAIN b = 1 .. Len(b)
  <2>1. Len(ar) \in Nat /\ DOMAIN ar = 1 .. Len(ar) /\ Root \in DOMAIN ar
    BY ArenaLen
  <2>2. Len(b) \in Nat /\ DOMAIN b = 1 .. Len(b)
    BY ArenaLen
  <2>3. DOMAIN b = DOMAIN ar \cup {f}
    BY DEF Attached
  <2>4. f = Len(ar) + 1 /\ f \notin DOMAIN ar
    BY <2>1 DEF FreshId
  <2>5. QED
    BY <2>1, <2>2, <2>3, <2>4
<1>2. Len(b) = Len(ar) + 1
  BY <1>1
<1>3. /\ Sequence(qs) /\ Len(qs) = Len(ps) + 1
      /\ \A u \in DOMAIN ar : qs[u] = ps[u]
      /\ qs[f] = p
  <2>1. Sequence(ps) /\ Len(ps) = Len(ar)
    BY DEF Names
  <2> HIDE DEF p, f
  <2>2. /\ Sequence(qs) /\ Len(qs) = Len(ps) + 1
        /\ \A i \in 1 .. Len(ps) : qs[i] = ps[i]
        /\ qs[Len(ps) + 1] = p
    BY <2>1, SequenceAppend
  <2>3. QED
    BY <1>1, <2>1, <2>2
<1>4. p \in Seq(PathStep)
  BY AppendTells DEF Names
<1>5. n \in SlotsOf(b[t]) /\ At(b[t], n) = f
  BY DEF Attached
<1> HIDE DEF qs, p
<1>6. \A u \in DOMAIN b : qs[u] \in Seq(PathStep)
  BY <1>1, <1>3, <1>4 DEF Names
<1>7. qs[Root] = <<>>
  BY <1>1, <1>3 DEF Names
<1>8. ASSUME NEW u \in DOMAIN b, NEW s \in SlotsOf(b[u])
      PROVE  StepAt(s) \in PathStep /\ qs[At(b[u], s)] = Append(qs[u], StepAt(s))
  <2>1. CASE u = f
    BY <2>1, <1>8, NewNodeSlots DEF Attached
  <2>2. CASE u = t /\ s = n
    BY <2>2, <1>3, <1>5 DEF p
  <2>3. CASE u \in DOMAIN ar /\ s \in SlotsOf(ar[u]) /\ At(b[u], s) = At(ar[u], s)
    <3>1. At(ar[u], s) \in DOMAIN ar
      BY <2>3, SlotInArena
    <3>2. QED
      BY <2>3, <3>1, <1>3 DEF Names
  <2>4. QED
    BY <1>1, <1>8, <2>1, <2>2, <2>3 DEF Attached
<1>9. ASSUME NEW u \in DOMAIN ar, ps[u] = p PROVE FALSE
  <2>1. PICK s \in SlotsOf(ar[t]) : StepAt(s) = StepAt(n) /\ At(ar[t], s) = u
    BY <1>9, StepKnown DEF p
  <2>2. IsSlot(s) /\ IsSlot(n)
    BY <1>5, SlotsAreSlots
  <2>3. s = n
    BY <2>1, <2>2, StepsDiffer
  <2>4. At(b[t], s) = At(ar[t], s)
    BY <2>1 DEF Attached
  <2>5. QED
    BY <1>1, <1>5, <2>1, <2>3, <2>4
<1>10. ASSUME NEW u \in DOMAIN b, NEW v \in DOMAIN b, qs[u] = qs[v] PROVE u = v
  <2>1. CASE u \in DOMAIN ar /\ v \in DOMAIN ar
    BY <1>3, <1>10, <2>1 DEF Names
  <2>2. CASE u = f \/ v = f
    BY <1>1, <1>3, <1>9, <1>10, <2>2
  <2>3. QED
    BY <1>1, <2>1, <2>2
<1>11. Names(qs, b)
  BY <1>2, <1>3, <1>6, <1>7, <1>8, <1>10 DEF Names
<1>12. QED
  BY <1>3, <1>11 DEF qs, p

\* qs are the names ps and at most n more.
Further(ps, qs, n) ==
  /\ Sequence(ps) /\ Sequence(qs)
  /\ 1 <= Len(ps) /\ Len(ps) <= Len(qs) /\ Len(qs) <= Len(ps) + n
  /\ \A i \in 1 .. Len(ps) : qs[i] = ps[i]

LEMMA FurtherOn ==
  ASSUME NEW ps, NEW qs, NEW rs, NEW n \in Nat, NEW m \in Nat, Further(ps, qs, n), Further(qs, rs, m)
  PROVE  Further(ps, rs, n + m)
<1>1. Len(ps) \in Nat /\ Len(qs) \in Nat /\ Len(rs) \in Nat
  BY SequenceLen DEF Further
<1>2. QED
  BY <1>1 DEF Further

LEMMA FurtherSame ==
  ASSUME NEW ps, Sequence(ps), 1 <= Len(ps)
  PROVE  Further(ps, ps, 0)
BY SequenceLen DEF Further

\* The next name is that of the one slot that holds the next node.
LEMMA GrownIs ==
  ASSUME NEW rs, NEW qs, NEW n \in Nat, Further(rs, qs, n), NEW ar, IsArena(ar), Names(qs, ar),
         Rooted(ar), Separate(ar)
  PROVE  /\ Further(rs, Grown(rs, ar), 1)
         /\ \E m \in Nat : Further(Grown(rs, ar), qs, m) /\ (n # 0 => m = n - 1)
         /\ Len(rs) = Len(qs) => Grown(rs, ar) = qs
<1>1. /\ Len(rs) \in Nat /\ Len(qs) \in Nat /\ Len(qs) = Len(ar) /\ DOMAIN ar = 1 .. Len(ar)
      /\ Sequence(rs) /\ Sequence(qs) /\ 1 <= Len(rs) /\ Len(rs) <= Len(qs) /\ Len(qs) <= Len(rs) + n
      /\ \A i \in 1 .. Len(rs) : qs[i] = rs[i]
  BY SequenceLen, ArenaLen DEF Further, Names
<1>2. CASE Len(rs) = Len(qs)
  <2>1. rs = qs
    BY <1>1, <1>2, SequenceEqual
  <2>2. Grown(rs, ar) = qs
    BY <1>1, <1>2, <2>1 DEF Grown
  <2>3. Further(qs, qs, 0)
    BY <1>1, <1>2, FurtherSame
  <2>4. Further(rs, qs, 1) /\ \A m \in Nat : Further(qs, qs, m)
    BY <1>1, <1>2, <2>1 DEF Further
  <2>5. QED
    BY <2>2, <2>4
<1>3. CASE Len(rs) # Len(qs)
  <2> DEFINE t == Len(rs) + 1
  <2>1. t \in DOMAIN ar \ {Root} /\ t \in 1 .. Len(qs) /\ Len(rs) < Len(ar)
    BY <1>1, <1>3 DEF Root
  <2>2. PICK u \in DOMAIN ar : u < t /\ Under(ar, u, t)
    BY <2>1 DEF Rooted
  <2>3. u \in 1 .. Len(rs)
    BY <1>1, <2>2
  <2> PICK s \in SlotsOf(ar[u]) : At(ar[u], s) = t
    BY <2>2 DEF Under
  <2> DEFINE e == [from |-> u, step |-> StepAt(s), to |-> At(ar[u], s)]
  <2>4. e \in Edges(ar) /\ e.to = t
    BY EdgesAreSlots
  <2>5. ASSUME NEW x \in Edges(ar), x.to = t PROVE x = e
    <3> PICK v \in DOMAIN ar : \E r \in SlotsOf(ar[v]) :
              x = [from |-> v, step |-> StepAt(r), to |-> At(ar[v], r)]
      BY EdgesAreSlots
    <3> PICK r \in SlotsOf(ar[v]) : x = [from |-> v, step |-> StepAt(r), to |-> At(ar[v], r)]
      OBVIOUS
    <3>1. At(ar[v], r) = At(ar[u], s)
      BY <2>5
    <3>2. v = u /\ r = s
      BY <3>1, Apart
    <3>3. QED
      BY <3>2
  <2>6. (CHOOSE x \in Edges(ar) : x.to = t) = e
    <3> HIDE DEF e, t
    <3>1. QED
      BY <2>4, <2>5
  <2>7. PathTo(rs, ar, t) = Append(rs[u], StepAt(s))
    <3>1. e.from = u /\ e.step = StepAt(s)
      OBVIOUS
    <3> HIDE DEF e
    <3>2. PathTo(rs, ar, t) = Append(rs[e.from], e.step)
      BY <2>6 DEF PathTo
    <3>3. QED
      BY <3>1, <3>2
  <2>8. qs[t] = Append(qs[u], StepAt(s))
    BY DEF Names
  <2>9. PathTo(rs, ar, t) = qs[t]
    BY <1>1, <2>3, <2>7, <2>8
  <2>10. Grown(rs, ar) = Append(rs, qs[t])
    BY <2>1, <2>9 DEF Grown
  <2> HIDE DEF t
  <2> DEFINE gs == Append(rs, qs[t])
  <2>11. /\ Sequence(gs) /\ Len(gs) = t
         /\ \A i \in 1 .. Len(rs) : gs[i] = rs[i]
         /\ gs[t] = qs[t]
    BY <1>1, SequenceAppend DEF t
  <2>12. Further(rs, gs, 1)
    BY <1>1, <2>11 DEF Further, t
  <2> HIDE DEF gs
  <2>13. \A i \in 1 .. Len(gs) : qs[i] = gs[i]
    BY <1>1, <2>11 DEF t
  <2>14. n # 0 /\ n - 1 \in Nat
    BY <1>1, <1>3
  <2>15. Further(gs, qs, n - 1)
    BY <1>1, <1>3, <2>11, <2>13, <2>14 DEF Further, t
  <2>16. QED
    BY <1>3, <2>10, <2>12, <2>14, <2>15 DEF gs
<1>4. QED
  BY <1>2, <1>3

\* The names that the model gives are the only ones there are.
LEMMA NamedIs ==
  ASSUME NEW ps, NEW qs, Further(ps, qs, 2), NEW ar, IsArena(ar), Names(qs, ar),
         Rooted(ar), Separate(ar)
  PROVE  Named(ps, ar) = qs
<1> DEFINE gs == Grown(ps, ar)
<1>1. Further(gs, qs, 1)
  BY GrownIs
<1> HIDE DEF gs
<1>2. Further(Grown(gs, ar), qs, 0)
  BY <1>1, GrownIs
<1>3. Grown(gs, ar) = qs
  BY <1>2, SequenceLen, SequenceEqual DEF Further
<1>4. QED
  BY <1>3 DEF Named, gs

-----------------------------------------------------------------------------
(* The table that an arena with named nodes stands for.                    *)
PathsOf(ps, ar) == {ps[t] : t \in DOMAIN ar}
CountOf(ps, ar) ==
  [p \in {ps[t] : t \in DOMAIN ar} |-> ar[CHOOSE t \in DOMAIN ar : ps[t] = p].obs]

Containers == {"object", "array"}

\* The view of the container of a kind has given up.
Retired(v, kind) ==
  IF kind = "object" THEN HasObject(v) /\ ~v.object.recordAlive
  ELSE HasArray(v) /\ ~v.array.positionalAlive

SpilledOf(ps, ar) ==
  {ps[ar[t].object.mapValue] : t \in {u \in {w \in DOMAIN ar : HasObject(ar[w])} : ~ar[u].object.recordAlive}}
  \cup
  {ps[ar[t].array.bagValue] : t \in {u \in {w \in DOMAIN ar : HasArray(ar[w])} : ~ar[u].array.positionalAlive}}

OpenOf(ps, st) ==
  [i \in DOMAIN st |-> [path |-> ps[st[i].node], kind |-> st[i].kind, items |-> st[i].position]]

GoalOf(ps, c) == IF c = None THEN Nowhere ELSE ps[c]

\* The counts, path by path.
LEMMA CountAt ==
  ASSUME NEW ps, NEW ar, Names(ps, ar)
  PROVE  /\ DOMAIN CountOf(ps, ar) = PathsOf(ps, ar)
         /\ \A t \in DOMAIN ar : CountOf(ps, ar)[ps[t]] = ar[t].obs
<1>1. DOMAIN CountOf(ps, ar) = PathsOf(ps, ar)
  BY DEF CountOf, PathsOf
<1>2. ASSUME NEW t \in DOMAIN ar PROVE CountOf(ps, ar)[ps[t]] = ar[t].obs
  <2>1. (CHOOSE u \in DOMAIN ar : ps[u] = ps[t]) = t
    BY DEF Names
  <2>2. QED
    BY <2>1 DEF CountOf
<1>3. QED
  BY <1>1, <1>2

LEMMA PathCounted ==
  ASSUME NEW ps, NEW ar, NEW t \in DOMAIN ar
  PROVE  ps[t] \in DOMAIN CountOf(ps, ar)
BY DEF CountOf

LEMMA CountIs ==
  ASSUME NEW ps, NEW ar, Names(ps, ar), NEW C, C = [p \in DOMAIN C |-> C[p]],
         DOMAIN C = PathsOf(ps, ar), \A t \in DOMAIN ar : C[ps[t]] = ar[t].obs
  PROVE  CountOf(ps, ar) = C
<1>1. CountOf(ps, ar) = [p \in DOMAIN CountOf(ps, ar) |-> CountOf(ps, ar)[p]]
  BY DEF CountOf
<1>2. DOMAIN CountOf(ps, ar) = DOMAIN C /\ \A p \in DOMAIN C : CountOf(ps, ar)[p] = C[p]
  <2>1. /\ DOMAIN CountOf(ps, ar) = PathsOf(ps, ar)
        /\ \A t \in DOMAIN ar : CountOf(ps, ar)[ps[t]] = ar[t].obs
    BY CountAt
  <2>2. QED
    BY <2>1 DEF PathsOf
<1>3. QED
  BY <1>1, <1>2

\* A table with a path has it.
LEMMA WithTwice ==
  ASSUME NEW C, NEW p
  PROVE  /\ Table!With(Table!With(C, p), p) = Table!With(C, p)
         /\ Table!Plus(Table!With(C, p), p) = Table!Plus(C, p)
<1>1. Table!With(Table!With(C, p), p) = Table!With(C, p)
  BY DEF Table!With
<1>2. QED
  BY <1>1 DEF Table!Plus

LEMMA WithKnown ==
  ASSUME NEW C, C = [q \in DOMAIN C |-> C[q]], NEW p \in DOMAIN C
  PROVE  Table!With(C, p) = C
BY DEF Table!With

LEMMA PlusKnown ==
  ASSUME NEW C, C = [q \in DOMAIN C |-> C[q]], NEW p \in DOMAIN C, NEW D, D = Table!Plus(C, p)
  PROVE  /\ DOMAIN D = DOMAIN C
         /\ D = [q \in DOMAIN D |-> D[q]]
         /\ \A q \in DOMAIN C : D[q] = IF q = p THEN C[p] + 1 ELSE C[q]
<1>1. D = [C EXCEPT ![p] = @ + 1]
  BY WithKnown DEF Table!Plus
<1>2. QED
  BY <1>1

LEMMA CountIsTable ==
  ASSUME NEW ps, NEW ar
  PROVE  CountOf(ps, ar) = [p \in DOMAIN CountOf(ps, ar) |-> CountOf(ps, ar)[p]]
BY DEF CountOf

\* A path is spilled exactly if the view of its container has given up.
LEMMA SpilledIs ==
  ASSUME NEW ps, NEW ar, Names(ps, ar), NEW p
  PROVE  p \in SpilledOf(ps, ar) <=>
           \E u \in DOMAIN ar : \E kind \in Containers :
             Retired(ar[u], kind) /\ p = Table!Shared(ps[u], kind)
<1>1. ASSUME NEW u \in DOMAIN ar
      PROVE  /\ HasObject(ar[u]) => ps[ar[u].object.mapValue] = Table!Shared(ps[u], "object")
             /\ HasArray(ar[u]) => ps[ar[u].array.bagValue] = Table!Shared(ps[u], "array")
  <2>1. StepAt(<<"object", 0>>) = <<"any", "object">> /\ StepAt(<<"array", 0>>) = <<"any", "array">>
    BY DEF StepAt
  <2>2. ASSUME HasObject(ar[u]) PROVE ps[ar[u].object.mapValue] = Table!Shared(ps[u], "object")
    BY <2>1, <2>2, Overflows, NamedSlot DEF Table!Shared
  <2>3. ASSUME HasArray(ar[u]) PROVE ps[ar[u].array.bagValue] = Table!Shared(ps[u], "array")
    BY <2>1, <2>3, Overflows, NamedSlot DEF Table!Shared
  <2>4. QED
    BY <2>2, <2>3
<1>2. p \in SpilledOf(ps, ar) <=>
        \E u \in DOMAIN ar :
          \/ Retired(ar[u], "object") /\ p = ps[ar[u].object.mapValue]
          \/ Retired(ar[u], "array") /\ p = ps[ar[u].array.bagValue]
  BY DEF SpilledOf, Retired
<1>3. \A u \in DOMAIN ar : /\ Retired(ar[u], "object") => HasObject(ar[u])
                           /\ Retired(ar[u], "array") => HasArray(ar[u])
  BY DEF Retired
<1>4. QED
  BY <1>1, <1>2, <1>3, Zenon DEF Containers

LEMMA SharedDiffer ==
  ASSUME NEW p \in Seq(PathStep), NEW q \in Seq(PathStep), NEW k \in Containers, NEW l \in Containers
  PROVE  /\ Table!Shared(p, k) = Table!Shared(q, l) => p = q /\ k = l
         /\ <<"any", k>> \in PathStep
         /\ Table!Shared(p, k)[Len(Table!Shared(p, k))] = <<"any", k>>
         /\ Table!Shared(p, k) # <<>>
<1> DEFINE a == <<"any", k>>
           b == <<"any", l>>
<1>1. a \in PathStep /\ b \in PathStep /\ (a = b => k = l)
  BY DEF PathStep, Containers
<1>2. Table!Shared(p, k) = Append(p, a) /\ Table!Shared(q, l) = Append(q, b)
  BY DEF Table!Shared
<1> HIDE DEF a, b
<1>3. /\ Append(p, a)[Len(Append(p, a))] = a /\ Append(p, a) # <<>>
      /\ Append(p, a) = Append(q, b) => p = q /\ a = b
  BY <1>1, AppendTells
<1>4. QED
  BY <1>1, <1>2, <1>3 DEF a

LEMMA SharedSpilled ==
  ASSUME NEW ps, NEW ar, Names(ps, ar), NEW u \in DOMAIN ar, NEW kind \in Containers
  PROVE  Table!Shared(ps[u], kind) \in SpilledOf(ps, ar) <=> Retired(ar[u], kind)
<1>1. \A v \in DOMAIN ar : \A l \in Containers :
        Table!Shared(ps[u], kind) = Table!Shared(ps[v], l) => u = v /\ kind = l
  <2> TAKE v \in DOMAIN ar
  <2> TAKE l \in Containers
  <2>1. ps[u] \in Seq(PathStep) /\ ps[v] \in Seq(PathStep)
    BY DEF Names
  <2>2. Table!Shared(ps[u], kind) = Table!Shared(ps[v], l) => ps[u] = ps[v] /\ kind = l
    <3> DEFINE x == ps[u]
               y == ps[v]
    <3>1. x \in Seq(PathStep) /\ y \in Seq(PathStep)
      BY <2>1
    <3> HIDE DEF x, y
    <3>2. Table!Shared(x, kind) = Table!Shared(y, l) => x = y /\ kind = l
      BY <3>1, SharedDiffer
    <3>3. QED
      BY <3>2 DEF x, y
  <2>3. QED
    BY <2>2 DEF Names
<1>2. QED
  BY <1>1, SpilledIs

\* A step from a node is known exactly if the node has the slot.
LEMMA OwnKnown ==
  ASSUME NEW ps, NEW ar, Names(ps, ar), IsArena(ar), Rooted(ar), NEW t \in DOMAIN ar,
         NEW s, IsSlot(s), StepAt(s) \in PathStep
  PROVE  Append(ps[t], StepAt(s)) \in DOMAIN CountOf(ps, ar) <=> s \in SlotsOf(ar[t])
<1> DEFINE q == StepAt(s)
<1>0. DOMAIN CountOf(ps, ar) = PathsOf(ps, ar)
  BY CountAt
<1>1. ASSUME s \in SlotsOf(ar[t]) PROVE Append(ps[t], q) \in DOMAIN CountOf(ps, ar)
  <2>1. At(ar[t], s) \in DOMAIN ar /\ ps[At(ar[t], s)] = Append(ps[t], q)
    BY <1>1, SlotInArena DEF Names
  <2>2. QED
    BY <1>0, <2>1 DEF PathsOf
<1>2. ASSUME Append(ps[t], q) \in DOMAIN CountOf(ps, ar) PROVE s \in SlotsOf(ar[t])
  <2> HIDE DEF q
  <2>1. PICK c \in DOMAIN ar : ps[c] = Append(ps[t], q)
    BY <1>0, <1>2 DEF PathsOf
  <2>2. PICK r \in SlotsOf(ar[t]) : StepAt(r) = q
    BY <2>1, StepKnown DEF q
  <2>3. QED
    BY <2>2, SlotsAreSlots, StepsDiffer DEF q
<1>3. QED
  BY <1>1, <1>2

-----------------------------------------------------------------------------
(* How the table changes with the arena.  C and S are its paths afterwards. *)
Renders(ps, ar, qs, n, b, C, S) ==
  /\ Further(ps, qs, n) /\ Names(qs, b) /\ IsArena(b) /\ DOMAIN ar \subseteq DOMAIN b
  /\ CountOf(qs, b) = C /\ SpilledOf(qs, b) = S

LEMMA NamesFurther ==
  ASSUME NEW ps, NEW ar, IsArena(ar), Names(ps, ar)
  PROVE  Further(ps, ps, 0)
BY ArenaLen, FurtherSame DEF Names

\* The same views have given up.
Unspilled(v, w) == \A kind \in Containers : Retired(w, kind) <=> Retired(v, kind)

LEMMA SpilledSame ==
  ASSUME NEW ps, NEW ar, Names(ps, ar), NEW qs, NEW b, Names(qs, b), DOMAIN ar \subseteq DOMAIN b,
         \A u \in DOMAIN ar : qs[u] = ps[u] /\ Unspilled(ar[u], b[u]),
         \A u \in DOMAIN b \ DOMAIN ar : \A kind \in Containers : ~Retired(b[u], kind)
  PROVE  SpilledOf(qs, b) = SpilledOf(ps, ar)
<1>1. ASSUME NEW p PROVE p \in SpilledOf(qs, b) <=> p \in SpilledOf(ps, ar)
  <2>1. p \in SpilledOf(ps, ar) <=>
          \E u \in DOMAIN ar : \E kind \in Containers :
            Retired(ar[u], kind) /\ p = Table!Shared(ps[u], kind)
    BY SpilledIs
  <2>2. p \in SpilledOf(qs, b) <=>
          \E u \in DOMAIN b : \E kind \in Containers :
            Retired(b[u], kind) /\ p = Table!Shared(qs[u], kind)
    BY SpilledIs
  <2>3. QED
    BY <2>1, <2>2 DEF Unspilled
<1>2. QED
  BY <1>1

\* Counters change nothing in the table.
Alike(ar, b) ==
  /\ DOMAIN b = DOMAIN ar
  /\ \A u \in DOMAIN ar : /\ SameRefs(ar[u], b[u]) /\ b[u].obs = ar[u].obs
                          /\ b[u].object.recordAlive = ar[u].object.recordAlive
                          /\ b[u].array.positionalAlive = ar[u].array.positionalAlive

LEMMA AlikeUnspilled ==
  ASSUME NEW v, NEW w, SameRefs(v, w), w.object.recordAlive = v.object.recordAlive,
         w.array.positionalAlive = v.array.positionalAlive
  PROVE  Unspilled(v, w)
BY SameRefsSlots DEF Unspilled, Retired

LEMMA NamesSame ==
  ASSUME NEW ps, NEW ar, Names(ps, ar), IsArena(ar), NEW b, IsArena(b), DOMAIN b = DOMAIN ar,
         \A u \in DOMAIN ar : SameRefs(ar[u], b[u])
  PROVE  Names(ps, b)
<1>1. Len(b) = Len(ar)
  BY ArenaLen
<1>2. \A t \in DOMAIN ar : SlotsOf(b[t]) = SlotsOf(ar[t]) /\ \A s : At(b[t], s) = At(ar[t], s)
  BY SameRefsSlots
<1>3. QED
  BY <1>1, <1>2 DEF Names

LEMMA AlikeRenders ==
  ASSUME NEW ps, NEW ar, IsArena(ar), Names(ps, ar), NEW b, IsArena(b), Alike(ar, b)
  PROVE  Renders(ps, ar, ps, 0, b, CountOf(ps, ar), SpilledOf(ps, ar))
<1>1. Names(ps, b) /\ DOMAIN b = DOMAIN ar
  BY NamesSame DEF Alike
<1>2. \A u \in DOMAIN ar : Unspilled(ar[u], b[u])
  BY AlikeUnspilled DEF Alike
<1>3. SpilledOf(ps, b) = SpilledOf(ps, ar)
  BY <1>1, <1>2, SpilledSame
<1>4. CountOf(ps, b) = CountOf(ps, ar)
  <2> DEFINE C == CountOf(ps, ar)
  <2>1. C = [p \in DOMAIN C |-> C[p]]
    BY CountIsTable
  <2>2. DOMAIN C = PathsOf(ps, ar) /\ \A t \in DOMAIN ar : C[ps[t]] = ar[t].obs
    BY CountAt
  <2> HIDE DEF C
  <2>3. DOMAIN C = PathsOf(ps, b) /\ \A t \in DOMAIN b : C[ps[t]] = b[t].obs
    BY <1>1, <2>2 DEF Alike, PathsOf
  <2>4. QED
    BY <1>1, <2>1, <2>3, CountIs DEF C
<1>5. Further(ps, ps, 0)
  BY NamesFurther
<1>6. QED
  BY <1>1, <1>3, <1>4, <1>5 DEF Renders

\* A value is counted at its path.
LEMMA SeenRenders ==
  ASSUME NEW ps, NEW ar, IsArena(ar), Names(ps, ar), NEW t \in DOMAIN ar, ar[t].obs \in Nat
  PROVE  Renders(ps, ar, ps, 0, ObsAt(ar, t), Table!Plus(CountOf(ps, ar), ps[t]), SpilledOf(ps, ar))
<1> DEFINE b == ObsAt(ar, t)
<1>1. IsArena(b) /\ DOMAIN b = DOMAIN ar
  BY ObsAtGrows DEF Grows
<1>2. /\ \A u \in DOMAIN ar : u # t => b[u] = ar[u]
      /\ b[t].object = ar[t].object /\ b[t].array = ar[t].array /\ b[t].obs = ar[t].obs + 1
      /\ DOMAIN b[t] = DOMAIN ar[t]
  <2>1. DOMAIN ar[t] = {"obs", "firstDoc", "lastDoc", "scalars", "object", "array"}
    BY DEF IsArena, IsNode
  <2>2. QED
    BY <2>1 DEF ObsAt
<1> HIDE DEF b
<1>3. \A u \in DOMAIN ar : /\ SameRefs(ar[u], b[u])
                           /\ b[u].object.recordAlive = ar[u].object.recordAlive
                           /\ b[u].array.positionalAlive = ar[u].array.positionalAlive
  BY <1>2 DEF SameRefs
<1>4. Names(ps, b)
  BY <1>1, <1>3, NamesSame
<1>5. \A u \in DOMAIN ar : Unspilled(ar[u], b[u])
  BY <1>3, AlikeUnspilled
<1>6. SpilledOf(ps, b) = SpilledOf(ps, ar)
  BY <1>1, <1>4, <1>5, SpilledSame
<1>7. CountOf(ps, b) = Table!Plus(CountOf(ps, ar), ps[t])
  <2> DEFINE C == CountOf(ps, ar)
             p == ps[t]
             D == Table!Plus(C, p)
  <2>1. C = [q \in DOMAIN C |-> C[q]]
    BY CountIsTable
  <2>2. DOMAIN C = PathsOf(ps, ar) /\ \A u \in DOMAIN ar : C[ps[u]] = ar[u].obs
    BY CountAt
  <2> HIDE DEF C
  <2>3. p \in DOMAIN C /\ Table!With(C, p) = C
    BY <2>1, <2>2, WithKnown DEF PathsOf
  <2> HIDE DEF p
  <2>5. /\ DOMAIN D = DOMAIN C /\ D = [q \in DOMAIN D |-> D[q]]
        /\ \A q \in DOMAIN C : D[q] = IF q = p THEN C[p] + 1 ELSE C[q]
    BY <2>1, <2>3, PlusKnown
  <2> HIDE DEF D
  <2>6. ASSUME NEW u \in DOMAIN b PROVE D[ps[u]] = b[u].obs
    <3>1. ps[u] = ps[t] => u = t
      BY <1>1 DEF Names
    <3>2. ps[u] \in DOMAIN C
      BY <1>1, <2>2 DEF PathsOf
    <3>3. QED
      BY <1>1, <1>2, <2>2, <2>5, <3>1, <3>2 DEF p
  <2>7. DOMAIN D = PathsOf(ps, b)
    BY <1>1, <2>2, <2>5 DEF PathsOf
  <2>8. CountOf(ps, b) = D
    BY <1>4, <2>5, <2>6, <2>7, CountIs
  <2>9. QED
    BY <2>8 DEF D, C, p
<1>8. Further(ps, ps, 0)
  BY NamesFurther
<1>9. QED
  BY <1>1, <1>4, <1>6, <1>7, <1>8 DEF Renders, b

LEMMA RendersOn ==
  ASSUME NEW ps, NEW ar, NEW qs, NEW n \in Nat, NEW b, NEW C, NEW S, Renders(ps, ar, qs, n, b, C, S),
         NEW rs, NEW m \in Nat, NEW c, NEW D, NEW T, Renders(qs, b, rs, m, c, D, T)
  PROVE  Renders(ps, ar, rs, n + m, c, D, T)
BY FurtherOn DEF Renders

\* A node that is attached to t adds its path.
LEMMA AttachRenders ==
  ASSUME NEW ps, NEW ar, Names(ps, ar), IsArena(ar), Rooted(ar), NEW t \in DOMAIN ar,
         NEW n, StepAt(n) \in PathStep, NEW b, Attached(ar, t, n, b), IsArena(b), Unspilled(ar[t], b[t])
  PROVE  LET p == Append(ps[t], StepAt(n))
         IN \E qs : /\ Renders(ps, ar, qs, 1, b, Table!With(CountOf(ps, ar), p), SpilledOf(ps, ar))
                    /\ qs[FreshId(ar)] = p
<1> DEFINE p == Append(ps[t], StepAt(n))
           qs == Append(ps, p)
           f == FreshId(ar)
<1>1. Names(qs, b) /\ (\A u \in DOMAIN ar : qs[u] = ps[u]) /\ Len(qs) = Len(ps) + 1
  BY NamesAttached
<1>2. /\ Sequence(ps) /\ Len(ps) \in Nat /\ Len(ps) = Len(ar) /\ 1 <= Len(ps) /\ DOMAIN ar = 1 .. Len(ps)
      /\ f = Len(ps) + 1 /\ Sequence(qs)
  BY <1>1, ArenaLen DEF Names, FreshId
<1>3. DOMAIN b = DOMAIN ar \cup {f} /\ f \notin DOMAIN ar /\ b[f] = NewNode
      /\ \A u \in DOMAIN ar : b[u].obs = ar[u].obs
  <2>1. DOMAIN b = DOMAIN ar \cup {f} /\ b[f] = NewNode
    BY DEF Attached
  <2>2. \A u \in DOMAIN ar : b[u].obs = ar[u].obs
    BY DEF Attached, SameDates
  <2>3. QED
    BY <1>2, <2>1, <2>2
<1>4. qs[f] = p
  <2> HIDE DEF p
  <2>1. QED
    BY <1>2, SequenceAppend
<1>5. Further(ps, qs, 1)
  BY <1>1, <1>2 DEF Further
<1> HIDE DEF qs, p, f
<1>6. SpilledOf(qs, b) = SpilledOf(ps, ar)
  <2>1. \A u \in DOMAIN ar : Unspilled(ar[u], b[u])
    BY DEF Attached, Unspilled
  <2>2. \A u \in DOMAIN b \ DOMAIN ar : \A kind \in Containers : ~Retired(b[u], kind)
    BY <1>3, NewNodeSlots DEF Retired
  <2>3. QED
    BY <1>1, <1>3, <2>1, <2>2, SpilledSame
<1>7. CountOf(qs, b) = Table!With(CountOf(ps, ar), p)
  <2> DEFINE C == CountOf(ps, ar)
             D == Table!With(C, p)
  <2>1. DOMAIN C = PathsOf(ps, ar) /\ \A u \in DOMAIN ar : C[ps[u]] = ar[u].obs
    BY CountAt
  <2> HIDE DEF C
  <2>2. /\ DOMAIN D = DOMAIN C \cup {p} /\ D = [q \in DOMAIN D |-> D[q]]
        /\ \A q \in DOMAIN C \cup {p} : D[q] = IF q \in DOMAIN C THEN C[q] ELSE 0
    <3>1. DOMAIN D = DOMAIN C \cup {p}
      BY DEF Table!With
    <3>2. D = [q \in DOMAIN D |-> D[q]]
      BY DEF Table!With
    <3>3. \A q \in DOMAIN C \cup {p} : D[q] = IF q \in DOMAIN C THEN C[q] ELSE 0
      BY DEF Table!With
    <3>4. QED
      BY <3>1, <3>2, <3>3
  <2> HIDE DEF D
  <2>3. p \notin DOMAIN C
    <3>1. SUFFICES ASSUME NEW u \in DOMAIN ar, ps[u] = p PROVE FALSE
      BY <2>1 DEF PathsOf
    <3>2. qs[u] = qs[f] /\ u \in DOMAIN b /\ f \in DOMAIN b
      BY <1>1, <1>3, <1>4, <3>1
    <3>3. u = f
      BY <1>1, <3>2 DEF Names
    <3>4. QED
      BY <1>3, <3>3
  <2>4. ASSUME NEW u \in DOMAIN b PROVE D[qs[u]] = b[u].obs
    <3>1. CASE u = f
      BY <1>3, <1>4, <2>2, <2>3, <3>1 DEF NewNode
    <3>2. CASE u \in DOMAIN ar
      <4>1. qs[u] = ps[u] /\ ps[u] \in DOMAIN C
        BY <1>1, <2>1, <3>2 DEF PathsOf
      <4>2. QED
        BY <1>3, <2>1, <2>2, <3>2, <4>1
    <3>3. QED
      BY <1>3, <3>1, <3>2
  <2>5. DOMAIN D = PathsOf(qs, b)
    BY <1>1, <1>3, <1>4, <2>1, <2>2 DEF PathsOf
  <2>6. CountOf(qs, b) = D
    BY <1>1, <2>2, <2>4, <2>5, CountIs
  <2>7. QED
    BY <2>6 DEF D, C
<1>8. Renders(ps, ar, qs, 1, b, Table!With(CountOf(ps, ar), p), SpilledOf(ps, ar))
  BY <1>1, <1>3, <1>5, <1>6, <1>7 DEF Renders
<1>9. QED
  BY <1>4, <1>8 DEF p, f

\* A view that gives up spills its container.
LEMMA RetireRenders ==
  ASSUME NEW ps, NEW ar, Names(ps, ar), IsArena(ar), NEW t \in DOMAIN ar, NEW kind \in Containers,
         NEW b, IsArena(b), DOMAIN b = DOMAIN ar,
         \A u \in DOMAIN ar : SameRefs(ar[u], b[u]) /\ b[u].obs = ar[u].obs,
         \A u \in DOMAIN ar : u # t => Unspilled(ar[u], b[u]),
         \A k \in Containers : Retired(b[t], k) <=> k = kind \/ Retired(ar[t], k)
  PROVE  Renders(ps, ar, ps, 0, b, CountOf(ps, ar), SpilledOf(ps, ar) \cup {Table!Shared(ps[t], kind)})
<1>1. Names(ps, b)
  BY NamesSame
<1>2. ASSUME NEW p
      PROVE  p \in SpilledOf(ps, b) <=> p \in SpilledOf(ps, ar) \/ p = Table!Shared(ps[t], kind)
  <2>1. p \in SpilledOf(ps, ar) <=>
          \E u \in DOMAIN ar : \E k \in Containers :
            Retired(ar[u], k) /\ p = Table!Shared(ps[u], k)
    BY SpilledIs
  <2>2. p \in SpilledOf(ps, b) <=>
          \E u \in DOMAIN ar : \E k \in Containers :
            Retired(b[u], k) /\ p = Table!Shared(ps[u], k)
    BY <1>1, SpilledIs
  <2>3. \A u \in DOMAIN ar : \A k \in Containers :
          Retired(b[u], k) <=> (u = t /\ k = kind) \/ Retired(ar[u], k)
    BY DEF Unspilled
  <2>4. QED
    BY <2>1, <2>2, <2>3
<1>3. SpilledOf(ps, b) = SpilledOf(ps, ar) \cup {Table!Shared(ps[t], kind)}
  BY <1>2
<1>4. CountOf(ps, b) = CountOf(ps, ar)
  <2> DEFINE C == CountOf(ps, ar)
  <2>1. C = [p \in DOMAIN C |-> C[p]]
    BY CountIsTable
  <2>2. DOMAIN C = PathsOf(ps, ar) /\ \A u \in DOMAIN ar : C[ps[u]] = ar[u].obs
    BY CountAt
  <2> HIDE DEF C
  <2>3. DOMAIN C = PathsOf(ps, b) /\ \A u \in DOMAIN b : C[ps[u]] = b[u].obs
    BY <2>2 DEF PathsOf
  <2>4. QED
    BY <1>1, <2>1, <2>3, CountIs DEF C
<1>5. Further(ps, ps, 0)
  BY NamesFurther
<1>6. QED
  BY <1>1, <1>3, <1>4, <1>5 DEF Renders

-----------------------------------------------------------------------------
(* Where a key and an item go.                                             *)
SpillSet(p) == {q \in {p} : q # <<>> /\ q[Len(q)][1] = "any"}

LEMMA SpillSets ==
  ASSUME NEW p \in Seq(PathStep)
  PROVE  /\ SpillSet(<<>>) = {}
         /\ \A a \in PathStep : a[1] # "any" => SpillSet(Append(p, a)) = {}
         /\ \A kind \in Containers : SpillSet(Table!Shared(p, kind)) = {Table!Shared(p, kind)}
<1>1. SpillSet(<<>>) = {}
  BY DEF SpillSet
<1>2. ASSUME NEW a \in PathStep, a[1] # "any" PROVE SpillSet(Append(p, a)) = {}
  <2> DEFINE b == Append(p, a)
  <2>1. b[Len(b)] = a
    BY AppendTells
  <2> HIDE DEF b
  <2>2. SpillSet(b) = {}
    BY <1>2, <2>1 DEF SpillSet
  <2>3. QED
    BY <2>2 DEF b
<1>3. ASSUME NEW kind \in Containers
      PROVE  SpillSet(Table!Shared(p, kind)) = {Table!Shared(p, kind)}
  <2> DEFINE b == Table!Shared(p, kind)
  <2>1. b[Len(b)] = <<"any", kind>> /\ b # <<>>
    BY SharedDiffer
  <2> HIDE DEF b
  <2>2. SpillSet(b) = {b}
    BY <2>1 DEF SpillSet
  <2>3. QED
    BY <2>2 DEF b
<1>4. QED
  BY <1>1, <1>2, <1>3

LEMMA RendersSame ==
  ASSUME NEW ps, NEW ar, IsArena(ar), Names(ps, ar)
  PROVE  /\ Renders(ps, ar, ps, 0, ar, CountOf(ps, ar), SpilledOf(ps, ar))
         /\ Renders(ps, ar, ps, 1, ar, CountOf(ps, ar), SpilledOf(ps, ar))
<1>1. Further(ps, ps, 0)
  BY NamesFurther
<1>2. Further(ps, ps, 1)
  BY <1>1, SequenceLen DEF Further
<1>3. QED
  BY <1>1, <1>2 DEF Renders

LEMMA RendersMore ==
  ASSUME NEW ps, NEW ar, NEW qs, NEW b, NEW C, NEW S, Renders(ps, ar, qs, 0, b, C, S)
  PROVE  Renders(ps, ar, qs, 1, b, C, S)
<1>1. Further(ps, qs, 0)
  BY DEF Renders
<1>2. Further(ps, qs, 1)
  BY <1>1, SequenceLen DEF Further
<1>3. QED
  BY <1>2 DEF Renders

\* A node that is attached at a slot of its own.
LEMMA AttachedAt ==
  ASSUME NEW ar, NEW t \in DOMAIN ar, NEW b, Moves(ar, t, b), Separate(b),
         NEW s, s \in SlotsOf(b[t]), s \notin SlotsOf(ar[t]), At(b[t], s) = FreshId(ar)
  PROVE  Attached(ar, t, s, b)
<1>1. ~Quiet(ar, b)
  BY SameRefsSlots DEF Quiet
<1>2. PICK n : Attached(ar, t, n, b)
  BY <1>1 DEF Moves
<1>3. t \in DOMAIN b /\ n \in SlotsOf(b[t]) /\ At(b[t], n) = FreshId(ar)
  BY <1>2 DEF Attached
<1>4. n = s
  BY <1>3, Apart
<1>5. QED
  BY <1>2, <1>4

LEMMA KeyGrown ==
  ASSUME NEW ar, Good(ar), NEW o \in DOMAIN ar, HasObject(ar[o]), NEW key,
         key \notin DOMAIN ar[o].object.fields, RecordHasRoom(ar[o].object)
  PROVE  LET child == ObjectChild(ar, o, key)
             b == child.arena
         IN /\ child.id = FreshId(ar) /\ Unspilled(ar[o], b[o]) /\ IsArena(b)
            /\ Attached(ar, o, <<"key", key>>, b)
<1> DEFINE obj == ar[o].object
           fields == [k \in DOMAIN obj.fields \cup {key} |-> IF k = key THEN FreshId(ar) ELSE obj.fields[k]]
           b == [Alloc(ar) EXCEPT ![o].object.fields =
                   [k \in DOMAIN @ \cup {key} |-> IF k = key THEN FreshId(ar) ELSE @[k]]]
<1>1. IsArena(ar) /\ IsNode(ar[o], Len(ar))
  BY DEF Good, IsArena
<1>2. ObjectChild(ar, o, key) = [arena |-> b, id |-> FreshId(ar)]
  BY DEF ObjectChild
<1>3. o \in DOMAIN Alloc(ar) /\ Alloc(ar)[o] = ar[o]
  BY <1>1, AllocNodes
<1>4. b[o] = [ar[o] EXCEPT !.object.fields = fields]
  BY <1>3
<1>5. Ripens(ar, b) /\ Moves(ar, o, b)
  <2>1. Ripens(ar, ObjectChild(ar, o, key).arena) /\ Moves(ar, o, ObjectChild(ar, o, key).arena)
    BY ObjectChildRipens
  <2>2. QED
    BY <1>2, <2>1
<1>6. fields[key] = FreshId(ar) /\ key \in DOMAIN fields
  OBVIOUS
<1> HIDE DEF b, fields
<1>7. b[o].array = ar[o].array /\ b[o].object = [obj EXCEPT !.fields = fields]
  BY <1>1, <1>4 DEF IsNode
<1>8. /\ b[o].object.fields = fields /\ b[o].object.mapValue = obj.mapValue
      /\ b[o].object.recordAlive = obj.recordAlive
  BY <1>1, <1>7 DEF IsNode, IsObject
<1>9. HasObject(b[o]) /\ Unspilled(ar[o], b[o])
  BY <1>7, <1>8 DEF HasObject, HasArray, Unspilled, Retired
<1>10. <<"key", key>> \in SlotsOf(b[o]) /\ At(b[o], <<"key", key>>) = FreshId(ar)
  BY <1>6, <1>8, <1>9, Overflows
<1>11. <<"key", key>> \notin SlotsOf(ar[o])
  BY DEF SlotsOf, ObjectSlots, ArraySlots
<1>12. Attached(ar, o, <<"key", key>>, b)
  BY <1>5, <1>10, <1>11, AttachedAt DEF Ripens, Good
<1>13. IsArena(b)
  BY <1>5 DEF Ripens, Good
<1>14. QED
  BY <1>2, <1>9, <1>12, <1>13

LEMMA KeyRetires ==
  ASSUME NEW ar, Good(ar), NEW o \in DOMAIN ar, HasObject(ar[o]), NEW ps, Names(ps, ar)
  PROVE  LET b == [ar EXCEPT ![o].object.recordAlive = FALSE]
         IN Renders(ps, ar, ps, 0, b, CountOf(ps, ar), SpilledOf(ps, ar) \cup {Table!Shared(ps[o], "object")})
<1> DEFINE b == [ar EXCEPT ![o].object.recordAlive = FALSE]
<1>1. IsArena(ar) /\ IsNode(ar[o], Len(ar))
  BY DEF Good, IsArena
<1>2. IsArena(b) /\ DOMAIN b = DOMAIN ar
  BY <1>1, RecordRetires DEF Grows
<1>3. /\ \A u \in DOMAIN ar : u # o => b[u] = ar[u]
      /\ b[o].array = ar[o].array /\ b[o].obs = ar[o].obs /\ ~b[o].object.recordAlive
  BY <1>1 DEF IsNode, IsObject
<1>4. SameRefs(ar[o], b[o])
  BY <1>1 DEF IsNode, IsObject, SameRefs
<1> HIDE DEF b
<1>5. \A u \in DOMAIN ar : SameRefs(ar[u], b[u]) /\ b[u].obs = ar[u].obs
  BY <1>3, <1>4 DEF SameRefs
<1>6. \A u \in DOMAIN ar : u # o => Unspilled(ar[u], b[u])
  BY <1>3 DEF Unspilled
<1>7. HasObject(b[o]) /\ HasArray(b[o]) = HasArray(ar[o])
  BY <1>4, SameRefsSlots
<1>8. \A k \in Containers : Retired(b[o], k) <=> k = "object" \/ Retired(ar[o], k)
  BY <1>3, <1>7 DEF Retired, Containers
<1>9. QED
  BY <1>1, <1>2, <1>5, <1>6, <1>8, RetireRenders DEF b, Containers

\* The node for a key stands for one of the paths that the key may take.
KeyRendered(ps, ar, o, key) ==
  LET child == ObjectChild(ar, o, key)
      C == CountOf(ps, ar)
      S == SpilledOf(ps, ar)
      own == Append(ps[o], <<"key", key>>)
      shared == Table!Shared(ps[o], "object")
  IN \E qs, p :
       /\ Renders(ps, ar, qs, 1, child.arena, Table!With(C, p), S \cup SpillSet(p))
       /\ qs[child.id] = p
       /\ \/ p = own /\ (own \in DOMAIN C \/ shared \notin S)
          \/ p = shared /\ own \notin DOMAIN C

\* A key goes to a path of its own, if it has one or the record view has room,
\* and otherwise to the path that the other keys share.
LEMMA KeyRenders ==
  ASSUME NEW ar, Good(ar), NEW ps, Names(ps, ar), Rooted(ar), NEW o \in DOMAIN ar, HasObject(ar[o]),
         NEW key \in Key
  PROVE  KeyRendered(ps, ar, o, key)
<1> DEFINE child == ObjectChild(ar, o, key)
           C == CountOf(ps, ar)
           S == SpilledOf(ps, ar)
           slot == <<"key", key>>
           own == Append(ps[o], slot)
           shared == Table!Shared(ps[o], "object")
           obj == ar[o].object
<1>1. IsArena(ar)
  BY DEF Good
<1>2. IsSlot(slot) /\ StepAt(slot) = slot /\ slot \in PathStep /\ slot[1] # "any"
  BY DEF IsSlot, StepAt, PathStep
<1>3. own \in DOMAIN C <=> slot \in SlotsOf(ar[o])
  <2> HIDE DEF slot
  <2>1. QED
    BY <1>1, <1>2, OwnKnown
<1>4. slot \in SlotsOf(ar[o]) <=> key \in DOMAIN obj.fields
  BY DEF SlotsOf, ObjectSlots, ArraySlots
<1>5. shared \in S <=> ~obj.recordAlive
  BY SharedSpilled DEF Containers, Retired
<1>6. ps[o] \in Seq(PathStep)
  BY DEF Names
<1>7. SpillSet(own) = {} /\ SpillSet(shared) = {shared}
  <2> HIDE DEF slot
  <2>1. QED
    BY <1>2, <1>6, SpillSets DEF Containers
<1>8. C = [q \in DOMAIN C |-> C[q]]
  BY CountIsTable
<1>9. CASE key \in DOMAIN obj.fields
  <2>1. child = [arena |-> ar, id |-> obj.fields[key]]
    BY <1>9 DEF ObjectChild
  <2>2. slot \in SlotsOf(ar[o]) /\ At(ar[o], slot) = obj.fields[key]
    BY <1>9, Overflows
  <2>3. ps[obj.fields[key]] = own
    BY <1>2, <2>2 DEF Names
  <2> HIDE DEF child, own, C, S, slot
  <2>4. own \in DOMAIN C /\ Table!With(C, own) = C /\ S \cup SpillSet(own) = S
    BY <1>3, <1>7, <1>8, <2>2, WithKnown
  <2>5. Renders(ps, ar, ps, 1, ar, C, S)
    BY <1>1, RendersSame DEF C, S
  <2>6. Renders(ps, ar, ps, 1, child.arena, Table!With(C, own), S \cup SpillSet(own)) /\ ps[child.id] = own
    BY <2>1, <2>3, <2>4, <2>5
  <2>7. QED
    BY <2>4, <2>6 DEF KeyRendered, child, own, C, S, slot
<1>10. CASE key \notin DOMAIN obj.fields /\ RecordHasRoom(obj)
  <2>1. child.id = FreshId(ar) /\ Unspilled(ar[o], child.arena[o]) /\ IsArena(child.arena)
        /\ Attached(ar, o, slot, child.arena)
    BY <1>10, KeyGrown
  <2> HIDE DEF child, C, S, slot
  <2>2. PICK qs : /\ Renders(ps, ar, qs, 1, child.arena, Table!With(C, own), S)
                  /\ qs[FreshId(ar)] = own
    BY <1>1, <1>2, <2>1, AttachRenders DEF C, S
  <2>3. shared \notin S
    BY <1>5, <1>10 DEF RecordHasRoom
  <2>4. S \cup SpillSet(own) = S
    BY <1>7
  <2> HIDE DEF own, shared
  <2>5. /\ Renders(ps, ar, qs, 1, child.arena, Table!With(C, own), S \cup SpillSet(own))
        /\ qs[child.id] = own
    BY <2>1, <2>2, <2>4
  <2>6. QED
    BY <2>3, <2>5 DEF KeyRendered, child, own, shared, C, S, slot
<1>11. CASE key \notin DOMAIN obj.fields /\ ~RecordHasRoom(obj)
  <2> DEFINE b == [ar EXCEPT ![o].object.recordAlive = FALSE]
  <2>1. child = [arena |-> b, id |-> obj.mapValue]
    BY <1>11 DEF ObjectChild
  <2>2. Renders(ps, ar, ps, 0, b, C, S \cup {shared})
    BY KeyRetires
  <2>3. own \notin DOMAIN C
    BY <1>3, <1>4, <1>11
  <2>4. ps[obj.mapValue] = shared /\ obj.mapValue \in DOMAIN ar
    <3>1. StepAt(<<"object", 0>>) = <<"any", "object">>
      BY DEF StepAt
    <3>2. QED
      BY <1>1, <3>1, Overflows, OverflowInArena DEF Names, Table!Shared
  <2> HIDE DEF child, b, own, shared, C, S, slot
  <2>5. shared \in DOMAIN C
    BY <2>4, PathCounted DEF C
  <2>6. Table!With(C, shared) = C
    BY <1>8, <2>5, WithKnown
  <2>7. Renders(ps, ar, ps, 1, b, C, S \cup {shared})
    BY <2>2, RendersMore
  <2>8. /\ Renders(ps, ar, ps, 1, child.arena, Table!With(C, shared), S \cup SpillSet(shared))
        /\ ps[child.id] = shared
    BY <1>7, <2>1, <2>4, <2>6, <2>7
  <2>9. QED
    BY <2>3, <2>8 DEF KeyRendered, child, own, shared, C, S, slot
<1>12. QED
  BY <1>9, <1>10, <1>11

LEMMA ItemGrown ==
  ASSUME NEW ar, Good(ar), NEW a \in DOMAIN ar, HasArray(ar[a]), NEW position \in Nat,
         ar[a].array.positionalAlive, position = Len(ar[a].array.positional), position < PositionalCap
  PROVE  LET child == ArrayChild(ar, a, position)
             b == child.arena
         IN /\ child.id = FreshId(ar) /\ Unspilled(ar[a], b[a]) /\ IsArena(b)
            /\ Attached(ar, a, <<"item", position + 1>>, b)
<1> DEFINE arr == ar[a].array
           positional == Append(arr.positional, FreshId(ar))
           b == [Alloc(ar) EXCEPT ![a].array.positional = Append(@, FreshId(ar))]
           s == <<"item", position + 1>>
<1>1. IsArena(ar) /\ IsNode(ar[a], Len(ar)) /\ Sequence(arr.positional)
  BY DEF Good, IsArena, IsNode, IsArray
<1>2. ArrayChild(ar, a, position) = [arena |-> b, id |-> FreshId(ar)]
  BY DEF ArrayChild
<1>3. a \in DOMAIN Alloc(ar) /\ Alloc(ar)[a] = ar[a]
  BY <1>1, AllocNodes
<1>4. b[a] = [ar[a] EXCEPT !.array.positional = positional]
  BY <1>3
<1>5. Ripens(ar, b) /\ Moves(ar, a, b)
  <2>1. Ripens(ar, ArrayChild(ar, a, position).arena) /\ Moves(ar, a, ArrayChild(ar, a, position).arena)
    BY ArrayChildRipens
  <2>2. QED
    BY <1>2, <2>1
<1>6. /\ DOMAIN arr.positional = 1 .. position
      /\ position + 1 \in DOMAIN positional /\ positional[position + 1] = FreshId(ar)
  <2> DEFINE new == FreshId(ar)
  <2> HIDE DEF new
  <2>1. DOMAIN arr.positional = 1 .. position
    BY <1>1, SequenceLen
  <2> DEFINE q == Append(arr.positional, new)
  <2>2. Sequence(q) /\ Len(q) = position + 1 /\ q[position + 1] = new
    BY <1>1, SequenceAppend
  <2> HIDE DEF q
  <2>3. position + 1 \in DOMAIN q
    BY <2>2, SequenceLen
  <2>4. QED
    BY <2>1, <2>2, <2>3 DEF q, new
<1> HIDE DEF b, positional
<1>7. b[a].object = ar[a].object /\ b[a].array = [arr EXCEPT !.positional = positional]
  BY <1>1, <1>4 DEF IsNode
<1>8. /\ b[a].array.positional = positional /\ b[a].array.bagValue = arr.bagValue
      /\ b[a].array.positionalAlive = arr.positionalAlive
  BY <1>1, <1>7 DEF IsNode, IsArray
<1>9. HasArray(b[a]) /\ Unspilled(ar[a], b[a])
  BY <1>7, <1>8 DEF HasObject, HasArray, Unspilled, Retired
<1>10. s \in SlotsOf(b[a]) /\ At(b[a], s) = FreshId(ar)
  BY <1>6, <1>8, <1>9, Overflows
<1>11. s \notin SlotsOf(ar[a])
  BY <1>6 DEF SlotsOf, ObjectSlots, ArraySlots
<1>12. Attached(ar, a, s, b)
  <2> HIDE DEF s
  <2>1. QED
    BY <1>5, <1>10, <1>11, AttachedAt DEF Ripens, Good
<1>13. IsArena(b)
  BY <1>5 DEF Ripens, Good
<1>14. QED
  BY <1>2, <1>9, <1>12, <1>13

LEMMA PositionsRetired ==
  ASSUME NEW ar, Good(ar), NEW a \in DOMAIN ar, HasArray(ar[a]), NEW ps, Names(ps, ar)
  PROVE  LET b == [ar EXCEPT ![a].array.positionalAlive = FALSE]
         IN Renders(ps, ar, ps, 0, b, CountOf(ps, ar), SpilledOf(ps, ar) \cup {Table!Shared(ps[a], "array")})
<1> DEFINE b == [ar EXCEPT ![a].array.positionalAlive = FALSE]
<1>1. IsArena(ar) /\ IsNode(ar[a], Len(ar))
  BY DEF Good, IsArena
<1>2. IsArena(b) /\ DOMAIN b = DOMAIN ar
  BY <1>1, PositionsRetire DEF Grows
<1>3. /\ \A u \in DOMAIN ar : u # a => b[u] = ar[u]
      /\ b[a].object = ar[a].object /\ b[a].obs = ar[a].obs /\ ~b[a].array.positionalAlive
  BY <1>1 DEF IsNode, IsArray
<1>4. SameRefs(ar[a], b[a])
  BY <1>1 DEF IsNode, IsArray, SameRefs
<1> HIDE DEF b
<1>5. \A u \in DOMAIN ar : SameRefs(ar[u], b[u]) /\ b[u].obs = ar[u].obs
  BY <1>3, <1>4 DEF SameRefs
<1>6. \A u \in DOMAIN ar : u # a => Unspilled(ar[u], b[u])
  BY <1>3 DEF Unspilled
<1>7. HasArray(b[a]) /\ HasObject(b[a]) = HasObject(ar[a])
  BY <1>4, SameRefsSlots
<1>8. \A k \in Containers : Retired(b[a], k) <=> k = "array" \/ Retired(ar[a], k)
  BY <1>3, <1>7 DEF Retired, Containers
<1>9. QED
  BY <1>1, <1>2, <1>5, <1>6, <1>8, RetireRenders DEF b, Containers

\* An item goes to the path of its position as long as the positional view is
\* alive, and otherwise to the path that all other items share.
LEMMA ItemRenders ==
  ASSUME NEW ar, Good(ar), NEW ps, Names(ps, ar), Rooted(ar), NEW a \in DOMAIN ar, HasArray(ar[a]),
         NEW position \in Nat,
         ar[a].array.positionalAlive => position <= Len(ar[a].array.positional)
  PROVE  LET child == ArrayChild(ar, a, position)
             C == CountOf(ps, ar)
             S == SpilledOf(ps, ar)
             own == Append(ps[a], <<"item", position + 1>>)
             before == Append(ps[a], <<"item", position>>)
             shared == Table!Shared(ps[a], "array")
         IN \E qs, p :
              /\ Renders(ps, ar, qs, 1, child.arena, Table!With(C, p), S \cup SpillSet(p))
              /\ qs[child.id] = p
              /\ \/ p = own /\ shared \notin S /\ (position = 0 \/ before \in DOMAIN C)
                 \/ p = shared /\ (shared \in S \/ own \notin DOMAIN C)
<1> DEFINE child == ArrayChild(ar, a, position)
           C == CountOf(ps, ar)
           S == SpilledOf(ps, ar)
           slot == <<"item", position + 1>>
           last == <<"item", position>>
           own == Append(ps[a], slot)
           before == Append(ps[a], last)
           shared == Table!Shared(ps[a], "array")
           arr == ar[a].array
           n == Len(arr.positional)
<1>1. IsArena(ar) /\ n \in Nat /\ DOMAIN arr.positional = 1 .. n
  BY SequenceLen DEF Good, IsArena, IsNode, IsArray
<1>2. /\ IsSlot(slot) /\ StepAt(slot) = slot /\ slot \in PathStep /\ slot[1] # "any"
      /\ IsSlot(last) /\ StepAt(last) = last /\ last \in PathStep
  BY DEF IsSlot, StepAt, PathStep
<1>3. /\ own \in DOMAIN C <=> slot \in SlotsOf(ar[a])
      /\ before \in DOMAIN C <=> last \in SlotsOf(ar[a])
  <2> HIDE DEF slot, last
  <2>1. QED
    BY <1>1, <1>2, OwnKnown
<1>4. /\ slot \in SlotsOf(ar[a]) <=> position + 1 \in 1 .. n
      /\ last \in SlotsOf(ar[a]) <=> position \in 1 .. n
  <2> HIDE DEF n
  <2>1. QED
    BY <1>1 DEF SlotsOf, ObjectSlots, ArraySlots
<1>5. shared \in S <=> ~arr.positionalAlive
  BY SharedSpilled DEF Containers, Retired
<1>6. ps[a] \in Seq(PathStep)
  BY DEF Names
<1>7. SpillSet(own) = {} /\ SpillSet(shared) = {shared}
  <2> HIDE DEF slot
  <2>1. QED
    BY <1>2, <1>6, SpillSets DEF Containers
<1>8. C = [q \in DOMAIN C |-> C[q]]
  BY CountIsTable
<1>9. CASE arr.positionalAlive /\ position < n
  <2>1. child = [arena |-> ar, id |-> arr.positional[position + 1]]
    BY <1>9 DEF ArrayChild
  <2>2. slot \in SlotsOf(ar[a]) /\ At(ar[a], slot) = arr.positional[position + 1]
    <3>1. position + 1 \in DOMAIN arr.positional
      BY <1>1, <1>9
    <3>2. QED
      BY <3>1, Overflows
  <2>3. ps[arr.positional[position + 1]] = own
    <3> HIDE DEF slot
    <3>1. QED
      BY <1>2, <2>2, NamedSlot
  <2>4. shared \notin S /\ (position = 0 \/ before \in DOMAIN C)
    BY <1>1, <1>3, <1>4, <1>5, <1>9
  <2> HIDE DEF child, own, C, S, slot, before, shared
  <2>5. Table!With(C, own) = C /\ S \cup SpillSet(own) = S
    BY <1>3, <1>7, <1>8, <2>2, WithKnown
  <2>6. Renders(ps, ar, ps, 1, ar, C, S)
    BY <1>1, RendersSame DEF C, S
  <2>7. Renders(ps, ar, ps, 1, child.arena, Table!With(C, own), S \cup SpillSet(own)) /\ ps[child.id] = own
    BY <2>1, <2>3, <2>5, <2>6
  <2>8. QED
    BY <2>4, <2>7 DEF child, own, C, S, slot, before, shared
<1>10. CASE arr.positionalAlive /\ ~(position < n) /\ position < PositionalCap
  <2>0. position = n
    BY <1>1, <1>10
  <2>1. child.id = FreshId(ar) /\ Unspilled(ar[a], child.arena[a]) /\ IsArena(child.arena)
        /\ Attached(ar, a, slot, child.arena)
    BY <1>10, <2>0, ItemGrown
  <2>2. shared \notin S /\ (position = 0 \/ before \in DOMAIN C)
    BY <1>1, <1>3, <1>4, <1>5, <1>10, <2>0
  <2> HIDE DEF child, C, S, slot, before
  <2>3. PICK qs : /\ Renders(ps, ar, qs, 1, child.arena, Table!With(C, own), S)
                  /\ qs[FreshId(ar)] = own
    BY <1>1, <1>2, <2>1, AttachRenders DEF C, S
  <2>4. S \cup SpillSet(own) = S
    BY <1>7
  <2> HIDE DEF own, shared
  <2>5. /\ Renders(ps, ar, qs, 1, child.arena, Table!With(C, own), S \cup SpillSet(own))
        /\ qs[child.id] = own
    BY <2>1, <2>3, <2>4
  <2>6. QED
    BY <2>2, <2>5 DEF child, own, shared, C, S, slot, before
<1>11. CASE ~(arr.positionalAlive /\ position < n) /\ ~(arr.positionalAlive /\ position < PositionalCap)
  <2> DEFINE b == [ar EXCEPT ![a].array.positionalAlive = FALSE]
  <2>1. child = [arena |-> b, id |-> arr.bagValue]
    BY <1>11 DEF ArrayChild
  <2>2. Renders(ps, ar, ps, 0, b, C, S \cup {shared})
    BY PositionsRetired
  <2>3. shared \in S \/ own \notin DOMAIN C
    BY <1>1, <1>3, <1>4, <1>5, <1>11
  <2>4. ps[arr.bagValue] = shared /\ arr.bagValue \in DOMAIN ar
    <3>1. StepAt(<<"array", 0>>) = <<"any", "array">>
      BY DEF StepAt
    <3>2. QED
      BY <1>1, <3>1, Overflows, OverflowInArena DEF Names, Table!Shared
  <2> HIDE DEF child, b, own, shared, C, S, slot, before
  <2>5. shared \in DOMAIN C
    BY <2>4, PathCounted DEF C
  <2>6. Table!With(C, shared) = C
    BY <1>8, <2>5, WithKnown
  <2>7. Renders(ps, ar, ps, 1, b, C, S \cup {shared})
    BY <2>2, RendersMore
  <2>8. /\ Renders(ps, ar, ps, 1, child.arena, Table!With(C, shared), S \cup SpillSet(shared))
        /\ ps[child.id] = shared
    BY <1>7, <2>1, <2>4, <2>6, <2>7
  <2>9. QED
    BY <2>3, <2>8 DEF child, own, shared, C, S, slot, before
<1>12. QED
  BY <1>9, <1>10, <1>11

\* The overflow node of an accumulator has the shared path.
LEMMA EnsureObjectRenders ==
  ASSUME NEW ar, Good(ar), NEW ps, Names(ps, ar), Rooted(ar), NEW t \in DOMAIN ar
  PROVE  \E qs : Renders(ps, ar, qs, 1, EnsureObject(ar, t),
                         Table!With(CountOf(ps, ar), Table!Shared(ps[t], "object")), SpilledOf(ps, ar))
<1> DEFINE C == CountOf(ps, ar)
           S == SpilledOf(ps, ar)
           slot == <<"object", 0>>
           shared == Table!Shared(ps[t], "object")
           b == EnsureObject(ar, t)
<1>1. IsArena(ar)
  BY DEF Good
<1>2. StepAt(slot) = <<"any", "object">> /\ StepAt(slot) \in PathStep /\ shared = Append(ps[t], StepAt(slot))
  BY DEF StepAt, PathStep, Table!Shared
<1>3. CASE HasObject(ar[t])
  <2>1. b = ar
    BY <1>3 DEF EnsureObject
  <2>2. slot \in SlotsOf(ar[t]) /\ At(ar[t], slot) \in DOMAIN ar
    BY <1>1, <1>3, Overflows, SlotInArena
  <2>3. ps[At(ar[t], slot)] = shared
    BY <1>2, <2>2 DEF Names
  <2> HIDE DEF b, C, S, shared, slot
  <2>4. shared \in DOMAIN C
    BY <2>2, <2>3, PathCounted DEF C
  <2>5. C = [q \in DOMAIN C |-> C[q]]
    BY CountIsTable DEF C
  <2>6. Table!With(C, shared) = C
    BY <2>4, <2>5, WithKnown
  <2>7. Renders(ps, ar, ps, 1, ar, C, S)
    BY <1>1, RendersSame DEF C, S
  <2>8. Renders(ps, ar, ps, 1, b, Table!With(C, shared), S)
    BY <2>1, <2>6, <2>7
  <2>9. QED
    BY <2>8 DEF b, C, S, shared
<1>4. CASE ~HasObject(ar[t])
  <2>1. Ripens(ar, b) /\ Moves(ar, t, b)
    BY EnsureObjectRipens
  <2>2. IsArena(b) /\ Separate(b)
    BY <2>1 DEF Ripens, Good
  <2>3. b = [Alloc(ar) EXCEPT ![t].object = NewObject(FreshId(ar))]
    BY <1>4 DEF EnsureObject
  <2>4. t \in DOMAIN Alloc(ar) /\ Alloc(ar)[t] = ar[t] /\ FreshId(ar) # None
    BY <1>1, AllocNodes
  <2>5. DOMAIN ar[t] = {"obs", "firstDoc", "lastDoc", "scalars", "object", "array"}
    BY <1>1 DEF IsArena, IsNode
  <2>6. b[t].object = NewObject(FreshId(ar)) /\ b[t].array = ar[t].array
    BY <2>3, <2>4, <2>5
  <2> HIDE DEF b
  <2>7. HasObject(b[t]) /\ b[t].object.mapValue = FreshId(ar) /\ b[t].object.recordAlive
    BY <2>4, <2>6 DEF NewObject, HasObject
  <2>8. Unspilled(ar[t], b[t])
    BY <1>4, <2>6, <2>7 DEF Unspilled, Retired, HasArray
  <2>9. slot \in SlotsOf(b[t]) /\ At(b[t], slot) = FreshId(ar)
    BY <2>7, Overflows
  <2>10. slot \notin SlotsOf(ar[t])
    BY <1>4 DEF SlotsOf, ObjectSlots, ArraySlots
  <2> HIDE DEF slot
  <2>11. Attached(ar, t, slot, b)
    BY <2>1, <2>2, <2>9, <2>10, AttachedAt
  <2>12. \E qs : Renders(ps, ar, qs, 1, b, Table!With(C, Append(ps[t], StepAt(slot))), S)
    BY <1>1, <1>2, <2>2, <2>8, <2>11, AttachRenders
  <2>13. QED
    BY <1>2, <2>12 DEF b
<1>5. QED
  BY <1>3, <1>4

LEMMA EnsureArrayRenders ==
  ASSUME NEW ar, Good(ar), NEW ps, Names(ps, ar), Rooted(ar), NEW t \in DOMAIN ar
  PROVE  \E qs : Renders(ps, ar, qs, 1, EnsureArray(ar, t),
                         Table!With(CountOf(ps, ar), Table!Shared(ps[t], "array")), SpilledOf(ps, ar))
<1> DEFINE C == CountOf(ps, ar)
           S == SpilledOf(ps, ar)
           slot == <<"array", 0>>
           shared == Table!Shared(ps[t], "array")
           b == EnsureArray(ar, t)
<1>1. IsArena(ar)
  BY DEF Good
<1>2. StepAt(slot) = <<"any", "array">> /\ StepAt(slot) \in PathStep /\ shared = Append(ps[t], StepAt(slot))
  BY DEF StepAt, PathStep, Table!Shared
<1>3. CASE HasArray(ar[t])
  <2>1. b = ar
    BY <1>3 DEF EnsureArray
  <2>2. slot \in SlotsOf(ar[t]) /\ At(ar[t], slot) \in DOMAIN ar
    BY <1>1, <1>3, Overflows, SlotInArena
  <2>3. ps[At(ar[t], slot)] = shared
    BY <1>2, <2>2 DEF Names
  <2> HIDE DEF b, C, S, shared, slot
  <2>4. shared \in DOMAIN C
    BY <2>2, <2>3, PathCounted DEF C
  <2>5. C = [q \in DOMAIN C |-> C[q]]
    BY CountIsTable DEF C
  <2>6. Table!With(C, shared) = C
    BY <2>4, <2>5, WithKnown
  <2>7. Renders(ps, ar, ps, 1, ar, C, S)
    BY <1>1, RendersSame DEF C, S
  <2>8. Renders(ps, ar, ps, 1, b, Table!With(C, shared), S)
    BY <2>1, <2>6, <2>7
  <2>9. QED
    BY <2>8 DEF b, C, S, shared
<1>4. CASE ~HasArray(ar[t])
  <2>1. Ripens(ar, b) /\ Moves(ar, t, b)
    BY EnsureArrayRipens
  <2>2. IsArena(b) /\ Separate(b)
    BY <2>1 DEF Ripens, Good
  <2>3. b = [Alloc(ar) EXCEPT ![t].array = NewArray(FreshId(ar))]
    BY <1>4 DEF EnsureArray
  <2>4. t \in DOMAIN Alloc(ar) /\ Alloc(ar)[t] = ar[t] /\ FreshId(ar) # None
    BY <1>1, AllocNodes
  <2>5. DOMAIN ar[t] = {"obs", "firstDoc", "lastDoc", "scalars", "object", "array"}
    BY <1>1 DEF IsArena, IsNode
  <2>6. b[t].array = NewArray(FreshId(ar)) /\ b[t].object = ar[t].object
    BY <2>3, <2>4, <2>5
  <2> HIDE DEF b
  <2>7. HasArray(b[t]) /\ b[t].array.bagValue = FreshId(ar) /\ b[t].array.positionalAlive
    BY <2>4, <2>6 DEF NewArray, HasArray
  <2>8. Unspilled(ar[t], b[t])
    BY <1>4, <2>6, <2>7 DEF Unspilled, Retired, HasObject
  <2>9. slot \in SlotsOf(b[t]) /\ At(b[t], slot) = FreshId(ar)
    BY <2>7, Overflows
  <2>10. slot \notin SlotsOf(ar[t])
    BY <1>4 DEF SlotsOf, ObjectSlots, ArraySlots
  <2> HIDE DEF slot
  <2>11. Attached(ar, t, slot, b)
    BY <2>1, <2>2, <2>9, <2>10, AttachedAt
  <2>12. \E qs : Renders(ps, ar, qs, 1, b, Table!With(C, Append(ps[t], StepAt(slot))), S)
    BY <1>1, <1>2, <2>2, <2>8, <2>11, AttachRenders
  <2>13. QED
    BY <1>2, <2>12 DEF b
<1>5. QED
  BY <1>3, <1>4

\* A value that goes to a known node goes to a path in use: if it is shared, its
\* container has spilled.
LEMMA KnownRenders ==
  ASSUME NEW ar, Good(ar), NEW ps, Names(ps, ar), Rooted(ar), NEW c \in DOMAIN ar, Usable(ar, c)
  PROVE  Renders(ps, ar, ps, 1, ar, Table!With(CountOf(ps, ar), ps[c]), SpilledOf(ps, ar) \cup SpillSet(ps[c]))
<1> DEFINE C == CountOf(ps, ar)
           S == SpilledOf(ps, ar)
<1>1. IsArena(ar)
  BY DEF Good
<1>2. Table!With(C, ps[c]) = C
  <2>1. C = [q \in DOMAIN C |-> C[q]]
    BY CountIsTable
  <2> DEFINE p == ps[c]
  <2>2. p \in DOMAIN C
    BY PathCounted
  <2> HIDE DEF p, C
  <2>3. Table!With(C, p) = C
    BY <2>1, <2>2, WithKnown
  <2>4. QED
    BY <2>3 DEF p
<1>3. SpillSet(ps[c]) \subseteq S
  <2>1. CASE c = Root
    <3>1. ps[c] = <<>>
      BY <2>1 DEF Names
    <3>2. QED
      BY <3>1 DEF SpillSet
  <2>2. CASE c # Root
    <3> PICK t \in DOMAIN ar : Under(ar, t, c)
      BY <2>2 DEF Rooted
    <3> PICK s \in SlotsOf(ar[t]) : At(ar[t], s) = c
      BY DEF Under
    <3>1. ps[c] = Append(ps[t], StepAt(s)) /\ StepAt(s) \in PathStep /\ ps[t] \in Seq(PathStep)
      BY DEF Names
    <3>2. CASE s[1] \in {"key", "item"}
      <4>1. StepAt(s)[1] # "any"
        BY <3>2 DEF StepAt
      <4>2. SpillSet(Append(ps[t], StepAt(s))) = {}
        BY <3>1, <4>1, SpillSets
      <4>3. QED
        BY <3>1, <4>2
    <3>3. CASE s = <<"object", 0>>
      <4>1. HasObject(ar[t]) /\ c = ar[t].object.mapValue
        BY <3>3 DEF SlotsOf, ObjectSlots, ArraySlots, At
      <4>2. Retired(ar[t], "object")
        BY <4>1 DEF Usable, Retired
      <4>3. Table!Shared(ps[t], "object") \in S
        BY <4>2, SharedSpilled DEF Containers
      <4>4. ps[c] = Table!Shared(ps[t], "object")
        BY <3>1, <3>3 DEF Table!Shared, StepAt
      <4>5. QED
        BY <4>3, <4>4 DEF SpillSet
    <3>4. CASE s = <<"array", 0>>
      <4>1. HasArray(ar[t]) /\ c = ar[t].array.bagValue
        BY <3>4 DEF SlotsOf, ObjectSlots, ArraySlots, At
      <4>2. Retired(ar[t], "array")
        BY <4>1 DEF Usable, Retired
      <4>3. Table!Shared(ps[t], "array") \in S
        BY <4>2, SharedSpilled DEF Containers
      <4>4. ps[c] = Table!Shared(ps[t], "array")
        BY <3>1, <3>4 DEF Table!Shared, StepAt
      <4>5. QED
        BY <4>3, <4>4 DEF SpillSet
    <3>5. IsSlot(s)
      BY SlotsAreSlots
    <3>6. QED
      BY <3>2, <3>3, <3>4, <3>5 DEF IsSlot
  <2>3. QED
    BY <2>1, <2>2
<1>4. S \cup SpillSet(ps[c]) = S
  BY <1>3
<1>5. Renders(ps, ar, ps, 1, ar, C, S)
  BY <1>1, RendersSame
<1>6. QED
  BY <1>2, <1>4, <1>5

-----------------------------------------------------------------------------
(* The containers that are open.                                           *)
LEMMA OpenedIs ==
  ASSUME NEW ps, NEW st, Sequence(st)
  PROVE  /\ Sequence(OpenOf(ps, st)) /\ Len(OpenOf(ps, st)) = Len(st)
         /\ DOMAIN OpenOf(ps, st) = DOMAIN st
         /\ OpenOf(ps, st) = <<>> <=> st = <<>>
         /\ \A i \in DOMAIN st : OpenOf(ps, st)[i] =
              [path |-> ps[st[i].node], kind |-> st[i].kind, items |-> st[i].position]
<1> DEFINE b == OpenOf(ps, st)
<1>1. b = [i \in DOMAIN st |-> b[i]]
  BY DEF OpenOf
<1>2. \A i \in DOMAIN st : b[i] =
        [path |-> ps[st[i].node], kind |-> st[i].kind, items |-> st[i].position]
  BY DEF OpenOf
<1> HIDE DEF b
<1>3. Sequence(b) /\ Len(b) = Len(st) /\ DOMAIN b = DOMAIN st
  BY <1>1, SequenceSame
<1>4. b = <<>> <=> st = <<>>
  BY <1>3, SequenceEmpty
<1>5. QED
  BY <1>2, <1>3, <1>4 DEF b

LEMMA OpenedSame ==
  ASSUME NEW ps, NEW st, Sequence(st), NEW qs, NEW sb, DOMAIN sb = DOMAIN st,
         \A i \in DOMAIN st : /\ qs[sb[i].node] = ps[st[i].node] /\ sb[i].kind = st[i].kind
                              /\ sb[i].position = st[i].position
  PROVE  OpenOf(qs, sb) = OpenOf(ps, st)
BY DEF OpenOf

LEMMA OpenedPush ==
  ASSUME NEW ps, NEW st, Sequence(st), NEW f
  PROVE  OpenOf(ps, Append(st, f)) =
           Append(OpenOf(ps, st), [path |-> ps[f.node], kind |-> f.kind, items |-> f.position])
<1> DEFINE sb == Append(st, f)
           e == [path |-> ps[f.node], kind |-> f.kind, items |-> f.position]
           b == Append(OpenOf(ps, st), e)
           c == OpenOf(ps, sb)
           n == Len(st)
<1>1. n \in Nat /\ DOMAIN st = 1 .. n
  BY SequenceLen
<1>2. Sequence(sb) /\ Len(sb) = n + 1 /\ sb[n + 1] = f /\ \A i \in 1 .. n : sb[i] = st[i]
  BY SequenceAppend
<1>3. /\ Sequence(OpenOf(ps, st)) /\ Len(OpenOf(ps, st)) = n
      /\ \A i \in 1 .. n : OpenOf(ps, st)[i] =
           [path |-> ps[st[i].node], kind |-> st[i].kind, items |-> st[i].position]
  BY <1>1, OpenedIs
<1> HIDE DEF e
<1>4. /\ Sequence(b) /\ Len(b) = n + 1 /\ b[n + 1] = e
      /\ \A i \in 1 .. n : b[i] = OpenOf(ps, st)[i]
  BY <1>3, SequenceAppend
<1> HIDE DEF sb, b
<1>5. DOMAIN sb = 1 .. n + 1
  BY <1>2, SequenceLen
<1>6. /\ Sequence(c) /\ Len(c) = n + 1
      /\ \A i \in 1 .. n + 1 : c[i] =
           [path |-> ps[sb[i].node], kind |-> sb[i].kind, items |-> sb[i].position]
  BY <1>2, <1>5, OpenedIs
<1> HIDE DEF c, n
<1>7. c[n + 1] = e
  BY <1>1, <1>2, <1>6 DEF e
<1>8. \A i \in 1 .. n : c[i] = b[i]
  BY <1>1, <1>2, <1>3, <1>4, <1>6
<1>9. \A i \in 1 .. n + 1 : c[i] = b[i]
  BY <1>1, <1>4, <1>7, <1>8
<1>10. c = b
  BY <1>4, <1>6, <1>9, SequenceEqual
<1>11. QED
  BY <1>10 DEF c, sb, b, e

LEMMA OpenedPop ==
  ASSUME NEW ps, NEW st, Sequence(st), st # <<>>
  PROVE  OpenOf(ps, Pop(st)) = SubSeq(OpenOf(ps, st), 1, Len(OpenOf(ps, st)) - 1)
<1> DEFINE o == OpenOf(ps, st)
           sb == Pop(st)
           b == Pop(o)
           c == OpenOf(ps, sb)
           n == Len(st) - 1
<1>1. /\ Len(st) \in Nat /\ DOMAIN st = 1 .. Len(st) /\ Len(st) >= 1
      /\ Sequence(sb) /\ Len(sb) = n /\ \A i \in 1 .. n : sb[i] = st[i]
  BY SequenceLen, SequencePop
<1>2. /\ Sequence(o) /\ Len(o) = Len(st) /\ o # <<>>
      /\ \A i \in DOMAIN st : o[i] =
           [path |-> ps[st[i].node], kind |-> st[i].kind, items |-> st[i].position]
  BY OpenedIs
<1> HIDE DEF o, sb
<1>3. Sequence(b) /\ Len(b) = n /\ \A i \in 1 .. n : b[i] = o[i]
  BY <1>2, SequencePop
<1>4. DOMAIN sb = 1 .. n /\ \A i \in 1 .. n : i \in DOMAIN st
  BY <1>1, SequenceLen
<1> HIDE DEF n
<1>5. /\ Sequence(c) /\ Len(c) = n
      /\ \A i \in 1 .. n : c[i] =
           [path |-> ps[sb[i].node], kind |-> sb[i].kind, items |-> sb[i].position]
  BY <1>1, <1>4, OpenedIs
<1>6. b = SubSeq(o, 1, Len(o) - 1)
  BY DEF Pop
<1> HIDE DEF b, c
<1>7. \A i \in 1 .. n : c[i] = b[i]
  <2> TAKE i \in 1 .. n
  <2>1. b[i] = [path |-> ps[st[i].node], kind |-> st[i].kind, items |-> st[i].position]
    BY <1>2, <1>3, <1>4
  <2>2. QED
    BY <1>1, <1>5, <2>1
<1>8. c = b
  BY <1>3, <1>5, <1>7, SequenceEqual
<1>9. QED
  BY <1>6, <1>8 DEF c, o, sb

LEMMA OpenedBegun ==
  ASSUME NEW ps, NEW st, Sequence(st), st # <<>>,
         DOMAIN st[Len(st)] = {"kind", "node", "position", "pendingKey", "children"}
  PROVE  OpenOf(ps, [st EXCEPT ![Len(st)].position = @ + 1]) =
           [OpenOf(ps, st) EXCEPT ![Len(OpenOf(ps, st))].items = @ + 1]
<1> DEFINE n == Len(st)
           sb == [st EXCEPT ![n].position = @ + 1]
           o == OpenOf(ps, st)
           b == [o EXCEPT ![Len(o)].items = @ + 1]
<1>1. n \in Nat /\ DOMAIN st = 1 .. n /\ n >= 1 /\ n \in DOMAIN st
  BY SequenceLen, SequencePop
<1>2. /\ DOMAIN o = DOMAIN st /\ Len(o) = n
      /\ \A i \in DOMAIN st : o[i] =
           [path |-> ps[st[i].node], kind |-> st[i].kind, items |-> st[i].position]
  BY OpenedIs
<1> HIDE DEF n
<1>3. /\ DOMAIN sb = DOMAIN st /\ \A i \in DOMAIN st : i # n => sb[i] = st[i]
      /\ sb[n].node = st[n].node /\ sb[n].kind = st[n].kind /\ sb[n].position = st[n].position + 1
  BY <1>1 DEF n
<1> HIDE DEF o
<1>4. b = [i \in DOMAIN st |-> b[i]] /\ DOMAIN b = DOMAIN st
  BY <1>2
<1>5. \A i \in DOMAIN st : i # n => b[i] = o[i]
  BY <1>2
<1>6. b[n] = [path |-> ps[st[n].node], kind |-> st[n].kind, items |-> st[n].position + 1]
  BY <1>1, <1>2
<1> HIDE DEF b, sb
<1>7. \A i \in DOMAIN st : b[i] =
        [path |-> ps[sb[i].node], kind |-> sb[i].kind, items |-> sb[i].position]
  BY <1>2, <1>3, <1>5, <1>6
<1>8. OpenOf(ps, sb) = b
  BY <1>3, <1>4, <1>7 DEF OpenOf
<1>9. QED
  BY <1>8 DEF sb, b, o, n

-----------------------------------------------------------------------------
(* The table of paths, as IngestByPath maps it, and its actions.           *)
Counted == CountOf(pathOf, arena)
Spills == SpilledOf(pathOf, arena)
Opened == OpenOf(pathOf, stack)
Goal == GoalOf(pathOf, pending)
Innermost == Opened[Len(Opened)]

NamedGoals(k) ==
  LET own == Append(Innermost.path, <<"key", k>>)
      shared == Table!Shared(Innermost.path, "object")
  IN {p \in {own} : own \in DOMAIN Counted \/ shared \notin Spills} \cup
     {p \in {shared} : own \notin DOMAIN Counted}

IndexedGoals ==
  LET own == Append(Innermost.path, <<"item", Innermost.items + 1>>)
      before == Append(Innermost.path, <<"item", Innermost.items>>)
      shared == Table!Shared(Innermost.path, "array")
  IN {p \in {own} : shared \notin Spills /\ (Innermost.items = 0 \/ before \in DOMAIN Counted)} \cup
     {p \in {shared} : shared \in Spills \/ own \notin DOMAIN Counted}

GoalsNow ==
  IF Goal # Nowhere THEN {Goal}
  ELSE IF Opened # <<>> /\ Innermost.kind = "array" THEN IndexedGoals ELSE {}
BegunNow ==
  IF Goal # Nowhere THEN Opened ELSE [Opened EXCEPT ![Len(Opened)].items = @ + 1]

LEMMA TableInit ==
  Table!Init <=>
    /\ Counted = [p \in {<<>>} |-> 0] /\ Spills = {} /\ Opened = <<>> /\ Goal = Nowhere
BY DEF Table!Init, Counted, Spills, Opened, Goal, CountOf, SpilledOf, OpenOf, GoalOf,
       Nodes, Obs, Objects, Arrays

LEMMA TableStays ==
  UNCHANGED Table!pathVars <=>
    Counted' = Counted /\ Spills' = Spills /\ Opened' = Opened /\ Goal' = Goal
BY DEF Table!pathVars, Counted, Spills, Opened, Goal, CountOf, SpilledOf, OpenOf, GoalOf,
       Nodes, Obs, Objects, Arrays

LEMMA TableBegin ==
  Table!Begin <=>
    /\ Opened = <<>> /\ Goal = Nowhere /\ Goal' = <<>>
    /\ Counted' = Counted /\ Spills' = Spills /\ Opened' = Opened
BY DEF Table!Begin, Counted, Spills, Opened, Goal, CountOf, SpilledOf, OpenOf, GoalOf,
       Nodes, Obs, Objects, Arrays

LEMMA TableName ==
  ASSUME NEW k
  PROVE  Table!Name(k) <=>
           /\ Opened # <<>> /\ Innermost.kind = "object" /\ Goal = Nowhere
           /\ \E p \in NamedGoals(k) :
                Goal' = p /\ Counted' = Table!With(Counted, p) /\ Spills' = Spills \cup SpillSet(p)
           /\ Opened' = Opened
BY DEF Table!Name, Table!Inside, Table!Inner, Table!KeyGoals, Table!Own, Table!KeyStep,
       Table!Known, Table!Spill, NamedGoals, Innermost, SpillSet,
       Counted, Spills, Opened, Goal, CountOf, SpilledOf, OpenOf, GoalOf, Nodes, Obs, Objects, Arrays

LEMMA TableValue ==
  Table!Value <=>
    /\ \E p \in GoalsNow : Counted' = Table!Plus(Counted, p) /\ Spills' = Spills \cup SpillSet(p)
    /\ Opened' = BegunNow /\ Goal' = Nowhere
BY DEF Table!Value, Table!Goals, Table!ItemGoals, Table!Begun, Table!Inside, Table!Inner,
       Table!Own, Table!ItemStep, Table!Known, Table!Spill, GoalsNow, IndexedGoals, BegunNow,
       Innermost, SpillSet,
       Counted, Spills, Opened, Goal, CountOf, SpilledOf, OpenOf, GoalOf, Nodes, Obs, Objects, Arrays

LEMMA TableEnter ==
  ASSUME NEW kind
  PROVE  Table!Enter(kind) <=>
           /\ \E p \in GoalsNow :
                /\ Counted' = Table!With(Table!Plus(Counted, p), Table!Shared(p, kind))
                /\ Opened' = Append(BegunNow, [path |-> p, kind |-> kind, items |-> 0])
                /\ Spills' = Spills \cup SpillSet(p)
           /\ Goal' = Nowhere
BY DEF Table!Enter, Table!Goals, Table!ItemGoals, Table!Begun, Table!Inside, Table!Inner,
       Table!Own, Table!ItemStep, Table!Known, Table!Spill, GoalsNow, IndexedGoals, BegunNow,
       Innermost, SpillSet,
       Counted, Spills, Opened, Goal, CountOf, SpilledOf, OpenOf, GoalOf, Nodes, Obs, Objects, Arrays

LEMMA TableLeave ==
  Table!Leave <=>
    /\ Opened # <<>> /\ Goal = Nowhere /\ Opened' = SubSeq(Opened, 1, Len(Opened) - 1)
    /\ Counted' = Counted /\ Spills' = Spills /\ Goal' = Goal
BY DEF Table!Leave, Counted, Spills, Opened, Goal, CountOf, SpilledOf, OpenOf, GoalOf,
       Nodes, Obs, Objects, Arrays

-----------------------------------------------------------------------------
(* The invariant of the refinement: the nodes are named.                   *)
PathInv == TreeInv /\ Names(pathOf, arena)

LEMMA PathParts ==
  ASSUME PathInv
  PROVE  /\ TreeInv /\ FullInv /\ IndInv /\ Good(arena) /\ IsArena(arena) /\ Frames(stack, arena)
         /\ Placed(stack, arena) /\ Rooted(arena) /\ Names(pathOf, arena)
BY TreeParts DEF PathInv, Tree

LEMMA GoalIs ==
  ASSUME PathInv
  PROVE  /\ pending = None => Goal = Nowhere
         /\ pending # None => pending \in DOMAIN arena /\ Goal = pathOf[pending] /\ Goal # Nowhere
<1>1. pending # None => pending \in DOMAIN arena /\ pathOf[pending] \in Seq(PathStep)
  BY PathParts, Zenon DEF IndInv, Names
<1>2. QED
  BY <1>1, NowhereAssumption DEF Goal, GoalOf

LEMMA NamesKept ==
  ASSUME NEW ps, NEW ar, IsArena(ar), Names(ps, ar),
         NEW qs, NEW n, NEW b, NEW C, NEW S, Renders(ps, ar, qs, n, b, C, S)
  PROVE  \A u \in DOMAIN ar : u \in DOMAIN b /\ qs[u] = ps[u]
BY ArenaLen DEF Renders, Further, Names

\* The innermost container is that of the last frame.
LEMMA InnermostIs ==
  ASSUME PathInv, stack # <<>>
  PROVE  /\ Opened # <<>> /\ Len(stack) \in DOMAIN stack
         /\ Innermost.path = pathOf[stack[Len(stack)].node]
         /\ Innermost.kind = stack[Len(stack)].kind
         /\ Innermost.items = stack[Len(stack)].position
<1>1. Sequence(stack)
  BY PathParts DEF Frames
<1>2. Len(stack) \in DOMAIN stack
  <2>1. Len(stack) \in Nat /\ DOMAIN stack = 1 .. Len(stack) /\ Len(stack) # 0
    BY <1>1, SequenceLen, SequenceEmpty
  <2>2. QED
    BY <2>1
<1>3. Innermost = [path |-> pathOf[stack[Len(stack)].node], kind |-> stack[Len(stack)].kind,
                   items |-> stack[Len(stack)].position]
  BY <1>1, <1>2, OpenedIs DEF Innermost, Opened
<1>4. Opened # <<>>
  BY <1>1, OpenedIs DEF Opened
<1>5. QED
  BY <1>2, <1>3, <1>4

\* The node for the next value stands for one of the paths it may be counted at.
LEMMA TargetRenders ==
  ASSUME PathInv, AwaitsValue
  PROVE  \E qs, p :
           /\ Renders(pathOf, arena, qs, 1, Target.arena, Table!With(Counted, p), Spills \cup SpillSet(p))
           /\ qs[Target.id] = p /\ p \in GoalsNow
<1>1. /\ IndInv /\ Good(arena) /\ IsArena(arena) /\ Frames(stack, arena) /\ Placed(stack, arena)
      /\ Rooted(arena) /\ Names(pathOf, arena) /\ FullInv
  BY PathParts
<1>2. CASE pending # None
  <2>1. Target = [arena |-> arena, id |-> pending]
    BY <1>2 DEF Target
  <2>2. pending \in DOMAIN arena /\ Goal = pathOf[pending] /\ Goal # Nowhere
    BY <1>2, GoalIs
  <2>3. Usable(arena, pending)
    BY <1>1, <1>2 DEF FullInv
  <2>4. Renders(pathOf, arena, pathOf, 1, arena, Table!With(Counted, pathOf[pending]),
                Spills \cup SpillSet(pathOf[pending]))
    BY <1>1, <2>2, <2>3, KnownRenders DEF Counted, Spills
  <2>5. pathOf[pending] \in GoalsNow
    BY <2>2 DEF GoalsNow
  <2>6. QED
    BY <2>1, <2>4, <2>5
<1>3. CASE pending = None
  <2> DEFINE d == Len(stack)
             a == stack[d].node
             k == stack[d].position
             child == ArrayChild(arena, a, k)
             own == Append(pathOf[a], <<"item", k + 1>>)
             before == Append(pathOf[a], <<"item", k>>)
             shared == Table!Shared(pathOf[a], "array")
  <2>1. stack # <<>> /\ stack[d].kind = "array"
    BY <1>1, <1>3, HasTargetHolds DEF InArray
  <2>2. /\ d \in DOMAIN stack /\ Opened # <<>> /\ Innermost.kind = "array"
        /\ Innermost.path = pathOf[a] /\ Innermost.items = k
    BY <2>1, InnermostIs
  <2>3. a \in DOMAIN arena /\ HasArray(arena[a]) /\ k \in Nat
    BY <1>1, <2>1, <2>2 DEF Frames, IsFrame
  <2>4. arena[a].array.positionalAlive => k <= Len(arena[a].array.positional)
    BY <1>1, <2>1, <2>2 DEF Placed
  <2>5. Target = child
    BY <1>3 DEF Target, Top
  <2>6. \E qs, p :
          /\ Renders(pathOf, arena, qs, 1, child.arena, Table!With(Counted, p), Spills \cup SpillSet(p))
          /\ qs[child.id] = p
          /\ \/ p = own /\ shared \notin Spills /\ (k = 0 \/ before \in DOMAIN Counted)
             \/ p = shared /\ (shared \in Spills \/ own \notin DOMAIN Counted)
    BY <1>1, <2>3, <2>4, ItemRenders DEF Counted, Spills
  <2> HIDE DEF child
  <2>7. GoalsNow = IndexedGoals
    BY <1>3, <2>2, GoalIs DEF GoalsNow
  <2>8. \A p : \/ p = own /\ shared \notin Spills /\ (k = 0 \/ before \in DOMAIN Counted)
               \/ p = shared /\ (shared \in Spills \/ own \notin DOMAIN Counted)
               => p \in IndexedGoals
    BY <2>2, Zenon DEF IndexedGoals
  <2>9. QED
    BY <2>5, <2>6, <2>7, <2>8
<1>4. QED
  BY <1>2, <1>3

\* The open containers once the value has begun.
LEMMA TargetBegun ==
  ASSUME PathInv, AwaitsValue
  PROVE  OpenOf(pathOf, StackAfterTarget) = BegunNow
<1>1. IndInv /\ Frames(stack, arena) /\ Sequence(stack)
  BY PathParts DEF Frames
<1>2. CASE pending # None
  BY <1>2, GoalIs DEF BegunNow, StackAfterTarget, Opened
<1>3. CASE pending = None
  <2>1. stack # <<>>
    BY <1>1, <1>3, HasTargetHolds DEF InArray
  <2>2. DOMAIN stack[Len(stack)] = {"kind", "node", "position", "pendingKey", "children"}
    BY <1>1, <2>1, InnermostIs DEF Frames, IsFrame
  <2>3. OpenOf(pathOf, [stack EXCEPT ![Len(stack)].position = @ + 1]) =
          [Opened EXCEPT ![Len(Opened)].items = @ + 1]
    BY <1>1, <2>1, <2>2, OpenedBegun DEF Opened
  <2>4. QED
    BY <1>3, <2>3, GoalIs DEF BegunNow, StackAfterTarget
<1>4. QED
  BY <1>2, <1>3

\* A change of counters that the table does not tell.
LEMMA CountsRenders ==
  ASSUME NEW ps, NEW ar, IsArena(ar), Names(ps, ar), NEW qs, NEW n \in Nat, NEW b, NEW C, NEW S,
         Renders(ps, ar, qs, n, b, C, S), NEW c, Counts(b, c)
  PROVE  Renders(ps, ar, qs, n, c, C, S)
<1>1. IsArena(b) /\ Names(qs, b) /\ CountOf(qs, b) = C /\ SpilledOf(qs, b) = S
  BY DEF Renders
<1>2. IsArena(c) /\ Alike(b, c)
  BY DEF Counts, Ripens, Good, Quiet, SameDates, SameViews, Alike
<1>3. Renders(qs, b, qs, 0, c, C, S)
  BY <1>1, <1>2, AlikeRenders
<1>4. Renders(ps, ar, qs, n + 0, c, C, S)
  BY <1>3, RendersOn
<1>5. QED
  BY <1>4

\* The value that arrives is counted.
LEMMA CountedRenders ==
  ASSUME PathInv, AwaitsValue
  PROVE  \E qs, p :
           /\ Renders(pathOf, arena, qs, 1, ObsAt(Target.arena, Target.id), Table!Plus(Counted, p),
                      Spills \cup SpillSet(p))
           /\ qs[Target.id] = p /\ p \in GoalsNow
<1> DEFINE tr == Target.arena
           t == Target.id
           b == ObsAt(tr, t)
<1>1. IndInv /\ TreeInv /\ IsArena(arena) /\ Names(pathOf, arena)
  BY PathParts
<1>2. IsArena(tr) /\ t \in DOMAIN tr
  BY <1>1, TargetGrows
<1>3. tr[t].obs \in Nat
  BY <1>1, <1>2, TargetAges DEF Ages, Tree, Dated
<1>4. PICK qs, p : /\ Renders(pathOf, arena, qs, 1, tr, Table!With(Counted, p), Spills \cup SpillSet(p))
                   /\ qs[t] = p /\ p \in GoalsNow
  BY TargetRenders
<1> HIDE DEF tr, t
<1>5. /\ Names(qs, tr) /\ CountOf(qs, tr) = Table!With(Counted, p)
      /\ SpilledOf(qs, tr) = Spills \cup SpillSet(p)
  BY <1>4 DEF Renders
<1>6. Renders(qs, tr, qs, 0, b, Table!Plus(CountOf(qs, tr), qs[t]), SpilledOf(qs, tr))
  BY <1>2, <1>3, <1>5, SeenRenders
<1>7. Renders(qs, tr, qs, 0, b, Table!Plus(Counted, p), Spills \cup SpillSet(p))
  BY <1>4, <1>5, <1>6, WithTwice
<1> HIDE DEF b
<1>8. Renders(pathOf, arena, qs, 1 + 0, b, Table!Plus(Counted, p), Spills \cup SpillSet(p))
  BY <1>4, <1>7, RendersOn
<1>9. Renders(pathOf, arena, qs, 1, b, Table!Plus(Counted, p), Spills \cup SpillSet(p))
  BY <1>8
<1>10. QED
  BY <1>4, <1>9 DEF b, tr, t

\* The paths after a step.
LEMMA Follows ==
  ASSUME PathInv, TreeInv', NEW qs, NEW n \in {0, 1, 2}, NEW C, NEW S,
         Renders(pathOf, arena, qs, n, arena', C, S), pathOf' = Named(pathOf, arena')
  PROVE  pathOf' = qs /\ Names(pathOf', arena') /\ Counted' = C /\ Spills' = S
<1>1. Names(qs, arena') /\ Further(pathOf, qs, n) /\ CountOf(qs, arena') = C /\ SpilledOf(qs, arena') = S
  BY DEF Renders
<1>2. Further(pathOf, qs, 2)
  BY <1>1, SMT DEF Further
<1>3. IsArena(arena') /\ Rooted(arena') /\ Separate(arena')
  BY DEF TreeInv, FullInv, Good, Tree
<1>4. pathOf' = qs
  BY <1>1, <1>2, <1>3, NamedIs
<1>5. Counted' = C /\ Spills' = S
  <2>1. Counted' = CountOf(pathOf', arena')
    BY DEF Counted, CountOf
  <2>2. Spills' = SpilledOf(pathOf', arena')
    BY DEF Spills, SpilledOf
  <2>3. QED
    BY <1>1, <1>4, <2>1, <2>2
<1>6. QED
  BY <1>1, <1>4, <1>5

\* The open containers after a step, when those of st remain.
LEMMA OpenedKept ==
  ASSUME NEW ps, NEW ar, IsArena(ar), Names(ps, ar), NEW qs, NEW n, NEW b, NEW C, NEW S,
         Renders(ps, ar, qs, n, b, C, S), NEW st, Frames(st, ar)
  PROVE  OpenOf(qs, st) = OpenOf(ps, st)
<1>1. Sequence(st) /\ \A i \in DOMAIN st : st[i].node \in DOMAIN ar
  BY DEF Frames, IsFrame
<1>2. \A u \in DOMAIN ar : qs[u] = ps[u]
  BY NamesKept
<1>3. QED
  BY <1>1, <1>2, OpenedSame

-----------------------------------------------------------------------------
(* The events.                                                             *)
LEMMA OpenedNext ==
  ASSUME NEW qs, pathOf' = qs
  PROVE  Opened' = OpenOf(qs, stack') /\ Goal' = GoalOf(qs, pending')
<1>1. Opened' = OpenOf(pathOf', stack')
  BY DEF Opened, OpenOf
<1>2. Goal' = GoalOf(pathOf', pending')
  BY DEF Goal, GoalOf
<1>3. QED
  BY <1>1, <1>2

\* An event that leaves the arena as it is, as the table sees it.
LEMMA SilentRenders ==
  ASSUME PathInv, TreeInv', NEW b, Counts(arena, b), arena' = b, pathOf' = Named(pathOf, arena')
  PROVE  pathOf' = pathOf /\ Names(pathOf', arena') /\ Counted' = Counted /\ Spills' = Spills
<1>1. IsArena(arena) /\ Names(pathOf, arena)
  BY PathParts
<1>2. Renders(pathOf, arena, pathOf, 0, arena, Counted, Spills)
  BY <1>1, RendersSame DEF Counted, Spills
<1>3. Renders(pathOf, arena, pathOf, 0, b, Counted, Spills)
  BY <1>1, <1>2, CountsRenders
<1>4. QED
  BY <1>3, Follows

LEMMA CountsSame ==
  ASSUME NEW ar, Good(ar)
  PROVE  Counts(ar, ar)
BY RipensSame DEF Counts, Quiet, SameRefs, SameDates, SameViews

LEMMA CountsOn ==
  ASSUME NEW ar, Good(ar), NEW b, Counts(ar, b), NEW c, Counts(b, c)
  PROVE  Counts(ar, c)
BY RipensOn DEF Counts, Quiet, SameRefs, SameDates, SameViews

LEMMA DriveDocumentTable ==
  ASSUME PathInv, TreeInv', DriveDocument, pathOf' = Named(pathOf, arena')
  PROVE  Table!Begin /\ Names(pathOf', arena')
<1>1. /\ IndInv /\ Good(arena) /\ IsArena(arena) /\ Frames(stack, arena) /\ Names(pathOf, arena)
  BY PathParts
<1>2. arena' = arena /\ stack' = stack /\ pending' = Root /\ stack = <<>> /\ pending = None
  BY <1>1 DEF DriveDocument, DocumentBegin, IndInv
<1>3. pathOf' = pathOf /\ Names(pathOf', arena') /\ Counted' = Counted /\ Spills' = Spills
  BY <1>1, <1>2, CountsSame, SilentRenders
<1>4. Goal = Nowhere
  BY <1>2, GoalIs
<1>5. Opened' = Opened /\ Opened = <<>>
  BY <1>1, <1>2, <1>3, OpenedNext, OpenedIs DEF Opened, Frames
<1>6. Goal' = <<>>
  <2>1. Root # None
    BY NoneAssumption DEF Root
  <2>2. Goal' = pathOf[Root]
    BY <1>2, <1>3, <2>1, OpenedNext DEF GoalOf
  <2>3. QED
    BY <1>1, <2>2 DEF Names
<1>7. QED
  BY <1>3, <1>4, <1>5, <1>6, TableBegin

LEMMA FinishDocumentTable ==
  ASSUME PathInv, TreeInv', FinishDocument, pathOf' = Named(pathOf, arena')
  PROVE  UNCHANGED Table!pathVars /\ Names(pathOf', arena')
<1>1. /\ IndInv /\ Good(arena)
  BY PathParts
<1>2. arena' = arena /\ stack' = stack /\ pending' = None /\ pending = None
  BY <1>1 DEF FinishDocument, DocumentEnd, IndInv, Walking
<1>3. pathOf' = pathOf /\ Names(pathOf', arena') /\ Counted' = Counted /\ Spills' = Spills
  BY <1>1, <1>2, CountsSame, SilentRenders
<1>4. Opened' = Opened /\ Goal' = Goal
  BY <1>2, <1>3, OpenedNext DEF Opened, Goal
<1>5. QED
  BY <1>3, <1>4, TableStays

LEMMA DriveScalarTable ==
  ASSUME PathInv, TreeInv', NEW kind \in Kind, DriveScalar(kind), pathOf' = Named(pathOf, arena')
  PROVE  Table!Value /\ Names(pathOf', arena')
<1> DEFINE t == Target.id
           st == StackAfterTarget
           ar == ObsAt(Target.arena, t)
           br == [ar EXCEPT ![t].scalars[kind] = @ + 1]
           sig == ScalarSig(kind)
<1>1. AwaitsValue /\ pending' = None /\ EmitChildSig(br, st, sig)
  BY DEF DriveScalar, Scalar
<1>2. /\ Good(ar) /\ t \in DOMAIN ar /\ Frames(st, ar) /\ Placed(st, ar)
      /\ IsArena(arena) /\ Names(pathOf, arena) /\ IndInv
  BY <1>1, PathParts, CountedRipens
<1>3. Frames(st, arena)
  BY <1>1, <1>2, TargetGrows
<1>4. OpenOf(pathOf, st) = BegunNow
  BY <1>1, TargetBegun
<1>5. PICK qs, p :
        /\ Renders(pathOf, arena, qs, 1, ar, Table!Plus(Counted, p), Spills \cup SpillSet(p))
        /\ qs[t] = p /\ p \in GoalsNow
  BY <1>1, CountedRenders
<1> HIDE DEF ar, t, st, sig
<1>6. Counts(ar, br)
  BY <1>2, ScalarsCount
<1> HIDE DEF br
<1>7. Good(br) /\ Frames(st, br) /\ Placed(st, br)
  BY <1>2, <1>6, RipensArena, FramesGrow, PlacedRipens DEF Counts
<1>8. Counts(ar, arena')
  BY <1>1, <1>2, <1>6, <1>7, EmittedRipens, CountsOn
<1>9. Renders(pathOf, arena, qs, 1, arena', Table!Plus(Counted, p), Spills \cup SpillSet(p))
  BY <1>2, <1>5, <1>8, CountsRenders
<1>10. /\ pathOf' = qs /\ Names(pathOf', arena')
       /\ Counted' = Table!Plus(Counted, p) /\ Spills' = Spills \cup SpillSet(p)
  BY <1>9, Follows
<1>11. Opened' = BegunNow
  <2>1. DOMAIN stack' = DOMAIN st /\ \A i \in DOMAIN st :
          stack'[i].kind = st[i].kind /\ stack'[i].node = st[i].node /\ stack'[i].position = st[i].position
    BY <1>1, <1>7, EmittedFrames
  <2>2. Sequence(st)
    BY <1>3 DEF Frames
  <2>3. OpenOf(qs, stack') = OpenOf(qs, st)
    BY <2>1, <2>2, OpenedSame
  <2>4. OpenOf(qs, st) = OpenOf(pathOf, st)
    BY <1>2, <1>3, <1>9, OpenedKept
  <2>5. QED
    BY <1>4, <1>10, <2>3, <2>4, OpenedNext
<1>12. Goal' = Nowhere
  BY <1>1, <1>10, OpenedNext DEF GoalOf
<1>13. QED
  BY <1>5, <1>10, <1>11, <1>12, TableValue

\* A container is counted and opens.
LEMMA Enters ==
  ASSUME PathInv, TreeInv', AwaitsValue, NEW kind,
         NEW br,
         \A ps : Names(ps, ObsAt(Target.arena, Target.id)) =>
           \E qs : Renders(ps, ObsAt(Target.arena, Target.id), qs, 1, br,
                           Table!With(CountOf(ps, ObsAt(Target.arena, Target.id)),
                                      Table!Shared(ps[Target.id], kind)),
                           SpilledOf(ps, ObsAt(Target.arena, Target.id))),
         Counts(br, arena'),
         NEW f, f.node = Target.id, f.kind = kind, f.position = 0,
         stack' = Append(StackAfterTarget, f), pending' = None, pathOf' = Named(pathOf, arena')
  PROVE  Table!Enter(kind) /\ Names(pathOf', arena')
<1> DEFINE t == Target.id
           st == StackAfterTarget
           ar == ObsAt(Target.arena, t)
<1>1. \A ps : Names(ps, ar) => \E qs : Renders(ps, ar, qs, 1, br,
                Table!With(CountOf(ps, ar), Table!Shared(ps[t], kind)), SpilledOf(ps, ar))
  OBVIOUS
<1>2. /\ Good(ar) /\ t \in DOMAIN ar /\ IsArena(ar)
      /\ IsArena(arena) /\ Names(pathOf, arena) /\ IndInv
  BY PathParts, CountedRipens DEF Good
<1>3. Frames(st, arena) /\ Sequence(st)
  BY <1>2, TargetGrows DEF Frames
<1>4. OpenOf(pathOf, st) = BegunNow
  BY TargetBegun
<1>5. PICK qs, p :
        /\ Renders(pathOf, arena, qs, 1, ar, Table!Plus(Counted, p), Spills \cup SpillSet(p))
        /\ qs[t] = p /\ p \in GoalsNow
  BY CountedRenders
<1>6. stack' = Append(st, f) /\ f.node = t
  OBVIOUS
<1> HIDE DEF ar, t, st
<1> DEFINE C == Table!With(Table!Plus(Counted, p), Table!Shared(p, kind))
           S == Spills \cup SpillSet(p)
<1>7. Names(qs, ar) /\ CountOf(qs, ar) = Table!Plus(Counted, p) /\ SpilledOf(qs, ar) = S
  BY <1>5 DEF Renders
<1>8. PICK rs : Renders(qs, ar, rs, 1, br, C, S)
  BY <1>1, <1>5, <1>7
<1>9. rs[t] = p
  BY <1>2, <1>5, <1>7, <1>8, NamesKept
<1> HIDE DEF C
<1>10. Renders(pathOf, arena, rs, 1 + 1, br, C, S)
  BY <1>5, <1>8, RendersOn
<1>11. Renders(pathOf, arena, rs, 2, br, C, S)
  BY <1>10
<1>12. Renders(pathOf, arena, rs, 2, arena', C, S)
  BY <1>2, <1>11, CountsRenders
<1>13. pathOf' = rs /\ Names(pathOf', arena') /\ Counted' = C /\ Spills' = S
  BY <1>12, Follows
<1>14. Opened' = Append(BegunNow, [path |-> p, kind |-> kind, items |-> 0])
  <2>1. Opened' = OpenOf(rs, Append(st, f))
    BY <1>6, <1>13, OpenedNext
  <2>2. OpenOf(rs, Append(st, f)) = Append(OpenOf(rs, st), [path |-> p, kind |-> kind, items |-> 0])
    BY <1>3, <1>6, <1>9, OpenedPush
  <2>3. OpenOf(rs, st) = OpenOf(pathOf, st)
    BY <1>2, <1>3, <1>12, OpenedKept
  <2>4. QED
    BY <1>4, <2>1, <2>2, <2>3
<1>15. Goal' = Nowhere
  BY <1>13, OpenedNext DEF GoalOf
<1>16. QED
  BY <1>5, <1>13, <1>14, <1>15, TableEnter DEF C

LEMMA OpenArrayTable ==
  ASSUME PathInv, TreeInv', OpenArray, pathOf' = Named(pathOf, arena')
  PROVE  Table!Enter("array") /\ Names(pathOf', arena')
<1> DEFINE t == Target.id
           ar == ObsAt(Target.arena, t)
           br == EnsureArray(ar, t)
           cr == [br EXCEPT ![t].array.obs = @ + 1]
           f == ArrayFrame(t)
<1>1. /\ AwaitsValue /\ arena' = cr /\ stack' = Append(StackAfterTarget, f) /\ pending' = None
  BY DEF OpenArray, ArrayBegin
<1>2. Good(ar) /\ t \in DOMAIN ar
  BY <1>1, PathParts, CountedRipens
<1>3. Rooted(ar)
  BY <1>1, PathParts, SeenTarget DEF Tree
<1>4. f.node = t /\ f.kind = "array" /\ f.position = 0
  BY DEF ArrayFrame
<1> HIDE DEF f
<1>5. \A ps : Names(ps, ar) => \E qs :
        Renders(ps, ar, qs, 1, br, Table!With(CountOf(ps, ar), Table!Shared(ps[t], "array")), SpilledOf(ps, ar))
  <2> HIDE DEF ar, t
  <2>1. QED
    BY <1>2, <1>3, EnsureArrayRenders
<1>6. Counts(br, cr)
  <2> HIDE DEF ar, t
  <2>1. Ripens(ar, br)
    BY <1>2, EnsureArrayRipens
  <2> HIDE DEF br
  <2>2. Good(br) /\ t \in DOMAIN br
    BY <1>2, <2>1, RipensArena
  <2>3. QED
    BY <2>2, ArrayCountersCount
<1>7. Counts(br, arena')
  BY <1>1, <1>6
<1> HIDE DEF br, cr
<1>8. QED
  BY <1>1, <1>4, <1>5, <1>7, Enters

LEMMA OpenObjectTable ==
  ASSUME PathInv, TreeInv', OpenObject, pathOf' = Named(pathOf, arena')
  PROVE  Table!Enter("object") /\ Names(pathOf', arena')
<1> DEFINE t == Target.id
           ar == ObsAt(Target.arena, t)
           br == EnsureObject(ar, t)
           cr == [br EXCEPT ![t].object.obs = @ + 1]
           f == ObjectFrame(t)
<1>1. /\ AwaitsValue /\ arena' = cr /\ stack' = Append(StackAfterTarget, f) /\ pending' = None
  BY DEF OpenObject, ObjectBegin
<1>2. Good(ar) /\ t \in DOMAIN ar
  BY <1>1, PathParts, CountedRipens
<1>3. Rooted(ar)
  BY <1>1, PathParts, SeenTarget DEF Tree
<1>4. f.node = t /\ f.kind = "object" /\ f.position = 0
  BY DEF ObjectFrame
<1> HIDE DEF f
<1>5. \A ps : Names(ps, ar) => \E qs :
        Renders(ps, ar, qs, 1, br, Table!With(CountOf(ps, ar), Table!Shared(ps[t], "object")), SpilledOf(ps, ar))
  <2> HIDE DEF ar, t
  <2>1. QED
    BY <1>2, <1>3, EnsureObjectRenders
<1>6. Counts(br, cr)
  <2> HIDE DEF ar, t
  <2>1. Ripens(ar, br)
    BY <1>2, EnsureObjectRipens
  <2> HIDE DEF br
  <2>2. Good(br) /\ t \in DOMAIN br
    BY <1>2, <2>1, RipensArena
  <2>3. QED
    BY <2>2, ObjectCountersCount
<1>7. Counts(br, arena')
  BY <1>1, <1>6
<1> HIDE DEF br, cr
<1>8. QED
  BY <1>1, <1>4, <1>5, <1>7, Enters

\* A container closes: the table does not see its sizes.
LEMMA Leaves ==
  ASSUME PathInv, TreeInv', calls # <<>>, stack # <<>>, pending = None, pending' = None,
         NEW br, Counts(arena, br), NEW sig, EmitChildSig(br, Pop(stack), sig),
         pathOf' = Named(pathOf, arena')
  PROVE  Table!Leave /\ Names(pathOf', arena')
<1> DEFINE st == Pop(stack)
<1>1. Good(arena) /\ Frames(stack, arena) /\ FullInv
  BY PathParts
<1>2. Good(br) /\ Frames(st, br) /\ Placed(st, br)
  BY <1>1, PopRipens DEF Counts
<1>3. Counts(arena, arena')
  BY <1>1, <1>2, EmittedRipens, CountsOn
<1>4. pathOf' = pathOf /\ Names(pathOf', arena') /\ Counted' = Counted /\ Spills' = Spills
  BY <1>3, SilentRenders
<1>5. Goal = Nowhere /\ Goal' = Nowhere
  BY <1>4, GoalIs, OpenedNext DEF GoalOf
<1>6. Opened # <<>>
  BY InnermostIs
<1>7. Opened' = SubSeq(Opened, 1, Len(Opened) - 1)
  <2>1. DOMAIN stack' = DOMAIN st /\ \A i \in DOMAIN st :
          stack'[i].kind = st[i].kind /\ stack'[i].node = st[i].node /\ stack'[i].position = st[i].position
    BY <1>2, EmittedFrames
  <2>2. Sequence(st) /\ Sequence(stack)
    BY <1>1, <1>2 DEF Frames
  <2>3. OpenOf(pathOf, stack') = OpenOf(pathOf, st)
    <3> HIDE DEF st
    <3>1. QED
      BY <2>1, <2>2, OpenedSame
  <2>4. OpenOf(pathOf, st) = SubSeq(Opened, 1, Len(Opened) - 1)
    BY <2>2, OpenedPop DEF Opened
  <2>5. QED
    BY <1>4, <2>3, <2>4, OpenedNext
<1>8. QED
  BY <1>4, <1>5, <1>6, <1>7, TableLeave

LEMMA CloseArrayTable ==
  ASSUME PathInv, TreeInv', CloseArray, pathOf' = Named(pathOf, arena')
  PROVE  Table!Leave /\ Names(pathOf', arena')
<1> DEFINE f == Top(stack)
           n == f.position
           br == [arena EXCEPT ![f.node].array.lengthSum = @ + n, ![f.node].array.lengths = Tick(@, n)]
           sig == ArraySig(f.children)
<1>1. /\ Walking("array") /\ calls # <<>> /\ pending' = pending
      /\ EmitChildSig(br, Pop(stack), sig)
  BY DEF CloseArray, ArrayEnd, Walking
<1>2. IndInv /\ Good(arena)
  BY PathParts
<1>3. stack # <<>> /\ f.node \in DOMAIN arena
  BY <1>1, <1>2, WalkingFrame DEF Top, IsFrame
<1>4. pending = None /\ pending' = None
  BY <1>1, <1>2 DEF IndInv, Walking
<1> HIDE DEF f, n, sig
<1>5. Counts(arena, br)
  BY <1>2, <1>3, ArrayCountersCount
<1> HIDE DEF br
<1>6. QED
  BY <1>1, <1>3, <1>4, <1>5, Leaves

LEMMA CloseObjectTable ==
  ASSUME PathInv, TreeInv', CloseObject, pathOf' = Named(pathOf, arena')
  PROVE  Table!Leave /\ Names(pathOf', arena')
<1> DEFINE f == Top(stack)
           n == Cardinality(f.children)
           br == [arena EXCEPT ![f.node].object.keyCounts = Tick(@, n)]
           sig == RecordSig(f.children)
<1>1. /\ Walking("object") /\ ~Current.awaits /\ calls # <<>> /\ pending' = pending
      /\ EmitChildSig(br, Pop(stack), sig)
  BY DEF CloseObject, ObjectEnd, Walking
<1>2. IndInv /\ Good(arena)
  BY PathParts
<1>3. stack # <<>> /\ f.node \in DOMAIN arena
  BY <1>1, <1>2, WalkingFrame DEF Top, IsFrame
<1>4. pending = None /\ pending' = None
  BY <1>1, <1>2 DEF IndInv
<1> HIDE DEF f, n, sig
<1>5. Counts(arena, br)
  BY <1>2, <1>3, ObjectCountersCount
<1> HIDE DEF br
<1>6. QED
  BY <1>1, <1>3, <1>4, <1>5, Leaves

LEMMA DriveKeyTable ==
  ASSUME PathInv, TreeInv', NEW key \in Key, DriveKey(key), pathOf' = Named(pathOf, arena')
  PROVE  Table!Name(key) /\ Names(pathOf', arena')
<1> DEFINE d == Len(stack)
           o == stack[d].node
           child == ObjectChild(arena, o, key)
           cr == child.arena
           c == child.id
           br == [cr EXCEPT ![o].object.keyCountSum = @ + 1,
                               ![o].object.keyStats = Tick(@, key)]
           st == [stack EXCEPT ![d].pendingKey = key]
           own == Append(pathOf[o], <<"key", key>>)
           shared == Table!Shared(pathOf[o], "object")
<1>1. /\ Walking("object") /\ ~Current.awaits /\ calls # <<>>
      /\ arena' = br /\ pending' = c /\ stack' = st
  BY DEF DriveKey, ObjectKey, Top, Walking
<1>2. /\ IndInv /\ Good(arena) /\ IsArena(arena) /\ Frames(stack, arena)
      /\ Rooted(arena) /\ Names(pathOf, arena)
  BY PathParts
<1>3. /\ stack # <<>> /\ d \in DOMAIN stack /\ stack[d].kind = "object"
      /\ o \in DOMAIN arena /\ HasObject(arena[o])
  BY <1>1, <1>2, WalkingFrame DEF IsFrame
<1>4. pending = None
  BY <1>1, <1>2 DEF IndInv
<1>5. Goal = Nowhere /\ Opened # <<>> /\ Innermost.kind = "object" /\ Innermost.path = pathOf[o]
  BY <1>3, <1>4, GoalIs, InnermostIs
<1>6. DOMAIN st = DOMAIN stack /\ \A i \in DOMAIN stack :
        st[i].kind = stack[i].kind /\ st[i].node = stack[i].node /\ st[i].position = stack[i].position
  BY <1>2 DEF Frames, IsFrame
<1>7. \E qs, p :
        /\ Renders(pathOf, arena, qs, 1, cr, Table!With(Counted, p), Spills \cup SpillSet(p))
        /\ qs[c] = p
        /\ \/ p = own /\ (own \in DOMAIN Counted \/ shared \notin Spills)
           \/ p = shared /\ own \notin DOMAIN Counted
  <2>1. KeyRendered(pathOf, arena, o, key)
    <3> HIDE DEF o
    <3>1. QED
      BY <1>2, <1>3, KeyRenders
  <2>2. QED
    BY <2>1 DEF KeyRendered, Counted, Spills
<1>8. Ripens(arena, cr)
  BY <1>2, <1>3, ObjectChildRipens
<1>9. Grows(arena, cr) /\ c \in Ref(Len(cr))
  BY <1>2, <1>3, ObjectChildGrows
<1> HIDE DEF c, cr, child, st
<1>10. Good(cr) /\ o \in DOMAIN cr /\ c # None
  BY <1>2, <1>3, <1>8, <1>9, RipensArena, NoneAssumption DEF Ref
<1>11. Counts(cr, br)
  BY <1>10, ObjectCountersCount
<1> HIDE DEF br
<1>12. PICK qs, p :
         /\ Renders(pathOf, arena, qs, 1, cr, Table!With(Counted, p), Spills \cup SpillSet(p))
         /\ qs[c] = p
         /\ \/ p = own /\ (own \in DOMAIN Counted \/ shared \notin Spills)
            \/ p = shared /\ own \notin DOMAIN Counted
  BY <1>7
<1>13. Renders(pathOf, arena, qs, 1, arena', Table!With(Counted, p), Spills \cup SpillSet(p))
  BY <1>1, <1>2, <1>11, <1>12, CountsRenders
<1>14. /\ pathOf' = qs /\ Names(pathOf', arena')
       /\ Counted' = Table!With(Counted, p) /\ Spills' = Spills \cup SpillSet(p)
  BY <1>13, Follows
<1>15. p \in NamedGoals(key)
  BY <1>5, <1>12, Zenon DEF NamedGoals
<1>16. Opened' = Opened
  <2>1. Sequence(stack)
    BY <1>2 DEF Frames
  <2>2. OpenOf(qs, st) = OpenOf(qs, stack)
    BY <1>6, <2>1, OpenedSame
  <2>3. OpenOf(qs, stack) = OpenOf(pathOf, stack)
    BY <1>2, <1>13, OpenedKept
  <2>4. QED
    BY <1>1, <1>14, <2>2, <2>3, OpenedNext DEF Opened
<1>17. Goal' = p
  BY <1>1, <1>10, <1>12, <1>14, OpenedNext DEF GoalOf
<1>18. QED
  BY <1>5, <1>14, <1>15, <1>16, <1>17, TableName

-----------------------------------------------------------------------------
LEMMA PathsStart ==
  ASSUME PathInit
  PROVE  PathInv /\ Table!Init
<1>1. Init /\ pathOf = <<(<<>>)>>
  BY DEF PathInit
<1>2. TreeInv /\ IsArena(arena)
  BY <1>1, InitTree, TreeParts
<1>3. arena = <<NewNode>> /\ stack = <<>> /\ pending = None
  BY <1>1 DEF Init, AnalyzerInit
<1>4. Len(arena) = 1 /\ DOMAIN arena = {Root} /\ arena[Root] = NewNode /\ Len(pathOf) = 1 /\ pathOf[Root] = <<>>
  BY <1>1, <1>3 DEF Root
<1>5. \A t \in DOMAIN arena : SlotsOf(arena[t]) = {} /\ ~HasObject(arena[t]) /\ ~HasArray(arena[t])
  BY <1>4, NewNodeSlots
<1>6. Sequence(pathOf) /\ <<>> \in Seq(PathStep)
  <2>1. <<>> \in Seq(PathStep)
    OBVIOUS
  <2>2. pathOf \in Seq(Seq(PathStep))
    BY <1>1, <2>1
  <2>3. QED
    BY <2>1, <2>2 DEF Sequence
<1>7. Names(pathOf, arena)
  BY <1>4, <1>5, <1>6 DEF Names
<1>8. Counted = [p \in {<<>>} |-> 0]
  <2> DEFINE C == [p \in {<<>>} |-> 0]
  <2>1. PathsOf(pathOf, arena) = {<<>>}
    BY <1>4 DEF PathsOf
  <2>2. \A t \in DOMAIN arena : C[pathOf[t]] = arena[t].obs
    BY <1>4 DEF NewNode
  <2>3. QED
    BY <1>7, <2>1, <2>2, CountIs DEF Counted
<1>9. Spills = {}
  BY <1>5 DEF Spills, SpilledOf
<1>10. Opened = <<>>
  BY <1>3, SequenceEmpty, OpenedIs DEF Opened
<1>11. Goal = Nowhere
  BY <1>3 DEF Goal, GoalOf
<1>12. QED
  BY <1>2, <1>7, <1>8, <1>9, <1>10, <1>11, TableInit DEF PathInv

LEMMA PathsNext ==
  ASSUME PathInv, PathNext
  PROVE  PathInv' /\ [Table!Next]_(Table!pathVars)
<1>1. Next /\ pathOf' = Named(pathOf, arena') /\ TreeInv
  BY PathParts DEF PathNext
<1>2. TreeInv'
  BY <1>1, NextTree
<1>3. Names(pathOf', arena') /\ [Table!Next]_(Table!pathVars)
  <2>1. CASE DriveDocument
    BY <1>1, <1>2, <2>1, DriveDocumentTable DEF Table!Next
  <2>2. CASE FinishDocument
    BY <1>1, <1>2, <2>2, FinishDocumentTable
  <2>3. CASE \E kind \in Kind : DriveScalar(kind)
    BY <1>1, <1>2, <2>3, DriveScalarTable DEF Table!Next
  <2>4. CASE OpenArray
    BY <1>1, <1>2, <2>4, OpenArrayTable DEF Table!Next
  <2>5. CASE CloseArray
    BY <1>1, <1>2, <2>5, CloseArrayTable DEF Table!Next
  <2>6. CASE OpenObject
    BY <1>1, <1>2, <2>6, OpenObjectTable DEF Table!Next
  <2>7. CASE \E key \in Key : DriveKey(key)
    BY <1>1, <1>2, <2>7, DriveKeyTable DEF Table!Next
  <2>8. CASE CloseObject
    BY <1>1, <1>2, <2>8, CloseObjectTable DEF Table!Next
  <2>9. QED
    BY <1>1, <2>1, <2>2, <2>3, <2>4, <2>5, <2>6, <2>7, <2>8 DEF Next
<1>4. QED
  BY <1>2, <1>3 DEF PathInv

LEMMA PathsStutter ==
  ASSUME PathInv, UNCHANGED <<vars, pathOf>>
  PROVE  PathInv' /\ [Table!Next]_(Table!pathVars)
<1>1. TreeInv /\ Names(pathOf, arena)
  BY PathParts
<1>2. UNCHANGED <<arena, stack, pending, pathOf>> /\ UNCHANGED vars
  BY DEF vars, analyzerVars
<1>3. TreeInv'
  BY <1>1, <1>2, NextTree
<1>4. Names(pathOf', arena')
  BY <1>1, <1>2
<1>5. Counted' = Counted /\ Spills' = Spills /\ Opened' = Opened /\ Goal' = Goal
  BY <1>2 DEF Counted, Spills, Opened, Goal, CountOf, SpilledOf, OpenOf, GoalOf
<1>6. QED
  BY <1>3, <1>4, <1>5, TableStays DEF PathInv

\* The arena implements the table of paths: every event, seen through the paths
\* of the nodes, is the event of the table, with its choice of the path that the
\* value is counted at.
THEOREM ArenaImplementsTable == PathSpec => ImplementsTable
<1>1. PathInit => PathInv /\ Table!Init
  BY PathsStart
<1>2. PathInv /\ [PathNext]_<<vars, pathOf>> => PathInv' /\ [Table!Next]_(Table!pathVars)
  BY PathsNext, PathsStutter
<1>3. QED
  BY <1>1, <1>2, PTL DEF PathSpec, ImplementsTable, Table!Spec
=============================================================================
