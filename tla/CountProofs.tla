---------------------------- MODULE CountProofs ----------------------------
(***************************************************************************)
(* What the analyzer counts adds up, for any keys, kinds, caps and bounds, *)
(* after any number of events.                                             *)
(*                                                                         *)
(* An event is taken apart into entries, each of which keeps the books:    *)
(* a value is given a node, the node observes it, the observation is       *)
(* entered under its kind, a container is opened or closed, a signature    *)
(* goes to the container below.  Between two entries of one event the      *)
(* books name what is still owed.                                          *)
(***************************************************************************)
EXTENDS IngestProofs, SumProofs

One(b) == IF b THEN 1 ELSE 0

-----------------------------------------------------------------------------
(* What a stack of frames has open at node t.                              *)
FramesAt(st, t, kind) == {i \in DOMAIN st : st[i].node = t /\ st[i].kind = kind}
Opens(st, t, kind) == Cardinality(FramesAt(st, t, kind))
ItemsAt(st, t) == SumOver([i \in DOMAIN st |-> st[i].position], FramesAt(st, t, "array"))
PositionsAt(st, t) == {st[i].position : i \in FramesAt(st, t, "array")}
ReachAt(st, t, n) == Cardinality({i \in FramesAt(st, t, "array") : st[i].position >= n})

\* The keys a frame has passed.
KeysIn(f) == Cardinality(f.children) + One(f.pendingKey # None)
KeysAt(st, t) == SumOver([i \in DOMAIN st |-> KeysIn(st[i])], FramesAt(st, t, "object"))

\* The last frame is an array's, at t.
TopAt(st, t) == One(InArray(st) /\ Top(st).node = t)

-----------------------------------------------------------------------------
(* The books.                                                              *)
IsHistogram(hist) ==
  /\ IsFiniteSet(DOMAIN hist) /\ DOMAIN hist \subseteq Nat
  /\ \A n \in DOMAIN hist : hist[n] \in Nat

\* The counters of a node are numbers, and an accumulator that does not exist
\* has counted nothing.
Solid(v) ==
  /\ v.obs \in Nat
  /\ DOMAIN v.scalars = Kind /\ \A kind \in Kind : v.scalars[kind] \in Nat
  /\ v.object.obs \in Nat /\ v.object.keyCountSum \in Nat /\ IsHistogram(v.object.keyCounts)
  /\ v.array.obs \in Nat /\ v.array.lengthSum \in Nat /\ IsHistogram(v.array.lengths)
  /\ IsTable(v.array.cluster)
  /\ ~HasObject(v) => v.object = NewObject(None)
  /\ ~HasArray(v) => v.array = NewArray(None)

\* Every observation was a scalar, an object or an array, but for one.
ByKind(v, owed) == v.obs = Mass(v.scalars) + v.object.obs + v.array.obs + One(owed)

ObjectSizes(v, st, t) ==
  /\ v.object.obs = Mass(v.object.keyCounts) + Opens(st, t, "object")
  /\ v.object.keyCountSum = Weighted(v.object.keyCounts) + KeysAt(st, t)

ArraySizes(v, st, t) ==
  /\ v.array.obs = Mass(v.array.lengths) + Opens(st, t, "array")
  /\ v.array.lengthSum = Weighted(v.array.lengths)

\* The cluster sketch has counted every item but one for each open array; the
\* last array owes none unless an item of it is under way.
Clustered(v, st, t, begun) ==
  Mass(v.array.cluster.counters) + Opens(st, t, "array") =
    v.array.lengthSum + ItemsAt(st, t) + IF begun THEN 0 ELSE TopAt(st, t)

\* What node k has observed and is to observe, when c is the node that waits.
Seen(ar, c, k) == ar[k].obs + One(c = k)
SeenIn(ar, c, S) == SumOver([k \in DOMAIN ar |-> Seen(ar, c, k)], S)

FieldKids(v) == {v.object.fields[k] : k \in DOMAIN v.object.fields} \cup {v.object.mapValue}
ItemKids(v) == {v.array.positional[i] : i \in DOMAIN v.array.positional} \cup {v.array.bagValue}

\* The keys and items of a node are the observations of its children.
KidsObserve(ar, st, c, t) ==
  /\ HasObject(ar[t]) => ar[t].object.keyCountSum = SeenIn(ar, c, FieldKids(ar[t]))
  /\ HasArray(ar[t]) => ar[t].array.lengthSum + ItemsAt(st, t) = SeenIn(ar, c, ItemKids(ar[t]))

LongEnough(hist, n) == SumOver(hist, {m \in DOMAIN hist : m >= n})

\* While the positional view of t is alive, a position was seen once for every
\* array that is long enough, and the longest array reaches the last one.
Positions(ar, st, c, t) ==
  LET arr == ar[t].array
      reached == DOMAIN arr.lengths \cup PositionsAt(st, t)
  IN HasArray(ar[t]) /\ arr.positionalAlive =>
       /\ Len(arr.positional) \in reached
       /\ \A n \in reached : n <= Len(arr.positional)
       /\ \A n \in DOMAIN arr.positional :
            Seen(ar, c, arr.positional[n]) = LongEnough(arr.lengths, n) + ReachAt(st, t, n)

\* The books of one node and those of a node and its children.
Inner(v, st, t, owed, begun) ==
  /\ Solid(v)
  /\ ByKind(v, owed)
  /\ ObjectSizes(v, st, t)
  /\ ArraySizes(v, st, t)
  /\ Clustered(v, st, t, begun)

\* c is the node that has yet to observe a value, s the one that has yet to
\* enter it under its kind, and begun whether the last array's item is begun.
BooksAt(ar, st, c, s, begun, t) ==
  /\ Inner(ar[t], st, t, s = t, begun)
  /\ KidsObserve(ar, st, c, t)
  /\ Positions(ar, st, c, t)

Books(ar, st, c, s, begun) == \A t \in DOMAIN ar : BooksAt(ar, st, c, s, begun, t)

EvictionsIn(ar) == SumOver([t \in DOMAIN ar |-> ar[t].array.cluster.evictions], DOMAIN ar)

\* The keys of an open object come in order, so that no two signatures that the
\* frame has collected are for one key.
InOrder(f, last) ==
  f.kind = "object" =>
    /\ last \in Nat /\ IsFiniteSet(f.children)
    /\ \A x \in f.children : x[1] \in Nat /\ x[1] <= last
    /\ f.pendingKey # None => f.pendingKey = last /\ \A x \in f.children : x[1] < last

Ordered(st, cs) == \A i \in DOMAIN st : InOrder(st[i], cs[i + 1].lastKey)

\* The value that waits is a document or belongs to a key.
NoItemWaits ==
  pending # None => \A t \in DOMAIN arena : HasArray(arena[t]) => pending \notin ItemKids(arena[t])

CountInv ==
  /\ FullInv
  /\ Books(arena, stack, pending, None, FALSE)
  /\ docCount = Seen(arena, pending, Root)
  /\ evictions = EvictionsIn(arena)
  /\ Ordered(stack, calls)
  /\ NoItemWaits

-----------------------------------------------------------------------------
(* The stack, one frame at a time.                                         *)
Tidy(st) ==
  /\ Sequence(st)
  /\ \A i \in DOMAIN st :
       st[i].position \in Nat /\ (st[i].kind = "object" => IsFiniteSet(st[i].children))

LEMMA OneType == \A b : One(b) \in Nat
BY DEF One

\* A stack is its last frame on the others, whatever becomes of that frame.
LEMMA Split ==
  ASSUME NEW st, Sequence(st), st # <<>>
  PROVE  /\ Sequence(Pop(st)) /\ Len(Pop(st)) = Len(st) - 1 /\ Len(st) >= 1
         /\ DOMAIN Pop(st) = 1 .. Len(st) - 1
         /\ \A i \in DOMAIN Pop(st) : i \in DOMAIN st /\ Pop(st)[i] = st[i]
         /\ st = Append(Pop(st), Top(st))
         /\ \A b : b = [i \in DOMAIN st |-> IF i = Len(st) THEN b[Len(st)] ELSE st[i]] =>
                     b = Append(Pop(st), b[Len(st)])
<1> DEFINE d == Len(st)
           p == Pop(st)
<1>1. d \in Nat /\ DOMAIN st = 1 .. d
  BY SequenceLen
<1>2. d >= 1 /\ Sequence(p) /\ Len(p) = d - 1 /\ \A i \in 1 .. d - 1 : p[i] = st[i]
  BY SequencePop
<1> HIDE DEF d, p
<1>3. DOMAIN p = 1 .. d - 1
  BY <1>2, SequenceLen
<1>4. ASSUME NEW b, b = [i \in DOMAIN st |-> IF i = d THEN b[d] ELSE st[i]]
      PROVE  b = Append(p, b[d])
  <2>1. b = [i \in DOMAIN st |-> b[i]]
    BY <1>4
  <2>2. Sequence(b) /\ Len(b) = d
    BY <2>1, SequenceSame DEF d
  <2>3. /\ Sequence(Append(p, b[d])) /\ Len(Append(p, b[d])) = d - 1 + 1
        /\ \A i \in 1 .. d - 1 : Append(p, b[d])[i] = p[i]
        /\ Append(p, b[d])[d - 1 + 1] = b[d]
    BY <1>2, SequenceAppend
  <2>4. d - 1 + 1 = d /\ \A i \in 1 .. d : i \in 1 .. d - 1 \/ i = d
    BY <1>1, <1>2
  <2>5. ASSUME NEW i \in 1 .. d
        PROVE  b[i] = Append(p, b[d])[i]
    <3>1. CASE i = d
      BY <2>3, <2>4, <3>1
    <3>2. CASE i \in 1 .. d - 1
      <4>1. i # d /\ i \in DOMAIN st
        BY <1>1, <3>2
      <4>2. b[i] = st[i]
        BY <1>4, <4>1
      <4>3. QED
        BY <1>2, <2>3, <3>2, <4>2
    <3>3. QED
      BY <2>4, <3>1, <3>2
  <2>6. QED
    BY <2>2, <2>3, <2>4, <2>5, SequenceEqual
<1>5. st = Append(p, st[d])
  <2>1. st = [i \in DOMAIN st |-> st[i]]
    <3>1. PICK S : st \in Seq(S)
      BY DEF Sequence
    <3>2. st \in [1 .. Len(st) -> S]
      BY <3>1, LenProperties
    <3>3. QED
      BY <3>2
  <2>2. st = [i \in DOMAIN st |-> IF i = d THEN st[d] ELSE st[i]]
    BY <2>1
  <2>3. QED
    BY <1>4, <2>2
<1>6. \A i \in DOMAIN p : i \in DOMAIN st /\ p[i] = st[i]
  BY <1>1, <1>2, <1>3
<1>7. QED
  BY <1>2, <1>3, <1>4, <1>5, <1>6 DEF d, p, Top

LEMMA PushedFrames ==
  ASSUME NEW st, Tidy(st), NEW f
  PROVE  /\ Len(st) + 1 \notin DOMAIN st /\ Len(Append(st, f)) = Len(st) + 1
         /\ DOMAIN Append(st, f) = DOMAIN st \cup {Len(st) + 1}
         /\ Append(st, f)[Len(st) + 1] = f
         /\ \A i \in DOMAIN st : Append(st, f)[i] = st[i]
         /\ \A t, kind :
              /\ IsFiniteSet(FramesAt(st, t, kind))
              /\ f.node = t /\ f.kind = kind =>
                   FramesAt(Append(st, f), t, kind) = FramesAt(st, t, kind) \cup {Len(st) + 1}
              /\ ~(f.node = t /\ f.kind = kind) =>
                   FramesAt(Append(st, f), t, kind) = FramesAt(st, t, kind)
<1> DEFINE b == Append(st, f)
           d == Len(st) + 1
<1>1. Sequence(st) /\ Len(st) \in Nat /\ DOMAIN st = 1 .. Len(st)
  BY SequenceLen DEF Tidy
<1>2. Sequence(b) /\ Len(b) = d /\ b[d] = f /\ \A i \in 1 .. Len(st) : b[i] = st[i]
  BY <1>1, SequenceAppend
<1>3. d \notin DOMAIN st /\ DOMAIN b = DOMAIN st \cup {d}
  <2> HIDE DEF b
  <2>1. DOMAIN b = 1 .. d
    BY <1>2, SequenceLen
  <2>2. QED
    BY <1>1, <2>1
<1> HIDE DEF b, d
<1>4. \A t, kind : IsFiniteSet(FramesAt(st, t, kind))
  <2>1. IsFiniteSet(1 .. Len(st))
    BY <1>1, FS_Interval
  <2>2. \A t, kind : FramesAt(st, t, kind) \subseteq 1 .. Len(st)
    BY <1>1 DEF FramesAt
  <2>3. QED
    BY <2>1, <2>2, FS_Subset
<1>5. \A i \in DOMAIN st : b[i] = st[i]
  BY <1>1, <1>2
<1>6. \A t, kind :
        /\ f.node = t /\ f.kind = kind => FramesAt(b, t, kind) = FramesAt(st, t, kind) \cup {d}
        /\ ~(f.node = t /\ f.kind = kind) => FramesAt(b, t, kind) = FramesAt(st, t, kind)
  BY <1>2, <1>3, <1>5 DEF FramesAt
<1>7. QED
  BY <1>2, <1>3, <1>4, <1>5, <1>6 DEF b, d

LEMMA PushedReach ==
  ASSUME NEW st, Tidy(st), NEW f, NEW t, NEW n
  PROVE  /\ ReachAt(st, t, n) \in Nat
         /\ ReachAt(Append(st, f), t, n) =
              ReachAt(st, t, n) + One(f.node = t /\ f.kind = "array" /\ f.position >= n)
<1> DEFINE b == Append(st, f)
           d == Len(st) + 1
           F == FramesAt(st, t, "array")
           R == {i \in F : st[i].position >= n}
           Q == {i \in FramesAt(b, t, "array") : b[i].position >= n}
           here == f.node = t /\ f.kind = "array"
<1>1. /\ d \notin DOMAIN st /\ b[d] = f /\ \A i \in DOMAIN st : b[i] = st[i]
      /\ here => FramesAt(b, t, "array") = F \cup {d}
      /\ ~here => FramesAt(b, t, "array") = F
      /\ IsFiniteSet(F)
  BY PushedFrames
<1>2. F \subseteq DOMAIN st
  BY DEF FramesAt
<1> HIDE DEF b, d, F
<1>3. IsFiniteSet(R) /\ Cardinality(R) \in Nat /\ d \notin R
  BY <1>1, <1>2, FS_Subset, FS_CardinalityType
<1>4. CASE here /\ f.position >= n
  <2>1. Q = R \cup {d}
    BY <1>1, <1>2, <1>4
  <2>2. Cardinality(R \cup {d}) = Cardinality(R) + 1
    BY <1>3, FS_AddElement
  <2>3. ReachAt(st, t, n) = Cardinality(R) /\ ReachAt(b, t, n) = Cardinality(Q)
    BY DEF ReachAt, F
  <2>4. QED
    BY <1>3, <1>4, <2>1, <2>2, <2>3 DEF One, b
<1>5. CASE ~(here /\ f.position >= n)
  <2>1. Q = R
    BY <1>1, <1>2, <1>5
  <2>2. ReachAt(st, t, n) = Cardinality(R) /\ ReachAt(b, t, n) = Cardinality(Q)
    BY DEF ReachAt, F
  <2>3. One(f.node = t /\ f.kind = "array" /\ f.position >= n) = 0
    BY <1>5 DEF One
  <2> HIDE DEF Q, R
  <2>4. QED
    BY <1>3, <2>1, <2>2, <2>3 DEF b
<1>6. QED
  BY <1>4, <1>5

\* One frame more.
LEMMA Pushed ==
  ASSUME NEW st, Tidy(st), NEW f, f.position \in Nat,
         f.kind = "object" => IsFiniteSet(f.children)
  PROVE  /\ Tidy(Append(st, f))
         /\ \A t : /\ ItemsAt(st, t) \in Nat /\ KeysAt(st, t) \in Nat
                   /\ ItemsAt(Append(st, f), t) =
                        ItemsAt(st, t) + IF f.node = t /\ f.kind = "array" THEN f.position ELSE 0
                   /\ KeysAt(Append(st, f), t) =
                        KeysAt(st, t) + IF f.node = t /\ f.kind = "object" THEN KeysIn(f) ELSE 0
         /\ \A t, kind : /\ Opens(st, t, kind) \in Nat
                         /\ Opens(Append(st, f), t, kind) =
                              Opens(st, t, kind) + One(f.node = t /\ f.kind = kind)
         /\ \A t : PositionsAt(Append(st, f), t) =
                    PositionsAt(st, t) \cup IF f.node = t /\ f.kind = "array" THEN {f.position} ELSE {}
         /\ \A t : TopAt(Append(st, f), t) = One(f.node = t /\ f.kind = "array")
<1> DEFINE b == Append(st, f)
           d == Len(st) + 1
           F(t, kind) == FramesAt(st, t, kind)
           G(t, kind) == FramesAt(b, t, kind)
           p == [i \in DOMAIN st |-> st[i].position]
           q == [i \in DOMAIN b |-> b[i].position]
           k == [i \in DOMAIN st |-> KeysIn(st[i])]
           l == [i \in DOMAIN b |-> KeysIn(b[i])]
<1>0. /\ Sequence(b) /\ Len(b) = d /\ d # 0 /\ b # <<>>
  <2>1. Len(st) \in Nat /\ Sequence(b) /\ Len(b) = d
    BY SequenceLen, SequenceAppend DEF Tidy
  <2>2. d # 0
    BY <2>1
  <2>3. QED
    BY <2>1, <2>2, SequenceEmpty
<1>1. /\ d \notin DOMAIN st /\ DOMAIN b = DOMAIN st \cup {d} /\ b[d] = f
      /\ \A i \in DOMAIN st : b[i] = st[i]
  BY PushedFrames
<1>2. \A t, kind : /\ f.node = t /\ f.kind = kind => G(t, kind) = F(t, kind) \cup {d}
                   /\ ~(f.node = t /\ f.kind = kind) => G(t, kind) = F(t, kind)
                   /\ IsFiniteSet(F(t, kind))
  <2> TAKE t, kind
  <2>1. f.node = t /\ f.kind = kind => G(t, kind) = F(t, kind) \cup {d}
    BY PushedFrames
  <2>2. ~(f.node = t /\ f.kind = kind) => G(t, kind) = F(t, kind)
    BY PushedFrames
  <2>3. IsFiniteSet(F(t, kind))
    BY PushedFrames
  <2>4. QED
    BY <2>1, <2>2, <2>3
<1>3. \A t, kind : F(t, kind) \subseteq DOMAIN st /\ \A i \in F(t, kind) : st[i].kind = kind
  BY DEF FramesAt
<1> HIDE DEF b, d, F, G
<1>4. \A t, kind : /\ Opens(st, t, kind) \in Nat
                   /\ Opens(b, t, kind) = Opens(st, t, kind) + One(f.node = t /\ f.kind = kind)
  <2> SUFFICES ASSUME NEW t, NEW kind
               PROVE  /\ Cardinality(F(t, kind)) \in Nat
                      /\ Cardinality(G(t, kind)) =
                           Cardinality(F(t, kind)) + One(f.node = t /\ f.kind = kind)
    BY DEF Opens, F, G
  <2>1. IsFiniteSet(F(t, kind)) /\ Cardinality(F(t, kind)) \in Nat /\ d \notin F(t, kind)
    BY <1>1, <1>2, <1>3, FS_CardinalityType
  <2>2. Cardinality(F(t, kind) \cup {d}) = Cardinality(F(t, kind)) + 1
    BY <2>1, FS_AddElement
  <2>3. QED
    BY <1>2, <2>1, <2>2 DEF One
<1>5. \A t, kind : IsFiniteSet(F(t, kind)) /\ d \notin F(t, kind)
  BY <1>1, <1>2, <1>3
<1>6. \A t : /\ ItemsAt(st, t) \in Nat
             /\ ItemsAt(b, t) = ItemsAt(st, t) + IF f.node = t /\ f.kind = "array" THEN f.position ELSE 0
  <2> SUFFICES ASSUME NEW t
               PROVE  /\ SumOver(p, F(t, "array")) \in Nat
                      /\ SumOver(q, G(t, "array")) = SumOver(p, F(t, "array"))
                           + IF f.node = t /\ f.kind = "array" THEN f.position ELSE 0
    BY DEF ItemsAt, F, G
  <2> DEFINE S == F(t, "array")
  <2>1. /\ \A i \in S : p[i] \in Nat /\ q[i] = p[i]
        /\ q[d] = f.position
    BY <1>1, <1>3 DEF Tidy
  <2>2. IsFiniteSet(S) /\ d \notin S
    BY <1>5
  <2> HIDE DEF p, q, S
  <2>3. SumOver(p, S) \in Nat /\ SumOver(q, S) = SumOver(p, S)
    BY <2>1, <2>2, SumType, SumSame
  <2>4. SumOver(q, S \cup {d}) = SumOver(q, S) + q[d]
    BY <2>1, <2>2, SumAdd
  <2>5. CASE f.node = t /\ f.kind = "array"
    <3>1. G(t, "array") = S \cup {d}
      BY <1>2, <2>5 DEF S
    <3>2. QED
      BY <2>1, <2>3, <2>4, <2>5, <3>1 DEF S
  <2>6. CASE ~(f.node = t /\ f.kind = "array")
    <3>1. G(t, "array") = S
      BY <1>2, <2>6 DEF S
    <3>2. QED
      BY <2>3, <2>6, <3>1 DEF S
  <2>7. QED
    BY <2>5, <2>6
<1>7. \A t : /\ KeysAt(st, t) \in Nat
             /\ KeysAt(b, t) = KeysAt(st, t) + IF f.node = t /\ f.kind = "object" THEN KeysIn(f) ELSE 0
  <2> SUFFICES ASSUME NEW t
               PROVE  /\ SumOver(k, F(t, "object")) \in Nat
                      /\ SumOver(l, G(t, "object")) = SumOver(k, F(t, "object"))
                           + IF f.node = t /\ f.kind = "object" THEN KeysIn(f) ELSE 0
    BY DEF KeysAt, F, G
  <2> DEFINE S == F(t, "object")
  <2>0. \A g : IsFiniteSet(g.children) => KeysIn(g) \in Nat
    BY FS_CardinalityType DEF KeysIn, One
  <2>1. /\ \A i \in S : k[i] \in Nat /\ l[i] = k[i]
        /\ l[d] = KeysIn(f) /\ (f.kind = "object" => l[d] \in Nat)
    BY <1>1, <1>3, <2>0 DEF Tidy
  <2>2. IsFiniteSet(S) /\ d \notin S
    BY <1>5
  <2> HIDE DEF k, l, S
  <2>3. SumOver(k, S) \in Nat /\ SumOver(l, S) = SumOver(k, S)
    BY <2>1, <2>2, SumType, SumSame
  <2>4. f.kind = "object" => SumOver(l, S \cup {d}) = SumOver(l, S) + l[d]
    BY <2>1, <2>2, SumAdd
  <2>5. CASE f.node = t /\ f.kind = "object"
    <3>1. G(t, "object") = S \cup {d}
      BY <1>2, <2>5 DEF S
    <3>2. QED
      BY <2>1, <2>3, <2>4, <2>5, <3>1 DEF S
  <2>6. CASE ~(f.node = t /\ f.kind = "object")
    <3>1. G(t, "object") = S
      BY <1>2, <2>6 DEF S
    <3>2. QED
      BY <2>3, <2>6, <3>1 DEF S
  <2>7. QED
    BY <2>5, <2>6
<1>8. Tidy(b)
  BY <1>0, <1>1 DEF Tidy
<1>9. \A t : TopAt(b, t) = One(f.node = t /\ f.kind = "array")
  BY <1>0, <1>1 DEF TopAt, InArray, Top, One
<1>10. \A t : PositionsAt(b, t) =
               PositionsAt(st, t) \cup IF f.node = t /\ f.kind = "array" THEN {f.position} ELSE {}
  <2> SUFFICES ASSUME NEW t
               PROVE  {b[i].position : i \in G(t, "array")} = {st[i].position : i \in F(t, "array")}
                        \cup IF f.node = t /\ f.kind = "array" THEN {f.position} ELSE {}
    BY DEF PositionsAt, F, G
  <2>1. \A i \in F(t, "array") : b[i].position = st[i].position
    BY <1>1, <1>3
  <2>2. CASE f.node = t /\ f.kind = "array"
    <3>1. G(t, "array") = F(t, "array") \cup {d}
      BY <1>2, <2>2
    <3>2. QED
      BY <1>1, <2>1, <2>2, <3>1
  <2>3. CASE ~(f.node = t /\ f.kind = "array")
    <3>1. G(t, "array") = F(t, "array")
      BY <1>2, <2>3
    <3>2. QED
      BY <2>1, <2>3, <3>1
  <2>4. QED
    BY <2>2, <2>3
<1>11. QED
  BY <1>4, <1>6, <1>7, <1>8, <1>9, <1>10 DEF b

-----------------------------------------------------------------------------
(* Histograms.                                                             *)
LEMMA TickOver ==
  ASSUME NEW hist, IsHistogram(hist), NEW n \in Nat, NEW S \in SUBSET DOMAIN hist
  PROVE  /\ SumOver(hist, S) \in Nat
         /\ n \in S => SumOver(Tick(hist, n), S) = SumOver(hist, S) + 1
         /\ n \notin S => SumOver(Tick(hist, n), S) = SumOver(hist, S)
         /\ n \notin DOMAIN hist => SumOver(Tick(hist, n), S \cup {n}) = SumOver(hist, S) + 1
<1> DEFINE g == Tick(hist, n)
<1>1. /\ IsFiniteSet(S) /\ \A m \in S : hist[m] \in Nat /\ g[m] \in Nat
      /\ \A m \in S : m # n => g[m] = hist[m]
      /\ n \in S => g[n] = hist[n] + 1
      /\ n \notin DOMAIN hist => g[n] = 1
  BY FS_Subset DEF IsHistogram, Tick
<1> HIDE DEF g
<1>2. SumOver(hist, S) \in Nat /\ SumOver(g, S) \in Nat
  BY <1>1, SumType
<1>3. ASSUME n \in S
      PROVE  SumOver(g, S) = SumOver(hist, S) + 1
  <2>1. SumOver(g, S) + hist[n] = SumOver(hist, S) + g[n]
    BY <1>1, <1>3, SumChange
  <2>2. QED
    BY <1>1, <1>2, <1>3, <2>1
<1>4. ASSUME n \notin S
      PROVE  SumOver(g, S) = SumOver(hist, S)
  BY <1>1, <1>4, SumSame
<1>5. ASSUME n \notin DOMAIN hist
      PROVE  SumOver(g, S \cup {n}) = SumOver(hist, S) + 1
  <2>1. n \notin S
    BY <1>5
  <2>2. SumOver(g, S \cup {n}) = SumOver(g, S) + g[n]
    BY <1>1, <1>5, <2>1, SumAdd
  <2>3. QED
    BY <1>1, <1>4, <1>5, <2>1, <2>2
<1>6. QED
  BY <1>2, <1>3, <1>4, <1>5 DEF g

\* One more container of size n.
LEMMA Ticked ==
  ASSUME NEW hist, IsHistogram(hist), NEW n \in Nat
  PROVE  /\ IsHistogram(Tick(hist, n)) /\ DOMAIN Tick(hist, n) = DOMAIN hist \cup {n}
         /\ Mass(hist) \in Nat /\ Mass(Tick(hist, n)) = Mass(hist) + 1
         /\ Weighted(hist) \in Nat /\ Weighted(Tick(hist, n)) = Weighted(hist) + n
         /\ \A m : /\ LongEnough(hist, m) \in Nat
                   /\ LongEnough(Tick(hist, n), m) = LongEnough(hist, m) + One(n >= m)
<1> DEFINE g == Tick(hist, n)
<1>1. /\ IsFiniteSet(DOMAIN hist) /\ DOMAIN hist \subseteq Nat /\ DOMAIN g = DOMAIN hist \cup {n}
      /\ \A m \in DOMAIN hist : hist[m] \in Nat
      /\ \A m \in DOMAIN g : g[m] \in Nat
      /\ \A m \in DOMAIN hist : m # n => g[m] = hist[m]
      /\ n \in DOMAIN hist => g[n] = hist[n] + 1
      /\ n \notin DOMAIN hist => g[n] = 1
  BY DEF IsHistogram, Tick
<1>2. IsHistogram(g)
  <2>1. IsFiniteSet(DOMAIN hist \cup {n})
    BY <1>1, FS_AddElement
  <2> HIDE DEF g
  <2>2. QED
    BY <1>1, <2>1 DEF IsHistogram
<1>3. Mass(hist) \in Nat /\ Mass(g) = Mass(hist) + 1
  <2>1. CASE n \in DOMAIN hist
    <3>1. DOMAIN g = DOMAIN hist
      BY <1>1, <2>1
    <3>2. QED
      BY <2>1, <3>1, TickOver DEF Mass
  <2>2. CASE n \notin DOMAIN hist
    BY <1>1, <2>2, TickOver DEF Mass
  <2>3. QED
    BY <2>1, <2>2
<1>4. ASSUME NEW m
      PROVE  LongEnough(hist, m) \in Nat /\ LongEnough(g, m) = LongEnough(hist, m) + One(n >= m)
  <2> DEFINE S == {k \in DOMAIN hist : k >= m}
             R == {k \in DOMAIN g : k >= m}
  <2>0. LongEnough(hist, m) = SumOver(hist, S) /\ LongEnough(g, m) = SumOver(g, R) /\ S \in SUBSET DOMAIN hist
    BY DEF LongEnough
  <2>1. CASE ~(n >= m)
    <3>1. R = S /\ n \notin S
      BY <1>1, <2>1
    <3>2. One(n >= m) = 0
      BY <2>1 DEF One
    <3> HIDE DEF S, R
    <3>3. SumOver(hist, S) \in Nat /\ SumOver(g, S) = SumOver(hist, S)
      BY <2>0, <3>1, TickOver
    <3>4. QED
      BY <2>0, <3>1, <3>2, <3>3
  <2>2. CASE n >= m /\ n \in DOMAIN hist
    <3>1. R = S /\ n \in S
      BY <1>1, <2>2
    <3>2. One(n >= m) = 1
      BY <2>2 DEF One
    <3> HIDE DEF S, R
    <3>3. SumOver(hist, S) \in Nat /\ SumOver(g, S) = SumOver(hist, S) + 1
      BY <2>0, <3>1, TickOver
    <3>4. QED
      BY <2>0, <3>1, <3>2, <3>3
  <2>3. CASE n >= m /\ n \notin DOMAIN hist
    <3>1. R = S \cup {n}
      BY <1>1, <2>3
    <3>2. One(n >= m) = 1
      BY <2>3 DEF One
    <3> HIDE DEF S, R
    <3>3. SumOver(hist, S) \in Nat /\ SumOver(g, S \cup {n}) = SumOver(hist, S) + 1
      BY <2>0, <2>3, TickOver
    <3>4. QED
      BY <2>0, <3>1, <3>2, <3>3
  <2>4. QED
    BY <2>1, <2>2, <2>3
<1>5. Weighted(hist) \in Nat /\ Weighted(g) = Weighted(hist) + n
  <2> DEFINE v == [m \in DOMAIN hist |-> m * hist[m]]
             w == [m \in DOMAIN g |-> m * g[m]]
             D == DOMAIN hist
  <2> HIDE DEF g
  <2>0. \A i, j \in Nat : i * j \in Nat
    OBVIOUS
  <2>1. /\ \A m \in D : m \in DOMAIN g /\ v[m] \in Nat /\ w[m] \in Nat
        /\ \A m \in D : m # n => w[m] = v[m]
        /\ w[n] \in Nat
    BY <1>1, <2>0
  <2>2. n \in D => w[n] = v[n] + n
    <3>1. n \in D => v[n] = n * hist[n] /\ w[n] = n * (hist[n] + 1) /\ hist[n] \in Nat
      BY <1>1
    <3>2. \A i, j \in Nat : i * (j + 1) = i * j + i
      OBVIOUS
    <3> HIDE DEF v, w
    <3>3. QED
      BY <3>1, <3>2
  <2>3. n \notin D => w[n] = n
    <3>1. n \notin D => w[n] = n * 1
      BY <1>1
    <3>2. QED
      BY <3>1
  <2>4. Weighted(hist) = SumOver(v, D) /\ Weighted(g) = SumOver(w, DOMAIN g)
    BY DEF Weighted
  <2>5. IsFiniteSet(D)
    BY <1>1
  <2> HIDE DEF v, w, D
  <2>6. SumOver(v, D) \in Nat /\ SumOver(w, D) \in Nat
    BY <2>1, <2>5, SumType
  <2>7. CASE n \in D
    <3> DEFINE a == n
    <3> HIDE DEF a
    <3>0. /\ a \in D /\ (\A m \in D : v[m] \in Nat /\ w[m] \in Nat)
          /\ \A m \in D : m # a => w[m] = v[m]
      BY <2>1, <2>7 DEF a
    <3>4. SumOver(w, D) + v[a] = SumOver(v, D) + w[a]
      BY <2>5, <3>0, SumChange
    <3>5. w[a] = v[a] + n /\ v[a] \in Nat
      BY <2>1, <2>2, <2>7 DEF a
    <3>1. SumOver(w, D) = SumOver(v, D) + n
      BY <2>6, <3>4, <3>5
    <3>2. DOMAIN g = D
      BY <1>1, <2>7 DEF D
    <3>3. QED
      BY <2>4, <2>6, <3>1, <3>2
  <2>8. CASE n \notin D
    <3>1. SumOver(w, D) = SumOver(v, D)
      BY <2>1, <2>5, <2>8, SumSame
    <3>2. SumOver(w, D \cup {n}) = SumOver(w, D) + w[n]
      BY <2>1, <2>5, <2>8, SumAdd
    <3>3. DOMAIN g = D \cup {n}
      BY <1>1 DEF D
    <3>4. QED
      BY <2>3, <2>4, <2>6, <2>8, <3>1, <3>2, <3>3
  <2>9. QED
    BY <2>7, <2>8
<1>6. QED
  BY <1>1, <1>2, <1>3, <1>4, <1>5 DEF g

\* g is hist with one more container of size n.
OneMore(hist, n, g) ==
  /\ IsHistogram(g) /\ DOMAIN g = DOMAIN hist \cup {n}
  /\ Mass(hist) \in Nat /\ Mass(g) = Mass(hist) + 1
  /\ Weighted(hist) \in Nat /\ Weighted(g) = Weighted(hist) + n
  /\ \A m : /\ LongEnough(hist, m) \in Nat
            /\ LongEnough(g, m) = LongEnough(hist, m) + One(n >= m)

LEMMA TickMore ==
  ASSUME NEW hist, IsHistogram(hist), NEW n, n \in Nat
  PROVE  OneMore(hist, n, Tick(hist, n))
BY Ticked DEF OneMore

\* Nothing has been counted.
LEMMA EmptyHistogram ==
  LET hist == [n \in {} |-> 0]
  IN /\ IsHistogram(hist) /\ DOMAIN hist = {} /\ Mass(hist) = 0 /\ Weighted(hist) = 0
     /\ \A m : LongEnough(hist, m) = 0
<1> DEFINE hist == [n \in {} |-> 0]
           v == [m \in DOMAIN hist |-> m * hist[m]]
<1>1. DOMAIN hist = {} /\ IsFiniteSet({})
  BY FS_EmptySet
<1>2. Weighted(hist) = SumOver(v, {}) /\ Mass(hist) = SumOver(hist, {})
  BY <1>1 DEF Weighted, Mass
<1>3. \A m : LongEnough(hist, m) = SumOver(hist, {})
  <2>1. \A m : {k \in DOMAIN hist : k >= m} = {}
    BY <1>1
  <2>2. QED
    BY <2>1 DEF LongEnough
<1> HIDE DEF hist, v
<1>4. IsHistogram(hist)
  BY <1>1 DEF IsHistogram
<1>5. QED
  BY <1>1, <1>2, <1>3, <1>4, SumEmpty DEF hist

-----------------------------------------------------------------------------
(* The children of a node and what they observe.                           *)
LEMMA KidsInArena ==
  ASSUME NEW ar, IsArena(ar), NEW t \in DOMAIN ar
  PROVE  /\ HasObject(ar[t]) =>
              /\ IsFiniteSet(FieldKids(ar[t])) /\ FieldKids(ar[t]) \subseteq DOMAIN ar
              /\ Root \notin FieldKids(ar[t]) /\ None \notin FieldKids(ar[t])
              /\ FreshId(ar) \notin FieldKids(ar[t])
         /\ HasArray(ar[t]) =>
              /\ IsFiniteSet(ItemKids(ar[t])) /\ ItemKids(ar[t]) \subseteq DOMAIN ar
              /\ Root \notin ItemKids(ar[t]) /\ None \notin ItemKids(ar[t])
              /\ FreshId(ar) \notin ItemKids(ar[t])
<1> DEFINE n == Len(ar)
<1>1. n \in Nat /\ DOMAIN ar = 1 .. n
  BY ArenaLen
<1>2. IsNode(ar[t], n)
  BY DEF IsArena
<1>3. /\ IsFiniteSet(Ref(n)) /\ Ref(n) \subseteq DOMAIN ar /\ Root \notin Ref(n) /\ None \notin Ref(n)
      /\ n + 1 \notin Ref(n)
  <2>1. IsFiniteSet(2 .. n)
    BY <1>1, FS_Interval
  <2>2. Ref(n) = 2 .. n
    BY DEF Ref
  <2>3. 2 .. n \subseteq 1 .. n /\ 1 \notin 2 .. n /\ n + 1 \notin 2 .. n /\ 2 .. n \subseteq Nat
    BY <1>1
  <2> HIDE DEF n
  <2>4. QED
    BY <1>1, <2>1, <2>2, <2>3, NoneAssumption DEF Root
<1> HIDE DEF n
<1>4. HasObject(ar[t]) => FieldKids(ar[t]) \subseteq Ref(n)
  BY <1>2 DEF FieldKids, HasObject, IsNode, IsObject
<1>5. HasArray(ar[t]) => ItemKids(ar[t]) \subseteq Ref(n)
  BY <1>2 DEF ItemKids, HasArray, IsNode, IsArray
<1>6. FreshId(ar) = n + 1
  BY DEF FreshId, n
<1>7. HasObject(ar[t]) => IsFiniteSet(FieldKids(ar[t]))
  BY <1>3, <1>4, FS_Subset
<1>8. HasArray(ar[t]) => IsFiniteSet(ItemKids(ar[t]))
  BY <1>3, <1>5, FS_Subset
<1>9. QED
  BY <1>3, <1>4, <1>5, <1>6, <1>7, <1>8

LEMMA KidsAreSlots ==
  ASSUME NEW v
  PROVE  /\ HasObject(v) => \A c \in FieldKids(v) : \E s \in ObjectSlots(v) : At(v, s) = c
         /\ HasArray(v) => \A c \in ItemKids(v) : \E s \in ArraySlots(v) : At(v, s) = c
         /\ \A s \in ObjectSlots(v) : At(v, s) \in FieldKids(v)
         /\ \A s \in ArraySlots(v) : At(v, s) \in ItemKids(v)
<1>1. ASSUME HasObject(v), NEW c \in FieldKids(v)
      PROVE  \E s \in ObjectSlots(v) : At(v, s) = c
  <2>1. CASE c = v.object.mapValue
    <3>1. <<"object", 0>> \in ObjectSlots(v)
      BY <1>1 DEF ObjectSlots
    <3>2. QED
      BY <1>1, <2>1, <3>1, Overflows
  <2>2. CASE c \in {v.object.fields[k] : k \in DOMAIN v.object.fields}
    <3>1. PICK k \in DOMAIN v.object.fields : c = v.object.fields[k]
      BY <2>2
    <3>2. <<"key", k>> \in ObjectSlots(v)
      BY <1>1 DEF ObjectSlots
    <3>3. At(v, <<"key", k>>) = v.object.fields[k]
      BY DEF At
    <3>4. QED
      BY <3>1, <3>2, <3>3
  <2>3. QED
    BY <1>1, <2>1, <2>2 DEF FieldKids
<1>2. ASSUME HasArray(v), NEW c \in ItemKids(v)
      PROVE  \E s \in ArraySlots(v) : At(v, s) = c
  <2>1. CASE c = v.array.bagValue
    <3>1. <<"array", 0>> \in ArraySlots(v)
      BY <1>2 DEF ArraySlots
    <3>2. QED
      BY <1>2, <2>1, <3>1, Overflows
  <2>2. CASE c \in {v.array.positional[i] : i \in DOMAIN v.array.positional}
    <3>1. PICK i \in DOMAIN v.array.positional : c = v.array.positional[i]
      BY <2>2
    <3>2. <<"item", i>> \in ArraySlots(v)
      BY <1>2 DEF ArraySlots
    <3>3. At(v, <<"item", i>>) = v.array.positional[i]
      BY DEF At
    <3>4. QED
      BY <3>1, <3>2, <3>3
  <2>3. QED
    BY <1>2, <2>1, <2>2 DEF ItemKids
<1>3. \A s \in ObjectSlots(v) : At(v, s) \in FieldKids(v)
  BY DEF ObjectSlots, At, FieldKids
<1>4. \A s \in ArraySlots(v) : At(v, s) \in ItemKids(v)
  BY DEF ArraySlots, At, ItemKids
<1>5. QED
  BY <1>1, <1>2, <1>3, <1>4

\* A node is a child of the one slot that refers to it.
LEMMA OnlyKid ==
  ASSUME NEW ar, Separate(ar), NEW t \in DOMAIN ar, NEW s \in SlotsOf(ar[t]), NEW u \in DOMAIN ar
  PROVE  /\ HasObject(ar[u]) /\ At(ar[t], s) \in FieldKids(ar[u]) => u = t /\ s \in ObjectSlots(ar[t])
         /\ HasArray(ar[u]) /\ At(ar[t], s) \in ItemKids(ar[u]) => u = t /\ s \in ArraySlots(ar[t])
<1>1. ASSUME HasObject(ar[u]), At(ar[t], s) \in FieldKids(ar[u])
      PROVE  u = t /\ s \in ObjectSlots(ar[t])
  <2>1. PICK r \in ObjectSlots(ar[u]) : At(ar[u], r) = At(ar[t], s)
    BY <1>1, KidsAreSlots
  <2>2. r \in SlotsOf(ar[u])
    BY DEF SlotsOf
  <2>3. t = u /\ s = r
    BY <2>1, <2>2, Apart
  <2>4. QED
    BY <2>3
<1>2. ASSUME HasArray(ar[u]), At(ar[t], s) \in ItemKids(ar[u])
      PROVE  u = t /\ s \in ArraySlots(ar[t])
  <2>1. PICK r \in ArraySlots(ar[u]) : At(ar[u], r) = At(ar[t], s)
    BY <1>2, KidsAreSlots
  <2>2. r \in SlotsOf(ar[u])
    BY DEF SlotsOf
  <2>3. t = u /\ s = r
    BY <2>1, <2>2, Apart
  <2>4. QED
    BY <2>3
<1>3. QED
  BY <1>1, <1>2

LEMMA SeenType == \A ar, c, k : ar[k].obs \in Nat => Seen(ar, c, k) \in Nat
BY OneType DEF Seen

LEMMA SeenInSame ==
  ASSUME NEW ar, NEW b, NEW c, NEW e, NEW S, IsFiniteSet(S), S \subseteq DOMAIN ar, S \subseteq DOMAIN b,
         \A k \in S : ar[k].obs \in Nat /\ Seen(b, e, k) = Seen(ar, c, k)
  PROVE  SeenIn(ar, c, S) \in Nat /\ SeenIn(b, e, S) = SeenIn(ar, c, S)
<1> DEFINE f == [k \in DOMAIN ar |-> Seen(ar, c, k)]
           g == [k \in DOMAIN b |-> Seen(b, e, k)]
<1>1. \A k \in S : f[k] \in Nat /\ g[k] = f[k]
  BY SeenType
<1> HIDE DEF f, g
<1>2. SumOver(f, S) \in Nat /\ SumOver(g, S) = SumOver(f, S)
  BY <1>1, SumType, SumSame
<1>3. QED
  BY <1>2 DEF SeenIn, f, g

\* A node that waits counts once in every set that has it.
LEMMA SeenInOwed ==
  ASSUME NEW ar, NEW c, NEW k, NEW S, IsFiniteSet(S), S \subseteq DOMAIN ar, c \notin S,
         \A u \in S : ar[u].obs \in Nat
  PROVE  /\ SeenIn(ar, c, S) \in Nat
         /\ k \in S => SeenIn(ar, k, S) = SeenIn(ar, c, S) + 1
         /\ k \notin S => SeenIn(ar, k, S) = SeenIn(ar, c, S)
<1> DEFINE f == [u \in DOMAIN ar |-> Seen(ar, c, u)]
           g == [u \in DOMAIN ar |-> Seen(ar, k, u)]
<1>1. /\ \A u \in S : f[u] \in Nat /\ g[u] \in Nat
      /\ \A u \in S : u # k => g[u] = f[u]
      /\ k \in S => g[k] = f[k] + 1
  BY SeenType DEF Seen, One
<1> HIDE DEF f, g
<1>2. SumOver(f, S) \in Nat /\ SumOver(g, S) \in Nat
  BY <1>1, SumType
<1>3. k \in S => SumOver(g, S) = SumOver(f, S) + 1
  <2>1. k \in S => SumOver(g, S) + f[k] = SumOver(f, S) + g[k]
    BY <1>1, SumChange
  <2>2. QED
    BY <1>1, <1>2, <2>1
<1>4. k \notin S => SumOver(g, S) = SumOver(f, S)
  BY <1>1, SumSame
<1>5. QED
  BY <1>2, <1>3, <1>4 DEF SeenIn, f, g

\* One node more.
LEMMA SeenInAdded ==
  ASSUME NEW ar, NEW c, NEW k \in DOMAIN ar, NEW S, IsFiniteSet(S), S \subseteq DOMAIN ar, k \notin S,
         \A u \in S \cup {k} : ar[u].obs \in Nat
  PROVE  SeenIn(ar, c, S \cup {k}) = SeenIn(ar, c, S) + Seen(ar, c, k)
<1> DEFINE f == [u \in DOMAIN ar |-> Seen(ar, c, u)]
<1>1. (\A u \in S \cup {k} : f[u] \in Nat) /\ f[k] = Seen(ar, c, k)
  BY SeenType
<1> HIDE DEF f
<1>2. SumOver(f, S \cup {k}) = SumOver(f, S) + f[k]
  BY <1>1, SumAdd
<1>3. QED
  BY <1>1, <1>2 DEF SeenIn, f

\* The observations of a set are those of its nodes and the one that waits.
LEMMA SeenInObs ==
  ASSUME NEW ar, NEW c, NEW S, IsFiniteSet(S), S \subseteq DOMAIN ar,
         \A u \in S : ar[u].obs \in Nat
  PROVE  SeenIn(ar, c, S) = SumOver([u \in DOMAIN ar |-> ar[u].obs], S) + One(c \in S)
<1> DEFINE f == [u \in DOMAIN ar |-> ar[u].obs]
           g == [u \in DOMAIN ar |-> Seen(ar, c, u)]
<1>1. /\ \A u \in S : f[u] \in Nat /\ g[u] \in Nat
      /\ \A u \in S : u # c => g[u] = f[u]
      /\ c \in S => g[c] = f[c] + 1
  BY SeenType DEF Seen, One
<1> HIDE DEF f, g
<1>2. SumOver(f, S) \in Nat /\ SumOver(g, S) \in Nat
  BY <1>1, SumType
<1>3. CASE c \in S
  <2>1. SumOver(g, S) + f[c] = SumOver(f, S) + g[c]
    BY <1>1, <1>3, SumChange
  <2>2. SumOver(g, S) = SumOver(f, S) + 1
    BY <1>1, <1>2, <1>3, <2>1
  <2>3. QED
    BY <1>3, <2>2 DEF SeenIn, One, f, g
<1>4. CASE c \notin S
  <2>1. SumOver(g, S) = SumOver(f, S)
    BY <1>1, <1>4, SumSame
  <2>2. One(c \in S) = 0
    BY <1>4 DEF One
  <2>3. QED
    BY <1>2, <2>1, <2>2 DEF SeenIn, f, g
<1>5. QED
  BY <1>3, <1>4

-----------------------------------------------------------------------------
(* What an entry leaves alone.                                             *)
SameOpen(st, b, t) ==
  /\ ItemsAt(b, t) = ItemsAt(st, t)
  /\ KeysAt(b, t) = KeysAt(st, t)
  /\ PositionsAt(b, t) = PositionsAt(st, t)
  /\ \A kind : Opens(b, t, kind) = Opens(st, t, kind)
  /\ \A n : ReachAt(b, t, n) = ReachAt(st, t, n)

\* The same is open, and the same item is under way.
Undisturbed(st, begun, sb, open, t) ==
  /\ SameOpen(st, sb, t)
  /\ (IF open THEN 0 ELSE TopAt(sb, t)) = (IF begun THEN 0 ELSE TopAt(st, t))

LEMMA UndisturbedSame == \A st, begun, t : Undisturbed(st, begun, st, begun, t)
BY DEF Undisturbed, SameOpen

\* A frame at one node changes nothing at the others.
LEMMA Elsewhere ==
  ASSUME NEW st, Tidy(st), NEW f, f.position \in Nat,
         f.kind = "object" => IsFiniteSet(f.children), NEW t, t # f.node
  PROVE  SameOpen(st, Append(st, f), t) /\ TopAt(Append(st, f), t) = 0
<1> DEFINE b == Append(st, f)
<1>1. /\ ItemsAt(st, t) \in Nat /\ KeysAt(st, t) \in Nat
      /\ ItemsAt(b, t) = ItemsAt(st, t) + 0 /\ KeysAt(b, t) = KeysAt(st, t) + 0
      /\ PositionsAt(b, t) = PositionsAt(st, t) \cup {}
      /\ TopAt(b, t) = One(f.node = t /\ f.kind = "array")
  <2>1. ItemsAt(st, t) \in Nat /\ KeysAt(st, t) \in Nat
    BY Pushed
  <2>2. ItemsAt(b, t) = ItemsAt(st, t) + 0
    BY Pushed
  <2>3. KeysAt(b, t) = KeysAt(st, t) + 0
    BY Pushed
  <2>4. PositionsAt(b, t) = PositionsAt(st, t) \cup {}
    BY Pushed
  <2>5. TopAt(b, t) = One(f.node = t /\ f.kind = "array")
    BY Pushed
  <2>6. QED
    BY <2>1, <2>2, <2>3, <2>4, <2>5
<1>2. \A kind : Opens(st, t, kind) \in Nat /\ Opens(b, t, kind) = Opens(st, t, kind) + One(f.node = t /\ f.kind = kind)
  BY Pushed
<1>3. \A n : ReachAt(st, t, n) \in Nat
             /\ ReachAt(b, t, n) = ReachAt(st, t, n) + One(f.node = t /\ f.kind = "array" /\ f.position >= n)
  BY PushedReach
<1>4. \A kind, n : One(f.node = t /\ f.kind = kind) = 0
                   /\ One(f.node = t /\ f.kind = "array" /\ f.position >= n) = 0
  BY DEF One
<1> HIDE DEF b
<1>5. \A kind : Opens(b, t, kind) = Opens(st, t, kind)
  BY <1>2, <1>4
<1>6. \A n : ReachAt(b, t, n) = ReachAt(st, t, n)
  BY <1>3, <1>4
<1>7. QED
  BY <1>1, <1>4, <1>5, <1>6 DEF SameOpen, b

\* Nothing changes with a frame of the same node, kind, position and keys.
LEMMA Retopped ==
  ASSUME NEW st, Tidy(st), NEW f, NEW g, f.position \in Nat,
         g.node = f.node, g.kind = f.kind, g.position = f.position,
         f.kind = "object" =>
           IsFiniteSet(f.children) /\ IsFiniteSet(g.children) /\ KeysIn(g) = KeysIn(f)
  PROVE  \A t : SameOpen(Append(st, f), Append(st, g), t) /\ TopAt(Append(st, g), t) = TopAt(Append(st, f), t)
<1> TAKE t
<1> DEFINE b == Append(st, f)
           c == Append(st, g)
           k == IF f.node = t /\ f.kind = "object" THEN KeysIn(f) ELSE 0
           p == IF f.node = t /\ f.kind = "array" THEN f.position ELSE 0
           s == IF f.node = t /\ f.kind = "array" THEN {f.position} ELSE {}
<1>1. /\ ItemsAt(b, t) = ItemsAt(st, t) + p /\ KeysAt(b, t) = KeysAt(st, t) + k
      /\ PositionsAt(b, t) = PositionsAt(st, t) \cup s
      /\ TopAt(b, t) = One(f.node = t /\ f.kind = "array")
      /\ \A kind : Opens(b, t, kind) = Opens(st, t, kind) + One(f.node = t /\ f.kind = kind)
  BY Pushed
<1>2. /\ ItemsAt(c, t) = ItemsAt(st, t) + p /\ KeysAt(c, t) = KeysAt(st, t) + k
      /\ PositionsAt(c, t) = PositionsAt(st, t) \cup s
      /\ TopAt(c, t) = One(f.node = t /\ f.kind = "array")
      /\ \A kind : Opens(c, t, kind) = Opens(st, t, kind) + One(f.node = t /\ f.kind = kind)
  <2>1. IF g.node = t /\ g.kind = "object" THEN KeysIn(g) = k ELSE k = 0
    OBVIOUS
  <2>2. (IF g.node = t /\ g.kind = "array" THEN g.position ELSE 0) = p
        /\ (IF g.node = t /\ g.kind = "array" THEN {g.position} ELSE {}) = s
    OBVIOUS
  <2>3. (IF g.node = t /\ g.kind = "object" THEN KeysIn(g) ELSE 0) = k
    BY <2>1
  <2> HIDE DEF k, p, s
  <2>4. /\ ItemsAt(c, t) = ItemsAt(st, t) + p /\ KeysAt(c, t) = KeysAt(st, t) + k
        /\ PositionsAt(c, t) = PositionsAt(st, t) \cup s
        /\ TopAt(c, t) = One(g.node = t /\ g.kind = "array")
        /\ \A kind : Opens(c, t, kind) = Opens(st, t, kind) + One(g.node = t /\ g.kind = kind)
    BY <2>2, <2>3, Pushed
  <2>5. QED
    BY <2>4
<1>3. \A n : /\ ReachAt(b, t, n) = ReachAt(st, t, n) + One(f.node = t /\ f.kind = "array" /\ f.position >= n)
             /\ ReachAt(c, t, n) = ReachAt(st, t, n) + One(g.node = t /\ g.kind = "array" /\ g.position >= n)
  BY PushedReach
<1> HIDE DEF b, c, k, p, s
<1>4. QED
  BY <1>1, <1>2, <1>3 DEF SameOpen, b, c

LEMMA InnerKept ==
  ASSUME NEW v, NEW st, NEW b, NEW t, NEW owed, NEW begun, Inner(v, st, t, owed, begun),
         SameOpen(st, b, t), NEW open,
         (IF open THEN 0 ELSE TopAt(b, t)) = (IF begun THEN 0 ELSE TopAt(st, t))
  PROVE  Inner(v, b, t, owed, open)
<1>1. ObjectSizes(v, b, t) /\ ArraySizes(v, b, t)
  BY DEF Inner, ObjectSizes, ArraySizes, SameOpen
<1>2. Clustered(v, b, t, open)
  BY DEF Inner, Clustered, SameOpen
<1>3. QED
  BY <1>1, <1>2 DEF Inner

\* The children of a node have seen the same.
SameSeen(ar, c, b, e, v) ==
  /\ HasObject(v) => \A k \in FieldKids(v) : Seen(b, e, k) = Seen(ar, c, k)
  /\ HasArray(v) => \A k \in ItemKids(v) : Seen(b, e, k) = Seen(ar, c, k)

LEMMA SeenEverywhere ==
  ASSUME NEW ar, IsArena(ar), NEW c, NEW b, NEW e,
         \A k \in DOMAIN ar : Seen(b, e, k) = Seen(ar, c, k), NEW t \in DOMAIN ar
  PROVE  SameSeen(ar, c, b, e, ar[t])
BY KidsInArena DEF SameSeen

\* The children of t are the same.
LEMMA KidsKept ==
  ASSUME NEW ar, IsArena(ar), \A k \in DOMAIN ar : ar[k].obs \in Nat,
         NEW b, DOMAIN ar \subseteq DOMAIN b, NEW c, NEW e,
         NEW t \in DOMAIN ar, SameSeen(ar, c, b, e, ar[t]),
         NEW st, NEW sb, KidsObserve(ar, st, c, t),
         HasObject(b[t]) => HasObject(ar[t]), HasArray(b[t]) => HasArray(ar[t]),
         FieldKids(b[t]) = FieldKids(ar[t]), ItemKids(b[t]) = ItemKids(ar[t]),
         b[t].object.keyCountSum = ar[t].object.keyCountSum,
         b[t].array.lengthSum + ItemsAt(sb, t) = ar[t].array.lengthSum + ItemsAt(st, t)
  PROVE  KidsObserve(b, sb, e, t)
<1>1. HasObject(ar[t]) => SeenIn(b, e, FieldKids(ar[t])) = SeenIn(ar, c, FieldKids(ar[t]))
  <2>1. ASSUME HasObject(ar[t])
        PROVE  /\ IsFiniteSet(FieldKids(ar[t])) /\ FieldKids(ar[t]) \subseteq DOMAIN ar
               /\ FieldKids(ar[t]) \subseteq DOMAIN b
               /\ \A k \in FieldKids(ar[t]) : ar[k].obs \in Nat /\ Seen(b, e, k) = Seen(ar, c, k)
    BY <2>1, KidsInArena DEF SameSeen
  <2>2. QED
    BY <2>1, SeenInSame
<1>2. HasArray(ar[t]) => SeenIn(b, e, ItemKids(ar[t])) = SeenIn(ar, c, ItemKids(ar[t]))
  <2>1. ASSUME HasArray(ar[t])
        PROVE  /\ IsFiniteSet(ItemKids(ar[t])) /\ ItemKids(ar[t]) \subseteq DOMAIN ar
               /\ ItemKids(ar[t]) \subseteq DOMAIN b
               /\ \A k \in ItemKids(ar[t]) : ar[k].obs \in Nat /\ Seen(b, e, k) = Seen(ar, c, k)
    BY <2>1, KidsInArena DEF SameSeen
  <2>2. QED
    BY <2>1, SeenInSame
<1>3. QED
  BY <1>1, <1>2 DEF KidsObserve

LEMMA PositionsKept ==
  ASSUME NEW ar, NEW b, NEW c, NEW e, NEW t \in DOMAIN ar, SameSeen(ar, c, b, e, ar[t]),
         NEW st, NEW sb, Positions(ar, st, c, t),
         HasArray(b[t]) => HasArray(ar[t]),
         b[t].array.positionalAlive => ar[t].array.positionalAlive,
         b[t].array.positional = ar[t].array.positional,
         DOMAIN b[t].array.lengths \cup PositionsAt(sb, t) =
           DOMAIN ar[t].array.lengths \cup PositionsAt(st, t),
         \A n : LongEnough(b[t].array.lengths, n) + ReachAt(sb, t, n) =
                  LongEnough(ar[t].array.lengths, n) + ReachAt(st, t, n)
  PROVE  Positions(b, sb, e, t)
<1>1. HasArray(ar[t]) => \A n \in DOMAIN ar[t].array.positional :
        Seen(b, e, ar[t].array.positional[n]) = Seen(ar, c, ar[t].array.positional[n])
  BY DEF SameSeen, ItemKids
<1>2. QED
  BY <1>1 DEF Positions

-----------------------------------------------------------------------------
(* The entries.                                                            *)
LEMMA NoneIsNoNode == \A ar : IsArena(ar) => None \notin DOMAIN ar
<1>1. SUFFICES ASSUME NEW ar, IsArena(ar) PROVE None \notin DOMAIN ar
  OBVIOUS
<1>2. DOMAIN ar = 1 .. Len(ar) /\ Len(ar) \in Nat
  BY ArenaLen
<1>3. 1 .. Len(ar) \subseteq Nat
  BY <1>2
<1>4. QED
  BY <1>2, <1>3, NoneAssumption

LEMMA BooksParts ==
  ASSUME NEW ar, NEW st, NEW c, NEW s, NEW begun, Books(ar, st, c, s, begun), NEW t \in DOMAIN ar
  PROVE  /\ Inner(ar[t], st, t, s = t, begun) /\ Solid(ar[t])
         /\ KidsObserve(ar, st, c, t) /\ Positions(ar, st, c, t)
         /\ ar[t].obs \in Nat
BY DEF Books, BooksAt, Inner, Solid

\* A node observes the value that waited for it.
LEMMA ObsAtBooks ==
  ASSUME NEW ar, IsArena(ar), NEW st, NEW t \in DOMAIN ar, NEW begun, Books(ar, st, t, None, begun)
  PROVE  Books(ObsAt(ar, t), st, None, t, begun)
<1> DEFINE b == ObsAt(ar, t)
<1>1. IsNode(ar[t], Len(ar)) /\ None \notin DOMAIN ar
  BY NoneIsNoNode DEF IsArena
<1>2. /\ DOMAIN b = DOMAIN ar /\ \A u \in DOMAIN ar : u # t => b[u] = ar[u]
      /\ b[t].obs = ar[t].obs + 1 /\ b[t].scalars = ar[t].scalars
      /\ b[t].object = ar[t].object /\ b[t].array = ar[t].array
  BY <1>1 DEF ObsAt, IsNode
<1> HIDE DEF b
<1>3. \A u \in DOMAIN ar : ar[u].obs \in Nat
  BY BooksParts
<1>4. \A u \in DOMAIN ar : Seen(b, None, u) = Seen(ar, t, u)
  BY <1>1, <1>2, <1>3 DEF Seen, One
<1>5. \A u \in DOMAIN ar : b[u].object = ar[u].object /\ b[u].array = ar[u].array
  BY <1>2
<1>6. ASSUME NEW u \in DOMAIN ar
      PROVE  /\ HasObject(b[u]) = HasObject(ar[u]) /\ HasArray(b[u]) = HasArray(ar[u])
             /\ FieldKids(b[u]) = FieldKids(ar[u]) /\ ItemKids(b[u]) = ItemKids(ar[u])
  BY <1>5 DEF HasObject, HasArray, FieldKids, ItemKids
<1>7. ASSUME NEW u \in DOMAIN ar
      PROVE  KidsObserve(b, st, None, u) /\ Positions(b, st, None, u)
  <2>1. KidsObserve(ar, st, t, u) /\ Positions(ar, st, t, u)
    BY BooksParts
  <2>0. SameSeen(ar, t, b, None, ar[u])
    BY <1>4, SeenEverywhere
  <2>2. KidsObserve(b, st, None, u)
    BY <1>2, <1>3, <1>5, <1>6, <2>0, <2>1, KidsKept
  <2>3. Positions(b, st, None, u)
    BY <1>5, <1>6, <2>0, <2>1, PositionsKept
  <2>4. QED
    BY <2>2, <2>3
<1>8. ASSUME NEW u \in DOMAIN ar, u # t
      PROVE  Inner(b[u], st, u, t = u, begun)
  <2>1. Inner(ar[u], st, u, None = u, begun)
    BY BooksParts
  <2>2. (None = u) = FALSE /\ (t = u) = FALSE
    BY <1>1, <1>8
  <2>3. QED
    BY <1>2, <1>8, <2>1, <2>2
<1>9. Inner(b[t], st, t, t = t, begun)
  <2>1. Inner(ar[t], st, t, None = t, begun)
    BY BooksParts
  <2>2. Solid(b[t])
    BY <1>2, <1>3, <1>6, <2>1 DEF Inner, Solid
  <2>3. ByKind(b[t], t = t)
    <3>1. ar[t].obs = Mass(ar[t].scalars) + ar[t].object.obs + ar[t].array.obs + 0
      BY <1>1, <2>1 DEF Inner, ByKind, One
    <3>2. Mass(ar[t].scalars) + ar[t].object.obs + ar[t].array.obs \in Int
      <4>1. Mass(ar[t].scalars) \in Nat
        <5>1. IsFiniteSet(DOMAIN ar[t].scalars) /\ \A k \in DOMAIN ar[t].scalars : ar[t].scalars[k] \in Nat
          BY <2>1, KindAssumption DEF Inner, Solid
        <5>2. QED
          BY <5>1, SumType DEF Mass
      <4>2. QED
        BY <2>1, <4>1 DEF Inner, Solid
    <3>3. QED
      BY <1>2, <3>1, <3>2 DEF ByKind, One
  <2>4. ObjectSizes(b[t], st, t) /\ ArraySizes(b[t], st, t) /\ Clustered(b[t], st, t, begun)
    BY <1>2, <2>1 DEF Inner, ObjectSizes, ArraySizes, Clustered
  <2>5. QED
    BY <2>2, <2>3, <2>4 DEF Inner
<1>10. Books(b, st, None, t, begun)
  BY <1>2, <1>7, <1>8, <1>9 DEF Books, BooksAt
<1>11. QED
  BY <1>10 DEF b

\* Nothing changes at the nodes other than t.
Aside(ar, st, c, begun, t, b, sb, e, open) ==
  /\ DOMAIN ar \subseteq DOMAIN b
  /\ \A u \in DOMAIN ar : u # t =>
       /\ b[u] = ar[u]
       /\ SameSeen(ar, c, b, e, ar[u])
       /\ Undisturbed(st, begun, sb, open, u)

LEMMA OtherNode ==
  ASSUME NEW ar, IsArena(ar), \A k \in DOMAIN ar : ar[k].obs \in Nat,
         NEW st, NEW c, NEW s, NEW begun,
         NEW t, NEW b, NEW sb, NEW e, NEW open, Aside(ar, st, c, begun, t, b, sb, e, open),
         NEW u \in DOMAIN ar, u # t, BooksAt(ar, st, c, s, begun, u), NEW r, r = u <=> s = u
  PROVE  BooksAt(b, sb, e, r, open, u)
<1>1. Inner(ar[u], st, u, s = u, begun) /\ KidsObserve(ar, st, c, u) /\ Positions(ar, st, c, u)
  BY DEF BooksAt
<1>2. b[u] = ar[u] /\ SameOpen(st, sb, u) /\ (s = u) = (r = u) /\ SameSeen(ar, c, b, e, ar[u])
      /\ (IF open THEN 0 ELSE TopAt(sb, u)) = (IF begun THEN 0 ELSE TopAt(st, u))
      /\ DOMAIN ar \subseteq DOMAIN b
  BY DEF Aside, Undisturbed
<1>4. Inner(b[u], sb, u, r = u, open)
  BY <1>1, <1>2, InnerKept
<1>5. KidsObserve(b, sb, e, u)
  BY <1>1, <1>2, KidsKept DEF SameOpen
<1>6. Positions(b, sb, e, u)
  BY <1>1, <1>2, PositionsKept DEF SameOpen
<1>7. QED
  BY <1>4, <1>5, <1>6 DEF BooksAt

LEMMA Others ==
  ASSUME NEW ar, IsArena(ar), NEW st, NEW c, NEW s, NEW begun, Books(ar, st, c, s, begun),
         NEW t, NEW b, NEW sb, NEW e, NEW open, Aside(ar, st, c, begun, t, b, sb, e, open),
         NEW u \in DOMAIN ar, u # t, NEW r, r = u <=> s = u
  PROVE  BooksAt(b, sb, e, r, open, u)
<1>1. \A k \in DOMAIN ar : ar[k].obs \in Nat
  BY BooksParts
<1>2. BooksAt(ar, st, c, s, begun, u)
  BY DEF Books
<1>3. QED
  BY <1>1, <1>2, OtherNode

\* The counters of one node change, and the stack at that node.
Local(ar, st, begun, t, b, sb, open) ==
  /\ DOMAIN b = DOMAIN ar
  /\ \A u \in DOMAIN ar : u # t => b[u] = ar[u] /\ Undisturbed(st, begun, sb, open, u)

LEMMA Entry ==
  ASSUME NEW ar, IsArena(ar), NEW t \in DOMAIN ar, NEW st, NEW begun, NEW s, s \in {None, t},
         Books(ar, st, None, s, begun),
         NEW b, NEW sb, NEW open, Local(ar, st, begun, t, b, sb, open),
         b[t].obs = ar[t].obs, SameRefs(ar[t], b[t]),
         b[t].object.keyCountSum = ar[t].object.keyCountSum,
         b[t].array.lengthSum + ItemsAt(sb, t) = ar[t].array.lengthSum + ItemsAt(st, t),
         Positions(b, sb, None, t),
         NEW r, r \in {None, t}, Inner(b[t], sb, t, r = t, open)
  PROVE  Books(b, sb, None, r, open)
<1>1. \A u \in DOMAIN ar : ar[u].obs \in Nat /\ Seen(b, None, u) = Seen(ar, None, u)
  BY BooksParts DEF Seen, Local
<1>2. \A u \in DOMAIN ar : SameSeen(ar, None, b, None, ar[u])
  BY <1>1, SeenEverywhere
<1>3. ASSUME NEW u \in DOMAIN ar, u # t
      PROVE  BooksAt(b, sb, None, r, open, u)
  <2>1. r = u <=> s = u
    BY <1>3, NoneIsNoNode
  <2>2. Aside(ar, st, None, begun, t, b, sb, None, open)
    BY <1>2 DEF Aside, Local
  <2>3. QED
    BY <1>3, <2>1, <2>2, Others
<1>4. KidsObserve(b, sb, None, t)
  <2>1. KidsObserve(ar, st, None, t) /\ SameSeen(ar, None, b, None, ar[t])
    BY <1>2, BooksParts
  <2>2. /\ HasObject(b[t]) = HasObject(ar[t]) /\ HasArray(b[t]) = HasArray(ar[t])
        /\ FieldKids(b[t]) = FieldKids(ar[t]) /\ ItemKids(b[t]) = ItemKids(ar[t])
    BY DEF HasObject, HasArray, FieldKids, ItemKids, SameRefs
  <2>3. QED
    BY <1>1, <2>1, <2>2, KidsKept DEF Local
<1>5. QED
  BY <1>3, <1>4 DEF Books, BooksAt, Local

\* Its positions are what they were when its lengths and those of its open
\* arrays are.
LEMMA PositionsStay ==
  ASSUME NEW ar, IsArena(ar), NEW t \in DOMAIN ar, NEW st, NEW s, NEW begun,
         Books(ar, st, None, s, begun),
         NEW b, DOMAIN b = DOMAIN ar, \A u \in DOMAIN ar : b[u].obs = ar[u].obs,
         SameRefs(ar[t], b[t]),
         b[t].array.positionalAlive = ar[t].array.positionalAlive, NEW sb,
         DOMAIN b[t].array.lengths \cup PositionsAt(sb, t) =
           DOMAIN ar[t].array.lengths \cup PositionsAt(st, t),
         \A n : LongEnough(b[t].array.lengths, n) + ReachAt(sb, t, n) =
                  LongEnough(ar[t].array.lengths, n) + ReachAt(st, t, n)
  PROVE  Positions(b, sb, None, t)
<1>1. \A u \in DOMAIN ar : Seen(b, None, u) = Seen(ar, None, u)
  BY DEF Seen
<1>2. Positions(ar, st, None, t) /\ SameSeen(ar, None, b, None, ar[t])
  BY <1>1, BooksParts, SeenEverywhere
<1>3. HasArray(b[t]) = HasArray(ar[t]) /\ b[t].array.positional = ar[t].array.positional
  BY DEF HasArray, SameRefs
<1>4. QED
  BY <1>2, <1>3, PositionsKept

\* The stack stays as it is and no array grows.
LEMMA EntryInPlace ==
  ASSUME NEW ar, IsArena(ar), NEW t \in DOMAIN ar, NEW st, NEW begun, NEW s, s \in {None, t},
         Books(ar, st, None, s, begun),
         NEW b, DOMAIN b = DOMAIN ar, \A u \in DOMAIN ar : u # t => b[u] = ar[u],
         b[t].obs = ar[t].obs, SameRefs(ar[t], b[t]),
         b[t].object.keyCountSum = ar[t].object.keyCountSum,
         b[t].array.positionalAlive = ar[t].array.positionalAlive,
         b[t].array.lengthSum = ar[t].array.lengthSum,
         b[t].array.lengths = ar[t].array.lengths,
         NEW r, r \in {None, t}, Inner(b[t], st, t, r = t, begun)
  PROVE  Books(b, st, None, r, begun)
<1>1. Local(ar, st, begun, t, b, st, begun)
  BY UndisturbedSame DEF Local
<1>2. b[t].array.lengthSum + ItemsAt(st, t) = ar[t].array.lengthSum + ItemsAt(st, t)
  OBVIOUS
<1>3. Positions(b, st, None, t)
  <2>1. \A u \in DOMAIN ar : b[u].obs = ar[u].obs
    OBVIOUS
  <2>2. /\ DOMAIN b[t].array.lengths \cup PositionsAt(st, t) =
             DOMAIN ar[t].array.lengths \cup PositionsAt(st, t)
        /\ \A n : LongEnough(b[t].array.lengths, n) + ReachAt(st, t, n) =
                    LongEnough(ar[t].array.lengths, n) + ReachAt(st, t, n)
    OBVIOUS
  <2>3. QED
    BY <2>1, <2>2, PositionsStay
<1>4. QED
  BY <1>1, <1>2, <1>3, Entry

\* The scalars of a node add up.
LEMMA ScalarMass ==
  ASSUME NEW f, DOMAIN f = Kind, \A kind \in Kind : f[kind] \in Nat
  PROVE  /\ Mass(f) \in Nat
         /\ \A kind \in Kind : Mass([f EXCEPT ![kind] = @ + 1]) = Mass(f) + 1
<1>1. IsFiniteSet(Kind)
  BY KindAssumption
<1>2. Mass(f) \in Nat
  BY <1>1, SumType DEF Mass
<1>3. ASSUME NEW kind \in Kind
      PROVE  Mass([f EXCEPT ![kind] = @ + 1]) = Mass(f) + 1
  <2> DEFINE g == [f EXCEPT ![kind] = @ + 1]
  <2>1. /\ DOMAIN g = Kind /\ \A k \in Kind : f[k] \in Nat /\ g[k] \in Nat
        /\ \A k \in Kind : k # kind => g[k] = f[k]
        /\ g[kind] = f[kind] + 1 /\ f[kind] \in Nat
    OBVIOUS
  <2> HIDE DEF g
  <2>2. SumOver(g, Kind) + f[kind] = SumOver(f, Kind) + g[kind]
    BY <1>1, <2>1, SumChange
  <2>3. SumOver(g, Kind) \in Nat /\ SumOver(f, Kind) \in Nat
    BY <1>1, <2>1, SumType
  <2>4. SumOver(g, Kind) = SumOver(f, Kind) + 1
    BY <2>1, <2>2, <2>3
  <2>5. QED
    BY <2>1, <2>4 DEF Mass, g
<1>4. QED
  BY <1>2, <1>3

\* The observation of a scalar is entered under its kind.
LEMMA ScalarBooks ==
  ASSUME NEW ar, IsArena(ar), NEW st, NEW t \in DOMAIN ar, NEW kind \in Kind, NEW begun,
         Books(ar, st, None, t, begun)
  PROVE  Books([ar EXCEPT ![t].scalars[kind] = @ + 1], st, None, None, begun)
<1> DEFINE b == [ar EXCEPT ![t].scalars[kind] = @ + 1]
<1>1. IsNode(ar[t], Len(ar)) /\ None # t
  BY NoneIsNoNode DEF IsArena
<1>2. Inner(ar[t], st, t, t = t, begun) /\ Solid(ar[t])
  BY BooksParts
<1>3. /\ DOMAIN b = DOMAIN ar /\ \A u \in DOMAIN ar : u # t => b[u] = ar[u]
      /\ b[t].obs = ar[t].obs /\ b[t].scalars = [ar[t].scalars EXCEPT ![kind] = @ + 1]
      /\ b[t].object = ar[t].object /\ b[t].array = ar[t].array
      /\ DOMAIN b[t] = DOMAIN ar[t]
  BY <1>1 DEF IsNode
<1> HIDE DEF b
<1>4. /\ Mass(ar[t].scalars) \in Nat /\ Mass(b[t].scalars) = Mass(ar[t].scalars) + 1
      /\ DOMAIN b[t].scalars = Kind /\ \A k \in Kind : b[t].scalars[k] \in Nat
  <2>1. DOMAIN ar[t].scalars = Kind /\ \A k \in Kind : ar[t].scalars[k] \in Nat
    BY <1>2 DEF Solid
  <2>2. DOMAIN b[t].scalars = Kind /\ \A k \in Kind : b[t].scalars[k] \in Nat
    BY <1>3, <2>1
  <2>3. QED
    BY <1>3, <2>1, <2>2, ScalarMass
<1>5. Inner(b[t], st, t, None = t, begun)
  <2>1. Solid(b[t])
    BY <1>2, <1>3, <1>4 DEF Solid, HasObject, HasArray
  <2>2. ByKind(b[t], None = t)
    <3>1. ar[t].obs = Mass(ar[t].scalars) + ar[t].object.obs + ar[t].array.obs + 1
      BY <1>2 DEF Inner, ByKind, One
    <3>2. ar[t].object.obs \in Nat /\ ar[t].array.obs \in Nat
      BY <1>2 DEF Solid
    <3>3. b[t].obs = Mass(b[t].scalars) + b[t].object.obs + b[t].array.obs + 0
      BY <1>3, <1>4, <3>1, <3>2
    <3>4. QED
      BY <1>1, <3>3 DEF ByKind, One
  <2>3. ObjectSizes(b[t], st, t) /\ ArraySizes(b[t], st, t) /\ Clustered(b[t], st, t, begun)
    BY <1>2, <1>3 DEF Inner, ObjectSizes, ArraySizes, Clustered
  <2>4. QED
    BY <2>1, <2>2, <2>3 DEF Inner
<1>6. SameRefs(ar[t], b[t])
  BY <1>3 DEF SameRefs
<1>7. Books(b, st, None, None, begun)
  <2>1. /\ b[t].object.keyCountSum = ar[t].object.keyCountSum
        /\ b[t].array.positionalAlive = ar[t].array.positionalAlive
        /\ b[t].array.lengthSum = ar[t].array.lengthSum
        /\ b[t].array.lengths = ar[t].array.lengths
    BY <1>3
  <2>2. t \in {None, t} /\ None \in {None, t}
    OBVIOUS
  <2>3. QED
    BY <1>3, <1>5, <1>6, <2>1, <2>2, EntryInPlace
<1>8. QED
  BY <1>7 DEF b

-----------------------------------------------------------------------------
(* A container is opened.                                                  *)
LEMMA NoArrays ==
  ASSUME NEW st, Sequence(st), NEW t, FramesAt(st, t, "array") = {}
  PROVE  /\ ItemsAt(st, t) = 0 /\ PositionsAt(st, t) = {} /\ Opens(st, t, "array") = 0
         /\ TopAt(st, t) = 0 /\ \A n : ReachAt(st, t, n) = 0
<1>1. Cardinality({}) = 0
  BY FS_EmptySet
<1>2. ItemsAt(st, t) = 0
  BY SumEmpty DEF ItemsAt
<1>3. ~(InArray(st) /\ Top(st).node = t)
  <2>1. ASSUME InArray(st), Top(st).node = t
        PROVE  FALSE
    <3>1. Len(st) \in Nat /\ DOMAIN st = 1 .. Len(st) /\ Len(st) # 0
      BY <2>1, SequenceLen, SequenceEmpty DEF InArray
    <3>2. Len(st) \in DOMAIN st
      BY <3>1
    <3>3. QED
      BY <2>1, <3>2 DEF InArray, Top, FramesAt
  <2>2. QED
    BY <2>1
<1>4. TopAt(st, t) = 0
  BY <1>3 DEF TopAt, One
<1>5. \A n : ReachAt(st, t, n) = 0
  <2>1. \A n : {i \in FramesAt(st, t, "array") : st[i].position >= n} = {}
    OBVIOUS
  <2>2. QED
    BY <1>1, <2>1 DEF ReachAt
<1>6. QED
  BY <1>1, <1>2, <1>4, <1>5 DEF PositionsAt, Opens

LEMMA NoObjects ==
  ASSUME NEW st, NEW t, FramesAt(st, t, "object") = {}
  PROVE  KeysAt(st, t) = 0 /\ Opens(st, t, "object") = 0
BY FS_EmptySet, SumEmpty DEF KeysAt, Opens

\* Frames are at nodes that have what they open.
LEMMA FramesKind ==
  ASSUME NEW ar, NEW st, Frames(st, ar), NEW t
  PROVE  /\ t \notin DOMAIN ar \/ ~HasArray(ar[t]) => FramesAt(st, t, "array") = {}
         /\ t \notin DOMAIN ar \/ ~HasObject(ar[t]) => FramesAt(st, t, "object") = {}
BY DEF Frames, IsFrame, FramesAt

LEMMA NoScalars == Mass([k \in Kind |-> 0]) = 0
<1> DEFINE f == [k \in Kind |-> 0]
<1>1. DOMAIN f = Kind /\ \A k \in Kind : f[k] = 0 /\ f[k] \in Nat
  OBVIOUS
<1> HIDE DEF f
<1>2. SumOver(f, Kind) = SumOver(f, {})
  BY <1>1, KindAssumption, SumZeros
<1>3. QED
  BY <1>1, <1>2, SumEmpty DEF Mass, f

LEMMA NewObjectCounts ==
  ASSUME NEW new
  PROVE  LET obj == NewObject(new)
         IN /\ obj.obs = 0 /\ obj.keyCountSum = 0 /\ obj.mapValue = new /\ DOMAIN obj.fields = {}
            /\ IsHistogram(obj.keyCounts) /\ Mass(obj.keyCounts) = 0 /\ Weighted(obj.keyCounts) = 0
<1>1. NewObject(new).keyCounts = [n \in {} |-> 0]
  BY DEF NewObject
<1>2. QED
  BY <1>1, EmptyHistogram DEF NewObject

LEMMA NewArrayCounts ==
  ASSUME NEW new
  PROVE  LET arr == NewArray(new)
         IN /\ arr.obs = 0 /\ arr.lengthSum = 0 /\ arr.bagValue = new
            /\ arr.positional = <<>> /\ DOMAIN arr.positional = {} /\ Len(arr.positional) = 0
            /\ IsHistogram(arr.lengths) /\ Mass(arr.lengths) = 0 /\ Weighted(arr.lengths) = 0
            /\ DOMAIN arr.lengths = {}
            /\ IsTable(arr.cluster) /\ Mass(arr.cluster.counters) = 0 /\ arr.cluster.evictions = 0
<1> DEFINE arr == NewArray(new)
<1>1. /\ arr.lengths = [n \in {} |-> 0] /\ arr.positional = <<>> /\ arr.cluster = NewTable
      /\ arr.obs = 0 /\ arr.lengthSum = 0 /\ arr.bagValue = new
  BY DEF NewArray
<1>2. DOMAIN <<>> = {} /\ Len(<<>>) = 0
  BY SequenceEmpty
<1>3. IsTable(NewTable) /\ Mass(NewTable.counters) = 0 /\ NewTable.evictions = 0
  BY NewTableMass DEF Mass, Held, NewTable
<1> HIDE DEF arr
<1>4. QED
  BY <1>1, <1>2, <1>3, EmptyHistogram DEF arr

\* A node that has just been allocated has its books in order.
LEMMA NewInner ==
  ASSUME NEW st, Sequence(st), NEW t, FramesAt(st, t, "array") = {}, FramesAt(st, t, "object") = {},
         NEW begun
  PROVE  Inner(NewNode, st, t, FALSE, begun)
<1>1. /\ ItemsAt(st, t) = 0 /\ Opens(st, t, "array") = 0 /\ TopAt(st, t) = 0
      /\ KeysAt(st, t) = 0 /\ Opens(st, t, "object") = 0
  BY NoArrays, NoObjects
<1>2. /\ NewNode.obs = 0 /\ NewNode.scalars = [k \in Kind |-> 0]
      /\ NewNode.object = NewObject(None) /\ NewNode.array = NewArray(None)
  BY DEF NewNode
<1>3. Solid(NewNode)
  <2>1. DOMAIN NewNode.scalars = Kind /\ \A kind \in Kind : NewNode.scalars[kind] \in Nat
    BY <1>2
  <2>2. QED
    BY <1>2, <2>1, NewObjectCounts, NewArrayCounts DEF Solid
<1>4. ByKind(NewNode, FALSE)
  BY <1>2, NewObjectCounts, NewArrayCounts, NoScalars DEF ByKind, One
<1>5. ObjectSizes(NewNode, st, t) /\ ArraySizes(NewNode, st, t)
  BY <1>1, <1>2, NewObjectCounts, NewArrayCounts DEF ObjectSizes, ArraySizes
<1>6. Clustered(NewNode, st, t, begun)
  BY <1>1, <1>2, NewArrayCounts DEF Clustered
<1>7. QED
  BY <1>3, <1>4, <1>5, <1>6 DEF Inner

LEMMA FreshInner ==
  ASSUME NEW ar, NEW st, Frames(st, ar), NEW t, t \notin DOMAIN ar, NEW begun
  PROVE  Inner(NewNode, st, t, FALSE, begun)
BY FramesKind, NewInner DEF Frames

LEMMA AllocBooks ==
  ASSUME NEW ar, IsArena(ar), NEW st, Frames(st, ar), NEW s, s \in DOMAIN ar \cup {None}, NEW begun,
         Books(ar, st, None, s, begun)
  PROVE  Books(Alloc(ar), st, None, s, begun)
<1> DEFINE b == Alloc(ar)
           new == FreshId(ar)
<1>1. /\ DOMAIN b = DOMAIN ar \cup {new} /\ new \notin DOMAIN ar /\ new # None
      /\ b[new] = NewNode /\ \A u \in DOMAIN ar : b[u] = ar[u]
  BY AllocNodes
<1> HIDE DEF b, new
<1>2. \A u \in DOMAIN ar : SameSeen(ar, None, b, None, ar[u])
  <2>1. \A u \in DOMAIN ar : Seen(b, None, u) = Seen(ar, None, u)
    BY <1>1 DEF Seen
  <2>2. QED
    BY <2>1, SeenEverywhere
<1>3. Aside(ar, st, None, begun, new, b, st, None, begun)
  BY <1>1, <1>2, UndisturbedSame DEF Aside
<1>4. ASSUME NEW u \in DOMAIN ar
      PROVE  BooksAt(b, st, None, s, begun, u)
  <2>1. u # new
    BY <1>1
  <2>2. QED
    BY <1>3, <2>1, Others
<1>5. Inner(b[new], st, new, s = new, begun)
  <2>1. (s = new) = FALSE
    BY <1>1
  <2>2. QED
    BY <1>1, <2>1, FreshInner
<1>6. KidsObserve(b, st, None, new) /\ Positions(b, st, None, new)
  BY <1>1, NewNodeSlots DEF KidsObserve, Positions
<1>7. QED
  BY <1>1, <1>4, <1>5, <1>6 DEF Books, BooksAt, b

LEMMA FramesTidy ==
  ASSUME NEW ar, NEW st, Frames(st, ar),
         \A i \in DOMAIN st : st[i].kind = "object" => IsFiniteSet(st[i].children)
  PROVE  Tidy(st)
BY DEF Frames, IsFrame, Tidy

ArrayOpened(st, t, sb) ==
  /\ \A u : u # t => Undisturbed(st, TRUE, sb, FALSE, u)
  /\ ItemsAt(sb, t) = ItemsAt(st, t) /\ ItemsAt(st, t) \in Nat
  /\ KeysAt(sb, t) = KeysAt(st, t)
  /\ PositionsAt(sb, t) = PositionsAt(st, t) \cup {0}
  /\ Opens(sb, t, "array") = Opens(st, t, "array") + 1 /\ Opens(st, t, "array") \in Nat
  /\ Opens(sb, t, "object") = Opens(st, t, "object")
  /\ TopAt(sb, t) = 1
  /\ \A n \in Nat \ {0} : ReachAt(sb, t, n) = ReachAt(st, t, n)

LEMMA ArrayPushed ==
  ASSUME NEW st, Tidy(st), NEW t
  PROVE  ArrayOpened(st, t, Append(st, ArrayFrame(t)))
<1> DEFINE f == ArrayFrame(t)
           sb == Append(st, f)
<1>1. f.position = 0 /\ f.position \in Nat /\ f.kind = "array" /\ f.kind # "object" /\ f.node = t
  BY DEF ArrayFrame
<1>0. sb = Append(st, f)
  OBVIOUS
<1> HIDE DEF f, sb
<1>2. ASSUME NEW u, u # t
      PROVE  Undisturbed(st, TRUE, sb, FALSE, u)
  <2>1. SameOpen(st, sb, u) /\ TopAt(sb, u) = 0
    BY <1>0, <1>1, <1>2, Elsewhere
  <2>2. QED
    BY <2>1 DEF Undisturbed
<1>3. /\ ItemsAt(st, t) \in Nat /\ ItemsAt(sb, t) = ItemsAt(st, t) + 0
      /\ KeysAt(st, t) \in Nat /\ KeysAt(sb, t) = KeysAt(st, t) + 0
      /\ PositionsAt(sb, t) = PositionsAt(st, t) \cup {0}
  BY <1>0, <1>1, Pushed
<1>4. /\ Opens(st, t, "array") \in Nat /\ Opens(st, t, "object") \in Nat
      /\ Opens(sb, t, "array") = Opens(st, t, "array") + One(f.node = t /\ f.kind = "array")
      /\ Opens(sb, t, "object") = Opens(st, t, "object") + One(f.node = t /\ f.kind = "object")
      /\ TopAt(sb, t) = One(f.node = t /\ f.kind = "array")
  BY <1>0, <1>1, Pushed
<1>5. One(f.node = t /\ f.kind = "array") = 1 /\ One(f.node = t /\ f.kind = "object") = 0
  BY <1>1 DEF One
<1>6. ASSUME NEW n \in Nat \ {0}
      PROVE  ReachAt(sb, t, n) = ReachAt(st, t, n)
  <2>1. /\ ReachAt(st, t, n) \in Nat
        /\ ReachAt(sb, t, n) = ReachAt(st, t, n) + One(f.node = t /\ f.kind = "array" /\ f.position >= n)
    BY <1>0, PushedReach
  <2>2. One(f.node = t /\ f.kind = "array" /\ f.position >= n) = 0
    BY <1>1 DEF One
  <2>3. QED
    BY <2>1, <2>2
<1>7. ItemsAt(sb, t) = ItemsAt(st, t) /\ KeysAt(sb, t) = KeysAt(st, t)
  BY <1>3
<1>8. /\ Opens(sb, t, "array") = Opens(st, t, "array") + 1
      /\ Opens(sb, t, "object") = Opens(st, t, "object") /\ TopAt(sb, t) = 1
  BY <1>4, <1>5
<1>9. QED
  BY <1>2, <1>3, <1>4, <1>5, <1>6, <1>7, <1>8 DEF ArrayOpened, f, sb

ObjectOpened(st, t, sb) ==
  /\ \A u : u # t => Undisturbed(st, TRUE, sb, FALSE, u)
  /\ ItemsAt(sb, t) = ItemsAt(st, t)
  /\ KeysAt(sb, t) = KeysAt(st, t)
  /\ PositionsAt(sb, t) = PositionsAt(st, t)
  /\ Opens(sb, t, "array") = Opens(st, t, "array")
  /\ Opens(sb, t, "object") = Opens(st, t, "object") + 1 /\ Opens(st, t, "object") \in Nat
  /\ TopAt(sb, t) = 0
  /\ \A n : ReachAt(sb, t, n) = ReachAt(st, t, n)

LEMMA ObjectPushed ==
  ASSUME NEW st, Tidy(st), NEW t
  PROVE  ObjectOpened(st, t, Append(st, ObjectFrame(t)))
<1> DEFINE f == ObjectFrame(t)
           sb == Append(st, f)
<1>1. /\ f.position = 0 /\ f.position \in Nat /\ f.kind = "object" /\ f.kind # "array" /\ f.node = t
      /\ IsFiniteSet(f.children) /\ KeysIn(f) = 0
  BY FS_EmptySet DEF ObjectFrame, KeysIn, One
<1>0. sb = Append(st, f)
  OBVIOUS
<1> HIDE DEF f, sb
<1>2. ASSUME NEW u, u # t
      PROVE  Undisturbed(st, TRUE, sb, FALSE, u)
  <2>1. SameOpen(st, sb, u) /\ TopAt(sb, u) = 0
    BY <1>0, <1>1, <1>2, Elsewhere
  <2>2. QED
    BY <2>1 DEF Undisturbed
<1>3. /\ ItemsAt(st, t) \in Nat /\ ItemsAt(sb, t) = ItemsAt(st, t) + 0
      /\ KeysAt(st, t) \in Nat /\ KeysAt(sb, t) = KeysAt(st, t) + 0
      /\ PositionsAt(sb, t) = PositionsAt(st, t) \cup {}
  <2>0. f.kind = "object" => IsFiniteSet(f.children)
    BY <1>1
  <2>1. /\ ItemsAt(st, t) \in Nat
        /\ ItemsAt(sb, t) = ItemsAt(st, t) + IF f.node = t /\ f.kind = "array" THEN f.position ELSE 0
    BY <1>0, <1>1, <2>0, Pushed
  <2>2. /\ KeysAt(st, t) \in Nat
        /\ KeysAt(sb, t) = KeysAt(st, t) + IF f.node = t /\ f.kind = "object" THEN KeysIn(f) ELSE 0
    BY <1>0, <1>1, <2>0, Pushed
  <2>3. PositionsAt(sb, t) =
          PositionsAt(st, t) \cup IF f.node = t /\ f.kind = "array" THEN {f.position} ELSE {}
    BY <1>0, <1>1, <2>0, Pushed
  <2>4. QED
    BY <1>1, <2>1, <2>2, <2>3
<1>4. /\ Opens(st, t, "array") \in Nat /\ Opens(st, t, "object") \in Nat
      /\ Opens(sb, t, "array") = Opens(st, t, "array") + One(f.node = t /\ f.kind = "array")
      /\ Opens(sb, t, "object") = Opens(st, t, "object") + One(f.node = t /\ f.kind = "object")
      /\ TopAt(sb, t) = One(f.node = t /\ f.kind = "array")
  BY <1>0, <1>1, Pushed
<1>5. One(f.node = t /\ f.kind = "array") = 0 /\ One(f.node = t /\ f.kind = "object") = 1
  BY <1>1 DEF One
<1>6. ASSUME NEW n
      PROVE  ReachAt(sb, t, n) = ReachAt(st, t, n)
  <2>1. /\ ReachAt(st, t, n) \in Nat
        /\ ReachAt(sb, t, n) = ReachAt(st, t, n) + One(f.node = t /\ f.kind = "array" /\ f.position >= n)
    BY <1>0, PushedReach
  <2>2. One(f.node = t /\ f.kind = "array" /\ f.position >= n) = 0
    BY <1>1 DEF One
  <2>3. QED
    BY <2>1, <2>2
<1>7. ItemsAt(sb, t) = ItemsAt(st, t) /\ KeysAt(sb, t) = KeysAt(st, t)
  BY <1>3
<1>8. /\ Opens(sb, t, "object") = Opens(st, t, "object") + 1
      /\ Opens(sb, t, "array") = Opens(st, t, "array") /\ TopAt(sb, t) = 0
      /\ PositionsAt(sb, t) = PositionsAt(st, t)
  BY <1>3, <1>4, <1>5
<1>9. QED
  BY <1>2, <1>3, <1>4, <1>5, <1>6, <1>7, <1>8 DEF ObjectOpened, f, sb

LEMMA SolidSums ==
  ASSUME NEW v, Solid(v)
  PROVE  /\ v.obs \in Nat /\ Mass(v.scalars) \in Nat
         /\ v.object.obs \in Nat /\ v.object.keyCountSum \in Nat
         /\ Mass(v.object.keyCounts) \in Nat /\ Weighted(v.object.keyCounts) \in Nat
         /\ v.array.obs \in Nat /\ v.array.lengthSum \in Nat
         /\ Mass(v.array.lengths) \in Nat /\ Weighted(v.array.lengths) \in Nat
         /\ Mass(v.array.cluster.counters) \in Nat
<1>1. Mass(v.scalars) \in Nat
  BY ScalarMass DEF Solid
<1>2. Mass(v.object.keyCounts) \in Nat /\ Weighted(v.object.keyCounts) \in Nat
  <2>1. IsHistogram(v.object.keyCounts) /\ 0 \in Nat
    BY DEF Solid
  <2>2. QED
    BY <2>1, Ticked
<1>3. Mass(v.array.lengths) \in Nat /\ Weighted(v.array.lengths) \in Nat
  <2>1. IsHistogram(v.array.lengths) /\ 0 \in Nat
    BY DEF Solid
  <2>2. QED
    BY <2>1, Ticked
<1>4. Mass(v.array.cluster.counters) \in Nat
  BY SumType DEF Solid, IsTable, Mass, Held
<1>5. QED
  BY <1>1, <1>2, <1>3, <1>4 DEF Solid

\* An array begins at a node that has seen arrays before.
LEMMA NextArrayBooks ==
  ASSUME NEW ar, IsArena(ar), NEW st, Tidy(st), NEW t \in DOMAIN ar, HasArray(ar[t]),
         Books(ar, st, None, t, TRUE)
  PROVE  Books([ar EXCEPT ![t].array.obs = @ + 1], Append(st, ArrayFrame(t)), None, None, FALSE)
<1> DEFINE b == [ar EXCEPT ![t].array.obs = @ + 1]
           sb == Append(st, ArrayFrame(t))
<1>1. IsNode(ar[t], Len(ar)) /\ None # t
  BY NoneIsNoNode DEF IsArena
<1>2. Inner(ar[t], st, t, t = t, TRUE) /\ Solid(ar[t])
  BY BooksParts
<1>3. /\ DOMAIN b = DOMAIN ar /\ \A u \in DOMAIN ar : u # t => b[u] = ar[u]
      /\ b[t].obs = ar[t].obs /\ b[t].scalars = ar[t].scalars /\ b[t].object = ar[t].object
      /\ b[t].array = [ar[t].array EXCEPT !.obs = @ + 1] /\ DOMAIN b[t] = DOMAIN ar[t]
  BY <1>1 DEF IsNode
<1>4. /\ b[t].array.obs = ar[t].array.obs + 1 /\ b[t].array.lengthSum = ar[t].array.lengthSum
      /\ b[t].array.lengths = ar[t].array.lengths /\ b[t].array.cluster = ar[t].array.cluster
      /\ b[t].array.positional = ar[t].array.positional
      /\ b[t].array.positionalAlive = ar[t].array.positionalAlive
      /\ b[t].array.bagValue = ar[t].array.bagValue /\ DOMAIN b[t].array = DOMAIN ar[t].array
  BY <1>1, <1>3 DEF IsNode, IsArray
<1> HIDE DEF b, sb
<1>5. SameRefs(ar[t], b[t])
  BY <1>3, <1>4 DEF SameRefs
<1>6. /\ \A u : u # t => Undisturbed(st, TRUE, sb, FALSE, u)
      /\ ItemsAt(sb, t) = ItemsAt(st, t) /\ ItemsAt(st, t) \in Nat
      /\ KeysAt(sb, t) = KeysAt(st, t)
      /\ PositionsAt(sb, t) = PositionsAt(st, t) \cup {0}
      /\ Opens(sb, t, "array") = Opens(st, t, "array") + 1 /\ Opens(st, t, "array") \in Nat
      /\ Opens(sb, t, "object") = Opens(st, t, "object")
      /\ TopAt(sb, t) = 1
      /\ \A n \in Nat \ {0} : ReachAt(sb, t, n) = ReachAt(st, t, n)
  <2>1. ArrayOpened(st, t, sb)
    BY ArrayPushed DEF sb
  <2>2. QED
    BY <2>1 DEF ArrayOpened
<1>7. Inner(b[t], sb, t, None = t, FALSE)
  <2>0. /\ Mass(ar[t].scalars) \in Nat /\ Mass(ar[t].array.lengths) \in Nat
        /\ Mass(ar[t].array.cluster.counters) \in Nat
        /\ ar[t].object.obs \in Nat /\ ar[t].array.obs \in Nat /\ ar[t].array.lengthSum \in Nat
    BY <1>2, SolidSums
  <2>1. Solid(b[t])
    <3>1. HasArray(b[t]) /\ HasObject(b[t]) = HasObject(ar[t])
      BY <1>3, <1>4 DEF HasObject, HasArray
    <3>2. b[t].array.obs \in Nat
      BY <1>4, <2>0
    <3>3. QED
      BY <1>2, <1>3, <1>4, <3>1, <3>2 DEF Solid
  <2>2. ByKind(b[t], None = t)
    <3>1. ar[t].obs = Mass(ar[t].scalars) + ar[t].object.obs + ar[t].array.obs + 1
      BY <1>2 DEF Inner, ByKind, One
    <3>2. b[t].obs = Mass(b[t].scalars) + b[t].object.obs + b[t].array.obs + 0
      BY <1>3, <1>4, <2>0, <3>1
    <3>3. QED
      BY <1>1, <3>2 DEF ByKind, One
  <2>3. ObjectSizes(b[t], sb, t)
    BY <1>2, <1>3, <1>6 DEF Inner, ObjectSizes
  <2>4. ArraySizes(b[t], sb, t)
    BY <1>2, <1>4, <1>6, <2>0 DEF Inner, ArraySizes
  <2>5. Clustered(b[t], sb, t, FALSE)
    <3>1. Mass(ar[t].array.cluster.counters) + Opens(st, t, "array") =
            ar[t].array.lengthSum + ItemsAt(st, t) + 0
      BY <1>2 DEF Inner, Clustered
    <3>2. Mass(b[t].array.cluster.counters) + Opens(sb, t, "array") =
            b[t].array.lengthSum + ItemsAt(sb, t) + TopAt(sb, t)
      BY <1>4, <1>6, <2>0, <3>1
    <3>3. QED
      BY <3>2 DEF Clustered
  <2>6. QED
    BY <2>1, <2>2, <2>3, <2>4, <2>5 DEF Inner
<1>8. Positions(b, sb, None, t)
  <2>1. Positions(ar, st, None, t)
    BY BooksParts
  <2>2. \A u \in DOMAIN ar : Seen(b, None, u) = Seen(ar, None, u)
    BY <1>3 DEF Seen
  <2>3. /\ DOMAIN ar[t].array.positional \subseteq Nat \ {0} /\ Len(ar[t].array.positional) \in Nat
        /\ \A n \in DOMAIN ar[t].array.positional : ar[t].array.positional[n] \in DOMAIN ar
    <3>1. Sequence(ar[t].array.positional)
      BY <1>1 DEF IsNode, IsArray
    <3>2. Len(ar[t].array.positional) \in Nat
          /\ DOMAIN ar[t].array.positional = 1 .. Len(ar[t].array.positional)
      BY <3>1, SequenceLen
    <3>3. ItemKids(ar[t]) \subseteq DOMAIN ar
      BY KidsInArena
    <3>4. QED
      BY <3>2, <3>3 DEF ItemKids
  <2>4. CASE HasArray(ar[t]) /\ ar[t].array.positionalAlive
    <3>1. /\ Len(ar[t].array.positional) \in DOMAIN ar[t].array.lengths \cup PositionsAt(st, t)
          /\ \A n \in DOMAIN ar[t].array.lengths \cup PositionsAt(st, t) :
               n <= Len(ar[t].array.positional)
          /\ \A n \in DOMAIN ar[t].array.positional :
               Seen(ar, None, ar[t].array.positional[n]) =
                 LongEnough(ar[t].array.lengths, n) + ReachAt(st, t, n)
      BY <2>1, <2>4 DEF Positions
    <3>2. 0 <= Len(ar[t].array.positional)
      BY <2>3
    <3>3. \A n \in DOMAIN ar[t].array.positional :
            Seen(b, None, ar[t].array.positional[n]) =
              LongEnough(ar[t].array.lengths, n) + ReachAt(sb, t, n)
      BY <1>6, <2>2, <2>3, <3>1
    <3>4. QED
      BY <1>4, <1>6, <3>1, <3>2, <3>3 DEF Positions
  <2>5. CASE ~(HasArray(ar[t]) /\ ar[t].array.positionalAlive)
    BY <1>4, <2>5 DEF Positions, HasArray
  <2>6. QED
    BY <2>4, <2>5
<1>9. Books(b, sb, None, None, FALSE)
  <2>1. b[t].object.keyCountSum = ar[t].object.keyCountSum
    BY <1>3
  <2>2. b[t].array.lengthSum + ItemsAt(sb, t) = ar[t].array.lengthSum + ItemsAt(st, t)
    BY <1>4, <1>6
  <2>3. t \in {None, t} /\ None \in {None, t}
    OBVIOUS
  <2>4. Local(ar, st, TRUE, t, b, sb, FALSE)
    BY <1>3, <1>6 DEF Local
  <2>5. QED
    BY <1>3, <1>5, <1>7, <1>8, <2>1, <2>2, <2>3, <2>4, Entry
<1>10. QED
  BY <1>9 DEF b, sb

\* The first array at a node; its bag has just been allocated.
GivenArray(ar, t, new, b) ==
  /\ DOMAIN b = DOMAIN ar
  /\ \A u \in DOMAIN ar : u # t => b[u] = ar[u]
  /\ b[t].obs = ar[t].obs /\ b[t].scalars = ar[t].scalars /\ b[t].object = ar[t].object
  /\ b[t].array = [NewArray(new) EXCEPT !.obs = 1]

LEMMA FirstArrayBooks ==
  ASSUME NEW ar, IsArena(ar), NEW st, Tidy(st), Frames(st, ar), NEW t \in DOMAIN ar, ~HasArray(ar[t]),
         Books(ar, st, None, t, TRUE), NEW new \in DOMAIN ar, ar[new].obs = 0,
         NEW b, GivenArray(ar, t, new, b)
  PROVE  Books(b, Append(st, ArrayFrame(t)), None, None, FALSE)
<1> DEFINE sb == Append(st, ArrayFrame(t))
<1> HIDE DEF sb
<1>0. /\ DOMAIN b = DOMAIN ar /\ \A u \in DOMAIN ar : u # t => b[u] = ar[u]
      /\ b[t].obs = ar[t].obs /\ b[t].scalars = ar[t].scalars /\ b[t].object = ar[t].object
      /\ new # t => b[new] = ar[new]
  BY DEF GivenArray
<1>1. None # t /\ None # new
  BY NoneIsNoNode
<1>2. Inner(ar[t], st, t, t = t, TRUE) /\ Solid(ar[t])
  BY BooksParts
<1>3. /\ b[t].array.obs = 1 /\ b[t].array.lengthSum = 0
      /\ b[t].array.lengths = NewArray(new).lengths /\ b[t].array.cluster = NewArray(new).cluster
      /\ b[t].array.positional = <<>> /\ b[t].array.bagValue = new
  BY DEF GivenArray, NewArray
<1>4. /\ IsHistogram(b[t].array.lengths) /\ DOMAIN b[t].array.lengths = {}
      /\ Mass(b[t].array.lengths) = 0 /\ Weighted(b[t].array.lengths) = 0
      /\ IsTable(b[t].array.cluster) /\ Mass(b[t].array.cluster.counters) = 0
      /\ DOMAIN b[t].array.positional = {} /\ Len(b[t].array.positional) = 0
  BY <1>3, NewArrayCounts
<1>5. /\ \A u : u # t => Undisturbed(st, TRUE, sb, FALSE, u)
      /\ ItemsAt(sb, t) = ItemsAt(st, t) /\ KeysAt(sb, t) = KeysAt(st, t)
      /\ PositionsAt(sb, t) = PositionsAt(st, t) \cup {0}
      /\ Opens(sb, t, "array") = Opens(st, t, "array") + 1
      /\ Opens(sb, t, "object") = Opens(st, t, "object")
      /\ TopAt(sb, t) = 1
  <2>1. ArrayOpened(st, t, sb)
    BY ArrayPushed DEF sb
  <2>2. QED
    BY <2>1 DEF ArrayOpened
<1>6. ItemsAt(st, t) = 0 /\ PositionsAt(st, t) = {} /\ Opens(st, t, "array") = 0
  BY FramesKind, NoArrays DEF Tidy
<1>7. ar[t].array.obs = 0
  BY <1>2, NewArrayCounts DEF Solid
<1>8. Inner(b[t], sb, t, None = t, FALSE)
  <2>1. Solid(b[t])
    <3>1. HasArray(b[t]) /\ HasObject(b[t]) = HasObject(ar[t])
      BY <1>0, <1>1, <1>3 DEF HasObject, HasArray
    <3>2. QED
      BY <1>0, <1>2, <1>3, <1>4, <3>1 DEF Solid
  <2>2. ByKind(b[t], None = t)
    <3>1. ar[t].obs = Mass(ar[t].scalars) + ar[t].object.obs + ar[t].array.obs + 1
      BY <1>2 DEF Inner, ByKind, One
    <3>2. Mass(ar[t].scalars) \in Nat /\ ar[t].object.obs \in Nat
      BY <1>2, SolidSums
    <3>3. b[t].obs = Mass(b[t].scalars) + b[t].object.obs + b[t].array.obs + 0
      BY <1>0, <1>3, <1>7, <3>1, <3>2
    <3>4. QED
      BY <1>1, <3>3 DEF ByKind, One
  <2>3. ObjectSizes(b[t], sb, t)
    BY <1>0, <1>2, <1>5 DEF Inner, ObjectSizes
  <2>4. ArraySizes(b[t], sb, t)
    BY <1>3, <1>4, <1>5, <1>6 DEF ArraySizes
  <2>5. Clustered(b[t], sb, t, FALSE)
    BY <1>3, <1>4, <1>5, <1>6 DEF Clustered
  <2>6. QED
    BY <2>1, <2>2, <2>3, <2>4, <2>5 DEF Inner
<1>9. \A u \in DOMAIN ar : ar[u].obs \in Nat /\ Seen(b, None, u) = Seen(ar, None, u)
  <2>1. \A u \in DOMAIN ar : b[u].obs = ar[u].obs
    BY <1>0
  <2>2. QED
    BY <2>1, BooksParts DEF Seen
<1>10. \A u \in DOMAIN ar : SameSeen(ar, None, b, None, ar[u])
  BY <1>9, SeenEverywhere
<1>11. KidsObserve(b, sb, None, t)
  <2>1. KidsObserve(ar, st, None, t)
    BY BooksParts
  <2>2. HasObject(b[t]) = HasObject(ar[t]) /\ FieldKids(b[t]) = FieldKids(ar[t])
        /\ b[t].object.keyCountSum = ar[t].object.keyCountSum
    BY <1>0 DEF HasObject, FieldKids
  <2>3. HasObject(ar[t]) => SeenIn(b, None, FieldKids(ar[t])) = SeenIn(ar, None, FieldKids(ar[t]))
    <3>1. ASSUME HasObject(ar[t])
          PROVE  /\ IsFiniteSet(FieldKids(ar[t])) /\ FieldKids(ar[t]) \subseteq DOMAIN ar
                 /\ FieldKids(ar[t]) \subseteq DOMAIN b
                 /\ \A k \in FieldKids(ar[t]) : ar[k].obs \in Nat /\ Seen(b, None, k) = Seen(ar, None, k)
      BY <1>0, <1>9, <3>1, KidsInArena
    <3>2. QED
      BY <3>1, SeenInSame
  <2>4. ItemKids(b[t]) = {} \cup {new}
    BY <1>3, <1>4 DEF ItemKids
  <2>5. SeenIn(b, None, {} \cup {new}) = SeenIn(b, None, {}) + Seen(b, None, new)
    <3>1. IsFiniteSet({}) /\ {} \subseteq DOMAIN b /\ new \notin {} /\ new \in DOMAIN b
          /\ \A u \in {} \cup {new} : b[u].obs \in Nat
      <4>1. b[new].obs = 0
        BY <1>0
      <4>2. QED
        BY <1>0, <4>1, FS_EmptySet
    <3>2. QED
      BY <3>1, SeenInAdded
  <2>6. SeenIn(b, None, {}) = 0 /\ Seen(b, None, new) = 0
    BY <1>0, <1>1, SumEmpty DEF SeenIn, Seen, One
  <2>7. b[t].array.lengthSum + ItemsAt(sb, t) = SeenIn(b, None, ItemKids(b[t]))
    BY <1>3, <1>5, <1>6, <2>4, <2>5, <2>6
  <2>8. QED
    BY <2>1, <2>2, <2>3, <2>7 DEF KidsObserve
<1>12. Positions(b, sb, None, t)
  BY <1>4, <1>5, <1>6 DEF Positions
<1>13. Aside(ar, st, None, TRUE, t, b, sb, None, FALSE)
  BY <1>0, <1>5, <1>10 DEF Aside
<1>14. ASSUME NEW u \in DOMAIN ar, u # t
       PROVE  BooksAt(b, sb, None, None, FALSE, u)
  <2>1. None = u <=> t = u
    BY <1>14, NoneIsNoNode
  <2>2. Books(ar, st, None, t, TRUE) /\ IsArena(ar)
    OBVIOUS
  <2> DEFINE none == None
             no == FALSE
             yes == TRUE
  <2>3. /\ none = u <=> t = u
        /\ Aside(ar, st, none, yes, t, b, sb, none, no)
        /\ Books(ar, st, none, t, yes)
    BY <1>13, <2>1, <2>2
  <2> HIDE DEF none, no, yes
  <2>4. BooksAt(b, sb, none, none, no, u)
    BY <1>14, <2>2, <2>3, Others
  <2>5. QED
    BY <2>4 DEF none, no
<1>15. QED
  BY <1>0, <1>8, <1>11, <1>12, <1>14 DEF Books, BooksAt, sb

\* An object begins at a node that has seen objects before.
LEMMA NextObjectBooks ==
  ASSUME NEW ar, IsArena(ar), NEW st, Tidy(st), NEW t \in DOMAIN ar, HasObject(ar[t]),
         Books(ar, st, None, t, TRUE)
  PROVE  Books([ar EXCEPT ![t].object.obs = @ + 1], Append(st, ObjectFrame(t)), None, None, FALSE)
<1> DEFINE b == [ar EXCEPT ![t].object.obs = @ + 1]
           sb == Append(st, ObjectFrame(t))
<1>1. IsNode(ar[t], Len(ar)) /\ None # t
  BY NoneIsNoNode DEF IsArena
<1>2. Inner(ar[t], st, t, t = t, TRUE) /\ Solid(ar[t])
  BY BooksParts
<1>3. /\ DOMAIN b = DOMAIN ar /\ \A u \in DOMAIN ar : u # t => b[u] = ar[u]
      /\ b[t].obs = ar[t].obs /\ b[t].scalars = ar[t].scalars /\ b[t].array = ar[t].array
      /\ b[t].object = [ar[t].object EXCEPT !.obs = @ + 1] /\ DOMAIN b[t] = DOMAIN ar[t]
  BY <1>1 DEF IsNode
<1>4. /\ b[t].object.obs = ar[t].object.obs + 1
      /\ b[t].object.keyCountSum = ar[t].object.keyCountSum
      /\ b[t].object.keyCounts = ar[t].object.keyCounts
      /\ b[t].object.fields = ar[t].object.fields
      /\ b[t].object.mapValue = ar[t].object.mapValue /\ DOMAIN b[t].object = DOMAIN ar[t].object
  BY <1>1, <1>3 DEF IsNode, IsObject
<1> HIDE DEF b, sb
<1>5. SameRefs(ar[t], b[t])
  BY <1>3, <1>4 DEF SameRefs
<1>6. /\ \A u : u # t => Undisturbed(st, TRUE, sb, FALSE, u)
      /\ ItemsAt(sb, t) = ItemsAt(st, t) /\ KeysAt(sb, t) = KeysAt(st, t)
      /\ PositionsAt(sb, t) = PositionsAt(st, t)
      /\ Opens(sb, t, "array") = Opens(st, t, "array")
      /\ Opens(sb, t, "object") = Opens(st, t, "object") + 1 /\ Opens(st, t, "object") \in Nat
      /\ TopAt(sb, t) = 0
      /\ \A n : ReachAt(sb, t, n) = ReachAt(st, t, n)
  <2>1. ObjectOpened(st, t, sb)
    BY ObjectPushed DEF sb
  <2>2. QED
    BY <2>1 DEF ObjectOpened
<1>7. Inner(b[t], sb, t, None = t, FALSE)
  <2>0. /\ Mass(ar[t].scalars) \in Nat /\ Mass(ar[t].object.keyCounts) \in Nat
        /\ ar[t].object.obs \in Nat /\ ar[t].array.obs \in Nat
    BY <1>2, SolidSums
  <2>1. Solid(b[t])
    <3>1. HasArray(b[t]) = HasArray(ar[t]) /\ HasObject(b[t])
      BY <1>3, <1>4 DEF HasObject, HasArray
    <3>2. b[t].object.obs \in Nat
      BY <1>4, <2>0
    <3>3. QED
      BY <1>2, <1>3, <1>4, <3>1, <3>2 DEF Solid
  <2>2. ByKind(b[t], None = t)
    <3>1. ar[t].obs = Mass(ar[t].scalars) + ar[t].object.obs + ar[t].array.obs + 1
      BY <1>2 DEF Inner, ByKind, One
    <3>2. b[t].obs = Mass(b[t].scalars) + b[t].object.obs + b[t].array.obs + 0
      BY <1>3, <1>4, <2>0, <3>1
    <3>3. QED
      BY <1>1, <3>2 DEF ByKind, One
  <2>3. ObjectSizes(b[t], sb, t)
    BY <1>2, <1>4, <1>6, <2>0 DEF Inner, ObjectSizes
  <2>4. ArraySizes(b[t], sb, t)
    BY <1>2, <1>3, <1>6 DEF Inner, ArraySizes
  <2>5. Clustered(b[t], sb, t, FALSE)
    BY <1>2, <1>3, <1>6 DEF Inner, Clustered
  <2>6. QED
    BY <2>1, <2>2, <2>3, <2>4, <2>5 DEF Inner
<1>8. b[t].array = ar[t].array /\ \A u \in DOMAIN ar : b[u].obs = ar[u].obs
  BY <1>3
<1>9. Positions(b, sb, None, t)
  <2>1. /\ DOMAIN b = DOMAIN ar
        /\ b[t].array.positionalAlive = ar[t].array.positionalAlive
        /\ DOMAIN b[t].array.lengths \cup PositionsAt(sb, t) =
             DOMAIN ar[t].array.lengths \cup PositionsAt(st, t)
        /\ \A n : LongEnough(b[t].array.lengths, n) + ReachAt(sb, t, n) =
                    LongEnough(ar[t].array.lengths, n) + ReachAt(st, t, n)
    BY <1>3, <1>6, <1>8
  <2>2. QED
    BY <1>5, <1>8, <2>1, PositionsStay
<1>10. Books(b, sb, None, None, FALSE)
  <2>1. b[t].object.keyCountSum = ar[t].object.keyCountSum
    BY <1>4
  <2>2. b[t].array.lengthSum + ItemsAt(sb, t) = ar[t].array.lengthSum + ItemsAt(st, t)
    BY <1>6, <1>8
  <2>3. t \in {None, t} /\ None \in {None, t}
    OBVIOUS
  <2>4. Local(ar, st, TRUE, t, b, sb, FALSE)
    BY <1>3, <1>6 DEF Local
  <2>5. QED
    BY <1>3, <1>5, <1>7, <1>9, <2>1, <2>2, <2>3, <2>4, Entry
<1>11. QED
  BY <1>10 DEF b, sb

\* The first object at a node; its map node has just been allocated.
GivenObject(ar, t, new, b) ==
  /\ DOMAIN b = DOMAIN ar
  /\ \A u \in DOMAIN ar : u # t => b[u] = ar[u]
  /\ b[t].obs = ar[t].obs /\ b[t].scalars = ar[t].scalars /\ b[t].array = ar[t].array
  /\ b[t].object = [NewObject(new) EXCEPT !.obs = 1]

LEMMA FirstObjectBooks ==
  ASSUME NEW ar, IsArena(ar), NEW st, Tidy(st), Frames(st, ar), NEW t \in DOMAIN ar, ~HasObject(ar[t]),
         Books(ar, st, None, t, TRUE), NEW new \in DOMAIN ar, ar[new].obs = 0,
         NEW b, GivenObject(ar, t, new, b)
  PROVE  Books(b, Append(st, ObjectFrame(t)), None, None, FALSE)
<1> DEFINE sb == Append(st, ObjectFrame(t))
<1> HIDE DEF sb
<1>0. /\ DOMAIN b = DOMAIN ar /\ \A u \in DOMAIN ar : u # t => b[u] = ar[u]
      /\ b[t].obs = ar[t].obs /\ b[t].scalars = ar[t].scalars /\ b[t].array = ar[t].array
      /\ new # t => b[new] = ar[new]
  BY DEF GivenObject
<1>1. None # t /\ None # new
  BY NoneIsNoNode
<1>2. Inner(ar[t], st, t, t = t, TRUE) /\ Solid(ar[t])
  BY BooksParts
<1>3. /\ b[t].object.obs = 1 /\ b[t].object.keyCountSum = 0
      /\ b[t].object.keyCounts = NewObject(new).keyCounts
      /\ b[t].object.fields = NewObject(new).fields /\ b[t].object.mapValue = new
  BY DEF GivenObject, NewObject
<1>4. /\ IsHistogram(b[t].object.keyCounts)
      /\ Mass(b[t].object.keyCounts) = 0 /\ Weighted(b[t].object.keyCounts) = 0
      /\ DOMAIN b[t].object.fields = {}
  BY <1>3, NewObjectCounts
<1>5. /\ \A u : u # t => Undisturbed(st, TRUE, sb, FALSE, u)
      /\ ItemsAt(sb, t) = ItemsAt(st, t) /\ KeysAt(sb, t) = KeysAt(st, t)
      /\ PositionsAt(sb, t) = PositionsAt(st, t)
      /\ Opens(sb, t, "array") = Opens(st, t, "array")
      /\ Opens(sb, t, "object") = Opens(st, t, "object") + 1
      /\ TopAt(sb, t) = 0
      /\ \A n : ReachAt(sb, t, n) = ReachAt(st, t, n)
  <2>1. ObjectOpened(st, t, sb)
    BY ObjectPushed DEF sb
  <2>2. QED
    BY <2>1 DEF ObjectOpened
<1>6. KeysAt(st, t) = 0 /\ Opens(st, t, "object") = 0
  BY FramesKind, NoObjects
<1>7. ar[t].object.obs = 0
  BY <1>2, NewObjectCounts DEF Solid
<1>8. Inner(b[t], sb, t, None = t, FALSE)
  <2>1. Solid(b[t])
    <3>1. HasObject(b[t]) /\ HasArray(b[t]) = HasArray(ar[t])
      BY <1>0, <1>1, <1>3 DEF HasObject, HasArray
    <3>2. QED
      BY <1>0, <1>2, <1>3, <1>4, <3>1 DEF Solid
  <2>2. ByKind(b[t], None = t)
    <3>1. ar[t].obs = Mass(ar[t].scalars) + ar[t].object.obs + ar[t].array.obs + 1
      BY <1>2 DEF Inner, ByKind, One
    <3>2. Mass(ar[t].scalars) \in Nat /\ ar[t].array.obs \in Nat
      BY <1>2, SolidSums
    <3>3. b[t].obs = Mass(b[t].scalars) + b[t].object.obs + b[t].array.obs + 0
      BY <1>0, <1>3, <1>7, <3>1, <3>2
    <3>4. QED
      BY <1>1, <3>3 DEF ByKind, One
  <2>3. ObjectSizes(b[t], sb, t)
    BY <1>3, <1>4, <1>5, <1>6 DEF ObjectSizes
  <2>4. ArraySizes(b[t], sb, t)
    BY <1>0, <1>2, <1>5 DEF Inner, ArraySizes
  <2>5. Clustered(b[t], sb, t, FALSE)
    BY <1>0, <1>2, <1>5 DEF Inner, Clustered
  <2>6. QED
    BY <2>1, <2>2, <2>3, <2>4, <2>5 DEF Inner
<1>9. \A u \in DOMAIN ar : ar[u].obs \in Nat /\ Seen(b, None, u) = Seen(ar, None, u)
  <2>1. \A u \in DOMAIN ar : b[u].obs = ar[u].obs
    BY <1>0
  <2>2. QED
    BY <2>1, BooksParts DEF Seen
<1>10. \A u \in DOMAIN ar : SameSeen(ar, None, b, None, ar[u])
  BY <1>9, SeenEverywhere
<1>11. KidsObserve(b, sb, None, t)
  <2>1. KidsObserve(ar, st, None, t)
    BY BooksParts
  <2>2. HasArray(b[t]) = HasArray(ar[t]) /\ ItemKids(b[t]) = ItemKids(ar[t])
        /\ b[t].array.lengthSum = ar[t].array.lengthSum
    BY <1>0 DEF HasArray, ItemKids
  <2>3. HasArray(ar[t]) => SeenIn(b, None, ItemKids(ar[t])) = SeenIn(ar, None, ItemKids(ar[t]))
    <3>1. ASSUME HasArray(ar[t])
          PROVE  /\ IsFiniteSet(ItemKids(ar[t])) /\ ItemKids(ar[t]) \subseteq DOMAIN ar
                 /\ ItemKids(ar[t]) \subseteq DOMAIN b
                 /\ \A k \in ItemKids(ar[t]) : ar[k].obs \in Nat /\ Seen(b, None, k) = Seen(ar, None, k)
      BY <1>0, <1>9, <3>1, KidsInArena
    <3>2. QED
      BY <3>1, SeenInSame
  <2>4. FieldKids(b[t]) = {} \cup {new}
    BY <1>3, <1>4 DEF FieldKids
  <2>5. SeenIn(b, None, {} \cup {new}) = SeenIn(b, None, {}) + Seen(b, None, new)
    <3>1. IsFiniteSet({}) /\ {} \subseteq DOMAIN b /\ new \notin {} /\ new \in DOMAIN b
          /\ \A u \in {} \cup {new} : b[u].obs \in Nat
      <4>1. b[new].obs = 0
        BY <1>0
      <4>2. QED
        BY <1>0, <4>1, FS_EmptySet
    <3>2. QED
      BY <3>1, SeenInAdded
  <2>6. SeenIn(b, None, {}) = 0 /\ Seen(b, None, new) = 0
    BY <1>0, <1>1, SumEmpty DEF SeenIn, Seen, One
  <2>7. b[t].object.keyCountSum = SeenIn(b, None, FieldKids(b[t]))
    BY <1>3, <2>4, <2>5, <2>6
  <2>8. QED
    BY <1>5, <2>1, <2>2, <2>3, <2>7 DEF KidsObserve
<1>12. Positions(b, sb, None, t)
  <2>1. /\ HasArray(b[t]) = HasArray(ar[t])
        /\ b[t].array.positionalAlive = ar[t].array.positionalAlive
        /\ b[t].array.positional = ar[t].array.positional
        /\ DOMAIN b[t].array.lengths \cup PositionsAt(sb, t) =
             DOMAIN ar[t].array.lengths \cup PositionsAt(st, t)
        /\ \A n : LongEnough(b[t].array.lengths, n) + ReachAt(sb, t, n) =
                    LongEnough(ar[t].array.lengths, n) + ReachAt(st, t, n)
    BY <1>0, <1>5 DEF HasArray
  <2>2. Positions(ar, st, None, t) /\ SameSeen(ar, None, b, None, ar[t])
    BY <1>10, BooksParts
  <2>3. QED
    BY <2>1, <2>2, PositionsKept
<1>13. Aside(ar, st, None, TRUE, t, b, sb, None, FALSE)
  BY <1>0, <1>5, <1>10 DEF Aside
<1>14. ASSUME NEW u \in DOMAIN ar, u # t
       PROVE  BooksAt(b, sb, None, None, FALSE, u)
  <2>1. None = u <=> t = u
    BY <1>14, NoneIsNoNode
  <2>2. Books(ar, st, None, t, TRUE) /\ IsArena(ar)
    OBVIOUS
  <2> DEFINE none == None
             no == FALSE
             yes == TRUE
  <2>3. /\ none = u <=> t = u
        /\ Aside(ar, st, none, yes, t, b, sb, none, no)
        /\ Books(ar, st, none, t, yes)
    BY <1>13, <2>1, <2>2
  <2> HIDE DEF none, no, yes
  <2>4. BooksAt(b, sb, none, none, no, u)
    BY <1>14, <2>2, <2>3, Others
  <2>5. QED
    BY <2>4 DEF none, no
<1>15. QED
  BY <1>0, <1>8, <1>11, <1>12, <1>14 DEF Books, BooksAt, sb

LEMMA OpenArrayBooks ==
  ASSUME NEW ar, IsArena(ar), NEW st, Tidy(st), Frames(st, ar), NEW t \in DOMAIN ar,
         Books(ar, st, None, t, TRUE)
  PROVE  Books([EnsureArray(ar, t) EXCEPT ![t].array.obs = @ + 1], Append(st, ArrayFrame(t)),
               None, None, FALSE)
<1>1. CASE HasArray(ar[t])
  BY <1>1, NextArrayBooks DEF EnsureArray
<1>2. CASE ~HasArray(ar[t])
  <2> DEFINE c == Alloc(ar)
             new == FreshId(ar)
             b == [[c EXCEPT ![t].array = NewArray(new)] EXCEPT ![t].array.obs = @ + 1]
  <2>1. /\ DOMAIN c = DOMAIN ar \cup {new} /\ new \notin DOMAIN ar
        /\ c[new] = NewNode /\ \A u \in DOMAIN ar : c[u] = ar[u]
    BY AllocNodes
  <2>2. Grows(ar, c) /\ IsArena(c)
    BY AllocGrows DEF Grows
  <2> HIDE DEF c, new
  <2>3. Books(c, st, None, t, TRUE)
    BY AllocBooks DEF c
  <2>4. Frames(st, c)
    BY <2>2, FramesGrow
  <2>5. t \in DOMAIN c /\ new \in DOMAIN c /\ ~HasArray(c[t]) /\ c[new].obs = 0
    BY <1>2, <2>1 DEF NewNode
  <2>6. GivenArray(c, t, new, b)
    <3>1. IsNode(c[t], Len(c))
      BY <2>2, <2>5 DEF IsArena
    <3>2. /\ DOMAIN b = DOMAIN c /\ \A u \in DOMAIN c : u # t => b[u] = c[u]
          /\ b[t].obs = c[t].obs /\ b[t].scalars = c[t].scalars /\ b[t].object = c[t].object
          /\ b[t].array = [NewArray(new) EXCEPT !.obs = @ + 1]
      BY <2>5, <3>1 DEF IsNode
    <3> HIDE DEF b
    <3>3. [NewArray(new) EXCEPT !.obs = @ + 1] = [NewArray(new) EXCEPT !.obs = 1]
      BY DEF NewArray
    <3>4. QED
      BY <3>2, <3>3 DEF GivenArray
  <2> HIDE DEF b
  <2>7. Books(b, Append(st, ArrayFrame(t)), None, None, FALSE)
    BY <2>2, <2>3, <2>4, <2>5, <2>6, FirstArrayBooks
  <2>8. QED
    BY <1>2, <2>7 DEF EnsureArray, b, c, new
<1>3. QED
  BY <1>1, <1>2

LEMMA OpenObjectBooks ==
  ASSUME NEW ar, IsArena(ar), NEW st, Tidy(st), Frames(st, ar), NEW t \in DOMAIN ar,
         Books(ar, st, None, t, TRUE)
  PROVE  Books([EnsureObject(ar, t) EXCEPT ![t].object.obs = @ + 1], Append(st, ObjectFrame(t)),
               None, None, FALSE)
<1>1. CASE HasObject(ar[t])
  BY <1>1, NextObjectBooks DEF EnsureObject
<1>2. CASE ~HasObject(ar[t])
  <2> DEFINE c == Alloc(ar)
             new == FreshId(ar)
             b == [[c EXCEPT ![t].object = NewObject(new)] EXCEPT ![t].object.obs = @ + 1]
  <2>1. /\ DOMAIN c = DOMAIN ar \cup {new} /\ new \notin DOMAIN ar
        /\ c[new] = NewNode /\ \A u \in DOMAIN ar : c[u] = ar[u]
    BY AllocNodes
  <2>2. Grows(ar, c) /\ IsArena(c)
    BY AllocGrows DEF Grows
  <2> HIDE DEF c, new
  <2>3. Books(c, st, None, t, TRUE)
    BY AllocBooks DEF c
  <2>4. Frames(st, c)
    BY <2>2, FramesGrow
  <2>5. t \in DOMAIN c /\ new \in DOMAIN c /\ ~HasObject(c[t]) /\ c[new].obs = 0
    BY <1>2, <2>1 DEF NewNode
  <2>6. GivenObject(c, t, new, b)
    <3>1. IsNode(c[t], Len(c))
      BY <2>2, <2>5 DEF IsArena
    <3>2. /\ DOMAIN b = DOMAIN c /\ \A u \in DOMAIN c : u # t => b[u] = c[u]
          /\ b[t].obs = c[t].obs /\ b[t].scalars = c[t].scalars /\ b[t].array = c[t].array
          /\ b[t].object = [NewObject(new) EXCEPT !.obs = @ + 1]
      BY <2>5, <3>1 DEF IsNode
    <3> HIDE DEF b
    <3>3. [NewObject(new) EXCEPT !.obs = @ + 1] = [NewObject(new) EXCEPT !.obs = 1]
      BY DEF NewObject
    <3>4. QED
      BY <3>2, <3>3 DEF GivenObject
  <2> HIDE DEF b
  <2>7. Books(b, Append(st, ObjectFrame(t)), None, None, FALSE)
    BY <2>2, <2>3, <2>4, <2>5, <2>6, FirstObjectBooks
  <2>8. QED
    BY <1>2, <2>7 DEF EnsureObject, b, c, new
<1>3. QED
  BY <1>1, <1>2

-----------------------------------------------------------------------------
(* A key is passed.                                                        *)
\* A node that nobody has seen becomes a field.
GivenField(ar, o, key, new, b) ==
  /\ DOMAIN b = DOMAIN ar
  /\ \A u \in DOMAIN ar : u # o => b[u] = ar[u]
  /\ b[o].obs = ar[o].obs /\ b[o].scalars = ar[o].scalars /\ b[o].array = ar[o].array
  /\ b[o].object.obs = ar[o].object.obs
  /\ b[o].object.keyCountSum = ar[o].object.keyCountSum
  /\ b[o].object.keyCounts = ar[o].object.keyCounts
  /\ b[o].object.mapValue = ar[o].object.mapValue
  /\ DOMAIN b[o].object.fields = DOMAIN ar[o].object.fields \cup {key}
  /\ b[o].object.fields[key] = new
  /\ \A k \in DOMAIN ar[o].object.fields : b[o].object.fields[k] = ar[o].object.fields[k]

LEMMA FieldBooks ==
  ASSUME NEW ar, IsArena(ar), NEW st, NEW begun, Books(ar, st, None, None, begun),
         NEW o \in DOMAIN ar, HasObject(ar[o]), NEW key, NEW new \in DOMAIN ar, ar[new].obs = 0,
         NEW b, GivenField(ar, o, key, new, b)
  PROVE  Books(b, st, None, None, begun)
<1>0. /\ DOMAIN b = DOMAIN ar /\ \A u \in DOMAIN ar : u # o => b[u] = ar[u]
      /\ b[o].obs = ar[o].obs /\ b[o].scalars = ar[o].scalars /\ b[o].array = ar[o].array
      /\ \A u \in DOMAIN ar : b[u].obs = ar[u].obs
  BY DEF GivenField
<1>1. None # o /\ None # new
  BY NoneIsNoNode
<1>2. Inner(ar[o], st, o, None = o, begun) /\ Solid(ar[o])
  BY BooksParts
<1>3. HasObject(b[o]) /\ HasArray(b[o]) = HasArray(ar[o])
      /\ FieldKids(b[o]) = FieldKids(ar[o]) \cup {new} /\ ItemKids(b[o]) = ItemKids(ar[o])
  BY DEF GivenField, HasObject, HasArray, FieldKids, ItemKids
<1>4. Inner(b[o], st, o, None = o, begun)
  <2>1. Solid(b[o])
    BY <1>0, <1>2, <1>3 DEF Solid, GivenField
  <2>2. ByKind(b[o], None = o) /\ ObjectSizes(b[o], st, o)
    BY <1>2 DEF Inner, ByKind, ObjectSizes, GivenField
  <2>3. ArraySizes(b[o], st, o) /\ Clustered(b[o], st, o, begun)
    BY <1>0, <1>2 DEF Inner, ArraySizes, Clustered
  <2>4. QED
    BY <2>1, <2>2, <2>3 DEF Inner
<1>5. \A u \in DOMAIN ar : ar[u].obs \in Nat /\ Seen(b, None, u) = Seen(ar, None, u)
  BY <1>0, BooksParts DEF Seen
<1>6. \A u \in DOMAIN ar : SameSeen(ar, None, b, None, ar[u])
  BY <1>5, SeenEverywhere
<1>7. KidsObserve(b, st, None, o)
  <2>1. KidsObserve(ar, st, None, o)
    BY BooksParts
  <2>2. HasArray(ar[o]) => SeenIn(b, None, ItemKids(ar[o])) = SeenIn(ar, None, ItemKids(ar[o]))
    <3>1. ASSUME HasArray(ar[o])
          PROVE  /\ IsFiniteSet(ItemKids(ar[o])) /\ ItemKids(ar[o]) \subseteq DOMAIN ar
                 /\ ItemKids(ar[o]) \subseteq DOMAIN b
                 /\ \A k \in ItemKids(ar[o]) : ar[k].obs \in Nat /\ Seen(b, None, k) = Seen(ar, None, k)
      BY <1>0, <1>5, <3>1, KidsInArena
    <3>2. QED
      BY <3>1, SeenInSame
  <2> DEFINE S == FieldKids(ar[o])
  <2>3. IsFiniteSet(S) /\ S \subseteq DOMAIN ar /\ S \subseteq DOMAIN b
    BY <1>0, KidsInArena
  <2>4. SeenIn(b, None, S) \in Nat /\ SeenIn(ar, None, S) \in Nat
        /\ SeenIn(b, None, S) = SeenIn(ar, None, S)
    <3>1. \A k \in S : ar[k].obs \in Nat /\ Seen(b, None, k) = Seen(ar, None, k)
      BY <1>5, <2>3
    <3> HIDE DEF S
    <3>2. SeenIn(ar, None, S) \in Nat /\ SeenIn(b, None, S) = SeenIn(ar, None, S)
      BY <2>3, <3>1, SeenInSame
    <3>3. QED
      BY <3>2
  <2>5. SeenIn(b, None, S \cup {new}) = SeenIn(b, None, S)
    <3>1. CASE new \in S
      <4>1. S \cup {new} = S
        BY <3>1
      <4>2. QED
        BY <4>1
    <3>2. CASE new \notin S
      <4>1. Seen(b, None, new) = 0
        BY <1>0, <1>1 DEF Seen, One
      <4>2. \A u \in S \cup {new} : b[u].obs \in Nat
        BY <1>0, <1>5, <2>3
      <4> HIDE DEF S
      <4>3. SeenIn(b, None, S \cup {new}) = SeenIn(b, None, S) + Seen(b, None, new)
        BY <1>0, <2>3, <3>2, <4>2, SeenInAdded
      <4>4. QED
        BY <2>4, <4>1, <4>3
    <3>3. QED
      BY <3>1, <3>2
  <2>6. b[o].object.keyCountSum = SeenIn(b, None, FieldKids(b[o]))
    BY <1>3, <2>1, <2>4, <2>5 DEF GivenField, KidsObserve
  <2>7. QED
    BY <1>0, <1>3, <2>1, <2>2, <2>6 DEF KidsObserve
<1>8. Positions(b, st, None, o)
  <2>1. Positions(ar, st, None, o) /\ SameSeen(ar, None, b, None, ar[o])
    BY <1>6, BooksParts
  <2>2. QED
    BY <1>0, <1>3, <2>1, PositionsKept
<1>9. Aside(ar, st, None, begun, o, b, st, None, begun)
  BY <1>0, <1>6, UndisturbedSame DEF Aside
<1>10. ASSUME NEW u \in DOMAIN ar, u # o
       PROVE  BooksAt(b, st, None, None, begun, u)
  <2> DEFINE none == None
  <2>1. /\ none = u <=> none = u
        /\ Aside(ar, st, none, begun, o, b, st, none, begun)
        /\ Books(ar, st, none, none, begun)
    BY <1>9
  <2> HIDE DEF none
  <2>2. BooksAt(b, st, none, none, begun, u)
    BY <1>10, <2>1, Others
  <2>3. QED
    BY <2>2 DEF none
<1>11. QED
  BY <1>0, <1>4, <1>7, <1>8, <1>10 DEF Books, BooksAt

LEMMA RecordRetiresBooks ==
  ASSUME NEW ar, IsArena(ar), NEW st, NEW begun, Books(ar, st, None, None, begun),
         NEW o \in DOMAIN ar, HasObject(ar[o])
  PROVE  Books([ar EXCEPT ![o].object.recordAlive = FALSE], st, None, None, begun)
<1> DEFINE b == [ar EXCEPT ![o].object.recordAlive = FALSE]
<1>0. IsArena(ar)
  OBVIOUS
<1>1. IsNode(ar[o], Len(ar)) /\ None # o
  BY NoneIsNoNode DEF IsArena
<1>2. /\ DOMAIN b = DOMAIN ar /\ \A u \in DOMAIN ar : u # o => b[u] = ar[u]
      /\ b[o].obs = ar[o].obs /\ b[o].scalars = ar[o].scalars /\ b[o].array = ar[o].array
      /\ b[o].object = [ar[o].object EXCEPT !.recordAlive = FALSE] /\ DOMAIN b[o] = DOMAIN ar[o]
  BY <1>1 DEF IsNode
<1>3. /\ b[o].object.obs = ar[o].object.obs
      /\ b[o].object.keyCountSum = ar[o].object.keyCountSum
      /\ b[o].object.keyCounts = ar[o].object.keyCounts
      /\ b[o].object.fields = ar[o].object.fields
      /\ b[o].object.mapValue = ar[o].object.mapValue /\ DOMAIN b[o].object = DOMAIN ar[o].object
  BY <1>1, <1>2 DEF IsNode, IsObject
<1> HIDE DEF b
<1>4. SameRefs(ar[o], b[o])
  BY <1>2, <1>3 DEF SameRefs
<1>5. Inner(ar[o], st, o, None = o, begun) /\ Solid(ar[o])
  BY BooksParts
<1>6. Inner(b[o], st, o, None = o, begun)
  <2>1. HasObject(b[o]) /\ HasArray(b[o]) = HasArray(ar[o])
    BY <1>2, <1>3 DEF HasObject, HasArray
  <2>2. Solid(b[o])
    BY <1>2, <1>3, <1>5, <2>1 DEF Solid
  <2>3. ByKind(b[o], None = o) /\ ObjectSizes(b[o], st, o)
    BY <1>2, <1>3, <1>5 DEF Inner, ByKind, ObjectSizes
  <2>4. ArraySizes(b[o], st, o) /\ Clustered(b[o], st, o, begun)
    BY <1>2, <1>5 DEF Inner, ArraySizes, Clustered
  <2>5. QED
    BY <2>2, <2>3, <2>4 DEF Inner
<1>7. Books(b, st, None, None, begun)
  <2>1. /\ b[o].array.positionalAlive = ar[o].array.positionalAlive
        /\ b[o].array.lengthSum = ar[o].array.lengthSum
        /\ b[o].array.lengths = ar[o].array.lengths
    BY <1>2
  <2> DEFINE none == None
             c == None
  <2>2. /\ none \in {None, o} /\ c \in {None, o}
        /\ Books(ar, st, None, none, begun) /\ Inner(b[o], st, o, c = o, begun)
    BY <1>6
  <2>0. /\ DOMAIN b = DOMAIN ar /\ \A u \in DOMAIN ar : u # o => b[u] = ar[u]
        /\ b[o].obs = ar[o].obs /\ b[o].object.keyCountSum = ar[o].object.keyCountSum
    BY <1>2, <1>3
  <2> HIDE DEF none, c
  <2>3. Books(b, st, None, c, begun)
    BY <1>0, <1>4, <2>0, <2>1, <2>2, EntryInPlace
  <2>4. QED
    BY <2>3 DEF c
<1>8. QED
  BY <1>7 DEF b

\* The node for a key is a field or the map node.
LEMMA ObjectChildBooks ==
  ASSUME NEW ar, Good(ar), NEW st, Frames(st, ar), NEW begun, Books(ar, st, None, None, begun),
         NEW o \in DOMAIN ar, HasObject(ar[o]), NEW key
  PROVE  LET child == ObjectChild(ar, o, key)
         IN /\ Books(child.arena, st, None, None, begun)
            /\ o \in DOMAIN child.arena /\ HasObject(child.arena[o])
            /\ child.id \in FieldKids(child.arena[o])
<1> DEFINE child == ObjectChild(ar, o, key)
           obj == ar[o].object
           known == key \in DOMAIN obj.fields
           fresh == ~known /\ RecordHasRoom(obj)
<1>0. IsArena(ar)
  BY DEF Good
<1>1. CASE known
  <2>1. child.arena = ar /\ child.id = obj.fields[key]
    BY <1>1 DEF ObjectChild
  <2>2. QED
    BY <1>1, <2>1 DEF FieldKids
<1>2. CASE fresh
  <2> DEFINE c == Alloc(ar)
             new == FreshId(ar)
             b == [c EXCEPT ![o].object.fields =
                     [k \in DOMAIN @ \cup {key} |-> IF k = key THEN new ELSE @[k]]]
  <2>0. child.arena = b /\ child.id = new
    BY <1>2 DEF ObjectChild
  <2>1. /\ DOMAIN c = DOMAIN ar \cup {new} /\ new \notin DOMAIN ar
        /\ c[new] = NewNode /\ \A u \in DOMAIN ar : c[u] = ar[u]
    BY <1>0, AllocNodes
  <2>2. Grows(ar, c) /\ IsArena(c)
    BY <1>0, AllocGrows DEF Grows
  <2>3. Books(c, st, None, None, begun)
    <3>1. None \in DOMAIN ar \cup {None}
      OBVIOUS
    <3>2. QED
      BY <1>0, <3>1, AllocBooks
  <2> HIDE DEF c, new
  <2>4. o \in DOMAIN c /\ new \in DOMAIN c /\ c[o] = ar[o] /\ c[new].obs = 0
    BY <2>1 DEF NewNode
  <2>5. IsNode(c[o], Len(c))
    BY <2>2, <2>4 DEF IsArena
  <2>6. GivenField(c, o, key, new, b) /\ HasObject(b[o]) /\ o \in DOMAIN b
    <3>1. /\ DOMAIN b = DOMAIN c /\ \A u \in DOMAIN c : u # o => b[u] = c[u]
          /\ b[o].obs = c[o].obs /\ b[o].scalars = c[o].scalars /\ b[o].array = c[o].array
          /\ b[o].object = [c[o].object EXCEPT !.fields =
               [k \in DOMAIN @ \cup {key} |-> IF k = key THEN new ELSE @[k]]]
      BY <2>4, <2>5 DEF IsNode
    <3> HIDE DEF b
    <3>2. /\ b[o].object.obs = c[o].object.obs
          /\ b[o].object.keyCountSum = c[o].object.keyCountSum
          /\ b[o].object.keyCounts = c[o].object.keyCounts
          /\ b[o].object.mapValue = c[o].object.mapValue
          /\ b[o].object.fields = [k \in DOMAIN c[o].object.fields \cup {key} |->
                                     IF k = key THEN new ELSE c[o].object.fields[k]]
      BY <2>5, <3>1 DEF IsNode, IsObject
    <3>3. \A k \in DOMAIN c[o].object.fields : k # key
      BY <1>2, <2>4
    <3>4. HasObject(b[o])
      BY <2>4, <3>2 DEF HasObject
    <3>5. QED
      BY <2>4, <3>1, <3>2, <3>3, <3>4 DEF GivenField
  <2> HIDE DEF b
  <2>7. Books(b, st, None, None, begun)
    BY <2>2, <2>3, <2>4, <2>6, FieldBooks
  <2>8. new \in FieldKids(b[o])
    BY <2>6 DEF GivenField, FieldKids
  <2>9. QED
    BY <2>0, <2>6, <2>7, <2>8
<1>3. CASE ~known /\ ~fresh
  <2> DEFINE b == [ar EXCEPT ![o].object.recordAlive = FALSE]
  <2>1. child.arena = b /\ child.id = obj.mapValue
    BY <1>3 DEF ObjectChild
  <2>2. Books(b, st, None, None, begun)
    BY <1>0, RecordRetiresBooks
  <2>3. o \in DOMAIN b /\ b[o].object.mapValue = obj.mapValue
    BY <1>0 DEF IsArena, IsNode, IsObject
  <2> HIDE DEF b
  <2>4. HasObject(b[o]) /\ obj.mapValue \in FieldKids(b[o])
    BY <2>3 DEF HasObject, FieldKids
  <2>5. QED
    BY <2>1, <2>2, <2>3, <2>4
<1>4. QED
  BY <1>1, <1>2, <1>3

\* The last frame, where it is: an object's or an array's.
ObjectHere(st, f, b) ==
  /\ ItemsAt(b, f.node) = ItemsAt(st, f.node)
  /\ KeysAt(b, f.node) = KeysAt(st, f.node) + KeysIn(f)
  /\ KeysAt(st, f.node) \in Nat /\ KeysIn(f) \in Nat
  /\ PositionsAt(b, f.node) = PositionsAt(st, f.node)
  /\ Opens(b, f.node, "array") = Opens(st, f.node, "array")
  /\ Opens(b, f.node, "object") = Opens(st, f.node, "object") + 1
  /\ Opens(st, f.node, "object") \in Nat
  /\ TopAt(b, f.node) = 0
  /\ \A n : ReachAt(b, f.node, n) = ReachAt(st, f.node, n)

ArrayHere(st, f, b) ==
  /\ ItemsAt(b, f.node) = ItemsAt(st, f.node) + f.position /\ ItemsAt(st, f.node) \in Nat
  /\ KeysAt(b, f.node) = KeysAt(st, f.node)
  /\ PositionsAt(b, f.node) = PositionsAt(st, f.node) \cup {f.position}
  /\ Opens(b, f.node, "array") = Opens(st, f.node, "array") + 1
  /\ Opens(st, f.node, "array") \in Nat
  /\ Opens(b, f.node, "object") = Opens(st, f.node, "object")
  /\ TopAt(b, f.node) = 1
  /\ \A n : /\ ReachAt(b, f.node, n) = ReachAt(st, f.node, n) + One(f.position >= n)
            /\ ReachAt(st, f.node, n) \in Nat

LEMMA PushedHere ==
  ASSUME NEW st, Tidy(st), NEW f, f.position \in Nat, f.kind = "object" => IsFiniteSet(f.children)
  PROVE  /\ f.kind = "object" => ObjectHere(st, f, Append(st, f))
         /\ f.kind = "array" => ArrayHere(st, f, Append(st, f))
<1> DEFINE b == Append(st, f)
           t == f.node
<1>1. /\ ItemsAt(st, t) \in Nat
      /\ ItemsAt(b, t) = ItemsAt(st, t) + IF f.node = t /\ f.kind = "array" THEN f.position ELSE 0
  BY Pushed
<1>2. /\ KeysAt(st, t) \in Nat
      /\ KeysAt(b, t) = KeysAt(st, t) + IF f.node = t /\ f.kind = "object" THEN KeysIn(f) ELSE 0
  BY Pushed
<1>3. PositionsAt(b, t) = PositionsAt(st, t) \cup IF f.node = t /\ f.kind = "array" THEN {f.position} ELSE {}
  BY Pushed
<1>4. \A kind : Opens(st, t, kind) \in Nat /\ Opens(b, t, kind) = Opens(st, t, kind) + One(f.node = t /\ f.kind = kind)
  BY Pushed
<1>5. TopAt(b, t) = One(f.node = t /\ f.kind = "array")
  BY Pushed
<1>6. \A n : /\ ReachAt(st, t, n) \in Nat
             /\ ReachAt(b, t, n) = ReachAt(st, t, n) + One(f.node = t /\ f.kind = "array" /\ f.position >= n)
  BY PushedReach
<1>7. f.kind = "object" => KeysIn(f) \in Nat
  BY FS_CardinalityType DEF KeysIn, One
<1> HIDE DEF b
<1>8. CASE f.kind = "object"
  <2>1. /\ One(f.node = t /\ f.kind = "array") = 0 /\ One(f.node = t /\ f.kind = "object") = 1
        /\ \A n : One(f.node = t /\ f.kind = "array" /\ f.position >= n) = 0
    BY <1>8 DEF One
  <2>2. ItemsAt(b, t) = ItemsAt(st, t) /\ KeysAt(b, t) = KeysAt(st, t) + KeysIn(f)
        /\ PositionsAt(b, t) = PositionsAt(st, t)
    BY <1>1, <1>2, <1>3, <1>8
  <2>3. /\ Opens(b, t, "array") = Opens(st, t, "array") + One(f.node = t /\ f.kind = "array")
        /\ Opens(b, t, "object") = Opens(st, t, "object") + One(f.node = t /\ f.kind = "object")
        /\ Opens(st, t, "array") \in Nat /\ Opens(st, t, "object") \in Nat
    BY <1>4
  <2>4. /\ Opens(b, t, "array") = Opens(st, t, "array")
        /\ Opens(b, t, "object") = Opens(st, t, "object") + 1
        /\ TopAt(b, t) = 0 /\ \A n : ReachAt(b, t, n) = ReachAt(st, t, n)
    BY <1>5, <1>6, <2>1, <2>3
  <2>5. QED
    BY <1>2, <1>7, <1>8, <2>2, <2>3, <2>4 DEF ObjectHere, b
<1>9. CASE f.kind = "array"
  <2>1. /\ One(f.node = t /\ f.kind = "array") = 1 /\ One(f.node = t /\ f.kind = "object") = 0
    BY <1>9 DEF One
  <2>2. ItemsAt(b, t) = ItemsAt(st, t) + f.position /\ KeysAt(b, t) = KeysAt(st, t)
        /\ PositionsAt(b, t) = PositionsAt(st, t) \cup {f.position}
    BY <1>1, <1>2, <1>3, <1>9
  <2>3. /\ Opens(b, t, "array") = Opens(st, t, "array") + One(f.node = t /\ f.kind = "array")
        /\ Opens(b, t, "object") = Opens(st, t, "object") + One(f.node = t /\ f.kind = "object")
        /\ Opens(st, t, "array") \in Nat /\ Opens(st, t, "object") \in Nat
    BY <1>4
  <2>4. /\ Opens(b, t, "array") = Opens(st, t, "array") + 1
        /\ Opens(b, t, "object") = Opens(st, t, "object") /\ TopAt(b, t) = 1
    BY <1>5, <2>1, <2>3
  <2>5. \A n : ReachAt(b, t, n) = ReachAt(st, t, n) + One(f.position >= n)
    <3>1. \A n : (f.node = t /\ f.kind = "array" /\ f.position >= n) = (f.position >= n)
      BY <1>9
    <3>2. QED
      BY <1>6, <3>1
  <2>6. QED
    BY <1>1, <1>6, <1>9, <2>2, <2>3, <2>4, <2>5 DEF ArrayHere, b
<1>10. QED
  BY <1>8, <1>9 DEF b

\* The last frame takes a key.
KeyTaken(st, o, sb) ==
  /\ \A u : u # o => Undisturbed(st, FALSE, sb, FALSE, u)
  /\ ItemsAt(sb, o) = ItemsAt(st, o)
  /\ KeysAt(sb, o) = KeysAt(st, o) + 1 /\ KeysAt(st, o) \in Nat
  /\ PositionsAt(sb, o) = PositionsAt(st, o)
  /\ Opens(sb, o, "array") = Opens(st, o, "array")
  /\ Opens(sb, o, "object") = Opens(st, o, "object")
  /\ TopAt(sb, o) = 0 /\ TopAt(st, o) = 0
  /\ \A n : ReachAt(sb, o, n) = ReachAt(st, o, n)

LEMMA KeyPushed ==
  ASSUME NEW st, Tidy(st), NEW f, f.kind = "object", f.position \in Nat, IsFiniteSet(f.children),
         f.pendingKey = None, NEW g, g.kind = f.kind, g.node = f.node, g.position = f.position,
         g.children = f.children, g.pendingKey # None
  PROVE  KeyTaken(Append(st, f), f.node, Append(st, g))
<1> DEFINE b == Append(st, f)
           c == Append(st, g)
           o == f.node
<1>1. f.kind = "object" => IsFiniteSet(f.children)
  OBVIOUS
<1>2. g.kind = "object" /\ g.position \in Nat /\ (g.kind = "object" => IsFiniteSet(g.children))
  OBVIOUS
<1>3. KeysIn(f) \in Nat /\ KeysIn(g) = KeysIn(f) + 1
  BY FS_CardinalityType DEF KeysIn, One
<1>4. ASSUME NEW u, u # o
      PROVE  Undisturbed(b, FALSE, c, FALSE, u)
  <2>1. SameOpen(st, b, u) /\ TopAt(b, u) = 0
    BY <1>1, <1>4, Elsewhere
  <2>2. SameOpen(st, c, u) /\ TopAt(c, u) = 0
    BY <1>2, <1>4, Elsewhere
  <2> HIDE DEF b, c
  <2>3. QED
    BY <2>1, <2>2 DEF Undisturbed, SameOpen
<1>5. ObjectHere(st, f, b) /\ ObjectHere(st, g, c)
  BY <1>1, <1>2, PushedHere
<1> HIDE DEF b, c
<1>6. /\ KeysAt(b, o) = KeysAt(st, o) + KeysIn(f) /\ KeysAt(c, o) = KeysAt(st, o) + KeysIn(g)
      /\ KeysAt(st, o) \in Nat
  BY <1>5 DEF ObjectHere
<1>7. KeysAt(c, o) = KeysAt(b, o) + 1 /\ KeysAt(b, o) \in Nat
  BY <1>3, <1>6
<1>8. KeyTaken(b, o, c)
  BY <1>4, <1>5, <1>7 DEF KeyTaken, ObjectHere
<1>9. QED
  BY <1>8 DEF b, c

\* A child of t is nobody else's.
LEMMA OneParent ==
  ASSUME NEW ar, Separate(ar), NEW o \in DOMAIN ar, NEW k
  PROVE  /\ HasObject(ar[o]) /\ k \in FieldKids(ar[o]) =>
              \A u \in DOMAIN ar :
                /\ HasObject(ar[u]) /\ k \in FieldKids(ar[u]) => u = o
                /\ HasArray(ar[u]) => k \notin ItemKids(ar[u])
         /\ HasArray(ar[o]) /\ k \in ItemKids(ar[o]) =>
              \A u \in DOMAIN ar :
                /\ HasArray(ar[u]) /\ k \in ItemKids(ar[u]) => u = o
                /\ HasObject(ar[u]) => k \notin FieldKids(ar[u])
<1>1. ObjectSlots(ar[o]) \cap ArraySlots(ar[o]) = {}
  BY DEF ObjectSlots, ArraySlots
<1>2. ObjectSlots(ar[o]) \subseteq SlotsOf(ar[o]) /\ ArraySlots(ar[o]) \subseteq SlotsOf(ar[o])
  BY DEF SlotsOf
<1>3. ASSUME HasObject(ar[o]), k \in FieldKids(ar[o]), NEW u \in DOMAIN ar
      PROVE  /\ HasObject(ar[u]) /\ k \in FieldKids(ar[u]) => u = o
             /\ HasArray(ar[u]) => k \notin ItemKids(ar[u])
  <2>1. PICK s \in ObjectSlots(ar[o]) : At(ar[o], s) = k
    BY <1>3, KidsAreSlots
  <2>2. s \in SlotsOf(ar[o]) /\ s \notin ArraySlots(ar[o])
    BY <1>1, <1>2
  <2>3. QED
    BY <1>3, <2>1, <2>2, OnlyKid
<1>4. ASSUME HasArray(ar[o]), k \in ItemKids(ar[o]), NEW u \in DOMAIN ar
      PROVE  /\ HasArray(ar[u]) /\ k \in ItemKids(ar[u]) => u = o
             /\ HasObject(ar[u]) => k \notin FieldKids(ar[u])
  <2>1. PICK s \in ArraySlots(ar[o]) : At(ar[o], s) = k
    BY <1>4, KidsAreSlots
  <2>2. s \in SlotsOf(ar[o]) /\ s \notin ObjectSlots(ar[o])
    BY <1>1, <1>2
  <2>3. QED
    BY <1>4, <2>1, <2>2, OnlyKid
<1>5. QED
  BY <1>3, <1>4

\* A key is counted, and the node for its value waits.
LEMMA KeyBooks ==
  ASSUME NEW ar, IsArena(ar), Separate(ar), NEW st, Books(ar, st, None, None, FALSE),
         NEW o \in DOMAIN ar, HasObject(ar[o]), NEW k \in FieldKids(ar[o]),
         NEW sb, KeyTaken(st, o, sb), NEW key
  PROVE  Books([ar EXCEPT ![o].object.keyCountSum = @ + 1, ![o].object.keyStats = Tick(@, key)],
               sb, k, None, FALSE)
<1> DEFINE b == [ar EXCEPT ![o].object.keyCountSum = @ + 1, ![o].object.keyStats = Tick(@, key)]
<1>1. IsNode(ar[o], Len(ar)) /\ None # o
  BY NoneIsNoNode DEF IsArena
<1>2. /\ DOMAIN b = DOMAIN ar /\ \A u \in DOMAIN ar : u # o => b[u] = ar[u]
      /\ b[o].obs = ar[o].obs /\ b[o].scalars = ar[o].scalars /\ b[o].array = ar[o].array
      /\ b[o].object = [ar[o].object EXCEPT !.keyCountSum = @ + 1, !.keyStats = Tick(@, key)]
  BY <1>1 DEF IsNode
<1>3. /\ b[o].object.obs = ar[o].object.obs
      /\ b[o].object.keyCountSum = ar[o].object.keyCountSum + 1
      /\ b[o].object.keyCounts = ar[o].object.keyCounts
      /\ b[o].object.fields = ar[o].object.fields
      /\ b[o].object.mapValue = ar[o].object.mapValue
  BY <1>1, <1>2 DEF IsNode, IsObject
<1> HIDE DEF b
<1>4. Inner(ar[o], st, o, None = o, FALSE) /\ Solid(ar[o])
  BY BooksParts
<1>5. /\ \A u : u # o => Undisturbed(st, FALSE, sb, FALSE, u)
      /\ ItemsAt(sb, o) = ItemsAt(st, o)
      /\ KeysAt(sb, o) = KeysAt(st, o) + 1 /\ KeysAt(st, o) \in Nat
      /\ PositionsAt(sb, o) = PositionsAt(st, o)
      /\ Opens(sb, o, "array") = Opens(st, o, "array")
      /\ Opens(sb, o, "object") = Opens(st, o, "object")
      /\ TopAt(sb, o) = 0 /\ TopAt(st, o) = 0
      /\ \A n : ReachAt(sb, o, n) = ReachAt(st, o, n)
  BY DEF KeyTaken
<1>6. HasObject(b[o]) /\ HasArray(b[o]) = HasArray(ar[o])
      /\ FieldKids(b[o]) = FieldKids(ar[o]) /\ ItemKids(b[o]) = ItemKids(ar[o])
  BY <1>2, <1>3 DEF HasObject, HasArray, FieldKids, ItemKids
<1>7. Inner(b[o], sb, o, None = o, FALSE)
  <2>0. Weighted(ar[o].object.keyCounts) \in Nat /\ ar[o].object.keyCountSum \in Nat
    BY <1>4, SolidSums
  <2>1. Solid(b[o])
    <3>1. b[o].object.keyCountSum \in Nat
      BY <1>3, <2>0
    <3>2. QED
      BY <1>2, <1>3, <1>4, <1>6, <3>1 DEF Solid
  <2>2. ByKind(b[o], None = o)
    BY <1>2, <1>3, <1>4 DEF Inner, ByKind
  <2>3. ObjectSizes(b[o], sb, o)
    BY <1>3, <1>4, <1>5, <2>0 DEF Inner, ObjectSizes
  <2>4. ArraySizes(b[o], sb, o) /\ Clustered(b[o], sb, o, FALSE)
    BY <1>2, <1>4, <1>5 DEF Inner, ArraySizes, Clustered
  <2>5. QED
    BY <2>1, <2>2, <2>3, <2>4 DEF Inner
<1>8. \A u \in DOMAIN ar : ar[u].obs \in Nat /\ b[u].obs = ar[u].obs
  BY <1>2, BooksParts
<1>9. \A u \in DOMAIN ar : u # k => Seen(b, k, u) = Seen(ar, None, u)
  BY <1>8, NoneIsNoNode DEF Seen, One
<1>10. \A u \in DOMAIN ar : Seen(b, None, u) = Seen(ar, None, u)
  BY <1>8 DEF Seen
<1>11. \A u \in DOMAIN ar :
         /\ HasObject(ar[u]) /\ k \in FieldKids(ar[u]) => u = o
         /\ HasArray(ar[u]) => k \notin ItemKids(ar[u])
  BY OneParent
<1>12. ASSUME NEW u \in DOMAIN ar, u # o
       PROVE  SameSeen(ar, None, b, k, ar[u])
  <2>1. HasObject(ar[u]) => FieldKids(ar[u]) \subseteq DOMAIN ar /\ k \notin FieldKids(ar[u])
    BY <1>11, <1>12, KidsInArena
  <2>2. HasArray(ar[u]) => ItemKids(ar[u]) \subseteq DOMAIN ar /\ k \notin ItemKids(ar[u])
    BY <1>11, <1>12, KidsInArena
  <2>3. QED
    BY <1>9, <2>1, <2>2 DEF SameSeen
<1>13. KidsObserve(b, sb, k, o)
  <2>1. KidsObserve(ar, st, None, o)
    BY BooksParts
  <2>2. HasArray(ar[o]) => SeenIn(b, k, ItemKids(ar[o])) = SeenIn(ar, None, ItemKids(ar[o]))
    <3>1. ASSUME HasArray(ar[o])
          PROVE  /\ IsFiniteSet(ItemKids(ar[o])) /\ ItemKids(ar[o]) \subseteq DOMAIN ar
                 /\ ItemKids(ar[o]) \subseteq DOMAIN b
                 /\ \A u \in ItemKids(ar[o]) : ar[u].obs \in Nat /\ Seen(b, k, u) = Seen(ar, None, u)
      <4>1. k \notin ItemKids(ar[o]) /\ IsFiniteSet(ItemKids(ar[o])) /\ ItemKids(ar[o]) \subseteq DOMAIN ar
        BY <1>11, <3>1, KidsInArena
      <4>2. QED
        BY <1>2, <1>8, <1>9, <4>1
    <3>2. QED
      BY <3>1, SeenInSame
  <2> DEFINE S == FieldKids(ar[o])
  <2>3. IsFiniteSet(S) /\ S \subseteq DOMAIN ar /\ S \subseteq DOMAIN b /\ None \notin S /\ k \in S
    BY <1>2, KidsInArena
  <2>4. \A u \in S : ar[u].obs \in Nat /\ b[u].obs \in Nat /\ Seen(b, None, u) = Seen(ar, None, u)
    BY <1>8, <1>10, <2>3
  <2>5. SeenIn(b, None, S) = SeenIn(ar, None, S) /\ SeenIn(ar, None, S) \in Nat
    <3> HIDE DEF S
    <3>1. QED
      BY <2>3, <2>4, SeenInSame
  <2>6. SeenIn(b, k, S) = SeenIn(b, None, S) + 1
    <3> HIDE DEF S
    <3>1. QED
      BY <2>3, <2>4, SeenInOwed
  <2>7. b[o].object.keyCountSum = SeenIn(b, k, FieldKids(b[o]))
    BY <1>3, <1>6, <2>1, <2>5, <2>6 DEF KidsObserve
  <2>8. QED
    BY <1>2, <1>5, <1>6, <2>1, <2>2, <2>7 DEF KidsObserve
<1>14. Positions(b, sb, k, o)
  <2>1. Positions(ar, st, None, o)
    BY BooksParts
  <2>2. HasArray(ar[o]) => \A n \in DOMAIN ar[o].array.positional :
          Seen(b, k, ar[o].array.positional[n]) = Seen(ar, None, ar[o].array.positional[n])
    <3>1. HasArray(ar[o]) => ItemKids(ar[o]) \subseteq DOMAIN ar /\ k \notin ItemKids(ar[o])
      BY <1>11, KidsInArena
    <3>2. QED
      BY <1>9, <3>1 DEF ItemKids
  <2>3. QED
    BY <1>2, <1>5, <1>6, <2>1, <2>2 DEF Positions
<1>15. ASSUME NEW u \in DOMAIN ar, u # o
       PROVE  BooksAt(b, sb, k, None, FALSE, u)
  <2> DEFINE none == None
             no == FALSE
  <2>1. /\ none = u <=> none = u
        /\ Aside(ar, st, none, no, o, b, sb, k, no)
        /\ Books(ar, st, none, none, no)
    BY <1>2, <1>5, <1>12 DEF Aside
  <2> HIDE DEF none, no
  <2>2. BooksAt(b, sb, k, none, no, u)
    BY <1>15, <2>1, Others
  <2>3. QED
    BY <2>2 DEF none, no
<1>16. QED
  BY <1>2, <1>7, <1>13, <1>14, <1>15 DEF Books, BooksAt, b

-----------------------------------------------------------------------------
(* A container is closed.                                                  *)
LEMMA PopUndisturbed ==
  ASSUME NEW st, Tidy(st), NEW f, f.position \in Nat, f.kind = "object" => IsFiniteSet(f.children),
         NEW u, u # f.node
  PROVE  Undisturbed(Append(st, f), FALSE, st, TRUE, u)
<1> DEFINE b == Append(st, f)
<1>1. SameOpen(st, b, u) /\ TopAt(b, u) = 0
  BY Elsewhere
<1> HIDE DEF b
<1>2. Undisturbed(b, FALSE, st, TRUE, u)
  BY <1>1 DEF Undisturbed, SameOpen
<1>3. QED
  BY <1>2 DEF b

LEMMA CloseArrayBooks ==
  ASSUME NEW ar, IsArena(ar), NEW st, Tidy(st), NEW f, f.kind = "array", f.position \in Nat,
         f.node \in DOMAIN ar, HasArray(ar[f.node]), Books(ar, Append(st, f), None, None, FALSE)
  PROVE  Books([ar EXCEPT ![f.node].array.lengthSum = @ + f.position,
                          ![f.node].array.lengths = Tick(@, f.position)], st, None, None, TRUE)
<1> DEFINE t == f.node
           n == f.position
           b == [ar EXCEPT ![t].array.lengthSum = @ + n, ![t].array.lengths = Tick(@, n)]
           s0 == Append(st, f)
<1>0. t \in DOMAIN ar /\ n \in Nat /\ HasArray(ar[t])
  OBVIOUS
<1>1. IsNode(ar[t], Len(ar)) /\ None # t
  BY NoneIsNoNode DEF IsArena
<1>2. /\ DOMAIN b = DOMAIN ar /\ \A u \in DOMAIN ar : u # t => b[u] = ar[u]
      /\ b[t].obs = ar[t].obs /\ b[t].scalars = ar[t].scalars /\ b[t].object = ar[t].object
      /\ b[t].array = [ar[t].array EXCEPT !.lengthSum = @ + n, !.lengths = Tick(@, n)]
      /\ DOMAIN b[t] = DOMAIN ar[t]
  BY <1>1 DEF IsNode
<1>3. /\ b[t].array.obs = ar[t].array.obs /\ b[t].array.lengthSum = ar[t].array.lengthSum + n
      /\ b[t].array.lengths = Tick(ar[t].array.lengths, n)
      /\ b[t].array.cluster = ar[t].array.cluster
      /\ b[t].array.positional = ar[t].array.positional
      /\ b[t].array.positionalAlive = ar[t].array.positionalAlive
      /\ b[t].array.bagValue = ar[t].array.bagValue /\ DOMAIN b[t].array = DOMAIN ar[t].array
  BY <1>1, <1>2 DEF IsNode, IsArray
<1> HIDE DEF b
<1>4. SameRefs(ar[t], b[t])
  BY <1>2, <1>3 DEF SameRefs
<1>5. f.kind = "object" => IsFiniteSet(f.children)
  OBVIOUS
<1>6. ArrayHere(st, f, s0) /\ \A u : u # t => Undisturbed(s0, FALSE, st, TRUE, u)
  BY <1>5, PushedHere, PopUndisturbed
<1> HIDE DEF s0
<1>7. /\ ItemsAt(s0, t) = ItemsAt(st, t) + n /\ ItemsAt(st, t) \in Nat
      /\ KeysAt(s0, t) = KeysAt(st, t)
      /\ PositionsAt(s0, t) = PositionsAt(st, t) \cup {n}
      /\ Opens(s0, t, "array") = Opens(st, t, "array") + 1
      /\ Opens(st, t, "array") \in Nat
      /\ Opens(s0, t, "object") = Opens(st, t, "object")
      /\ TopAt(s0, t) = 1
      /\ \A m : /\ ReachAt(s0, t, m) = ReachAt(st, t, m) + One(n >= m)
                /\ ReachAt(st, t, m) \in Nat
  BY <1>6 DEF ArrayHere
<1>8. Books(ar, s0, None, None, FALSE)
  BY DEF s0
<1>9. Inner(ar[t], s0, t, None = t, FALSE) /\ Solid(ar[t])
  BY <1>0, <1>8, BooksParts
<1>10. /\ Mass(ar[t].array.lengths) \in Nat /\ Weighted(ar[t].array.lengths) \in Nat
       /\ Mass(ar[t].array.cluster.counters) \in Nat
       /\ ar[t].array.obs \in Nat /\ ar[t].array.lengthSum \in Nat
  BY <1>9, SolidSums
<1>11. /\ IsHistogram(b[t].array.lengths)
       /\ DOMAIN b[t].array.lengths = DOMAIN ar[t].array.lengths \cup {n}
       /\ Mass(b[t].array.lengths) = Mass(ar[t].array.lengths) + 1
       /\ Weighted(b[t].array.lengths) = Weighted(ar[t].array.lengths) + n
       /\ \A m : /\ LongEnough(ar[t].array.lengths, m) \in Nat
                 /\ LongEnough(b[t].array.lengths, m) = LongEnough(ar[t].array.lengths, m) + One(n >= m)
  <2>1. IsHistogram(ar[t].array.lengths) /\ n \in Nat
    BY <1>0, <1>9 DEF Solid
  <2>2. OneMore(ar[t].array.lengths, n, b[t].array.lengths)
    BY <1>3, <2>1, TickMore
  <2>3. QED
    BY <2>2 DEF OneMore
<1>12. Inner(b[t], st, t, None = t, TRUE)
  <2>1. Solid(b[t])
    <3>1. HasArray(b[t]) /\ HasObject(b[t]) = HasObject(ar[t])
      BY <1>0, <1>2, <1>3 DEF HasObject, HasArray
    <3>2. b[t].array.lengthSum \in Nat
      BY <1>0, <1>3, <1>10
    <3>3. QED
      BY <1>2, <1>3, <1>9, <1>11, <3>1, <3>2 DEF Solid
  <2>2. ByKind(b[t], None = t)
    BY <1>2, <1>3, <1>9 DEF Inner, ByKind
  <2>3. ObjectSizes(b[t], st, t)
    BY <1>2, <1>7, <1>9 DEF Inner, ObjectSizes
  <2>4. ArraySizes(b[t], st, t)
    BY <1>0, <1>3, <1>7, <1>9, <1>10, <1>11 DEF Inner, ArraySizes
  <2>5. Clustered(b[t], st, t, TRUE)
    <3>1. Mass(ar[t].array.cluster.counters) + Opens(s0, t, "array") =
            ar[t].array.lengthSum + ItemsAt(s0, t) + TopAt(s0, t)
      BY <1>9 DEF Inner, Clustered
    <3>2. Mass(b[t].array.cluster.counters) + Opens(st, t, "array") =
            b[t].array.lengthSum + ItemsAt(st, t) + 0
      BY <1>0, <1>3, <1>7, <1>10, <3>1
    <3>3. QED
      BY <3>2 DEF Clustered
  <2>6. QED
    BY <2>1, <2>2, <2>3, <2>4, <2>5 DEF Inner
<1>13. Positions(b, st, None, t)
  <2>1. /\ DOMAIN b[t].array.lengths \cup PositionsAt(st, t) =
             DOMAIN ar[t].array.lengths \cup PositionsAt(s0, t)
        /\ \A u \in DOMAIN ar : b[u].obs = ar[u].obs
    BY <1>2, <1>7, <1>11
  <2>2. \A m : LongEnough(b[t].array.lengths, m) + ReachAt(st, t, m) =
                 LongEnough(ar[t].array.lengths, m) + ReachAt(s0, t, m)
    BY <1>7, <1>11, OneType
  <2> DEFINE s == None
  <2>3. /\ IsArena(ar) /\ t \in DOMAIN ar /\ DOMAIN b = DOMAIN ar /\ Books(ar, s0, None, s, FALSE)
        /\ b[t].array.positionalAlive = ar[t].array.positionalAlive
    BY <1>0, <1>2, <1>3, <1>8
  <2> HIDE DEF s
  <2>4. QED
    BY <1>4, <2>1, <2>2, <2>3, PositionsStay
<1>14. Books(b, st, None, None, TRUE)
  <2> DEFINE s == None
             r == None
             no == FALSE
             yes == TRUE
  <2>1. b[t].object.keyCountSum = ar[t].object.keyCountSum
    BY <1>2
  <2>2. b[t].array.lengthSum + ItemsAt(st, t) = ar[t].array.lengthSum + ItemsAt(s0, t)
    BY <1>0, <1>3, <1>7, <1>10
  <2>3. s \in {None, t} /\ r \in {None, t} /\ Books(ar, s0, None, s, no) /\ Inner(b[t], st, t, r = t, yes)
    BY <1>8, <1>12
  <2>4. Local(ar, s0, no, t, b, st, yes)
    BY <1>2, <1>6 DEF Local
  <2>5. b[t].obs = ar[t].obs /\ IsArena(ar) /\ t \in DOMAIN ar
    BY <1>2
  <2> HIDE DEF s, r, t, no, yes
  <2>6. Books(b, st, None, r, yes)
    BY <1>4, <1>13, <2>1, <2>2, <2>3, <2>4, <2>5, Entry
  <2>7. QED
    BY <2>6 DEF r, yes
<1>15. QED
  BY <1>14 DEF b

LEMMA CloseObjectBooks ==
  ASSUME NEW ar, IsArena(ar), NEW st, Tidy(st), NEW f, f.kind = "object", f.position \in Nat,
         IsFiniteSet(f.children), f.pendingKey = None,
         f.node \in DOMAIN ar, HasObject(ar[f.node]), Books(ar, Append(st, f), None, None, FALSE)
  PROVE  Books([ar EXCEPT ![f.node].object.keyCounts = Tick(@, Cardinality(f.children))],
               st, None, None, TRUE)
<1> DEFINE t == f.node
           n == Cardinality(f.children)
           b == [ar EXCEPT ![t].object.keyCounts = Tick(@, n)]
           s0 == Append(st, f)
<1>0. t \in DOMAIN ar /\ n \in Nat /\ HasObject(ar[t]) /\ KeysIn(f) = n
  <2>1. n \in Nat
    BY FS_CardinalityType
  <2> HIDE DEF n
  <2>2. KeysIn(f) = n + 0
    BY DEF KeysIn, One, n
  <2>3. QED
    BY <2>1, <2>2
<1>1. IsNode(ar[t], Len(ar)) /\ None # t
  BY NoneIsNoNode DEF IsArena
<1> HIDE DEF n
<1>2. /\ DOMAIN b = DOMAIN ar /\ \A u \in DOMAIN ar : u # t => b[u] = ar[u]
      /\ b[t].obs = ar[t].obs /\ b[t].scalars = ar[t].scalars /\ b[t].array = ar[t].array
      /\ b[t].object = [ar[t].object EXCEPT !.keyCounts = Tick(@, n)]
      /\ DOMAIN b[t] = DOMAIN ar[t]
  BY <1>1 DEF IsNode
<1>3. /\ b[t].object.obs = ar[t].object.obs /\ b[t].object.keyCountSum = ar[t].object.keyCountSum
      /\ b[t].object.keyCounts = Tick(ar[t].object.keyCounts, n)
      /\ b[t].object.fields = ar[t].object.fields
      /\ b[t].object.mapValue = ar[t].object.mapValue /\ DOMAIN b[t].object = DOMAIN ar[t].object
  BY <1>1, <1>2 DEF IsNode, IsObject
<1> HIDE DEF b
<1>4. SameRefs(ar[t], b[t])
  BY <1>2, <1>3 DEF SameRefs
<1>5. f.kind = "object" => IsFiniteSet(f.children)
  OBVIOUS
<1>6. ObjectHere(st, f, s0) /\ \A u : u # t => Undisturbed(s0, FALSE, st, TRUE, u)
  BY <1>5, PushedHere, PopUndisturbed
<1> HIDE DEF s0
<1>7. /\ ItemsAt(s0, t) = ItemsAt(st, t)
      /\ KeysAt(s0, t) = KeysAt(st, t) + n /\ KeysAt(st, t) \in Nat
      /\ PositionsAt(s0, t) = PositionsAt(st, t)
      /\ Opens(s0, t, "array") = Opens(st, t, "array")
      /\ Opens(s0, t, "object") = Opens(st, t, "object") + 1 /\ Opens(st, t, "object") \in Nat
      /\ TopAt(s0, t) = 0
      /\ \A m : ReachAt(s0, t, m) = ReachAt(st, t, m)
  BY <1>0, <1>6 DEF ObjectHere
<1>8. Books(ar, s0, None, None, FALSE)
  BY DEF s0
<1>9. Inner(ar[t], s0, t, None = t, FALSE) /\ Solid(ar[t])
  BY <1>0, <1>8, BooksParts
<1>10. /\ Mass(ar[t].object.keyCounts) \in Nat /\ Weighted(ar[t].object.keyCounts) \in Nat
       /\ ar[t].object.obs \in Nat
  BY <1>9, SolidSums
<1>11. /\ IsHistogram(b[t].object.keyCounts)
       /\ Mass(b[t].object.keyCounts) = Mass(ar[t].object.keyCounts) + 1
       /\ Weighted(b[t].object.keyCounts) = Weighted(ar[t].object.keyCounts) + n
  <2>1. IsHistogram(ar[t].object.keyCounts) /\ n \in Nat
    BY <1>0, <1>9 DEF Solid
  <2>2. OneMore(ar[t].object.keyCounts, n, b[t].object.keyCounts)
    BY <1>3, <2>1, TickMore
  <2>3. QED
    BY <2>2 DEF OneMore
<1>12. Inner(b[t], st, t, None = t, TRUE)
  <2>1. Solid(b[t])
    <3>1. HasObject(b[t]) /\ HasArray(b[t]) = HasArray(ar[t])
      BY <1>0, <1>2, <1>3 DEF HasObject, HasArray
    <3>2. QED
      BY <1>2, <1>3, <1>9, <1>11, <3>1 DEF Solid
  <2>2. ByKind(b[t], None = t)
    BY <1>2, <1>3, <1>9 DEF Inner, ByKind
  <2>3. ObjectSizes(b[t], st, t)
    BY <1>0, <1>3, <1>7, <1>9, <1>10, <1>11 DEF Inner, ObjectSizes
  <2>4. ArraySizes(b[t], st, t)
    BY <1>2, <1>7, <1>9 DEF Inner, ArraySizes
  <2>5. Clustered(b[t], st, t, TRUE)
    BY <1>2, <1>7, <1>9 DEF Inner, Clustered
  <2>6. QED
    BY <2>1, <2>2, <2>3, <2>4, <2>5 DEF Inner
<1>13. Positions(b, st, None, t)
  <2>1. /\ DOMAIN b[t].array.lengths \cup PositionsAt(st, t) =
             DOMAIN ar[t].array.lengths \cup PositionsAt(s0, t)
        /\ \A u \in DOMAIN ar : b[u].obs = ar[u].obs
        /\ b[t].array.positionalAlive = ar[t].array.positionalAlive
    BY <1>2, <1>7
  <2>2. \A m : LongEnough(b[t].array.lengths, m) + ReachAt(st, t, m) =
                 LongEnough(ar[t].array.lengths, m) + ReachAt(s0, t, m)
    BY <1>2, <1>7
  <2> DEFINE s == None
  <2>3. IsArena(ar) /\ t \in DOMAIN ar /\ DOMAIN b = DOMAIN ar /\ Books(ar, s0, None, s, FALSE)
    BY <1>0, <1>2, <1>8
  <2> HIDE DEF s
  <2>4. QED
    BY <1>4, <2>1, <2>2, <2>3, PositionsStay
<1>14. Books(b, st, None, None, TRUE)
  <2> DEFINE s == None
             r == None
             no == FALSE
             yes == TRUE
  <2>1. b[t].object.keyCountSum = ar[t].object.keyCountSum
    BY <1>3
  <2>2. b[t].array.lengthSum + ItemsAt(st, t) = ar[t].array.lengthSum + ItemsAt(s0, t)
    BY <1>2, <1>7
  <2>3. s \in {None, t} /\ r \in {None, t} /\ Books(ar, s0, None, s, no) /\ Inner(b[t], st, t, r = t, yes)
    BY <1>8, <1>12
  <2>4. Local(ar, s0, no, t, b, st, yes)
    BY <1>2, <1>6 DEF Local
  <2>5. b[t].obs = ar[t].obs /\ IsArena(ar) /\ t \in DOMAIN ar
    BY <1>2
  <2> HIDE DEF s, r, t, no, yes
  <2>6. Books(b, st, None, r, yes)
    BY <1>4, <1>13, <2>1, <2>2, <2>3, <2>4, <2>5, Entry
  <2>7. QED
    BY <2>6 DEF r, yes
<1>15. QED
  BY <1>14 DEF b, n

-----------------------------------------------------------------------------
(* A signature goes to the container below.                                *)
LEMMA RestackBooks ==
  ASSUME NEW ar, IsArena(ar), NEW st, NEW c, NEW s, NEW begun, Books(ar, st, c, s, begun),
         NEW sb, NEW open, \A u : Undisturbed(st, begun, sb, open, u)
  PROVE  Books(ar, sb, c, s, open)
<1>1. Aside(ar, st, c, begun, None, ar, sb, c, open)
  BY DEF Aside, SameSeen
<1>2. None \notin DOMAIN ar
  BY NoneIsNoNode
<1>3. ASSUME NEW u \in DOMAIN ar
      PROVE  BooksAt(ar, sb, c, s, open, u)
  <2>1. u # None /\ (s = u <=> s = u)
    BY <1>2
  <2>2. QED
    BY <1>1, <2>1, Others
<1>4. QED
  BY <1>3 DEF Books

LEMMA EvictionsChange ==
  ASSUME NEW ar, IsArena(ar), \A u \in DOMAIN ar : Solid(ar[u]), NEW a \in DOMAIN ar,
         NEW table, table.evictions \in {ar[a].array.cluster.evictions, ar[a].array.cluster.evictions + 1},
         evictions = EvictionsIn(ar)
  PROVE  Evicted(ar[a].array.cluster, table) = EvictionsIn([ar EXCEPT ![a].array.cluster = table])
<1> DEFINE b == [ar EXCEPT ![a].array.cluster = table]
           f == [t \in DOMAIN ar |-> ar[t].array.cluster.evictions]
           g == [t \in DOMAIN b |-> b[t].array.cluster.evictions]
           D == DOMAIN ar
           new == table.evictions
           old == ar[a].array.cluster.evictions
<1>1. DOMAIN b = D /\ b[a].array.cluster = table /\ \A u \in D : u # a => b[u] = ar[u]
  BY DEF IsArena, IsNode, IsArray
<1>2. \A u \in D : ar[u].array.cluster.evictions \in Nat
  BY DEF Solid, IsTable
<1>3. IsFiniteSet(D)
  <2>1. D = 1 .. Len(ar) /\ Len(ar) \in Nat
    BY ArenaLen
  <2>2. QED
    BY <2>1, FS_Interval
<1>4. EvictionsIn(ar) = SumOver(f, D) /\ EvictionsIn(b) = SumOver(g, D)
  BY <1>1 DEF EvictionsIn
<1> HIDE DEF b
<1>5. /\ old \in Nat /\ new \in {old, old + 1} /\ new \in Nat
      /\ f[a] = old /\ g[a] = new
      /\ \A u \in D : u # a => g[u] = f[u]
      /\ \A u \in D : f[u] \in Nat /\ g[u] \in Nat
  <2>1. old \in Nat /\ new \in {old, old + 1}
    BY <1>2
  <2>2. f[a] = old /\ g[a] = new /\ \A u \in D : u # a => g[u] = f[u]
    BY <1>1
  <2>3. \A u \in D : f[u] \in Nat
    BY <1>2
  <2>4. new \in Nat
    <3> HIDE DEF old, new
    <3>1. QED
      BY <2>1
  <2> HIDE DEF f, g, new, old
  <2>5. QED
    BY <2>1, <2>2, <2>3, <2>4
<1> DEFINE k == a
<1>6. k \in D /\ (\A u \in D : u # k => g[u] = f[u]) /\ f[k] = old /\ g[k] = new
  BY <1>5
<1> HIDE DEF f, g, D, new, old, k
<1>7. SumOver(g, D) + f[k] = SumOver(f, D) + g[k]
  BY <1>3, <1>5, <1>6, SumChange
<1>8. SumOver(f, D) \in Nat /\ SumOver(g, D) \in Nat
  BY <1>3, <1>5, SumType
<1>9. CASE new = old
  <2>1. Evicted(ar[a].array.cluster, table) = evictions
    BY <1>5, <1>9 DEF Evicted, new, old
  <2>2. QED
    BY <1>4, <1>5, <1>6, <1>7, <1>8, <1>9, <2>1 DEF b
<1>10. CASE new = old + 1
  <2>0. new > old
    BY <1>5, <1>10
  <2>1. Evicted(ar[a].array.cluster, table) = evictions + 1
    BY <2>0 DEF Evicted, new, old
  <2>2. QED
    BY <1>4, <1>5, <1>6, <1>7, <1>8, <1>10, <2>1 DEF b
<1>11. QED
  BY <1>5, <1>9, <1>10

\* The sketch of the last array counts the item that was begun.
LEMMA EmitToArrayBooks ==
  ASSUME NEW ar, IsArena(ar), NEW st, Tidy(st), NEW f, f.kind = "array", f.position \in Nat,
         NEW g, g.kind = f.kind, g.node = f.node, g.position = f.position,
         f.node \in DOMAIN ar, HasArray(ar[f.node]), Books(ar, Append(st, f), None, None, TRUE),
         NEW sig, NEW table \in Observed(ar[f.node].array.cluster, ClusterCap, sig)
  PROVE  Books([ar EXCEPT ![f.node].array.cluster = table], Append(st, g), None, None, FALSE)
<1> DEFINE t == f.node
           n == f.position
           b == [ar EXCEPT ![t].array.cluster = table]
           s0 == Append(st, f)
           sb == Append(st, g)
<1>0. t \in DOMAIN ar /\ n \in Nat /\ HasArray(ar[t])
  OBVIOUS
<1>1. IsNode(ar[t], Len(ar)) /\ None # t
  BY NoneIsNoNode DEF IsArena
<1>2. /\ DOMAIN b = DOMAIN ar /\ \A u \in DOMAIN ar : u # t => b[u] = ar[u]
      /\ b[t].obs = ar[t].obs /\ b[t].scalars = ar[t].scalars /\ b[t].object = ar[t].object
      /\ b[t].array = [ar[t].array EXCEPT !.cluster = table]
      /\ DOMAIN b[t] = DOMAIN ar[t]
  BY <1>1 DEF IsNode
<1>3. /\ b[t].array.obs = ar[t].array.obs /\ b[t].array.lengthSum = ar[t].array.lengthSum
      /\ b[t].array.lengths = ar[t].array.lengths
      /\ b[t].array.cluster = table
      /\ b[t].array.positional = ar[t].array.positional
      /\ b[t].array.positionalAlive = ar[t].array.positionalAlive
      /\ b[t].array.bagValue = ar[t].array.bagValue /\ DOMAIN b[t].array = DOMAIN ar[t].array
  BY <1>1, <1>2 DEF IsNode, IsArray
<1> HIDE DEF b
<1>4. SameRefs(ar[t], b[t])
  BY <1>2, <1>3 DEF SameRefs
<1>5. /\ f.kind = "object" => IsFiniteSet(f.children)
      /\ g.kind = "object" => IsFiniteSet(g.children)
      /\ f.kind = "object" => IsFiniteSet(f.children) /\ IsFiniteSet(g.children) /\ KeysIn(g) = KeysIn(f)
      /\ g.position \in Nat
  OBVIOUS
<1>6. ASSUME NEW u
      PROVE  SameOpen(s0, sb, u) /\ TopAt(sb, u) = TopAt(s0, u)
  BY <1>5, Retopped
<1>7. ASSUME NEW u, u # t
      PROVE  Undisturbed(s0, TRUE, sb, FALSE, u)
  <2>1. u # g.node
    BY <1>7
  <2>2. TopAt(sb, u) = 0
    BY <1>5, <2>1, Elsewhere
  <2> HIDE DEF s0, sb
  <2>3. QED
    BY <1>6, <2>2 DEF Undisturbed
<1>8. TopAt(sb, t) = 1
  <2>1. ArrayHere(st, f, s0)
    BY <1>5, PushedHere
  <2> HIDE DEF s0, sb
  <2>2. QED
    BY <1>6, <2>1 DEF ArrayHere
<1>9. Books(ar, s0, None, None, TRUE)
  OBVIOUS
<1> HIDE DEF s0, sb
<1>10. SameOpen(s0, sb, t)
  BY <1>6
<1>11. Inner(ar[t], s0, t, None = t, TRUE) /\ Solid(ar[t]) /\ \A u \in DOMAIN ar : Solid(ar[u])
  BY <1>0, <1>9, BooksParts
<1>12. /\ IsTable(table)
       /\ Mass(table.counters) = Mass(ar[t].array.cluster.counters) + 1
  <2>1. IsTable(ar[t].array.cluster)
    BY <1>11 DEF Solid
  <2>2. QED
    BY <2>1, ObservedMass DEF Mass, Held
<1>13. /\ Mass(ar[t].array.cluster.counters) \in Nat /\ ar[t].array.lengthSum \in Nat
  BY <1>11, SolidSums
<1>14. ItemsAt(sb, t) = ItemsAt(s0, t) /\ Opens(sb, t, "array") = Opens(s0, t, "array")
       /\ ItemsAt(s0, t) \in Nat /\ Opens(s0, t, "array") \in Nat
  <2>1. ArrayHere(st, f, s0)
    BY <1>5, PushedHere DEF s0
  <2>2. QED
    BY <1>0, <1>10, <2>1 DEF ArrayHere, SameOpen
<1>15. Inner(b[t], sb, t, None = t, FALSE)
  <2>1. Solid(b[t])
    <3>1. HasArray(b[t]) /\ HasObject(b[t]) = HasObject(ar[t])
      BY <1>0, <1>2, <1>3 DEF HasObject, HasArray
    <3>2. QED
      BY <1>2, <1>3, <1>11, <1>12, <3>1 DEF Solid
  <2>2. ByKind(b[t], None = t)
    BY <1>2, <1>3, <1>11 DEF Inner, ByKind
  <2>3. ObjectSizes(b[t], sb, t)
    BY <1>2, <1>10, <1>11 DEF Inner, ObjectSizes, SameOpen
  <2>4. ArraySizes(b[t], sb, t)
    BY <1>3, <1>10, <1>11 DEF Inner, ArraySizes, SameOpen
  <2>5. Clustered(b[t], sb, t, FALSE)
    <3>1. Mass(ar[t].array.cluster.counters) + Opens(s0, t, "array") =
            ar[t].array.lengthSum + ItemsAt(s0, t) + 0
      BY <1>11 DEF Inner, Clustered
    <3>2. Mass(b[t].array.cluster.counters) + Opens(sb, t, "array") =
            b[t].array.lengthSum + ItemsAt(sb, t) + TopAt(sb, t)
      BY <1>3, <1>8, <1>12, <1>13, <1>14, <3>1
    <3>3. QED
      BY <3>2 DEF Clustered
  <2>6. QED
    BY <2>1, <2>2, <2>3, <2>4, <2>5 DEF Inner
<1>16. Positions(b, sb, None, t)
  <2>1. /\ DOMAIN b[t].array.lengths \cup PositionsAt(sb, t) =
             DOMAIN ar[t].array.lengths \cup PositionsAt(s0, t)
        /\ \A u \in DOMAIN ar : b[u].obs = ar[u].obs
        /\ b[t].array.positionalAlive = ar[t].array.positionalAlive
    BY <1>2, <1>3, <1>10 DEF SameOpen
  <2>2. \A m : LongEnough(b[t].array.lengths, m) + ReachAt(sb, t, m) =
                 LongEnough(ar[t].array.lengths, m) + ReachAt(s0, t, m)
    BY <1>3, <1>10 DEF SameOpen
  <2> DEFINE s == None
             yes == TRUE
  <2>3. IsArena(ar) /\ t \in DOMAIN ar /\ DOMAIN b = DOMAIN ar /\ Books(ar, s0, None, s, yes)
    BY <1>0, <1>2, <1>9
  <2> HIDE DEF s, yes
  <2>4. QED
    BY <1>4, <2>1, <2>2, <2>3, PositionsStay
<1>17. Books(b, sb, None, None, FALSE)
  <2> DEFINE s == None
             r == None
             no == FALSE
             yes == TRUE
  <2>1. b[t].object.keyCountSum = ar[t].object.keyCountSum
    BY <1>2
  <2>2. b[t].array.lengthSum + ItemsAt(sb, t) = ar[t].array.lengthSum + ItemsAt(s0, t)
    BY <1>3, <1>14
  <2>3. s \in {None, t} /\ r \in {None, t} /\ Books(ar, s0, None, s, yes) /\ Inner(b[t], sb, t, r = t, no)
    BY <1>9, <1>15
  <2>4. Local(ar, s0, yes, t, b, sb, no)
    BY <1>2, <1>7 DEF Local
  <2>5. b[t].obs = ar[t].obs /\ IsArena(ar) /\ t \in DOMAIN ar
    BY <1>2
  <2> HIDE DEF s, r, t, no, yes
  <2>6. Books(b, sb, None, r, no)
    BY <1>4, <1>16, <2>1, <2>2, <2>3, <2>4, <2>5, Entry
  <2>7. QED
    BY <2>6 DEF r, no
<1>18. QED
  BY <1>17 DEF b, sb

\* The last object collects the signature of the key it has passed.
LEMMA EmitToObjectBooks ==
  ASSUME NEW ar, IsArena(ar), NEW st, Tidy(st), NEW f, f.kind = "object", f.position \in Nat,
         IsFiniteSet(f.children), f.pendingKey # None, NEW x, x \notin f.children,
         NEW g, g.kind = f.kind, g.node = f.node, g.position = f.position,
         g.children = f.children \cup {x}, g.pendingKey = None,
         Books(ar, Append(st, f), None, None, TRUE)
  PROVE  Books(ar, Append(st, g), None, None, FALSE)
<1> DEFINE s0 == Append(st, f)
           sb == Append(st, g)
<1>1. IsFiniteSet(g.children) /\ KeysIn(g) = KeysIn(f)
  <2>1. /\ IsFiniteSet(f.children \cup {x}) /\ Cardinality(f.children) \in Nat
        /\ Cardinality(f.children \cup {x}) = Cardinality(f.children) + 1
    BY FS_AddElement, FS_CardinalityType
  <2>2. KeysIn(g) = Cardinality(f.children \cup {x}) + 0 /\ KeysIn(f) = Cardinality(f.children) + 1
    BY DEF KeysIn, One
  <2>3. QED
    BY <2>1, <2>2
<1>2. /\ f.kind = "object" => IsFiniteSet(f.children)
      /\ g.kind = "object" => IsFiniteSet(g.children)
      /\ f.kind = "object" => IsFiniteSet(f.children) /\ IsFiniteSet(g.children) /\ KeysIn(g) = KeysIn(f)
      /\ g.position \in Nat
  BY <1>1
<1>3. ASSUME NEW u
      PROVE  Undisturbed(s0, TRUE, sb, FALSE, u)
  <2>1. SameOpen(s0, sb, u)
    BY <1>2, Retopped
  <2>2. CASE u # g.node
    <3>1. TopAt(sb, u) = 0
      BY <1>2, <2>2, Elsewhere
    <3> HIDE DEF s0, sb
    <3>2. QED
      BY <2>1, <3>1 DEF Undisturbed
  <2>3. CASE u = g.node
    <3>1. ObjectHere(st, g, sb)
      BY <1>2, PushedHere
    <3> HIDE DEF s0, sb
    <3>2. TopAt(sb, u) = 0
      BY <2>3, <3>1 DEF ObjectHere
    <3>3. QED
      BY <2>1, <3>2 DEF Undisturbed
  <2>4. QED
    BY <2>2, <2>3
<1>4. Books(ar, s0, None, None, TRUE)
  OBVIOUS
<1> HIDE DEF s0, sb
<1> DEFINE none == None
           no == FALSE
           yes == TRUE
<1>5. IsArena(ar) /\ Books(ar, s0, none, none, yes) /\ \A u : Undisturbed(s0, yes, sb, no, u)
  BY <1>3, <1>4
<1> HIDE DEF none, no, yes
<1>6. Books(ar, sb, none, none, no)
  BY <1>5, RestackBooks
<1>7. QED
  BY <1>6 DEF none, no, sb

\* The key that an object has passed has no signature yet.
Unsigned(st) ==
  st # <<>> /\ Top(st).kind = "object" => \A x \in Top(st).children : x[1] # Top(st).pendingKey

LEMMA EmittedBooks ==
  ASSUME NEW ar, IsArena(ar), NEW st, Tidy(st), Frames(st, ar), Unsigned(st),
         Books(ar, st, None, None, TRUE), evictions = EvictionsIn(ar),
         NEW sig, EmitChildSig(ar, st, sig)
  PROVE  Books(arena', stack', None, None, FALSE) /\ evictions' = EvictionsIn(arena')
<1>1. CASE EmitToArray(ar, st, sig)
  <2> DEFINE p == Pop(st)
             f == Top(st)
             sb == [st EXCEPT ![Len(st)].children = @ \cup {sig}]
             g == [f EXCEPT !.children = @ \cup {sig}]
  <2>1. st # <<>> /\ f.kind = "array" /\ stack' = sb
    BY <1>1 DEF EmitToArray, InArray, Top
  <2>2. PICK table \in Observed(ar[f.node].array.cluster, ClusterCap, sig) :
          arena' = [ar EXCEPT ![f.node].array.cluster = table] /\ evictions' = Evicted(ar[f.node].array.cluster, table)
    BY <1>1 DEF EmitToArray
  <2>3. Len(st) \in DOMAIN st /\ DOMAIN st = 1 .. Len(st)
    BY <2>1, SequenceLen, SequenceEmpty, Split DEF Frames
  <2>4. IsFrame(f, ar)
    BY <2>3 DEF Frames, Top
  <2>5. /\ Sequence(p) /\ st = Append(p, f) /\ Tidy(p)
        /\ sb = Append(p, sb[Len(st)])
    <3>1. /\ Sequence(p) /\ st = Append(p, f) /\ \A i \in DOMAIN p : i \in DOMAIN st /\ p[i] = st[i]
      BY <2>1, Split DEF Frames
    <3>2. sb = [i \in DOMAIN st |-> IF i = Len(st) THEN sb[Len(st)] ELSE st[i]]
      BY <2>3
    <3> HIDE DEF sb
    <3>3. sb = Append(p, sb[Len(st)])
      BY <2>1, <3>2, Split DEF Frames
    <3> HIDE DEF p
    <3>4. Tidy(p)
      BY <3>1 DEF Tidy
    <3>5. QED
      BY <3>1, <3>3, <3>4
  <2>6. sb[Len(st)] = g
    BY <2>3 DEF Top
  <2>7. g.kind = f.kind /\ g.node = f.node /\ g.position = f.position
    BY <2>4 DEF IsFrame
  <2>8. f.position \in Nat /\ f.node \in DOMAIN ar /\ HasArray(ar[f.node])
    BY <2>1, <2>4 DEF IsFrame
  <2>9. Books(ar, Append(p, f), None, None, TRUE)
    BY <2>5
  <2>10. sb = Append(p, g)
    BY <2>5, <2>6
  <2> HIDE DEF p, f, sb, g
  <2>11. /\ Books([ar EXCEPT ![f.node].array.cluster = table], Append(p, g), None, None, FALSE)
         /\ Evicted(ar[f.node].array.cluster, table) = EvictionsIn([ar EXCEPT ![f.node].array.cluster = table])
    <3>1. Tidy(p) /\ f.kind = "array"
      BY <2>1, <2>5
    <3>2. Books([ar EXCEPT ![f.node].array.cluster = table], Append(p, g), None, None, FALSE)
      BY <3>1, <2>7, <2>8, <2>9, EmitToArrayBooks
    <3>3. Evicted(ar[f.node].array.cluster, table) = EvictionsIn([ar EXCEPT ![f.node].array.cluster = table])
      <4>1. \A u \in DOMAIN ar : Solid(ar[u])
        BY <2>9, BooksParts
      <4>2. table.evictions \in {ar[f.node].array.cluster.evictions, ar[f.node].array.cluster.evictions + 1}
        <5>1. IsTable(ar[f.node].array.cluster)
          BY <2>8, <4>1 DEF Solid
        <5>2. QED
          BY <5>1, ObservedMass
      <4>3. QED
        BY <2>8, <4>1, <4>2, EvictionsChange
    <3>4. QED
      BY <3>2, <3>3
  <2>12. QED
    BY <2>1, <2>2, <2>10, <2>11
<1>2. CASE EmitToObject(ar, st, sig)
  <2> DEFINE p == Pop(st)
             f == Top(st)
             x == <<f.pendingKey, sig>>
             sb == [st EXCEPT ![Len(st)].children = @ \cup {x}, ![Len(st)].pendingKey = None]
             g == [f EXCEPT !.children = @ \cup {x}, !.pendingKey = None]
  <2>1. /\ st # <<>> /\ f.kind = "object" /\ f.pendingKey # None
        /\ stack' = sb /\ arena' = ar /\ evictions' = evictions
    BY <1>2 DEF EmitToObject, InObject, Top
  <2>3. Len(st) \in DOMAIN st /\ DOMAIN st = 1 .. Len(st)
    BY <2>1, SequenceLen, SequenceEmpty, Split DEF Frames
  <2>4. IsFrame(f, ar) /\ IsFiniteSet(f.children)
    BY <2>1, <2>3 DEF Frames, Top, Tidy
  <2>5. /\ Sequence(p) /\ st = Append(p, f) /\ Tidy(p)
        /\ sb = Append(p, sb[Len(st)])
    <3>1. /\ Sequence(p) /\ st = Append(p, f) /\ \A i \in DOMAIN p : i \in DOMAIN st /\ p[i] = st[i]
      BY <2>1, Split DEF Frames
    <3>2. sb = [i \in DOMAIN st |-> IF i = Len(st) THEN sb[Len(st)] ELSE st[i]]
      BY <2>3
    <3> HIDE DEF sb
    <3>3. sb = Append(p, sb[Len(st)])
      BY <2>1, <3>2, Split DEF Frames
    <3> HIDE DEF p
    <3>4. Tidy(p)
      BY <3>1 DEF Tidy
    <3>5. QED
      BY <3>1, <3>3, <3>4
  <2>6. sb[Len(st)] = g
    BY <2>3 DEF Top
  <2>7. /\ g.kind = f.kind /\ g.node = f.node /\ g.position = f.position
        /\ g.children = f.children \cup {x} /\ g.pendingKey = None
    BY <2>4 DEF IsFrame
  <2>8. f.position \in Nat
    BY <2>4 DEF IsFrame
  <2>9. Books(ar, Append(p, f), None, None, TRUE)
    BY <2>5
  <2>10. x \notin f.children
    BY <2>1 DEF Unsigned
  <2>11. sb = Append(p, g)
    BY <2>5, <2>6
  <2> HIDE DEF p, f, x, sb, g
  <2>12. Books(ar, Append(p, g), None, None, FALSE)
    BY <2>1, <2>4, <2>5, <2>7, <2>8, <2>9, <2>10, EmitToObjectBooks
  <2>13. QED
    BY <2>1, <2>11, <2>12
<1>3. CASE EmitNowhere(ar, st)
  <2>1. st = <<>> /\ stack' = st /\ arena' = ar /\ evictions' = evictions
    BY <1>3 DEF EmitNowhere
  <2>2. \A u : Undisturbed(st, TRUE, st, FALSE, u)
    BY <2>1 DEF Undisturbed, SameOpen, TopAt, InArray, One
  <2> DEFINE none == None
             no == FALSE
             yes == TRUE
  <2>3. IsArena(ar) /\ Books(ar, st, none, none, yes) /\ \A u : Undisturbed(st, yes, st, no, u)
    BY <2>2
  <2> HIDE DEF none, no, yes
  <2>4. Books(ar, st, none, none, no)
    BY <2>3, RestackBooks
  <2>5. QED
    BY <2>1, <2>4 DEF none, no
<1>4. QED
  BY <1>1, <1>2, <1>3 DEF EmitChildSig

-----------------------------------------------------------------------------
(* A value is given a node.                                                *)
\* The last array begins its next item.
ItemBegun(st, a, n, sb) ==
  /\ \A u : u # a => Undisturbed(st, FALSE, sb, TRUE, u)
  /\ ItemsAt(sb, a) = ItemsAt(st, a) + 1 /\ ItemsAt(st, a) \in Nat
  /\ KeysAt(sb, a) = KeysAt(st, a)
  /\ n \in PositionsAt(st, a) /\ n + 1 \in PositionsAt(sb, a)
  /\ PositionsAt(sb, a) \subseteq PositionsAt(st, a) \cup {n + 1}
  /\ PositionsAt(st, a) \subseteq PositionsAt(sb, a) \cup {n}
  /\ \A kind : Opens(sb, a, kind) = Opens(st, a, kind)
  /\ TopAt(st, a) = 1
  /\ \A m \in Nat : /\ ReachAt(sb, a, m) = ReachAt(st, a, m) + One(m = n + 1)
                    /\ ReachAt(st, a, m) \in Nat

LEMMA ItemPushed ==
  ASSUME NEW st, Tidy(st), NEW f, f.kind = "array", f.position \in Nat,
         NEW g, g.kind = f.kind, g.node = f.node, g.position = f.position + 1
  PROVE  ItemBegun(Append(st, f), f.node, f.position, Append(st, g))
<1> DEFINE b == Append(st, f)
           c == Append(st, g)
           a == f.node
           n == f.position
<1>1. /\ f.kind = "object" => IsFiniteSet(f.children)
      /\ g.kind = "object" => IsFiniteSet(g.children)
      /\ g.kind = "array" /\ g.position \in Nat
  OBVIOUS
<1>2. ASSUME NEW u, u # a
      PROVE  Undisturbed(b, FALSE, c, TRUE, u)
  <2>1. SameOpen(st, b, u) /\ TopAt(b, u) = 0
    BY <1>1, <1>2, Elsewhere
  <2>2. SameOpen(st, c, u)
    BY <1>1, <1>2, Elsewhere
  <2> HIDE DEF b, c
  <2>3. QED
    BY <2>1, <2>2 DEF Undisturbed, SameOpen
<1>3. ArrayHere(st, f, b)
  BY <1>1, PushedHere
<1>4. ArrayHere(st, g, c)
  BY <1>1, PushedHere
<1> HIDE DEF b, c
<1>5. ItemsAt(c, a) = ItemsAt(b, a) + 1 /\ ItemsAt(b, a) \in Nat
  BY <1>3, <1>4 DEF ArrayHere
<1>6. /\ PositionsAt(b, a) = PositionsAt(st, a) \cup {n}
      /\ PositionsAt(c, a) = PositionsAt(st, a) \cup {n + 1}
  BY <1>3, <1>4 DEF ArrayHere
<1>7. \A kind : Opens(c, a, kind) = Opens(b, a, kind)
  <2>1. Tidy(st) /\ f.position \in Nat /\ g.position \in Nat
    BY <1>1
  <2>2. \A kind : Opens(b, a, kind) = Opens(st, a, kind) + One(f.node = a /\ f.kind = kind)
    BY <1>1, <2>1, Pushed DEF b
  <2>3. \A kind : Opens(c, a, kind) = Opens(st, a, kind) + One(g.node = a /\ g.kind = kind)
    BY <1>1, <2>1, Pushed DEF c
  <2>4. QED
    BY <2>2, <2>3
<1>8. ASSUME NEW m \in Nat
      PROVE  ReachAt(c, a, m) = ReachAt(b, a, m) + One(m = n + 1) /\ ReachAt(b, a, m) \in Nat
  <2>1. /\ ReachAt(b, a, m) = ReachAt(st, a, m) + One(n >= m) /\ ReachAt(st, a, m) \in Nat
        /\ ReachAt(c, a, m) = ReachAt(st, a, m) + One(n + 1 >= m)
    BY <1>3, <1>4 DEF ArrayHere
  <2>2. One(n + 1 >= m) = One(n >= m) + One(m = n + 1) /\ One(n >= m) \in Nat /\ One(m = n + 1) \in Nat
    BY DEF One
  <2> HIDE DEF n
  <2>3. QED
    BY <2>1, <2>2
<1>9. ItemBegun(b, a, n, c)
  <2>1. KeysAt(c, a) = KeysAt(b, a) /\ TopAt(b, a) = 1
    BY <1>3, <1>4 DEF ArrayHere
  <2>2. QED
    BY <1>2, <1>5, <1>6, <1>7, <1>8, <2>1 DEF ItemBegun
<1>10. QED
  BY <1>9 DEF b, c

\* The books but for the positions of a.
BooksBut(ar, st, a) ==
  \A u \in DOMAIN ar :
    /\ Inner(ar[u], st, u, None = u, FALSE)
    /\ KidsObserve(ar, st, None, u)
    /\ u # a => Positions(ar, st, None, u)

\* The views of the array at a change, by a node that nobody has seen at most.
ViewMoved(ar, a, b) ==
  /\ DOMAIN b = DOMAIN ar
  /\ \A u \in DOMAIN ar : u # a => b[u] = ar[u]
  /\ b[a].obs = ar[a].obs /\ b[a].scalars = ar[a].scalars /\ b[a].object = ar[a].object
  /\ b[a].array.obs = ar[a].array.obs
  /\ b[a].array.lengthSum = ar[a].array.lengthSum
  /\ b[a].array.lengths = ar[a].array.lengths
  /\ b[a].array.cluster = ar[a].array.cluster
  /\ b[a].array.bagValue = ar[a].array.bagValue
  /\ \/ ItemKids(b[a]) = ItemKids(ar[a])
     \/ \E new \in DOMAIN ar : ar[new].obs = 0 /\ ItemKids(b[a]) = ItemKids(ar[a]) \cup {new}

LEMMA ViewBooks ==
  ASSUME NEW ar, IsArena(ar), NEW st, Books(ar, st, None, None, FALSE),
         NEW a \in DOMAIN ar, HasArray(ar[a]), NEW b, ViewMoved(ar, a, b)
  PROVE  BooksBut(b, st, a)
<1>0. /\ DOMAIN b = DOMAIN ar /\ \A u \in DOMAIN ar : u # a => b[u] = ar[u]
      /\ b[a].obs = ar[a].obs /\ b[a].scalars = ar[a].scalars /\ b[a].object = ar[a].object
      /\ \A u \in DOMAIN ar : b[u].obs = ar[u].obs
  BY DEF ViewMoved
<1>1. None # a /\ None \notin DOMAIN ar
  BY NoneIsNoNode
<1>2. Inner(ar[a], st, a, None = a, FALSE) /\ Solid(ar[a])
  BY BooksParts
<1>3. HasObject(b[a]) = HasObject(ar[a]) /\ HasArray(b[a]) /\ FieldKids(b[a]) = FieldKids(ar[a])
  BY <1>0 DEF ViewMoved, HasObject, HasArray, FieldKids
<1>4. Inner(b[a], st, a, None = a, FALSE)
  <2>1. Solid(b[a])
    BY <1>0, <1>2, <1>3 DEF Solid, ViewMoved
  <2>2. ByKind(b[a], None = a) /\ ObjectSizes(b[a], st, a)
    BY <1>2 DEF Inner, ByKind, ObjectSizes, ViewMoved
  <2>3. ArraySizes(b[a], st, a) /\ Clustered(b[a], st, a, FALSE)
    BY <1>2 DEF Inner, ArraySizes, Clustered, ViewMoved
  <2>4. QED
    BY <2>1, <2>2, <2>3 DEF Inner
<1>5. \A u \in DOMAIN ar : ar[u].obs \in Nat /\ Seen(b, None, u) = Seen(ar, None, u)
  BY <1>0, BooksParts DEF Seen
<1>6. \A u \in DOMAIN ar : SameSeen(ar, None, b, None, ar[u])
  BY <1>5, SeenEverywhere
<1>7. KidsObserve(b, st, None, a)
  <2>1. KidsObserve(ar, st, None, a)
    BY BooksParts
  <2>2. HasObject(ar[a]) => SeenIn(b, None, FieldKids(ar[a])) = SeenIn(ar, None, FieldKids(ar[a]))
    <3>1. ASSUME HasObject(ar[a])
          PROVE  /\ IsFiniteSet(FieldKids(ar[a])) /\ FieldKids(ar[a]) \subseteq DOMAIN ar
                 /\ FieldKids(ar[a]) \subseteq DOMAIN b
                 /\ \A k \in FieldKids(ar[a]) : ar[k].obs \in Nat /\ Seen(b, None, k) = Seen(ar, None, k)
      BY <1>0, <1>5, <3>1, KidsInArena
    <3>2. QED
      BY <3>1, SeenInSame
  <2> DEFINE S == ItemKids(ar[a])
  <2>3. IsFiniteSet(S) /\ S \subseteq DOMAIN ar /\ S \subseteq DOMAIN b
    BY <1>0, KidsInArena
  <2>4. SeenIn(ar, None, S) \in Nat /\ SeenIn(b, None, S) = SeenIn(ar, None, S)
    <3>1. \A k \in S : ar[k].obs \in Nat /\ Seen(b, None, k) = Seen(ar, None, k)
      BY <1>5, <2>3
    <3> HIDE DEF S
    <3>2. QED
      BY <2>3, <3>1, SeenInSame
  <2>5. ASSUME NEW new \in DOMAIN ar, ar[new].obs = 0
        PROVE  SeenIn(b, None, S \cup {new}) = SeenIn(b, None, S)
    <3>1. CASE new \in S
      <4>1. S \cup {new} = S
        BY <3>1
      <4>2. QED
        BY <4>1
    <3>2. CASE new \notin S
      <4>1. Seen(b, None, new) = 0
        BY <1>0, <1>1, <2>5 DEF Seen, One
      <4>2. \A u \in S \cup {new} : b[u].obs \in Nat
        BY <1>0, <1>5, <2>3, <2>5
      <4> HIDE DEF S
      <4>3. SeenIn(b, None, S \cup {new}) = SeenIn(b, None, S) + Seen(b, None, new)
        BY <1>0, <2>3, <2>5, <3>2, <4>2, SeenInAdded
      <4>4. QED
        BY <2>4, <4>1, <4>3
    <3>3. QED
      BY <3>1, <3>2
  <2>6. SeenIn(b, None, ItemKids(b[a])) = SeenIn(ar, None, ItemKids(ar[a]))
    BY <2>4, <2>5 DEF ViewMoved
  <2>7. QED
    BY <1>0, <1>3, <2>1, <2>2, <2>6 DEF KidsObserve, ViewMoved
<1>8. Aside(ar, st, None, FALSE, a, b, st, None, FALSE)
  BY <1>0, <1>6, UndisturbedSame DEF Aside
<1>9. ASSUME NEW u \in DOMAIN ar, u # a
       PROVE  BooksAt(b, st, None, None, FALSE, u)
  <2> DEFINE none == None
             no == FALSE
  <2>1. /\ none = u <=> none = u
        /\ Aside(ar, st, none, no, a, b, st, none, no)
        /\ Books(ar, st, none, none, no)
    BY <1>8
  <2> HIDE DEF none, no
  <2>2. BooksAt(b, st, none, none, no, u)
    BY <1>9, <2>1, Others
  <2>3. QED
    BY <2>2 DEF none, no
<1>10. QED
  BY <1>0, <1>4, <1>7, <1>9 DEF BooksBut, BooksAt

\* The next item goes to node k.
LEMMA ItemBooks ==
  ASSUME NEW b, IsArena(b), Separate(b), NEW st, NEW a \in DOMAIN b, HasArray(b[a]),
         BooksBut(b, st, a), NEW k \in ItemKids(b[a]), NEW n, NEW sb, ItemBegun(st, a, n, sb),
         Positions(b, sb, k, a)
  PROVE  Books(b, sb, k, None, TRUE)
<1>1. None # a /\ None \notin DOMAIN b
  BY NoneIsNoNode
<1>2. Inner(b[a], st, a, None = a, FALSE) /\ Solid(b[a]) /\ KidsObserve(b, st, None, a)
  BY DEF BooksBut, Inner
<1>3. /\ \A u : u # a => Undisturbed(st, FALSE, sb, TRUE, u)
      /\ ItemsAt(sb, a) = ItemsAt(st, a) + 1 /\ ItemsAt(st, a) \in Nat
      /\ KeysAt(sb, a) = KeysAt(st, a)
      /\ \A kind : Opens(sb, a, kind) = Opens(st, a, kind)
      /\ TopAt(st, a) = 1
  BY DEF ItemBegun
<1>4. Inner(b[a], sb, a, None = a, TRUE)
  <2>1. ObjectSizes(b[a], sb, a) /\ ArraySizes(b[a], sb, a)
    BY <1>2, <1>3 DEF Inner, ObjectSizes, ArraySizes
  <2>2. Clustered(b[a], sb, a, TRUE)
    <3>1. b[a].array.lengthSum \in Nat
      BY <1>2, SolidSums
    <3>2. Mass(b[a].array.cluster.counters) + Opens(st, a, "array") =
            b[a].array.lengthSum + ItemsAt(st, a) + 1
      BY <1>2, <1>3 DEF Inner, Clustered
    <3>3. Mass(b[a].array.cluster.counters) + Opens(sb, a, "array") =
            b[a].array.lengthSum + ItemsAt(sb, a) + 0
      BY <1>3, <3>1, <3>2
    <3>4. QED
      BY <3>3 DEF Clustered
  <2>3. QED
    BY <1>2, <2>1, <2>2 DEF Inner
<1>5. \A u \in DOMAIN b : b[u].obs \in Nat
  BY DEF BooksBut, Inner, Solid
<1>6. \A u \in DOMAIN b : u # k => Seen(b, k, u) = Seen(b, None, u)
  BY <1>1, <1>5 DEF Seen, One
<1>7. \A u \in DOMAIN b :
        /\ HasArray(b[u]) /\ k \in ItemKids(b[u]) => u = a
        /\ HasObject(b[u]) => k \notin FieldKids(b[u])
  BY OneParent
<1>8. ASSUME NEW u \in DOMAIN b, u # a
      PROVE  SameSeen(b, None, b, k, b[u])
  <2>1. HasObject(b[u]) => FieldKids(b[u]) \subseteq DOMAIN b /\ k \notin FieldKids(b[u])
    BY <1>7, KidsInArena
  <2>2. HasArray(b[u]) => ItemKids(b[u]) \subseteq DOMAIN b /\ k \notin ItemKids(b[u])
    BY <1>7, <1>8, KidsInArena
  <2>3. QED
    BY <1>6, <2>1, <2>2 DEF SameSeen
<1>9. KidsObserve(b, sb, k, a)
  <2>1. HasObject(b[a]) => SeenIn(b, k, FieldKids(b[a])) = SeenIn(b, None, FieldKids(b[a]))
    <3>1. ASSUME HasObject(b[a])
          PROVE  /\ IsFiniteSet(FieldKids(b[a])) /\ FieldKids(b[a]) \subseteq DOMAIN b
                 /\ \A u \in FieldKids(b[a]) : b[u].obs \in Nat /\ Seen(b, k, u) = Seen(b, None, u)
      <4>1. k \notin FieldKids(b[a]) /\ IsFiniteSet(FieldKids(b[a])) /\ FieldKids(b[a]) \subseteq DOMAIN b
        BY <1>7, <3>1, KidsInArena
      <4>2. QED
        BY <1>5, <1>6, <4>1
    <3>2. QED
      BY <3>1, SeenInSame
  <2> DEFINE S == ItemKids(b[a])
  <2>2. IsFiniteSet(S) /\ S \subseteq DOMAIN b /\ None \notin S /\ k \in S
    BY KidsInArena
  <2>3. \A u \in S : b[u].obs \in Nat
    BY <1>5, <2>2
  <2>4. SeenIn(b, k, S) = SeenIn(b, None, S) + 1 /\ SeenIn(b, None, S) \in Nat
    <3> HIDE DEF S
    <3>1. QED
      BY <2>2, <2>3, SeenInOwed
  <2>5. b[a].array.lengthSum + ItemsAt(sb, a) = SeenIn(b, k, S)
    <3>1. b[a].array.lengthSum + ItemsAt(st, a) = SeenIn(b, None, S)
      BY <1>2 DEF KidsObserve
    <3>2. b[a].array.lengthSum \in Nat
      BY <1>2, SolidSums
    <3> HIDE DEF S
    <3>3. QED
      BY <1>3, <2>4, <3>1, <3>2
  <2>6. QED
    BY <1>2, <2>1, <2>5 DEF KidsObserve
<1>10. Aside(b, st, None, FALSE, a, b, sb, k, TRUE)
  BY <1>3, <1>8 DEF Aside
<1>11. ASSUME NEW u \in DOMAIN b, u # a
       PROVE  BooksAt(b, sb, k, None, TRUE, u)
  <2> DEFINE none == None
             no == FALSE
             yes == TRUE
  <2>1. /\ none = u <=> none = u
        /\ Aside(b, st, none, no, a, b, sb, k, yes)
        /\ BooksAt(b, st, none, none, no, u)
    BY <1>10, <1>11 DEF BooksBut, BooksAt
  <2> HIDE DEF none, no, yes
  <2>2. BooksAt(b, sb, k, none, yes, u)
    BY <1>5, <1>11, <2>1, OtherNode
  <2>3. QED
    BY <2>2 DEF none, yes
<1>12. QED
  BY <1>4, <1>9, <1>11 DEF Books, BooksAt

\* The node for an item is a position or the bag.
LEMMA ArrayChildBooks ==
  ASSUME NEW ar, Good(ar), NEW st, Frames(st, ar), Books(ar, st, None, None, FALSE),
         NEW a \in DOMAIN ar, HasArray(ar[a]), NEW n \in Nat, NEW sb, ItemBegun(st, a, n, sb),
         ar[a].array.positionalAlive => n <= Len(ar[a].array.positional)
  PROVE  LET child == ArrayChild(ar, a, n)
         IN Books(child.arena, sb, child.id, None, TRUE)
<1> DEFINE child == ArrayChild(ar, a, n)
           arr == ar[a].array
           known == arr.positionalAlive /\ n < Len(arr.positional)
           fresh == arr.positionalAlive /\ ~known /\ n < PositionalCap
<1>0. IsArena(ar) /\ Separate(ar)
  BY DEF Good
<1>1. Good(child.arena) /\ IsArena(child.arena) /\ Separate(child.arena)
  <2> DEFINE br == child.arena
  <2>1. Ripens(ar, br)
    BY ArrayChildRipens
  <2> HIDE DEF br
  <2>2. Good(br)
    BY <2>1, RipensArena
  <2>3. QED
    BY <2>2 DEF Good, br
<1>2. /\ Sequence(arr.positional) /\ Len(arr.positional) \in Nat
      /\ DOMAIN arr.positional = 1 .. Len(arr.positional)
      /\ IsNode(ar[a], Len(ar))
  BY <1>0, SequenceLen DEF IsArena, IsNode, IsArray
<1>3. /\ Positions(ar, st, None, a) /\ Inner(ar[a], st, a, None = a, FALSE)
      /\ \A u \in DOMAIN ar : ar[u].obs \in Nat
  BY BooksParts
<1>4. /\ n \in PositionsAt(st, a) /\ n + 1 \in PositionsAt(sb, a)
      /\ PositionsAt(sb, a) \subseteq PositionsAt(st, a) \cup {n + 1}
      /\ PositionsAt(st, a) \subseteq PositionsAt(sb, a) \cup {n}
      /\ \A m \in Nat : ReachAt(sb, a, m) = ReachAt(st, a, m) + One(m = n + 1) /\ ReachAt(st, a, m) \in Nat
  BY DEF ItemBegun
<1>5. None \notin DOMAIN ar
  BY <1>0, NoneIsNoNode
<1>6. arr.positionalAlive =>
        /\ Len(arr.positional) \in DOMAIN arr.lengths \cup PositionsAt(st, a)
        /\ \A m \in DOMAIN arr.lengths \cup PositionsAt(st, a) : m <= Len(arr.positional)
        /\ \A m \in DOMAIN arr.positional :
             Seen(ar, None, arr.positional[m]) = LongEnough(arr.lengths, m) + ReachAt(st, a, m)
  BY <1>3 DEF Positions
<1>7. IsHistogram(arr.lengths) /\ \A m : LongEnough(arr.lengths, m) \in Nat
  <2>1. IsHistogram(arr.lengths) /\ 0 \in Nat
    BY <1>3 DEF Inner, Solid
  <2>2. OneMore(arr.lengths, 0, Tick(arr.lengths, 0))
    BY <2>1, TickMore
  <2>3. QED
    BY <2>1, <2>2 DEF OneMore
<1>8. CASE known
  <2> DEFINE k == arr.positional[n + 1]
  <2>1. child.arena = ar /\ child.id = k
    BY <1>8 DEF ArrayChild
  <2>2. n + 1 \in DOMAIN arr.positional /\ k \in ItemKids(ar[a]) /\ k \in DOMAIN ar
    <3>1. n + 1 \in DOMAIN arr.positional
      BY <1>2, <1>8
    <3>2. k \in ItemKids(ar[a])
      BY <3>1 DEF ItemKids
    <3>3. QED
      BY <1>0, <3>1, <3>2, KidsInArena
  <2>3. BooksBut(ar, st, a)
    BY DEF Books, BooksAt, BooksBut
  <2>4. \A m \in DOMAIN arr.positional : arr.positional[m] = k => m = n + 1
    <3>1. TAKE m \in DOMAIN arr.positional
    <3>2. /\ <<"item", m>> \in SlotsOf(ar[a]) /\ <<"item", n + 1>> \in SlotsOf(ar[a])
          /\ At(ar[a], <<"item", m>>) = arr.positional[m] /\ At(ar[a], <<"item", n + 1>>) = k
      BY <2>2 DEF SlotsOf, ArraySlots, At
    <3>3. HAVE arr.positional[m] = k
    <3>4. <<"item", m>> = <<"item", n + 1>>
      BY <1>0, <3>2, <3>3, Apart
    <3>5. QED
      BY <3>4
  <2>5. Positions(ar, sb, k, a)
    <3> DEFINE d == Len(arr.positional)
               L == DOMAIN arr.lengths
    <3>0. /\ d \in Nat /\ n < d /\ d \in L \cup PositionsAt(st, a)
          /\ \A m \in L \cup PositionsAt(st, a) : m <= d
      BY <1>2, <1>6, <1>8
    <3>1. Len(arr.positional) \in DOMAIN arr.lengths \cup PositionsAt(sb, a)
      <4> HIDE DEF d, L
      <4>1. d # n
        BY <3>0
      <4>2. d \in L \cup PositionsAt(sb, a)
        BY <1>4, <3>0, <4>1
      <4>3. QED
        BY <4>2 DEF d, L
    <3>2. \A m \in DOMAIN arr.lengths \cup PositionsAt(sb, a) : m <= Len(arr.positional)
      <4> HIDE DEF d, L
      <4>1. n + 1 <= d
        BY <3>0
      <4>2. \A m \in L \cup PositionsAt(sb, a) : m <= d
        BY <1>4, <3>0, <4>1
      <4>3. QED
        BY <4>2 DEF d, L
    <3> HIDE DEF d, L
    <3>3. ASSUME NEW m \in DOMAIN arr.positional
          PROVE  Seen(ar, k, arr.positional[m]) = LongEnough(arr.lengths, m) + ReachAt(sb, a, m)
      <4>1. Seen(ar, None, arr.positional[m]) = LongEnough(arr.lengths, m) + ReachAt(st, a, m)
        BY <1>6, <1>8
      <4>2. m \in Nat /\ arr.positional[m] \in DOMAIN ar
        <5>1. arr.positional[m] \in ItemKids(ar[a])
          BY DEF ItemKids
        <5>2. QED
          BY <1>0, <1>2, <5>1, KidsInArena
      <4>3. Seen(ar, k, arr.positional[m]) = Seen(ar, None, arr.positional[m]) + One(m = n + 1)
        <5>1. One(None = arr.positional[m]) = 0
          BY <1>5, <4>2 DEF One
        <5>2. (k = arr.positional[m]) = (m = n + 1)
          BY <2>4
        <5>3. ar[arr.positional[m]].obs \in Nat /\ One(m = n + 1) \in Nat
          BY <1>3, <4>2, OneType
        <5>4. QED
          BY <5>1, <5>2, <5>3 DEF Seen
      <4>4. /\ ReachAt(sb, a, m) = ReachAt(st, a, m) + One(m = n + 1) /\ ReachAt(st, a, m) \in Nat
            /\ LongEnough(arr.lengths, m) \in Nat /\ One(m = n + 1) \in Nat
        BY <1>4, <1>7, <4>2, OneType
      <4>5. QED
        BY <4>1, <4>3, <4>4
    <3>4. QED
      BY <3>1, <3>2, <3>3 DEF Positions
  <2> HIDE DEF k
  <2>6. Books(ar, sb, k, None, TRUE)
    BY <1>0, <2>2, <2>3, <2>5, ItemBooks
  <2>7. QED
    BY <2>1, <2>6
<1>9. CASE fresh
  <2> DEFINE c == Alloc(ar)
             new == FreshId(ar)
             b == [c EXCEPT ![a].array.positional = Append(@, new)]
             old == arr.positional
             d == Len(old)
  <2>0. child.arena = b /\ child.id = new
    BY <1>9 DEF ArrayChild
  <2>1. /\ DOMAIN c = DOMAIN ar \cup {new} /\ new \notin DOMAIN ar /\ new # None
        /\ c[new] = NewNode /\ \A u \in DOMAIN ar : c[u] = ar[u]
    BY <1>0, AllocNodes
  <2>2. Grows(ar, c) /\ IsArena(c)
    BY <1>0, AllocGrows DEF Grows
  <2>3. Books(c, st, None, None, FALSE)
    <3> DEFINE no == FALSE
               none == None
    <3>1. none \in DOMAIN ar \cup {None} /\ Books(ar, st, None, none, no)
      OBVIOUS
    <3> HIDE DEF no, none
    <3>2. Books(Alloc(ar), st, None, none, no)
      BY <1>0, <3>1, AllocBooks
    <3>3. QED
      BY <3>2 DEF no, none
  <2> HIDE DEF c, new
  <2>4. a \in DOMAIN c /\ new \in DOMAIN c /\ c[a] = ar[a] /\ c[new].obs = 0 /\ HasArray(c[a])
    BY <2>1 DEF NewNode
  <2>5. IsNode(c[a], Len(c))
    BY <2>2, <2>4 DEF IsArena
  <2>6. /\ DOMAIN b = DOMAIN c /\ \A u \in DOMAIN c : u # a => b[u] = c[u]
        /\ b[a].obs = c[a].obs /\ b[a].scalars = c[a].scalars /\ b[a].object = c[a].object
        /\ b[a].array = [c[a].array EXCEPT !.positional = Append(old, new)]
    BY <2>4, <2>5 DEF IsNode
  <2> HIDE DEF b
  <2>7. /\ b[a].array.obs = c[a].array.obs
        /\ b[a].array.lengthSum = c[a].array.lengthSum
        /\ b[a].array.lengths = c[a].array.lengths
        /\ b[a].array.cluster = c[a].array.cluster
        /\ b[a].array.bagValue = c[a].array.bagValue
        /\ b[a].array.positionalAlive = c[a].array.positionalAlive
        /\ b[a].array.positional = Append(old, new)
    BY <2>5, <2>6 DEF IsNode, IsArray
  <2>8. /\ Sequence(Append(old, new)) /\ Len(Append(old, new)) = d + 1
        /\ DOMAIN Append(old, new) = DOMAIN old \cup {d + 1} /\ DOMAIN old = 1 .. d /\ d \in Nat
        /\ \A m \in DOMAIN old : Append(old, new)[m] = old[m]
        /\ Append(old, new)[d + 1] = new
    <3>1. /\ Sequence(Append(old, new)) /\ Len(Append(old, new)) = d + 1
          /\ \A m \in 1 .. d : Append(old, new)[m] = old[m]
          /\ Append(old, new)[d + 1] = new /\ DOMAIN old = 1 .. d /\ d \in Nat
      BY <1>2, SequenceAppend
    <3> DEFINE s == Append(old, new)
    <3>2. DOMAIN s = 1 .. d + 1
      <4> HIDE DEF s
      <4>1. DOMAIN s = 1 .. Len(s)
        BY <3>1, SequenceLen DEF s
      <4>2. QED
        BY <3>1, <4>1 DEF s
    <3>3. 1 .. d + 1 = (1 .. d) \cup {d + 1}
      BY <3>1
    <3>4. QED
      BY <3>1, <3>2, <3>3
  <2>9. d = n
    <3>1. n <= d /\ ~(n < d) /\ n \in Nat /\ d \in Nat
      BY <1>2, <1>9
    <3> HIDE DEF d
    <3>2. QED
      BY <3>1
  <2>10. ItemKids(b[a]) = ItemKids(c[a]) \cup {new}
    BY <2>4, <2>7, <2>8 DEF ItemKids
  <2>11. ViewMoved(c, a, b)
    BY <2>4, <2>6, <2>7, <2>10 DEF ViewMoved
  <2>12. BooksBut(b, st, a)
    BY <2>2, <2>3, <2>4, <2>11, ViewBooks
  <2>13. IsArena(b) /\ Separate(b) /\ a \in DOMAIN b /\ HasArray(b[a]) /\ new \in ItemKids(b[a])
    BY <1>1, <2>0, <2>4, <2>6, <2>7, <2>10 DEF HasArray
  <2>14. Positions(b, sb, new, a)
    <3> DEFINE lengths == arr.lengths
    <3>1. /\ lengths = b[a].array.lengths
          /\ \A m \in DOMAIN lengths \cup PositionsAt(st, a) : m <= n
          /\ \A m \in DOMAIN old : Seen(ar, None, old[m]) = LongEnough(lengths, m) + ReachAt(st, a, m)
      BY <1>6, <1>9, <2>4, <2>7, <2>9
    <3>2. n + 1 \in DOMAIN lengths \cup PositionsAt(sb, a)
      BY <1>4
    <3>3. \A m \in DOMAIN lengths \cup PositionsAt(sb, a) : m <= n + 1
      <4>1. \A m \in DOMAIN lengths \cup PositionsAt(st, a) : m \in Nat
        <5>1. DOMAIN lengths \subseteq Nat
          BY <1>7 DEF IsHistogram
        <5>2. PositionsAt(st, a) \subseteq Nat
          BY DEF PositionsAt, FramesAt, Frames, IsFrame
        <5>3. QED
          BY <5>1, <5>2
      <4> HIDE DEF lengths
      <4>2. PositionsAt(sb, a) \subseteq PositionsAt(st, a) \cup {n + 1} /\ n \in PositionsAt(st, a)
        BY <1>4
      <4>3. n \in Nat
        BY <4>1, <4>2
      <4>4. QED
        BY <3>1, <4>1, <4>2, <4>3
    <3>4. ASSUME NEW m \in DOMAIN old
          PROVE  Seen(b, new, old[m]) = LongEnough(lengths, m) + ReachAt(sb, a, m)
      <4>1. old[m] \in DOMAIN ar /\ m \in Nat /\ m # n + 1
        <5>1. old[m] \in ItemKids(ar[a])
          BY DEF ItemKids
        <5>2. m \in 1 .. d
          BY <2>8
        <5>3. m \in Nat /\ m <= n
          BY <2>8, <2>9, <5>2
        <5>4. QED
          BY <1>0, <5>1, <5>3, KidsInArena
      <4>2. b[old[m]].obs = ar[old[m]].obs /\ new # old[m] /\ None # old[m]
        BY <1>5, <2>1, <2>4, <2>6, <4>1
      <4>3. Seen(b, new, old[m]) = Seen(ar, None, old[m])
        BY <4>2 DEF Seen, One
      <4>4. ReachAt(sb, a, m) = ReachAt(st, a, m)
        BY <1>4, <4>1 DEF One
      <4>5. QED
        BY <3>1, <4>3, <4>4
    <3>5. Seen(b, new, new) = LongEnough(lengths, n + 1) + ReachAt(sb, a, n + 1)
      <4>1. Seen(b, new, new) = 1
        <5>1. b[new].obs = 0
          BY <2>1, <2>4, <2>6
        <5>2. QED
          BY <5>1 DEF Seen, One
      <4>2. LongEnough(lengths, n + 1) = 0
        <5>1. {m \in DOMAIN lengths : m >= n + 1} = {}
          <6>1. \A m \in DOMAIN lengths : m \in Nat /\ m <= n
            BY <1>7, <3>1 DEF IsHistogram
          <6> HIDE DEF lengths
          <6>2. QED
            BY <6>1
        <5>2. QED
          BY <5>1, SumEmpty DEF LongEnough
      <4>3. ReachAt(st, a, n + 1) = 0
        <5>1. \A i \in FramesAt(st, a, "array") : st[i].position <= n /\ st[i].position \in Nat
          <6>1. \A i \in FramesAt(st, a, "array") : st[i].position \in PositionsAt(st, a)
            BY DEF PositionsAt
          <6>2. \A i \in FramesAt(st, a, "array") : st[i].position \in Nat
            BY DEF FramesAt, Frames, IsFrame
          <6>3. QED
            BY <3>1, <6>1, <6>2
        <5>2. {i \in FramesAt(st, a, "array") : st[i].position >= n + 1} = {}
          BY <5>1
        <5>3. QED
          BY <5>2, FS_EmptySet DEF ReachAt
      <4>4. ReachAt(sb, a, n + 1) = 0 + One(n + 1 = n + 1)
        BY <1>4, <4>3
      <4>5. QED
        BY <4>1, <4>2, <4>4 DEF One
    <3>6. \A m \in DOMAIN Append(old, new) :
            Seen(b, new, Append(old, new)[m]) = LongEnough(lengths, m) + ReachAt(sb, a, m)
      <4>1. \A m \in DOMAIN old :
              Seen(b, new, Append(old, new)[m]) = LongEnough(lengths, m) + ReachAt(sb, a, m)
        BY <2>8, <3>4
      <4>2. Seen(b, new, Append(old, new)[n + 1]) = LongEnough(lengths, n + 1) + ReachAt(sb, a, n + 1)
        BY <2>8, <2>9, <3>5
      <4>3. QED
        BY <2>8, <2>9, <4>1, <4>2
    <3> HIDE DEF lengths
    <3>7. QED
      BY <2>7, <2>8, <2>9, <3>1, <3>2, <3>3, <3>6 DEF Positions
  <2>15. Books(b, sb, new, None, TRUE)
    BY <2>12, <2>13, <2>14, ItemBooks
  <2>16. QED
    BY <2>0, <2>15
<1>10. CASE ~known /\ ~fresh
  <2> DEFINE b == [ar EXCEPT ![a].array.positionalAlive = FALSE]
             k == arr.bagValue
  <2>1. child.arena = b /\ child.id = k
    BY <1>10 DEF ArrayChild
  <2>2. /\ DOMAIN b = DOMAIN ar /\ \A u \in DOMAIN ar : u # a => b[u] = ar[u]
        /\ b[a].obs = ar[a].obs /\ b[a].scalars = ar[a].scalars /\ b[a].object = ar[a].object
        /\ b[a].array = [ar[a].array EXCEPT !.positionalAlive = FALSE]
    BY <1>2 DEF IsNode
  <2> HIDE DEF b
  <2>3. /\ b[a].array.obs = ar[a].array.obs
        /\ b[a].array.lengthSum = ar[a].array.lengthSum
        /\ b[a].array.lengths = ar[a].array.lengths
        /\ b[a].array.cluster = ar[a].array.cluster
        /\ b[a].array.bagValue = ar[a].array.bagValue
        /\ b[a].array.positional = ar[a].array.positional
        /\ ~b[a].array.positionalAlive
    BY <1>2, <2>2 DEF IsNode, IsArray
  <2>4. ItemKids(b[a]) = ItemKids(ar[a])
    BY <2>3 DEF ItemKids
  <2>5. ViewMoved(ar, a, b)
    BY <2>2, <2>3, <2>4 DEF ViewMoved
  <2>6. BooksBut(b, st, a)
    BY <1>0, <2>5, ViewBooks
  <2>7. IsArena(b) /\ Separate(b) /\ a \in DOMAIN b /\ HasArray(b[a]) /\ k \in ItemKids(b[a])
    BY <1>1, <2>1, <2>2, <2>3 DEF HasArray, ItemKids
  <2>8. Positions(b, sb, k, a)
    BY <2>3 DEF Positions
  <2> HIDE DEF k
  <2>9. Books(b, sb, k, None, TRUE)
    BY <2>6, <2>7, <2>8, ItemBooks
  <2>10. QED
    BY <2>1, <2>9
<1>11. QED
  BY <1>8, <1>9, <1>10

-----------------------------------------------------------------------------
(* The sketches of nodes that are there stay, those of new nodes are new.  *)
SketchesKept(ar, b) ==
  /\ DOMAIN ar \subseteq DOMAIN b /\ IsFiniteSet(DOMAIN b)
  /\ \A u \in DOMAIN ar : b[u].array.cluster = ar[u].array.cluster
  /\ \A u \in DOMAIN b \ DOMAIN ar : b[u].array.cluster = NewTable

LEMMA SketchesOn ==
  ASSUME NEW ar, NEW b, SketchesKept(ar, b), NEW c, SketchesKept(b, c)
  PROVE  SketchesKept(ar, c)
<1>1. \A u \in DOMAIN ar : u \in DOMAIN b /\ u \in DOMAIN c /\ c[u].array.cluster = ar[u].array.cluster
  BY DEF SketchesKept
<1>2. \A u \in DOMAIN c \ DOMAIN ar : c[u].array.cluster = NewTable
  BY DEF SketchesKept
<1>3. QED
  BY <1>1, <1>2 DEF SketchesKept

LEMMA KeptEvictions ==
  ASSUME NEW ar, \A u \in DOMAIN ar : Solid(ar[u]), NEW b, SketchesKept(ar, b)
  PROVE  EvictionsIn(b) = EvictionsIn(ar)
<1> DEFINE f == [t \in DOMAIN ar |-> ar[t].array.cluster.evictions]
           g == [t \in DOMAIN b |-> b[t].array.cluster.evictions]
           D == DOMAIN ar
           E == DOMAIN b
<1>1. /\ D \subseteq E /\ IsFiniteSet(E) /\ IsFiniteSet(D)
  BY FS_Subset DEF SketchesKept
<1>2. \A u \in D : f[u] \in Nat /\ g[u] = f[u]
  BY DEF SketchesKept, Solid, IsTable
<1>3. \A u \in E \ D : g[u] = 0
  BY DEF SketchesKept, NewTable
<1>4. EvictionsIn(ar) = SumOver(f, D) /\ EvictionsIn(b) = SumOver(g, E)
  BY DEF EvictionsIn
<1> HIDE DEF f, g, D, E
<1>5. \A u \in E : g[u] \in Nat
  BY <1>2, <1>3
<1>6. SumOver(g, E) = SumOver(g, D)
  BY <1>1, <1>3, <1>5, SumZeros
<1>7. SumOver(g, D) = SumOver(f, D)
  BY <1>1, <1>2, SumSame
<1>8. QED
  BY <1>4, <1>6, <1>7

LEMMA FiniteArena == \A ar : IsArena(ar) => IsFiniteSet(DOMAIN ar)
<1>1. TAKE ar
<1>2. HAVE IsArena(ar)
<1>3. DOMAIN ar = 1 .. Len(ar) /\ Len(ar) \in Nat
  BY <1>2, ArenaLen
<1>4. QED
  BY <1>3, FS_Interval

LEMMA SketchesSame == \A ar : IsArena(ar) => SketchesKept(ar, ar)
BY FiniteArena DEF SketchesKept

LEMMA AllocSketches ==
  ASSUME NEW ar, IsArena(ar)
  PROVE  SketchesKept(ar, Alloc(ar))
<1>1. /\ DOMAIN Alloc(ar) = DOMAIN ar \cup {FreshId(ar)}
      /\ Alloc(ar)[FreshId(ar)] = NewNode
      /\ \A u \in DOMAIN ar : Alloc(ar)[u] = ar[u]
  BY AllocNodes
<1>2. IsFiniteSet(DOMAIN Alloc(ar))
  BY AllocGrows, FiniteArena DEF Grows
<1>3. NewNode.array.cluster = NewTable
  BY DEF NewNode, NewArray
<1>4. QED
  BY <1>1, <1>2, <1>3 DEF SketchesKept

\* Anything may change at t but its sketch.
LEMMA SketchesPut ==
  ASSUME NEW ar, IsArena(ar), NEW t \in DOMAIN ar, NEW b, DOMAIN b = DOMAIN ar,
         \A u \in DOMAIN ar : u # t => b[u] = ar[u],
         b[t].array.cluster = ar[t].array.cluster
  PROVE  SketchesKept(ar, b)
BY FiniteArena DEF SketchesKept

LEMMA ArrayChildSketches ==
  ASSUME NEW ar, IsArena(ar), NEW a \in DOMAIN ar, NEW n
  PROVE  SketchesKept(ar, ArrayChild(ar, a, n).arena)
<1> DEFINE br == ArrayChild(ar, a, n).arena
           c == Alloc(ar)
           new == FreshId(ar)
           b1 == [c EXCEPT ![a].array.positional = Append(@, new)]
           b2 == [ar EXCEPT ![a].array.positionalAlive = FALSE]
<1>1. br \in {ar, b1, b2}
  BY DEF ArrayChild
<1>2. IsArena(c) /\ SketchesKept(ar, c) /\ a \in DOMAIN c
  BY AllocGrows, AllocNodes, AllocSketches DEF Grows
<1> HIDE DEF c, new
<1>3. IsNode(ar[a], Len(ar)) /\ IsNode(c[a], Len(c))
  BY <1>2 DEF IsArena
<1>4. /\ DOMAIN b1 = DOMAIN c /\ \A u \in DOMAIN c : u # a => b1[u] = c[u]
      /\ b1[a].array.cluster = c[a].array.cluster
  BY <1>2, <1>3 DEF IsNode, IsArray
<1>5. /\ DOMAIN b2 = DOMAIN ar /\ \A u \in DOMAIN ar : u # a => b2[u] = ar[u]
      /\ b2[a].array.cluster = ar[a].array.cluster
  BY <1>3 DEF IsNode, IsArray
<1> HIDE DEF b1, b2, br
<1>6. SketchesKept(c, b1)
  BY <1>2, <1>4, SketchesPut
<1>7. SketchesKept(ar, b1)
  BY <1>2, <1>6, SketchesOn
<1>8. SketchesKept(ar, b2)
  BY <1>5, SketchesPut
<1>9. SketchesKept(ar, br)
  BY <1>1, <1>7, <1>8, SketchesSame
<1>10. QED
  BY <1>9 DEF br

LEMMA ObjectChildSketches ==
  ASSUME NEW ar, IsArena(ar), NEW o \in DOMAIN ar, NEW key
  PROVE  SketchesKept(ar, ObjectChild(ar, o, key).arena)
<1> DEFINE br == ObjectChild(ar, o, key).arena
           c == Alloc(ar)
           new == FreshId(ar)
           b1 == [c EXCEPT ![o].object.fields =
                    [k \in DOMAIN @ \cup {key} |-> IF k = key THEN new ELSE @[k]]]
           b2 == [ar EXCEPT ![o].object.recordAlive = FALSE]
<1>1. br \in {ar, b1, b2}
  BY DEF ObjectChild
<1>2. IsArena(c) /\ SketchesKept(ar, c) /\ o \in DOMAIN c
  BY AllocGrows, AllocNodes, AllocSketches DEF Grows
<1> HIDE DEF c, new
<1>3. IsNode(ar[o], Len(ar)) /\ IsNode(c[o], Len(c))
  BY <1>2 DEF IsArena
<1>4. /\ DOMAIN b1 = DOMAIN c /\ \A u \in DOMAIN c : u # o => b1[u] = c[u]
      /\ b1[o].array.cluster = c[o].array.cluster
  BY <1>2, <1>3 DEF IsNode
<1>5. /\ DOMAIN b2 = DOMAIN ar /\ \A u \in DOMAIN ar : u # o => b2[u] = ar[u]
      /\ b2[o].array.cluster = ar[o].array.cluster
  BY <1>3 DEF IsNode
<1> HIDE DEF b1, b2, br
<1>6. SketchesKept(c, b1)
  BY <1>2, <1>4, SketchesPut
<1>7. SketchesKept(ar, b1)
  BY <1>2, <1>6, SketchesOn
<1>8. SketchesKept(ar, b2)
  BY <1>5, SketchesPut
<1>9. SketchesKept(ar, br)
  BY <1>1, <1>7, <1>8, SketchesSame
<1>10. QED
  BY <1>9 DEF br

LEMMA EnsureArraySketches ==
  ASSUME NEW ar, IsArena(ar), NEW t \in DOMAIN ar, Solid(ar[t])
  PROVE  SketchesKept(ar, EnsureArray(ar, t))
<1> DEFINE c == Alloc(ar)
           new == FreshId(ar)
           b == [c EXCEPT ![t].array = NewArray(new)]
<1>1. CASE HasArray(ar[t])
  BY <1>1, SketchesSame DEF EnsureArray
<1>2. CASE ~HasArray(ar[t])
  <2>1. EnsureArray(ar, t) = b
    BY <1>2 DEF EnsureArray
  <2>2. IsArena(c) /\ SketchesKept(ar, c) /\ t \in DOMAIN c /\ c[t] = ar[t]
    BY AllocGrows, AllocNodes, AllocSketches DEF Grows
  <2> HIDE DEF c, new
  <2>3. IsNode(c[t], Len(c))
    BY <2>2 DEF IsArena
  <2>4. c[t].array.cluster = NewTable
    BY <1>2, <2>2 DEF Solid, NewArray
  <2>5. /\ DOMAIN b = DOMAIN c /\ \A u \in DOMAIN c : u # t => b[u] = c[u]
        /\ b[t].array.cluster = c[t].array.cluster
    BY <2>2, <2>3, <2>4 DEF IsNode, NewArray
  <2> HIDE DEF b
  <2>6. SketchesKept(c, b)
    BY <2>2, <2>5, SketchesPut
  <2>7. QED
    BY <2>1, <2>2, <2>6, SketchesOn
<1>3. QED
  BY <1>1, <1>2

LEMMA EnsureObjectSketches ==
  ASSUME NEW ar, IsArena(ar), NEW t \in DOMAIN ar
  PROVE  SketchesKept(ar, EnsureObject(ar, t))
<1> DEFINE c == Alloc(ar)
           new == FreshId(ar)
           b == [c EXCEPT ![t].object = NewObject(new)]
<1>1. CASE HasObject(ar[t])
  BY <1>1, SketchesSame DEF EnsureObject
<1>2. CASE ~HasObject(ar[t])
  <2>1. EnsureObject(ar, t) = b
    BY <1>2 DEF EnsureObject
  <2>2. IsArena(c) /\ SketchesKept(ar, c) /\ t \in DOMAIN c
    BY AllocGrows, AllocNodes, AllocSketches DEF Grows
  <2> HIDE DEF c, new
  <2>3. IsNode(c[t], Len(c))
    BY <2>2 DEF IsArena
  <2>5. /\ DOMAIN b = DOMAIN c /\ \A u \in DOMAIN c : u # t => b[u] = c[u]
        /\ b[t].array.cluster = c[t].array.cluster
    BY <2>2, <2>3 DEF IsNode
  <2> HIDE DEF b
  <2>6. SketchesKept(c, b)
    BY <2>2, <2>5, SketchesPut
  <2>7. QED
    BY <2>1, <2>2, <2>6, SketchesOn
<1>3. QED
  BY <1>1, <1>2

\* So do the events that count something at t.
LEMMA CountsSketches ==
  ASSUME NEW ar, IsArena(ar), NEW t \in DOMAIN ar
  PROVE  /\ SketchesKept(ar, ObsAt(ar, t))
         /\ \A kind : SketchesKept(ar, [ar EXCEPT ![t].scalars[kind] = @ + 1])
         /\ SketchesKept(ar, [ar EXCEPT ![t].array.obs = @ + 1])
         /\ SketchesKept(ar, [ar EXCEPT ![t].object.obs = @ + 1])
         /\ \A key : SketchesKept(ar, [ar EXCEPT ![t].object.keyCountSum = @ + 1,
                                                ![t].object.keyStats = Tick(@, key)])
         /\ \A n : SketchesKept(ar, [ar EXCEPT ![t].object.keyCounts = Tick(@, n)])
         /\ \A n : SketchesKept(ar, [ar EXCEPT ![t].array.lengthSum = @ + n, ![t].array.lengths = Tick(@, n)])
<1>1. IsNode(ar[t], Len(ar))
  BY DEF IsArena
<1> DEFINE Put(b) == DOMAIN b = DOMAIN ar /\ (\A u \in DOMAIN ar : u # t => b[u] = ar[u])
                     /\ b[t].array.cluster = ar[t].array.cluster
<1>2. Put(ObsAt(ar, t))
  BY <1>1 DEF ObsAt, IsNode
<1>3. \A kind : Put([ar EXCEPT ![t].scalars[kind] = @ + 1])
  BY <1>1 DEF IsNode
<1>4. Put([ar EXCEPT ![t].array.obs = @ + 1])
  BY <1>1 DEF IsNode, IsArray
<1>5. /\ Put([ar EXCEPT ![t].object.obs = @ + 1])
      /\ \A key : Put([ar EXCEPT ![t].object.keyCountSum = @ + 1, ![t].object.keyStats = Tick(@, key)])
  BY <1>1 DEF IsNode
<1>6. \A n : Put([ar EXCEPT ![t].object.keyCounts = Tick(@, n)])
  BY <1>1 DEF IsNode
<1>7. \A n : Put([ar EXCEPT ![t].array.lengthSum = @ + n, ![t].array.lengths = Tick(@, n)])
  BY <1>1 DEF IsNode, IsArray
<1>8. \A b : Put(b) => SketchesKept(ar, b)
  BY SketchesPut
<1> HIDE DEF Put
<1>9. QED
  BY <1>2, <1>3, <1>4, <1>5, <1>6, <1>7, <1>8

-----------------------------------------------------------------------------
(* A value that is read has a node.                                        *)
LEMMA PendingRests ==
  ASSUME IndInv, AwaitsValue, pending # None
  PROVE  ~InArray(stack)
<1>1. Sequence(stack) /\ Matching(stack, calls) /\ Current.where # "array"
  BY DEF IndInv, AwaitsValue, Frames
<1>2. stack # <<>> => Current.where = stack[Len(stack)].kind
  BY <1>1, LastCall DEF Current
<1>3. QED
  BY <1>1, <1>2 DEF InArray

LEMMA NoItemBegins ==
  ASSUME NEW st, ~InArray(st)
  PROVE  \A u : Undisturbed(st, FALSE, st, TRUE, u)
BY DEF Undisturbed, SameOpen, TopAt, One

LEMMA TargetBooks ==
  ASSUME FullInv, AwaitsValue, Tidy(stack), Books(arena, stack, pending, None, FALSE)
  PROVE  Books(Target.arena, StackAfterTarget, Target.id, None, TRUE)
<1> DEFINE none == None
           no == FALSE
           yes == TRUE
<1>1. IndInv /\ Good(arena) /\ IsArena(arena) /\ Frames(stack, arena) /\ Placed(stack, arena)
  BY FullParts
<1>2. CASE pending # None
  <2>1. Target.arena = arena /\ Target.id = pending /\ StackAfterTarget = stack
    BY <1>2 DEF Target, StackAfterTarget
  <2>2. \A u : Undisturbed(stack, no, stack, yes, u)
    BY <1>1, <1>2, PendingRests, NoItemBegins
  <2>3. Books(arena, stack, pending, none, no)
    OBVIOUS
  <2> HIDE DEF none, no, yes
  <2>4. Books(arena, stack, pending, none, yes)
    BY <1>1, <2>2, <2>3, RestackBooks
  <2>5. QED
    BY <2>1, <2>4 DEF none, yes
<1>3. CASE pending = None
  <2> DEFINE d == Len(stack)
             p == Pop(stack)
             f == Top(stack)
             sb == [stack EXCEPT ![d].position = @ + 1]
             g == [f EXCEPT !.position = @ + 1]
             a == f.node
             n == f.position
             child == ArrayChild(arena, a, n)
  <2>1. stack # <<>> /\ f.kind = "array"
    BY <1>1, <1>3, HasTargetHolds DEF InArray, Top
  <2>2. d \in DOMAIN stack /\ DOMAIN stack = 1 .. d
    BY <1>1, <2>1, SequenceLen, SequenceEmpty, Split DEF Frames
  <2>3. IsFrame(f, arena)
    BY <1>1, <2>2 DEF Frames, Top
  <2>4. /\ Sequence(p) /\ stack = Append(p, f) /\ Tidy(p)
        /\ sb = Append(p, sb[d])
    <3>1. /\ Sequence(p) /\ stack = Append(p, f)
          /\ \A i \in DOMAIN p : i \in DOMAIN stack /\ p[i] = stack[i]
      BY <1>1, <2>1, Split DEF Frames
    <3>2. sb = [i \in DOMAIN stack |-> IF i = d THEN sb[d] ELSE stack[i]]
      BY <2>2
    <3> HIDE DEF sb
    <3>3. sb = Append(p, sb[d])
      BY <1>1, <2>1, <3>2, Split DEF Frames
    <3> HIDE DEF p
    <3>4. Tidy(p)
      BY <3>1 DEF Tidy
    <3>5. QED
      BY <3>1, <3>3, <3>4
  <2>5. sb[d] = g
    BY <2>2 DEF Top
  <2>6. g.kind = f.kind /\ g.node = f.node /\ g.position = f.position + 1
    BY <2>3 DEF IsFrame
  <2>7. a \in DOMAIN arena /\ HasArray(arena[a]) /\ n \in Nat
    BY <2>1, <2>3 DEF IsFrame
  <2>8. arena[a].array.positionalAlive => n <= Len(arena[a].array.positional)
    BY <1>1, <2>1, <2>2 DEF Placed, Top
  <2>9. Target = child /\ StackAfterTarget = sb
    BY <1>3 DEF Target, StackAfterTarget, Top
  <2>10. sb = Append(p, g)
    BY <2>4, <2>5
  <2>11. Books(arena, stack, none, none, no)
    BY <1>3
  <2> HIDE DEF sb, g, p
  <2>12. ItemBegun(Append(p, f), f.node, f.position, Append(p, g))
    BY <2>1, <2>4, <2>6, <2>7, ItemPushed
  <2>13. ItemBegun(stack, a, n, sb)
    BY <2>4, <2>10, <2>12
  <2> HIDE DEF a, n, f, child, none, no, yes
  <2>14. Books(child.arena, sb, child.id, none, yes)
    <3> USE DEF none, no, yes
    <3>1. Books(arena, stack, None, None, FALSE)
      BY <2>11
    <3> HIDE DEF none, no, yes
    <3>2. LET new == ArrayChild(arena, a, n)
          IN Books(new.arena, sb, new.id, None, TRUE)
      BY <1>1, <2>7, <2>8, <2>13, <3>1, ArrayChildBooks
    <3>3. QED
      BY <3>2 DEF child, none, yes
  <2>15. QED
    BY <2>9, <2>14 DEF none, yes
<1>4. QED
  BY <1>2, <1>3

LEMMA CountedBooks ==
  ASSUME FullInv, AwaitsValue, Tidy(stack), Books(arena, stack, pending, None, FALSE)
  PROVE  Books(ObsAt(Target.arena, Target.id), StackAfterTarget, None, Target.id, TRUE)
<1> DEFINE none == None
           yes == TRUE
           ar == Target.arena
           t == Target.id
           st == StackAfterTarget
<1>1. IsArena(ar) /\ t \in DOMAIN ar
  BY FullParts, TargetGrows
<1>2. Books(ar, st, t, none, yes)
  BY TargetBooks
<1> HIDE DEF ar, t, st, none, yes
<1>3. Books(ObsAt(ar, t), st, None, t, yes)
  <2>1. Books(ar, st, t, None, yes)
    BY <1>2 DEF none
  <2>2. QED
    BY <1>1, <2>1, ObsAtBooks
<1>4. QED
  BY <1>3 DEF ar, t, st, yes

-----------------------------------------------------------------------------
(* The keys of the open objects.                                           *)
LEMMA OrderedFrames ==
  ASSUME NEW ar, NEW st, Frames(st, ar), NEW cs, Ordered(st, cs)
  PROVE  Tidy(st) /\ Unsigned(st)
<1>1. \A i \in DOMAIN st : st[i].kind = "object" => IsFiniteSet(st[i].children)
  BY DEF Ordered, InOrder
<1>2. Tidy(st)
  BY <1>1, FramesTidy
<1>3. ASSUME st # <<>>, Top(st).kind = "object", NEW x \in Top(st).children
      PROVE  x[1] # Top(st).pendingKey
  <2> DEFINE d == Len(st)
             last == cs[d + 1].lastKey
  <2>1. d \in DOMAIN st
    BY <1>3, SequenceLen, SequenceEmpty, Split DEF Frames
  <2>2. InOrder(st[d], last) /\ st[d].kind = "object" /\ x \in st[d].children
    BY <1>3, <2>1 DEF Ordered, Top
  <2> HIDE DEF d, last
  <2>3. x[1] \in Nat /\ last \in Nat
    BY <2>2 DEF InOrder
  <2>4. CASE st[d].pendingKey = None
    BY <2>3, <2>4, NoneAssumption DEF Top, d
  <2>5. CASE st[d].pendingKey # None
    <3>1. st[d].pendingKey = last /\ x[1] < last
      BY <2>2, <2>5 DEF InOrder
    <3>2. QED
      BY <2>3, <3>1 DEF Top, d
  <2>6. QED
    BY <2>4, <2>5
<1>4. QED
  BY <1>2, <1>3 DEF Unsigned

LEMMA ReturnOrder ==
  ASSUME NEW st, Sequence(st), NEW cs, Matching(st, cs), Ordered(st, cs)
  PROVE  Ordered(st, Return(cs))
<1>1. /\ Len(st) \in Nat /\ DOMAIN st = 1 .. Len(st) /\ DOMAIN cs = 1 .. Len(st) + 1
      /\ Len(cs) \in DOMAIN cs
  BY LastCall
<1>2. \A i \in DOMAIN cs : DOMAIN cs[i] = {"where", "awaits", "lastKey"}
  BY DEF Matching
<1>3. \A i \in DOMAIN cs : Return(cs)[i].lastKey = cs[i].lastKey
  BY <1>1, <1>2 DEF Return
<1>4. \A i \in DOMAIN st : i + 1 \in DOMAIN cs
  BY <1>1
<1>5. QED
  BY <1>3, <1>4 DEF Ordered

LEMMA EmittedOrder ==
  ASSUME NEW ar, NEW st, Frames(st, ar), NEW cs, Ordered(st, cs), NEW sig, EmitChildSig(ar, st, sig)
  PROVE  Ordered(stack', cs)
<1> DEFINE d == Len(st)
           last == cs[d + 1].lastKey
<1>1. st # <<>> => d \in DOMAIN st /\ IsFrame(st[d], ar)
  <2>1. st # <<>> => d \in DOMAIN st
    BY SequenceLen, SequenceEmpty, Split DEF Frames
  <2>2. QED
    BY <2>1 DEF Frames
<1>2. \A i \in DOMAIN st : InOrder(st[i], cs[i + 1].lastKey)
  BY DEF Ordered
<1> HIDE DEF last, d
<1>3. CASE EmitToArray(ar, st, sig)
  <2>1. /\ st # <<>> /\ st[d].kind = "array"
        /\ stack' = [st EXCEPT ![d].children = @ \cup {sig}]
    BY <1>3 DEF EmitToArray, InArray, d
  <2>2. DOMAIN stack' = DOMAIN st /\ stack'[d].kind = "array" /\ \A i \in DOMAIN st : i # d => stack'[i] = st[i]
    BY <1>1, <2>1 DEF IsFrame
  <2>3. \A i \in DOMAIN stack' : InOrder(stack'[i], cs[i + 1].lastKey)
    <3>1. TAKE i \in DOMAIN stack'
    <3>2. CASE i = d
      BY <2>2, <3>2 DEF InOrder
    <3>3. CASE i # d
      BY <1>2, <2>2, <3>3
    <3>4. QED
      BY <3>2, <3>3
  <2>4. QED
    BY <2>3 DEF Ordered
<1>4. CASE EmitToObject(ar, st, sig)
  <2> DEFINE f == st[d]
             x == <<f.pendingKey, sig>>
             g == stack'[d]
  <2>1. /\ st # <<>> /\ f.kind = "object" /\ f.pendingKey # None
        /\ stack' = [st EXCEPT ![d].children = @ \cup {x}, ![d].pendingKey = None]
    BY <1>4 DEF EmitToObject, InObject, Top, d
  <2>2. /\ DOMAIN stack' = DOMAIN st /\ \A i \in DOMAIN st : i # d => stack'[i] = st[i]
        /\ g.pendingKey = None /\ g.children = f.children \cup {x}
    BY <1>1, <2>1 DEF IsFrame
  <2>3. InOrder(f, last)
    BY <1>1, <1>2, <2>1 DEF last
  <2> HIDE DEF f, g
  <2>4. /\ last \in Nat /\ IsFiniteSet(f.children) /\ f.pendingKey = last
        /\ \A y \in f.children : y[1] \in Nat /\ y[1] <= last
    BY <2>1, <2>3 DEF InOrder
  <2>5. x[1] = last /\ last <= last
    BY <2>4
  <2>6. IsFiniteSet(g.children)
    BY <2>2, <2>4, FS_AddElement
  <2>7. \A y \in g.children : y[1] \in Nat /\ y[1] <= last
    BY <2>2, <2>4, <2>5
  <2>8. InOrder(g, last)
    BY <2>2, <2>4, <2>6, <2>7 DEF InOrder
  <2>9. \A i \in DOMAIN stack' : InOrder(stack'[i], cs[i + 1].lastKey)
    <3>1. TAKE i \in DOMAIN stack'
    <3>2. CASE i = d
      BY <2>8, <3>2 DEF g, last
    <3>3. CASE i # d
      BY <1>2, <2>2, <3>3
    <3>4. QED
      BY <3>2, <3>3
  <2>10. QED
    BY <2>9 DEF Ordered
<1>5. CASE EmitNowhere(ar, st)
  BY <1>5 DEF EmitNowhere
<1>6. QED
  BY <1>3, <1>4, <1>5 DEF EmitChildSig

LEMMA PoppedOrder ==
  ASSUME NEW st, Sequence(st), st # <<>>, NEW cs, Matching(st, cs), Ordered(st, cs)
  PROVE  Ordered(Pop(st), Pop(cs))
<1>1. /\ Len(st) \in Nat /\ DOMAIN st = 1 .. Len(st) /\ Len(cs) = Len(st) + 1
      /\ Sequence(cs) /\ cs # <<>>
  BY LastCall
<1>2. DOMAIN Pop(st) = 1 .. Len(st) - 1 /\ \A i \in DOMAIN Pop(st) : Pop(st)[i] = st[i]
  BY Split
<1>3. \A i \in 1 .. Len(st) : Pop(cs)[i] = cs[i]
  <2>1. \A i \in 1 .. Len(cs) - 1 : Pop(cs)[i] = cs[i]
    BY <1>1, SequencePop
  <2>2. Len(cs) - 1 = Len(st)
    BY <1>1
  <2>3. QED
    BY <2>1, <2>2
<1>4. \A i \in DOMAIN Pop(st) : i \in DOMAIN st /\ i + 1 \in 1 .. Len(st)
  BY <1>1, <1>2
<1>5. QED
  BY <1>2, <1>3, <1>4 DEF Ordered

LEMMA TargetOrder ==
  ASSUME IndInv, AwaitsValue, Ordered(stack, calls)
  PROVE  Ordered(StackAfterTarget, calls)
<1>1. CASE pending # None
  BY <1>1 DEF StackAfterTarget
<1>2. CASE pending = None
  <2> DEFINE d == Len(stack)
             sb == [stack EXCEPT ![d].position = @ + 1]
  <2>1. StackAfterTarget = sb
    BY <1>2 DEF StackAfterTarget
  <2>2. stack # <<>> /\ stack[d].kind = "array"
    BY <1>2, HasTargetHolds DEF InArray
  <2>3. DOMAIN sb = DOMAIN stack /\ \A i \in DOMAIN stack : i # d => sb[i] = stack[i]
    OBVIOUS
  <2>4. d \in DOMAIN stack => sb[d].kind = "array"
    BY <2>2 DEF IndInv, Frames, IsFrame
  <2> HIDE DEF sb, d
  <2>5. \A i \in DOMAIN sb : InOrder(sb[i], calls[i + 1].lastKey)
    <3>1. TAKE i \in DOMAIN sb
    <3>2. CASE i = d
      BY <2>3, <2>4, <3>2 DEF InOrder
    <3>3. CASE i # d
      BY <2>3, <3>3 DEF Ordered
    <3>4. QED
      BY <3>2, <3>3
  <2>6. QED
    BY <2>1, <2>5 DEF Ordered
<1>3. QED
  BY <1>1, <1>2

LEMMA OpenedOrder ==
  ASSUME NEW st, Sequence(st), NEW cs, Matching(st, cs), Ordered(st, cs),
         NEW f, f.pendingKey = None, f.children = {}
  PROVE  Ordered(Append(st, f), Append(cs, Call(f.kind)))
<1> DEFINE d == Len(st)
           b == Append(st, f)
           e == Append(cs, Call(f.kind))
<1>1. /\ d \in Nat /\ DOMAIN st = 1 .. d /\ Len(cs) = d + 1 /\ Sequence(cs)
      /\ DOMAIN cs = 1 .. d + 1
  BY LastCall
<1>2. /\ \A i \in 1 .. d + 1 : e[i] = cs[i]
      /\ e[d + 1 + 1] = Call(f.kind)
  BY <1>1, SequenceAppend
<1>3. /\ Sequence(b) /\ Len(b) = d + 1 /\ b[d + 1] = f /\ \A i \in 1 .. d : b[i] = st[i]
  BY SequenceAppend
<1> HIDE DEF b, e
<1>4. DOMAIN b = 1 .. d + 1
  BY <1>3, SequenceLen
<1>5. \A i \in DOMAIN b : InOrder(b[i], e[i + 1].lastKey)
  <2>1. TAKE i \in DOMAIN b
  <2>2. CASE i = d + 1
    <3>1. e[i + 1].lastKey = 0
      BY <1>2, <2>2 DEF Call
    <3>2. b[i] = f
      BY <1>3, <2>2
    <3>3. IsFiniteSet({}) /\ 0 \in Nat
      BY FS_EmptySet
    <3>4. QED
      BY <3>1, <3>2, <3>3 DEF InOrder
  <2>3. CASE i # d + 1
    <3>1. i \in 1 .. d /\ i + 1 \in 1 .. d + 1
      BY <1>1, <1>4, <2>3
    <3>2. b[i] = st[i] /\ e[i + 1] = cs[i + 1]
      BY <1>2, <1>3, <3>1
    <3>3. QED
      BY <1>1, <3>1, <3>2 DEF Ordered
  <2>4. QED
    BY <2>2, <2>3
<1>6. QED
  BY <1>5 DEF Ordered, b, e

LEMMA KeyOrder ==
  ASSUME IndInv, Ordered(stack, calls), NEW key \in Key, DriveKey(key)
  PROVE  Ordered(stack', calls')
<1> DEFINE d == Len(stack)
           f == stack[d]
           g == [f EXCEPT !.pendingKey = key]
           last == calls[d + 1].lastKey
<1>1. /\ stack # <<>> /\ f.kind = "object" /\ f.pendingKey = None /\ IsFrame(f, arena)
      /\ Matching(stack, calls) /\ Sequence(stack) /\ d \in DOMAIN stack
  <2>1. Walking("object") /\ ~Current.awaits
    BY DEF DriveKey
  <2>2. /\ stack # <<>> /\ f.kind = "object" /\ IsFrame(f, arena)
        /\ Matching(stack, calls) /\ Sequence(stack) /\ d \in DOMAIN stack
    BY <2>1, WalkingFrame
  <2>3. Len(calls) = d + 1
    BY <2>2, LastCall
  <2>4. f.pendingKey # None <=> calls[d + 1].awaits
    BY <2>2 DEF Matching
  <2>5. QED
    BY <2>1, <2>2, <2>3, <2>4 DEF Current
<1>2. /\ d \in Nat /\ DOMAIN stack = 1 .. d /\ Len(calls) = d + 1 /\ DOMAIN calls = 1 .. d + 1
  BY <1>1, LastCall
<1>3. /\ key > last
      /\ calls' = [calls EXCEPT ![d + 1].awaits = TRUE, ![d + 1].lastKey = key]
      /\ stack' = [stack EXCEPT ![d].pendingKey = key]
  BY <1>2 DEF DriveKey, ObjectKey, Current
<1>4. DOMAIN calls[d + 1] = {"where", "awaits", "lastKey"} /\ d + 1 \in DOMAIN calls
  BY <1>1, <1>2 DEF Matching
<1>5. /\ calls'[d + 1].lastKey = key
      /\ \A i \in DOMAIN calls : i # d + 1 => calls'[i] = calls[i]
  BY <1>3, <1>4
<1>6. /\ DOMAIN stack' = DOMAIN stack /\ stack'[d] = g
      /\ \A i \in DOMAIN stack : i # d => stack'[i] = stack[i]
  BY <1>1, <1>3
<1>7. g.kind = f.kind /\ g.children = f.children /\ g.pendingKey = key
  BY <1>1 DEF IsFrame
<1>8. InOrder(f, last)
  BY <1>1 DEF Ordered
<1>9. key \in Nat
  BY KeysAssumption
<1> HIDE DEF f, g, last
<1>10. InOrder(g, key)
  <2>1. /\ last \in Nat /\ IsFiniteSet(f.children)
        /\ \A x \in f.children : x[1] \in Nat /\ x[1] <= last
    BY <1>1, <1>8 DEF InOrder
  <2>2. \A x \in f.children : x[1] \in Nat /\ x[1] <= key /\ x[1] < key
    BY <1>3, <1>9, <2>1
  <2>3. QED
    BY <1>7, <1>9, <2>1, <2>2 DEF InOrder
<1>11. \A i \in DOMAIN stack' : InOrder(stack'[i], calls'[i + 1].lastKey)
  <2>1. TAKE i \in DOMAIN stack'
  <2>2. CASE i = d
    BY <1>5, <1>6, <1>10, <2>2
  <2>3. CASE i # d
    <3>1. i + 1 \in DOMAIN calls /\ i + 1 # d + 1
      BY <1>2, <1>6, <2>3
    <3>2. QED
      BY <1>5, <1>6, <2>3, <3>1 DEF Ordered
  <2>4. QED
    BY <2>2, <2>3
<1>12. QED
  BY <1>11 DEF Ordered

-----------------------------------------------------------------------------
(* The documents.                                                          *)
LEMMA RootMoves ==
  ASSUME NEW ar, Root \in DOMAIN ar, NEW t, NEW b, Moves(ar, t, b)
  PROVE  b[Root].obs = ar[Root].obs
BY DEF Moves, Quiet, Attached, SameDates

\* What the root has observed is what it had observed and waited for.
LEMMA RootCounted ==
  ASSUME FullInv, AwaitsValue, Books(arena, stack, pending, None, FALSE)
  PROVE  /\ ObsAt(Target.arena, Target.id)[Root].obs = Seen(arena, pending, Root)
         /\ Root \in DOMAIN ObsAt(Target.arena, Target.id)
         /\ SketchesKept(arena, ObsAt(Target.arena, Target.id))
<1>1. IndInv /\ Good(arena) /\ IsArena(arena) /\ Frames(stack, arena) /\ Root \in DOMAIN arena
  BY FullParts, ArenaLen
<1>2. arena[Root].obs \in Nat
  BY <1>1, BooksParts
<1> DEFINE ar == Target.arena
           t == Target.id
<1>3. Grows(arena, ar) /\ IsArena(ar) /\ t \in DOMAIN ar /\ Root \in DOMAIN ar
  BY <1>1, TargetGrows, ArenaLen
<1>4. /\ SketchesKept(arena, ar) /\ ar[Root].obs = arena[Root].obs
      /\ ar[Root].obs + One(t = Root) = Seen(arena, pending, Root)
  <2>1. CASE pending # None
    <3>1. ar = arena /\ t = pending
      BY <2>1 DEF Target
    <3>2. QED
      BY <1>1, <3>1, SketchesSame DEF Seen
  <2>2. CASE pending = None
    <3> DEFINE a == Top(stack).node
               n == Top(stack).position
               child == ArrayChild(arena, a, n)
    <3>1. stack # <<>> /\ Top(stack).kind = "array" /\ Target = child
      BY <1>1, <2>2, HasTargetHolds DEF InArray, Top, Target
    <3>2. Len(stack) \in DOMAIN stack
      BY <1>1, <3>1, SequenceLen, SequenceEmpty, Split DEF Frames
    <3>3. a \in DOMAIN arena /\ HasArray(arena[a]) /\ n \in Nat
      BY <1>1, <3>1, <3>2 DEF Frames, IsFrame, Top
    <3>4. arena[a].array.positionalAlive => n <= Len(arena[a].array.positional)
      BY <3>1, <3>2 DEF FullInv, Placed, Top
    <3> HIDE DEF a, n, child
    <3>5. Moves(arena, a, child.arena)
      BY <1>1, <3>3, <3>4, ArrayChildRipens DEF child
    <3>6. child.id \in Ref(Len(child.arena))
      BY <1>1, <3>3, ArrayChildGrows DEF child
    <3>7. SketchesKept(arena, child.arena)
      BY <1>1, <3>3, ArrayChildSketches DEF child
    <3>8. ar[Root].obs = arena[Root].obs /\ t # Root
      <4>1. ar[Root].obs = arena[Root].obs
        BY <1>1, <3>1, <3>5, RootMoves
      <4>2. child.id # Root
        <5>1. \A n1 : \A c \in Ref(n1) : c # 1
          BY DEF Ref
        <5>2. QED
          BY <3>6, <5>1 DEF Root
      <4>3. QED
        BY <3>1, <4>1, <4>2
    <3>9. None # Root
      BY NoneAssumption DEF Root
    <3> HIDE DEF ar, t
    <3>10. ar[Root].obs + One(t = Root) = Seen(arena, pending, Root)
      BY <1>2, <2>2, <3>8, <3>9 DEF Seen, One
    <3>11. QED
      BY <3>1, <3>7, <3>8, <3>10 DEF ar
  <2>3. QED
    BY <2>1, <2>2
<1> HIDE DEF ar, t
<1> DEFINE b == ObsAt(ar, t)
<1>5. b[Root].obs = ar[Root].obs + One(t = Root)
  <2>1. ar[Root].obs \in Nat
    BY <1>2, <1>4
  <2>2. "obs" \in DOMAIN ar[Root]
    BY <1>3 DEF IsArena, IsNode
  <2>3. QED
    BY <1>3, <2>1, <2>2 DEF ObsAt, One
<1>6. SketchesKept(arena, b) /\ DOMAIN b = DOMAIN ar
  <2>1. SketchesKept(ar, b)
    BY <1>3, CountsSketches
  <2>2. SketchesKept(arena, b)
    BY <1>4, <2>1, SketchesOn
  <2>3. QED
    BY <2>2 DEF ObsAt
<1> HIDE DEF b
<1>7. QED
  BY <1>3, <1>4, <1>5, <1>6 DEF b, ar, t

-----------------------------------------------------------------------------
(* Every event keeps the books.                                            *)
CountStep ==
  /\ Books(arena', stack', pending', None, FALSE)
  /\ docCount' = Seen(arena', pending', Root)
  /\ evictions' = EvictionsIn(arena')
  /\ Ordered(stack', calls')
  /\ NoItemWaits'

LEMMA CountParts ==
  ASSUME CountInv
  PROVE  /\ FullInv /\ IndInv /\ Good(arena) /\ IsArena(arena) /\ Frames(stack, arena)
         /\ Placed(stack, arena) /\ Sequence(stack)
         /\ Books(arena, stack, pending, None, FALSE)
         /\ Ordered(stack, calls) /\ Tidy(stack)
         /\ docCount = Seen(arena, pending, Root) /\ evictions = EvictionsIn(arena)
         /\ Root \in DOMAIN arena /\ arena[Root].obs \in Nat
         /\ \A u \in DOMAIN arena : Solid(arena[u])
<1>1. /\ FullInv /\ Books(arena, stack, pending, None, FALSE) /\ Ordered(stack, calls)
      /\ docCount = Seen(arena, pending, Root) /\ evictions = EvictionsIn(arena)
  BY DEF CountInv
<1>2. IndInv /\ Good(arena) /\ IsArena(arena) /\ Frames(stack, arena) /\ Placed(stack, arena)
  BY <1>1, FullParts
<1>3. Root \in DOMAIN arena
  BY <1>2, ArenaLen
<1>4. arena[Root].obs \in Nat /\ \A u \in DOMAIN arena : Solid(arena[u])
  BY <1>1, <1>3, BooksParts
<1>5. Tidy(stack)
  BY <1>1, <1>2, OrderedFrames
<1>6. QED
  BY <1>1, <1>2, <1>3, <1>4, <1>5 DEF Frames

LEMMA NoneRoot == None # Root
BY NoneAssumption DEF Root

\* A node that waits for nothing is the one that has been counted.
LEMMA SeenRoot ==
  ASSUME NEW ar, ar[Root].obs \in Nat
  PROVE  Seen(ar, None, Root) = ar[Root].obs /\ Seen(ar, Root, Root) = ar[Root].obs + 1
BY NoneRoot DEF Seen, One

\* A value that is complete closes the event.
LEMMA EmittedCount ==
  ASSUME NEW ar, Good(ar), NEW st, Frames(st, ar), Placed(st, ar),
         NEW cs, Matching(st, cs), Ordered(st, cs),
         Books(ar, st, None, None, TRUE), evictions = EvictionsIn(ar),
         docCount' = ar[Root].obs, pending' = None, calls' = Return(cs),
         NEW sig, EmitChildSig(ar, st, sig)
  PROVE  CountStep
<1>1. IsArena(ar) /\ Root \in DOMAIN ar /\ Sequence(st)
  BY ArenaLen DEF Good, Frames
<1>2. Tidy(st) /\ Unsigned(st)
  BY OrderedFrames
<1>3. Books(arena', stack', None, None, FALSE) /\ evictions' = EvictionsIn(arena')
  BY <1>1, <1>2, EmittedBooks
<1>4. Quiet(ar, arena')
  BY EmittedRipens
<1>5. ar[Root].obs \in Nat
  BY <1>1, BooksParts
<1>6. arena'[Root].obs = ar[Root].obs
  BY <1>1, <1>4 DEF Quiet, SameDates
<1>7. docCount' = Seen(arena', None, Root)
  BY <1>5, <1>6, SeenRoot
<1>8. Ordered(st, Return(cs))
  BY <1>1, ReturnOrder
<1> DEFINE rs == Return(cs)
<1> HIDE DEF rs
<1>9. Ordered(stack', rs)
  BY <1>8, EmittedOrder DEF rs
<1>10. QED
  BY <1>3, <1>7, <1>9 DEF CountStep, NoItemWaits, rs

LEMMA DocumentBooks ==
  ASSUME NEW ar, IsArena(ar), NEW st, Books(ar, st, None, None, FALSE)
  PROVE  Books(ar, st, Root, None, FALSE)
<1> DEFINE none == None
           no == FALSE
           yes == TRUE
<1>1. \A t \in DOMAIN ar : SameSeen(ar, none, ar, Root, ar[t])
  <2>1. TAKE t \in DOMAIN ar
  <2>2. /\ HasObject(ar[t]) => Root \notin FieldKids(ar[t]) /\ None \notin FieldKids(ar[t])
        /\ HasArray(ar[t]) => Root \notin ItemKids(ar[t]) /\ None \notin ItemKids(ar[t])
    BY KidsInArena
  <2>3. QED
    BY <2>2 DEF SameSeen, Seen, One
<1>2. \A k \in DOMAIN ar : ar[k].obs \in Nat
  BY BooksParts
<1>3. Books(ar, st, none, none, no)
  OBVIOUS
<1> HIDE DEF none, no, yes
<1>4. ASSUME NEW t \in DOMAIN ar
      PROVE  BooksAt(ar, st, Root, none, no, t)
  <2>1. Inner(ar[t], st, t, none = t, no) /\ KidsObserve(ar, st, none, t) /\ Positions(ar, st, none, t)
    BY <1>3, <1>4, BooksParts
  <2>2. KidsObserve(ar, st, Root, t)
    BY <1>1, <1>2, <1>4, <2>1, KidsKept
  <2>3. Positions(ar, st, Root, t)
    BY <1>1, <1>4, <2>1, PositionsKept
  <2>4. QED
    BY <2>1, <2>2, <2>3 DEF BooksAt
<1>5. QED
  BY <1>4 DEF Books, none, no

LEMMA DriveDocumentCount ==
  ASSUME CountInv, DriveDocument
  PROVE  CountStep
<1>1. /\ calls = <<>> /\ docCount' = docCount + 1 /\ pending' = Root
      /\ arena' = arena /\ stack' = stack /\ evictions' = evictions
  BY DEF DriveDocument, DocumentBegin
<1>2. stack = <<>> /\ pending = None
  BY <1>1, CountParts DEF IndInv
<1>3. Books(arena, stack, Root, None, FALSE)
  BY <1>2, CountParts, DocumentBooks
<1>4. docCount + 1 = Seen(arena, Root, Root)
  BY <1>2, CountParts, SeenRoot
<1>5. Ordered(stack', calls')
  <2>1. DOMAIN stack = {}
    BY <1>2
  <2>2. QED
    BY <1>1, <2>1 DEF Ordered
<1>6. evictions = EvictionsIn(arena)
  BY CountParts
<1>7. NoItemWaits'
  <2>1. \A t \in DOMAIN arena : HasArray(arena[t]) => Root \notin ItemKids(arena[t])
    BY CountParts, KidsInArena
  <2>2. QED
    BY <1>1, <2>1 DEF NoItemWaits
<1>8. QED
  BY <1>1, <1>3, <1>4, <1>5, <1>6, <1>7 DEF CountStep

LEMMA FinishDocumentCount ==
  ASSUME CountInv, FinishDocument
  PROVE  CountStep
<1>1. /\ calls # <<>> /\ ~Current.awaits /\ Current.where = "document" /\ pending' = None
      /\ arena' = arena /\ stack' = stack /\ evictions' = evictions /\ docCount' = docCount
  BY DEF FinishDocument, DocumentEnd, Walking
<1>2. IndInv
  BY CountParts
<1>3. pending = None /\ Matching(stack, calls)
  BY <1>1, <1>2 DEF IndInv
<1>4. stack = <<>>
  <2>1. stack # <<>> =>
          /\ Len(stack) \in DOMAIN stack /\ IsFrame(stack[Len(stack)], arena)
          /\ Current.where = stack[Len(stack)].kind
    BY <1>3, CountParts, LastCall DEF Current, Frames
  <2>2. QED
    BY <1>1, <2>1 DEF IsFrame
<1>5. Ordered(stack', calls')
  <2>1. DOMAIN stack = {}
    BY <1>4
  <2>2. QED
    BY <1>1, <2>1 DEF Ordered
<1>6. /\ Books(arena, stack, None, None, FALSE) /\ docCount = Seen(arena, None, Root)
      /\ evictions = EvictionsIn(arena)
  BY <1>3, CountParts
<1>7. QED
  BY <1>1, <1>5, <1>6 DEF CountStep, NoItemWaits

\* A value that is read, after its node has counted it.
LEMMA CountedParts ==
  ASSUME CountInv, AwaitsValue
  PROVE  LET ar == ObsAt(Target.arena, Target.id)
             st == StackAfterTarget
         IN /\ Good(ar) /\ IsArena(ar) /\ Target.id \in DOMAIN ar /\ Root \in DOMAIN ar
            /\ Frames(st, ar) /\ Placed(st, ar) /\ Sequence(st) /\ Tidy(st)
            /\ Matching(st, calls) /\ Ordered(st, calls)
            /\ Books(ar, st, None, Target.id, TRUE)
            /\ docCount = ar[Root].obs
            /\ SketchesKept(arena, ar)
<1> DEFINE ar == ObsAt(Target.arena, Target.id)
           st == StackAfterTarget
<1>1. /\ FullInv /\ IndInv /\ Tidy(stack) /\ Books(arena, stack, pending, None, FALSE)
      /\ Ordered(stack, calls) /\ docCount = Seen(arena, pending, Root)
  BY CountParts
<1>2. Good(ar) /\ Target.id \in DOMAIN ar /\ Frames(st, ar) /\ Placed(st, ar)
  BY <1>1, CountedRipens
<1>3. Matching(st, calls)
  BY <1>1, TargetGrows
<1>4. Ordered(st, calls)
  BY <1>1, TargetOrder
<1>5. Books(ar, st, None, Target.id, TRUE)
  BY <1>1, CountedBooks
<1>6. docCount = ar[Root].obs /\ Root \in DOMAIN ar /\ SketchesKept(arena, ar)
  BY <1>1, RootCounted
<1> HIDE DEF ar, st
<1>7. Tidy(st) /\ Sequence(st) /\ IsArena(ar)
  BY <1>2, <1>4, OrderedFrames DEF Frames, Good
<1>8. QED
  BY <1>2, <1>3, <1>4, <1>5, <1>6, <1>7 DEF ar, st

LEMMA DriveScalarCount ==
  ASSUME CountInv, NEW kind \in Kind, DriveScalar(kind)
  PROVE  CountStep
<1> DEFINE t == Target.id
           st == StackAfterTarget
           ar == ObsAt(Target.arena, t)
           br == [ar EXCEPT ![t].scalars[kind] = @ + 1]
           sig == ScalarSig(kind)
<1>1. /\ AwaitsValue /\ pending' = None /\ docCount' = docCount /\ calls' = Return(calls)
      /\ EmitChildSig(br, st, sig)
  BY DEF DriveScalar, Scalar
<1>2. /\ Good(ar) /\ IsArena(ar) /\ t \in DOMAIN ar /\ Root \in DOMAIN ar
      /\ Frames(st, ar) /\ Placed(st, ar) /\ Matching(st, calls) /\ Ordered(st, calls)
      /\ Books(ar, st, None, t, TRUE) /\ docCount = ar[Root].obs /\ SketchesKept(arena, ar)
  BY <1>1, CountedParts
<1> HIDE DEF ar, t, st, sig
<1>3. Ripens(ar, br) /\ Quiet(ar, br)
  BY <1>2, ScalarsCount DEF Counts
<1>4. SketchesKept(ar, br)
  BY <1>2, CountsSketches
<1>5. Books(br, st, None, None, TRUE)
  <2> DEFINE yes == TRUE
  <2>1. Books(ar, st, None, t, yes)
    BY <1>2
  <2> HIDE DEF yes
  <2>2. Books([ar EXCEPT ![t].scalars[kind] = @ + 1], st, None, None, yes)
    BY <1>2, <2>1, ScalarBooks
  <2>3. QED
    BY <2>2 DEF yes
<1> HIDE DEF br
<1>6. Good(br) /\ Frames(st, br) /\ Placed(st, br)
  BY <1>2, <1>3, RipensArena, FramesGrow, PlacedRipens
<1>7. evictions = EvictionsIn(br)
  <2>1. SketchesKept(arena, br)
    BY <1>2, <1>4, SketchesOn
  <2>2. QED
    BY <2>1, CountParts, KeptEvictions
<1>8. docCount' = br[Root].obs
  BY <1>1, <1>2, <1>3 DEF Quiet, SameDates
<1>9. QED
  BY <1>1, <1>2, <1>5, <1>6, <1>7, <1>8, EmittedCount

LEMMA OpenArrayCount ==
  ASSUME CountInv, OpenArray
  PROVE  CountStep
<1> DEFINE t == Target.id
           st == StackAfterTarget
           ar == ObsAt(Target.arena, t)
           br == EnsureArray(ar, t)
           cr == [br EXCEPT ![t].array.obs = @ + 1]
           f == ArrayFrame(t)
<1>1. /\ AwaitsValue /\ arena' = cr /\ stack' = Append(st, f) /\ pending' = None
      /\ docCount' = docCount /\ evictions' = evictions
      /\ calls' = Append(calls, Call("array"))
  BY DEF OpenArray, ArrayBegin
<1>2. /\ Good(ar) /\ IsArena(ar) /\ t \in DOMAIN ar /\ Root \in DOMAIN ar
      /\ Frames(st, ar) /\ Tidy(st) /\ Sequence(st) /\ Matching(st, calls) /\ Ordered(st, calls)
      /\ Books(ar, st, None, t, TRUE) /\ docCount = ar[Root].obs /\ SketchesKept(arena, ar)
  BY <1>1, CountedParts
<1>3. f.pendingKey = None /\ f.children = {} /\ f.kind = "array"
  BY DEF ArrayFrame
<1> HIDE DEF ar, t, st
<1>4. Books(cr, Append(st, f), None, None, FALSE)
  BY <1>2, OpenArrayBooks
<1> HIDE DEF f
<1>5. Ordered(Append(st, f), Append(calls, Call("array")))
  <2>1. Ordered(Append(st, f), Append(calls, Call(f.kind)))
    BY <1>2, <1>3, OpenedOrder
  <2>2. QED
    BY <1>3, <2>1
<1>6. Solid(ar[t])
  BY <1>2, BooksParts
<1>7. Ripens(ar, br) /\ Moves(ar, t, br) /\ SketchesKept(ar, br)
  BY <1>2, <1>6, EnsureArrayRipens, EnsureArraySketches
<1>8. br[Root].obs = ar[Root].obs
  BY <1>2, <1>7, RootMoves
<1> HIDE DEF br
<1>9. Good(br) /\ IsArena(br) /\ t \in DOMAIN br /\ Root \in DOMAIN br
  BY <1>2, <1>7, RipensArena
<1>10. Quiet(br, cr) /\ SketchesKept(br, cr)
  BY <1>9, ArrayCountersCount, CountsSketches DEF Counts
<1> HIDE DEF cr
<1>11. cr[Root].obs = ar[Root].obs /\ Root \in DOMAIN cr
  BY <1>8, <1>9, <1>10 DEF Quiet, SameDates
<1>12. docCount = Seen(cr, None, Root)
  <2>1. ar[Root].obs \in Nat
    BY <1>2, BooksParts
  <2>2. QED
    BY <1>2, <1>11, <2>1, SeenRoot
<1>13. evictions = EvictionsIn(cr)
  <2>1. SketchesKept(arena, cr)
    BY <1>2, <1>7, <1>10, SketchesOn
  <2>2. QED
    BY <2>1, CountParts, KeptEvictions
<1>14. QED
  BY <1>1, <1>4, <1>5, <1>12, <1>13 DEF CountStep, NoItemWaits

LEMMA OpenObjectCount ==
  ASSUME CountInv, OpenObject
  PROVE  CountStep
<1> DEFINE t == Target.id
           st == StackAfterTarget
           ar == ObsAt(Target.arena, t)
           br == EnsureObject(ar, t)
           cr == [br EXCEPT ![t].object.obs = @ + 1]
           f == ObjectFrame(t)
<1>1. /\ AwaitsValue /\ arena' = cr /\ stack' = Append(st, f) /\ pending' = None
      /\ docCount' = docCount /\ evictions' = evictions
      /\ calls' = Append(calls, Call("object"))
  BY DEF OpenObject, ObjectBegin
<1>2. /\ Good(ar) /\ IsArena(ar) /\ t \in DOMAIN ar /\ Root \in DOMAIN ar
      /\ Frames(st, ar) /\ Tidy(st) /\ Sequence(st) /\ Matching(st, calls) /\ Ordered(st, calls)
      /\ Books(ar, st, None, t, TRUE) /\ docCount = ar[Root].obs /\ SketchesKept(arena, ar)
  BY <1>1, CountedParts
<1>3. f.pendingKey = None /\ f.children = {} /\ f.kind = "object"
  BY DEF ObjectFrame
<1> HIDE DEF ar, t, st
<1>4. Books(cr, Append(st, f), None, None, FALSE)
  BY <1>2, OpenObjectBooks
<1> HIDE DEF f
<1>5. Ordered(Append(st, f), Append(calls, Call("object")))
  <2>1. Ordered(Append(st, f), Append(calls, Call(f.kind)))
    BY <1>2, <1>3, OpenedOrder
  <2>2. QED
    BY <1>3, <2>1
<1>6. Solid(ar[t])
  BY <1>2, BooksParts
<1>7. Ripens(ar, br) /\ Moves(ar, t, br) /\ SketchesKept(ar, br)
  BY <1>2, <1>6, EnsureObjectRipens, EnsureObjectSketches
<1>8. br[Root].obs = ar[Root].obs
  BY <1>2, <1>7, RootMoves
<1> HIDE DEF br
<1>9. Good(br) /\ IsArena(br) /\ t \in DOMAIN br /\ Root \in DOMAIN br
  BY <1>2, <1>7, RipensArena
<1>10. Quiet(br, cr) /\ SketchesKept(br, cr)
  BY <1>9, ObjectCountersCount, CountsSketches DEF Counts
<1> HIDE DEF cr
<1>11. cr[Root].obs = ar[Root].obs /\ Root \in DOMAIN cr
  BY <1>8, <1>9, <1>10 DEF Quiet, SameDates
<1>12. docCount = Seen(cr, None, Root)
  <2>1. ar[Root].obs \in Nat
    BY <1>2, BooksParts
  <2>2. QED
    BY <1>2, <1>11, <2>1, SeenRoot
<1>13. evictions = EvictionsIn(cr)
  <2>1. SketchesKept(arena, cr)
    BY <1>2, <1>7, <1>10, SketchesOn
  <2>2. QED
    BY <2>1, CountParts, KeptEvictions
<1>14. QED
  BY <1>1, <1>4, <1>5, <1>12, <1>13 DEF CountStep, NoItemWaits

LEMMA CloseArrayCount ==
  ASSUME CountInv, CloseArray
  PROVE  CountStep
<1> DEFINE f == Top(stack)
           st == Pop(stack)
           cs == Pop(calls)
           n == f.position
           br == [arena EXCEPT ![f.node].array.lengthSum = @ + n, ![f.node].array.lengths = Tick(@, n)]
           sig == ArraySig(f.children)
<1>1. /\ Walking("array") /\ calls # <<>> /\ pending' = pending /\ docCount' = docCount
      /\ calls' = Return(cs) /\ EmitChildSig(br, st, sig)
  BY DEF CloseArray, ArrayEnd, Walking
<1>2. /\ FullInv /\ IndInv /\ Good(arena) /\ IsArena(arena) /\ Sequence(stack) /\ Tidy(stack)
      /\ Books(arena, stack, pending, None, FALSE) /\ Ordered(stack, calls)
      /\ docCount = Seen(arena, pending, Root) /\ Root \in DOMAIN arena
  BY CountParts
<1>3. /\ stack # <<>> /\ Len(stack) \in DOMAIN stack /\ f.kind = "array" /\ IsFrame(f, arena)
      /\ Matching(stack, calls)
  BY <1>1, <1>2, WalkingFrame DEF Top
<1>4. pending = None
  BY <1>1, <1>2 DEF IndInv, Walking
<1>6. Books(br, st, None, None, TRUE)
  <2>1. Tidy(st) /\ stack = Append(st, f)
    <3>1. /\ Sequence(st) /\ stack = Append(st, f)
          /\ \A i \in DOMAIN st : i \in DOMAIN stack /\ st[i] = stack[i]
      BY <1>2, <1>3, Split
    <3> HIDE DEF st
    <3>2. QED
      BY <1>2, <3>1 DEF Tidy
  <2>2. f.position \in Nat /\ f.node \in DOMAIN arena /\ HasArray(arena[f.node]) /\ f.kind = "array"
    BY <1>3 DEF IsFrame
  <2>6. Books(arena, Append(st, f), None, None, FALSE)
    BY <1>2, <1>4, <2>1
  <2> HIDE DEF f, st
  <2>8. QED
    BY <1>2, <2>1, <2>2, <2>6, CloseArrayBooks
<1>7. Counts(arena, br) /\ SketchesKept(arena, br)
  <2>1. f.node \in DOMAIN arena
    BY <1>3 DEF IsFrame
  <2> HIDE DEF f
  <2>2. QED
    BY <1>2, <2>1, ArrayCountersCount, CountsSketches
<1>8. Matching(st, cs) /\ Ordered(st, cs)
  BY <1>1, <1>2, <1>3, Popped, PoppedOrder
<1> HIDE DEF f, n, sig, br
<1>9. Good(br) /\ Frames(st, br) /\ Placed(st, br)
  BY <1>1, <1>2, <1>3, <1>7, PopRipens DEF Counts
<1>10. evictions = EvictionsIn(br)
  BY <1>7, CountParts, KeptEvictions
<1>11. docCount' = br[Root].obs
  <2>1. docCount = arena[Root].obs
    BY <1>4, CountParts, SeenRoot
  <2>2. QED
    BY <1>1, <1>2, <1>7, <2>1 DEF Counts, Quiet, SameDates
<1> HIDE DEF st, cs
<1>12. QED
  BY <1>1, <1>4, <1>6, <1>8, <1>9, <1>10, <1>11, EmittedCount

LEMMA CloseObjectCount ==
  ASSUME CountInv, CloseObject
  PROVE  CountStep
<1> DEFINE f == Top(stack)
           st == Pop(stack)
           cs == Pop(calls)
           n == Cardinality(f.children)
           br == [arena EXCEPT ![f.node].object.keyCounts = Tick(@, n)]
           sig == RecordSig(f.children)
<1>1. /\ Walking("object") /\ ~Current.awaits /\ calls # <<>> /\ pending' = pending /\ docCount' = docCount
      /\ calls' = Return(cs) /\ EmitChildSig(br, st, sig)
  BY DEF CloseObject, ObjectEnd, Walking
<1>2. /\ FullInv /\ IndInv /\ Good(arena) /\ IsArena(arena) /\ Sequence(stack) /\ Tidy(stack)
      /\ Books(arena, stack, pending, None, FALSE) /\ Ordered(stack, calls)
      /\ docCount = Seen(arena, pending, Root) /\ Root \in DOMAIN arena
  BY CountParts
<1>3. /\ stack # <<>> /\ Len(stack) \in DOMAIN stack /\ f.kind = "object" /\ IsFrame(f, arena)
      /\ Matching(stack, calls)
  BY <1>1, <1>2, WalkingFrame DEF Top
<1>4. pending = None
  BY <1>1, <1>2 DEF IndInv, Walking
<1>5. f.pendingKey = None
  <2>1. stack[Len(stack)] = f /\ Len(calls) = Len(stack) + 1
    BY <1>2, <1>3, LastCall DEF Top
  <2>2. f.pendingKey # None <=> calls[Len(stack) + 1].awaits
    BY <1>3, <2>1 DEF Matching
  <2>3. QED
    BY <1>1, <2>1, <2>2 DEF Current
<1>6. Books(br, st, None, None, TRUE)
  <2>1. Tidy(st) /\ stack = Append(st, f)
    <3>1. /\ Sequence(st) /\ stack = Append(st, f)
          /\ \A i \in DOMAIN st : i \in DOMAIN stack /\ st[i] = stack[i]
      BY <1>2, <1>3, Split
    <3> HIDE DEF st
    <3>2. QED
      BY <1>2, <3>1 DEF Tidy
  <2>2. f.position \in Nat /\ f.node \in DOMAIN arena /\ HasObject(arena[f.node]) /\ f.kind = "object"
    BY <1>3 DEF IsFrame
  <2>6. Books(arena, Append(st, f), None, None, FALSE)
    BY <1>2, <1>4, <2>1
  <2>7. IsFiniteSet(f.children)
    BY <1>2, <1>3 DEF Tidy, Top
  <2> HIDE DEF f, st
  <2>8. QED
    BY <1>2, <1>5, <2>1, <2>2, <2>6, <2>7, CloseObjectBooks
<1>7. Counts(arena, br) /\ SketchesKept(arena, br)
  <2>1. f.node \in DOMAIN arena
    BY <1>3 DEF IsFrame
  <2> HIDE DEF f
  <2>2. QED
    BY <1>2, <2>1, ObjectCountersCount, CountsSketches
<1>8. Matching(st, cs) /\ Ordered(st, cs)
  BY <1>1, <1>2, <1>3, Popped, PoppedOrder
<1> HIDE DEF f, n, sig, br
<1>9. Good(br) /\ Frames(st, br) /\ Placed(st, br)
  BY <1>1, <1>2, <1>3, <1>7, PopRipens DEF Counts
<1>10. evictions = EvictionsIn(br)
  BY <1>7, CountParts, KeptEvictions
<1>11. docCount' = br[Root].obs
  <2>1. docCount = arena[Root].obs
    BY <1>4, CountParts, SeenRoot
  <2>2. QED
    BY <1>1, <1>2, <1>7, <2>1 DEF Counts, Quiet, SameDates
<1> HIDE DEF st, cs
<1>12. QED
  BY <1>1, <1>4, <1>6, <1>8, <1>9, <1>10, <1>11, EmittedCount

LEMMA DriveKeyCount ==
  ASSUME CountInv, NEW key \in Key, DriveKey(key)
  PROVE  CountStep
<1> DEFINE d == Len(stack)
           p == Pop(stack)
           f == Top(stack)
           g == [f EXCEPT !.pendingKey = key]
           o == f.node
           child == ObjectChild(arena, o, key)
           cr == child.arena
           c == child.id
           br == [cr EXCEPT ![o].object.keyCountSum = @ + 1,
                               ![o].object.keyStats = Tick(@, key)]
           sb == [stack EXCEPT ![d].pendingKey = key]
<1>1. /\ Walking("object") /\ ~Current.awaits
      /\ arena' = br /\ pending' = c /\ stack' = sb /\ docCount' = docCount /\ evictions' = evictions
  BY DEF DriveKey, ObjectKey
<1>2. /\ IndInv /\ Good(arena) /\ IsArena(arena) /\ Frames(stack, arena) /\ Sequence(stack)
      /\ Tidy(stack) /\ Books(arena, stack, pending, None, FALSE) /\ Ordered(stack, calls)
      /\ docCount = Seen(arena, pending, Root) /\ Root \in DOMAIN arena
      /\ arena[Root].obs \in Nat
  BY CountParts
<1>3. /\ stack # <<>> /\ d \in DOMAIN stack /\ f.kind = "object" /\ IsFrame(f, arena)
      /\ Matching(stack, calls)
  BY <1>1, <1>2, WalkingFrame DEF Top
<1>4. pending = None
  BY <1>1, <1>2 DEF IndInv, Walking
<1>5. f.pendingKey = None
  <2>1. stack[d] = f /\ Len(calls) = d + 1
    BY <1>2, <1>3, LastCall DEF Top
  <2>2. f.pendingKey # None <=> calls[d + 1].awaits
    BY <1>3, <2>1 DEF Matching
  <2>3. QED
    BY <1>1, <2>1, <2>2 DEF Current
<1>6. /\ Tidy(p) /\ stack = Append(p, f) /\ sb = Append(p, g)
  <2>1. /\ Sequence(p) /\ stack = Append(p, f)
        /\ \A i \in DOMAIN p : i \in DOMAIN stack /\ p[i] = stack[i]
    BY <1>2, <1>3, Split
  <2>2. sb = [i \in DOMAIN stack |-> IF i = d THEN sb[d] ELSE stack[i]] /\ sb[d] = g
    BY <1>3 DEF Top
  <2> HIDE DEF sb, g
  <2>3. sb = Append(p, g)
    BY <1>2, <1>3, <2>2, Split
  <2> HIDE DEF p
  <2>4. Tidy(p)
    BY <1>2, <2>1 DEF Tidy
  <2>5. QED
    BY <2>1, <2>3, <2>4
<1>7. /\ g.kind = f.kind /\ g.node = f.node /\ g.position = f.position
      /\ g.children = f.children /\ g.pendingKey # None
  BY <1>3, NoneAssumption DEF IsFrame
<1>8. f.position \in Nat /\ IsFiniteSet(f.children) /\ o \in DOMAIN arena /\ HasObject(arena[o])
  BY <1>2, <1>3 DEF IsFrame, Tidy, Top
<1> HIDE DEF p, f, g, sb
<1>9. KeyTaken(Append(p, f), f.node, Append(p, g))
  BY <1>3, <1>5, <1>6, <1>7, <1>8, KeyPushed
<1>10. KeyTaken(stack, o, sb)
  BY <1>6, <1>9
<1> HIDE DEF o
<1>11. /\ Books(cr, stack, None, None, FALSE)
       /\ o \in DOMAIN cr /\ HasObject(cr[o]) /\ c \in FieldKids(cr[o])
  <2> DEFINE no == FALSE
  <2>1. Books(arena, stack, None, None, no)
    BY <1>2, <1>4
  <2> HIDE DEF no
  <2>2. /\ Books(cr, stack, None, None, no)
        /\ o \in DOMAIN cr /\ HasObject(cr[o]) /\ c \in FieldKids(cr[o])
    BY <1>2, <1>8, <2>1, ObjectChildBooks
  <2>3. QED
    BY <2>2 DEF no
<1>12. /\ Ripens(arena, cr) /\ Moves(arena, o, cr) /\ SketchesKept(arena, cr)
       /\ c \in Ref(Len(cr))
  BY <1>2, <1>8, ObjectChildRipens, ObjectChildGrows, ObjectChildSketches
<1> HIDE DEF c, cr, child
<1>13. Good(cr) /\ IsArena(cr) /\ Separate(cr) /\ Root \in DOMAIN cr
       /\ cr[Root].obs = arena[Root].obs
  BY <1>2, <1>12, RipensArena, RootMoves DEF Good
<1>14. Books(br, sb, c, None, FALSE)
  BY <1>10, <1>11, <1>13, KeyBooks
<1>15. Quiet(cr, br) /\ SketchesKept(cr, br)
  BY <1>11, <1>13, ObjectCountersCount, CountsSketches DEF Counts
<1> HIDE DEF br
<1>16. evictions = EvictionsIn(br)
  <2>1. SketchesKept(arena, br)
    BY <1>12, <1>15, SketchesOn
  <2>2. QED
    BY <2>1, CountParts, KeptEvictions
<1>17. docCount = Seen(br, c, Root)
  <2>1. br[Root].obs = arena[Root].obs
    BY <1>13, <1>15 DEF Quiet, SameDates
  <2>2. c # Root
    <3>1. \A n : \A k \in Ref(n) : k # 1
      BY DEF Ref
    <3>2. QED
      BY <1>12, <3>1 DEF Root
  <2>3. docCount = arena[Root].obs
    BY <1>2, <1>4, SeenRoot
  <2>4. QED
    BY <1>2, <2>1, <2>2, <2>3 DEF Seen, One
<1>18. Ordered(stack', calls')
  BY <1>2, KeyOrder
<1>19. NoItemWaits'
  <2>1. \A u \in DOMAIN cr : HasArray(cr[u]) => c \notin ItemKids(cr[u])
    BY <1>11, <1>13, OneParent
  <2>2. DOMAIN br = DOMAIN cr
    BY <1>15 DEF Quiet
  <2>3. \A u \in DOMAIN cr : HasArray(br[u]) = HasArray(cr[u]) /\ ItemKids(br[u]) = ItemKids(cr[u])
    BY <1>15 DEF Quiet, SameRefs, HasArray, ItemKids
  <2>4. QED
    BY <1>1, <2>1, <2>2, <2>3 DEF NoItemWaits
<1>20. QED
  BY <1>1, <1>14, <1>16, <1>17, <1>18, <1>19 DEF CountStep

LEMMA InitCount == Init => CountInv
<1> SUFFICES ASSUME Init
             PROVE  CountInv
  OBVIOUS
<1>1. /\ arena = <<NewNode>> /\ docCount = 0 /\ pending = None /\ stack = <<>> /\ evictions = 0
      /\ calls = <<>>
  BY DEF Init, AnalyzerInit
<1>2. FullInv
  BY InitFull
<1>3. DOMAIN arena = {Root} /\ arena[Root] = NewNode /\ IsArena(arena) /\ Frames(stack, arena)
  <2>1. arena[Root] = NewNode /\ Len(arena) = 1
    BY <1>1 DEF Root
  <2>2. IsArena(arena) /\ Frames(stack, arena)
    BY <1>2, FullParts
  <2>3. DOMAIN arena = 1 .. 1
    BY <2>1, <2>2, ArenaLen
  <2>4. QED
    BY <2>1, <2>2, <2>3 DEF Root
<1>4. Books(arena, stack, pending, None, FALSE)
  <2>1. Inner(arena[Root], stack, Root, FALSE, FALSE)
    <3>1. /\ FramesAt(stack, Root, "array") = {} /\ FramesAt(stack, Root, "object") = {}
          /\ Sequence(stack)
      BY <1>1, <1>3 DEF FramesAt, Frames
    <3> DEFINE no == FALSE
    <3> HIDE DEF no
    <3>2. Inner(NewNode, stack, Root, FALSE, no)
      BY <3>1, NewInner
    <3>3. QED
      BY <1>3, <3>2 DEF no
  <2>2. None # Root
    BY NoneRoot
  <2>3. ~HasObject(arena[Root]) /\ ~HasArray(arena[Root])
    BY <1>3, NewNodeSlots
  <2>4. KidsObserve(arena, stack, None, Root) /\ Positions(arena, stack, None, Root)
    BY <2>3 DEF KidsObserve, Positions
  <2>5. BooksAt(arena, stack, None, None, FALSE, Root)
    BY <2>1, <2>2, <2>4 DEF BooksAt
  <2>6. QED
    BY <1>1, <1>3, <2>5 DEF Books
<1>5. docCount = Seen(arena, pending, Root)
  <2>1. arena[Root].obs = 0
    BY <1>3 DEF NewNode
  <2>2. QED
    BY <1>1, <2>1, SeenRoot
<1>6. evictions = EvictionsIn(arena)
  <2> DEFINE e == [t \in DOMAIN arena |-> arena[t].array.cluster.evictions]
  <2>1. DOMAIN e = {Root} /\ e[Root] = 0
    BY <1>3, NewArrayCounts DEF NewNode
  <2>2. EvictionsIn(arena) = SumOver(e, {Root})
    BY <1>3 DEF EvictionsIn
  <2> HIDE DEF e
  <2>3. SumOver(e, {Root}) = 0
    <3>1. IsFiniteSet({Root})
      BY <1>3, FiniteArena
    <3>2. SumOver(e, {Root}) = SumOver(e, {})
      BY <2>1, <3>1, SumZeros
    <3>3. QED
      BY <3>2, SumEmpty
  <2>4. QED
    BY <1>1, <2>2, <2>3
<1>7. Ordered(stack, calls)
  <2>1. DOMAIN stack = {}
    BY <1>1
  <2>2. QED
    BY <2>1 DEF Ordered
<1>8. QED
  BY <1>1, <1>2, <1>4, <1>5, <1>6, <1>7 DEF CountInv, NoItemWaits

LEMMA NextCount ==
  ASSUME CountInv, [Next]_vars
  PROVE  CountInv'
<1>1. FullInv'
  BY CountParts, NextFull
<1>2. CountStep
  <2>1. CASE Next
    BY <2>1, DriveDocumentCount, FinishDocumentCount, DriveScalarCount, OpenArrayCount,
      CloseArrayCount, OpenObjectCount, DriveKeyCount, CloseObjectCount DEF Next
  <2>2. CASE UNCHANGED vars
    <3>1. /\ Books(arena, stack, pending, None, FALSE) /\ docCount = Seen(arena, pending, Root)
          /\ evictions = EvictionsIn(arena) /\ Ordered(stack, calls) /\ NoItemWaits
      BY DEF CountInv
    <3>2. /\ arena' = arena /\ stack' = stack /\ pending' = pending /\ docCount' = docCount
          /\ evictions' = evictions /\ calls' = calls
      BY <2>2 DEF vars, analyzerVars
    <3>3. QED
      BY <3>1, <3>2 DEF CountStep, NoItemWaits
  <2>3. QED
    BY <2>1, <2>2
<1>3. QED
  BY <1>1, <1>2 DEF CountStep, CountInv

\* The books are kept: the invariant that the three theorems below read.
THEOREM CountInvariant == Spec => []CountInv
<1>1. Init => CountInv
  BY InitCount
<1>2. CountInv /\ [Next]_vars => CountInv'
  BY NextCount
<1>3. QED
  BY <1>1, <1>2, PTL DEF Spec

-----------------------------------------------------------------------------
(* What the books say of a report, taken between any two events.           *)
LEMMA Booked ==
  ASSUME CountInv, NEW t \in Nodes
  PROVE  /\ Solid(arena[t]) /\ ByKind(arena[t], FALSE)
         /\ ObjectSizes(arena[t], stack, t) /\ ArraySizes(arena[t], stack, t)
         /\ Clustered(arena[t], stack, t, FALSE)
         /\ KidsObserve(arena, stack, pending, t) /\ Positions(arena, stack, pending, t)
         /\ HasArray(arena[t]) => pending \notin ItemKids(arena[t])
<1>1. /\ Books(arena, stack, pending, None, FALSE) /\ IsArena(arena) /\ t \in DOMAIN arena
  BY CountParts DEF Nodes
<1>2. None # t
  BY <1>1, NoneIsNoNode
<1>3. /\ Inner(arena[t], stack, t, None = t, FALSE)
      /\ KidsObserve(arena, stack, pending, t) /\ Positions(arena, stack, pending, t)
  BY <1>1, BooksParts
<1>4. HasArray(arena[t]) => pending \notin ItemKids(arena[t])
  <2>1. HasArray(arena[t]) => None \notin ItemKids(arena[t])
    BY <1>1, KidsInArena
  <2>2. QED
    BY <1>1, <2>1 DEF CountInv, NoItemWaits
<1>5. Inner(arena[t], stack, t, FALSE, FALSE)
  BY <1>2, <1>3
<1>6. QED
  BY <1>3, <1>4, <1>5 DEF Inner

LEMMA KidsByView ==
  ASSUME NEW t \in Nodes
  PROVE  /\ t \in Objects => FieldNodes(t) \cup {arena[t].object.mapValue} = FieldKids(arena[t])
         /\ t \in Arrays => PositionNodes(t) \cup {arena[t].array.bagValue} = ItemKids(arena[t])
BY DEF FieldNodes, PositionNodes, Fields, Positional, FieldKids, ItemKids

LEMMA KidsObserved ==
  ASSUME CountInv, NEW S, IsFiniteSet(S), S \subseteq DOMAIN arena
  PROVE  /\ SeenIn(arena, pending, S) = ObsIn(S) + Waiting(S)
         /\ SumOver([u \in DOMAIN arena |-> arena[u].obs], S) = ObsIn(S) /\ ObsIn(S) \in Nat
<1>1. \A u \in S : arena[u].obs \in Nat
  BY CountParts DEF Solid
<1>2. SeenIn(arena, pending, S) = SumOver([u \in DOMAIN arena |-> arena[u].obs], S) + One(pending \in S)
  BY <1>1, SeenInObs
<1>3. SumOver([u \in DOMAIN arena |-> arena[u].obs], S) = ObsIn(S)
  BY DEF ObsIn, Nodes
<1>4. ObsIn(S) \in Nat
  <2> DEFINE f == [u \in DOMAIN arena |-> arena[u].obs]
  <2>1. \A u \in S : f[u] \in Nat
    BY <1>1
  <2> HIDE DEF f
  <2>2. SumOver(f, S) \in Nat
    BY <2>1, SumType
  <2>3. QED
    BY <1>3, <2>2 DEF f
<1>5. QED
  BY <1>2, <1>3, <1>4 DEF Waiting, One

LEMMA CountedOnce == CountInv => EveryValueCounted
<1> SUFFICES ASSUME CountInv
             PROVE  EveryValueCounted
  OBVIOUS
<1>1. docCount = Obs(Root) + Waiting({Root})
  BY CountParts DEF Seen, One, Obs, Waiting
<1>2. ASSUME NEW t \in Nodes
      PROVE  Obs(t) = Mass(arena[t].scalars)
               + (IF t \in Objects THEN arena[t].object.obs ELSE 0)
               + (IF t \in Arrays THEN arena[t].array.obs ELSE 0)
  <2>1. Solid(arena[t]) /\ ByKind(arena[t], FALSE)
    BY <1>2, Booked
  <2>2. arena[t].obs = Mass(arena[t].scalars) + arena[t].object.obs + arena[t].array.obs
    BY <2>1, SolidSums DEF ByKind, One
  <2>3. /\ t \notin Objects => arena[t].object.obs = 0
        /\ t \notin Arrays => arena[t].array.obs = 0
    BY <1>2, <2>1, NewObjectCounts, NewArrayCounts DEF Solid, Objects, Arrays
  <2>4. QED
    BY <2>2, <2>3 DEF Obs
<1>3. ASSUME NEW t \in Objects
      PROVE  LET kids == FieldNodes(t) \cup {arena[t].object.mapValue}
             IN arena[t].object.keyCountSum = ObsIn(kids) + Waiting(kids)
  <2> DEFINE kids == FieldKids(arena[t])
  <2>1. t \in Nodes /\ HasObject(arena[t]) /\ IsArena(arena) /\ t \in DOMAIN arena
    BY <1>3, CountParts DEF Objects, Nodes
  <2>2. arena[t].object.keyCountSum = SeenIn(arena, pending, kids)
    BY <2>1, Booked DEF KidsObserve
  <2>3. IsFiniteSet(kids) /\ kids \subseteq DOMAIN arena
    BY <2>1, KidsInArena
  <2>4. FieldNodes(t) \cup {arena[t].object.mapValue} = kids
    BY <1>3, <2>1, KidsByView
  <2> HIDE DEF kids
  <2>5. arena[t].object.keyCountSum = ObsIn(kids) + Waiting(kids)
    BY <2>2, <2>3, KidsObserved
  <2>6. QED
    BY <2>4, <2>5
<1>4. ASSUME NEW t \in Arrays
      PROVE  arena[t].array.lengthSum + OpenItems(t) =
               ObsIn(PositionNodes(t) \cup {arena[t].array.bagValue})
  <2> DEFINE kids == ItemKids(arena[t])
  <2>1. t \in Nodes /\ HasArray(arena[t]) /\ IsArena(arena) /\ t \in DOMAIN arena
    BY <1>4, CountParts DEF Arrays, Nodes
  <2>2. /\ arena[t].array.lengthSum + ItemsAt(stack, t) = SeenIn(arena, pending, kids)
        /\ pending \notin kids
    BY <2>1, Booked DEF KidsObserve
  <2>3. IsFiniteSet(kids) /\ kids \subseteq DOMAIN arena
    BY <2>1, KidsInArena
  <2>4. PositionNodes(t) \cup {arena[t].array.bagValue} = kids
    BY <1>4, <2>1, KidsByView
  <2>5. OpenItems(t) = ItemsAt(stack, t)
    BY DEF OpenItems, ItemsAt, OpenFrames, FramesAt
  <2> HIDE DEF kids
  <2>6. SeenIn(arena, pending, kids) = ObsIn(kids)
    <3>1. SeenIn(arena, pending, kids) = ObsIn(kids) + Waiting(kids) /\ ObsIn(kids) \in Nat
      BY <2>3, KidsObserved
    <3>2. Waiting(kids) = 0
      BY <2>2 DEF Waiting
    <3>3. QED
      BY <3>1, <3>2
  <2>7. QED
    BY <2>2, <2>4, <2>5, <2>6
<1>5. QED
  BY <1>1, <1>2, <1>3, <1>4 DEF EveryValueCounted

\* Every value of every document is counted at one node and at one kind, keys
\* are the observations of the fields, items those of the positions: what the
\* events of StreamingAnalyzer count adds up between any two of them.
THEOREM EveryValueCountedHolds == Spec => []EveryValueCounted
BY CountInvariant, CountedOnce, PTL

LEMMA NothingOpen ==
  ASSUME CountInv, NEW t, NEW kind, Cardinality(OpenFrames(t, kind)) = 0
  PROVE  FramesAt(stack, t, kind) = {}
<1>1. IsFiniteSet(FramesAt(stack, t, kind))
  BY CountParts, PushedFrames
<1>2. QED
  BY <1>1, FS_EmptySet DEF OpenFrames, FramesAt

LEMMA SizesAgreed == CountInv => SizesAgree
<1> SUFFICES ASSUME CountInv
             PROVE  SizesAgree
  OBVIOUS
<1>1. \A t, kind : Cardinality(OpenFrames(t, kind)) = Opens(stack, t, kind)
  BY DEF OpenFrames, Opens, FramesAt
<1>2. ASSUME NEW t \in Nodes
      PROVE  LET stillOpen(kind) == Cardinality(OpenFrames(t, kind))
             IN /\ t \in Objects =>
                     LET obj == arena[t].object
                     IN /\ obj.obs = Mass(obj.keyCounts) + stillOpen("object")
                        /\ stillOpen("object") = 0 => obj.keyCountSum = Weighted(obj.keyCounts)
                /\ t \in Arrays =>
                     LET arr == arena[t].array
                     IN /\ arr.obs = Mass(arr.lengths) + stillOpen("array")
                        /\ arr.lengthSum = Weighted(arr.lengths)
  <2>1. /\ Solid(arena[t]) /\ ObjectSizes(arena[t], stack, t) /\ ArraySizes(arena[t], stack, t)
    BY <1>2, Booked
  <2>2. Cardinality(OpenFrames(t, "object")) = 0 =>
          arena[t].object.keyCountSum = Weighted(arena[t].object.keyCounts)
    <3>1. HAVE Cardinality(OpenFrames(t, "object")) = 0
    <3>2. KeysAt(stack, t) = 0
      BY <3>1, NothingOpen, NoObjects
    <3>3. Weighted(arena[t].object.keyCounts) \in Nat
      BY <2>1, SolidSums
    <3>4. QED
      BY <2>1, <3>2, <3>3 DEF ObjectSizes
  <2>3. QED
    BY <1>1, <2>1, <2>2 DEF ObjectSizes, ArraySizes
<1>3. ASSUME NEW t \in Arrays, arena[t].array.positionalAlive, OpenFrames(t, "array") = {}
      PROVE  LET arr == arena[t].array
                 atLeast(i) == {n \in DOMAIN arr.lengths : n >= i}
             IN /\ \A i \in DOMAIN arr.positional :
                      Obs(arr.positional[i]) = SumOver(arr.lengths, atLeast(i))
                /\ Len(arr.positional) \in DOMAIN arr.lengths
  <2> DEFINE arr == arena[t].array
  <2>1. t \in Nodes /\ HasArray(arena[t]) /\ Sequence(stack) /\ FramesAt(stack, t, "array") = {}
    BY <1>3, CountParts DEF Arrays, OpenFrames, FramesAt
  <2>2. PositionsAt(stack, t) = {} /\ \A n : ReachAt(stack, t, n) = 0
    BY <2>1, NoArrays
  <2>3. /\ Len(arr.positional) \in DOMAIN arr.lengths \cup PositionsAt(stack, t)
        /\ \A n \in DOMAIN arr.positional :
             Seen(arena, pending, arr.positional[n]) = LongEnough(arr.lengths, n) + ReachAt(stack, t, n)
    BY <1>3, <2>1, Booked DEF Positions
  <2>4. pending \notin ItemKids(arena[t]) /\ Solid(arena[t])
    BY <2>1, Booked
  <2>5. ASSUME NEW n \in DOMAIN arr.positional
        PROVE  Obs(arr.positional[n]) = LongEnough(arr.lengths, n)
    <3> DEFINE k == arr.positional[n]
    <3>1. k \in ItemKids(arena[t])
      BY <2>5 DEF ItemKids
    <3>2. k \in DOMAIN arena
      BY <2>1, <3>1, CountParts, KidsInArena DEF Nodes
    <3>3. k # pending /\ arena[k].obs \in Nat
      BY <2>4, <3>1, <3>2, CountParts DEF Solid
    <3>4. LongEnough(arr.lengths, n) \in Nat
      BY <2>4, TickMore DEF Solid, OneMore
    <3>5. Seen(arena, pending, k) = LongEnough(arr.lengths, n) + 0
      BY <2>2, <2>3, <2>5
    <3> HIDE DEF k
    <3>6. QED
      BY <3>3, <3>4, <3>5 DEF Seen, One, Obs, k
  <2>6. QED
    BY <2>2, <2>3, <2>5 DEF LongEnough
<1>4. SizesAddUp
  BY <1>2, Zenon DEF SizesAddUp
<1>5. PositionsMatchLengths
  BY <1>3, Zenon DEF PositionsMatchLengths
<1>6. QED
  BY <1>4, <1>5 DEF SizesAgree

\* The sizes that object_end and array_end enter are those of the containers
\* that are closed, they add up to the keys and items, and while the positional
\* view of an array is alive each position was seen once per long enough array.
THEOREM SizesAgreeHolds == Spec => []SizesAgree
BY CountInvariant, SizesAgreed, PTL

LEMMA Unfinished ==
  ASSUME CountInv, NEW t
  PROVE  /\ UnfinishedItems(t) \in Nat
         /\ UnfinishedItems(t) + TopAt(stack, t) = Opens(stack, t, "array")
<1> DEFINE F == FramesAt(stack, t, "array")
           d == Len(stack)
<1>1. IsFiniteSet(F) /\ Sequence(stack)
  BY CountParts, PushedFrames
<1>2. d \in F <=> InArray(stack) /\ Top(stack).node = t
  <2>1. d \in Nat /\ DOMAIN stack = 1 .. d /\ (stack = <<>> <=> d = 0)
    BY <1>1, SequenceLen, SequenceEmpty
  <2>2. d \in DOMAIN stack <=> stack # <<>>
    BY <2>1
  <2>3. QED
    BY <2>2 DEF FramesAt, InArray, Top
<1>3. UnfinishedItems(t) = Cardinality(F \ {d}) /\ Opens(stack, t, "array") = Cardinality(F)
  BY DEF UnfinishedItems, OpenFrames, Opens, FramesAt
<1>4. TopAt(stack, t) = IF d \in F THEN 1 ELSE 0
  BY <1>2 DEF TopAt, One
<1> HIDE DEF F, d
<1>5. /\ IsFiniteSet(F \ {d})
      /\ Cardinality(F \ {d}) = IF d \in F THEN Cardinality(F) - 1 ELSE Cardinality(F)
  BY <1>1, FS_RemoveElement
<1>6. Cardinality(F) \in Nat /\ Cardinality(F \ {d}) \in Nat
  BY <1>1, <1>5, FS_CardinalityType
<1>7. QED
  BY <1>3, <1>4, <1>5, <1>6

LEMMA ClustersAdded == CountInv => ClustersAddUp
<1> SUFFICES ASSUME CountInv
             PROVE  ClustersAddUp
  OBVIOUS
<1>1. evictions = SumOver([t \in Nodes |-> arena[t].array.cluster.evictions], Arrays)
  <2> DEFINE e == [t \in DOMAIN arena |-> arena[t].array.cluster.evictions]
  <2>1. IsFiniteSet(DOMAIN arena) /\ Arrays \in SUBSET DOMAIN arena
    BY CountParts, FiniteArena DEF Arrays, Nodes
  <2>2. \A t \in DOMAIN arena : e[t] \in Nat
    BY CountParts DEF Solid, IsTable
  <2>3. \A t \in DOMAIN arena \ Arrays : e[t] = 0
    BY CountParts, NewArrayCounts DEF Solid, Arrays, Nodes
  <2>4. evictions = SumOver(e, DOMAIN arena)
    BY CountParts DEF EvictionsIn
  <2>5. e = [t \in Nodes |-> arena[t].array.cluster.evictions]
    BY DEF Nodes
  <2> HIDE DEF e
  <2>6. SumOver(e, DOMAIN arena) = SumOver(e, Arrays)
    BY <2>1, <2>2, <2>3, SumZeros
  <2>7. QED
    BY <2>4, <2>5, <2>6
<1>2. ASSUME NEW t \in Arrays
      PROVE  Mass(arena[t].array.cluster.counters) =
               arena[t].array.lengthSum + OpenItems(t) - UnfinishedItems(t)
  <2>1. t \in Nodes /\ HasArray(arena[t])
    BY <1>2 DEF Arrays
  <2>2. /\ Solid(arena[t])
        /\ Mass(arena[t].array.cluster.counters) + Opens(stack, t, "array") =
             arena[t].array.lengthSum + ItemsAt(stack, t) + TopAt(stack, t)
    BY <2>1, Booked DEF Clustered
  <2>3. OpenItems(t) = ItemsAt(stack, t) /\ ItemsAt(stack, t) \in Nat
    <3>1. OpenItems(t) = ItemsAt(stack, t)
      BY DEF OpenItems, ItemsAt, OpenFrames, FramesAt
    <3>2. ArrayOpened(stack, t, Append(stack, ArrayFrame(t)))
      BY CountParts, ArrayPushed
    <3>3. QED
      BY <3>1, <3>2 DEF ArrayOpened
  <2>4. /\ Mass(arena[t].array.cluster.counters) \in Nat /\ arena[t].array.lengthSum \in Nat
    BY <2>2, SolidSums
  <2>5. /\ UnfinishedItems(t) \in Nat /\ TopAt(stack, t) \in Nat
        /\ UnfinishedItems(t) + TopAt(stack, t) = Opens(stack, t, "array")
    BY Unfinished, OneType DEF TopAt
  <2>6. \A m, l, i, x, u, o \in Int : m + o = l + i + x /\ u + x = o => m = l + i - u
    OBVIOUS
  <2>7. Opens(stack, t, "array") \in Nat
    BY <2>5
  <2>8. QED
    BY <2>2, <2>3, <2>4, <2>5, <2>6, <2>7
<1>3. QED
  BY <1>1, <1>2 DEF ClustersAddUp

\* Each cluster sketch has counted every finished item of its arrays, and the
\* total that should_bail divides is that of all sketches.
THEOREM ClustersAddUpHolds == Spec => []ClustersAddUp
BY CountInvariant, ClustersAdded, PTL
=============================================================================
