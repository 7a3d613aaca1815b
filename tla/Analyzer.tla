------------------------------ MODULE Analyzer ------------------------------
(***************************************************************************)
(* StreamingAnalyzer (analyzer.rs): the arena of nodes that a stream of    *)
(* parser events (JsonEventSink) grows.  One action per event.  Guards are *)
(* the conditions under which the code does not panic; whether a producer  *)
(* ever calls an event outside them is a property of module Ingest.        *)
(*                                                                         *)
(* A node accumulates, for one position of the documents, how many values  *)
(* were seen there and of which kind.  Object and array positions keep two *)
(* views at once: a bounded exact one (a node per key, a node per index)   *)
(* and one node for all values that the exact view has no room for.        *)
(*                                                                         *)
(* Left out as data: string formats and number ranges of a node (module    *)
(* ValueStats); of the keys of an object, keyStats counts each.  The       *)
(* histograms keyCounts and lengths stand for all that object_end and      *)
(* array_end record of a size (sketch, minimum, maximum, histogram), and   *)
(* node ids for the order in which fields came.  Node ids start at 1.      *)
(***************************************************************************)
EXTENDS Integers, Sequences, SpaceSaving

CONSTANTS
  Key,            \* object keys
  Kind,           \* scalar kinds
  None,           \* the absent Option
  RecordCap,      \* policy.record_view_cap
  PositionalCap,  \* policy.positional_view_cap
  ClusterCap      \* policy.cluster_cap

ASSUME KindAssumption == IsFiniteSet(Kind)
ASSUME NoneAssumption == None \notin Nat /\ None \notin Key
ASSUME CapsAssumption ==
  /\ RecordCap \in Nat
  /\ PositionalCap \in Nat
  /\ ClusterCap \in Nat \ {0}

VARIABLES
  arena,         \* the nodes, a sequence that only grows
  docCount,      \* documents begun
  currentDoc,    \* ordinal of the document being read
  pending,       \* the node that takes the next value, or None
  stack,         \* a frame per open container
  evictions      \* total_cluster_evictions

analyzerVars == <<arena, docCount, currentDoc, pending, stack, evictions>>

Root == 1

-----------------------------------------------------------------------------
(* Structural signatures, the keys of the cluster sketches.                *)
ScalarSig(kind) == <<"scalar", kind>>
RecordSig(children) == <<"record", children>>   \* pairs of a key and a signature
Homogenize(sigs) ==
  IF sigs = {} THEN <<"empty">>
  ELSE IF \E s \in sigs : sigs = {s} THEN CHOOSE s \in sigs : TRUE
  ELSE <<"variant", sigs>>
ArraySig(sigs) == <<"array", Homogenize(sigs)>>

-----------------------------------------------------------------------------
(* The arena.                                                              *)
NewObject(mapValue) ==
  [obs |-> 0, fields |-> [k \in {} |-> 0], recordAlive |-> TRUE,
   mapValue |-> mapValue, keyCountSum |-> 0, keyStats |-> [k \in {} |-> 0],
   keyCounts |-> [n \in {} |-> 0]]

NewArray(bagValue) ==
  [obs |-> 0, positional |-> <<>>, positionalAlive |-> TRUE, bagValue |-> bagValue,
   lengthSum |-> 0, lengths |-> [n \in {} |-> 0], cluster |-> NewTable]

\* An accumulator that has no overflow node is one that does not exist yet.
NewNode == [obs |-> 0, firstDoc |-> 0, lastDoc |-> 0, scalars |-> [k \in Kind |-> 0],
            object |-> NewObject(None), array |-> NewArray(None)]
HasObject(node) == node.object.mapValue # None
HasArray(node) == node.array.bagValue # None

Alloc(ar) == Append(ar, NewNode)

\* The id that the next node gets.
FreshId(ar) == Len(ar) + 1

ObsAt(ar, t) ==
  [ar EXCEPT ![t].obs = @ + 1,
             ![t].firstDoc = IF ar[t].obs = 0 THEN currentDoc ELSE @,
             ![t].lastDoc = currentDoc]

\* Mutant: the accumulator is made anew every time.
EnsureObjectAlways(ar, t) ==
  [Alloc(ar) EXCEPT ![t].object = NewObject(FreshId(ar))]

EnsureObject(ar, t) ==
  IF HasObject(ar[t]) THEN ar
  ELSE [Alloc(ar) EXCEPT ![t].object = NewObject(FreshId(ar))]

\* Mutant: the two accumulators of a node share their overflow node.
EnsureArrayShared(ar, t) ==
  IF HasArray(ar[t]) THEN ar
  ELSE IF HasObject(ar[t])
  THEN [ar EXCEPT ![t].array = NewArray(ar[t].object.mapValue)]
  ELSE [Alloc(ar) EXCEPT ![t].array = NewArray(FreshId(ar))]

EnsureArray(ar, t) ==
  IF HasArray(ar[t]) THEN ar
  ELSE [Alloc(ar) EXCEPT ![t].array = NewArray(FreshId(ar))]

\* The node for a position of an array, and the arena that has it.
ArrayChild(ar, a, position) ==
  LET arr == ar[a].array
      known == arr.positionalAlive /\ position < Len(arr.positional)
      fresh == arr.positionalAlive /\ ~known /\ position < PositionalCap
  IN IF known THEN [arena |-> ar, id |-> arr.positional[position + 1]]
     ELSE IF fresh
     THEN [arena |-> [Alloc(ar) EXCEPT ![a].array.positional = Append(@, FreshId(ar))],
           id |-> FreshId(ar)]
     ELSE [arena |-> [ar EXCEPT ![a].array.positionalAlive = FALSE],
           id |-> arr.bagValue]

\* Mutant: one field too few.
RecordHasRoomForOneLess(obj) ==
  obj.recordAlive /\ Cardinality(DOMAIN obj.fields) + 1 < RecordCap

RecordHasRoom(obj) == obj.recordAlive /\ Cardinality(DOMAIN obj.fields) < RecordCap

\* The node for a key of an object.  A key the record view knows keeps its own
\* node even after the view has overflowed.
ObjectChild(ar, o, key) ==
  LET obj == ar[o].object
      known == key \in DOMAIN obj.fields
      fresh == ~known /\ RecordHasRoom(obj)
  IN IF known THEN [arena |-> ar, id |-> obj.fields[key]]
     ELSE IF fresh
     THEN [arena |-> [Alloc(ar) EXCEPT ![o].object.fields =
                        [k \in DOMAIN @ \cup {key} |-> IF k = key THEN FreshId(ar) ELSE @[k]]],
           id |-> FreshId(ar)]
     ELSE [arena |-> [ar EXCEPT ![o].object.recordAlive = FALSE],
           id |-> obj.mapValue]

-----------------------------------------------------------------------------
(* The stack of open containers.                                           *)
ObjectFrame(t) == [kind |-> "object", node |-> t, position |-> 0,
                   pendingKey |-> None, children |-> {}]
ArrayFrame(t) == [kind |-> "array", node |-> t, position |-> 0,
                  pendingKey |-> None, children |-> {}]

InObject(st) == st # <<>> /\ st[Len(st)].kind = "object"
InArray(st) == st # <<>> /\ st[Len(st)].kind = "array"
Top(st) == st[Len(st)]
Pop(st) == SubSeq(st, 1, Len(st) - 1)

\* consume_target does not panic.
HasTarget == pending # None \/ InArray(stack)

\* Where the next value goes: the pending node, or the next array position.
Target ==
  IF pending # None THEN [arena |-> arena, id |-> pending]
  ELSE ArrayChild(arena, Top(stack).node, Top(stack).position)

\* Mutant: the position stays.
StackUnmoved == stack

StackAfterTarget ==
  IF pending # None THEN stack ELSE [stack EXCEPT ![Len(stack)].position = @ + 1]

\* Mutant: a size is entered, not counted.
TickOnce(hist, n) ==
  [m \in DOMAIN hist \cup {n} |-> IF m = n THEN 1 ELSE hist[m]]

\* One more in a histogram.
Tick(hist, n) ==
  [m \in DOMAIN hist \cup {n} |->
     (IF m \in DOMAIN hist THEN hist[m] ELSE 0) + (IF m = n THEN 1 ELSE 0)]

-----------------------------------------------------------------------------
(* A value is complete: its signature goes to the container that holds it. *)
(* ar and st are the arena and the stack without the value's own frame.    *)
\* Mutant: the total is that of the last sketch.
EvictedLast(before, after) == after.evictions

\* The total of evictions after a sketch has changed.
Evicted(before, after) ==
  IF after.evictions > before.evictions THEN evictions + 1 ELSE evictions

EmitToArray(ar, st, sig) ==
  /\ InArray(st)
  /\ LET a == Top(st).node
     IN \E table \in Observed(ar[a].array.cluster, ClusterCap, sig) :
          /\ arena' = [ar EXCEPT ![a].array.cluster = table]
          /\ evictions' = Evicted(ar[a].array.cluster, table)
  /\ stack' = [st EXCEPT ![Len(st)].children = @ \cup {sig}]

\* Mutant: the key is read but not taken.
EmitToObjectKeepingKey(ar, st, sig) ==
  /\ InObject(st)
  /\ Top(st).pendingKey # None
  /\ stack' = [st EXCEPT ![Len(st)].children = @ \cup {<<Top(st).pendingKey, sig>>}]
  /\ arena' = ar
  /\ UNCHANGED evictions

EmitToObject(ar, st, sig) ==
  /\ InObject(st)
  /\ Top(st).pendingKey # None
  /\ stack' = [st EXCEPT ![Len(st)].children = @ \cup {<<Top(st).pendingKey, sig>>},
                         ![Len(st)].pendingKey = None]
  /\ arena' = ar
  /\ UNCHANGED evictions

EmitNowhere(ar, st) ==
  /\ st = <<>>
  /\ arena' = ar
  /\ stack' = st
  /\ UNCHANGED evictions

EmitChildSig(ar, st, sig) ==
  \/ EmitToArray(ar, st, sig)
  \/ EmitToObject(ar, st, sig)
  \/ EmitNowhere(ar, st)

-----------------------------------------------------------------------------
(* The events of JsonEventSink.                                            *)
DocumentBegin(ordinal) ==
  /\ currentDoc' = ordinal
  /\ docCount' = docCount + 1
  /\ pending' = Root
  /\ UNCHANGED <<arena, stack, evictions>>

DocumentEnd ==
  /\ pending' = None
  /\ UNCHANGED <<arena, docCount, currentDoc, stack, evictions>>

\* null, bool, i64, u64, f64 and string: the kind is all that is kept here.
Scalar(kind) ==
  /\ HasTarget
  /\ LET t == Target.id
     IN EmitChildSig([ObsAt(Target.arena, t) EXCEPT ![t].scalars[kind] = @ + 1],
                     StackAfterTarget, ScalarSig(kind))
  /\ pending' = None
  /\ UNCHANGED <<docCount, currentDoc>>

ArrayBegin ==
  /\ HasTarget
  /\ LET t == Target.id
     IN /\ arena' = [EnsureArray(ObsAt(Target.arena, t), t) EXCEPT ![t].array.obs = @ + 1]
        /\ stack' = Append(StackAfterTarget, ArrayFrame(t))
  /\ pending' = None
  /\ UNCHANGED <<docCount, currentDoc, evictions>>

ArrayEnd ==
  /\ InArray(stack)
  /\ LET f == Top(stack)
     IN EmitChildSig([arena EXCEPT ![f.node].array.lengthSum = @ + f.position,
                                   ![f.node].array.lengths = Tick(@, f.position)],
                     Pop(stack), ArraySig(f.children))
  /\ UNCHANGED <<docCount, currentDoc, pending>>

ObjectBegin ==
  /\ HasTarget
  /\ LET t == Target.id
     IN /\ arena' = [EnsureObject(ObsAt(Target.arena, t), t) EXCEPT ![t].object.obs = @ + 1]
        /\ stack' = Append(StackAfterTarget, ObjectFrame(t))
  /\ pending' = None
  /\ UNCHANGED <<docCount, currentDoc, evictions>>

ObjectKey(key) ==
  /\ InObject(stack)
  /\ LET o == Top(stack).node
         child == ObjectChild(arena, o, key)
     IN /\ arena' = [child.arena EXCEPT ![o].object.keyCountSum = @ + 1,
                                        ![o].object.keyStats = Tick(@, key)]
        /\ pending' = child.id
  /\ stack' = [stack EXCEPT ![Len(stack)].pendingKey = key]
  /\ UNCHANGED <<docCount, currentDoc, evictions>>

ObjectEnd ==
  /\ InObject(stack)
  /\ LET f == Top(stack)
     IN EmitChildSig([arena EXCEPT ![f.node].object.keyCounts =
                                     Tick(@, Cardinality(f.children))],
                     Pop(stack), RecordSig(f.children))
  /\ UNCHANGED <<docCount, currentDoc, pending>>

AnalyzerInit ==
  /\ arena = <<NewNode>>
  /\ docCount = 0
  /\ currentDoc = 0
  /\ pending = None
  /\ stack = <<>>
  /\ evictions = 0
=============================================================================
