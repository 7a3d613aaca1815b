----------------------------- MODULE Finalizer -----------------------------
(***************************************************************************)
(* The shape that a report shows: Finalizer (analyzer.rs) reads the arena, *)
(* chooses for each object between the record view and the map view and    *)
(* for each array between the positions and the element clusters, and      *)
(* builds a shape.  It changes nothing, so a shape can be asked for        *)
(* between any two documents (StreamingAnalyzer::build_shape).             *)
(*                                                                         *)
(* The documents themselves are kept as history, to say what the shape has *)
(* to do with them.                                                        *)
(*                                                                         *)
(* The flat form (ValueType) that a shape takes when it has no part that   *)
(* the flat form cannot say is in module ReportShape.  The observation     *)
(* counts of a shape are those of its node and are left out.               *)
(***************************************************************************)
EXTENDS IngestByPath, SequencesExt

CONSTANTS
  MinMapKeys,    \* distinct keys from which an object may be a map: 16
  MapRatio,      \* distinct keys per typical object above which it is: 4
  MaxTuple,      \* longest tuple: 16
  TightShare     \* share of the commonest length in a tuple: 9/10, as <<9, 10>>

ASSUME DecisionAssumption ==
  /\ MinMapKeys \in Nat /\ MapRatio \in Nat /\ MaxTuple \in Nat
  /\ TightShare \in Nat \X (Nat \ {0})

VARIABLES
  seen,    \* the documents that are complete
  built    \* the open containers as far as they have been read

history == <<seen, built>>
shapeVars == <<vars, pathOf, history>>

-----------------------------------------------------------------------------
(* Documents.                                                              *)
ScalarValue(kind) == [is |-> "scalar", kind |-> kind]
EmptyObject == [is |-> "object", fields |-> [k \in {} |-> 0]]
EmptyArray == [is |-> "array", items |-> <<>>]

\* A container with one more value; key is that of the frame (objects).
Put(container, key, value) ==
  IF container.is = "array" THEN [container EXCEPT !.items = Append(@, value)]
  ELSE [container EXCEPT !.fields =
          [k \in DOMAIN @ \cup {key} |-> IF k = key THEN value ELSE @[k]]]

\* A value is complete, in the containers that are still open.
Complete(outer, value) ==
  IF outer = <<>> THEN seen' = seen \cup {value} /\ built' = <<>>
  ELSE /\ built' = [outer EXCEPT ![Len(outer)] = Put(@, stack[Len(outer)].pendingKey, value)]
       /\ UNCHANGED seen

Open(container) == built' = Append(built, container) /\ UNCHANGED seen
Close == Complete(Pop(built), Top(built))

ShapeInit == PathInit /\ seen = {} /\ built = <<>>

ShapeNext ==
  /\ \/ DriveDocument /\ UNCHANGED history
     \/ FinishDocument /\ UNCHANGED history
     \/ \E kind \in Kind : DriveScalar(kind) /\ Complete(built, ScalarValue(kind))
     \/ OpenArray /\ Open(EmptyArray)
     \/ CloseArray /\ Close
     \/ OpenObject /\ Open(EmptyObject)
     \/ (\E key \in Key : DriveKey(key)) /\ UNCHANGED history
     \/ CloseObject /\ Close
  /\ pathOf' = Named(pathOf, arena')

ShapeSpec == ShapeInit /\ [][ShapeNext]_shapeVars

-----------------------------------------------------------------------------
(* Shapes.                                                                 *)
Absent == [form |-> "absent"]
ScalarShape(kind) == [form |-> "scalar", kind |-> kind]
Variant(arms) ==
  IF arms = {} THEN Absent
  ELSE IF Cardinality(arms) = 1 THEN CHOOSE arm \in arms : TRUE
  ELSE [form |-> "variant", arms |-> arms]

RECURSIVE ContainsNull(_)
ContainsNull(shape) ==
  \/ shape = ScalarShape("null")
  \/ shape.form = "variant" /\ \E arm \in shape.arms : ContainsNull(arm)

RECURSIVE SigToShape(_)
SigToShape(sig) ==
  CASE sig[1] = "empty" -> Absent
    [] sig[1] = "scalar" -> ScalarShape(sig[2])
    [] sig[1] = "array" ->
         [form |-> "array", element |-> SigToShape(sig[2]), nullable |-> FALSE]
    [] sig[1] = "record" ->
         [form |-> "record",
          fields |-> [k \in {field[1] : field \in sig[2]} |->
            [shape |-> SigToShape((CHOOSE field \in sig[2] : field[1] = k)[2]),
             nullable |-> FALSE]]]
    [] sig[1] = "variant" -> [form |-> "variant", arms |-> {SigToShape(s) : s \in sig[2]}]

-----------------------------------------------------------------------------
(* Decisions.                                                              *)
\* The keys are many, and many more than an object has on average.
KeysScatter(obj) ==
  LET unique == Cardinality(DOMAIN obj.fields)
  IN /\ unique >= MinMapKeys
     /\ unique * Max({obj.obs, 1}) > MapRatio * Max({obj.keyCountSum, Max({obj.obs, 1})})

\* Mutant: a view that has given up is believed.
IsMapByKeys(obj) == KeysScatter(obj)

IsMap(obj) == ~obj.recordAlive \/ KeysScatter(obj)

\* The commonest length, the longest one of several.
ModeLength(lengths) ==
  LET commonest == {n \in DOMAIN lengths : \A m \in DOMAIN lengths : lengths[m] <= lengths[n]}
  IN IF commonest = {} THEN 0 ELSE Max(commonest)

IsTuple(arr) ==
  LET mode == ModeLength(arr.lengths)
  IN /\ arr.positionalAlive /\ arr.positional # <<>>
     /\ mode \in 1 .. MaxTuple
     /\ arr.lengths[mode] * TightShare[2] >= TightShare[1] * Max({arr.obs, 1})

\* The fields of an object in the order in which they came.
FieldOrder(obj) == SetToSortSeq(DOMAIN obj.fields, LAMBDA k, l : obj.fields[k] < obj.fields[l])

\* The node observed most often, the first one of several; nodes of one view
\* are numbered in the order in which they entered it.
Dominant(ids) ==
  Min({t \in ids : \A u \in ids : Obs(u) <= Obs(t)})

\* Mutant: null is not asked for.
NullableByCount(object, child, shape) == Obs(child) < object.obs

\* A field is nullable if some object lacks it or holds null.
Nullable(object, child, shape) == Obs(child) < object.obs \/ ContainsNull(shape)

ElementClusters(arr) == Held(arr.cluster) \ {<<"empty">>}

-----------------------------------------------------------------------------
(* The shapes of all nodes.  A node's children have larger ids.            *)
Shapes ==
  LET shape[t \in Nodes] ==
        LET n == arena[t]
            build(ids) == IF ids = {} THEN Absent ELSE shape[Dominant(ids)]

            recordShape == [form |-> "record", fields |-> [k \in DOMAIN n.object.fields |->
              LET child == n.object.fields[k]
              IN [shape |-> shape[child], nullable |-> Nullable(n.object, child, shape[child])]]]
            mapShape ==
              LET pooled == shape[n.object.mapValue]
                  value == IF pooled = Absent THEN build(FieldNodes(t)) ELSE pooled
              IN [form |-> "map", value |-> value, nullable |-> ContainsNull(value)]

            tupleShape == [form |-> "tuple", positions |->
              [i \in 1 .. Min({ModeLength(n.array.lengths), Len(n.array.positional)}) |->
                 shape[n.array.positional[i]]]]
            element ==
              IF ElementClusters(n.array) # {}
              THEN Variant({SigToShape(s) : s \in ElementClusters(n.array)})
              ELSE IF shape[n.array.bagValue] # Absent THEN shape[n.array.bagValue]
              ELSE build(PositionNodes(t))
            bagShape == [form |-> "array", element |-> element, nullable |-> ContainsNull(element)]
        IN Variant({ScalarShape(k) : k \in {j \in Kind : n.scalars[j] > 0}} \cup
                   {IF IsMap(n.object) THEN mapShape ELSE recordShape : u \in {t} \cap Objects} \cup
                   {IF IsTuple(n.array) THEN tupleShape ELSE bagShape : u \in {t} \cap Arrays})
  IN shape

BuildShape == Shapes[Root]

-----------------------------------------------------------------------------
\* A value is of a shape.  A tuple says nothing of items beyond its positions.
RECURSIVE Conforms(_, _)
Conforms(value, shape) ==
  \/ shape.form = "variant" /\ \E arm \in shape.arms : Conforms(value, arm)
  \/ shape.form = "scalar" /\ value = ScalarValue(shape.kind)
  \/ /\ shape.form = "record" /\ value.is = "object"
     /\ DOMAIN value.fields \subseteq DOMAIN shape.fields
     /\ \A k \in DOMAIN shape.fields :
          IF k \in DOMAIN value.fields
          THEN Conforms(value.fields[k], shape.fields[k].shape)
          ELSE shape.fields[k].nullable
  \/ /\ shape.form = "map" /\ value.is = "object"
     /\ \A k \in DOMAIN value.fields : Conforms(value.fields[k], shape.value)
  \/ /\ shape.form = "array" /\ value.is = "array"
     /\ \A i \in DOMAIN value.items : Conforms(value.items[i], shape.element)
  \/ /\ shape.form = "tuple" /\ value.is = "array"
     /\ \A i \in DOMAIN value.items \cap DOMAIN shape.positions :
          Conforms(value.items[i], shape.positions[i])

NothingLost == evictions = 0 /\ \A t \in Objects : ~IsMap(arena[t].object)

\* As long as no object was taken for a map and no cluster was evicted, every
\* document read so far is of the shape reported, whatever documents came
\* before and after it and however its arrays were taken.
ShapeCoversDocuments ==
  Quiescent /\ NothingLost => \A document \in seen : Conforms(document, BuildShape)

-----------------------------------------------------------------------------
\* The values among vs and below that stand at a path of keys and items.
Steps(vs, step) ==
  IF step[1] = "key"
  THEN {v.fields[step[2]] : v \in {w \in vs : w.is = "object" /\ step[2] \in DOMAIN w.fields}}
  ELSE {v.items[step[2]] : v \in {w \in vs : w.is = "array" /\ step[2] \in DOMAIN w.items}}
ValuesAt(path) == FoldLeft(Steps, seen, path)

\* Every value at the path of node t was counted at t: no step of it is shared,
\* and no array on the way has given up its positions.
Exact(t) ==
  \A i \in DOMAIN pathOf[t] :
    /\ pathOf[t][i][1] # "any"
    /\ pathOf[t][i][1] = "item" =>
         \E a \in Arrays : pathOf[a] = SubSeq(pathOf[t], 1, i - 1) /\ arena[a].array.positionalAlive

\* A field is reported nullable if and only if some document has, at that
\* place, an object that lacks it or holds null in it; the analyzer knows this
\* from two counters that were written at different events.
NullableExact ==
  Quiescent =>
    \A t \in {u \in Objects : Exact(u)} :
      \A k \in DOMAIN arena[t].object.fields :
        LET child == arena[t].object.fields[k]
        IN Nullable(arena[t].object, child, Shapes[child]) <=>
             \E v \in ValuesAt(pathOf[t]) :
               /\ v.is = "object"
               /\ k \notin DOMAIN v.fields \/ v.fields[k] = ScalarValue("null")
=============================================================================
