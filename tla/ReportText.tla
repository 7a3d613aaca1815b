----------------------------- MODULE ReportText -----------------------------
(***************************************************************************)
(* The text report (StreamingAnalyzer::report, analyzer.rs): the arena is  *)
(* walked a second time, with the decisions of the finalizer but not its   *)
(* shapes.  A report is the sequence of its lines, and a line is a record  *)
(* of what it says: paths are texts, the rest are values.                  *)
(*                                                                         *)
(* Left out: percentages, means, percentiles and the statistics of strings *)
(* and numbers (module ValueStats); the order of the element clusters      *)
(* (EntryOrders in module Snapshot).                                       *)
(***************************************************************************)
EXTENDS Finalizer, PathText

CONSTANT KeyName   \* the text of a key

ASSUME KeyNameAssumption == KeyName \in [Key -> Seq(0 .. 255)]

-----------------------------------------------------------------------------
(* Paths.  A name is printed as it is, whatever it contains: two nodes may *)
(* share a path.                                                           *)
RootPath == <<Dot>>

\* Mutant: the root has no dot of its own.
FieldPathDotted(parent, key) == parent \o <<Dot>> \o KeyName[key]

FieldPath(parent, key) == (IF parent = RootPath THEN parent ELSE Append(parent, Dot)) \o KeyName[key]
AnyFieldPath(parent) == (IF parent = RootPath THEN parent ELSE Append(parent, Dot)) \o <<Star>>
ItemPath(parent, i) == parent \o <<OpenBracket>> \o Numeral(i - 1, 10) \o <<CloseBracket>>
AnyItemPath(parent) == parent \o <<OpenBracket, Star, CloseBracket>>

-----------------------------------------------------------------------------
(* Reasons of the decisions.                                               *)
ObjectReason(obj) ==
  CASE ~obj.recordAlive -> "record_view OVERFLOWED at cap"
    [] obj.recordAlive /\ KeysScatter(obj) -> "unique key count >> typical per-doc keys"
    [] OTHER -> "stable low-cardinality key set"

ArrayReason(arr) ==
  IF ~arr.positionalAlive \/ arr.positional = <<>> THEN "positional view unusable"
  ELSE IF ModeLength(arr.lengths) \notin 1 .. MaxTuple THEN "mode length too large for tuple"
  ELSE "arity not tight enough"

-----------------------------------------------------------------------------
(* The tree.                                                               *)
Arms(node) ==
  {arm \in {"scalar", "object", "array"} :
     \/ arm = "scalar" /\ \E k \in Kind : node.scalars[k] > 0
     \/ arm = "object" /\ HasObject(node)
     \/ arm = "array" /\ HasArray(node)}

\* Mutant: a field is required if every document so far has it.
FieldTagByDocuments(obj, key) ==
  IF Obs(obj.fields[key]) < docCount THEN "nullable" ELSE "required"

FieldTag(obj, key) == IF Obs(obj.fields[key]) < obj.obs THEN "nullable" ELSE "required"

When(condition, line) == IF condition THEN <<line>> ELSE <<>>

RECURSIVE WriteNode(_, _)

WriteObject(obj, path) ==
  LET view == <<[line |-> "object", obs |-> obj.obs, unique |-> Cardinality(DOMAIN obj.fields),
                 alive |-> obj.recordAlive],
                [line |-> "decision", is |-> IF IsMap(obj) THEN "MAP" ELSE "RECORD",
                 reason |-> ObjectReason(obj)]>>
      fields == FieldOrder(obj)
      field(key) ==
        <<[line |-> "field", of |-> path, key |-> key, count |-> Obs(obj.fields[key]),
           tag |-> FieldTag(obj, key)]>>
        \o WriteNode(obj.fields[key], FieldPath(path, key))
  IN view \o
     (IF IsMap(obj)
      THEN <<[line |-> "canonical pattern", path |-> AnyFieldPath(path)]>>
           \o When(obj.recordAlive /\ fields # <<>>, [line |-> "record_view still alive", fields |-> Len(fields)])
           \o WriteNode(obj.mapValue, AnyFieldPath(path))
      ELSE FlattenSeq([i \in DOMAIN fields |-> field(fields[i])]))

WriteArray(arr, path) ==
  LET view == <<[line |-> "array", obs |-> arr.obs, lengths |-> arr.lengths, alive |-> arr.positionalAlive],
                [line |-> "element cluster", arms |-> arr.cluster.counters, evictions |-> arr.cluster.evictions]>>
      taken == Min({ModeLength(arr.lengths), Len(arr.positional)})
      item(i) == WriteNode(arr.positional[i], ItemPath(path, i))
      kept(i) == [line |-> "not used by bag decision", position |-> i, obs |-> Obs(arr.positional[i])]
  IN view \o
     (IF IsTuple(arr)
      THEN <<[line |-> "decision", is |-> "TUPLE", mode |-> ModeLength(arr.lengths)]>>
           \o FlattenSeq([i \in 1 .. taken |-> item(i)])
      ELSE <<[line |-> "decision", is |-> "BAG", reason |-> ArrayReason(arr)],
             [line |-> "canonical pattern", path |-> AnyItemPath(path)]>>
           \o WriteNode(arr.bagValue, AnyItemPath(path))
           \o (IF arr.positionalAlive THEN [i \in DOMAIN arr.positional |-> kept(i)] ELSE <<>>))

WriteNode(t, path) ==
  LET node == arena[t]
  IN <<[line |-> "node", node |-> t, path |-> path, obs |-> node.obs,
        docs |-> <<node.firstDoc, node.lastDoc>>]>>
     \o When(Cardinality(Arms(node)) > 1, [line |-> "variant arms observed", arms |-> Arms(node)])
     \o When("scalar" \in Arms(node),
             [line |-> "scalar arms", counts |-> Restrict(node.scalars, {k \in Kind : node.scalars[k] > 0})])
     \o (IF HasObject(node) THEN WriteObject(node.object, path) ELSE <<>>)
     \o (IF HasArray(node) THEN WriteArray(node.array, path) ELSE <<>>)

-----------------------------------------------------------------------------
(* The summary speaks of the root only.                                    *)
FieldsTagged(obj, tag) == SelectSeq(FieldOrder(obj), LAMBDA key : FieldTag(obj, key) = tag)

\* What an object taken for a map says of its values.
MapValues(obj) ==
  LET value == arena[obj.mapValue]
  IN CASE HasObject(value) -> <<IF IsMap(value.object) THEN "maps" ELSE "records">>
       [] ~HasObject(value) /\ "scalar" \in Arms(value) -> <<"scalars">>
       [] ~HasObject(value) /\ "scalar" \notin Arms(value) /\ HasArray(value) -> <<"arrays">>
       [] OTHER -> <<>>

SummarizeObject(obj) ==
  IF IsMap(obj)
  THEN <<[line |-> "is a map", reason |-> ObjectReason(obj), values |-> MapValues(obj)]>>
  ELSE <<[line |-> "is a record", required |-> FieldsTagged(obj, "required"),
          optional |-> FieldsTagged(obj, "nullable")]>>

SummarizeArray(arr) ==
  IF IsTuple(arr) THEN <<[line |-> "is a tuple", mode |-> ModeLength(arr.lengths)]>>
  ELSE <<[line |-> "is an array bag", reason |-> ArrayReason(arr),
          distinct |-> Cardinality(ElementClusters(arr))]>>

Summary ==
  LET node == arena[Root]
  IN IF docCount = 0 THEN <<[line |-> "no documents observed"]>>
     ELSE <<[line |-> "documents observed", count |-> docCount, kinds |-> Arms(node)]>>
          \o When("scalar" \in Arms(node), [line |-> "scalar", kinds |-> {k \in Kind : node.scalars[k] > 0}])
          \o (IF HasObject(node) THEN SummarizeObject(node.object) ELSE <<>>)
          \o (IF HasArray(node) THEN SummarizeArray(node.array) ELSE <<>>)

Report == Summary \o WriteNode(Root, RootPath)

-----------------------------------------------------------------------------
LinesOf(report, line) == {report[i] : i \in {j \in DOMAIN report : report[j].line = line}}

\* The step of a pattern that matches a step of pathOf.
PatternStep(s) ==
  CASE s[1] = "key" -> Field(KeyName[s[2]])
    [] s[1] = "item" -> Index(s[2] - 1)
    [] s = <<"any", "object">> -> AnyField
    [] s = <<"any", "array">> -> AnyIndex
PatternOf(t) == [i \in DOMAIN pathOf[t] |-> PatternStep(pathOf[t][i])]

Plain(t) == \A i \in DOMAIN pathOf[t] : pathOf[t][i][1] = "key" => IsBareIdent(KeyName[pathOf[t][i][2]])

\* Where all names are identifiers, a line stands under the path that led to
\* its node, in the notation of path.rs, and no two lines stand under one path:
\* the walk composes the paths anew, with no part of the code that parses or
\* prints them.  Any other name is printed bare, so that the field "a.b" of an
\* object and the field "b" of its field "a" share a path.
PathsCanonical ==
  Quiescent =>
    LET lines == {l \in LinesOf(Report, "node") : Plain(l.node)}
    IN /\ \A l \in lines : l.path = Display(PatternOf(l.node))
       /\ \A l, m \in lines : l.path = m.path => l = m

\* The report calls a field required if and only if no object at that place
\* lacks it, in the tree and in the summary; unlike the shape it does not ask
\* for null.
RequiredExact ==
  Quiescent =>
    LET report == Report
        nodes == {l \in LinesOf(report, "node") : HasObject(arena[l.node]) /\ Exact(l.node)}
        tagged(path) == {f \in LinesOf(report, "field") : f.of = path}
        objectsAt(path) == {v \in ValuesAt(path) : v.is = "object"}
    IN /\ \A l \in nodes :
            LET objects == objectsAt(pathOf[l.node])
            IN \A f \in tagged(l.path) :
                 f.tag = "required" <=> \A v \in objects : f.key \in DOMAIN v.fields
       /\ \A r \in LinesOf(report, "is a record") :
            ToSet(r.required) = {k \in Key : \A v \in objectsAt(<<>>) : k \in DOMAIN v.fields}
=============================================================================
