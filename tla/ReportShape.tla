---------------------------- MODULE ReportShape ----------------------------
(***************************************************************************)
(* The shape on its way into a report.  The finalizer turns every subtree  *)
(* that holds no variant, tuple or absent part into a flat value type      *)
(* (build_object, build_array, sig_to_shape), and report.rs turns the      *)
(* value types back into the nodes of report.proto.                        *)
(*                                                                         *)
(* The nodes that come out of a value type have no counts in the report;   *)
(* counts are left out here, and so is the key type of a map, which is     *)
(* always the string.  A rich shape is one of module Finalizer; the        *)
(* messages of report.proto have the same forms.                           *)
(***************************************************************************)
EXTENDS Finalizer

\* ShapeKind::Type of a value type.
Flat(type) == [form |-> "type", type |-> type]

ScalarType(kind) == [type |-> "scalar", kind |-> kind]
ArrayType(element, nullable) == [type |-> "array", element |-> element, nullable |-> nullable]
MapType(value, nullable) == [type |-> "map", value |-> value, nullable |-> nullable]
StructType(fields) == [type |-> "struct", fields |-> fields]

-----------------------------------------------------------------------------
\* Mutant: an array of unlike positions passes for one of its first.
RECURSIVE IsFlatOrTuple(_)
IsFlatOrTuple(shape) ==
  \/ shape.form \in {"type", "tuple"}
  \/ shape.form \in {"array", "map"} /\
       IsFlatOrTuple(IF shape.form = "array" THEN shape.element ELSE shape.value)
  \/ shape.form = "record" /\ \A k \in DOMAIN shape.fields : IsFlatOrTuple(shape.fields[k].shape)

RECURSIVE IsValueTypeOnly(_)
IsValueTypeOnly(shape) ==
  \/ shape.form = "type"
  \/ shape.form = "array" /\ IsValueTypeOnly(shape.element)
  \/ shape.form = "map" /\ IsValueTypeOnly(shape.value)
  \/ shape.form = "record" /\ \A k \in DOMAIN shape.fields : IsValueTypeOnly(shape.fields[k].shape)

\* Of a variant no caller asks this.
RECURSIVE ShapeToValueType(_)
ShapeToValueType(shape) ==
  CASE shape.form = "type" -> shape.type
    [] shape.form = "array" -> ArrayType(ShapeToValueType(shape.element), shape.nullable)
    [] shape.form = "map" -> MapType(ShapeToValueType(shape.value), shape.nullable)
    [] shape.form = "record" ->
         StructType([k \in DOMAIN shape.fields |->
           [type |-> ShapeToValueType(shape.fields[k].shape), nullable |-> shape.fields[k].nullable]])
    [] shape.form = "tuple" ->
         ArrayType(IF shape.positions = <<>> THEN ScalarType("null")
                   ELSE ShapeToValueType(shape.positions[1]), FALSE)
    [] shape.form = "absent" -> ScalarType("null")

\* The subtrees first: build returns them flattened already.
RECURSIVE Flattened(_)
Flattened(shape) ==
  CASE shape.form = "absent" -> shape
    [] shape.form = "scalar" -> Flat(ScalarType(shape.kind))
    [] shape.form = "variant" -> [shape EXCEPT !.arms = {Flattened(arm) : arm \in @}]
    [] shape.form = "tuple" -> [shape EXCEPT !.positions = [i \in DOMAIN @ |-> Flattened(@[i])]]
    [] shape.form = "array" ->
         LET element == Flattened(shape.element)
         IN IF IsValueTypeOnly(element) THEN Flat(ArrayType(ShapeToValueType(element), shape.nullable))
            ELSE [shape EXCEPT !.element = element]
    [] shape.form = "map" ->
         LET value == Flattened(shape.value)
         IN IF IsValueTypeOnly(value) THEN Flat(MapType(ShapeToValueType(value), shape.nullable))
            ELSE [shape EXCEPT !.value = value]
    [] shape.form = "record" ->
         LET fields == [k \in DOMAIN shape.fields |->
                          [shape.fields[k] EXCEPT !.shape = Flattened(@)]]
         IN IF \A k \in DOMAIN fields : IsValueTypeOnly(fields[k].shape)
            THEN Flat(StructType([k \in DOMAIN fields |->
                   [type |-> ShapeToValueType(fields[k].shape), nullable |-> fields[k].nullable]]))
            ELSE [shape EXCEPT !.fields = fields]

-----------------------------------------------------------------------------
\* value_type_to_kind: compound value types become nodes again.
RECURSIVE ValueTypeToKind(_)
ValueTypeToKind(type) ==
  CASE type.type = "scalar" -> ScalarShape(type.kind)
    [] type.type = "array" ->
         [form |-> "array", element |-> ValueTypeToKind(type.element), nullable |-> type.nullable]
    [] type.type = "map" ->
         [form |-> "map", value |-> ValueTypeToKind(type.value), nullable |-> type.nullable]
    [] type.type = "struct" ->
         [form |-> "record", fields |-> [k \in DOMAIN type.fields |->
            [shape |-> ValueTypeToKind(type.fields[k].type), nullable |-> type.fields[k].nullable]]]

RECURSIVE ShapeNodeToProto(_)
ShapeNodeToProto(shape) ==
  CASE shape.form = "type" -> ValueTypeToKind(shape.type)
    [] shape.form = "absent" -> shape
    [] shape.form = "variant" -> [shape EXCEPT !.arms = {ShapeNodeToProto(arm) : arm \in @}]
    [] shape.form = "tuple" -> [shape EXCEPT !.positions = [i \in DOMAIN @ |-> ShapeNodeToProto(@[i])]]
    [] shape.form = "array" -> [shape EXCEPT !.element = ShapeNodeToProto(@)]
    [] shape.form = "map" -> [shape EXCEPT !.value = ShapeNodeToProto(@)]
    [] shape.form = "record" ->
         [shape EXCEPT !.fields = [k \in DOMAIN @ |-> [@[k] EXCEPT !.shape = ShapeNodeToProto(@)]]]

Proto == ShapeNodeToProto(Flattened(BuildShape))

\* The protobuf report is the shape: no variant, tuple, null, absent part or
\* missing field is lost where a subtree is made flat, several levels at a
\* time, and rebuilt by code that does not know how it was made.
ReportLossless == Quiescent => Proto = BuildShape
=============================================================================
