----------------------------- MODULE TimeField -----------------------------
(***************************************************************************)
(* The time of a record and the part of it that is analyzed: navigate, the *)
(* extractor of JsonlDir::with_time_field and the callback of              *)
(* FilesystemDir::drive (shapez-json/src/batch.rs).  A value is an object  *)
(* with fields by name, an array, a number, a string or something else.    *)
(***************************************************************************)
EXTENDS PathText, Timestamps

CONSTANT MaxI64  \* 2^63 - 1

Object(fields) == [is |-> "object", fields |-> fields]
Array(items) == [is |-> "array", items |-> items]
Integer(n) == [is |-> "integer", value |-> n]   \* an i64 or a u64
Text8(s) == [is |-> "string", value |-> s]
Other == [is |-> "other"]                       \* a float, a bool or null

\* cur.get(step): a field of an object, an item of an array (from 0), or None.
Get(value, step) ==
  IF value = None THEN None
  ELSE IF step.step = "field" /\ value.is = "object" /\ step.name \in DOMAIN value.fields
  THEN value.fields[step.name]
  ELSE IF step.step = "index" /\ value.is = "array" /\ step.index < Len(value.items)
  THEN value.items[step.index + 1]
  ELSE None

Navigate(value, path) == FoldLeft(Get, value, path)

\* An integer beyond i64 has no time.
TimeOf(record, path, interpreter) ==
  LET value == Navigate(record, path)
  IN CASE value = None -> None
       [] value # None /\ value.is = "integer" ->
            IF value.value <= MaxI64 THEN Interpret(interpreter, Int64(value.value)) ELSE None
       [] value # None /\ value.is = "string" -> Interpret(interpreter, Str(value.value))
       [] OTHER -> None

\* A window without bounds asks nothing of a record, not even a time.
HasPredicate(window) == window.start # None \/ window.end # None
InTime(window, time) == HasPredicate(window) => time # None /\ Within(window, time)
=============================================================================
