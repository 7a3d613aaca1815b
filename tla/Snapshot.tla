------------------------------ MODULE Snapshot ------------------------------
(***************************************************************************)
(* The snapshot of an analyzer between two documents: state_conv           *)
(* (analyzer.rs) turns it into the messages of state.proto and back.  A    *)
(* map goes out as a list of entries, an enumeration as its number, an     *)
(* Option as a field that is there or not, a size or an id of a node as 32 *)
(* bits, and the open containers and the pending node are not in it at     *)
(* all.                                                                    *)
(*                                                                         *)
(* The accumulators are first written out as the code has them, with all   *)
(* that module Analyzer derives from the rest: the order of the fields,    *)
(* the extremes, histogram and sketch of the sizes, the cap of a cluster.  *)
(* What the statistics of strings, numbers and keys look like inside, and  *)
(* the inside of a sketch, are in module ValueStats; here they are counts. *)
(***************************************************************************)
EXTENDS Finalizer, Messages

CONSTANTS
  MaxU32,       \* 2^32 - 1
  BailPolicy    \* the parts of a policy that are no caps

ASSUME WireAssumption == MaxU32 \in Nat
ASSUME BailPolicyAssumption ==
  \A bail \in BailPolicy :
    /\ DOMAIN bail = {"reason", "maxEvictionRate", "maxDocs", "minDocsBeforeBail"}
    /\ bail.minDocsBeforeBail \in Nat
    /\ Len(bail.maxEvictionRate) <= 1 /\ Len(bail.maxDocs) <= 1

-----------------------------------------------------------------------------
(* The analyzer as the code holds it; an Option is a sequence of at most   *)
(* one.                                                                    *)
ObjectAcc(obj) ==
  [obs |-> obj.obs, fields |-> obj.fields, fieldOrder |-> FieldOrder(obj),
   recordAlive |-> obj.recordAlive, mapValue |-> obj.mapValue, keyCountSum |-> obj.keyCountSum,
   keyStats |-> obj.keyStats, keyCountSketch |-> obj.keyCounts]

\* The minimum of no lengths is u32::MAX.
ArrayAcc(arr) ==
  [obs |-> arr.obs, positional |-> arr.positional, positionalAlive |-> arr.positionalAlive,
   bagValue |-> arr.bagValue, lengthSum |-> arr.lengthSum,
   minLength |-> Min({MaxU32} \cup DOMAIN arr.lengths), maxLength |-> Max({0} \cup DOMAIN arr.lengths),
   lengthHistogram |-> arr.lengths, lengthSketch |-> arr.lengths,
   elementCluster |-> [counters |-> arr.cluster.counters, cap |-> ClusterCap,
                       evictions |-> arr.cluster.evictions]]

ScalarCount(node, kinds) == SumOver(node.scalars, kinds \cap Kind)
NodeAcc(node) ==
  LET strings == ScalarCount(node, {"string"})
      numbers == ScalarCount(node, {"i64", "u64", "f64"})
  IN [obs |-> node.obs, firstDoc |-> node.firstDoc, lastDoc |-> node.lastDoc,
      scalarArms |-> node.scalars,
      stringStats |-> Optional(strings > 0, strings), numericStats |-> Optional(numbers > 0, numbers),
      object |-> Optional(HasObject(node), ObjectAcc(node.object)),
      array |-> Optional(HasArray(node), ArrayAcc(node.array))]

AnalyzerPolicy(bail) ==
  [recordViewCap |-> RecordCap, positionalViewCap |-> PositionalCap, clusterCap |-> ClusterCap] @@ bail

StreamingAnalyzer(bail) ==
  [arena |-> [t \in DOMAIN arena |-> NodeAcc(arena[t])], root |-> Root, docCount |-> docCount,
   currentDoc |-> currentDoc, pending |-> pending, stack |-> stack,
   policy |-> AnalyzerPolicy(bail), totalClusterEvictions |-> evictions]

-----------------------------------------------------------------------------
(* Sizes and ids as 32 bits.  The ids of the code start at 0.              *)
AsU32(n) == n % (MaxU32 + 1)
WireId(t) == AsU32(t - 1)
IdFrom(n) == n + 1

-----------------------------------------------------------------------------
(* Scalar kinds.  0 is SCALAR_KIND_UNSPECIFIED, which no analyzer writes.  *)
KindNumber == [null |-> 1, bool |-> 2, i64 |-> 3, u64 |-> 4, f64 |-> 5, string |-> 6]
KindOf(number) == CHOOSE k \in Kind : KindNumber[k] = number
IsKind(number) == \E k \in Kind : KindNumber[k] = number

ScalarArms(scalars) ==
  SetToSeq({[key |-> KindNumber[k], value |-> scalars[k]] : k \in {j \in Kind : scalars[j] > 0}})

\* Arms of an unknown kind are dropped.
FromScalarArms(list) ==
  LET known == SelectSeq(list, LAMBDA arm : IsKind(arm.key))
      counts == FromEntries(known)
  IN [k \in Kind |-> IF KindNumber[k] \in DOMAIN counts THEN counts[KindNumber[k]] ELSE 0]

-----------------------------------------------------------------------------
(* Signatures: a oneof of five messages.                                   *)
RECURSIVE SigMessage(_), SigFrom(_)
SigMessage(sig) ==
  CASE sig[1] = "empty" -> [variant |-> "empty"]
    [] sig[1] = "scalar" -> [variant |-> "scalar", kind |-> KindNumber[sig[2]]]
    [] sig[1] = "array" -> [variant |-> "array", element |-> <<SigMessage(sig[2])>>]
    [] sig[1] = "record" ->
         [variant |-> "record",
          fields |-> SetToSeq({[name |-> f[1], sig |-> <<SigMessage(f[2])>>] : f \in sig[2]})]
    [] sig[1] = "variant" ->
         [variant |-> "variantArm", arms |-> SetToSeq({SigMessage(s) : s \in sig[2]})]

SigFrom(m) ==
  CASE m.variant = "empty" -> <<"empty">>
    [] m.variant = "scalar" -> ScalarSig(KindOf(m.kind))
    [] m.variant = "array" -> <<"array", SigFrom(m.element[1])>>
    [] m.variant = "record" ->
         RecordSig({<<m.fields[i].name, SigFrom(m.fields[i].sig[1])>> : i \in DOMAIN m.fields})
    [] m.variant = "variantArm" -> <<"variant", {SigFrom(m.arms[i]) : i \in DOMAIN m.arms}>>

ClusterMessage(cluster) ==
  [counters |-> SetToSeq({[key |-> <<SigMessage(s)>>, value |-> cluster.counters[s]] : s \in Held(cluster)}),
   cap |-> AsU32(cluster.cap), evictions |-> cluster.evictions]

ClusterFrom(m) ==
  [counters |-> FromEntries([i \in DOMAIN m.counters |->
                   [key |-> SigFrom(m.counters[i].key[1]), value |-> m.counters[i].value]]),
   cap |-> m.cap, evictions |-> m.evictions]

-----------------------------------------------------------------------------
(* The accumulators of a node.                                             *)
ObjectMessage(obj) ==
  [obj EXCEPT !.fields = Entries([k \in DOMAIN @ |-> WireId(@[k])]),
              !.mapValue = WireId(@),
              !.keyStats = <<Entries(@)>>,
              !.keyCountSketch = <<Entries(@)>>]

FieldsFrom(list) == LET ids == FromEntries(list) IN [k \in DOMAIN ids |-> IdFrom(ids[k])]

\* Mutant: the fields have the order of the map that holds them.
ObjectFromMap(m) ==
  [m EXCEPT !.fields = FieldsFrom(@), !.fieldOrder = [i \in DOMAIN m.fields |-> m.fields[i].key],
            !.mapValue = IdFrom(@), !.keyStats = FromEntries(@[1]), !.keyCountSketch = FromEntries(@[1])]

ObjectFrom(m) ==
  [m EXCEPT !.fields = FieldsFrom(@), !.mapValue = IdFrom(@),
            !.keyStats = FromEntries(@[1]), !.keyCountSketch = FromEntries(@[1])]

ArrayMessage(arr) ==
  [arr EXCEPT !.positional = [i \in DOMAIN @ |-> WireId(@[i])], !.bagValue = WireId(@),
              !.lengthHistogram = Entries(@), !.lengthSketch = <<Entries(@)>>,
              !.elementCluster = <<ClusterMessage(@)>>]

ArrayFrom(m) ==
  [m EXCEPT !.positional = [i \in DOMAIN @ |-> IdFrom(@[i])], !.bagValue = IdFrom(@),
            !.lengthHistogram = FromEntries(@), !.lengthSketch = FromEntries(@[1]),
            !.elementCluster = ClusterFrom(@[1])]

NodeMessage(node) ==
  [node EXCEPT !.scalarArms = ScalarArms(@),
               !.object = [i \in DOMAIN @ |-> ObjectMessage(@[i])],
               !.array = [i \in DOMAIN @ |-> ArrayMessage(@[i])]]

NodeFrom(m) ==
  [m EXCEPT !.scalarArms = FromScalarArms(@),
            !.object = [i \in DOMAIN @ |-> ObjectFrom(@[i])],
            !.array = [i \in DOMAIN @ |-> ArrayFrom(@[i])]]

-----------------------------------------------------------------------------
(* The analyzer.                                                           *)
PolicyMessage(policy) ==
  [policy EXCEPT !.recordViewCap = AsU32(@), !.positionalViewCap = AsU32(@), !.clusterCap = AsU32(@)]

\* The asserts let no message out while the stack or the pending node are in use.
ToStateProto(analyzer) ==
  Optional(analyzer.stack = <<>> /\ analyzer.pending = None,
           [docCount |-> analyzer.docCount, root |-> WireId(analyzer.root),
            totalClusterEvictions |-> analyzer.totalClusterEvictions,
            policy |-> <<PolicyMessage(analyzer.policy)>>,
            arena |-> [t \in DOMAIN analyzer.arena |-> NodeMessage(analyzer.arena[t])]])

FromStateProto(m) ==
  [arena |-> [t \in DOMAIN m.arena |-> NodeFrom(m.arena[t])], root |-> IdFrom(m.root),
   docCount |-> m.docCount, currentDoc |-> m.docCount, pending |-> None, stack |-> <<>>,
   policy |-> m.policy[1], totalClusterEvictions |-> m.totalClusterEvictions]

\* A value has been begun, the document itself or a part of it, and not finished.
HalfRead == calls # <<>> /\ (Len(calls) > 1 \/ Current.awaits)

Fits ==
  /\ Len(arena) - 1 <= MaxU32
  /\ \A cap \in {RecordCap, PositionalCap, ClusterCap} : cap <= MaxU32

\* A snapshot that is asked for between any two events, as by a handle whose
\* document was broken off there, is refused if and only if a value is half
\* read.  What is restored from any other, as long as 32 bits hold the caps and
\* the ids, is the analyzer that was saved, its policy included: it differs only
\* in the ordinal of the document before, which the next document overwrites.
RestoredGoesOn ==
  \A bail \in BailPolicy :
    LET saved == StreamingAnalyzer(bail)
        message == ToStateProto(saved)
    IN /\ message = <<>> <=> HalfRead
       /\ message # <<>> /\ Fits =>
            FromStateProto(message[1]) = [saved EXCEPT !.currentDoc = docCount]

-----------------------------------------------------------------------------
\* The orders in which SpaceSaving::entries can list a table: by count, and
\* equal counts as the hash map iterates, which is different in every map.
EntryOrders(table) ==
  {list \in SetToSeqs(Held(table)) :
     \A i, j \in DOMAIN list : i < j => table.counters[list[i]] >= table.counters[list[j]]}

\* What the README of shapez-jvm says of the round trip: "byte-identical at the
\* report level".  The arms of an element shape are listed in the order of
\* entries(), so two clusters with one count may change places.
ReportIdentical ==
  Quiescent => \A t \in Arrays : Cardinality(EntryOrders(arena[t].array.cluster)) = 1
=============================================================================
