------------------------------- MODULE Ingest -------------------------------
(***************************************************************************)
(* Documents driven into the analyzer: drive_document and drive_value      *)
(* (shapez-json/src/lib.rs) call the events of module Analyzer.  The       *)
(* recursion of drive_value is an explicit stack of calls; the value that  *)
(* is walked is chosen as the walk goes on, so all documents within the    *)
(* bounds are walked.  Keys are ranked: the parser's map yields the keys   *)
(* of one object once each and in byte order.                              *)
(***************************************************************************)
EXTENDS Analyzer, Sums

CONSTANTS
  MaxDocs,    \* bound of the model: documents
  MaxDepth,   \* bound of the model: containers open at once
  MaxValues   \* bound of the model: values over all documents

ASSUME KeysAssumption == Key \subseteq Nat \ {0}
ASSUME BoundsAssumption == MaxDocs \in Nat /\ MaxDepth \in Nat /\ MaxValues \in Nat

VARIABLE
  calls   \* a frame per call that waits for drive_value to return

vars == <<analyzerVars, calls>>

-----------------------------------------------------------------------------
(* A call frame: where the walk is, whether it is about to walk a value,   *)
(* and the last key it has passed (objects).                               *)
Call(where) ==
  [where |-> where, awaits |-> where # "object", lastKey |-> 0]

Current == calls[Len(calls)]
Walking(where) == calls # <<>> /\ Current.where = where
AwaitsValue == calls # <<>> /\ Current.awaits

\* drive_value returns to the call that cs ends with: an array goes on to its
\* next item, an object to its next key, a document to its end.
Return(cs) ==
  [cs EXCEPT ![Len(cs)].awaits = (cs[Len(cs)].where = "array")]

\* The bound on values: every value is one observation of one node.
Observations == SumOver([t \in DOMAIN arena |-> arena[t].obs], DOMAIN arena)
MayObserve == Observations < MaxValues
MayOpen == MayObserve /\ Len(calls) <= MaxDepth

DriveDocument ==
  /\ calls = <<>>
  /\ docCount < MaxDocs
  /\ MayObserve
  /\ DocumentBegin(docCount)
  /\ calls' = <<Call("document")>>

FinishDocument ==
  /\ Walking("document")
  /\ ~Current.awaits
  /\ DocumentEnd
  /\ calls' = <<>>

DriveScalar(kind) ==
  /\ AwaitsValue
  /\ MayObserve
  /\ Scalar(kind)
  /\ calls' = Return(calls)

OpenArray ==
  /\ AwaitsValue
  /\ MayOpen
  /\ ArrayBegin
  /\ calls' = Append(calls, Call("array"))

CloseArray ==
  /\ Walking("array")
  /\ ArrayEnd
  /\ calls' = Return(Pop(calls))

OpenObject ==
  /\ AwaitsValue
  /\ MayOpen
  /\ ObjectBegin
  /\ calls' = Append(calls, Call("object"))

DriveKey(key) ==
  /\ Walking("object")
  /\ ~Current.awaits
  /\ key > Current.lastKey
  /\ MayObserve
  /\ ObjectKey(key)
  /\ calls' = [calls EXCEPT ![Len(calls)].awaits = TRUE, ![Len(calls)].lastKey = key]

CloseObject ==
  /\ Walking("object")
  /\ ~Current.awaits
  /\ ObjectEnd
  /\ calls' = Return(Pop(calls))

Init == AnalyzerInit /\ calls = <<>>

Next ==
  \/ DriveDocument
  \/ FinishDocument
  \/ \E kind \in Kind : DriveScalar(kind)
  \/ OpenArray
  \/ CloseArray
  \/ OpenObject
  \/ \E key \in Key : DriveKey(key)
  \/ CloseObject

Spec == Init /\ [][Next]_vars

-----------------------------------------------------------------------------
(* Views of the arena.                                                     *)
Nodes == DOMAIN arena
Objects == {t \in Nodes : HasObject(arena[t])}
Arrays == {t \in Nodes : HasArray(arena[t])}
Obs(t) == arena[t].obs
ObsIn(S) == SumOver([t \in Nodes |-> arena[t].obs], S)
Quiescent == stack = <<>> /\ pending = None

Fields(t) == IF t \in Objects THEN arena[t].object.fields ELSE [k \in {} |-> 0]
Positional(t) == IF t \in Arrays THEN arena[t].array.positional ELSE <<>>
FieldNodes(t) == {Fields(t)[k] : k \in DOMAIN Fields(t)}
PositionNodes(t) == {Positional(t)[i] : i \in DOMAIN Positional(t)}
Overflow(t) ==
  {arena[u].object.mapValue : u \in {t} \cap Objects} \cup
  {arena[u].array.bagValue : u \in {t} \cap Arrays}
Children(t) == FieldNodes(t) \cup PositionNodes(t) \cup Overflow(t)

\* How many nodes node t refers to, counting a node twice that it names twice.
References(t) ==
  Cardinality(DOMAIN Fields(t)) + Len(Positional(t)) +
  Cardinality({t} \cap Objects) + Cardinality({t} \cap Arrays)

-----------------------------------------------------------------------------
\* The walk never calls an event in a state where the analyzer would panic or
\* trip one of its debug assertions: a value always has a node to go to, a key
\* and an end meet a frame of their kind, a finished value finds the key it
\* belongs to, and a document begins and ends with nothing open.
NeverPanics ==
  /\ AwaitsValue => HasTarget
  /\ Walking("array") => InArray(stack)
  /\ Walking("object") /\ ~Current.awaits => InObject(stack) /\ Top(stack).pendingKey = None
  /\ \A i \in DOMAIN stack :
        LET n == arena[stack[i].node]
        IN /\ stack[i].kind = "object" => HasObject(n)
           /\ stack[i].kind = "array" => HasArray(n)
           /\ stack[i].kind = "object" /\ i < Len(stack) => stack[i].pendingKey # None
  /\ calls = <<>> => Quiescent
  /\ Walking("document") => stack = <<>>

\* Every node but the root is referred to by exactly one other, through one
\* field, one position or one overflow slot.
ArenaIsTree ==
  /\ \A t \in Nodes : Children(t) \subseteq Nodes \ {Root}
  /\ \A t \in Nodes : Cardinality(Children(t)) = References(t)
  /\ \A t \in Nodes : \A u \in Nodes \ {t} : Children(t) \cap Children(u) = {}
  /\ \A t \in Nodes \ {Root} : \E u \in Nodes : u < t /\ t \in Children(u)

\* The documents in which a value was first and last seen lie within those of
\* the container that holds it.
DocumentsNest ==
  \A t \in Nodes : \A u \in Children(t) :
    Obs(u) > 0 =>
      /\ arena[t].firstDoc <= arena[u].firstDoc
      /\ arena[u].firstDoc <= arena[u].lastDoc
      /\ arena[u].lastDoc <= arena[t].lastDoc

\* The arena is a tree, so that two positions of the documents never share
\* counters, and the ranges of documents narrow on the way down.  Nodes are made
\* by events that observe nothing, and observed in later documents.
ArenaNests == ArenaIsTree /\ DocumentsNest

\* The open containers of a kind at node t, how many items its open arrays have
\* begun, and how many of those items are not complete yet.
OpenFrames(t, kind) == {i \in DOMAIN stack : stack[i].node = t /\ stack[i].kind = kind}
OpenItems(t) == SumOver([i \in DOMAIN stack |-> stack[i].position], OpenFrames(t, "array"))
UnfinishedItems(t) == Cardinality(OpenFrames(t, "array") \ {Len(stack)})
Waiting(S) == IF pending \in S THEN 1 ELSE 0
Mass(hist) == SumOver(hist, DOMAIN hist)
Weighted(hist) == SumOver([n \in DOMAIN hist |-> n * hist[n]], DOMAIN hist)

\* Every value of every document is counted at one node and at one kind: the
\* documents begun are the root's observations (and the value it waits for),
\* the keys of an object are the observations of its children, the items of an
\* array those of its positions and its bag, and each observation is a scalar,
\* an object or an array.  It holds between any two events, so a report taken
\* in the middle of a stream adds up too.
EveryValueCounted ==
  /\ docCount = Obs(Root) + Waiting({Root})
  /\ \A t \in Nodes :
        Obs(t) = Mass(arena[t].scalars)
                 + (IF t \in Objects THEN arena[t].object.obs ELSE 0)
                 + (IF t \in Arrays THEN arena[t].array.obs ELSE 0)
  /\ \A t \in Objects :
        LET kids == FieldNodes(t) \cup {arena[t].object.mapValue}
        IN arena[t].object.keyCountSum = ObsIn(kids) + Waiting(kids)
  /\ \A t \in Arrays :
        arena[t].array.lengthSum + OpenItems(t) =
          ObsIn(PositionNodes(t) \cup {arena[t].array.bagValue})

\* What object_end and array_end record agrees with what the events in between
\* recorded: a size for every container that is closed, and the sizes add up to
\* the keys and items.
SizesAddUp ==
  \A t \in Nodes :
    LET stillOpen(kind) == Cardinality(OpenFrames(t, kind))
    IN /\ t \in Objects =>
            LET obj == arena[t].object
            IN /\ obj.obs = Mass(obj.keyCounts) + stillOpen("object")
               /\ stillOpen("object") = 0 => obj.keyCountSum = Weighted(obj.keyCounts)
       /\ t \in Arrays =>
            LET arr == arena[t].array
            IN /\ arr.obs = Mass(arr.lengths) + stillOpen("array")
               /\ arr.lengthSum = Weighted(arr.lengths)

\* As long as the positional view is alive, the i-th position was seen once for
\* every array of at least i items, and there is no position beyond the longest
\* array: a tuple's arms carry the counts that its length histogram implies.
PositionsMatchLengths ==
  \A t \in Arrays :
    LET arr == arena[t].array
        atLeast(i) == {n \in DOMAIN arr.lengths : n >= i}
    IN arr.positionalAlive /\ OpenFrames(t, "array") = {} =>
         /\ \A i \in DOMAIN arr.positional :
               Obs(arr.positional[i]) = SumOver(arr.lengths, atLeast(i))
         /\ Len(arr.positional) \in DOMAIN arr.lengths

\* The length histograms of the containers, which the ends of arrays and objects
\* write, agree with the counters of their items, which the values in between
\* write, in total and position by position.
SizesAgree == SizesAddUp /\ PositionsMatchLengths

\* The overflow node of a view counts something only after the view has given
\* up, and a view gives up only when it is full.  decide_object and
\* decide_array read the one flag to tell which of the two views is complete.
OverflowOnlyWhenFull ==
  /\ \A t \in Objects :
        LET obj == arena[t].object
        IN IF obj.recordAlive THEN Obs(obj.mapValue) = 0 /\ Waiting({obj.mapValue}) = 0
           ELSE Cardinality(DOMAIN obj.fields) = RecordCap
  /\ \A t \in Arrays :
        LET arr == arena[t].array
        IN IF arr.positionalAlive THEN Obs(arr.bagValue) = 0
           ELSE Len(arr.positional) = PositionalCap

\* The counter that should_bail divides is the sum over all cluster sketches,
\* and each sketch has counted every finished item of its arrays, no matter how
\* the items of nested arrays interleave.
ClustersAddUp ==
  /\ evictions = SumOver([t \in Nodes |-> arena[t].array.cluster.evictions], Arrays)
  /\ \A t \in Arrays :
        Mass(arena[t].array.cluster.counters) =
          arena[t].array.lengthSum + OpenItems(t) - UnfinishedItems(t)
=============================================================================
