------------------------------- MODULE Handle -------------------------------
(***************************************************************************)
(* The JVM binding: Analyzer objects (Shapez.scala) over native handles    *)
(* (shapez-jvm/src/lib.rs).  Each object belongs to one thread; the calls  *)
(* of different objects interleave, and what a Scala method does is one    *)
(* native call after another.  Memory that is freed may be handed out      *)
(* again at once.                                                          *)
(*                                                                         *)
(* An analyzer is reduced to the documents it was driven, with the ordinal *)
(* each was given; module Ingest has the rest and module Snapshot shows    *)
(* that a state buffer holds all of it.  A panic inside a native call does *)
(* not happen: see NeverPanics of module Ingest.                           *)
(***************************************************************************)
EXTENDS Naturals, Sequences, FiniteSets

CONSTANTS
  Object,    \* JVM analyzer objects
  Address,   \* native addresses
  Null,      \* the null pointer
  Nothing,   \* for Accumulators: an object that is not open
  Buffer,    \* what feedJsonl is given: sequences of sorts of lines
  MaxDocs,   \* bound of the model: documents that are accepted
  MaxSaved   \* bound of the model: state buffers that are kept

ASSUME NullAssumption == Null \notin Address
ASSUME BufferAssumption == Buffer \subseteq Seq({"document", "blank", "faulty"})
ASSUME BoundsAssumption == MaxDocs \in Nat /\ MaxSaved \in Nat

\* A document that was accepted, and the ordinal it was driven under.
Document == [document : Nat, ordinal : Nat]

ASSUME NothingAssumption == Nothing \notin Seq(Document)

VARIABLES
  heap,     \* what is allocated, a function from the addresses in use
  handle,   \* the handle field of every object
  call,     \* what the thread of every object is in the middle of
  told,     \* the documents that the results of the calls add up to
  fed,      \* documents accepted so far, in all objects
  saved     \* the state buffers that the JVM holds

vars == <<heap, handle, call, told, fed, saved>>

-----------------------------------------------------------------------------
(* Native memory.                                                          *)
Idle == [in |-> "idle", pointer |-> Null]
Doing(what, pointer) == [in |-> what, pointer |-> pointer]

Alloc(address, content) ==
  /\ address \in Address \ DOMAIN heap
  /\ heap' = [a \in DOMAIN heap \cup {address} |-> IF a = address THEN content ELSE heap[a]]

\* Drop of what an address holds; null is left alone.
Free(address) == heap' = [a \in DOMAIN heap \ {address} |-> heap[a]]

NewHandle == [is |-> "handle", docs |-> <<>>, nextOrdinal |-> 0]

\* Mutant: ordinals start afresh.
HandleFromZero(state) == [is |-> "handle", docs |-> state, nextOrdinal |-> 0]

\* shapez_create_from_state_proto: doc_count documents were driven before.
HandleFrom(state) == [is |-> "handle", docs |-> state, nextOrdinal |-> Len(state)]

Thread(o, what, pointer) == call' = [call EXCEPT ![o] = Doing(what, pointer)]
Returned(o) == call' = [call EXCEPT ![o] = Idle]
Resting(o) == call[o] = Idle
RequireOpen(o) == Resting(o) /\ handle[o] # Null

-----------------------------------------------------------------------------
(* Feeding.                                                                *)
\* The lines of a buffer that are documents; all others are passed over.
DocumentsIn(buffer) == Cardinality({i \in DOMAIN buffer : buffer[i] = "document"})

\* The handle after n new documents, each driven under the next ordinal.
FeedMany(h, n) ==
  LET new == [i \in 1 .. n |-> [document |-> fed + i, ordinal |-> h.nextOrdinal + i - 1]]
  IN [h EXCEPT !.docs = @ \o new, !.nextOrdinal = @ + n]

\* Mutant: every line that is not blank is counted.
AcceptedLines(buffer) == Cardinality({i \in DOMAIN buffer : buffer[i] # "blank"})

\* What feed_jsonl returns.
Accepted(buffer) == DocumentsIn(buffer)

FeedJsonl(o, buffer) ==
  /\ RequireOpen(o)
  /\ fed + DocumentsIn(buffer) <= MaxDocs
  /\ heap' = [heap EXCEPT ![handle[o]] = FeedMany(@, DocumentsIn(buffer))]
  /\ told' = [told EXCEPT ![o] = @ + Accepted(buffer)]
  /\ fed' = fed + DocumentsIn(buffer)
  /\ UNCHANGED <<handle, call, saved>>

\* shapez_feed_json_string: one document, or 0 for text that is none.
Feed(o, line) ==
  /\ RequireOpen(o)
  /\ fed + DocumentsIn(<<line>>) <= MaxDocs
  /\ heap' = [heap EXCEPT ![handle[o]] = FeedMany(@, DocumentsIn(<<line>>))]
  /\ told' = [told EXCEPT ![o] = @ + DocumentsIn(<<line>>)]
  /\ fed' = fed + DocumentsIn(<<line>>)
  /\ UNCHANGED <<handle, call, saved>>

-----------------------------------------------------------------------------
(* Opening and closing.                                                    *)
\* new Analyzer
Create(o) ==
  /\ Resting(o) /\ handle[o] = Null
  /\ \E address \in Address :
       /\ Alloc(address, NewHandle)
       /\ handle' = [handle EXCEPT ![o] = address]
  /\ told' = [told EXCEPT ![o] = 0]
  /\ UNCHANGED <<call, fed, saved>>

\* close: destroys the handle, and forgets it.
CloseDestroys(o) ==
  /\ RequireOpen(o)
  /\ Free(handle[o])
  /\ Thread(o, "close", Null)
  /\ UNCHANGED <<handle, told, fed, saved>>

CloseForgets(o) ==
  /\ call[o].in = "close"
  /\ handle' = [handle EXCEPT ![o] = Null]
  /\ Returned(o)
  /\ UNCHANGED <<heap, told, fed, saved>>

\* fromStateBytes: a handle is made from the buffer, then an object with a
\* handle of its own, which replaceHandle destroys before it takes the other.
RestoreCreates(o, state) ==
  /\ Resting(o) /\ handle[o] = Null
  /\ state \in saved
  /\ \E address \in Address :
       /\ Alloc(address, HandleFrom(state))
       /\ Thread(o, "restored", address)
  /\ UNCHANGED <<handle, told, fed, saved>>

RestoreConstructs(o) ==
  /\ call[o].in = "restored"
  /\ \E address \in Address :
       /\ Alloc(address, NewHandle)
       /\ handle' = [handle EXCEPT ![o] = address]
  /\ Thread(o, "replace", call[o].pointer)
  /\ UNCHANGED <<told, fed, saved>>

\* Mutant: the handle the object came with is kept in memory.
ReplaceKeeping(o) ==
  /\ call[o].in = "replace"
  /\ Thread(o, "assign", call[o].pointer)
  /\ UNCHANGED <<heap, handle, told, fed, saved>>

ReplaceDestroys(o) ==
  /\ call[o].in = "replace"
  /\ Free(handle[o])
  /\ Thread(o, "assign", call[o].pointer)
  /\ UNCHANGED <<handle, told, fed, saved>>

\* Mutant: the handle the object came with stays in the field.
ReplaceForgetting(o) ==
  /\ call[o].in = "assign"
  /\ told' = [told EXCEPT ![o] = 0]
  /\ Returned(o)
  /\ UNCHANGED <<heap, handle, fed, saved>>

ReplaceAssigns(o) ==
  /\ call[o].in = "assign"
  /\ handle' = [handle EXCEPT ![o] = call[o].pointer]
  /\ told' = [told EXCEPT ![o] = Len(heap[call[o].pointer].docs)]
  /\ Returned(o)
  /\ UNCHANGED <<heap, fed, saved>>

-----------------------------------------------------------------------------
(* Reading.  A result crosses the border as a buffer in native memory that *)
(* is copied and then given back.                                          *)
\* stateBytes and reportProtoBytes: is tells the one from the other.
Serialize(o, is) ==
  /\ RequireOpen(o)
  /\ \E address \in Address :
       /\ Alloc(address, [is |-> is, docs |-> heap[handle[o]].docs])
       /\ Thread(o, "copy", address)
  /\ UNCHANGED <<handle, told, fed, saved>>

Copy(o) ==
  /\ call[o].in = "copy"
  /\ LET buffer == heap[call[o].pointer]
     IN saved' = saved \cup {s \in {buffer.docs} : buffer.is = "state"}
  /\ Cardinality(saved') <= MaxSaved
  /\ Thread(o, "release", call[o].pointer)
  /\ UNCHANGED <<heap, handle, told, fed>>

Release(o) ==
  /\ call[o].in = "release"
  /\ Free(call[o].pointer)
  /\ Returned(o)
  /\ UNCHANGED <<handle, told, fed, saved>>

-----------------------------------------------------------------------------
Init ==
  /\ heap = [a \in {} |-> NewHandle]
  /\ handle = [o \in Object |-> Null]
  /\ call = [o \in Object |-> Idle]
  /\ told = [o \in Object |-> 0]
  /\ fed = 0
  /\ saved = {}

Next ==
  \E o \in Object :
    \/ Create(o)
    \/ \E buffer \in Buffer : FeedJsonl(o, buffer)
    \/ \E line \in {"document", "faulty"} : Feed(o, line)
    \/ CloseDestroys(o)
    \/ CloseForgets(o)
    \/ \E state \in saved : RestoreCreates(o, state)
    \/ RestoreConstructs(o)
    \/ ReplaceDestroys(o)
    \/ ReplaceAssigns(o)
    \/ \E is \in {"state", "report"} : Serialize(o, is)
    \/ Copy(o)
    \/ Release(o)

Spec == Init /\ [][Next]_vars

-----------------------------------------------------------------------------
InUse(o) == handle[o] # Null /\ call[o].in \in {"idle", "copy", "release"}

HandleContent == [is : {"handle"}, docs : Seq(Document), nextOrdinal : Nat]
BufferContent == [is : {"state", "report"}, docs : Seq(Document)]
Places == {"idle", "close", "restored", "replace", "assign", "copy", "release"}

TypeOK ==
  /\ DOMAIN heap \subseteq Address
  /\ heap \in [DOMAIN heap -> HandleContent \cup BufferContent]
  /\ handle \in [Object -> Address \cup {Null}]
  /\ call \in [Object -> [in : Places, pointer : Address \cup {Null}]]
  /\ told \in [Object -> Nat]
  /\ fed \in Nat
  /\ saved \subseteq Seq(Document)

\* What the objects and their threads hold: a handle until it is destroyed, and
\* the pointer that a call is about to take over or give back.
Holds(o) ==
  {a \in {handle[o]} : a # Null /\ call[o].in \notin {"close", "assign"}} \cup
  {a \in {call[o].pointer} : a # Null}

\* All that is allocated is held by exactly one object, and nothing that is held
\* has been freed, however the calls of the objects interleave and however
\* addresses are used again: no leak, no use after free, no double free.
MemoryOwned ==
  /\ DOMAIN heap = UNION {Holds(o) : o \in Object}
  /\ \A o, p \in Object : o # p => Holds(o) \cap Holds(p) = {}
  /\ \A o \in Object : InUse(o) => heap[handle[o]].is = "handle"

\* The ordinals that a handle gives its documents run from 0 without a gap, over
\* all the buffers its state went through: the ordinal of the next document is
\* the number of documents.
OrdinalsRun ==
  \A a \in {x \in DOMAIN heap : heap[x].is = "handle"} :
    /\ heap[a].nextOrdinal = Len(heap[a].docs)
    /\ \A i \in DOMAIN heap[a].docs : heap[a].docs[i].ordinal = i - 1

\* The numbers that feedJsonl and feed return add up to docCount.
AcceptedAddsUp ==
  \A o \in Object : InUse(o) => told[o] = Len(heap[handle[o]].docs)

\* What an address reads as; memory that was freed holds nothing of use.
DocsAt(address) == IF address \in DOMAIN heap THEN heap[address].docs ELSE <<>>

Promise ==
  INSTANCE Accumulators WITH
    accepted <- [o \in Object |-> IF InUse(o) THEN DocsAt(handle[o]) ELSE Nothing],
    asked <- [o \in Object |-> IF call[o].in \in {"restored", "replace", "assign"}
                               THEN DocsAt(call[o].pointer) ELSE Nothing]

\* An object is a list of accepted documents.  It gains only documents of its
\* own, whatever its state went through and whatever other objects were opened
\* from the same buffer.
ImplementsAccumulators == Promise!Spec
=============================================================================
