---------------------------- MODULE HandleProofs ----------------------------
(***************************************************************************)
(* The JVM binding with any number of objects, threads, addresses, buffers *)
(* and documents.  MemoryOwned is not inductive: a step frees what an      *)
(* object points at, so one has to know, for every place in a call, which  *)
(* of the two pointers of the object is alive, that they differ, and what  *)
(* they point at (Placed).  The rest of the argument is that a step of one *)
(* object leaves what the others hold alone (Local).                       *)
(***************************************************************************)
EXTENDS Handle, TLAPS, FiniteSetTheorems

\* Ordinals of a list of documents.
Numbered(docs) == \A i \in DOMAIN docs : docs[i].ordinal = i - 1

ContentOK(content) ==
  /\ content \in HandleContent \cup BufferContent
  /\ Numbered(content.docs)
  /\ content.is = "handle" => content.nextOrdinal = Len(content.docs)

Typed ==
  /\ DOMAIN heap \subseteq Address
  /\ heap = [a \in DOMAIN heap |-> heap[a]]
  /\ \A a \in DOMAIN heap : ContentOK(heap[a])
  /\ handle \in [Object -> Address \cup {Null}]
  /\ call \in [Object -> [in : Places, pointer : Address \cup {Null}]]
  /\ told \in [Object -> Nat]
  /\ fed \in Nat
  /\ \A s \in saved : s \in Seq(Document) /\ Numbered(s)

Owned ==
  /\ DOMAIN heap = UNION {Holds(o) : o \in Object}
  /\ \A o, p \in Object : o # p => Holds(o) \cap Holds(p) = {}

\* The two pointers of an object, at each place of a call.
PlacedAt(o) ==
  /\ call[o].in \in {"idle", "close"} <=> call[o].pointer = Null
  /\ call[o].in = "restored" => handle[o] = Null
  /\ call[o].in \in {"close", "replace", "assign", "copy", "release"} => handle[o] # Null
  /\ call[o].in \in {"replace", "copy", "release"} => call[o].pointer # handle[o]
  /\ call[o].in \in {"restored", "replace", "assign"} => heap[call[o].pointer].is = "handle"
  /\ handle[o] # Null /\ call[o].in \notin {"close", "assign"} => heap[handle[o]].is = "handle"
  /\ InUse(o) => told[o] = Len(heap[handle[o]].docs)

Placed == \A o \in Object : PlacedAt(o)

IndInv == Typed /\ Owned /\ Placed

-----------------------------------------------------------------------------
\* A step of one object: what others hold, and what they know of it, stays.
Local(o) ==
  /\ \A p \in Object \ {o} :
       handle'[p] = handle[p] /\ call'[p] = call[p] /\ told'[p] = told[p]
  /\ DOMAIN heap' = (DOMAIN heap \ Holds(o)) \cup Holds(o)'
  /\ Holds(o)' \cap (DOMAIN heap \ Holds(o)) = {}
  /\ \A a \in DOMAIN heap \ Holds(o) : heap'[a] = heap[a]

\* Memory has one owner after a local step, and the others are where they were.
LEMMA LocalStep ==
  ASSUME IndInv, NEW o \in Object, Local(o)
  PROVE  Owned' /\ \A p \in Object \ {o} : PlacedAt(p)'
<1>1. \A p \in Object \ {o} : Holds(p)' = Holds(p)
  BY DEF Local, Holds
<1>2. \A p \in Object \ {o} : Holds(p) \subseteq DOMAIN heap \ Holds(o)
  BY DEF IndInv, Owned
<1>3. DOMAIN heap' = UNION {Holds(p)' : p \in Object}
  <2>1. ASSUME NEW a \in DOMAIN heap' PROVE a \in UNION {Holds(p)' : p \in Object}
    <3>1. CASE a \in Holds(o)'
      BY <3>1
    <3>2. CASE a \in DOMAIN heap \ Holds(o)
      BY <3>2, <1>1 DEF IndInv, Owned
    <3>3. QED
      BY <2>1, <3>1, <3>2 DEF Local
  <2>2. ASSUME NEW p \in Object, NEW a \in Holds(p)' PROVE a \in DOMAIN heap'
    BY <2>2, <1>1, <1>2 DEF Local
  <2>3. QED
    BY <2>1, <2>2
<1>4. ASSUME NEW p \in Object, NEW q \in Object, p # q PROVE Holds(p)' \cap Holds(q)' = {}
  <2>1. CASE p = o
    BY <1>4, <2>1, <1>1, <1>2 DEF Local
  <2>2. CASE q = o
    BY <1>4, <2>2, <1>1, <1>2 DEF Local
  <2>3. CASE p # o /\ q # o
    BY <1>4, <2>3, <1>1 DEF IndInv, Owned
  <2>4. QED
    BY <2>1, <2>2, <2>3
<1>5. ASSUME NEW p \in Object \ {o} PROVE PlacedAt(p)'
  <2>1. handle'[p] = handle[p] /\ call'[p] = call[p] /\ told'[p] = told[p]
    BY DEF Local
  <2>2. \A a \in Holds(p) : heap'[a] = heap[a]
    BY <1>2 DEF Local
  <2>3. PlacedAt(p)
    BY DEF IndInv, Placed
  <2>4. call[p].pointer # Null => call[p].pointer \in Holds(p)
    BY DEF Holds
  <2>5. handle[p] # Null /\ call[p].in \notin {"close", "assign"} => handle[p] \in Holds(p)
    BY DEF Holds
  <2>6. QED
    BY <2>1, <2>2, <2>3, <2>4, <2>5 DEF PlacedAt, InUse
<1>6. QED
  BY <1>3, <1>4, <1>5 DEF Owned

\* An address that is free is held by nobody.
LEMMA FreshIsFree ==
  ASSUME IndInv, NEW a \in Address \ DOMAIN heap, NEW o \in Object
  PROVE  a \notin Holds(o)
BY DEF IndInv, Owned

\* The calls of an object are those of one place.
LEMMA Pointers ==
  ASSUME IndInv, NEW o \in Object
  PROVE  /\ handle[o] \in Address \cup {Null}
         /\ call[o] \in [in : Places, pointer : Address \cup {Null}]
         /\ told[o] \in Nat
         /\ PlacedAt(o)
         /\ Holds(o) \subseteq DOMAIN heap
BY DEF IndInv, Typed, Placed, Owned

\* What has to be shown of a step of object o.
LEMMA StepOf ==
  ASSUME IndInv, NEW o \in Object, Local(o), Typed', PlacedAt(o)'
  PROVE  IndInv' /\ Local(o)
<1>1. Owned' /\ \A p \in Object \ {o} : PlacedAt(p)'
  BY LocalStep
<1>2. Placed'
  BY <1>1 DEF Placed
<1>3. QED
  BY <1>1, <1>2 DEF IndInv

-----------------------------------------------------------------------------
(* Content.                                                                *)
LEMMA CountIsNat ==
  ASSUME NEW S, NEW buffer \in Seq(S)
  PROVE  DocumentsIn(buffer) \in Nat
<1>1. IsFiniteSet(DOMAIN buffer)
  BY FS_Interval
<1>2. QED
  BY <1>1, FS_Subset, FS_CardinalityType DEF DocumentsIn

\* The ordinals of new documents go on where the handle was.
LEMMA FedContent ==
  ASSUME NEW h, ContentOK(h), h.is = "handle", NEW n \in Nat, fed \in Nat
  PROVE  /\ ContentOK(FeedMany(h, n))
         /\ FeedMany(h, n).is = "handle"
         /\ Len(FeedMany(h, n).docs) = Len(h.docs) + n
<1> DEFINE new == [i \in 1 .. n |-> [document |-> fed + i, ordinal |-> h.nextOrdinal + i - 1]]
<1>1. h \in HandleContent /\ h.nextOrdinal = Len(h.docs) /\ h.docs \in Seq(Document)
  BY DEF ContentOK, HandleContent, BufferContent
<1>2. \A i \in 1 .. n : h.nextOrdinal + i - 1 = Len(h.docs) + (i - 1) /\ i - 1 \in Nat
  BY <1>1
<1>3. new \in Seq(Document) /\ Len(new) = n
  BY <1>1, <1>2 DEF Document
<1>4. FeedMany(h, n) = [h EXCEPT !.docs = h.docs \o new, !.nextOrdinal = h.nextOrdinal + n]
  BY DEF FeedMany
<1> HIDE DEF new
<1>5. h.docs \o new \in Seq(Document) /\ Len(h.docs \o new) = Len(h.docs) + n
  BY <1>1, <1>3
<1>6. Numbered(h.docs \o new)
  <2> SUFFICES ASSUME NEW i \in DOMAIN (h.docs \o new)
               PROVE  (h.docs \o new)[i].ordinal = i - 1
    BY DEF Numbered
  <2>1. CASE i <= Len(h.docs)
    <3>1. i \in DOMAIN h.docs /\ (h.docs \o new)[i] = h.docs[i]
      BY <1>1, <1>3, <1>5, <2>1
    <3>2. QED
      BY <3>1 DEF ContentOK, Numbered
  <2>2. CASE ~(i <= Len(h.docs))
    <3>1. i - Len(h.docs) \in 1 .. n /\ (h.docs \o new)[i] = new[i - Len(h.docs)]
      BY <1>1, <1>3, <1>5, <2>2
    <3>2. new[i - Len(h.docs)].ordinal = h.nextOrdinal + (i - Len(h.docs)) - 1
      BY <3>1 DEF new
    <3>3. i \in Nat
      BY <1>5
    <3>4. QED
      BY <1>1, <3>1, <3>2, <3>3
  <2>3. QED
    BY <2>1, <2>2
<1>7. FeedMany(h, n) =
        [is |-> "handle", docs |-> h.docs \o new, nextOrdinal |-> h.nextOrdinal + n]
  BY <1>1, <1>4 DEF HandleContent
<1>8. QED
  BY <1>1, <1>5, <1>6, <1>7 DEF ContentOK, HandleContent

LEMMA NewHandleContent == ContentOK(NewHandle)
BY DEF ContentOK, HandleContent, NewHandle, Numbered

\* A handle made from a buffer goes on after the documents in it.
LEMMA RestoredContent ==
  ASSUME NEW state \in Seq(Document), Numbered(state)
  PROVE  ContentOK(HandleFrom(state)) /\ HandleFrom(state).is = "handle"
BY DEF ContentOK, HandleContent, HandleFrom

LEMMA SerializedContent ==
  ASSUME NEW h, ContentOK(h), NEW is \in {"state", "report"}
  PROVE  ContentOK([is |-> is, docs |-> h.docs])
BY DEF ContentOK, HandleContent, BufferContent

-----------------------------------------------------------------------------
(* Native memory.                                                          *)
\* What is alive after an allocation.
LEMMA AllocHeap ==
  ASSUME Typed, NEW a, NEW content, Alloc(a, content), ContentOK(content)
  PROVE  /\ a \in Address \ DOMAIN heap
         /\ DOMAIN heap' = DOMAIN heap \cup {a}
         /\ DOMAIN heap' \subseteq Address
         /\ heap'[a] = content
         /\ \A b \in DOMAIN heap : heap'[b] = heap[b]
         /\ heap' = [b \in DOMAIN heap' |-> heap'[b]]
         /\ \A b \in DOMAIN heap' : ContentOK(heap'[b])
<1>1. heap' = [b \in DOMAIN heap \cup {a} |-> IF b = a THEN content ELSE heap[b]]
  BY DEF Alloc
<1>2. a \in Address \ DOMAIN heap
  BY DEF Alloc
<1>3. QED
  BY <1>1, <1>2 DEF Typed

\* And after a release.
LEMMA FreeHeap ==
  ASSUME Typed, NEW a, Free(a)
  PROVE  /\ DOMAIN heap' = DOMAIN heap \ {a}
         /\ DOMAIN heap' \subseteq Address
         /\ \A b \in DOMAIN heap' : heap'[b] = heap[b]
         /\ heap' = [b \in DOMAIN heap' |-> heap'[b]]
         /\ \A b \in DOMAIN heap' : ContentOK(heap'[b])
<1>1. heap' = [b \in DOMAIN heap \ {a} |-> heap[b]]
  BY DEF Free
<1>2. QED
  BY <1>1 DEF Typed

-----------------------------------------------------------------------------
(* Every step.                                                             *)
\* Documents are driven into the handle of an open object.
LEMMA FeedStep ==
  ASSUME IndInv, NEW o \in Object, NEW n \in Nat, RequireOpen(o),
         heap' = [heap EXCEPT ![handle[o]] = FeedMany(@, n)],
         told' = [told EXCEPT ![o] = @ + n],
         fed' = fed + n,
         UNCHANGED <<handle, call, saved>>
  PROVE  IndInv' /\ Local(o)
<1>1. /\ call[o].in = "idle" /\ call[o].pointer = Null
      /\ handle[o] # Null /\ handle[o] \in Holds(o) /\ handle[o] \in DOMAIN heap
      /\ heap[handle[o]].is = "handle" /\ InUse(o)
      /\ told[o] = Len(heap[handle[o]].docs)
  BY Pointers DEF RequireOpen, Resting, Idle, PlacedAt, Holds, InUse
<1>2. /\ ContentOK(FeedMany(heap[handle[o]], n))
      /\ FeedMany(heap[handle[o]], n).is = "handle"
      /\ Len(FeedMany(heap[handle[o]], n).docs) = told[o] + n
  BY <1>1, FedContent DEF IndInv, Typed
<1>3. /\ DOMAIN heap' = DOMAIN heap
      /\ heap'[handle[o]] = FeedMany(heap[handle[o]], n)
      /\ \A a \in DOMAIN heap \ {handle[o]} : heap'[a] = heap[a]
      /\ heap' = [a \in DOMAIN heap' |-> heap'[a]]
  BY <1>1
<1>4. told' \in [Object -> Nat] /\ told'[o] = told[o] + n
      /\ \A p \in Object \ {o} : told'[p] = told[p]
  BY DEF IndInv, Typed
<1>5. Holds(o)' = Holds(o)
  BY DEF Holds
<1>6. Local(o)
  <2>1. handle' = handle /\ call' = call /\ Holds(o) \subseteq DOMAIN heap
    BY Pointers
  <2>2. \A a \in DOMAIN heap \ Holds(o) : heap'[a] = heap[a]
    BY <1>1, <1>3
  <2>3. DOMAIN heap' = (DOMAIN heap \ Holds(o)) \cup Holds(o)'
    BY <1>3, <1>5, <2>1
  <2>4. \A p \in Object \ {o} :
          handle'[p] = handle[p] /\ call'[p] = call[p] /\ told'[p] = told[p]
    BY <1>4, <2>1
  <2>5. QED
    BY <1>5, <2>2, <2>3, <2>4 DEF Local
<1>7. Typed'
  BY <1>2, <1>3, <1>4 DEF IndInv, Typed
<1>8. PlacedAt(o)'
  BY <1>1, <1>2, <1>3, <1>4 DEF PlacedAt, InUse
<1>9. QED
  BY <1>6, <1>7, <1>8, StepOf

\* new Analyzer
LEMMA CreateStep ==
  ASSUME IndInv, NEW o \in Object, Create(o)
  PROVE  IndInv' /\ Local(o)
<1>1. PICK a \in Address : Alloc(a, NewHandle) /\ handle' = [handle EXCEPT ![o] = a]
  BY DEF Create
<1>2. UNCHANGED <<call, fed, saved>> /\ told' = [told EXCEPT ![o] = 0]
      /\ call[o].in = "idle" /\ call[o].pointer = Null /\ handle[o] = Null
  BY DEF Create, Resting, Idle
<1>3. /\ a \in Address \ DOMAIN heap
      /\ DOMAIN heap' = DOMAIN heap \cup {a}
      /\ DOMAIN heap' \subseteq Address
      /\ heap'[a] = NewHandle
      /\ \A b \in DOMAIN heap : heap'[b] = heap[b]
      /\ heap' = [b \in DOMAIN heap' |-> heap'[b]]
      /\ \A b \in DOMAIN heap' : ContentOK(heap'[b])
  BY <1>1, AllocHeap, NewHandleContent DEF IndInv
<1>4. /\ handle' \in [Object -> Address \cup {Null}] /\ handle'[o] = a
      /\ told' \in [Object -> Nat] /\ told'[o] = 0
      /\ \A p \in Object \ {o} : handle'[p] = handle[p] /\ told'[p] = told[p]
  BY <1>1, <1>2 DEF IndInv, Typed
<1>5. Holds(o) = {} /\ Holds(o)' = {a}
  BY <1>2, <1>3, <1>4, NullAssumption DEF Holds
<1>6. Local(o)
  BY <1>2, <1>3, <1>4, <1>5 DEF Local
<1>7. Typed'
  BY <1>2, <1>3, <1>4 DEF IndInv, Typed
<1>8. PlacedAt(o)'
  BY <1>2, <1>3, <1>4 DEF PlacedAt, InUse, NewHandle
<1>9. QED
  BY <1>6, <1>7, <1>8, StepOf

\* What the thread of an object does next.
LEMMA ThreadStep ==
  ASSUME Typed, NEW o \in Object, NEW in \in Places, NEW a \in Address \cup {Null},
         Thread(o, in, a)
  PROVE  /\ call' \in [Object -> [in : Places, pointer : Address \cup {Null}]]
         /\ call'[o].in = in /\ call'[o].pointer = a
         /\ \A p \in Object \ {o} : call'[p] = call[p]
BY DEF Typed, Thread, Doing

LEMMA ReturnStep ==
  ASSUME Typed, NEW o \in Object, Returned(o)
  PROVE  /\ call' \in [Object -> [in : Places, pointer : Address \cup {Null}]]
         /\ call'[o].in = "idle" /\ call'[o].pointer = Null
         /\ \A p \in Object \ {o} : call'[p] = call[p]
BY DEF Typed, Returned, Idle, Places

\* close gives the handle back before it forgets it.
LEMMA CloseDestroysStep ==
  ASSUME IndInv, NEW o \in Object, CloseDestroys(o)
  PROVE  IndInv' /\ Local(o)
<1>1. UNCHANGED <<handle, told, fed, saved>>
      /\ call[o].in = "idle" /\ call[o].pointer = Null /\ handle[o] # Null
      /\ Free(handle[o]) /\ Thread(o, "close", Null)
  BY DEF CloseDestroys, RequireOpen, Resting, Idle
<1>2. /\ DOMAIN heap' = DOMAIN heap \ {handle[o]}
      /\ DOMAIN heap' \subseteq Address
      /\ \A b \in DOMAIN heap' : heap'[b] = heap[b]
      /\ heap' = [b \in DOMAIN heap' |-> heap'[b]]
      /\ \A b \in DOMAIN heap' : ContentOK(heap'[b])
  BY <1>1, FreeHeap DEF IndInv
<1>3. /\ call' \in [Object -> [in : Places, pointer : Address \cup {Null}]]
      /\ call'[o].in = "close" /\ call'[o].pointer = Null
      /\ \A p \in Object \ {o} : call'[p] = call[p]
  BY <1>1, ThreadStep DEF IndInv, Places
<1>4. Holds(o) = {handle[o]} /\ Holds(o)' = {}
  BY <1>1, <1>3 DEF Holds
<1>5. Local(o)
  BY <1>1, <1>2, <1>3, <1>4 DEF Local
<1>6. Typed'
  BY <1>1, <1>2, <1>3 DEF IndInv, Typed
<1>7. PlacedAt(o)'
  BY <1>1, <1>3 DEF PlacedAt, InUse
<1>8. QED
  BY <1>5, <1>6, <1>7, StepOf

LEMMA CloseForgetsStep ==
  ASSUME IndInv, NEW o \in Object, CloseForgets(o)
  PROVE  IndInv' /\ Local(o)
<1>1. UNCHANGED <<heap, told, fed, saved>> /\ call[o].in = "close"
      /\ handle' = [handle EXCEPT ![o] = Null] /\ Returned(o)
  BY DEF CloseForgets
<1>2. call[o].pointer = Null
  BY <1>1, Pointers DEF PlacedAt
<1>3. /\ call' \in [Object -> [in : Places, pointer : Address \cup {Null}]]
      /\ call'[o].in = "idle" /\ call'[o].pointer = Null
      /\ \A p \in Object \ {o} : call'[p] = call[p]
  BY <1>1, ReturnStep DEF IndInv
<1>4. /\ handle' \in [Object -> Address \cup {Null}] /\ handle'[o] = Null
      /\ \A p \in Object \ {o} : handle'[p] = handle[p]
  BY <1>1 DEF IndInv, Typed
<1>5. Holds(o) = {} /\ Holds(o)' = {}
  BY <1>1, <1>2, <1>3, <1>4 DEF Holds
<1>6. Local(o)
  BY <1>1, <1>3, <1>4, <1>5 DEF Local
<1>7. Typed'
  BY <1>1, <1>3, <1>4 DEF IndInv, Typed
<1>8. PlacedAt(o)'
  BY <1>3, <1>4 DEF PlacedAt, InUse
<1>9. QED
  BY <1>6, <1>7, <1>8, StepOf

\* fromStateBytes, first step: a handle that no object has yet.
LEMMA RestoreCreatesStep ==
  ASSUME IndInv, NEW o \in Object, NEW state \in saved, RestoreCreates(o, state)
  PROVE  IndInv' /\ Local(o)
<1>1. PICK a \in Address : Alloc(a, HandleFrom(state)) /\ Thread(o, "restored", a)
  BY DEF RestoreCreates
<1>2. UNCHANGED <<handle, told, fed, saved>>
      /\ call[o].in = "idle" /\ call[o].pointer = Null /\ handle[o] = Null
  BY DEF RestoreCreates, Resting, Idle
<1>3. ContentOK(HandleFrom(state)) /\ HandleFrom(state).is = "handle"
  BY RestoredContent DEF IndInv, Typed
<1>4. /\ a \in Address \ DOMAIN heap
      /\ DOMAIN heap' = DOMAIN heap \cup {a}
      /\ DOMAIN heap' \subseteq Address
      /\ heap'[a] = HandleFrom(state)
      /\ \A b \in DOMAIN heap : heap'[b] = heap[b]
      /\ heap' = [b \in DOMAIN heap' |-> heap'[b]]
      /\ \A b \in DOMAIN heap' : ContentOK(heap'[b])
  BY <1>1, <1>3, AllocHeap DEF IndInv
<1>5. /\ call' \in [Object -> [in : Places, pointer : Address \cup {Null}]]
      /\ call'[o].in = "restored" /\ call'[o].pointer = a
      /\ \A p \in Object \ {o} : call'[p] = call[p]
  BY <1>1, ThreadStep DEF IndInv, Places
<1>6. Holds(o) = {} /\ Holds(o)' = {a}
  BY <1>2, <1>4, <1>5, NullAssumption DEF Holds
<1>7. Local(o)
  BY <1>2, <1>4, <1>5, <1>6 DEF Local
<1>8. Typed'
  BY <1>2, <1>4, <1>5 DEF IndInv, Typed
<1>9. PlacedAt(o)'
  BY <1>2, <1>3, <1>4, <1>5, NullAssumption DEF PlacedAt, InUse
<1>10. QED
  BY <1>7, <1>8, <1>9, StepOf

\* Second step: the object comes with a handle of its own.
LEMMA RestoreConstructsStep ==
  ASSUME IndInv, NEW o \in Object, RestoreConstructs(o)
  PROVE  IndInv' /\ Local(o)
<1>1. PICK a \in Address : Alloc(a, NewHandle) /\ handle' = [handle EXCEPT ![o] = a]
  BY DEF RestoreConstructs
<1>2. UNCHANGED <<told, fed, saved>> /\ call[o].in = "restored"
      /\ Thread(o, "replace", call[o].pointer)
  BY DEF RestoreConstructs
<1>3. /\ handle[o] = Null /\ call[o].pointer \in Address /\ call[o].pointer # Null
      /\ heap[call[o].pointer].is = "handle"
      /\ call[o].pointer \in DOMAIN heap
  BY <1>2, Pointers DEF PlacedAt, Holds
<1>4. /\ a \in Address \ DOMAIN heap
      /\ DOMAIN heap' = DOMAIN heap \cup {a}
      /\ DOMAIN heap' \subseteq Address
      /\ heap'[a] = NewHandle
      /\ \A b \in DOMAIN heap : heap'[b] = heap[b]
      /\ heap' = [b \in DOMAIN heap' |-> heap'[b]]
      /\ \A b \in DOMAIN heap' : ContentOK(heap'[b])
  BY <1>1, AllocHeap, NewHandleContent DEF IndInv
<1>5. /\ call' \in [Object -> [in : Places, pointer : Address \cup {Null}]]
      /\ call'[o].in = "replace" /\ call'[o].pointer = call[o].pointer
      /\ \A p \in Object \ {o} : call'[p] = call[p]
  BY <1>2, <1>3, ThreadStep DEF IndInv, Places
<1>6. /\ handle' \in [Object -> Address \cup {Null}] /\ handle'[o] = a
      /\ \A p \in Object \ {o} : handle'[p] = handle[p]
  BY <1>1 DEF IndInv, Typed
<1>7. Holds(o) = {call[o].pointer} /\ Holds(o)' = {a, call[o].pointer}
  BY <1>3, <1>4, <1>5, <1>6, NullAssumption DEF Holds
<1>8. Local(o)
  BY <1>2, <1>3, <1>4, <1>5, <1>6, <1>7 DEF Local
<1>9. Typed'
  BY <1>2, <1>4, <1>5, <1>6 DEF IndInv, Typed
<1>10. PlacedAt(o)'
  BY <1>3, <1>4, <1>5, <1>6, NullAssumption DEF PlacedAt, InUse, NewHandle
<1>11. QED
  BY <1>8, <1>9, <1>10, StepOf

\* Third step: that handle is given back, while the field still points at it.
LEMMA ReplaceDestroysStep ==
  ASSUME IndInv, NEW o \in Object, ReplaceDestroys(o)
  PROVE  IndInv' /\ Local(o)
<1>1. UNCHANGED <<handle, told, fed, saved>> /\ call[o].in = "replace"
      /\ Free(handle[o]) /\ Thread(o, "assign", call[o].pointer)
  BY DEF ReplaceDestroys
<1>2. /\ handle[o] # Null /\ call[o].pointer # handle[o]
      /\ call[o].pointer \in Address /\ call[o].pointer # Null
      /\ heap[call[o].pointer].is = "handle"
      /\ {call[o].pointer, handle[o]} \subseteq DOMAIN heap
  BY <1>1, Pointers DEF PlacedAt, Holds
<1>3. /\ DOMAIN heap' = DOMAIN heap \ {handle[o]}
      /\ DOMAIN heap' \subseteq Address
      /\ \A b \in DOMAIN heap' : heap'[b] = heap[b]
      /\ heap' = [b \in DOMAIN heap' |-> heap'[b]]
      /\ \A b \in DOMAIN heap' : ContentOK(heap'[b])
  BY <1>1, FreeHeap DEF IndInv
<1>4. /\ call' \in [Object -> [in : Places, pointer : Address \cup {Null}]]
      /\ call'[o].in = "assign" /\ call'[o].pointer = call[o].pointer
      /\ \A p \in Object \ {o} : call'[p] = call[p]
  BY <1>1, <1>2, ThreadStep DEF IndInv, Places
<1>5. Holds(o) = {handle[o], call[o].pointer} /\ Holds(o)' = {call[o].pointer}
  BY <1>1, <1>2, <1>4 DEF Holds
<1>6. Local(o)
  BY <1>1, <1>2, <1>3, <1>4, <1>5 DEF Local
<1>7. Typed'
  BY <1>1, <1>3, <1>4 DEF IndInv, Typed
<1>8. PlacedAt(o)'
  BY <1>1, <1>2, <1>3, <1>4 DEF PlacedAt, InUse
<1>9. QED
  BY <1>6, <1>7, <1>8, StepOf

\* Last step: the field takes the restored handle.
LEMMA ReplaceAssignsStep ==
  ASSUME IndInv, NEW o \in Object, ReplaceAssigns(o)
  PROVE  IndInv' /\ Local(o)
<1>1. UNCHANGED <<heap, fed, saved>> /\ call[o].in = "assign"
      /\ handle' = [handle EXCEPT ![o] = call[o].pointer]
      /\ told' = [told EXCEPT ![o] = Len(heap[call[o].pointer].docs)] /\ Returned(o)
  BY DEF ReplaceAssigns
<1>2. /\ call[o].pointer \in Address /\ call[o].pointer # Null
      /\ heap[call[o].pointer].is = "handle" /\ call[o].pointer \in DOMAIN heap
  BY <1>1, Pointers DEF PlacedAt, Holds
<1>3. Len(heap[call[o].pointer].docs) \in Nat
  BY <1>2 DEF IndInv, Typed, ContentOK, HandleContent, BufferContent
<1>4. /\ call' \in [Object -> [in : Places, pointer : Address \cup {Null}]]
      /\ call'[o].in = "idle" /\ call'[o].pointer = Null
      /\ \A p \in Object \ {o} : call'[p] = call[p]
  BY <1>1, ReturnStep DEF IndInv
<1>5. /\ handle' \in [Object -> Address \cup {Null}] /\ handle'[o] = call[o].pointer
      /\ \A p \in Object \ {o} : handle'[p] = handle[p]
  BY <1>1, <1>2 DEF IndInv, Typed
<1>6. /\ told' \in [Object -> Nat] /\ told'[o] = Len(heap[call[o].pointer].docs)
      /\ \A p \in Object \ {o} : told'[p] = told[p]
  BY <1>1, <1>3 DEF IndInv, Typed
<1>7. Holds(o) = {call[o].pointer} /\ Holds(o)' = {call[o].pointer}
  BY <1>1, <1>2, <1>4, <1>5 DEF Holds
<1>8. Local(o)
  BY <1>1, <1>2, <1>4, <1>5, <1>6, <1>7 DEF Local
<1>9. Typed'
  BY <1>1, <1>4, <1>5, <1>6 DEF IndInv, Typed
<1>10. PlacedAt(o)'
  BY <1>1, <1>2, <1>4, <1>5, <1>6 DEF PlacedAt, InUse
<1>11. QED
  BY <1>8, <1>9, <1>10, StepOf

\* A buffer with what an open object has to say.
LEMMA SerializeStep ==
  ASSUME IndInv, NEW o \in Object, NEW is \in {"state", "report"}, Serialize(o, is)
  PROVE  IndInv' /\ Local(o)
<1> DEFINE content == [is |-> is, docs |-> heap[handle[o]].docs]
<1>1. PICK a \in Address : Alloc(a, content) /\ Thread(o, "copy", a)
  BY DEF Serialize
<1>2. UNCHANGED <<handle, told, fed, saved>>
      /\ call[o].in = "idle" /\ call[o].pointer = Null /\ handle[o] # Null
  BY DEF Serialize, RequireOpen, Resting, Idle
<1>3. /\ handle[o] \in DOMAIN heap /\ heap[handle[o]].is = "handle"
      /\ told[o] = Len(heap[handle[o]].docs)
  BY <1>2, Pointers DEF PlacedAt, Holds, InUse
<1>4. ContentOK(content)
  BY <1>3, SerializedContent DEF IndInv, Typed
<1> HIDE DEF content
<1>5. /\ a \in Address \ DOMAIN heap
      /\ DOMAIN heap' = DOMAIN heap \cup {a}
      /\ DOMAIN heap' \subseteq Address
      /\ \A b \in DOMAIN heap : heap'[b] = heap[b]
      /\ heap' = [b \in DOMAIN heap' |-> heap'[b]]
      /\ \A b \in DOMAIN heap' : ContentOK(heap'[b])
  BY <1>1, <1>4, AllocHeap DEF IndInv
<1>6. /\ call' \in [Object -> [in : Places, pointer : Address \cup {Null}]]
      /\ call'[o].in = "copy" /\ call'[o].pointer = a
      /\ \A p \in Object \ {o} : call'[p] = call[p]
  BY <1>1, ThreadStep DEF IndInv, Places
<1>7. Holds(o) = {handle[o]} /\ Holds(o)' = {handle[o], a}
  BY <1>2, <1>5, <1>6, NullAssumption DEF Holds
<1>8. Local(o)
  BY <1>2, <1>3, <1>5, <1>6, <1>7 DEF Local
<1>9. Typed'
  BY <1>2, <1>5, <1>6 DEF IndInv, Typed
<1>10. PlacedAt(o)'
  BY <1>2, <1>3, <1>5, <1>6, NullAssumption DEF PlacedAt, InUse
<1>11. QED
  BY <1>8, <1>9, <1>10, StepOf

\* The buffer is copied to the JVM.
LEMMA CopyStep ==
  ASSUME IndInv, NEW o \in Object, Copy(o)
  PROVE  IndInv' /\ Local(o)
<1>1. UNCHANGED <<heap, handle, told, fed>> /\ call[o].in = "copy"
      /\ saved' \subseteq saved \cup {heap[call[o].pointer].docs}
      /\ Thread(o, "release", call[o].pointer)
  BY DEF Copy
<1>2. /\ call[o].pointer \in Address /\ call[o].pointer # Null
      /\ call[o].pointer \in DOMAIN heap /\ call[o].pointer # handle[o]
      /\ handle[o] # Null /\ heap[handle[o]].is = "handle"
      /\ told[o] = Len(heap[handle[o]].docs)
  BY <1>1, Pointers DEF PlacedAt, Holds, InUse
<1>3. heap[call[o].pointer].docs \in Seq(Document) /\ Numbered(heap[call[o].pointer].docs)
  BY <1>2 DEF IndInv, Typed, ContentOK, HandleContent, BufferContent
<1>4. /\ call' \in [Object -> [in : Places, pointer : Address \cup {Null}]]
      /\ call'[o].in = "release" /\ call'[o].pointer = call[o].pointer
      /\ \A p \in Object \ {o} : call'[p] = call[p]
  BY <1>1, <1>2, ThreadStep DEF IndInv, Places
<1>5. Holds(o)' = Holds(o) /\ Holds(o) \subseteq DOMAIN heap
  BY <1>1, <1>4, Pointers DEF Holds
<1>6. Local(o)
  BY <1>1, <1>4, <1>5 DEF Local
<1>7. Typed'
  BY <1>1, <1>3, <1>4 DEF IndInv, Typed
<1>8. PlacedAt(o)'
  BY <1>1, <1>2, <1>4 DEF PlacedAt, InUse
<1>9. QED
  BY <1>6, <1>7, <1>8, StepOf

\* And given back.
LEMMA ReleaseStep ==
  ASSUME IndInv, NEW o \in Object, Release(o)
  PROVE  IndInv' /\ Local(o)
<1>1. UNCHANGED <<handle, told, fed, saved>> /\ call[o].in = "release"
      /\ Free(call[o].pointer) /\ Returned(o)
  BY DEF Release
<1>2. /\ call[o].pointer # Null /\ call[o].pointer # handle[o]
      /\ {call[o].pointer, handle[o]} \subseteq DOMAIN heap
      /\ handle[o] # Null /\ heap[handle[o]].is = "handle"
      /\ told[o] = Len(heap[handle[o]].docs)
  BY <1>1, Pointers DEF PlacedAt, Holds, InUse
<1>3. /\ DOMAIN heap' = DOMAIN heap \ {call[o].pointer}
      /\ DOMAIN heap' \subseteq Address
      /\ \A b \in DOMAIN heap' : heap'[b] = heap[b]
      /\ heap' = [b \in DOMAIN heap' |-> heap'[b]]
      /\ \A b \in DOMAIN heap' : ContentOK(heap'[b])
  BY <1>1, FreeHeap DEF IndInv
<1>4. /\ call' \in [Object -> [in : Places, pointer : Address \cup {Null}]]
      /\ call'[o].in = "idle" /\ call'[o].pointer = Null
      /\ \A p \in Object \ {o} : call'[p] = call[p]
  BY <1>1, ReturnStep DEF IndInv
<1>5. Holds(o) = {handle[o], call[o].pointer} /\ Holds(o)' = {handle[o]}
  BY <1>1, <1>2, <1>4 DEF Holds
<1>6. Local(o)
  BY <1>1, <1>2, <1>3, <1>4, <1>5 DEF Local
<1>7. Typed'
  BY <1>1, <1>3, <1>4 DEF IndInv, Typed
<1>8. PlacedAt(o)'
  BY <1>1, <1>2, <1>3, <1>4 DEF PlacedAt, InUse
<1>9. QED
  BY <1>6, <1>7, <1>8, StepOf

-----------------------------------------------------------------------------
LEMMA InitInv == Init => IndInv
<1> SUFFICES ASSUME Init PROVE IndInv
  OBVIOUS
<1>1. DOMAIN heap = {} /\ heap = [a \in DOMAIN heap |-> heap[a]]
  BY DEF Init
<1>2. Typed
  BY <1>1 DEF Init, Typed, Idle, Places
<1>3. \A o \in Object : Holds(o) = {}
  BY DEF Init, Holds, Idle
<1>4. Owned
  BY <1>1, <1>3 DEF Owned
<1>5. Placed
  BY DEF Init, Placed, PlacedAt, Idle, InUse
<1>6. QED
  BY <1>2, <1>4, <1>5 DEF IndInv

LEMMA NextInv == IndInv /\ [Next]_vars => IndInv'
<1> SUFFICES ASSUME IndInv, [Next]_vars PROVE IndInv'
  OBVIOUS
<1>1. CASE UNCHANGED vars
  <2>1. /\ heap' = heap /\ handle' = handle /\ call' = call
        /\ told' = told /\ fed' = fed /\ saved' = saved
    BY <1>1 DEF vars
  <2>2. Typed'
    BY <2>1 DEF IndInv, Typed
  <2>3. Owned'
    <3>1. \A o \in Object : Holds(o)' = Holds(o)
      BY <2>1 DEF Holds
    <3>2. QED
      BY <2>1, <3>1 DEF IndInv, Owned
  <2>4. Placed'
    BY <2>1 DEF IndInv, Placed, PlacedAt, InUse
  <2>5. QED
    BY <2>2, <2>3, <2>4 DEF IndInv
<1>2. ASSUME NEW o \in Object, NEW buffer \in Buffer, FeedJsonl(o, buffer) PROVE IndInv'
  <2>1. DocumentsIn(buffer) \in Nat
    BY CountIsNat, BufferAssumption
  <2>2. QED
    BY <1>2, <2>1, FeedStep DEF FeedJsonl, Accepted
<1>3. ASSUME NEW o \in Object, NEW line \in {"document", "faulty"}, Feed(o, line) PROVE IndInv'
  <2>1. <<line>> \in Seq({"document", "faulty"})
    OBVIOUS
  <2>2. DocumentsIn(<<line>>) \in Nat
    BY <2>1, CountIsNat
  <2>3. QED
    BY <1>3, <2>2, FeedStep DEF Feed
<1>4. QED
  BY <1>1, <1>2, <1>3, CreateStep, CloseDestroysStep, CloseForgetsStep, RestoreCreatesStep,
     RestoreConstructsStep, ReplaceDestroysStep, ReplaceAssignsStep, SerializeStep, CopyStep,
     ReleaseStep DEF Next

\* The inductive invariant of the binding: who holds what at every place of a
\* call, and the ordinals of everything in memory and in buffers.
THEOREM Invariant == Spec => []IndInv
<1>1. QED
  BY InitInv, NextInv, PTL DEF Spec

\* Any number of objects share the native heap without a leak, a use after free
\* or a double free.
THEOREM MemoryOwnedHolds == Spec => []MemoryOwned
<1>1. IndInv => MemoryOwned
  BY DEF IndInv, Owned, Placed, PlacedAt, InUse, MemoryOwned
<1>2. QED
  BY <1>1, Invariant, PTL

\* Ordinals go on over every chain of snapshots and restores.
THEOREM OrdinalsRunHolds == Spec => []OrdinalsRun
<1>1. IndInv => OrdinalsRun
  BY DEF IndInv, Typed, ContentOK, Numbered, OrdinalsRun
<1>2. QED
  BY <1>1, Invariant, PTL

\* The results of feeding always add up to the document count.
THEOREM AcceptedAddsUpHolds == Spec => []AcceptedAddsUp
<1>1. IndInv => AcceptedAddsUp
  BY DEF IndInv, Placed, PlacedAt, AcceptedAddsUp
<1>2. QED
  BY <1>1, Invariant, PTL

\* Native memory, threads and buffers keep their types.
THEOREM TypeCorrect == Spec => []TypeOK
<1>1. IndInv => TypeOK
  BY DEF IndInv, Typed, ContentOK, TypeOK
<1>2. QED
  BY <1>1, Invariant, PTL
-----------------------------------------------------------------------------
(* The binding implements Accumulators.  Beyond IndInv one has to know that  *)
(* no list holds a document of the future, and that a buffer which is being  *)
(* copied says what its object holds.                                        *)
Past(docs, n) == \A i \in DOMAIN docs : docs[i].document <= n

Known ==
  /\ \A a \in DOMAIN heap : Past(heap[a].docs, fed)
  /\ \A s \in saved : Past(s, fed)
  /\ \A o \in Object : call[o].in = "copy" => heap[call[o].pointer].docs = heap[handle[o]].docs

RefInv == IndInv /\ Known

\* What an object has accepted, and what it is about to take up.
Has(o) == IF InUse(o) THEN heap[handle[o]].docs ELSE Nothing
Wants(o) ==
  IF call[o].in \in {"restored", "replace", "assign"} THEN heap[call[o].pointer].docs ELSE Nothing

AcceptedNow == [o \in Object |-> IF InUse(o) THEN DocsAt(handle[o]) ELSE Nothing]
AskedNow ==
  [o \in Object |-> IF call[o].in \in {"restored", "replace", "assign"}
                    THEN DocsAt(call[o].pointer) ELSE Nothing]

Mapping ==
  \A o \in Object :
    /\ AcceptedNow[o] = Has(o)
    /\ AskedNow[o] = Wants(o)
    /\ InUse(o) => Has(o) \in Seq(Document) /\ handle[o] \in DOMAIN heap
    /\ Wants(o) # Nothing => Wants(o) \in Seq(Document)
    /\ InUse(o) <=> Has(o) # Nothing

\* A state reads as a state of Accumulators.
LEMMA Maps == (IndInv => Mapping) /\ (IndInv' => Mapping')
<1>1. ASSUME IndInv PROVE Mapping
  <2> SUFFICES ASSUME NEW o \in Object
               PROVE  /\ AcceptedNow[o] = Has(o)
                      /\ AskedNow[o] = Wants(o)
                      /\ InUse(o) => Has(o) \in Seq(Document) /\ handle[o] \in DOMAIN heap
                      /\ Wants(o) # Nothing => Wants(o) \in Seq(Document)
                      /\ InUse(o) <=> Has(o) # Nothing
    BY DEF Mapping
  <2>1. PlacedAt(o) /\ Holds(o) \subseteq DOMAIN heap
    BY <1>1, Pointers
  <2>2. \A a \in DOMAIN heap : heap[a].docs \in Seq(Document)
    BY <1>1 DEF IndInv, Typed, ContentOK, HandleContent, BufferContent
  <2>3. InUse(o) => handle[o] \in DOMAIN heap
    BY <2>1 DEF Holds, InUse
  <2>4. call[o].in \in {"restored", "replace", "assign"} => call[o].pointer \in DOMAIN heap
    BY <2>1 DEF Holds, PlacedAt
  <2>5. AcceptedNow[o] = Has(o) /\ AskedNow[o] = Wants(o)
    BY <2>3, <2>4 DEF AcceptedNow, AskedNow, Has, Wants, DocsAt
  <2>6. QED
    BY <2>2, <2>3, <2>4, <2>5, NothingAssumption DEF Has, Wants
<1>2. ASSUME IndInv' PROVE Mapping'
  <2> SUFFICES ASSUME NEW o \in Object
               PROVE  /\ AcceptedNow'[o] = Has(o)'
                      /\ AskedNow'[o] = Wants(o)'
                      /\ InUse(o)' => Has(o)' \in Seq(Document) /\ handle'[o] \in DOMAIN heap'
                      /\ Wants(o)' # Nothing => Wants(o)' \in Seq(Document)
                      /\ InUse(o)' <=> Has(o)' # Nothing
    BY DEF Mapping
  <2>1. PlacedAt(o)' /\ Holds(o)' \subseteq DOMAIN heap'
    BY <1>2 DEF IndInv, Placed, Owned
  <2>2. \A a \in DOMAIN heap' : heap'[a].docs \in Seq(Document)
    BY <1>2 DEF IndInv, Typed, ContentOK, HandleContent, BufferContent
  <2>3. InUse(o)' => handle'[o] \in DOMAIN heap'
    BY <2>1 DEF Holds, InUse
  <2>4. call'[o].in \in {"restored", "replace", "assign"} => call'[o].pointer \in DOMAIN heap'
    BY <2>1 DEF Holds, PlacedAt
  <2>5. AcceptedNow'[o] = Has(o)' /\ AskedNow'[o] = Wants(o)'
    BY <2>3, <2>4 DEF AcceptedNow, AskedNow, Has, Wants, DocsAt
  <2>6. QED
    BY <2>2, <2>3, <2>4, <2>5, NothingAssumption DEF Has, Wants
<1>3. QED
  BY <1>1, <1>2

\* A step of one object changes nothing for the others.
LEMMA OthersKeep ==
  ASSUME IndInv, NEW o \in Object, Local(o), NEW p \in Object \ {o}
  PROVE  /\ Has(p)' = Has(p) /\ Wants(p)' = Wants(p)
         /\ Holds(p) \subseteq DOMAIN heap \ Holds(o)
         /\ \A a \in Holds(p) : heap'[a] = heap[a]
         /\ handle'[p] = handle[p] /\ call'[p] = call[p]
<1>1. handle'[p] = handle[p] /\ call'[p] = call[p]
  BY DEF Local
<1>2. Holds(p) \subseteq DOMAIN heap \ Holds(o)
  BY DEF IndInv, Owned
<1>3. \A a \in Holds(p) : heap'[a] = heap[a]
  BY <1>2 DEF Local
<1>4. PlacedAt(p)
  BY Pointers
<1>5. InUse(p) => handle[p] \in Holds(p)
  BY DEF InUse, Holds
<1>6. call[p].in \in {"restored", "replace", "assign"} => call[p].pointer \in Holds(p)
  BY <1>4 DEF PlacedAt, Holds
<1>7. Has(p)' = Has(p)
  BY <1>1, <1>3, <1>5 DEF Has, InUse
<1>8. Wants(p)' = Wants(p)
  BY <1>1, <1>3, <1>6 DEF Wants
<1>9. QED
  BY <1>1, <1>2, <1>3, <1>7, <1>8

\* So it is a step of one list.
LEMMA OneChanges ==
  ASSUME IndInv, IndInv', NEW o \in Object, Local(o)
  PROVE  /\ AcceptedNow' = [AcceptedNow EXCEPT ![o] = Has(o)']
         /\ AskedNow' = [AskedNow EXCEPT ![o] = Wants(o)']
         /\ AcceptedNow[o] = Has(o) /\ AcceptedNow'[o] = Has(o)'
         /\ AskedNow[o] = Wants(o) /\ AskedNow'[o] = Wants(o)'
         /\ \A p \in Object \ {o} : AcceptedNow'[p] = AcceptedNow[p]
<1>1. \A p \in Object : /\ AcceptedNow[p] = Has(p) /\ AcceptedNow'[p] = Has(p)'
                        /\ AskedNow[p] = Wants(p) /\ AskedNow'[p] = Wants(p)'
  BY Maps DEF Mapping
<1>2. \A p \in Object \ {o} : Has(p)' = Has(p) /\ Wants(p)' = Wants(p)
  BY OthersKeep
<1>3. \A p \in Object \ {o} : AcceptedNow'[p] = AcceptedNow[p] /\ AskedNow'[p] = AskedNow[p]
  BY <1>1, <1>2
<1>4. /\ AcceptedNow = [p \in Object |-> AcceptedNow[p]]
      /\ AcceptedNow' = [p \in Object |-> AcceptedNow'[p]]
  BY DEF AcceptedNow
<1>5. AskedNow = [p \in Object |-> AskedNow[p]] /\ AskedNow' = [p \in Object |-> AskedNow'[p]]
  BY DEF AskedNow
<1> HIDE DEF AcceptedNow, AskedNow, Has, Wants
<1>6. AcceptedNow' = [AcceptedNow EXCEPT ![o] = Has(o)']
  BY <1>1, <1>3, <1>4
<1>7. AskedNow' = [AskedNow EXCEPT ![o] = Wants(o)']
  BY <1>1, <1>3, <1>5
<1>8. QED
  BY <1>1, <1>3, <1>6, <1>7

\* The lists of Accumulators, by name.
LEMMA Lists ==
  /\ Promise!accVars = <<AcceptedNow, AskedNow, saved>>
  /\ Promise!accVars' = <<AcceptedNow, AskedNow, saved>>'
BY DEF Promise!accVars, AcceptedNow, AskedNow

\* A step in which an object has and wants what it did is none.
LEMMA Stutters ==
  ASSUME IndInv, IndInv', NEW o \in Object, Local(o),
         Has(o)' = Has(o), Wants(o)' = Wants(o), saved' = saved
  PROVE  UNCHANGED Promise!accVars
<1>1. AcceptedNow' = [AcceptedNow EXCEPT ![o] = AcceptedNow[o]]
      /\ AskedNow' = [AskedNow EXCEPT ![o] = AskedNow[o]]
  BY OneChanges
<1>2. AcceptedNow' = AcceptedNow /\ AskedNow' = AskedNow
  BY <1>1 DEF AcceptedNow, AskedNow
<1>3. <<AcceptedNow, AskedNow, saved>>' = <<AcceptedNow, AskedNow, saved>>
  BY <1>2
<1>4. QED
  BY <1>3, Lists

\* Known is kept by a step of one object if what it holds then is known.
LEMMA KnownStep ==
  ASSUME RefInv, IndInv', NEW o \in Object, Local(o), fed' >= fed,
         \A a \in Holds(o)' : Past(heap'[a].docs, fed'),
         \A s \in saved' \ saved : Past(s, fed'),
         call'[o].in = "copy" => heap'[call'[o].pointer].docs = heap'[handle'[o]].docs
  PROVE  Known'
<1>1. fed \in Nat /\ fed' \in Nat
  BY DEF RefInv, IndInv, Typed
<1>2. ASSUME NEW docs \in Seq(Document), Past(docs, fed) PROVE Past(docs, fed')
  <2>1. \A i \in DOMAIN docs : docs[i] \in Document
    OBVIOUS
  <2>3. \A i \in DOMAIN docs : docs[i].document \in Nat
    BY <2>1 DEF Document
  <2>2. QED
    BY <1>1, <1>2, <2>3 DEF Past
<1>3. \A a \in DOMAIN heap' : Past(heap'[a].docs, fed')
  <2> SUFFICES ASSUME NEW a \in DOMAIN heap \ Holds(o), a \in DOMAIN heap'
               PROVE  Past(heap'[a].docs, fed')
    BY DEF Local
  <2>1. heap'[a] = heap[a]
    BY DEF Local
  <2>2. heap[a].docs \in Seq(Document) /\ Past(heap[a].docs, fed)
    BY DEF RefInv, IndInv, Known, Typed, ContentOK, HandleContent, BufferContent
  <2>3. QED
    BY <1>2, <2>1, <2>2
<1>4. \A s \in saved' : Past(s, fed')
  BY <1>2 DEF RefInv, IndInv, Typed, Known
<1>5. ASSUME NEW p \in Object, call'[p].in = "copy"
      PROVE  heap'[call'[p].pointer].docs = heap'[handle'[p]].docs
  <2>1. CASE p = o
    BY <1>5, <2>1
  <2>2. CASE p # o
    <3>1. /\ call'[p] = call[p] /\ handle'[p] = handle[p]
          /\ \A a \in Holds(p) : heap'[a] = heap[a]
      BY <2>2, OthersKeep DEF RefInv
    <3>2. PlacedAt(p)
      BY Pointers DEF RefInv
    <3>3. call[p].pointer \in Holds(p) /\ handle[p] \in Holds(p)
      BY <1>5, <3>1, <3>2 DEF PlacedAt, Holds
    <3>4. QED
      BY <1>5, <3>1, <3>3 DEF RefInv, Known
  <2>3. QED
    BY <2>1, <2>2
<1>6. QED
  BY <1>3, <1>4, <1>5 DEF Known

\* What an object holds, at the places of a call.
LEMMA HeldNow ==
  ASSUME IndInv, NEW o \in Object
  PROVE  /\ handle[o] # Null /\ call[o].in \notin {"close", "assign"} => handle[o] \in DOMAIN heap
         /\ call[o].pointer # Null => call[o].pointer \in DOMAIN heap
         /\ PlacedAt(o)
BY Pointers DEF Holds

LEMMA CreateRefines ==
  ASSUME RefInv, NEW o \in Object, Create(o)
  PROVE  Known' /\ Promise!Next
<1>1. IndInv /\ IndInv' /\ Local(o)
  BY CreateStep DEF RefInv
<1>2. PICK a \in Address : Alloc(a, NewHandle) /\ handle' = [handle EXCEPT ![o] = a]
  BY DEF Create
<1>3. UNCHANGED <<call, fed, saved>> /\ call[o].in = "idle" /\ call[o].pointer = Null
      /\ handle[o] = Null
  BY DEF Create, Resting, Idle
<1>4. heap'[a] = NewHandle /\ handle'[o] = a /\ a # Null
  BY <1>1, <1>2, AllocHeap, NewHandleContent, NullAssumption DEF IndInv, Typed
<1>5. Has(o) = Nothing /\ Wants(o) = Nothing /\ Has(o)' = <<>> /\ Wants(o)' = Nothing
  BY <1>3, <1>4 DEF Has, Wants, InUse, NewHandle
<1>6. Known'
  <2>1. \A b \in Holds(o)' : Past(heap'[b].docs, fed')
    BY <1>3, <1>4 DEF Holds, Past, NewHandle
  <2>2. fed' >= fed
    BY <1>1, <1>3 DEF IndInv, Typed
  <2>3. QED
    BY <1>1, <1>3, <2>1, <2>2, KnownStep
<1>7. Promise!Open(o)
  BY <1>1, <1>3, <1>5, OneChanges DEF Promise!Open, Promise!Opened, AcceptedNow, AskedNow
<1>8. QED
  BY <1>6, <1>7 DEF Promise!Next

\* The documents fed are new to every object.
LEMMA FeedRefines ==
  ASSUME RefInv, NEW o \in Object, NEW n \in Nat, RequireOpen(o),
         heap' = [heap EXCEPT ![handle[o]] = FeedMany(@, n)],
         told' = [told EXCEPT ![o] = @ + n],
         fed' = fed + n,
         UNCHANGED <<handle, call, saved>>
  PROVE  Known' /\ Promise!Next
<1> DEFINE h == heap[handle[o]]
           new == [i \in 1 .. n |-> [document |-> fed + i, ordinal |-> h.nextOrdinal + i - 1]]
<1>1. IndInv /\ IndInv' /\ Local(o)
  BY FeedStep DEF RefInv
<1>2. /\ call[o].in = "idle" /\ call[o].pointer = Null /\ InUse(o)
      /\ handle[o] # Null /\ handle[o] \in DOMAIN heap
      /\ Holds(o)' = {handle[o]}
  BY <1>1, HeldNow DEF RequireOpen, Resting, Idle, InUse, Holds
<1>3. fed \in Nat /\ fed' >= fed
  BY <1>1 DEF IndInv, Typed
<1>4. h.is = "handle" /\ h.docs \in Seq(Document) /\ h \in HandleContent
  BY <1>1, <1>2, HeldNow DEF PlacedAt, IndInv, Typed, ContentOK, HandleContent, BufferContent
<1>5. heap'[handle[o]] = FeedMany(h, n) /\ FeedMany(h, n).docs = h.docs \o new
  BY <1>2, <1>4 DEF FeedMany, HandleContent
<1>6. new \in Seq(Document) /\ Len(new) = n
      /\ \A i \in 1 .. n : new[i].document = fed + i
  <2>1. \A i \in 1 .. n : new[i].document = fed + i
    OBVIOUS
  <2>2. h.nextOrdinal \in Nat
    BY <1>4 DEF HandleContent
  <2>3. \A i \in 1 .. n : fed + i \in Nat /\ h.nextOrdinal + i - 1 \in Nat
    BY <1>3, <2>2
  <2>4. new \in Seq(Document) /\ Len(new) = n
    BY <2>3 DEF Document
  <2>5. QED
    BY <2>1, <2>4
<1> HIDE DEF new
<1>7. Has(o) = h.docs /\ Has(o)' = h.docs \o new /\ Wants(o)' = Wants(o)
  BY <1>2, <1>5 DEF Has, Wants, InUse
<1> HIDE DEF h
<1>8. /\ DOMAIN h.docs = 1 .. Len(h.docs) /\ Len(h.docs) \in Nat
      /\ DOMAIN (h.docs \o new) = 1 .. Len(h.docs) + n
      /\ \A i \in 1 .. Len(h.docs) : (h.docs \o new)[i] = h.docs[i]
      /\ \A i \in (Len(h.docs) + 1) .. (Len(h.docs) + n) :
           i - Len(h.docs) \in 1 .. n /\ (h.docs \o new)[i] = new[i - Len(h.docs)]
  <2> DEFINE d == h.docs
  <2>1. d \in Seq(Document)
    BY <1>4
  <2> HIDE DEF d
  <2>2. DOMAIN d = 1 .. Len(d) /\ Len(d) \in Nat
    BY <2>1
  <2>3. DOMAIN (d \o new) = 1 .. Len(d) + n
    <3>1. d \o new \in Seq(Document) /\ Len(d \o new) = Len(d) + n
      BY <2>1, <1>6
    <3>2. DOMAIN (d \o new) = 1 .. Len(d \o new)
      BY <3>1
    <3>3. QED
      BY <3>1, <3>2
  <2>4. \A i \in 1 .. Len(d) : (d \o new)[i] = d[i]
    BY <2>1, <1>6
  <2>5. \A i \in (Len(d) + 1) .. (Len(d) + n) :
          i - Len(d) \in 1 .. n /\ (d \o new)[i] = new[i - Len(d)]
    BY <2>1, <2>2, <1>6
  <2>6. QED
    BY <2>2, <2>3, <2>4, <2>5 DEF d
<1>9. SubSeq(h.docs \o new, 1, Len(h.docs)) = h.docs
  BY <1>4, <1>6
<1>10. \A i \in DOMAIN (h.docs \o new) \ DOMAIN h.docs :
         (h.docs \o new)[i].document > fed /\ (h.docs \o new)[i].document <= fed'
  <2> SUFFICES ASSUME NEW i \in (Len(h.docs) + 1) .. (Len(h.docs) + n)
               PROVE  (h.docs \o new)[i].document > fed /\ (h.docs \o new)[i].document <= fed'
    BY <1>8
  <2>1. i - Len(h.docs) \in 1 .. n /\ (h.docs \o new)[i].document = fed + (i - Len(h.docs))
    BY <1>6, <1>8
  <2>2. QED
    BY <1>3, <2>1
<1>11. \A a \in DOMAIN heap : Past(heap[a].docs, fed)
  BY DEF RefInv, Known
<1>12. Past(h.docs \o new, fed')
  <2> SUFFICES ASSUME NEW i \in DOMAIN (h.docs \o new)
               PROVE  (h.docs \o new)[i].document <= fed'
    BY DEF Past
  <2>1. CASE i \in DOMAIN h.docs
    <3>1. h.docs[i].document <= fed
      BY <1>2, <1>11, <2>1 DEF Past, h
    <3>2. h.docs[i] \in Document
      BY <1>4, <2>1
    <3>3. h.docs[i].document \in Nat
      BY <3>2 DEF Document
    <3>4. QED
      BY <1>3, <1>8, <2>1, <3>1, <3>3
  <2>2. CASE i \notin DOMAIN h.docs
    BY <1>10, <2>2
  <2>3. QED
    BY <2>1, <2>2
<1>13. Known'
  <2>1. \A a \in Holds(o)' : Past(heap'[a].docs, fed')
    BY <1>2, <1>5, <1>12
  <2>2. call'[o].in # "copy" /\ saved' = saved
    BY <1>2
  <2>3. QED
    BY <1>1, <1>3, <2>1, <2>2, KnownStep
<1>14. Promise!Feed(o)
  <2>1. /\ AcceptedNow' = [AcceptedNow EXCEPT ![o] = AcceptedNow'[o]]
        /\ AcceptedNow[o] = h.docs /\ AcceptedNow'[o] = h.docs \o new
    BY <1>1, <1>7, OneChanges
  <2>2. AcceptedNow[o] # Nothing /\ AcceptedNow'[o] # Nothing
    BY <1>1, <1>2, <1>7, <2>1, Maps DEF Mapping, InUse
  <2>3. AskedNow' = AskedNow /\ saved' = saved
    <3>1. AskedNow' = [AskedNow EXCEPT ![o] = AskedNow[o]]
      BY <1>1, <1>7, OneChanges
    <3>2. QED
      BY <3>1 DEF AskedNow
  <2>4. ASSUME NEW i \in DOMAIN (h.docs \o new) \ DOMAIN h.docs, NEW p \in Object,
               AcceptedNow[p] # Nothing, NEW j \in DOMAIN AcceptedNow[p]
        PROVE  AcceptedNow[p][j] # (h.docs \o new)[i]
    <3>1. AcceptedNow[p] = Has(p) /\ InUse(p) /\ handle[p] \in DOMAIN heap /\ Has(p) \in Seq(Document)
      BY <1>1, <2>4, Maps DEF Mapping
    <3>2. AcceptedNow[p] = heap[handle[p]].docs
      BY <3>1 DEF Has
    <3>3. AcceptedNow[p][j].document <= fed
      BY <1>11, <3>1, <3>2 DEF Past
    <3>4. AcceptedNow[p][j] \in Document
      BY <3>1
    <3>5. AcceptedNow[p][j].document \in Nat
      BY <3>4 DEF Document
    <3>6. (h.docs \o new)[i].document = fed + (i - Len(h.docs)) /\ i - Len(h.docs) \in 1 .. n
      BY <1>6, <1>8
    <3>7. QED
      BY <1>3, <3>3, <3>5, <3>6
  <2> DEFINE fedDocs == h.docs \o new
  <2>5. fedDocs = h.docs \o new
    OBVIOUS
  <2> HIDE DEF fedDocs
  <2>6. SubSeq(AcceptedNow'[o], 1, Len(AcceptedNow[o])) = AcceptedNow[o]
    BY <1>9, <2>1
  <2>7. \A i \in DOMAIN AcceptedNow'[o] \ DOMAIN AcceptedNow[o] :
          \A p \in Object : AcceptedNow[p] # Nothing =>
            \A j \in DOMAIN AcceptedNow[p] : AcceptedNow[p][j] # AcceptedNow'[o][i]
    BY <2>1, <2>4
  <2>8. QED
    BY <2>1, <2>2, <2>3, <2>6, <2>7 DEF Promise!Feed, Promise!Opened, AcceptedNow, AskedNow
<1>15. QED
  BY <1>13, <1>14 DEF Promise!Next

LEMMA CloseDestroysRefines ==
  ASSUME RefInv, NEW o \in Object, CloseDestroys(o)
  PROVE  Known' /\ Promise!Next
<1>1. IndInv /\ IndInv' /\ Local(o)
  BY CloseDestroysStep DEF RefInv
<1>2. UNCHANGED <<handle, told, fed, saved>> /\ RequireOpen(o) /\ Thread(o, "close", Null)
  BY DEF CloseDestroys
<1>3. call'[o].in = "close" /\ call'[o].pointer = Null
  BY <1>1, <1>2, ThreadStep DEF IndInv, Places
<1>4. InUse(o) /\ Wants(o) = Nothing /\ Has(o)' = Nothing /\ Wants(o)' = Nothing
  BY <1>2, <1>3 DEF RequireOpen, Resting, Idle, InUse, Has, Wants
<1>5. Holds(o)' = {}
  BY <1>3 DEF Holds
<1>6. Known'
  <2>1. fed' >= fed
    BY <1>1, <1>2 DEF IndInv, Typed
  <2>2. QED
    BY <1>1, <1>2, <1>3, <1>5, <2>1, KnownStep
<1>7. Has(o) # Nothing
  BY <1>1, <1>4, Maps DEF Mapping
<1>8. AskedNow' = AskedNow
  <2>1. AskedNow' = [AskedNow EXCEPT ![o] = AskedNow[o]]
    BY <1>1, <1>4, OneChanges
  <2>2. QED
    BY <2>1 DEF AskedNow
<1>9. AcceptedNow' = [AcceptedNow EXCEPT ![o] = Nothing] /\ AcceptedNow[o] # Nothing
  BY <1>1, <1>4, <1>7, OneChanges
<1>10. Promise!Close(o)
  BY <1>2, <1>8, <1>9 DEF Promise!Close, Promise!Opened, AcceptedNow, AskedNow
<1>11. QED
  BY <1>6, <1>10 DEF Promise!Next

LEMMA CloseForgetsRefines ==
  ASSUME RefInv, NEW o \in Object, CloseForgets(o)
  PROVE  Known' /\ UNCHANGED Promise!accVars
<1>1. IndInv /\ IndInv' /\ Local(o)
  BY CloseForgetsStep DEF RefInv
<1>2. UNCHANGED <<heap, told, fed, saved>> /\ call[o].in = "close"
      /\ handle' = [handle EXCEPT ![o] = Null] /\ Returned(o)
  BY DEF CloseForgets
<1>3. call'[o].in = "idle" /\ call'[o].pointer = Null /\ handle'[o] = Null
  BY <1>1, <1>2, ReturnStep DEF IndInv, Typed
<1>4. Has(o)' = Has(o) /\ Wants(o)' = Wants(o) /\ Holds(o)' = {}
  BY <1>2, <1>3 DEF Has, Wants, InUse, Holds
<1>5. Known'
  <2>1. fed' >= fed
    BY <1>1, <1>2 DEF IndInv, Typed
  <2>2. QED
    BY <1>1, <1>2, <1>3, <1>4, <2>1, KnownStep
<1>6. QED
  BY <1>1, <1>2, <1>4, <1>5, Stutters

LEMMA RestoreCreatesRefines ==
  ASSUME RefInv, NEW o \in Object, NEW state \in saved, RestoreCreates(o, state)
  PROVE  Known' /\ Promise!Next
<1>1. IndInv /\ IndInv' /\ Local(o)
  BY RestoreCreatesStep DEF RefInv
<1>2. PICK a \in Address : Alloc(a, HandleFrom(state)) /\ Thread(o, "restored", a)
  BY DEF RestoreCreates
<1>3. UNCHANGED <<handle, told, fed, saved>>
      /\ call[o].in = "idle" /\ call[o].pointer = Null /\ handle[o] = Null
  BY DEF RestoreCreates, Resting, Idle
<1>4. state \in Seq(Document) /\ ContentOK(HandleFrom(state)) /\ HandleFrom(state).docs = state
  BY <1>1, RestoredContent DEF IndInv, Typed, HandleFrom
<1>5. heap'[a] = HandleFrom(state)
  BY <1>1, <1>2, <1>4, AllocHeap DEF IndInv
<1>6. call'[o].in = "restored" /\ call'[o].pointer = a
  BY <1>1, <1>2, ThreadStep DEF IndInv, Places
<1>7. Has(o) = Nothing /\ Wants(o) = Nothing /\ Has(o)' = Nothing /\ Wants(o)' = state
      /\ Holds(o)' \subseteq {a}
  BY <1>3, <1>4, <1>5, <1>6 DEF Has, Wants, InUse, Holds
<1>8. Known'
  <2>1. Past(state, fed')
    BY <1>3 DEF RefInv, Known
  <2>2. \A b \in Holds(o)' : Past(heap'[b].docs, fed')
    BY <1>4, <1>5, <1>7, <2>1
  <2>3. fed' >= fed
    BY <1>1, <1>3 DEF IndInv, Typed
  <2>4. QED
    BY <1>1, <1>3, <1>6, <2>2, <2>3, KnownStep
<1>9. AcceptedNow' = AcceptedNow
  <2>1. AcceptedNow' = [AcceptedNow EXCEPT ![o] = AcceptedNow[o]]
    BY <1>1, <1>7, OneChanges
  <2>2. QED
    BY <2>1 DEF AcceptedNow
<1>10. AskedNow' = [AskedNow EXCEPT ![o] = state] /\ AskedNow[o] = Nothing /\ AcceptedNow[o] = Nothing
  BY <1>1, <1>7, OneChanges
<1>11. Promise!Ask(o, state)
  BY <1>3, <1>9, <1>10 DEF Promise!Ask, Promise!Opened, AcceptedNow, AskedNow
<1>12. QED
  BY <1>8, <1>11 DEF Promise!Next

LEMMA RestoreConstructsRefines ==
  ASSUME RefInv, NEW o \in Object, RestoreConstructs(o)
  PROVE  Known' /\ UNCHANGED Promise!accVars
<1>1. IndInv /\ IndInv' /\ Local(o)
  BY RestoreConstructsStep DEF RefInv
<1>2. PICK a \in Address : Alloc(a, NewHandle) /\ handle' = [handle EXCEPT ![o] = a]
  BY DEF RestoreConstructs
<1>3. UNCHANGED <<told, fed, saved>> /\ call[o].in = "restored"
      /\ Thread(o, "replace", call[o].pointer)
  BY DEF RestoreConstructs
<1>4. call[o].pointer \in DOMAIN heap /\ call[o].pointer \in Address \cup {Null}
  BY <1>1, <1>3, HeldNow DEF PlacedAt, IndInv, Typed
<1>5. heap'[a] = NewHandle /\ \A b \in DOMAIN heap : heap'[b] = heap[b]
  BY <1>1, <1>2, AllocHeap, NewHandleContent DEF IndInv
<1>6. call'[o].in = "replace" /\ call'[o].pointer = call[o].pointer /\ handle'[o] = a
  BY <1>1, <1>2, <1>3, <1>4, ThreadStep DEF IndInv, Typed, Places
<1>7. Has(o)' = Has(o) /\ Wants(o)' = Wants(o) /\ Holds(o)' \subseteq {a, call[o].pointer}
  BY <1>3, <1>4, <1>5, <1>6 DEF Has, Wants, InUse, Holds
<1>8. \A b \in Holds(o)' : Past(heap'[b].docs, fed')
  <2>1. Past(heap[call[o].pointer].docs, fed)
    BY <1>4 DEF RefInv, Known
  <2>2. Past(NewHandle.docs, fed)
    BY DEF Past, NewHandle
  <2>3. QED
    BY <1>3, <1>4, <1>5, <1>7, <2>1, <2>2
<1>9. fed' >= fed
  BY <1>1, <1>3 DEF IndInv, Typed
<1>10. Known'
  BY <1>1, <1>3, <1>6, <1>8, <1>9, KnownStep
<1>11. QED
  BY <1>1, <1>3, <1>7, <1>10, Stutters

LEMMA ReplaceDestroysRefines ==
  ASSUME RefInv, NEW o \in Object, ReplaceDestroys(o)
  PROVE  Known' /\ UNCHANGED Promise!accVars
<1>1. IndInv /\ IndInv' /\ Local(o)
  BY ReplaceDestroysStep DEF RefInv
<1>2. UNCHANGED <<handle, told, fed, saved>> /\ call[o].in = "replace"
      /\ Free(handle[o]) /\ Thread(o, "assign", call[o].pointer)
  BY DEF ReplaceDestroys
<1>3. /\ call[o].pointer \in DOMAIN heap /\ call[o].pointer # handle[o]
      /\ call[o].pointer \in Address \cup {Null}
  BY <1>1, <1>2, HeldNow DEF PlacedAt, IndInv, Typed
<1>4. heap'[call[o].pointer] = heap[call[o].pointer]
  BY <1>1, <1>2, <1>3, FreeHeap DEF IndInv
<1>5. call'[o].in = "assign" /\ call'[o].pointer = call[o].pointer
  BY <1>1, <1>2, <1>3, ThreadStep DEF IndInv, Places
<1>6. Has(o)' = Has(o) /\ Wants(o)' = Wants(o) /\ Holds(o)' \subseteq {call[o].pointer}
  BY <1>2, <1>4, <1>5 DEF Has, Wants, InUse, Holds
<1>7. \A b \in Holds(o)' : Past(heap'[b].docs, fed')
  BY <1>2, <1>3, <1>4, <1>6 DEF RefInv, Known
<1>8. fed' >= fed
  BY <1>1, <1>2 DEF IndInv, Typed
<1>9. Known'
  BY <1>1, <1>2, <1>5, <1>7, <1>8, KnownStep
<1>10. QED
  BY <1>1, <1>2, <1>6, <1>9, Stutters

LEMMA ReplaceAssignsRefines ==
  ASSUME RefInv, NEW o \in Object, ReplaceAssigns(o)
  PROVE  Known' /\ Promise!Next
<1>1. IndInv /\ IndInv' /\ Local(o)
  BY ReplaceAssignsStep DEF RefInv
<1>2. UNCHANGED <<heap, fed, saved>> /\ call[o].in = "assign"
      /\ handle' = [handle EXCEPT ![o] = call[o].pointer] /\ Returned(o)
  BY DEF ReplaceAssigns
<1>3. /\ call[o].pointer \in DOMAIN heap /\ call[o].pointer # Null
  BY <1>1, <1>2, HeldNow DEF PlacedAt
<1>4. call'[o].in = "idle" /\ call'[o].pointer = Null /\ handle'[o] = call[o].pointer
  BY <1>1, <1>2, ReturnStep DEF IndInv, Typed
<1>5. heap[call[o].pointer].docs \in Seq(Document)
  BY <1>1, <1>3 DEF IndInv, Typed, ContentOK, HandleContent, BufferContent
<1>6. /\ Has(o) = Nothing /\ Wants(o) = heap[call[o].pointer].docs /\ Wants(o) # Nothing
      /\ Has(o)' = Wants(o) /\ Wants(o)' = Nothing /\ Holds(o)' = {call[o].pointer}
  BY <1>2, <1>3, <1>4, <1>5, NothingAssumption DEF Has, Wants, InUse, Holds
<1>7. \A b \in Holds(o)' : Past(heap'[b].docs, fed')
  BY <1>2, <1>3, <1>6 DEF RefInv, Known
<1>8. fed' >= fed
  BY <1>1, <1>2 DEF IndInv, Typed
<1>9. Known'
  BY <1>1, <1>2, <1>4, <1>7, <1>8, KnownStep
<1>10. /\ AcceptedNow' = [AcceptedNow EXCEPT ![o] = AskedNow[o]]
       /\ AskedNow' = [AskedNow EXCEPT ![o] = Nothing] /\ AskedNow[o] # Nothing
  BY <1>1, <1>6, OneChanges
<1>11. Promise!TakeUp(o)
  BY <1>2, <1>10 DEF Promise!TakeUp, AcceptedNow, AskedNow
<1>12. QED
  BY <1>9, <1>11 DEF Promise!Next

LEMMA SerializeRefines ==
  ASSUME RefInv, NEW o \in Object, NEW is \in {"state", "report"}, Serialize(o, is)
  PROVE  Known' /\ UNCHANGED Promise!accVars
<1> DEFINE content == [is |-> is, docs |-> heap[handle[o]].docs]
<1>1. IndInv /\ IndInv' /\ Local(o)
  BY SerializeStep DEF RefInv
<1>2. PICK a \in Address : Alloc(a, content) /\ Thread(o, "copy", a)
  BY DEF Serialize
<1>3. UNCHANGED <<handle, told, fed, saved>>
      /\ call[o].in = "idle" /\ call[o].pointer = Null /\ handle[o] # Null
  BY DEF Serialize, RequireOpen, Resting, Idle
<1>4. handle[o] \in DOMAIN heap
  BY <1>1, <1>3, HeldNow
<1>5. ContentOK(content)
  <2>1. ContentOK(heap[handle[o]])
    BY <1>1, <1>4 DEF IndInv, Typed
  <2>2. QED
    BY <2>1, SerializedContent
<1>6. content.docs = heap[handle[o]].docs
  OBVIOUS
<1> HIDE DEF content
<1>7. heap'[a] = content /\ \A b \in DOMAIN heap : heap'[b] = heap[b]
  BY <1>1, <1>2, <1>5, AllocHeap DEF IndInv
<1>8. call'[o].in = "copy" /\ call'[o].pointer = a
  BY <1>1, <1>2, ThreadStep DEF IndInv, Places
<1>9. Has(o)' = Has(o) /\ Wants(o)' = Wants(o) /\ Holds(o)' \subseteq {a, handle[o]}
  BY <1>3, <1>4, <1>7, <1>8 DEF Has, Wants, InUse, Holds
<1>10. \A b \in Holds(o)' : Past(heap'[b].docs, fed')
  <2>1. Past(heap[handle[o]].docs, fed)
    BY <1>4 DEF RefInv, Known
  <2>2. QED
    BY <1>3, <1>4, <1>6, <1>7, <1>9, <2>1
<1>11. heap'[call'[o].pointer].docs = heap'[handle'[o]].docs
  BY <1>3, <1>4, <1>6, <1>7, <1>8
<1>12. fed' >= fed
  BY <1>1, <1>3 DEF IndInv, Typed
<1>13. Known'
  BY <1>1, <1>3, <1>10, <1>11, <1>12, KnownStep
<1>14. QED
  BY <1>1, <1>3, <1>9, <1>13, Stutters

LEMMA CopyRefines ==
  ASSUME RefInv, NEW o \in Object, Copy(o)
  PROVE  Known' /\ (Promise!Next \/ UNCHANGED Promise!accVars)
<1> DEFINE docs == heap[call[o].pointer].docs
<1>1. IndInv /\ IndInv' /\ Local(o)
  BY CopyStep DEF RefInv
<1>2. /\ UNCHANGED <<heap, handle, told, fed>> /\ call[o].in = "copy"
      /\ Thread(o, "release", call[o].pointer)
      /\ saved' = saved \cup {docs} \/ saved' = saved
  BY DEF Copy
<1>3. /\ call[o].pointer \in DOMAIN heap /\ call[o].pointer \in Address \cup {Null}
      /\ handle[o] # Null /\ handle[o] \in DOMAIN heap
  BY <1>1, <1>2, HeldNow DEF PlacedAt, IndInv, Typed
<1>4. call'[o].in = "release" /\ call'[o].pointer = call[o].pointer
  BY <1>1, <1>2, <1>3, ThreadStep DEF IndInv, Places
<1>5. docs = heap[handle[o]].docs
  BY <1>2 DEF RefInv, Known
<1> HIDE DEF docs
<1>6. Has(o)' = Has(o) /\ Wants(o)' = Wants(o) /\ Has(o) = docs
      /\ Holds(o)' \subseteq {call[o].pointer, handle[o]}
  BY <1>2, <1>3, <1>4, <1>5 DEF Has, Wants, InUse, Holds
<1>7. \A b \in Holds(o)' : Past(heap'[b].docs, fed')
  BY <1>2, <1>3, <1>6 DEF RefInv, Known
<1>8. \A s \in saved' \ saved : Past(s, fed')
  BY <1>2, <1>3, <1>5 DEF RefInv, Known
<1>9. fed' >= fed
  BY <1>1, <1>2 DEF IndInv, Typed
<1>10. Known'
  BY <1>1, <1>4, <1>7, <1>8, <1>9, KnownStep
<1>11. CASE saved' = saved
  BY <1>1, <1>6, <1>10, <1>11, Stutters
<1>12. CASE saved' = saved \cup {docs}
  <2>1. AcceptedNow' = AcceptedNow /\ AskedNow' = AskedNow
    <3>1. AcceptedNow' = [AcceptedNow EXCEPT ![o] = AcceptedNow[o]]
          /\ AskedNow' = [AskedNow EXCEPT ![o] = AskedNow[o]]
      BY <1>1, <1>6, OneChanges
    <3>2. QED
      BY <3>1 DEF AcceptedNow, AskedNow
  <2>2. AcceptedNow[o] = docs
    BY <1>1, <1>6, OneChanges
  <2>3. AcceptedNow[o] # Nothing
    BY <1>1, <1>2, <1>3, <2>2, <1>6, Maps DEF Mapping, InUse
  <2>4. Promise!Save(o)
    BY <1>12, <2>1, <2>2, <2>3 DEF Promise!Save, Promise!Opened, AcceptedNow, AskedNow
  <2>5. QED
    BY <1>10, <2>4 DEF Promise!Next
<1>13. QED
  BY <1>2, <1>11, <1>12

LEMMA ReleaseRefines ==
  ASSUME RefInv, NEW o \in Object, Release(o)
  PROVE  Known' /\ UNCHANGED Promise!accVars
<1>1. IndInv /\ IndInv' /\ Local(o)
  BY ReleaseStep DEF RefInv
<1>2. UNCHANGED <<handle, told, fed, saved>> /\ call[o].in = "release"
      /\ Free(call[o].pointer) /\ Returned(o)
  BY DEF Release
<1>3. call[o].pointer # handle[o] /\ handle[o] # Null /\ handle[o] \in DOMAIN heap
  BY <1>1, <1>2, HeldNow DEF PlacedAt
<1>4. heap'[handle[o]] = heap[handle[o]]
  BY <1>1, <1>2, <1>3, FreeHeap DEF IndInv
<1>5. call'[o].in = "idle" /\ call'[o].pointer = Null
  BY <1>1, <1>2, ReturnStep DEF IndInv
<1>6. Has(o)' = Has(o) /\ Wants(o)' = Wants(o) /\ Holds(o)' \subseteq {handle[o]}
  BY <1>2, <1>4, <1>5 DEF Has, Wants, InUse, Holds
<1>7. \A b \in Holds(o)' : Past(heap'[b].docs, fed')
  BY <1>2, <1>3, <1>4, <1>6 DEF RefInv, Known
<1>8. fed' >= fed
  BY <1>1, <1>2 DEF IndInv, Typed
<1>9. Known'
  BY <1>1, <1>2, <1>5, <1>7, <1>8, KnownStep
<1>10. QED
  BY <1>1, <1>2, <1>6, <1>9, Stutters

-----------------------------------------------------------------------------
LEMMA InitRefines == Init => Known /\ Promise!Init
<1> SUFFICES ASSUME Init PROVE Known /\ Promise!Init
  OBVIOUS
<1>1. DOMAIN heap = {} /\ saved = {} /\ \A o \in Object : call[o].in = "idle" /\ handle[o] = Null
  BY DEF Init, Idle
<1>2. Known
  BY <1>1 DEF Known
<1>3. Promise!Init
  BY <1>1 DEF Promise!Init, InUse
<1>4. QED
  BY <1>2, <1>3

LEMMA NextRefines == RefInv /\ [Next]_vars => Known' /\ [Promise!Next]_(Promise!accVars)
<1> SUFFICES ASSUME RefInv, [Next]_vars
             PROVE  Known' /\ (Promise!Next \/ UNCHANGED Promise!accVars)
  OBVIOUS
<1>1. CASE UNCHANGED vars
  <2>1. /\ heap' = heap /\ handle' = handle /\ call' = call /\ fed' = fed /\ saved' = saved
    BY <1>1 DEF vars
  <2>2. Known'
    BY <2>1 DEF RefInv, Known
  <2>3. UNCHANGED Promise!accVars
    <3>1. AcceptedNow' = AcceptedNow /\ AskedNow' = AskedNow
      BY <2>1 DEF AcceptedNow, AskedNow, InUse, DocsAt
    <3>2. <<AcceptedNow, AskedNow, saved>>' = <<AcceptedNow, AskedNow, saved>>
      BY <2>1, <3>1
    <3>3. QED
      BY <3>2, Lists
  <2>4. QED
    BY <2>2, <2>3
<1>2. ASSUME NEW o \in Object, NEW buffer \in Buffer, FeedJsonl(o, buffer)
      PROVE  Known' /\ Promise!Next
  <2>1. DocumentsIn(buffer) \in Nat
    BY CountIsNat, BufferAssumption
  <2>2. QED
    BY <1>2, <2>1, FeedRefines DEF FeedJsonl, Accepted
<1>3. ASSUME NEW o \in Object, NEW line \in {"document", "faulty"}, Feed(o, line)
      PROVE  Known' /\ Promise!Next
  <2>1. <<line>> \in Seq({"document", "faulty"})
    OBVIOUS
  <2>2. DocumentsIn(<<line>>) \in Nat
    BY <2>1, CountIsNat
  <2>3. QED
    BY <1>3, <2>2, FeedRefines DEF Feed
<1>4. QED
  BY <1>1, <1>2, <1>3, CreateRefines, CloseDestroysRefines, CloseForgetsRefines,
     RestoreCreatesRefines, RestoreConstructsRefines, ReplaceDestroysRefines,
     ReplaceAssignsRefines, SerializeRefines, CopyRefines, ReleaseRefines DEF Next

\* The native handles, buffers and calls implement lists of documents: whatever
\* was opened, saved, restored and closed in between, an object is the documents
\* it took up and those it accepted since, none of which another object has.
THEOREM BindingImplementsAccumulators == Spec => ImplementsAccumulators
<1>1. IndInv /\ Known /\ [Next]_vars => Known' /\ [Promise!Next]_(Promise!accVars)
  BY NextRefines DEF RefInv
<1>2. QED
  BY <1>1, InitInv, NextInv, InitRefines, PTL DEF Spec, ImplementsAccumulators, Promise!Spec
=============================================================================
