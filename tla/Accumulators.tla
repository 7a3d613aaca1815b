---------------------------- MODULE Accumulators ----------------------------
(***************************************************************************)
(* What the JVM binding promises: an analyzer object is a list of the      *)
(* documents it has accepted, and a state buffer is such a list that can   *)
(* be taken up again any number of times, by any object, whatever became   *)
(* of the object it was taken from.  No memory, no pointers, no ordinals.  *)
(***************************************************************************)
EXTENDS Naturals, Sequences

CONSTANTS
  Object,   \* JVM analyzer objects
  Nothing   \* no list: an object that is not open

VARIABLES
  accepted,  \* a list of documents for every open object
  asked,     \* the list that an object is about to take up, or Nothing
  saved      \* the lists that were taken as buffers

accVars == <<accepted, asked, saved>>

Init ==
  /\ accepted = [o \in Object |-> Nothing]
  /\ asked = [o \in Object |-> Nothing]
  /\ saved = {}

Opened(o) == accepted[o] # Nothing

Open(o) ==
  /\ ~Opened(o) /\ asked[o] = Nothing
  /\ accepted' = [accepted EXCEPT ![o] = <<>>]
  /\ UNCHANGED <<asked, saved>>

\* A buffer is taken up: it is asked for, and then it is there.
Ask(o, list) ==
  /\ ~Opened(o) /\ asked[o] = Nothing
  /\ asked' = [asked EXCEPT ![o] = list]
  /\ UNCHANGED <<accepted, saved>>

TakeUp(o) ==
  /\ asked[o] # Nothing
  /\ accepted' = [accepted EXCEPT ![o] = asked[o]]
  /\ asked' = [asked EXCEPT ![o] = Nothing]
  /\ UNCHANGED saved

\* Some documents more, none of which another object has.
Feed(o) ==
  /\ Opened(o)
  /\ Opened(o)'
  /\ accepted' = [accepted EXCEPT ![o] = accepted'[o]]
  /\ SubSeq(accepted'[o], 1, Len(accepted[o])) = accepted[o]
  /\ \A i \in DOMAIN accepted'[o] \ DOMAIN accepted[o] :
       \A p \in Object : Opened(p) => \A j \in DOMAIN accepted[p] : accepted[p][j] # accepted'[o][i]
  /\ UNCHANGED <<asked, saved>>

Save(o) ==
  /\ Opened(o)
  /\ saved' = saved \cup {accepted[o]}
  /\ UNCHANGED <<accepted, asked>>

Close(o) ==
  /\ Opened(o)
  /\ accepted' = [accepted EXCEPT ![o] = Nothing]
  /\ UNCHANGED <<asked, saved>>

Next ==
  \E o \in Object :
    \/ Open(o)
    \/ \E list \in saved : Ask(o, list)
    \/ TakeUp(o)
    \/ Feed(o)
    \/ Save(o)
    \/ Close(o)

Spec == Init /\ [][Next]_accVars
=============================================================================
