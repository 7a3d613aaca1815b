------------------------------- MODULE Sketch -------------------------------
(***************************************************************************)
(* One Space-Saving table under a stream of observations, with the exact   *)
(* frequencies kept beside it.  It states what the consumers of the table  *)
(* rely on: the cluster list of an array node ranks element shapes by the  *)
(* estimates, should_bail divides by the evictions, and the sniffer's      *)
(* fingerprints ask for the estimate of single n-grams.                    *)
(***************************************************************************)
EXTENDS SpaceSaving, Sums

CONSTANTS
  Key,      \* what is counted: signatures, skeletons, n-grams
  Cap,      \* capacity of the table
  MaxObs    \* bound of the model: observations made

ASSUME KeyAssumption == IsFiniteSet(Key)
ASSUME CapAssumption == Cap \in Nat \ {0}
ASSUME MaxObsAssumption == MaxObs \in Nat

VARIABLES
  table,        \* the sketch
  observations, \* how many observations were made
  freq          \* history: how often each key was observed

vars == <<table, observations, freq>>

Init ==
  /\ table = NewTable
  /\ observations = 0
  /\ freq = [k \in Key |-> 0]

\* What every observation does beside the table.
Tally(key) ==
  /\ observations < MaxObs
  /\ observations' = observations + 1
  /\ freq' = [freq EXCEPT ![key] = @ + 1]

Observe(key) ==
  /\ table' \in Observed(table, Cap, key)
  /\ Tally(key)

Next == \E key \in Key : Observe(key)

Spec == Init /\ [][Next]_vars

-----------------------------------------------------------------------------
TypeOK ==
  /\ Held(table) \subseteq Key
  /\ table = [counters |-> table.counters, evictions |-> table.evictions]
  /\ table.counters \in [Held(table) -> Nat \ {0}]
  /\ table.evictions \in Nat
  /\ observations \in Nat
  /\ freq \in [Key -> Nat]

\* The table never outgrows its capacity, and only a full table has ever
\* displaced a key: what keeps the memory of one array node bounded over an
\* endless stream.
Bounded ==
  /\ Cardinality(Held(table)) <= Cap
  /\ table.evictions > 0 => Cardinality(Held(table)) = Cap

\* Every observation sits in exactly one counter: displacing a key hands its
\* count on and loses nothing, so shares computed from the counters add up.
MassConserved == SumOver(table.counters, Held(table)) = observations

\* A held key is never under-counted: the ranking of clusters can put a rare
\* shape too high but cannot hide a frequent one.
NeverUnderCounted == \A k \in Held(table) : freq[k] <= table.counters[k]

\* A key that was forgotten occurred no more often than any key that is held.
\* This is what makes inheriting the victim's count safe when it comes back.
ForgottenIsLight ==
  \A k \in Key \ Held(table) : \A j \in Held(table) : freq[k] <= table.counters[j]

\* Until the first eviction the table is exact, and it holds every key seen.
ExactBeforeEviction ==
  table.evictions = 0 => \A k \in Key : Estimate(table, k) = freq[k]
=============================================================================
