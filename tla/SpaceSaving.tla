---------------------------- MODULE SpaceSaving ----------------------------
(***************************************************************************)
(* The Space-Saving counter table (Metwally, Agrawal, El Abbadi) that the  *)
(* analyzer keeps per array node and per string field (analyzer.rs,        *)
(* SpaceSaving) and that the syntax sniffer keeps per n-gram profile       *)
(* (ngram.rs, SpaceSaving).  A table is a record                           *)
(*                                                                         *)
(*     counters   a function from the keys held to their counts            *)
(*     evictions  how many observations displaced a key                    *)
(*                                                                         *)
(* The code takes the first minimum that the iteration over a HashMap      *)
(* meets.  That order is different in every process, so the victim is ANY  *)
(* key with the least count: an observation has a set of outcomes.         *)
(***************************************************************************)
EXTENDS Naturals, FiniteSets

NewTable == [counters |-> [k \in {} |-> 0], evictions |-> 0]

Held(table) == DOMAIN table.counters

\* The estimate of a key's frequency: 0 for a key the table does not hold.
Estimate(table, key) ==
  IF key \in Held(table) THEN table.counters[key] ELSE 0

\* Mutant: any key is displaced.
AnyHeld(table) == Held(table)

Lightest(table) ==
  {k \in Held(table) : \A j \in Held(table) : table.counters[k] <= table.counters[j]}

\* The key is held: its counter goes up.
Count(table, key) ==
  [counters  |-> [k \in Held(table) |->
                    IF k = key THEN table.counters[k] + 1 ELSE table.counters[k]],
   evictions |-> table.evictions]

\* There is room: the key enters with a count of one.
Admit(table, key) ==
  [counters  |-> [k \in Held(table) \cup {key} |->
                    IF k = key THEN 1 ELSE table.counters[k]],
   evictions |-> table.evictions]

\* Mutants: the key does not inherit the count; the eviction is not counted.
DisplaceAfresh(table, victim, key) ==
  [counters  |-> [k \in (Held(table) \ {victim}) \cup {key} |->
                    IF k = key THEN 1 ELSE table.counters[k]],
   evictions |-> table.evictions + 1]

DisplaceSilently(table, victim, key) ==
  [counters  |-> [k \in (Held(table) \ {victim}) \cup {key} |->
                    IF k = key THEN table.counters[victim] + 1 ELSE table.counters[k]],
   evictions |-> table.evictions]

\* The table is full: the key takes the victim's place and its count plus one.
Displace(table, victim, key) ==
  [counters  |-> [k \in (Held(table) \ {victim}) \cup {key} |->
                    IF k = key THEN table.counters[victim] + 1 ELSE table.counters[k]],
   evictions |-> table.evictions + 1]

HasRoom(table, cap) == Cardinality(Held(table)) < cap

\* Every table that observing the key can leave.
Observed(table, cap, key) ==
  IF key \in Held(table) THEN {Count(table, key)}
  ELSE IF HasRoom(table, cap) THEN {Admit(table, key)}
  ELSE {Displace(table, v, key) : v \in Lightest(table)}
=============================================================================
