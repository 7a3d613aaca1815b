------------------------------ MODULE Sampling ------------------------------
(***************************************************************************)
(* The admission policy under a stream that arrives in any chunks, against *)
(* a plan of the windows that is computed from the whole stream at once.   *)
(***************************************************************************)
EXTENDS Admission, FiniteSets

CONSTANTS
  Chunks,   \* the chunks considered
  MaxUnits  \* bound of the model: units of the stream

ASSUME ChunksAssumption == Chunks \subseteq Seq(Unit)
ASSUME MaxUnitsAssumption == MaxUnits \in Nat

VARIABLE stream   \* history: the units fed so far

vars == <<admissionVars, stream>>

Init == AdmissionInit /\ stream = <<>>

Push(units) ==
  /\ Len(stream) + Len(units) <= MaxUnits
  /\ FeedBegin(units)
  /\ stream' = stream \o units

Next ==
  \/ \E units \in Chunks : Push(units)
  \/ Loop /\ UNCHANGED stream

Spec == Init /\ [][Next]_vars
\* The loop of feed runs on; nothing is assumed of the producer.
FairSpec == Spec /\ WF_vars(Loop /\ UNCHANGED stream)

-----------------------------------------------------------------------------
(* The plan.  Window k starts after a gap and an alignment from where window *)
(* k - 1 ended; window 0 is the prefix.  All offsets count from 1.           *)
Length(k) == IF k = 0 THEN budget.prefix ELSE budget.window

PowerOfTwo[k \in Nat] == IF k = 0 THEN 1 ELSE 2 * PowerOfTwo[k - 1]
Gap(k) == Least(AtLeastOne(budget.window) * PowerOfTwo[k - 1], MaxU64)

\* The first offset of a window whose alignment starts at offset s: the one
\* after the first newline within reach, or the first one out of reach.
Aligned(s) ==
  LET reach == s .. (s + budget.window - 1)
      newlines == {i \in reach \cap DOMAIN stream : stream[i] = Newline}
  IN IF newlines = {} THEN s + budget.window
     ELSE 1 + CHOOSE i \in newlines : \A j \in newlines : i <= j

Start[k \in Nat] == IF k = 0 THEN 1 ELSE Aligned(Start[k - 1] + Length(k - 1) + Gap(k))

InWindow(i, k) == i >= Start[k] /\ i < Start[k] + Length(k)

\* The offsets that the plan wants of the units seen so far, in all.
Planned == {i \in DOMAIN stream : \E k \in 0 .. budget.windows : InWindow(i, k)}

\* The budget cuts the plan off.
Wanted == {i \in Planned : Cardinality({j \in Planned : j <= i}) <= budget.maxBytes}

\* An offset by which the last window is over, whatever the stream holds, and
\* the gap and the search after it.
Gaps[k \in Nat] == IF k = 0 THEN 0 ELSE Gaps[k - 1] + Gap(k) + budget.window
Reach == budget.prefix + budget.windows * budget.window + Gaps[budget.windows + 1]

TypeOK ==
  /\ budget \in Budgets
  /\ phase \in {"prefix", "skip", "align", "window", "done"}
  /\ left \in Nat /\ skip \in Nat \ {0} /\ windowsTaken \in Nat /\ profiled \in Nat
  /\ seam \in BOOLEAN /\ busy \in BOOLEAN
  /\ chunk \in Seq(Unit) /\ stream \in Seq(Unit)
  /\ offset \in Nat
  /\ admitted \in Seq([at : Nat \ {0}, seam : BOOLEAN])

\* Whenever feed has returned, exactly the planned units of the stream so far
\* were profiled, in order: how the stream was cut into chunks cannot be seen.
\* Past the reach of the plan the sampler is satisfied: a stream without end
\* does not keep a reader reading.
PlanFollowed ==
  ~busy =>
    /\ offset = Len(stream)
    /\ {admitted[i].at : i \in DOMAIN admitted} = Wanted
    /\ \A i, j \in DOMAIN admitted : i < j => admitted[i].at < admitted[j].at
    /\ Len(stream) >= Reach => IsSatisfied

\* A unit is marked as following a gap exactly when a unit before it was left
\* out or a window starts there: n-grams never bridge a gap, and lines are cut
\* at the seams only.
SeamsAtGaps ==
  ~busy =>
    \A i \in DOMAIN admitted :
      admitted[i].seam <=> \E k \in 1 .. budget.windows : admitted[i].at = Start[k]

\* No more units are profiled than the budget has, at no moment; no more
\* windows are opened.
WithinBudget ==
  /\ Len(admitted) = profiled
  /\ profiled <= budget.maxBytes
  /\ windowsTaken <= budget.windows
  /\ profiled <= budget.prefix + windowsTaken * budget.window

\* feed returns for every chunk: phases that take no units, a window of zero
\* among them, do not keep its loop going round.
FeedReturns == busy ~> ~busy
=============================================================================
