----------------------------- MODULE Admission -----------------------------
(***************************************************************************)
(* The admission policy of the streaming sniffer (shapez-sniff/stream.rs,  *)
(* Admission): which units of a stream of unknown length are profiled.  A  *)
(* prefix first, then a bounded number of windows with a gap before each   *)
(* that doubles, every window opening after a newline when there is one in *)
(* reach.  The stream arrives in chunks; feed walks a chunk in a loop, one *)
(* action per branch of the loop here.                                     *)
(*                                                                         *)
(* A unit is a byte of the normalized stream.  The history variable        *)
(* admitted has what emit was called with, unit by unit.                   *)
(***************************************************************************)
EXTENDS Naturals, Sequences

CONSTANTS
  Unit,     \* the units of a stream
  Budgets,  \* the budgets considered
  MaxU64    \* u64::MAX, where the doubling of the gap saturates

Newline == 10
AtLeastOne(n) == IF n = 0 THEN 1 ELSE n
Least(m, n) == IF m <= n THEN m ELSE n

Budget == [prefix : Nat, window : Nat, windows : Nat, maxBytes : Nat]

ASSUME UnitAssumption == Unit \subseteq 0 .. 255
ASSUME BudgetsAssumption == Budgets \subseteq Budget
ASSUME MaxU64Assumption == MaxU64 \in Nat /\ \A b \in Budgets : AtLeastOne(b.window) <= MaxU64

VARIABLES
  budget,
  phase,         \* "prefix", "skip", "align", "window" or "done"
  left,          \* units left in the phase
  skip,          \* the next gap
  windowsTaken,
  profiled,      \* units admitted
  seam,          \* the next admitted unit does not follow the previous one
  chunk,         \* what is left of the chunk that is being fed
  busy,          \* feed has not returned yet
  offset,        \* history: units of the stream before chunk
  admitted       \* history: the units admitted, with their offsets

control == <<phase, left, skip, windowsTaken, profiled, seam>>
admissionVars == <<budget, control, chunk, busy, offset, admitted>>

-----------------------------------------------------------------------------
AdmissionInit ==
  /\ budget \in Budgets
  /\ phase = IF budget.prefix = 0 THEN "skip" ELSE "prefix"
  /\ left = IF budget.prefix = 0 THEN AtLeastOne(budget.window) ELSE budget.prefix
  /\ skip = AtLeastOne(budget.window)
  /\ windowsTaken = 0 /\ profiled = 0 /\ seam = FALSE
  /\ chunk = <<>> /\ busy = FALSE
  /\ offset = 0 /\ admitted = <<>>

\* feed is called.
FeedBegin(units) ==
  /\ ~busy
  /\ busy' = TRUE
  /\ chunk' = units
  /\ UNCHANGED <<budget, control, offset, admitted>>

\* n units of the chunk are behind.
Consume(n) ==
  /\ chunk' = SubSeq(chunk, n + 1, Len(chunk))
  /\ offset' = offset + n

\* The rest of the chunk is not looked at.
FeedReturn ==
  /\ Consume(Len(chunk))
  /\ busy' = FALSE

\* The order of the checks at the head of the loop.
Spent == profiled >= budget.maxBytes
PhaseOver == phase # "done" /\ ~Spent /\ left = 0
InPhase(p) == busy /\ phase = p /\ ~Spent /\ left > 0

\* Mutant: the end of the chunk is not noticed.
ReturnWhenDone ==
  /\ busy
  /\ \/ phase = "done" /\ UNCHANGED control
     \/ /\ phase # "done" /\ Spent
        /\ phase' = "done"
        /\ UNCHANGED <<left, skip, windowsTaken, profiled, seam>>
  /\ FeedReturn
  /\ UNCHANGED <<budget, admitted>>

Return ==
  /\ busy
  /\ \/ phase = "done" /\ UNCHANGED control
     \/ /\ phase # "done" /\ Spent
        /\ phase' = "done"
        /\ UNCHANGED <<left, skip, windowsTaken, profiled, seam>>
     \/ phase # "done" /\ ~Spent /\ left > 0 /\ chunk = <<>> /\ UNCHANGED control
  /\ FeedReturn
  /\ UNCHANGED <<budget, admitted>>

Finish ==
  /\ phase' = "done" /\ left' = 0
  /\ UNCHANGED <<skip, windowsTaken, seam>>

NoWindowLeft == windowsTaken >= budget.windows

\* The phase is over: Admission::advance.
Advance ==
  /\ busy /\ PhaseOver
  /\ \/ phase = "prefix" /\ budget.windows = 0 /\ Finish
     \/ /\ phase = "prefix" /\ budget.windows > 0
        /\ phase' = "skip" /\ left' = skip
        /\ UNCHANGED <<skip, windowsTaken, seam>>
     \/ /\ phase = "skip"
        /\ phase' = "align" /\ left' = budget.window
        /\ UNCHANGED <<skip, windowsTaken, seam>>
     \/ phase = "align" /\ NoWindowLeft /\ Finish
     \/ /\ phase = "align" /\ ~NoWindowLeft
        /\ phase' = "window" /\ left' = budget.window
        /\ windowsTaken' = windowsTaken + 1 /\ seam' = TRUE
        /\ UNCHANGED skip
     \/ /\ phase = "window"
        /\ skip' = Least(skip * 2, MaxU64)
        /\ phase' = "skip" /\ left' = skip'
        /\ UNCHANGED <<windowsTaken, seam>>
  /\ UNCHANGED <<budget, profiled, chunk, busy, offset, admitted>>

\* Mutant: the seam is not taken.
EmitKeepingSeam ==
  /\ InPhase("prefix") \/ InPhase("window")
  /\ chunk # <<>>
  /\ LET n == Least(Least(Len(chunk), left), budget.maxBytes - profiled)
     IN /\ admitted' = admitted \o
              [i \in 1 .. n |-> [at |-> offset + i, seam |-> seam /\ i = 1]]
        /\ profiled' = profiled + n
        /\ left' = left - n
        /\ Consume(n)
  /\ UNCHANGED <<budget, phase, skip, windowsTaken, seam, busy>>

\* Units are profiled: as many as the chunk, the phase and the budget allow.
Emit ==
  /\ InPhase("prefix") \/ InPhase("window")
  /\ chunk # <<>>
  /\ LET n == Least(Least(Len(chunk), left), budget.maxBytes - profiled)
     IN /\ admitted' = admitted \o
              [i \in 1 .. n |-> [at |-> offset + i, seam |-> seam /\ i = 1]]
        /\ profiled' = profiled + n
        /\ left' = left - n
        /\ Consume(n)
  /\ seam' = FALSE
  /\ UNCHANGED <<budget, phase, skip, windowsTaken, busy>>

SkipUnits ==
  /\ InPhase("skip")
  /\ chunk # <<>>
  /\ LET n == Least(Len(chunk), left)
     IN left' = left - n /\ Consume(n)
  /\ UNCHANGED <<budget, phase, skip, windowsTaken, profiled, seam, busy, admitted>>

\* Mutant: the window opens on the newline instead of after it.
AlignOnNewline ==
  /\ InPhase("align")
  /\ chunk # <<>>
  /\ LET take == Least(Len(chunk), left)
         newlines == {i \in 1 .. take : chunk[i] = Newline}
     IN \/ \E i \in newlines :
             /\ \A j \in newlines : i <= j
             /\ left' = 0 /\ Consume(i - 1)
        \/ newlines = {} /\ left' = left - take /\ Consume(take)
  /\ UNCHANGED <<budget, phase, skip, windowsTaken, profiled, seam, busy, admitted>>

\* Look for a newline in what the phase may still look at.
Align ==
  /\ InPhase("align")
  /\ chunk # <<>>
  /\ LET take == Least(Len(chunk), left)
         newlines == {i \in 1 .. take : chunk[i] = Newline}
     IN \/ \E i \in newlines :
             /\ \A j \in newlines : i <= j
             /\ left' = 0 /\ Consume(i)
        \/ newlines = {} /\ left' = left - take /\ Consume(take)
  /\ UNCHANGED <<budget, phase, skip, windowsTaken, profiled, seam, busy, admitted>>

Loop == Return \/ Advance \/ Emit \/ SkipUnits \/ Align

IsSatisfied == phase = "done"
=============================================================================
