----------------------------- MODULE DistSketch -----------------------------
(***************************************************************************)
(* The distribution sketch (analyzer.rs, DistSketch): counts of values in  *)
(* buckets on a logarithmic scale, positive and negative apart, at most    *)
(* DistCap of them.  When there are too many the one with the least count  *)
(* goes and what it counted is lost.                                       *)
(*                                                                         *)
(* Values are integers.  Of the logarithm only this is kept: the index of  *)
(* a bucket grows with the magnitude, and one bucket takes several         *)
(* magnitudes.  The value that stands for a bucket is the bucket itself.   *)
(* The sum is left out.                                                    *)
(***************************************************************************)
EXTENDS Integers, FiniteSetsExt, Sums

CONSTANTS
  DistCap,       \* buckets: 256
  BucketWidth,   \* magnitudes in a bucket
  MaxValue       \* bound of the model: the largest magnitude

ASSUME DistAssumption ==
  DistCap \in Nat \ {0} /\ BucketWidth \in Nat \ {0} /\ MaxValue \in Nat

Infinity == MaxValue + 1
CeilDiv(a, b) == (a + b - 1) \div b
Index(magnitude) == CeilDiv(magnitude, BucketWidth)

\* The bucket of a value, with the sign of the value.
Bucket(v) == IF v < 0 THEN -Index(-v) ELSE Index(v)

NoBuckets == [i \in {} |-> 0]
NewDist ==
  [pos |-> NoBuckets, neg |-> NoBuckets, zero |-> 0, count |-> 0,
   min |-> Infinity, max |-> -Infinity]

Bump(buckets, i) ==
  [j \in DOMAIN buckets \cup {i} |->
     (IF j \in DOMAIN buckets THEN buckets[j] ELSE 0) + (IF j = i THEN 1 ELSE 0)]
Without(buckets, i) == [j \in DOMAIN buckets \ {i} |-> buckets[j]]

\* The lowest index of those with the least count.
Smallest(buckets) ==
  Min({i \in DOMAIN buckets : \A j \in DOMAIN buckets : buckets[i] <= buckets[j]})

EvictSmallest(d) ==
  LET ofPositive ==
        /\ DOMAIN d.pos # {}
        /\ DOMAIN d.neg # {} => d.pos[Smallest(d.pos)] <= d.neg[Smallest(d.neg)]
  IN IF ofPositive THEN [d EXCEPT !.pos = Without(@, Smallest(@))]
                   ELSE [d EXCEPT !.neg = Without(@, Smallest(@))]

Buckets(d) == Cardinality(DOMAIN d.pos) + Cardinality(DOMAIN d.neg)

Overfull(d) == Buckets(d) > DistCap

DistObserve(d, v) ==
  LET counted == [d EXCEPT !.count = @ + 1, !.min = Min({@, v}), !.max = Max({@, v})]
      placed == IF v = 0 THEN [counted EXCEPT !.zero = @ + 1]
                ELSE IF v > 0 THEN [counted EXCEPT !.pos = Bump(@, Index(v))]
                ELSE [counted EXCEPT !.neg = Bump(@, Index(-v))]
  IN IF Overfull(placed) THEN EvictSmallest(placed) ELSE placed

-----------------------------------------------------------------------------
(* Quantiles.                                                              *)
\* The mass held in the buckets up to a signed one.
MassUpTo(d, bucket) ==
  SumOver(d.neg, {i \in DOMAIN d.neg : -i <= bucket}) +
  (IF bucket >= 0 THEN d.zero ELSE 0) +
  SumOver(d.pos, {i \in DOMAIN d.pos : i <= bucket})

HeldMass(d) == MassUpTo(d, Infinity)

\* Mutant: the rank is taken of what is held.
TargetOfHeld(d, q) == Max({1, CeilDiv(q[1] * HeldMass(d), q[2])})

\* The rank of the q-quantile, q as a fraction.
Target(d, q) == Max({1, CeilDiv(q[1] * d.count, q[2])})

\* The first bucket at which the rank is reached.  The rank counts what was
\* lost and the buckets do not, so it may not be reached at all.
Quantile(d, q) ==
  LET held == {-i : i \in DOMAIN d.neg} \cup {0} \cup DOMAIN d.pos
      reached == {bucket \in held : MassUpTo(d, bucket) >= Target(d, q)}
  IN IF reached = {} THEN Bucket(d.max) ELSE Min(reached)

\* What the evicted buckets had counted.
Lost(d) == d.count - HeldMass(d)
=============================================================================
