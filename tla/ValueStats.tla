----------------------------- MODULE ValueStats -----------------------------
(***************************************************************************)
(* What a node keeps of the scalar values seen at its place (analyzer.rs,  *)
(* StringStats and NumericStats) and the messages of state.proto that they *)
(* travel in.  The table of skeletons is the one of module Sketch, whose   *)
(* stream are the strings of no known format.                              *)
(*                                                                         *)
(* A string is its length, its format and its skeleton; detect_format and  *)
(* skeleton are functions of the string and nothing here depends on how    *)
(* they find their result.  A number is counted in halves, so that numbers *)
(* that are whole and numbers that are not can be told apart.              *)
(***************************************************************************)
EXTENDS Sketch, DistSketch, Messages

CONSTANTS
  Text,      \* strings: [len, format, skeleton]
  Number,    \* numbers: [halves, kind]
  LenBuckets \* buckets of string lengths by powers of two: 32

\* The formats of strings, each at its number in state.proto.
Format == <<"uuid", "isoTimestamp", "isoDate", "ipv4", "ipv6", "email", "urlHttp",
            "allDigits", "allAlpha", "alphaNum", "other">>

ASSUME TextAssumption ==
  \A s \in Text :
    s.len \in 0 .. MaxValue /\ s.format \in ToSet(Format) /\ (s.format = "other" => s.skeleton \in Key)
ASSUME NumberAssumption ==
  \A n \in Number : n.halves \in -MaxValue .. MaxValue /\ n.kind \in {"i64", "u64", "f64"}
ASSUME LenBucketsAssumption == LenBuckets \in Nat \ {0}

VARIABLES
  strings,   \* StringStats without its skeletons
  numbers,   \* NumericStats
  lengths,   \* history: how often a string had a length
  values     \* history: how often a number had a value

valueVars == <<strings, numbers, lengths, values>>

-----------------------------------------------------------------------------
NewStrings ==
  [count |-> 0, minLen |-> 0, maxLen |-> 0, formats |-> NoBuckets,
   lengthBuckets |-> [i \in 1 .. LenBuckets |-> 0], lengthSketch |-> NewDist]
NewNumbers ==
  [count |-> 0, min |-> Infinity, max |-> -Infinity,
   negative |-> 0, zero |-> 0, positive |-> 0, integerValued |-> 0, sketch |-> NewDist]

\* The place of a length among the buckets.
LenBucket(len) == Max({1} \cup {i \in 2 .. LenBuckets : 2 ^ (i - 1) <= len})

\* StringStats::observe, but for the skeletons.
StringsObserve(st, s) ==
  [count  |-> st.count + 1,
   minLen |-> IF st.count = 0 THEN s.len ELSE Min({st.minLen, s.len}),
   maxLen |-> IF st.count = 0 THEN s.len ELSE Max({st.maxLen, s.len}),
   formats |-> Bump(st.formats, s.format),
   lengthBuckets |-> [st.lengthBuckets EXCEPT ![LenBucket(s.len)] = @ + 1],
   lengthSketch |-> DistObserve(st.lengthSketch, s.len)]

Whole(n) == n.kind \in {"i64", "u64"} \/ n.halves % 2 = 0

NumbersObserve(st, n) ==
  [st EXCEPT
     !.count = @ + 1,
     !.min = Min({@, n.halves}),
     !.max = Max({@, n.halves}),
     !.negative = @ + (IF n.halves < 0 THEN 1 ELSE 0),
     !.zero = @ + (IF n.halves = 0 THEN 1 ELSE 0),
     !.positive = @ + (IF n.halves > 0 THEN 1 ELSE 0),
     !.integerValued = @ + (IF Whole(n) THEN 1 ELSE 0),
     !.sketch = DistObserve(@, n.halves)]

ValueInit ==
  /\ Init
  /\ strings = NewStrings /\ numbers = NewNumbers
  /\ lengths = [v \in 0 .. MaxValue |-> 0]
  /\ values = [v \in -MaxValue .. MaxValue |-> 0]

MayObserve == strings.count + numbers.count < MaxObs

\* observe_string
ObserveString(s) ==
  /\ MayObserve
  /\ strings' = StringsObserve(strings, s)
  /\ IF s.format = "other" THEN Observe(s.skeleton) ELSE UNCHANGED vars
  /\ lengths' = [lengths EXCEPT ![s.len] = @ + 1]
  /\ UNCHANGED <<numbers, values>>

\* observe_number
ObserveNumber(n) ==
  /\ MayObserve
  /\ numbers' = NumbersObserve(numbers, n)
  /\ values' = [values EXCEPT ![n.halves] = @ + 1]
  /\ UNCHANGED <<vars, strings, lengths>>

ValueNext ==
  \/ \E s \in Text : ObserveString(s)
  \/ \E n \in Number : ObserveNumber(n)

ValueSpec == ValueInit /\ [][ValueNext]_<<vars, valueVars>>

-----------------------------------------------------------------------------
(* The statistics as the code holds them.  Caps and the width of a bucket  *)
(* are constants of the code, far from the 32 bits of the messages; sums,  *)
(* which only means are taken from, are left out.                          *)
Capped(d) ==
  [pos |-> d.pos, neg |-> d.neg, zero |-> d.zero, count |-> d.count, min |-> d.min, max |-> d.max,
   cap |-> DistCap, gamma |-> BucketWidth]

StringStats ==
  [count |-> strings.count, minLen |-> strings.minLen, maxLen |-> strings.maxLen,
   formats |-> strings.formats, lengthBuckets |-> strings.lengthBuckets,
   lengthSketch |-> Capped(strings.lengthSketch),
   skeletons |-> [counters |-> table.counters, cap |-> Cap, evictions |-> table.evictions],
   otherCount |-> observations]

NumericStats ==
  [count |-> numbers.count, min |-> numbers.min, max |-> numbers.max,
   negative |-> numbers.negative, zero |-> numbers.zero, positive |-> numbers.positive,
   integerValued |-> numbers.integerValued, sketch |-> Capped(numbers.sketch)]

-----------------------------------------------------------------------------
(* Messages.                                                               *)
\* Mutant: the count is taken from the buckets.
DistFromBuckets(m) ==
  LET d == [pos |-> FromEntries(m.pos), neg |-> FromEntries(m.neg), zero |-> m.zeroCount,
            count |-> 0, min |-> m.min, max |-> m.max, cap |-> m.cap, gamma |-> m.gamma]
  IN [d EXCEPT !.count = HeldMass(d)]

DistMessage(d) ==
  [pos |-> Entries(d.pos), neg |-> Entries(d.neg), zeroCount |-> d.zero, count |-> d.count,
   min |-> d.min, max |-> d.max, cap |-> d.cap, gamma |-> d.gamma]
DistFrom(m) ==
  [pos |-> FromEntries(m.pos), neg |-> FromEntries(m.neg), zero |-> m.zeroCount,
   count |-> m.count, min |-> m.min, max |-> m.max, cap |-> m.cap, gamma |-> m.gamma]

TableMessage(t) == [counters |-> Entries(t.counters), cap |-> t.cap, evictions |-> t.evictions]
TableFrom(m) == [counters |-> FromEntries(m.counters), cap |-> m.cap, evictions |-> m.evictions]

FormatsMessage(formats) ==
  Entries([n \in {i \in DOMAIN Format : Format[i] \in DOMAIN formats} |-> formats[Format[n]]])

\* Numbers that are no format are dropped.
FormatNumber(f) == CHOOSE n \in DOMAIN Format : Format[n] = f
FormatsFrom(list) ==
  LET counts == FromEntries(list)
  IN [f \in {Format[n] : n \in DOMAIN Format \cap DOMAIN counts} |-> counts[FormatNumber(f)]]

StringsMessage(st) ==
  [count |-> st.count, minLen |-> st.minLen, maxLen |-> st.maxLen,
   formats |-> FormatsMessage(st.formats), lengthBuckets |-> st.lengthBuckets,
   lengthSketch |-> <<DistMessage(st.lengthSketch)>>,
   skeletons |-> <<TableMessage(st.skeletons)>>, otherCount |-> st.otherCount]

\* Lengths beyond the known buckets are dropped, buckets that are not there are 0.
StringsFrom(m) ==
  [count |-> m.count, minLen |-> m.minLen, maxLen |-> m.maxLen,
   formats |-> FormatsFrom(m.formats),
   lengthBuckets |-> [i \in 1 .. LenBuckets |->
                        IF i \in DOMAIN m.lengthBuckets THEN m.lengthBuckets[i] ELSE 0],
   lengthSketch |-> DistFrom(m.lengthSketch[1]),
   skeletons |-> TableFrom(m.skeletons[1]), otherCount |-> m.otherCount]

NumbersMessage(st) ==
  [count |-> st.count, min |-> st.min, max |-> st.max, negative |-> st.negative,
   zero |-> st.zero, positive |-> st.positive, integerValued |-> st.integerValued,
   sketch |-> <<DistMessage(st.sketch)>>]
NumbersFrom(m) ==
  [count |-> m.count, min |-> m.min, max |-> m.max, negative |-> m.negative,
   zero |-> m.zero, positive |-> m.positive, integerValued |-> m.integerValued,
   sketch |-> DistFrom(m.sketch[1])]

-----------------------------------------------------------------------------
\* A sketch holds no more buckets than it may, and has lost nothing unless it
\* was full: the memory of a field is bounded over an endless stream.
DistBounded(d) ==
  /\ Buckets(d) <= DistCap
  /\ Lost(d) > 0 => Buckets(d) = DistCap

Quantiles == {<<0, 1>>, <<1, 2>>, <<9, 10>>, <<99, 100>>, <<1, 1>>}

\* With seen the values a sketch was given: at least the rank that was asked for
\* lies at or below its answer, and what lies below the answer falls short of
\* the rank or exceeds it by less than the mass that was lost.
QuantileHasRank(d, seen) ==
  LET many(vs) == SumOver(seen, vs)
      rank(q) == Max({1, CeilDiv(q[1] * many(DOMAIN seen), q[2])})
  IN d.count > 0 =>
       \A q \in Quantiles :
         LET answer == Quantile(d, q)
         IN /\ many({v \in DOMAIN seen : Bucket(v) <= answer}) >= rank(q)
            /\ many({v \in DOMAIN seen : Bucket(v) < answer}) < rank(q) + Lost(d)

\* Percentiles are never too low, and too high by no more than evictions have
\* cost; without evictions, and there are none before the sketch is full, they
\* are exact up to the width of a bucket.
QuantilesHaveRank ==
  /\ DistBounded(strings.lengthSketch) /\ QuantileHasRank(strings.lengthSketch, lengths)
  /\ DistBounded(numbers.sketch) /\ QuantileHasRank(numbers.sketch, values)

\* The statistics that come out of a snapshot are those that went in: what was
\* evicted before, the caps that decide what is evicted next, and every format.
StatsRestored ==
  /\ StringsFrom(StringsMessage(StringStats)) = StringStats
  /\ NumbersFrom(NumbersMessage(NumericStats)) = NumericStats
=============================================================================
