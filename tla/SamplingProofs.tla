--------------------------- MODULE SamplingProofs ---------------------------
(***************************************************************************)
(* The sampler under any stream in any chunks and with any budget.  That   *)
(* the budget is kept is not inductive: what a phase still may take has to *)
(* be bounded (Room), and a window is counted when it opens and not when   *)
(* its units arrive.  That units are admitted in order rests on where the  *)
(* chunk lies in the stream (Located).                                     *)
(*                                                                         *)
(* The second half is about the plan.  It stays the same, as units arrive, *)
(* as far as units have arrived (PlanStays); where the sampler is in it    *)
(* follows from its phase and from what the phase has left (OnPlan), and   *)
(* what it admitted is what the plan wants of the units behind             *)
(* (TakenUpTo).                                                            *)
(*                                                                         *)
(* The last part is about the sniffer around the sampler (SniffStream): a  *)
(* folder that was fed in any chunks stands where one that was fed at once *)
(* stands (FoldedUpTo), and so what it hands to the sampler is the stream  *)
(* that the module Sampling speaks of.                                     *)
(***************************************************************************)
EXTENDS Sampling, SniffStream, SumProofs, TLAPS, SequenceTheorems, FiniteSetTheorems

\* What the windows opened so far may hold in all.
Granted == budget.prefix + windowsTaken * budget.window

\* A phase that admits units never holds more than was granted.
Room ==
  /\ phase = "prefix" => profiled + left <= budget.prefix
  /\ phase = "window" => profiled + left <= Granted

\* The chunk is the end of the stream.
Located ==
  /\ offset + Len(chunk) = Len(stream)
  /\ ~busy => chunk = <<>>

\* Units are admitted in the order of the stream, none of them twice, and only
\* units that have arrived.
AdmittedInOrder ==
  /\ \A i \in DOMAIN admitted : admitted[i].at <= offset
  /\ \A i, j \in DOMAIN admitted : i < j => admitted[i].at < admitted[j].at

IndInv == TypeOK /\ WithinBudget /\ Room /\ Located /\ AdmittedInOrder

-----------------------------------------------------------------------------
LEMMA LeastOfThree ==
  ASSUME NEW a \in Nat, NEW b \in Nat, NEW c \in Nat
  PROVE  /\ Least(Least(a, b), c) \in Nat
         /\ Least(Least(a, b), c) <= a /\ Least(Least(a, b), c) <= b /\ Least(Least(a, b), c) <= c
         /\ a > 0 /\ b > 0 /\ c > 0 => Least(Least(a, b), c) > 0
<1>1. Least(a, b) \in Nat /\ Least(a, b) <= a /\ Least(a, b) <= b /\ Least(a, b) \in {a, b}
  BY DEF Least
<1> DEFINE m == Least(a, b)
<1> HIDE DEF m
<1>2. m \in Nat /\ m <= a /\ m <= b /\ m \in {a, b}
  BY <1>1 DEF m
<1>3. Least(m, c) \in Nat /\ Least(m, c) <= m /\ Least(m, c) <= c /\ Least(m, c) \in {m, c}
  BY <1>2 DEF Least
<1> DEFINE n == Least(m, c)
<1> HIDE DEF n
<1>4. n \in Nat /\ n <= m /\ n <= c /\ n \in {m, c}
  BY <1>3 DEF n
<1>5. n <= a /\ n <= b /\ (a > 0 /\ b > 0 /\ c > 0 => n > 0)
  BY <1>2, <1>4
<1>6. QED
  BY <1>4, <1>5 DEF m, n

LEMMA BudgetFacts ==
  ASSUME budget \in Budgets
  PROVE  /\ budget.prefix \in Nat /\ budget.window \in Nat
         /\ budget.windows \in Nat /\ budget.maxBytes \in Nat
BY BudgetsAssumption DEF Budget

\* One more window.
LEMMA GrantMore ==
  ASSUME NEW prefix \in Nat, NEW window \in Nat, NEW taken \in Nat
  PROVE  /\ prefix + taken * window \in Nat
         /\ prefix + (taken + 1) * window = prefix + taken * window + window
<1>1. taken * window \in Nat
  OBVIOUS
<1>2. (taken + 1) * window = taken * window + window
  OBVIOUS
<1>3. QED
  BY <1>1, <1>2

\* What a step leaves of the chunk, and where.
LEMMA ConsumeFacts ==
  ASSUME NEW n \in Nat, TypeOK, Located, n <= Len(chunk), Consume(n)
  PROVE  /\ chunk' \in Seq(Unit)
         /\ Len(chunk') = Len(chunk) - n
         /\ offset' = offset + n /\ offset' \in Nat
         /\ offset' + Len(chunk') = Len(stream)
         /\ n = Len(chunk) => chunk' = <<>>
<1>1. chunk \in Seq(Unit) /\ Len(chunk) \in Nat /\ offset \in Nat /\ Len(stream) \in Nat
  BY LenProperties DEF TypeOK
<1>2. chunk' = SubSeq(chunk, n + 1, Len(chunk))
  BY DEF Consume
<1>3. chunk' \in Seq(Unit) /\ Len(chunk') = Len(chunk) - n
  BY <1>1, <1>2, SubSeqProperties
<1>4. n = Len(chunk) => chunk' = <<>>
  BY <1>3, <1>1, EmptySeq
<1>5. offset' = offset + n
  BY DEF Consume
<1>6. offset + Len(chunk) = Len(stream)
  BY DEF Located
<1>7. QED
  BY <1>1, <1>3, <1>4, <1>5, <1>6

\* An offset is a number.
LEMMA OffsetsAreNat ==
  ASSUME TypeOK
  PROVE  /\ DOMAIN admitted = 1 .. Len(admitted) /\ Len(admitted) \in Nat
         /\ \A i \in DOMAIN admitted : admitted[i].at \in Nat
<1> DEFINE Admitted == [at : Nat \ {0}, seam : BOOLEAN]
<1>1. admitted \in Seq(Admitted)
  BY DEF TypeOK
<1> HIDE DEF Admitted
<1>2. DOMAIN admitted = 1 .. Len(admitted) /\ Len(admitted) \in Nat
  BY <1>1, LenProperties
<1>3. ASSUME NEW i \in DOMAIN admitted PROVE admitted[i].at \in Nat
  <2>1. admitted[i] \in Admitted
    BY <1>1, <1>2, ElementOfSeq
  <2>2. QED
    BY <2>1 DEF Admitted
<1>4. QED
  BY <1>2, <1>3

\* Nothing is admitted: the order stays.
LEMMA OrderStays ==
  ASSUME TypeOK, AdmittedInOrder, UNCHANGED admitted,
         offset' \in Nat, offset <= offset'
  PROVE  AdmittedInOrder'
<1>1. ASSUME NEW i \in DOMAIN admitted PROVE admitted[i].at <= offset'
  <2>1. admitted[i].at \in Nat
    BY OffsetsAreNat
  <2>2. admitted[i].at <= offset /\ offset \in Nat
    BY DEF AdmittedInOrder, TypeOK
  <2>3. QED
    BY <2>1, <2>2
<1>2. QED
  BY <1>1 DEF AdmittedInOrder

-----------------------------------------------------------------------------
LEMMA InitInv == Init => IndInv
<1> SUFFICES ASSUME Init PROVE IndInv
  OBVIOUS
<1> USE DEF Init, AdmissionInit
<1>1. budget.prefix \in Nat /\ budget.window \in Nat /\ budget.windows \in Nat /\ budget.maxBytes \in Nat
  BY BudgetFacts
<1>2. AtLeastOne(budget.window) \in Nat \ {0}
  BY <1>1 DEF AtLeastOne
<1>3. /\ <<>> \in Seq(Unit) /\ <<>> \in Seq([at : Nat \ {0}, seam : BOOLEAN])
      /\ chunk = <<>> /\ admitted = <<>> /\ stream = <<>>
  OBVIOUS
<1>4. TypeOK
  BY <1>1, <1>2, <1>3 DEF TypeOK
<1>5. WithinBudget /\ Room
  BY <1>1, <1>2 DEF WithinBudget, Room, Granted
<1>6. Located /\ AdmittedInOrder
  BY DEF Located, AdmittedInOrder
<1>7. QED
  BY <1>4, <1>5, <1>6 DEF IndInv

LEMMA PushStep ==
  ASSUME IndInv, NEW units \in Chunks, Push(units)
  PROVE  IndInv'
<1> USE DEF IndInv, Push, FeedBegin, control
<1>1. units \in Seq(Unit) /\ stream \in Seq(Unit)
  BY ChunksAssumption DEF TypeOK
<1>2. stream' \in Seq(Unit) /\ Len(stream') = Len(stream) + Len(units)
  BY <1>1, ConcatProperties
<1>3. TypeOK'
  BY <1>1, <1>2 DEF TypeOK
<1>4. WithinBudget' /\ Room'
  BY DEF WithinBudget, Room, Granted
<1>5. Located'
  <2>1. chunk = <<>> /\ Len(chunk) = 0
    BY EmptySeq DEF Located
  <2>2. offset = Len(stream)
    <3>1. offset \in Nat /\ Len(stream) \in Nat /\ offset + Len(chunk) = Len(stream)
      BY <1>1, LenProperties DEF Located, TypeOK
    <3>2. QED
      BY <2>1, <3>1
  <2>3. chunk' = units /\ offset' = offset /\ busy'
    OBVIOUS
  <2>4. QED
    BY <1>2, <2>2, <2>3 DEF Located
<1>6. AdmittedInOrder'
  BY DEF AdmittedInOrder
<1>7. QED
  BY <1>3, <1>4, <1>5, <1>6

LEMMA ReturnStep ==
  ASSUME IndInv, Return, UNCHANGED stream
  PROVE  IndInv'
<1> USE DEF IndInv, Return, FeedReturn, control
<1>1. Len(chunk) \in Nat /\ Consume(Len(chunk))
  BY LenProperties DEF TypeOK
<1>2. /\ chunk' \in Seq(Unit) /\ chunk' = <<>> /\ Len(chunk') = 0
      /\ offset' \in Nat /\ offset <= offset' /\ offset' + Len(chunk') = Len(stream)
  BY <1>1, ConsumeFacts DEF TypeOK
<1>3. TypeOK'
  BY <1>2 DEF TypeOK
<1>4. WithinBudget' /\ Room'
  BY DEF WithinBudget, Room, Granted
<1>5. Located'
  BY <1>2 DEF Located
<1>6. AdmittedInOrder'
  BY <1>2, OrderStays
<1>7. QED
  BY <1>3, <1>4, <1>5, <1>6

LEMMA AdvanceStep ==
  ASSUME IndInv, Advance, UNCHANGED stream
  PROVE  IndInv'
<1> USE DEF IndInv
<1>1. /\ UNCHANGED <<budget, profiled, chunk, busy, offset, admitted, stream>>
      /\ left = 0
  BY DEF Advance, PhaseOver
<1>2. /\ budget.prefix \in Nat /\ budget.window \in Nat
      /\ budget.windows \in Nat /\ budget.maxBytes \in Nat
      /\ profiled \in Nat /\ skip \in Nat \ {0} /\ windowsTaken \in Nat
  BY BudgetFacts DEF TypeOK
<1>3. Granted \in Nat
  BY <1>2, GrantMore DEF Granted
<1>4. CASE phase = "prefix" /\ budget.windows = 0 /\ Finish
  BY <1>1, <1>2, <1>3, <1>4 DEF Finish, TypeOK, WithinBudget, Room, Granted, Located, AdmittedInOrder
<1>5. CASE /\ phase \in {"prefix", "skip"}
           /\ phase' \in {"skip", "align"} /\ left' \in {skip, budget.window}
           /\ UNCHANGED <<skip, windowsTaken, seam>>
  BY <1>1, <1>2, <1>3, <1>5 DEF TypeOK, WithinBudget, Room, Granted, Located, AdmittedInOrder
<1>6. CASE phase = "align" /\ NoWindowLeft /\ Finish
  BY <1>1, <1>2, <1>3, <1>6 DEF Finish, TypeOK, WithinBudget, Room, Granted, Located, AdmittedInOrder
<1>7. CASE /\ phase = "align" /\ ~NoWindowLeft
           /\ phase' = "window" /\ left' = budget.window
           /\ windowsTaken' = windowsTaken + 1 /\ seam' = TRUE
           /\ UNCHANGED skip
  <2>1. Granted' = Granted + budget.window
    BY <1>1, <1>2, <1>7, GrantMore DEF Granted
  <2>2. profiled <= Granted
    BY DEF WithinBudget, Granted
  <2>3. windowsTaken + 1 <= budget.windows
    BY <1>2, <1>7 DEF NoWindowLeft
  <2>4. WithinBudget' /\ Room'
    <3>1. profiled' <= Granted' /\ profiled' + left' <= Granted'
      BY <1>1, <1>2, <1>3, <1>7, <2>1, <2>2
    <3>2. Room'
      BY <1>7, <3>1 DEF Room
    <3>3. QED
      BY <1>1, <1>7, <2>3, <3>1, <3>2 DEF WithinBudget, Granted
  <2>5. TypeOK' /\ Located' /\ AdmittedInOrder'
    BY <1>1, <1>2, <1>7 DEF TypeOK, Located, AdmittedInOrder
  <2>6. QED
    BY <2>4, <2>5
<1>8. CASE /\ phase = "window"
           /\ skip' = Least(skip * 2, MaxU64)
           /\ phase' = "skip" /\ left' = skip'
           /\ UNCHANGED <<windowsTaken, seam>>
  <2>1. skip' \in Nat \ {0}
    <3>1. MaxU64 \in Nat \ {0}
      <4>1. AtLeastOne(budget.window) <= MaxU64 /\ MaxU64 \in Nat
        BY MaxU64Assumption DEF TypeOK
      <4>2. QED
        BY <4>1, <1>2 DEF AtLeastOne
    <3>2. QED
      BY <1>2, <1>8, <3>1 DEF Least
  <2>2. QED
    BY <1>1, <1>2, <1>3, <1>8, <2>1 DEF TypeOK, WithinBudget, Room, Granted, Located, AdmittedInOrder
<1>9. QED
  BY <1>4, <1>5, <1>6, <1>7, <1>8 DEF Advance

\* What emit appends.
LEMMA EmitStep ==
  ASSUME IndInv, Emit, UNCHANGED stream
  PROVE  IndInv'
<1> USE DEF IndInv
<1> DEFINE n == Least(Least(Len(chunk), left), budget.maxBytes - profiled)
           more == [i \in 1 .. n |-> [at |-> offset + i, seam |-> seam /\ i = 1]]
           Admitted == [at : Nat \ {0}, seam : BOOLEAN]
<1>1. /\ UNCHANGED <<budget, phase, skip, windowsTaken, busy, stream>>
      /\ admitted' = admitted \o more /\ profiled' = profiled + n /\ left' = left - n
      /\ Consume(n) /\ seam' = FALSE
      /\ busy /\ phase \in {"prefix", "window"} /\ ~Spent /\ left > 0
  BY DEF Emit, InPhase
<1>2. /\ budget.prefix \in Nat /\ budget.window \in Nat
      /\ budget.windows \in Nat /\ budget.maxBytes \in Nat
      /\ profiled \in Nat /\ windowsTaken \in Nat /\ left \in Nat /\ offset \in Nat
      /\ Len(chunk) \in Nat
  BY BudgetFacts, LenProperties DEF TypeOK
<1>3. n \in Nat /\ n <= Len(chunk) /\ n <= left /\ n <= budget.maxBytes - profiled
  <2>1. budget.maxBytes - profiled \in Nat
    BY <1>1, <1>2 DEF Spent
  <2>2. QED
    BY <1>2, <2>1, LeastOfThree
<1> HIDE DEF n
<1>4. more \in Seq(Admitted) /\ Len(more) = n
  <2>1. \A i \in 1 .. n : more[i] \in Admitted
    BY <1>2, <1>3 DEF TypeOK
  <2>2. QED
    BY <1>3, <2>1, IsASeq, LenProperties
<1>5. admitted \in Seq(Admitted) /\ Len(admitted) = profiled
  BY DEF TypeOK, WithinBudget
<1> HIDE DEF Admitted, more
<1>6. /\ admitted' \in Seq(Admitted) /\ Len(admitted') = profiled + n
      /\ \A i \in 1 .. profiled + n :
           admitted'[i] = IF i <= profiled THEN admitted[i] ELSE more[i - profiled]
  BY <1>1, <1>4, <1>5, ConcatProperties
<1>7. /\ chunk' \in Seq(Unit) /\ offset' = offset + n /\ offset' \in Nat
      /\ offset' + Len(chunk') = Len(stream)
  BY <1>1, <1>3, ConsumeFacts
<1>8. TypeOK'
  <2>1. left' \in Nat /\ profiled' \in Nat
    BY <1>1, <1>2, <1>3
  <2>2. QED
    BY <1>1, <1>6, <1>7, <2>1 DEF TypeOK, Admitted
<1>9. WithinBudget' /\ Room'
  <2>1. Granted \in Nat /\ Granted' = Granted
    BY <1>1, <1>2, GrantMore DEF Granted
  <2>2. profiled + left <= Granted
    <3>1. CASE phase = "window"
      BY <3>1 DEF Room
    <3>2. CASE phase = "prefix"
      <4>1. windowsTaken * budget.window \in Nat
        BY <1>2
      <4>2. QED
        BY <1>2, <3>2, <4>1 DEF Room, Granted
    <3>3. QED
      BY <1>1, <3>1, <3>2
  <2>3. Room'
    BY <1>1, <1>2, <1>3, <2>1 DEF Room
  <2>4. profiled' <= Granted' /\ profiled' <= budget'.maxBytes
    BY <1>1, <1>2, <1>3, <2>1, <2>2
  <2>5. QED
    BY <1>1, <1>6, <2>3, <2>4 DEF WithinBudget, Granted
<1>10. Located'
  BY <1>1, <1>7 DEF Located
<1>11. AdmittedInOrder'
  <2>1. DOMAIN admitted = 1 .. profiled /\ DOMAIN admitted' = 1 .. profiled + n
    BY <1>5, <1>6, LenProperties
  <2>2. \A i \in 1 .. profiled : admitted[i].at \in Nat
    BY <2>1, OffsetsAreNat
  <2>3. \A i \in 1 .. profiled + n :
          /\ i <= profiled => admitted'[i] = admitted[i] /\ admitted'[i].at <= offset
          /\ i > profiled => admitted'[i].at = offset + (i - profiled)
    <3> SUFFICES ASSUME NEW i \in 1 .. profiled + n
                 PROVE  /\ i <= profiled => admitted'[i] = admitted[i] /\ admitted'[i].at <= offset
                        /\ i > profiled => admitted'[i].at = offset + (i - profiled)
      OBVIOUS
    <3>1. CASE i <= profiled
      <4>1. i \in DOMAIN admitted
        BY <1>2, <2>1, <3>1
      <4>2. QED
        BY <1>2, <1>6, <3>1, <4>1 DEF AdmittedInOrder
    <3>2. CASE i > profiled
      <4>1. i - profiled \in 1 .. n
        BY <1>2, <1>3, <3>2
      <4>2. more[i - profiled].at = offset + (i - profiled)
        BY <4>1 DEF more
      <4>3. admitted'[i] = more[i - profiled]
        BY <1>2, <1>6, <3>2
      <4>4. QED
        BY <1>2, <3>2, <4>2, <4>3
    <3>3. QED
      BY <1>2, <1>3, <3>1, <3>2
  <2>4. \A i \in 1 .. profiled + n : admitted'[i].at <= offset'
    <3> SUFFICES ASSUME NEW i \in 1 .. profiled + n PROVE admitted'[i].at <= offset'
      OBVIOUS
    <3>1. profiled \in Nat /\ n \in Nat /\ offset \in Nat /\ offset' = offset + n
      BY <1>2, <1>3, <1>7
    <3>2. CASE i <= profiled
      <4>1. i \in 1 .. profiled
        BY <3>1, <3>2
      <4>2. admitted'[i] = admitted[i] /\ admitted'[i].at <= offset
        BY <2>3, <3>2
      <4>3. admitted'[i].at \in Nat
        BY <2>2, <4>1, <4>2
      <4>4. QED
        BY <3>1, <4>2, <4>3
    <3>3. CASE i > profiled
      BY <2>3, <3>1, <3>3
    <3>4. QED
      BY <3>1, <3>2, <3>3
  <2>5. ASSUME NEW i \in 1 .. profiled + n, NEW j \in 1 .. profiled + n, i < j
        PROVE  admitted'[i].at < admitted'[j].at
    <3>1. CASE j <= profiled
      <4>1. i \in 1 .. profiled /\ j \in 1 .. profiled
        BY <1>2, <1>3, <2>5, <3>1
      <4>2. admitted'[i] = admitted[i] /\ admitted'[j] = admitted[j]
        BY <2>3, <4>1
      <4>3. admitted[i].at < admitted[j].at
        BY <2>1, <2>5, <4>1 DEF AdmittedInOrder
      <4>4. QED
        BY <4>2, <4>3
    <3>2. CASE i <= profiled /\ j > profiled
      <4>1. i \in 1 .. profiled
        BY <1>2, <1>3, <3>2
      <4>2. admitted'[i].at <= offset /\ admitted'[i].at \in Nat
        <5>1. admitted'[i] = admitted[i] /\ admitted'[i].at <= offset
          BY <2>3, <4>1
        <5>2. admitted[i].at \in Nat
          BY <2>2, <4>1
        <5>3. QED
          BY <5>1, <5>2
      <4>3. admitted'[j].at = offset + (j - profiled)
        BY <2>3, <3>2
      <4>4. QED
        BY <1>2, <1>3, <3>2, <4>2, <4>3
    <3>3. CASE i > profiled
      <4>1. profiled \in Nat /\ n \in Nat /\ offset \in Nat
        BY <1>2, <1>3
      <4>2. j > profiled
        BY <2>5, <3>3, <4>1
      <4>3. admitted'[i].at = offset + (i - profiled) /\ admitted'[j].at = offset + (j - profiled)
        BY <2>3, <3>3, <4>2
      <4>4. QED
        BY <2>5, <4>1, <4>3
    <3>4. profiled \in Nat /\ n \in Nat
      BY <1>2, <1>3
    <3>5. QED
      BY <3>1, <3>2, <3>3, <3>4
  <2>6. QED
    BY <2>1, <2>4, <2>5 DEF AdmittedInOrder
<1>12. QED
  BY <1>8, <1>9, <1>10, <1>11

\* A step that leaves units behind without admitting them.
LEMMA PassOver ==
  ASSUME IndInv, NEW n \in Nat, n <= Len(chunk), Consume(n), left' \in Nat,
         phase \in {"skip", "align"}, busy,
         UNCHANGED <<budget, phase, skip, windowsTaken, profiled, seam, busy, admitted, stream>>
  PROVE  IndInv'
<1> USE DEF IndInv
<1>1. /\ chunk' \in Seq(Unit) /\ offset' = offset + n /\ offset' \in Nat
      /\ offset' + Len(chunk') = Len(stream)
  BY ConsumeFacts
<1>2. TypeOK'
  BY <1>1 DEF TypeOK
<1>3. WithinBudget' /\ Room'
  BY DEF WithinBudget, Room, Granted
<1>4. Located'
  BY <1>1 DEF Located
<1>5. AdmittedInOrder'
  <2>1. offset \in Nat /\ offset <= offset'
    BY <1>1 DEF TypeOK
  <2>2. QED
    BY <1>1, <2>1, OrderStays
<1>6. QED
  BY <1>2, <1>3, <1>4, <1>5

LEMMA SkipStep ==
  ASSUME IndInv, SkipUnits, UNCHANGED stream
  PROVE  IndInv'
<1> DEFINE n == Least(Len(chunk), left)
<1>1. Len(chunk) \in Nat /\ left \in Nat
  BY LenProperties DEF IndInv, TypeOK
<1>2. n \in Nat /\ n <= Len(chunk) /\ n <= left
  BY <1>1 DEF Least
<1>3. /\ Consume(n) /\ left' = left - n /\ phase = "skip" /\ busy
      /\ UNCHANGED <<budget, phase, skip, windowsTaken, profiled, seam, busy, admitted, stream>>
  BY DEF SkipUnits, InPhase
<1> HIDE DEF n
<1>4. left' \in Nat
  BY <1>1, <1>2, <1>3
<1>5. QED
  BY <1>2, <1>3, <1>4, PassOver

LEMMA AlignStep ==
  ASSUME IndInv, Align, UNCHANGED stream
  PROVE  IndInv'
<1> DEFINE take == Least(Len(chunk), left)
<1>1. Len(chunk) \in Nat /\ left \in Nat
  BY LenProperties DEF IndInv, TypeOK
<1>2. take \in Nat /\ take <= Len(chunk) /\ take <= left
  BY <1>1 DEF Least
<1>3. /\ phase = "align" /\ busy
      /\ UNCHANGED <<budget, phase, skip, windowsTaken, profiled, seam, busy, admitted, stream>>
      /\ \/ \E i \in 1 .. take : left' = 0 /\ Consume(i)
         \/ left' = left - take /\ Consume(take)
  BY DEF Align, InPhase
<1> HIDE DEF take
<1>4. \E n \in Nat : n <= Len(chunk) /\ Consume(n) /\ left' \in Nat
  BY <1>1, <1>2, <1>3
<1>5. QED
  BY <1>3, <1>4, PassOver

LEMMA NextInv == IndInv /\ [Next]_vars => IndInv'
<1> SUFFICES ASSUME IndInv, [Next]_vars PROVE IndInv'
  OBVIOUS
<1>1. ASSUME NEW units \in Chunks, Push(units) PROVE IndInv'
  BY <1>1, PushStep
<1>2. ASSUME Loop, UNCHANGED stream PROVE IndInv'
  BY <1>2, ReturnStep, AdvanceStep, EmitStep, SkipStep, AlignStep DEF Loop
<1>3. CASE UNCHANGED vars
  BY <1>3 DEF vars, admissionVars, control, IndInv, TypeOK, WithinBudget, Room, Granted,
              Located, AdmittedInOrder
<1>4. QED
  BY <1>1, <1>2, <1>3 DEF Next

\* The strengthening holds of the sampler under any producer of chunks.
THEOREM Invariant == Spec => []IndInv
<1>1. Init => IndInv
  BY InitInv
<1>2. IndInv /\ [Next]_vars => IndInv'
  BY NextInv
<1>3. QED
  BY <1>1, <1>2, PTL DEF Spec

\* However the stream is cut into chunks, no more units are profiled than the
\* budget has, and no window is opened beyond its number: Admission::feed.
THEOREM WithinBudgetHolds == Spec => []WithinBudget
<1>1. IndInv => WithinBudget
  BY DEF IndInv
<1>2. QED
  BY <1>1, Invariant, PTL

\* The units that emit is called with are units of the stream that have
\* arrived, in order, none of them twice: no end of a chunk is seen twice.
THEOREM AdmittedInOrderHolds == Spec => []AdmittedInOrder
<1>1. IndInv => AdmittedInOrder
  BY DEF IndInv
<1>2. QED
  BY <1>1, Invariant, PTL

\* The sampler keeps its types; the gap before a window is never zero, which is
\* what keeps a stream from being profiled whole.
THEOREM TypeCorrect == Spec => []TypeOK
<1>1. IndInv => TypeOK
  BY DEF IndInv
<1>2. QED
  BY <1>1, Invariant, PTL

-----------------------------------------------------------------------------
(* The plan of a stream and a budget.                                      *)
LEMMA Powers ==
  /\ PowerOfTwo[0] = 1
  /\ \A k \in Nat : PowerOfTwo[k] \in Nat \ {0} /\ PowerOfTwo[k + 1] = 2 * PowerOfTwo[k]
<1>1. PowerOfTwo = CHOOSE f : Doubles(f)
  BY DEF PowerOfTwo, Doubles
<1>2. QED
  BY <1>1, Doubling

\* The plan's operators, of any budget and any stream.
LengthOf(b, k) == IF k = 0 THEN b.prefix ELSE b.window
GapOf(b, k) == Least(AtLeastOne(b.window) * PowerOfTwo[k - 1], MaxU64)
IsNewline(str, i) == i \in DOMAIN str /\ str[i] = Newline
AlignedIn(str, b, s) ==
  LET reach == s .. (s + b.window - 1)
      newlines == {i \in reach \cap DOMAIN str : str[i] = Newline}
  IN IF newlines = {} THEN s + b.window
     ELSE 1 + CHOOSE i \in newlines : \A j \in newlines : i <= j
PlanOf(str, b) ==
  CHOOSE f : f = [k \in Nat |-> IF k = 0 THEN 1
                                ELSE AlignedIn(str, b, f[k - 1] + LengthOf(b, k - 1) + GapOf(b, k))]
IsPlan(f, str, b) ==
  /\ f \in [Nat -> Nat] /\ f[0] = 1
  /\ \A k \in Nat : f[k + 1] = AlignedIn(str, b, f[k] + LengthOf(b, k) + GapOf(b, k + 1))

LEMMA NumbersOf ==
  ASSUME NEW b \in Budgets
  PROVE  /\ b.prefix \in Nat /\ b.window \in Nat /\ b.windows \in Nat /\ b.maxBytes \in Nat
         /\ AtLeastOne(b.window) \in Nat \ {0}
         /\ AtLeastOne(b.window) <= MaxU64 /\ MaxU64 \in Nat \ {0}
         /\ \A k \in Nat : LengthOf(b, k) \in Nat
<1>1. b.prefix \in Nat /\ b.window \in Nat /\ b.windows \in Nat /\ b.maxBytes \in Nat
  BY BudgetsAssumption DEF Budget
<1>2. AtLeastOne(b.window) \in Nat \ {0}
  BY <1>1 DEF AtLeastOne
<1>3. AtLeastOne(b.window) <= MaxU64 /\ MaxU64 \in Nat
  BY MaxU64Assumption
<1>4. QED
  BY <1>1, <1>2, <1>3 DEF LengthOf

\* Gaps start at the window's length and double.
LEMMA Gapped ==
  ASSUME NEW b \in Budgets
  PROVE  /\ GapOf(b, 1) = AtLeastOne(b.window)
         /\ \A k \in Nat : GapOf(b, k + 1) \in Nat \ {0}
         /\ \A k \in Nat : GapOf(b, k + 2) = Least(GapOf(b, k + 1) * 2, MaxU64)
<1> DEFINE w == AtLeastOne(b.window)
<1>1. w \in Nat \ {0} /\ w <= MaxU64 /\ MaxU64 \in Nat \ {0}
  BY NumbersOf
<1> HIDE DEF w
<1>2. \A k \in Nat : GapOf(b, k + 1) = Least(w * PowerOfTwo[k], MaxU64)
  <2> SUFFICES ASSUME NEW k \in Nat PROVE GapOf(b, k + 1) = Least(w * PowerOfTwo[k], MaxU64)
    OBVIOUS
  <2>1. (k + 1) - 1 = k
    OBVIOUS
  <2>2. QED
    BY <2>1 DEF GapOf, w
<1>3. \A k \in Nat : w * PowerOfTwo[k] \in Nat \ {0} /\ w * PowerOfTwo[k + 1] = 2 * (w * PowerOfTwo[k])
  <2> SUFFICES ASSUME NEW k \in Nat
               PROVE  w * PowerOfTwo[k] \in Nat \ {0} /\ w * PowerOfTwo[k + 1] = 2 * (w * PowerOfTwo[k])
    OBVIOUS
  <2> DEFINE p == PowerOfTwo[k]
  <2>1. p \in Nat \ {0} /\ PowerOfTwo[k + 1] = 2 * p
    BY Powers
  <2> HIDE DEF p
  <2>2. w * p \in Nat \ {0} /\ w * (2 * p) = 2 * (w * p)
    BY <1>1, <2>1
  <2>3. QED
    BY <2>1, <2>2 DEF p
<1>4. GapOf(b, 1) = w
  <2>1. GapOf(b, 0 + 1) = Least(w * PowerOfTwo[0], MaxU64)
    BY <1>2
  <2>2. QED
    BY <1>1, <2>1, Powers DEF Least
<1>5. \A k \in Nat : GapOf(b, k + 1) \in Nat \ {0}
  BY <1>1, <1>2, <1>3 DEF Least
<1>6. ASSUME NEW k \in Nat PROVE GapOf(b, k + 2) = Least(GapOf(b, k + 1) * 2, MaxU64)
  <2> DEFINE x == w * PowerOfTwo[k]
  <2>1. x \in Nat \ {0} /\ w * PowerOfTwo[k + 1] = 2 * x
    BY <1>3
  <2>2. GapOf(b, k + 1) = Least(x, MaxU64)
    BY <1>2
  <2>3. GapOf(b, (k + 1) + 1) = Least(w * PowerOfTwo[k + 1], MaxU64)
    BY <1>2
  <2>4. (k + 1) + 1 = k + 2
    OBVIOUS
  <2> HIDE DEF x
  <2>5. QED
    BY <1>1, <2>1, <2>2, <2>3, <2>4 DEF Least
<1>7. QED
  BY <1>4, <1>5, <1>6 DEF w
\* The first offset after a newline in reach, or the first out of reach.
IsAligned(str, b, s, a) ==
  /\ a \in Nat /\ s <= a /\ a <= s + b.window
  /\ \A i \in s .. s + b.window - 1 : IsNewline(str, i) => a <= i + 1
  /\ a < s + b.window => s < a /\ IsNewline(str, a - 1)

LEMMA AlignedIs ==
  ASSUME NEW str, NEW b \in Budgets, NEW s \in Nat
  PROVE  IsAligned(str, b, s, AlignedIn(str, b, s))
<1> DEFINE w == b.window
           newlines == {i \in (s .. (s + w - 1)) \cap DOMAIN str : str[i] = Newline}
<1>1. w \in Nat
  BY NumbersOf
<1>2. AlignedIn(str, b, s) = IF newlines = {} THEN s + w
                             ELSE 1 + CHOOSE i \in newlines : \A j \in newlines : i <= j
  BY DEF AlignedIn
<1>3. \A i : i \in newlines <=> i \in s .. s + w - 1 /\ IsNewline(str, i)
  BY DEF IsNewline
<1>4. newlines \in SUBSET Nat
  BY <1>1
<1> HIDE DEF newlines
<1>5. CASE newlines = {}
  <2>1. AlignedIn(str, b, s) = s + w
    BY <1>2, <1>5
  <2>2. QED
    BY <1>1, <1>3, <1>5, <2>1 DEF IsAligned
<1>6. CASE newlines # {}
  <2> DEFINE m == CHOOSE i \in newlines : \A j \in newlines : i <= j
  <2>1. \E i \in newlines : \A j \in newlines : i <= j
    BY <1>4, <1>6, LeastNumber
  <2>2. m \in newlines /\ \A j \in newlines : m <= j
    BY <2>1
  <2>3. AlignedIn(str, b, s) = 1 + m
    BY <1>2, <1>6
  <2> HIDE DEF m
  <2>4. m \in Nat /\ s <= m /\ m <= s + w - 1 /\ IsNewline(str, m)
    BY <1>1, <1>3, <1>4, <2>2
  <2>5. \A i \in s .. s + w - 1 : IsNewline(str, i) => m <= i
    BY <1>3, <2>2
  <2>6. (1 + m) - 1 = m
    BY <2>4
  <2>7. QED
    BY <1>1, <2>3, <2>4, <2>5, <2>6 DEF IsAligned
<1>7. QED
  BY <1>5, <1>6

\* One stream is the beginning of another.
Begins(str, more) ==
  /\ Len(str) <= Len(more)
  /\ \A i \in 1 .. Len(str) : more[i] = str[i]

LEMMA NewlinesStay ==
  ASSUME NEW str \in Seq(Unit), NEW more \in Seq(Unit), Begins(str, more), NEW i \in Int
  PROVE  /\ IsNewline(str, i) => IsNewline(more, i) /\ i <= Len(str)
         /\ IsNewline(more, i) /\ i <= Len(str) => IsNewline(str, i)
<1>1. DOMAIN str = 1 .. Len(str) /\ Len(str) \in Nat /\ DOMAIN more = 1 .. Len(more) /\ Len(more) \in Nat
  BY LenProperties
<1>2. QED
  BY <1>1 DEF IsNewline, Begins

\* Where a search ends stays as units arrive, if it ends among those that have.
LEMMA AlignmentStays ==
  ASSUME NEW str \in Seq(Unit), NEW more \in Seq(Unit), Begins(str, more),
         NEW b \in Budgets, NEW s \in Nat, NEW a, NEW c,
         IsAligned(str, b, s, a), IsAligned(more, b, s, c)
  PROVE  a = c \/ (a > Len(str) + 1 /\ c > Len(str) + 1)
<1>1. b.window \in Nat /\ Len(str) \in Nat
  BY NumbersOf, LenProperties
<1>2. a \in Nat /\ c \in Nat
  BY DEF IsAligned
<1>3. CASE a < c
  <2>1. a < s + b.window /\ s < a /\ IsNewline(str, a - 1) /\ a - 1 \in s .. s + b.window - 1
    BY <1>1, <1>2, <1>3 DEF IsAligned
  <2>2. IsNewline(more, a - 1)
    BY <1>2, <2>1, NewlinesStay
  <2>3. c <= (a - 1) + 1
    BY <2>1, <2>2 DEF IsAligned
  <2>4. QED
    BY <1>2, <1>3, <2>3
<1>4. CASE c < a
  <2>1. c < s + b.window /\ s < c /\ IsNewline(more, c - 1) /\ c - 1 \in s .. s + b.window - 1
    BY <1>1, <1>2, <1>4 DEF IsAligned
  <2>2. CASE c - 1 <= Len(str)
    <3>1. IsNewline(str, c - 1)
      BY <1>2, <2>1, <2>2, NewlinesStay
    <3>2. a <= (c - 1) + 1
      BY <2>1, <3>1 DEF IsAligned
    <3>3. QED
      BY <1>2, <1>4, <3>2
  <2>3. CASE c - 1 > Len(str)
    BY <1>1, <1>2, <1>4, <2>3
  <2>4. QED
    BY <1>1, <1>2, <2>2, <2>3
<1>5. QED
  BY <1>2, <1>3, <1>4

-----------------------------------------------------------------------------
LEMMA PlanIs ==
  ASSUME NEW str, NEW b \in Budgets
  PROVE  IsPlan(PlanOf(str, b), str, b)
<1> DEFINE Step(k, v) == AlignedIn(str, b, v + LengthOf(b, k) + GapOf(b, k + 1))
           F == [k \in Nat |-> [v \in Nat |-> Step(k, v)]]
<1>1. \A k \in Nat, v \in Nat : Step(k, v) \in Nat
  <2> SUFFICES ASSUME NEW k \in Nat, NEW v \in Nat PROVE Step(k, v) \in Nat
    OBVIOUS
  <2> DEFINE s == v + LengthOf(b, k) + GapOf(b, k + 1)
  <2>1. s \in Nat
    BY NumbersOf, Gapped
  <2> HIDE DEF s
  <2>2. AlignedIn(str, b, s) \in Nat
    BY <2>1, AlignedIs DEF IsAligned
  <2>3. QED
    BY <2>2 DEF s
<1> HIDE DEF Step
<1>2. F \in [Nat -> [Nat -> Nat]] /\ 1 \in Nat
  BY <1>1
<1>3. \A k \in Nat, v \in Nat : F[k][v] = Step(k, v)
  OBVIOUS
<1> HIDE DEF F
<1>4. PICK g : Runs(Nat, 1, F, g)
  BY <1>2, RecursionExists
<1>5. g \in [Nat -> Nat] /\ g[0] = 1 /\ \A k \in Nat : g[k + 1] = Step(k, g[k])
  BY <1>3, <1>4 DEF Runs
<1> DEFINE Solves(f) == f = [k \in Nat |-> IF k = 0 THEN 1
                             ELSE AlignedIn(str, b, f[k - 1] + LengthOf(b, k - 1) + GapOf(b, k))]
<1>6. Solves(g)
  <2>1. \A k \in Nat : g[k] = IF k = 0 THEN 1
                              ELSE AlignedIn(str, b, g[k - 1] + LengthOf(b, k - 1) + GapOf(b, k))
    <3> SUFFICES ASSUME NEW k \in Nat
                 PROVE  g[k] = IF k = 0 THEN 1
                               ELSE AlignedIn(str, b, g[k - 1] + LengthOf(b, k - 1) + GapOf(b, k))
      OBVIOUS
    <3>1. CASE k = 0
      BY <1>5, <3>1
    <3>2. CASE k # 0
      <4>1. k - 1 \in Nat /\ (k - 1) + 1 = k
        BY <3>2
      <4>2. g[(k - 1) + 1] = Step(k - 1, g[k - 1])
        BY <1>5, <4>1
      <4>3. QED
        BY <3>2, <4>1, <4>2 DEF Step
    <3>3. QED
      BY <3>1, <3>2
  <2>2. QED
    BY <1>5, <2>1
<1>7. PlanOf(str, b) = CHOOSE f : Solves(f)
  BY DEF PlanOf
<1> HIDE DEF Solves
<1>8. Solves(PlanOf(str, b))
  BY <1>6, <1>7
<1> DEFINE f == PlanOf(str, b)
<1>9. f = [k \in Nat |-> IF k = 0 THEN 1
                         ELSE AlignedIn(str, b, f[k - 1] + LengthOf(b, k - 1) + GapOf(b, k))]
  BY <1>8 DEF Solves
<1> HIDE DEF f
<1>10. f[0] = 1 /\ \A k \in Nat : f[k + 1] = Step(k, f[k])
  <2>1. f[0] = 1
    BY <1>9
  <2>2. ASSUME NEW k \in Nat PROVE f[k + 1] = Step(k, f[k])
    <3>1. k + 1 \in Nat /\ k + 1 # 0 /\ (k + 1) - 1 = k
      OBVIOUS
    <3>2. f[k + 1] = AlignedIn(str, b, f[(k + 1) - 1] + LengthOf(b, (k + 1) - 1) + GapOf(b, k + 1))
      BY <1>9, <3>1
    <3>3. QED
      BY <3>1, <3>2 DEF Step
  <2>3. QED
    BY <2>1, <2>2
<1> DEFINE S == {k \in Nat : f[k] \in Nat}
<1>11. 0 \in S /\ \A k \in Nat : k \in S => k + 1 \in S
  <2>1. 0 \in S
    BY <1>10
  <2>2. ASSUME NEW k \in Nat, k \in S PROVE k + 1 \in S
    <3>1. f[k] \in Nat /\ f[k + 1] = Step(k, f[k])
      BY <1>10, <2>2
    <3>2. Step(k, f[k]) \in Nat
      BY <1>1, <3>1
    <3>3. QED
      BY <3>1, <3>2
  <2>3. QED
    BY <2>1, <2>2
<1>12. \A k \in Nat : k \in S
  <2> HIDE DEF S
  <2>1. QED
    BY <1>11, NumbersIn
<1>13. f \in [Nat -> Nat]
  BY <1>9, <1>12
<1>14. QED
  BY <1>10, <1>13 DEF f, IsPlan, Step
\* Where a window starts, by where the one before it is over.
LEMMA NextStart ==
  ASSUME NEW str, NEW b \in Budgets, NEW f, IsPlan(f, str, b), NEW k \in Nat
  PROVE  /\ f[k] \in Nat /\ f[k + 1] \in Nat
         /\ LengthOf(b, k) \in Nat /\ GapOf(b, k + 1) \in Nat \ {0}
         /\ IsAligned(str, b, f[k] + LengthOf(b, k) + GapOf(b, k + 1), f[k + 1])
         /\ f[k] + LengthOf(b, k) + GapOf(b, k + 1) \in Nat
         /\ f[k] <= f[k] + LengthOf(b, k) + GapOf(b, k + 1)
         /\ f[k] + LengthOf(b, k) + GapOf(b, k + 1) <= f[k + 1]
<1>1. f[k] \in Nat /\ f[k + 1] \in Nat
  BY DEF IsPlan
<1>2. LengthOf(b, k) \in Nat /\ GapOf(b, k + 1) \in Nat \ {0}
  BY NumbersOf, Gapped
<1> DEFINE s == f[k] + LengthOf(b, k) + GapOf(b, k + 1)
<1>3. s \in Nat /\ f[k] <= s
  <2> DEFINE x == LengthOf(b, k)
             y == GapOf(b, k + 1)
  <2>1. x \in Nat /\ y \in Nat /\ s = f[k] + x + y
    BY <1>2
  <2> HIDE DEF x, y, s
  <2>2. QED
    BY <1>1, <2>1
<1>4. f[k + 1] = AlignedIn(str, b, s)
  BY DEF IsPlan
<1> HIDE DEF s
<1>5. IsAligned(str, b, s, f[k + 1])
  BY <1>3, <1>4, AlignedIs
<1>6. s <= f[k + 1]
  BY <1>5 DEF IsAligned
<1>7. QED
  BY <1>1, <1>2, <1>3, <1>5, <1>6 DEF s

LEMMA NextIsLater ==
  ASSUME NEW str, NEW b \in Budgets, NEW f, IsPlan(f, str, b), NEW k \in Nat
  PROVE  f[k] + LengthOf(b, k) < f[k + 1]
<1>1. /\ f[k] \in Nat /\ f[k + 1] \in Nat
      /\ LengthOf(b, k) \in Nat /\ GapOf(b, k + 1) \in Nat \ {0}
      /\ f[k] + LengthOf(b, k) + GapOf(b, k + 1) <= f[k + 1]
  BY NextStart DEF IsAligned
<1>2. QED
  BY <1>1

\* Windows follow each other with at least one unit between them.
LEMMA WindowsApart ==
  ASSUME NEW str, NEW b \in Budgets, NEW f, IsPlan(f, str, b),
         NEW i \in Nat, NEW j \in Nat, i < j
  PROVE  f[i] + LengthOf(b, i) < f[j]
<1> DEFINE S == {k \in Nat : f[i] + LengthOf(b, i) < f[i + 1 + k]}
<1>1. 0 \in S
  <2>1. i + 1 + 0 = i + 1
    OBVIOUS
  <2>2. QED
    BY <2>1, NextIsLater
<1>2. ASSUME NEW k \in Nat, k \in S PROVE k + 1 \in S
  <2> DEFINE n == i + 1 + k
  <2>1. n \in Nat /\ i + 1 + (k + 1) = n + 1
    OBVIOUS
  <2>2. f[i] + LengthOf(b, i) < f[n]
    BY <1>2
  <2> HIDE DEF n
  <2>3. f[n] + LengthOf(b, n) < f[n + 1]
    BY <2>1, NextIsLater
  <2>4. /\ f[n] \in Nat /\ f[n + 1] \in Nat /\ LengthOf(b, n) \in Nat
        /\ f[i] \in Nat /\ LengthOf(b, i) \in Nat
    BY <2>1, NextStart
  <2>5. f[i] + LengthOf(b, i) < f[n + 1]
    BY <2>2, <2>3, <2>4
  <2>6. QED
    BY <2>1, <2>5
<1>3. \A k \in Nat : k \in S
  <2> HIDE DEF S
  <2>1. QED
    BY <1>1, <1>2, NumbersIn
<1>4. j - (i + 1) \in Nat /\ i + 1 + (j - (i + 1)) = j
  OBVIOUS
<1>5. QED
  BY <1>3, <1>4

\* The plan of what has arrived stays the plan as more arrives.
LEMMA PlanStays ==
  ASSUME NEW str \in Seq(Unit), NEW more \in Seq(Unit), Begins(str, more),
         NEW b \in Budgets, NEW f, NEW g, IsPlan(f, str, b), IsPlan(g, more, b)
  PROVE  \A k \in Nat : f[k] = g[k] \/ (f[k] > Len(str) + 1 /\ g[k] > Len(str) + 1)
<1> DEFINE n == Len(str) + 1
           S == {k \in Nat : f[k] = g[k] \/ (f[k] > n /\ g[k] > n)}
<1>0. n \in Nat
  BY LenProperties
<1>1. 0 \in S
  BY DEF IsPlan
<1>2. ASSUME NEW k \in Nat, k \in S PROVE k + 1 \in S
  <2> DEFINE s == f[k] + LengthOf(b, k) + GapOf(b, k + 1)
             t == g[k] + LengthOf(b, k) + GapOf(b, k + 1)
  <2>1. /\ f[k] \in Nat /\ f[k + 1] \in Nat /\ g[k] \in Nat /\ g[k + 1] \in Nat
        /\ LengthOf(b, k) \in Nat /\ GapOf(b, k + 1) \in Nat
    BY NextStart
  <2>6. IsAligned(str, b, s, f[k + 1]) /\ IsAligned(more, b, t, g[k + 1])
    BY NextStart
  <2>2. s \in Nat /\ s <= f[k + 1] /\ t <= g[k + 1] /\ f[k] <= s /\ g[k] <= t /\ t \in Nat
    BY NextStart
  <2>3. CASE f[k] = g[k]
    <3>1. s = t
      BY <2>3
    <3> HIDE DEF s, t
    <3>2. QED
      BY <2>1, <2>2, <2>6, <3>1, AlignmentStays
  <2>4. CASE f[k] > n /\ g[k] > n
    <3> HIDE DEF s, t, n
    <3>1. f[k + 1] > n
      BY <1>0, <2>1, <2>2, <2>4
    <3>2. g[k + 1] > n
      BY <1>0, <2>1, <2>2, <2>4
    <3>3. QED
      BY <3>1, <3>2
  <2>5. QED
    BY <1>2, <2>3, <2>4
<1>3. \A k \in Nat : k \in S
  <2> HIDE DEF S
  <2>1. QED
    BY <1>1, <1>2, NumbersIn
<1>4. QED
  BY <1>3

-----------------------------------------------------------------------------
\* How far the plan reaches at most.
GapsOf(b) == CHOOSE f : f = [k \in Nat |-> IF k = 0 THEN 0 ELSE f[k - 1] + GapOf(b, k) + b.window]

LEMMA GapsAre ==
  ASSUME NEW b \in Budgets
  PROVE  /\ GapsOf(b)[0] = 0
         /\ \A k \in Nat : GapsOf(b)[k] \in Nat
         /\ \A k \in Nat : GapsOf(b)[k + 1] = GapsOf(b)[k] + GapOf(b, k + 1) + b.window
<1> DEFINE Step(k, v) == v + GapOf(b, k + 1) + b.window
           F == [k \in Nat |-> [v \in Nat |-> Step(k, v)]]
<1>1. \A k \in Nat, v \in Nat : Step(k, v) \in Nat
  BY NumbersOf, Gapped
<1> HIDE DEF Step
<1>2. F \in [Nat -> [Nat -> Nat]] /\ 0 \in Nat
  BY <1>1
<1>3. \A k \in Nat, v \in Nat : F[k][v] = Step(k, v)
  OBVIOUS
<1> HIDE DEF F
<1>4. PICK g : Runs(Nat, 0, F, g)
  BY <1>2, RecursionExists
<1>5. g \in [Nat -> Nat] /\ g[0] = 0 /\ \A k \in Nat : g[k + 1] = Step(k, g[k])
  BY <1>3, <1>4 DEF Runs
<1> DEFINE Solves(f) == f = [k \in Nat |-> IF k = 0 THEN 0 ELSE f[k - 1] + GapOf(b, k) + b.window]
<1>6. Solves(g)
  <2>1. \A k \in Nat : g[k] = IF k = 0 THEN 0 ELSE g[k - 1] + GapOf(b, k) + b.window
    <3> SUFFICES ASSUME NEW k \in Nat
                 PROVE  g[k] = IF k = 0 THEN 0 ELSE g[k - 1] + GapOf(b, k) + b.window
      OBVIOUS
    <3>1. CASE k = 0
      BY <1>5, <3>1
    <3>2. CASE k # 0
      <4>1. k - 1 \in Nat /\ (k - 1) + 1 = k
        BY <3>2
      <4>2. g[(k - 1) + 1] = Step(k - 1, g[k - 1])
        BY <1>5, <4>1
      <4>3. QED
        BY <3>2, <4>1, <4>2 DEF Step
    <3>3. QED
      BY <3>1, <3>2
  <2>2. QED
    BY <1>5, <2>1
<1>7. GapsOf(b) = CHOOSE f : Solves(f)
  BY DEF GapsOf
<1> HIDE DEF Solves
<1>8. Solves(GapsOf(b))
  BY <1>6, <1>7
<1> DEFINE f == GapsOf(b)
<1>9. f = [k \in Nat |-> IF k = 0 THEN 0 ELSE f[k - 1] + GapOf(b, k) + b.window]
  BY <1>8 DEF Solves
<1> HIDE DEF f
<1>10. f[0] = 0 /\ \A k \in Nat : f[k + 1] = Step(k, f[k])
  <2>1. f[0] = 0
    BY <1>9
  <2>2. ASSUME NEW k \in Nat PROVE f[k + 1] = Step(k, f[k])
    <3>1. k + 1 \in Nat /\ k + 1 # 0 /\ (k + 1) - 1 = k
      OBVIOUS
    <3>2. f[k + 1] = f[(k + 1) - 1] + GapOf(b, k + 1) + b.window
      BY <1>9, <3>1
    <3>3. QED
      BY <3>1, <3>2 DEF Step
  <2>3. QED
    BY <2>1, <2>2
<1> DEFINE S == {k \in Nat : f[k] \in Nat}
<1>11. 0 \in S /\ \A k \in Nat : k \in S => k + 1 \in S
  <2>1. 0 \in S
    BY <1>10
  <2>2. ASSUME NEW k \in Nat, k \in S PROVE k + 1 \in S
    <3>1. f[k] \in Nat /\ f[k + 1] = Step(k, f[k])
      BY <1>10, <2>2
    <3>2. Step(k, f[k]) \in Nat
      BY <1>1, <3>1
    <3>3. QED
      BY <3>1, <3>2
  <2>3. QED
    BY <2>1, <2>2
<1>12. \A k \in Nat : k \in S
  <2> HIDE DEF S
  <2>1. QED
    BY <1>11, NumbersIn
<1>13. QED
  BY <1>10, <1>12 DEF f, Step

\* The farthest that window k can end.
EndBy(b, k) == 1 + b.prefix + k * b.window + GapsOf(b)[k]
ReachOf(b) == b.prefix + b.windows * b.window + GapsOf(b)[b.windows + 1]

LEMMA EndNext ==
  ASSUME NEW b \in Budgets, NEW k \in Nat
  PROVE  /\ EndBy(b, k) \in Nat /\ b.window \in Nat /\ GapOf(b, k + 1) \in Nat
         /\ EndBy(b, k + 1) = EndBy(b, k) + GapOf(b, k + 1) + b.window + b.window
<1>1. b.window \in Nat /\ b.prefix \in Nat
  BY NumbersOf
<1>2. /\ GapsOf(b)[k] \in Nat /\ GapOf(b, k + 1) \in Nat
      /\ GapsOf(b)[k + 1] = GapsOf(b)[k] + GapOf(b, k + 1) + b.window
  BY GapsAre, Gapped
<1> DEFINE w == b.window
<1>3. w \in Nat
  BY <1>1
<1> HIDE DEF w
<1>4. k * w \in Nat /\ (k + 1) * w = k * w + w
  <2>1. k * w \in Nat
    BY <1>3
  <2>2. (k + 1) * w = k * w + w
    BY <1>3
  <2>3. QED
    BY <2>1, <2>2
<1> DEFINE so == k * w
<1>5. EndBy(b, k) = 1 + b.prefix + so + GapsOf(b)[k]
  BY DEF EndBy, w
<1>6. EndBy(b, k + 1) = 1 + b.prefix + (so + w) + GapsOf(b)[k + 1]
  BY <1>4 DEF EndBy, w
<1>7. so \in Nat
  BY <1>4
<1> HIDE DEF so
<1>8. EndBy(b, k) \in Nat
  BY <1>1, <1>2, <1>5, <1>7
<1>9. EndBy(b, k + 1) = EndBy(b, k) + GapOf(b, k + 1) + w + w
  BY <1>1, <1>2, <1>3, <1>5, <1>6, <1>7 DEF w
<1>10. QED
  BY <1>1, <1>2, <1>8, <1>9 DEF w

LEMMA EndsBy ==
  ASSUME NEW str, NEW b \in Budgets, NEW f, IsPlan(f, str, b)
  PROVE  \A k \in Nat : f[k] + LengthOf(b, k) <= EndBy(b, k)
<1> DEFINE S == {k \in Nat : f[k] + LengthOf(b, k) <= EndBy(b, k)}
<1>1. 0 \in S
  <2>1. b.prefix \in Nat /\ b.window \in Nat /\ GapsOf(b)[0] = 0
    BY NumbersOf, GapsAre
  <2>2. f[0] = 1 /\ LengthOf(b, 0) = b.prefix
    BY DEF IsPlan, LengthOf
  <2>3. 0 * b.window = 0
    BY <2>1
  <2>4. EndBy(b, 0) = 1 + b.prefix
    BY <2>1, <2>3 DEF EndBy
  <2>5. QED
    BY <2>1, <2>2, <2>4
<1>2. ASSUME NEW k \in Nat, k \in S PROVE k + 1 \in S
  <2>1. f[k + 1] \in Nat /\ f[k + 1] <= f[k] + LengthOf(b, k) + GapOf(b, k + 1) + b.window
    BY NextStart DEF IsAligned
  <2>2. f[k] \in Nat /\ LengthOf(b, k) \in Nat
    BY NextStart
  <2>3. LengthOf(b, k + 1) = b.window
    BY DEF LengthOf
  <2>4. f[k] + LengthOf(b, k) <= EndBy(b, k)
    BY <1>2
  <2>5. f[k + 1] + LengthOf(b, k + 1) <= EndBy(b, k + 1)
    BY <2>1, <2>2, <2>3, <2>4, EndNext
  <2>6. QED
    BY <2>5
<1>3. \A k \in Nat : k \in S
  <2> HIDE DEF S
  <2>1. QED
    BY <1>1, <1>2, NumbersIn
<1>4. QED
  BY <1>3

\* The search after the last window is within the reach, and so are the others.
LEMMA WithinReach ==
  ASSUME NEW b \in Budgets, NEW k \in 0 .. b.windows
  PROVE  /\ EndBy(b, k) \in Nat /\ ReachOf(b) \in Nat /\ GapOf(b, k + 1) \in Nat
         /\ EndBy(b, k) + GapOf(b, k + 1) + b.window <= ReachOf(b) + 1
<1> DEFINE Far(n) == EndBy(b, n) + GapOf(b, n + 1) + b.window
           S == {n \in Nat : n <= b.windows => Far(b.windows - n) <= ReachOf(b) + 1}
<1>1. b.window \in Nat /\ b.prefix \in Nat /\ b.windows \in Nat
  BY NumbersOf
<1>2. \A n \in Nat : Far(n) \in Nat /\ Far(n) <= EndBy(b, n + 1) /\ EndBy(b, n) <= Far(n)
  <2> SUFFICES ASSUME NEW n \in Nat
               PROVE  Far(n) \in Nat /\ Far(n) <= EndBy(b, n + 1) /\ EndBy(b, n) <= Far(n)
    OBVIOUS
  <2>1. QED
    BY EndNext
<1>3. ReachOf(b) \in Nat /\ Far(b.windows) = ReachOf(b) + 1
  <2> DEFINE so == b.windows * b.window
             gaps == GapsOf(b)[b.windows]
             gap == GapOf(b, b.windows + 1)
  <2>1. so \in Nat
    BY <1>1
  <2>2. EndBy(b, b.windows) = 1 + b.prefix + so + gaps
    BY DEF EndBy
  <2>3. ReachOf(b) = b.prefix + so + GapsOf(b)[b.windows + 1]
    BY DEF ReachOf
  <2>4. gaps \in Nat /\ gap \in Nat /\ GapsOf(b)[b.windows + 1] = gaps + gap + b.window
    BY <1>1, GapsAre, Gapped
  <2>5. Far(b.windows) = EndBy(b, b.windows) + gap + b.window
    OBVIOUS
  <2> HIDE DEF so, gaps, gap, Far
  <2>6. QED
    BY <1>1, <2>1, <2>2, <2>3, <2>4, <2>5
<1> HIDE DEF Far
<1>4. 0 \in S
  <2>1. b.windows - 0 = b.windows
    BY <1>1
  <2>2. QED
    BY <1>1, <1>3, <2>1
<1>5. ASSUME NEW n \in Nat, n \in S PROVE n + 1 \in S
  <2> SUFFICES ASSUME n + 1 <= b.windows PROVE Far(b.windows - (n + 1)) <= ReachOf(b) + 1
    OBVIOUS
  <2> DEFINE m == b.windows - (n + 1)
  <2>1. m \in Nat /\ m + 1 = b.windows - n
    BY <1>1
  <2>2. Far(b.windows - n) <= ReachOf(b) + 1
    BY <1>1, <1>5
  <2> HIDE DEF m
  <2>3. Far(m + 1) <= ReachOf(b) + 1
    BY <2>1, <2>2
  <2>4. /\ Far(m) \in Nat /\ Far(m) <= EndBy(b, m + 1)
        /\ Far(m + 1) \in Nat /\ EndBy(b, m + 1) <= Far(m + 1)
    BY <1>2, <2>1
  <2>5. EndBy(b, m + 1) \in Nat
    BY <2>1, EndNext
  <2>6. QED
    BY <1>3, <2>3, <2>4, <2>5 DEF m
<1>6. \A n \in Nat : n \in S
  <2> HIDE DEF S
  <2>1. QED
    BY <1>4, <1>5, NumbersIn
<1>7. b.windows - k \in Nat /\ b.windows - k <= b.windows /\ b.windows - (b.windows - k) = k /\ k \in Nat
  BY <1>1
<1>8. Far(k) <= ReachOf(b) + 1
  BY <1>6, <1>7
<1>9. QED
  BY <1>3, <1>7, <1>8, EndNext DEF Far
-----------------------------------------------------------------------------
(* Where the sampler is in a plan f of a budget b.                         *)
Behind(f, b, k) == f[k] + LengthOf(b, k)
Searched(f, b, k) == Behind(f, b, k) + GapOf(b, k + 1)

\* With windowsTaken windows behind it or open, what a phase has left ends
\* where the plan says.
InPrefix(b) ==
  windowsTaken = 0 /\ skip = GapOf(b, 1) /\ seam = FALSE /\ offset + left = b.prefix
InWindowOf(f, b) ==
  /\ windowsTaken > 0 /\ skip = GapOf(b, windowsTaken)
  /\ f[windowsTaken] <= offset + 1 /\ offset + 1 + left = Behind(f, b, windowsTaken)
  /\ seam <=> offset + 1 = f[windowsTaken]
InGap(f, b) ==
  /\ skip = GapOf(b, windowsTaken + 1)
  /\ Behind(f, b, windowsTaken) <= offset + 1
  /\ offset + 1 + left = Searched(f, b, windowsTaken)
Searching(f, b) ==
  /\ offset + 1 + left = Searched(f, b, windowsTaken) + b.window
  /\ \A i \in Searched(f, b, windowsTaken) .. offset : ~IsNewline(stream, i)
InSearch(f, b) ==
  /\ skip = GapOf(b, windowsTaken + 1)
  /\ Searched(f, b, windowsTaken) <= offset + 1
  /\ Searching(f, b) \/ (left = 0 /\ offset + 1 = f[windowsTaken + 1])

OnPlan(f, b) ==
  /\ phase = "prefix" => InPrefix(b)
  /\ phase = "window" => InWindowOf(f, b)
  /\ phase = "skip" => InGap(f, b)
  /\ phase = "align" => InSearch(f, b)

\* What was admitted is what the plan wants of the units behind, until the
\* budget or the plan is at its end.
InPlan(f, b, p) == \E k \in 0 .. b.windows : f[k] <= p /\ p < Behind(f, b, k)
PlannedTo(f, b, last) == {p \in Nat : p <= last /\ InPlan(f, b, p)}
Offsets == {admitted[i].at : i \in DOMAIN admitted}

Ended(f, b, last) ==
  /\ last \in Nat /\ last <= offset
  /\ Offsets = PlannedTo(f, b, last)
  /\ \/ profiled >= b.maxBytes
     \/ \A k \in 0 .. b.windows : Behind(f, b, k) <= last + 1

TakenUpTo(f, b) ==
  /\ phase # "done" => Offsets = PlannedTo(f, b, offset)
  /\ phase = "done" => \E last : Ended(f, b, last)

\* The units that follow a gap are those that a window starts with.
MarkedUpTo(f, b) ==
  \A i \in DOMAIN admitted :
    admitted[i].seam <=> \E k \in 1 .. b.windows : admitted[i].at = f[k]

Follows(f, b) == OnPlan(f, b) /\ TakenUpTo(f, b) /\ MarkedUpTo(f, b)

\* Between two chunks a phase still wants units.
Waiting == ~busy /\ phase # "done" => left > 0

\* The chunk is the end of the stream, unit by unit.
Arriving == \A i \in 1 .. Len(chunk) : chunk[i] = stream[offset + i]

FollowInv == Follows(Start, budget) /\ Waiting /\ Arriving

-----------------------------------------------------------------------------
LEMMA SamplerFacts ==
  ASSUME IndInv
  PROVE  /\ budget \in Budgets /\ stream \in Seq(Unit) /\ chunk \in Seq(Unit)
         /\ offset \in Nat /\ left \in Nat /\ windowsTaken \in Nat /\ profiled \in Nat
         /\ Len(chunk) \in Nat /\ Len(stream) \in Nat /\ offset + Len(chunk) = Len(stream)
         /\ windowsTaken <= budget.windows /\ profiled <= budget.maxBytes
         /\ Len(admitted) = profiled /\ DOMAIN admitted = 1 .. profiled
         /\ seam \in BOOLEAN /\ busy \in BOOLEAN
BY LenProperties DEF IndInv, TypeOK, WithinBudget, Located

\* The plan of the model is a plan.
LEMMA StartIs ==
  /\ Start = PlanOf(stream, budget)
  /\ Reach = ReachOf(budget)
  /\ \A k : Length(k) = LengthOf(budget, k)
<1>1. Gaps = GapsOf(budget)
  BY DEF Gaps, GapsOf, Gap, GapOf
<1>2. Start = PlanOf(stream, budget)
  BY DEF Start, PlanOf, Aligned, AlignedIn, Length, LengthOf, Gap, GapOf
<1>3. QED
  BY <1>1, <1>2 DEF Reach, ReachOf, Length, LengthOf

LEMMA StartIsThen == Start' = PlanOf(stream', budget')
BY DEF Start, PlanOf, Aligned, AlignedIn, Length, LengthOf, Gap, GapOf

-----------------------------------------------------------------------------
\* Where one is in a plan.
LEMMA PlanFacts ==
  ASSUME NEW str, NEW b \in Budgets, NEW f, IsPlan(f, str, b), NEW k \in Nat
  PROVE  /\ f[k] \in Nat \ {0} /\ Behind(f, b, k) \in Nat /\ f[k] <= Behind(f, b, k)
         /\ Searched(f, b, k) \in Nat /\ Behind(f, b, k) < Searched(f, b, k)
         /\ Searched(f, b, k) <= f[k + 1]
         /\ GapOf(b, k + 1) \in Nat \ {0}
<1> DEFINE x == LengthOf(b, k)
           y == GapOf(b, k + 1)
           s == Searched(f, b, k)
<1>1. f[k] \in Nat /\ f[k + 1] \in Nat /\ x \in Nat /\ y \in Nat \ {0} /\ IsAligned(str, b, s, f[k + 1])
  BY NextStart DEF Searched, Behind
<1>2. Behind(f, b, k) = f[k] + x /\ s = f[k] + x + y
  BY DEF Behind, Searched
<1> HIDE DEF x, y, s
<1>3. s <= f[k + 1]
  BY <1>1 DEF IsAligned
<1>4. f[k] # 0
  <2>1. CASE k = 0
    BY <2>1 DEF IsPlan
  <2>2. CASE k # 0
    <3>1. 0 \in Nat /\ 0 < k
      BY <2>2
    <3>2. f[0] + LengthOf(b, 0) < f[k]
      BY <3>1, WindowsApart
    <3>3. f[0] = 1 /\ LengthOf(b, 0) \in Nat
      BY NumbersOf DEF IsPlan
    <3>4. QED
      BY <3>2, <3>3
  <2>3. QED
    BY <2>1, <2>2
<1>5. Behind(f, b, k) \in Nat /\ f[k] <= Behind(f, b, k)
  BY <1>1, <1>2
<1>6. s \in Nat /\ Behind(f, b, k) < s
  BY <1>1, <1>2
<1>7. QED
  BY <1>1, <1>3, <1>4, <1>5, <1>6 DEF s, y

LEMMA NothingBetween ==
  ASSUME NEW str, NEW b \in Budgets, NEW f, IsPlan(f, str, b), NEW k \in Nat,
         NEW p \in Nat, Behind(f, b, k) <= p, p < f[k + 1]
  PROVE  ~InPlan(f, b, p)
<1>1. SUFFICES ASSUME NEW j \in 0 .. b.windows, f[j] <= p, p < Behind(f, b, j) PROVE FALSE
  BY DEF InPlan
<1>2. b.windows \in Nat /\ j \in Nat
  BY NumbersOf
<1>3. /\ Behind(f, b, k) \in Nat /\ Behind(f, b, j) \in Nat
      /\ f[j] \in Nat /\ f[k] \in Nat /\ f[k + 1] \in Nat /\ f[k] <= Behind(f, b, k)
  BY <1>2, PlanFacts, NextStart
<1>4. CASE j < k
  <2>1. Behind(f, b, j) < f[k]
    BY <1>2, <1>4, WindowsApart DEF Behind
  <2>2. QED
    BY <1>1, <1>3, <2>1
<1>5. CASE j = k
  BY <1>1, <1>3, <1>5
<1>6. CASE j = k + 1
  BY <1>1, <1>3, <1>6
<1>7. CASE j > k + 1
  <2>1. f[k + 1] + LengthOf(b, k + 1) < f[j]
    BY <1>2, <1>7, WindowsApart
  <2>2. LengthOf(b, k + 1) \in Nat
    BY NumbersOf
  <2>3. QED
    BY <1>1, <1>3, <2>1, <2>2
<1>8. QED
  BY <1>2, <1>4, <1>5, <1>6, <1>7

\* Passing over a gap or a search leaves out nothing that is wanted.
LEMMA PassedOver ==
  ASSUME NEW str, NEW b \in Budgets, NEW f, IsPlan(f, str, b), NEW k \in Nat,
         NEW o \in Nat, NEW q \in Nat, o <= q, Behind(f, b, k) <= o + 1, q < f[k + 1]
  PROVE  PlannedTo(f, b, q) = PlannedTo(f, b, o)
<1>1. f[k + 1] \in Nat /\ Behind(f, b, k) \in Nat
  BY PlanFacts, NextStart
<1>2. ASSUME NEW p \in Nat, p <= q, InPlan(f, b, p) PROVE p <= o
  <2>1. SUFFICES ASSUME o + 1 <= p PROVE FALSE
    OBVIOUS
  <2>2. Behind(f, b, k) <= p /\ p < f[k + 1]
    BY <1>1, <1>2, <2>1
  <2>3. QED
    BY <1>2, <2>2, NothingBetween
<1>3. \A p \in Nat : p <= o => p <= q
  OBVIOUS
<1>4. QED
  BY <1>2, <1>3 DEF PlannedTo

\* The units of a window are wanted.
LEMMA WantedNext ==
  ASSUME NEW f, NEW b \in Budgets, NEW k \in 0 .. b.windows, f[k] \in Nat,
         Behind(f, b, k) \in Nat, NEW o \in Nat, NEW q \in Nat,
         f[k] <= o + 1, o <= q, q < Behind(f, b, k)
  PROVE  PlannedTo(f, b, q) = PlannedTo(f, b, o) \cup (o + 1 .. q)
<1>1. ASSUME NEW p \in o + 1 .. q PROVE p \in PlannedTo(f, b, q)
  <2>1. p \in Nat /\ f[k] <= p /\ p < Behind(f, b, k) /\ p <= q
    BY <1>1
  <2>2. InPlan(f, b, p)
    BY <2>1 DEF InPlan
  <2>3. QED
    BY <2>1, <2>2 DEF PlannedTo
<1>2. ASSUME NEW p \in PlannedTo(f, b, q) PROVE p \in PlannedTo(f, b, o) \cup (o + 1 .. q)
  BY <1>2 DEF PlannedTo
<1>3. PlannedTo(f, b, o) \subseteq PlannedTo(f, b, q)
  BY DEF PlannedTo
<1>4. QED
  BY <1>1, <1>2, <1>3
-----------------------------------------------------------------------------
(* The steps keep to the plan.                                             *)
LEMMA SearchBefore ==
  ASSUME IndInv, NEW b \in Budgets, NEW f, IsPlan(f, stream, b), InSearch(f, b)
  PROVE  /\ offset + 1 <= f[windowsTaken + 1]
         /\ left = 0 => offset + 1 = f[windowsTaken + 1]
<1> DEFINE k == windowsTaken
           s == Searched(f, b, k)
           a == f[k + 1]
<1>1. k \in Nat /\ offset \in Nat /\ left \in Nat /\ b.window \in Nat
  BY SamplerFacts, NumbersOf
<1>2. s \in Nat /\ IsAligned(stream, b, s, a)
  BY <1>1, PlanFacts, NextStart DEF Searched, Behind
<1>3. s <= offset + 1
  BY DEF InSearch
<1>4. Searching(f, b) \/ (left = 0 /\ offset + 1 = a)
  BY DEF InSearch
<1>5. CASE Searching(f, b)
  <2>1. offset + 1 + left = s + b.window /\ \A i \in s .. offset : ~IsNewline(stream, i)
    BY <1>5 DEF Searching
  <2> HIDE DEF a, s, k
  <2>2. /\ a \in Nat /\ s <= a /\ a <= s + b.window
        /\ a < s + b.window => s < a /\ IsNewline(stream, a - 1)
    BY <1>2 DEF IsAligned
  <2>3. ASSUME a < offset + 1 PROVE FALSE
    <3>1. a < s + b.window /\ s < a
      BY <1>1, <1>2, <2>1, <2>2, <2>3
    <3>2. IsNewline(stream, a - 1) /\ a - 1 \in s .. offset
      BY <1>1, <1>2, <2>2, <2>3, <3>1
    <3>3. QED
      BY <2>1, <3>2
  <2>4. offset + 1 <= a
    BY <1>1, <2>2, <2>3
  <2>5. left = 0 => offset + 1 = a
    BY <1>1, <1>2, <2>1, <2>2, <2>4
  <2>6. QED
    BY <2>4, <2>5 DEF a, k
<1>6. CASE left = 0 /\ offset + 1 = a
  BY <1>1, <1>6
<1>7. QED
  BY <1>4, <1>5, <1>6

LEMMA FollowReturn ==
  ASSUME IndInv, NEW b \in Budgets, b = budget, NEW f, Follows(f, b), Return, UNCHANGED stream
  PROVE  Follows(f, b)'
<1>1. /\ UNCHANGED <<left, skip, windowsTaken, profiled, seam, admitted, stream>>
      /\ offset' = offset + Len(chunk) /\ offset \in Nat /\ Len(chunk) \in Nat
  BY SamplerFacts DEF Return, FeedReturn, Consume, control
<1>2. Offsets' = Offsets /\ offset' \in Nat /\ offset <= offset'
  BY <1>1 DEF Offsets
<1>3. MarkedUpTo(f, b)'
  BY <1>1 DEF Follows, MarkedUpTo
<1>4. ASSUME NEW last, Ended(f, b, last) PROVE Ended(f, b, last)'
  BY <1>1, <1>2, <1>4 DEF Ended
<1>5. CASE phase = "done"
  <2>1. phase' = "done"
    BY <1>5 DEF Return, control
  <2>2. OnPlan(f, b)'
    BY <2>1 DEF OnPlan
  <2>3. TakenUpTo(f, b)'
    BY <1>4, <1>5, <2>1 DEF Follows, TakenUpTo
  <2>4. QED
    BY <1>3, <2>2, <2>3 DEF Follows
<1>6. CASE phase # "done" /\ Spent
  <2>1. phase' = "done"
    BY <1>6, SamplerFacts DEF Return, Spent
  <2>2. OnPlan(f, b)'
    BY <2>1 DEF OnPlan
  <2>3. Offsets = PlannedTo(f, b, offset) /\ profiled >= b.maxBytes
    BY <1>6 DEF Follows, TakenUpTo, Spent
  <2>4. Ended(f, b, offset)
    BY <1>1, <2>3 DEF Ended
  <2>5. TakenUpTo(f, b)'
    BY <1>4, <2>1, <2>4 DEF TakenUpTo
  <2>6. QED
    BY <1>3, <2>2, <2>5 DEF Follows
<1>7. CASE phase # "done" /\ ~Spent
  <2>1. chunk = <<>> /\ phase' = phase
    BY <1>7 DEF Return, control
  <2>2. Len(chunk) = 0
    BY <2>1
  <2>3. offset' = offset
    BY <1>1, <2>2
  <2>4. OnPlan(f, b)'
    BY <1>1, <2>1, <2>3 DEF Follows, OnPlan, InPrefix, InWindowOf, InGap, InSearch, Searching
  <2>5. TakenUpTo(f, b)'
    BY <1>2, <1>7, <2>1, <2>3 DEF Follows, TakenUpTo
  <2>6. QED
    BY <1>3, <2>4, <2>5 DEF Follows
<1>8. QED
  BY <1>5, <1>6, <1>7

LEMMA FollowAdvance ==
  ASSUME IndInv, NEW b \in Budgets, b = budget, NEW f, IsPlan(f, stream, b), Follows(f, b),
         Advance, UNCHANGED stream
  PROVE  Follows(f, b)'
<1> DEFINE k == windowsTaken
<1>1. /\ UNCHANGED <<budget, profiled, chunk, busy, offset, admitted, stream>>
      /\ left = 0 /\ phase # "done"
  BY DEF Advance, PhaseOver
<1>2. k \in Nat /\ offset \in Nat /\ k <= b.windows /\ b.windows \in Nat /\ b.window \in Nat /\ b.prefix \in Nat
  BY SamplerFacts, NumbersOf
<1>3. MarkedUpTo(f, b)'
  BY <1>1 DEF Follows, MarkedUpTo
<1>4. Offsets' = Offsets /\ Offsets = PlannedTo(f, b, offset)
  BY <1>1 DEF Offsets, Follows, TakenUpTo
<1>5. /\ f[k] \in Nat /\ Behind(f, b, k) \in Nat /\ Searched(f, b, k) \in Nat
      /\ Searched(f, b, k) = Behind(f, b, k) + GapOf(b, k + 1)
      /\ GapOf(b, k + 1) \in Nat
  BY <1>2, PlanFacts DEF Searched
<1>6. /\ phase = "prefix" => k = 0 /\ skip = GapOf(b, k + 1) /\ offset + 1 = Behind(f, b, k)
      /\ phase = "window" => k > 0 /\ skip = GapOf(b, k) /\ offset + 1 = Behind(f, b, k)
      /\ phase = "skip" => skip = GapOf(b, k + 1) /\ offset + 1 = Searched(f, b, k)
      /\ phase = "align" => skip = GapOf(b, k + 1) /\ offset + 1 = f[k + 1]
  <2>1. CASE phase = "prefix"
    <3>1. k = 0 /\ skip = GapOf(b, 1) /\ offset + left = b.prefix
      BY <2>1 DEF Follows, OnPlan, InPrefix
    <3>2. Behind(f, b, 0) = 1 + b.prefix
      BY DEF Behind, LengthOf, IsPlan
    <3>3. QED
      BY <1>1, <1>2, <2>1, <3>1, <3>2
  <2>2. CASE phase = "window"
    <3>1. k > 0 /\ skip = GapOf(b, k) /\ offset + 1 + left = Behind(f, b, k)
      BY <2>2 DEF Follows, OnPlan, InWindowOf
    <3>2. QED
      BY <1>1, <1>2, <2>2, <3>1
  <2>3. CASE phase = "skip"
    <3>1. skip = GapOf(b, k + 1) /\ offset + 1 + left = Searched(f, b, k)
      BY <2>3 DEF Follows, OnPlan, InGap
    <3>2. QED
      BY <1>1, <1>2, <2>3, <3>1
  <2>4. CASE phase = "align"
    <3>1. InSearch(f, b)
      BY <2>4 DEF Follows, OnPlan
    <3>2. skip = GapOf(b, k + 1)
      BY <3>1 DEF InSearch
    <3>3. QED
      BY <1>1, <2>4, <3>1, <3>2, SearchBefore
  <2>5. QED
    BY <2>1, <2>2, <2>3, <2>4
<1>7. ASSUME Finish, offset + 1 >= Behind(f, b, b.windows) PROVE Follows(f, b)'
  <2>1. phase' = "done"
    BY <1>7 DEF Finish
  <2>2. OnPlan(f, b)'
    BY <2>1 DEF OnPlan
  <2>3. ASSUME NEW j \in 0 .. b.windows PROVE Behind(f, b, j) <= offset + 1
    <3>1. CASE j = b.windows
      BY <1>7, <3>1
    <3>2. CASE j < b.windows
      <4>1. j \in Nat
        BY <1>2
      <4>2. Behind(f, b, j) < f[b.windows]
        BY <1>2, <3>2, <4>1, WindowsApart DEF Behind
      <4>3. /\ Behind(f, b, j) \in Nat /\ f[b.windows] \in Nat
            /\ f[b.windows] <= Behind(f, b, b.windows) /\ Behind(f, b, b.windows) \in Nat
        BY <1>2, <4>1, PlanFacts
      <4>4. QED
        BY <1>2, <1>7, <4>2, <4>3
    <3>3. QED
      BY <1>2, <3>1, <3>2
  <2>4. Ended(f, b, offset)'
    BY <1>1, <1>2, <1>4, <2>3 DEF Ended
  <2>5. TakenUpTo(f, b)'
    BY <1>1, <2>1, <2>4 DEF TakenUpTo
  <2>6. QED
    BY <1>3, <2>2, <2>5 DEF Follows
<1>8. ASSUME phase' # "done", OnPlan(f, b)' PROVE Follows(f, b)'
  <2>1. TakenUpTo(f, b)'
    BY <1>1, <1>4, <1>8 DEF TakenUpTo
  <2>2. QED
    BY <1>3, <1>8, <2>1 DEF Follows
<1>9. CASE phase = "prefix" /\ budget.windows = 0 /\ Finish
  BY <1>2, <1>5, <1>6, <1>7, <1>9
<1>10. CASE /\ phase = "prefix" /\ phase' = "skip" /\ left' = skip
            /\ UNCHANGED <<skip, windowsTaken, seam>>
  <2>1. InGap(f, b)'
    BY <1>1, <1>2, <1>5, <1>6, <1>10 DEF InGap
  <2>2. QED
    BY <1>8, <1>10, <2>1 DEF OnPlan
<1>11. CASE /\ phase = "skip" /\ phase' = "align" /\ left' = budget.window
            /\ UNCHANGED <<skip, windowsTaken, seam>>
  <2>1. Searching(f, b)'
    BY <1>1, <1>2, <1>5, <1>6, <1>11 DEF Searching
  <2>2. InSearch(f, b)'
    BY <1>1, <1>2, <1>5, <1>6, <1>11, <2>1 DEF InSearch
  <2>3. QED
    BY <1>8, <1>11, <2>2 DEF OnPlan
<1>12. CASE phase = "align" /\ NoWindowLeft /\ Finish
  <2>1. k = b.windows
    BY <1>2, <1>12 DEF NoWindowLeft
  <2>2. Searched(f, b, k) <= f[k + 1] /\ Behind(f, b, k) < Searched(f, b, k) /\ f[k + 1] \in Nat
    BY <1>2, PlanFacts, NextStart
  <2>3. QED
    BY <1>2, <1>5, <1>6, <1>7, <1>12, <2>1, <2>2
<1>13. CASE /\ phase = "align" /\ ~NoWindowLeft
            /\ phase' = "window" /\ left' = budget.window
            /\ windowsTaken' = windowsTaken + 1 /\ seam' = TRUE
            /\ UNCHANGED skip
  <2>1. k + 1 # 0 /\ Behind(f, b, k + 1) = f[k + 1] + b.window /\ f[k + 1] \in Nat
    <3>0. f[k + 1] \in Nat
      BY <1>2, NextStart
    <3>1. k + 1 # 0 /\ f[k + 1] \in Nat
      BY <1>2, <3>0
    <3>2. LengthOf(b, k + 1) = b.window
      BY <3>1 DEF LengthOf
    <3>3. QED
      BY <3>1, <3>2 DEF Behind
  <2>2. InWindowOf(f, b)'
    BY <1>1, <1>2, <1>6, <1>13, <2>1 DEF InWindowOf
  <2>3. QED
    BY <1>8, <1>13, <2>2 DEF OnPlan
<1>14. CASE /\ phase = "window" /\ skip' = Least(skip * 2, MaxU64)
            /\ phase' = "skip" /\ left' = skip'
            /\ UNCHANGED <<windowsTaken, seam>>
  <2>1. GapOf(b, k + 1) = Least(GapOf(b, k) * 2, MaxU64)
    <3>1. k - 1 \in Nat /\ (k - 1) + 1 = k /\ (k - 1) + 2 = k + 1
      BY <1>2, <1>6, <1>14
    <3>2. GapOf(b, (k - 1) + 2) = Least(GapOf(b, (k - 1) + 1) * 2, MaxU64)
      BY <3>1, Gapped
    <3>3. QED
      BY <3>1, <3>2
  <2>2. skip' = GapOf(b, k + 1)
    BY <1>6, <1>14, <2>1
  <2>3. InGap(f, b)'
    BY <1>1, <1>2, <1>5, <1>6, <1>14, <2>2 DEF InGap
  <2>4. QED
    BY <1>8, <1>14, <2>3 DEF OnPlan
<1>15. QED
  BY <1>9, <1>10, <1>11, <1>12, <1>13, <1>14 DEF Advance
\* What the chunk has left is still the end of the stream.
LEMMA StillArriving ==
  ASSUME IndInv, Arriving, NEW n \in Nat, n <= Len(chunk), Consume(n), UNCHANGED stream
  PROVE  Arriving'
<1>1. /\ chunk \in Seq(Unit) /\ Len(chunk) \in Nat /\ offset \in Nat
      /\ chunk' = SubSeq(chunk, n + 1, Len(chunk)) /\ offset' = offset + n
  BY SamplerFacts DEF Consume
<1>2. Len(chunk') = Len(chunk) - n /\ \A i \in 1 .. Len(chunk) - n : chunk'[i] = chunk[i + n]
  <2>1. n + 1 \in 1 .. Len(chunk) + 1 /\ Len(chunk) \in n .. Len(chunk)
    BY <1>1
  <2>2. chunk' = [i \in 1 .. Len(chunk) - n |-> chunk[i + n]]
    BY <1>1, <2>1
  <2>3. QED
    BY <1>1, <2>2, SubSeqProperties
<1>3. ASSUME NEW i \in 1 .. Len(chunk') PROVE chunk'[i] = stream[offset' + i]
  <2>1. i \in 1 .. Len(chunk) - n /\ i + n \in 1 .. Len(chunk)
    BY <1>1, <1>2
  <2>2. chunk'[i] = chunk[i + n]
    BY <1>2, <2>1
  <2>3. chunk[i + n] = stream[offset + (i + n)]
    BY <2>1 DEF Arriving
  <2>4. offset + (i + n) = offset' + i
    BY <1>1, <2>1
  <2>5. QED
    BY <2>2, <2>3, <2>4
<1>4. QED
  BY <1>3 DEF Arriving

\* Units that are left behind and not wanted.
LEMMA FollowPast ==
  ASSUME IndInv, NEW b \in Budgets, NEW f, IsPlan(f, stream, b), Follows(f, b),
         phase # "done", NEW n \in Nat, offset' = offset + n,
         Behind(f, b, windowsTaken) <= offset + 1, offset + n < f[windowsTaken + 1],
         OnPlan(f, b)', UNCHANGED <<phase, admitted>>
  PROVE  Follows(f, b)'
<1>1. windowsTaken \in Nat /\ offset \in Nat
  BY SamplerFacts
<1>2. PlannedTo(f, b, offset + n) = PlannedTo(f, b, offset)
  <2>1. offset + n \in Nat /\ offset <= offset + n
    BY <1>1
  <2>2. QED
    BY <1>1, <2>1, PassedOver
<1>3. Offsets' = Offsets
  BY DEF Offsets
<1>4. TakenUpTo(f, b)'
  BY <1>2, <1>3 DEF Follows, TakenUpTo
<1>5. MarkedUpTo(f, b)'
  BY DEF Follows, MarkedUpTo
<1>6. QED
  BY <1>4, <1>5 DEF Follows

LEMMA FollowSkip ==
  ASSUME IndInv, NEW b \in Budgets, b = budget, NEW f, IsPlan(f, stream, b), Follows(f, b),
         SkipUnits, UNCHANGED stream
  PROVE  Follows(f, b)'
<1> DEFINE n == Least(Len(chunk), left)
           k == windowsTaken
<1>1. /\ k \in Nat /\ offset \in Nat /\ left \in Nat /\ Len(chunk) \in Nat
      /\ UNCHANGED <<phase, skip, windowsTaken, admitted>>
      /\ phase = "skip" /\ left' = left - n /\ offset' = offset + n
  BY SamplerFacts DEF SkipUnits, InPhase, Consume
<1>2. n \in Nat /\ n <= left
  BY <1>1 DEF Least
<1> HIDE DEF n
<1>3. /\ skip = GapOf(b, k + 1) /\ Behind(f, b, k) <= offset + 1
      /\ offset + 1 + left = Searched(f, b, k)
  BY <1>1 DEF Follows, OnPlan, InGap
<1>4. /\ Behind(f, b, k) \in Nat /\ Searched(f, b, k) \in Nat
      /\ Searched(f, b, k) <= f[k + 1] /\ f[k + 1] \in Nat
  BY <1>1, PlanFacts, NextStart
<1>5. OnPlan(f, b)'
  <2>1. InGap(f, b)'
    BY <1>1, <1>2, <1>3, <1>4 DEF InGap
  <2>2. QED
    BY <1>1, <2>1 DEF OnPlan
<1>6. offset + n < f[k + 1]
  BY <1>1, <1>2, <1>3, <1>4
<1>7. QED
  BY <1>1, <1>2, <1>3, <1>5, <1>6, FollowPast

LEMMA FollowAlign ==
  ASSUME IndInv, NEW b \in Budgets, b = budget, NEW f, IsPlan(f, stream, b), Follows(f, b),
         Arriving, Align, UNCHANGED stream
  PROVE  Follows(f, b)'
<1> DEFINE take == Least(Len(chunk), left)
           newlines == {i \in 1 .. take : chunk[i] = Newline}
           k == windowsTaken
           s == Searched(f, b, k)
           a == f[k + 1]
<1>1. /\ k \in Nat /\ offset \in Nat /\ left \in Nat /\ Len(chunk) \in Nat
      /\ Len(stream) = offset + Len(chunk) /\ stream \in Seq(Unit) /\ b.window \in Nat
  BY SamplerFacts, NumbersOf
<1>2. /\ UNCHANGED <<phase, skip, windowsTaken, admitted>> /\ phase = "align" /\ left > 0
      /\ \/ \E i \in newlines : (\A j \in newlines : i <= j) /\ left' = 0 /\ Consume(i)
         \/ newlines = {} /\ left' = left - take /\ Consume(take)
  BY DEF Align, InPhase
<1>3. take \in Nat /\ take <= left /\ take <= Len(chunk)
  BY <1>1 DEF Least
<1> HIDE DEF take
<1>4. InSearch(f, b)
  BY <1>2 DEF Follows, OnPlan
<1>5. /\ skip = GapOf(b, k + 1) /\ s <= offset + 1 /\ offset + 1 + left = s + b.window
      /\ \A i \in s .. offset : ~IsNewline(stream, i)
  BY <1>1, <1>2, <1>4 DEF InSearch, Searching
<1>6. Behind(f, b, k) \in Nat /\ s \in Nat /\ Behind(f, b, k) < s /\ a \in Nat /\ IsAligned(stream, b, s, a)
  BY <1>1, PlanFacts, NextStart DEF Searched, Behind
<1> HIDE DEF s, a
<1>7. \A i \in 1 .. take : i \in newlines <=> IsNewline(stream, offset + i)
  <2> SUFFICES ASSUME NEW i \in 1 .. take PROVE i \in newlines <=> IsNewline(stream, offset + i)
    OBVIOUS
  <2>1. i \in 1 .. Len(chunk)
    BY <1>1, <1>3
  <2>2. chunk[i] = stream[offset + i]
    BY <2>1 DEF Arriving
  <2>3. offset + i \in DOMAIN stream
    BY <1>1, <2>1, LenProperties
  <2>4. QED
    BY <2>2, <2>3 DEF IsNewline
<1>8. CASE newlines = {} /\ left' = left - take /\ Consume(take)
  <2>1. offset' = offset + take
    BY <1>8 DEF Consume
  <2>2. \A i \in s .. offset' : ~IsNewline(stream, i)
    <3> SUFFICES ASSUME NEW i \in s .. offset', IsNewline(stream, i) PROVE FALSE
      OBVIOUS
    <3>1. ~(i <= offset)
      BY <1>1, <1>5, <1>6, <2>1
    <3>2. i - offset \in 1 .. take /\ offset + (i - offset) = i
      BY <1>1, <1>3, <1>6, <2>1, <3>1
    <3>3. i - offset \in newlines
      BY <1>7, <3>2
    <3>4. QED
      BY <1>8, <3>3
  <2>3. Searching(f, b)'
    <3>1. offset' + 1 + left' = s + b.window
      BY <1>1, <1>3, <1>5, <1>6, <1>8, <2>1
    <3>2. QED
      BY <1>2, <2>2, <3>1 DEF Searching, s
  <2>4. InSearch(f, b)'
    <3>1. s <= offset' + 1
      BY <1>1, <1>3, <1>5, <1>6, <2>1
    <3>2. QED
      BY <1>2, <1>5, <2>3, <3>1 DEF InSearch, s
  <2>5. OnPlan(f, b)'
    BY <1>2, <2>4 DEF OnPlan
  <2>6. offset' + 1 <= a
    <3>1. SUFFICES ASSUME a < offset' + 1 PROVE FALSE
      BY <1>1, <1>3, <1>6, <2>1
    <3>2. a < s + b.window
      BY <1>1, <1>3, <1>5, <1>6, <2>1, <3>1
    <3>3. s < a /\ IsNewline(stream, a - 1)
      BY <1>6, <3>2 DEF IsAligned
    <3>4. a - 1 \in s .. offset'
      BY <1>1, <1>3, <1>6, <2>1, <3>1, <3>3
    <3>5. QED
      BY <2>2, <3>3, <3>4
  <2>7. Behind(f, b, k) <= offset + 1 /\ offset + take < a
    BY <1>1, <1>3, <1>5, <1>6, <2>1, <2>6
  <2>8. QED
    BY <1>2, <1>3, <2>1, <2>5, <2>7, FollowPast DEF a
<1>9. ASSUME NEW i \in newlines, \A j \in newlines : i <= j, left' = 0, Consume(i)
      PROVE  Follows(f, b)'
  <2>1. offset' = offset + i /\ i \in 1 .. take /\ i \in Nat
    BY <1>3, <1>9 DEF Consume
  <2>2. IsNewline(stream, offset + i) /\ offset + i \in s .. s + b.window - 1
    <3>1. IsNewline(stream, offset + i)
      BY <1>7, <1>9, <2>1
    <3>2. s <= offset + i /\ offset + i <= s + b.window - 1
      <4> DEFINE w == b.window
      <4>1. /\ w \in Nat /\ offset \in Nat /\ left \in Nat /\ take \in Nat /\ i \in Nat /\ s \in Nat
            /\ 1 <= i /\ i <= take /\ take <= left /\ s <= offset + 1 /\ offset + 1 + left = s + w
        BY <1>1, <1>3, <1>5, <1>6, <2>1
      <4> HIDE DEF w
      <4>2. QED
        BY <4>1 DEF w
    <3>3. QED
      BY <1>1, <1>6, <2>1, <3>1, <3>2
  <2>3. a <= offset + i + 1
    BY <1>6, <2>2 DEF IsAligned
  <2>4. ASSUME a < offset + i + 1 PROVE FALSE
    <3>1. a < s + b.window
      BY <1>1, <1>6, <2>1, <2>2, <2>4
    <3>2. s < a /\ IsNewline(stream, a - 1)
      BY <1>6, <3>1 DEF IsAligned
    <3>3. ~(a - 1 <= offset)
      BY <1>1, <1>5, <1>6, <3>2
    <3>4. a - 1 - offset \in 1 .. take /\ offset + (a - 1 - offset) = a - 1 /\ a - 1 - offset < i
      BY <1>1, <1>3, <1>6, <2>1, <2>4, <3>3
    <3>5. a - 1 - offset \in newlines
      BY <1>7, <3>2, <3>4
    <3>6. QED
      BY <1>1, <1>6, <1>9, <2>1, <3>4, <3>5
  <2>5. offset' + 1 = a
    BY <1>1, <1>6, <2>1, <2>3, <2>4
  <2>6. InSearch(f, b)'
    <3>1. s <= offset' + 1
      BY <1>1, <1>5, <1>6, <2>1
    <3>2. QED
      BY <1>2, <1>5, <1>9, <2>5, <3>1 DEF InSearch, s, a
  <2>7. OnPlan(f, b)'
    BY <1>2, <2>6 DEF OnPlan
  <2>8. Behind(f, b, k) <= offset + 1 /\ offset + i < a
    BY <1>1, <1>5, <1>6, <2>1, <2>5
  <2>9. QED
    BY <1>2, <2>1, <2>7, <2>8, FollowPast DEF a
<1>10. QED
  BY <1>2, <1>8, <1>9
\* What emit appends.
Appended(n) ==
  /\ n \in Nat /\ n > 0 /\ n <= left /\ n <= Len(chunk)
  /\ profiled' = profiled + n /\ left' = left - n /\ offset' = offset + n /\ Consume(n)
  /\ DOMAIN admitted' = 1 .. profiled + n
  /\ \A i \in 1 .. profiled : admitted'[i] = admitted[i]
  /\ \A i \in 1 .. n : admitted'[profiled + i] = [at |-> offset + i, seam |-> seam /\ i = 1]

LEMMA Emitted ==
  ASSUME IndInv, Emit
  PROVE  \E n : Appended(n)
<1> DEFINE n == Least(Least(Len(chunk), left), budget.maxBytes - profiled)
           more == [i \in 1 .. n |-> [at |-> offset + i, seam |-> seam /\ i = 1]]
           Admitted == [at : Nat \ {0}, seam : BOOLEAN]
<1>1. /\ admitted' = admitted \o more /\ profiled' = profiled + n /\ left' = left - n
      /\ Consume(n) /\ chunk # <<>> /\ ~Spent /\ left > 0
  BY DEF Emit, InPhase
<1>2. /\ left \in Nat /\ offset \in Nat /\ Len(chunk) \in Nat /\ profiled \in Nat
      /\ chunk \in Seq(Unit) /\ budget.maxBytes \in Nat /\ Len(admitted) = profiled
      /\ seam \in BOOLEAN
  BY SamplerFacts, BudgetFacts
<1>3. Len(chunk) # 0
  BY <1>1, <1>2, EmptySeq
<1>4. n \in Nat /\ n <= Len(chunk) /\ n <= left /\ n > 0
  <2>1. budget.maxBytes - profiled \in Nat /\ budget.maxBytes - profiled > 0
    BY <1>1, <1>2 DEF Spent
  <2>2. Len(chunk) > 0
    BY <1>2, <1>3
  <2>3. QED
    BY <1>1, <1>2, <2>1, <2>2, LeastOfThree
<1> HIDE DEF n
<1>5. more \in Seq(Admitted) /\ Len(more) = n
  <2>1. \A i \in 1 .. n : more[i] \in Admitted
    BY <1>2, <1>4
  <2>2. QED
    BY <1>4, <2>1, IsASeq, LenProperties
<1>6. \A i \in 1 .. n : more[i] = [at |-> offset + i, seam |-> seam /\ i = 1]
  OBVIOUS
<1>7. admitted \in Seq(Admitted)
  BY DEF IndInv, TypeOK
<1> HIDE DEF Admitted, more
<1>8. /\ admitted' \in Seq(Admitted) /\ Len(admitted') = profiled + n
      /\ \A i \in 1 .. profiled + n :
           admitted'[i] = IF i <= profiled THEN admitted[i] ELSE more[i - profiled]
  BY <1>1, <1>2, <1>5, <1>7, ConcatProperties
<1>9. DOMAIN admitted' = 1 .. profiled + n
  BY <1>8, LenProperties
<1>10. \A i \in 1 .. profiled : admitted'[i] = admitted[i]
  BY <1>2, <1>4, <1>8
<1>11. ASSUME NEW i \in 1 .. n
       PROVE  admitted'[profiled + i] = [at |-> offset + i, seam |-> seam /\ i = 1]
  <2>1. profiled + i \in 1 .. profiled + n /\ ~(profiled + i <= profiled) /\ (profiled + i) - profiled = i
    BY <1>2, <1>4
  <2>2. admitted'[profiled + i] = more[(profiled + i) - profiled]
    BY <1>8, <2>1
  <2>3. QED
    BY <1>6, <2>1, <2>2
<1>12. offset' = offset + n
  BY <1>1 DEF Consume
<1>13. Appended(n)
  BY <1>1, <1>4, <1>9, <1>10, <1>11, <1>12 DEF Appended
<1>14. QED
  BY <1>13

LEMMA MoreOffsets ==
  ASSUME IndInv, NEW n, Appended(n)
  PROVE  Offsets' = Offsets \cup (offset + 1 .. offset + n)
<1>1. /\ profiled \in Nat /\ offset \in Nat /\ n \in Nat /\ DOMAIN admitted = 1 .. profiled
      /\ DOMAIN admitted' = 1 .. profiled + n
      /\ \A i \in 1 .. profiled : admitted'[i] = admitted[i]
      /\ \A i \in 1 .. n : admitted'[profiled + i] = [at |-> offset + i, seam |-> seam /\ i = 1]
  BY SamplerFacts DEF Appended
<1>2. ASSUME NEW p \in Offsets' PROVE p \in Offsets \cup (offset + 1 .. offset + n)
  <2>1. PICK i \in 1 .. profiled + n : p = admitted'[i].at
    BY <1>1, <1>2 DEF Offsets
  <2>2. CASE i \in 1 .. profiled
    BY <1>1, <2>1, <2>2 DEF Offsets
  <2>3. CASE i \notin 1 .. profiled
    <3> DEFINE j == i - profiled
    <3>1. j \in 1 .. n /\ profiled + j = i
      BY <1>1, <2>1, <2>3
    <3> HIDE DEF j
    <3>2. admitted'[profiled + j] = [at |-> offset + j, seam |-> seam /\ j = 1]
      BY <1>1, <3>1
    <3>3. p = offset + j
      BY <2>1, <3>1, <3>2
    <3>4. QED
      BY <1>1, <3>1, <3>3
  <2>4. QED
    BY <2>2, <2>3
<1>3. ASSUME NEW p \in Offsets PROVE p \in Offsets'
  <2>1. PICK i \in 1 .. profiled : p = admitted[i].at
    BY <1>1, <1>3 DEF Offsets
  <2>2. i \in DOMAIN admitted' /\ p = admitted'[i].at
    BY <1>1, <2>1
  <2>3. QED
    BY <2>2 DEF Offsets
<1>4. ASSUME NEW p \in offset + 1 .. offset + n PROVE p \in Offsets'
  <2> DEFINE j == p - offset
  <2>1. j \in 1 .. n /\ offset + j = p
    BY <1>1
  <2> HIDE DEF j
  <2>2. admitted'[profiled + j] = [at |-> offset + j, seam |-> seam /\ j = 1]
    BY <1>1, <2>1
  <2>3. profiled + j \in DOMAIN admitted' /\ admitted'[profiled + j].at = p
    BY <1>1, <2>1, <2>2
  <2>4. QED
    BY <2>3 DEF Offsets
<1>5. QED
  BY <1>2, <1>3, <1>4

\* Of the units appended, the one that a window starts with is marked.
LEMMA MoreMarked ==
  ASSUME IndInv, NEW b \in Budgets, NEW f, MarkedUpTo(f, b), NEW n, Appended(n),
         \A i \in 1 .. n : (seam /\ i = 1) <=> \E k \in 1 .. b.windows : offset + i = f[k]
  PROVE  MarkedUpTo(f, b)'
<1>1. /\ profiled \in Nat /\ offset \in Nat /\ n \in Nat /\ DOMAIN admitted = 1 .. profiled
      /\ DOMAIN admitted' = 1 .. profiled + n
      /\ \A i \in 1 .. profiled : admitted'[i] = admitted[i]
      /\ \A i \in 1 .. n : admitted'[profiled + i] = [at |-> offset + i, seam |-> seam /\ i = 1]
  BY SamplerFacts DEF Appended
<1>2. ASSUME NEW i \in 1 .. profiled + n
      PROVE  admitted'[i].seam <=> \E k \in 1 .. b.windows : admitted'[i].at = f[k]
  <2>1. CASE i \in 1 .. profiled
    BY <1>1, <2>1 DEF MarkedUpTo
  <2>2. CASE i \notin 1 .. profiled
    <3> DEFINE j == i - profiled
    <3>1. j \in 1 .. n /\ profiled + j = i
      BY <1>1, <2>2
    <3> HIDE DEF j
    <3>2. admitted'[i] = [at |-> offset + j, seam |-> seam /\ j = 1]
      BY <1>1, <3>1
    <3>3. admitted'[i].at = offset + j /\ (admitted'[i].seam <=> (seam /\ j = 1))
      <4>1. admitted'[i].at = offset + j
        BY <3>2
      <4>2. admitted'[i].seam = (seam /\ j = 1)
        BY <3>2
      <4>3. QED
        BY <4>1, <4>2
    <3>4. QED
      BY <3>1, <3>3
  <2>3. QED
    BY <2>1, <2>2
<1>3. QED
  BY <1>1, <1>2 DEF MarkedUpTo

LEMMA FollowEmit ==
  ASSUME IndInv, NEW b \in Budgets, b = budget, NEW f, IsPlan(f, stream, b), Follows(f, b),
         Emit, UNCHANGED stream
  PROVE  Follows(f, b)'
<1> DEFINE k == windowsTaken
<1>1. /\ UNCHANGED <<phase, skip, windowsTaken>> /\ seam' = FALSE
      /\ phase = "prefix" \/ phase = "window"
  BY DEF Emit, InPhase
<1>2. PICK n : Appended(n)
  BY Emitted
<1>3. /\ k \in Nat /\ offset \in Nat /\ left \in Nat /\ k <= b.windows
      /\ b.windows \in Nat /\ b.prefix \in Nat /\ seam \in BOOLEAN
  BY SamplerFacts, NumbersOf
<1>4. n \in Nat /\ n > 0 /\ n <= left /\ left' = left - n /\ offset' = offset + n
  BY <1>2 DEF Appended
<1>5. /\ f[k] \in Nat /\ Behind(f, b, k) \in Nat /\ k \in 0 .. b.windows
      /\ f[k] <= offset + 1 /\ offset + 1 + left = Behind(f, b, k)
      /\ phase = "prefix" => k = 0 /\ f[k] = 1 /\ seam = FALSE
      /\ phase = "window" => k > 0 /\ (seam <=> offset + 1 = f[k])
  <2>1. f[k] \in Nat /\ Behind(f, b, k) \in Nat /\ k \in 0 .. b.windows
    BY <1>3, PlanFacts
  <2>2. CASE phase = "prefix"
    <3>1. k = 0 /\ offset + left = b.prefix /\ seam = FALSE
      BY <2>2 DEF Follows, OnPlan, InPrefix
    <3>2. f[0] = 1 /\ Behind(f, b, 0) = 1 + b.prefix
      BY DEF Behind, LengthOf, IsPlan
    <3>3. offset + 1 + left = Behind(f, b, k) /\ f[k] = 1 /\ f[k] <= offset + 1
      BY <1>3, <3>1, <3>2
    <3>4. QED
      BY <2>1, <2>2, <3>1, <3>3
  <2>3. CASE phase = "window"
    BY <2>1, <2>3 DEF Follows, OnPlan, InWindowOf
  <2>4. QED
    BY <1>1, <2>2, <2>3
<1>6. OnPlan(f, b)'
  <2>1. CASE phase = "prefix"
    <3>1. InPrefix(b)'
      BY <1>1, <1>3, <1>4, <2>1 DEF Follows, OnPlan, InPrefix
    <3>2. QED
      BY <1>1, <2>1, <3>1 DEF OnPlan
  <2>2. CASE phase = "window"
    <3>1. f[k] <= offset' + 1 /\ offset' + 1 + left' = Behind(f, b, k) /\ offset' + 1 # f[k]
      BY <1>3, <1>4, <1>5
    <3>2. InWindowOf(f, b)'
      BY <1>1, <2>2, <3>1 DEF Follows, OnPlan, InWindowOf
    <3>3. QED
      BY <1>1, <2>2, <3>2 DEF OnPlan
  <2>3. QED
    BY <1>1, <2>1, <2>2
<1>7. TakenUpTo(f, b)'
  <2>1. Offsets = PlannedTo(f, b, offset) /\ phase # "done"
    BY <1>1 DEF Follows, TakenUpTo
  <2>2. Offsets' = Offsets \cup (offset + 1 .. offset + n)
    BY <1>2, MoreOffsets
  <2>3. offset + n \in Nat /\ offset <= offset + n /\ offset + n < Behind(f, b, k)
    BY <1>3, <1>4, <1>5
  <2>4. PlannedTo(f, b, offset + n) = PlannedTo(f, b, offset) \cup (offset + 1 .. offset + n)
    BY <1>3, <1>5, <2>3, WantedNext
  <2>5. QED
    BY <1>1, <1>4, <2>1, <2>2, <2>4 DEF TakenUpTo
<1>8. ASSUME NEW i \in 1 .. n
      PROVE  (seam /\ i = 1) <=> \E j \in 1 .. b.windows : offset + i = f[j]
  <2>1. ASSUME NEW j \in 1 .. b.windows, offset + i = f[j] PROVE j = k
    <3>0. j \in Nat
      BY <1>3
    <3>1. CASE j < k
      <4>1. Behind(f, b, j) < f[k]
        BY <1>3, <3>0, <3>1, WindowsApart DEF Behind
      <4>2. f[j] <= Behind(f, b, j) /\ Behind(f, b, j) \in Nat
        BY <3>0, PlanFacts
      <4>3. QED
        BY <1>3, <1>4, <1>5, <2>1, <4>1, <4>2
    <3>2. CASE j > k
      <4>1. Behind(f, b, k) < f[j]
        BY <1>3, <3>0, <3>2, WindowsApart DEF Behind
      <4>2. QED
        BY <1>3, <1>4, <1>5, <2>1, <4>1
    <3>3. QED
      BY <1>3, <3>0, <3>1, <3>2
  <2>2. CASE phase = "prefix"
    BY <1>5, <2>1, <2>2
  <2>3. CASE phase = "window"
    <3>1. k \in 1 .. b.windows
      BY <1>3, <1>5, <2>3
    <3>2. offset + i = f[k] <=> (offset + 1 = f[k] /\ i = 1)
      BY <1>3, <1>4, <1>5
    <3>3. QED
      BY <1>5, <2>1, <2>3, <3>1, <3>2
  <2>4. QED
    BY <1>1, <2>2, <2>3
<1>9. MarkedUpTo(f, b)'
  BY <1>2, <1>8, MoreMarked DEF Follows
<1>10. QED
  BY <1>6, <1>7, <1>9 DEF Follows
\* More units arrive: what is behind was planned as it is planned now.
LEMMA SamePlan ==
  ASSUME NEW b \in Budgets, NEW str \in Seq(Unit), NEW more \in Seq(Unit), Begins(str, more),
         NEW f, NEW g, IsPlan(f, str, b), IsPlan(g, more, b), NEW k \in Nat
  PROVE  /\ f[k] <= Len(str) + 1 \/ g[k] <= Len(str) + 1 =>
              /\ f[k] = g[k] /\ Behind(f, b, k) = Behind(g, b, k)
              /\ Searched(f, b, k) = Searched(g, b, k)
<1>1. f[k] \in Nat /\ g[k] \in Nat /\ Len(str) \in Nat
  BY NextStart, LenProperties
<1>2. f[k] = g[k] \/ (f[k] > Len(str) + 1 /\ g[k] > Len(str) + 1)
  BY PlanStays
<1>3. QED
  BY <1>1, <1>2 DEF Behind, Searched

LEMMA SameBehind ==
  ASSUME NEW b \in Budgets, NEW str \in Seq(Unit), NEW more \in Seq(Unit), Begins(str, more),
         NEW f, NEW g, IsPlan(f, str, b), IsPlan(g, more, b), NEW p \in Nat, p <= Len(str)
  PROVE  InPlan(f, b, p) <=> InPlan(g, b, p)
<1>1. b.windows \in Nat /\ Len(str) \in Nat
  BY NumbersOf, LenProperties
<1>2. ASSUME NEW k \in 0 .. b.windows
      PROVE  (f[k] <= p /\ p < Behind(f, b, k)) <=> (g[k] <= p /\ p < Behind(g, b, k))
  <2>1. k \in Nat
    BY <1>1
  <2>2. f[k] \in Nat /\ g[k] \in Nat
    BY <2>1, NextStart
  <2>3. f[k] <= p \/ g[k] <= p => f[k] <= Len(str) + 1 \/ g[k] <= Len(str) + 1
    BY <1>1, <2>2
  <2>4. f[k] <= p \/ g[k] <= p => f[k] = g[k] /\ Behind(f, b, k) = Behind(g, b, k)
    BY <2>1, <2>3, SamePlan
  <2>5. QED
    BY <2>4
<1>3. QED
  BY <1>2 DEF InPlan

LEMMA FollowPush ==
  ASSUME IndInv, NEW b \in Budgets, b = budget, NEW units \in Chunks, Push(units),
         NEW f, IsPlan(f, stream, b), Follows(f, b), NEW g, IsPlan(g, stream', b)
  PROVE  Follows(g, b)' /\ Arriving'
<1> DEFINE k == windowsTaken
<1>1. /\ UNCHANGED <<phase, left, skip, windowsTaken, profiled, seam, offset, admitted>>
      /\ ~busy /\ busy' /\ stream' = stream \o units /\ chunk' = units
  BY DEF Push, FeedBegin, control
<1>2. /\ k \in Nat /\ offset \in Nat /\ left \in Nat /\ stream \in Seq(Unit) /\ Len(stream) \in Nat
      /\ k <= b.windows /\ b.windows \in Nat /\ profiled \in Nat /\ DOMAIN admitted = 1 .. profiled
  BY SamplerFacts, NumbersOf
<1>3. offset = Len(stream)
  <2>1. chunk = <<>> /\ offset + Len(chunk) = Len(stream)
    BY <1>1 DEF IndInv, Located
  <2>2. Len(chunk) = 0
    BY <2>1
  <2>3. QED
    BY <1>2, <2>1, <2>2
<1>4. units \in Seq(Unit) /\ Len(units) \in Nat
  BY ChunksAssumption, LenProperties
<1>5. stream' \in Seq(Unit) /\ Begins(stream, stream') /\ \A i \in 1 .. Len(units) : stream'[offset + i] = units[i]
  <2>1. /\ stream' \in Seq(Unit) /\ Len(stream') = Len(stream) + Len(units)
        /\ \A i \in 1 .. Len(stream) + Len(units) :
             stream'[i] = IF i <= Len(stream) THEN stream[i] ELSE units[i - Len(stream)]
    BY <1>1, <1>2, <1>4, ConcatProperties
  <2>2. Begins(stream, stream')
    BY <1>2, <1>4, <2>1 DEF Begins
  <2>3. ASSUME NEW i \in 1 .. Len(units) PROVE stream'[offset + i] = units[i]
    <3>1. /\ offset + i \in 1 .. Len(stream) + Len(units) /\ ~(offset + i <= Len(stream))
          /\ (offset + i) - Len(stream) = i
      BY <1>2, <1>3, <1>4
    <3>2. stream'[offset + i] = units[(offset + i) - Len(stream)]
      BY <2>1, <3>1
    <3>3. QED
      BY <3>1, <3>2
  <2>4. QED
    BY <2>1, <2>2, <2>3
<1>6. Arriving'
  BY <1>1, <1>5 DEF Arriving
<1>7. \A j \in Nat : f[j] <= offset + 1 =>
         /\ f[j] = g[j] /\ Behind(f, b, j) = Behind(g, b, j) /\ Searched(f, b, j) = Searched(g, b, j)
  BY <1>2, <1>3, <1>5, SamePlan
<1>8. /\ f[k] \in Nat /\ Behind(f, b, k) \in Nat /\ Searched(f, b, k) \in Nat
      /\ f[k] <= Behind(f, b, k) /\ Behind(f, b, k) < Searched(f, b, k)
  BY <1>2, PlanFacts
<1>9. OnPlan(g, b)'
  <2>1. CASE phase = "prefix"
    BY <1>1, <2>1 DEF Follows, OnPlan, InPrefix
  <2>2. CASE phase = "window"
    <3>1. InWindowOf(f, b)
      BY <2>2 DEF Follows, OnPlan
    <3>2. f[k] = g[k] /\ Behind(f, b, k) = Behind(g, b, k)
      BY <1>2, <1>7, <3>1 DEF InWindowOf
    <3>3. InWindowOf(g, b)'
      BY <1>1, <3>1, <3>2 DEF InWindowOf
    <3>4. QED
      BY <1>1, <2>2, <3>3 DEF OnPlan
  <2>3. CASE phase = "skip"
    <3>1. InGap(f, b)
      BY <2>3 DEF Follows, OnPlan
    <3>2. f[k] <= offset + 1
      BY <1>2, <1>8, <3>1 DEF InGap
    <3>3. Behind(f, b, k) = Behind(g, b, k) /\ Searched(f, b, k) = Searched(g, b, k)
      BY <1>2, <1>7, <3>2
    <3>4. InGap(g, b)'
      BY <1>1, <3>1, <3>3 DEF InGap
    <3>5. QED
      BY <1>1, <2>3, <3>4 DEF OnPlan
  <2>4. CASE phase = "align"
    <3>1. InSearch(f, b)
      BY <2>4 DEF Follows, OnPlan
    <3>2. f[k] <= offset + 1
      BY <1>2, <1>8, <3>1 DEF InSearch
    <3>3. Searched(f, b, k) = Searched(g, b, k)
      BY <1>2, <1>7, <3>2
    <3>4. Searching(f, b) => Searching(g, b)'
      <4>1. SUFFICES ASSUME Searching(f, b), NEW i \in Searched(g, b, k) .. offset, IsNewline(stream', i)
                     PROVE  FALSE
        BY <1>1, <3>3 DEF Searching
      <4>2. i \in Int /\ i <= Len(stream)
        BY <1>3, <1>8, <1>2, <3>3
      <4>3. IsNewline(stream, i)
        BY <1>2, <1>5, <4>1, <4>2, NewlinesStay
      <4>4. QED
        BY <3>3, <4>1, <4>3 DEF Searching
    <3>5. left = 0 /\ offset + 1 = f[k + 1] => left' = 0 /\ offset' + 1 = g[k + 1]
      <4>1. SUFFICES ASSUME left = 0, offset + 1 = f[k + 1] PROVE f[k + 1] = g[k + 1]
        BY <1>1
      <4>2. k + 1 \in Nat /\ f[k + 1] <= offset + 1
        BY <1>2, <4>1
      <4>3. QED
        BY <1>7, <4>2
    <3>6. InSearch(g, b)'
      BY <1>1, <3>1, <3>3, <3>4, <3>5 DEF InSearch
    <3>7. QED
      BY <1>1, <2>4, <3>6 DEF OnPlan
  <2>5. QED
    BY <1>1, <2>1, <2>2, <2>3, <2>4 DEF OnPlan
<1>10. \A last \in Nat : last <= offset => PlannedTo(f, b, last) = PlannedTo(g, b, last)
  <2> SUFFICES ASSUME NEW last \in Nat, last <= offset
               PROVE  PlannedTo(f, b, last) = PlannedTo(g, b, last)
    OBVIOUS
  <2>1. ASSUME NEW p \in Nat, p <= last PROVE InPlan(f, b, p) <=> InPlan(g, b, p)
    <3>1. p <= Len(stream)
      BY <1>2, <1>3, <2>1
    <3>2. QED
      BY <1>2, <1>5, <3>1, SameBehind
  <2>2. QED
    BY <2>1 DEF PlannedTo
<1>11. Offsets' = Offsets
  BY <1>1 DEF Offsets
<1>12. TakenUpTo(g, b)'
  <2>1. CASE phase # "done"
    BY <1>1, <1>2, <1>10, <1>11, <2>1 DEF Follows, TakenUpTo
  <2>2. CASE phase = "done"
    <3>1. PICK last : Ended(f, b, last)
      BY <2>2 DEF Follows, TakenUpTo
    <3>2. last \in Nat /\ last <= offset
      BY <3>1 DEF Ended
    <3>3. ASSUME NEW j \in 0 .. b.windows, Behind(f, b, j) <= last + 1
          PROVE  Behind(g, b, j) <= last + 1
      <4>1. j \in Nat
        BY <1>2
      <4>2. f[j] \in Nat /\ Behind(f, b, j) \in Nat /\ f[j] <= Behind(f, b, j)
        BY <4>1, PlanFacts
      <4>3. f[j] <= offset + 1
        BY <1>2, <3>2, <3>3, <4>2
      <4>4. QED
        BY <1>7, <3>3, <4>1, <4>3
    <3>4. Ended(g, b, last)'
      BY <1>1, <1>10, <1>11, <3>1, <3>2, <3>3 DEF Ended
    <3>5. QED
      BY <1>1, <2>2, <3>4 DEF TakenUpTo
  <2>3. QED
    BY <2>1, <2>2
<1>13. MarkedUpTo(g, b)'
  <2>1. ASSUME NEW i \in DOMAIN admitted, NEW j \in 1 .. b.windows
        PROVE  admitted[i].at = f[j] <=> admitted[i].at = g[j]
    <3>1. admitted[i].at \in Nat /\ admitted[i].at <= offset
      BY OffsetsAreNat DEF IndInv, AdmittedInOrder
    <3>2. j \in Nat
      BY <1>2
    <3>3. f[j] \in Nat /\ g[j] \in Nat
      BY <3>2, NextStart
    <3>4. f[j] <= Len(stream) + 1 \/ g[j] <= Len(stream) + 1 => f[j] = g[j]
      BY <1>2, <1>5, <3>2, SamePlan
    <3>5. QED
      BY <1>2, <1>3, <3>1, <3>3, <3>4
  <2>2. QED
    BY <1>1, <2>1 DEF Follows, MarkedUpTo
<1>14. QED
  BY <1>6, <1>9, <1>12, <1>13 DEF Follows
LEMMA FollowInit == Init => FollowInv
<1> SUFFICES ASSUME Init PROVE FollowInv
  OBVIOUS
<1> DEFINE b == budget
           f == PlanOf(stream, b)
<1>1. /\ b \in Budgets /\ windowsTaken = 0 /\ seam = FALSE /\ offset = 0 /\ busy = FALSE
      /\ phase = IF b.prefix = 0 THEN "skip" ELSE "prefix"
      /\ left = IF b.prefix = 0 THEN AtLeastOne(b.window) ELSE b.prefix
      /\ skip = AtLeastOne(b.window) /\ admitted = <<>> /\ chunk = <<>>
  BY DEF Init, AdmissionInit
<1>2. b.prefix \in Nat /\ AtLeastOne(b.window) \in Nat \ {0} /\ GapOf(b, 1) = AtLeastOne(b.window)
  BY <1>1, NumbersOf, Gapped
<1>3. IsPlan(f, stream, b) /\ f[0] = 1
  BY <1>1, PlanIs DEF IsPlan
<1> HIDE DEF b, f
<1>4. Behind(f, b, 0) = 1 + b.prefix /\ Searched(f, b, 0) = 1 + b.prefix + GapOf(b, 1)
  BY <1>2, <1>3 DEF Behind, Searched, LengthOf
<1>5. OnPlan(f, b)
  <2>1. CASE b.prefix = 0
    <3>1. InGap(f, b)
      BY <1>1, <1>2, <1>4, <2>1 DEF InGap
    <3>2. QED
      BY <1>1, <2>1, <3>1 DEF OnPlan
  <2>2. CASE b.prefix # 0
    <3>1. InPrefix(b)
      BY <1>1, <1>2, <2>2 DEF InPrefix
    <3>2. QED
      BY <1>1, <2>2, <3>1 DEF OnPlan
  <2>3. QED
    BY <2>1, <2>2
<1>6. DOMAIN admitted = {}
  BY <1>1
<1>7. PlannedTo(f, b, 0) = {}
  <2>1. SUFFICES ASSUME NEW p \in PlannedTo(f, b, 0) PROVE FALSE
    OBVIOUS
  <2>2. p = 0 /\ InPlan(f, b, p)
    BY <2>1 DEF PlannedTo
  <2>3. PICK k \in 0 .. b.windows : f[k] <= p
    BY <2>2 DEF InPlan
  <2>4. b.windows \in Nat /\ k \in Nat
    BY <1>1, NumbersOf DEF b
  <2>5. f[k] \in Nat \ {0}
    BY <1>1, <1>3, <2>4, PlanFacts DEF b
  <2>6. QED
    BY <2>2, <2>3, <2>5
<1>8. TakenUpTo(f, b)
  <2>1. phase # "done"
    BY <1>1
  <2>2. Offsets = {}
    BY <1>6 DEF Offsets
  <2>3. QED
    BY <1>1, <1>7, <2>1, <2>2 DEF TakenUpTo
<1>9. MarkedUpTo(f, b)
  BY <1>6 DEF MarkedUpTo
<1>10. Waiting
  BY <1>1, <1>2 DEF Waiting
<1>11. Arriving
  <2>1. Len(chunk) = 0
    BY <1>1
  <2>2. QED
    BY <2>1 DEF Arriving
<1>12. Start = f
  BY StartIs DEF f, b
<1>13. QED
  BY <1>5, <1>8, <1>9, <1>10, <1>11, <1>12 DEF FollowInv, Follows, b

LEMMA LoopWaits ==
  ASSUME IndInv, Loop, Waiting
  PROVE  Waiting'
<1>1. CASE Return
  BY <1>1 DEF Return, Waiting, control
<1>2. CASE Advance \/ Emit \/ SkipUnits \/ Align
  <2>1. busy'
    BY <1>2 DEF Advance, Emit, SkipUnits, Align, InPhase
  <2>2. QED
    BY <2>1 DEF Waiting
<1>3. QED
  BY <1>1, <1>2 DEF Loop

LEMMA LoopArrives ==
  ASSUME IndInv, Loop, Arriving, UNCHANGED stream
  PROVE  Arriving'
<1>1. CASE Advance
  BY <1>1 DEF Advance, Arriving
<1>2. Len(chunk) \in Nat /\ left \in Nat
  BY SamplerFacts
<1>3. CASE Return \/ Emit \/ SkipUnits \/ Align
  <2>1. \E n \in Nat : n <= Len(chunk) /\ Consume(n)
    <3>1. CASE Return
      BY <1>2, <3>1 DEF Return, FeedReturn
    <3>2. CASE Emit
      BY <3>2, Emitted DEF Appended
    <3>3. CASE SkipUnits
      BY <1>2, <3>3 DEF SkipUnits, Least
    <3>4. CASE Align
      <4> DEFINE take == Least(Len(chunk), left)
      <4>1. take \in Nat /\ take <= Len(chunk)
        BY <1>2 DEF Least
      <4>2. \/ \E i \in 1 .. take : Consume(i)
            \/ Consume(take)
        BY <3>4 DEF Align
      <4> HIDE DEF take
      <4>3. QED
        BY <1>2, <4>1, <4>2
    <3>5. QED
      BY <1>3, <3>1, <3>2, <3>3, <3>4
  <2>2. QED
    BY <2>1, StillArriving
<1>4. QED
  BY <1>1, <1>3 DEF Loop

LEMMA FollowNext == IndInv /\ FollowInv /\ [Next]_vars => FollowInv'
<1> SUFFICES ASSUME IndInv, FollowInv, [Next]_vars PROVE FollowInv'
  OBVIOUS
<1>1. PICK b : b = budget
  OBVIOUS
<1>2. PICK f : f = Start
  OBVIOUS
<1>3. /\ b \in Budgets /\ IsPlan(f, stream, b) /\ f = PlanOf(stream, b)
      /\ Follows(f, b) /\ Waiting /\ Arriving
  BY <1>1, <1>2, StartIs, PlanIs, SamplerFacts DEF FollowInv
<1>4. budget' = budget
  BY DEF Next, Push, FeedBegin, Loop, Return, Advance, Emit, SkipUnits, Align, vars, admissionVars
<1>5. Start' = PlanOf(stream', b)
  BY <1>1, <1>4, StartIsThen
<1>6. ASSUME UNCHANGED stream, Follows(f, b)', Waiting', Arriving' PROVE FollowInv'
  <2>1. Start' = f /\ budget' = b
    BY <1>1, <1>3, <1>4, <1>5, <1>6
  <2>2. QED
    BY <1>6, <2>1 DEF FollowInv, Follows, OnPlan, InWindowOf, InGap, InSearch, InPrefix, Searching,
          TakenUpTo, Ended, MarkedUpTo
<1>7. ASSUME NEW units \in Chunks, Push(units) PROVE FollowInv'
  <2>1. PICK g : g = Start'
    OBVIOUS
  <2>2. IsPlan(g, stream', b)
    BY <1>3, <1>5, <2>1, PlanIs
  <2>3. Follows(g, b)' /\ Arriving'
    BY <1>1, <1>3, <1>7, <2>2, FollowPush
  <2>4. Waiting'
    BY <1>7 DEF Push, FeedBegin, Waiting
  <2>5. QED
    BY <1>1, <1>4, <2>1, <2>3, <2>4 DEF FollowInv, Follows, OnPlan, InWindowOf, InGap, InSearch,
          InPrefix, Searching, TakenUpTo, Ended, MarkedUpTo
<1>8. ASSUME Loop, UNCHANGED stream PROVE FollowInv'
  <2>1. Waiting' /\ Arriving'
    BY <1>3, <1>8, LoopWaits, LoopArrives
  <2>2. Follows(f, b)'
    <3>1. CASE Return
      BY <1>1, <1>3, <1>8, <3>1, FollowReturn
    <3>2. CASE Advance
      BY <1>1, <1>3, <1>8, <3>2, FollowAdvance
    <3>3. CASE Emit
      BY <1>1, <1>3, <1>8, <3>3, FollowEmit
    <3>4. CASE SkipUnits
      BY <1>1, <1>3, <1>8, <3>4, FollowSkip
    <3>5. CASE Align
      BY <1>1, <1>3, <1>8, <3>5, FollowAlign
    <3>6. QED
      BY <1>8, <3>1, <3>2, <3>3, <3>4, <3>5 DEF Loop
  <2>3. QED
    BY <1>6, <1>8, <2>1, <2>2
<1>9. CASE UNCHANGED vars
  <2>1. UNCHANGED <<stream, budget, control, chunk, busy, offset, admitted>>
    BY <1>9 DEF vars, admissionVars
  <2>2. Waiting' /\ Arriving'
    BY <1>3, <2>1 DEF Waiting, Arriving, control
  <2>3. Follows(f, b)'
    <3>1. Offsets' = Offsets
      BY <2>1 DEF Offsets
    <3>2. QED
      BY <1>3, <2>1, <3>1 DEF control, Follows, OnPlan, InWindowOf, InGap, InSearch, InPrefix,
          Searching, TakenUpTo, Ended, MarkedUpTo
  <2>4. QED
    BY <1>6, <2>1, <2>2, <2>3
<1>10. QED
  BY <1>7, <1>8, <1>9 DEF Next

THEOREM FollowInvariant == Spec => []FollowInv
<1>1. Spec => []IndInv
  BY Invariant
<1>2. Init => FollowInv
  BY FollowInit
<1>3. IndInv /\ FollowInv /\ [Next]_vars => FollowInv'
  BY FollowNext
<1>4. QED
  BY <1>1, <1>2, <1>3, PTL DEF Spec
-----------------------------------------------------------------------------
(* What has been admitted when feed has returned.                          *)
\* As many offsets as units: none was admitted twice.
LEMMA OffsetsCount ==
  ASSUME IndInv
  PROVE  IsFiniteSet(Offsets) /\ Cardinality(Offsets) = profiled
<1> DEFINE S == 1 .. profiled
           at == [i \in S |-> admitted[i].at]
<1>1. profiled \in Nat /\ DOMAIN admitted = S
  BY SamplerFacts
<1>2. \A i \in S : admitted[i].at \in Nat
  BY <1>1, OffsetsAreNat DEF IndInv
<1>3. \A i, j \in S : i < j => admitted[i].at < admitted[j].at
  BY <1>1 DEF IndInv, AdmittedInOrder
<1>4. \A i, j \in S : at[i] = at[j] => i = j
  <2> SUFFICES ASSUME NEW i \in S, NEW j \in S, at[i] = at[j] PROVE i = j
    OBVIOUS
  <2>1. ~(i < j) /\ ~(j < i)
    BY <1>2, <1>3
  <2>2. QED
    BY <1>1, <2>1
<1>5. Offsets = {at[i] : i \in S}
  BY <1>1 DEF Offsets
<1>6. at \in Bijection(S, Offsets)
  <2> HIDE DEF S
  <2>1. at \in [S -> Offsets]
    BY <1>5
  <2>2. \A p \in Offsets : \E i \in S : at[i] = p
    BY <1>5
  <2>3. at \in Injection(S, Offsets)
    BY <1>4, <2>1 DEF Injection, IsInjective
  <2>4. at \in Surjection(S, Offsets)
    BY <2>1, <2>2 DEF Surjection
  <2>5. QED
    BY <2>3, <2>4 DEF Bijection
<1>7. IsFiniteSet(S) /\ Cardinality(S) = profiled
  BY <1>1, FS_Interval
<1>8. QED
  BY <1>6, <1>7, FS_Bijection DEF ExistsBijection

LEMMA PlannedIs ==
  ASSUME IndInv
  PROVE  Planned = PlannedTo(Start, budget, Len(stream))
<1>1. Len(stream) \in Nat /\ DOMAIN stream = 1 .. Len(stream) /\ budget \in Budgets /\ budget.windows \in Nat
  BY SamplerFacts, LenProperties, NumbersOf
<1>2. IsPlan(Start, stream, budget)
  BY <1>1, StartIs, PlanIs
<1>3. \A k \in 0 .. budget.windows : Start[k] \in Nat \ {0}
  <2> SUFFICES ASSUME NEW k \in 0 .. budget.windows PROVE Start[k] \in Nat \ {0}
    OBVIOUS
  <2>1. k \in Nat
    BY <1>1
  <2>2. QED
    BY <1>1, <1>2, <2>1, PlanFacts
<1>4. \A i, k : InWindow(i, k) <=> i >= Start[k] /\ i < Behind(Start, budget, k)
  BY StartIs DEF InWindow, Behind
<1>5. ASSUME NEW i \in Nat
      PROVE  (\E k \in 0 .. budget.windows : InWindow(i, k)) <=> InPlan(Start, budget, i)
  BY <1>4 DEF InPlan
<1>6. ASSUME NEW i \in Nat, InPlan(Start, budget, i) PROVE i # 0
  BY <1>3, <1>6 DEF InPlan
<1>7. QED
  BY <1>1, <1>5, <1>6 DEF Planned, PlannedTo

\* Exactly the wanted units were admitted.
LEMMA WantedAdmitted ==
  ASSUME IndInv, FollowInv, ~busy
  PROVE  Offsets = Wanted
<1> DEFINE f == Start
           b == budget
           Upto(i) == {j \in Planned : j <= i}
<1>1. /\ b \in Budgets /\ offset \in Nat /\ profiled \in Nat /\ b.maxBytes \in Nat
      /\ profiled <= b.maxBytes
  BY SamplerFacts, NumbersOf
<1>2. offset = Len(stream)
  <2>1. chunk = <<>> /\ offset + Len(chunk) = Len(stream)
    BY DEF IndInv, Located
  <2>2. Len(chunk) = 0
    BY <2>1
  <2>3. QED
    BY <1>1, <2>1, <2>2
<1>3. Planned = PlannedTo(f, b, offset)
  BY <1>2, PlannedIs
<1>4. IsFiniteSet(Offsets) /\ Cardinality(Offsets) = profiled
  BY OffsetsCount
<1>5. TakenUpTo(f, b)
  BY DEF FollowInv, Follows
<1>6. IsFiniteSet(Planned) /\ \A i : IsFiniteSet(Upto(i)) /\ Cardinality(Upto(i)) \in Nat
  <2>1. Planned \subseteq 0 .. offset
    BY <1>1, <1>3 DEF PlannedTo
  <2>2. IsFiniteSet(Planned)
    <3>1. IsFiniteSet(0 .. offset)
      BY <1>1, FS_Interval
    <3>2. QED
      BY <2>1, <3>1, FS_Subset
  <2>3. ASSUME NEW i PROVE IsFiniteSet(Upto(i)) /\ Cardinality(Upto(i)) \in Nat
    <3>1. Upto(i) \subseteq Planned
      OBVIOUS
    <3> HIDE DEF Upto
    <3>2. QED
      BY <2>2, <3>1, FS_Subset, FS_CardinalityType
  <2>4. QED
    BY <2>2, <2>3
<1>7. \A i : i \in Wanted <=> i \in Planned /\ Cardinality(Upto(i)) <= b.maxBytes
  BY DEF Wanted
<1>8. CASE Offsets = Planned
  <2>1. ASSUME NEW i PROVE Cardinality(Upto(i)) <= b.maxBytes
    <3>1. Upto(i) \subseteq Offsets
      BY <1>8
    <3> HIDE DEF Upto, b
    <3>2. Cardinality(Upto(i)) <= profiled
      BY <1>4, <3>1, FS_Subset
    <3>3. QED
      BY <1>1, <1>6, <3>2
  <2> HIDE DEF Upto
  <2>2. QED
    BY <1>7, <1>8, <2>1
<1>9. ASSUME NEW last, Ended(f, b, last), profiled >= b.maxBytes PROVE Offsets = Wanted
  <2>1. last \in Nat /\ last <= offset /\ Offsets = PlannedTo(f, b, last)
    BY <1>9 DEF Ended
  <2>2. Offsets = {j \in Planned : j <= last}
    BY <1>1, <1>3, <2>1 DEF PlannedTo
  <2>3. ASSUME NEW i \in Planned, i <= last PROVE i \in Wanted
    <3>1. Upto(i) \subseteq Offsets
      BY <1>3, <2>1, <2>2, <2>3 DEF PlannedTo
    <3> HIDE DEF Upto
    <3>2. Cardinality(Upto(i)) <= profiled
      BY <1>4, <3>1, FS_Subset
    <3>3. QED
      BY <1>1, <1>6, <1>7, <3>2
  <2>4. ASSUME NEW i \in Planned, last < i PROVE i \notin Wanted
    <3>1. Offsets \cup {i} \subseteq Upto(i) /\ i \notin Offsets
      BY <1>3, <2>1, <2>2, <2>4 DEF PlannedTo
    <3> HIDE DEF Upto
    <3>2. Cardinality(Offsets \cup {i}) = profiled + 1
      BY <1>4, <3>1, FS_AddElement
    <3>3. Cardinality(Offsets \cup {i}) <= Cardinality(Upto(i))
      BY <1>6, <3>1, FS_Subset
    <3>4. QED
      BY <1>1, <1>6, <1>7, <1>9, <3>2, <3>3
  <2>5. \A i \in Planned : i \in Nat
    BY <1>3 DEF PlannedTo
  <2>6. Wanted \subseteq Planned
    BY DEF Wanted
  <2>7. QED
    BY <2>1, <2>2, <2>3, <2>4, <2>5, <2>6
<1>10. ASSUME NEW last, Ended(f, b, last), \A k \in 0 .. b.windows : Behind(f, b, k) <= last + 1
       PROVE  Offsets = Planned
  <2>1. last \in Nat /\ last <= offset /\ Offsets = PlannedTo(f, b, last)
    BY <1>10 DEF Ended
  <2>2. ASSUME NEW p \in Nat, InPlan(f, b, p) PROVE p <= last
    <3>1. PICK k \in 0 .. b.windows : p < Behind(f, b, k)
      BY <2>2 DEF InPlan
    <3>2. k \in Nat
      BY <1>1, NumbersOf
    <3>3. Behind(f, b, k) \in Nat
      <4>1. IsPlan(f, stream, b)
        BY <1>1, StartIs, PlanIs
      <4>2. QED
        BY <1>1, <3>2, <4>1, PlanFacts
    <3>4. QED
      BY <1>10, <2>1, <3>1, <3>3
  <2>3. QED
    BY <1>1, <1>3, <2>1, <2>2 DEF PlannedTo
<1>11. CASE phase # "done"
  BY <1>3, <1>5, <1>8, <1>11 DEF TakenUpTo
<1>12. CASE phase = "done"
  <2>1. PICK last : Ended(f, b, last)
    BY <1>5, <1>12 DEF TakenUpTo
  <2>2. profiled >= b.maxBytes \/ \A k \in 0 .. b.windows : Behind(f, b, k) <= last + 1
    BY <2>1 DEF Ended
  <2>3. QED
    BY <1>8, <1>9, <1>10, <2>1, <2>2
<1>13. QED
  BY <1>11, <1>12

\* A phase that waits for units ends within the reach.
LEMMA NotBeyond ==
  ASSUME IndInv, FollowInv, ~busy, phase # "done"
  PROVE  offset < Reach
<1> DEFINE f == Start
           b == budget
           k == windowsTaken
<1>1. /\ b \in Budgets /\ offset \in Nat /\ left \in Nat /\ k \in Nat /\ k \in 0 .. b.windows
      /\ b.window \in Nat
  BY SamplerFacts, NumbersOf
<1>2. left > 0 /\ OnPlan(f, b)
  BY DEF FollowInv, Follows, Waiting
<1>3. IsPlan(f, stream, b) /\ Reach = ReachOf(b)
  BY <1>1, StartIs, PlanIs
<1>4. phase \in {"prefix", "skip", "align", "window"}
  BY DEF IndInv, TypeOK
<1> HIDE DEF f, b, k
<1>5. /\ EndBy(b, k) \in Nat /\ ReachOf(b) \in Nat /\ GapOf(b, k + 1) \in Nat
      /\ EndBy(b, k) + GapOf(b, k + 1) + b.window <= ReachOf(b) + 1
  BY <1>1, WithinReach
<1>6. Behind(f, b, k) <= EndBy(b, k) /\ Behind(f, b, k) \in Nat
  <2>1. Behind(f, b, k) <= EndBy(b, k)
    BY <1>1, <1>3, EndsBy DEF Behind
  <2>2. QED
    BY <1>1, <1>3, <2>1, PlanFacts
<1>7. Searched(f, b, k) = Behind(f, b, k) + GapOf(b, k + 1)
  BY DEF Searched
<1>8. offset + 1 + left <= EndBy(b, k) + GapOf(b, k + 1) + b.window
  <2>1. CASE phase = "prefix"
    <3>1. k = 0 /\ offset + left = b.prefix
      BY <1>2, <2>1 DEF OnPlan, InPrefix, k
    <3>2. Behind(f, b, 0) = 1 + b.prefix
      BY <1>3 DEF Behind, LengthOf, IsPlan
    <3>3. QED
      BY <1>1, <1>5, <1>6, <3>1, <3>2
  <2>2. CASE phase = "window"
    <3>1. offset + 1 + left = Behind(f, b, k)
      BY <1>2, <2>2 DEF OnPlan, InWindowOf, k
    <3>2. QED
      BY <1>1, <1>5, <1>6, <3>1
  <2>3. CASE phase = "skip"
    <3>1. offset + 1 + left = Searched(f, b, k)
      BY <1>2, <2>3 DEF OnPlan, InGap, k
    <3>2. QED
      BY <1>1, <1>5, <1>6, <1>7, <3>1
  <2>4. CASE phase = "align"
    <3>1. offset + 1 + left = Searched(f, b, k) + b.window
      BY <1>1, <1>2, <2>4 DEF OnPlan, InSearch, Searching, k
    <3>2. QED
      BY <1>1, <1>5, <1>6, <1>7, <3>1
  <2>5. QED
    BY <1>4, <2>1, <2>2, <2>3, <2>4
<1>9. QED
  BY <1>1, <1>2, <1>3, <1>5, <1>6, <1>8

LEMMA PlanIsFollowed == IndInv /\ FollowInv => PlanFollowed
<1> SUFFICES ASSUME IndInv, FollowInv, ~busy
             PROVE  /\ offset = Len(stream)
                    /\ {admitted[i].at : i \in DOMAIN admitted} = Wanted
                    /\ \A i, j \in DOMAIN admitted : i < j => admitted[i].at < admitted[j].at
                    /\ Len(stream) >= Reach => IsSatisfied
  BY DEF PlanFollowed
<1>1. offset = Len(stream)
  <2>1. chunk = <<>> /\ offset + Len(chunk) = Len(stream) /\ offset \in Nat
    BY SamplerFacts DEF IndInv, Located
  <2>2. Len(chunk) = 0
    BY <2>1
  <2>3. QED
    BY <2>1, <2>2
<1>2. {admitted[i].at : i \in DOMAIN admitted} = Wanted
  BY WantedAdmitted DEF Offsets
<1>3. \A i, j \in DOMAIN admitted : i < j => admitted[i].at < admitted[j].at
  BY DEF IndInv, AdmittedInOrder
<1>4. ASSUME Len(stream) >= Reach PROVE IsSatisfied
  <2>1. Reach \in Nat /\ offset \in Nat
    <3>1. budget \in Budgets /\ windowsTaken \in 0 .. budget.windows /\ offset \in Nat
      BY SamplerFacts, NumbersOf
    <3>2. QED
      BY <3>1, StartIs, WithinReach
  <2>2. QED
    BY <1>1, <1>4, <2>1, NotBeyond DEF IsSatisfied
<1>5. QED
  BY <1>1, <1>2, <1>3, <1>4

\* Whenever feed has returned, exactly the units were profiled that a plan
\* wants which is computed from the whole stream so far, whatever the budget
\* and wherever the chunks ended: Admission::feed and advance.
THEOREM PlanFollowedHolds == Spec => []PlanFollowed
BY Invariant, FollowInvariant, PlanIsFollowed, PTL

LEMMA SeamsAreMarked == FollowInv => SeamsAtGaps
BY DEF FollowInv, Follows, MarkedUpTo, SeamsAtGaps

\* The units that are marked as following a gap are those that a window of the
\* plan starts with, and no others.
THEOREM SeamsAtGapsHolds == Spec => []SeamsAtGaps
BY FollowInvariant, SeamsAreMarked, PTL

-----------------------------------------------------------------------------
(* The sniffer.                                                            *)
Encodings == {"bytes", "utf16le", "utf16be", "utf32le", "utf32be"}
Bytes == 0 .. 255

LEMMA Widths ==
  ASSUME NEW e \in Encodings
  PROVE  /\ Width(e) \in {1, 2, 4} /\ AsciiByte(e) \in 1 .. Width(e)
         /\ e = "bytes" => Width(e) = 1
BY DEF Encodings, Width, AsciiByte

LEMMA DivisionFacts ==
  ASSUME NEW w \in {1, 2, 4}, NEW x \in Nat
  PROVE  /\ x \div w \in Nat /\ x % w \in Nat /\ x % w < w
         /\ x = (x \div w) * w + (x % w)
<1>1. CASE w = 1
  BY <1>1
<1>2. CASE w = 2
  BY <1>2
<1>3. CASE w = 4
  BY <1>3
<1>4. QED
  BY <1>1, <1>2, <1>3

\* Units laid end to end.
LEMMA UnitPlaces ==
  ASSUME NEW w \in {1, 2, 4}, NEW x \in Nat, NEW u \in 1 .. x \div w
  PROVE  /\ (u - 1) * w \in Nat /\ u * w \in Nat
         /\ u * w = (u - 1) * w + w /\ u * w <= x
<1>1. CASE w = 1
  BY <1>1
<1>2. CASE w = 2
  BY <1>2
<1>3. CASE w = 4
  BY <1>3
<1>4. QED
  BY <1>1, <1>2, <1>3

\* A part of a part.
LEMMA PartOfPart ==
  ASSUME NEW T, NEW s \in Seq(T), NEW a \in Nat, NEW b \in Nat, a <= b, b <= Len(s),
         NEW i \in Nat, NEW j \in Nat, i <= j, a + j <= b
  PROVE  SubSeq(SubSeq(s, a + 1, b), i + 1, j) = SubSeq(s, a + i + 1, a + j)
<1>1. Len(s) \in Nat /\ DOMAIN s = 1 .. Len(s)
  BY LenProperties
<1>2. \A k \in 1 .. Len(s) : s[k] \in T
  BY ElementOfSeq
<1> DEFINE p == SubSeq(s, a + 1, b)
<1>3. p \in Seq(T) /\ Len(p) = b - a /\ \A k \in 1 .. b - a : p[k] = s[a + k]
  <2>1. \A k \in a + 1 .. b : s[k] \in T
    BY <1>1, <1>2
  <2>2. QED
    BY <2>1, SubSeqProperties
<1> HIDE DEF p
<1>4. \A k \in 1 .. b - a : p[k] \in T
  BY <1>3, ElementOfSeq
<1> DEFINE l == SubSeq(p, i + 1, j)
           r == SubSeq(s, a + i + 1, a + j)
<1>5. l \in Seq(T) /\ Len(l) = j - i /\ \A k \in 1 .. j - i : l[k] = p[i + k]
  <2>1. \A k \in i + 1 .. j : p[k] \in T
    BY <1>4
  <2>2. QED
    BY <2>1, SubSeqProperties
<1>6. r \in Seq(T) /\ Len(r) = j - i /\ \A k \in 1 .. j - i : r[k] = s[a + i + k]
  <2>1. \A k \in a + i + 1 .. a + j : s[k] \in T
    BY <1>1, <1>2
  <2>2. QED
    BY <2>1, SubSeqProperties
<1> HIDE DEF l, r
<1>7. \A k \in 1 .. j - i : l[k] = r[k]
  <2> SUFFICES ASSUME NEW k \in 1 .. j - i PROVE l[k] = r[k]
    OBVIOUS
  <2>1. i + k \in 1 .. b - a
    OBVIOUS
  <2>2. QED
    BY <1>3, <1>5, <1>6, <2>1
<1>8. l = r
  BY <1>5, <1>6, <1>7, SeqEqual
<1>9. QED
  BY <1>8 DEF l, r, p

\* Two parts that meet.
LEMMA PartsJoin ==
  ASSUME NEW T, NEW s \in Seq(T), NEW a \in Nat, NEW b \in Nat, NEW c \in Nat,
         a <= b, b <= c, c <= Len(s)
  PROVE  SubSeq(s, a + 1, b) \o SubSeq(s, b + 1, c) = SubSeq(s, a + 1, c)
<1>1. Len(s) \in Nat
  BY LenProperties
<1>2. a + 1 \in 1 .. Len(s) + 1 /\ b \in a + 1 - 1 .. Len(s) /\ c \in b .. Len(s)
  BY <1>1
<1>3. QED
  BY <1>2, ConcatAdjacentSubSeq

\* What a part of a stream consists of.
LEMMA PartIs ==
  ASSUME NEW T, NEW s \in Seq(T), NEW a \in Nat, NEW b \in Nat, a <= b, b <= Len(s)
  PROVE  /\ SubSeq(s, a + 1, b) \in Seq(T) /\ Len(SubSeq(s, a + 1, b)) = b - a
         /\ DOMAIN SubSeq(s, a + 1, b) = 1 .. b - a
         /\ \A k \in 1 .. b - a : SubSeq(s, a + 1, b)[k] = s[a + k] /\ s[a + k] \in T
<1>1. Len(s) \in Nat /\ DOMAIN s = 1 .. Len(s)
  BY LenProperties
<1>2. \A k \in 1 .. Len(s) : s[k] \in T
  BY ElementOfSeq
<1>3. \A k \in a + 1 .. b : s[k] \in T
  BY <1>1, <1>2
<1> DEFINE p == SubSeq(s, a + 1, b)
<1>4. p \in Seq(T) /\ Len(p) = b - a /\ \A k \in 1 .. b - a : p[k] = s[a + k]
  BY <1>3, SubSeqProperties
<1> HIDE DEF p
<1>5. DOMAIN p = 1 .. b - a
  BY <1>4, LenProperties
<1>6. QED
  BY <1>1, <1>2, <1>4, <1>5 DEF p

LEMMA PartLength ==
  ASSUME NEW T, NEW s \in Seq(T), NEW a \in Nat, NEW b \in Nat, a <= b, b <= Len(s)
  PROVE  Len(SubSeq(s, a + 1, b)) = b - a
BY PartIs

\* The unit that a folder makes of what follows an offset.
UnitAt(e, s, a) ==
  IF e = "bytes" THEN s[a + 1] ELSE FoldUnit(SubSeq(s, a + 1, a + Width(e)), AsciiByte(e))

LEMMA UnitIsByte ==
  ASSUME NEW e \in Encodings, NEW s \in Seq(Bytes), NEW a \in Nat, a + Width(e) <= Len(s)
  PROVE  UnitAt(e, s, a) \in Bytes
<1> DEFINE w == Width(e)
           lo == AsciiByte(e)
           p == SubSeq(s, a + 1, a + w)
<1>1. w \in {1, 2, 4} /\ lo \in 1 .. w
  BY Widths
<1>2. \A k \in 1 .. w : p[k] = s[a + k] /\ s[a + k] \in Bytes
  <2>1. a + w \in Nat /\ a <= a + w /\ a + w - a = w /\ a + w <= Len(s)
    BY <1>1
  <2> DEFINE b == a + w
  <2> HIDE DEF w, b
  <2>2. b \in Nat /\ a <= b /\ b - a = w /\ b <= Len(s)
    BY <1>1, <2>1 DEF b
  <2>3. \A k \in 1 .. b - a : SubSeq(s, a + 1, b)[k] = s[a + k] /\ s[a + k] \in Bytes
    BY <2>2, PartIs
  <2>4. QED
    BY <2>2, <2>3 DEF b
<1> HIDE DEF w, lo, p
<1>3. s[a + 1] \in Bytes /\ p[lo] \in Bytes
  BY <1>1, <1>2
<1>4. FoldUnit(p, lo) \in Bytes
  BY <1>3 DEF FoldUnit, Placeholder, Bytes
<1>5. QED
  BY <1>3, <1>4 DEF UnitAt, w, lo, p

\* n units from offset a on.
UnitsFrom(all, e, s, a, n) ==
  /\ n \in Nat /\ all \in Seq(Bytes) /\ Len(all) = n /\ DOMAIN all = 1 .. n
  /\ \A u \in 1 .. n : all[u] = UnitAt(e, s, a + (u - 1) * Width(e))

LEMMA FoldIs ==
  ASSUME NEW e \in Encodings, NEW s \in Seq(Bytes), NEW a \in Nat, NEW b \in Nat,
         a <= b, b <= Len(s)
  PROVE  UnitsFrom(Fold(e, SubSeq(s, a + 1, b)), e, s, a, (b - a) \div Width(e))
<1> DEFINE w == Width(e)
           x == b - a
           n == x \div w
           p == SubSeq(s, a + 1, b)
           all == Fold(e, p)
<1>1. w \in {1, 2, 4} /\ (e = "bytes" => w = 1) /\ Len(s) \in Nat /\ x \in Nat
  BY Widths, LenProperties
<1>2. p \in Seq(Bytes) /\ Len(p) = x /\ DOMAIN p = 1 .. x /\ \A k \in 1 .. x : p[k] = s[a + k]
  BY PartIs
<1> HIDE DEF w, x, p
<1>3. n \in Nat /\ (w = 1 => n = x)
  BY <1>1
<1> HIDE DEF n
<1>4. CASE e = "bytes"
  <2>1. all = p
    BY <1>4 DEF Fold
  <2>2. w = 1 /\ n = x
    BY <1>1, <1>3, <1>4
  <2>3. ASSUME NEW u \in 1 .. n PROVE all[u] = UnitAt(e, s, a + (u - 1) * w)
    <3>1. a + (u - 1) * w + 1 = a + u
      BY <2>2, <1>3
    <3>2. UnitAt(e, s, a + (u - 1) * w) = s[a + (u - 1) * w + 1]
      BY <1>4 DEF UnitAt
    <3>3. QED
      BY <1>2, <2>1, <2>2, <3>1, <3>2
  <2>4. QED
    BY <1>2, <1>3, <2>1, <2>2, <2>3 DEF UnitsFrom, w, x, n, p
<1>5. CASE e # "bytes"
  <2>1. all = [u \in 1 .. n |-> FoldUnit(SubSeq(p, (u - 1) * w + 1, u * w), AsciiByte(e))]
    BY <1>2, <1>5 DEF Fold, w, n
  <2>2. ASSUME NEW u \in 1 .. n
        PROVE  all[u] = UnitAt(e, s, a + (u - 1) * w) /\ all[u] \in Bytes
    <3>1. (u - 1) * w \in Nat /\ u * w \in Nat /\ u * w = (u - 1) * w + w /\ u * w <= x
      BY <1>1, UnitPlaces DEF n
    <3> DEFINE i == (u - 1) * w
               j == u * w
    <3> HIDE DEF i, j
    <3>2. i \in Nat /\ j \in Nat /\ j = i + w /\ j <= x /\ i <= j /\ a + j <= b
      BY <1>1, <3>1 DEF i, j, x
    <3>3. SubSeq(p, i + 1, j) = SubSeq(s, a + i + 1, a + j)
      <4>1. PICK l : l = i
        OBVIOUS
      <4>2. PICK m : m = j
        OBVIOUS
      <4>3. l \in Nat /\ m \in Nat /\ l <= m /\ a + m <= b
        BY <3>2, <4>1, <4>2
      <4>4. SubSeq(SubSeq(s, a + 1, b), l + 1, m) = SubSeq(s, a + l + 1, a + m)
        BY <4>3, PartOfPart
      <4>5. QED
        BY <4>1, <4>2, <4>4 DEF p
    <3>4. a + j = a + i + w
      BY <1>1, <3>2
    <3>5. all[u] = FoldUnit(SubSeq(p, i + 1, j), AsciiByte(e))
      BY <2>1 DEF i, j
    <3>6. all[u] = UnitAt(e, s, a + i)
      BY <1>5, <3>3, <3>4, <3>5 DEF UnitAt, w
    <3>7. a + i \in Nat /\ a + i + w <= Len(s)
      BY <1>1, <3>2
    <3>8. UnitAt(e, s, a + i) \in Bytes
      BY <3>7, UnitIsByte DEF w
    <3>9. QED
      BY <3>6, <3>8 DEF i
  <2>3. all \in [1 .. n -> Bytes] /\ DOMAIN all = 1 .. n
    BY <2>1, <2>2
  <2>4. all \in Seq(Bytes) /\ Len(all) = n
    BY <1>3, <2>3
  <2>5. QED
    BY <1>3, <2>2, <2>3, <2>4 DEF UnitsFrom, w, x, n, p
<1>6. QED
  BY <1>4, <1>5

\* What a folder has made of the stream up to g, with a byte order mark up to b.
FoldedUpTo(f, all, s, b, g) ==
  /\ f \in [encoding : Encodings, bomLeft : Nat, carry : Seq(Bytes)]
  /\ g < b => f.bomLeft = b /\ f.carry = <<>> /\ all = <<>>
  /\ b <= g => LET w == Width(f.encoding)
               IN /\ f.bomLeft = 0
                  /\ f.carry = SubSeq(s, b + ((g - b) \div w) * w + 1, g)
                  /\ all = Fold(f.encoding, SubSeq(s, b + 1, g))

\* Where a folder stands that has folded k units: the rest of the stream up to h.
RestFrom(rest, all, e, s, b, h, k) ==
  /\ k \in Nat /\ b + k * Width(e) <= h
  /\ rest = SubSeq(s, b + k * Width(e) + 1, h)
  /\ UnitsFrom(all, e, s, b, k)

RestStarts(f, n, rest, all, e, s, b, h) ==
  f.bomLeft - n = 0 /\ \E k : RestFrom(rest, all, e, s, b, h, k)

\* Wherever the chunk starts, the folder goes on with whole units.
LEMMA RestOfFolder ==
  ASSUME NEW s \in Seq(Bytes), NEW b \in Nat, NEW g \in Nat, NEW h \in Nat,
         g <= h, b <= h, h <= Len(s), g = 0 \/ b <= g,
         NEW e \in Encodings, NEW f, f.encoding = e, NEW all, FoldedUpTo(f, all, s, b, g),
         NEW bytes, bytes = SubSeq(s, g + 1, h), NEW n, n = Least(f.bomLeft, Len(bytes)),
         NEW rest, rest = f.carry \o Drop(bytes, n)
  PROVE  RestStarts(f, n, rest, all, e, s, b, h)
<1>1. PICK w : w = Width(e)
  OBVIOUS
<1>2. w \in {1, 2, 4}
  BY <1>1, Widths
<1>3. bytes \in Seq(Bytes) /\ Len(bytes) = h - g
  BY PartIs
<1>4. CASE g < b
  <2>1. g = 0 /\ f.bomLeft = b /\ f.carry = <<>> /\ all = <<>>
    BY <1>4 DEF FoldedUpTo
  <2>2. n = b
    BY <1>3, <2>1 DEF Least
  <2>3. Drop(bytes, n) = SubSeq(s, b + 1, h)
    <3>1. SubSeq(SubSeq(s, g + 1, h), b + 1, h) = SubSeq(s, g + b + 1, g + h)
      BY <2>1, PartOfPart
    <3>2. g + b = b /\ g + h = h /\ Len(bytes) = h
      BY <1>3, <2>1
    <3>3. QED
      BY <2>2, <3>1, <3>2 DEF Drop
  <2>4. <<>> \o SubSeq(s, b + 1, h) = SubSeq(s, b + 1, h)
    BY PartIs, ConcatEmptySeq
  <2>5. b + 0 * w = b /\ b - b = 0
    BY <1>2
  <2>6. UnitsFrom(all, e, s, b, 0)
    BY <2>1, EmptySeq DEF UnitsFrom
  <2>7. f.carry \o Drop(bytes, n) = SubSeq(s, b + 0 * w + 1, h) /\ b + 0 * w <= h
    BY <2>1, <2>3, <2>4, <2>5
  <2>8. f.bomLeft - n = 0
    BY <2>1, <2>2
  <2>9. RestFrom(rest, all, e, s, b, h, 0)
    BY <1>1, <2>6, <2>7 DEF RestFrom
  <2>10. QED
    BY <2>8, <2>9 DEF RestStarts
<1>5. CASE b <= g
  <2>1. PICK k : k = (g - b) \div w
    OBVIOUS
  <2>2. PICK c : c = b + k * w
    OBVIOUS
  <2>3. f.bomLeft = 0 /\ f.carry = SubSeq(s, c + 1, g) /\ all = Fold(e, SubSeq(s, b + 1, g))
    BY <1>1, <1>5, <2>1, <2>2 DEF FoldedUpTo
  <2>4. k \in Nat /\ c \in Nat /\ c <= g
    <3>1. k \in Nat /\ g - b = k * w + ((g - b) % w) /\ (g - b) % w \in Nat
      BY <1>2, <1>5, <2>1, DivisionFacts
    <3>2. k * w \in Nat
      BY <1>2, <3>1
    <3>3. QED
      BY <1>5, <2>2, <3>1, <3>2
  <2>5. g <= Len(s) /\ Len(s) \in Nat
    BY LenProperties
  <2>6. UnitsFrom(all, e, s, b, k)
    BY <1>1, <1>5, <2>1, <2>3, <2>5, FoldIs
  <2>7. n = 0 /\ f.bomLeft - n = 0
    <3>1. h - g \in Nat /\ 0 <= h - g
      OBVIOUS
    <3>2. n = Least(0, h - g)
      BY <1>3, <2>3
    <3>3. n = 0
      BY <3>1, <3>2 DEF Least
    <3>4. QED
      BY <2>3, <3>3
  <2>8. Drop(bytes, n) = bytes
    <3>1. SubSeq(bytes, 1, Len(bytes)) = bytes
      BY <1>3, SubSeqFull
    <3>2. n + 1 = 1
      BY <2>7
    <3>3. QED
      BY <3>1, <3>2, Zenon DEF Drop
  <2>9. f.carry \o Drop(bytes, n) = SubSeq(s, c + 1, h)
    <3>1. SubSeq(s, c + 1, g) \o SubSeq(s, g + 1, h) = SubSeq(s, c + 1, h)
      BY <2>4, PartsJoin
    <3>2. QED
      BY <2>3, <2>8, <3>1
  <2>10. RestFrom(rest, all, e, s, b, h, k)
    <3>1. b + k * w <= h
      BY <2>2, <2>4
    <3>2. QED
      BY <1>1, <2>2, <2>4, <2>6, <2>9, <3>1 DEF RestFrom
  <2>11. QED
    BY <2>7, <2>10 DEF RestStarts
<1>6. QED
  BY <1>4, <1>5

\* The q units after the first k.
Continues(out, e, s, b, k, q) == \A u \in 1 .. q : out[u] = UnitAt(e, s, b + (k + u - 1) * Width(e))

\* A stretch of a sequence.
CutFrom(out, whole) ==
  \E i \in 1 .. Len(whole) + 1, j \in 0 .. Len(whole) : out = SubSeq(whole, i, j)

\* Units end to end are those of the whole.
LEMMA UnitsJoin ==
  ASSUME NEW e \in Encodings, NEW s \in Seq(Bytes), NEW b \in Nat, NEW c \in Nat,
         NEW k \in Nat, NEW q \in Nat, c = b + k * Width(e),
         NEW all, NEW out, UnitsFrom(all, e, s, b, k), UnitsFrom(out, e, s, c, q)
  PROVE  /\ UnitsFrom(all \o out, e, s, b, k + q)
         /\ Continues(out, e, s, b, k, q)
<1>1. PICK w : w = Width(e)
  OBVIOUS
<1>2. w \in {1, 2, 4}
  BY <1>1, Widths
<1>3. all \in Seq(Bytes) /\ Len(all) = k /\ out \in Seq(Bytes) /\ Len(out) = q
  BY DEF UnitsFrom
<1>4. \A u \in 1 .. q : out[u] = UnitAt(e, s, b + (k + u - 1) * w)
  <2> SUFFICES ASSUME NEW u \in 1 .. q PROVE out[u] = UnitAt(e, s, b + (k + u - 1) * w)
    OBVIOUS
  <2>1. out[u] = UnitAt(e, s, c + (u - 1) * w)
    BY <1>1 DEF UnitsFrom
  <2>2. c = b + k * w
    BY <1>1
  <2>3. c + (u - 1) * w = b + (k + u - 1) * w
    <3>1. CASE w = 1
      BY <2>2, <3>1
    <3>2. CASE w = 2
      BY <2>2, <3>2
    <3>3. CASE w = 4
      BY <2>2, <3>3
    <3>4. QED
      BY <1>2, <3>1, <3>2, <3>3
  <2>4. QED
    BY <2>1, <2>3
<1> DEFINE both == all \o out
<1>5. both \in Seq(Bytes) /\ Len(both) = k + q
      /\ \A u \in 1 .. k + q : both[u] = IF u <= k THEN all[u] ELSE out[u - k]
  BY <1>3, ConcatProperties
<1> HIDE DEF both
<1>6. ASSUME NEW u \in 1 .. k + q PROVE both[u] = UnitAt(e, s, b + (u - 1) * w)
  <2>1. CASE u <= k
    <3>1. all[u] = UnitAt(e, s, b + (u - 1) * w)
      BY <1>1, <2>1 DEF UnitsFrom
    <3>2. QED
      BY <1>5, <2>1, <3>1
  <2>2. CASE u > k
    <3>1. PICK v : v = u - k
      OBVIOUS
    <3>2. v \in 1 .. q /\ k + v - 1 = u - 1
      BY <2>2, <3>1
    <3>3. out[v] = UnitAt(e, s, b + (k + v - 1) * w)
      BY <1>4, <3>2
    <3>4. both[u] = out[v]
      BY <1>5, <2>2, <3>1
    <3>5. QED
      BY <3>2, <3>3, <3>4
  <2>3. QED
    BY <2>1, <2>2
<1>7. DOMAIN both = 1 .. k + q /\ k + q \in Nat
  BY <1>5, LenProperties
<1>8. UnitsFrom(both, e, s, b, k + q)
  BY <1>1, <1>5, <1>6, <1>7 DEF UnitsFrom
<1>9. QED
  BY <1>1, <1>4, <1>8 DEF both, Continues

LEMMA UnitsSame ==
  ASSUME NEW e, NEW s, NEW b, NEW n, NEW all, NEW now,
         UnitsFrom(all, e, s, b, n), UnitsFrom(now, e, s, b, n)
  PROVE  all = now
<1>1. all \in Seq(Bytes) /\ now \in Seq(Bytes) /\ Len(all) = Len(now)
      /\ \A u \in 1 .. Len(all) : all[u] = now[u]
  BY DEF UnitsFrom
<1>2. QED
  BY <1>1, SeqEqual

\* Units in the middle are cut out of the whole.
LEMMA UnitsWithin ==
  ASSUME NEW e, NEW s, NEW b, NEW l \in Nat, NEW whole, UnitsFrom(whole, e, s, b, l),
         NEW k \in Nat, NEW q \in Nat, k + q <= l,
         NEW out \in Seq(Bytes), Len(out) = q, Continues(out, e, s, b, k, q)
  PROVE  CutFrom(out, whole)
<1>1. whole \in Seq(Bytes) /\ Len(whole) = l
  BY DEF UnitsFrom
<1> DEFINE part == SubSeq(whole, k + 1, k + q)
<1>2. part \in Seq(Bytes) /\ Len(part) = q /\ \A u \in 1 .. q : part[u] = whole[k + u]
  <2>1. PICK m : m = k + q
    OBVIOUS
  <2>2. m \in Nat /\ k <= m /\ m <= Len(whole) /\ m - k = q
    BY <1>1, <2>1
  <2>3. SubSeq(whole, k + 1, m) \in Seq(Bytes) /\ Len(SubSeq(whole, k + 1, m)) = m - k
    BY <1>1, <2>2, PartIs
  <2>4. \A u \in 1 .. m - k : SubSeq(whole, k + 1, m)[u] = whole[k + u]
    BY <1>1, <2>2, PartIs
  <2>5. QED
    BY <2>1, <2>2, <2>3, <2>4
<1> HIDE DEF part
<1>3. \A u \in 1 .. q : part[u] = out[u]
  <2> SUFFICES ASSUME NEW u \in 1 .. q PROVE part[u] = out[u]
    OBVIOUS
  <2>1. k + u \in 1 .. l
    OBVIOUS
  <2>2. whole[k + u] = UnitAt(e, s, b + (k + u - 1) * Width(e))
    BY <2>1 DEF UnitsFrom
  <2>3. QED
    BY <1>2, <2>2 DEF Continues
<1>4. part = out
  BY <1>2, <1>3, SeqEqual
<1>5. k + 1 \in 1 .. Len(whole) + 1 /\ k + q \in 0 .. Len(whole)
  BY <1>1
<1>6. QED
  BY <1>4, <1>5 DEF part, CutFrom

\* Where k units end, and the q more that fit into x bytes.
UnitsFit(w, b, k, x, c, q, size) ==
  /\ c \in Nat /\ b <= c /\ q \in Nat /\ size \in Nat /\ size <= x /\ size \div w = q
  /\ (c + x - b) \div w = k + q /\ c + size = b + (k + q) * w
  /\ \A y \in Nat : y >= c + x => (y - b) \div w \in Nat /\ (y - b) \div w >= k + q
                                /\ (y - b) \div w <= y

LEMMA UnitArithmetic ==
  ASSUME NEW w \in {1, 2, 4}, NEW b \in Nat, NEW k \in Nat, NEW x \in Nat
  PROVE  UnitsFit(w, b, k, x, b + k * w, x \div w, x - (x % w))
<1>1. CASE w = 1
  BY <1>1 DEF UnitsFit
<1>2. CASE w = 2
  BY <1>2 DEF UnitsFit
<1>3. CASE w = 4
  BY <1>3 DEF UnitsFit
<1>4. QED
  BY <1>1, <1>2, <1>3

StepFolded(push, all, s, b, h, e, whole) ==
  /\ FoldedUpTo(push.folder, all \o push.out, s, b, h)
  /\ push.folder.encoding = e
  /\ CutFrom(push.out, whole)
  /\ Len(all) \in Nat /\ Len(push.out) \in Nat
  /\ Len(all \o push.out) <= Len(s) /\ Len(all \o push.out) = Len(all) + Len(push.out)

\* A chunk more: what comes out is a part of the stream folded at once, and what
\* has come out in all is the stream folded so far.
LEMMA FoldStep ==
  ASSUME NEW s \in Seq(Bytes), NEW b \in Nat, NEW g \in Nat, NEW h \in Nat,
         g <= h, b <= h, h <= Len(s), g = 0 \/ b <= g,
         NEW e \in Encodings, NEW f, f.encoding = e, NEW all, FoldedUpTo(f, all, s, b, g),
         NEW bytes, bytes = SubSeq(s, g + 1, h),
         NEW push, push = FolderPush(f, bytes),
         NEW whole, whole = Fold(e, SubSeq(s, b + 1, Len(s)))
  PROVE  StepFolded(push, all, s, b, h, e, whole)
<1>1. PICK w : w = Width(e)
  OBVIOUS
<1>2. w \in {1, 2, 4} /\ Len(s) \in Nat
  BY <1>1, Widths, LenProperties
<1>3. PICK n : n = Least(f.bomLeft, Len(bytes))
  OBVIOUS
<1>4. PICK rest : rest = f.carry \o Drop(bytes, n)
  OBVIOUS
<1>5. PICK size : size = Len(rest) - (Len(rest) % w)
  OBVIOUS
<1>6. PICK out : out = Fold(e, SubSeq(rest, 1, size))
  OBVIOUS
<1>7. push.out = out /\ push.folder = [f EXCEPT !.bomLeft = @ - n, !.carry = Drop(rest, size)]
  BY <1>1, <1>3, <1>4, <1>5, <1>6 DEF FolderPush
<1>8. PICK k : f.bomLeft - n = 0 /\ RestFrom(rest, all, e, s, b, h, k)
  <2>1. RestStarts(f, n, rest, all, e, s, b, h)
    BY <1>3, <1>4, RestOfFolder
  <2>2. QED
    BY <2>1 DEF RestStarts
<1>9. PICK c : c = b + k * w
  OBVIOUS
<1>10. PICK x : x = h - c
  OBVIOUS
<1>11. PICK q : q = x \div w
  OBVIOUS
<1>12. /\ k \in Nat /\ c <= h /\ rest = SubSeq(s, c + 1, h) /\ UnitsFrom(all, e, s, b, k)
  BY <1>1, <1>8, <1>9 DEF RestFrom
<1>13. c \in Nat /\ b <= c /\ x \in Nat /\ c + x = h
  <2>1. PICK t : t = k * w
    OBVIOUS
  <2>2. t \in Nat /\ c = b + t
    <3>1. CASE w = 1
      BY <1>9, <1>12, <2>1, <3>1
    <3>2. CASE w = 2
      BY <1>9, <1>12, <2>1, <3>2
    <3>3. CASE w = 4
      BY <1>9, <1>12, <2>1, <3>3
    <3>4. QED
      BY <1>2, <3>1, <3>2, <3>3
  <2>3. c \in Nat /\ b <= c
    BY <2>2
  <2>4. QED
    BY <1>10, <1>12, <2>3
<1>14. rest \in Seq(Bytes) /\ Len(rest) = x
  <2>1. SubSeq(s, c + 1, h) \in Seq(Bytes) /\ Len(SubSeq(s, c + 1, h)) = h - c
    BY <1>12, <1>13, PartIs
  <2>2. QED
    BY <1>10, <1>12, <2>1
<1>15. /\ q \in Nat /\ size \in Nat /\ size <= x /\ size \div w = q
       /\ (h - b) \div w = k + q /\ c + size = b + (k + q) * w
       /\ (Len(s) - b) \div w \in Nat /\ (Len(s) - b) \div w >= k + q
       /\ (Len(s) - b) \div w <= Len(s)
  <2>1. size = x - (x % w)
    BY <1>5, <1>14
  <2>2. UnitsFit(w, b, k, x, c, q, size)
    BY <1>2, <1>9, <1>11, <1>12, <1>13, <2>1, UnitArithmetic
  <2>3. h - b = c + x - b /\ Len(s) >= c + x
    BY <1>2, <1>13
  <2>4. QED
    BY <1>2, <2>2, <2>3 DEF UnitsFit
<1>16. PICK d : d = c + size
  OBVIOUS
<1>17. d \in Nat /\ c <= d /\ d <= h /\ d <= Len(s) /\ d - c = size
  BY <1>2, <1>13, <1>15, <1>16
<1>18. SubSeq(rest, 1, size) = SubSeq(s, c + 1, d)
  <2>1. SubSeq(SubSeq(s, c + 1, h), 0 + 1, size) = SubSeq(s, c + 0 + 1, c + size)
    BY <1>13, <1>15, <1>16, <1>17, PartOfPart
  <2>2. c + 0 + 1 = c + 1 /\ 0 + 1 = 1
    BY <1>13
  <2>3. QED
    BY <1>12, <1>16, <2>1, <2>2
<1>19. UnitsFrom(out, e, s, c, q)
  <2>1. UnitsFrom(Fold(e, SubSeq(s, c + 1, d)), e, s, c, (d - c) \div Width(e))
    BY <1>13, <1>17, FoldIs
  <2>2. QED
    BY <1>1, <1>6, <1>15, <1>17, <1>18, <2>1
<1>20. UnitsFrom(all \o out, e, s, b, k + q)
       /\ Continues(out, e, s, b, k, q)
  <2>1. c = b + k * Width(e)
    BY <1>1, <1>9
  <2>2. UnitsFrom(all \o out, e, s, b, k + q)
    BY <1>12, <1>13, <1>15, <1>19, <2>1, UnitsJoin
  <2>3. Continues(out, e, s, b, k, q)
    BY <1>12, <1>13, <1>15, <1>19, <2>1, UnitsJoin
  <2>4. QED
    BY <2>2, <2>3
<1>21. all \o out = Fold(e, SubSeq(s, b + 1, h))
  <2>1. UnitsFrom(Fold(e, SubSeq(s, b + 1, h)), e, s, b, k + q)
    BY <1>1, <1>15, FoldIs
  <2>2. QED
    BY <1>20, <2>1, UnitsSame
<1>22. Drop(rest, size) = SubSeq(s, b + ((h - b) \div w) * w + 1, h)
       /\ Drop(rest, size) \in Seq(Bytes)
  <2>1. SubSeq(SubSeq(s, c + 1, h), size + 1, x) = SubSeq(s, c + size + 1, c + x)
    BY <1>13, <1>15, PartOfPart
  <2>2. SubSeq(s, d + 1, h) \in Seq(Bytes)
    BY <1>17, PartIs
  <2>3. QED
    BY <1>12, <1>13, <1>14, <1>15, <1>16, <2>1, <2>2 DEF Drop
<1>23. FoldedUpTo(push.folder, all \o out, s, b, h) /\ push.folder.encoding = e
  <2>1. f \in [encoding : Encodings, bomLeft : Nat, carry : Seq(Bytes)]
    BY DEF FoldedUpTo
  <2>2. push.folder \in [encoding : Encodings, bomLeft : Nat, carry : Seq(Bytes)]
        /\ push.folder.encoding = e /\ push.folder.bomLeft = 0
        /\ push.folder.carry = Drop(rest, size)
    <3>1. PICK carry : carry = Drop(rest, size)
      OBVIOUS
    <3>2. PICK over : over = f.bomLeft - n
      OBVIOUS
    <3>3. push.folder = [f EXCEPT !.bomLeft = over, !.carry = carry]
      BY <1>7, <2>1, <3>1, <3>2
    <3>4. over = 0 /\ carry \in Seq(Bytes)
      BY <1>8, <1>22, <3>1, <3>2
    <3>5. f.encoding \in Encodings
      BY <2>1
    <3>6. push.folder.encoding = e /\ push.folder.bomLeft = over /\ push.folder.carry = carry
      BY <2>1, <3>3
    <3>7. push.folder \in [encoding : Encodings, bomLeft : Nat, carry : Seq(Bytes)]
      <4>1. f = [encoding |-> e, bomLeft |-> f.bomLeft, carry |-> f.carry]
        BY <2>1
      <4>2. push.folder = [encoding |-> e, bomLeft |-> over, carry |-> carry]
        BY <3>3, <4>1
      <4>3. QED
        BY <3>4, <4>2
    <3>8. QED
      BY <3>1, <3>4, <3>6, <3>7
  <2>3. push.folder.carry = SubSeq(s, b + ((h - b) \div w) * w + 1, h)
    BY <1>22, <2>2
  <2>4. ~(h < b)
    OBVIOUS
  <2>5. QED
    BY <1>1, <1>21, <2>2, <2>3, <2>4 DEF FoldedUpTo
<1>24. CutFrom(out, whole)
  <2>1. PICK l : l = (Len(s) - b) \div w
    OBVIOUS
  <2>2. UnitsFrom(whole, e, s, b, l)
    <3>1. PICK m : m = Len(s)
      OBVIOUS
    <3>2. m \in Nat /\ b <= m /\ m <= Len(s)
      BY <1>2, <3>1
    <3>3. UnitsFrom(Fold(e, SubSeq(s, b + 1, m)), e, s, b, (m - b) \div Width(e))
      BY <3>2, FoldIs
    <3>4. QED
      BY <1>1, <2>1, <3>1, <3>3
  <2>3. l \in Nat /\ k + q <= l
    BY <1>12, <1>15, <2>1
  <2>4. out \in Seq(Bytes) /\ Len(out) = q
    BY <1>19 DEF UnitsFrom
  <2>5. Continues(out, e, s, b, k, q)
    BY <1>20
  <2>6. QED
    BY <1>12, <1>15, <2>2, <2>3, <2>4, <2>5, UnitsWithin
<1>25. Len(all \o out) = k + q /\ Len(all) = k /\ Len(out) = q
  BY <1>12, <1>19, <1>20 DEF UnitsFrom
<1>26. k + q <= Len(s)
  <2>1. PICK l : l = (Len(s) - b) \div w
    OBVIOUS
  <2>2. l \in Nat /\ l >= k + q /\ l <= Len(s) /\ k \in Nat /\ q \in Nat
    BY <1>12, <1>15, <2>1
  <2>3. QED
    BY <1>2, <2>2
<1>27. Len(all) \in Nat /\ Len(out) \in Nat
  BY <1>12, <1>19, <1>25 DEF UnitsFrom
<1>28. QED
  BY <1>7, <1>23, <1>24, <1>25, <1>26, <1>27 DEF StepFolded

-----------------------------------------------------------------------------
(* The statistics.                                                         *)
LEMMA CardinalityShifted ==
  ASSUME NEW n \in Nat, NEW S \in SUBSET (1 .. n), NEW c \in Nat, NEW T,
         T = {c + i : i \in S}
  PROVE  IsFiniteSet(S) /\ IsFiniteSet(T) /\ Cardinality(T) = Cardinality(S)
<1>1. IsFiniteSet(S)
  <2>1. IsFiniteSet(1 .. n)
    BY FS_Interval
  <2>2. QED
    BY <2>1, FS_Subset
<1> DEFINE f == [i \in S |-> c + i]
<1>2. f \in Bijection(S, T)
  <2>1. f \in [S -> T]
    OBVIOUS
  <2>2. \A i, j \in S : f[i] = f[j] => i = j
    OBVIOUS
  <2>3. \A t \in T : \E i \in S : f[i] = t
    OBVIOUS
  <2> HIDE DEF f
  <2>4. QED
    BY <2>1, <2>2, <2>3 DEF Bijection, Injection, Surjection, IsInjective
<1> HIDE DEF f
<1>3. ExistsBijection(S, T)
  BY <1>2 DEF ExistsBijection
<1>4. QED
  BY <1>1, <1>3, FS_Bijection

LEMMA CardinalityOfBoth ==
  ASSUME NEW S, NEW T, IsFiniteSet(S), IsFiniteSet(T), S \cap T = {}
  PROVE  Cardinality(S \cup T) = Cardinality(S) + Cardinality(T)
<1>1. Cardinality(S \cap T) = 0
  BY FS_EmptySet
<1>2. Cardinality(S \cup T) = Cardinality(S) + Cardinality(T) - Cardinality(S \cap T)
  BY FS_Union
<1>3. Cardinality(S) \in Nat /\ Cardinality(T) \in Nat
  BY FS_CardinalityType
<1>4. QED
  BY <1>1, <1>2, <1>3

\* The statistics of a stream that goes on.
LEMMA StatsStep ==
  ASSUME NEW s \in Seq(Bytes), NEW c \in Nat, NEW h \in Nat, c <= h, h <= Len(s)
  PROVE  PushStats(PushStats(NoStats, SubSeq(s, 1, c)), SubSeq(s, c + 1, h))
           = PushStats(NoStats, SubSeq(s, 1, h))
<1> DEFINE before == SubSeq(s, 1, c)
           bytes == SubSeq(s, c + 1, h)
           all == SubSeq(s, 1, h)
<1>1. Len(s) \in Nat
  BY LenProperties
<1>2. Len(before) = c /\ DOMAIN before = 1 .. c /\ \A k \in 1 .. c : before[k] = s[k]
  <2>1. 0 \in Nat /\ 0 <= c /\ c <= Len(s) /\ c - 0 = c /\ 0 + 1 = 1
    BY <1>1
  <2>2. \A k \in 1 .. c : 0 + k = k
    OBVIOUS
  <2>3. QED
    BY <2>1, <2>2, PartIs
<1>3. Len(all) = h /\ DOMAIN all = 1 .. h /\ \A k \in 1 .. h : all[k] = s[k]
  <2>1. 0 \in Nat /\ 0 <= h /\ h - 0 = h /\ 0 + 1 = 1
    OBVIOUS
  <2>2. \A k \in 1 .. h : 0 + k = k
    OBVIOUS
  <2>3. QED
    BY <2>1, <2>2, PartIs
<1>4. Len(bytes) = h - c /\ DOMAIN bytes = 1 .. h - c /\ \A k \in 1 .. h - c : bytes[k] = s[c + k]
  BY PartIs
<1> HIDE DEF before, bytes, all
<1> DEFINE A == {i \in DOMAIN before : before[i] = 0}
           B == {i \in DOMAIN bytes : bytes[i] = 0}
           C == {i \in DOMAIN all : all[i] = 0}
           oddA == {i \in A : (0 + i - 1) % 2 = 1}
           oddB == {i \in B : (c + i - 1) % 2 = 1}
           oddC == {i \in C : (0 + i - 1) % 2 = 1}
           shiftB == {c + i : i \in B}
           shiftOddB == {c + i : i \in oddB}
<1>5. /\ A \in SUBSET (1 .. c) /\ oddA \in SUBSET (1 .. c)
      /\ B \in SUBSET (1 .. h - c) /\ oddB \in SUBSET (1 .. h - c)
      /\ h - c \in Nat
  BY <1>2, <1>4
<1>6. C = A \cup shiftB
  <2>1. ASSUME NEW i \in C PROVE i \in A \cup shiftB
    <3>1. i \in 1 .. h /\ s[i] = 0
      BY <1>3
    <3>2. CASE i <= c
      BY <1>2, <3>1, <3>2
    <3>3. CASE i > c
      <4>1. i - c \in 1 .. h - c /\ c + (i - c) = i
        BY <3>1, <3>3
      <4>2. i - c \in B
        BY <1>4, <3>1, <4>1
      <4>3. QED
        BY <4>1, <4>2
    <3>4. QED
      BY <3>1, <3>2, <3>3
  <2>2. ASSUME NEW i \in A PROVE i \in C
    BY <1>2, <1>3
  <2>3. ASSUME NEW i \in B PROVE c + i \in C
    <3>1. i \in 1 .. h - c /\ s[c + i] = 0
      BY <1>4
    <3>2. c + i \in 1 .. h
      BY <3>1
    <3>3. QED
      BY <1>3, <3>1, <3>2
  <2>4. QED
    BY <2>1, <2>2, <2>3
<1>7. A \cap shiftB = {} /\ oddA \cap shiftOddB = {}
  BY <1>5
<1>8. oddC = oddA \cup shiftOddB
  <2>1. oddC = {i \in A : (0 + i - 1) % 2 = 1} \cup {i \in shiftB : (0 + i - 1) % 2 = 1}
    BY <1>6
  <2>2. {i \in shiftB : (0 + i - 1) % 2 = 1} = shiftOddB
    <3>1. \A i \in B : 0 + (c + i) - 1 = c + i - 1
      BY <1>5
    <3>2. QED
      BY <3>1
  <2>3. QED
    BY <2>1, <2>2
<1> HIDE DEF A, B, C, oddA, oddB, oddC
<1>9. IsFiniteSet(A) /\ IsFiniteSet(shiftB) /\ Cardinality(shiftB) = Cardinality(B)
      /\ Cardinality(A) \in Nat /\ Cardinality(B) \in Nat
  <2>1. IsFiniteSet(A)
    <3>1. IsFiniteSet(1 .. c)
      BY FS_Interval
    <3>2. QED
      BY <1>5, <3>1, FS_Subset
  <2>2. IsFiniteSet(B) /\ IsFiniteSet(shiftB) /\ Cardinality(shiftB) = Cardinality(B)
    BY <1>5, CardinalityShifted
  <2>3. QED
    BY <2>1, <2>2, FS_CardinalityType
<1>10. IsFiniteSet(oddA) /\ IsFiniteSet(shiftOddB) /\ Cardinality(shiftOddB) = Cardinality(oddB)
       /\ Cardinality(oddA) \in Nat /\ Cardinality(oddB) \in Nat
  <2>1. IsFiniteSet(oddA)
    <3>1. IsFiniteSet(1 .. c)
      BY FS_Interval
    <3>2. QED
      BY <1>5, <3>1, FS_Subset
  <2>2. IsFiniteSet(oddB) /\ IsFiniteSet(shiftOddB) /\ Cardinality(shiftOddB) = Cardinality(oddB)
    BY <1>5, CardinalityShifted
  <2>3. QED
    BY <2>1, <2>2, FS_CardinalityType
<1> HIDE DEF shiftB, shiftOddB
<1>11. Cardinality(C) = Cardinality(A) + Cardinality(B)
  BY <1>6, <1>7, <1>9, CardinalityOfBoth
<1>12. Cardinality(oddC) = Cardinality(oddA) + Cardinality(oddB)
  BY <1>7, <1>8, <1>10, CardinalityOfBoth
<1>13. PushStats(NoStats, before)
         = [len |-> 0 + c, nuls |-> 0 + Cardinality(A), oddNuls |-> 0 + Cardinality(oddA)]
  BY <1>2 DEF PushStats, NoStats, A, oddA
<1>14. PushStats(NoStats, all)
         = [len |-> 0 + h, nuls |-> 0 + Cardinality(C), oddNuls |-> 0 + Cardinality(oddC)]
  BY <1>3 DEF PushStats, NoStats, C, oddC
<1>15. PushStats([len |-> c, nuls |-> Cardinality(A), oddNuls |-> Cardinality(oddA)], bytes)
         = [len |-> c + (h - c), nuls |-> Cardinality(A) + Cardinality(B),
            oddNuls |-> Cardinality(oddA) + Cardinality(oddB)]
  BY <1>4 DEF PushStats, B, oddB
<1>16. c + (h - c) = h /\ 0 + h = h /\ 0 + c = c
  OBVIOUS
<1>17. QED
  BY <1>9, <1>10, <1>11, <1>12, <1>13, <1>14, <1>15, <1>16 DEF before, bytes, all

-----------------------------------------------------------------------------
(* The encoding that is decided.                                           *)
LEMMA BomFacts ==
  ASSUME NEW hd \in Seq(Bytes)
  PROVE  /\ BomLen(hd) \in Nat /\ BomLen(hd) <= Len(hd) /\ BomLen(hd) \in {0, 2, 3, 4}
         /\ \A st : Encoding(st, hd) \in Encodings
<1>1. CASE Marked(hd) = {}
  <2>1. BomLen(hd) = 0 /\ Len(hd) \in Nat
    BY <1>1, LenProperties DEF BomLen
  <2>2. \A st : Encoding(st, hd) \in Encodings
    BY <1>1 DEF Encoding, Encodings
  <2>3. QED
    BY <2>1, <2>2
<1>2. CASE Marked(hd) # {}
  <2>1. Marked(hd) \in SUBSET Nat /\ Marked(hd) \subseteq 1 .. 5
    BY DEF Marked, Boms
  <2>2. \E i \in Marked(hd) : \A j \in Marked(hd) : i <= j
    BY <1>2, <2>1, LeastNumber
  <2>3. PICK i \in Marked(hd) : Bom(hd) = Boms[i]
    BY <2>2 DEF Bom
  <2>4. i \in 1 .. 5 /\ IsPrefix(Boms[i].marker, hd)
    BY <2>1, <2>3 DEF Marked
  <2>5. Len(Boms[i].marker) \in {2, 3, 4} /\ Boms[i].encoding \in Encodings
    <3>1. CASE i = 1
      BY <3>1 DEF Boms, Encodings
    <3>2. CASE i = 2
      BY <3>2 DEF Boms, Encodings
    <3>3. CASE i = 3
      BY <3>3 DEF Boms, Encodings
    <3>4. CASE i = 4
      BY <3>4 DEF Boms, Encodings
    <3>5. CASE i = 5
      BY <3>5 DEF Boms, Encodings
    <3>6. QED
      BY <2>4, <3>1, <3>2, <3>3, <3>4, <3>5
  <2>6. BomLen(hd) = Len(Boms[i].marker)
    BY <1>2, <2>3 DEF BomLen
  <2>7. BomLen(hd) <= Len(hd)
    BY <2>4, <2>6 DEF IsPrefix
  <2>8. \A st : Encoding(st, hd) = Boms[i].encoding
    BY <1>2, <2>3 DEF Encoding
  <2>9. QED
    BY <2>5, <2>6, <2>7, <2>8
<1>3. QED
  BY <1>1, <1>2

-----------------------------------------------------------------------------
(* The invariant.                                                          *)
\* The calls of ingest that are due, when the stream up to g has been ingested.
Due(g) ==
  \/ g = consumed /\ todo = <<>>
  \/ todo = <<SubSeq(input, g + 1, consumed)>>
  \/ \E m \in g .. consumed : todo = <<SubSeq(input, g + 1, m), SubSeq(input, m + 1, consumed)>>

\* A byte order mark is never cut: it is in the first call.
IngestedUpTo(g) ==
  /\ Due(g)
  /\ g = 0 \/ BomLen(head) <= g
  /\ g < BomLen(head) => todo # <<>> /\ BomLen(head) <= Len(Head(todo))
  /\ FoldedUpTo(folder, normalized, input, BomLen(head), g)

SniffInv ==
  /\ input \in Inputs /\ consumed \in 0 .. Len(input)
  /\ stats = PushStats(NoStats, SubSeq(input, 1, consumed))
  /\ Len(head) \in 0 .. consumed /\ head = SubSeq(input, 1, Len(head))
  /\ \/ /\ folder.encoding \in Encodings
        /\ \E g \in 0 .. consumed : IngestedUpTo(g)
     \/ /\ ~Decided
        /\ Len(head) = consumed /\ Len(head) < HeadTarget
        /\ todo = <<>> /\ normalized = <<>>

LEMMA InputFacts ==
  ASSUME input \in Inputs
  PROVE  input \in Seq(Bytes) /\ Len(input) \in Nat /\ Len(input) <= MaxInput
<1>1. input \in Seq(Bytes)
  BY InputsAssumption DEF Bytes
<1>2. QED
  BY <1>1, InputsAssumption, LenProperties

LEMMA EncodingsDecided == ASSUME folder.encoding \in Encodings PROVE Decided
BY DEF Encodings, Decided

LEMMA PrefixIs ==
  ASSUME NEW s \in Seq(Bytes), NEW n \in Nat, n <= Len(s)
  PROVE  /\ SubSeq(s, 1, n) \in Seq(Bytes) /\ Len(SubSeq(s, 1, n)) = n
         /\ \A k \in 1 .. n : SubSeq(s, 1, n)[k] = s[k]
<1>1. 0 \in Nat /\ 0 <= n /\ n - 0 = n /\ 0 + 1 = 1 /\ \A k \in 1 .. n : 0 + k = k
  OBVIOUS
<1>2. SubSeq(s, 0 + 1, n) \in Seq(Bytes) /\ Len(SubSeq(s, 0 + 1, n)) = n - 0
      /\ \A k \in 1 .. n - 0 : SubSeq(s, 0 + 1, n)[k] = s[0 + k]
  BY <1>1, PartIs
<1>3. QED
  BY <1>1, <1>2

LEMMA HeadFacts ==
  ASSUME SniffInv
  PROVE  /\ input \in Seq(Bytes) /\ Len(input) \in Nat /\ head \in Seq(Bytes)
         /\ consumed \in Nat /\ consumed <= Len(input)
         /\ BomLen(head) \in Nat /\ BomLen(head) <= Len(head) /\ Len(head) <= consumed
         /\ BomLen(head) \in {0, 2, 3, 4}
<1>1. input \in Seq(Bytes) /\ Len(input) \in Nat
  BY InputFacts DEF SniffInv
<1>2. PICK n : n = Len(head)
  OBVIOUS
<1>3. n \in Nat /\ n <= consumed /\ consumed \in Nat /\ consumed <= Len(input)
      /\ head = SubSeq(input, 1, n)
  <2>1. /\ consumed \in 0 .. Len(input) /\ Len(head) \in 0 .. consumed
        /\ head = SubSeq(input, 1, Len(head))
    BY DEF SniffInv
  <2>2. QED
    BY <1>1, <1>2, <2>1
<1>4. head \in Seq(Bytes)
  <2>1. n <= Len(input)
    BY <1>1, <1>3
  <2>2. QED
    BY <1>1, <1>3, <2>1, PrefixIs
<1>5. BomLen(head) \in Nat /\ BomLen(head) <= Len(head) /\ BomLen(head) \in {0, 2, 3, 4}
  BY <1>4, BomFacts
<1>6. QED
  BY <1>1, <1>2, <1>3, <1>4, <1>5

\* Nothing is folded yet.
LEMMA NothingFolded ==
  ASSUME NEW s \in Seq(Bytes), NEW b \in Nat, NEW e \in Encodings
  PROVE  FoldedUpTo(NewFolder(e, b), <<>>, s, b, 0)
<1> DEFINE f == NewFolder(e, b)
<1>1. f.encoding = e /\ f.bomLeft = b /\ f.carry = <<>>
  BY DEF NewFolder
<1>2. f \in [encoding : Encodings, bomLeft : Nat, carry : Seq(Bytes)]
  BY EmptySeq DEF NewFolder
<1> HIDE DEF f
<1>3. ASSUME b <= 0
      PROVE  /\ f.bomLeft = 0
             /\ f.carry = SubSeq(s, b + ((0 - b) \div Width(e)) * Width(e) + 1, 0)
             /\ <<>> = Fold(e, SubSeq(s, b + 1, 0))
  <2>1. b = 0
    BY <1>3
  <2>2. (0 - 0) \div Width(e) = 0 /\ 0 * Width(e) = 0
    <3>1. PICK w : w = Width(e)
      OBVIOUS
    <3>2. w \in {1, 2, 4}
      BY <3>1, Widths
    <3>3. (0 - 0) \div w = 0 /\ 0 * w = 0
      BY <3>2
    <3>4. QED
      BY <3>1, <3>3
  <2>3. SubSeq(s, 0 + 1, 0) = <<>>
    BY SubSeqEmpty
  <2>4. UnitsFrom(Fold(e, SubSeq(s, 0 + 1, 0)), e, s, 0, (0 - 0) \div Width(e))
    <3>1. Len(s) \in Nat
      BY LenProperties
    <3>2. 0 <= Len(s) /\ 0 \in Nat
      BY <3>1
    <3>3. QED
      BY <3>2, FoldIs
  <2>5. UnitsFrom(<<>>, e, s, 0, 0)
    BY EmptySeq DEF UnitsFrom
  <2>6. Fold(e, SubSeq(s, 0 + 1, 0)) = <<>>
    BY <2>2, <2>4, <2>5, UnitsSame
  <2>7. SubSeq(s, 0 + 0 + 1, 0) = <<>>
    BY SubSeqEmpty
  <2>8. QED
    BY <1>1, <2>1, <2>2, <2>6, <2>7
<1>4. QED
  BY <1>1, <1>2, <1>3 DEF FoldedUpTo, f

LEMMA SniffStarts == SniffInit => SniffInv
<1> SUFFICES ASSUME SniffInit PROVE SniffInv
  OBVIOUS
<1>1. input \in Inputs /\ consumed = 0 /\ stats = NoStats /\ head = <<>>
      /\ folder = NewFolder("undecided", 0) /\ todo = <<>> /\ normalized = <<>>
  BY DEF SniffInit
<1>2. input \in Seq(Bytes) /\ Len(input) \in Nat
  BY <1>1, InputFacts
<1>3. ~Decided
  BY <1>1 DEF Decided, NewFolder
<1>4. SubSeq(input, 1, 0) = <<>> /\ Len(head) = 0 /\ Len(<<>>) = 0
  BY <1>1, SubSeqEmpty, EmptySeq
<1>5. PushStats(NoStats, <<>>) = NoStats
  <2>1. DOMAIN <<>> = {}
    OBVIOUS
  <2> DEFINE nuls == {i \in DOMAIN <<>> : <<>>[i] = 0}
             odd == {i \in nuls : (NoStats.len + i - 1) % 2 = 1}
  <2>2. nuls = {} /\ odd = {}
    BY <2>1
  <2>3. Cardinality(nuls) = 0 /\ Cardinality(odd) = 0
    BY <2>2, FS_EmptySet
  <2>4. PushStats(NoStats, <<>>) = [len |-> NoStats.len + Len(<<>>),
          nuls |-> NoStats.nuls + Cardinality(nuls), oddNuls |-> NoStats.oddNuls + Cardinality(odd)]
    BY DEF PushStats
  <2> HIDE DEF nuls, odd
  <2>5. QED
    BY <1>4, <2>3, <2>4 DEF NoStats
<1>6. HeadTarget > 0 /\ 0 \in 0 .. Len(input) /\ 0 \in 0 .. 0
  BY <1>2, HeadTargetAssumption
<1>7. QED
  BY <1>1, <1>3, <1>4, <1>5, <1>6 DEF SniffInv

\* The n bytes of a chunk behind c others.
IsChunk(bytes, s, c, n) ==
  /\ bytes \in Seq(Bytes) /\ Len(bytes) = n
  /\ \A t \in 0 .. n :
       /\ SubSeq(s, 1, c) \o SubSeq(bytes, 1, t) = SubSeq(s, 1, c + t)
       /\ Drop(bytes, t) = SubSeq(s, c + t + 1, c + n)

LEMMA ChunkFacts ==
  ASSUME NEW s \in Seq(Bytes), NEW c \in Nat, NEW n \in Nat, c + n <= Len(s)
  PROVE  IsChunk(SubSeq(s, c + 1, c + n), s, c, n)
<1>1. PICK h : h = c + n
  OBVIOUS
<1>2. h \in Nat /\ c <= h /\ h <= Len(s) /\ h - c = n
  BY <1>1
<1> DEFINE bytes == SubSeq(s, c + 1, h)
<1>3. bytes \in Seq(Bytes) /\ Len(bytes) = n
  BY <1>2, PartIs
<1> HIDE DEF bytes
<1>4. ASSUME NEW t \in 0 .. n
      PROVE  /\ SubSeq(s, 1, c) \o SubSeq(bytes, 1, t) = SubSeq(s, 1, c + t)
             /\ Drop(bytes, t) = SubSeq(s, c + t + 1, h)
  <2>1. PICK d : d = c + t
    OBVIOUS
  <2>2. d \in Nat /\ c <= d /\ d <= Len(s) /\ d <= h /\ t \in Nat /\ t <= n /\ c + n <= h
    BY <1>1, <1>2, <2>1
  <2>3. SubSeq(bytes, 0 + 1, t) = SubSeq(s, c + 0 + 1, c + t)
    BY <1>2, <2>1, <2>2, PartOfPart DEF bytes
  <2>4. 0 + 1 = 1 /\ c + 0 + 1 = c + 1
    OBVIOUS
  <2>5. SubSeq(s, 0 + 1, c) \o SubSeq(s, c + 1, d) = SubSeq(s, 0 + 1, d)
    <3>1. 0 \in Nat /\ 0 <= c
      OBVIOUS
    <3>2. QED
      BY <2>2, <3>1, PartsJoin
  <2>6. SubSeq(bytes, t + 1, n) = SubSeq(s, c + t + 1, c + n)
    BY <1>2, <2>2, PartOfPart DEF bytes
  <2>7. Drop(bytes, t) = SubSeq(bytes, t + 1, n)
    BY <1>3 DEF Drop
  <2>8. QED
    BY <1>1, <2>1, <2>3, <2>4, <2>5, <2>6, <2>7
<1>5. QED
  BY <1>1, <1>3, <1>4 DEF bytes, IsChunk

\* push.
LEMMA SniffPushInv ==
  ASSUME SniffInv, NEW n \in Nat, n > 0, SniffPush(n)
  PROVE  SniffInv'
<1>1. /\ Idle /\ ~finished /\ consumed + n <= Len(input) /\ consumed' = consumed + n
      /\ UNCHANGED <<input, normalized>>
  BY DEF SniffPush
<1>2. /\ input \in Seq(Bytes) /\ Len(input) \in Nat /\ head \in Seq(Bytes)
      /\ consumed \in Nat /\ consumed <= Len(input)
      /\ BomLen(head) \in Nat /\ BomLen(head) <= Len(head) /\ Len(head) <= consumed
      /\ Len(head) \in Nat
  BY HeadFacts, LenProperties
<1>3. todo = <<>>
  BY <1>1 DEF Idle
<1>4. PICK bytes : bytes = SubSeq(input, consumed + 1, consumed + n)
  OBVIOUS
<1>5. PICK take : take = Taken(n)
  OBVIOUS
<1>6. /\ stats' = PushStats(stats, bytes)
      /\ \/ Decided /\ todo' = <<bytes>> /\ UNCHANGED <<head, folder>>
         \/ /\ ~Decided
            /\ head' = head \o SubSeq(bytes, 1, take)
            /\ IF Len(head') < HeadTarget THEN UNCHANGED <<folder, todo>>
               ELSE /\ folder' = NewFolder(Encoding(stats', head'), BomLen(head'))
                    /\ todo' = IF take < n THEN <<head', Drop(bytes, take)>> ELSE <<head'>>
  BY <1>4, <1>5 DEF SniffPush
<1>7. consumed' \in 0 .. Len(input') /\ consumed' \in Nat /\ input' \in Inputs /\ consumed <= consumed'
  <2>1. input \in Inputs
    BY DEF SniffInv
  <2>2. consumed' \in 0 .. Len(input) /\ consumed' \in Nat /\ consumed <= consumed'
    BY <1>1, <1>2
  <2>3. QED
    BY <1>1, <2>1, <2>2
<1>8. stats' = PushStats(NoStats, SubSeq(input', 1, consumed'))
  <2>1. stats = PushStats(NoStats, SubSeq(input, 1, consumed))
    BY DEF SniffInv
  <2>2. consumed' <= Len(input) /\ bytes = SubSeq(input, consumed + 1, consumed')
    BY <1>1, <1>4
  <2>3. PushStats(PushStats(NoStats, SubSeq(input, 1, consumed)), SubSeq(input, consumed + 1, consumed'))
          = PushStats(NoStats, SubSeq(input, 1, consumed'))
    BY <1>2, <1>7, <2>2, StatsStep
  <2>4. QED
    BY <1>1, <1>6, <2>1, <2>2, <2>3
<1>9. /\ bytes \in Seq(Bytes) /\ Len(bytes) = n
      /\ \A t \in 0 .. n :
           /\ SubSeq(input, 1, consumed) \o SubSeq(bytes, 1, t) = SubSeq(input, 1, consumed + t)
           /\ Drop(bytes, t) = SubSeq(input, consumed + t + 1, consumed + n)
  <2>1. IsChunk(bytes, input, consumed, n)
    BY <1>1, <1>2, <1>4, ChunkFacts
  <2>2. QED
    BY <2>1 DEF IsChunk
<1>10. CASE Decided
  <2>1. todo' = <<bytes>> /\ UNCHANGED <<head, folder>>
    BY <1>6, <1>10
  <2>2. folder.encoding \in Encodings /\ \E g \in 0 .. consumed : IngestedUpTo(g)
    BY <1>10 DEF SniffInv
  <2>3. PICK g \in 0 .. consumed : IngestedUpTo(g)
    BY <2>2
  <2>4. g = consumed
    <3>1. \A x : <<x>> # <<>>
      OBVIOUS
    <3>2. \A x, y : <<x, y>> # <<>>
      OBVIOUS
    <3>3. QED
      BY <1>3, <2>3, <3>1, <3>2 DEF IngestedUpTo, Due
  <2>5. ~(g < BomLen(head))
    BY <1>3, <2>3 DEF IngestedUpTo
  <2>6. g = 0 \/ BomLen(head) <= g
    BY <2>3 DEF IngestedUpTo
  <2>7. IngestedUpTo(g)'
    <3>1. Due(g)'
      BY <1>1, <1>4, <2>1, <2>4 DEF Due
    <3>2. FoldedUpTo(folder', normalized', input', BomLen(head'), g)
      BY <1>1, <2>1, <2>3 DEF IngestedUpTo
    <3>3. BomLen(head') = BomLen(head)
      BY <2>1
    <3>4. QED
      BY <2>5, <2>6, <3>1, <3>2, <3>3 DEF IngestedUpTo
  <2>8. g \in 0 .. consumed'
    BY <1>2, <1>7
  <2>9. Len(head') \in 0 .. consumed' /\ head' = SubSeq(input', 1, Len(head'))
    <3>1. Len(head) \in 0 .. consumed'
      BY <1>2, <1>7
    <3>2. head = SubSeq(input, 1, Len(head))
      BY DEF SniffInv
    <3>3. QED
      BY <1>1, <2>1, <3>1, <3>2
  <2>10. QED
    BY <1>7, <1>8, <2>1, <2>2, <2>7, <2>8, <2>9 DEF SniffInv
<1>11. CASE ~Decided
  <2>1. /\ Len(head) = consumed /\ Len(head) < HeadTarget /\ normalized = <<>>
        /\ head = SubSeq(input, 1, consumed)
    BY <1>11, EncodingsDecided DEF SniffInv
  <2>2. take \in 0 .. n /\ (take < n => take = HeadTarget - consumed) /\ HeadTarget \in Nat
    <3>1. HeadTarget - consumed \in Nat /\ HeadTarget \in Nat
      BY <1>2, <2>1, HeadTargetAssumption
    <3>2. take = Least(HeadTarget - consumed, n)
      BY <1>5, <2>1 DEF Taken
    <3>3. QED
      BY <3>1, <3>2 DEF Least
  <2>3. PICK d : d = consumed + take
    OBVIOUS
  <2>4. d \in Nat /\ d <= consumed' /\ d <= Len(input) /\ (take = n => d = consumed')
    BY <1>1, <1>2, <2>2, <2>3
  <2>5. head' = SubSeq(input, 1, d)
    BY <1>6, <1>9, <1>11, <2>1, <2>2, <2>3
  <2>6. Len(head') = d /\ head' \in Seq(Bytes)
    BY <1>2, <2>4, <2>5, PrefixIs
  <2>7. Len(head') \in 0 .. consumed' /\ head' = SubSeq(input', 1, Len(head'))
    BY <1>1, <1>7, <2>4, <2>5, <2>6
  <2>8. CASE Len(head') < HeadTarget
    <3>1. UNCHANGED <<folder, todo>>
      BY <1>6, <1>11, <2>8
    <3>2. take = n
      BY <1>2, <2>2, <2>3, <2>6, <2>8
    <3>3. ~Decided' /\ Len(head') = consumed' /\ todo' = <<>> /\ normalized' = <<>>
      BY <1>1, <1>3, <1>11, <2>1, <2>4, <2>6, <3>1, <3>2 DEF Decided
    <3>4. QED
      BY <1>7, <1>8, <2>7, <2>8, <3>3, HeadTargetAssumption DEF SniffInv
  <2>9. CASE ~(Len(head') < HeadTarget)
    <3>1. /\ folder' = NewFolder(Encoding(stats', head'), BomLen(head'))
          /\ todo' = IF take < n THEN <<head', Drop(bytes, take)>> ELSE <<head'>>
      BY <1>6, <1>11, <2>9
    <3>2. PICK b : b = BomLen(head')
      OBVIOUS
    <3>3. PICK e : e = Encoding(stats', head')
      OBVIOUS
    <3>4. b \in Nat /\ b <= d /\ e \in Encodings
      BY <2>6, <3>2, <3>3, BomFacts
    <3>5. folder'.encoding = e
      BY <3>1, <3>3 DEF NewFolder
    <3>6. FoldedUpTo(folder', normalized', input', BomLen(head'), 0)
      BY <1>1, <1>2, <2>1, <3>1, <3>2, <3>3, <3>4, NothingFolded
    <3>7. Due(0)' /\ todo' # <<>> /\ Head(todo') = head'
      <4>1. SubSeq(input', 0 + 1, d) = head'
        BY <1>1, <2>5
      <4>2. CASE take < n
        <5>1. todo' = <<head', Drop(bytes, take)>>
          BY <3>1, <4>2
        <5>2. Drop(bytes, take) = SubSeq(input, consumed + take + 1, consumed + n)
          BY <1>9, <2>2
        <5>3. Drop(bytes, take) = SubSeq(input', d + 1, consumed')
          BY <1>1, <2>3, <5>2
        <5>4. d \in 0 .. consumed'
          BY <1>7, <2>4
        <5>5. todo' = <<SubSeq(input', 0 + 1, d), SubSeq(input', d + 1, consumed')>>
          BY <4>1, <5>1, <5>3
        <5>6. todo' # <<>> /\ Head(todo') = head'
          BY <5>1
        <5>7. QED
          BY <5>4, <5>5, <5>6 DEF Due
      <4>3. CASE ~(take < n)
        <5>1. todo' = <<head'>> /\ take = n
          BY <2>2, <3>1, <4>3
        <5>2. d = consumed'
          BY <2>4, <5>1
        <5>3. todo' = <<SubSeq(input', 0 + 1, consumed')>>
          BY <4>1, <5>1, <5>2
        <5>4. QED
          BY <5>1, <5>3 DEF Due
      <4>4. QED
        BY <4>2, <4>3
    <3>8. IngestedUpTo(0)'
      BY <2>6, <3>2, <3>4, <3>6, <3>7 DEF IngestedUpTo
    <3>9. 0 \in 0 .. consumed'
      BY <1>7
    <3>10. QED
      BY <1>7, <1>8, <2>7, <3>4, <3>5, <3>8, <3>9 DEF SniffInv
  <2>10. QED
    BY <2>8, <2>9
<1>12. QED
  BY <1>10, <1>11

\* ingest goes from g to h: a call is no longer due, and its bytes are folded.
LEMMA CallFacts ==
  ASSUME SniffInv, todo # <<>>, NEW g \in 0 .. consumed, IngestedUpTo(g)
  PROVE  \E h \in g .. consumed :
           /\ Head(todo) = SubSeq(input, g + 1, h)
           /\ BomLen(head) <= h
           /\ \/ h = consumed /\ Tail(todo) = <<>>
              \/ Tail(todo) = <<SubSeq(input, h + 1, consumed)>>
<1>1. /\ input \in Seq(Bytes) /\ Len(input) \in Nat /\ BomLen(head) \in Nat
      /\ consumed \in Nat /\ consumed <= Len(input)
  BY HeadFacts
<1>2. ASSUME NEW h \in g .. consumed, Head(todo) = SubSeq(input, g + 1, h) PROVE BomLen(head) <= h
  <2>1. Len(SubSeq(input, g + 1, h)) = h - g
    <3>1. g \in Nat /\ h \in Nat /\ g <= h /\ h <= Len(input)
      BY <1>1, <1>2
    <3>2. QED
      BY <1>1, <3>1, PartLength
  <2>2. g = 0 \/ BomLen(head) <= g
    BY DEF IngestedUpTo
  <2>3. g < BomLen(head) => BomLen(head) <= h - g
    BY <1>2, <2>1 DEF IngestedUpTo
  <2>4. QED
    BY <1>1, <2>2, <2>3
<1>3. CASE todo = <<SubSeq(input, g + 1, consumed)>>
  <2>1. Head(todo) = SubSeq(input, g + 1, consumed) /\ Tail(todo) = <<>>
    <3>1. \A x : Head(<<x>>) = x /\ Tail(<<x>>) = <<>>
      OBVIOUS
    <3>2. QED
      BY <1>3, <3>1
  <2>2. consumed \in g .. consumed
    BY <1>1
  <2>3. QED
    BY <1>2, <2>1, <2>2
<1>4. CASE \E m \in g .. consumed : todo = <<SubSeq(input, g + 1, m), SubSeq(input, m + 1, consumed)>>
  <2>1. PICK m \in g .. consumed : todo = <<SubSeq(input, g + 1, m), SubSeq(input, m + 1, consumed)>>
    BY <1>4
  <2>2. Head(todo) = SubSeq(input, g + 1, m) /\ Tail(todo) = <<SubSeq(input, m + 1, consumed)>>
    BY <2>1
  <2>3. QED
    BY <1>2, <2>2
<1>5. QED
  BY <1>3, <1>4 DEF IngestedUpTo, Due

\* The folder, as ingest uses it.
LEMMA IngestFacts ==
  ASSUME SniffInv, Ingest
  PROVE  /\ SniffInv'
         /\ Decided /\ Len(normalized') <= Len(input)
         /\ \E out : /\ FeedBegin(out) /\ normalized' = normalized \o out
                     /\ Len(normalized) \in Nat /\ Len(out) \in Nat
                     /\ Len(normalized') = Len(normalized) + Len(out)
                     /\ CutFrom(out, Fold(folder.encoding, SubSeq(input, BomLen(head) + 1, Len(input))))
<1>1. todo # <<>> /\ todo' = Tail(todo) /\ UNCHANGED <<input, consumed, stats, head, finished>>
  BY DEF Ingest
<1>2. folder.encoding \in Encodings /\ \E g \in 0 .. consumed : IngestedUpTo(g)
  BY <1>1 DEF SniffInv
<1>3. PICK g \in 0 .. consumed : IngestedUpTo(g)
  BY <1>2
<1>4. PICK h \in g .. consumed :
        /\ Head(todo) = SubSeq(input, g + 1, h)
        /\ BomLen(head) <= h
        /\ \/ h = consumed /\ Tail(todo) = <<>>
           \/ Tail(todo) = <<SubSeq(input, h + 1, consumed)>>
  BY <1>1, <1>3, CallFacts
<1>5. PICK b : b = BomLen(head)
  OBVIOUS
<1>6. PICK e : e = folder.encoding
  OBVIOUS
<1>7. PICK bytes : bytes = Head(todo)
  OBVIOUS
<1>8. PICK push : push = FolderPush(folder, bytes)
  OBVIOUS
<1>9. PICK whole : whole = Fold(e, SubSeq(input, b + 1, Len(input)))
  OBVIOUS
<1>10. /\ input \in Seq(Bytes) /\ Len(input) \in Nat /\ b \in Nat /\ consumed \in Nat
       /\ consumed <= Len(input) /\ g \in Nat /\ h \in Nat /\ g <= h /\ h <= Len(input) /\ b <= h
       /\ e \in Encodings /\ (g = 0 \/ b <= g)
  <2>1. input \in Seq(Bytes) /\ Len(input) \in Nat /\ BomLen(head) \in Nat
        /\ consumed \in Nat /\ consumed <= Len(input)
    BY HeadFacts
  <2>2. g \in Nat /\ h \in Nat /\ g <= h /\ h <= Len(input)
    BY <2>1
  <2>3. g = 0 \/ b <= g
    BY <1>3, <1>5 DEF IngestedUpTo
  <2>4. b <= h
    BY <1>4, <1>5
  <2>5. QED
    BY <1>2, <1>5, <1>6, <2>1, <2>2, <2>3, <2>4
<1>11. FoldedUpTo(folder, normalized, input, b, g) /\ bytes = SubSeq(input, g + 1, h)
  BY <1>3, <1>4, <1>5, <1>7 DEF IngestedUpTo
<1>12. /\ FoldedUpTo(push.folder, normalized \o push.out, input, b, h)
       /\ push.folder.encoding = e
       /\ CutFrom(push.out, whole)
       /\ Len(normalized) \in Nat /\ Len(push.out) \in Nat
       /\ Len(normalized \o push.out) <= Len(input)
       /\ Len(normalized \o push.out) = Len(normalized) + Len(push.out)
  <2>1. folder.encoding = e /\ g <= h /\ b <= h /\ h <= Len(input) /\ (g = 0 \/ b <= g)
    BY <1>6, <1>10
  <2>2. StepFolded(push, normalized, input, b, h, e, whole)
    BY <1>8, <1>9, <1>10, <1>11, <2>1, FoldStep
  <2>3. QED
    BY <2>2 DEF StepFolded
<1>13. folder' = push.folder /\ normalized' = normalized \o push.out /\ FeedBegin(push.out)
  BY <1>7, <1>8 DEF Ingest
<1>14. Due(h)'
  BY <1>1, <1>4 DEF Due
<1>15. IngestedUpTo(h)'
  <2>1. BomLen(head') = b
    BY <1>1, <1>5
  <2>2. FoldedUpTo(folder', normalized', input', b, h)
    BY <1>1, <1>12, <1>13
  <2>3. ~(h < b)
    BY <1>10
  <2>4. QED
    BY <1>10, <1>14, <2>1, <2>2, <2>3 DEF IngestedUpTo
<1>16. SniffInv'
  <2>1. h \in 0 .. consumed'
    BY <1>1, <1>10
  <2>2. folder'.encoding \in Encodings
    BY <1>10, <1>12, <1>13
  <2>3. /\ input' \in Inputs /\ consumed' \in 0 .. Len(input')
        /\ stats' = PushStats(NoStats, SubSeq(input', 1, consumed'))
        /\ Len(head') \in 0 .. consumed' /\ head' = SubSeq(input', 1, Len(head'))
    BY <1>1 DEF SniffInv
  <2>4. QED
    BY <1>15, <2>1, <2>2, <2>3 DEF SniffInv
<1>17. Decided
  BY <1>2, EncodingsDecided
<1>18. QED
  BY <1>5, <1>6, <1>9, <1>12, <1>13, <1>16, <1>17

\* finish.
LEMMA EndStreamInv ==
  ASSUME SniffInv, EndStream
  PROVE  SniffInv'
<1>1. Idle /\ UNCHANGED <<input, consumed, stats, head, normalized>>
  BY DEF EndStream
<1>2. /\ input' \in Inputs /\ consumed' \in 0 .. Len(input')
      /\ stats' = PushStats(NoStats, SubSeq(input', 1, consumed'))
      /\ Len(head') \in 0 .. consumed' /\ head' = SubSeq(input', 1, Len(head'))
  BY <1>1 DEF SniffInv
<1>3. CASE Decided
  <2>1. UNCHANGED <<folder, todo>>
    BY <1>3 DEF EndStream
  <2>2. folder'.encoding \in Encodings /\ \E g \in 0 .. consumed : IngestedUpTo(g)
    BY <1>3, <2>1 DEF SniffInv
  <2>3. PICK g \in 0 .. consumed : IngestedUpTo(g)
    BY <2>2
  <2>4. IngestedUpTo(g)'
    BY <1>1, <2>1, <2>3 DEF IngestedUpTo, Due
  <2>5. g \in 0 .. consumed'
    BY <1>1
  <2>6. QED
    BY <1>2, <2>2, <2>4, <2>5 DEF SniffInv
<1>4. CASE ~Decided
  <2>1. folder' = NewFolder(Encoding(stats, head), BomLen(head)) /\ todo' = <<head>>
    BY <1>4 DEF EndStream
  <2>2. Len(head) = consumed /\ normalized = <<>>
    BY <1>4, EncodingsDecided DEF SniffInv
  <2>3. /\ input \in Seq(Bytes) /\ head \in Seq(Bytes) /\ BomLen(head) \in Nat
        /\ BomLen(head) <= Len(head) /\ consumed \in Nat /\ head = SubSeq(input, 1, consumed)
    BY <2>2, HeadFacts DEF SniffInv
  <2>4. Encoding(stats, head) \in Encodings
    BY <2>3, BomFacts
  <2>5. folder'.encoding \in Encodings
    BY <2>1, <2>4 DEF NewFolder
  <2>6. FoldedUpTo(folder', <<>>, input, BomLen(head), 0)
    BY <2>1, <2>3, <2>4, NothingFolded
  <2>7. todo' = <<SubSeq(input, 0 + 1, consumed)>> /\ todo' # <<>> /\ Head(todo') = head
    BY <2>1, <2>3
  <2>8. IngestedUpTo(0)'
    <3>1. Due(0)'
      BY <1>1, <2>7 DEF Due
    <3>2. BomLen(head') = BomLen(head) /\ FoldedUpTo(folder', normalized', input', BomLen(head'), 0)
      BY <1>1, <2>2, <2>6
    <3>3. QED
      BY <1>1, <2>3, <2>7, <3>1, <3>2 DEF IngestedUpTo
  <2>9. 0 \in 0 .. consumed'
    BY <1>1, <2>3
  <2>10. QED
    BY <1>2, <2>5, <2>8, <2>9 DEF SniffInv
<1>5. QED
  BY <1>3, <1>4

LEMMA SniffUnchanged ==
  ASSUME SniffInv, UNCHANGED sniffVars
  PROVE  SniffInv'
<1>1. /\ input' = input /\ consumed' = consumed /\ stats' = stats /\ head' = head
      /\ folder' = folder /\ todo' = todo /\ normalized' = normalized
  BY DEF sniffVars
<1>2. QED
  BY <1>1 DEF SniffInv, IngestedUpTo, Due, Decided

LEMMA SniffStep == SniffInv /\ [SniffNext]_allVars => SniffInv'
<1> SUFFICES ASSUME SniffInv, [SniffNext]_allVars
             PROVE  SniffInv'
  OBVIOUS
<1>1. CASE \E n \in 1 .. Len(input) : SniffPush(n)
  <2>1. PICK n \in 1 .. Len(input) : SniffPush(n)
    BY <1>1
  <2>2. n \in Nat /\ n > 0
    BY <2>1, HeadFacts
  <2>3. QED
    BY <2>1, <2>2, SniffPushInv
<1>2. CASE Ingest
  BY <1>2, IngestFacts
<1>3. CASE EndStream
  BY <1>3, EndStreamInv
<1>4. CASE Loop /\ UNCHANGED sniffVars
  BY <1>4, SniffUnchanged
<1>5. CASE UNCHANGED allVars
  BY <1>5, SniffUnchanged DEF allVars
<1>6. QED
  BY <1>1, <1>2, <1>3, <1>4, <1>5 DEF SniffNext

\* The bytes pushed lie where the statistics, the head, the calls of ingest that
\* are due, and the folder say.
THEOREM SniffInvariant == SniffSpec => []SniffInv
<1>1. SniffInit => SniffInv
  BY SniffStarts
<1>2. SniffInv /\ [SniffNext]_allVars => SniffInv'
  BY SniffStep
<1>3. QED
  BY <1>1, <1>2, PTL DEF SniffSpec

LEMMA CutsNotSeen == ASSUME SniffInv PROVE CutsInvisible
<1>1. /\ input \in Seq(Bytes) /\ Len(input) \in Nat /\ BomLen(head) \in Nat
      /\ consumed \in Nat /\ consumed <= Len(input) /\ BomLen(head) <= consumed
  BY HeadFacts, LenProperties
<1>2. PICK p : p = SubSeq(input, 1, consumed)
  OBVIOUS
<1>3. Prefix(consumed) = p
  BY <1>1, <1>2 DEF Prefix, Least
<1>4. p \in Seq(Bytes) /\ Len(p) = consumed
  BY <1>1, <1>2, PrefixIs
<1>5. StatsOfStream
  BY <1>2, <1>3 DEF SniffInv, StatsOfStream
<1>6. ASSUME Decided, Idle
      PROVE  /\ normalized = Fold(folder.encoding, Drop(p, BomLen(head)))
             /\ Len(folder.carry) = (consumed - BomLen(head)) % Width(folder.encoding)
  <2>1. todo = <<>>
    BY <1>6 DEF Idle
  <2>2. folder.encoding \in Encodings /\ \E g \in 0 .. consumed : IngestedUpTo(g)
    BY <1>6 DEF SniffInv
  <2>3. PICK g \in 0 .. consumed : IngestedUpTo(g)
    BY <2>2
  <2>4. g = consumed
    <3>1. \A x : <<x>> # <<>>
      OBVIOUS
    <3>2. \A x, y : <<x, y>> # <<>>
      OBVIOUS
    <3>3. QED
      BY <2>1, <2>3, <3>1, <3>2 DEF IngestedUpTo, Due
  <2>5. PICK b : b = BomLen(head)
    OBVIOUS
  <2>6. PICK w : w = Width(folder.encoding)
    OBVIOUS
  <2>7. PICK x : x = consumed - b
    OBVIOUS
  <2>8. PICK k : k = (x \div w) * w
    OBVIOUS
  <2>9. b \in Nat /\ b <= consumed /\ x \in Nat /\ w \in {1, 2, 4}
    BY <1>1, <2>2, <2>5, <2>6, <2>7, Widths
  <2>10. /\ normalized = Fold(folder.encoding, SubSeq(input, b + 1, consumed))
         /\ folder.carry = SubSeq(input, b + k + 1, consumed)
    BY <2>3, <2>4, <2>5, <2>6, <2>7, <2>8, <2>9 DEF IngestedUpTo, FoldedUpTo
  <2>11. Drop(p, b) = SubSeq(input, b + 1, consumed)
    <3>1. Drop(p, b) = SubSeq(p, b + 1, consumed)
      BY <1>4 DEF Drop
    <3>2. SubSeq(SubSeq(input, 0 + 1, consumed), b + 1, consumed) = SubSeq(input, 0 + b + 1, 0 + consumed)
      <4>1. 0 \in Nat /\ 0 <= consumed /\ 0 + consumed <= consumed
        BY <1>1
      <4>2. QED
        BY <1>1, <2>9, <4>1, PartOfPart
    <3>3. 0 + 1 = 1 /\ 0 + b + 1 = b + 1 /\ 0 + consumed = consumed
      BY <1>1, <2>9
    <3>4. QED
      BY <1>2, <3>1, <3>2, <3>3
  <2>12. x \div w \in Nat /\ x % w \in Nat /\ x = k + (x % w)
    BY <2>8, <2>9, DivisionFacts
  <2>13. k \in Nat
    BY <2>8, <2>9, <2>12
  <2>14. Len(folder.carry) = consumed - (b + k)
    <3>1. b + k \in Nat /\ b + k <= consumed
      BY <1>1, <2>7, <2>9, <2>12, <2>13
    <3>2. QED
      BY <1>1, <2>10, <3>1, PartIs
  <2>15. Len(folder.carry) = x % w
    BY <1>1, <2>7, <2>9, <2>12, <2>13, <2>14
  <2>16. QED
    BY <2>5, <2>6, <2>7, <2>10, <2>11, <2>15
<1>7. FoldedAtOnce
  BY <1>3, <1>6 DEF FoldedAtOnce
<1>8. QED
  BY <1>5, <1>7 DEF CutsInvisible

\* Where the stream was cut is not visible in the statistics, in the normalized
\* stream, or in what is carried over.
THEOREM CutsInvisibleHolds == SniffSpec => []CutsInvisible
BY SniffInvariant, CutsNotSeen, PTL

LEMMA SamplerStarts == SniffInit => Sampler!Init
BY DEF SniffInit, Sampler!Init, AdmissionInit, Sampler!AdmissionInit,
       AtLeastOne, Sampler!AtLeastOne

LEMMA LoopOfSampler == ASSUME Loop PROVE Sampler!Loop
<1>1. CASE Return
  BY <1>1 DEF Return, Sampler!Return, Spent, Sampler!Spent, FeedReturn, Sampler!FeedReturn,
              Consume, Sampler!Consume, control, Sampler!control, Sampler!Loop
<1>2. CASE Advance
  BY <1>2 DEF Advance, Sampler!Advance, PhaseOver, Sampler!PhaseOver, Spent, Sampler!Spent,
              Finish, Sampler!Finish, NoWindowLeft, Sampler!NoWindowLeft, Least, Sampler!Least,
              Sampler!Loop
<1>3. CASE Emit
  BY <1>3 DEF Emit, Sampler!Emit, InPhase, Sampler!InPhase, Spent, Sampler!Spent,
              Least, Sampler!Least, Consume, Sampler!Consume, Sampler!Loop
<1>4. CASE SkipUnits
  BY <1>4 DEF SkipUnits, Sampler!SkipUnits, InPhase, Sampler!InPhase, Spent, Sampler!Spent,
              Least, Sampler!Least, Consume, Sampler!Consume, Sampler!Loop
<1>5. CASE Align
  BY <1>5 DEF Align, Sampler!Align, InPhase, Sampler!InPhase, Spent, Sampler!Spent, Newline,
              Sampler!Newline, Least, Sampler!Least, Consume, Sampler!Consume, Sampler!Loop
<1>6. QED
  BY <1>1, <1>2, <1>3, <1>4, <1>5 DEF Loop

\* What ingest feeds is a part of the stream normalized in one go.
LEMMA SamplerFed ==
  ASSUME SniffInv, Ingest
  PROVE  \E units \in Foldings : Sampler!Push(units)
<1>1. input \in Inputs /\ folder.encoding \in Encodings /\ Len(input) <= MaxInput
      /\ Len(input) \in Nat /\ BomLen(head) \in {0, 2, 3, 4} /\ todo # <<>>
  BY HeadFacts, InputFacts DEF SniffInv, Ingest
<1>2. PICK out : /\ FeedBegin(out) /\ normalized' = normalized \o out
                 /\ Len(normalized) \in Nat /\ Len(out) \in Nat
                 /\ Len(normalized') = Len(normalized) + Len(out)
                 /\ CutFrom(out, Fold(folder.encoding, SubSeq(input, BomLen(head) + 1, Len(input))))
  BY IngestFacts
<1>3. Len(normalized') <= Len(input)
  BY IngestFacts
<1>4. PICK all : all = Fold(folder.encoding, Drop(input, BomLen(head)))
  OBVIOUS
<1>5. PICK i \in 1 .. Len(all) + 1, j \in 0 .. Len(all) : out = SubSeq(all, i, j)
  BY <1>2, <1>4 DEF CutFrom, Drop
<1>6. out \in Foldings
  <2>1. out \in Parts(all)
    BY <1>5 DEF Parts
  <2>2. \E raw \in Inputs, skipped \in {0, 2, 3, 4}, encoding \in Encodings :
          out \in Parts(Fold(encoding, Drop(raw, skipped)))
    BY <1>1, <1>4, <2>1, Zenon
  <2>3. QED
    BY <2>2 DEF Foldings, Encodings
<1>7. Sampler!FeedBegin(out)
  BY <1>2 DEF FeedBegin, Sampler!FeedBegin, control, Sampler!control
<1>8. Len(normalized) + Len(out) <= MaxInput
  <2>1. Len(normalized) + Len(out) <= Len(input)
    BY <1>2, <1>3
  <2>2. Len(normalized) + Len(out) \in Nat
    BY <1>2
  <2>3. QED
    BY <1>1, <2>1, <2>2, InputsAssumption
<1>9. Sampler!Push(out)
  BY <1>2, <1>7, <1>8 DEF Sampler!Push
<1>10. QED
  BY <1>6, <1>9

LEMMA SamplerStep ==
  ASSUME SniffInv, [SniffNext]_allVars
  PROVE  [Sampler!Next]_(Sampler!vars)
<1>1. CASE \E n \in 1 .. Len(input) : SniffPush(n)
  BY <1>1 DEF SniffPush, Sampler!vars, Sampler!admissionVars, Sampler!control, admissionVars, control
<1>2. CASE Ingest
  BY <1>2, SamplerFed DEF Sampler!Next
<1>3. CASE EndStream
  BY <1>3 DEF EndStream, Sampler!vars, Sampler!admissionVars, Sampler!control, admissionVars, control
<1>4. CASE Loop /\ UNCHANGED sniffVars
  <2>1. Sampler!Loop
    BY <1>4, LoopOfSampler
  <2>2. normalized' = normalized
    BY <1>4 DEF sniffVars
  <2>3. QED
    BY <2>1, <2>2 DEF Sampler!Next
<1>5. CASE UNCHANGED allVars
  BY <1>5 DEF allVars, sniffVars, Sampler!vars, Sampler!admissionVars, Sampler!control,
              admissionVars, control
<1>6. QED
  BY <1>1, <1>2, <1>3, <1>4, <1>5 DEF SniffNext

\* The sniffer samples the normalized stream as the abstract specification
\* says: ingest is a push of a part of that stream, the loop of feed its own
\* loop, and neither the cuts nor the head are visible.
THEOREM SnifferImplementsSampling == SniffSpec => ImplementsSampling
<1>1. SniffInit => Sampler!Init
  BY SamplerStarts
<1>2. SniffInv /\ [SniffNext]_allVars => [Sampler!Next]_(Sampler!vars)
  BY SamplerStep
<1>3. QED
  BY <1>1, <1>2, SniffInvariant, PTL DEF SniffSpec, ImplementsSampling, Sampler!Spec
=============================================================================
