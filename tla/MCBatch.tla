------------------------------ MODULE MCBatch ------------------------------
(* Directories of up to two files with up to three lines.  The records are    *)
(* values with a time in an envelope: .t is the time field, .b the part that  *)
(* is analyzed, and the window is the second 1 alone.                         *)
EXTENDS Batch

T == INSTANCE TimeField WITH
  Kilo <- 1, NanosWidth <- 5, UuidGroups <- <<1>>, UuidTime <- 0, UlidLength <- 1, UlidTime <- 0,
  MillisBits <- 1, Day <- 0, Dateparser <- [s \in {} |-> 0],
  NaiveFormats <- [s \in {} |-> 0], HostOffset <- 0, MaxI64 <- 15

TimeField == <<T!Field(<<116>>)>>
At == <<T!Field(<<98>>)>>
Window == [start |-> 1, end |-> 2]

\* What the callback of drive sees of a record.
LineOf(record) ==
  LET time == T!TimeOf(record, TimeField, [reads |-> "EpochSeconds"])
  IN Record(IF time = None THEN "none" ELSE IF T!InTime(Window, time) THEN "inside" ELSE "outside",
            T!Navigate(record, At) # None)

Names == [t |-> <<116>>, b |-> <<98>>]
Envelope(seconds) == T!Object([n \in {Names.t, Names.b} |->
  IF n = Names.t THEN T!Integer(seconds) ELSE T!Object([k \in {} |-> 0])])
TimeOnly(seconds) == T!Object([n \in {Names.t} |-> T!Integer(seconds)])
BodyOnly == T!Object([n \in {Names.b} |-> T!Other])

Inside == LineOf(Envelope(1))

Lines == {
  <<Inside, Blank, Inside>>,
  <<LineOf(Envelope(2)), Inside, LineOf(BodyOnly)>>,
  <<LineOf(TimeOnly(1)), LineOf(T!Array(<<>>)), Inside>>,
  <<Inside, Fault, Inside>>,
  <<>>}

Plain(lines) == [passes |-> TRUE, mtimeInside |-> TRUE, opens |-> TRUE, lines |-> lines]

Files == {Plain(ls) : ls \in Lines} \cup
  {[Plain(<<Inside>>) EXCEPT !.passes = FALSE],
   [Plain(<<Inside>>) EXCEPT !.mtimeInside = FALSE],
   [Plain(<<Inside>>) EXCEPT !.opens = FALSE]}

Sources == UNION {[1 .. n -> Files] : n \in 0 .. 2}

Half == [num |-> 1, den |-> 2]
AllPolicies == [maxDocs : {None, 0, 2, 3}, minDocs : {0, 2}, maxRate : {None, Half}]
=============================================================================
