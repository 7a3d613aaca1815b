---------------------------- MODULE BatchProofs ----------------------------
(***************************************************************************)
(* A batch run over any directory and under any policy: the documents      *)
(* driven are the wanted records before the cursor, in order and each      *)
(* once; a stop is obeyed; a run that ends without a reason is complete.   *)
(*                                                                         *)
(* The cursor says what was driven only together with the phase: between   *)
(* files it stands at the first line, and a poll that goes on stands       *)
(* behind the last line of its file.  That is Located; it is what lets the *)
(* poll go to the next file without losing a line.                         *)
(***************************************************************************)
EXTENDS Batch, TLAPS

\* Where the cursor can be in each phase.
Located ==
  /\ phase \in {"walk", "files"} => line = 1
  /\ phase \in {"decode", "poll"} =>
       file <= Len(source) /\ Selected(CurrentFile) /\ CurrentFile.opens
  /\ phase = "poll" /\ ~Bails => line > Len(CurrentFile.lines)
  /\ phase \in {"report", "done"} /\ ~Bails => file > Len(source) /\ line = 1

\* Documents go on only as long as the policy lets them.
Obeyed == phase \in {"walk", "files", "decode"} => docCount = 0 \/ ~Bails

\* Nothing before the cursor would have ended the run.
Clean ==
  /\ \A f \in DOMAIN source : f < file /\ Selected(source[f]) => source[f].opens
  /\ \A p \in Place :
       Precedes(p, Cursor) /\ Selected(source[p[1]]) => LineAt(p).content # "fault"

\* The outcome is what the counters say.
Reported ==
  phase = "done" => outcome = [docs |-> ordinal, bailed |-> ShouldBail(docCount, evictions)]

IndInv == TypeOK /\ Located /\ Obeyed /\ Clean /\ Reported /\ DrivenInOrder

-----------------------------------------------------------------------------
(* The source.                                                             *)
LEMMA PlaceIsPair ==
  ASSUME NEW p
  PROVE  p \in Place <=>
           \E f \in DOMAIN source : \E l \in DOMAIN source[f].lines : p = <<f, l>>
BY DEF Place

LEMMA SourceType ==
  ASSUME TypeOK
  PROVE  /\ DOMAIN source = 1 .. Len(source) /\ Len(source) \in Nat
         /\ \A f \in DOMAIN source :
              /\ DOMAIN source[f].lines = 1 .. Len(source[f].lines)
              /\ Len(source[f].lines) \in Nat
              /\ source[f].opens \in BOOLEAN
<1>1. source \in Seq(File)
  BY InputAssumption DEF TypeOK
<1>2. \A f \in DOMAIN source : source[f] \in File
  BY <1>1
<1>3. \A f \in DOMAIN source : source[f].lines \in Seq(Line) /\ source[f].opens \in BOOLEAN
  BY <1>2 DEF File
<1>4. QED
  BY <1>1, <1>3

LEMMA CursorType ==
  ASSUME TypeOK
  PROVE  /\ file \in Nat /\ file >= 1 /\ file + 1 \in Nat \ {0}
         /\ line \in Nat /\ line >= 1 /\ line + 1 \in Nat \ {0}
<1>1. file \in Nat \ {0} /\ line \in Nat \ {0}
  BY DEF TypeOK
<1>2. QED
  BY <1>1

\* ShouldBail gives one of its reasons, or none.
LEMMA BailType ==
  ASSUME NEW docs, NEW evicted
  PROVE  ShouldBail(docs, evicted) \in {None, "doc count cap reached", "eviction rate"}
BY DEF ShouldBail

LEMMA InitInv == Init => IndInv
<1> SUFFICES ASSUME Init PROVE IndInv
  OBVIOUS
<1>1. TypeOK
  BY DEF Init, TypeOK
<1>2. \A p \in Place : ~Precedes(p, Cursor)
  <2> SUFFICES ASSUME NEW p \in Place PROVE ~Precedes(p, Cursor)
    OBVIOUS
  <2>1. PICK f, l : f \in DOMAIN source /\ l \in DOMAIN source[f].lines /\ p = <<f, l>>
    BY PlaceIsPair
  <2>2. f \in Nat /\ l \in Nat /\ f >= 1 /\ l >= 1
    BY <1>1, <2>1, SourceType
  <2>3. QED
    BY <2>1, <2>2 DEF Precedes, Cursor, Init
<1>3. Located /\ Obeyed /\ Reported
  BY DEF Init, Located, Obeyed, Reported
<1>4. Clean
  <2>1. \A f \in DOMAIN source : ~(f < file)
    BY <1>1, SourceType DEF Init
  <2>2. QED
    BY <1>2, <2>1 DEF Clean
<1>5. DrivenInOrder
  BY <1>2 DEF Init, DrivenInOrder
<1>6. QED
  BY <1>1, <1>3, <1>4, <1>5 DEF IndInv

-----------------------------------------------------------------------------
(* How the cursor moves.                                                   *)

\* One line on: the places before the cursor gain the line that is left.
LEMMA LineBehind ==
  ASSUME TypeOK, file <= Len(source), line <= Len(CurrentFile.lines),
         source' = source, file' = file, line' = line + 1, NEW p \in Place
  PROVE  Precedes(p, Cursor') <=> Precedes(p, Cursor) \/ p = <<file, line>>
<1>1. PICK f, l : f \in DOMAIN source /\ l \in DOMAIN source[f].lines /\ p = <<f, l>>
  BY PlaceIsPair
<1>2. f \in Nat /\ l \in Nat
  BY <1>1, SourceType
<1>3. file \in Nat /\ line \in Nat
  BY DEF TypeOK
<1>4. Precedes(p, Cursor') <=> f < file \/ (f = file /\ l < line + 1)
  BY <1>1 DEF Precedes, Cursor
<1>5. Precedes(p, Cursor) <=> f < file \/ (f = file /\ l < line)
  BY <1>1 DEF Precedes, Cursor
<1>6. p = <<file, line>> <=> f = file /\ l = line
  BY <1>1
<1>7. QED
  BY <1>2, <1>3, <1>4, <1>5, <1>6

\* On to the next file: nothing more is before the cursor than the rest of the
\* file that is left.
LEMMA FileBehind ==
  ASSUME TypeOK, source' = source, file' = file + 1, line' = 1, NEW p \in Place
  PROVE  /\ Precedes(p, Cursor') <=> Precedes(p, Cursor) \/ (p[1] = file /\ p[2] >= line)
         /\ p[1] \in DOMAIN source /\ p[2] \in DOMAIN source[p[1]].lines
<1>1. PICK f, l : f \in DOMAIN source /\ l \in DOMAIN source[f].lines /\ p = <<f, l>>
  BY PlaceIsPair
<1>2. f \in Nat /\ l \in Nat /\ l >= 1
  BY <1>1, SourceType
<1>3. file \in Nat /\ line \in Nat
  BY DEF TypeOK
<1>4. Precedes(p, Cursor') <=> f < file + 1 \/ (f = file + 1 /\ l < 1)
  BY <1>1 DEF Precedes, Cursor
<1>5. Precedes(p, Cursor) <=> f < file \/ (f = file /\ l < line)
  BY <1>1 DEF Precedes, Cursor
<1>6. QED
  BY <1>1, <1>2, <1>3, <1>4, <1>5

-----------------------------------------------------------------------------
(* The steps.                                                              *)

\* Steps that leave the cursor and the counters alone: what is left to show is
\* about the phase.
LEMMA StandingStep ==
  ASSUME IndInv, UNCHANGED <<config, file, line, ordinal, analyzer, driven>>
  PROVE  /\ Clean' /\ DrivenInOrder'
         /\ CurrentFile' = CurrentFile /\ (Bails' <=> Bails)
<1> USE DEF config, analyzer
<1>1. /\ Place' = Place /\ Cursor' = Cursor
      /\ \A p : (Precedes(p, Cursor))' <=> Precedes(p, Cursor)
  BY DEF Place, Cursor, Precedes
<1>2. /\ \A p : (Wanted(p))' <=> Wanted(p)
      /\ \A p : LineAt(p)' = LineAt(p)
      /\ \A f : (Selected(f))' <=> Selected(f)
  BY DEF Wanted, LineAt, Selected, Accepted
<1>3. Clean'
  BY <1>1, <1>2 DEF IndInv, Clean
<1>4. DrivenInOrder'
  BY <1>1, <1>2 DEF IndInv, DrivenInOrder, Precedes
<1>5. QED
  BY <1>3, <1>4 DEF CurrentFile, Bails, ShouldBail, CapReached, TooChaotic

\* What the run is given stays, and with it what is wanted of the source.
LEMMA ConfigStep ==
  ASSUME UNCHANGED config
  PROVE  /\ Place' = Place
         /\ \A p : (Wanted(p))' <=> Wanted(p)
         /\ \A p : LineAt(p)' = LineAt(p)
         /\ \A f : (Selected(f))' <=> Selected(f)
BY DEF config, Place, Wanted, LineAt, Selected, Accepted

LEMMA WalkStep == ASSUME IndInv, Walk PROVE IndInv'
<1>1. Clean' /\ DrivenInOrder' /\ (Bails' <=> Bails)
  BY StandingStep DEF Walk
<1>2. TypeOK'
  BY DEF IndInv, Walk, Fail, TypeOK, config, analyzer
<1>3. Located' /\ Obeyed' /\ Reported'
  BY <1>1 DEF IndInv, Walk, Fail, Located, Obeyed, Reported, config, analyzer
<1>4. QED
  BY <1>1, <1>2, <1>3 DEF IndInv

\* A file is left behind of which nothing more is wanted and which holds no
\* more faults: common to a file that is skipped and one that was read.
LEMMA NextFileStep ==
  ASSUME IndInv, UNCHANGED <<config, ordinal, analyzer, driven>>,
         file <= Len(source), file' = file + 1, line' = 1,
         \/ ~Selected(CurrentFile)
         \/ Selected(CurrentFile) /\ CurrentFile.opens /\ line > Len(CurrentFile.lines)
  PROVE  Clean' /\ DrivenInOrder'
<1> USE DEF IndInv
<1>1. \A p \in Place :
        Precedes(p, Cursor') <=> Precedes(p, Cursor) \/ (p[1] = file /\ p[2] >= line)
  BY FileBehind DEF config
<1>2. \A p \in Place : p[1] = file /\ p[2] >= line => ~Selected(source[p[1]])
  <2> SUFFICES ASSUME NEW p \in Place, p[1] = file, p[2] >= line
               PROVE  ~Selected(source[p[1]])
    OBVIOUS
  <2>1. p[1] \in DOMAIN source /\ p[2] \in DOMAIN source[p[1]].lines
    <3>1. PICK f, l : f \in DOMAIN source /\ l \in DOMAIN source[f].lines /\ p = <<f, l>>
      BY PlaceIsPair
    <3>2. QED
      BY <3>1
  <2>2. p[2] \in Nat /\ p[2] <= Len(CurrentFile.lines) /\ Len(CurrentFile.lines) \in Nat
    BY <2>1, SourceType DEF CurrentFile
  <2>3. line \in Nat
    BY DEF TypeOK
  <2>4. ~(line > Len(CurrentFile.lines))
    BY <2>2, <2>3
  <2>5. QED
    BY <2>4 DEF CurrentFile
<1>3. Cursor' = <<file', line'>>
  BY DEF Cursor
<1>4. \A p : (Precedes(p, Cursor))' <=> Precedes(p, Cursor')
  BY DEF Precedes
<1>5. DrivenInOrder'
  <2>1. \A p \in Place : Wanted(p) /\ Precedes(p, Cursor') <=> Wanted(p) /\ Precedes(p, Cursor)
    BY <1>1, <1>2 DEF Wanted
  <2>2. {p \in Place : Wanted(p) /\ Precedes(p, Cursor)}' =
          {p \in Place : Wanted(p) /\ Precedes(p, Cursor)}
    BY <2>1, <1>4, ConfigStep
  <2>3. QED
    BY <2>2 DEF DrivenInOrder, Precedes, analyzer
<1>6. Clean'
  <2>1. \A p \in Place :
          Precedes(p, Cursor') /\ Selected(source[p[1]]) => LineAt(p).content # "fault"
    BY <1>1, <1>2 DEF Clean
  <2>2. \A f \in DOMAIN source : f < file + 1 /\ Selected(source[f]) => source[f].opens
    <3> SUFFICES ASSUME NEW f \in DOMAIN source, f < file + 1, Selected(source[f])
                 PROVE  source[f].opens
      OBVIOUS
    <3>0. f \in Nat
      BY SourceType
    <3>1. f \in Nat /\ file \in Nat
      BY <3>0 DEF TypeOK
    <3>2. CASE f = file
      BY <3>2 DEF CurrentFile
    <3>3. CASE f < file
      BY <3>3 DEF Clean
    <3>4. QED
      BY <3>1, <3>2, <3>3
  <2>3. QED
    BY <2>1, <2>2, <1>4, ConfigStep DEF Clean, config
<1>7. QED
  BY <1>5, <1>6

LEMMA SkipFileStep == ASSUME IndInv, SkipFile PROVE IndInv'
<1>1. file \in Nat \ {0} /\ line = 1 /\ line' = 1
  BY DEF IndInv, TypeOK, Located, SkipFile
<1>2. Clean' /\ DrivenInOrder'
  BY <1>1, NextFileStep DEF SkipFile
<1>3. TypeOK'
  <2>1. file' \in Nat \ {0} /\ line' \in Nat \ {0}
    BY <1>1 DEF SkipFile
  <2>2. QED
    BY <2>1 DEF IndInv, SkipFile, TypeOK, config, analyzer
<1>4. Bails' <=> Bails
  BY DEF SkipFile, config, analyzer, Bails, ShouldBail, CapReached, TooChaotic
<1>5. Located' /\ Obeyed' /\ Reported'
  BY <1>1, <1>4 DEF IndInv, SkipFile, Located, Obeyed, Reported, config, analyzer
<1>6. QED
  BY <1>2, <1>3, <1>5 DEF IndInv

LEMMA OpenFileStep == ASSUME IndInv, OpenFile PROVE IndInv'
<1>1. Clean' /\ DrivenInOrder' /\ CurrentFile' = CurrentFile /\ (Bails' <=> Bails)
  BY StandingStep DEF OpenFile
<1>2. TypeOK'
  BY DEF IndInv, OpenFile, Fail, TypeOK, config, analyzer
<1>3. (Selected(CurrentFile))' <=> Selected(CurrentFile)
  BY <1>1 DEF OpenFile, Selected, config
<1>4. Located' /\ Obeyed' /\ Reported'
  BY <1>1, <1>3 DEF IndInv, OpenFile, Fail, Located, Obeyed, Reported, config, analyzer
<1>5. QED
  BY <1>1, <1>2, <1>4 DEF IndInv

LEMMA DecodeFailsStep == ASSUME IndInv, DecodeFails PROVE IndInv'
<1>1. Clean' /\ DrivenInOrder'
  BY StandingStep DEF DecodeFails
<1>2. TypeOK' /\ Located' /\ Obeyed' /\ Reported'
  BY DEF IndInv, DecodeFails, Fail, TypeOK, Located, Obeyed, Reported, config, analyzer
<1>3. QED
  BY <1>1, <1>2 DEF IndInv

\* The place the decoder stands at.
LEMMA StandingPlace ==
  ASSUME IndInv, phase = "decode", line <= Len(CurrentFile.lines)
  PROVE  /\ <<file, line>> \in Place
         /\ ~Precedes(<<file, line>>, Cursor)
         /\ Selected(source[file])
         /\ file <= Len(source)
<1>0. TypeOK /\ file <= Len(source) /\ Selected(CurrentFile)
  BY DEF IndInv, Located
<1>1. file \in Nat \ {0} /\ line \in Nat \ {0}
  BY <1>0 DEF TypeOK
<1>2. file \in DOMAIN source
  BY <1>0, <1>1, SourceType
<1>3. line \in DOMAIN source[file].lines
  BY <1>0, <1>1, <1>2, SourceType DEF CurrentFile
<1>4. QED
  BY <1>0, <1>1, <1>2, <1>3, PlaceIsPair DEF Precedes, Cursor, CurrentFile

\* A line without a fault is left behind: the files and the lines before the
\* cursor are as clean as they were.
LEMMA CleanLineStep ==
  ASSUME IndInv, UNCHANGED config, phase = "decode", line <= Len(CurrentFile.lines),
         CurrentLine.content # "fault", file' = file, line' = line + 1
  PROVE  Clean'
<1>1. TypeOK /\ file <= Len(source) /\ source' = source
  BY DEF IndInv, Located, config
<1>2. \A p \in Place : Precedes(p, Cursor') <=> Precedes(p, Cursor) \/ p = <<file, line>>
  BY <1>1, LineBehind
<1>3. \A p : (Precedes(p, Cursor))' <=> Precedes(p, Cursor')
  BY DEF Precedes
<1>4. LineAt(<<file, line>>).content # "fault"
  BY DEF LineAt, CurrentLine, CurrentFile
<1>5. \A p \in Place :
        Precedes(p, Cursor') /\ Selected(source[p[1]]) => LineAt(p).content # "fault"
  BY <1>2, <1>4 DEF IndInv, Clean
<1>6. QED
  BY <1>1, <1>3, <1>5, ConfigStep DEF IndInv, Clean

LEMMA SkipLineStep == ASSUME IndInv, SkipLine PROVE IndInv'
<1>1. /\ phase = "decode" /\ line <= Len(CurrentFile.lines) /\ phase' = "decode"
      /\ UNCHANGED <<config, ordinal, docCount, evictions, driven, outcome>>
      /\ file' = file /\ line' = line + 1
  BY DEF SkipLine, analyzer
<1>2. CurrentLine.content # "fault" /\ ~Wanted(<<file, line>>)
  BY DEF SkipLine, Wanted, LineAt, CurrentLine, CurrentFile
<1>3. TypeOK /\ file <= Len(source) /\ source' = source
  BY <1>1 DEF IndInv, Located, config
<1>4. Clean'
  BY <1>1, <1>2, CleanLineStep
<1>5. DrivenInOrder'
  <2>1. \A p \in Place : Precedes(p, Cursor') <=> Precedes(p, Cursor) \/ p = <<file, line>>
    BY <1>1, <1>3, LineBehind
  <2>2. \A p : (Precedes(p, Cursor))' <=> Precedes(p, Cursor')
    BY DEF Precedes
  <2>3. {p \in Place : Wanted(p) /\ Precedes(p, Cursor)}' =
          {p \in Place : Wanted(p) /\ Precedes(p, Cursor)}
    BY <1>1, <1>2, <2>1, <2>2, ConfigStep
  <2>4. QED
    BY <1>1, <2>3 DEF IndInv, DrivenInOrder, Precedes
<1>6. TypeOK'
  <2>1. line' \in Nat \ {0}
    BY <1>1, <1>3, CursorType
  <2>2. QED
    BY <1>1, <2>1 DEF IndInv, TypeOK, config
<1>7. (Bails' <=> Bails) /\ CurrentFile' = CurrentFile
      /\ ((Selected(CurrentFile))' <=> Selected(CurrentFile))
  BY <1>1 DEF Bails, ShouldBail, CapReached, TooChaotic, config, CurrentFile, Selected
<1>8. Located' /\ Obeyed' /\ Reported'
  BY <1>1, <1>3, <1>7 DEF IndInv, Located, Obeyed, Reported, config
<1>9. QED
  BY <1>4, <1>5, <1>6, <1>8 DEF IndInv

\* Mutual order of the documents driven, with one more behind them all.
LEMMA AppendInOrder ==
  ASSUME IndInv, NEW q \in (Nat \ {0}) \X (Nat \ {0}), driven' = Append(driven, q),
         \A i \in DOMAIN driven : Precedes(driven[i], q)
  PROVE  /\ driven' \in Seq((Nat \ {0}) \X (Nat \ {0}))
         /\ Len(driven') = Len(driven) + 1
         /\ {driven'[i] : i \in DOMAIN driven'} = {driven[i] : i \in DOMAIN driven} \cup {q}
         /\ \A i, j \in DOMAIN driven' : i < j => Precedes(driven'[i], driven'[j])
<1>1. driven \in Seq((Nat \ {0}) \X (Nat \ {0}))
  BY DEF IndInv, TypeOK
<1>2. /\ driven' \in Seq((Nat \ {0}) \X (Nat \ {0}))
      /\ Len(driven') = Len(driven) + 1 /\ Len(driven) \in Nat
      /\ DOMAIN driven = 1 .. Len(driven) /\ DOMAIN driven' = 1 .. (Len(driven) + 1)
      /\ \A i \in DOMAIN driven : driven'[i] = driven[i]
      /\ driven'[Len(driven) + 1] = q
  BY <1>1
<1>3. {driven'[i] : i \in DOMAIN driven'} = {driven[i] : i \in DOMAIN driven} \cup {q}
  BY <1>2
<1>4. ASSUME NEW i \in DOMAIN driven', NEW j \in DOMAIN driven', i < j
      PROVE  Precedes(driven'[i], driven'[j])
  <2>1. i \in DOMAIN driven
    BY <1>2, <1>4
  <2>2. CASE j \in DOMAIN driven
    BY <1>2, <1>4, <2>1, <2>2 DEF IndInv, DrivenInOrder
  <2>3. CASE j = Len(driven) + 1
    BY <1>2, <2>1, <2>3
  <2>4. QED
    BY <1>2, <2>2, <2>3
<1>5. QED
  BY <1>2, <1>3, <1>4

LEMMA DriveRecordStep ==
  ASSUME IndInv, NEW burst \in 0 .. MaxBurst, DriveRecord(burst)
  PROVE  IndInv'
<1>1. /\ phase = "decode" /\ line <= Len(CurrentFile.lines)
      /\ UNCHANGED <<config, outcome>> /\ file' = file /\ line' = line + 1
      /\ docCount' = docCount + 1 /\ ordinal' = ordinal + 1
      /\ evictions' = evictions + burst
      /\ driven' = Append(driven, <<file, line>>)
      /\ phase' \in {"poll", "decode"}
  BY DEF DriveRecord
<1>2. Bails' <=> ShouldBail(docCount', evictions') # None
  BY <1>1 DEF Bails, ShouldBail, CapReached, TooChaotic, config
<1>3. phase' = IF Bails' THEN "poll" ELSE "decode"
  BY <1>2 DEF DriveRecord
<1>4. /\ TypeOK /\ file <= Len(source) /\ source' = source
      /\ <<file, line>> \in Place /\ ~Precedes(<<file, line>>, Cursor)
      /\ Selected(source[file])
  BY <1>1, StandingPlace DEF IndInv, config
<1>5. CurrentLine.content # "fault" /\ Wanted(<<file, line>>)
  BY <1>4 DEF DriveRecord, Wanted, LineAt, CurrentLine, CurrentFile
<1>6. Clean'
  BY <1>1, <1>5, CleanLineStep
<1>7. file \in Nat \ {0} /\ line \in Nat \ {0} /\ ordinal \in Nat /\ docCount \in Nat
      /\ evictions \in Nat /\ burst \in Nat
  <2>1. burst \in Nat
    BY BurstAssumption
  <2>2. QED
    BY <1>4, <2>1 DEF TypeOK
<1>8. /\ driven' \in Seq((Nat \ {0}) \X (Nat \ {0}))
      /\ Len(driven') = Len(driven) + 1
      /\ {driven'[i] : i \in DOMAIN driven'} =
           {driven[i] : i \in DOMAIN driven} \cup {<<file, line>>}
      /\ \A i, j \in DOMAIN driven' : i < j => Precedes(driven'[i], driven'[j])
  <2>1. \A i \in DOMAIN driven : Precedes(driven[i], <<file, line>>)
    BY DEF IndInv, DrivenInOrder, Cursor
  <2>2. QED
    BY <1>1, <1>7, <2>1, AppendInOrder
<1>9. DrivenInOrder'
  <2>1. \A p \in Place : Precedes(p, Cursor') <=> Precedes(p, Cursor) \/ p = <<file, line>>
    BY <1>1, <1>4, LineBehind
  <2>2. \A p : (Precedes(p, Cursor))' <=> Precedes(p, Cursor')
    BY DEF Precedes
  <2>3. {p \in Place : Wanted(p) /\ Precedes(p, Cursor)}' =
          {p \in Place : Wanted(p) /\ Precedes(p, Cursor)} \cup {<<file, line>>}
    BY <1>1, <1>4, <1>5, <2>1, <2>2, ConfigStep
  <2>4. {driven'[i] : i \in DOMAIN driven'} =
          {p \in Place : Wanted(p) /\ Precedes(p, Cursor)}'
    BY <1>8, <2>3 DEF IndInv, DrivenInOrder
  <2>5. ordinal' = docCount' /\ docCount' = Len(driven')
    BY <1>1, <1>8 DEF IndInv, DrivenInOrder
  <2>6. QED
    BY <1>8, <2>4, <2>5 DEF DrivenInOrder, Precedes
<1>10. TypeOK'
  <2>1. line' \in Nat \ {0} /\ ordinal' \in Nat /\ docCount' \in Nat /\ evictions' \in Nat
    BY <1>1, <1>7
  <2>2. QED
    BY <1>1, <1>4, <1>8, <2>1 DEF TypeOK, config
<1>11. CurrentFile' = CurrentFile /\ ((Selected(CurrentFile))' <=> Selected(CurrentFile))
  BY <1>1 DEF config, CurrentFile, Selected
<1>12. Located' /\ Obeyed' /\ Reported'
  BY <1>1, <1>3, <1>4, <1>11 DEF IndInv, Located, Obeyed, Reported
<1>13. QED
  BY <1>6, <1>9, <1>10, <1>12 DEF IndInv

LEMMA EndOfFileStep == ASSUME IndInv, EndOfFile PROVE IndInv'
<1>1. Clean' /\ DrivenInOrder' /\ CurrentFile' = CurrentFile /\ (Bails' <=> Bails)
  BY StandingStep DEF EndOfFile
<1>2. TypeOK'
  BY DEF IndInv, EndOfFile, TypeOK, config, analyzer
<1>3. (Selected(CurrentFile))' <=> Selected(CurrentFile)
  BY <1>1 DEF EndOfFile, Selected, config
<1>4. Located' /\ Obeyed' /\ Reported'
  BY <1>1, <1>3 DEF IndInv, EndOfFile, Located, Obeyed, Reported, config, analyzer
<1>5. QED
  BY <1>1, <1>2, <1>4 DEF IndInv

LEMMA PollStep == ASSUME IndInv, Poll PROVE IndInv'
<1>1. Bails' <=> Bails
  BY DEF Poll, config, analyzer, Bails, ShouldBail, CapReached, TooChaotic
<1>2. CASE Bails
  <2>1. phase' = "report" /\ UNCHANGED <<config, file, line, ordinal, analyzer, outcome, driven>>
    BY <1>2 DEF Poll
  <2>2. Clean' /\ DrivenInOrder'
    BY <2>1, StandingStep
  <2>3. TypeOK' /\ Located' /\ Obeyed' /\ Reported'
    BY <1>1, <1>2, <2>1 DEF IndInv, TypeOK, Located, Obeyed, Reported, config, analyzer
  <2>4. QED
    BY <2>2, <2>3 DEF IndInv
<1>3. CASE ~Bails
  <2>1. /\ phase = "poll" /\ phase' = "files" /\ file' = file + 1 /\ line' = 1
        /\ UNCHANGED <<config, ordinal, analyzer, outcome, driven>>
    BY <1>3 DEF Poll
  <2>2. /\ file <= Len(source) /\ Selected(CurrentFile) /\ CurrentFile.opens
        /\ line > Len(CurrentFile.lines)
    BY <1>3, <2>1 DEF IndInv, Located
  <2>3. Clean' /\ DrivenInOrder'
    BY <2>1, <2>2, NextFileStep
  <2>4. TypeOK'
    <3>1. file' \in Nat \ {0} /\ line' \in Nat \ {0}
      BY <2>1, CursorType DEF IndInv
    <3>2. QED
      BY <2>1, <3>1 DEF IndInv, TypeOK, config, analyzer
  <2>5. Located' /\ Obeyed' /\ Reported'
    BY <1>1, <1>3, <2>1 DEF Located, Obeyed, Reported
  <2>6. QED
    BY <2>3, <2>4, <2>5 DEF IndInv
<1>4. QED
  BY <1>2, <1>3

LEMMA EndOfFilesStep == ASSUME IndInv, EndOfFiles PROVE IndInv'
<1>1. Clean' /\ DrivenInOrder' /\ (Bails' <=> Bails)
  BY StandingStep DEF EndOfFiles
<1>2. TypeOK'
  BY DEF IndInv, EndOfFiles, TypeOK, config, analyzer
<1>3. Located' /\ Obeyed' /\ Reported'
  BY <1>1 DEF IndInv, EndOfFiles, Located, Obeyed, Reported, config, analyzer
<1>4. QED
  BY <1>1, <1>2, <1>3 DEF IndInv

LEMMA ReportStep == ASSUME IndInv, Report PROVE IndInv'
<1>1. Clean' /\ DrivenInOrder' /\ (Bails' <=> Bails)
  BY StandingStep DEF Report
<1>2. /\ phase = "report" /\ phase' = "done"
      /\ outcome' = [docs |-> ordinal, bailed |-> ShouldBail(docCount, evictions)]
      /\ UNCHANGED <<source, policy, hasPredicate, hasExtractor, file, line, ordinal,
                     docCount, evictions, driven>>
  BY DEF Report, config, analyzer
<1>3. TypeOK'
  BY <1>2, BailType DEF IndInv, TypeOK
<1>4. ShouldBail(docCount, evictions)' = ShouldBail(docCount, evictions)
  BY <1>2 DEF ShouldBail, CapReached, TooChaotic
<1>5. Located' /\ Obeyed' /\ Reported'
  BY <1>1, <1>2, <1>4 DEF IndInv, Located, Obeyed, Reported
<1>6. QED
  BY <1>1, <1>3, <1>5 DEF IndInv

LEMMA StutterStep == ASSUME IndInv, UNCHANGED vars PROVE IndInv'
<1>1. Clean' /\ DrivenInOrder' /\ CurrentFile' = CurrentFile /\ (Bails' <=> Bails)
  BY StandingStep DEF vars
<1>2. TypeOK'
  BY DEF IndInv, vars, TypeOK, config, analyzer
<1>3. ((Selected(CurrentFile))' <=> Selected(CurrentFile))
      /\ ShouldBail(docCount, evictions)' = ShouldBail(docCount, evictions)
  BY <1>1 DEF vars, Selected, ShouldBail, CapReached, TooChaotic, config, analyzer
<1>4. Located' /\ Obeyed' /\ Reported'
  BY <1>1, <1>3 DEF IndInv, vars, Located, Obeyed, Reported, config, analyzer
<1>5. QED
  BY <1>1, <1>2, <1>4 DEF IndInv

LEMMA NextInv == IndInv /\ [Next]_vars => IndInv'
<1> SUFFICES ASSUME IndInv, [Next]_vars PROVE IndInv'
  OBVIOUS
<1>1. CASE Walk        BY <1>1, WalkStep
<1>2. CASE SkipFile    BY <1>2, SkipFileStep
<1>3. CASE OpenFile    BY <1>3, OpenFileStep
<1>4. CASE SkipLine    BY <1>4, SkipLineStep
<1>5. CASE DecodeFails BY <1>5, DecodeFailsStep
<1>6. CASE \E burst \in 0 .. MaxBurst : DriveRecord(burst)
  BY <1>6, DriveRecordStep
<1>7. CASE EndOfFile   BY <1>7, EndOfFileStep
<1>8. CASE Poll        BY <1>8, PollStep
<1>9. CASE EndOfFiles  BY <1>9, EndOfFilesStep
<1>10. CASE Report     BY <1>10, ReportStep
<1>11. CASE UNCHANGED vars BY <1>11, StutterStep
<1>12. QED
  BY <1>1, <1>2, <1>3, <1>4, <1>5, <1>6, <1>7, <1>8, <1>9, <1>10, <1>11 DEF Next

\* The invariant of a batch run.
THEOREM Invariant == Spec => []IndInv
BY InitInv, NextInv, PTL DEF Spec

-----------------------------------------------------------------------------
\* The variables of analyze, drive and decode keep their types over any source.
THEOREM TypeCorrect == Spec => []TypeOK
<1>1. IndInv => TypeOK
  BY DEF IndInv
<1>2. QED
  BY <1>1, Invariant, PTL

\* Over any directory the documents driven are the wanted records before the
\* cursor, in order and each once, and all three counts of them agree.
THEOREM DrivenInOrderHolds == Spec => []DrivenInOrder
<1>1. IndInv => DrivenInOrder
  BY DEF IndInv
<1>2. QED
  BY <1>1, Invariant, PTL

\* A run that reports no reason for stopping has driven every wanted record of
\* every selected file and met no fault.
THEOREM CompleteUnlessBailedHolds == Spec => []CompleteUnlessBailed
<1>1. IndInv => CompleteUnlessBailed
  <2> SUFFICES ASSUME IndInv, phase = "done", outcome.bailed = None
               PROVE  /\ \A p \in Place : Wanted(p) => \E i \in DOMAIN driven : driven[i] = p
                      /\ \A f \in DOMAIN source : Selected(source[f]) => source[f].opens
                      /\ \A p \in Place :
                           Selected(source[p[1]]) => LineAt(p).content # "fault"
    BY DEF CompleteUnlessBailed, Succeeded
  <2>1. ~Bails
    BY DEF IndInv, Reported, Bails
  <2>2. TypeOK /\ file > Len(source)
    BY <2>1 DEF IndInv, Located
  <2>3. \A f \in DOMAIN source : f < file
    BY <2>2, SourceType, CursorType
  <2>4. \A p \in Place : Precedes(p, Cursor)
    <3> SUFFICES ASSUME NEW p \in Place PROVE Precedes(p, Cursor)
      OBVIOUS
    <3>1. PICK f, l : f \in DOMAIN source /\ l \in DOMAIN source[f].lines /\ p = <<f, l>>
      BY PlaceIsPair
    <3>2. QED
      BY <2>3, <3>1 DEF Precedes, Cursor
  <2>5. \A p \in Place : Wanted(p) => \E i \in DOMAIN driven : driven[i] = p
    BY <2>4 DEF IndInv, DrivenInOrder
  <2>6. QED
    BY <2>3, <2>4, <2>5 DEF IndInv, Clean
<1>2. QED
  BY <1>1, Invariant, PTL

\* Under any policy the first document that gives a reason to stop is the last
\* one driven, from this file and from any other.
THEOREM NothingAfterBailHolds == Spec => NothingAfterBail
<1>1. IndInv /\ [Next]_vars => [docCount' # docCount => docCount = 0 \/ ~Bails]_vars
  <2> SUFFICES ASSUME IndInv, [Next]_vars, docCount' # docCount
               PROVE  docCount = 0 \/ ~Bails
    OBVIOUS
  <2>1. PICK burst \in 0 .. MaxBurst : DriveRecord(burst)
    BY DEF Next, vars, analyzer, Walk, SkipFile, OpenFile, SkipLine, DecodeFails,
           EndOfFile, Poll, EndOfFiles, Report
  <2>2. QED
    BY <2>1 DEF DriveRecord, IndInv, Obeyed
<1>2. QED
  BY <1>1, Invariant, PTL DEF Spec, NothingAfterBail
=============================================================================
