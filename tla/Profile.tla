------------------------------ MODULE Profile ------------------------------
(***************************************************************************)
(* The profile of a sample (shapez-sniff/src/ngram.rs): segments cuts the  *)
(* sample out of a file and NgramProfile::build pushes the segments byte   *)
(* by byte through a ProfileBuilder, with a boundary between each two.     *)
(* The builder sees one byte at a time and remembers a little: the last    *)
(* bytes, the line, quotes that may or may not close, strings, depth.      *)
(*                                                                         *)
(* Bytes are told apart by what the builder tells apart.  The square of    *)
(* the line length, and the figures that are computed from the counters at *)
(* the end, are left out.                                                  *)
(***************************************************************************)
EXTENDS SpaceSaving, SequencesExt, Integers

CONSTANTS
  Inputs,       \* the files
  Budgets,      \* [prefix, window, windows, maxBytes]
  Gram,         \* the lengths of grams that are counted: {2} or {2, 3}
  GramCap,      \* capacity of their tables: 256
  CadenceCap,   \* counts of delimiters that are told apart: 128
  IndentCap,    \* widths of indentation that are told apart: 64
  LineBufCap    \* bytes of a line that are kept: 4096

ASSUME CapsAssumption ==
  /\ GramCap \in Nat \ {0} /\ CadenceCap \in Nat /\ IndentCap \in Nat /\ LineBufCap \in Nat
  /\ Gram \subseteq {2, 3}

VARIABLES
  input, budget,
  at,        \* the segment being pushed, and how much of it was
  builder,   \* the counters and the scanner
  grams      \* the tables of grams

vars == <<input, budget, at, builder, grams>>

-----------------------------------------------------------------------------
(* Bytes.                                                                  *)
White == {"newline", "return", "space", "tab"}
Delimiter == {"comma", "tab"}
Opener == {"openObject", "openArray"}
Closer == {"closeObject", "closeArray"}

AllWhite(bytes) == \A i \in DOMAIN bytes : bytes[i] \in White

Trim(bytes) ==
  LET solid == {i \in DOMAIN bytes : bytes[i] \notin White}
  IN IF solid = {} THEN <<>> ELSE SubSeq(bytes, Min(solid), Max(solid))

\* A string whose last quote is not escaped, or a number.
IsScalar(bytes) ==
  \/ bytes # <<>> /\ \A i \in DOMAIN bytes : bytes[i] = "digit"
  \/ /\ Len(bytes) >= 2 /\ bytes[1] = "quote" /\ Last(bytes) = "quote"
     /\ LET others == {i \in 1 .. Len(bytes) - 1 : bytes[i] # "backslash"}
        IN (Len(bytes) - 1 - Max(others)) % 2 = 0

-----------------------------------------------------------------------------
(* The sample.                                                             *)
\* The segments as pairs of offsets: the bytes after the first one up to and
\* with the second one.
Window(bytes, b, stride, i) ==
  LET nominal == b.prefix + i * stride
      reach == Min({nominal + stride, Len(bytes)})
      newlines == {n \in nominal + 1 .. reach : bytes[n] = "newline"}
      aligned == IF newlines = {} THEN nominal ELSE Min(newlines)
  IN <<aligned, Min({aligned + b.window, Len(bytes)})>>

Segments(bytes, b) ==
  LET rest == Len(bytes) - b.prefix
      stride == rest \div b.windows
  IN IF Len(bytes) <= b.maxBytes \/ rest <= 0 THEN <<(<<0, Len(bytes)>>)>>
     ELSE IF b.windows = 0 \/ b.window = 0 THEN <<(<<0, b.prefix>>)>>
     ELSE IF stride = 0 THEN <<(<<0, b.prefix>>)>>
     ELSE <<(<<0, b.prefix>>)>> \o
          SelectSeq([i \in 1 .. b.windows |-> Window(bytes, b, stride, i - 1)],
                    LAMBDA window : window[1] < window[2])

SegmentBytes(k) ==
  LET segment == Segments(input, budget)[k]
  IN SubSeq(input, segment[1] + 1, segment[2])

-----------------------------------------------------------------------------
(* Lines.                                                                  *)
None == "none"
Nothing == [i \in {} |-> 0]
Bump(counts, i) ==
  [j \in DOMAIN counts \cup {i} |->
     (IF j \in DOMAIN counts THEN counts[j] ELSE 0) + (IF j = i THEN 1 ELSE 0)]

\* A histogram with so many entries takes no new ones.
BumpWithin(counts, i, cap) ==
  IF i \in DOMAIN counts \/ Cardinality(DOMAIN counts) < cap THEN Bump(counts, i) ELSE counts

FreshLine ==
  [len |-> 0, indent |-> 0, inIndent |-> TRUE, lead |-> None, last |-> None,
   lastBefore |-> None, solid |-> FALSE, delims |-> [d \in Delimiter |-> 0],
   inQuote |-> FALSE, quotePending |-> FALSE, buf |-> <<>>, overflow |-> FALSE]

\* What a byte does to a line apart from quotes and delimiters.
Measured(line, b) ==
  LET indents == line.inIndent /\ b \in {"space", "tab"}
      overflows == line.overflow \/ Len(line.buf) >= LineBufCap
  IN [line EXCEPT
        !.len = @ + 1, !.lastBefore = line.last, !.last = b,
        !.solid = @ \/ b \notin White,
        !.indent = IF indents THEN @ + 1 ELSE @,
        !.inIndent = indents,
        !.lead = IF line.inIndent /\ ~indents THEN b ELSE @,
        !.overflow = overflows,
        !.buf = IF overflows THEN <<>> ELSE Append(@, b)]

\* A quote inside quotes closes them unless the next byte is one as well.
Quoted(line, b) ==
  IF line.quotePending /\ b = "quote" THEN [line EXCEPT !.quotePending = FALSE]
  ELSE LET inQuote == line.inQuote /\ ~line.quotePending
           open == [line EXCEPT !.inQuote = inQuote, !.quotePending = FALSE]
       IN IF b = "quote" /\ inQuote THEN [open EXCEPT !.quotePending = TRUE]
          ELSE IF b = "quote" THEN [open EXCEPT !.inQuote = TRUE]
          ELSE IF ~inQuote /\ b \in Delimiter THEN [open EXCEPT !.delims[b] = @ + 1]
          ELSE open

LineByte(p, b) == [p EXCEPT !.line = Quoted(Measured(@, b), b)]

\* The line in a profile, and a fresh one after it.
Counted(p, next) ==
  LET line == p.line
      returns == line.last = "return"
      last == IF returns THEN line.lastBefore ELSE line.last
  IN IF ~line.solid THEN [p EXCEPT !.line = next, !.blankLines = @ + 1]
     ELSE [p EXCEPT
             !.line = next,
             !.lines = @ + 1,
             !.lengthSum = @ + line.len - (IF returns THEN 1 ELSE 0),
             !.indents = BumpWithin(@, line.indent, IndentCap),
             !.lead = Bump(@, IF line.lead = None THEN "space" ELSE line.lead),
             !.last = IF last = None THEN @ ELSE Bump(@, last),
             !.cadence = [d \in Delimiter |-> BumpWithin(@[d], line.delims[d], CadenceCap)],
             !.scalarLines = IF ~line.overflow /\ IsScalar(Trim(line.buf)) THEN @ + 1 ELSE @]

\* Mutant: quotes stay open over the end of a line.
EndLineInQuote(p) == Counted(p, [FreshLine EXCEPT !.inQuote = p.line.inQuote])

EndLine(p) == Counted(p, FreshLine)

-----------------------------------------------------------------------------
(* Brackets and strings.                                                   *)
\* The end of a line outside strings, and of a segment.
EndScannedLine(p) ==
  [p EXCEPT
     !.scannedLines   = IF p.content THEN @ + 1 ELSE @,
     !.depthZeroLines = IF p.content /\ p.depth = 0 THEN @ + 1 ELSE @,
     !.content        = FALSE]

InString(p, b) ==
  [p EXCEPT
     !.escaped = ~p.escaped /\ b = "backslash",
     !.inStr   = p.escaped \/ b # "quote",
     !.content = @ \/ b # "newline"]

OutOfString(p, b) ==
  LET depth == p.depth + (IF b \in Opener THEN 1 ELSE IF b \in Closer THEN -1 ELSE 0)
  IN [p EXCEPT
        !.inStr        = b = "quote",
        !.strings      = IF b = "quote" THEN @ + 1 ELSE @,
        !.brackets     = IF b \in Opener \cup Closer THEN Bump(@, b) ELSE @,
        !.depth        = depth,
        !.content      = @ \/ b \notin White,
        !.wentNegative = @ \/ depth < 0,
        !.maxDepth     = Max({@, depth})]

BraceByte(p, b) ==
  IF p.inStr THEN InString(p, b)
  ELSE IF b = "newline" THEN EndScannedLine(p)
  ELSE OutOfString(p, b)

-----------------------------------------------------------------------------
(* The builder.                                                            *)
NewBuilder ==
  [units |-> 0, unigram |-> Nothing, firstSolid |-> None, reg |-> <<>>, segments |-> 0,
   line |-> FreshLine, lines |-> 0, blankLines |-> 0, scalarLines |-> 0, lengthSum |-> 0,
   indents |-> Nothing, lead |-> Nothing, last |-> Nothing,
   cadence |-> [d \in Delimiter |-> Nothing],
   depth |-> 0, inStr |-> FALSE, escaped |-> FALSE, content |-> FALSE,
   brackets |-> Nothing, strings |-> 0, maxDepth |-> 0, wentNegative |-> FALSE,
   scannedLines |-> 0, depthZeroLines |-> 0, unterminated |-> FALSE, finalDepth |-> 0]

\* The register of the last three bytes.
Shifted(reg, b) == Append(IF Len(reg) = 3 THEN Tail(reg) ELSE reg, b)

PushByte(p, b) ==
  LET counted == [p EXCEPT
                    !.units = @ + 1, !.unigram = Bump(@, b), !.reg = Shifted(@, b),
                    !.firstSolid = IF @ = None /\ b \notin White THEN b ELSE @]
  IN BraceByte(IF b = "newline" THEN EndLine(counted) ELSE LineByte(counted, b), b)

\* Every table that the gram at the end of a register can leave.
GramCounted(n, reg) ==
  IF Len(reg) < n THEN {grams[n]}
  ELSE Observed(grams[n], GramCap, SubSeq(reg, Len(reg) - n + 1, Len(reg)))

\* Mutant: a string stays open.
BoundaryKeepingString(p) ==
  LET e == EndScannedLine(EndLine(p))
  IN [e EXCEPT
        !.unterminated = @ \/ e.inStr, !.finalDepth = @ + e.depth,
        !.depth = 0, !.reg = <<>>, !.segments = @ + 1]

\* The next byte does not follow the last one.
Boundary(p) ==
  LET e == EndScannedLine(EndLine(p))
  IN [e EXCEPT
        !.unterminated = @ \/ e.inStr, !.finalDepth = @ + e.depth,
        !.depth = 0, !.inStr = FALSE, !.escaped = FALSE,
        !.reg = <<>>, !.segments = @ + 1]

-----------------------------------------------------------------------------
(* NgramProfile::build.                                                    *)
Init ==
  /\ input \in Inputs /\ budget \in Budgets
  /\ at = [segment |-> 1, pushed |-> 0, finished |-> FALSE]
  /\ builder = NewBuilder
  /\ grams = [n \in Gram |-> NewTable]

AtSegmentEnd == at.pushed = Len(SegmentBytes(at.segment))
AtLastSegment == at.segment = Len(Segments(input, budget))

Push ==
  /\ ~at.finished /\ ~AtSegmentEnd
  /\ builder' = PushByte(builder, SegmentBytes(at.segment)[at.pushed + 1])
  /\ grams' \in {g \in [Gram -> UNION {GramCounted(n, builder'.reg) : n \in Gram}] :
                  \A n \in Gram : g[n] \in GramCounted(n, builder'.reg)}
  /\ at' = [at EXCEPT !.pushed = @ + 1]
  /\ UNCHANGED <<input, budget>>

NextSegment ==
  /\ ~at.finished /\ AtSegmentEnd /\ ~AtLastSegment
  /\ builder' = Boundary(builder)
  /\ at' = [at EXCEPT !.segment = @ + 1, !.pushed = 0]
  /\ UNCHANGED <<input, budget, grams>>

Finish ==
  /\ ~at.finished /\ AtSegmentEnd /\ AtLastSegment
  /\ builder' = Boundary(builder)
  /\ at' = [at EXCEPT !.finished = TRUE]
  /\ UNCHANGED <<input, budget, grams>>

Next == Push \/ NextSegment \/ Finish

Spec == Init /\ [][Next]_vars

\* A profile of what was pushed so far: a copy of the builder, finished.
ProfileSoFar == IF at.finished THEN builder ELSE Boundary(builder)

-----------------------------------------------------------------------------
(* What was pushed, as a whole: the pieces, their lines, their strings.    *)
Pieces ==
  [k \in 1 .. at.segment |->
     IF k = at.segment THEN SubSeq(SegmentBytes(k), 1, at.pushed) ELSE SegmentBytes(k)]

\* The stretches of a piece between ends: their first and their last place.
Runs(piece, ends) ==
  LET before == {0} \cup ends
      after == ends \cup {Len(piece) + 1}
  IN {<<a + 1, Min({b \in after : b > a}) - 1>> : a \in before}

Total(pieces, Of(_)) == MapThenSumSet(LAMBDA k : Of(pieces[k]), DOMAIN pieces)

\* Lines as text, each with the place it has.
LinesOf(piece) ==
  {<<run, SubSeq(piece, run[1], run[2])>> :
     run \in Runs(piece, {i \in DOMAIN piece : piece[i] = "newline"})}
AllLines == UNION {{<<k, l>> : l \in LinesOf(Pieces[k])} : k \in DOMAIN Pieces}
Having(lines, P(_)) == Cardinality({l \in lines : P(l[2][2])})

Unreturned(text) == IF Last(text) = "return" THEN Front(text) ELSE text
IndentOf(text) == Min({i \in DOMAIN text : text[i] \notin {"space", "tab"}}) - 1
QuotesBefore(text, i) == Cardinality({j \in 1 .. i - 1 : text[j] = "quote"})
Delimiters(text, d) ==
  Cardinality({i \in DOMAIN text : text[i] = d /\ QuotesBefore(text, i) % 2 = 0})

\* A histogram of a figure over the lines: exact in every entry, and without
\* entries only where it is full.
HistogramOf(counts, cap, lines, Figure(_)) ==
  LET figures == {Figure(l[2][2]) : l \in lines}
  IN /\ DOMAIN counts \subseteq figures
     /\ Cardinality(DOMAIN counts) = Min({cap, Cardinality(figures)})
     /\ \A c \in DOMAIN counts : counts[c] = Having(lines, LAMBDA text : Figure(text) = c)

\* The figures about lines are those of the text cut at newlines and seams.
\* Line ends, quotes and indentation are seen a byte at a time, and a doubled
\* quote is known to be one only a byte later: a delimiter counts if and only
\* if an even number of quotes stand before it on its line.
LinesOfSegments ==
  LET p == ProfileSoFar
      lines == AllLines
      solid == {l \in lines : ~AllWhite(l[2][2])}
  IN /\ p.lines = Cardinality(solid)
     /\ p.blankLines = Cardinality(lines \ solid)
     /\ p.lengthSum = MapThenSumSet(LAMBDA l : Len(Unreturned(l[2][2])), solid)
     /\ HistogramOf(p.indents, IndentCap, solid, IndentOf)
     /\ \A d \in Delimiter :
          HistogramOf(p.cadence[d], CadenceCap, solid, LAMBDA text : Delimiters(text, d))
     /\ HistogramOf(p.lead, p.lines, solid, LAMBDA text : text[IndentOf(text) + 1])
     /\ HistogramOf(p.last, p.lines, solid, LAMBDA text : Last(Unreturned(text)))
     /\ p.scalarLines =
          Having(solid, LAMBDA text : Len(text) <= LineBufCap /\ IsScalar(Trim(text)))

\* Where a place of a piece is: out of a string, in one, or in one after a
\* backslash that escapes what follows.
NextMode(mode, b) ==
  IF mode = "escaping" THEN "in"
  ELSE IF b = "quote" THEN (IF mode = "in" THEN "out" ELSE "in")
  ELSE IF b = "backslash" /\ mode = "in" THEN "escaping"
  ELSE mode
ModeAfter(piece, i) == FoldLeft(NextMode, "out", SubSeq(piece, 1, i))

OutOfStrings(piece) == {i \in DOMAIN piece : ModeAfter(piece, i - 1) = "out"}
Counting(piece, bytes) == Cardinality({i \in OutOfStrings(piece) : piece[i] \in bytes})
DepthAt(piece, i) ==
  LET upTo(bytes) == Cardinality({j \in OutOfStrings(piece) : j <= i /\ piece[j] \in bytes})
  IN upTo(Opener) - upTo(Closer)
Depths(piece) == {DepthAt(piece, i) : i \in 0 .. Len(piece)}

ScannedLines(piece) ==
  {run \in Runs(piece, {i \in OutOfStrings(piece) : piece[i] = "newline"}) :
     ~AllWhite(SubSeq(piece, run[1], run[2]))}

\* Brackets, depths and strings are those of each segment read by itself: a
\* string or a bracket left open at a seam has no effect beyond it, and a
\* newline in a string ends no record.
BracesOfSegments ==
  LET p == ProfileSoFar
      pieces == Pieces
  IN /\ p.strings = Total(pieces, LAMBDA piece : Counting(piece, {"quote"}))
     /\ \A b \in Opener \cup Closer :
          Total(pieces, LAMBDA piece : Counting(piece, {b})) =
            (IF b \in DOMAIN p.brackets THEN p.brackets[b] ELSE 0)
     /\ p.maxDepth = Max(UNION {Depths(pieces[k]) : k \in DOMAIN pieces})
     /\ p.wentNegative = \E k \in DOMAIN pieces : \E d \in Depths(pieces[k]) : d < 0
     /\ p.finalDepth = Total(pieces, LAMBDA piece : DepthAt(piece, Len(piece)))
     /\ p.unterminated =
          \E k \in DOMAIN pieces : ModeAfter(pieces[k], Len(pieces[k])) # "out"
     /\ p.scannedLines = Total(pieces, LAMBDA piece : Cardinality(ScannedLines(piece)))
     /\ p.depthZeroLines =
          Total(pieces, LAMBDA piece :
                  Cardinality({run \in ScannedLines(piece) : DepthAt(piece, run[2]) = 0}))

GramsIn(piece, n) == [i \in 1 .. Len(piece) - n + 1 |-> SubSeq(piece, i, i + n - 1)]

\* Grams are counted inside segments: none spans a seam, none inside is missed,
\* and none that is held is counted less often than it occurs.
GramsInsideSegments ==
  LET pieces == Pieces
  IN \A n \in Gram :
       LET t == grams[n]
           occurring == UNION {Range(GramsIn(pieces[k], n)) : k \in DOMAIN pieces}
           occurrences(g) ==
             Total(pieces, LAMBDA piece : Cardinality({i \in DOMAIN GramsIn(piece, n) :
                                                         GramsIn(piece, n)[i] = g}))
       IN /\ Held(t) \subseteq occurring
          /\ \A g \in Held(t) : occurrences(g) <= t.counters[g]
          /\ MapThenSumSet(LAMBDA g : t.counters[g], Held(t)) =
               Total(pieces, LAMBDA piece : Len(GramsIn(piece, n)))
          /\ t.evictions = 0 => Held(t) = occurring

\* Nothing that is read crosses a seam: what a seam ends, a line, a record, a
\* string and a gram at once, starts anew behind it.
NothingCrossesSeams == BracesOfSegments /\ GramsInsideSegments
=============================================================================
