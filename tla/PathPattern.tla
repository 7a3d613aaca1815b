---------------------------- MODULE PathPattern ----------------------------
(***************************************************************************)
(* The parser of paths and patterns (Parser, path.rs), one action for each *)
(* pass of its loops.  pos counts the bytes that were taken.  A text that  *)
(* parses is written again (Display) and what was written parsed again, as *)
(* an operator does who copies a path from the description of a source.    *)
(***************************************************************************)
EXTENDS PathText

CONSTANTS
  Text,     \* the texts considered: strings, hence valid UTF-8
  MaxU32,   \* 2^32 - 1 in the program
  MaxChar   \* the largest character; the model has those of two bytes

End == 256  \* no byte: peek returns None
Cont == 128 .. 191
Byte == 0 .. 255

\* Every byte beyond ASCII that starts a character is followed by one that
\* continues it, and none continues anything else.
IsUtf8(t) ==
  \A i \in DOMAIN t :
    /\ t[i] >= 192 => i < Len(t) /\ t[i + 1] \in Cont
    /\ t[i] \in Cont => i > 1 /\ t[i - 1] >= 192

ASSUME TextAssumption == Text \subseteq {t \in Seq(Byte) : IsUtf8(t)}
ASSUME LimitAssumption == MaxU32 \in Nat /\ MaxChar \in 128 .. 2047 /\ MaxChar <= MaxU32

VARIABLES
  text, pos,
  mode,      \* the loop the parser is in
  steps,     \* the steps so far
  token,     \* the bytes of the identifier, number or escape being read
  name,      \* the characters of the quoted name being read
  step,      \* the step in brackets that waits for its bracket
  result,    \* <<>> or what parse_pattern returned
  printed    \* <<>> or the pattern that was written and is parsed again

vars == <<text, pos, mode, steps, token, name, step, result, printed>>

-----------------------------------------------------------------------------
ByteAt(p) == IF p < Len(text) THEN text[p + 1] ELSE End
Peek == ByteAt(pos)

Ok(pattern) == [ok |-> TRUE, pattern |-> pattern]
Err(at, kind) == [ok |-> FALSE, at |-> at, kind |-> kind]

ParseFails(at, kind) ==
  /\ mode' = "done"
  /\ result' = Err(at, kind)
  /\ UNCHANGED <<text, pos, steps, token, name, step, printed>>

Unexpected(p) == ParseFails(p, IF ByteAt(p) = End THEN "UnexpectedEnd" ELSE "UnexpectedChar")

\* A step is complete; the text up to p is taken.
PushStep(s, p) ==
  /\ mode' = "steps"
  /\ steps' = Append(steps, s)
  /\ pos' = p
  /\ UNCHANGED <<text, token, name, step, result, printed>>

\* A loop of its own starts at p.
Enter(loop, p) ==
  /\ mode' = loop
  /\ pos' = p
  /\ token' = <<>> /\ name' = <<>>
  /\ UNCHANGED <<text, steps, step, result, printed>>

Take(c) ==
  /\ token' = Append(token, c)
  /\ pos' = pos + 1
  /\ UNCHANGED <<text, mode, steps, name, step, result, printed>>

-----------------------------------------------------------------------------
Init ==
  /\ text \in Text
  /\ pos = 0
  /\ mode = "root"
  /\ steps = <<>> /\ token = <<>> /\ name = <<>>
  /\ step = AnyField
  /\ result = <<>> /\ printed = <<>>

Root ==
  /\ mode = "root"
  /\ IF text = <<>> THEN ParseFails(0, "Empty")
     ELSE IF Peek # Dot THEN ParseFails(0, "ExpectedRoot")
     ELSE Enter("steps", 1)

\* parse_field_body at p.
FieldBody(p) ==
  CASE ByteAt(p) = Star -> PushStep(AnyField, p + 1)
    [] ByteAt(p) = Quote -> Enter("quoted", p + 1)
    [] ByteAt(p) \in Letter -> Enter("ident", p)
    [] OTHER -> Unexpected(p)

\* parse_index_body at p.
IndexBody(p) ==
  IF ByteAt(p) = Star
  THEN /\ mode' = "bracket" /\ step' = AnyIndex /\ pos' = p + 1
       /\ UNCHANGED <<text, steps, token, name, result, printed>>
  ELSE IF ByteAt(p) \in Digit THEN Enter("number", p)
  ELSE Unexpected(p)

\* The loop of parse_pattern.  The dot of the root is also that of the first
\* field.
ParsePattern ==
  /\ mode = "steps"
  /\ LET first == steps = <<>>
     IN CASE Peek = End ->
               /\ mode' = "done"
               /\ result' = Ok(steps)
               /\ UNCHANGED <<text, pos, steps, token, name, step, printed>>
          [] Peek = Dot -> IF first THEN Unexpected(pos) ELSE FieldBody(pos + 1)
          [] Peek = OpenBracket -> IndexBody(pos + 1)
          [] first /\ Peek \in Letter \cup {Quote, Star} -> FieldBody(pos)
          [] OTHER -> Unexpected(pos)

ParseIdent ==
  /\ mode = "ident"
  /\ IF Peek \in IdentByte THEN Take(Peek) ELSE PushStep(Field(token), pos)

HexValue(c) == IF c \in Digit THEN c - 48 ELSE IF c >= 97 THEN c - 87 ELSE c - 55
Value(digits, base) ==
  FoldLeft(LAMBDA v, d : v * base + d, 0, [i \in DOMAIN digits |-> HexValue(digits[i])])

\* Leading zeros are accepted.
ParseU32 ==
  /\ mode = "number"
  /\ IF Peek \in Digit THEN Take(Peek)
     ELSE IF Value(token, 10) > MaxU32 THEN ParseFails(pos - Len(token), "InvalidNumber")
     ELSE /\ mode' = "bracket" /\ step' = Index(Value(token, 10))
          /\ UNCHANGED <<text, pos, steps, token, name, result, printed>>

EndOfIndex ==
  /\ mode = "bracket"
  /\ IF Peek = CloseBracket THEN PushStep(step, pos + 1) ELSE Unexpected(pos)

-----------------------------------------------------------------------------
(* Quoted names.                                                           *)
PushChar(c, p) ==
  /\ mode' = "quoted"
  /\ name' = Append(name, c)
  /\ pos' = p
  /\ UNCHANGED <<text, steps, token, step, result, printed>>

\* \n, \t, \r, \0, \" and \\.
Unescaped ==
  [c \in {34, 92, 110, 116, 114, 48} |->
     CASE c = 110 -> 10 [] c = 116 -> 9 [] c = 114 -> 13 [] c = 48 -> 0 [] OTHER -> c]

\* Mutant: an escape that is unknown is left in the text.
ParseEscapeStaying(c) ==
  IF c \in DOMAIN Unescaped THEN PushChar(Unescaped[c], pos + 2) ELSE UNCHANGED vars

ParseEscape(c) ==
  CASE c \in DOMAIN Unescaped -> PushChar(Unescaped[c], pos + 2)
    [] c = 117 ->
         IF ByteAt(pos + 2) = OpenBrace
         THEN /\ mode' = "unicode" /\ token' = <<>> /\ pos' = pos + 3
              /\ UNCHANGED <<text, steps, name, step, result, printed>>
         ELSE ParseFails(IF ByteAt(pos + 2) = End THEN pos + 2 ELSE pos + 3, "InvalidUnicodeEscape")
    [] c = End -> ParseFails(pos + 1, "UnterminatedString")
    [] OTHER -> ParseFails(pos + 1, "InvalidEscape")

\* Mutant: a character is taken for a byte.
RawByte ==
  IF Peek \in Cont
  THEN mode' = "panicked" /\ UNCHANGED <<text, pos, steps, token, name, step, result, printed>>
  ELSE PushChar(Peek, pos + 1)

\* The rest of the text is decoded as UTF-8, and the parser panics where a
\* character is cut.
RawChar ==
  IF Peek \in Cont
  THEN mode' = "panicked" /\ UNCHANGED <<text, pos, steps, token, name, step, result, printed>>
  ELSE IF Peek < 128 THEN PushChar(Peek, pos + 1)
  ELSE PushChar((Peek - 192) * 64 + ByteAt(pos + 1) - 128, pos + 2)

ParseQuoted ==
  /\ mode = "quoted"
  /\ CASE Peek = End -> ParseFails(pos, "UnterminatedString")
       [] Peek = Quote -> PushStep(Field(name), pos + 1)
       [] Peek = Backslash -> ParseEscape(ByteAt(pos + 1))
       [] OTHER -> RawChar

ParseUnicodeEscape ==
  /\ mode = "unicode"
  /\ CASE Peek \in HexDigit -> Take(Peek)
       [] Peek \notin HexDigit /\ token = <<>> -> ParseFails(pos, "InvalidUnicodeEscape")
       [] OTHER ->
            IF Value(token, 16) > MaxU32 THEN ParseFails(pos, "InvalidUnicodeEscape")
            ELSE IF Peek # CloseBrace
            THEN ParseFails(IF Peek = End THEN pos ELSE pos + 1, "InvalidUnicodeEscape")
            ELSE IF Value(token, 16) > MaxChar THEN ParseFails(pos + 1, "InvalidUnicodeEscape")
            ELSE PushChar(Value(token, 16), pos + 1)

-----------------------------------------------------------------------------
\* What was parsed is written and parsed again, once.
Reprint ==
  /\ mode = "done" /\ result.ok /\ printed = <<>>
  /\ printed' = <<result.pattern>>
  /\ text' = Display(result.pattern)
  /\ pos' = 0 /\ mode' = "root" /\ steps' = <<>> /\ result' = <<>>
  /\ UNCHANGED <<token, name, step>>

Parse ==
  \/ Root \/ ParsePattern
  \/ ParseIdent \/ ParseU32 \/ EndOfIndex
  \/ ParseQuoted \/ ParseUnicodeEscape

Next == Parse \/ Reprint

Spec == Init /\ [][Next]_vars
FairSpec == Spec /\ WF_vars(Parse)

-----------------------------------------------------------------------------
\* Every pattern that can be read is written so that it reads the same: no
\* name, whatever it contains, is taken for a wildcard, an index or two names,
\* and none loses a character.
RoundTrip ==
  printed # <<>> /\ mode = "done" => result = Ok(printed[1])

\* The parser goes through the text by bytes, by characters and by escapes of
\* several bytes, and decodes the rest of the text anew at every raw character;
\* it never stands inside a character, where the decoding would panic.
NeverSplits == mode # "panicked" /\ ByteAt(pos) \notin Cont

\* The parser returns on every text, in each of its loops.
Returns == (mode = "root") ~> (mode = "done")
=============================================================================
