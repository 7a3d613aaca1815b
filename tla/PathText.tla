------------------------------ MODULE PathText ------------------------------
(***************************************************************************)
(* Paths and patterns and how they are written (Display, path.rs).  A text *)
(* is the sequence of its bytes, a name the sequence of its characters;    *)
(* both are numbers, and below 128 they are the same.                      *)
(***************************************************************************)
EXTENDS Naturals, Sequences, SequencesExt

Dot == 46
Star == 42
Quote == 34
Backslash == 92
OpenBracket == 91
CloseBracket == 93
OpenBrace == 123
CloseBrace == 125

Digit == 48 .. 57
Letter == (65 .. 90) \cup (97 .. 122) \cup {95}  \* and the underscore
IdentByte == Letter \cup Digit
HexDigit == Digit \cup (65 .. 70) \cup (97 .. 102)

-----------------------------------------------------------------------------
(* Steps.                                                                  *)
Field(name) == [step |-> "field", name |-> name]
AnyField == [step |-> "anyField"]
Index(i) == [step |-> "index", index |-> i]
AnyIndex == [step |-> "anyIndex"]

IsWildcard(step) == step.step \in {"anyField", "anyIndex"}

\* TryFrom<PathPattern> for Path.
IsPath(pattern) == \A i \in DOMAIN pattern : ~IsWildcard(pattern[i])

-----------------------------------------------------------------------------
(* Writing.                                                                *)
\* A character in UTF-8; the model has those of up to two bytes.
Utf8(c) == IF c < 128 THEN <<c>> ELSE <<192 + c \div 64, 128 + (c % 64)>>

DigitByte(d) == IF d < 10 THEN 48 + d ELSE 87 + d

\* A number in base 10 or 16, without leading zeros.
Numeral(n, base) ==
  LET digits[k \in Nat] ==
        IF k < base THEN <<DigitByte(k)>> ELSE Append(digits[k \div base], DigitByte(k % base))
  IN digits[n]

\* Mutant: a name that starts with a digit is taken for an identifier.
IsIdentLoosely(name) == name # <<>> /\ \A i \in DOMAIN name : name[i] \in IdentByte

IsBareIdent(name) == name # <<>> /\ name[1] \in Letter /\ \A i \in DOMAIN name : name[i] \in IdentByte

\* The letters n, t, r and 0 stand for the characters that they escape.
EscapeOf(c) ==
  CASE c = Quote -> Quote
    [] c = Backslash -> Backslash
    [] c = 10 -> 110
    [] c = 9 -> 116
    [] c = 13 -> 114
    [] c = 0 -> 48
Escaped == {Quote, Backslash, 10, 9, 13, 0}

QuotedChar(c) ==
  IF c \in Escaped THEN <<Backslash, EscapeOf(c)>>
  ELSE IF c < 32 THEN <<Backslash, 117, OpenBrace>> \o Numeral(c, 16) \o <<CloseBrace>>
  ELSE Utf8(c)

WriteQuoted(name) == <<Quote>> \o FlattenSeq([i \in DOMAIN name |-> QuotedChar(name[i])]) \o <<Quote>>

WriteIdentOrQuoted(name) == IF IsBareIdent(name) THEN name ELSE WriteQuoted(name)

WriteStep(step) ==
  CASE step.step = "field" -> WriteIdentOrQuoted(step.name)
    [] step.step = "anyField" -> <<Star>>
    [] step.step = "index" -> <<OpenBracket>> \o Numeral(step.index, 10) \o <<CloseBracket>>
    [] step.step = "anyIndex" -> <<OpenBracket, Star, CloseBracket>>

\* The first step takes the dot of the root.
FieldSep(step, first) == IF step.step \in {"field", "anyField"} /\ ~first THEN <<Dot>> ELSE <<>>

Display(pattern) ==
  <<Dot>> \o FlattenSeq([i \in DOMAIN pattern |-> FieldSep(pattern[i], i = 1) \o WriteStep(pattern[i])])
=============================================================================
