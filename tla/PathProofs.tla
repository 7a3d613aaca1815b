----------------------------- MODULE PathProofs -----------------------------
(***************************************************************************)
(* The parser of paths on any text and with any limits, and the judge of   *)
(* times on any records.                                                   *)
(*                                                                         *)
(* What is written of a pattern is read as that pattern.  The invariant is *)
(* of two parses.  In the first, of any text, the parser stands at the     *)
(* start of a character of UTF-8 (IndInv) and builds steps that a pattern  *)
(* may have (Shaped).  In the second, of what Display wrote of P, it       *)
(* stands where P says (Along): behind the steps that it has, inside the   *)
(* next step, name, character and escape, holding the beginning of each.   *)
(* For that the texts that Display joins are laid end to end at places     *)
(* that are found from the lengths alone (Laid), a numeral is shown to be  *)
(* what the digits behind its last one are and that one (NumeralStep), and *)
(* to be read as its number; and no byte behind a step goes on with it     *)
(* (Standing).                                                             *)
(*                                                                         *)
(* Identifiers are read in their order because digits are: where two texts *)
(* first differ, the one ahead has the larger digit, dropping the hyphens  *)
(* leaves it ahead, and a larger digit outweighs every digit behind it.    *)
(*                                                                         *)
(* Where a text is read in some zone, the cast behind the negation of a    *)
(* time before 1970 gives back that time.  The formats of chrono read no   *)
(* text in which dateparser finds a zone (NaiveAssumption), and a text     *)
(* that is trimmed stays as it is when it is trimmed again, so that this   *)
(* holds of a padded text as well.                                         *)
(***************************************************************************)
EXTENDS PathTime, SumProofs, TLAPS, SequenceTheorems

\* A character, or the end, is at p.
AtChar(p) == p \in Nat /\ p <= Len(text) /\ ByteAt(p) \notin Cont

IndInv ==
  /\ text \in Seq(Byte) /\ IsUtf8(text)
  /\ AtChar(pos)
  /\ mode # "panicked"
  /\ mode = "root" => pos = 0

\* The parser goes to p.
Goes(p) == text' = text /\ pos' = p /\ mode' \notin {"panicked", "root"}

-----------------------------------------------------------------------------
LEMMA Below ==
  \A n, m \in Nat : n < m => n # m /\ n + 1 \in 1 .. m /\ n + 1 <= m /\ n + 1 \in Nat
OBVIOUS

\* What a byte may be.
LEMMA ByteIsNotEnd == \A b \in Byte : b # End
BY DEF Byte, End

LEMMA ContIsNeither == \A b \in Cont : b # End /\ ~(b < 128) /\ ~(b >= 192)
BY DEF Cont, End

LEMMA LeadOrAscii == \A b \in Byte \ Cont : (b < 128 <=> ~(b >= 192))
BY DEF Byte, Cont

\* What is read at a place is a byte or the end.
LEMMA Reading ==
  ASSUME text \in Seq(Byte), NEW p \in Nat, p <= Len(text)
  PROVE  /\ Len(text) \in Nat
         /\ p < Len(text) =>
              /\ p + 1 \in DOMAIN text /\ ByteAt(p) = text[p + 1]
              /\ ByteAt(p) \in Byte /\ ByteAt(p) # End
         /\ p = Len(text) => ByteAt(p) = End
<1>1. Len(text) \in Nat /\ DOMAIN text = 1 .. Len(text)
  BY LenProperties
<1>2. CASE p < Len(text)
  <2>1. p # Len(text) /\ p + 1 \in 1 .. Len(text)
    BY <1>1, <1>2, Below, Zenon
  <2>2. text[p + 1] \in Byte
    BY <2>1, ElementOfSeq, Zenon
  <2>3. ByteAt(p) = text[p + 1]
    BY <1>2, Zenon DEF ByteAt
  <2>4. ByteAt(p) # End
    BY <2>2, <2>3, ByteIsNotEnd, Zenon
  <2>5. QED
    BY <1>1, <2>1, <2>2, <2>3, <2>4, Zenon
<1>3. CASE p = Len(text)
  <2>1. ~(p < Len(text))
    BY <1>1, <1>3
  <2>2. QED
    BY <1>1, <1>3, <2>1, Zenon DEF ByteAt
<1>4. QED
  BY <1>1, <1>2, <1>3

\* Where a byte is, the next place is in the text.
LEMMA PlaceAfter ==
  ASSUME text \in Seq(Byte), NEW p \in Nat, p <= Len(text), ByteAt(p) # End
  PROVE  p < Len(text) /\ p + 1 \in Nat /\ p + 1 <= Len(text)
<1>1. Len(text) \in Nat /\ p # Len(text)
  BY Reading, Zenon
<1>2. QED
  BY <1>1

\* The two bytes of a character name each other.
LEMMA Pairs ==
  ASSUME text \in Seq(Byte), IsUtf8(text), NEW p \in Nat, p < Len(text)
  PROVE  /\ ByteAt(p) >= 192 => ByteAt(p + 1) \in Cont
         /\ ByteAt(p + 1) \in Cont => ByteAt(p) >= 192
<1>1. Len(text) \in Nat /\ p <= Len(text)
  BY LenProperties
<1>2. p + 1 \in DOMAIN text /\ ByteAt(p) = text[p + 1]
  BY <1>1, Reading, Zenon
<1>3. p + 1 \in Nat /\ p + 1 <= Len(text)
  BY <1>1, Below, Zenon
<1>4. ASSUME ByteAt(p) >= 192
      PROVE  ByteAt(p + 1) \in Cont
  <2>1. p + 1 < Len(text) /\ text[p + 1 + 1] \in Cont
    BY <1>2, <1>4, Zenon DEF IsUtf8
  <2>2. ByteAt(p + 1) = text[p + 1 + 1]
    BY <1>3, <2>1, Reading, Zenon
  <2>3. QED
    BY <2>1, <2>2, Zenon
<1>5. ASSUME ByteAt(p + 1) \in Cont
      PROVE  ByteAt(p) >= 192
  <2>1. End \notin Cont
    BY DEF End, Cont
  <2>2. p + 1 < Len(text)
    BY <1>1, <1>3, <1>5, <2>1, Reading
  <2>3. p + 1 + 1 \in DOMAIN text /\ ByteAt(p + 1) = text[p + 1 + 1]
    BY <1>3, <2>2, Reading, Zenon
  <2>4. PICK q : q = p + 1 + 1
    OBVIOUS
  <2>5. q \in DOMAIN text /\ text[q] \in Cont
    BY <1>5, <2>3, <2>4, Zenon
  <2>6. text[q - 1] >= 192
    BY <2>5, Zenon DEF IsUtf8
  <2>7. q - 1 = p + 1
    BY <2>4
  <2>8. QED
    BY <1>2, <2>6, <2>7, Zenon
<1>6. QED
  BY <1>4, <1>5, Zenon

\* A byte of ASCII is a whole character.
LEMMA AfterAscii ==
  ASSUME text \in Seq(Byte), IsUtf8(text), NEW p, AtChar(p), ByteAt(p) < 128
  PROVE  AtChar(p + 1)
<1>1. p \in Nat /\ p <= Len(text) /\ ByteAt(p) \notin Cont
  BY Zenon DEF AtChar
<1>2. ByteAt(p) # End
  BY DEF End
<1>3. p < Len(text) /\ p + 1 \in Nat /\ p + 1 <= Len(text)
  BY <1>1, <1>2, PlaceAfter, Zenon
<1>4. ByteAt(p) \in Byte
  BY <1>1, <1>3, Reading, Zenon
<1>5. ~(ByteAt(p) >= 192)
  BY <1>1, <1>4, LeadOrAscii, Zenon
<1>6. QED
  BY <1>1, <1>3, <1>5, Pairs, Zenon DEF AtChar

\* A byte that starts a longer character is followed by one that ends it.
LEMMA AfterLead ==
  ASSUME text \in Seq(Byte), IsUtf8(text), NEW p, AtChar(p), ByteAt(p) # End,
         ~(ByteAt(p) < 128)
  PROVE  AtChar(p + 2)
<1>1. p \in Nat /\ p <= Len(text) /\ ByteAt(p) \notin Cont
  BY Zenon DEF AtChar
<1>2. p < Len(text) /\ p + 1 \in Nat /\ p + 1 <= Len(text)
  BY <1>1, PlaceAfter, Zenon
<1>3. ByteAt(p) \in Byte
  BY <1>1, <1>2, Reading, Zenon
<1>4. ByteAt(p) >= 192
  BY <1>1, <1>3, LeadOrAscii, Zenon
<1>5. ByteAt(p + 1) \in Cont
  BY <1>1, <1>2, <1>4, Pairs, Zenon
<1>6. ByteAt(p + 1) # End /\ ~(ByteAt(p + 1) >= 192)
  BY <1>5, ContIsNeither, Zenon
<1>7. p + 1 < Len(text) /\ p + 1 + 1 \in Nat /\ p + 1 + 1 <= Len(text)
  BY <1>2, <1>6, PlaceAfter, Zenon
<1>8. ByteAt(p + 1 + 1) \notin Cont
  BY <1>2, <1>6, <1>7, Pairs, Zenon
<1>9. p + 1 + 1 = p + 2
  BY <1>1
<1>10. QED
  BY <1>7, <1>8, <1>9, Zenon DEF AtChar

-----------------------------------------------------------------------------
\* A step that goes to a character preserves the invariant.
LEMMA GoesPreserves ==
  ASSUME IndInv, NEW p, AtChar(p), Goes(p)
  PROVE  IndInv'
<1>1. text' = text /\ pos' = p /\ mode' \notin {"panicked", "root"}
  BY DEF Goes
<1>2. text' \in Seq(Byte) /\ IsUtf8(text') /\ AtChar(pos)'
  BY <1>1 DEF IndInv, AtChar, ByteAt
<1>3. QED
  BY <1>1, <1>2 DEF IndInv

\* The parts that the actions share.
LEMMA FailsPreserves ==
  ASSUME IndInv, NEW at, NEW kind, ParseFails(at, kind)
  PROVE  IndInv'
<1>1. Goes(pos)
  BY DEF ParseFails, Goes
<1>2. QED
  BY <1>1, GoesPreserves DEF IndInv

LEMMA UnexpectedPreserves ==
  ASSUME IndInv, NEW p, Unexpected(p)
  PROVE  IndInv'
BY FailsPreserves DEF Unexpected

LEMMA PushStepPreserves ==
  ASSUME IndInv, NEW p, AtChar(p), NEW s, PushStep(s, p)
  PROVE  IndInv'
<1>1. Goes(p)
  BY DEF PushStep, Goes
<1>2. QED
  BY <1>1, GoesPreserves

LEMMA EnterPreserves ==
  ASSUME IndInv, NEW p, AtChar(p), NEW loop \in {"steps", "ident", "number", "quoted"},
         Enter(loop, p)
  PROVE  IndInv'
<1>1. Goes(p)
  BY DEF Enter, Goes
<1>2. QED
  BY <1>1, GoesPreserves

LEMMA PushCharPreserves ==
  ASSUME IndInv, NEW p, AtChar(p), NEW c, PushChar(c, p)
  PROVE  IndInv'
<1>1. Goes(p)
  BY DEF PushChar, Goes
<1>2. QED
  BY <1>1, GoesPreserves

\* A byte of ASCII is taken.
LEMMA TakePreserves ==
  ASSUME IndInv, mode # "root", Peek < 128, Take(Peek)
  PROVE  IndInv'
<1>1. AtChar(pos + 1)
  BY AfterAscii, Zenon DEF IndInv, Peek
<1>2. Goes(pos + 1)
  BY DEF Take, Goes, IndInv
<1>3. QED
  BY <1>1, <1>2, GoesPreserves

LEMMA EscapesAreLetters == DOMAIN Unescaped = {34, 92, 110, 116, 114, 48}
BY DEF Unescaped

\* The bytes that have a meaning are ASCII.
LEMMA MeaningIsAscii ==
  \A c \in {Dot, Star, Quote, Backslash, OpenBracket, CloseBracket, OpenBrace, CloseBrace, 117}
            \cup Letter \cup Digit \cup IdentByte \cup HexDigit \cup DOMAIN Unescaped : c < 128
BY EscapesAreLetters DEF Dot, Star, Quote, Backslash, OpenBracket, CloseBracket, OpenBrace, CloseBrace,
  Letter, Digit, IdentByte, HexDigit

-----------------------------------------------------------------------------
\* The bodies of a step, at a character.
LEMMA FieldBodyPreserves ==
  ASSUME IndInv, NEW p, AtChar(p), FieldBody(p)
  PROVE  IndInv'
<1>1. ByteAt(p) \in {Star, Quote} => AtChar(p + 1)
  BY AfterAscii, MeaningIsAscii, Zenon DEF IndInv
<1>2. CASE ByteAt(p) = Star
  <2>1. PushStep(AnyField, p + 1)
    BY <1>2 DEF FieldBody, Star, Quote, Letter
  <2>2. QED
    BY <1>1, <1>2, <2>1, PushStepPreserves
<1>3. CASE ByteAt(p) = Quote /\ ByteAt(p) # Star
  <2>1. Enter("quoted", p + 1)
    BY <1>3 DEF FieldBody, Star, Quote, Letter
  <2>2. QED
    BY <1>1, <1>3, <2>1, EnterPreserves
<1>4. CASE ByteAt(p) \in Letter /\ ByteAt(p) \notin {Star, Quote}
  <2>1. Enter("ident", p)
    BY <1>4 DEF FieldBody
  <2>2. QED
    BY <2>1, EnterPreserves
<1>5. CASE ByteAt(p) \notin Letter \cup {Star, Quote}
  <2>1. Unexpected(p)
    BY <1>5 DEF FieldBody
  <2>2. QED
    BY <2>1, UnexpectedPreserves
<1>6. QED
  BY <1>2, <1>3, <1>4, <1>5

LEMMA IndexBodyPreserves ==
  ASSUME IndInv, NEW p, AtChar(p), IndexBody(p)
  PROVE  IndInv'
<1>1. CASE ByteAt(p) = Star
  <2>1. AtChar(p + 1)
    BY <1>1, AfterAscii, MeaningIsAscii, Zenon DEF IndInv
  <2>2. Goes(p + 1)
    BY <1>1 DEF IndexBody, Goes
  <2>3. QED
    BY <2>1, <2>2, GoesPreserves
<1>2. CASE ByteAt(p) # Star /\ ByteAt(p) \in Digit
  BY <1>2, EnterPreserves DEF IndexBody
<1>3. CASE ByteAt(p) # Star /\ ByteAt(p) \notin Digit
  BY <1>3, UnexpectedPreserves DEF IndexBody
<1>4. QED
  BY <1>1, <1>2, <1>3

LEMMA RootPreserves ==
  ASSUME IndInv, Root
  PROVE  IndInv'
<1>1. CASE text = <<>>
  BY <1>1, FailsPreserves DEF Root
<1>2. CASE text # <<>> /\ Peek # Dot
  BY <1>2, FailsPreserves DEF Root
<1>3. CASE text # <<>> /\ Peek = Dot
  <2>1. pos = 0 /\ Enter("steps", 1)
    BY <1>3 DEF Root, IndInv
  <2>2. AtChar(pos + 1)
    BY <1>3, AfterAscii, MeaningIsAscii, Zenon DEF IndInv, Peek
  <2>3. AtChar(1)
    BY <2>1, <2>2
  <2>4. QED
    BY <2>1, <2>3, EnterPreserves
<1>4. QED
  BY <1>1, <1>2, <1>3

LEMMA ParsePatternPreserves ==
  ASSUME IndInv, ParsePattern
  PROVE  IndInv'
<1>1. Peek \in {Dot, OpenBracket} => AtChar(pos + 1)
  BY AfterAscii, MeaningIsAscii, Zenon DEF IndInv, Peek
<1>2. \/ Goes(pos)
      \/ Unexpected(pos)
      \/ Peek = Dot /\ FieldBody(pos + 1)
      \/ Peek = OpenBracket /\ IndexBody(pos + 1)
      \/ FieldBody(pos)
  <2>1. CASE Peek = End
    BY <2>1 DEF ParsePattern, Goes, End, Dot, OpenBracket, Letter, Quote, Star
  <2>2. CASE Peek # End
    BY <2>2, Zenon DEF ParsePattern
  <2>3. QED
    BY <2>1, <2>2
<1>3. QED
  BY <1>1, <1>2, GoesPreserves, UnexpectedPreserves, FieldBodyPreserves,
    IndexBodyPreserves DEF IndInv

LEMMA ParseIdentPreserves ==
  ASSUME IndInv, ParseIdent
  PROVE  IndInv'
<1>1. CASE Peek \in IdentByte
  <2>1. Peek < 128
    BY <1>1, MeaningIsAscii
  <2>2. QED
    BY <1>1, <2>1, TakePreserves DEF ParseIdent
<1>2. CASE Peek \notin IdentByte
  BY <1>2, PushStepPreserves DEF ParseIdent, IndInv
<1>3. QED
  BY <1>1, <1>2

LEMMA ParseU32Preserves ==
  ASSUME IndInv, ParseU32
  PROVE  IndInv'
<1>1. CASE Peek \in Digit
  <2>1. Peek < 128
    BY <1>1, MeaningIsAscii
  <2>2. QED
    BY <1>1, <2>1, TakePreserves DEF ParseU32
<1>2. CASE Peek \notin Digit
  <2>1. Goes(pos)
    BY <1>2 DEF ParseU32, ParseFails, Goes
  <2>2. QED
    BY <2>1, GoesPreserves DEF IndInv
<1>3. QED
  BY <1>1, <1>2

LEMMA EndOfIndexPreserves ==
  ASSUME IndInv, EndOfIndex
  PROVE  IndInv'
<1>1. CASE Peek = CloseBracket
  <2>1. AtChar(pos + 1)
    BY <1>1, AfterAscii, MeaningIsAscii, Zenon DEF IndInv, Peek
  <2>2. QED
    BY <1>1, <2>1, PushStepPreserves DEF EndOfIndex
<1>2. CASE Peek # CloseBracket
  BY <1>2, UnexpectedPreserves DEF EndOfIndex
<1>3. QED
  BY <1>1, <1>2

-----------------------------------------------------------------------------
(* Quoted names.                                                           *)
LEMMA ParseEscapePreserves ==
  ASSUME IndInv, Peek = Backslash, ParseEscape(ByteAt(pos + 1))
  PROVE  IndInv'
<1> DEFINE c == ByteAt(pos + 1)
<1>1. text \in Seq(Byte) /\ IsUtf8(text) /\ pos \in Nat
  BY DEF IndInv, AtChar
<1>2. AtChar(pos + 1)
  BY AfterAscii, MeaningIsAscii, Zenon DEF IndInv, Peek
<1>3. pos + 1 + 1 = pos + 2 /\ pos + 2 + 1 = pos + 3
  BY <1>1
<1>4. c < 128 => AtChar(pos + 2)
  BY <1>1, <1>2, <1>3, AfterAscii
<1>5. CASE c \in DOMAIN Unescaped
  <2>1. PushChar(Unescaped[c], pos + 2)
    BY <1>5, EscapesAreLetters DEF ParseEscape, End
  <2>2. AtChar(pos + 2)
    BY <1>4, <1>5, MeaningIsAscii
  <2>3. QED
    BY <2>1, <2>2, PushCharPreserves
<1>6. CASE c \notin DOMAIN Unescaped /\ c = 117
  <2>1. CASE ByteAt(pos + 2) = OpenBrace
    <3>1. Goes(pos + 3)
      BY <1>6, <2>1 DEF ParseEscape, Goes, End
    <3>2. AtChar(pos + 2) /\ ByteAt(pos + 2) < 128
      BY <1>4, <1>6, <2>1, MeaningIsAscii
    <3>3. AtChar(pos + 3)
      BY <1>1, <1>3, <3>2, AfterAscii
    <3>4. QED
      BY <3>1, <3>3, GoesPreserves
  <2>2. CASE ByteAt(pos + 2) # OpenBrace
    <3>1. \E at : ParseFails(at, "InvalidUnicodeEscape")
      BY <1>6, <2>2 DEF ParseEscape, End
    <3>2. QED
      BY <3>1, FailsPreserves
  <2>3. QED
    BY <2>1, <2>2
<1>7. CASE c \notin DOMAIN Unescaped /\ c # 117
  <2>1. \E at, kind : ParseFails(at, kind)
    BY <1>7 DEF ParseEscape
  <2>2. QED
    BY <2>1, FailsPreserves
<1>8. QED
  BY <1>5, <1>6, <1>7

LEMMA RawCharPreserves ==
  ASSUME IndInv, Peek # End, RawChar
  PROVE  IndInv'
<1>1. text \in Seq(Byte) /\ IsUtf8(text) /\ AtChar(pos) /\ Peek = ByteAt(pos) /\ Peek \notin Cont
  BY DEF IndInv, AtChar, Peek
<1>2. CASE Peek < 128
  <2>1. PushChar(Peek, pos + 1)
    BY <1>1, <1>2 DEF RawChar
  <2>2. AtChar(pos + 1)
    BY <1>1, <1>2, AfterAscii
  <2>3. QED
    BY <2>1, <2>2, PushCharPreserves
<1>3. CASE ~(Peek < 128)
  <2>1. PushChar((Peek - 192) * 64 + ByteAt(pos + 1) - 128, pos + 2)
    BY <1>1, <1>3 DEF RawChar
  <2>2. AtChar(pos + 2)
    BY <1>1, <1>3, AfterLead
  <2>3. QED
    BY <2>1, <2>2, PushCharPreserves
<1>4. QED
  BY <1>2, <1>3

LEMMA ParseQuotedPreserves ==
  ASSUME IndInv, ParseQuoted
  PROVE  IndInv'
<1>1. CASE Peek = End
  <2>1. \E at, kind : ParseFails(at, kind)
    BY <1>1 DEF ParseQuoted, End, Quote, Backslash
  <2>2. QED
    BY <2>1, FailsPreserves
<1>2. CASE Peek = Quote
  <2>1. AtChar(pos + 1)
    BY <1>2, AfterAscii, MeaningIsAscii, Zenon DEF IndInv, Peek
  <2>2. PushStep(Field(name), pos + 1)
    BY <1>2 DEF ParseQuoted, End, Quote, Backslash
  <2>3. QED
    BY <2>1, <2>2, PushStepPreserves
<1>3. CASE Peek = Backslash
  <2>1. ParseEscape(ByteAt(pos + 1))
    BY <1>3 DEF ParseQuoted, End, Quote, Backslash
  <2>2. QED
    BY <1>3, <2>1, ParseEscapePreserves
<1>4. CASE Peek \notin {End, Quote, Backslash}
  <2>1. RawChar
    BY <1>4 DEF ParseQuoted
  <2>2. QED
    BY <1>4, <2>1, RawCharPreserves
<1>5. QED
  BY <1>1, <1>2, <1>3, <1>4

LEMMA ParseUnicodeEscapePreserves ==
  ASSUME IndInv, ParseUnicodeEscape
  PROVE  IndInv'
<1>1. CASE Peek \in HexDigit
  <2>1. Peek < 128
    BY <1>1, MeaningIsAscii
  <2>2. mode # "root"
    BY DEF ParseUnicodeEscape
  <2>3. Take(Peek)
    BY <1>1, Zenon DEF ParseUnicodeEscape
  <2>4. QED
    BY <2>1, <2>2, <2>3, TakePreserves
<1>2. CASE Peek = CloseBrace /\ Peek \notin HexDigit
  <2>1. AtChar(pos + 1)
    BY <1>2, AfterAscii, MeaningIsAscii, Zenon DEF IndInv, Peek
  <2>2. Goes(pos) \/ Goes(pos + 1)
    BY <1>2 DEF ParseUnicodeEscape, ParseFails, PushChar, Goes
  <2>3. QED
    BY <2>1, <2>2, GoesPreserves DEF IndInv
<1>3. CASE Peek # CloseBrace /\ Peek \notin HexDigit
  <2>1. Goes(pos)
    BY <1>3 DEF ParseUnicodeEscape, ParseFails, Goes
  <2>2. QED
    BY <2>1, GoesPreserves DEF IndInv
<1>4. QED
  BY <1>1, <1>2, <1>3

-----------------------------------------------------------------------------
LEMMA InitIndInv ==
  ASSUME Init
  PROVE  IndInv
<1>1. text \in Seq(Byte) /\ IsUtf8(text) /\ pos = 0 /\ mode = "root"
  BY TextAssumption DEF Init
<1>2. Len(text) \in Nat
  BY <1>1, LenProperties
<1>3. pos \in Nat /\ pos <= Len(text)
  BY <1>1, <1>2
<1>4. ByteAt(pos) \notin Cont
  <2>1. CASE Len(text) = 0
    <3>1. ByteAt(pos) = End
      BY <1>1, <1>3, <2>1, Reading, Zenon
    <3>2. QED
      BY <3>1 DEF End, Cont
  <2>2. CASE 0 < Len(text)
    <3>1. 1 \in DOMAIN text /\ ByteAt(pos) = text[1]
      BY <1>1, <1>2, <2>2, LenProperties DEF ByteAt
    <3>2. text[1] \notin Cont
      BY <1>1, <3>1 DEF IsUtf8
    <3>3. QED
      BY <3>1, <3>2
  <2>3. QED
    BY <1>2, <2>1, <2>2
<1>5. QED
  BY <1>1, <1>3, <1>4 DEF IndInv, AtChar

LEMMA ParsePreserves ==
  ASSUME IndInv, [Parse]_vars
  PROVE  IndInv'
<1>1. CASE Parse
  BY <1>1, RootPreserves, ParsePatternPreserves, ParseIdentPreserves, ParseU32Preserves,
    EndOfIndexPreserves, ParseQuotedPreserves, ParseUnicodeEscapePreserves DEF Parse
<1>2. CASE UNCHANGED vars
  BY <1>2 DEF vars, IndInv, AtChar, ByteAt
<1>3. QED
  BY <1>1, <1>2

-----------------------------------------------------------------------------
(* Numbers from digits.                                                    *)
LEMMA LargestOf ==
  ASSUME NEW n \in Nat, NEW s \in SUBSET (1 .. n), s # {}
  PROVE  Max(s) \in s /\ \A i \in s : i <= Max(s)
<1> DEFINE D == {n - i : i \in s}
<1>1. D \in SUBSET Nat /\ D # {}
  OBVIOUS
<1>2. PICK d \in D : \A e \in D : d <= e
  <2> HIDE DEF D
  <2>1. QED
    BY <1>1, LeastNumber
<1>3. PICK m \in s : d = n - m
  OBVIOUS
<1>4. \A i \in s : m >= i
  <2> SUFFICES ASSUME NEW i \in s PROVE m >= i
    OBVIOUS
  <2>1. n - i \in D
    OBVIOUS
  <2> HIDE DEF D
  <2>2. n - m <= n - i
    BY <1>2, <1>3, <2>1, Zenon
  <2>3. QED
    BY <2>2
<1>5. PICK t : t = Max(s)
  OBVIOUS
<1>6. t \in s /\ \A i \in s : t >= i
  BY <1>4, <1>5 DEF Max
<1>7. QED
  BY <1>5, <1>6

\* The recursion of the fold goes over the places of the digits, and it takes
\* the last place of a set first.
Reads(g, v, base, S) ==
  g = [s \in SUBSET S |-> IF s = {} THEN 0 ELSE g[s \ {Max(s)}] * base + v[Max(s)]]

Topped(S) == IsFiniteSet(S) /\ \A s \in SUBSET S : s # {} => Max(s) \in s

LEMMA NumbersTopped ==
  ASSUME NEW n \in Nat
  PROVE  Topped(1 .. n)
<1>1. IsFiniteSet(1 .. n)
  BY FS_Interval
<1>2. \A s \in SUBSET (1 .. n) : s # {} => Max(s) \in s
  BY LargestOf
<1>3. QED
  BY <1>1, <1>2 DEF Topped

LEMMA NumberUnfolds ==
  ASSUME NEW v, NEW base
  PROVE  Number(v, base) = (CHOOSE g : Reads(g, v, base, DOMAIN v))[DOMAIN v]
BY DEF Number, FoldLeft, MapThenFoldSet, Reads

LEMMA ReadAt ==
  ASSUME NEW g, NEW v, NEW base, NEW S, Reads(g, v, base, S)
  PROVE  /\ g[{}] = 0
         /\ \A s \in SUBSET S : s # {} => g[s] = g[s \ {Max(s)}] * base + v[Max(s)]
BY DEF Reads

LEMMA ReadsAgree ==
  ASSUME NEW v, NEW base, NEW S, NEW T, Topped(S), NEW g, NEW h,
         Reads(g, v, base, S), Reads(h, v, base, T)
  PROVE  \A s \in SUBSET S : s \in SUBSET T => g[s] = h[s]
<1> DEFINE C == {s \in SUBSET S : s \in SUBSET T /\ g[s] # h[s]}
<1>1. SUFFICES ASSUME C # {} PROVE FALSE
  OBVIOUS
<1>0. C \in SUBSET (SUBSET S)
  OBVIOUS
<1>2. IsFiniteSet(S)
  BY DEF Topped
<1>3. PICK s \in C : \A U \in C : U \subseteq s => U = s
  <2> HIDE DEF C
  <2>1. QED
    BY <1>0, <1>1, <1>2, SmallestSet
<1>4. s # {}
  BY ReadAt
<1>5. Max(s) \in s
  BY <1>4 DEF Topped
<1> DEFINE r == s \ {Max(s)}
<1>6. r \in SUBSET S /\ r \in SUBSET T /\ r \subseteq s /\ r # s
  BY <1>5
<1>7. g[r] = h[r]
  BY <1>3, <1>6
<1>8. g[s] = g[r] * base + v[Max(s)] /\ h[s] = h[r] * base + v[Max(s)]
  <2>1. s \in SUBSET S /\ s \in SUBSET T
    OBVIOUS
  <2>2. \A u \in SUBSET S : u # {} => g[u] = g[u \ {Max(u)}] * base + v[Max(u)]
    BY DEF Reads
  <2>3. \A u \in SUBSET T : u # {} => h[u] = h[u \ {Max(u)}] * base + v[Max(u)]
    BY DEF Reads
  <2>4. QED
    BY <1>4, <2>1, <2>2, <2>3, Zenon
<1>9. QED
  BY <1>7, <1>8

LEMMA ReadsExist ==
  ASSUME NEW v, NEW base, NEW S, Topped(S)
  PROVE  \E g : Reads(g, v, base, S)
<1> DEFINE C == {T \in SUBSET S : ~\E g : Reads(g, v, base, T)}
<1>1. SUFFICES ASSUME C # {} PROVE FALSE
  OBVIOUS
<1>0. C \in SUBSET (SUBSET S)
  OBVIOUS
<1>2. IsFiniteSet(S)
  BY DEF Topped
<1>3. PICK T \in C : \A U \in C : U \subseteq T => U = T
  <2> HIDE DEF C
  <2>1. QED
    BY <1>0, <1>1, <1>2, SmallestSet
<1> DEFINE G(U) == CHOOSE g : Reads(g, v, base, U)
           Rest(s) == s \ {Max(s)}
           h == [s \in SUBSET T |-> IF s = {} THEN 0 ELSE G(Rest(s))[Rest(s)] * base + v[Max(s)]]
<1>5. \A U \in SUBSET T : U # T => Reads(G(U), v, base, U)
  BY <1>3
<1>6. \A s \in SUBSET T : s # {} => Rest(s) \in SUBSET T /\ Rest(s) # T /\ Rest(s) \in SUBSET s
  <2> SUFFICES ASSUME NEW s \in SUBSET T, s # {}
               PROVE  Rest(s) \in SUBSET T /\ Rest(s) # T /\ Rest(s) \in SUBSET s
    OBVIOUS
  <2>1. Max(s) \in s
    BY DEF Topped
  <2>2. QED
    BY <2>1
<1> HIDE DEF G
<1>7. \A U \in SUBSET T : U # T => h[U] = G(U)[U]
  <2> SUFFICES ASSUME NEW U \in SUBSET T, U # T PROVE h[U] = G(U)[U]
    OBVIOUS
  <2>1. Reads(G(U), v, base, U)
    BY <1>5
  <2>2. CASE U = {}
    BY <2>1, <2>2, ReadAt
  <2>3. CASE U # {}
    <3> DEFINE V == Rest(U)
    <3>1. V \in SUBSET T /\ V # T /\ V \in SUBSET U
      BY <1>6, <2>3
    <3>2. Reads(G(V), v, base, V) /\ Topped(V)
      <4> HIDE DEF V
      <4>1. Topped(V)
        BY <3>1, FS_Subset DEF Topped
      <4>2. QED
        BY <1>5, <3>1, <4>1
    <3>3. G(V)[V] = G(U)[V]
      <4> HIDE DEF V
      <4>1. V \in SUBSET V
        OBVIOUS
      <4>2. QED
        BY <2>1, <3>1, <3>2, <4>1, ReadsAgree
    <3>4. G(U)[U] = G(U)[V] * base + v[Max(U)]
      BY <2>1, <2>3, ReadAt
    <3>5. h[U] = G(V)[V] * base + v[Max(U)]
      BY <2>3
    <3>6. QED
      BY <3>3, <3>4, <3>5
  <2>4. QED
    BY <2>2, <2>3
<1>8. Reads(h, v, base, T)
  <2>1. \A s \in SUBSET T : s # {} => h[s] = h[Rest(s)] * base + v[Max(s)]
    <3> SUFFICES ASSUME NEW s \in SUBSET T, s # {} PROVE h[s] = h[Rest(s)] * base + v[Max(s)]
      OBVIOUS
    <3>1. h[Rest(s)] = G(Rest(s))[Rest(s)]
      BY <1>6, <1>7
    <3>2. h[s] = G(Rest(s))[Rest(s)] * base + v[Max(s)]
      OBVIOUS
    <3>3. QED
      BY <3>1, <3>2
  <2>2. h[{}] = 0
    OBVIOUS
  <2>3. PICK f : f = h
    OBVIOUS
  <2>4. \A s \in SUBSET T : f[s] = IF s = {} THEN 0 ELSE f[Rest(s)] * base + v[Max(s)]
    BY <2>1, <2>2, <2>3
  <2>5. f = [s \in SUBSET T |-> f[s]]
    BY <2>3
  <2>6. f = [s \in SUBSET T |-> IF s = {} THEN 0 ELSE f[Rest(s)] * base + v[Max(s)]]
    BY <2>4, <2>5
  <2>7. Reads(f, v, base, T)
    BY <2>6 DEF Reads
  <2>8. QED
    BY <2>3, <2>7
<1>9. QED
  BY <1>3, <1>8

\* A number by its digits, from the first one on.
Horner(f, v, base, n) ==
  f[0] = 0 /\ \A k \in 0 .. n : k < n => f[k + 1] = f[k] * base + v[k + 1]

LEMMA NumberIs ==
  ASSUME NEW v, NEW base, NEW n \in Nat, DOMAIN v = 1 .. n
  PROVE  \E f : Horner(f, v, base, n) /\ Number(v, base) = f[n]
<1>1. PICK g : Reads(g, v, base, 1 .. n) /\ Number(v, base) = g[1 .. n]
  BY NumberUnfolds, NumbersTopped, ReadsExist
<1> DEFINE f == [k \in 0 .. n |-> g[1 .. k]]
<1>2. f[0] = 0
  <2>1. 1 .. 0 = {}
    OBVIOUS
  <2>2. QED
    BY <1>1, <2>1, ReadAt
<1>3. ASSUME NEW k \in 0 .. n, k < n PROVE f[k + 1] = f[k] * base + v[k + 1]
  <2> DEFINE s == 1 .. (k + 1)
  <2>1. s \in SUBSET (1 .. n) /\ k + 1 \in s /\ k + 1 \in 0 .. n
    BY <1>3
  <2>2. Max(s) \in s /\ \A i \in s : i <= Max(s)
    <3> HIDE DEF s
    <3>1. QED
      BY <2>1, LargestOf, Zenon
  <2>3. Max(s) = k + 1
    BY <2>1, <2>2
  <2>4. s \ {k + 1} = 1 .. k
    OBVIOUS
  <2>5. g[s] = g[s \ {Max(s)}] * base + v[Max(s)]
    <3> HIDE DEF s
    <3>1. \A u \in SUBSET (1 .. n) : u # {} => g[u] = g[u \ {Max(u)}] * base + v[Max(u)]
      BY <1>1 DEF Reads
    <3>2. s # {}
      BY <2>1
    <3>3. QED
      BY <2>1, <3>1, <3>2, Zenon
  <2>6. g[s] = g[1 .. k] * base + v[k + 1]
    BY <2>3, <2>4, <2>5
  <2>7. QED
    BY <2>1, <2>6
<1>4. Number(v, base) = f[n]
  BY <1>1
<1>5. QED
  BY <1>2, <1>3, <1>4 DEF Horner

LEMMA HornerType ==
  ASSUME NEW f, NEW v, NEW base \in Nat, NEW n \in Nat, Horner(f, v, base, n),
         \A i \in 1 .. n : v[i] \in Nat
  PROVE  \A k \in 0 .. n : f[k] \in Nat
<1> DEFINE A == {k \in Nat : k <= n => f[k] \in Nat}
<1>1. 0 \in A
  BY DEF Horner
<1>2. ASSUME NEW k \in Nat, k \in A PROVE k + 1 \in A
  <2>1. SUFFICES ASSUME k + 1 <= n PROVE f[k + 1] \in Nat
    OBVIOUS
  <2>2. k \in 0 .. n /\ k < n /\ k + 1 \in 1 .. n /\ f[k] \in Nat
    BY <1>2, <2>1
  <2>3. f[k + 1] = f[k] * base + v[k + 1] /\ v[k + 1] \in Nat
    BY <2>2 DEF Horner
  <2>4. f[k] * base \in Nat
    BY <2>2
  <2>5. QED
    BY <2>3, <2>4
<1>3. \A k \in Nat : k \in A
  <2> HIDE DEF A
  <2>1. QED
    BY <1>1, <1>2, NumbersIn
<1>4. QED
  BY <1>3

LEMMA NumberType ==
  ASSUME NEW v, NEW base \in Nat, NEW n \in Nat, DOMAIN v = 1 .. n,
         \A i \in 1 .. n : v[i] \in Nat
  PROVE  Number(v, base) \in Nat
<1>1. PICK f : Horner(f, v, base, n) /\ Number(v, base) = f[n]
  BY NumberIs
<1>2. \A k \in 0 .. n : f[k] \in Nat
  BY <1>1, HornerType
<1>3. QED
  BY <1>1, <1>2

\* One more of the digits before a digit outweighs it.
LEMMA DigitOutweighed ==
  ASSUME NEW a \in Nat, NEW b \in Nat, NEW base \in Nat, a < b,
         NEW x \in Nat, NEW y \in Nat, x < base
  PROVE  a * base + x < b * base + y
<1>1. PICK c \in Nat : b = a + 1 + c
  <2>1. b - a - 1 \in Nat /\ b = a + 1 + (b - a - 1)
    OBVIOUS
  <2>2. QED
    BY <2>1
<1>2. b * base = a * base + base + c * base
  BY <1>1
<1>3. c * base \in Nat /\ a * base \in Nat /\ b * base \in Nat
  OBVIOUS
<1>4. QED
  BY <1>2, <1>3

LEMMA NumberOrder ==
  ASSUME NEW v, NEW w, NEW base \in Nat, NEW n \in Nat,
         DOMAIN v = 1 .. n, DOMAIN w = 1 .. n,
         \A i \in 1 .. n : v[i] \in 0 .. base - 1 /\ w[i] \in 0 .. base - 1,
         NEW d \in 1 .. n, v[d] < w[d], \A i \in 1 .. d - 1 : v[i] = w[i]
  PROVE  Number(v, base) < Number(w, base)
<1>1. PICK f : Horner(f, v, base, n) /\ Number(v, base) = f[n]
  BY NumberIs
<1>2. PICK g : Horner(g, w, base, n) /\ Number(w, base) = g[n]
  BY NumberIs
<1>3. \A i \in 1 .. n : v[i] \in Nat /\ w[i] \in Nat /\ v[i] < base
  OBVIOUS
<1>4. \A k \in 0 .. n : f[k] \in Nat /\ g[k] \in Nat
  BY <1>1, <1>2, <1>3, HornerType
<1>5. \A k \in 0 .. n : k < n => /\ f[k + 1] = f[k] * base + v[k + 1]
                                /\ g[k + 1] = g[k] * base + w[k + 1]
  BY <1>1, <1>2 DEF Horner
<1> DEFINE A == {k \in Nat : k < d => f[k] = g[k]}
           B == {k \in Nat : d + k <= n => f[d + k] < g[d + k]}
<1>6. 0 \in A
  BY <1>1, <1>2 DEF Horner
<1>7. ASSUME NEW k \in Nat, k \in A PROVE k + 1 \in A
  <2>1. SUFFICES ASSUME k + 1 < d PROVE f[k + 1] = g[k + 1]
    OBVIOUS
  <2>2. k \in 0 .. n /\ k < n /\ k + 1 \in 1 .. d - 1 /\ f[k] = g[k]
    BY <1>7, <2>1
  <2>3. v[k + 1] = w[k + 1]
    BY <2>2
  <2>4. QED
    BY <1>5, <2>2, <2>3
<1>8. \A k \in Nat : k \in A
  <2> HIDE DEF A
  <2>1. QED
    BY <1>6, <1>7, NumbersIn
<1>9. f[d] < g[d]
  <2>1. PICK e : e = d - 1
    OBVIOUS
  <2>2. e \in Nat /\ e \in 0 .. n /\ e < n /\ e + 1 = d /\ e < d
    BY <2>1
  <2>3. f[e] = g[e] /\ f[e] \in Nat
    BY <1>4, <1>8, <2>2
  <2>4. f[d] = f[e] * base + v[d] /\ g[d] = f[e] * base + w[d]
    BY <1>5, <2>2, <2>3
  <2>5. f[e] * base \in Nat
    BY <2>3
  <2>6. QED
    BY <1>3, <2>4, <2>5
<1>10. 0 \in B
  BY <1>9
<1>11. ASSUME NEW k \in Nat, k \in B PROVE k + 1 \in B
  <2>1. PICK e : e = d + k
    OBVIOUS
  <2>2. SUFFICES ASSUME d + (k + 1) <= n PROVE f[d + (k + 1)] < g[d + (k + 1)]
    OBVIOUS
  <2>3. e \in 0 .. n /\ e < n /\ e + 1 \in 1 .. n /\ d + (k + 1) = e + 1 /\ f[e] < g[e]
    BY <1>11, <2>1, <2>2
  <2>4. f[e] \in Nat /\ g[e] \in Nat /\ v[e + 1] \in Nat /\ w[e + 1] \in Nat /\ v[e + 1] < base
    BY <1>3, <1>4, <2>3
  <2>5. f[e] * base + v[e + 1] < g[e] * base + w[e + 1]
    BY <2>3, <2>4, DigitOutweighed
  <2>6. QED
    BY <1>5, <2>3, <2>5
<1>12. \A k \in Nat : k \in B
  <2> HIDE DEF B
  <2>1. QED
    BY <1>10, <1>11, NumbersIn
<1>13. PICK k \in Nat : k = n - d
  OBVIOUS
<1>14. d + k = n /\ d + k <= n
  BY <1>13
<1>15. f[n] < g[n]
  BY <1>12, <1>14
<1>16. QED
  BY <1>1, <1>2, <1>15

-----------------------------------------------------------------------------
(* Texts without their hyphens.                                            *)
Keeps(f, t) ==
  f = [i \in 0 .. Len(t) |-> IF i = 0 THEN <<>>
                             ELSE IF t[i] = Hyphen THEN f[i - 1] ELSE Append(f[i - 1], t[i])]

\* What is kept of a text after each of its bytes.
Keeping(f, t) ==
  /\ f[0] = <<>>
  /\ \A i \in 0 .. Len(t) : f[i] \in Seq(Nat)
  /\ \A i \in 0 .. Len(t) : i < Len(t) =>
       f[i + 1] = IF t[i + 1] = Hyphen THEN f[i] ELSE Append(f[i], t[i + 1])

LEMMA KeptOf ==
  ASSUME NEW t \in Seq(Nat)
  PROVE  \E f : Keeping(f, t) /\ Unhyphenated(t) = f[Len(t)]
<1> DEFINE n == Len(t)
           V == Seq(Nat)
           F == [i \in Nat |-> [v \in V |->
                   IF i >= n \/ t[i + 1] = Hyphen THEN v ELSE Append(v, t[i + 1])]]
<1>1. n \in Nat /\ \A i \in 1 .. n : t[i] \in Nat
  BY LenProperties, ElementOfSeq
<1>2. F \in [Nat -> [V -> V]] /\ <<>> \in V
  <2>1. ASSUME NEW i \in Nat, NEW v \in V
        PROVE  (IF i >= n \/ t[i + 1] = Hyphen THEN v ELSE Append(v, t[i + 1])) \in V
    <3>1. CASE i < n
      <4>1. t[i + 1] \in Nat
        BY <1>1, <3>1
      <4>2. Append(v, t[i + 1]) \in V
        BY <4>1, AppendProperties
      <4>3. QED
        BY <4>2
    <3>2. CASE i >= n
      BY <3>2
    <3>3. QED
      BY <1>1, <3>1, <3>2
  <2>2. QED
    BY <2>1, EmptySeq
<1>3. \A i \in Nat, v \in V : i < n =>
        F[i][v] = IF t[i + 1] = Hyphen THEN v ELSE Append(v, t[i + 1])
  BY <1>1
<1> HIDE DEF n, V, F
<1>4. PICK g : Runs(V, <<>>, F, g)
  BY <1>2, RecursionExists
<1>5. /\ g \in [Nat -> V] /\ g[0] = <<>>
      /\ \A i \in Nat : i < n => g[i + 1] = IF t[i + 1] = Hyphen THEN g[i] ELSE Append(g[i], t[i + 1])
  BY <1>3, <1>4 DEF Runs
<1> DEFINE k == [i \in 0 .. n |-> g[i]]
<1>6. \A i \in 0 .. n : k[i] = IF i = 0 THEN <<>>
                               ELSE IF t[i] = Hyphen THEN k[i - 1] ELSE Append(k[i - 1], t[i])
  <2> SUFFICES ASSUME NEW i \in 0 .. n
               PROVE  k[i] = IF i = 0 THEN <<>>
                             ELSE IF t[i] = Hyphen THEN k[i - 1] ELSE Append(k[i - 1], t[i])
    OBVIOUS
  <2>1. CASE i = 0
    BY <1>5, <2>1
  <2>2. CASE i # 0
    <3>1. PICK j \in Nat : j = i - 1
      BY <2>2
    <3>2. j \in 0 .. n /\ j < n /\ j + 1 = i
      BY <1>1, <3>1
    <3>3. k[i] = g[j + 1] /\ k[j] = g[j]
      BY <3>2
    <3>4. k[i] = IF t[i] = Hyphen THEN k[j] ELSE Append(k[j], t[i])
      BY <1>5, <3>2, <3>3
    <3>5. QED
      BY <2>2, <3>1, <3>4
  <2>3. QED
    BY <2>1, <2>2
<1>7. Keeps(k, t)
  BY <1>6 DEF Keeps, n
<1>8. PICK f : Keeps(f, t) /\ Unhyphenated(t) = f[Len(t)]
  <2>1. Unhyphenated(t) = (CHOOSE f : Keeps(f, t))[Len(t)]
    BY DEF Unhyphenated, Keeps
  <2>2. QED
    BY <1>7, <2>1
<1>9. Keeping(f, t)
  <2>1. f = [i \in 0 .. n |-> IF i = 0 THEN <<>>
                              ELSE IF t[i] = Hyphen THEN f[i - 1] ELSE Append(f[i - 1], t[i])]
    BY <1>8 DEF Keeps, n
  <2>2. \A i \in 0 .. n : f[i] = IF i = 0 THEN <<>>
                                 ELSE IF t[i] = Hyphen THEN f[i - 1] ELSE Append(f[i - 1], t[i])
    <3>1. PICK h : h = [i \in 0 .. n |-> IF i = 0 THEN <<>>
                              ELSE IF t[i] = Hyphen THEN f[i - 1] ELSE Append(f[i - 1], t[i])]
      OBVIOUS
    <3>2. \A i \in 0 .. n : h[i] = IF i = 0 THEN <<>>
                                 ELSE IF t[i] = Hyphen THEN f[i - 1] ELSE Append(f[i - 1], t[i])
      BY <3>1, Zenon
    <3>3. h = f
      BY <2>1, <3>1, Zenon
    <3>4. QED
      BY <3>2, <3>3, Zenon
  <2>3. f[0] = <<>>
    BY <1>1, <2>2
  <2>4. ASSUME NEW i \in 0 .. n, i < n
        PROVE  f[i + 1] = IF t[i + 1] = Hyphen THEN f[i] ELSE Append(f[i], t[i + 1])
    <3>1. i + 1 \in 0 .. n /\ i + 1 # 0 /\ (i + 1) - 1 = i
      BY <1>1, <2>4
    <3>2. QED
      BY <2>2, <3>1
  <2> DEFINE A == {i \in Nat : i <= n => f[i] \in Seq(Nat)}
  <2>5. 0 \in A
    BY <2>3, EmptySeq
  <2>6. ASSUME NEW i \in Nat, i \in A PROVE i + 1 \in A
    <3>1. SUFFICES ASSUME i + 1 <= n PROVE f[i + 1] \in Seq(Nat)
      OBVIOUS
    <3>2. i \in 0 .. n /\ i < n /\ i + 1 \in 1 .. n /\ f[i] \in Seq(Nat)
      BY <1>1, <2>6, <3>1
    <3>3. t[i + 1] \in Nat
      BY <1>1, <3>2 DEF n
    <3>4. Append(f[i], t[i + 1]) \in Seq(Nat)
      BY <3>2, <3>3, AppendProperties
    <3>5. QED
      BY <2>4, <3>2, <3>4
  <2>7. \A i \in Nat : i \in A
    <3> HIDE DEF A
    <3>1. QED
      BY <2>5, <2>6, NumbersIn
  <2>8. \A i \in 0 .. n : f[i] \in Seq(Nat)
    BY <1>1, <2>7
  <2>9. QED
    BY <2>3, <2>4, <2>8 DEF Keeping, n
<1>10. QED
  BY <1>8, <1>9

\* Two texts are the same before a place, where the second one is ahead.
Ahead(a, b, m) ==
  /\ a \in Seq(Nat) /\ b \in Seq(Nat) /\ Len(a) = Len(b)
  /\ m \in 1 .. Len(a) /\ a[m] < b[m]
  /\ \A i \in 1 .. m - 1 : a[i] = b[i]

LEMMA AheadBy ==
  ASSUME NEW c \in Seq(Nat), NEW x \in Nat, NEW y \in Nat, x < y
  PROVE  /\ Ahead(Append(c, x), Append(c, y), Len(c) + 1)
         /\ Append(c, x)[Len(c) + 1] = x /\ Append(c, y)[Len(c) + 1] = y
<1>1. Len(c) \in Nat
  BY LenProperties
<1>2. \A z \in Nat : /\ Append(c, z) \in Seq(Nat) /\ Len(Append(c, z)) = Len(c) + 1
                     /\ Append(c, z)[Len(c) + 1] = z
                     /\ \A i \in 1 .. Len(c) : Append(c, z)[i] = c[i]
  BY AppendProperties
<1>3. QED
  BY <1>1, <1>2 DEF Ahead

LEMMA StaysAhead ==
  ASSUME NEW a, NEW b, NEW m, Ahead(a, b, m), NEW x \in Nat, NEW y \in Nat
  PROVE  Ahead(Append(a, x), Append(b, y), m)
<1>1. /\ a \in Seq(Nat) /\ b \in Seq(Nat) /\ Len(a) = Len(b) /\ Len(a) \in Nat
      /\ m \in 1 .. Len(a) /\ a[m] < b[m] /\ \A i \in 1 .. m - 1 : a[i] = b[i]
  BY LenProperties DEF Ahead
<1>0. \A c \in Seq(Nat), z \in Nat :
        /\ Append(c, z) \in Seq(Nat) /\ Len(Append(c, z)) = Len(c) + 1
        /\ \A i \in 1 .. Len(c) : Append(c, z)[i] = c[i]
  BY AppendProperties
<1>2. /\ Append(a, x) \in Seq(Nat) /\ Len(Append(a, x)) = Len(a) + 1
      /\ \A i \in 1 .. Len(a) : Append(a, x)[i] = a[i]
  BY <1>0, <1>1, Zenon
<1>3. /\ Append(b, y) \in Seq(Nat) /\ Len(Append(b, y)) = Len(a) + 1
      /\ \A i \in 1 .. Len(a) : Append(b, y)[i] = b[i]
  BY <1>0, <1>1, Zenon
<1>4. \A i \in 1 .. m - 1 : i \in 1 .. Len(a)
  BY <1>1
<1>5. m \in 1 .. Len(a) + 1
  BY <1>1
<1> DEFINE u == Append(a, x)
           w == Append(b, y)
<1>6. u[m] < w[m] /\ \A i \in 1 .. m - 1 : u[i] = w[i]
  BY <1>1, <1>2, <1>3, <1>4
<1>7. QED
  BY <1>2, <1>3, <1>5, <1>6 DEF Ahead

LEMMA KeptOrder ==
  ASSUME NEW s, NEW t, NEW d, Ahead(s, t, d),
         \A i \in 1 .. Len(s) : s[i] = Hyphen <=> t[i] = Hyphen
  PROVE  \E m : /\ Ahead(Unhyphenated(s), Unhyphenated(t), m)
                /\ Unhyphenated(s)[m] = s[d] /\ Unhyphenated(t)[m] = t[d]
<1> DEFINE n == Len(s)
<1>1. /\ s \in Seq(Nat) /\ t \in Seq(Nat) /\ Len(t) = n /\ n \in Nat
      /\ d \in 1 .. n /\ s[d] < t[d] /\ \A i \in 1 .. d - 1 : s[i] = t[i]
  BY LenProperties DEF Ahead
<1>2. \A i \in 1 .. n : s[i] \in Nat /\ t[i] \in Nat
  BY <1>1, ElementOfSeq
<1>3. PICK f : Keeping(f, s) /\ Unhyphenated(s) = f[n]
  BY <1>1, KeptOf
<1>4. PICK g : Keeping(g, t) /\ Unhyphenated(t) = g[n]
  BY <1>1, KeptOf
<1>5. \A i \in 0 .. n : f[i] \in Seq(Nat) /\ g[i] \in Seq(Nat)
  BY <1>1, <1>3, <1>4 DEF Keeping
<1>6. \A i \in 0 .. n : i < n =>
        /\ f[i + 1] = IF s[i + 1] = Hyphen THEN f[i] ELSE Append(f[i], s[i + 1])
        /\ g[i + 1] = IF t[i + 1] = Hyphen THEN g[i] ELSE Append(g[i], t[i + 1])
  BY <1>1, <1>3, <1>4 DEF Keeping
<1>7. f[0] = <<>> /\ g[0] = <<>>
  BY <1>3, <1>4 DEF Keeping
<1>8. s[d] # Hyphen /\ t[d] # Hyphen
  BY <1>1, <1>2
<1> HIDE DEF n
<1> DEFINE A == {k \in Nat : k < d => f[k] = g[k]}
<1>9. 0 \in A
  BY <1>7
<1>10. ASSUME NEW k \in Nat, k \in A PROVE k + 1 \in A
  <2>1. SUFFICES ASSUME k + 1 < d PROVE f[k + 1] = g[k + 1]
    OBVIOUS
  <2>2. k \in 0 .. n /\ k < n /\ k + 1 \in 1 .. d - 1 /\ f[k] = g[k]
    <3>1. f[k] = g[k]
      BY <1>1, <1>10, <2>1
    <3> HIDE DEF A
    <3>2. QED
      BY <1>1, <2>1, <3>1
  <2>3. s[k + 1] = t[k + 1]
    BY <1>1, <2>2
  <2>4. QED
    BY <1>6, <2>2, <2>3
<1>11. \A k \in Nat : k \in A
  <2> HIDE DEF A
  <2>1. QED
    BY <1>9, <1>10, NumbersIn
<1>12. PICK e : e = d - 1
  OBVIOUS
<1>13. e \in Nat /\ e \in 0 .. n /\ e < n /\ e + 1 = d /\ e < d
  BY <1>1, <1>12
<1>14. PICK c : c = f[e]
  OBVIOUS
<1>15. c \in Seq(Nat) /\ f[d] = Append(c, s[d]) /\ g[d] = Append(c, t[d])
  <2>1. g[e] = c /\ c \in Seq(Nat)
    BY <1>5, <1>11, <1>13, <1>14
  <2>2. QED
    BY <1>6, <1>8, <1>13, <1>14, <2>1
<1>16. PICK m : m = Len(c) + 1
  OBVIOUS
<1> DEFINE Apart(a, b) == Ahead(a, b, m) /\ a[m] = s[d] /\ b[m] = t[d]
<1>17. Apart(f[d], g[d])
  <2>1. PICK x, y : x = s[d] /\ y = t[d] /\ x \in Nat /\ y \in Nat /\ x < y
    BY <1>1, <1>2
  <2>2. /\ Ahead(Append(c, x), Append(c, y), Len(c) + 1)
        /\ Append(c, x)[Len(c) + 1] = x /\ Append(c, y)[Len(c) + 1] = y
    BY <1>15, <2>1, AheadBy
  <2>3. QED
    BY <1>15, <1>16, <2>1, <2>2
<1> DEFINE B == {k \in Nat : d + k <= n => Apart(f[d + k], g[d + k])}
<1>18. 0 \in B
  <2>1. d + 0 = d
    BY <1>1
  <2>2. QED
    BY <1>17, <2>1
<1>19. ASSUME NEW k \in Nat, k \in B PROVE k + 1 \in B
  <2>1. PICK j : j = d + k
    OBVIOUS
  <2>2. SUFFICES ASSUME d + (k + 1) <= n PROVE Apart(f[d + (k + 1)], g[d + (k + 1)])
    OBVIOUS
  <2>3. j \in 0 .. n /\ j < n /\ j + 1 \in 1 .. n /\ d + (k + 1) = j + 1
    BY <1>1, <2>1, <2>2
  <2>4. Apart(f[j], g[j])
    BY <1>19, <2>1, <2>3
  <2>5. Apart(f[j + 1], g[j + 1])
    <3>1. s[j + 1] \in Nat /\ t[j + 1] \in Nat /\ (s[j + 1] = Hyphen <=> t[j + 1] = Hyphen)
      BY <1>2, <2>3 DEF n
    <3>2. CASE s[j + 1] = Hyphen
      BY <1>6, <2>3, <2>4, <3>1, <3>2
    <3>3. CASE s[j + 1] # Hyphen
      <4>1. f[j + 1] = Append(f[j], s[j + 1]) /\ g[j + 1] = Append(g[j], t[j + 1])
        BY <1>6, <2>3, <3>1, <3>3
      <4>2. Apart(Append(f[j], s[j + 1]), Append(g[j], t[j + 1]))
        <5>1. PICK a, b : a = f[j] /\ b = g[j]
          OBVIOUS
        <5>2. PICK x, y : x = s[j + 1] /\ y = t[j + 1]
          OBVIOUS
        <5>3. x \in Nat /\ y \in Nat
          BY <3>1, <5>2
        <5>4. Ahead(a, b, m) /\ a[m] = s[d] /\ b[m] = t[d]
          BY <2>4, <5>1
        <5>5. /\ Ahead(Append(a, x), Append(b, y), m)
              /\ Append(a, x)[m] = a[m] /\ Append(b, y)[m] = b[m]
          <6> HIDE DEF Apart, A, B
          <6>1. Ahead(a, b, m)
            BY <5>4
          <6>2. Ahead(Append(a, x), Append(b, y), m)
            BY <5>3, <6>1, StaysAhead
          <6>3. a \in Seq(Nat) /\ b \in Seq(Nat) /\ m \in 1 .. Len(a) /\ m \in 1 .. Len(b)
            BY <6>1 DEF Ahead
          <6>4. Append(a, x)[m] = a[m] /\ Append(b, y)[m] = b[m]
            BY <5>3, <6>3, AppendProperties
          <6>5. QED
            BY <6>2, <6>4
        <5>6. Apart(Append(a, x), Append(b, y))
          BY <5>4, <5>5
        <5>7. QED
          BY <5>1, <5>2, <5>6
      <4>3. QED
        BY <4>1, <4>2
    <3>4. QED
      BY <3>2, <3>3
  <2>6. QED
    BY <2>3, <2>5
<1>20. \A k \in Nat : k \in B
  <2> HIDE DEF B
  <2>1. QED
    BY <1>18, <1>19, NumbersIn
<1>21. PICK k \in Nat : d + k = n
  <2>1. n - d \in Nat /\ d + (n - d) = n
    BY <1>1
  <2>2. QED
    BY <2>1
<1>22. Apart(f[n], g[n])
  <2>1. d + k <= n
    BY <1>1, <1>21
  <2>2. QED
    BY <1>20, <1>21, <2>1
<1>23. QED
  BY <1>3, <1>4, <1>22

-----------------------------------------------------------------------------
(* The digits of identifiers.                                              *)
LEMMA HexRange ==
  ASSUME NEW b \in Nat, HexDigitValue(b) # None
  PROVE  HexDigitValue(b) \in 0 .. 15
BY DEF HexDigitValue, IsDigit, Upper

LEMMA HexOrder ==
  ASSUME NEW b \in Nat, NEW c \in Nat, Upper(b) = b, Upper(c) = c, b < c,
         HexDigitValue(b) # None, HexDigitValue(c) # None
  PROVE  HexDigitValue(b) < HexDigitValue(c)
<1>1. /\ b \in 48 .. 57 => HexDigitValue(b) = b - 48
      /\ b \notin 48 .. 57 => b \in 65 .. 70 /\ HexDigitValue(b) = b - 55
  BY DEF HexDigitValue, IsDigit
<1>2. /\ c \in 48 .. 57 => HexDigitValue(c) = c - 48
      /\ c \notin 48 .. 57 => c \in 65 .. 70 /\ HexDigitValue(c) = c - 55
  BY DEF HexDigitValue, IsDigit
<1>3. QED
  BY <1>1, <1>2

LEMMA LettersAscend ==
  /\ DOMAIN CrockfordLetters = 1 .. 22
  /\ \A i \in 1 .. 22 : CrockfordLetters[i] \in 65 .. 90
  /\ \A i, j \in 1 .. 22 : i < j => CrockfordLetters[i] < CrockfordLetters[j]
BY DEF CrockfordLetters

LEMMA LetterAt ==
  ASSUME NEW b \in Nat, ~IsDigit(b), Crockford(b) # None
  PROVE  \E i \in 1 .. 22 : CrockfordLetters[i] = Upper(b) /\ Crockford(b) = 9 + i
<1>1. \E i \in 1 .. 22 : CrockfordLetters[i] = Upper(b)
  BY LettersAscend DEF Crockford
<1> DEFINE i == CHOOSE i \in 1 .. 22 : CrockfordLetters[i] = Upper(b)
<1>2. i \in 1 .. 22 /\ CrockfordLetters[i] = Upper(b)
  BY <1>1
<1>3. Crockford(b) = 9 + i
  BY <1>1, LettersAscend DEF Crockford
<1>4. QED
  BY <1>2, <1>3

LEMMA CrockfordRange ==
  ASSUME NEW b \in Nat, Crockford(b) # None
  PROVE  Crockford(b) \in 0 .. 31
<1>1. CASE IsDigit(b)
  BY <1>1 DEF Crockford, IsDigit
<1>2. CASE ~IsDigit(b)
  BY <1>2, LetterAt
<1>3. QED
  BY <1>1, <1>2

LEMMA CrockfordOrder ==
  ASSUME NEW b \in Nat, NEW c \in Nat, Upper(b) = b, Upper(c) = c, b < c,
         Crockford(b) # None, Crockford(c) # None
  PROVE  Crockford(b) < Crockford(c)
<1>1. CASE IsDigit(b) /\ IsDigit(c)
  BY <1>1 DEF Crockford, IsDigit
<1>2. CASE IsDigit(b) /\ ~IsDigit(c)
  <2>1. Crockford(b) < 10
    BY <1>2 DEF Crockford, IsDigit
  <2>2. Crockford(c) >= 10 /\ Crockford(c) \in Nat
    BY <1>2, LetterAt
  <2>3. Crockford(b) \in Nat
    BY CrockfordRange
  <2>4. QED
    BY <2>1, <2>2, <2>3
<1>3. CASE ~IsDigit(b) /\ ~IsDigit(c)
  <2>1. PICK i \in 1 .. 22 : CrockfordLetters[i] = b /\ Crockford(b) = 9 + i
    BY <1>3, LetterAt
  <2>2. PICK j \in 1 .. 22 : CrockfordLetters[j] = c /\ Crockford(c) = 9 + j
    BY <1>3, LetterAt
  <2>3. \A k, l \in 1 .. 22 : k < l => CrockfordLetters[k] < CrockfordLetters[l]
    BY LettersAscend
  <2>4. i < j
    BY <2>1, <2>2, <2>3
  <2>5. QED
    BY <2>1, <2>2, <2>4
<1>4. CASE ~IsDigit(b) /\ IsDigit(c)
  <2>1. PICK i \in 1 .. 22 : CrockfordLetters[i] = b
    BY <1>4, LetterAt
  <2>2. b >= 65
    BY <2>1, LettersAscend
  <2>3. QED
    BY <1>4, <2>2 DEF IsDigit
<1>5. QED
  BY <1>1, <1>2, <1>3, <1>4

-----------------------------------------------------------------------------
(* Texts without the spaces around them.                                   *)
LEMMA EndsOf ==
  ASSUME NEW n \in Nat, NEW S \in SUBSET (1 .. n), S # {}
  PROVE  /\ (CHOOSE i \in S : \A j \in S : i <= j) \in 1 .. n
         /\ (CHOOSE i \in S : \A j \in S : j <= i) \in 1 .. n
<1>1. \E i \in S : \A j \in S : i <= j
  BY LeastNumber
<1>2. \E i \in S : \A j \in S : j <= i
  BY LargestOf
<1>3. QED
  BY <1>1, <1>2

LEMMA TrimType ==
  ASSUME NEW s \in Seq(Nat)
  PROVE  Trim(s) \in Seq(Nat)
<1> DEFINE n == Len(s)
           K == {i \in 1 .. n : ~IsSpace(s[i])}
           a == CHOOSE i \in K : \A j \in K : i <= j
           b == CHOOSE i \in K : \A j \in K : j <= i
<1>1. n \in Nat /\ DOMAIN s = 1 .. n
  BY LenProperties
<1>2. Trim(s) = IF K = {} THEN <<>> ELSE SubSeq(s, a, b)
  BY <1>1 DEF Trim
<1>3. CASE K = {}
  BY <1>2, <1>3, EmptySeq
<1>4. CASE K # {}
  <2>1. K \in SUBSET (1 .. n)
    OBVIOUS
  <2>2. a \in 1 .. n /\ b \in 1 .. n
    <3> HIDE DEF n, K
    <3>1. QED
      BY <1>1, <1>4, <2>1, EndsOf
  <2> HIDE DEF a, b, K
  <2>3. SubSeq(s, a, b) \in Seq(Nat)
    BY <1>1, <2>2, SubSeqProperties
  <2>4. QED
    BY <1>2, <1>4, <2>3
<1>5. QED
  BY <1>3, <1>4

LEMMA TrimNothing ==
  ASSUME NEW s \in Seq(Nat), \A i \in DOMAIN s : ~IsSpace(s[i])
  PROVE  Trim(s) = s
<1> DEFINE n == Len(s)
<1>1. n \in Nat /\ DOMAIN s = 1 .. n
  BY LenProperties
<1>2. PICK K : K = {i \in DOMAIN s : ~IsSpace(s[i])}
  OBVIOUS
<1>3. K = 1 .. n
  BY <1>1, <1>2
<1>4. Trim(s) = IF K = {} THEN <<>>
                ELSE SubSeq(s, CHOOSE i \in K : \A j \in K : i <= j,
                               CHOOSE i \in K : \A j \in K : j <= i)
  BY <1>2 DEF Trim
<1>5. CASE n = 0
  <2>1. s = <<>> /\ K = {}
    BY <1>3, <1>5, EmptySeq
  <2>2. QED
    BY <1>4, <2>1
<1>6. CASE n # 0
  <2>1. (CHOOSE i \in K : \A j \in K : i <= j) = 1
    BY <1>1, <1>3, <1>6
  <2>2. (CHOOSE i \in K : \A j \in K : j <= i) = n
    BY <1>1, <1>3, <1>6
  <2>3. K # {}
    BY <1>1, <1>3, <1>6
  <2>4. Trim(s) = SubSeq(s, 1, n)
    BY <1>4, <2>1, <2>2, <2>3
  <2>5. SubSeq(s, 1, n) = s
    BY <1>1
  <2>6. QED
    BY <2>4, <2>5
<1>7. QED
  BY <1>5, <1>6

LeastOf(S) == CHOOSE i \in S : \A j \in S : i <= j
GreatestOf(S) == CHOOSE i \in S : \A j \in S : j <= i

LEMMA ExtremesOf ==
  ASSUME NEW n \in Nat, NEW S \in SUBSET (1 .. n), S # {}
  PROVE  /\ LeastOf(S) \in S /\ GreatestOf(S) \in S
         /\ \A j \in S : LeastOf(S) <= j /\ j <= GreatestOf(S)
<1>1. \E i \in S : \A j \in S : i <= j
  BY LeastNumber
<1>2. \E i \in S : \A j \in S : j <= i
  BY LargestOf
<1>3. LeastOf(S) \in S /\ \A j \in S : LeastOf(S) <= j
  BY <1>1, Zenon DEF LeastOf
<1>4. GreatestOf(S) \in S /\ \A j \in S : j <= GreatestOf(S)
  BY <1>2, Zenon DEF GreatestOf
<1>5. QED
  BY <1>3, <1>4

LEMMA TrimIs ==
  ASSUME NEW s, NEW K, K = {i \in DOMAIN s : ~IsSpace(s[i])}
  PROVE  Trim(s) = IF K = {} THEN <<>> ELSE SubSeq(s, LeastOf(K), GreatestOf(K))
BY DEF Trim, LeastOf, GreatestOf

\* What is trimmed has nothing more to trim.
LEMMA TrimTwice ==
  ASSUME NEW s \in Seq(Nat)
  PROVE  Trim(Trim(s)) = Trim(s)
<1>1. PICK n : n = Len(s)
  OBVIOUS
<1>2. n \in Nat /\ DOMAIN s = 1 .. n
  BY <1>1, LenProperties
<1>3. PICK K : K = {i \in DOMAIN s : ~IsSpace(s[i])}
  OBVIOUS
<1>4. CASE K = {}
  <2>1. Trim(s) = <<>>
    BY <1>3, <1>4, TrimIs
  <2>2. Trim(<<>>) = <<>>
    <3>1. PICK e \in Seq(Nat) : e = <<>>
      BY EmptySeq
    <3>2. DOMAIN e = {}
      BY <3>1
    <3>3. QED
      BY <3>1, <3>2, TrimNothing
  <2>3. QED
    BY <2>1, <2>2
<1>5. CASE K # {}
  <2>1. PICK a, b, l : a = LeastOf(K) /\ b = GreatestOf(K) /\ l = b - a + 1
    OBVIOUS
  <2>2. K \in SUBSET (1 .. n)
    BY <1>2, <1>3
  <2>3. a \in K /\ b \in K /\ a <= b
    BY <1>2, <1>5, <2>1, <2>2, ExtremesOf
  <2>4. a \in 1 .. n /\ b \in 1 .. n /\ ~IsSpace(s[a]) /\ ~IsSpace(s[b])
    BY <1>3, <2>2, <2>3
  <2>5. PICK t \in Seq(Nat) : t = Trim(s)
    BY TrimType
  <2>6. t = SubSeq(s, a, b)
    BY <1>3, <1>5, <2>1, <2>5, TrimIs
  <2>7. l \in Nat \ {0} /\ Len(t) = l /\ DOMAIN t = 1 .. l /\ t[1] = s[a] /\ t[l] = s[b]
    BY <1>1, <1>2, <2>1, <2>3, <2>4, <2>6, SubSeqProperties
  <2>8. PICK M : M = {i \in DOMAIN t : ~IsSpace(t[i])}
    OBVIOUS
  <2>9. 1 \in M /\ l \in M /\ M \in SUBSET (1 .. l)
    BY <2>4, <2>7, <2>8
  <2>10. PICK f, g : f = LeastOf(M) /\ g = GreatestOf(M)
    OBVIOUS
  <2>11. Trim(t) = SubSeq(t, f, g)
    BY <2>8, <2>9, <2>10, TrimIs
  <2>12. f \in M /\ g \in M /\ f <= 1 /\ l <= g
    BY <2>7, <2>9, <2>10, ExtremesOf
  <2>13. f = 1 /\ g = l
    <3>1. f \in 1 .. l /\ g \in 1 .. l
      BY <2>9, <2>12
    <3>2. QED
      BY <2>7, <2>12, <3>1
  <2>14. SubSeq(t, 1, l) = t
    BY <2>7
  <2>15. QED
    BY <2>5, <2>11, <2>13, <2>14
<1>6. QED
  BY <1>4, <1>5

-----------------------------------------------------------------------------
(* The times of identifiers.                                               *)
LEMMA Widths ==
  /\ UuidTime \in Nat /\ UlidLength \in Nat /\ UlidTime \in Nat /\ UlidTime <= UlidLength
  /\ Kilo \in Nat \ {0} /\ NanosWidth \in Nat \ {0} /\ MillisBits \in Nat
BY LayoutAssumption

LEMMA Millis ==
  /\ \A n \in Nat : FromMillis(n) \in Nat
  /\ \A n, m \in Nat : n <= m => FromMillis(n) <= FromMillis(m)
<1> DEFINE k == Kilo * Kilo
<1>1. k \in Nat
  BY Widths
<1>2. \A n \in Nat : FromMillis(n) = n * k
  BY Widths DEF FromMillis
<1> HIDE DEF k
<1>3. \A n \in Nat : n * k \in Nat
  BY <1>1
<1>4. ASSUME NEW n \in Nat, NEW m \in Nat, n <= m PROVE n * k <= m * k
  <2>1. PICK d \in Nat : m = n + d
    <3>1. m - n \in Nat /\ m = n + (m - n)
      BY <1>4
    <3>2. QED
      BY <3>1
  <2>2. m * k = n * k + d * k
    BY <1>1, <2>1
  <2>3. d * k \in Nat /\ n * k \in Nat
    BY <1>3
  <2>4. QED
    BY <2>2, <2>3
<1>5. QED
  BY <1>2, <1>3, <1>4

\* The digits of the time.
HexOf(u) == SubSeq([i \in 1 .. UuidTime + 1 |-> HexDigitValue(u[i])], 1, UuidTime)
Crockfords(t) == SubSeq([i \in DOMAIN t |-> Crockford(t[i])], 1, UlidTime)

LEMMA FirstOf ==
  ASSUME NEW f, NEW n \in Nat, NEW m \in Nat, m <= n, DOMAIN f = 1 .. n
  PROVE  SubSeq(f, 1, m) = [i \in 1 .. m |-> f[i]]
OBVIOUS

LEMMA HexOfIs ==
  ASSUME NEW u
  PROVE  HexOf(u) = [i \in 1 .. UuidTime |-> HexDigitValue(u[i])]
<1> DEFINE f == [i \in 1 .. UuidTime + 1 |-> HexDigitValue(u[i])]
<1>1. DOMAIN f = 1 .. UuidTime + 1 /\ UuidTime \in Nat /\ UuidTime + 1 \in Nat /\ UuidTime <= UuidTime + 1
  BY Widths
<1>2. \A i \in 1 .. UuidTime : f[i] = HexDigitValue(u[i])
  BY Widths
<1>3. HexOf(u) = SubSeq(f, 1, UuidTime)
  BY DEF HexOf
<1> HIDE DEF f
<1>4. QED
  BY <1>1, <1>2, <1>3, FirstOf

LEMMA CrockfordsAre ==
  ASSUME NEW t, DOMAIN t = 1 .. UlidLength
  PROVE  Crockfords(t) = [i \in 1 .. UlidTime |-> Crockford(t[i])]
<1> DEFINE f == [i \in DOMAIN t |-> Crockford(t[i])]
<1>1. DOMAIN f = 1 .. UlidLength
  OBVIOUS
<1>2. \A i \in 1 .. UlidTime : f[i] = Crockford(t[i])
  BY Widths
<1>3. Crockfords(t) = SubSeq(f, 1, UlidTime)
  BY DEF Crockfords
<1> HIDE DEF f
<1>4. QED
  BY <1>1, <1>2, <1>3, Widths, FirstOf

LEMMA UuidIs ==
  ASSUME NEW s \in Seq(Nat), ParseUuidv7(s) # None
  PROVE  LET t == Trim(s)
             u == Unhyphenated(t)
         IN /\ Len(t) \in {UuidLength, UuidLength + Len(UuidGroups) - 1}
            /\ Len(t) # UuidLength => \A i \in UuidHyphens : t[i] = Hyphen
            /\ u \in Seq(Nat) /\ Len(u) > UuidTime
            /\ \A i \in 1 .. UuidTime : HexDigitValue(u[i]) # None
            /\ ParseUuidv7(s) = FromMillis(Number(HexOf(u), 16))
<1> DEFINE t == Trim(s)
           u == Unhyphenated(t)
           v == [i \in 1 .. UuidTime + 1 |-> HexDigitValue(u[i])]
<1>1. /\ Len(t) \in {UuidLength, UuidLength + Len(UuidGroups) - 1}
      /\ Len(t) # UuidLength => \A i \in UuidHyphens : t[i] = Hyphen
      /\ Len(u) > UuidTime
      /\ \A i \in DOMAIN v : v[i] # None
      /\ ParseUuidv7(s) = FromMillis(Number(SubSeq(v, 1, UuidTime), 16))
  BY DEF ParseUuidv7
<1>2. SubSeq(v, 1, UuidTime) = HexOf(u)
  BY DEF HexOf
<1>3. \A i \in 1 .. UuidTime : HexDigitValue(u[i]) # None
  <2>1. \A i \in 1 .. UuidTime + 1 : HexDigitValue(u[i]) # None
    BY <1>1
  <2>2. QED
    BY <2>1, Widths
<1>4. u \in Seq(Nat)
  <2>1. t \in Seq(Nat)
    BY TrimType
  <2>2. PICK f : Keeping(f, t) /\ u = f[Len(t)]
    BY <2>1, KeptOf
  <2>3. Len(t) \in 0 .. Len(t)
    BY <2>1, LenProperties
  <2>4. QED
    BY <2>2, <2>3 DEF Keeping
<1>5. QED
  BY <1>1, <1>2, <1>3, <1>4

LEMMA UlidIs ==
  ASSUME NEW s \in Seq(Nat), ParseUlid(s) # None
  PROVE  LET t == Trim(s)
         IN /\ t \in Seq(Nat) /\ DOMAIN t = 1 .. UlidLength
            /\ \A i \in 1 .. UlidLength : Crockford(t[i]) # None
            /\ ParseUlid(s) = FromMillis(Number(Crockfords(t), 32))
<1> DEFINE t == Trim(s)
           v == [i \in DOMAIN t |-> Crockford(t[i])]
<1>1. /\ Len(t) = UlidLength
      /\ \A i \in DOMAIN t : v[i] # None
      /\ ParseUlid(s) = FromMillis(Number(SubSeq(v, 1, UlidTime), 32))
  BY DEF ParseUlid
<1>2. SubSeq(v, 1, UlidTime) = Crockfords(t)
  BY DEF Crockfords
<1>3. t \in Seq(Nat)
  BY TrimType
<1>4. DOMAIN t = 1 .. UlidLength
  BY <1>1, <1>3, LenProperties
<1>5. QED
  BY <1>1, <1>2, <1>3, <1>4

LEMMA UuidDigits ==
  ASSUME NEW s \in Seq(Nat), ParseUuidv7(s) # None
  PROVE  LET u == Unhyphenated(Trim(s))
         IN /\ DOMAIN HexOf(u) = 1 .. UuidTime
            /\ \A i \in 1 .. UuidTime : /\ u[i] \in Nat /\ HexDigitValue(u[i]) # None
                                        /\ HexOf(u)[i] = HexDigitValue(u[i])
                                        /\ HexOf(u)[i] \in 0 .. 15
            /\ Number(HexOf(u), 16) \in Nat
<1> DEFINE u == Unhyphenated(Trim(s))
<1>1. u \in Seq(Nat) /\ Len(u) > UuidTime /\ \A i \in 1 .. UuidTime : HexDigitValue(u[i]) # None
  BY UuidIs
<1> HIDE DEF u
<1>2. \A i \in 1 .. UuidTime : u[i] \in Nat
  <2>1. Len(u) \in Nat /\ \A i \in 1 .. Len(u) : u[i] \in Nat
    BY <1>1, LenProperties, ElementOfSeq
  <2>2. QED
    BY <1>1, <2>1, Widths
<1>3. DOMAIN HexOf(u) = 1 .. UuidTime /\ \A i \in 1 .. UuidTime : HexOf(u)[i] = HexDigitValue(u[i])
  BY HexOfIs
<1>4. \A i \in 1 .. UuidTime : HexOf(u)[i] \in 0 .. 15
  BY <1>1, <1>2, <1>3, HexRange
<1>5. Number(HexOf(u), 16) \in Nat
  <2>0. \A x \in 0 .. 15 : x \in Nat
    OBVIOUS
  <2>1. \A i \in 1 .. UuidTime : HexOf(u)[i] \in Nat
    BY <1>4, <2>0, Zenon
  <2>2. QED
    BY <1>3, <2>1, Widths, NumberType
<1>6. QED
  BY <1>1, <1>2, <1>3, <1>4, <1>5 DEF u

LEMMA UlidDigits ==
  ASSUME NEW s \in Seq(Nat), ParseUlid(s) # None
  PROVE  LET t == Trim(s)
         IN /\ DOMAIN Crockfords(t) = 1 .. UlidTime
            /\ \A i \in 1 .. UlidTime : /\ t[i] \in Nat /\ Crockford(t[i]) # None
                                        /\ Crockfords(t)[i] = Crockford(t[i])
                                        /\ Crockfords(t)[i] \in 0 .. 31
            /\ Number(Crockfords(t), 32) \in Nat
<1> DEFINE t == Trim(s)
<1>1. t \in Seq(Nat) /\ DOMAIN t = 1 .. UlidLength /\ \A i \in 1 .. UlidLength : Crockford(t[i]) # None
  BY UlidIs
<1> HIDE DEF t
<1>2. \A i \in 1 .. UlidTime : i \in 1 .. UlidLength /\ t[i] \in Nat
  <2>1. \A i \in 1 .. UlidTime : i \in 1 .. UlidLength
    BY Widths
  <2>2. \A i \in DOMAIN t : t[i] \in Nat
    BY <1>1, LenProperties, ElementOfSeq
  <2>3. QED
    BY <1>1, <2>1, <2>2
<1>3. DOMAIN Crockfords(t) = 1 .. UlidTime /\ \A i \in 1 .. UlidTime : Crockfords(t)[i] = Crockford(t[i])
  BY <1>1, CrockfordsAre
<1>4. \A i \in 1 .. UlidTime : Crockfords(t)[i] \in 0 .. 31
  BY <1>1, <1>2, <1>3, CrockfordRange
<1>5. Number(Crockfords(t), 32) \in Nat
  <2>0. \A x \in 0 .. 31 : x \in Nat
    OBVIOUS
  <2>1. \A i \in 1 .. UlidTime : Crockfords(t)[i] \in Nat
    BY <1>4, <2>0, Zenon
  <2>2. QED
    BY <1>3, <2>1, Widths, NumberType
<1>6. QED
  BY <1>1, <1>2, <1>3, <1>4, <1>5 DEF t

\* The first places of two texts of digits, one of which is ahead.
LEMMA TimesInOrder ==
  ASSUME NEW v, NEW w, NEW base \in Nat, NEW n \in Nat, DOMAIN v = 1 .. n, DOMAIN w = 1 .. n,
         \A i \in 1 .. n : v[i] \in 0 .. base - 1 /\ w[i] \in 0 .. base - 1,
         Number(v, base) \in Nat, Number(w, base) \in Nat,
         NEW d \in Nat \ {0}, d <= n => v[d] < w[d],
         v = [i \in 1 .. n |-> v[i]], w = [i \in 1 .. n |-> w[i]],
         \A i \in 1 .. n : i < d => v[i] = w[i]
  PROVE  Number(v, base) <= Number(w, base)
<1>1. CASE d <= n
  <2>1. d \in 1 .. n /\ v[d] < w[d] /\ \A i \in 1 .. d - 1 : v[i] = w[i]
    BY <1>1
  <2>2. Number(v, base) < Number(w, base)
    BY <2>1, NumberOrder
  <2>3. QED
    BY <2>2
<1>2. CASE n < d
  <2>1. \A i \in 1 .. n : v[i] = w[i]
    BY <1>2
  <2>2. v = w
    BY <2>1
  <2>3. Number(v, base) = Number(w, base)
    BY <2>2, Zenon
  <2>4. QED
    BY <2>3
<1>3. QED
  BY <1>1, <1>2

\* A text as it is printed.
Plain(s) == \A i \in DOMAIN s : Upper(s[i]) = s[i] /\ ~IsSpace(s[i])

LEMMA UuidsInOrder ==
  ASSUME NEW s, NEW t, NEW d, Ahead(s, t, d), Plain(s), Plain(t),
         \A i \in 1 .. Len(s) : s[i] = Hyphen <=> t[i] = Hyphen,
         ParseUuidv7(s) # None, ParseUuidv7(t) # None
  PROVE  ParseUuidv7(s) <= ParseUuidv7(t)
<1>1. /\ s \in Seq(Nat) /\ t \in Seq(Nat) /\ d \in DOMAIN s /\ d \in DOMAIN t
      /\ s[d] \in Nat /\ t[d] \in Nat /\ s[d] < t[d]
  <2>1. s \in Seq(Nat) /\ t \in Seq(Nat) /\ d \in 1 .. Len(s) /\ d \in 1 .. Len(t) /\ s[d] < t[d]
    BY DEF Ahead
  <2>2. DOMAIN s = 1 .. Len(s) /\ DOMAIN t = 1 .. Len(t)
    BY <2>1, LenProperties
  <2>3. s[d] \in Nat /\ t[d] \in Nat
    BY <2>1, ElementOfSeq
  <2>4. QED
    BY <2>1, <2>2, <2>3
<1>2. Trim(s) = s /\ Trim(t) = t
  BY <1>1, TrimNothing DEF Plain
<1>3. PICK a, b : a = Unhyphenated(s) /\ b = Unhyphenated(t)
  OBVIOUS
<1>4. PICK m : Ahead(a, b, m) /\ a[m] = s[d] /\ b[m] = t[d]
  BY <1>3, KeptOrder
<1>5. /\ DOMAIN HexOf(a) = 1 .. UuidTime
      /\ \A i \in 1 .. UuidTime : /\ HexDigitValue(a[i]) # None /\ HexOf(a)[i] = HexDigitValue(a[i])
                                  /\ HexOf(a)[i] \in 0 .. 15
      /\ Number(HexOf(a), 16) \in Nat
      /\ ParseUuidv7(s) = FromMillis(Number(HexOf(a), 16))
  <2>1. Unhyphenated(Trim(s)) = a
    BY <1>2, <1>3
  <2>2. ParseUuidv7(s) = FromMillis(Number(HexOf(a), 16))
    BY <1>1, <2>1, UuidIs
  <2>3. QED
    BY <1>1, <2>1, <2>2, UuidDigits
<1>6. /\ DOMAIN HexOf(b) = 1 .. UuidTime
      /\ \A i \in 1 .. UuidTime : /\ HexDigitValue(b[i]) # None /\ HexOf(b)[i] = HexDigitValue(b[i])
                                  /\ HexOf(b)[i] \in 0 .. 15
      /\ Number(HexOf(b), 16) \in Nat
      /\ ParseUuidv7(t) = FromMillis(Number(HexOf(b), 16))
  <2>1. Unhyphenated(Trim(t)) = b
    BY <1>2, <1>3
  <2>2. ParseUuidv7(t) = FromMillis(Number(HexOf(b), 16))
    BY <1>1, <2>1, UuidIs
  <2>3. QED
    BY <1>1, <2>1, <2>2, UuidDigits
<1>7. PICK v, w : v = HexOf(a) /\ w = HexOf(b)
  OBVIOUS
<1>8. m \in Nat \ {0} /\ \A i \in 1 .. UuidTime : i < m => a[i] = b[i]
  <2>1. m \in 1 .. Len(a) /\ (\A i \in 1 .. m - 1 : a[i] = b[i]) /\ Len(a) \in Nat
    BY <1>4, LenProperties DEF Ahead
  <2>2. QED
    BY <2>1, Widths
<1>9. m <= UuidTime => v[m] < w[m]
  <2>1. SUFFICES ASSUME m <= UuidTime PROVE v[m] < w[m]
    OBVIOUS
  <2>2. m \in 1 .. UuidTime
    BY <1>8, <2>1, Widths
  <2>3. HexDigitValue(s[d]) # None /\ HexDigitValue(t[d]) # None
        /\ v[m] = HexDigitValue(s[d]) /\ w[m] = HexDigitValue(t[d])
    BY <1>4, <1>5, <1>6, <1>7, <2>2
  <2>4. Upper(s[d]) = s[d] /\ Upper(t[d]) = t[d]
    BY <1>1 DEF Plain
  <2>5. QED
    BY <1>1, <2>3, <2>4, HexOrder
<1>10. \A i \in 1 .. UuidTime : i < m => v[i] = w[i]
  BY <1>5, <1>6, <1>7, <1>8
<1>11. v = [i \in 1 .. UuidTime |-> v[i]] /\ w = [i \in 1 .. UuidTime |-> w[i]]
  BY <1>7, HexOfIs
<1>12. Number(v, 16) <= Number(w, 16)
  <2>1. \A i \in 1 .. UuidTime : v[i] \in 0 .. 16 - 1 /\ w[i] \in 0 .. 16 - 1
    <3>1. 16 - 1 = 15
      OBVIOUS
    <3>2. QED
      BY <1>5, <1>6, <1>7, <3>1, Zenon
  <2>2. DOMAIN v = 1 .. UuidTime /\ DOMAIN w = 1 .. UuidTime
    BY <1>5, <1>6, <1>7
  <2>3. Number(v, 16) \in Nat /\ Number(w, 16) \in Nat
    BY <1>5, <1>6, <1>7
  <2>4. 16 \in Nat /\ UuidTime \in Nat
    BY Widths
  <2>5. QED
    BY <1>8, <1>9, <1>10, <1>11, <2>1, <2>2, <2>3, <2>4, TimesInOrder
<1>13. QED
  BY <1>5, <1>6, <1>7, <1>12, Millis

LEMMA UlidsInOrder ==
  ASSUME NEW s, NEW t, NEW d, Ahead(s, t, d), Plain(s), Plain(t),
         ParseUlid(s) # None, ParseUlid(t) # None
  PROVE  ParseUlid(s) <= ParseUlid(t)
<1>1. /\ s \in Seq(Nat) /\ t \in Seq(Nat) /\ d \in DOMAIN s /\ d \in DOMAIN t
      /\ s[d] \in Nat /\ t[d] \in Nat /\ s[d] < t[d]
  <2>1. s \in Seq(Nat) /\ t \in Seq(Nat) /\ d \in 1 .. Len(s) /\ d \in 1 .. Len(t) /\ s[d] < t[d]
    BY DEF Ahead
  <2>2. DOMAIN s = 1 .. Len(s) /\ DOMAIN t = 1 .. Len(t)
    BY <2>1, LenProperties
  <2>3. s[d] \in Nat /\ t[d] \in Nat
    BY <2>1, ElementOfSeq
  <2>4. QED
    BY <2>1, <2>2, <2>3
<1>2. Trim(s) = s /\ Trim(t) = t
  BY <1>1, TrimNothing DEF Plain
<1>3. PICK v, w : v = Crockfords(s) /\ w = Crockfords(t)
  OBVIOUS
<1>4. /\ DOMAIN v = 1 .. UlidTime /\ DOMAIN s = 1 .. UlidLength
      /\ \A i \in 1 .. UlidTime : /\ Crockford(s[i]) # None /\ v[i] = Crockford(s[i])
                                  /\ v[i] \in 0 .. 31
      /\ Number(v, 32) \in Nat
      /\ ParseUlid(s) = FromMillis(Number(v, 32))
  <2>1. Trim(s) = s /\ Crockfords(s) = v
    BY <1>2, <1>3
  <2>2. DOMAIN s = 1 .. UlidLength /\ ParseUlid(s) = FromMillis(Number(v, 32))
    BY <1>1, <2>1, UlidIs
  <2>3. QED
    BY <1>1, <2>1, <2>2, UlidDigits
<1>5. /\ DOMAIN w = 1 .. UlidTime /\ DOMAIN t = 1 .. UlidLength
      /\ \A i \in 1 .. UlidTime : /\ Crockford(t[i]) # None /\ w[i] = Crockford(t[i])
                                  /\ w[i] \in 0 .. 31
      /\ Number(w, 32) \in Nat
      /\ ParseUlid(t) = FromMillis(Number(w, 32))
  <2>1. Trim(t) = t /\ Crockfords(t) = w
    BY <1>2, <1>3
  <2>2. DOMAIN t = 1 .. UlidLength /\ ParseUlid(t) = FromMillis(Number(w, 32))
    BY <1>1, <2>1, UlidIs
  <2>3. QED
    BY <1>1, <2>1, <2>2, UlidDigits
<1>6. d \in Nat \ {0} /\ \A i \in 1 .. UlidTime : i < d => s[i] = t[i]
  <2>1. d \in 1 .. Len(s) /\ (\A i \in 1 .. d - 1 : s[i] = t[i]) /\ Len(s) \in Nat
    BY <1>1, LenProperties DEF Ahead
  <2>2. QED
    BY <2>1, Widths
<1>7. d <= UlidTime => v[d] < w[d]
  <2>1. SUFFICES ASSUME d <= UlidTime PROVE v[d] < w[d]
    OBVIOUS
  <2>2. d \in 1 .. UlidTime
    BY <1>6, <2>1, Widths
  <2>3. Upper(s[d]) = s[d] /\ Upper(t[d]) = t[d]
    BY <1>1 DEF Plain
  <2>4. Crockford(s[d]) < Crockford(t[d])
    BY <1>1, <1>4, <1>5, <2>2, <2>3, CrockfordOrder
  <2>5. QED
    BY <1>4, <1>5, <2>2, <2>4
<1>8. \A i \in 1 .. UlidTime : i < d => v[i] = w[i]
  BY <1>4, <1>5, <1>6
<1>9. v = [i \in 1 .. UlidTime |-> v[i]] /\ w = [i \in 1 .. UlidTime |-> w[i]]
  BY <1>3, <1>4, <1>5, CrockfordsAre
<1>10. Number(v, 32) <= Number(w, 32)
  <2>1. \A i \in 1 .. UlidTime : v[i] \in 0 .. 32 - 1 /\ w[i] \in 0 .. 32 - 1
    BY <1>4, <1>5
  <2>2. 32 \in Nat /\ UlidTime \in Nat
    BY Widths
  <2>3. QED
    BY <1>4, <1>5, <1>6, <1>7, <1>8, <1>9, <2>1, <2>2, TimesInOrder
<1>11. QED
  BY <1>4, <1>5, <1>10, Millis

-----------------------------------------------------------------------------
(* A time is a number or none.                                             *)
Time == Int \cup {None}

LEMMA RemainderIs ==
  ASSUME NEW m \in Nat \ {0}, NEW q \in Int, NEW r \in 0 .. m - 1
  PROVE  (q * m + r) % m = r
<1>1. PICK x \in Int : x = q * m + r
  OBVIOUS
<1>2. PICK p, s : p = x \div m /\ s = x % m
  OBVIOUS
<1>3. p \in Int /\ s \in 0 .. m - 1 /\ x = m * p + s
  BY <1>2
<1>4. m * (p - q) = r - s
  BY <1>1, <1>3
<1>5. PICK d \in Int : d = p - q
  BY <1>3
<1>6. m * d = r - s
  BY <1>4, <1>5
<1>7. CASE d >= 1
  <2>1. m * d >= m
    BY <1>7
  <2>2. QED
    BY <1>3, <1>6, <2>1
<1>8. CASE d <= -1
  <2>1. m * d <= -m
    BY <1>8
  <2>2. QED
    BY <1>3, <1>6, <2>1
<1>9. CASE d = 0
  BY <1>1, <1>2, <1>3, <1>6, <1>9
<1>10. QED
  BY <1>7, <1>8, <1>9

\* The sign of a time before 1970 is kept, the smallest number of nanoseconds
\* included, whose negation wraps.
LEMMA NanosKept ==
  ASSUME NEW n \in Int
  PROVE  FromNanos(n) = IF InRange(n) THEN n ELSE None
<1>1. PICK k, m : k = TwoTo[NanosWidth - 1] /\ m = TwoTo[NanosWidth]
  OBVIOUS
<1>2. k \in Nat \ {0} /\ m = 2 * k
  <2>1. TwoTo = CHOOSE f : Doubles(f)
    BY DEF TwoTo, Doubles
  <2>2. NanosWidth - 1 \in Nat /\ (NanosWidth - 1) + 1 = NanosWidth
    BY Widths
  <2>3. TwoTo[NanosWidth - 1] \in Nat \ {0} /\ TwoTo[(NanosWidth - 1) + 1] = 2 * TwoTo[NanosWidth - 1]
    BY <2>1, <2>2, Doubling
  <2>4. QED
    BY <1>1, <2>2, <2>3
<1>3. InRange(n) <=> -k <= n /\ n < k
  BY <1>1 DEF InRange
<1>4. CASE -k < n /\ n < 0
  <2>1. PICK r \in 0 .. m - 1 : r = -n
    BY <1>2, <1>4
  <2>2. Negated(n) = r
    BY <1>1, <1>4, <2>1 DEF Negated
  <2>3. (0 * m + r) % m = r
    BY <1>2, RemainderIs
  <2>4. r % m = r
    BY <1>2, <2>3
  <2>5. AsUnsigned(Negated(n)) = r
    BY <1>1, <2>2, <2>4 DEF AsUnsigned
  <2>6. QED
    BY <1>2, <1>3, <1>4, <2>1, <2>5 DEF FromNanos
<1>5. CASE n = -k
  <2>1. Negated(n) = -k
    BY <1>1, <1>5 DEF Negated
  <2>2. k \in 0 .. m - 1
    BY <1>2
  <2>3. ((-1) * m + k) % m = k
    BY <1>2, <2>2, RemainderIs
  <2>4. (-1) * m + k = -k
    BY <1>2
  <2>5. AsUnsigned(Negated(n)) = k
    BY <1>1, <2>1, <2>3, <2>4 DEF AsUnsigned
  <2>6. QED
    BY <1>2, <1>3, <1>5, <2>5 DEF FromNanos
<1>6. CASE n >= 0 \/ ~InRange(n)
  BY <1>6 DEF FromNanos
<1>7. QED
  BY <1>2, <1>3, <1>4, <1>5, <1>6

LEMMA NanosTime == ASSUME NEW n \in Int PROVE FromNanos(n) \in Time
BY NanosKept DEF Time

LEMMA DateIs ==
  ASSUME NEW s \in DOMAIN Dateparser
  PROVE  /\ Dateparser[s].reading \in Int /\ Dateparser[s].offset \in Int \cup {None}
         /\ ZoneOf(s) \in Int
<1>1. Dateparser[s] \in [reading : Int, offset : Int \cup {None}] /\ HostOffset \in Int
  BY ParsersAssumption
<1>2. QED
  BY <1>1 DEF ZoneOf

\* What dateparser reads is told by its zone.
LEMMA DateTold ==
  ASSUME NEW s \in DOMAIN Dateparser, NEW n, n = Dateparser[s].reading - ZoneOf(s)
  PROVE  n \in Int /\ DateparserToSystemTime(s) = IF InRange(n) THEN n ELSE None
<1>1. n \in Int
  BY DateIs
<1>2. QED
  BY <1>1, NanosKept DEF DateparserToSystemTime

LEMMA DateTime ==
  ASSUME NEW s
  PROVE  DateparserToSystemTime(s) \in Time
<1>1. CASE s \in DOMAIN Dateparser
  BY <1>1, DateTold DEF Time
<1>2. CASE s \notin DOMAIN Dateparser
  BY <1>2 DEF DateparserToSystemTime, Time
<1>3. QED
  BY <1>1, <1>2

\* A text without a zone is read in a zone less than a day away, or not at all.
LEMMA NaiveTold ==
  ASSUME NEW s, NEW offset \in Int
  PROVE  ParseNaiveWithOffset(s, offset) =
           IF /\ Trim(s) \in DOMAIN NaiveFormats /\ -Day < offset /\ offset < Day
              /\ InRange(NaiveFormats[Trim(s)] - offset)
           THEN NaiveFormats[Trim(s)] - offset ELSE None
<1>1. PICK t : t = Trim(s)
  OBVIOUS
<1>2. CASE t \in DOMAIN NaiveFormats /\ -Day < offset /\ offset < Day
  <2>1. NaiveFormats[t] \in Int
    BY <1>2, ParsersAssumption
  <2>2. PICK n \in Int : n = NaiveFormats[t] - offset
    BY <2>1
  <2>3. ParseNaiveWithOffset(s, offset) = FromNanos(n)
    BY <1>1, <1>2, <2>2 DEF ParseNaiveWithOffset
  <2>4. QED
    BY <1>1, <1>2, <2>2, <2>3, NanosKept
<1>3. CASE ~(t \in DOMAIN NaiveFormats /\ -Day < offset /\ offset < Day)
  BY <1>1, <1>3 DEF ParseNaiveWithOffset
<1>4. QED
  BY <1>2, <1>3

LEMMA NaiveTime ==
  ASSUME NEW s, NEW offset \in Int
  PROVE  ParseNaiveWithOffset(s, offset) \in Time
<1>1. Trim(s) \in DOMAIN NaiveFormats => NaiveFormats[Trim(s)] \in Int
  BY ParsersAssumption
<1>2. QED
  BY <1>1, NaiveTold DEF Time

LEMMA StringTime ==
  ASSUME NEW s, NEW policy,
         policy \in {Refuse, Local} \/ (policy.zone = "offset" /\ policy.nanos \in Int)
  PROVE  ParseTimestampStr(s, policy) \in Time
<1>1. DateparserToSystemTime(s) \in Time /\ None \in Time
  BY DateTime DEF Time
<1>2. CASE HasExplicitZone(s)
  BY <1>1, <1>2 DEF ParseTimestampStr
<1>3. CASE ~HasExplicitZone(s)
  <2>1. CASE policy = Refuse
    <3>1. policy.zone = "refuse"
      BY <2>1 DEF Refuse
    <3>2. QED
      BY <1>1, <1>3, <3>1 DEF ParseTimestampStr
  <2>2. CASE policy = Local
    <3>1. policy.zone = "local"
      BY <2>2 DEF Local
    <3>2. QED
      BY <1>1, <1>3, <3>1 DEF ParseTimestampStr
  <2>3. CASE policy.zone = "offset" /\ policy.nanos \in Int
    <3>1. ParseNaiveWithOffset(s, policy.nanos) \in Time
      BY <2>3, NaiveTime
    <3>2. QED
      BY <1>3, <2>3, <3>1 DEF ParseTimestampStr
  <2>4. QED
    BY <2>1, <2>2, <2>3
<1>4. QED
  BY <1>2, <1>3

LEMMA IdTime ==
  ASSUME NEW s \in Seq(Nat)
  PROVE  ParseUuidv7(s) \in Time /\ ParseUlid(s) \in Time
<1>1. ParseUuidv7(s) # None => ParseUuidv7(s) \in Nat
  BY UuidIs, UuidDigits, Millis
<1>2. ParseUlid(s) # None => ParseUlid(s) \in Nat
  BY UlidIs, UlidDigits, Millis
<1>3. QED
  BY <1>1, <1>2 DEF Time

LEMMA UnitsAre ==
  /\ DOMAIN Unit = {"EpochSeconds", "EpochMillis", "EpochMicros", "EpochNanos"}
  /\ \A u \in DOMAIN Unit : Unit[u] \in Nat
BY Widths DEF Unit

LEMMA IntegerTime ==
  ASSUME NEW interpreter, NEW n \in Int
  PROVE  Interpret(interpreter, Int64(n)) \in Time
<1>1. Int64(n).raw = "int" /\ Int64(n).value = n
  BY DEF Int64
<1>2. CASE interpreter.reads \in DOMAIN Unit
  <2>1. n * Unit[interpreter.reads] \in Int
    BY <1>2, UnitsAre
  <2>2. Interpret(interpreter, Int64(n)) =
          IF n >= 0 THEN n * Unit[interpreter.reads] ELSE None
    BY <1>1, <1>2, UnitsAre DEF Interpret
  <2>3. QED
    BY <2>1, <2>2 DEF Time
<1>3. CASE interpreter.reads \notin DOMAIN Unit
  <2>1. Interpret(interpreter, Int64(n)) = None
    BY <1>1, <1>3 DEF Interpret
  <2>2. QED
    BY <2>1 DEF Time
<1>4. QED
  BY <1>2, <1>3

LEMMA TextReadings ==
  ASSUME NEW interpreter, NEW s
  PROVE  /\ interpreter.reads = "StringTimestamp" =>
              Interpret(interpreter, Str(s)) = ParseTimestampStr(s, interpreter.policy)
         /\ interpreter.reads = "Uuidv7" => Interpret(interpreter, Str(s)) = ParseUuidv7(s)
         /\ interpreter.reads = "Ulid" => Interpret(interpreter, Str(s)) = ParseUlid(s)
         /\ interpreter.reads \notin {"StringTimestamp", "Uuidv7", "Ulid"} =>
              Interpret(interpreter, Str(s)) = None
<1>1. Str(s).raw = "str" /\ Str(s).value = s
  BY DEF Str
<1>2. QED
  BY <1>1, UnitsAre DEF Interpret

LEMMA TextTime ==
  ASSUME NEW interpreter \in Interpreter, NEW s \in Seq(Nat)
  PROVE  Interpret(interpreter, Str(s)) \in Time
<1>1. CASE interpreter.reads = "StringTimestamp"
  <2>1. PICK policy : policy = interpreter.policy
    OBVIOUS
  <2>2. policy \in {Refuse, Local} \/ (policy.zone = "offset" /\ policy.nanos \in Int)
    BY <1>1, <2>1, JudgedAssumption
  <2>3. QED
    BY <1>1, <2>1, <2>2, StringTime, TextReadings
<1>2. CASE interpreter.reads \in {"Uuidv7", "Ulid"}
  BY <1>2, IdTime, TextReadings
<1>3. CASE interpreter.reads \notin {"StringTimestamp", "Uuidv7", "Ulid"}
  BY <1>3, TextReadings DEF Time
<1>4. QED
  BY <1>1, <1>2, <1>3

LEMMA TimeType ==
  ASSUME NEW record \in Record, NEW path \in TimePath, NEW interpreter \in Interpreter
  PROVE  TimeOf(record, path, interpreter) \in Time
<1>1. PICK found : found = Navigate(record, path)
  OBVIOUS
<1>2. /\ found # None /\ found.is = "integer" => found.value \in Int
      /\ found # None /\ found.is = "string" => found.value \in Seq(Nat)
  BY <1>1, JudgedAssumption
<1>3. TimeOf(record, path, interpreter) =
        CASE found = None -> None
          [] found # None /\ found.is = "integer" ->
               IF found.value <= MaxI64 THEN Interpret(interpreter, Int64(found.value)) ELSE None
          [] found # None /\ found.is = "string" -> Interpret(interpreter, Str(found.value))
          [] OTHER -> None
  BY <1>1 DEF TimeOf
<1>4. None \in Time
  BY DEF Time
<1>5. CASE found # None /\ found.is = "integer"
  <2>1. Interpret(interpreter, Int64(found.value)) \in Time
    BY <1>2, <1>5, IntegerTime
  <2>2. QED
    BY <1>3, <1>4, <1>5, <2>1
<1>6. CASE found # None /\ found.is = "string"
  <2>1. Interpret(interpreter, Str(found.value)) \in Time
    BY <1>2, <1>6, TextTime
  <2>2. QED
    BY <1>3, <1>6, <2>1
<1>7. CASE found = None \/ found.is \notin {"integer", "string"}
  BY <1>3, <1>4, <1>7
<1>8. QED
  BY <1>5, <1>6, <1>7

-----------------------------------------------------------------------------
(* The invariant of the judge: when a record was judged, the parser is at  *)
(* rest, and the time is that of the record on the path that was parsed.   *)
JudgedInv ==
  judged # <<>> =>
    /\ mode = "done" /\ printed # <<>>
    /\ result.pattern \in TimePath
    /\ \E record \in Record, interpreter \in Interpreter, window \in Window :
         LET time == TimeOf(record, result.pattern, interpreter)
         IN judged = <<[record |-> record, interpreter |-> interpreter, window |-> window,
                        time |-> time, accepted |-> InTime(window, time)]>>

LEMMA JudgedStep == JudgedInv /\ [JudgeNext]_pathTimeVars => JudgedInv'
<1> SUFFICES ASSUME JudgedInv, [JudgeNext]_pathTimeVars PROVE JudgedInv'
  OBVIOUS
<1>1. CASE UNCHANGED pathTimeVars
  BY <1>1 DEF JudgedInv, pathTimeVars, vars
<1>2. CASE ParsePath
  <2>1. judged' = judged /\ Next
    BY <1>2 DEF ParsePath
  <2>2. CASE judged = <<>>
    BY <2>1, <2>2 DEF JudgedInv
  <2>3. CASE judged # <<>>
    <3>1. mode = "done" /\ printed # <<>>
      BY <2>3 DEF JudgedInv
    <3>2. ~Next
      BY <3>1 DEF Next, Parse, Reprint, Root, ParsePattern, ParseIdent, ParseU32, EndOfIndex,
                  ParseQuoted, ParseUnicodeEscape
    <3>3. QED
      BY <2>1, <3>2
  <2>4. QED
    BY <2>2, <2>3
<1>3. CASE Judge
  <2>1. mode' = mode /\ printed' = printed /\ result' = result
    BY <1>3 DEF Judge, vars
  <2>2. mode = "done" /\ printed # <<>> /\ result.pattern \in TimePath
    BY <1>3 DEF Judge
  <2>3. \E record \in Record, interpreter \in Interpreter, window \in Window :
          LET time == TimeOf(record, result.pattern, interpreter)
          IN judged' = <<[record |-> record, interpreter |-> interpreter, window |-> window,
                          time |-> time, accepted |-> InTime(window, time)]>>
    BY <1>3 DEF Judge
  <2>4. QED
    BY <2>1, <2>2, <2>3 DEF JudgedInv
<1>4. QED
  BY <1>1, <1>2, <1>3 DEF JudgeNext

\* A judged record has the time of the path that was parsed.
THEOREM JudgedInvariant == JudgeSpec => []JudgedInv
<1>1. JudgeInit => JudgedInv
  BY DEF JudgeInit, JudgedInv
<1>2. QED
  BY <1>1, JudgedStep, PTL DEF JudgeSpec

\* What was judged, as an invariant says it.
LEMMA VerdictIs ==
  ASSUME JudgedInv, judged # <<>>
  PROVE  /\ result.pattern \in TimePath
         /\ Verdict.record \in Record /\ Verdict.interpreter \in Interpreter
         /\ Verdict.window \in Window
         /\ Verdict.time = TimeOf(Verdict.record, result.pattern, Verdict.interpreter)
         /\ Verdict.accepted = InTime(Verdict.window, Verdict.time)
         /\ Verdict.time \in Time
<1>1. result.pattern \in TimePath
  BY DEF JudgedInv
<1>2. PICK record \in Record, interpreter \in Interpreter, window \in Window :
        LET time == TimeOf(record, result.pattern, interpreter)
        IN judged = <<[record |-> record, interpreter |-> interpreter, window |-> window,
                       time |-> time, accepted |-> InTime(window, time)]>>
  BY DEF JudgedInv
<1> DEFINE time == TimeOf(record, result.pattern, interpreter)
<1>3. Verdict = [record |-> record, interpreter |-> interpreter, window |-> window,
                 time |-> time, accepted |-> InTime(window, time)]
  BY <1>2 DEF Verdict
<1> HIDE DEF time
<1>4. /\ Verdict.record = record /\ Verdict.interpreter = interpreter
      /\ Verdict.window = window /\ Verdict.time = time
      /\ Verdict.accepted = InTime(window, time)
  BY <1>3
<1>5. time \in Time
  BY <1>1, TimeType DEF time
<1>6. QED
  BY <1>1, <1>4, <1>5 DEF time

-----------------------------------------------------------------------------
(* Windows.                                                                *)
LEMMA InTimeIs ==
  ASSUME NEW window, NEW t \in Time
  PROVE  window.start # None \/ window.end # None =>
           (InTime(window, t) <=> /\ t # None
                                  /\ window.start # None => window.start <= t
                                  /\ window.end # None => t < window.end)
BY DEF InTime, HasPredicate, Within

LEMMA PartsOfWindow ==
  ASSUME NEW a \in Time, NEW m \in Int, NEW b \in Time, NEW t \in Time, m # None
  PROVE  LET first == [start |-> a, end |-> m]
             next == [start |-> m, end |-> b]
             whole == [start |-> a, end |-> b]
         IN /\ ~(InTime(first, t) /\ InTime(next, t))
            /\ (b = None \/ b >= m) /\ (a = None \/ a <= m) /\ HasPredicate(whole)
               => (InTime(whole, t) <=> InTime(first, t) \/ InTime(next, t))
<1> DEFINE first == [start |-> a, end |-> m]
           next == [start |-> m, end |-> b]
           whole == [start |-> a, end |-> b]
<1>1. InTime(first, t) <=> t # None /\ (a # None => a <= t) /\ t < m
  BY DEF InTime, HasPredicate, Within
<1>2. InTime(next, t) <=> t # None /\ m <= t /\ (b # None => t < b)
  BY DEF InTime, HasPredicate, Within
<1>3. HasPredicate(whole) =>
        (InTime(whole, t) <=> t # None /\ (a # None => a <= t) /\ (b # None => t < b))
  BY DEF InTime, HasPredicate, Within
<1> HIDE DEF first, next, whole
<1>4. ~(InTime(first, t) /\ InTime(next, t))
  BY <1>1, <1>2 DEF Time
<1>5. ASSUME b = None \/ b >= m, a = None \/ a <= m, HasPredicate(whole)
      PROVE  InTime(whole, t) <=> InTime(first, t) \/ InTime(next, t)
  BY <1>1, <1>2, <1>3, <1>5 DEF Time
<1>6. QED
  BY <1>4, <1>5 DEF first, next, whole

LEMMA Tiles == JudgedInv => WindowsTile
<1> SUFFICES ASSUME JudgedInv, judged # <<>>, NEW w \in Window, w.start # None,
                    w.start = Verdict.window.end
             PROVE  LET whole == [start |-> Verdict.window.start, end |-> w.end]
                        next == InTime(w, Verdict.time)
                    IN /\ ~(Verdict.accepted /\ next)
                       /\ (w.end = None \/ w.end >= w.start)
                          /\ (Verdict.window.start = None \/ Verdict.window.start <= w.start)
                          /\ HasPredicate(whole)
                          => (InTime(whole, Verdict.time) <=> Verdict.accepted \/ next)
  BY DEF WindowsTile
<1>1. PICK v, t : v = Verdict.window /\ t = Verdict.time
  OBVIOUS
<1>2. v \in Window /\ t \in Time /\ Verdict.accepted = InTime(v, t)
  BY <1>1, VerdictIs
<1>3. PICK a, m, b : a = v.start /\ m = v.end /\ b = w.end
  OBVIOUS
<1>4. a \in Time /\ m \in Int /\ b \in Time /\ m # None
  <2>1. v \in [start : Int \cup {None}, end : Int \cup {None}]
        /\ w \in [start : Int \cup {None}, end : Int \cup {None}]
    BY <1>2, JudgedAssumption
  <2>2. QED
    BY <1>1, <1>3, <2>1 DEF Time
<1>5. v = [start |-> a, end |-> m] /\ w = [start |-> m, end |-> b]
  <2>1. v \in [start : Int \cup {None}, end : Int \cup {None}]
        /\ w \in [start : Int \cup {None}, end : Int \cup {None}]
    BY <1>2, JudgedAssumption
  <2>2. QED
    BY <1>1, <1>3, <2>1
<1>6. /\ ~(InTime(v, t) /\ InTime(w, t))
      /\ (b = None \/ b >= m) /\ (a = None \/ a <= m) /\ HasPredicate([start |-> a, end |-> b])
         => (InTime([start |-> a, end |-> b], t) <=> InTime(v, t) \/ InTime(w, t))
  BY <1>2, <1>4, <1>5, PartsOfWindow
<1>7. w.start = m
  BY <1>1, <1>3
<1>8. QED
  BY <1>1, <1>2, <1>3, <1>6, <1>7

\* Windows that meet in a moment share no record and lose none, for every
\* path, record, interpreter and window.
THEOREM WindowsTileHolds == JudgeSpec => []WindowsTile
BY JudgedInvariant, Tiles, PTL

-----------------------------------------------------------------------------
(* The zone of a text that is read.                                        *)

\* What dateparser reads, it reads in a zone that is allowed.
LEMMA DateRead ==
  ASSUME NEW s \in DOMAIN Dateparser, NEW policy, HasExplicitZone(s) \/ policy.zone = "local",
         NEW n, n = Dateparser[s].reading - ZoneOf(s)
  PROVE  \E zone \in ZonesAllowed(s, policy) : n + zone \in Readings(s)
<1>1. PICK d, z : d = Dateparser[s] /\ z = ZoneOf(s)
  OBVIOUS
<1>2. d.reading \in Int /\ z \in Int /\ None \notin Int
  BY <1>1, DateIs, ParsersAssumption
<1>3. Seen(s) = d
  BY <1>1 DEF Seen
<1>4. z \in ZonesAllowed(s, policy)
  BY <1>1, <1>3 DEF ZonesAllowed, ZoneOf
<1>5. d.reading \in Readings(s)
  BY <1>2, <1>3 DEF Readings
<1>6. n + z = d.reading
  BY <1>1, <1>2
<1>7. QED
  BY <1>4, <1>5, <1>6

\* The formats without a zone read no text that names one.
LEMMA NaiveSeen ==
  ASSUME NEW s \in Seq(Nat), Trim(s) \in DOMAIN NaiveFormats
  PROVE  Seen(s).offset = None
<1>1. PICK t : t = Trim(s)
  OBVIOUS
<1>2. Trim(t) = t
  BY <1>1, TrimTwice
<1>3. s \in DOMAIN Dateparser => Dateparser[s].offset = None
  BY NaiveAssumption
<1>4. t \in DOMAIN Dateparser => Dateparser[t].offset = None
  BY <1>1, <1>2, NaiveAssumption
<1>5. QED
  BY <1>1, <1>3, <1>4 DEF Seen

LEMMA NaiveRead ==
  ASSUME NEW s \in Seq(Nat), Trim(s) \in DOMAIN NaiveFormats, ~HasExplicitZone(s),
         NEW policy, policy.zone = "offset", policy.nanos \in Int,
         NEW n, n = NaiveFormats[Trim(s)] - policy.nanos
  PROVE  \E zone \in ZonesAllowed(s, policy) : n + zone \in Readings(s)
<1>1. PICK r, z : r = NaiveFormats[Trim(s)] /\ z = policy.nanos
  OBVIOUS
<1>2. r \in Int /\ z \in Int
  BY <1>1, ParsersAssumption
<1>3. z \in ZonesAllowed(s, policy)
  BY <1>1, NaiveSeen DEF ZonesAllowed
<1>4. r \in Readings(s)
  BY <1>1 DEF Readings
<1>5. n + z = r
  BY <1>1, <1>2
<1>6. QED
  BY <1>3, <1>4, <1>5

\* Every text, under every policy.
LEMMA ZoneRead ==
  ASSUME NEW s \in Seq(Nat), NEW policy,
         policy \in {Refuse, Local} \/ (policy.zone = "offset" /\ policy.nanos \in Int),
         NEW time, time = ParseTimestampStr(s, policy)
  PROVE  /\ time # None => \E zone \in ZonesAllowed(s, policy) : time + zone \in Readings(s)
         /\ Readable(s, policy) => time # None
<1>1. \/ policy.zone = "refuse" \/ policy.zone = "local"
      \/ policy.zone = "offset" /\ policy.nanos \in Int
  BY DEF Refuse, Local
<1>2. None \notin Int
  BY ParsersAssumption
<1>3. CASE HasExplicitZone(s) \/ policy.zone = "local"
  <2>1. time = DateparserToSystemTime(s)
    BY <1>3 DEF ParseTimestampStr
  <2>2. ~(~HasExplicitZone(s) /\ policy.zone = "offset")
    BY <1>3
  <2>3. CASE s \in DOMAIN Dateparser
    <3>1. PICK n : n = Dateparser[s].reading - ZoneOf(s)
      OBVIOUS
    <3>2. n \in Int /\ time = IF InRange(n) THEN n ELSE None
      BY <2>1, <2>3, <3>1, DateTold
    <3>3. \E zone \in ZonesAllowed(s, policy) : n + zone \in Readings(s)
      BY <1>3, <2>3, <3>1, DateRead
    <3>4. Readable(s, policy) => InRange(n)
      BY <2>2, <3>1 DEF Readable
    <3>5. QED
      BY <1>2, <3>2, <3>3, <3>4
  <2>4. CASE s \notin DOMAIN Dateparser
    <3>1. time = None
      BY <2>1, <2>4 DEF DateparserToSystemTime
    <3>2. ~Readable(s, policy)
      BY <2>2, <2>4 DEF Readable
    <3>3. QED
      BY <3>1, <3>2
  <2>5. QED
    BY <2>3, <2>4
<1>4. CASE ~HasExplicitZone(s) /\ policy.zone = "refuse"
  BY <1>4 DEF ParseTimestampStr, Readable
<1>5. CASE ~HasExplicitZone(s) /\ policy.zone = "offset" /\ policy.nanos \in Int
  <2>1. time = ParseNaiveWithOffset(s, policy.nanos)
    BY <1>5 DEF ParseTimestampStr
  <2>2. PICK n : n = NaiveFormats[Trim(s)] - policy.nanos
    OBVIOUS
  <2>3. time = IF /\ Trim(s) \in DOMAIN NaiveFormats /\ -Day < policy.nanos /\ policy.nanos < Day
                  /\ InRange(n)
               THEN n ELSE None
    BY <1>5, <2>1, <2>2, NaiveTold
  <2>4. Trim(s) \in DOMAIN NaiveFormats =>
          n \in Int /\ \E zone \in ZonesAllowed(s, policy) : n + zone \in Readings(s)
    <3>1. Trim(s) \in DOMAIN NaiveFormats => n \in Int
      BY <1>5, <2>2, ParsersAssumption
    <3>2. QED
      BY <1>5, <2>2, <3>1, NaiveRead
  <2>5. Readable(s, policy) =>
          /\ Trim(s) \in DOMAIN NaiveFormats /\ -Day < policy.nanos /\ policy.nanos < Day
          /\ InRange(n)
    BY <1>5, <2>2 DEF Readable
  <2>6. QED
    BY <1>2, <2>3, <2>4, <2>5
<1>6. QED
  BY <1>1, <1>3, <1>4, <1>5

LEMMA Kept == JudgedInv => ZonesKept
<1> SUFFICES ASSUME JudgedInv, ReadBy("StringTimestamp"), Found.is = "string",
                    NEW policy, policy = Verdict.interpreter.policy
             PROVE  /\ Verdict.time # None =>
                         \E zone \in ZonesAllowed(Found.value, policy) :
                           Verdict.time + zone \in Readings(Found.value)
                    /\ Readable(Found.value, policy) => Verdict.time # None
  BY DEF ZonesKept
<1>1. judged # <<>> /\ Verdict.interpreter.reads = "StringTimestamp" /\ Found # None
  BY DEF ReadBy
<1>2. PICK reader, path, found :
        reader = Verdict.interpreter /\ path = result.pattern /\ found = Found
  OBVIOUS
<1>3. /\ path \in TimePath /\ Verdict.record \in Record /\ reader \in Interpreter
      /\ Verdict.time = TimeOf(Verdict.record, path, reader)
  BY <1>1, <1>2, VerdictIs
<1>4. found = Navigate(Verdict.record, path) /\ found # None /\ found.is = "string"
  BY <1>1, <1>2 DEF Found
<1>5. PICK s : s = found.value
  OBVIOUS
<1>6. s \in Seq(Nat)
  BY <1>3, <1>4, <1>5, JudgedAssumption
<1>7. policy \in {Refuse, Local} \/ (policy.zone = "offset" /\ policy.nanos \in Int)
  BY <1>1, <1>2, <1>3, JudgedAssumption
<1>8. TimeOf(Verdict.record, path, reader) = Interpret(reader, Str(s))
  BY <1>4, <1>5 DEF TimeOf
<1>9. Verdict.time = ParseTimestampStr(s, policy)
  BY <1>1, <1>2, <1>3, <1>8, TextReadings
<1>10. PICK time : time = Verdict.time
  OBVIOUS
<1>11. /\ time # None => \E zone \in ZonesAllowed(s, policy) : time + zone \in Readings(s)
       /\ Readable(s, policy) => time # None
  BY <1>6, <1>7, <1>9, <1>10, ZoneRead
<1>12. Found.value = s
  BY <1>2, <1>5
<1>13. QED
  BY <1>10, <1>11, <1>12

\* Whatever dateparser and the formats of chrono read, whichever zones
\* dateparser finds and has_explicit_zone misses or takes for one: a text is
\* read in the zone it names, and in another one only if it names none; what has
\* to be read is read, under every policy, before 1970, at the limits of the
\* range and with padding (parse_timestamp_str, batch.rs).
THEOREM ZonesKeptHolds == JudgeSpec => []ZonesKept
BY JudgedInvariant, Kept, PTL

-----------------------------------------------------------------------------
(* The order of identifiers.                                               *)
LEMMA LexAhead ==
  ASSUME NEW s \in Seq(Nat), NEW t \in Seq(Nat), Len(s) = Len(t), LexLess(s, t)
  PROVE  \E d : Ahead(s, t, d)
<1>1. Len(s) \in Nat /\ DOMAIN s = 1 .. Len(s) /\ DOMAIN t = 1 .. Len(s)
  BY LenProperties
<1>2. PICK d \in DOMAIN s \cap DOMAIN t : s[d] < t[d] /\ \A j \in 1 .. d - 1 : s[j] = t[j]
  BY <1>1 DEF LexLess
<1>3. QED
  BY <1>1, <1>2 DEF Ahead

\* Of identifiers in one form, both of which have a time, the hyphens are in
\* the same places.
LEMMA SameHyphens ==
  ASSUME NEW s \in Seq(Nat), NEW t \in Seq(Nat), Len(s) = Len(t),
         IsPrinted(s), IsPrinted(t), ParseUuidv7(s) # None, ParseUuidv7(t) # None
  PROVE  \A i \in 1 .. Len(s) : s[i] = Hyphen <=> t[i] = Hyphen
<1> DEFINE n == Len(s)
           Bare(r) == \A i \in 1 .. n : r[i] # Hyphen
           Split(r) == n # UuidLength /\ {i \in 1 .. n : r[i] = Hyphen} = UuidHyphens
<1>1. n \in Nat /\ DOMAIN s = 1 .. n /\ DOMAIN t = 1 .. n
  BY LenProperties
<1>2. (Bare(s) \/ Split(s)) /\ (Bare(t) \/ Split(t))
  BY <1>1 DEF IsPrinted
<1>3. Trim(s) = s /\ Trim(t) = t
  BY TrimNothing DEF IsPrinted
<1>4. /\ n # UuidLength => \A i \in UuidHyphens : s[i] = Hyphen
      /\ n # UuidLength => \A i \in UuidHyphens : t[i] = Hyphen
  BY <1>3, UuidIs
<1>5. CASE Bare(s) /\ Bare(t)
  BY <1>5
<1>6. CASE Split(s) /\ Split(t)
  BY <1>6
<1>7. CASE (Bare(s) /\ Split(t)) \/ (Bare(t) /\ Split(s))
  <2>1. UuidHyphens \subseteq 1 .. n /\ n # UuidLength
    BY <1>7
  <2>3. UuidHyphens = {}
    BY <1>4, <1>7, <2>1
  <2>4. QED
    BY <1>7, <2>3
<1>8. QED
  BY <1>2, <1>5, <1>6, <1>7

\* Of a text that has a time as an identifier, and of nothing else.
LEMMA IdRead ==
  ASSUME NEW record \in Record, NEW path \in TimePath, NEW interpreter,
         interpreter.reads \in {"Uuidv7", "Ulid"},
         TimeOf(record, path, interpreter) # None
  PROVE  LET found == Navigate(record, path)
         IN /\ found.value \in Seq(Nat)
            /\ TimeOf(record, path, interpreter) = Interpret(interpreter, Str(found.value))
<1>1. PICK found : found = Navigate(record, path)
  OBVIOUS
<1>2. TimeOf(record, path, interpreter) =
        CASE found = None -> None
          [] found # None /\ found.is = "integer" ->
               IF found.value <= MaxI64 THEN Interpret(interpreter, Int64(found.value)) ELSE None
          [] found # None /\ found.is = "string" -> Interpret(interpreter, Str(found.value))
          [] OTHER -> None
  BY <1>1 DEF TimeOf
<1>3. Interpret(interpreter, Int64(found.value)) = None
  <2>1. Int64(found.value).raw = "int"
    BY DEF Int64
  <2>2. interpreter.reads \notin DOMAIN Unit
    BY UnitsAre
  <2>3. QED
    BY <2>1, <2>2 DEF Interpret
<1>4. found # None /\ found.is = "string"
  <2>1. ~(found # None /\ found.is = "integer")
    <3>1. SUFFICES ASSUME found # None /\ found.is = "integer" PROVE FALSE
      OBVIOUS
    <3>2. TimeOf(record, path, interpreter) = None
      BY <1>2, <1>3, <3>1
    <3>3. QED
      BY <3>2
  <2>2. QED
    BY <1>2, <2>1
<1>5. TimeOf(record, path, interpreter) = Interpret(interpreter, Str(found.value))
  BY <1>2, <1>4
<1>6. found.value \in Seq(Nat)
  BY <1>1, <1>4, JudgedAssumption
<1>7. QED
  BY <1>1, <1>5, <1>6

LEMMA IdsOrdered == JudgedInv => IdsInOrder
<1> SUFFICES ASSUME JudgedInv,
                    ReadBy("Uuidv7") \/ ReadBy("Ulid"),
                    Verdict.time # None, IsPrinted(Found.value),
                    NEW record \in Record,
                    TimeOf(record, result.pattern, Verdict.interpreter) # None,
                    IsPrinted(Navigate(record, result.pattern).value),
                    Len(Navigate(record, result.pattern).value) = Len(Found.value),
                    LexLess(Navigate(record, result.pattern).value, Found.value)
             PROVE  TimeOf(record, result.pattern, Verdict.interpreter) <= Verdict.time
  BY DEF IdsInOrder
<1>1. judged # <<>> /\ Verdict.interpreter.reads \in {"Uuidv7", "Ulid"}
  BY DEF ReadBy
<1>2. PICK reader, path : reader = Verdict.interpreter /\ path = result.pattern
  OBVIOUS
<1>3. /\ path \in TimePath /\ Verdict.record \in Record
      /\ Verdict.time = TimeOf(Verdict.record, path, reader)
  BY <1>1, <1>2, VerdictIs
<1>4. PICK s, t : s = Navigate(record, path).value /\ t = Navigate(Verdict.record, path).value
  OBVIOUS
<1>5. s \in Seq(Nat) /\ TimeOf(record, path, reader) = Interpret(reader, Str(s))
  BY <1>1, <1>2, <1>3, <1>4, IdRead
<1>6. t \in Seq(Nat) /\ Verdict.time = Interpret(reader, Str(t))
  BY <1>1, <1>2, <1>3, <1>4, IdRead
<1>7. IsPrinted(s) /\ IsPrinted(t) /\ Len(s) = Len(t) /\ LexLess(s, t)
  BY <1>2, <1>4 DEF Found
<1>8. PICK d : Ahead(s, t, d)
  BY <1>5, <1>6, <1>7, LexAhead
<1>9. Plain(s) /\ Plain(t)
  BY <1>7 DEF IsPrinted, Plain
<1>10. CASE reader.reads = "Uuidv7"
  <2>1. TimeOf(record, path, reader) = ParseUuidv7(s) /\ Verdict.time = ParseUuidv7(t)
    BY <1>5, <1>6, <1>10, TextReadings
  <2>2. ParseUuidv7(s) # None /\ ParseUuidv7(t) # None
    BY <1>2, <2>1
  <2>3. \A i \in 1 .. Len(s) : s[i] = Hyphen <=> t[i] = Hyphen
    BY <1>5, <1>6, <1>7, <2>2, SameHyphens
  <2>4. ParseUuidv7(s) <= ParseUuidv7(t)
    BY <1>8, <1>9, <2>2, <2>3, UuidsInOrder
  <2>5. QED
    BY <1>2, <2>1, <2>4
<1>11. CASE reader.reads = "Ulid"
  <2>1. TimeOf(record, path, reader) = ParseUlid(s) /\ Verdict.time = ParseUlid(t)
    BY <1>5, <1>6, <1>11, TextReadings
  <2>2. ParseUlid(s) # None /\ ParseUlid(t) # None
    BY <1>2, <2>1
  <2>3. ParseUlid(s) <= ParseUlid(t)
    BY <1>8, <1>9, <2>2, UlidsInOrder
  <2>4. QED
    BY <1>2, <2>1, <2>3
<1>12. QED
  BY <1>1, <1>2, <1>10, <1>11

\* Identifiers made to be sorted by time are read in that order, for every
\* layout of them.
THEOREM IdsInOrderHolds == JudgeSpec => []IdsInOrder
BY JudgedInvariant, IdsOrdered, PTL


-----------------------------------------------------------------------------
(* Numerals.                                                               *)
LEMMA NumberAppend ==
  ASSUME NEW v, NEW w, NEW base \in Nat, NEW n \in Nat, DOMAIN v = 1 .. n, DOMAIN w = 1 .. n + 1,
         \A i \in 1 .. n : w[i] = v[i]
  PROVE  Number(w, base) = Number(v, base) * base + w[n + 1]
<1>1. PICK f : Horner(f, v, base, n) /\ Number(v, base) = f[n]
  BY NumberIs
<1>2. n + 1 \in Nat
  OBVIOUS
<1>3. PICK g : Horner(g, w, base, n + 1) /\ Number(w, base) = g[n + 1]
  BY <1>2, NumberIs
<1> DEFINE A == {k \in Nat : k <= n => f[k] = g[k]}
<1>4. 0 \in A
  BY <1>1, <1>3 DEF Horner
<1>5. ASSUME NEW k \in Nat, k \in A PROVE k + 1 \in A
  <2>1. SUFFICES ASSUME k + 1 <= n PROVE f[k + 1] = g[k + 1]
    OBVIOUS
  <2>2. k \in 0 .. n /\ k < n /\ k \in 0 .. n + 1 /\ k < n + 1 /\ k + 1 \in 1 .. n /\ f[k] = g[k]
    BY <1>5, <2>1
  <2>3. f[k + 1] = f[k] * base + v[k + 1] /\ g[k + 1] = g[k] * base + w[k + 1]
    BY <1>1, <1>3, <2>2 DEF Horner
  <2>4. QED
    BY <2>2, <2>3
<1>6. \A k \in Nat : k \in A
  <2> HIDE DEF A
  <2>1. QED
    BY <1>4, <1>5, NumbersIn
<1>7. f[n] = g[n]
  BY <1>6
<1>8. g[n + 1] = g[n] * base + w[n + 1]
  <2>1. n \in 0 .. n + 1 /\ n < n + 1
    OBVIOUS
  <2>2. QED
    BY <1>3, <2>1 DEF Horner
<1>9. QED
  BY <1>1, <1>3, <1>7, <1>8

\* The digits of a number, however the recursion is solved.
Numbers(f, base) ==
  f = [k \in Nat |-> IF k < base THEN <<DigitByte(k)>>
                     ELSE Append(f[k \div base], DigitByte(k % base))]

LEMMA NumeralIs ==
  ASSUME NEW n, NEW base
  PROVE  Numeral(n, base) = (CHOOSE f : Numbers(f, base))[n]
BY DEF Numeral, Numbers

LEMMA Quotients ==
  ASSUME NEW base \in {10, 16}, NEW k \in Nat
  PROVE  /\ k \div base \in Nat /\ k % base \in 0 .. base - 1
         /\ k = (k \div base) * base + (k % base)
         /\ k >= base => k \div base < k
<1>1. CASE base = 10
  BY <1>1
<1>2. CASE base = 16
  BY <1>2
<1>3. QED
  BY <1>1, <1>2

\* The digits of the numbers up to n.
NumeralOf(f, k, base) ==
  IF k < base THEN <<DigitByte(k)>> ELSE Append(f[k \div base], DigitByte(k % base))
NumbersUpTo(f, n, base) == \A k \in 0 .. n : f[k] = NumeralOf(f, k, base)

LEMMA NumbersAgree ==
  ASSUME NEW base \in {10, 16}, NEW n \in Nat, NEW m \in Nat, NEW f, NEW g,
         NumbersUpTo(f, n, base), NumbersUpTo(g, m, base)
  PROVE  \A k \in Nat : k <= n /\ k <= m => f[k] = g[k]
<1> DEFINE A == {k \in Nat : \A j \in 0 .. k : j <= n /\ j <= m => f[j] = g[j]}
<1>1. ASSUME NEW k \in Nat, k <= n, k <= m, \A j \in Nat : j < k => f[j] = g[j]
      PROVE  f[k] = g[k]
  <2>1. f[k] = NumeralOf(f, k, base) /\ g[k] = NumeralOf(g, k, base)
    BY <1>1 DEF NumbersUpTo
  <2>2. k < base \/ f[k \div base] = g[k \div base]
    <3>1. CASE k >= base
      <4>1. k \div base \in Nat /\ k \div base < k
        BY <3>1, Quotients
      <4>2. QED
        BY <1>1, <4>1
    <3>2. QED
      BY <3>1
  <2>3. QED
    BY <2>1, <2>2, Zenon DEF NumeralOf
<1>2. 0 \in A
  <2>1. \A j \in Nat : ~(j < 0)
    OBVIOUS
  <2>2. f[0] = g[0]
    BY <1>1, <2>1
  <2>3. QED
    BY <2>2
<1>3. ASSUME NEW k \in Nat, k \in A PROVE k + 1 \in A
  <2>1. \A j \in Nat : j < k + 1 /\ j <= n /\ j <= m => f[j] = g[j]
    BY <1>3
  <2>2. k + 1 <= n /\ k + 1 <= m => f[k + 1] = g[k + 1]
    <3>1. SUFFICES ASSUME k + 1 <= n, k + 1 <= m PROVE f[k + 1] = g[k + 1]
      OBVIOUS
    <3>2. k + 1 \in Nat /\ \A j \in Nat : j < k + 1 => f[j] = g[j]
      BY <2>1, <3>1
    <3>3. QED
      BY <1>1, <3>1, <3>2
  <2>3. QED
    BY <2>1, <2>2
<1>4. \A k \in Nat : k \in A
  <2> HIDE DEF A
  <2>1. QED
    BY <1>2, <1>3, NumbersIn
<1>5. QED
  BY <1>4

LEMMA NumbersFound ==
  ASSUME NEW base \in {10, 16}
  PROVE  \A n \in Nat : \E f : NumbersUpTo(f, n, base)
<1> DEFINE A == {n \in Nat : \E f : NumbersUpTo(f, n, base)}
<1>1. 0 \in A
  <2> DEFINE f == [k \in Nat |-> <<DigitByte(k)>>]
  <2>1. NumbersUpTo(f, 0, base)
    BY DEF NumbersUpTo, NumeralOf
  <2>2. QED
    BY <2>1
<1>2. ASSUME NEW n \in Nat, n \in A PROVE n + 1 \in A
  <2>1. PICK f : NumbersUpTo(f, n, base)
    BY <1>2
  <2> DEFINE g == [k \in Nat |-> IF k <= n THEN f[k] ELSE NumeralOf(f, k, base)]
  <2>2. ASSUME NEW k \in 0 .. n + 1 PROVE g[k] = NumeralOf(g, k, base)
    <3>1. g[k] = NumeralOf(f, k, base)
      BY <2>1 DEF NumbersUpTo
    <3>2. k < base \/ g[k \div base] = f[k \div base]
      <4>1. CASE k >= base
        <5>1. k \div base \in Nat /\ k \div base < k
          BY <4>1, Quotients
        <5>2. QED
          BY <5>1
      <4>2. QED
        BY <4>1
    <3> HIDE DEF g
    <3>3. QED
      BY <3>1, <3>2, Zenon DEF NumeralOf
  <2> HIDE DEF g
  <2>3. NumbersUpTo(g, n + 1, base)
    BY <2>2 DEF NumbersUpTo
  <2>4. QED
    BY <2>3
<1>3. \A n \in Nat : n \in A
  <2> HIDE DEF A
  <2>1. QED
    BY <1>1, <1>2, NumbersIn
<1>4. QED
  BY <1>3

LEMMA NumeralExists ==
  ASSUME NEW base \in {10, 16}
  PROVE  \E f : Numbers(f, base)
<1> DEFINE upTo(n) == CHOOSE f : NumbersUpTo(f, n, base)
           g == [k \in Nat |-> upTo(k)[k]]
<1>1. \A n \in Nat : NumbersUpTo(upTo(n), n, base)
  BY NumbersFound
<1>2. ASSUME NEW k \in Nat PROVE g[k] = NumeralOf(g, k, base)
  <2>1. g[k] = upTo(k)[k]
    OBVIOUS
  <2>2. upTo(k)[k] = NumeralOf(upTo(k), k, base)
    BY <1>1 DEF NumbersUpTo
  <2>3. k < base \/ g[k \div base] = upTo(k)[k \div base]
    <3>1. CASE k >= base
      <4>1. PICK j \in Nat : j = k \div base /\ j <= k
        BY <3>1, Quotients
      <4>2. g[j] = upTo(j)[j]
        OBVIOUS
      <4>3. NumbersUpTo(upTo(j), j, base) /\ NumbersUpTo(upTo(k), k, base) /\ j <= j
        BY <1>1
      <4> HIDE DEF upTo
      <4>4. upTo(j)[j] = upTo(k)[j]
        BY <4>1, <4>3, NumbersAgree
      <4>5. QED
        BY <4>1, <4>2, <4>4
    <3>2. QED
      BY <3>1
  <2> HIDE DEF g, upTo
  <2>4. QED
    BY <2>1, <2>2, <2>3, Zenon DEF NumeralOf
<1>3. Numbers(g, base)
  <2>1. g = [k \in Nat |-> g[k]]
    OBVIOUS
  <2> HIDE DEF g
  <2>2. g = [k \in Nat |-> NumeralOf(g, k, base)]
    BY <1>2, <2>1
  <2>3. QED
    BY <2>2 DEF Numbers, NumeralOf
<1>4. QED
  BY <1>3

LEMMA NumeralStep ==
  ASSUME NEW base \in {10, 16}, NEW n \in Nat
  PROVE  Numeral(n, base) = IF n < base THEN <<DigitByte(n)>>
                            ELSE Append(Numeral(n \div base, base), DigitByte(n % base))
<1> DEFINE f == CHOOSE g : Numbers(g, base)
<1>1. Numbers(f, base)
  BY NumeralExists
<1>2. \A k : Numeral(k, base) = f[k]
  BY NumeralIs
<1> HIDE DEF f
<1>3. f[n] = IF n < base THEN <<DigitByte(n)>> ELSE Append(f[n \div base], DigitByte(n % base))
  BY <1>1 DEF Numbers
<1>4. QED
  BY <1>2, <1>3

\* The digits of a base.
DigitsOf(base) == IF base = 10 THEN Digit ELSE HexDigit

LEMMA DigitFacts ==
  ASSUME NEW base \in {10, 16}
  PROVE  \A d \in 0 .. base - 1 : DigitByte(d) \in DigitsOf(base) /\ HexValue(DigitByte(d)) = d
<1>1. CASE base = 10
  BY <1>1 DEF DigitByte, DigitsOf, Digit, HexValue
<1>2. CASE base = 16
  BY <1>2 DEF DigitByte, DigitsOf, HexDigit, Digit, HexValue
<1>3. QED
  BY <1>1, <1>2

LEMMA HexValueType == \A d \in HexDigit : HexValue(d) \in 0 .. 15 /\ d \in Byte /\ d < 128
BY DEF HexDigit, Digit, HexValue, Byte

LEMMA DigitsAreHex == ASSUME NEW base PROVE DigitsOf(base) \subseteq HexDigit
BY DEF DigitsOf, HexDigit

\* What has been read of a number.
LEMMA ValueOfOne ==
  ASSUME NEW base \in Nat, NEW d, HexValue(d) \in Nat
  PROVE  Value(<<d>>, base) = HexValue(d)
<1> DEFINE v == [i \in DOMAIN <<d>> |-> HexValue(<<d>>[i])]
<1>1. DOMAIN v = 1 .. 1 /\ v[1] = HexValue(d)
  OBVIOUS
<1>2. Value(<<d>>, base) = Number(v, base)
  BY DEF Value, Number
<1> HIDE DEF v
<1>3. PICK f : Horner(f, v, base, 1) /\ Number(v, base) = f[1]
  <2>1. PICK n : n = 1
    OBVIOUS
  <2>2. n \in Nat /\ DOMAIN v = 1 .. n
    BY <1>1, <2>1
  <2>3. \E f : Horner(f, v, base, n) /\ Number(v, base) = f[n]
    BY <2>2, NumberIs
  <2>4. QED
    BY <2>1, <2>3
<1>4. f[1] = v[1]
  <2>1. 0 \in 0 .. 1 /\ 0 < 1 /\ 0 + 1 = 1
    OBVIOUS
  <2>2. f[0] = 0 /\ f[0 + 1] = f[0] * base + v[0 + 1]
    BY <1>3, <2>1 DEF Horner
  <2>3. 0 * base = 0
    OBVIOUS
  <2>4. QED
    BY <1>1, <2>1, <2>2, <2>3
<1>5. QED
  BY <1>1, <1>2, <1>3, <1>4

LEMMA ValueOfMore ==
  ASSUME NEW base \in Nat, NEW T, NEW t \in Seq(T), NEW d \in T
  PROVE  Value(Append(t, d), base) = Value(t, base) * base + HexValue(d)
<1> DEFINE n == Len(t)
           v == [i \in DOMAIN t |-> HexValue(t[i])]
           w == [i \in DOMAIN Append(t, d) |-> HexValue(Append(t, d)[i])]
<1>1. n \in Nat /\ DOMAIN t = 1 .. n
  BY LenProperties
<1>2. DOMAIN Append(t, d) = 1 .. n + 1 /\ Append(t, d)[n + 1] = d /\ \A i \in 1 .. n : Append(t, d)[i] = t[i]
  BY AppendProperties, LenProperties
<1>3. DOMAIN v = 1 .. n /\ DOMAIN w = 1 .. n + 1 /\ w[n + 1] = HexValue(d)
  BY <1>1, <1>2
<1>4. \A i \in 1 .. n : w[i] = v[i]
  BY <1>1, <1>2
<1>5. Value(t, base) = Number(v, base) /\ Value(Append(t, d), base) = Number(w, base)
  BY DEF Value, Number
<1> HIDE DEF n, v, w
<1>6. Number(w, base) = Number(v, base) * base + w[n + 1]
  BY <1>1, <1>3, <1>4, NumberAppend
<1>7. QED
  BY <1>3, <1>5, <1>6

LEMMA ValueType ==
  ASSUME NEW base \in Nat, NEW t \in Seq(HexDigit)
  PROVE  Value(t, base) \in Nat
<1> DEFINE v == [i \in DOMAIN t |-> HexValue(t[i])]
<1>1. Len(t) \in Nat /\ DOMAIN t = 1 .. Len(t) /\ \A i \in 1 .. Len(t) : t[i] \in HexDigit
  BY LenProperties, ElementOfSeq
<1>2. DOMAIN v = 1 .. Len(t) /\ \A i \in 1 .. Len(t) : v[i] \in Nat
  BY <1>1, HexValueType
<1>3. Value(t, base) = Number(v, base)
  BY DEF Value, Number
<1> HIDE DEF v
<1>4. QED
  BY <1>1, <1>2, <1>3, NumberType

\* A number that was written is read again.
ReadsAs(t, n, base) == t \in Seq(DigitsOf(base)) /\ Len(t) >= 1 /\ Value(t, base) = n

LEMMA NumeralReadsAs ==
  ASSUME NEW base \in {10, 16}
  PROVE  \A n \in Nat : ReadsAs(Numeral(n, base), n, base)
<1> DEFINE A == {n \in Nat : \A k \in 0 .. n : ReadsAs(Numeral(k, base), k, base)}
<1>1. ASSUME NEW n \in Nat, n < base PROVE ReadsAs(Numeral(n, base), n, base)
  <2>1. PICK d : d = DigitByte(n)
    OBVIOUS
  <2>2. n \in 0 .. base - 1
    BY <1>1
  <2>3. Numeral(n, base) = <<d>> /\ d \in DigitsOf(base) /\ HexValue(d) = n
    BY <1>1, <2>1, <2>2, NumeralStep, DigitFacts
  <2>4. <<d>> \in Seq(DigitsOf(base)) /\ Len(<<d>>) = 1
    BY <2>3
  <2>5. Value(<<d>>, base) = n
    BY <2>3, ValueOfOne
  <2>6. QED
    BY <2>3, <2>4, <2>5 DEF ReadsAs
<1>2. ASSUME NEW n \in Nat, n >= base, ReadsAs(Numeral(n \div base, base), n \div base, base)
      PROVE  ReadsAs(Numeral(n, base), n, base)
  <2>1. PICK d : d = DigitByte(n % base)
    OBVIOUS
  <2>2. PICK t : t = Numeral(n \div base, base)
    OBVIOUS
  <2>3. PICK q : q = n \div base
    OBVIOUS
  <2>4. q \in Nat /\ n % base \in 0 .. base - 1 /\ n = q * base + (n % base)
    BY <2>3, Quotients
  <2>5. d \in DigitsOf(base) /\ HexValue(d) = n % base
    BY <2>1, <2>4, DigitFacts
  <2>6. Numeral(n, base) = Append(t, d)
    <3>1. ~(n < base)
      BY <1>2
    <3>2. QED
      BY <2>1, <2>2, <3>1, NumeralStep, Zenon
  <2>7. t \in Seq(DigitsOf(base)) /\ Len(t) >= 1 /\ Value(t, base) = q
    BY <1>2, <2>2, <2>3 DEF ReadsAs
  <2>8. Append(t, d) \in Seq(DigitsOf(base)) /\ Len(Append(t, d)) >= 1
    BY <2>5, <2>7, AppendProperties, LenProperties
  <2>9. Value(Append(t, d), base) = q * base + (n % base)
    BY <2>5, <2>7, ValueOfMore
  <2>10. QED
    BY <2>4, <2>6, <2>8, <2>9 DEF ReadsAs
<1>3. ASSUME NEW n \in Nat, \A k \in Nat : k < n => ReadsAs(Numeral(k, base), k, base)
      PROVE  ReadsAs(Numeral(n, base), n, base)
  <2>1. CASE n >= base
    <3>1. n \div base \in Nat /\ n \div base < n
      BY <2>1, Quotients
    <3>2. QED
      BY <1>2, <1>3, <2>1, <3>1
  <2>2. QED
    BY <1>1, <2>1
<1>4. 0 \in A
  <2>1. \A k \in Nat : ~(k < 0)
    OBVIOUS
  <2>2. ReadsAs(Numeral(0, base), 0, base)
    BY <1>3, <2>1
  <2>3. QED
    BY <2>2
<1>5. ASSUME NEW n \in Nat, n \in A PROVE n + 1 \in A
  <2>1. \A k \in Nat : k < n + 1 => ReadsAs(Numeral(k, base), k, base)
    BY <1>5
  <2>2. ReadsAs(Numeral(n + 1, base), n + 1, base)
    BY <1>3, <2>1
  <2>3. QED
    BY <2>1, <2>2
<1>6. \A n \in Nat : n \in A
  <2> HIDE DEF A
  <2>1. QED
    BY <1>4, <1>5, NumbersIn
<1>7. QED
  BY <1>6

-----------------------------------------------------------------------------
(* Texts laid end to end.                                                  *)
\* The text has w after its first p bytes.
Holds(t, p, w) == p + Len(w) <= Len(t) /\ \A k \in 1 .. Len(w) : t[p + k] = w[k]

\* The text is the parts end to end, part i from o[i] on.
Laid(o, parts, t) ==
  /\ o[1] = 0 /\ o[Len(parts) + 1] = Len(t)
  /\ \A i \in 1 .. Len(parts) :
       /\ o[i] \in Nat /\ o[i + 1] \in Nat /\ o[i + 1] = o[i] + Len(parts[i])
       /\ Holds(t, o[i], parts[i])

Flattens(f, parts) ==
  f = [i \in 1 .. Len(parts) |-> IF i = 1 THEN parts[i] ELSE f[i - 1] \o parts[i]]

\* The parts up to each, end to end.
JoinsTo(g, parts, T) ==
  /\ g \in [Nat -> Seq(T)] /\ g[0] = <<>>
  /\ \A i \in 1 .. Len(parts) : g[i] = g[i - 1] \o parts[i]

LEMMA PartsOf ==
  ASSUME NEW T, NEW parts \in Seq(Seq(T))
  PROVE  Len(parts) \in Nat /\ \A i \in 1 .. Len(parts) : parts[i] \in Seq(T)
BY LenProperties, ElementOfSeq

LEMMA JoinExists ==
  ASSUME NEW T, NEW parts \in Seq(Seq(T))
  PROVE  \E g : JoinsTo(g, parts, T)
<1> DEFINE V == Seq(T)
           part(k) == IF k + 1 \in 1 .. Len(parts) THEN parts[k + 1] ELSE <<>>
           F == [k \in Nat |-> [v \in V |-> v \o part(k)]]
<1>1. \A k \in Nat : part(k) \in V
  BY PartsOf
<1>2. \A k \in Nat, v \in V : v \o part(k) \in V
  <2> HIDE DEF part
  <2>1. QED
    BY <1>1, ConcatProperties
<1>3. F \in [Nat -> [V -> V]] /\ \A k \in Nat, v \in V : F[k][v] = v \o part(k)
  <2> HIDE DEF part, V
  <2>1. QED
    BY <1>2
<1>4. <<>> \in V
  OBVIOUS
<1>5. PICK g : Runs(V, <<>>, F, g)
  <2> HIDE DEF F, V, part
  <2>1. QED
    BY <1>3, <1>4, RecursionExists
<1>6. g \in [Nat -> V] /\ g[0] = <<>> /\ \A k \in Nat : g[k + 1] = g[k] \o part(k)
  <2> HIDE DEF F, V, part
  <2>1. g \in [Nat -> V] /\ g[0] = <<>> /\ \A k \in Nat : g[k + 1] = F[k][g[k]]
    BY <1>5 DEF Runs
  <2>2. \A k \in Nat : g[k] \in V
    BY <2>1
  <2>3. QED
    BY <1>3, <2>1, <2>2
<1>7. ASSUME NEW i \in 1 .. Len(parts) PROVE g[i] = g[i - 1] \o parts[i]
  <2>1. PICK k \in Nat : i = k + 1 /\ k = i - 1
    <3>1. Len(parts) \in Nat
      BY PartsOf
    <3>2. i - 1 \in Nat /\ i = i - 1 + 1
      BY <3>1
    <3>3. QED
      BY <3>2
  <2>2. part(k) = parts[i]
    BY <2>1
  <2> HIDE DEF part
  <2>3. QED
    BY <1>6, <2>1, <2>2
<1>8. JoinsTo(g, parts, T)
  BY <1>6, <1>7 DEF JoinsTo
<1>9. QED
  BY <1>8

LEMMA FlattenJoins ==
  ASSUME NEW T, NEW parts \in Seq(Seq(T)), NEW g, JoinsTo(g, parts, T)
  PROVE  FlattenSeq(parts) = g[Len(parts)]
<1> DEFINE n == Len(parts)
<1>1. n \in Nat
  BY PartsOf
<1>2. CASE n = 0
  <2>1. parts = <<>>
    BY <1>2, EmptySeq
  <2>2. FlattenSeq(parts) = parts
    BY <1>2 DEF FlattenSeq
  <2>3. QED
    BY <1>2, <2>1, <2>2 DEF JoinsTo
<1>3. CASE n # 0
  <2> DEFINE h == [i \in 1 .. n |-> g[i]]
  <2>1. ASSUME NEW i \in 1 .. n
        PROVE  h[i] = IF i = 1 THEN parts[i] ELSE h[i - 1] \o parts[i]
    <3>1. h[i] = g[i - 1] \o parts[i]
      BY DEF JoinsTo
    <3>2. CASE i = 1
      <4>1. parts[i] \in Seq(T)
        BY PartsOf
      <4>2. g[i - 1] = <<>>
        BY <3>2 DEF JoinsTo
      <4>3. <<>> \o parts[i] = parts[i]
        BY <4>1, ConcatEmptySeq
      <4>4. QED
        BY <3>1, <3>2, <4>2, <4>3
    <3>3. CASE i # 1
      <4>1. i - 1 \in 1 .. n
        BY <1>1, <3>3
      <4>2. QED
        BY <3>1, <3>3, <4>1
    <3>4. QED
      BY <3>2, <3>3
  <2>2. Flattens(h, parts)
    <3>1. h = [i \in 1 .. n |-> h[i]]
      OBVIOUS
    <3> HIDE DEF h
    <3>2. h = [i \in 1 .. n |-> IF i = 1 THEN parts[i] ELSE h[i - 1] \o parts[i]]
      BY <2>1, <3>1
    <3>3. QED
      BY <3>2 DEF Flattens
  <2> HIDE DEF h
  <2> DEFINE f == CHOOSE f : Flattens(f, parts)
  <2>3. Flattens(f, parts)
    BY <2>2
  <2>4. FlattenSeq(parts) = f[n]
    BY <1>3 DEF FlattenSeq, Flattens
  <2> HIDE DEF f
  <2>5. \A i \in 1 .. n : f[i] = IF i = 1 THEN parts[i] ELSE f[i - 1] \o parts[i]
    BY <2>3 DEF Flattens
  <2> DEFINE A == {k \in Nat : k + 1 <= n => f[k + 1] = g[k + 1]}
  <2>6. 0 \in A
    <3>1. 1 \in 1 .. n /\ 1 - 1 = 0 /\ 0 + 1 = 1
      BY <1>1, <1>3
    <3>2. f[1] = parts[1] /\ g[1] = <<>> \o parts[1] /\ parts[1] \in Seq(T)
      BY <2>5, <3>1, PartsOf DEF JoinsTo
    <3>3. <<>> \o parts[1] = parts[1]
      BY <3>2, ConcatEmptySeq
    <3>4. QED
      BY <3>1, <3>2, <3>3
  <2>7. ASSUME NEW k \in Nat, k \in A PROVE k + 1 \in A
    <3>1. SUFFICES ASSUME k + 1 + 1 <= n PROVE f[k + 1 + 1] = g[k + 1 + 1]
      OBVIOUS
    <3>2. PICK i : i = k + 1 + 1
      OBVIOUS
    <3>3. i \in 1 .. n /\ i # 1 /\ i - 1 = k + 1 /\ f[k + 1] = g[k + 1]
      BY <1>1, <2>7, <3>1, <3>2
    <3>4. f[i] = f[i - 1] \o parts[i] /\ g[i] = g[i - 1] \o parts[i]
      BY <2>5, <3>3 DEF JoinsTo
    <3>5. QED
      BY <3>2, <3>3, <3>4
  <2>8. \A k \in Nat : k \in A
    <3> HIDE DEF A
    <3>1. QED
      BY <2>6, <2>7, NumbersIn
  <2>9. n - 1 \in Nat /\ n - 1 + 1 = n /\ n <= n
    BY <1>1, <1>3
  <2>10. QED
    BY <2>4, <2>8, <2>9
<1>4. QED
  BY <1>2, <1>3

\* The places of the parts.
PartsLaid(parts, T) ==
  /\ FlattenSeq(parts) \in Seq(T)
  /\ \E o : Laid(o, parts, FlattenSeq(parts))

Extends(t, l, r) ==
  /\ Len(t) = Len(l) + Len(r)
  /\ \A k \in 1 .. Len(l) + Len(r) : t[k] = IF k <= Len(l) THEN l[k] ELSE r[k - Len(l)]

LEMMA JoinExtends ==
  ASSUME NEW T, NEW l \in Seq(T), NEW r \in Seq(T)
  PROVE  Extends(l \o r, l, r)
BY ConcatProperties DEF Extends

LEMMA FlattenLays ==
  ASSUME NEW T, NEW parts \in Seq(Seq(T))
  PROVE  PartsLaid(parts, T)
<1>1. PICK n : n = Len(parts)
  OBVIOUS
<1>2. n \in Nat /\ \A i \in 1 .. n : parts[i] \in Seq(T) /\ Len(parts[i]) \in Nat
  BY <1>1, PartsOf, LenProperties
<1>3. PICK g : JoinsTo(g, parts, T)
  BY JoinExists
<1>4. \A i \in Nat : g[i] \in Seq(T) /\ Len(g[i]) \in Nat
  <2>1. \A i \in Nat : g[i] \in Seq(T)
    BY <1>3 DEF JoinsTo
  <2>2. QED
    BY <2>1, LenProperties
<1>5. ASSUME NEW i \in 1 .. n
      PROVE  i - 1 \in Nat /\ Extends(g[i], g[i - 1], parts[i])
  <2>1. i - 1 \in Nat
    BY <1>2
  <2>2. g[i] = g[i - 1] \o parts[i]
    BY <1>1, <1>3 DEF JoinsTo
  <2>3. g[i - 1] \in Seq(T) /\ parts[i] \in Seq(T)
    BY <1>2, <1>4, <2>1
  <2>4. Extends(g[i - 1] \o parts[i], g[i - 1], parts[i])
    BY <2>3, JoinExtends
  <2>5. QED
    BY <2>1, <2>2, <2>4
\* What is there stays there.
<1> DEFINE A == {m \in Nat : m <= n => \A j \in 1 .. m : Holds(g[m], Len(g[j - 1]), parts[j])}
<1>6. 0 \in A
  OBVIOUS
<1>7. ASSUME NEW m \in Nat, m \in A PROVE m + 1 \in A
  <2>1. SUFFICES ASSUME m + 1 <= n, NEW j \in 1 .. m + 1
                 PROVE  Holds(g[m + 1], Len(g[j - 1]), parts[j])
    OBVIOUS
  <2>2. PICK i : i = m + 1
    OBVIOUS
  <2>3. PICK a : a = Len(g[m])
    OBVIOUS
  <2>4. i \in 1 .. n /\ i - 1 = m /\ m <= n /\ j \in 1 .. n /\ j - 1 \in Nat
    BY <1>2, <2>1, <2>2
  <2>5. /\ a \in Nat /\ Len(parts[i]) \in Nat /\ Len(g[i]) = a + Len(parts[i])
        /\ \A k \in 1 .. Len(g[i]) : g[i][k] = IF k <= a THEN g[m][k] ELSE parts[i][k - a]
    <3>1. Extends(g[i], g[m], parts[i])
      BY <1>5, <2>4
    <3>2. QED
      BY <1>2, <1>4, <2>3, <2>4, <3>1 DEF Extends
  <2>6. CASE j <= m
    <3>1. Holds(g[m], Len(g[j - 1]), parts[j])
      BY <1>7, <2>4, <2>6
    <3>2. PICK p : p = Len(g[j - 1])
      OBVIOUS
    <3>3. p \in Nat /\ Len(parts[j]) \in Nat
      BY <1>2, <1>4, <2>4, <3>2
    <3>4. p + Len(parts[j]) <= a /\ \A k \in 1 .. Len(parts[j]) : g[m][p + k] = parts[j][k]
      BY <2>3, <3>1, <3>2 DEF Holds
    <3>5. ASSUME NEW k \in 1 .. Len(parts[j]) PROVE g[i][p + k] = parts[j][k]
      <4>1. PICK l : l = Len(parts[j])
        OBVIOUS
      <4>2. PICK r : r = Len(parts[i])
        OBVIOUS
      <4>3. p \in Nat /\ l \in Nat /\ r \in Nat /\ p + l <= a /\ k \in 1 .. l /\ Len(g[i]) = a + r
        BY <2>5, <3>3, <3>4, <4>1, <4>2
      <4>4. p + k \in 1 .. a + r /\ p + k <= a
        BY <2>5, <4>3
      <4>5. QED
        BY <2>5, <3>4, <4>3, <4>4
    <3>6. p + Len(parts[j]) <= Len(g[i])
      BY <2>5, <3>3, <3>4
    <3>7. QED
      BY <2>2, <3>2, <3>5, <3>6 DEF Holds
  <2>7. CASE j = m + 1
    <3>1. j = i /\ Len(g[j - 1]) = a
      BY <2>2, <2>3, <2>4, <2>7
    <3>2. ASSUME NEW k \in 1 .. Len(parts[i]) PROVE g[i][a + k] = parts[i][k]
      <4>1. a + k \in 1 .. Len(g[i]) /\ ~(a + k <= a) /\ a + k - a = k
        BY <2>5
      <4>2. QED
        BY <2>5, <4>1
    <3>3. QED
      BY <2>2, <2>5, <3>1, <3>2 DEF Holds
  <2>8. QED
    BY <2>6, <2>7
<1>8. \A m \in Nat : m \in A
  <2> HIDE DEF A
  <2>1. QED
    BY <1>6, <1>7, NumbersIn
<1>9. \A j \in 1 .. n : Holds(g[n], Len(g[j - 1]), parts[j])
  BY <1>2, <1>8
<1> HIDE DEF A
<1>10. FlattenSeq(parts) = g[n]
  BY <1>1, <1>3, FlattenJoins
<1> DEFINE o == [i \in 1 .. n + 1 |-> Len(g[i - 1])]
<1>11. o[1] = 0 /\ o[n + 1] = Len(g[n])
  <2>1. g[0] = <<>> /\ Len(<<>>) = 0
    BY <1>3 DEF JoinsTo
  <2>2. 1 \in 1 .. n + 1 /\ n + 1 \in 1 .. n + 1 /\ 1 - 1 = 0 /\ n + 1 - 1 = n
    BY <1>2
  <2>3. \A i \in 1 .. n + 1 : o[i] = Len(g[i - 1])
    OBVIOUS
  <2> HIDE DEF o
  <2>4. g[1 - 1] = g[0] /\ g[n + 1 - 1] = g[n]
    BY <2>2
  <2>5. o[1] = Len(g[0]) /\ o[n + 1] = Len(g[n])
    BY <1>2, <2>2, <2>3, <2>4
  <2>6. Len(g[0]) = 0
    BY <2>1
  <2>7. QED
    BY <2>5, <2>6
<1>12. ASSUME NEW i \in 1 .. n
       PROVE  /\ o[i] = Len(g[i - 1]) /\ o[i] \in Nat /\ o[i + 1] \in Nat
              /\ o[i + 1] = o[i] + Len(parts[i])
  <2>1. i \in 1 .. n + 1 /\ i + 1 \in 1 .. n + 1 /\ i + 1 - 1 = i /\ i - 1 \in Nat /\ i \in Nat
    BY <1>2
  <2>2. o[i] = Len(g[i - 1]) /\ o[i + 1] = Len(g[i])
    BY <2>1
  <2> HIDE DEF o
  <2>3. Len(g[i]) = Len(g[i - 1]) + Len(parts[i])
    BY <1>5 DEF Extends
  <2>4. QED
    BY <1>4, <2>1, <2>2, <2>3
<1> HIDE DEF o
<1>13. Laid(o, parts, FlattenSeq(parts))
  BY <1>1, <1>9, <1>10, <1>11, <1>12 DEF Laid
<1>14. FlattenSeq(parts) \in Seq(T)
  BY <1>2, <1>4, <1>10
<1>15. QED
  BY <1>13, <1>14 DEF PartsLaid

-----------------------------------------------------------------------------
(* What the parser makes of a text.                                        *)
Char == 0 .. 4095  \* what two bytes can hold
Steps ==
  {Field(nm) : nm \in Seq(Char)} \cup {AnyField, AnyIndex} \cup {Index(i) : i \in 0 .. MaxU32}

Shaped ==
  /\ steps \in Seq(Steps) /\ name \in Seq(Char)
  /\ mode = "ident" => token \in Seq(IdentByte)
  /\ mode = "number" => token \in Seq(Digit)
  /\ mode = "unicode" => token \in Seq(HexDigit)
  /\ mode = "bracket" => step \in Steps
  /\ mode = "done" => result = Ok(steps) \/ ~result.ok

LEMMA FailsShapes ==
  ASSUME Shaped, NEW at, NEW kind, ParseFails(at, kind)
  PROVE  Shaped'
<1>1. mode' = "done" /\ steps' = steps /\ name' = name /\ ~result'.ok
  BY DEF ParseFails, Err
<1>2. QED
  BY <1>1 DEF Shaped

LEMMA UnexpectedShapes ==
  ASSUME Shaped, NEW p, Unexpected(p)
  PROVE  Shaped'
BY FailsShapes DEF Unexpected

LEMMA PushStepShapes ==
  ASSUME Shaped, NEW s \in Steps, NEW p, PushStep(s, p)
  PROVE  Shaped'
<1>1. steps' \in Seq(Steps) /\ mode' = "steps" /\ name' = name
  BY AppendProperties DEF PushStep, Shaped
<1>2. QED
  BY <1>1 DEF Shaped

LEMMA EnterShapes ==
  ASSUME Shaped, NEW loop \in {"steps", "ident", "number", "quoted"}, NEW p, Enter(loop, p)
  PROVE  Shaped'
<1>1. mode' = loop /\ steps' = steps /\ token' = <<>> /\ name' = <<>>
  BY DEF Enter
<1>2. \A T : <<>> \in Seq(T)
  OBVIOUS
<1>3. QED
  BY <1>1, <1>2 DEF Shaped

LEMMA PushCharShapes ==
  ASSUME Shaped, NEW c \in Char, NEW p, PushChar(c, p)
  PROVE  Shaped'
<1>1. name' \in Seq(Char) /\ mode' = "quoted" /\ steps' = steps
  BY AppendProperties DEF PushChar, Shaped
<1>2. QED
  BY <1>1 DEF Shaped

LEMMA FieldBodyShapes ==
  ASSUME Shaped, NEW p, FieldBody(p)
  PROVE  Shaped'
<1>1. \/ PushStep(AnyField, p + 1) \/ Enter("quoted", p + 1) \/ Enter("ident", p) \/ Unexpected(p)
  <2>1. CASE ByteAt(p) = Star
    BY <2>1 DEF FieldBody, Star, Quote, Letter
  <2>2. CASE ByteAt(p) = Quote
    BY <2>2 DEF FieldBody, Star, Quote, Letter
  <2>3. CASE ByteAt(p) # Star /\ ByteAt(p) # Quote
    BY <2>3, Zenon DEF FieldBody
  <2>4. QED
    BY <2>1, <2>2, <2>3
<1>2. AnyField \in Steps
  BY DEF Steps
<1>3. QED
  BY <1>1, <1>2, PushStepShapes, EnterShapes, UnexpectedShapes

LEMMA IndexBodyShapes ==
  ASSUME Shaped, NEW p, IndexBody(p)
  PROVE  Shaped'
<1>1. CASE ByteAt(p) = Star
  <2>1. mode' = "bracket" /\ step' = AnyIndex /\ UNCHANGED <<steps, name>>
    BY <1>1 DEF IndexBody
  <2>2. AnyIndex \in Steps
    BY DEF Steps
  <2>3. QED
    BY <2>1, <2>2 DEF Shaped
<1>2. CASE ByteAt(p) # Star /\ ByteAt(p) \in Digit
  BY <1>2, EnterShapes DEF IndexBody
<1>3. CASE ByteAt(p) # Star /\ ByteAt(p) \notin Digit
  BY <1>3, UnexpectedShapes DEF IndexBody
<1>4. QED
  BY <1>1, <1>2, <1>3

LEMMA RootShapes ==
  ASSUME Shaped, Root
  PROVE  Shaped'
<1>1. Enter("steps", 1) \/ ParseFails(0, "Empty") \/ ParseFails(0, "ExpectedRoot")
  BY Zenon DEF Root
<1>2. QED
  BY <1>1, EnterShapes, FailsShapes

LEMMA ParsePatternShapes ==
  ASSUME Shaped, ParsePattern
  PROVE  Shaped'
<1>1. CASE Peek = End
  <2>1. mode' = "done" /\ result' = Ok(steps) /\ UNCHANGED <<steps, name>>
    BY <1>1 DEF ParsePattern, End, Dot, OpenBracket, Letter, Quote, Star
  <2>2. QED
    BY <2>1 DEF Shaped
<1>2. CASE Peek # End
  <2>1. \/ Unexpected(pos) \/ FieldBody(pos + 1) \/ IndexBody(pos + 1) \/ FieldBody(pos)
    BY <1>2, Zenon DEF ParsePattern
  <2>2. QED
    BY <2>1, UnexpectedShapes, FieldBodyShapes, IndexBodyShapes
<1>3. QED
  BY <1>1, <1>2

LEMMA IdentIsChar == IdentByte \subseteq Char /\ Digit \subseteq HexDigit
BY DEF IdentByte, Letter, Digit, HexDigit, Char

LEMMA ParseIdentShapes ==
  ASSUME Shaped, ParseIdent
  PROVE  Shaped'
<1>1. token \in Seq(IdentByte) /\ mode = "ident"
  BY DEF Shaped, ParseIdent
<1>2. CASE Peek \in IdentByte
  <2>1. token' = Append(token, Peek) /\ UNCHANGED <<mode, steps, name>>
    BY <1>2 DEF ParseIdent, Take
  <2>2. token' \in Seq(IdentByte)
    BY <1>1, <1>2, <2>1, AppendProperties
  <2>3. QED
    BY <1>1, <2>1, <2>2 DEF Shaped
<1>3. CASE Peek \notin IdentByte
  <2>1. token \in Seq(Char)
    BY <1>1, IdentIsChar, SeqMonotonic
  <2>2. Field(token) \in Steps
    BY <2>1 DEF Steps
  <2>3. QED
    BY <1>3, <2>2, PushStepShapes DEF ParseIdent
<1>4. QED
  BY <1>2, <1>3

LEMMA ParseU32Shapes ==
  ASSUME Shaped, ParseU32
  PROVE  Shaped'
<1>1. token \in Seq(Digit) /\ mode = "number"
  BY DEF Shaped, ParseU32
<1>2. CASE Peek \in Digit
  <2>1. token' = Append(token, Peek) /\ UNCHANGED <<mode, steps, name>>
    BY <1>2 DEF ParseU32, Take
  <2>2. token' \in Seq(Digit)
    BY <1>1, <1>2, <2>1, AppendProperties
  <2>3. QED
    BY <1>1, <2>1, <2>2 DEF Shaped
<1>3. CASE Peek \notin Digit /\ Value(token, 10) > MaxU32
  BY <1>3, FailsShapes DEF ParseU32
<1>4. CASE Peek \notin Digit /\ ~(Value(token, 10) > MaxU32)
  <2>1. mode' = "bracket" /\ step' = Index(Value(token, 10)) /\ UNCHANGED <<steps, name>>
    BY <1>4 DEF ParseU32
  <2>2. Value(token, 10) \in Nat
    BY <1>1, IdentIsChar, SeqMonotonic, ValueType
  <2>3. Value(token, 10) \in 0 .. MaxU32
    BY <1>4, <2>2, LimitAssumption
  <2>4. step' \in Steps
    BY <2>1, <2>3 DEF Steps
  <2>5. QED
    BY <2>1, <2>4 DEF Shaped
<1>5. QED
  BY <1>2, <1>3, <1>4

LEMMA EndOfIndexShapes ==
  ASSUME Shaped, EndOfIndex
  PROVE  Shaped'
<1>1. step \in Steps
  BY DEF Shaped, EndOfIndex
<1>2. PushStep(step, pos + 1) \/ Unexpected(pos)
  BY DEF EndOfIndex
<1>3. QED
  BY <1>1, <1>2, PushStepShapes, UnexpectedShapes

\* What an escape stands for.
LEMMA Meanings == \A c \in DOMAIN Unescaped : Unescaped[c] \in Char /\ c # End
<1> SUFFICES ASSUME NEW c \in DOMAIN Unescaped PROVE Unescaped[c] \in Char /\ c # End
  OBVIOUS
<1>1. c \in {34, 92, 110, 116, 114, 48}
  BY EscapesAreLetters
<1>2. Unescaped[c] \in {10, 9, 13, 0, c}
  BY <1>1 DEF Unescaped
<1>3. QED
  BY <1>1, <1>2 DEF Char, End

LEMMA ParseEscapeShapes ==
  ASSUME Shaped, NEW c, ParseEscape(c)
  PROVE  Shaped'
<1>1. CASE c \in DOMAIN Unescaped
  <2>1. PushChar(Unescaped[c], pos + 2)
    BY <1>1, EscapesAreLetters DEF ParseEscape, End
  <2>2. QED
    BY <1>1, <2>1, Meanings, PushCharShapes
<1>2. CASE c \notin DOMAIN Unescaped /\ c = 117 /\ ByteAt(pos + 2) = OpenBrace
  <2>1. mode' = "unicode" /\ token' = <<>> /\ UNCHANGED <<steps, name>>
    BY <1>2 DEF ParseEscape, End
  <2>2. token' \in Seq(HexDigit)
    BY <2>1
  <2>3. QED
    BY <2>1, <2>2 DEF Shaped
<1>3. CASE c \notin DOMAIN Unescaped /\ ~(c = 117 /\ ByteAt(pos + 2) = OpenBrace)
  <2>1. \E at, kind : ParseFails(at, kind)
    BY <1>3 DEF ParseEscape
  <2>2. QED
    BY <2>1, FailsShapes
<1>4. QED
  BY <1>1, <1>2, <1>3

LEMMA RawCharShapes ==
  ASSUME IndInv, Shaped, Peek # End, RawChar
  PROVE  Shaped'
<1>1. text \in Seq(Byte) /\ IsUtf8(text) /\ AtChar(pos) /\ Peek = ByteAt(pos) /\ Peek \notin Cont
  BY DEF IndInv, AtChar, Peek
<1>2. pos \in Nat /\ pos <= Len(text) /\ pos < Len(text)
  BY <1>1, PlaceAfter, Zenon DEF AtChar
<1>3. Peek \in Byte
  BY <1>1, <1>2, Reading, Zenon
<1>4. CASE Peek < 128
  <2>1. PushChar(Peek, pos + 1)
    BY <1>1, <1>4 DEF RawChar
  <2>2. Peek \in Char
    BY <1>3 DEF Byte, Char
  <2>3. QED
    BY <2>1, <2>2, PushCharShapes
<1>5. CASE ~(Peek < 128)
  <2>1. Peek >= 192
    BY <1>1, <1>3, <1>5, LeadOrAscii, Zenon
  <2>2. ByteAt(pos + 1) \in Cont
    BY <1>1, <1>2, <2>1, Pairs, Zenon
  <2>3. PICK c : c = (Peek - 192) * 64 + ByteAt(pos + 1) - 128
    OBVIOUS
  <2>4. PushChar(c, pos + 2)
    BY <1>1, <1>5, <2>3 DEF RawChar
  <2>5. c \in Char
    BY <1>3, <2>1, <2>2, <2>3 DEF Byte, Cont, Char
  <2>6. QED
    BY <2>4, <2>5, PushCharShapes
<1>6. QED
  BY <1>4, <1>5

LEMMA ParseQuotedShapes ==
  ASSUME IndInv, Shaped, ParseQuoted
  PROVE  Shaped'
<1>1. CASE Peek = End
  <2>1. \E at, kind : ParseFails(at, kind)
    BY <1>1 DEF ParseQuoted, End, Quote, Backslash
  <2>2. QED
    BY <2>1, FailsShapes
<1>2. CASE Peek = Quote
  <2>1. PushStep(Field(name), pos + 1)
    BY <1>2 DEF ParseQuoted, End, Quote, Backslash
  <2>2. Field(name) \in Steps
    BY DEF Shaped, Steps
  <2>3. QED
    BY <2>1, <2>2, PushStepShapes
<1>3. CASE Peek = Backslash
  <2>1. ParseEscape(ByteAt(pos + 1))
    BY <1>3 DEF ParseQuoted, End, Quote, Backslash
  <2>2. QED
    BY <2>1, ParseEscapeShapes
<1>4. CASE Peek \notin {End, Quote, Backslash}
  <2>1. RawChar
    BY <1>4 DEF ParseQuoted
  <2>2. QED
    BY <1>4, <2>1, RawCharShapes
<1>5. QED
  BY <1>1, <1>2, <1>3, <1>4

LEMMA ParseUnicodeEscapeShapes ==
  ASSUME Shaped, ParseUnicodeEscape
  PROVE  Shaped'
<1>1. token \in Seq(HexDigit) /\ mode = "unicode"
  BY DEF Shaped, ParseUnicodeEscape
<1>2. CASE Peek \in HexDigit
  <2>1. Take(Peek)
    BY <1>2, Zenon DEF ParseUnicodeEscape
  <2>2. token' = Append(token, Peek) /\ UNCHANGED <<mode, steps, name>>
    BY <2>1 DEF Take
  <2>3. token' \in Seq(HexDigit)
    BY <1>1, <1>2, <2>2, AppendProperties
  <2>4. QED
    BY <1>1, <2>2, <2>3 DEF Shaped
<1>3. CASE Peek \notin HexDigit
  <2>1. \/ \E at, kind : ParseFails(at, kind)
        \/ ~(Value(token, 16) > MaxChar) /\ PushChar(Value(token, 16), pos + 1)
    BY <1>3 DEF ParseUnicodeEscape
  <2>2. ASSUME ~(Value(token, 16) > MaxChar) PROVE Value(token, 16) \in Char
    <3>1. PICK v : v = Value(token, 16)
      OBVIOUS
    <3>2. v \in Nat /\ ~(v > MaxChar)
      BY <1>1, <2>2, <3>1, ValueType
    <3>3. v \in 0 .. 4095
      BY <3>2, LimitAssumption
    <3>4. QED
      BY <3>1, <3>3 DEF Char
  <2>3. QED
    BY <2>1, <2>2, FailsShapes, PushCharShapes
<1>4. QED
  BY <1>2, <1>3

LEMMA InitShapes == ASSUME Init PROVE Shaped
<1>1. steps = <<>> /\ name = <<>> /\ mode = "root"
  BY DEF Init
<1>2. \A T : <<>> \in Seq(T)
  OBVIOUS
<1>3. QED
  BY <1>1, <1>2 DEF Shaped

LEMMA ParseShapes ==
  ASSUME IndInv, Shaped, Parse
  PROVE  Shaped'
BY RootShapes, ParsePatternShapes, ParseIdentShapes, ParseU32Shapes, EndOfIndexShapes,
   ParseQuotedShapes, ParseUnicodeEscapeShapes DEF Parse

-----------------------------------------------------------------------------
(* How a pattern is written.                                               *)
LEMMA Surrogates ==
  \A c \in Char : /\ c >= 128 => 192 + c \div 64 \in 192 .. 255 /\ 128 + (c % 64) \in Cont
                  /\ c = (c \div 64) * 64 + (c % 64)
                  /\ c < 128 => c \in Byte
BY DEF Char, Cont, Byte

LEMMA EscapesReadBack ==
  \A c \in Escaped : EscapeOf(c) \in DOMAIN Unescaped /\ Unescaped[EscapeOf(c)] = c /\ EscapeOf(c) \in Byte
BY EscapesAreLetters DEF Escaped, EscapeOf, Unescaped, Quote, Backslash, Byte

\* The digits of a character that is escaped by its number, in their braces.
LEMMA BracedIs ==
  ASSUME NEW d \in Seq(Byte)
  PROVE  LET q == <<Backslash, 117, OpenBrace>> \o d \o <<CloseBrace>>
         IN /\ q \in Seq(Byte) /\ Len(q) = Len(d) + 4
            /\ q[1] = Backslash /\ q[2] = 117 /\ q[3] = OpenBrace /\ q[Len(d) + 4] = CloseBrace
            /\ \A k \in 1 .. Len(d) : q[3 + k] = d[k]
<1> DEFINE a == <<Backslash, 117, OpenBrace>>
           z == <<CloseBrace>>
           q == a \o d \o z
<1>1. a \in Seq(Byte) /\ Len(a) = 3 /\ z \in Seq(Byte) /\ Len(z) = 1 /\ Len(d) \in Nat
  BY LenProperties DEF Backslash, OpenBrace, CloseBrace, Byte
<1>2. a[1] = Backslash /\ a[2] = 117 /\ a[3] = OpenBrace /\ z[1] = CloseBrace
  OBVIOUS
<1> HIDE DEF a, z
<1>3. a \o d \in Seq(Byte) /\ Extends(a \o d, a, d)
  BY <1>1, ConcatProperties, JoinExtends
<1>4. q \in Seq(Byte) /\ Extends(q, a \o d, z)
  BY <1>1, <1>3, ConcatProperties, JoinExtends
<1>5. Len(a \o d) = 3 + Len(d)
  BY <1>1, <1>3 DEF Extends
<1> HIDE DEF q
<1>6. Len(q) = Len(d) + 4 /\ q[Len(d) + 4] = z[1]
  BY <1>1, <1>4, <1>5 DEF Extends
<1>7. PICK l : l = Len(d)
  OBVIOUS
<1>8. PICK b : b = a \o d
  OBVIOUS
<1>9. l \in Nat /\ \A k \in 1 .. 3 + l : q[k] = b[k]
  BY <1>1, <1>4, <1>5, <1>7, <1>8 DEF Extends
<1>10. q[1] = a[1] /\ q[2] = a[2] /\ q[3] = a[3]
  <2>1. \A k \in 1 .. 3 : b[k] = a[k]
    BY <1>1, <1>3, <1>8 DEF Extends
  <2>2. \A k \in 1 .. 3 : k \in 1 .. 3 + l
    BY <1>9
  <2>3. QED
    BY <1>9, <2>1, <2>2
<1>11. \A k \in 1 .. l : q[3 + k] = d[k]
  <2>1. \A k \in 1 .. l : b[3 + k] = d[k]
    BY <1>1, <1>3, <1>7, <1>8 DEF Extends
  <2>2. \A k \in 1 .. l : 3 + k \in 1 .. 3 + l
    BY <1>9
  <2>3. QED
    BY <1>9, <2>1, <2>2
<1>12. QED
  BY <1>2, <1>4, <1>6, <1>7, <1>10, <1>11 DEF q, a, z

\* A character as it is written.
Braced(q, d) ==
  /\ Len(q) = Len(d) + 4
  /\ q[1] = Backslash /\ q[2] = 117 /\ q[3] = OpenBrace /\ q[Len(d) + 4] = CloseBrace
  /\ \A k \in 1 .. Len(d) : q[3 + k] = d[k]

ByNumber(c) == c \notin Escaped /\ c < 32

WrittenChar(q, c) ==
  /\ q \in Seq(Byte)
  /\ c \in Escaped => q = <<Backslash, EscapeOf(c)>>
  /\ ByNumber(c) => Braced(q, Numeral(c, 16))
  /\ c \notin Escaped /\ ~(c < 32) /\ c < 128 => q = <<c>>
  /\ c \notin Escaped /\ ~(c < 32) /\ ~(c < 128) => q = <<192 + c \div 64, 128 + (c % 64)>>

LEMMA NumeralBytes ==
  ASSUME NEW base \in {10, 16}, NEW n \in Nat
  PROVE  /\ Numeral(n, base) \in Seq(Byte) /\ Len(Numeral(n, base)) \in Nat
         /\ Len(Numeral(n, base)) >= 1
         /\ \A k \in 1 .. Len(Numeral(n, base)) : Numeral(n, base)[k] \in DigitsOf(base)
         /\ Value(Numeral(n, base), base) = n
<1>1. PICK t : t = Numeral(n, base)
  OBVIOUS
<1>2. t \in Seq(DigitsOf(base)) /\ Len(t) >= 1 /\ Value(t, base) = n
  BY <1>1, NumeralReadsAs DEF ReadsAs
<1>3. DigitsOf(base) \subseteq Byte
  BY DigitsAreHex, HexValueType
<1>4. t \in Seq(Byte) /\ Len(t) \in Nat /\ \A k \in 1 .. Len(t) : t[k] \in DigitsOf(base)
  BY <1>2, <1>3, SeqMonotonic, LenProperties, ElementOfSeq
<1>5. QED
  BY <1>1, <1>2, <1>4

LEMMA CharWritten ==
  ASSUME NEW c \in Char
  PROVE  WrittenChar(QuotedChar(c), c)
<1>1. CASE c \in Escaped
  <2>1. QuotedChar(c) = <<Backslash, EscapeOf(c)>> /\ ~ByNumber(c)
    BY <1>1 DEF QuotedChar, ByNumber
  <2>2. QuotedChar(c) \in Seq(Byte)
    BY <1>1, <2>1, EscapesReadBack DEF Backslash, Byte
  <2>3. QED
    BY <1>1, <2>1, <2>2 DEF WrittenChar
<1>2. CASE ByNumber(c)
  <2>1. PICK d : d = Numeral(c, 16)
    OBVIOUS
  <2>2. QuotedChar(c) = <<Backslash, 117, OpenBrace>> \o d \o <<CloseBrace>>
    BY <1>2, <2>1 DEF QuotedChar, ByNumber
  <2>3. d \in Seq(Byte)
    <3>1. c \in Nat /\ 16 \in {10, 16}
      BY DEF Char
    <3>2. Numeral(c, 16) \in Seq(Byte)
      BY <3>1, NumeralBytes
    <3>3. QED
      BY <2>1, <3>2
  <2>4. QuotedChar(c) \in Seq(Byte) /\ Braced(QuotedChar(c), d)
    BY <2>2, <2>3, BracedIs DEF Braced
  <2>5. QED
    BY <1>2, <2>1, <2>4 DEF WrittenChar, ByNumber
<1>3. CASE c \notin Escaped /\ ~(c < 32)
  <2>1. QuotedChar(c) = Utf8(c)
    BY <1>3 DEF QuotedChar
  <2>2. CASE c < 128
    <3>1. QuotedChar(c) = <<c>> /\ c \in Byte
      BY <2>1, <2>2, Surrogates DEF Utf8
    <3>2. QED
      BY <1>3, <2>2, <3>1 DEF WrittenChar, ByNumber
  <2>3. CASE ~(c < 128)
    <3>1. QuotedChar(c) = <<192 + c \div 64, 128 + (c % 64)>>
      BY <2>1, <2>3 DEF Utf8
    <3>2. 192 + c \div 64 \in Byte /\ 128 + (c % 64) \in Byte
      <4>1. c >= 128
        BY <2>3 DEF Char
      <4>2. 192 + c \div 64 \in 192 .. 255 /\ 128 + (c % 64) \in Cont
        BY <4>1, Surrogates
      <4>3. 192 .. 255 \subseteq Byte /\ Cont \subseteq Byte
        BY DEF Byte, Cont
      <4>4. QED
        BY <4>2, <4>3, Zenon
    <3>3. QuotedChar(c) \in Seq(Byte)
      BY <3>1, <3>2
    <3>4. QED
      BY <1>3, <2>3, <3>1, <3>3 DEF WrittenChar, ByNumber
  <2>4. QED
    BY <2>2, <2>3
<1>4. QED
  BY <1>1, <1>2, <1>3 DEF ByNumber

-----------------------------------------------------------------------------
(* Where it is written.                                                    *)
LEMMA HoldsSelf ==
  ASSUME NEW T, NEW t \in Seq(T)
  PROVE  Holds(t, 0, t)
<1>1. Len(t) \in Nat
  BY LenProperties
<1>2. 0 + Len(t) <= Len(t) /\ \A k \in 1 .. Len(t) : 0 + k = k
  BY <1>1
<1>3. QED
  BY <1>2 DEF Holds

LEMMA HoldsPart ==
  ASSUME NEW t, NEW p \in Nat, NEW w, NEW q \in Nat, NEW v, Len(v) \in Nat, Len(w) \in Nat,
         Len(t) \in Nat, Holds(t, p, w), Holds(w, q, v)
  PROVE  Holds(t, p + q, v)
<1>1. PICK l : l = Len(v)
  OBVIOUS
<1>2. PICK m : m = Len(w)
  OBVIOUS
<1>3. PICK n : n = Len(t)
  OBVIOUS
<1>4. /\ l \in Nat /\ m \in Nat /\ n \in Nat
      /\ p + m <= n /\ \A k \in 1 .. m : t[p + k] = w[k]
      /\ q + l <= m /\ \A k \in 1 .. l : w[q + k] = v[k]
  BY <1>1, <1>2, <1>3 DEF Holds
<1>5. p + q + l <= n
  BY <1>4
<1>6. ASSUME NEW k \in 1 .. l PROVE t[p + q + k] = v[k]
  <2>1. q + k \in 1 .. m /\ p + (q + k) = p + q + k
    BY <1>4
  <2>2. t[p + (q + k)] = w[q + k]
    BY <1>4, <2>1
  <2>3. QED
    BY <1>4, <2>1, <2>2
<1>7. QED
  BY <1>1, <1>3, <1>5, <1>6 DEF Holds

LEMMA HoldsJoined ==
  ASSUME NEW T, NEW l \in Seq(T), NEW r \in Seq(T)
  PROVE  Holds(l \o r, 0, l) /\ Holds(l \o r, Len(l), r) /\ l \o r \in Seq(T)
         /\ Len(l \o r) = Len(l) + Len(r) /\ Len(l) \in Nat /\ Len(r) \in Nat
<1>1. PICK a : a = Len(l)
  OBVIOUS
<1>2. PICK b : b = Len(r)
  OBVIOUS
<1>3. PICK t : t = l \o r
  OBVIOUS
<1>4. a \in Nat /\ b \in Nat /\ t \in Seq(T)
  BY <1>1, <1>2, <1>3, LenProperties, ConcatProperties
<1>5. Len(t) = a + b /\ \A k \in 1 .. a + b : t[k] = IF k <= a THEN l[k] ELSE r[k - a]
  BY <1>1, <1>2, <1>3, JoinExtends DEF Extends
<1>6. ASSUME NEW k \in 1 .. a PROVE t[0 + k] = l[k]
  <2>1. k \in 1 .. a + b /\ k <= a /\ 0 + k = k
    BY <1>4
  <2>2. QED
    BY <1>5, <2>1
<1>7. ASSUME NEW k \in 1 .. b PROVE t[a + k] = r[k]
  <2>1. PICK j : j = a + k
    OBVIOUS
  <2>2. j \in 1 .. a + b /\ ~(j <= a) /\ j - a = k
    BY <1>4, <2>1
  <2>3. t[j] = r[j - a]
    BY <1>5, <2>2
  <2>4. QED
    BY <2>1, <2>2, <2>3
<1>8. 0 + a <= a + b /\ a + b <= a + b
  BY <1>4
<1>9. Holds(t, 0, l) /\ Holds(t, a, r)
  BY <1>1, <1>2, <1>5, <1>6, <1>7, <1>8 DEF Holds
<1>10. QED
  BY <1>1, <1>2, <1>3, <1>4, <1>5, <1>9

LEMMA HoldsByte ==
  ASSUME text \in Seq(Byte), NEW p \in Nat, NEW w, Len(w) \in Nat, Holds(text, p, w),
         NEW j \in Nat, j < Len(w)
  PROVE  ByteAt(p + j) = w[j + 1]
<1>1. PICK l : l = Len(w)
  OBVIOUS
<1>2. PICK n : n = Len(text)
  OBVIOUS
<1>3. n \in Nat /\ l \in Nat /\ j < l /\ p + l <= n /\ \A k \in 1 .. l : text[p + k] = w[k]
  BY <1>1, <1>2, LenProperties DEF Holds
<1>4. p + j < n /\ j + 1 \in 1 .. l /\ p + j + 1 = p + (j + 1)
  BY <1>3
<1>5. text[p + j + 1] = w[j + 1]
  BY <1>3, <1>4
<1>6. QED
  BY <1>2, <1>4, <1>5 DEF ByteAt

(* A quoted name, character by character.                                  *)
CharTexts(nm) == [i \in DOMAIN nm |-> QuotedChar(nm[i])]
CharAt(nm) == CHOOSE o : Laid(o, CharTexts(nm), FlattenSeq(CharTexts(nm)))
CharPlace(nm, i) == 1 + CharAt(nm)[i]

NameLaid(nm) ==
  /\ WriteQuoted(nm) \in Seq(Byte) /\ Holds(WriteQuoted(nm), 0, <<Quote>>)
  /\ CharPlace(nm, 1) = 1
  /\ CharPlace(nm, Len(nm) + 1) \in Nat
  /\ Len(WriteQuoted(nm)) = CharPlace(nm, Len(nm) + 1) + 1
  /\ Holds(WriteQuoted(nm), CharPlace(nm, Len(nm) + 1), <<Quote>>)
  /\ \A i \in 1 .. Len(nm) :
       /\ CharPlace(nm, i) \in Nat
       /\ CharPlace(nm, i + 1) = CharPlace(nm, i) + Len(QuotedChar(nm[i]))
       /\ Holds(WriteQuoted(nm), CharPlace(nm, i), QuotedChar(nm[i]))

LEMMA NameIsLaid ==
  ASSUME NEW nm \in Seq(Char)
  PROVE  NameLaid(nm)
<1> DEFINE parts == CharTexts(nm)
           f == FlattenSeq(parts)
           q == <<Quote>>
           w == WriteQuoted(nm)
           o == CharAt(nm)
<1>1. Len(nm) \in Nat /\ DOMAIN nm = 1 .. Len(nm) /\ \A i \in 1 .. Len(nm) : nm[i] \in Char
  BY LenProperties, ElementOfSeq
<1>2. \A i \in 1 .. Len(nm) : QuotedChar(nm[i]) \in Seq(Byte)
  BY <1>1, CharWritten DEF WrittenChar
<1>3. parts \in Seq(Seq(Byte)) /\ Len(parts) = Len(nm)
      /\ \A i \in 1 .. Len(nm) : parts[i] = QuotedChar(nm[i])
  <2>1. parts = [i \in 1 .. Len(nm) |-> QuotedChar(nm[i])]
    BY <1>1 DEF CharTexts
  <2>2. parts \in [1 .. Len(nm) -> Seq(Byte)]
    BY <1>2, <2>1
  <2>3. \A i \in 1 .. Len(nm) : parts[i] = QuotedChar(nm[i])
    BY <2>1
  <2> HIDE DEF parts
  <2>4. parts \in Seq(Seq(Byte))
    BY <1>1, <2>2, IsASeq
  <2>5. Len(parts) = Len(nm)
    BY <1>1, <2>2, <2>4, LenProperties
  <2>6. QED
    BY <2>3, <2>4, <2>5
<1> HIDE DEF parts
<1>4. f \in Seq(Byte) /\ Laid(o, parts, f)
  <2>1. PartsLaid(parts, Byte)
    BY <1>3, FlattenLays
  <2>2. f \in Seq(Byte) /\ \E x : Laid(x, parts, f)
    BY <2>1 DEF PartsLaid
  <2>3. QED
    BY <2>2 DEF CharAt, parts
<1>5. q \in Seq(Byte) /\ Len(q) = 1
  BY DEF Quote, Byte
<1>6. w = q \o f \o q
  BY DEF WriteQuoted, CharTexts, parts
<1> HIDE DEF f, q, w, o
<1>7. /\ Holds(q \o f, 0, q) /\ Holds(q \o f, 1, f) /\ q \o f \in Seq(Byte)
      /\ Len(q \o f) = 1 + Len(f) /\ Len(f) \in Nat
  BY <1>4, <1>5, HoldsJoined
<1>8. /\ Holds(w, 0, q \o f) /\ Holds(w, 1 + Len(f), q) /\ w \in Seq(Byte)
      /\ Len(w) = 1 + Len(f) + 1
  <2>1. PICK l : l = q \o f
    OBVIOUS
  <2>2. l \in Seq(Byte) /\ w = l \o q /\ Len(l) = 1 + Len(f)
    BY <1>6, <1>7, <2>1
  <2>3. Holds(w, 0, l) /\ Holds(w, Len(l), q) /\ w \in Seq(Byte) /\ Len(w) = Len(l) + Len(q)
    BY <1>5, <2>2, HoldsJoined
  <2>4. QED
    BY <1>5, <2>1, <2>2, <2>3
<1>9. Len(w) \in Nat /\ Len(q \o f) \in Nat /\ Len(q) \in Nat
  BY <1>5, <1>7, <1>8
<1>10. Holds(w, 0, q) /\ Holds(w, 1, f)
  <2>1. 0 + 0 = 0 /\ 0 + 1 = 1 /\ 0 \in Nat /\ 1 \in Nat
    OBVIOUS
  <2>2. Holds(w, 0 + 0, q)
    BY <1>7, <1>8, <1>9, <2>1, HoldsPart
  <2>3. Holds(w, 0 + 1, f)
    BY <1>7, <1>8, <1>9, <2>1, HoldsPart
  <2>4. QED
    BY <2>1, <2>2, <2>3
<1>11. o[1] = 0 /\ o[Len(nm) + 1] = Len(f)
  BY <1>3, <1>4 DEF Laid
<1>12. ASSUME NEW i \in 1 .. Len(nm)
       PROVE  /\ 1 + o[i] \in Nat /\ 1 + o[i + 1] = 1 + o[i] + Len(QuotedChar(nm[i]))
              /\ Holds(w, 1 + o[i], QuotedChar(nm[i]))
  <2>1. PICK x : x = QuotedChar(nm[i])
    OBVIOUS
  <2>2. /\ o[i] \in Nat /\ o[i + 1] = o[i] + Len(x) /\ Holds(f, o[i], x)
    BY <1>3, <1>4, <2>1 DEF Laid
  <2>3. Len(x) \in Nat
    BY <1>2, <2>1, LenProperties
  <2>4. Holds(w, 1 + o[i], x)
    BY <1>7, <1>9, <1>10, <2>2, <2>3, HoldsPart
  <2>5. QED
    BY <2>1, <2>2, <2>3, <2>4
<1>13. \A i : CharPlace(nm, i) = 1 + o[i]
  BY DEF CharPlace, o
<1>14. Holds(w, CharPlace(nm, Len(nm) + 1), q) /\ Len(w) = CharPlace(nm, Len(nm) + 1) + 1
       /\ CharPlace(nm, Len(nm) + 1) \in Nat /\ CharPlace(nm, 1) = 1
  BY <1>7, <1>8, <1>11, <1>13
<1>15. QED
  BY <1>8, <1>10, <1>12, <1>13, <1>14 DEF NameLaid, w, q

-----------------------------------------------------------------------------
(* A pattern, step by step.                                                *)
Written(P, i) == FieldSep(P[i], i = 1) \o WriteStep(P[i])
StepTexts(P) == [i \in DOMAIN P |-> Written(P, i)]
StepAt(P) == CHOOSE o : Laid(o, StepTexts(P), FlattenSeq(StepTexts(P)))
PlaceOf(P, i) == 1 + StepAt(P)[i]
BodyAt(P, i) == PlaceOf(P, i) + Len(FieldSep(P[i], i = 1))

IsField(s) == s \in {Field(nm) : nm \in Seq(Char)}
IsIndex(s) == s \in {Index(i) : i \in 0 .. MaxU32}

LEMMA KindsOfSteps ==
  ASSUME NEW s \in Steps
  PROVE  IsField(s) \/ s = AnyField \/ s = AnyIndex \/ IsIndex(s)
BY DEF Steps, IsField, IsIndex

LEMMA FieldWritten ==
  ASSUME NEW nm \in Seq(Char)
  PROVE  /\ WriteStep(Field(nm)) = WriteIdentOrQuoted(nm) /\ Field(nm).name = nm
         /\ Field(nm).step = "field"
<1>1. Field(nm).step = "field" /\ Field(nm).name = nm
  BY DEF Field
<1>2. WriteStep(Field(nm)) = WriteIdentOrQuoted(Field(nm).name)
  BY <1>1 DEF WriteStep
<1>3. QED
  BY <1>1, <1>2

LEMMA IndexWritten ==
  ASSUME NEW n \in Nat
  PROVE  /\ WriteStep(Index(n)) = <<OpenBracket>> \o Numeral(n, 10) \o <<CloseBracket>>
         /\ Index(n).step = "index"
<1>1. Index(n).step = "index" /\ Index(n).index = n
  BY DEF Index
<1>2. WriteStep(Index(n)) = <<OpenBracket>> \o Numeral(Index(n).index, 10) \o <<CloseBracket>>
  BY <1>1 DEF WriteStep
<1>3. QED
  BY <1>1, <1>2

LEMMA StarsWritten ==
  /\ WriteStep(AnyField) = <<Star>> /\ WriteStep(AnyIndex) = <<OpenBracket, Star, CloseBracket>>
  /\ AnyField.step = "anyField" /\ AnyIndex.step = "anyIndex"
<1>1. AnyField.step = "anyField" /\ AnyIndex.step = "anyIndex"
  BY DEF AnyField, AnyIndex
<1>2. QED
  BY <1>1 DEF WriteStep

\* An index in its brackets.
Bracketed(w, d) ==
  /\ w \in Seq(Byte) /\ Len(w) = Len(d) + 2
  /\ w[1] = OpenBracket /\ Holds(w, 1, d) /\ w[Len(d) + 2] = CloseBracket

LEMMA IndexIsLaid ==
  ASSUME NEW n \in Nat
  PROVE  Bracketed(WriteStep(Index(n)), Numeral(n, 10))
<1>1. PICK a : a = <<OpenBracket>>
  OBVIOUS
<1>2. PICK z : z = <<CloseBracket>>
  OBVIOUS
<1>3. PICK d : d = Numeral(n, 10)
  OBVIOUS
<1>4. PICK l : l = a \o d
  OBVIOUS
<1>5. PICK w : w = l \o z
  OBVIOUS
<1>6. w = WriteStep(Index(n))
  BY <1>1, <1>2, <1>3, <1>4, <1>5, IndexWritten
<1>7. a \in Seq(Byte) /\ Len(a) = 1 /\ a[1] = OpenBracket
  BY <1>1 DEF OpenBracket, Byte
<1>8. z \in Seq(Byte) /\ Len(z) = 1 /\ z[1] = CloseBracket
  BY <1>2 DEF CloseBracket, Byte
<1>9. d \in Seq(Byte) /\ Len(d) \in Nat
  <2>1. 10 \in {10, 16}
    OBVIOUS
  <2>2. QED
    BY <1>3, <2>1, NumeralBytes
<1>10. l \in Seq(Byte) /\ Len(l) = 1 + Len(d) /\ Holds(l, 0, a) /\ Holds(l, 1, d)
  BY <1>4, <1>7, <1>9, HoldsJoined
<1>11. w \in Seq(Byte) /\ Len(w) = Len(l) + 1 /\ Holds(w, 0, l) /\ Holds(w, Len(l), z)
  <2>1. /\ Holds(l \o z, 0, l) /\ Holds(l \o z, Len(l), z) /\ l \o z \in Seq(Byte)
        /\ Len(l \o z) = Len(l) + Len(z)
    BY <1>8, <1>10, HoldsJoined
  <2>2. QED
    BY <1>5, <1>8, <2>1, Zenon
<1>12. Len(l) \in Nat /\ Len(w) \in Nat
  BY <1>9, <1>10, <1>11
<1>13. Holds(w, 0 + 1, d)
  BY <1>9, <1>10, <1>11, <1>12, HoldsPart
<1>14. Holds(w, 0 + 0, a)
  BY <1>7, <1>10, <1>11, <1>12, HoldsPart
<1>15. w[1] = OpenBracket
  BY <1>7, <1>14 DEF Holds
<1>16. w[Len(d) + 2] = CloseBracket
  <2>1. w[Len(l) + 1] = z[1]
    BY <1>8, <1>11 DEF Holds
  <2>2. Len(l) + 1 = Len(d) + 2
    BY <1>9, <1>10
  <2>3. QED
    BY <1>8, <2>1, <2>2
<1>17. Len(w) = Len(d) + 2 /\ 0 + 1 = 1
  BY <1>9, <1>10, <1>11
<1>18. QED
  BY <1>3, <1>6, <1>11, <1>13, <1>15, <1>16, <1>17 DEF Bracketed

LEMMA StepBytes ==
  ASSUME NEW s \in Steps
  PROVE  WriteStep(s) \in Seq(Byte)
<1>1. CASE IsField(s)
  <2>1. PICK nm \in Seq(Char) : s = Field(nm)
    BY <1>1 DEF IsField
  <2>2. CASE IsBareIdent(nm)
    <3>1. WriteStep(s) = nm
      BY <2>1, <2>2, FieldWritten DEF WriteIdentOrQuoted
    <3>2. Len(nm) \in Nat /\ DOMAIN nm = 1 .. Len(nm) /\ \A i \in 1 .. Len(nm) : nm[i] \in IdentByte
      BY <2>2, LenProperties DEF IsBareIdent
    <3>3. IdentByte \subseteq Byte
      BY DEF IdentByte, Letter, Digit, Byte
    <3>4. nm = [i \in 1 .. Len(nm) |-> nm[i]]
      BY <3>2, SeqDef
    <3>5. nm \in [1 .. Len(nm) -> Byte]
      BY <3>2, <3>3, <3>4
    <3>6. QED
      BY <3>1, <3>2, <3>5, IsASeq
  <2>3. CASE ~IsBareIdent(nm)
    <3>1. WriteStep(s) = WriteQuoted(nm)
      BY <2>1, <2>3, FieldWritten DEF WriteIdentOrQuoted
    <3>2. QED
      BY <3>1, NameIsLaid DEF NameLaid
  <2>4. QED
    BY <2>2, <2>3
<1>2. CASE IsIndex(s)
  <2>1. PICK n \in 0 .. MaxU32 : s = Index(n)
    BY <1>2 DEF IsIndex
  <2>2. n \in Nat
    BY LimitAssumption
  <2>3. QED
    BY <2>1, <2>2, IndexIsLaid DEF Bracketed
<1>3. CASE s = AnyField
  BY <1>3, StarsWritten DEF Star, Byte
<1>4. CASE s = AnyIndex
  BY <1>4, StarsWritten DEF Star, OpenBracket, CloseBracket, Byte
<1>5. QED
  BY <1>1, <1>2, <1>3, <1>4, KindsOfSteps

LEMMA SepIs ==
  ASSUME NEW s, NEW first \in BOOLEAN
  PROVE  /\ FieldSep(s, first) \in Seq(Byte) /\ Len(FieldSep(s, first)) \in Nat
         /\ s.step \in {"field", "anyField"} /\ ~first => FieldSep(s, first) = <<Dot>>
         /\ s.step \notin {"field", "anyField"} \/ first => FieldSep(s, first) = <<>>
<1>1. CASE s.step \in {"field", "anyField"} /\ ~first
  <2>1. FieldSep(s, first) = <<Dot>>
    BY <1>1 DEF FieldSep
  <2>2. <<Dot>> \in Seq(Byte) /\ Len(<<Dot>>) \in Nat
    BY DEF Dot, Byte
  <2>3. QED
    BY <1>1, <2>1, <2>2
<1>2. CASE ~(s.step \in {"field", "anyField"} /\ ~first)
  <2>1. FieldSep(s, first) = <<>>
    BY <1>2 DEF FieldSep
  <2>2. <<>> \in Seq(Byte) /\ Len(<<>>) \in Nat
    OBVIOUS
  <2>3. QED
    BY <1>2, <2>1, <2>2
<1>3. QED
  BY <1>1, <1>2

StepLaid(P, i) ==
  /\ PlaceOf(P, i) \in Nat /\ BodyAt(P, i) \in Nat
  /\ BodyAt(P, i) = PlaceOf(P, i) + Len(FieldSep(P[i], i = 1))
  /\ PlaceOf(P, i + 1) = BodyAt(P, i) + Len(WriteStep(P[i]))
  /\ Holds(Display(P), PlaceOf(P, i), FieldSep(P[i], i = 1))
  /\ Holds(Display(P), BodyAt(P, i), WriteStep(P[i]))

PatternLaid(P) ==
  /\ Display(P) \in Seq(Byte) /\ Len(Display(P)) >= 1 /\ Display(P)[1] = Dot
  /\ PlaceOf(P, 1) = 1 /\ PlaceOf(P, Len(P) + 1) = Len(Display(P))
  /\ \A i \in 1 .. Len(P) : StepLaid(P, i)

LEMMA PatternIsLaid ==
  ASSUME NEW P \in Seq(Steps)
  PROVE  PatternLaid(P)
<1> DEFINE parts == StepTexts(P)
           f == FlattenSeq(parts)
           d == <<Dot>>
           w == Display(P)
           o == StepAt(P)
<1>1. Len(P) \in Nat /\ DOMAIN P = 1 .. Len(P) /\ \A i \in 1 .. Len(P) : P[i] \in Steps
  BY LenProperties, ElementOfSeq
<1>2. ASSUME NEW i \in 1 .. Len(P)
      PROVE  /\ FieldSep(P[i], i = 1) \in Seq(Byte) /\ WriteStep(P[i]) \in Seq(Byte)
             /\ Holds(Written(P, i), 0, FieldSep(P[i], i = 1))
             /\ Holds(Written(P, i), Len(FieldSep(P[i], i = 1)), WriteStep(P[i]))
             /\ Written(P, i) \in Seq(Byte)
             /\ Len(Written(P, i)) = Len(FieldSep(P[i], i = 1)) + Len(WriteStep(P[i]))
             /\ Len(FieldSep(P[i], i = 1)) \in Nat /\ Len(WriteStep(P[i])) \in Nat
  <2>1. PICK l : l = FieldSep(P[i], i = 1)
    OBVIOUS
  <2>2. PICK r : r = WriteStep(P[i])
    OBVIOUS
  <2>3. (i = 1) \in BOOLEAN
    OBVIOUS
  <2>4. l \in Seq(Byte) /\ r \in Seq(Byte)
    BY <1>1, <2>1, <2>2, <2>3, SepIs, StepBytes, Zenon
  <2>5. /\ Holds(l \o r, 0, l) /\ Holds(l \o r, Len(l), r) /\ l \o r \in Seq(Byte)
        /\ Len(l \o r) = Len(l) + Len(r) /\ Len(l) \in Nat /\ Len(r) \in Nat
    BY <2>4, HoldsJoined, Zenon
  <2>6. Written(P, i) = l \o r
    BY <2>1, <2>2 DEF Written
  <2>7. QED
    BY <2>1, <2>2, <2>4, <2>5, <2>6, Zenon
<1>3. parts \in Seq(Seq(Byte)) /\ Len(parts) = Len(P)
      /\ \A i \in 1 .. Len(P) : parts[i] = Written(P, i)
  <2>1. parts = [i \in 1 .. Len(P) |-> Written(P, i)]
    BY <1>1 DEF StepTexts
  <2>2. parts \in [1 .. Len(P) -> Seq(Byte)]
    BY <1>2, <2>1
  <2>3. \A i \in 1 .. Len(P) : parts[i] = Written(P, i)
    BY <2>1
  <2> HIDE DEF parts
  <2>4. parts \in Seq(Seq(Byte))
    BY <1>1, <2>2, IsASeq
  <2>5. Len(parts) = Len(P)
    BY <1>1, <2>2, <2>4, LenProperties
  <2>6. QED
    BY <2>3, <2>4, <2>5
<1> HIDE DEF parts
<1>4. f \in Seq(Byte) /\ Laid(o, parts, f)
  <2>1. PartsLaid(parts, Byte)
    BY <1>3, FlattenLays
  <2>2. f \in Seq(Byte) /\ \E x : Laid(x, parts, f)
    BY <2>1 DEF PartsLaid
  <2>3. QED
    BY <2>2 DEF StepAt, parts
<1>5. d \in Seq(Byte) /\ Len(d) = 1 /\ d[1] = Dot
  BY DEF Dot, Byte
<1>6. w = d \o f
  BY DEF Display, StepTexts, Written, parts
<1> HIDE DEF f, d, w, o
<1>7. /\ Holds(w, 0, d) /\ Holds(w, 1, f) /\ w \in Seq(Byte)
      /\ Len(w) = 1 + Len(f) /\ Len(f) \in Nat
  <2>1. /\ Holds(d \o f, 0, d) /\ Holds(d \o f, Len(d), f) /\ d \o f \in Seq(Byte)
        /\ Len(d \o f) = Len(d) + Len(f) /\ Len(f) \in Nat
    BY <1>4, <1>5, HoldsJoined
  <2>2. QED
    BY <1>5, <1>6, <2>1
<1>8. o[1] = 0 /\ o[Len(P) + 1] = Len(f)
  BY <1>3, <1>4 DEF Laid
<1>9. \A i : PlaceOf(P, i) = 1 + o[i]
  BY DEF PlaceOf, o
<1>10. w[1] = Dot
  BY <1>5, <1>7 DEF Holds
<1>11. ASSUME NEW i \in 1 .. Len(P) PROVE StepLaid(P, i)
  <2>1. PICK x : x = Written(P, i)
    OBVIOUS
  <2>2. o[i] \in Nat /\ o[i + 1] = o[i] + Len(x) /\ Holds(f, o[i], x)
    BY <1>3, <1>4, <2>1 DEF Laid
  <2>3. PICK l : l = FieldSep(P[i], i = 1)
    OBVIOUS
  <2>4. PICK r : r = WriteStep(P[i])
    OBVIOUS
  <2>5. /\ Holds(x, 0, l) /\ Holds(x, Len(l), r) /\ Len(x) = Len(l) + Len(r)
        /\ Len(l) \in Nat /\ Len(r) \in Nat /\ Len(x) \in Nat
    BY <1>2, <2>1, <2>3, <2>4
  <2>6. Len(w) \in Nat
    BY <1>7
  <2>7. Holds(w, 1 + o[i], x)
    BY <1>7, <2>2, <2>5, <2>6, HoldsPart
  <2>8. 1 + o[i] \in Nat /\ 1 + o[i] + 0 = 1 + o[i]
    BY <2>2
  <2>9. Holds(w, 1 + o[i] + 0, l) /\ Holds(w, 1 + o[i] + Len(l), r)
    BY <2>5, <2>6, <2>7, <2>8, HoldsPart
  <2>10. PlaceOf(P, i) = 1 + o[i] /\ PlaceOf(P, i + 1) = 1 + o[i + 1] /\ BodyAt(P, i) = 1 + o[i] + Len(l)
    BY <1>9, <2>3, Zenon DEF BodyAt
  <2>11. Holds(w, PlaceOf(P, i), l) /\ Holds(w, BodyAt(P, i), r)
    BY <2>8, <2>9, <2>10
  <2>12. PlaceOf(P, i) \in Nat /\ BodyAt(P, i) \in Nat /\ BodyAt(P, i) = PlaceOf(P, i) + Len(l)
         /\ PlaceOf(P, i + 1) = BodyAt(P, i) + Len(r)
    BY <2>2, <2>5, <2>10
  <2>13. QED
    BY <2>3, <2>4, <2>11, <2>12 DEF StepLaid, w
<1>12. PlaceOf(P, 1) = 1 /\ PlaceOf(P, Len(P) + 1) = Len(w) /\ Len(w) >= 1
  BY <1>7, <1>8, <1>9
<1>13. QED
  BY <1>7, <1>10, <1>11, <1>12 DEF PatternLaid, w

-----------------------------------------------------------------------------
(* What was written is read again: the parser stands where the pattern says *)
(* and holds the beginning of what is there.                               *)
Starts(a, b, T) ==
  a \in Seq(T) /\ b \in Seq(T) /\ Len(a) <= Len(b) /\ \A k \in 1 .. Len(a) : a[k] = b[k]

LEMMA StartsNone ==
  ASSUME NEW T, NEW b \in Seq(T)
  PROVE  Starts(<<>>, b, T) /\ Len(<<>>) = 0
<1>1. <<>> \in Seq(T) /\ Len(<<>>) = 0 /\ Len(b) \in Nat
  BY LenProperties
<1>2. QED
  BY <1>1 DEF Starts

LEMMA StartsMore ==
  ASSUME NEW T, NEW a, NEW b, Starts(a, b, T), NEW l \in Nat, Len(a) = l, l # Len(b), NEW c, c = b[l + 1]
  PROVE  Starts(Append(a, c), b, T) /\ Len(Append(a, c)) = l + 1
<1>1. /\ a \in Seq(T) /\ b \in Seq(T) /\ Len(b) \in Nat /\ l < Len(b)
      /\ \A k \in 1 .. l : a[k] = b[k]
  BY LenProperties DEF Starts
<1>2. l + 1 \in 1 .. Len(b)
  BY <1>1
<1>3. c \in T
  BY <1>1, <1>2, ElementOfSeq
<1>4. /\ Append(a, c) \in Seq(T) /\ Len(Append(a, c)) = l + 1 /\ Append(a, c)[l + 1] = c
      /\ \A k \in 1 .. l : Append(a, c)[k] = a[k]
  BY <1>1, <1>3, AppendProperties
<1>5. ASSUME NEW k \in 1 .. l + 1 PROVE Append(a, c)[k] = b[k]
  <2>1. CASE k = l + 1
    BY <1>4, <2>1
  <2>2. CASE k # l + 1
    <3>1. k \in 1 .. l
      BY <2>2
    <3>2. QED
      BY <1>1, <1>4, <3>1
  <2>3. QED
    BY <2>1, <2>2
<1>6. l + 1 <= Len(b)
  BY <1>2
<1>7. QED
  BY <1>1, <1>4, <1>5, <1>6 DEF Starts

LEMMA StartsAll ==
  ASSUME NEW T, NEW a, NEW b, Starts(a, b, T), Len(a) = Len(b)
  PROVE  a = b
<1>1. a \in Seq(T) /\ b \in Seq(T) /\ Len(a) \in Nat /\ \A k \in 1 .. Len(a) : a[k] = b[k]
  BY LenProperties DEF Starts
<1>2. QED
  BY <1>1, SeqEqual

LEMMA StartsLength ==
  ASSUME NEW T, NEW a, NEW b, Starts(a, b, T)
  PROVE  /\ Len(a) \in Nat /\ Len(b) \in Nat /\ Len(a) # Len(b) => Len(a) < Len(b)
         /\ Len(a) # Len(b) => Len(a) + 1 \in 1 .. Len(b) /\ b[Len(a) + 1] \in T
<1>1. Len(a) \in Nat /\ Len(b) \in Nat /\ Len(a) <= Len(b) /\ b \in Seq(T)
  BY LenProperties DEF Starts
<1>2. Len(a) # Len(b) => Len(a) < Len(b) /\ Len(a) + 1 \in 1 .. Len(b)
  BY <1>1
<1>3. QED
  BY <1>1, <1>2, ElementOfSeq

InIdent(nm, b) ==
  /\ mode = "ident" /\ IsBareIdent(nm)
  /\ Starts(token, nm, IdentByte) /\ pos = b + Len(token)
InNumber(n, b) ==
  /\ mode = "number"
  /\ Starts(token, Numeral(n, 10), Digit) /\ pos = b + 1 + Len(token)
InBracket(s, b) == mode = "bracket" /\ step = s /\ pos = b + (Len(WriteStep(s)) - 1)
InQuoted(nm, b) ==
  /\ mode = "quoted" /\ ~IsBareIdent(nm)
  /\ Starts(name, nm, Char) /\ pos = b + CharPlace(nm, Len(name) + 1)
Escaping(nm, l, b) ==
  /\ ByNumber(nm[l + 1]) /\ Starts(token, Numeral(nm[l + 1], 16), HexDigit)
  /\ pos = b + CharPlace(nm, l + 1) + 3 + Len(token)
InEscape(nm, b) ==
  /\ mode = "unicode" /\ ~IsBareIdent(nm)
  /\ Starts(name, nm, Char) /\ Len(name) # Len(nm) /\ Escaping(nm, Len(name), b)

\* Inside step s, which is written at b.
Inside(s, b) ==
  \/ \E nm \in Seq(Char) : s = Field(nm) /\ (InIdent(nm, b) \/ InQuoted(nm, b) \/ InEscape(nm, b))
  \/ \E n \in 0 .. MaxU32 : s = Index(n) /\ InNumber(n, b)
  \/ (s = AnyIndex \/ IsIndex(s)) /\ InBracket(s, b)

\* Step s is written at b, and no identifier goes on behind it.
Standing(s, b) ==
  /\ text \in Seq(Byte) /\ s \in Steps /\ b \in Nat
  /\ Holds(text, b, WriteStep(s))
  /\ ByteAt(b + Len(WriteStep(s))) \in {End, Dot, OpenBracket}

\* The parser completes step s, or stays inside.
Moves(s, b) ==
  \/ PushStep(s, b + Len(WriteStep(s)))
  \/ UNCHANGED <<text, steps>> /\ Inside(s, b)'

\* What is written of a step is read.
LEMMA StandingByte ==
  ASSUME NEW s, NEW b, Standing(s, b), NEW j \in Nat, j < Len(WriteStep(s))
  PROVE  ByteAt(b + j) = WriteStep(s)[j + 1]
<1>1. text \in Seq(Byte) /\ b \in Nat /\ Len(WriteStep(s)) \in Nat /\ Holds(text, b, WriteStep(s))
  BY StepBytes, LenProperties DEF Standing
<1>2. QED
  BY <1>1, HoldsByte

\* And of its parts.
LEMMA StandingPart ==
  ASSUME NEW s, NEW b, Standing(s, b), NEW p \in Nat, NEW w, Len(w) \in Nat, Holds(WriteStep(s), p, w),
         NEW j \in Nat, j < Len(w)
  PROVE  ByteAt(b + p + j) = w[j + 1]
<1>1. /\ text \in Seq(Byte) /\ b \in Nat /\ Len(WriteStep(s)) \in Nat /\ Len(text) \in Nat
      /\ Holds(text, b, WriteStep(s))
  BY StepBytes, LenProperties DEF Standing
<1>2. Holds(text, b + p, w)
  BY <1>1, HoldsPart
<1>3. b + p \in Nat
  BY <1>1
<1>4. QED
  BY <1>1, <1>2, <1>3, HoldsByte

LEMMA BareIs ==
  ASSUME NEW nm \in Seq(Char), IsBareIdent(nm)
  PROVE  /\ WriteStep(Field(nm)) = nm /\ nm \in Seq(IdentByte) /\ Len(nm) \in Nat /\ Len(nm) >= 1
         /\ nm[1] \in Letter
<1>1. WriteStep(Field(nm)) = nm
  BY FieldWritten DEF WriteIdentOrQuoted
<1>2. Len(nm) \in Nat /\ DOMAIN nm = 1 .. Len(nm) /\ \A i \in 1 .. Len(nm) : nm[i] \in IdentByte
  BY LenProperties DEF IsBareIdent
<1>3. nm = [i \in 1 .. Len(nm) |-> nm[i]]
  BY <1>2, SeqDef
<1>4. nm \in [1 .. Len(nm) -> IdentByte]
  BY <1>2, <1>3
<1>5. nm \in Seq(IdentByte)
  BY <1>2, <1>4, IsASeq
<1>6. nm # <<>> /\ nm[1] \in Letter
  BY DEF IsBareIdent
<1>7. Len(nm) # 0
  BY <1>6, EmptySeq
<1>8. QED
  BY <1>1, <1>2, <1>5, <1>6, <1>7

LEMMA QuotedIs ==
  ASSUME NEW nm \in Seq(Char), ~IsBareIdent(nm)
  PROVE  WriteStep(Field(nm)) = WriteQuoted(nm) /\ NameLaid(nm)
BY FieldWritten, NameIsLaid DEF WriteIdentOrQuoted

-----------------------------------------------------------------------------
(* Where a step starts.                                                    *)
Entered(loop, p) ==
  /\ mode' = loop /\ pos' = p /\ token' = <<>> /\ name' = <<>> /\ UNCHANGED <<text, steps>>

LEMMA EntersBare ==
  ASSUME NEW nm \in Seq(Char), IsBareIdent(nm), NEW b \in Nat, Entered("ident", b)
  PROVE  Moves(Field(nm), b)
<1>1. nm \in Seq(IdentByte)
  BY BareIs
<1>2. Starts(<<>>, nm, IdentByte) /\ Len(<<>>) = 0 /\ b + 0 = b
  BY <1>1, StartsNone
<1>3. Starts(token', nm, IdentByte) /\ pos' = b + Len(token') /\ mode' = "ident"
  BY <1>2 DEF Entered
<1>4. InIdent(nm, b)'
  BY <1>3 DEF InIdent
<1>5. Inside(Field(nm), b)'
  BY <1>4 DEF Inside
<1>6. QED
  BY <1>5 DEF Moves, Entered

LEMMA EntersName ==
  ASSUME NEW nm \in Seq(Char), ~IsBareIdent(nm), NEW b \in Nat, Entered("quoted", b + 1)
  PROVE  Moves(Field(nm), b)
<1>1. CharPlace(nm, 1) = 1
  BY NameIsLaid DEF NameLaid
<1>2. Starts(<<>>, nm, Char) /\ Len(<<>>) = 0 /\ 0 + 1 = 1
  BY StartsNone
<1>3. Starts(name', nm, Char) /\ pos' = b + CharPlace(nm, Len(name') + 1) /\ mode' = "quoted"
  BY <1>1, <1>2 DEF Entered
<1>4. InQuoted(nm, b)'
  BY <1>3 DEF InQuoted
<1>5. Inside(Field(nm), b)'
  BY <1>4 DEF Inside
<1>6. QED
  BY <1>5 DEF Moves, Entered

LEMMA EntersNumber ==
  ASSUME NEW n \in 0 .. MaxU32, NEW b \in Nat, Entered("number", b + 1)
  PROVE  Moves(Index(n), b)
<1>1. n \in Nat /\ 10 \in {10, 16}
  BY LimitAssumption
<1>2. Numeral(n, 10) \in Seq(Digit)
  BY <1>1, NumeralReadsAs DEF ReadsAs, DigitsOf
<1>3. Starts(<<>>, Numeral(n, 10), Digit) /\ Len(<<>>) = 0 /\ b + 1 + 0 = b + 1
  BY <1>2, StartsNone
<1>4. Starts(token', Numeral(n, 10), Digit) /\ pos' = b + 1 + Len(token') /\ mode' = "number"
  BY <1>3 DEF Entered
<1>5. InNumber(n, b)'
  BY <1>4 DEF InNumber
<1>6. Inside(Index(n), b)'
  BY <1>5 DEF Inside
<1>7. QED
  BY <1>6 DEF Moves, Entered

\* The first byte of a step tells what it is.
LEMMA FirstBytes ==
  ASSUME NEW s, NEW b, Standing(s, b)
  PROVE  /\ \A nm \in Seq(Char) : s = Field(nm) => ByteAt(b) = Quote \/ ByteAt(b) \in Letter
         /\ \A nm \in Seq(Char) : s = Field(nm) /\ IsBareIdent(nm) => ByteAt(b) \in Letter
         /\ \A nm \in Seq(Char) : s = Field(nm) /\ ~IsBareIdent(nm) => ByteAt(b) = Quote
         /\ s = AnyField => ByteAt(b) = Star
         /\ s = AnyIndex \/ IsIndex(s) => ByteAt(b) = OpenBracket
<1>1. b \in Nat /\ b + 0 = b /\ 0 \in Nat /\ 0 + 1 = 1
  BY DEF Standing
<1>2. 0 < Len(WriteStep(s)) => ByteAt(b) = WriteStep(s)[1]
  BY <1>1, StandingByte
<1>3. ASSUME NEW nm \in Seq(Char), s = Field(nm), IsBareIdent(nm) PROVE ByteAt(b) \in Letter
  BY <1>2, <1>3, BareIs
<1>4. ASSUME NEW nm \in Seq(Char), s = Field(nm), ~IsBareIdent(nm) PROVE ByteAt(b) = Quote
  <2>1. PICK q : q = <<Quote>>
    OBVIOUS
  <2>2. Holds(WriteStep(s), 0, q)
    BY <1>4, <2>1, QuotedIs DEF NameLaid
  <2>3. Len(q) \in Nat /\ 0 < Len(q) /\ q[0 + 1] = Quote
    BY <2>1
  <2>4. ByteAt(b + 0 + 0) = q[0 + 1]
    BY <1>1, <2>2, <2>3, StandingPart
  <2>5. b + 0 + 0 = b
    BY <1>1
  <2>6. QED
    BY <2>3, <2>4, <2>5
<1>5. s = AnyField => ByteAt(b) = Star
  BY <1>2, StarsWritten
<1>6. s = AnyIndex => ByteAt(b) = OpenBracket
  BY <1>2, StarsWritten
<1>7. ASSUME IsIndex(s) PROVE ByteAt(b) = OpenBracket
  <2>1. PICK n \in 0 .. MaxU32 : s = Index(n)
    BY <1>7 DEF IsIndex
  <2>2. n \in Nat /\ 10 \in {10, 16}
    BY LimitAssumption
  <2>3. Bracketed(WriteStep(s), Numeral(n, 10)) /\ Len(Numeral(n, 10)) \in Nat
    BY <2>1, <2>2, IndexIsLaid, NumeralBytes
  <2>4. QED
    BY <1>2, <2>3 DEF Bracketed
<1>8. QED
  BY <1>3, <1>4, <1>5, <1>6, <1>7

LEMMA FieldStarts ==
  ASSUME NEW s, NEW b, Standing(s, b), IsField(s) \/ s = AnyField, FieldBody(b)
  PROVE  Moves(s, b)
<1>1. b \in Nat
  BY DEF Standing
<1>2. CASE s = AnyField
  <2>1. ByteAt(b) = Star /\ Len(WriteStep(s)) = 1
    BY <1>2, FirstBytes, StarsWritten
  <2>2. PushStep(AnyField, b + 1)
    BY <2>1 DEF FieldBody, Star, Quote, Letter
  <2>3. QED
    BY <1>2, <2>1, <2>2 DEF Moves
<1>3. CASE IsField(s)
  <2>1. PICK nm \in Seq(Char) : s = Field(nm)
    BY <1>3 DEF IsField
  <2>2. CASE IsBareIdent(nm)
    <3>1. ByteAt(b) \in Letter
      BY <2>1, <2>2, FirstBytes
    <3>2. Enter("ident", b)
      BY <3>1 DEF FieldBody, Star, Quote, Letter
    <3>3. Entered("ident", b)
      BY <3>2 DEF Enter, Entered
    <3>4. QED
      BY <1>1, <2>1, <2>2, <3>3, EntersBare
  <2>3. CASE ~IsBareIdent(nm)
    <3>1. ByteAt(b) = Quote
      BY <2>1, <2>3, FirstBytes
    <3>2. Enter("quoted", b + 1)
      BY <3>1 DEF FieldBody, Star, Quote, Letter
    <3>3. Entered("quoted", b + 1)
      BY <3>2 DEF Enter, Entered
    <3>4. QED
      BY <1>1, <2>1, <2>3, <3>3, EntersName
  <2>4. QED
    BY <2>2, <2>3
<1>4. QED
  BY <1>2, <1>3

LEMMA IndexStarts ==
  ASSUME NEW s, NEW b, Standing(s, b), IsIndex(s) \/ s = AnyIndex, IndexBody(b + 1)
  PROVE  Moves(s, b)
<1>1. b \in Nat
  BY DEF Standing
<1>2. CASE s = AnyIndex
  <2>1. Len(WriteStep(s)) = 3 /\ WriteStep(s)[1 + 1] = Star
    BY <1>2, StarsWritten
  <2>2. ByteAt(b + 1) = Star
    BY <2>1, StandingByte
  <2>3. mode' = "bracket" /\ step' = AnyIndex /\ pos' = b + 1 + 1 /\ UNCHANGED <<text, steps>>
    BY <2>2 DEF IndexBody
  <2>4. b + 1 + 1 = b + (Len(WriteStep(s)) - 1)
    BY <1>1, <2>1
  <2>5. InBracket(s, b)'
    BY <1>2, <2>3, <2>4 DEF InBracket
  <2>6. Inside(s, b)'
    BY <1>2, <2>5 DEF Inside
  <2>7. QED
    BY <2>3, <2>6 DEF Moves
<1>3. CASE IsIndex(s)
  <2>1. PICK n \in 0 .. MaxU32 : s = Index(n)
    BY <1>3 DEF IsIndex
  <2>2. n \in Nat /\ 10 \in {10, 16}
    BY LimitAssumption
  <2>3. PICK d : d = Numeral(n, 10)
    OBVIOUS
  <2>4. /\ Bracketed(WriteStep(s), d) /\ Len(d) \in Nat /\ Len(d) >= 1
        /\ \A k \in 1 .. Len(d) : d[k] \in Digit
    BY <2>1, <2>2, <2>3, IndexIsLaid, NumeralBytes DEF DigitsOf
  <2>5. ByteAt(b + 1 + 0) = d[0 + 1] /\ d[0 + 1] \in Digit
    <3>1. Holds(WriteStep(s), 1, d)
      BY <2>4 DEF Bracketed
    <3>2. 0 < Len(d) /\ 0 + 1 \in 1 .. Len(d)
      BY <2>4
    <3>3. QED
      BY <2>4, <3>1, <3>2, StandingPart
  <2>6. ByteAt(b + 1) \in Digit
    <3>1. b + 1 + 0 = b + 1
      BY <1>1
    <3>2. QED
      BY <2>5, <3>1
  <2>7. Enter("number", b + 1)
    BY <2>6 DEF IndexBody, Star, Digit
  <2>8. Entered("number", b + 1)
    BY <2>7 DEF Enter, Entered
  <2>9. QED
    BY <1>1, <2>1, <2>8, EntersNumber
<1>4. QED
  BY <1>2, <1>3

(* Inside a step.                                                          *)
\* The bytes that end a loop.
LEMMA EndsOfLoops ==
  /\ \A c \in {End, Dot, OpenBracket} : c \notin IdentByte /\ c \notin Cont
  /\ CloseBracket \notin Digit /\ CloseBrace \notin HexDigit
  /\ CloseBracket \notin Cont /\ CloseBrace \notin Cont /\ Quote \notin Cont /\ Star \notin Cont
  /\ \A c \in IdentByte \cup HexDigit \cup Digit \cup Letter : c \notin Cont
BY DEF End, Dot, OpenBracket, CloseBracket, CloseBrace, Quote, Star, IdentByte, Letter, Digit, HexDigit, Cont

LEMMA PeekIdent ==
  ASSUME NEW nm \in Seq(Char), NEW b, Standing(Field(nm), b), InIdent(nm, b)
  PROVE  /\ Len(token) = Len(nm) => Peek \notin IdentByte /\ pos = b + Len(WriteStep(Field(nm)))
         /\ Len(token) # Len(nm) => Peek = nm[Len(token) + 1] /\ Peek \in IdentByte
         /\ Peek \notin Cont
<1>1. WriteStep(Field(nm)) = nm /\ nm \in Seq(IdentByte) /\ Len(nm) \in Nat
  BY BareIs DEF InIdent
<1>2. PICK l : l = Len(token)
  OBVIOUS
<1>3. /\ l \in Nat /\ pos = b + l /\ Peek = ByteAt(b + l)
      /\ l # Len(nm) => l < Len(nm) /\ nm[l + 1] \in IdentByte
  BY <1>2, StartsLength DEF InIdent, Peek
<1>4. CASE l = Len(nm)
  <2>1. Peek \in {End, Dot, OpenBracket}
    BY <1>1, <1>3, <1>4 DEF Standing
  <2>2. QED
    BY <1>1, <1>2, <1>3, <1>4, <2>1, EndsOfLoops
<1>5. CASE l # Len(nm)
  <2>1. ByteAt(b + l) = nm[l + 1]
    BY <1>1, <1>3, <1>5, StandingByte
  <2>2. QED
    BY <1>2, <1>3, <1>5, <2>1, EndsOfLoops
<1>6. QED
  BY <1>4, <1>5

LEMMA IdentMoves ==
  ASSUME NEW nm \in Seq(Char), NEW b, Standing(Field(nm), b), InIdent(nm, b), ParseIdent
  PROVE  Moves(Field(nm), b)
<1>1. Starts(token, nm, IdentByte) /\ b \in Nat
  BY DEF InIdent, Standing
<1>2. CASE Len(token) = Len(nm)
  <2>1. Peek \notin IdentByte /\ pos = b + Len(WriteStep(Field(nm)))
    BY <1>2, PeekIdent
  <2>2. token = nm
    BY <1>1, <1>2, StartsAll
  <2>3. PushStep(Field(token), pos)
    BY <2>1 DEF ParseIdent
  <2>4. QED
    BY <2>1, <2>2, <2>3 DEF Moves
<1>3. CASE Len(token) # Len(nm)
  <2>1. Peek \in IdentByte /\ Peek = nm[Len(token) + 1]
    BY <1>3, PeekIdent
  <2>2. Len(token) \in Nat
    BY <1>1, StartsLength
  <2>3. token' = Append(token, Peek) /\ pos' = pos + 1 /\ UNCHANGED <<text, mode, steps>>
    BY <2>1 DEF ParseIdent, Take
  <2>4. PICK l : l = Len(token)
    OBVIOUS
  <2>5. Starts(token', nm, IdentByte) /\ Len(token') = l + 1
    BY <1>1, <1>3, <2>1, <2>2, <2>3, <2>4, StartsMore
  <2>6. pos' = b + Len(token')
    <3>1. pos = b + l /\ l \in Nat
      BY <2>2, <2>4 DEF InIdent
    <3>2. QED
      BY <1>1, <2>3, <2>5, <3>1
  <2>7. mode' = "ident" /\ IsBareIdent(nm)
    BY <2>3 DEF InIdent
  <2>8. InIdent(nm, b)'
    BY <2>5, <2>6, <2>7 DEF InIdent
  <2>9. Inside(Field(nm), b)'
    BY <2>8 DEF Inside
  <2>10. QED
    BY <2>3, <2>9 DEF Moves
<1>4. QED
  BY <1>2, <1>3

LEMMA PeekNumber ==
  ASSUME NEW n \in 0 .. MaxU32, NEW b, Standing(Index(n), b), InNumber(n, b)
  PROVE  /\ Len(token) = Len(Numeral(n, 10)) =>
              Peek = CloseBracket /\ pos = b + (Len(WriteStep(Index(n))) - 1)
         /\ Len(token) # Len(Numeral(n, 10)) => Peek = Numeral(n, 10)[Len(token) + 1] /\ Peek \in Digit
         /\ Peek \notin Cont
<1>1. PICK d : d = Numeral(n, 10)
  OBVIOUS
<1>2. PICK w : w = WriteStep(Index(n))
  OBVIOUS
<1>3. n \in Nat
  BY LimitAssumption
<1>4. Bracketed(w, d) /\ b \in Nat
  BY <1>1, <1>2, <1>3, IndexIsLaid DEF Standing
<1>5. PICK l : l = Len(token)
  OBVIOUS
<1>6. /\ l \in Nat /\ Len(d) \in Nat /\ pos = b + 1 + l /\ Peek = ByteAt(b + 1 + l)
      /\ l # Len(d) => l < Len(d) /\ d[l + 1] \in Digit
  BY <1>1, <1>5, StartsLength DEF InNumber, Peek
<1>7. CASE l = Len(d)
  <2>1. Len(w) = l + 2 /\ w[l + 2] = CloseBracket
    BY <1>4, <1>7 DEF Bracketed
  <2>2. l + 1 \in Nat /\ l + 1 < Len(w) /\ l + 1 + 1 = l + 2
    BY <1>6, <2>1
  <2>3. ByteAt(b + (l + 1)) = w[l + 1 + 1]
    BY <1>2, <2>2, StandingByte
  <2>4. b + (l + 1) = b + 1 + l /\ b + 1 + l = b + (Len(w) - 1)
    BY <1>4, <1>6, <2>1
  <2>5. QED
    BY <1>1, <1>2, <1>5, <1>6, <1>7, <2>1, <2>2, <2>3, <2>4, EndsOfLoops
<1>8. CASE l # Len(d)
  <2>1. Holds(w, 1, d)
    BY <1>4 DEF Bracketed
  <2>2. ByteAt(b + 1 + l) = d[l + 1]
    BY <1>2, <1>6, <1>8, <2>1, StandingPart
  <2>3. QED
    BY <1>1, <1>5, <1>6, <1>8, <2>2, EndsOfLoops
<1>9. QED
  BY <1>7, <1>8

LEMMA NumberMoves ==
  ASSUME NEW n \in 0 .. MaxU32, NEW b, Standing(Index(n), b), InNumber(n, b), ParseU32
  PROVE  Moves(Index(n), b)
<1>1. PICK d : d = Numeral(n, 10)
  OBVIOUS
<1>2. n \in Nat /\ b \in Nat /\ 10 \in {10, 16}
  BY LimitAssumption DEF Standing
<1>3. Starts(token, d, Digit) /\ pos = b + 1 + Len(token) /\ mode = "number" /\ Len(token) \in Nat
  BY <1>1, StartsLength DEF InNumber
<1>4. CASE Len(token) = Len(d)
  <2>1. Peek = CloseBracket /\ pos = b + (Len(WriteStep(Index(n))) - 1) /\ Peek \notin Digit
    BY <1>1, <1>4, PeekNumber, EndsOfLoops
  <2>2. token = d
    BY <1>3, <1>4, StartsAll
  <2>3. Value(token, 10) = n
    BY <1>1, <1>2, <2>2, NumeralBytes
  <2>4. ~(n > MaxU32)
    BY LimitAssumption
  <2>5. mode' = "bracket" /\ step' = Index(n) /\ UNCHANGED <<text, pos, steps>>
    BY <2>1, <2>3, <2>4 DEF ParseU32
  <2>6. InBracket(Index(n), b)'
    BY <2>1, <2>5 DEF InBracket
  <2>7. Inside(Index(n), b)'
    BY <2>6 DEF Inside, IsIndex
  <2>8. QED
    BY <2>5, <2>7 DEF Moves
<1>5. CASE Len(token) # Len(d)
  <2>1. PICK l : l = Len(token)
    OBVIOUS
  <2>2. Peek \in Digit /\ Peek = d[l + 1]
    BY <1>1, <1>5, <2>1, PeekNumber
  <2>3. token' = Append(token, Peek) /\ pos' = pos + 1 /\ UNCHANGED <<text, mode, steps>>
    BY <2>2 DEF ParseU32, Take
  <2>4. Starts(token', d, Digit) /\ Len(token') = l + 1
    BY <1>3, <1>5, <2>1, <2>2, <2>3, StartsMore
  <2>5. pos' = b + 1 + Len(token')
    BY <1>2, <1>3, <2>1, <2>3, <2>4
  <2>6. InNumber(n, b)'
    BY <1>1, <1>3, <2>3, <2>4, <2>5 DEF InNumber
  <2>7. Inside(Index(n), b)'
    BY <2>6 DEF Inside
  <2>8. QED
    BY <2>3, <2>7 DEF Moves
<1>6. QED
  BY <1>4, <1>5

LEMMA PeekBracket ==
  ASSUME NEW s, NEW b, Standing(s, b), s = AnyIndex \/ IsIndex(s), InBracket(s, b)
  PROVE  Peek = CloseBracket /\ pos + 1 = b + Len(WriteStep(s)) /\ Peek \notin Cont
<1>1. PICK w : w = WriteStep(s)
  OBVIOUS
<1>2. Len(w) \in Nat /\ Len(w) >= 1 /\ w[Len(w)] = CloseBracket
  <2>1. CASE s = AnyIndex
    BY <1>1, <2>1, StarsWritten
  <2>2. CASE IsIndex(s)
    <3>1. PICK n \in 0 .. MaxU32 : s = Index(n)
      BY <2>2 DEF IsIndex
    <3>2. n \in Nat /\ 10 \in {10, 16}
      BY LimitAssumption
    <3>3. Bracketed(w, Numeral(n, 10)) /\ Len(Numeral(n, 10)) \in Nat
      BY <1>1, <3>1, <3>2, IndexIsLaid, NumeralBytes
    <3>4. QED
      BY <3>3 DEF Bracketed
  <2>3. QED
    BY <2>1, <2>2
<1>3. Len(w) - 1 \in Nat /\ Len(w) - 1 < Len(w) /\ Len(w) - 1 + 1 = Len(w)
  BY <1>2
<1>4. PICK j : j = Len(w) - 1
  OBVIOUS
<1>5. j \in Nat /\ j < Len(w) /\ j + 1 = Len(w) /\ b \in Nat
  BY <1>3, <1>4 DEF Standing
<1>6. ByteAt(b + j) = w[j + 1]
  BY <1>1, <1>5, StandingByte
<1>7. pos = b + j /\ Peek = ByteAt(b + j)
  BY <1>1, <1>4 DEF InBracket, Peek
<1>8. pos + 1 = b + Len(w)
  BY <1>2, <1>5, <1>7
<1>9. QED
  BY <1>1, <1>2, <1>5, <1>6, <1>7, <1>8, EndsOfLoops

LEMMA BracketMoves ==
  ASSUME NEW s, NEW b, Standing(s, b), s = AnyIndex \/ IsIndex(s), InBracket(s, b), EndOfIndex
  PROVE  Moves(s, b)
<1>1. Peek = CloseBracket /\ pos + 1 = b + Len(WriteStep(s))
  BY PeekBracket
<1>2. PushStep(s, pos + 1)
  BY <1>1 DEF EndOfIndex, InBracket
<1>3. QED
  BY <1>1, <1>2 DEF Moves

\* The characters of a name.
CharStands(nm, b, i, q, p) ==
  /\ WrittenChar(q, nm[i]) /\ nm[i] \in Char /\ p \in Nat /\ Len(q) \in Nat
  /\ b + CharPlace(nm, i + 1) = p + Len(q)
  /\ \A j \in Nat : j < Len(q) => ByteAt(p + j) = q[j + 1]

LEMMA StandingChar ==
  ASSUME NEW nm \in Seq(Char), ~IsBareIdent(nm), NEW b, Standing(Field(nm), b),
         NEW i \in 1 .. Len(nm), NEW q, q = QuotedChar(nm[i]), NEW p, p = b + CharPlace(nm, i)
  PROVE  CharStands(nm, b, i, q, p)
<1>1. NameLaid(nm) /\ WriteStep(Field(nm)) = WriteQuoted(nm) /\ b \in Nat
  BY QuotedIs DEF Standing
<1>2. /\ CharPlace(nm, i) \in Nat /\ CharPlace(nm, i + 1) = CharPlace(nm, i) + Len(q)
      /\ Holds(WriteStep(Field(nm)), CharPlace(nm, i), q)
  BY <1>1 DEF NameLaid
<1>3. nm[i] \in Char /\ WrittenChar(q, nm[i])
  BY ElementOfSeq, CharWritten
<1>4. Len(q) \in Nat
  BY <1>3, LenProperties DEF WrittenChar
<1>5. \A j \in Nat : j < Len(q) => ByteAt(p + j) = q[j + 1]
  BY <1>2, <1>4, StandingPart
<1>6. QED
  BY <1>1, <1>2, <1>3, <1>4, <1>5 DEF CharStands

LEMMA StandingQuote ==
  ASSUME NEW nm \in Seq(Char), ~IsBareIdent(nm), NEW b, Standing(Field(nm), b)
  PROVE  /\ ByteAt(b + CharPlace(nm, Len(nm) + 1)) = Quote
         /\ b + CharPlace(nm, Len(nm) + 1) + 1 = b + Len(WriteStep(Field(nm)))
<1>1. PICK q : q = <<Quote>>
  OBVIOUS
<1>2. PICK p : p = CharPlace(nm, Len(nm) + 1)
  OBVIOUS
<1>3. /\ p \in Nat /\ Holds(WriteStep(Field(nm)), p, q) /\ Len(WriteStep(Field(nm))) = p + 1 /\ b \in Nat
  BY <1>1, <1>2, QuotedIs DEF NameLaid, Standing
<1>4. Len(q) \in Nat /\ 0 < Len(q) /\ q[0 + 1] = Quote /\ 0 \in Nat
  BY <1>1
<1>5. ByteAt(b + p + 0) = q[0 + 1]
  BY <1>3, <1>4, StandingPart
<1>6. b + p + 0 = b + p /\ b + p + 1 = b + (p + 1)
  BY <1>3
<1>7. QED
  BY <1>2, <1>3, <1>4, <1>5, <1>6

LEMMA PushedChar ==
  ASSUME NEW nm \in Seq(Char), ~IsBareIdent(nm), NEW b, Starts(name, nm, Char),
         NEW l \in Nat, l = Len(name), l # Len(nm),
         PushChar(nm[l + 1], b + CharPlace(nm, l + 1 + 1))
  PROVE  Moves(Field(nm), b)
<1>1. /\ mode' = "quoted" /\ name' = Append(name, nm[l + 1]) /\ pos' = b + CharPlace(nm, l + 1 + 1)
      /\ UNCHANGED <<text, steps>>
  BY DEF PushChar
<1>2. Starts(name', nm, Char) /\ Len(name') = l + 1
  BY <1>1, StartsMore
<1>3. InQuoted(nm, b)'
  BY <1>1, <1>2 DEF InQuoted
<1>4. Inside(Field(nm), b)'
  BY <1>3 DEF Inside
<1>5. QED
  BY <1>1, <1>4 DEF Moves

\* What is read at a character of a name.
CharRead(c, p) ==
  /\ c \in Escaped => ByteAt(p) = Backslash /\ ByteAt(p + 1) = EscapeOf(c) /\ Len(QuotedChar(c)) = 2
  /\ ByNumber(c) => ByteAt(p) = Backslash /\ ByteAt(p + 1) = 117 /\ ByteAt(p + 2) = OpenBrace
  /\ c \notin Escaped /\ ~(c < 32) /\ c < 128 => ByteAt(p) = c /\ Len(QuotedChar(c)) = 1
  /\ c \notin Escaped /\ ~(c < 32) /\ ~(c < 128) =>
       ByteAt(p) = 192 + c \div 64 /\ ByteAt(p + 1) = 128 + (c % 64) /\ Len(QuotedChar(c)) = 2

LEMMA CharIsRead ==
  ASSUME NEW c \in Char, NEW p \in Nat, NEW q, q = QuotedChar(c), WrittenChar(q, c),
         \A j \in Nat : j < Len(q) => ByteAt(p + j) = q[j + 1]
  PROVE  CharRead(c, p)
<1>1. 0 \in Nat /\ 1 \in Nat /\ 2 \in Nat /\ p + 0 = p /\ 0 + 1 = 1 /\ 1 + 1 = 2 /\ 2 + 1 = 3
  OBVIOUS
<1>2. ASSUME NEW x, NEW y, q = <<x, y>> PROVE ByteAt(p) = x /\ ByteAt(p + 1) = y /\ Len(q) = 2
  <2>1. Len(q) = 2 /\ q[0 + 1] = x /\ q[1 + 1] = y
    BY <1>2
  <2>2. 0 < Len(q) /\ 1 < Len(q)
    BY <2>1
  <2>3. ByteAt(p + 0) = q[0 + 1] /\ ByteAt(p + 1) = q[1 + 1]
    BY <1>1, <2>2
  <2>4. QED
    BY <1>1, <2>1, <2>3
<1>3. ASSUME c \in Escaped PROVE ByteAt(p) = Backslash /\ ByteAt(p + 1) = EscapeOf(c) /\ Len(q) = 2
  <2>1. q = <<Backslash, EscapeOf(c)>>
    BY <1>3 DEF WrittenChar
  <2>2. QED
    BY <1>2, <2>1
<1>4. ASSUME c \notin Escaped, ~(c < 32), ~(c < 128)
      PROVE  ByteAt(p) = 192 + c \div 64 /\ ByteAt(p + 1) = 128 + (c % 64) /\ Len(q) = 2
  <2>1. PICK x : x = 192 + c \div 64
    OBVIOUS
  <2>2. PICK y : y = 128 + (c % 64)
    OBVIOUS
  <2>3. q = <<x, y>>
    BY <1>4, <2>1, <2>2, Zenon DEF WrittenChar
  <2>4. ByteAt(p) = x /\ ByteAt(p + 1) = y /\ Len(q) = 2
    BY <1>2, <2>3
  <2>5. QED
    BY <2>1, <2>2, <2>4, Zenon
<1>5. ASSUME c \notin Escaped, ~(c < 32), c < 128 PROVE ByteAt(p) = c /\ Len(q) = 1
  <2>1. q = <<c>>
    BY <1>5 DEF WrittenChar
  <2>2. Len(q) = 1 /\ q[0 + 1] = c /\ 0 < Len(q)
    BY <2>1
  <2>3. QED
    BY <1>1, <2>2
<1>6. ASSUME ByNumber(c)
      PROVE  ByteAt(p) = Backslash /\ ByteAt(p + 1) = 117 /\ ByteAt(p + 2) = OpenBrace
  <2>1. PICK d : d = Numeral(c, 16)
    OBVIOUS
  <2>2. Braced(q, d)
    BY <1>6, <2>1 DEF WrittenChar
  <2>3. Len(d) \in Nat
    <3>1. c \in Nat /\ 16 \in {10, 16}
      BY DEF Char
    <3>2. QED
      BY <2>1, <3>1, NumeralBytes
  <2>4. /\ 0 < Len(q) /\ 1 < Len(q) /\ 2 < Len(q)
        /\ q[1] = Backslash /\ q[2] = 117 /\ q[3] = OpenBrace
    BY <2>2, <2>3 DEF Braced
  <2>5. ByteAt(p + 0) = q[0 + 1] /\ ByteAt(p + 1) = q[1 + 1] /\ ByteAt(p + 2) = q[2 + 1]
    BY <1>1, <2>4
  <2>6. QED
    BY <1>1, <2>4, <2>5
<1>7. QED
  BY <1>3, <1>4, <1>5, <1>6, Zenon DEF CharRead

\* Where the parser stands in a name.
AtQuoted(nm, b) ==
  /\ Len(name) = Len(nm) => Peek = Quote /\ pos + 1 = b + Len(WriteStep(Field(nm)))
  /\ Len(name) # Len(nm) =>
       /\ CharRead(nm[Len(name) + 1], pos) /\ nm[Len(name) + 1] \in Char
       /\ pos \in Nat /\ b + CharPlace(nm, Len(name) + 1 + 1) = pos + Len(QuotedChar(nm[Len(name) + 1]))

LEMMA QuotedStands ==
  ASSUME NEW nm \in Seq(Char), NEW b, Standing(Field(nm), b), InQuoted(nm, b)
  PROVE  AtQuoted(nm, b)
<1>1. PICK l : l = Len(name)
  OBVIOUS
<1>2. /\ ~IsBareIdent(nm) /\ pos = b + CharPlace(nm, l + 1) /\ l \in Nat /\ Peek = ByteAt(pos)
      /\ l # Len(nm) => l + 1 \in 1 .. Len(nm)
  BY <1>1, StartsLength DEF InQuoted, Peek
<1>3. CASE l = Len(nm)
  BY <1>1, <1>2, <1>3, StandingQuote DEF AtQuoted
<1>4. CASE l # Len(nm)
  <2>1. PICK i : i = l + 1
    OBVIOUS
  <2>2. PICK q : q = QuotedChar(nm[i])
    OBVIOUS
  <2>3. i \in 1 .. Len(nm) /\ pos = b + CharPlace(nm, i)
    BY <1>2, <1>4, <2>1
  <2>4. PICK p : p = pos
    OBVIOUS
  <2>5. /\ WrittenChar(q, nm[i]) /\ nm[i] \in Char /\ p \in Nat /\ Len(q) \in Nat
        /\ b + CharPlace(nm, i + 1) = p + Len(q)
        /\ \A j \in Nat : j < Len(q) => ByteAt(p + j) = q[j + 1]
    <3>1. CharStands(nm, b, i, q, p)
      BY <1>2, <2>2, <2>3, <2>4, StandingChar, Zenon
    <3>2. QED
      BY <3>1 DEF CharStands
  <2>6. CharRead(nm[i], p)
    BY <2>2, <2>5, CharIsRead
  <2>7. QED
    BY <1>1, <1>4, <2>1, <2>2, <2>4, <2>5, <2>6, Zenon DEF AtQuoted
<1>5. QED
  BY <1>3, <1>4

\* The bytes of a character and the passes that they choose.
LEMMA CharBytes ==
  /\ Backslash # End /\ Backslash # Quote /\ Quote # End /\ Backslash \notin Cont /\ Quote \notin Cont
  /\ 117 \notin DOMAIN Unescaped /\ 117 # End
  /\ \A c \in Escaped : EscapeOf(c) \in DOMAIN Unescaped /\ Unescaped[EscapeOf(c)] = c
  /\ \A c \in Char : c \notin Escaped /\ ~(c < 32) /\ c < 128 =>
       c \notin Cont /\ c \notin {End, Quote, Backslash}
  /\ \A x \in 192 .. 255 : x \notin Cont /\ x \notin {End, Quote, Backslash} /\ ~(x < 128)
<1>1. \A c \in Escaped : EscapeOf(c) \in DOMAIN Unescaped /\ Unescaped[EscapeOf(c)] = c
  BY EscapesReadBack
<1>2. 117 \notin DOMAIN Unescaped /\ 117 # End
  BY EscapesAreLetters DEF End
<1>3. QED
  BY <1>1, <1>2 DEF Backslash, End, Quote, Cont, Escaped, Char

LEMMA EscapedMoves ==
  ASSUME NEW nm \in Seq(Char), NEW b, Standing(Field(nm), b), InQuoted(nm, b), ParseQuoted,
         Len(name) # Len(nm), nm[Len(name) + 1] \in Escaped
  PROVE  Moves(Field(nm), b)
<1>1. PICK l : l = Len(name)
  OBVIOUS
<1>2. PICK c : c = nm[l + 1]
  OBVIOUS
<1>3. /\ CharRead(c, pos) /\ pos \in Nat
      /\ b + CharPlace(nm, l + 1 + 1) = pos + Len(QuotedChar(c))
  BY <1>1, <1>2, QuotedStands DEF AtQuoted
<1>4. ByteAt(pos) = Backslash /\ ByteAt(pos + 1) = EscapeOf(c) /\ Len(QuotedChar(c)) = 2
  BY <1>1, <1>2, <1>3 DEF CharRead
<1>5. ParseEscape(ByteAt(pos + 1))
  <2>1. Peek = Backslash /\ Peek # End /\ Peek # Quote
    BY <1>4, CharBytes DEF Peek
  <2>2. QED
    BY <2>1 DEF ParseQuoted
<1>6. EscapeOf(c) \in DOMAIN Unescaped /\ Unescaped[EscapeOf(c)] = c
  BY <1>1, <1>2, CharBytes
<1>7. PushChar(Unescaped[EscapeOf(c)], pos + 2)
  <2>1. EscapeOf(c) # 117 /\ EscapeOf(c) # End
    BY <1>6, EscapesAreLetters DEF End
  <2>2. QED
    BY <1>4, <1>5, <1>6, <2>1 DEF ParseEscape
<1>8. PushChar(nm[l + 1], b + CharPlace(nm, l + 1 + 1))
  BY <1>2, <1>3, <1>4, <1>6, <1>7
<1>9. ~IsBareIdent(nm) /\ Starts(name, nm, Char) /\ l \in Nat
  BY <1>1, StartsLength DEF InQuoted
<1>10. QED
  BY <1>1, <1>8, <1>9, PushedChar

LEMMA ByNumberMoves ==
  ASSUME NEW nm \in Seq(Char), NEW b, Standing(Field(nm), b), InQuoted(nm, b), ParseQuoted,
         Len(name) # Len(nm), ByNumber(nm[Len(name) + 1])
  PROVE  Moves(Field(nm), b)
<1>1. PICK l : l = Len(name)
  OBVIOUS
<1>2. PICK c : c = nm[l + 1]
  OBVIOUS
<1>3. CharRead(c, pos) /\ pos \in Nat /\ c \in Char
  BY <1>1, <1>2, QuotedStands DEF AtQuoted
<1>4. ByteAt(pos) = Backslash /\ ByteAt(pos + 1) = 117 /\ ByteAt(pos + 2) = OpenBrace
  BY <1>1, <1>2, <1>3 DEF CharRead
<1>5. ParseEscape(117)
  <2>1. Peek = Backslash /\ Peek # End /\ Peek # Quote
    BY <1>4, CharBytes DEF Peek
  <2>2. QED
    BY <1>4, <2>1 DEF ParseQuoted
<1>6. /\ mode' = "unicode" /\ token' = <<>> /\ pos' = pos + 3
      /\ UNCHANGED <<text, steps, name>>
  BY <1>4, <1>5, CharBytes DEF ParseEscape
<1>7. Starts(<<>>, Numeral(c, 16), HexDigit) /\ Len(<<>>) = 0
  <2>1. c \in Nat /\ 16 \in {10, 16} /\ 16 # 10
    BY <1>3 DEF Char
  <2>2. Numeral(c, 16) \in Seq(HexDigit)
    BY <2>1, NumeralReadsAs DEF ReadsAs, DigitsOf
  <2>3. QED
    BY <2>2, StartsNone
<1>8. pos + 3 = b + CharPlace(nm, l + 1) + 3 + 0
  <2>1. pos = b + CharPlace(nm, l + 1)
    BY <1>1 DEF InQuoted
  <2>2. QED
    BY <1>3, <2>1
<1>9. ~IsBareIdent(nm) /\ Starts(name, nm, Char) /\ Len(name) # Len(nm) /\ ByNumber(c)
  BY <1>1, <1>2 DEF InQuoted
<1>10. Escaping(nm, Len(name), b)'
  <2>1. ByNumber(nm[l + 1]) /\ Starts(token', Numeral(nm[l + 1], 16), HexDigit)
    BY <1>2, <1>6, <1>7, <1>9
  <2>2. pos' = b + CharPlace(nm, l + 1) + 3 + Len(token')
    BY <1>6, <1>7, <1>8
  <2>3. Len(name') = l
    BY <1>1, <1>6
  <2>4. QED
    BY <2>1, <2>2, <2>3, Zenon DEF Escaping
<1>11. InEscape(nm, b)'
  BY <1>6, <1>9, <1>10 DEF InEscape
<1>12. Inside(Field(nm), b)'
  BY <1>11 DEF Inside
<1>13. QED
  BY <1>6, <1>12 DEF Moves

LEMMA RawMoves ==
  ASSUME NEW nm \in Seq(Char), NEW b, Standing(Field(nm), b), InQuoted(nm, b), ParseQuoted,
         Len(name) # Len(nm), nm[Len(name) + 1] \notin Escaped, ~(nm[Len(name) + 1] < 32)
  PROVE  Moves(Field(nm), b)
<1>1. PICK l : l = Len(name)
  OBVIOUS
<1>2. PICK c : c = nm[l + 1]
  OBVIOUS
<1>3. /\ CharRead(c, pos) /\ pos \in Nat /\ c \in Char
      /\ b + CharPlace(nm, l + 1 + 1) = pos + Len(QuotedChar(c))
      /\ c \notin Escaped /\ ~(c < 32)
  BY <1>1, <1>2, QuotedStands DEF AtQuoted
<1>4. ~IsBareIdent(nm) /\ Starts(name, nm, Char) /\ l \in Nat
  BY <1>1, StartsLength DEF InQuoted
<1>5. CASE c < 128
  <2>1. Peek = c /\ Len(QuotedChar(c)) = 1
    BY <1>3, <1>5 DEF CharRead, Peek
  <2>2. Peek \notin Cont /\ Peek \notin {End, Quote, Backslash}
    BY <1>3, <1>5, <2>1, CharBytes
  <2>3. RawChar
    BY <2>2 DEF ParseQuoted
  <2>4. PushChar(c, pos + 1)
    BY <1>5, <2>1, <2>2, <2>3 DEF RawChar
  <2>5. PushChar(nm[l + 1], b + CharPlace(nm, l + 1 + 1))
    BY <1>2, <1>3, <2>1, <2>4
  <2>6. QED
    BY <1>1, <1>4, <2>5, PushedChar
<1>6. CASE ~(c < 128)
  <2>1. Peek = 192 + c \div 64 /\ ByteAt(pos + 1) = 128 + (c % 64) /\ Len(QuotedChar(c)) = 2
    BY <1>3, <1>6, Zenon DEF CharRead, Peek
  <2>2. 192 + c \div 64 \in 192 .. 255 /\ c = (c \div 64) * 64 + (c % 64)
    <3>1. c >= 128
      BY <1>3, <1>6 DEF Char
    <3>2. QED
      BY <1>3, <3>1, Surrogates
  <2>3. Peek \notin Cont /\ Peek \notin {End, Quote, Backslash} /\ ~(Peek < 128)
    <3>1. Peek \in 192 .. 255
      BY <2>1, <2>2, Zenon
    <3>2. QED
      BY <3>1 DEF Cont, End, Quote, Backslash
  <2>4. RawChar
    BY <2>3 DEF ParseQuoted
  <2>5. PushChar((Peek - 192) * 64 + ByteAt(pos + 1) - 128, pos + 2)
    BY <2>3, <2>4 DEF RawChar
  <2>6. (Peek - 192) * 64 + ByteAt(pos + 1) - 128 = c
    <3>1. PICK x : x = c \div 64
      OBVIOUS
    <3>2. PICK y : y = c % 64
      OBVIOUS
    <3>3. x \in Nat /\ y \in Nat /\ c = x * 64 + y
      BY <1>3, <2>2, <3>1, <3>2 DEF Char
    <3>4. Peek = 192 + x /\ ByteAt(pos + 1) = 128 + y
      BY <2>1, <3>1, <3>2, Zenon
    <3>5. QED
      BY <3>3, <3>4
  <2>7. PushChar(c, pos + 2)
    BY <2>5, <2>6
  <2>8. PushChar(nm[l + 1], b + CharPlace(nm, l + 1 + 1))
    BY <1>2, <1>3, <2>1, <2>7
  <2>9. QED
    BY <1>1, <1>4, <2>8, PushedChar
<1>7. QED
  BY <1>5, <1>6

LEMMA QuotedMoves ==
  ASSUME NEW nm \in Seq(Char), NEW b, Standing(Field(nm), b), InQuoted(nm, b), ParseQuoted
  PROVE  Moves(Field(nm), b)
<1>1. CASE Len(name) = Len(nm)
  <2>1. Peek = Quote /\ pos + 1 = b + Len(WriteStep(Field(nm)))
    BY <1>1, QuotedStands DEF AtQuoted
  <2>2. name = nm
    BY <1>1, StartsAll DEF InQuoted
  <2>3. PushStep(Field(name), pos + 1)
    BY <2>1, CharBytes DEF ParseQuoted
  <2>4. QED
    BY <2>1, <2>2, <2>3 DEF Moves
<1>2. CASE Len(name) # Len(nm)
  BY <1>2, EscapedMoves, ByNumberMoves, RawMoves DEF ByNumber
<1>3. QED
  BY <1>1, <1>2

\* Where the parser stands in an escape by number.
AtEscape(nm, b, l, d) ==
  /\ Len(token) = Len(d) => Peek = CloseBrace /\ b + CharPlace(nm, l + 1 + 1) = pos + 1
  /\ Len(token) # Len(d) => Peek = d[Len(token) + 1] /\ Peek \in HexDigit

LEMMA EscapeStands ==
  ASSUME NEW nm \in Seq(Char), NEW b, Standing(Field(nm), b), InEscape(nm, b),
         NEW l, l = Len(name), NEW d, d = Numeral(nm[l + 1], 16)
  PROVE  /\ AtEscape(nm, b, l, d) /\ l \in Nat /\ nm[l + 1] \in Char /\ d \in Seq(HexDigit)
         /\ Len(d) >= 1 /\ Value(d, 16) = nm[l + 1] /\ b \in Nat /\ CharPlace(nm, l + 1) \in Nat
<1>1. /\ ~IsBareIdent(nm) /\ l \in Nat /\ l + 1 \in 1 .. Len(nm) /\ ByNumber(nm[l + 1])
      /\ Starts(token, d, HexDigit) /\ pos = b + CharPlace(nm, l + 1) + 3 + Len(token)
  BY StartsLength DEF InEscape, Escaping
<1>2. PICK i : i = l + 1
  OBVIOUS
<1>3. PICK q : q = QuotedChar(nm[i])
  OBVIOUS
<1>4. PICK p : p = b + CharPlace(nm, i)
  OBVIOUS
<1>5. i \in 1 .. Len(nm)
  BY <1>1, <1>2
<1>6. /\ WrittenChar(q, nm[i]) /\ nm[i] \in Char /\ p \in Nat /\ Len(q) \in Nat
      /\ b + CharPlace(nm, i + 1) = p + Len(q)
      /\ \A j \in Nat : j < Len(q) => ByteAt(p + j) = q[j + 1]
  <2>1. CharStands(nm, b, i, q, p)
    BY <1>1, <1>3, <1>4, <1>5, StandingChar, Zenon
  <2>2. QED
    BY <2>1 DEF CharStands
<1>7. Braced(q, d)
  BY <1>1, <1>2, <1>6 DEF WrittenChar
<1>8. d \in Seq(HexDigit) /\ Len(d) >= 1 /\ Value(d, 16) = nm[l + 1]
  <2>1. nm[i] \in Nat /\ 16 \in {10, 16} /\ 16 # 10
    <3>1. PICK c : c = nm[i]
      OBVIOUS
    <3>2. c \in Char
      BY <1>6, <3>1
    <3>3. c \in Nat
      BY <3>2 DEF Char
    <3>4. QED
      BY <3>1, <3>3
  <2>2. ReadsAs(Numeral(nm[i], 16), nm[i], 16)
    BY <2>1, NumeralReadsAs
  <2>3. QED
    BY <1>2, <2>1, <2>2 DEF ReadsAs, DigitsOf
<1>9. PICK m : m = Len(token)
  OBVIOUS
<1>10. PICK n : n = Len(d)
  OBVIOUS
<1>11. m \in Nat /\ n \in Nat /\ (m # n => m < n /\ d[m + 1] \in HexDigit)
  BY <1>1, <1>9, <1>10, StartsLength
<1>12. pos = p + (3 + m) /\ Peek = ByteAt(p + (3 + m))
  <2>1. pos = p + 3 + m
    BY <1>1, <1>2, <1>4, <1>9
  <2>2. p + 3 + m = p + (3 + m)
    BY <1>6, <1>11
  <2>3. QED
    BY <2>1, <2>2 DEF Peek
<1>13. Len(q) = n + 4 /\ q[n + 4] = CloseBrace /\ \A k \in 1 .. n : q[3 + k] = d[k]
  BY <1>7, <1>10 DEF Braced
<1>14. ASSUME m = n PROVE AtEscape(nm, b, l, d)
  <2>1. 3 + m \in Nat /\ 3 + m < Len(q) /\ 3 + m + 1 = n + 4
    BY <1>11, <1>13, <1>14
  <2>2. ByteAt(p + (3 + m)) = q[3 + m + 1]
    BY <1>6, <2>1
  <2>3. p + Len(q) = pos + 1
    BY <1>6, <1>11, <1>12, <1>13, <1>14
  <2>4. Peek = CloseBrace /\ b + CharPlace(nm, l + 1 + 1) = pos + 1
    BY <1>2, <1>6, <1>12, <1>13, <2>1, <2>2, <2>3
  <2>5. QED
    BY <1>9, <1>10, <1>14, <2>4 DEF AtEscape
<1>15. ASSUME m # n PROVE AtEscape(nm, b, l, d)
  <2>1. 3 + m \in Nat /\ 3 + m < Len(q) /\ 3 + m + 1 = 3 + (m + 1) /\ m + 1 \in 1 .. n
    BY <1>11, <1>13, <1>15
  <2>2. ByteAt(p + (3 + m)) = q[3 + m + 1]
    BY <1>6, <2>1
  <2>3. Peek = d[m + 1] /\ d[m + 1] \in HexDigit
    BY <1>11, <1>12, <1>13, <1>15, <2>1, <2>2
  <2>4. QED
    BY <1>9, <1>10, <1>15, <2>3 DEF AtEscape
<1>16. AtEscape(nm, b, l, d)
  BY <1>14, <1>15
<1>17. b \in Nat /\ CharPlace(nm, l + 1) \in Nat
  <2>1. NameLaid(nm)
    BY <1>1, QuotedIs
  <2>2. QED
    BY <1>2, <1>5, <2>1 DEF NameLaid, Standing
<1>18. QED
  BY <1>1, <1>2, <1>6, <1>8, <1>16, <1>17

LEMMA EscapeMoves ==
  ASSUME NEW nm \in Seq(Char), NEW b, Standing(Field(nm), b), InEscape(nm, b), ParseUnicodeEscape
  PROVE  Moves(Field(nm), b)
<1>1. PICK l : l = Len(name)
  OBVIOUS
<1>2. PICK c : c = nm[l + 1]
  OBVIOUS
<1>3. PICK d : d = Numeral(c, 16)
  OBVIOUS
<1>4. /\ AtEscape(nm, b, l, d) /\ l \in Nat /\ c \in Char /\ d \in Seq(HexDigit) /\ Len(d) >= 1
      /\ Value(d, 16) = c /\ b \in Nat /\ CharPlace(nm, l + 1) \in Nat
  BY <1>1, <1>2, <1>3, EscapeStands
<1>5. /\ ~IsBareIdent(nm) /\ Starts(name, nm, Char) /\ l # Len(nm) /\ ByNumber(c)
      /\ Starts(token, d, HexDigit) /\ pos = b + CharPlace(nm, l + 1) + 3 + Len(token)
  BY <1>1, <1>2, <1>3 DEF InEscape, Escaping
<1>6. CASE Len(token) = Len(d)
  <2>1. Peek = CloseBrace /\ b + CharPlace(nm, l + 1 + 1) = pos + 1 /\ Peek \notin HexDigit
    BY <1>4, <1>6, EndsOfLoops DEF AtEscape
  <2>2. token = d /\ token # <<>>
    BY <1>4, <1>5, <1>6, StartsAll
  <2>3. Value(token, 16) = c
    BY <1>4, <2>2
  <2>4. ~(c > MaxChar) /\ ~(c > MaxU32)
    <3>1. c < 32 /\ c \in Nat
      BY <1>4, <1>5 DEF ByNumber, Char
    <3>2. QED
      BY <3>1, LimitAssumption
  <2>5. PushChar(c, pos + 1)
    <3>1. ~(Peek \in HexDigit) /\ ~(Peek \notin HexDigit /\ token = <<>>)
      BY <2>1, <2>2
    <3>2. ~(Value(token, 16) > MaxU32) /\ ~(Value(token, 16) > MaxChar) /\ ~(Peek # CloseBrace)
      BY <2>1, <2>3, <2>4
    <3>3. PushChar(Value(token, 16), pos + 1)
      BY <3>1, <3>2, Zenon DEF ParseUnicodeEscape
    <3>4. QED
      BY <2>3, <3>3
  <2>6. PushChar(nm[l + 1], b + CharPlace(nm, l + 1 + 1))
    BY <1>2, <2>1, <2>5
  <2>7. QED
    BY <1>1, <1>4, <1>5, <2>6, PushedChar
<1>7. CASE Len(token) # Len(d)
  <2>1. Peek = d[Len(token) + 1] /\ Peek \in HexDigit
    BY <1>4, <1>7 DEF AtEscape
  <2>2. mode = "unicode" /\ Take(Peek)
    BY <2>1, Zenon DEF ParseUnicodeEscape
  <2>3. token' = Append(token, Peek) /\ pos' = pos + 1 /\ UNCHANGED <<text, mode, steps, name>>
    BY <2>2 DEF Take
  <2>4. PICK m : m = Len(token)
    OBVIOUS
  <2>5. m \in Nat
    BY <1>5, <2>4, StartsLength
  <2>6. Starts(token', d, HexDigit) /\ Len(token') = m + 1
    BY <1>5, <1>7, <2>1, <2>3, <2>4, <2>5, StartsMore
  <2>7. pos' = b + CharPlace(nm, l + 1) + 3 + Len(token')
    <3>1. PICK p : p = CharPlace(nm, l + 1)
      OBVIOUS
    <3>2. pos = b + p + 3 + m /\ p \in Nat /\ b \in Nat
      BY <1>4, <1>5, <2>4, <3>1
    <3>3. pos' = b + p + 3 + (m + 1)
      BY <2>3, <2>5, <3>2
    <3>4. QED
      BY <2>6, <3>1, <3>3
  <2>8. Escaping(nm, Len(name), b)'
    <3>1. Len(name') = l
      BY <1>1, <2>3
    <3>2. ByNumber(nm[l + 1]) /\ Starts(token', Numeral(nm[l + 1], 16), HexDigit)
      BY <1>2, <1>3, <1>5, <2>6
    <3>3. QED
      BY <2>7, <3>1, <3>2, Zenon DEF Escaping
  <2>9. InEscape(nm, b)'
    BY <1>1, <1>5, <2>2, <2>3, <2>8 DEF InEscape
  <2>10. Inside(Field(nm), b)'
    BY <2>9 DEF Inside
  <2>11. QED
    BY <2>3, <2>10 DEF Moves
<1>8. QED
  BY <1>6, <1>7

\* Whatever the step is.
LEMMA InsideMoves ==
  ASSUME NEW s, NEW b, Standing(s, b), Inside(s, b), Parse
  PROVE  Moves(s, b)
<1>1. CASE \E nm \in Seq(Char) : s = Field(nm) /\ InIdent(nm, b)
  <2>1. PICK nm \in Seq(Char) : s = Field(nm) /\ InIdent(nm, b)
    BY <1>1
  <2>2. ParseIdent
    <3>1. mode = "ident"
      BY <2>1 DEF InIdent
    <3>2. QED
      BY <3>1 DEF Parse, Root, ParsePattern, ParseU32, EndOfIndex, ParseQuoted, ParseUnicodeEscape
  <2>3. QED
    BY <2>1, <2>2, IdentMoves
<1>2. CASE \E nm \in Seq(Char) : s = Field(nm) /\ InQuoted(nm, b)
  <2>1. PICK nm \in Seq(Char) : s = Field(nm) /\ InQuoted(nm, b)
    BY <1>2
  <2>2. ParseQuoted
    <3>1. mode = "quoted"
      BY <2>1 DEF InQuoted
    <3>2. QED
      BY <3>1 DEF Parse, Root, ParsePattern, ParseIdent, ParseU32, EndOfIndex, ParseUnicodeEscape
  <2>3. QED
    BY <2>1, <2>2, QuotedMoves
<1>3. CASE \E nm \in Seq(Char) : s = Field(nm) /\ InEscape(nm, b)
  <2>1. PICK nm \in Seq(Char) : s = Field(nm) /\ InEscape(nm, b)
    BY <1>3
  <2>2. ParseUnicodeEscape
    <3>1. mode = "unicode"
      BY <2>1 DEF InEscape
    <3>2. QED
      BY <3>1 DEF Parse, Root, ParsePattern, ParseIdent, ParseU32, EndOfIndex, ParseQuoted
  <2>3. QED
    BY <2>1, <2>2, EscapeMoves
<1>4. CASE \E n \in 0 .. MaxU32 : s = Index(n) /\ InNumber(n, b)
  <2>1. PICK n \in 0 .. MaxU32 : s = Index(n) /\ InNumber(n, b)
    BY <1>4
  <2>2. ParseU32
    <3>1. mode = "number"
      BY <2>1 DEF InNumber
    <3>2. QED
      BY <3>1 DEF Parse, Root, ParsePattern, ParseIdent, EndOfIndex, ParseQuoted, ParseUnicodeEscape
  <2>3. QED
    BY <2>1, <2>2, NumberMoves
<1>5. CASE (s = AnyIndex \/ IsIndex(s)) /\ InBracket(s, b)
  <2>1. EndOfIndex
    <3>1. mode = "bracket"
      BY <1>5 DEF InBracket
    <3>2. QED
      BY <3>1 DEF Parse, Root, ParsePattern, ParseIdent, ParseU32, ParseQuoted, ParseUnicodeEscape
  <2>2. QED
    BY <1>5, <2>1, BracketMoves
<1>6. QED
  BY <1>1, <1>2, <1>3, <1>4, <1>5 DEF Inside

-----------------------------------------------------------------------------
(* Between two steps.                                                      *)
LEMMA OpensBracket ==
  ASSUME text \in Seq(Byte), NEW s \in Steps, s = AnyIndex \/ IsIndex(s), NEW p \in Nat,
         Holds(text, p, WriteStep(s))
  PROVE  ByteAt(p) = OpenBracket
<1>1. PICK w : w = WriteStep(s)
  OBVIOUS
<1>2. Len(w) \in Nat /\ Len(w) >= 1 /\ w[1] = OpenBracket
  <2>1. CASE s = AnyIndex
    BY <1>1, <2>1, StarsWritten
  <2>2. CASE IsIndex(s)
    <3>1. PICK n \in 0 .. MaxU32 : s = Index(n)
      BY <2>2 DEF IsIndex
    <3>2. n \in Nat /\ 10 \in {10, 16}
      BY LimitAssumption
    <3>3. Bracketed(w, Numeral(n, 10)) /\ Len(Numeral(n, 10)) \in Nat
      BY <1>1, <3>1, <3>2, IndexIsLaid, NumeralBytes
    <3>4. QED
      BY <3>3 DEF Bracketed
  <2>3. QED
    BY <2>1, <2>2
<1>3. 0 \in Nat /\ 0 < Len(w) /\ p + 0 = p /\ 0 + 1 = 1
  BY <1>2
<1>4. ByteAt(p + 0) = w[0 + 1]
  BY <1>1, <1>2, <1>3, HoldsByte
<1>5. QED
  BY <1>2, <1>3, <1>4

\* What is read where step i is written.
Between(P, i) ==
  /\ P[i] \in Steps /\ StepLaid(P, i)
  /\ (IsField(P[i]) \/ P[i] = AnyField) /\ i # 1 =>
       ByteAt(PlaceOf(P, i)) = Dot /\ BodyAt(P, i) = PlaceOf(P, i) + 1
  /\ (IsField(P[i]) \/ P[i] = AnyField) /\ i = 1 => BodyAt(P, i) = PlaceOf(P, i)
  /\ P[i] = AnyIndex \/ IsIndex(P[i]) =>
       ByteAt(PlaceOf(P, i)) = OpenBracket /\ BodyAt(P, i) = PlaceOf(P, i)

LEMMA KindsApart ==
  ASSUME NEW s
  PROVE  /\ IsField(s) \/ s = AnyField => s.step \in {"field", "anyField"}
         /\ s = AnyIndex \/ IsIndex(s) => s.step \notin {"field", "anyField"}
<1>1. ASSUME IsField(s) PROVE s.step = "field"
  BY <1>1, FieldWritten DEF IsField
<1>2. ASSUME IsIndex(s) PROVE s.step = "index"
  <2>1. PICK n \in 0 .. MaxU32 : s = Index(n)
    BY <1>2 DEF IsIndex
  <2>2. QED
    BY <2>1 DEF Index
<1>3. QED
  BY <1>1, <1>2, StarsWritten

LEMMA BetweenSteps ==
  ASSUME NEW P \in Seq(Steps), text = Display(P), NEW i \in 1 .. Len(P)
  PROVE  Between(P, i)
<1>1. text \in Seq(Byte) /\ StepLaid(P, i)
  BY PatternIsLaid DEF PatternLaid
<1>2. PICK s : s = P[i]
  OBVIOUS
<1>3. s \in Steps
  BY <1>2, ElementOfSeq
<1>4. PICK p : p = PlaceOf(P, i)
  OBVIOUS
<1>5. PICK x : x = FieldSep(s, i = 1)
  OBVIOUS
<1>6. /\ p \in Nat /\ BodyAt(P, i) = p + Len(x) /\ Holds(text, p, x)
      /\ Holds(text, BodyAt(P, i), WriteStep(s))
  BY <1>1, <1>2, <1>4, <1>5 DEF StepLaid
<1>7. (i = 1) \in BOOLEAN
  OBVIOUS
<1>8. ASSUME IsField(s) \/ s = AnyField, i # 1 PROVE ByteAt(p) = Dot /\ BodyAt(P, i) = p + 1
  <2>1. x = <<Dot>>
    BY <1>5, <1>7, <1>8, KindsApart, SepIs
  <2>2. Len(x) = 1 /\ x[0 + 1] = Dot /\ 0 \in Nat /\ p + 0 = p
    BY <1>6, <2>1
  <2>3. Len(x) \in Nat /\ 0 < Len(x)
    BY <2>2
  <2>4. ByteAt(p + 0) = x[0 + 1]
    BY <1>1, <1>6, <2>2, <2>3, HoldsByte
  <2>5. QED
    BY <1>6, <2>2, <2>4
<1>9. ASSUME i = 1 \/ s = AnyIndex \/ IsIndex(s) PROVE BodyAt(P, i) = p
  <2>1. x = <<>>
    BY <1>5, <1>7, <1>9, KindsApart, SepIs
  <2>2. QED
    BY <1>6, <2>1
<1>10. ASSUME s = AnyIndex \/ IsIndex(s) PROVE ByteAt(p) = OpenBracket
  BY <1>1, <1>3, <1>6, <1>9, <1>10, OpensBracket
<1>11. QED
  BY <1>1, <1>2, <1>3, <1>4, <1>8, <1>9, <1>10 DEF Between

LEMMA Ending ==
  ASSUME NEW P \in Seq(Steps), text = Display(P)
  PROVE  ByteAt(PlaceOf(P, Len(P) + 1)) = End /\ PlaceOf(P, Len(P) + 1) = Len(text)
<1>1. text \in Seq(Byte) /\ PlaceOf(P, Len(P) + 1) = Len(text)
  BY PatternIsLaid DEF PatternLaid
<1>2. Len(text) \in Nat
  BY <1>1, LenProperties
<1>3. QED
  BY <1>1, <1>2 DEF ByteAt

LEMMA StandsAt ==
  ASSUME NEW P \in Seq(Steps), text = Display(P), NEW i \in 1 .. Len(P)
  PROVE  Standing(P[i], BodyAt(P, i))
<1>1. text \in Seq(Byte) /\ Len(P) \in Nat
  BY PatternIsLaid, LenProperties DEF PatternLaid
<1>2. Between(P, i)
  BY BetweenSteps
<1>3. PICK p : p = BodyAt(P, i) + Len(WriteStep(P[i]))
  OBVIOUS
<1>4. /\ P[i] \in Steps /\ BodyAt(P, i) \in Nat /\ Holds(text, BodyAt(P, i), WriteStep(P[i]))
      /\ PlaceOf(P, i + 1) = p
  BY <1>2, <1>3 DEF Between, StepLaid
<1>5. CASE i = Len(P)
  <2>1. ByteAt(p) = End
    BY <1>4, <1>5, Ending
  <2>2. QED
    BY <1>1, <1>3, <1>4, <2>1 DEF Standing
<1>6. CASE i # Len(P)
  <2>1. PICK j : j = i + 1
    OBVIOUS
  <2>2. j \in 1 .. Len(P) /\ j # 1 /\ PlaceOf(P, j) = p
    BY <1>1, <1>4, <1>6, <2>1
  <2>3. Between(P, j)
    BY <2>2, BetweenSteps
  <2>4. ByteAt(p) \in {Dot, OpenBracket}
    BY <2>2, <2>3, KindsOfSteps DEF Between
  <2>5. QED
    BY <1>1, <1>3, <1>4, <2>4 DEF Standing
<1>7. QED
  BY <1>5, <1>6

Along(P) ==
  /\ P \in Seq(Steps) /\ text = Display(P)
  /\ \/ mode = "root" /\ pos = 0 /\ steps = <<>>
     \/ mode = "done" /\ result = Ok(P) /\ pos = Len(text)
     \/ Starts(steps, P, Steps) /\ mode = "steps" /\ pos = PlaceOf(P, Len(steps) + 1)
     \/ /\ Starts(steps, P, Steps) /\ Len(steps) # Len(P)
        /\ Inside(P[Len(steps) + 1], BodyAt(P, Len(steps) + 1))

LEMMA MovesAlong ==
  ASSUME NEW P \in Seq(Steps), text = Display(P), Starts(steps, P, Steps),
         NEW l, l = Len(steps), l # Len(P), Moves(P[l + 1], BodyAt(P, l + 1))
  PROVE  Along(P)'
<1>1. l \in Nat /\ l + 1 \in 1 .. Len(P)
  BY StartsLength
<1>2. CASE PushStep(P[l + 1], BodyAt(P, l + 1) + Len(WriteStep(P[l + 1])))
  <2>1. PICK i : i = l + 1
    OBVIOUS
  <2>2. PlaceOf(P, i + 1) = BodyAt(P, i) + Len(WriteStep(P[i]))
    BY <1>1, <2>1, PatternIsLaid DEF PatternLaid, StepLaid
  <2>3. /\ mode' = "steps" /\ steps' = Append(steps, P[i]) /\ pos' = PlaceOf(P, i + 1)
        /\ text' = text
    BY <1>2, <2>1, <2>2 DEF PushStep
  <2>4. Starts(steps', P, Steps) /\ Len(steps') = i
    BY <1>1, <2>1, <2>3, StartsMore
  <2>5. QED
    BY <2>3, <2>4 DEF Along
<1>3. CASE UNCHANGED <<text, steps>> /\ Inside(P[l + 1], BodyAt(P, l + 1))'
  <2>1. text' = text /\ steps' = steps /\ Len(steps') = l
    BY <1>3
  <2>2. Starts(steps', P, Steps) /\ Len(steps') # Len(P)
    BY <2>1
  <2>3. Inside(P[Len(steps) + 1], BodyAt(P, Len(steps) + 1))'
    BY <1>3, <2>1
  <2>4. QED
    BY <2>1, <2>2, <2>3 DEF Along
<1>4. QED
  BY <1>2, <1>3 DEF Moves

LEMMA StepsAlong ==
  ASSUME NEW P, Along(P), mode = "steps", ParsePattern
  PROVE  Along(P)'
<1>1. PICK l : l = Len(steps)
  OBVIOUS
<1>2. /\ P \in Seq(Steps) /\ text = Display(P) /\ Starts(steps, P, Steps)
      /\ pos = PlaceOf(P, l + 1) /\ Peek = ByteAt(pos)
  BY <1>1 DEF Along, Inside, InIdent, InNumber, InBracket, InQuoted, InEscape, Peek
<1>3. CASE l = Len(P)
  <2>1. Peek = End /\ pos = Len(text) /\ steps = P
    BY <1>1, <1>2, <1>3, Ending, StartsAll
  <2>2. mode' = "done" /\ result' = Ok(steps) /\ UNCHANGED <<text, pos>>
    BY <2>1 DEF ParsePattern, End, Dot, OpenBracket, Letter, Quote, Star
  <2>3. mode' = "done" /\ result' = Ok(P) /\ pos' = Len(text') /\ text' = Display(P)
    BY <1>2, <2>1, <2>2
  <2>4. QED
    BY <1>2, <2>3 DEF Along
<1>4. CASE l # Len(P)
  <2>1. PICK i : i = l + 1
    OBVIOUS
  <2>2. l \in Nat /\ i \in 1 .. Len(P) /\ (i = 1 <=> l = 0)
    BY <1>1, <1>2, <1>4, <2>1, StartsLength
  <2>3. Between(P, i) /\ Standing(P[i], BodyAt(P, i)) /\ pos = PlaceOf(P, i)
    BY <1>2, <2>1, <2>2, BetweenSteps, StandsAt
  <2>4. PICK b : b = BodyAt(P, i)
    OBVIOUS
  <2>5. steps = <<>> <=> i = 1
    <3>1. steps \in Seq(Steps)
      BY <1>2 DEF Starts
    <3>2. QED
      BY <1>1, <2>2, <3>1, EmptySeq
  <2>6. Moves(P[i], b)
    <3>1. CASE (IsField(P[i]) \/ P[i] = AnyField) /\ i # 1
      <4>1. Peek = Dot /\ b = pos + 1
        BY <1>2, <2>3, <2>4, <3>1 DEF Between
      <4>2. FieldBody(b)
        BY <2>5, <3>1, <4>1 DEF ParsePattern, End, Dot, OpenBracket, Letter, Quote, Star
      <4>3. QED
        BY <2>3, <2>4, <3>1, <4>2, FieldStarts
    <3>2. CASE (IsField(P[i]) \/ P[i] = AnyField) /\ i = 1
      <4>1. b = pos
        BY <2>3, <2>4, <3>2 DEF Between
      <4>2. Peek \in Letter \cup {Quote, Star}
        BY <1>2, <2>3, <2>4, <3>2, <4>1, FirstBytes DEF IsField
      <4>3. Peek \notin {End, Dot, OpenBracket}
        BY <4>2 DEF End, Dot, OpenBracket, Letter, Quote, Star
      <4>4. FieldBody(b)
        BY <2>5, <3>2, <4>1, <4>2, <4>3 DEF ParsePattern
      <4>5. QED
        BY <2>3, <2>4, <3>2, <4>4, FieldStarts
    <3>3. CASE P[i] = AnyIndex \/ IsIndex(P[i])
      <4>1. Peek = OpenBracket /\ b = pos
        BY <1>2, <2>3, <2>4, <3>3 DEF Between
      <4>2. IndexBody(b + 1)
        BY <4>1 DEF ParsePattern, End, Dot, OpenBracket, Letter, Quote, Star
      <4>3. QED
        BY <2>3, <2>4, <3>3, <4>2, IndexStarts
    <3>4. QED
      BY <2>3, <3>1, <3>2, <3>3, KindsOfSteps DEF Between
  <2>7. QED
    BY <1>1, <1>2, <1>4, <2>1, <2>4, <2>6, MovesAlong
<1>5. QED
  BY <1>3, <1>4

LEMMA RootAlong ==
  ASSUME NEW P, Along(P), mode = "root", Root
  PROVE  Along(P)'
<1>1. P \in Seq(Steps) /\ text = Display(P) /\ pos = 0 /\ steps = <<>>
  BY DEF Along, Inside, InIdent, InNumber, InBracket, InQuoted, InEscape
<1>2. text \in Seq(Byte) /\ Len(text) >= 1 /\ text[1] = Dot /\ PlaceOf(P, 1) = 1
  BY <1>1, PatternIsLaid DEF PatternLaid
<1>3. text # <<>> /\ Peek = Dot
  BY <1>1, <1>2 DEF Peek, ByteAt
<1>4. mode' = "steps" /\ pos' = 1 /\ UNCHANGED <<text, steps>>
  BY <1>3 DEF Root, Enter
<1>5. Starts(<<>>, P, Steps) /\ Len(<<>>) = 0 /\ 0 + 1 = 1
  BY <1>1, StartsNone
<1>6. Starts(steps', P, Steps) /\ pos' = PlaceOf(P, Len(steps') + 1)
  BY <1>1, <1>2, <1>4, <1>5
<1>7. QED
  BY <1>1, <1>4, <1>6 DEF Along

LEMMA ParseAlong ==
  ASSUME NEW P, Along(P), Parse
  PROVE  Along(P)'
<1>1. CASE mode = "root"
  <2>1. Root
    BY <1>1 DEF Parse, ParsePattern, ParseIdent, ParseU32, EndOfIndex, ParseQuoted, ParseUnicodeEscape
  <2>2. QED
    BY <1>1, <2>1, RootAlong
<1>2. CASE mode = "steps"
  <2>1. ParsePattern
    BY <1>2 DEF Parse, Root, ParseIdent, ParseU32, EndOfIndex, ParseQuoted, ParseUnicodeEscape
  <2>2. QED
    BY <1>2, <2>1, StepsAlong
<1>3. CASE mode \notin {"root", "steps"}
  <2>1. mode # "done"
    BY DEF Parse, Root, ParsePattern, ParseIdent, ParseU32, EndOfIndex, ParseQuoted, ParseUnicodeEscape
  <2>2. PICK l : l = Len(steps)
    OBVIOUS
  <2>3. /\ P \in Seq(Steps) /\ text = Display(P) /\ Starts(steps, P, Steps)
        /\ l # Len(P) /\ Inside(P[l + 1], BodyAt(P, l + 1))
    BY <1>3, <2>1, <2>2 DEF Along
  <2>4. l + 1 \in 1 .. Len(P)
    BY <2>2, <2>3, StartsLength
  <2>5. Standing(P[l + 1], BodyAt(P, l + 1))
    BY <2>3, <2>4, StandsAt
  <2>6. Moves(P[l + 1], BodyAt(P, l + 1))
    BY <2>3, <2>5, InsideMoves
  <2>7. QED
    BY <2>2, <2>3, <2>6, MovesAlong
<1>4. QED
  BY <1>1, <1>2, <1>3

\* Wherever the parser stands, no byte there continues a character.
LEMMA QuotedPeek ==
  ASSUME NEW nm \in Seq(Char), NEW b, Standing(Field(nm), b), InQuoted(nm, b)
  PROVE  Peek \notin Cont
<1>1. CASE Len(name) = Len(nm)
  BY <1>1, QuotedStands, EndsOfLoops DEF AtQuoted
<1>2. CASE Len(name) # Len(nm)
  <2>1. PICK c : c = nm[Len(name) + 1]
    OBVIOUS
  <2>2. CharRead(c, pos) /\ c \in Char /\ Peek = ByteAt(pos)
    BY <1>2, <2>1, QuotedStands DEF AtQuoted, Peek
  <2>3. CASE c \in Escaped \/ ByNumber(c)
    <3>1. Peek = Backslash
      BY <2>2, <2>3, Zenon DEF CharRead
    <3>2. QED
      BY <3>1 DEF Backslash, Cont
  <2>4. CASE c \notin Escaped /\ ~(c < 32) /\ c < 128
    BY <2>2, <2>4, CharBytes DEF CharRead
  <2>5. CASE c \notin Escaped /\ ~(c < 32) /\ ~(c < 128)
    <3>1. Peek = 192 + c \div 64
      BY <2>2, <2>5, Zenon DEF CharRead
    <3>2. c >= 128
      BY <2>2, <2>5 DEF Char
    <3>3. 192 + c \div 64 \in 192 .. 255
      BY <2>2, <3>2, Surrogates
    <3>4. QED
      BY <3>1, <3>3, CharBytes, Zenon
  <2>6. QED
    BY <2>3, <2>4, <2>5 DEF ByNumber
<1>3. QED
  BY <1>1, <1>2

LEMMA InsidePeek ==
  ASSUME NEW s, NEW b, Standing(s, b), Inside(s, b)
  PROVE  Peek \notin Cont /\ mode \notin {"panicked", "root", "steps", "done"}
<1>1. ASSUME NEW nm \in Seq(Char), s = Field(nm), InEscape(nm, b) PROVE Peek \notin Cont
  <2>1. \E l, d : AtEscape(nm, b, l, d)
    BY <1>1, EscapeStands
  <2>2. QED
    BY <2>1, EndsOfLoops DEF AtEscape
<1>2. Peek \notin Cont
  BY <1>1, PeekIdent, PeekNumber, PeekBracket, QuotedPeek DEF Inside
<1>3. QED
  BY <1>2 DEF Inside, InIdent, InNumber, InBracket, InQuoted, InEscape

LEMMA AlongPeek ==
  ASSUME NEW P, Along(P)
  PROVE  NeverSplits /\ (mode = "done" => result = Ok(P))
<1>1. P \in Seq(Steps) /\ text = Display(P)
  BY DEF Along
<1>2. text \in Seq(Byte) /\ Len(text) >= 1 /\ text[1] = Dot
  BY <1>1, PatternIsLaid DEF PatternLaid
<1>3. Peek = ByteAt(pos) /\ Len(text) \in Nat
  BY <1>2, LenProperties DEF Peek
<1>4. CASE mode = "root" /\ pos = 0
  BY <1>2, <1>3, <1>4, EndsOfLoops DEF ByteAt, NeverSplits
<1>5. CASE mode = "done" /\ result = Ok(P) /\ pos = Len(text)
  BY <1>2, <1>3, <1>5, EndsOfLoops DEF ByteAt, NeverSplits
<1>6. CASE Starts(steps, P, Steps) /\ mode = "steps" /\ pos = PlaceOf(P, Len(steps) + 1)
  <2>1. CASE Len(steps) = Len(P)
    BY <1>1, <1>3, <1>6, <2>1, Ending, EndsOfLoops DEF NeverSplits
  <2>2. CASE Len(steps) # Len(P)
    <3>1. PICK i : i = Len(steps) + 1
      OBVIOUS
    <3>2. i \in 1 .. Len(P) /\ pos = PlaceOf(P, i)
      BY <1>6, <2>2, <3>1, StartsLength
    <3>3. Between(P, i) /\ Standing(P[i], BodyAt(P, i))
      BY <1>1, <3>2, BetweenSteps, StandsAt
    <3>4. IsField(P[i]) \/ P[i] = AnyField => ByteAt(BodyAt(P, i)) \in Letter \cup {Quote, Star}
      BY <3>3, FirstBytes DEF IsField
    <3>5. ByteAt(pos) \in Letter \cup {Quote, Star, Dot, OpenBracket}
      BY <3>2, <3>3, <3>4, KindsOfSteps DEF Between
    <3>6. ByteAt(pos) \notin Cont
      BY <3>5, EndsOfLoops
    <3>7. QED
      BY <1>6, <3>6 DEF NeverSplits
  <2>3. QED
    BY <2>1, <2>2
<1>7. CASE /\ Starts(steps, P, Steps) /\ Len(steps) # Len(P)
           /\ Inside(P[Len(steps) + 1], BodyAt(P, Len(steps) + 1))
  <2>1. PICK i : i = Len(steps) + 1
    OBVIOUS
  <2>2. i \in 1 .. Len(P) /\ Inside(P[i], BodyAt(P, i))
    BY <1>7, <2>1, StartsLength
  <2>3. Standing(P[i], BodyAt(P, i))
    BY <1>1, <2>2, StandsAt
  <2>4. QED
    BY <1>3, <2>2, <2>3, InsidePeek DEF NeverSplits
<1>8. QED
  BY <1>4, <1>5, <1>6, <1>7 DEF Along

\* The first parse is of any text, the second of what Display wrote.
TripInv ==
  \/ printed = <<>> /\ IndInv /\ Shaped
  \/ \E P \in Seq(Steps) : printed = <<P>> /\ Along(P)

LEMMA FieldBodyKeeps == ASSUME NEW p, FieldBody(p) PROVE printed' = printed
<1>1. CASE ByteAt(p) = Star
  BY <1>1 DEF FieldBody, PushStep, Star, Quote, Letter
<1>2. CASE ByteAt(p) = Quote
  BY <1>2 DEF FieldBody, Enter, Star, Quote, Letter
<1>3. CASE ByteAt(p) \notin {Star, Quote}
  BY <1>3 DEF FieldBody, Enter, Unexpected, ParseFails
<1>4. QED
  BY <1>1, <1>2, <1>3

LEMMA IndexBodyKeeps == ASSUME NEW p, IndexBody(p) PROVE printed' = printed
BY DEF IndexBody, Enter, Unexpected, ParseFails

LEMMA ParsePatternKeeps == ASSUME ParsePattern PROVE printed' = printed
<1>1. CASE Peek = End
  BY <1>1 DEF ParsePattern, End, Dot, OpenBracket, Letter, Quote, Star
<1>2. CASE Peek # End
  <2>1. \/ Unexpected(pos) \/ FieldBody(pos + 1) \/ IndexBody(pos + 1) \/ FieldBody(pos)
    BY <1>2, Zenon DEF ParsePattern
  <2>2. QED
    BY <2>1, FieldBodyKeeps, IndexBodyKeeps DEF Unexpected, ParseFails
<1>3. QED
  BY <1>1, <1>2

LEMMA ParseEscapeKeeps == ASSUME NEW c, ParseEscape(c) PROVE printed' = printed
<1>1. CASE c \in DOMAIN Unescaped
  BY <1>1, EscapesAreLetters DEF ParseEscape, PushChar, End
<1>2. CASE c \notin DOMAIN Unescaped
  BY <1>2 DEF ParseEscape, ParseFails, End
<1>3. QED
  BY <1>1, <1>2

LEMMA ParseQuotedKeeps == ASSUME ParseQuoted PROVE printed' = printed
<1>1. CASE Peek \in {End, Quote}
  BY <1>1 DEF ParseQuoted, ParseFails, PushStep, End, Quote, Backslash
<1>2. CASE Peek = Backslash
  BY <1>2, ParseEscapeKeeps DEF ParseQuoted, End, Quote, Backslash
<1>3. CASE Peek \notin {End, Quote, Backslash}
  BY <1>3 DEF ParseQuoted, RawChar, PushChar
<1>4. QED
  BY <1>1, <1>2, <1>3

LEMMA ParseUnicodeEscapeKeeps == ASSUME ParseUnicodeEscape PROVE printed' = printed
BY DEF ParseUnicodeEscape, Take, ParseFails, PushChar

LEMMA ParseKeeps == ASSUME Parse PROVE printed' = printed
<1>1. CASE Root
  BY <1>1 DEF Root, Enter, ParseFails
<1>2. CASE ParseIdent
  BY <1>2 DEF ParseIdent, Take, PushStep
<1>3. CASE ParseU32
  BY <1>3 DEF ParseU32, Take, ParseFails
<1>4. CASE EndOfIndex
  BY <1>4 DEF EndOfIndex, Unexpected, ParseFails, PushStep
<1>5. QED
  BY <1>1, <1>2, <1>3, <1>4, ParsePatternKeeps, ParseQuotedKeeps, ParseUnicodeEscapeKeeps DEF Parse

LEMMA ReprintTrips == ASSUME TripInv, Reprint PROVE TripInv'
<1>1. printed = <<>> /\ mode = "done" /\ result.ok
  BY DEF Reprint
<1>2. Shaped
  BY <1>1 DEF TripInv
<1>3. result = Ok(steps) /\ steps \in Seq(Steps)
  BY <1>1, <1>2 DEF Shaped
<1>4. PICK P : P = steps
  OBVIOUS
<1>5. result.pattern = P /\ P \in Seq(Steps)
  BY <1>3, <1>4 DEF Ok
<1>6. printed' = <<P>> /\ text' = Display(P) /\ pos' = 0 /\ mode' = "root" /\ steps' = <<>>
  BY <1>5 DEF Reprint
<1>7. Along(P)'
  BY <1>5, <1>6 DEF Along
<1>8. QED
  BY <1>5, <1>6, <1>7 DEF TripInv

LEMMA ParseTrips == ASSUME TripInv, Parse PROVE TripInv'
<1>1. printed' = printed
  BY ParseKeeps
<1>2. CASE printed = <<>> /\ IndInv /\ Shaped
  <2>1. IndInv' /\ Shaped'
    BY <1>2, ParsePreserves, ParseShapes
  <2>2. QED
    BY <1>1, <1>2, <2>1 DEF TripInv
<1>3. CASE \E P \in Seq(Steps) : printed = <<P>> /\ Along(P)
  <2>1. PICK P \in Seq(Steps) : printed = <<P>> /\ Along(P)
    BY <1>3
  <2>2. Along(P)'
    BY <2>1, ParseAlong
  <2>3. QED
    BY <1>1, <2>1, <2>2 DEF TripInv
<1>4. QED
  BY <1>2, <1>3 DEF TripInv

LEMMA StutterTrips == ASSUME TripInv, UNCHANGED vars PROVE TripInv'
<1>1. /\ text' = text /\ pos' = pos /\ mode' = mode /\ steps' = steps /\ token' = token
      /\ name' = name /\ step' = step /\ result' = result /\ printed' = printed
  BY DEF vars
<1>2. IndInv' = IndInv /\ Shaped' = Shaped
  BY <1>1 DEF IndInv, AtChar, ByteAt, Shaped
<1>3. ASSUME NEW P, Along(P) PROVE Along(P)'
  <2>1. ASSUME NEW s, NEW b PROVE Inside(s, b) => Inside(s, b)'
    BY <1>1, Zenon DEF Inside, InIdent, InNumber, InBracket, InQuoted, InEscape, Escaping
  <2>2. QED
    BY <1>1, <1>3, <2>1, Zenon DEF Along
<1>4. QED
  BY <1>1, <1>2, <1>3 DEF TripInv

LEMMA TripHolds == ASSUME TripInv PROVE RoundTrip /\ NeverSplits
<1>1. CASE printed = <<>> /\ IndInv /\ Shaped
  BY <1>1 DEF RoundTrip, NeverSplits, IndInv, AtChar
<1>2. CASE \E P \in Seq(Steps) : printed = <<P>> /\ Along(P)
  <2>1. PICK P \in Seq(Steps) : printed = <<P>> /\ Along(P)
    BY <1>2
  <2>2. printed[1] = P
    BY <2>1
  <2>3. NeverSplits /\ (mode = "done" => result = Ok(P))
    BY <2>1, AlongPeek
  <2>4. QED
    BY <2>2, <2>3 DEF RoundTrip
<1>3. QED
  BY <1>1, <1>2 DEF TripInv

LEMMA TripInit == ASSUME Init PROVE TripInv
<1>1. IndInv /\ Shaped
  BY InitIndInv, InitShapes
<1>2. printed = <<>>
  BY DEF Init
<1>3. QED
  BY <1>1, <1>2 DEF TripInv

\* Both parses stay on their way, whichever text is read first.
THEOREM TripInvariant == Spec => []TripInv
<1>1. TripInv /\ [Next]_vars => TripInv'
  BY ParseTrips, ReprintTrips, StutterTrips DEF Next
<1>2. QED
  BY <1>1, TripInit, PTL DEF Spec

\* Every pattern that is read from any text is written so that it is read the
\* same, whichever names and indexes it has (Display and Parser, path.rs).
THEOREM RoundTripHolds == Spec => []RoundTrip
BY TripInvariant, TripHolds, PTL

\* On no text, nor on what is written of one, does the parser stand inside a
\* character, whichever numbers and characters it accepts: the decoding of the
\* rest of a quoted name never panics (Parser, path.rs).
THEOREM NeverSplitsHolds == Spec => []NeverSplits
BY TripInvariant, TripHolds, PTL

\* The judge of times leaves the parser to its work: the two theorems above
\* are of the judge's parser as well.
THEOREM JudgeParses == JudgeSpec => Spec
<1>1. JudgeInit => Init
  BY DEF JudgeInit
<1>2. [JudgeNext]_pathTimeVars => [Next]_vars
  BY DEF JudgeNext, ParsePath, Judge, pathTimeVars
<1>3. QED
  BY <1>1, <1>2, PTL DEF JudgeSpec, Spec
=============================================================================
