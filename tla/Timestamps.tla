----------------------------- MODULE Timestamps -----------------------------
(***************************************************************************)
(* How a value of a record becomes a time (TimeInterpreter, batch.rs) and  *)
(* whether a time is in the window asked for (TimePredicate).  A time is a *)
(* number of nanoseconds since 1970, possibly negative; texts are          *)
(* sequences of bytes.                                                     *)
(*                                                                         *)
(* The layout of identifiers and the widths are constants: a UUID has the  *)
(* groups 8-4-4-4-12, 12 digits of time and the version in the next one, a *)
(* ULID 26 digits, 10 of them time, of which 48 bits may be set.           *)
(***************************************************************************)
EXTENDS Integers, Sequences, SequencesExt

CONSTANTS
  None,         \* the absent Option
  Kilo,         \* 1000
  NanosWidth,   \* 64, the bits of a count of nanoseconds
  UuidGroups,   \* <<8, 4, 4, 4, 12>>
  UuidTime,     \* 12
  UlidLength, UlidTime,  \* 26 and 10
  MillisBits,   \* 48
  Day,          \* the nanoseconds of a day
  Dateparser,   \* external: what dateparser reads, and the zone it finds there or None
  NaiveFormats, \* external: what chrono reads in the formats without a zone
  HostOffset    \* external: the zone of the host

ASSUME LayoutAssumption ==
  /\ Kilo \in Nat \ {0} /\ NanosWidth \in Nat \ {0}
  /\ UuidTime \in Nat /\ UlidLength \in Nat /\ UlidTime \in 0 .. UlidLength
  /\ MillisBits \in Nat
ASSUME ParsersAssumption ==
  /\ None \notin Int /\ HostOffset \in Int /\ Day \in Nat
  /\ \A s \in DOMAIN Dateparser : Dateparser[s] \in [reading : Int, offset : Int \cup {None}]
  /\ \A t \in DOMAIN NaiveFormats : NaiveFormats[t] \in Int

-----------------------------------------------------------------------------
(* Bytes.                                                                  *)
Hyphen == 45
Plus == 43
Colon == 58
IsDigit(b) == b \in 48 .. 57
IsSpace(b) == b \in {9, 10, 12, 13, 32}
Upper(b) == IF b \in 97 .. 122 THEN b - 32 ELSE b
IsAlphabetic(b) == Upper(b) \in 65 .. 90

Trim(s) ==
  LET kept == {i \in DOMAIN s : ~IsSpace(s[i])}
  IN IF kept = {} THEN <<>>
     ELSE SubSeq(s, CHOOSE i \in kept : \A j \in kept : i <= j,
                    CHOOSE i \in kept : \A j \in kept : j <= i)

\* chrono reads a whole text or nothing of it, and the formats have no place
\* for a zone.
ASSUME NaiveAssumption ==
  \A s \in DOMAIN Dateparser : Dateparser[s].offset # None => Trim(s) \notin DOMAIN NaiveFormats

-----------------------------------------------------------------------------
(* Counts of nanoseconds.  None of these is out of range in release builds; *)
(* negating the smallest one wraps, and the cast makes it right again.      *)
TwoTo[w \in Nat] == IF w = 0 THEN 1 ELSE 2 * TwoTo[w - 1]
InRange(n) == -TwoTo[NanosWidth - 1] <= n /\ n < TwoTo[NanosWidth - 1]
Negated(n) == IF n = -TwoTo[NanosWidth - 1] THEN n ELSE -n
AsUnsigned(n) == n % TwoTo[NanosWidth]

FromNanos(n) ==
  IF ~InRange(n) THEN None
  ELSE IF n < 0 THEN -AsUnsigned(Negated(n))
  ELSE n

-----------------------------------------------------------------------------
(* Timestamps that are written out.                                        *)
Abbreviations == {
  <<71, 77, 84>>, <<85, 84, 67>>, <<69, 83, 84>>, <<69, 68, 84>>, <<80, 83, 84>>, <<80, 68, 84>>,
  <<67, 83, 84>>, <<67, 68, 84>>, <<77, 83, 84>>, <<77, 68, 84>>, <<66, 83, 84>>, <<74, 83, 84>>,
  <<73, 83, 84>>, <<67, 69, 84>>, <<67, 69, 83, 84>>}  \* GMT .. CET, CEST

\* The last bytes of t have this form: D a digit, S a sign, : a colon.
EndsLike(t, form) ==
  /\ Len(t) >= Len(form)
  /\ \A i \in DOMAIN form :
       LET b == t[Len(t) - Len(form) + i]
       IN CASE form[i] = "D" -> IsDigit(b)
            [] form[i] = "S" -> b \in {Plus, Hyphen}
            [] form[i] = ":" -> b = Colon

OffsetForms == {<<"S", "D", "D", ":", "D", "D">>, <<"S", "D", "D", "D", "D">>}

\* A text of five digits is an epoch; an abbreviation needs something before
\* it that is no letter.
HasExplicitZone(s) ==
  LET t == Trim(s)
      digits == SelectSeq(t, IsDigit)
      blanks == SelectSeq(t, IsSpace)
  IN /\ t # <<>>
     /\ \/ Len(digits) + Len(blanks) = Len(t) /\ Len(digits) >= 5
        \/ Upper(t[Len(t)]) = 90
        \/ \E form \in OffsetForms : EndsLike(t, form)
        \/ \E tz \in Abbreviations :
             /\ Len(t) > Len(tz)
             /\ \A i \in DOMAIN tz : Upper(t[Len(t) - Len(tz) + i]) = tz[i]
             /\ ~IsAlphabetic(t[Len(t) - Len(tz)])

\* dateparser takes the zone of the host where it finds none in the text.
ZoneOf(s) == IF Dateparser[s].offset = None THEN HostOffset ELSE Dateparser[s].offset
DateparserToSystemTime(s) ==
  IF s \in DOMAIN Dateparser THEN FromNanos(Dateparser[s].reading - ZoneOf(s)) ELSE None

\* Mutant: what follows a timestamp is passed over.
ParseNaivePrefix(s, offset) ==
  LET t == Trim(s)
      ends == {n \in 1 .. Len(t) : SubSeq(t, 1, n) \in DOMAIN NaiveFormats}
      longest == CHOOSE n \in ends : \A m \in ends : m <= n
  IN IF ends # {} /\ -Day < offset /\ offset < Day
     THEN FromNanos(NaiveFormats[SubSeq(t, 1, longest)] - offset)
     ELSE None

\* No zone is a day away from UTC.
ParseNaiveWithOffset(s, offset) ==
  IF Trim(s) \in DOMAIN NaiveFormats /\ -Day < offset /\ offset < Day
  THEN FromNanos(NaiveFormats[Trim(s)] - offset)
  ELSE None

\* The policies: refuse, an offset from UTC, or the zone of the host.
Refuse == [zone |-> "refuse"]
AssumeOffset(nanos) == [zone |-> "offset", nanos |-> nanos]
AssumeUtc == AssumeOffset(0)
Local == [zone |-> "local"]

ParseTimestampStr(s, policy) ==
  IF HasExplicitZone(s) THEN DateparserToSystemTime(s)
  ELSE CASE policy.zone = "refuse" -> None
         [] policy.zone = "offset" -> ParseNaiveWithOffset(s, policy.nanos)
         [] policy.zone = "local" -> DateparserToSystemTime(s)

-----------------------------------------------------------------------------
(* Identifiers that hold a time.                                           *)
HexDigitValue(b) ==
  IF IsDigit(b) THEN b - 48
  ELSE IF Upper(b) \in 65 .. 70 THEN Upper(b) - 55
  ELSE None

\* Crockford's digits: the letters without I, L, O and U.
CrockfordLetters == <<65, 66, 67, 68, 69, 70, 71, 72, 74, 75, 77, 78, 80, 81, 82, 83, 84, 86, 87, 88, 89, 90>>
Crockford(b) ==
  IF IsDigit(b) THEN b - 48
  ELSE IF \E i \in DOMAIN CrockfordLetters : CrockfordLetters[i] = Upper(b)
  THEN 9 + CHOOSE i \in DOMAIN CrockfordLetters : CrockfordLetters[i] = Upper(b)
  ELSE None

Number(values, base) == FoldLeft(LAMBDA n, v : n * base + v, 0, values)
FromMillis(n) == n * Kilo * Kilo

UuidLength == FoldLeft(LAMBDA n, g : n + g, 0, UuidGroups)
UuidHyphens == {i + FoldLeft(LAMBDA n, g : n + g, 0, SubSeq(UuidGroups, 1, i)) : i \in 1 .. Len(UuidGroups) - 1}

\* The bytes of a text that are no hyphens.
Unhyphenated(t) ==
  LET kept[i \in 0 .. Len(t)] ==
        IF i = 0 THEN <<>>
        ELSE IF t[i] = Hyphen THEN kept[i - 1] ELSE Append(kept[i - 1], t[i])
  IN kept[Len(t)]

\* Hyphens are skipped wherever they are and nothing is read past the version.
ParseUuidv7(s) ==
  LET t == Trim(s)
      digits == Unhyphenated(t)
      values == [i \in 1 .. UuidTime + 1 |-> HexDigitValue(digits[i])]
  IN IF /\ Len(t) \in {UuidLength, UuidLength + Len(UuidGroups) - 1}
        /\ Len(t) # UuidLength => \A i \in UuidHyphens : t[i] = Hyphen
        /\ Len(digits) > UuidTime
        /\ \A i \in DOMAIN values : values[i] # None
        /\ values[UuidTime + 1] = 7
     THEN FromMillis(Number(SubSeq(values, 1, UuidTime), 16))
     ELSE None

\* Mutant: the bits that no time has are cut off.
ParseUlidMasked(s) ==
  LET t == Trim(s)
      values == [i \in DOMAIN t |-> Crockford(t[i])]
  IN IF Len(t) = UlidLength /\ \A i \in DOMAIN t : values[i] # None
     THEN FromMillis(Number(SubSeq(values, 1, UlidTime), 32) % TwoTo[MillisBits])
     ELSE None

ParseUlid(s) ==
  LET t == Trim(s)
      values == [i \in DOMAIN t |-> Crockford(t[i])]
      millis == Number(SubSeq(values, 1, UlidTime), 32)
  IN IF Len(t) = UlidLength /\ (\A i \in DOMAIN t : values[i] # None) /\ millis < TwoTo[MillisBits]
     THEN FromMillis(millis)
     ELSE None

-----------------------------------------------------------------------------
(* Interpreters and windows.                                               *)
Unit == [EpochSeconds |-> Kilo * Kilo * Kilo, EpochMillis |-> Kilo * Kilo,
         EpochMicros |-> Kilo, EpochNanos |-> 1]

Int64(n) == [raw |-> "int", value |-> n]
Str(s) == [raw |-> "str", value |-> s]

Interpret(interpreter, raw) ==
  CASE interpreter.reads \in DOMAIN Unit /\ raw.raw = "int" ->
         IF raw.value >= 0 THEN raw.value * Unit[interpreter.reads] ELSE None
    [] interpreter.reads = "StringTimestamp" /\ raw.raw = "str" ->
         ParseTimestampStr(raw.value, interpreter.policy)
    [] interpreter.reads = "Uuidv7" /\ raw.raw = "str" -> ParseUuidv7(raw.value)
    [] interpreter.reads = "Ulid" /\ raw.raw = "str" -> ParseUlid(raw.value)
    [] OTHER -> None

\* Mutant: the end of the window is in it.
WithinEnd(window, t) ==
  /\ window.start # None => window.start <= t
  /\ window.end # None => t <= window.end

Within(window, t) ==
  /\ window.start # None => window.start <= t
  /\ window.end # None => t < window.end
=============================================================================
