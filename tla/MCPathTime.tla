---------------------------- MODULE MCPathTime ----------------------------
(* Every text of up to four bytes after the root over the bytes of the        *)
(* grammar, quoted names with escapes and with characters of two bytes; then  *)
(* records with timestamps and identifiers of a small layout.                 *)
EXTENDS PathTime

A == <<97>>
N == <<110>>
Zero == <<48>>
One == <<49>>
EAcute == <<195, 169>>
Newline == <<10>>
Bell == <<7>>
Plain == {A, N, Zero, One, <<Dot>>, <<Star>>, <<Quote>>, <<Backslash>>, <<OpenBracket>>,
          <<CloseBracket>>, EAcute}
InQuotes == {A, <<117>>, Zero, <<Dot>>, <<Quote>>, <<Backslash>>, <<OpenBrace>>, <<CloseBrace>>,
             EAcute, Newline, Bell}
InBraces == {A, Zero, One, <<OpenBrace>>, <<CloseBrace>>, <<Quote>>}

Joined(parts, n) == {FlattenSeq(s) : s \in UNION {[1 .. k -> parts] : k \in 0 .. n}}

Texts ==
  Joined({<<Dot>>, A, EAcute}, 2) \cup
  {<<Dot>> \o t : t \in Joined(Plain, 4)} \cup
  {<<Dot, Quote>> \o t \o <<Quote>> : t \in Joined(InQuotes, 3)} \cup
  {<<Dot, Quote, Backslash, 117, OpenBrace>> \o t : t \in Joined(InBraces, 4)}

\* .a, .a[0] and ."é"
TimePaths == {<<Field(A)>>, <<Field(A), Index(0)>>, <<Field(<<233>>)>>}

-----------------------------------------------------------------------------
\* 2024-01-15, " 08:08:05", T08:08:05 and .1234; the digits of an epoch.
Date == <<50, 48, 50, 52, 45, 48, 49, 45, 49, 53>>
OfDay == <<48, 56, 58, 48, 56, 58, 48, 53>>
Spaced == Date \o <<32>> \o OfDay
Timed == Date \o <<84>> \o OfDay
Fraction == Timed \o <<46, 49, 50, 51, 52>>
Digits == <<49, 55, 48, 53, 51>>

\* Z, z, +01:00, -0200, EST, and -08, which has_explicit_zone does not know.
Zones == (<<90>> :> 0) @@ (<<122>> :> 0) @@ (<<43, 48, 49, 58, 48, 48>> :> 1) @@
         (<<45, 48, 50, 48, 48>> :> -2) @@ (<<32, 69, 83, 84>> :> -3) @@ (<<45, 48, 56>> :> -5)

\* A date alone is midnight to chrono; dateparser adds the time of day.
Naive == (Date :> -16) @@ (Spaced :> -1) @@ (Timed :> -1) @@ (Fraction :> 15)

Zoned(s, zones, reading) ==
  [t \in {s \o z : z \in zones} |->
     [reading |-> reading, offset |-> Zones[CHOOSE z \in zones : t = s \o z]]]

Dates ==
  (Date :> [reading |-> -14, offset |-> None]) @@ (Spaced :> [reading |-> -1, offset |-> None]) @@
  Zoned(Spaced, DOMAIN Zones, -1) @@
  Zoned(Timed, {<<90>>, <<122>>, <<43, 48, 49, 58, 48, 48>>}, -1) @@
  Zoned(Fraction, {<<90>>, <<43, 48, 49, 58, 48, 48>>}, 15) @@
  Zoned(Date, {<<32, 69, 83, 84>>}, -16) @@
  (Digits :> [reading |-> 3, offset |-> 0])

Written == DOMAIN Naive \cup DOMAIN Dates

-----------------------------------------------------------------------------
\* UUIDs of the groups 2-1-1-1-3 with three digits of time, ULIDs of two
\* digits of time and two others.
Groups == <<2, 1, 1, 1, 3>>
Seven == <<55>>
Four == <<52>>
Ff == <<70>>
IdDigits == {Zero, One, <<57>>, <<65>>}
Uuid(hi, mid, lo, version, hyphen) ==
  hi \o mid \o hyphen \o lo \o hyphen \o version \o hyphen \o Ff \o hyphen \o Ff \o Ff \o Ff
Lenient == {
  A \o Zero \o <<Hyphen>> \o One \o Seven \o <<Hyphen, Hyphen, 120>>,
  Zero \o <<Hyphen>> \o One \o Zero \o Seven \o Ff \o Ff \o Ff,
  A \o One \o One \o Seven \o Ff \o Ff \o Ff}
Ids ==
  {Uuid(hi, mid, lo, Seven, hyphen) :
     hi \in {Zero, One}, mid \in IdDigits, lo \in IdDigits, hyphen \in {<<>>, <<Hyphen>>}} \cup
  {Uuid(A, Zero, lo, version, <<>>) : lo \in {A, One}, version \in {Seven, Four}} \cup Lenient \cup
  {hi \o lo \o Zero \o <<90>> : hi \in {Zero, One, Seven, <<56>>, <<65>>, <<90>>}, lo \in {Zero, <<73>>, <<90>>}}

Under(a) == Object(A :> a)
Records ==
  {Under(Text8(t)) : t \in Written \cup Ids} \cup
  {Under(Text8(<<32>> \o t)) : t \in Written} \cup
  {Under(Array(<<Integer(n)>>)) : n \in {-1, 0, 3, 16}} \cup
  {Under(Text8(Zero)), Under(Array(<<>>)), Under(Other), Object(<<233>> :> Integer(2)), Array(<<Integer(2)>>)}

Interpreters ==
  {[reads |-> u] : u \in DOMAIN Unit} \cup {[reads |-> "Uuidv7"], [reads |-> "Ulid"]} \cup
  {[reads |-> "StringTimestamp", policy |-> p] : p \in {Refuse, AssumeUtc, AssumeOffset(2), AssumeOffset(6), Local}}

Bounds == {None, -1, 3}
Windows == [start : Bounds, end : Bounds]
=============================================================================
