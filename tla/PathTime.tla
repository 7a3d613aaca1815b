------------------------------ MODULE PathTime ------------------------------
(***************************************************************************)
(* An operator's path to the time of a record: it is parsed (PathPattern), *)
(* and then records are judged by the time found there (TimeField), each   *)
(* by itself, so that a behavior judges one.                               *)
(***************************************************************************)
EXTENDS PathPattern, TimeField

CONSTANTS
  TimePath,     \* the patterns with which records are judged
  Record,       \* the records considered
  Interpreter,  \* the interpreters considered
  Window        \* the windows considered

ASSUME JudgedAssumption ==
  /\ \A record \in Record, path \in TimePath :
       LET found == Navigate(record, path)
       IN /\ found # None /\ found.is = "integer" => found.value \in Int
          /\ found # None /\ found.is = "string" => found.value \in Seq(Nat)
  /\ \A interpreter \in Interpreter :
       interpreter.reads = "StringTimestamp" =>
         LET policy == interpreter.policy
         IN \/ policy \in {Refuse, Local}
            \/ policy.zone = "offset" /\ policy.nanos \in Int
  /\ Window \subseteq [start : Int \cup {None}, end : Int \cup {None}]

VARIABLE judged  \* <<>> or a record, how it was judged and its time

pathTimeVars == <<vars, judged>>

JudgeInit == Init /\ judged = <<>>

ParsePath == Next /\ UNCHANGED judged

\* A wildcard is refused (WildcardInPath).
Judge ==
  /\ judged = <<>>
  /\ mode = "done" /\ result.ok /\ printed # <<>>
  /\ IsPath(result.pattern) /\ result.pattern \in TimePath
  /\ \E record \in Record, interpreter \in Interpreter, window \in Window :
       LET time == TimeOf(record, result.pattern, interpreter)
       IN judged' = <<[record |-> record, interpreter |-> interpreter, window |-> window,
                       time |-> time, accepted |-> InTime(window, time)]>>
  /\ UNCHANGED vars

JudgeNext == ParsePath \/ Judge

JudgeSpec == JudgeInit /\ [][JudgeNext]_pathTimeVars /\ WF_pathTimeVars(Parse /\ UNCHANGED judged)

-----------------------------------------------------------------------------
Verdict == judged[1]
Found == Navigate(Verdict.record, result.pattern)
ReadBy(interpreter) == judged # <<>> /\ Verdict.interpreter.reads = interpreter /\ Found # None

\* What dateparser finds in a text, or else in the text without its padding.
Seen(s) ==
  IF s \in DOMAIN Dateparser THEN Dateparser[s]
  ELSE IF Trim(s) \in DOMAIN Dateparser THEN Dateparser[Trim(s)]
  ELSE [reading |-> None, offset |-> None]

Readings(s) ==
  ({Seen(s).reading} \ {None}) \cup {NaiveFormats[t] : t \in {Trim(s)} \cap DOMAIN NaiveFormats}

\* The zone a text names, whether has_explicit_zone sees it or not; or else
\* the one of the policy.  What ends like a zone and names none goes to
\* dateparser, and so to the zone of the host.
ZonesAllowed(s, policy) ==
  IF Seen(s).offset # None THEN {Seen(s).offset}
  ELSE IF HasExplicitZone(s) \/ policy.zone = "local" THEN {HostOffset}
  ELSE IF policy.zone = "offset" THEN {policy.nanos}
  ELSE {}

\* The texts that have to be read: dateparser reads those that end like a zone,
\* and the formats those without one under a policy that gives one.
Readable(s, policy) ==
  \/ /\ s \in DOMAIN Dateparser /\ InRange(Dateparser[s].reading - ZoneOf(s))
     /\ HasExplicitZone(s) \/ policy.zone = "local"
  \/ /\ Trim(s) \in DOMAIN NaiveFormats /\ ~HasExplicitZone(s) /\ policy.zone = "offset"
     /\ -Day < policy.nanos /\ policy.nanos < Day
     /\ InRange(NaiveFormats[Trim(s)] - policy.nanos)

\* A text that is read is read in the zone it names, under every policy and
\* also where has_explicit_zone misses that zone (08:08:05-08), and in the zone
\* of the policy only if it names none: no zone is replaced or added to another
\* and Refuse lets none in.  What has to be read is read, before 1970 and up to
\* the limits of the range.
ZonesKept ==
  ReadBy("StringTimestamp") /\ Found.is = "string" =>
    LET policy == Verdict.interpreter.policy
    IN /\ Verdict.time # None =>
            \E zone \in ZonesAllowed(Found.value, policy) :
              Verdict.time + zone \in Readings(Found.value)
       /\ Readable(Found.value, policy) => Verdict.time # None

-----------------------------------------------------------------------------
LexLess(s, t) ==
  \/ Len(s) < Len(t) /\ SubSeq(t, 1, Len(s)) = s
  \/ \E i \in DOMAIN s \cap DOMAIN t :
       s[i] < t[i] /\ \A j \in 1 .. i - 1 : s[j] = t[j]

\* Identifiers as they are printed: upper case, a UUID with its hyphens or none.
IsPrinted(s) ==
  /\ \A i \in DOMAIN s : Upper(s[i]) = s[i] /\ ~IsSpace(s[i])
  /\ \/ \A i \in DOMAIN s : s[i] # Hyphen
     \/ Len(s) # UuidLength /\ {i \in DOMAIN s : s[i] = Hyphen} = UuidHyphens

\* Identifiers made to be sorted by time are read in that order: of two that
\* are printed in one form, the smaller text does not have the later time.
IdsInOrder ==
  (ReadBy("Uuidv7") \/ ReadBy("Ulid")) /\ Verdict.time # None /\ IsPrinted(Found.value) =>
    \A record \in Record :
      LET other == Navigate(record, result.pattern)
          time == TimeOf(record, result.pattern, Verdict.interpreter)
      IN /\ time # None /\ IsPrinted(other.value)
         /\ Len(other.value) = Len(Found.value) /\ LexLess(other.value, Found.value)
         => time <= Verdict.time

\* Windows that meet in a moment share no record and lose none: a record is
\* accepted by the whole window if and only if exactly one of the parts accepts
\* it.
WindowsTile ==
  judged # <<>> =>
    \A w \in Window :
      w.start # None /\ w.start = Verdict.window.end =>
        LET whole == [start |-> Verdict.window.start, end |-> w.end]
            next == InTime(w, Verdict.time)
        IN /\ ~(Verdict.accepted /\ next)
           /\ (w.end = None \/ w.end >= w.start)
              /\ (Verdict.window.start = None \/ Verdict.window.start <= w.start)
              /\ HasPredicate(whole)
              => (InTime(whole, Verdict.time) <=> Verdict.accepted \/ next)
=============================================================================
