------------------------------- MODULE Batch -------------------------------
(***************************************************************************)
(* A batch run: analyze (shapez/src/batch.rs) drives a directory of JSONL  *)
(* files (FilesystemDir and JsonlDecoder, shapez-json/src/batch.rs) into a *)
(* fresh analyzer and polls StreamingAnalyzer::should_bail.                *)
(*                                                                         *)
(* The analyzer is reduced to what should_bail reads.  A document may      *)
(* evict any number of clusters up to MaxBurst (module Ingest has the      *)
(* evictions themselves).  A source is a sequence of files in the sorted   *)
(* order of their paths, a file the sequence of its lines.                 *)
(***************************************************************************)
EXTENDS Naturals, Sequences

CONSTANTS
  Source,   \* the directories considered: sequences of files
  Policy,   \* the policies considered
  None,     \* the absent Option
  MaxBurst  \* bound of the model: evictions of one document

ASSUME NoneAssumption == None \notin Nat \cup {"doc count cap reached", "eviction rate"}
ASSUME BurstAssumption == MaxBurst \in Nat

\* What a line holds.  A record has a time as the extractor reads it, and the
\* `at` path resolves in it or not.
Blank == [content |-> "blank"]
Fault == [content |-> "fault"]   \* not JSON, or the read fails
Record(time, resolves) == [content |-> "record", time |-> time, resolves |-> resolves]
Line == {Blank, Fault} \cup
        {Record(t, r) : t \in {"inside", "outside", "none"}, r \in BOOLEAN}

\* A file: whether the path filter lets it pass, whether its modification time
\* is inside the window, whether it can be opened, and its lines.
File == [passes : BOOLEAN, mtimeInside : BOOLEAN, opens : BOOLEAN, lines : Seq(Line)]

\* max_docs, min_docs_before_bail, max_eviction_rate as a fraction.
Rate == [num : Nat, den : Nat \ {0}]
Policies == [maxDocs : Nat \cup {None}, minDocs : Nat, maxRate : Rate \cup {None}]

ASSUME InputAssumption == Source \subseteq Seq(File) /\ Policy \subseteq Policies

VARIABLES
  source, policy,
  hasPredicate, hasExtractor,  \* .within(...) and .with_time_extractor(...) were given
  phase,                       \* where drive is
  file, line,                  \* the next file and line
  ordinal,                     \* documents driven, as drive counts them
  docCount, evictions,         \* the analyzer's counters
  outcome,                     \* the AnalysisOutcome, once there is one
  driven                       \* history: the places of the documents driven

config == <<source, policy, hasPredicate, hasExtractor>>
analyzer == <<docCount, evictions>>
vars == <<config, phase, file, line, ordinal, analyzer, outcome, driven>>

-----------------------------------------------------------------------------
CapReached(docs) == policy.maxDocs # None /\ docs >= policy.maxDocs
TooChaotic(docs, evicted) ==
  /\ docs >= policy.minDocs
  /\ policy.maxRate # None
  /\ evicted * policy.maxRate.den > policy.maxRate.num * docs

ShouldBail(docs, evicted) ==
  IF CapReached(docs) THEN "doc count cap reached"
  ELSE IF TooChaotic(docs, evicted) THEN "eviction rate"
  ELSE None

Bails == ShouldBail(docCount, evictions) # None

Selected(f) == f.passes /\ (hasPredicate /\ ~hasExtractor => f.mtimeInside)

\* The record is in time (judged by its own timestamp only if there is both an
\* extractor and a predicate) and has the subtree that is analyzed.
Accepted(record) ==
  /\ hasExtractor /\ hasPredicate => record.time = "inside"
  /\ record.resolves

CurrentFile == source[file]
CurrentLine == CurrentFile.lines[line]

Init ==
  /\ source \in Source
  /\ policy \in Policy
  /\ hasPredicate \in BOOLEAN
  /\ hasExtractor \in BOOLEAN
  /\ phase = "walk"
  /\ file = 1 /\ line = 1
  /\ ordinal = 0 /\ docCount = 0 /\ evictions = 0
  /\ outcome = None
  /\ driven = <<>>

\* The run ends with an Err; the analyzer is dropped with all it has counted.
Fail == phase' = "failed"

\* The root is walked and its files sorted, or cannot be walked.
Walk ==
  /\ phase = "walk"
  /\ phase' = "files" \/ Fail
  /\ UNCHANGED <<config, file, line, ordinal, analyzer, outcome, driven>>

\* Mutant: a file that is skipped is looked at again.
SkipFileAgain ==
  /\ phase = "files"
  /\ file <= Len(source)
  /\ ~Selected(CurrentFile)
  /\ UNCHANGED vars

SkipFile ==
  /\ phase = "files"
  /\ file <= Len(source)
  /\ ~Selected(CurrentFile)
  /\ file' = file + 1
  /\ UNCHANGED <<config, phase, line, ordinal, analyzer, outcome, driven>>

OpenFile ==
  /\ phase = "files"
  /\ file <= Len(source)
  /\ Selected(CurrentFile)
  /\ IF CurrentFile.opens THEN phase' = "decode" ELSE Fail
  /\ UNCHANGED <<config, file, line, ordinal, analyzer, outcome, driven>>

\* A line that drives nothing: a blank one, or a record the callback rejects.
SkipLine ==
  /\ phase = "decode"
  /\ line <= Len(CurrentFile.lines)
  /\ \/ CurrentLine.content = "blank"
     \/ CurrentLine.content = "record" /\ ~Accepted(CurrentLine)
  /\ line' = line + 1
  /\ UNCHANGED <<config, phase, file, ordinal, analyzer, outcome, driven>>

\* Mutant: a line that does not parse ends its file only.
DecodeStops ==
  /\ phase = "decode"
  /\ line <= Len(CurrentFile.lines)
  /\ CurrentLine.content = "fault"
  /\ phase' = "poll"
  /\ UNCHANGED <<config, file, line, ordinal, analyzer, outcome, driven>>

\* One line that does not parse ends the whole run.
DecodeFails ==
  /\ phase = "decode"
  /\ line <= Len(CurrentFile.lines)
  /\ CurrentLine.content = "fault"
  /\ Fail
  /\ UNCHANGED <<config, file, line, ordinal, analyzer, outcome, driven>>

DriveRecord(burst) ==
  /\ phase = "decode"
  /\ line <= Len(CurrentFile.lines)
  /\ CurrentLine.content = "record"
  /\ Accepted(CurrentLine)
  /\ docCount' = docCount + 1
  /\ evictions' = evictions + burst
  /\ ordinal' = ordinal + 1
  /\ line' = line + 1
  /\ phase' = IF ShouldBail(docCount', evictions') # None THEN "poll" ELSE "decode"
  /\ driven' = Append(driven, <<file, line>>)
  /\ UNCHANGED <<config, file, outcome>>

EndOfFile ==
  /\ phase = "decode"
  /\ line > Len(CurrentFile.lines)
  /\ phase' = "poll"
  /\ UNCHANGED <<config, file, line, ordinal, analyzer, outcome, driven>>

\* Mutants: lines not counted from 1 again in the next file; no poll between
\* files.
PollKeepingLine ==
  /\ phase = "poll"
  /\ IF Bails
     THEN phase' = "report" /\ UNCHANGED <<file, line>>
     ELSE phase' = "files" /\ file' = file + 1 /\ line' = line
  /\ UNCHANGED <<config, ordinal, analyzer, outcome, driven>>

PollWithoutAsking ==
  /\ phase = "poll"
  /\ phase' = "files" /\ file' = file + 1 /\ line' = 1
  /\ UNCHANGED <<config, ordinal, analyzer, outcome, driven>>

\* should_bail is asked again between files.
Poll ==
  /\ phase = "poll"
  /\ IF Bails
     THEN phase' = "report" /\ UNCHANGED <<file, line>>
     ELSE phase' = "files" /\ file' = file + 1 /\ line' = 1
  /\ UNCHANGED <<config, ordinal, analyzer, outcome, driven>>

EndOfFiles ==
  /\ phase = "files"
  /\ file > Len(source)
  /\ phase' = "report"
  /\ UNCHANGED <<config, file, line, ordinal, analyzer, outcome, driven>>

\* analyze asks should_bail once more, for the outcome.
Report ==
  /\ phase = "report"
  /\ outcome' = [docs |-> ordinal, bailed |-> ShouldBail(docCount, evictions)]
  /\ phase' = "done"
  /\ UNCHANGED <<config, file, line, ordinal, analyzer, driven>>

Next ==
  \/ Walk \/ SkipFile \/ OpenFile
  \/ SkipLine \/ DecodeFails
  \/ \E burst \in 0 .. MaxBurst : DriveRecord(burst)
  \/ EndOfFile \/ Poll \/ EndOfFiles \/ Report

Spec == Init /\ [][Next]_vars
FairSpec == Spec /\ WF_vars(Next)

-----------------------------------------------------------------------------
Place == UNION {{<<f, l>> : l \in DOMAIN source[f].lines} : f \in DOMAIN source}
LineAt(p) == source[p[1]].lines[p[2]]
Precedes(p, q) == p[1] < q[1] \/ (p[1] = q[1] /\ p[2] < q[2])
Cursor == <<file, line>>

\* The documents of the source: the accepted records of the selected files.
Wanted(p) ==
  /\ Selected(source[p[1]])
  /\ LineAt(p).content = "record"
  /\ Accepted(LineAt(p))

Succeeded == phase = "done"
Bailed == Succeeded /\ outcome.bailed # None

TypeOK ==
  /\ source \in Source /\ policy \in Policy
  /\ hasPredicate \in BOOLEAN /\ hasExtractor \in BOOLEAN
  /\ phase \in {"walk", "files", "decode", "poll", "report", "done", "failed"}
  /\ file \in Nat \ {0} /\ line \in Nat \ {0}
  /\ ordinal \in Nat /\ docCount \in Nat /\ evictions \in Nat
  /\ outcome \in {None} \cup
       [docs : Nat, bailed : {None, "doc count cap reached", "eviction rate"}]
  /\ driven \in Seq((Nat \ {0}) \X (Nat \ {0}))

\* The documents driven are, in order and each once, exactly the wanted
\* records that come before the place where the run stands or has stopped:
\* skipping, breaking off and polling twice lose and repeat nothing, and the
\* count that drive returns, the analyzer's and the ordinals agree.
DrivenInOrder ==
  /\ ordinal = docCount /\ docCount = Len(driven)
  /\ {driven[i] : i \in DOMAIN driven} = {p \in Place : Wanted(p) /\ Precedes(p, Cursor)}
  /\ \A i, j \in DOMAIN driven : i < j => Precedes(driven[i], driven[j])

\* The first poll that says stop is obeyed: no document follows it, not from
\* the same file and not from a later one.
NothingAfterBail ==
  [][docCount' # docCount => docCount = 0 \/ ~Bails]_vars

\* A run that returns an outcome without a reason has driven every document of
\* the source and met no fault.
CompleteUnlessBailed ==
  Succeeded /\ outcome.bailed = None =>
    /\ \A p \in Place : Wanted(p) => \E i \in DOMAIN driven : driven[i] = p
    /\ \A f \in DOMAIN source : Selected(source[f]) => source[f].opens
    /\ \A p \in Place : Selected(source[p[1]]) => LineAt(p).content # "fault"

\* Every run over a source ends: no mix of skipped files, skipped lines, faults
\* and polls leaves the loop going round.
Finishes == <>(phase \in {"done", "failed"})

\* AnalysisOutcome: bailed is "Some(reason) if the analyzer bailed out before
\* the source was exhausted", None for a normal completion.
BailedBeforeExhausted ==
  Bailed => \E p \in Place : Wanted(p) /\ \A i \in DOMAIN driven : driven[i] # p
=============================================================================
