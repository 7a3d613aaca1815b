---------------------------- MODULE SniffStream ----------------------------
(***************************************************************************)
(* The streaming sniffer (shapez-sniff/stream.rs, SniffStream): the head   *)
(* of the stream is buffered until the encoding can be decided             *)
(* (alphabet.rs, decide); from then on every chunk is normalized           *)
(* (alphabet.rs, Folder) and fed to the admission policy.                  *)
(*                                                                         *)
(* Of decide the parts that fix how bytes are folded are kept: the byte    *)
(* order mark and the parity of NUL bytes.  UTF-8, Latin-1 and binary      *)
(* input are all taken as it is, the encoding "bytes" here.                *)
(***************************************************************************)
EXTENDS Admission, SequencesExt

CONSTANTS
  Inputs,      \* the raw streams considered
  MaxInput,    \* bound of the model: the length of the longest
  HeadTarget   \* HEAD_TARGET, the bytes buffered before the decision

ASSUME InputsAssumption ==
  /\ MaxInput \in Nat
  /\ Inputs \subseteq Seq(0 .. 255) /\ \A raw \in Inputs : Len(raw) <= MaxInput
ASSUME HeadTargetAssumption == HeadTarget \in Nat /\ HeadTarget >= 4

VARIABLES
  input,      \* the raw stream
  consumed,   \* raw bytes pushed
  stats,      \* RawStats
  head,       \* the buffered head
  folder,     \* the Folder; its encoding is "undecided" before there is one
  todo,       \* raw bytes that ingest is still to be called with
  finished,   \* the stream has ended and is to be scored
  normalized  \* history: the units fed to the admission policy

sniffVars == <<input, consumed, stats, head, folder, todo, finished, normalized>>
allVars == <<admissionVars, sniffVars>>

-----------------------------------------------------------------------------
(* Raw statistics: the length, the NUL bytes, those at an odd offset.        *)
NoStats == [len |-> 0, nuls |-> 0, oddNuls |-> 0]

PushStats(st, bytes) ==
  LET nuls == {i \in DOMAIN bytes : bytes[i] = 0}
  IN [len     |-> st.len + Len(bytes),
      nuls    |-> st.nuls + Cardinality(nuls),
      oddNuls |-> st.oddNuls + Cardinality({i \in nuls : (st.len + i - 1) % 2 = 1})]

(* The encoding.                                                             *)
Boms == <<
  [marker |-> <<255, 254, 0, 0>>, encoding |-> "utf32le"],
  [marker |-> <<0, 0, 254, 255>>, encoding |-> "utf32be"],
  [marker |-> <<239, 187, 191>>,  encoding |-> "bytes"],
  [marker |-> <<255, 254>>,       encoding |-> "utf16le"],
  [marker |-> <<254, 255>>,       encoding |-> "utf16be"]>>

Marked(hd) == {i \in DOMAIN Boms : IsPrefix(Boms[i].marker, hd)}
Bom(hd) == Boms[CHOOSE i \in Marked(hd) : \A j \in Marked(hd) : i <= j]

\* More than a fifth of the bytes are NUL, and they favour one parity.
NulsBiased(st) ==
  /\ 5 * st.nuls > st.len
  /\ \/ 200 * st.oddNuls > 185 * st.nuls
     \/ 200 * st.oddNuls < 15 * st.nuls

Encoding(st, hd) ==
  IF Marked(hd) # {} THEN Bom(hd).encoding
  ELSE IF ~NulsBiased(st) THEN "bytes"
  ELSE IF 2 * st.oddNuls > st.nuls THEN "utf16le" ELSE "utf16be"

BomLen(hd) == IF Marked(hd) = {} THEN 0 ELSE Len(Bom(hd).marker)

(* Folding: a code unit of some width becomes its ASCII byte.                *)
Width(encoding) ==
  CASE encoding \in {"utf16le", "utf16be"} -> 2
    [] encoding \in {"utf32le", "utf32be"} -> 4
    [] OTHER -> 1
AsciiByte(encoding) ==
  CASE encoding = "utf16be" -> 2
    [] encoding = "utf32be" -> 4
    [] OTHER -> 1

Placeholder == 26

FoldUnit(unit, lo) ==
  IF unit[lo] < 128 /\ \A i \in DOMAIN unit \ {lo} : unit[i] = 0
  THEN unit[lo] ELSE Placeholder

\* The whole code units of some bytes, folded.
Fold(encoding, bytes) ==
  LET w == Width(encoding)
  IN IF encoding = "bytes" THEN bytes
     ELSE [u \in 1 .. Len(bytes) \div w |->
             FoldUnit(SubSeq(bytes, (u - 1) * w + 1, u * w), AsciiByte(encoding))]

Drop(s, n) == SubSeq(s, n + 1, Len(s))

NewFolder(encoding, bomLen) == [encoding |-> encoding, bomLeft |-> bomLen, carry |-> <<>>]

\* Mutant: what does not fill a code unit is forgotten.
FolderPushForgetting(f, bytes) ==
  LET n == Least(f.bomLeft, Len(bytes))
      rest == Drop(bytes, n)
      whole == Len(rest) - (Len(rest) % Width(f.encoding))
  IN [out    |-> Fold(f.encoding, SubSeq(rest, 1, whole)),
      folder |-> [f EXCEPT !.bomLeft = @ - n, !.carry = Drop(rest, whole)]]

\* Folder::push: what comes out, and the folder after it.  The carry is the
\* part of a code unit that earlier chunks ended with.
FolderPush(f, bytes) ==
  LET n == Least(f.bomLeft, Len(bytes))
      rest == f.carry \o Drop(bytes, n)
      whole == Len(rest) - (Len(rest) % Width(f.encoding))
  IN [out    |-> Fold(f.encoding, SubSeq(rest, 1, whole)),
      folder |-> [f EXCEPT !.bomLeft = @ - n, !.carry = Drop(rest, whole)]]

-----------------------------------------------------------------------------
Decided == folder.encoding # "undecided"
Idle == ~busy /\ todo = <<>>

SniffInit ==
  /\ AdmissionInit
  /\ input \in Inputs
  /\ consumed = 0
  /\ stats = NoStats
  /\ head = <<>>
  /\ folder = NewFolder("undecided", 0)
  /\ todo = <<>>
  /\ finished = FALSE
  /\ normalized = <<>>

\* How much of a chunk goes to the head.
Taken(n) == Least(HeadTarget - Len(head), n)

\* push: a chunk of n bytes.  The chunk that completes the head decides the
\* encoding; the head and what is left of the chunk are then ingested.
SniffPush(n) ==
  /\ Idle /\ ~finished
  /\ consumed + n <= Len(input)
  /\ consumed' = consumed + n
  /\ LET bytes == SubSeq(input, consumed + 1, consumed + n)
         take == Taken(n)
     IN /\ stats' = PushStats(stats, bytes)
        /\ \/ Decided /\ todo' = <<bytes>> /\ UNCHANGED <<head, folder>>
           \/ /\ ~Decided
              /\ head' = head \o SubSeq(bytes, 1, take)
              /\ IF Len(head') < HeadTarget THEN UNCHANGED <<folder, todo>>
                 ELSE /\ folder' = NewFolder(Encoding(stats', head'), BomLen(head'))
                      /\ todo' = IF take < n THEN <<head', Drop(bytes, take)>> ELSE <<head'>>
  /\ UNCHANGED <<input, finished, normalized, admissionVars>>

\* Mutant: the raw bytes are fed.
IngestRaw ==
  /\ todo # <<>>
  /\ LET folded == FolderPush(folder, Head(todo))
     IN /\ folder' = folded.folder
        /\ normalized' = normalized \o folded.out
        /\ FeedBegin(Head(todo))
  /\ todo' = Tail(todo)
  /\ UNCHANGED <<input, consumed, stats, head, finished>>

\* ingest: fold, then feed.
Ingest ==
  /\ todo # <<>>
  /\ LET folded == FolderPush(folder, Head(todo))
     IN /\ folder' = folded.folder
        /\ normalized' = normalized \o folded.out
        /\ FeedBegin(folded.out)
  /\ todo' = Tail(todo)
  /\ UNCHANGED <<input, consumed, stats, head, finished>>

\* finish: a stream that ended before its head was full is decided now, and its
\* head goes through a folder and a sampler that are thrown away afterwards.
EndStream ==
  /\ Idle /\ ~finished
  /\ finished' = TRUE
  /\ \/ Decided /\ UNCHANGED <<folder, todo>>
     \/ /\ ~Decided
        /\ folder' = NewFolder(Encoding(stats, head), BomLen(head))
        /\ todo' = <<head>>
  /\ UNCHANGED <<input, consumed, stats, head, normalized, admissionVars>>

SniffNext ==
  \/ \E n \in 1 .. Len(input) : SniffPush(n)
  \/ Ingest
  \/ EndStream
  \/ Loop /\ UNCHANGED sniffVars

SniffSpec == SniffInit /\ [][SniffNext]_allVars

-----------------------------------------------------------------------------
Prefix(n) == SubSeq(input, 1, Least(n, Len(input)))

\* The statistics are those of the bytes pushed; the parity of a NUL is that of
\* its place in the stream and not in the chunk.
StatsOfStream == stats = PushStats(NoStats, Prefix(consumed))

\* The folder's output is that of folding the bytes pushed in one go, without
\* the byte order mark: partial code units are carried over chunk edges, and
\* the head is neither lost nor folded twice.
FoldedAtOnce ==
  Decided /\ Idle =>
    /\ normalized = Fold(folder.encoding, Drop(Prefix(consumed), BomLen(head)))
    /\ Len(folder.carry) = (consumed - BomLen(head)) % Width(folder.encoding)

\* No cut of the stream is visible in what is gathered from it, once the
\* encoding is decided.
CutsInvisible == StatsOfStream /\ FoldedAtOnce

\* What is fed to the admission policy are chunks of one stream.  A stream that
\* ends inside its byte order mark is taken to have none, or a shorter one.
Parts(all) == {SubSeq(all, i, j) : i \in 1 .. Len(all) + 1, j \in 0 .. Len(all)}
Foldings ==
  UNION {Parts(Fold(encoding, Drop(raw, skipped))) :
           raw \in Inputs, skipped \in {0, 2, 3, 4},
           encoding \in {"bytes", "utf16le", "utf16be", "utf32le", "utf32be"}}
Sampler ==
  INSTANCE Sampling WITH stream <- normalized, Chunks <- Foldings,
                         MaxUnits <- MaxInput

\* The sniffer samples the normalized stream as module Sampling says, head and
\* chunks alike.
ImplementsSampling == Sampler!Spec

\* decide: "The encoding decision is made once, early, from the head", and the
\* "chunk boundaries are invisible to the answer": the folder works with the
\* encoding of the head, and so does the report, which decides again.
DecidedFromHead ==
  /\ Decided => folder.encoding = Encoding(PushStats(NoStats, head), head)
  /\ finished => folder.encoding = Encoding(stats, head)
=============================================================================
