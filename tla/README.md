# shapez in TLA+

`shapez` reads streams of JSON documents and reports their *shape*: which
positions hold records, maps, tuples, arrays, enumerations and which values. It
works in bounded memory, so it keeps two bounded views of every object and
array and a Space-Saving sketch of the element shapes, and decides at the end
which view tells the truth. A companion, `shapez-sniff`, looks at raw bytes
before that and says what kind of file it is from a bounded sample.

This directory models the parts of the program that keep state over long
sequences of events, checks them with TLC on small instances and proves the
central claims with TLAPS for instances of every size.

## 1. Inventory

| Part | Source | State | Operations | Status |
|---|---|---|---|---|
| Space-Saving table | `shapez/src/analyzer.rs:75-148`, `shapez-sniff/src/ngram.rs` | a bounded map from keys to counts, the number of evictions | `new`, `observe`, `count` | modelled, checked, proved |
| Streaming analyzer | `shapez/src/analyzer.rs`, `ingest.rs` | the arena of nodes, the pending node, the stack of open containers, document and eviction counters | the `JsonEventSink` events | modelled |
| JSON driver | `shapez-json/src/lib.rs` | the recursion of `drive_value` | `drive_document`, `drive_value` | modelled |
| Batch run | `shapez/src/batch.rs`, `shapez-json/src/batch.rs` | file and line cursors, ordinals, the analyzer's counters | `analyze`, `FilesystemDir::drive`, `JsonlDecoder::decode`, `should_bail` | modelled |
| Timestamp interpretation | `shapez/src/batch.rs`, `shapez-json/src/batch.rs` | none | `TimeInterpreter::interpret` with its policies, UUID and ULID readers, `has_explicit_zone`, `TimePredicate::accepts`, `navigate`, the extractor of `with_time_field` | modelled; what a date text says is external (dateparser, chrono) |
| Stream sampler | `shapez-sniff/src/stream.rs` (`Admission`) | phase, units left, the gap, the windows taken, the seam flag | `new`, `advance`, `feed`, `is_satisfied` | modelled |
| Streaming sniffer | `shapez-sniff/src/stream.rs`, `alphabet.rs` | head buffer, raw statistics, the folder with its carry | `push`, `start`, `ingest`, `finish`, `RawStats::push`, `Folder::push`, `decide` | modelled without the evidence scores |
| Slice sampler, n-gram profile | `shapez-sniff/src/ngram.rs` | the last bytes, the line, quotes and strings that are open, depth, histograms, gram tables | `segments`, `ProfileBuilder::push`, `boundary`, `finish`, `snapshot`, `build` | modelled |
| Fingerprint scoring | `shapez-sniff/src/fingerprint.rs`, `evidence.rs`, `lib.rs` | none | weighted sums of evidence | not modelled: floating point without state |
| Shape decisions, finalizer | `shapez/src/analyzer.rs:1505-1545, 2018-2368`, `node.rs` | reads the arena | `decide_object`, `decide_array`, `Finalizer`, `sig_to_shape` | modelled |
| Value statistics | `shapez/src/analyzer.rs:150-615`, `stats.rs` | distribution sketch, ranges, formats, lengths, skeletons | `observe`, `quantile` | modelled |
| State snapshot | `shapez/src/state.rs`, `analyzer.rs:2800-3330` | a copy of the arena | to and from the messages of `state.proto` | modelled |
| JVM binding | `shapez-jvm/` | native memory, a handle with analyzer and next ordinal, the object on the JVM | create, feed, serialize, restore, close | modelled |
| Reports | `shapez/src/report.rs`, `analyzer.rs` (`report`, `write_node`, `write_summary`) | reads the arena | the protobuf report, the text report | modelled without display figures and the lines about strings and numbers |
| Paths and patterns | `shapez/src/path.rs` | position in the text, steps so far, the token being read | `parse_pattern` and its loops, `Display`, `TryFrom<PathPattern>` | modelled, checked, proved |
| Sessions, exceptions, assertions | `shapez/src/` | none | type declarations | not modelled: no behaviour |
| Generators | `shapez-gen/`, `shapez-json/src/chaos.rs` | random state | test data | not modelled: test support |

### How the parts interact

`analyze` gives a callback to a source. `FilesystemDir::drive` walks a
directory and hands every line of every selected file to the callback;
`drive_document` turns a line into a nest of event calls on the analyzer, and
the analyzer's `emit_child_sig` feeds the signature of each finished array item
to the Space-Saving table of that array. After every document the source asks
`should_bail`, which reads two counters of the analyzer, and so the table's
evictions decide whether the run goes on. The sniffer is a chain as well: bytes
pushed in any chunks go through the head buffer, once that is full through the
folder, from there into `Admission::feed`, and what is admitted goes to the
profile builder, with a boundary at each seam.

Before a document is driven the source may ask for its time: a path that an
operator wrote is parsed once, navigated in every record, and what is found there
is read as a timestamp or an identifier and held against a window.

The report asks the finalizer, which only reads the arena; the text report walks
the arena a second time, with the same decisions and other code. A snapshot copies the
arena into messages; a JVM object holds the address of a native handle with an
analyzer in it, gets snapshots and reports as native buffers that it copies and
frees, and can be made again from a snapshot by another process.

Within an analyzer the program is single-threaded; only JVM objects interleave,
over one native heap. The hard behaviours are not races but *cuts and orders*: a container that is open while its counters are half written; a
view that overflows in the middle of a container; a chunk edge inside a code
unit, a window or a gap; a document whose evictions cross a threshold; a stop
that is asked for in a callback and must be obeyed two loops further out; an
eviction whose victim depends on the iteration order of a hash map.

### What makes each part correct

- *Space-Saving*: held counts are never too low, forgotten keys are light, the
  mass is conserved; all this for any choice of victim.
- *Value statistics*: memory is bounded, a percentile has the rank asked for up to
  what was evicted, a snapshot loses nothing.
- *Analyzer under its driver*: no event meets a state it panics in; every value
  is counted once, at one node; the arena stays a tree; an overflow node is used
  only after its view is full and retired; counters written at the begin of a
  container and counters written at its end agree.
- *Finalizer*: the shape reported covers every document read, and says null where
  null or absence occurred, nowhere else.
- *Reports*: nothing of the shape is lost on the way through the flat value types;
  lines of the text stand under the path that led to their node; what they call
  required is in every object.
- *Paths*: a pattern that is printed reads the same, the parser returns on every
  text and never stands inside a character.
- *Time*: a timestamp is read in the zone it names, or else in that of the policy;
  identifiers sort like their times, adjacent windows share no record and lose none.
- *Snapshot*: an analyzer that was restored is the one that was saved, its policy
  included; while a value is half read none is saved.
- *JVM binding*: every address has one owner, ordinals go on over restores, an
  object is the list of documents it accepted.
- *Batch*: the documents driven are the wanted records in order, each once, up
  to the place where the run stops; stopping is obeyed at once; a run without a
  reason for stopping is complete; every run ends.
- *Sampler*: how a stream is cut into chunks cannot be seen in what is
  profiled; the budget is kept at every moment; the loop returns.
- *Sniffer*: the same for the folding, given the encoding that was decided.
- *Profile*: what is counted byte by byte is what the segments contain when each is
  read as a whole; nothing crosses a seam.

## 2. Modules

| Module | Models | Notes |
|---|---|---|
| `SpaceSaving` | the table and `observe` as the *set* of tables it may lead to | pure operators |
| `Sketch` | one table under a stream, with exact frequencies as history | |
| `Sums` | sums of the values of a function | pure operators |
| `SumProofs` | facts about sums, about the mass of a table, and about recursion over numbers | TLAPS |
| `SketchProofs` | theorems about `Sketch`, that `ValueStats` implements it, and about its sketches and messages | TLAPS |
| `Analyzer` | one action per event of `JsonEventSink` | uses `SpaceSaving` for each array node |
| `Ingest` | `Analyzer` driven by `drive_document`/`drive_value` | the recursion is an explicit stack `calls` |
| `Paths` | the abstract promise of the analyzer: a table from paths to counts | no arena, no ids, no caps |
| `IngestByPath` | the refinement mapping from `Ingest` to `Paths` | |
| `IngestProofs` | theorems about the walk and the arena of `Ingest`, and that it implements `Paths` | TLAPS |
| `CountProofs` | theorems about the counters of `Ingest` | over `IngestProofs` and `SumProofs`, TLAPS |
| `Finalizer` | the shape decisions and the finalizer over the arena of `Ingest` | keeps the documents as history |
| `ReportShape` | the shape as flat value types and as messages of `report.proto` | over `Finalizer` |
| `ReportText` | the text report, line by line | over `Finalizer` and `PathText` |
| `PathText` | steps of a pattern and how they are written | pure operators |
| `PathPattern` | the parser, one action for each pass of its loops | |
| `PathProofs` | theorems about `PathPattern` and `PathTime` | over `SumProofs`, TLAPS |
| `Timestamps` | `TimeInterpreter`, `TimePredicate` | pure operators |
| `TimeField` | `navigate` and the time of a record | pure operators |
| `PathTime` | an operator's path, parsed and then used to judge a record | composes the two |
| `Messages` | repeated and optional fields of messages | pure operators |
| `Snapshot` | the messages of an analyzer, and back | over `Finalizer`, to compare the reports |
| `DistSketch` | the distribution sketch and its quantiles | pure operators |
| `ValueStats` | `StringStats`, `NumericStats` and their messages | implements `Sketch` for its skeletons |
| `Handle` | the class `Analyzer` of the JVM and the native calls, step by step | |
| `HandleProofs` | theorems about `Handle`, and that it implements `Accumulators` | TLAPS |
| `Accumulators` | the abstract promise of the JVM binding: lists of documents | no memory, no ordinals |
| `Batch` | `analyze` with a filesystem source | one action per branch of the loops |
| `BatchProofs` | theorems about `Batch` | TLAPS |
| `Admission` | `Admission` | one action per branch of the loop of `feed` |
| `Sampling` | `Admission` fed any chunks, against a plan computed from the whole stream | |
| `SamplingProofs` | theorems about `Admission` under `Sampling` and about `SniffStream` | over `SumProofs`, TLAPS |
| `SniffStream` | `SniffStream` with head, statistics, folder, and `Admission` behind it | shown to implement `Sampling` |
| `Profile` | `segments`, `ProfileBuilder`, `NgramProfile::build` | uses `SpaceSaving` for its grams |

`MC*` modules hold only the small sets for TLC.

### Space-Saving

`entry.1 += 1` on a hit, an insert while there is room, otherwise the minimum is
replaced and hands its count on. The code takes the first minimum in the order
in which a `HashMap` iterates, which is different in every process; `Observed`
is the set of results over all minima. Both copies of the table
(analyzer and sniffer) do the same.

### Analyzer and Ingest

A node is a record of counters with an object and an array accumulator; an
accumulator that does not exist is one without an overflow node. `arena` is a
sequence because the code's arena is a vector that only grows and node ids are
its indices (from 1 here). `pending` and `stack` are the fields of the same
name. Each event is one action with all the calls it makes: `consume_target`,
`observe_at`, `ensure_object`, `array_child`, `emit_child_sig` and the sketch
are operators from arenas to arenas that the action composes in the order of
the code. Guards of `Analyzer` are the conditions under which the code does not
`panic!` or `unwrap` a `None`; that the driver meets them is the property
`NeverPanics` of `Ingest`. It says so of *states* the driver is in, so an
action that were merely disabled would not hide a panic.

The driver chooses the value as it walks: all documents within the bounds are
covered, and the state between any two events can be looked at. Keys are ranked
because the map of the parser yields sorted, distinct keys. Strings, numbers and
formats are scalar kinds. Histograms stand for all that `object_end` and
`array_end` record of a size. `keyStats` is the histogram of an object's keys,
which `object_key` ticks for every key, those that find the table full included.

`Paths` is what a user of the report believes: a value is counted once, under a
path that its place matches; a key with a path keeps it; a container that has
spilled starts no new path. Caps are absent: when to spill is free. The mapping
of `IngestByPath` names each node by the path under which it was allocated, in
an auxiliary variable `pathOf`; `count` is the observations of the node so
named, `spilled` are the overflow nodes of retired views, `goal` is the pending
node's path.

### Finalizer

`Finalizer` adds to `IngestByPath` the documents themselves as history (`seen`,
and `built` for those that are still being walked) and computes, from the arena
alone, what `build_shape` returns. A node's children have larger ids than the
node, so `Shapes` is a function on ids. `RecordCap` and the limits of the decisions
(`MinMapKeys`, `MapRatio`, `MaxTuple`, `TightShare`) are constants; the code has
16, 4, 16 and 9/10. The flat `ValueType` that a simple shape takes on its way
into a report is in `ReportShape`.

`Conforms` says what it means for a document to be of a shape, without any
reference to counters. `ShapeCoversDocuments` asks it of every document read, as
long as no cluster was evicted and no object was taken for a map; beyond that the
program promises no cover. It is a real condition for arrays, whose elements are
rebuilt from signatures, while all else comes from nodes.

### ReportShape and ReportText

`build_object`, `build_array` and `sig_to_shape` return a flat `ValueType` for every
subtree without variant, tuple or absent part, and `report.rs` turns the flat types
back into nodes. `Flattened` and `ShapeNodeToProto` are these two, and
`ReportLossless` says that nothing was lost between them. Counts are left out: nodes
that come out of a value type have none.

A text report is a sequence of lines, a line a record of what it says.
`WriteNode` is the walk of `write_node` with paths composed from texts as the
code composes them; `PathsCanonical` compares each with what `Display` writes for
the pattern in `pathOf`. The report prints names that are no identifiers as they
are, without quotes: such a path does not read back, and two nodes may share one
(the field `a.b` of an object, and the field `b` of its field `a`; the run has both).
So the property asks of the lines whose names are all identifiers that they read back and
that no two of them share a path. "required" in the text
means that no object lacks the field; the shape's `nullable` also asks for null, so
the two reports may differ there, and `RequiredExact` says which one is meant. A
field that an object taken for a map knows by name is not listed, and the value of
the map, which the report shows instead, may have seen nothing.

### PathText, PathPattern

A text is a sequence of bytes, a name one of characters; characters are those of up
to two bytes, which have everything the parser cares for: a first byte that is not
ASCII and one that continues it. `mode` says which of the parser's loops is running,
and each action is one pass of it: `ParsePattern`, `ParseIdent`, `ParseU32`,
`EndOfIndex`, `ParseQuoted` with `ParseEscape`, `ParseUnicodeEscape`. Errors are
results with their kind and position. `from_utf8` on the rest of the text panics when
that begins inside a character; the model has a mode `panicked` for it. `Reprint`
writes what was parsed and has it parsed again.

### Timestamps, TimeField, PathTime

Times are integers, and the width of a count of nanoseconds is a constant, so that
the ends of its range are met. dateparser and chrono are external, each a constant:
`Dateparser` gives the reading of a text and the zone found in it if any, `NaiveFormats` the
reading in one of the formats without a zone. The two read different texts, and the same text
differently: to dateparser a date alone has the present time of day, to chrono it is
midnight; dateparser reads `2024-01-15 08:08:05-08` and takes `-08` for its zone. `HasExplicitZone`
is the heuristic byte by byte, which does not see that zone, and takes a date that ends in
`-2024` for one with an offset. `ZonesKept` says what comes of it under each policy. A text
with a zone that the heuristic misses goes to the formats, which refuse it, or to
dateparser, which keeps its zone; so a zone that is named is never replaced, and `Refuse`
lets no text in that names none. The exception is stated in `ZonesAllowed`: what ends like a zone
and names none, if dateparser reads it, is read in the zone of the host. An offset of a day or
more is no zone (`FixedOffset::east_opt`) and everything is refused. The layout of identifiers is given by constants; the UUID reader skips
hyphens wherever they are and reads nothing after the version digit, so it accepts
texts that are no UUIDs, and `IdsInOrder` speaks of those that are printed in one
form. `Judge` lets a path that was parsed and has no wildcards find the time of one
record and hold it against one window.

### Snapshot, Messages

`StreamingAnalyzer` is the analyzer with all that its structs hold at the level of the arena:
what module `Analyzer` derives from other state is written out (the order of the fields,
the least and the greatest length, histogram and sketch of the lengths, the cap in every
cluster), and the policy has the reason and the limits that `should_bail` reads, for
which `BailPolicy` is a set. Each message of `state.proto` is a record of sequences
and optional fields; maps become lists of entries, absent accumulators absent fields,
enumerations numbers, of which unknown ones are dropped, and sizes and ids 32 bits.
`ToStateProto` refuses while the stack or the pending node is in use. `RestoredGoesOn` is asked
between any two events: a message is refused if and only if a value is half read, and
what `FromStateProto` makes of any other is the analyzer that was saved but for `currentDoc`,
which the next document overwrites. Where ids or caps do not fit into 32 bits (`Fits`)
nothing is claimed: the code cuts them silently, so a cap of `usize::MAX`, meant as none,
comes back as `u32::MAX`, and a cap of 2^32 as 0. What the documents after a broken-off one do
to an analyzer is not modelled, only that it is refused there. String and number
statistics and the inside of sketches are counts and histograms here; their own messages are in
`ValueStats`. The tables are compared as functions, which is what the program can see of
them but for one thing: the order of `entries()` among equal counts, the subject of
the run `snapshot_report`.

### Value statistics

`DistSketch` keeps of the logarithm that buckets grow with the magnitude and take
several magnitudes (`BucketWidth`). Eviction, totals and the walk of `quantile` are
those of the code: the rank is taken of all values, the walk sees the buckets that
are left, and the maximum answers when it runs out. `ValueStats` observes strings
(length, format, skeleton) and numbers (in halves, to tell whole ones) with the true
multisets as history. Sums are left out. Its skeletons are the table of `Sketch`:
each of its steps is a step of `Sketch` or leaves the table alone.

### Handle and Accumulators

A call from the JVM is a sequence of native steps with the JVM's own assignments
between them (`call` says where a thread is): close destroys and then forgets;
`fromStateBytes` creates a handle, constructs an object with a handle of its own,
destroys that one and assigns; a serialization is allocated, copied, released. Other
objects act in between and addresses are used again at once (`Alloc` takes any free
one). The analyzer inside a handle is the list of documents accepted, with their
ordinals; `Ingest` and `Snapshot` say what it is made of. `Free` and every read of
an address are guarded by nothing, so memory errors are states, and
`MemoryOwned` excludes them. Each object is used by one thread at a time, as its
documentation asks.

`Accumulators` is what a Scala program believes: objects are lists, buffers are
lists that outlive them. `Handle` implements it under the mapping that reads an
object as the list at its address.

### Batch

`phase` is the place in the nest of loops of `FilesystemDir::drive` (walk, file
loop, decoder, the poll after each file, the report). A source is a sequence of
files in sorted order; a line is blank, faulty, or a record with a time (inside
the window, outside, none) that resolves the `at` path or does not. The analyzer
is reduced to the counters that `should_bail` reads; a document evicts up to
`MaxBurst` clusters, which `Ingest` shows it may. Failing to walk, to open, to
read or to parse ends the run in phase `failed`.

### Admission and Sampling

`Loop` has the branches of the loop in `feed`: return (done, spent, chunk
empty), advance to the next phase, emit, skip, align. The order of the checks
is in `Spent`, `PhaseOver` and `InPhase`. `Sampling` keeps the whole stream as
history and computes from it, without any state machine, the windows there
should be (`Start`, `Planned`, `Wanted`); `PlanFollowed` compares.

### SniffStream

`SniffPush` is `push` up to the calls of `ingest`, which are the list `todo`;
`Ingest` folds and calls `feed`, whose loop is that of `Admission`. Folding maps
a code unit to its ASCII byte or to the placeholder. Of `decide` the parts that
fix the folding are kept: marks and NUL parity. Of the kinds that are taken
unfolded (UTF-8, Latin-1, binary) only "bytes" remains. `EndStream` is `finish`: a
stream shorter than the head is decided then, from all there is.

### Profile

A file and a budget are chosen, `Segments` cuts the sample, and `Push`,
`NextSegment` and `Finish` are the loop of `build`. Bytes are classes of bytes: the
four kinds of brackets, the quote, the backslash, two of the four delimiters, white
space, and a digit for everything else. `PushByte` composes the counters, the
shift register, `end_line` or `line_byte`, and `brace_byte` in the order of the code;
`Boundary` is `boundary`, and a copy of the builder to which it was applied is
`snapshot`. The properties are stated over `Pieces`, the segments as sequences, with
operators that know nothing of the builder: lines are stretches between newlines,
a delimiter counts after an even number of quotes, strings are found by reading
from the start of the piece. They are checked of the snapshot after every byte.

## 3. Runs

| Run | Question | Bounds |
|---|---|---|
| `value_stats` | guarantees of the table, rank of percentiles, snapshot of the statistics | 4 skeletons with room for 2, 5 strings, 6 numbers, sketches with 2 buckets of 2 magnitudes, 7 values |
| `ingest` | the arena between any two events | 2 keys, 2 kinds, all caps 1, 5 values, 3 documents, depth 2 |
| `shapes` | the shape covers the documents, nulls, both reports, the snapshot, and the arena implements `Paths` | 3 keys (one with a dot, so that paths collide), null and i64, all caps 2, 6 values, 3 documents, depth 2; maps from 2 keys, tuples up to 2; 2 policies, integers of messages up to 7 |
| `handle` | one owner, ordinals, refinement of `Accumulators` | 2 objects, 4 addresses, 5 buffers of up to 2 lines, 3 documents, 2 states kept |
| `batch` | order, completeness, stopping, ending | up to 2 files of 8 sorts, 16 policies, all four settings of window and extractor, 0 to 2 evictions a document |
| `sampling` | chunks are invisible, budget, return | all streams of 11 units over 2 units, all cuts into chunks of 0 to 3, 9 budgets, `u64::MAX` = 3 |
| `sniff_stream` | folding and sampling do not see the cuts | 889 raw streams of up to 9 bytes, 5 marks, head of 4 |
| `profile` | the profile is that of the segments as a whole | all files of 5 bytes over 3 alphabets, 3 budgets, histograms and tables with room for 2, 3 bytes of a line kept |
| `path_time` | parsing, printing, time of a record, windows | all texts of up to 4 bytes after the root over 11 bytes and a character of two, quoted names of 3, braces of 4; 3 paths, about 130 records, 10 interpreters, 9 windows; times of 5 bits, UUIDs 2-1-1-1-3, ULIDs of 4 |
| `snapshot_report`, `batch_bailed`, `sniff_stream_decision` | what the documentation says | as above |

Why these bounds are enough for the cases that matter:

- *value_stats*: with 4 keys over 2 places a key can be evicted, come back with an
  inherited count and evict the key that evicted it; with 2 buckets of each sketch
  the bucket that was just made can be the one that goes, and the rank of a
  high percentile can lie beyond what is held.
- *ingest*: with caps of 1 the second key or item retires a view, so five values
  are enough for a view that overflows, is met again by the next document, and
  holds a container itself; three documents tell first, middle and last
  apart; depth 2 gives an array inside an array that evicts while the outer one
  is open, and mixed containers at one position. A second container in a
  position that already was a scalar occurs too.
- *shapes*: with caps of 2 a view holds what one document brought and overflows by
  the next; three keys make a record view overflow while two are known, six values
  an object that lacks a key beside one that has it and one that holds null,
  and arrays that are tuples, bags, or change from one to the other.
- *handle*: two objects are needed for an address that is freed by one and used by
  the other; four addresses are the most that two threads hold at once (a handle
  and a buffer, or two handles, each). Addresses are symmetric: only equality
  of them is used. Three documents and two saved states let a state be restored
  twice and fed apart.
- *batch*: two files are needed to tell a stop in one file from a stop that
  leaks into the next; the lists of lines include first/middle/last fault, blank
  and reject, and the policies include caps at 0, at the number of documents of
  one file, and across files.
- *sampling*: 11 units reach past the last window of all the budgets but two,
  (1, 2, 2, 9) and (0, 1, 3, 2), which end in their last phases; the budgets include zero prefix, zero window, zero windows, zero bytes and a
  budget that ends inside a window. `MaxU64` of 3 makes the doubling of
  the gap saturate (1, 2, 3).
- *sniff_stream*: chunks of all lengths, so cuts fall inside marks, code units of
  2 and 4 bytes, the head, gaps and windows, and a chunk can complete the head
  and fill several windows.
- *path_time*: four bytes after the root hold every pair of steps with a separator
  and every error of brackets and fields; a quoted name of three holds an escape
  before or after a character of two bytes; braces of four, an overflow of both
  limits. The texts that are written and parsed again are longer and are whatever
  `Display` makes of these. Readings lie at and near the ends of a 5-bit
  range, zones carry them beyond it, with and without padding; among the texts are
  those that only one of the two parsers reads, one that both read differently, and
  one whose zone the heuristic misses.
- *profile*: five bytes hold a doubled quote and a delimiter behind it, an escape at
  a seam, a string over a line end, and with windows of two bytes every way to cut
  them; grams of two and three bytes over tables of two evict with ties.

`CHECK_DEADLOCK FALSE` is in every configuration because each of these systems
stops: the stream ends, the bound of the model is met, the run is done.

For every property of a passing run `PROJECT.json` names a mutant, a plausible
bug in one definition (defined next to the original, and used by nothing), under
which TLC finds the property violated.

### Fairness

The symmetry of `handle` is used with a refinement that is a safety property only.

`Batch!FairSpec` has weak fairness of `Next`: a run is one thread in a loop that
does not wait for anybody. `Sampling!FairSpec` has weak fairness of the loop of
`feed` only. Nothing is assumed of who pushes chunks. `PathTime!JudgeSpec` has weak
fairness of `Parse`, the passes of the parser's loops, and none of what is done
with the result: `Returns` says that the parser ends on every text. The other modules
state no liveness: the analyzer and the sniffer do only what their callers ask.

### What the documentation says and the code does not do

- `batch_bailed`: `AnalysisOutcome::bailed` is documented as "bailed out before
  the source was exhausted". The reason is computed again after the run, so a
  source of exactly `max_docs` documents is reported as bailed.
- Of the overflow of a record DESIGN.md:88 says that "every subsequent observation
  routes through `map_value`", which "accumulates *all* observed values". Known keys
  keep taking theirs (analyzer.rs:1406), and what they held before is not moved,
  so the value of the map is that of the late keys. `Analyzer` and `Paths` have it
  as the code does it.
- `snapshot_report`: "Round-trip is byte-identical at the report level", but
  clusters of equal count are reported in the order of a hash map, which is another
  one after a restore.
- `sniff_stream_decision`: "chunk boundaries are invisible to the answer", but
  `push` adds the whole chunk to the statistics before the decision is made from
  the head, so bytes past the head take part in it if they arrive in the
  chunk that completes it. `snapshot` decides once more, from the statistics of the
  whole stream, so the report can name an encoding that the profile was not folded
  with. All else is independent of the cuts (`CutsInvisible`, `ImplementsSampling`).

## 4. Proofs

Every theorem is about a specification with arbitrary constants under the named
assumptions of its module; nothing is assumed of the size of a stream, a
directory or a table. `tlapm` checks all of them to the last leaf.

*SumProofs* is about `SumOver(f, S)`, which the library defines by recursion over an
element that is chosen. That the definition has a solution, that solutions agree, and that
the order does not matter (`SumAdd`, `SumRemove`) are inductions over finite sets; the
library states induction for operators, so each is made by taking a smallest set for which the
claim fails. From these come the mass of a table and every count below. Its last part says
the same of numbers: a set that holds zero and with every number the next one holds all of
them (`NumbersIn`), and a first value and a step make a sequence (`RecursionExists`).

*SketchProofs* assumes a finite key set (`KeyAssumption`: what a stream of finite
length can bring) and a capacity of at least one (`CapAssumption`). `IndInv` is
`TypeOK`, `Bounded`, `NeverUnderCounted`, `ForgottenIsLight` and
`ExactBeforeEviction`, and none of them is inductive alone. A newcomer takes the
minimum plus one, which is not too low only if the newcomer was light while it was
forgotten; an admission into a table with room would break `ForgottenIsLight` but
for the fact that a table with room has never evicted, which needs `Bounded` and
`ExactBeforeEviction`. One lemma for each way `observe` can go, for any victim
among the minima: the guarantees do not depend on the iteration order of the map.
`MassConserved` is inductive with `TypeOK`: the counter that is dropped is taken over
by the newcomer.

The same module assumes that a string's skeleton is a key of the table
(`TextAssumption`). A string of no known format is an observation of its skeleton
and every other value leaves the table alone, so `ValueSpec => Spec`, and the
theorems above hold for the skeletons of any field.

Of the numbers of a field it shows `QuantilesHaveRank`. `StatsInv` has the sketch's
`Accounts`: at every bucket, what is held up to there is at most what was seen up to
there, and that is at most what is held plus what was `Lost`. A value adds
one to both sides from its bucket on, because `Bucket` is monotone, and dropping a
bucket moves its count from what is held to what is lost from that bucket on. So a
rank is off by at most the number of values whose bucket was dropped. That the bucket below the
answer has not reached the rank follows from mass being only where a bucket is
(`MassHasBucket`). `StatsRestored` rests on `MapRestored`: a map that is listed as
entries, in any order, and read back is the same map; formats go through their numbers,
no two of which are the same (`FormatsApart`). Both hold for any width of a bucket,
any cap and any numbers of `Number` (`DistAssumption`, `NumberAssumption`).

*BatchProofs* assumes that the sets of files and policies have the form the
module uses (`InputAssumption`), that bursts are numbers (`BurstAssumption`) and
that `None` is no number (`NoneAssumption`). `IndInv` is `TypeOK`, `Located`,
`Obeyed`, `Clean`, `Reported` and `DrivenInOrder`. The documents driven are the
wanted records before the cursor, so a proof has to know where the cursor is:
`Located` ties it to the phase (between files at the first line; in a poll that
goes on behind the last line of the file; at the end of the source unless the
policy bails). `Obeyed` says that a loop that still runs has no reason to stop,
which is why a stop leaves the decoder only through a bail or the end of the file.
From these follow `CompleteUnlessBailed` and, step by step, `NothingAfterBail`.

*HandleProofs* holds for any set of objects, addresses and buffers, and assumes that
a null pointer is no address (`NullAssumption`) and that buffers are sequences of
lines (`BufferAssumption`). `IndInv` is `Typed`, `Owned` and `Placed`. `MemoryOwned`
alone is not inductive: `close`, `restore` and `serialize` free what a field or a
local variable of the object points at, several native calls after it was read.
`Placed` says, for every place of a call, which of the two pointers is alive, that
they differ, and what they point at. The other half is `LocalStep`: a step that
changes only what one object holds keeps the memory of all others, so each of the
calls is argued for one object, with one lemma per action. What `feed` and
`feedJsonl` do to a handle is in `FedContent`: ordinals continue without a gap over
any buffer, which gives `OrdinalsRun` and `AcceptedAddsUp`. `BindingImplementsAccumulators`
needs two facts more (`Known`): no list holds a document that has not been fed, so the
next one is new to all of them, and a buffer that is being copied says what its object
holds. Each native call is then one step of `Accumulators` or none. `NothingAssumption`
says that the word for an object that is not there is no list.

*SamplingProofs* assumes that units are bytes, chunks are sequences of them, budgets
are records of numbers and no window is longer than `MaxU64` (`UnitAssumption`,
`ChunksAssumption`, `BudgetsAssumption`, `MaxU64Assumption`). `IndInv` adds two
things to `TypeOK` and `WithinBudget`: `Room` bounds what a phase may still admit by
what the windows opened so far were granted, and `Located` says that the chunk is the end of the
stream. From the second follows `AdmittedInOrder`: units are admitted in the order of
the stream and each once, wherever the chunks end.

The second half proves `PlanFollowed` and `SeamsAtGaps`, which compare the sampler with the
plan. The plan is a recursive function (`Start`, `PowerOfTwo`, `Gaps`); that there is one is
`RecursionExists`, and what holds of it for every window is an induction over the numbers
(`NumbersIn`). Three lemmas are about plans alone: windows are at least a unit apart (`WindowsApart`);
as units arrive, a window that starts among the units that have arrived, or right after them, stays
where it is (`PlanStays`), since a newline that has been found is the first for good; and
the plan ends within `Reach` (`EndsBy`, `WithinReach`). The invariant `FollowInv` then says where the
sampler is: with k windows taken, a phase ends where the plan says that the window, the gap
or the search behind window k ends, given what it has left (`OnPlan`). A search has seen no
newline yet, so it cannot be past the start of the next window (`SearchBefore`). What was
admitted is what the plan wants of the units behind, until the budget or the plan is at
its end (`TakenUpTo`), and the marked units are the starts of windows (`MarkedUpTo`). There is one lemma for
each branch of the loop, and one for a chunk that arrives, which passes from one plan to the next.
At the end the admitted offsets are counted: there are `profiled` of them, so the plan is
cut off where the budget cuts it.

The last part is about the sniffer, whose names are its own (`SniffInit`, `SniffPush`), because it
shares the sampler's state. It assumes that streams are sequences of bytes
(`InputsAssumption`) and that the head has at least four (`HeadTargetAssumption`): a byte order
mark is never longer, so it is always in the first call of `ingest` whole. `SniffInv` says which part
of the stream the calls that are due hold (`Due`), and that the folder is where a folder
stands that was fed all bytes so far at once (`FoldedUpTo`): what came out is the whole units, folded,
and the carry is what is left over. `FoldStep` takes it over a chunk; behind it is arithmetic of
units laid end to end (`UnitArithmetic`), and `StatsStep` says that NULs counted by their place in
the stream can be counted chunk by chunk. `CutsInvisible` follows for a
sniffer at rest, and `ImplementsSampling` since what `ingest` feeds is a part of the stream
folded at once (`CutFrom`) and all it fed is never longer than the input.

*IngestProofs* holds for any keys, caps and bounds under the assumptions of `Analyzer`
and `Ingest`. `NeverPanics` speaks of the current frame, and each return uncovers the
one below, so `IndInv` says it of the whole stack: `Frames`, every frame stands at a
node of the arena that has the container the frame is for; `Matching`, the frames and
the calls of the walk go together, kind by kind, all calls but the last wait, and an
object's frame holds a key exactly while its call waits; `IsArena`, every reference of every node points into the arena
behind the root; and a node is pending exactly where a call awaits a value
outside an array. The argument about the arena is one relation, `Grows(ar, br)`: br is
an arena, at least as long, in which no accumulator has disappeared. It holds of each
of the operators that an event composes (`ObsAt`, `EnsureObject`, `ArrayChild`,
`ObjectChild`, the counters, the cluster), it is transitive, and it keeps `Frames`.
What the events have in common are three lemmas: a value was emitted
(`EmittedPreserves`), a container was opened, a frame was popped. The stack holds
signatures, which nest without bound, so it is a sequence over some set that the proof
never names (`Sequence`).

The second part of the module goes on, under the same assumptions, with what the values
of the arena are. First the two views. A *slot* is a place of a node that refers to
another: a field, a position, or one of the two overflow nodes. `Separate` says that no
two slots of the arena refer to the same node, `Full` that a view which has given up is
full and that the overflow node of one that has not counts nothing; neither is
inductive without the other. `Ripens(ar, br)` is what `Grows` was: it holds of each
operator an event composes, is transitive, and keeps a node `Usable` (not held back by a view
that is alive), so that the value under way to a node is not under way to an
overflow node too early. `Placed` says that an open array has not got ahead of its
positions, which is why an item beyond them means that the array is full. From these,
`NoSharing` and `OverflowOnlyWhenFull`. Then the tree. `Rooted`: each node but the first
has a parent with a smaller number. `Nested`: what has children was seen, and they were seen
within its documents. That a document cannot be recorded in a child before it is in
the parent is a matter of the order of the events: the containers that are open were all
seen in this document (`OpenNow`), and the node for the next value has its parent among
them (`ParentsNow`). With `Separate` the parent is the only one, and counting
the slots gives the number of children, hence `ArenaNests`.

The third part shows `ArenaImplementsTable`. A node stands for a path, and the
mapping sums over the nodes of a path, so first of all no two nodes may have the same one:
`Names` says that the path of a child is its parent's with the step of its slot, and that
paths of different nodes differ; with `Separate` and `Rooted` a new node keeps it.
`NamedIs` says that giving names twice is enough, since an event makes at most two nodes.
Then `Renders`: each operator that an event composes is a change of the two functions
`count` and `spilled`, or none. An event is the composition, and is shown to be the step of
`Paths` of its kind: a document begins, a key or an item is entered, a container is
left, a value is counted, a key is named, or nothing happens. `NowhereAssumption` says that
the word for no path is no path.

*CountProofs* keeps the books of the analyzer, under the same assumptions and with a
finite set of kinds (`KindAssumption`; the code's is an enumeration). What the counters of a node say of each other is true
between two events only if what is open is counted too: an array that is open has met
items whose length is in no histogram yet, an object keys, and the item under way is in
the node's count and not in the sketch. `Books` states the balances of every node
(values against kinds and against the children, sizes against histograms and positions,
clusters against items) with what the open frames and the value under way still owe. An event is several *entries*, and
between two of them the books do not balance: they take as arguments what is owed
there. There is one lemma for each entry (a value is given a node, the node observes it, the
observation is entered under its kind, a container is opened or closed, a key is passed, a
signature goes to the container below), and the events compose them. Two invariants of the
walk are needed beside those of *IngestProofs*: keys come in order (`Ordered`), so an object
meets each key once and its key count is that of its fields; and the value that waits for its
node is a document or belongs to a key, never an item (`NoItemWaits`). From `CountInv` follow `EveryValueCounted`, `SizesAgree` and `ClustersAddUp`.

*PathProofs* shows `RoundTrip` and `NeverSplits` of `PathPattern`, for texts of any
UTF-8 and of any length, names of any characters of up to two bytes and indexes up to any
`MaxU32` (`LimitAssumption`: a character's number fits in it, as in the program).
The invariant `TripInv` is of two parses. In the first, of any text, the position is
at a character or at the end (`IndInv`: each of the bytes taken at once is ASCII
or a whole character) and the steps are such as a pattern may have (`Shaped`), names
and numbers included. In the second, of what `Display` wrote of a pattern P, the parser stands
where P says (`Along`): it has the first steps of P and is behind them, or in the next, and
there it has the first characters of its name or the first digits of its index, or
is inside an escape and has the first of its digits; and the position is the place
of that step, that character and that digit. The places need an account of `FlattenSeq`:
`FlattenLays` says that the parts lie end to end, each held whole (`Laid`), by an
induction along the fold, and `NameIsLaid` and `PatternIsLaid` use it for the characters of
a name and the steps of a pattern. `NumeralReadsAs` says that a numeral is made of digits
and is read as its number, by induction over the quotients. Then there is one lemma
for each loop: what is read there (`PeekIdent`, `PeekNumber`, `QuotedStands`, `EscapeStands`),
and where the parser goes. An identifier ends where it should because behind a step there is only
a dot, a bracket or the end (`StandsAt`), and a name that is written bare is one by
its bytes. `JudgeParses` carries the two properties over to the composition with the judge,
which is what the run checks.

Its second half is about `PathTime` and assumes of the records only that what a path finds
is a number or a text where its tag says so, and of the windows that their bounds are
numbers or absent (`JudgedAssumption`); the groups of a UUID, the lengths and the bits are
any (`LayoutAssumption`), and so is what the external parsers read (`ParsersAssumption`).
`JudgedInv` says that the parser is at rest when a record was judged, so that the verdict is
about the path that was parsed. `WindowsTile` then needs that a time is a number or absent
(`TimeType`), through every interpreter: the sign of `FromNanos` is right only because a power
of two is positive. `IdsInOrder` follows the place at which two identifiers first differ:
the digits there are in the order of the bytes (`HexOrder`, `CrockfordOrder`, over the alphabet
without I, L, O and U); dropping the hyphens keeps the one ahead ahead (`KeptOrder`), because of
two UUIDs of one form that have a time the hyphens are in the same places (`SameHyphens`); and a
larger digit outweighs all that follow (`NumberOrder`), which is an induction along the
fold, once `NumberIs` has said that the fold over a set of places is Horner's rule.

`ZonesKept` is proved whatever dateparser and chrono read and wherever dateparser finds a
zone, seen by `has_explicit_zone` or not. One thing is assumed of them
(`NaiveAssumption`): a text in which dateparser finds a zone is, without its padding, read by none
of the formats of `NAIVE_FORMATS`. That is so because chrono reads a text to its end or
refuses it, and none of these formats has a place for a zone; `MCPathTime` has TLC evaluate it.
The proof is by the policies: what goes to dateparser is told by `ZoneOf`, what goes to the
formats names no zone (`NaiveSeen`), also if it was padded, since what is trimmed stays as it
is (`TrimTwice`). Behind both are the limits of the range and the times before 1970,
where the smallest number of nanoseconds is negated into itself and the cast makes it
right (`NanosKept`).

Out of the prover's reach, and so only model-checked: `Finishes`, `FeedReturns` and
`Returns` (liveness); the properties of `Profile` (folds over the
stream); and the shapes, the reports and the messages of an analyzer, which are trees and
recursive definitions.

## 5. Not modelled, and why

Beside the rows of the inventory marked so: the text of errors and reports;
hashing of signatures (a signature is the structure itself, so two structures
never collide here); memory exhaustion; the overflow of counters, which are 64
bits wide and count documents or bytes one by one; the debug build's panic on
negating the smallest 64-bit number of nanoseconds (in release it wraps, and
the cast behind it makes it right); a `cluster_cap` of zero, with
which the first item of an array panics (`CapsAssumption` excludes it, and no
policy in the repository sets it).

Of modelled parts: `detect_format`, `skeleton` and the hints of the report
(functions of a string or of counters), the figures derived for display (means,
percentages), the one-shot calls of the JVM (one native
call that makes and drops a handle), the evidence scores of `decide`.

## 6. Plan

The order was: the table, the analyzer under its driver, batch, sampler, sniffer,
finalizer and snapshot, JVM binding, statistics, profile, paths and times, reports.
What is left:

1. `Accumulators` with one-shot calls, and a panic caught inside a document.
2. The slice sampler against the stream sampler on files that fit both.
3. The figures and orders of the text report.
