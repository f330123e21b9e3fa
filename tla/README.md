# Verification of snakemake-storage-plugin-fdb

TLA+ models of the plugin's core logic, the TLC runs that check them on small
instances, and proofs, checked by TLAPS, of what must hold for every schema,
every set of queries and every number of threads. Paths and line numbers refer
to `src/snakemake_storage_plugin_fdb/` unless they name another directory;
`FR-…`, `NFR-…` and `L-…` are the identifiers of `docs/design/requirements.md`,
`ADR-…` those of `docs/design/architecture.md`.

`PROJECT.json` lists the components, the runs with their properties, a mutant
for every property (the change of the code it must notice), the source lines
behind every definition, the hazards, the findings and the theorems.

## 1. The system

The plugin lets Snakemake use ECMWF's FDB as storage. A *query*
(`fdb://class=od,...,step=0/6/12`) is one storage object: it stands for the
fields a MARS request expands to, and for one local GRIB file whose path
(`class=od/.../step=0+6+12.grib`) is computed from its text. FDB is a shared,
append-only store: archiving a field again *masks* the older one, nothing is
ever deleted, a flush stamps the fields it publishes with the second of FDB's
clock, and other processes archive at any time.

| Component | Code | State it keeps | Operations | What makes it correct |
|---|---|---|---|---|
| Store step | `__init__.py` `store_object`, `archive_messages`, `_archive`, `_post_check*` | an archiving handle per thread (`Backend._local`), the process's reference time `run_time` | check, archive, flush, post-check; three forms of the output | success means every field of the query is in FDB, fresh; failure says what stays; nothing of one job is published with another's |
| Lookups | `_fields`, `_exists`, `inventory`, `exists`, `mtime`, `api.exists`, `Backend.inspect`, `check_roots` | Snakemake's inventory cache; a catalogue per handle | look up, cache, report what is missing | an answer is not older than its question and is never taken back |
| `remove`, glob | `remove`, `list_candidate_matches` | `_REMOVE_WARNED` | refuse or speak; list candidates | what is said of an output holds; a candidate exists |
| Retrieval | `retrieve_object`, `Backend.retrieve_to`; `api.messages` | `<dest>.part` | lookup, read, byte count, rename; retries | a local file is complete or absent |
| Process environment | `_prepare_environment`, `_export_fdb_config`, `_fdb_config` | `os.environ` and the module globals `_FDB_EXPORTED`, `_FDB_EXPORT_CONFLICT`, `_FDB_ENV_BEFORE` | construct a provider, find its schema; spawn a job | jobs open the workflow's FDB, with its schema and a usable `METKIT_HOME`; the user's settings survive |
| Run summary | `summary.RunState` | dicts and sets of queries under one lock | record a lookup, a store, an incomplete query | counts are what the run archived and masked |
| Rerun trigger | `rerun.decide`, `covered_by`, `field_set` | Snakemake's record of a job's inputs, the cache of expansions | decide after an edit | no field goes unread, no job reruns for a notation |
| GRIB stream | `grib.stream_messages` | bytes read ahead | read, yield | the messages of the source, whatever the reads return |
| Local paths | `query.py`, `postprocess_query`, the constructor's guard | the record of normalised queries | declare, substitute, read a path back | the path of the substituted query is the substituted path |
| Request expansion | `Backend.expand`, `fallback_expand`, `spelling_diffs` | none | expand, count, compare spellings | the expected number of fields `E`; one spelling per set of fields |

They interact through FDB, which all reads and writes share, through `E` and
`_fields()` (one `inspect` with a fresh handle, filtered), on which lookups,
post-checks and retrievals rest, through the process environment, which spawned
jobs inherit, and through `RunState`, which lookups and store steps feed.

What is hard here: nothing is transactional. A lookup and the read that follows
it are two moments; the post-check judges by counting fields whose time is a
whole second; several threads and processes archive overlapping queries; a
batch may fail in the middle of FDB; FDB matches queries *through* keys fields
lack, and leaves out what is under a root it cannot read; a killed retrieval
leaves files; answers are cached while others archive; texts recorded in one
run are compared in another process, which may expand them differently.

Smaller parts (`touch`, the parsers of the schema and of the configuration,
error texts, the command line) are listed as components with the reason they
are left out.

## 2. Modules

| Module | Models | Proofs in |
|---|---|---|
| `Requests` | schema, queries, field keys, messages; expansion, what counts for a query, every check made before the first `archive()` | `RequestsProofs` |
| `MaskingStore` | what the plugin promises of FDB outputs: the abstract store | |
| `StoreStep` | the write path of several jobs on one FDB; implements `MaskingStore` | `StoreStepProofs` |
| `Lookups` | the read side, composed with `MaskingStore` | `LookupsProofs` |
| `Retrieve` | `retrieve_object` and `api.messages` | `InputsProofs` |
| `Environment` | the environment of a process and of those it spawns | `EnvironmentProofs` |
| `RunSummary` | `summary.RunState` | `RunSummaryProofs` |
| `Rerun` | the rerun trigger over edits and runs | `InputsProofs` |
| `GribStream` | `stream_messages` | `GribStreamProofs` |
| `LocalPath` | paths, substitution, the guard | `QueryTextProofs` |
| `Expand` | `fallback_expand` | `QueryTextProofs` |

Each component `X` is instantiated for TLC by `MCX` (`StoreStep` by `MCStore`);
these modules give the constants small values and add nothing else. Two proof
modules extend two components each, because their proofs share lemmas or belong
to one story (what a job gets of its inputs: the file and the rerun; what the
text of a query tells: its fields and its path); to make that possible `Rerun`
and `Expand` have their own names for the specification (`RerunSpec`,
`ExpandSpec`).
Definitions marked `\* mutant` stand before the definition they are a broken
version of; no specification uses them. The definitions below the heading
"What these rest on" of a module are the parts of the inductive invariants of
its proofs.

### Requests, MaskingStore and StoreStep

A value is a *spelling*; `Canonical` is metkit's canonical form of it (`360m`
is `6`) and `Comparable`/`KindOf` the plugin's light normalisation. A query
lists values per key, says which keys are written as `to`/`by` ranges, and, for
ranges only metkit can read, the items of the text (`verbatim`). A field key
has the schema's mandatory keys, perhaps optional ones, none of the removed
ones. `Matched` is FDB's matching, through absent query keys; `Counted` is
what `_fields()` keeps of it. `Misfits` collects the checks `archive_messages`
makes of the messages, in both archive modes, besides their number.

`MaskingStore` has the clock, the timestamps of the fields and the accepted
store steps: fields appear, get newer, and a store step is accepted only when
the fields of its query are there since the second it asks for.

`StoreStep` follows one job per thread at a time. `stamp` and `holds` are FDB's
index (time and message of each field), `buffer` the handles. `pc` is the
place in the code:

- `check` → `archive` (messages go into the handle one by one) → flush →
  `inspect` (post-check) is `archive_messages`, in the store step (`side` is
  `store`) or in `api.archive` in the job's own process (`side` is `job`);
- `rescue` is the best-effort flush of `_archive` after a failure;
- `marker` → `inspect` is the store step of an output left as a marker;
- `plain` → `inspect` is a job that archives with pyfdb and leaves an empty file;
- `exit` is the end of the process of a failed job, or of one that was spawned
  for the job and its store step, in which FDB may flush.

`Spawned` are the kinds of jobs that run with their store step in a process of
their own. The job's process may have another expansion than the one of the
store step (`JobMetkit`), so that a marker may count otherwise than the store
step expects. `Inspected` is what one `inspect` finds, which is less than FDB
has if a root is unreadable just then; the roots are checked afterwards, when
they may be back. `denied` remembers every job that ended with an error which
does not say that fields stay, and where it was raised, so that
`ErrorsSayFieldsStay` also sees what a later store of the thread publishes.

`Fresh` compares with `since`: `t_start` for files and markers, the process's
`run_time` for empty files. Every error ends with the `outcome` that its text
stands for (`refused`: nothing archived, `stay`: the fields stay, `error`: no
statement). FDB's part (`Publish`, `Matched`, `SchemaAccepts`, `AsField`) is
external, taken from how the code uses it; a native batch handed to one
`archive()` is taken message by message, so that it can fail in the middle.

### Lookups

A lookup of a reader thread is `Begin` (the cache, the policies, the checks of
spelling and of a glob's constants), `Read` (a fresh handle reads FDB's
catalogue, less what is under an unreadable root), `ReadRetried` and
`ReadFails` (only what `map_error` does not know is retried), `LookupRaises`
(`check_roots`), and one of the answers `TellExists` (`exists`, `mtime`,
`api.exists`, and the inventory, which fills `cache`), `TellRemoved` and
`TellListed`. `begun` remembers the second a lookup began in: what is newer than
a cached time was archived since then. The store below is `MaskingStore`, whose store steps are those
`StoreStep` is proved to make; roots become unreadable and readable again.

### Retrieve

`version` is how often a field was archived; a message's length depends on it.
`Lookup` is the `inspect` and completeness test, `Open` the second read of FDB,
`Copy` the loop, `BytesDiffer`/`Replace` the byte count and `os.replace`.
Every failure removes the part file (`AttemptFails`); transient ones are
retried from `Open`, with the lookup's lengths. `Through` are fields a read
matches but a lookup does not count. The copy (`part`) may end anywhere in what
the handle should deliver (`view`); the properties are about such short copies
too. What they except is a handle that ends early and makes up for what it
lacks, in bytes or in messages, with others the lookup did not count
(`AsCounted`).

### Environment

Providers plan definition path and home (`Plan`) without the lock, and are
refused there for a home without a language file; they finish under the lock
(`Finish`), where the three ways of `_export_fdb_config` are `KeepEnvironment`,
`Conflict` and `Export`; then, without the lock again, each finds its schema
(`ResolveSchema`), one without a configuration in the environment as it is by
then. `Spawn` continues in a process with the same environment and fresh
globals.

### RunSummary

A lookup is four steps: `Inspect` reads FDB, `RecordLookup` is the locked part
of `record_lookup`, `RecordTransition` its unlocked end, `RecordResult` what
`_exists` records. A store step archives (`Store`) and records (`RecordStore`).
Jobs elsewhere, failing jobs and others (`ForeignArchives`) change FDB only;
`failed` and `foreign` remember which queries' fields they archived. What others
archive before the first lookup of a query is part of the initial states.
`outdated` are the produced queries whose last answer was read before their job
ended. No field belongs to two queries: the block of overlapping queries counts
their common fields once for each.

### Rerun

`record` is what Snakemake recorded, a bag of texts; `Edit` changes the inputs
and starts a new process (another choice of what cannot be expanded, and of
metkit being available); `RunJob` runs the job when the trigger says so.
`made` remembers the inputs the output was really made from. `Names` are the
fields metkit expands a query to, `Words` what `fallback_expand` makes of it
(`FieldSet` is either), and `Verbatim` the queries whose range it cannot read
and keeps word by word.

### GribStream, LocalPath, Expand

`GribStream` keeps section 0 of 16 bytes small (`Header`), with an early header
for edition 1 and a longer one for edition 2; a `readinto` returns any positive
number of bytes. The reference definition `Split` reads the source at once.
An unknown edition, which raises like a truncated header, is not distinguished,
and how a header encodes the length (large GRIB1 messages: in units of 120
bytes) is left out.

In `LocalPath` a text is a sequence of one-byte tokens. Snakemake's part
(substitution, matching a requested path) is external.

`Expand` works on the items of a value. The reference `Meaning` says what
metkit makes of the request.

## 3. Runs

| Run | Question | Bounds and why they are enough |
|---|---|---|
| `store_file` | do store steps of files implement the abstract store, does a stored file's own data land, and are only bad files rejected? | two threads, two jobs, three seconds, one foreign write; two overlapping outputs, one a range, good, incomplete, duplicate, misplaced and schema-violating files, and flushes that fail. Two stores suffice for one to mask, precede or imitate the other |
| `store_jobs` | do store steps of all three forms end, accept nothing incomplete, leave their handles empty, and do errors say what stays? | identifier mode, files, markers of jobs without metkit's expansion and empty files of spawned processes, failing `archive` and `inspect`, unreadable roots; one output with a quantile, and a range of four steps that ends in minutes, which a job without metkit counts as three values. One thread: what a second one does to FDB a foreign writer does too, and handles are a thread's own |
| `lookups` | are answers fresh, and does what they said stay true? | one reader, two lookups, one store step, two seconds, two flushes or lost roots, both strict and lenient settings: one lookup sets up what the second or a later flush could contradict; readers share only FDB, the cache and the registry of warnings |
| `retrieve` | are files complete and streams exact under failures and concurrent archives; does the byte count catch both too much and too little? | two fields and one matched through, handles that end early, two archives of others, two retrievals, three attempts as in the code |
| `environment` | which FDB do jobs open, whose schema is read, what is left of the user's settings? | four providers (two equal, one different, one without configuration), two threads, one spawn, five initial environments that name no FDB or another, with homes and definition paths that hold all, some or none of the providers' directories |
| `summary` | are the counts exact under concurrent lookups and stores? | two queries, of two fields and of one, two threads, three lookups of the first and two of the second, one failed job and one query that others archive fields of, from any state of FDB (three million states) |
| `rerun` | does the trigger miss or invent changes over several edits? | three edits; queries that overlap, are equal in other spellings, split, too large, fail to expand, or have ranges with units, one of which has no word that the others lack |
| `grib_stream` | does the stream depend on how reads are cut? | up to three of twelve kinds of pieces, headers of four bytes, every cutting |
| `local_path` | do paths commute with substitution and tell their query (and so stay distinct)? | one and two keys, lists, components at and over the limit, four objects |
| `expand` | is the fallback right for what it reads? | one or two segments, steps in both directions, dates over the end of a month |

Two runs of a second kind, `environment_found` and `expand_fallback`, show a
*violation*: each states what a comment says, and TLC finds the code doing
otherwise (section 6).

Deadlock is not checked: every instance bounds the jobs, lookups, edits or
objects, and may stop when they are used up; the pure algorithms stop when they
are done. That nothing stops too early is what `StoreEnds`, `RetrievalEnds` and
`StreamEnds` say.

Properties say what a step or a unit test would hardly show. `StoredIsComplete`
relates the count a post-check took to the set of fields the query names, at
every later moment (`ImplementsMasking` implies it); `OwnDataLands` says whose
they are; `OnlyBadFilesRejected` is its counterpart. `KnownStaysComplete`,
`InventoryHolds` and `ListedAreFound` are about answers given earlier,
`FreshAnswers` and `StoredIsFound` about what was archived before the question.
`ExactUnlessRewritten` states the exact condition under which the byte count
suffices, `CountsAreExact` the one under which the summary does, and
`PathsCommuteUnlessDeclared` and `ConflictRestores` are what is left of
documented claims that do not hold as written.

`Fairness`: `StoreStep` assumes weak fairness of each thread's own steps (calls
into FDB return or raise, and the thread runs on; jobs need not start and the
clock need not move), `Retrieve` of the retrieval's own steps (not of
interruption, kills or other archives), `GribStream` of its only process, which
is a generator that is being consumed. Nothing is assumed about FDB succeeding.

## 4. Proofs

All theorems hold for every value of the constants that satisfies the module's
assumption (`RequestsAssumption`: finitely many keys and spellings, `Canonical`
idempotent; the others: queries, files, environments and settings are
well-formed): any number of threads, jobs, readers, providers, retries and
fields, any faults. Each rests on an inductive invariant, which TLC was asked
first.

| Theorem | Property | Inductive invariant and what carries it |
|---|---|---|
| `TypeCorrect`, `StoredStaysComplete` | `TypeOK`, `StoredIsComplete` | `StoreInv`, below |
| `StoreRefines` | `ImplementsMasking` | `StoreInv`: every step of the write path is a tick, a flush or an accepted store step of `MaskingStore`, or changes nothing there |
| `HandlesAreFlushed` | `HandlesFlushed` | `HandlesHold`: only code between its first `archive()` and its flush has messages in its handle. Assumes identifier mode and flushes that succeed (section 6) |
| `ErrorsAreTrue` | `ErrorsSayFieldsStay` | `DeniedIsGone`: the job of such an error has no message in FDB or in any handle, and no thread works on it any more, so that no later flush can publish one. With `FilesInv`, of which `JobsApart` says that handles are a thread's own, and `PlacesKnown` |
| `FilesLand`, `RejectedAreBad` | `OwnDataLands`, `OnlyBadFilesRejected` | `FilesInv`, below |
| `KnownHolds`, `AnswersAreFresh`, `InventoryIsTrue`, `CandidatesExist`, `StoredInputsAreFound`, `LookupsTypeCorrect` | `KnownStaysComplete`, `FreshAnswers`, `InventoryHolds`, `ListedAreFound`, `StoredIsFound`, `LookupsTypeOK` | `LookupsInv`: a catalogue is a past of FDB (`CataloguesPast`), what was there when a lookup began is read or under a lost root (`DueIsRead`), what is newer than what it read came after it began (`NewerIsSince`), answers consist of fields that count (`AnswersCount`); the rest is `CountedIsNamed` and the counting argument below |
| `ReportsAreExact`, `SpellingIsUnique` | `ReportsAddUp`, `OneSpelling` | each field found is one combination of the expansion (a bijection); a query that is not refused equals its own expansion (`AnsweredSpelling`) |
| `JobsReachTheFDB`, `DisagreementRestores`, `HomesAreUsable`, `SchemaIsOfItsFDB`, `DirectoriesAreKept`, `EnvironmentTypeCorrect` | `JobsOpenTheFDB`, `ConflictRestores`, `HomesHaveLanguage`, `SchemaFitsFDB`, `DefinitionsKept`, `TypeOK` | `EnvironmentInv`: providers that agree are alone in the environment (`AgreedIsExported`), what is on record is what the process started with (`ExportsRecorded`), what waits for the lock is still right when it gets it (`PlannedHomesOK`, `PlannedPathsKept`) |
| `FilesAreComplete`, `FilesAreExact`, `StreamsAreExact`, `NoPartRemains`, `RetrieveTypeCorrect` | `DestComplete`, `ExactUnlessRewritten`, `StreamExact`, `PartRemoved`, `TypeOK` | `RetrieveInv`: between lookup and read nothing leaves FDB (`LookupComplete`), what is copied is a part of one read (`ViewOfFDB`). Lengths are positive, so a proper subset of the messages has fewer bytes (`PartHasFewerBytes`, by induction over finite sets), and a copy of messages as the lookup counted them has as many bytes as it counted only if none is missing (`CopyAtMostCounted`) |
| `ChangesAreNoticed`, `NotationDoesNotRerun` | `NoMissedChange`, `NoNeedlessRerun` | `RecordIsOfMade`; the rest is about bags: a text of the inputs is matched to at most as many recorded ones |
| `CountsExact`, `ProducedAreComplete`, `OnlyOwnCounted`, `ArchiveModeLine`, `SummaryTypeCorrect` | `CountsAreExact`, `ProducedNotIncomplete`, `OthersNotCounted`, `ArchiveModeLineTrue`, `TypeOK` | `SummaryInv`: what a lookup saw beyond the start is counted or about to be (`SeenIsCounted`), a produced query is whole for every later lookup (`ProducedWhole`), the first lookup of a query nobody else archives saw what the run found (`FirstLookup`), lookups agree while nobody archived (`OthersSeenOnce`) |
| `StreamYieldsTheMessages`, `StreamTypeCorrect` | `YieldsTheMessages`, `TypeOK` | `StreamInv`, below |
| `ExpansionIsExact` | `RangesExact` | `ExpandInv`, below |
| `PathsTellQueries` | `PathTellsQuery` | `QueriesParse`: every object's query is one of the grammar, although only declared ones were parsed; then `PathReadBack`, below |
| `PathsCommute` | `PathsCommuteUnlessDeclared` | `PathInv`: a pattern's file is the path of its query (`Pattern`), every file is laid out of components (`Laid`); below |

`StoredIsComplete`: a post-check that passes has counted at least as many fresh
fields as messages (`Enough`), and as many messages as `E` (`CountsMatch`,
because `archive_messages` and the marker's check compared these first; an
empty file is compared with `E` itself). What is counted is among the fields
the query names (`CountedIsNamed`), and these are at most `E`
(`NamedAtMostExpected`: every named field is the image of a combination of the
expansion). A subset of a finite set with at least its cardinality is all of
it (`EnoughIsAll`). It stays true because timestamps never go back
(`StampsNotAhead`, so a flush never makes a field older) and FDB deletes
nothing. Hence the inductive invariant

    StoreInv == TypeOK /\ StampsNotAhead /\ CountsMatch /\ SinceReached /\ StoredIsComplete

in which `StoredIsComplete` needs `StampsNotAhead` to survive a flush and
`CountsMatch` to be established, and `SinceReached` (the second a post-check
asks for has been) makes an accepted step one the abstract store can take. The
theorem assumes a schema the plugin can read and, without metkit, a query it
can expand: `NamedAtMostExpected` is false for a verbatim range, which the run
`expand_fallback` shows.

`OwnDataLands` and `OnlyBadFilesRejected` are the pigeonhole principle in both
directions. `MessagesPlaced` says that a message of a job is nowhere but under
the field it becomes, `MessagesKept` that what FDB took is in the handle and,
after the flush, in FDB, not older than the post-check asks for. If the
messages become as many distinct fields as there are messages, and all count,
the post-check finds enough; if it found all fields of the query and other
writers kept away, each of them is a message's.

`YieldsTheMessages` compares the reader with `Split`, a recursive function over
the whole source. `StreamInv` says for each place in the code where the reader
is in the source (`AtByte`): what it yielded, followed by what `Split` makes of
the rest, is what `Split` makes of everything, and the bytes it holds (`head`,
`buffer`) are those between there and what is left. A `readinto` only moves the
border of what is left; that it may return any positive number of bytes needs no
bound.

`RangesExact`: before each turn of the loop the values are those of the first
segments, and the next item is where the text of the next segment starts
(`SegmentsTaken`). `TextSplit` cuts a text at a segment, `AtSegment` shows that
the loop takes neither a range for values nor a value for a range there,
because the segment behind starts with a value and never with `to` or `by`;
`RangeMeans` is the arithmetic of `Steps`, in both directions, with and without
the last value.

`PathReadBack`: the suffix is cut off the last component only (`CutPath`);
behind a prefix, whose parts are no pairs, the parts are pairs from the first
key on (`CorePair`), one for each key of the query (`KeysInOrder`), and joining
with `+` is undone because no value has a `+` (`JoinedType`). A hashed component
starts with the mark, which starts no value.

`PathsCommuteUnlessDeclared`: substitution distributes over `FlattenSeq`
(`SubstituteFlatten`), over the components of a file name (`SubstituteFile`)
and, for values without `/`, over the `+` of a component
(`SubstituteComponent`), so that the substituted name is the path of the
substituted query (`SubstitutedSuffix`). A value that is a part of a requested
path might have a `/`, but in a file name every `/` is followed by a key and
every key but the first follows one (`FileTokens`). What follows the value is
the rest of the pattern's component, or another value, which the valid job's
query holds as well: neither begins with a key. So the value has no `/`
(`SlashFree`, `MatchedWords`). A component of the pattern that is hashed has no
wildcards and is hashed in the job's query too, which the constructor accepts
only if that was declared.

These definitions are recursive, over the positions of a sequence or the
elements of a set. The induction theorems of the library cannot be applied,
since they take a predicate as a parameter. The proofs take the set of numbers
for which a claim holds and show that it is all of them, by the
well-foundedness of `<` (`NaturalsBySteps`) or of the subsets of a finite set
(`SubsetsByParts`); that the recursive functions exist is proved in the same
way (`FlattenExists`).

Only model-checked: everything under fairness (`StoreEnds`, `RetrievalEnds`,
`StreamEnds`), which is out of the prover's reach. Every invariant and every
action property of the passing runs is stated by a theorem.

## 5. Not modelled

- FDB itself beyond what is described above: `purge`, remote FDBs, a handle
  that has read before (every read of the code opens a fresh one; a mutant of
  `Lookups` shows what would happen otherwise).
- Settings of `env` other than `METKIT_HOME`, those that name FDB variables
  included, `ECKIT_EXCEPTION_IS_SILENT`, and warnings, whose registries decide
  only whether a line is logged.
- A schema file that an environment's configuration names but that cannot be
  read (the key order is then the generic one), and the parsers of schema and
  configuration.
- Texts of errors, except for what they say of fields that stay in FDB and how
  many combinations a report names; how failures are told apart by pyfdb's
  texts.
- How the run summary hooks into Snakemake's logger, and the words of its lines.
- The order and the repetition of the values of a list: `Requests` and `Lookups`
  have sets of values, and compare a written value with its expansion value by
  value. Two orders of one list have two local paths, which is documented (L-1)
  and not a difference of spelling.
- Relative dates: the fields a query names do not change from day to day. In
  `Rerun` they are those of the day of the decision, for recorded queries too.
- The lexical grammar of keys and values, and the values of `comparable()`,
  which are constants of `Requests`; wildcards whose values are not single
  MARS values (an assumption of `LocalPath`).
- The components listed as `not_modelled` in `PROJECT.json`.

## 6. Where the code and its texts disagree

Shown by a run:

| Run | The code | The text it disagrees with |
|---|---|---|
| `environment_found` | an environment equal to one provider's exports is replaced by a disagreeing provider | `__init__.py:483`, `tests/test_direct.py:521` |
| `expand_fallback` | a range with a unit under-counts | `backend.py:365` |

Met while modelling, and the reason why a property is stated with a condition
or not at all:

- A post-check whose lookup fails (`__init__.py:1219`) does not say that the
  fields stay, and neither does the error about the count of a marker
  (`__init__.py:1293`), against `docs/design/requirements.md:1738`: conditions
  of `ErrorsSayFieldsStay`.
- A native batch is one `archive()` call. If FDB rejects it in the middle, and
  keeps what it took, `_archive` re-raises without a flush (`__init__.py:1464`)
  and the next store of the thread publishes it, against `__init__.py:1127`:
  `HandlesFlushed` and, for errors of `archive()`, `ErrorsSayFieldsStay` are
  checked and proved with identifiers.
- A message that landed outside its query is never masked by stores of the
  query, against the note of `__init__.py:117`.
- The byte count's own error is retried (`backend.py:635`), against
  `docs/design/requirements.md:676`.
- The roots are checked after the read (`__init__.py:924`): one that is
  repaired in between lets fields look missing, which `FreshAnswers` excepts,
  and makes a post-check reject a good file, which `OnlyBadFilesRejected` does. A
  glob is not followed by that check at all, so an unreadable root makes it
  come back short, against `docs/design/requirements.md:1851` ("an unreadable
  root as a whole is an I/O error").
- A data handle that ends early may make up for the bytes it lacks with fields
  that match through a key, or with messages that were archived again and are
  longer; the byte count then agrees and a file without all its fields takes its
  place, against `docs/design/requirements.md:619` ("interrupted or short
  retrievals must never look like valid inputs"). So may a stream's count of
  messages, against `api.py:276` ("a stream that ends early raises as well"):
  conditions of `DestComplete` and `StreamExact`.
- The combinations reported missing compare all keys of the query with the
  field's (`__init__.py:982`): if the schema marks one `key-`, or if values
  stay uncanonical without metkit, every combination is reported, against
  `__init__.py:990`: the conditions of `ReportsAddUp`.
- `remove` says that an output still looks complete with at least `E` fields
  (`__init__.py:1515`), where lookups ask for exactly `E` (`__init__.py:945`).
- `parse_schema` merges the decorations of all rules (`backend.py:315`): a key
  that one rule marks `key-` is required of no field, of other rules either.
- A provider without a configuration that is built before a configured one
  reads the schema of one FDB and opens another later: the condition of
  `SchemaFitsFDB`.
- Two different `eccodes_definitions` make the second use of the first one
  prepend its directories again (`__init__.py:430`), against `__init__.py:428`:
  the condition of `DefinitionsKept`.
- Store steps in the jobs' processes count as direct archives in the main
  process (`summary.py:75`), against `docs/design/requirements.md:1278`: the
  condition of `ArchiveModeLineTrue`.
- A lookup that read FDB before a job ended, and records its answer after it,
  lists the produced output as incomplete until the next answer, against
  `docs/design/requirements.md:1288`: the exception of `ProducedNotIncomplete`.
- Fields others archive between two lookups of a query count as the run's
  (`summary.py:97`). L-35 says so of those a later lookup sees;
  `docs/design/requirements.md:1284` calls them "what the run archived": the
  exceptions of `CountsAreExact` and `OthersNotCounted`.
- Without metkit `covered_by` compares the words of ranges it cannot read
  (`backend.py:384`): after `0/to/12h/by/3h` and `0/to/24h/by/6h` were read,
  `0/to/24h/by/3h` is covered word by word and its job does not rerun, although
  15h and 21h were not read, against `docs/design/requirements.md:1128`: the
  exception of `NoMissedChange`.
- The text of a query-tracked input that is removed passes for one of a
  lookup-tracked input (`rerun.py:49`), against
  `docs/design/requirements.md:1167`.
- A substituted query that was also declared as a constant is hashed
  (`__init__.py:712`), against `docs/design/requirements.md:256`: the condition
  of `PathsCommuteUnlessDeclared`.

## 7. Plan

Done, in this order: the write path, the read path, the environment, the
summary, the rerun trigger, the stream, paths and the expansion; the abstract
store with the write path's refinement, and the lookups on top of it; homes and
schemas in the environment; the proofs of the table in section 4.

Next, extending the model:

1. `Workflow`: producer, store step, consumer lookup and retrieval in one
   module over `MaskingStore`, with failed jobs that are removed and rerun.
2. An abstract read for `Retrieve` (a file appears at once with one state of
   FDB), shown to be implemented where `ExactUnlessRewritten` holds.
3. The grammar of queries over tokens, with `comparable()` computed instead of
   given.
4. Settings of `env` that name FDB variables, in `Environment`.

Then the proof that `Retrieve` implements the abstract read of item 2, and the
properties `Workflow` needs of `MaskingStore`.
