# A formal model of mapper-be

TLA+ specifications of the mapper backend (`github.com/peacewalker122/mapper`),
model-checked with TLC and, where marked, proved with TLAPS. Paths are relative
to the root of the repository; `tus.go:362` and the like are line numbers.

## 1. The system and its parts

| Component | Source | State it keeps | Operations |
| --- | --- | --- | --- |
| TUS upload handler | `upload/tus/tus.go` | `uploads` (id -> session: length, offset, open staging file), `completed` (id -> file id), the staging directory; all under one `sync.Mutex` | `create` (POST), `patch`, `head`, `terminate` (DELETE), `FileID`, `Close`; inside: `append`, `finish`, `abort` |
| Temporary file store | `filestore/tempfile/store.go` | a directory, `metadata` and `closed` under an `RWMutex` | `Save`, `Open`, `Delete`, `Close` |
| Executor | `executor/*.go` | none between calls; one call keeps the reader, the compiled plan, the result so far | `Import`, `CompilePlan`, `ValidateMapping`, `Execute`, `Convert` |
| Source adapters | `source/csv`, `source/xlsx` | a row reader per call | `Analyze`, `Open`, `Next`, `Close` |
| Schema registry | `mapper/registry.go` | `schemas` under an `RWMutex` | `Register`, `Get`, `List` |
| Service | `mapper/service.go`, `mapper/import.go` | references to the others, and a registry of its own unless it is given one | `RegisterSchema`, `Schema`, `AnalyzeFile`, `Import` |
| HTTP API | `mapperhttp/*.go` | none | `GET /schemas/{id}`, `POST /files/analyze`, `POST /imports/sync`, `POST /mappings/suggest`, mounted upload extensions |
| Suggesters | `suggest/suggest.go` | none | fuzzy: Levenshtein over normalized names; Jev: one upstream call per column, any failure falls back to fuzzy |

**How they interact.** An HTTP request runs in its own goroutine. A TUS upload
ends in `finish`, which hands the staging file to a `FileWriter` (the store's
`Save`); a multipart analysis calls `Save` itself. `AnalyzeFile` and `Import`
call the store's `Open` with the file id and give the reader to the source
adapter. `Import` gets the schema from the registry, compiles the mapping and
calls the application's `ImportProcessor` once per accepted row. Nothing is
persisted but the files: after a restart the metadata, the uploads and the
schemas are gone.

**What is hard.**

* TUS: the handler's mutex is released during the copy of a body, during
  `Save`, and between `append` and the check for completion, so requests of one
  upload interleave; bodies are cut; a client retries a PATCH whose answer it
  lost; `DELETE` and `Close` come in between.
* Store: every operation is two or more system calls and a critical section;
  `os.RemoveAll` is not atomic; the process can die while a file is written.
* Import: the context can be cancelled between any two lines; the processor is
  foreign code with effects of its own; details are limited, counters are not.
* Mapping: a mapping names columns by index, rows are keyed by column name, and
  the way back from names to indices has several fallbacks.
* API: an import passes through five parts, any of which may be missing, fail,
  or change between the analysis and the import; its error becomes a status by a
  search through a Go map, and the client decides by that status whether to try
  again. Two pieces of code find the header of a file, one for each request.

**What makes each correct.** TUS: an upload is saved once, with the client's
bytes, its answer names the saved file, its staging file goes away, it never
comes back. Store: a saved file stays as saved, a failed save leaves nothing, a
closed store holds no data. Import: a nil error means every row was dealt with
and counted once; details are the first errors. Mapping: each target gets the
cell of its own column, a required target is never nil. API: what was handed out
can be used, what the analysis showed is what the import reads, and an answer
that blames the request means that nothing was done. The list of hazards in
`PROJECT.json` names the line where each of these could go wrong.

## 2. Modules

| Module | Models | Checked by | Proved in |
| --- | --- | --- | --- |
| `TusHandler` | the TUS handler | `MCTusHandler`, `Tus*.cfg` | `TusHandlerProofs` |
| `ResumableUpload` | what an upload is to clients and to the store | `Tus.cfg`, as `ImplementsUpload` | `TusHandlerProofs` |
| `TempStore` | the file store | `MCTempStore`, `Store.cfg` | `TempStoreProofs` |
| `FileStore` | what a file store promises its callers | `Store.cfg`, as `ImplementsFileStore` | `TempStoreProofs` |
| `ImportRun` | one call of `Executor.Import` | `Api.cfg`, through `MapperApi`; `ImportCounters.cfg` | `ImportRunProofs` |
| `SourceAdapters` | how CSV and XLSX files are analyzed and opened | `Api.cfg`, through `MapperApi` | `MapperApiProofs` |
| `MapperApi` | the HTTP API, the service and the checks of `Import`, composed with the two above | `MCMapperApi`, `Api.cfg`, `ReadmeRegistry.cfg` | `MapperApiProofs` |
| `RowMapping` | plan, validation, conversion, and the adapters' row maps | `MCRowMapping`, `Rows.cfg`, `RowsSecondSheet.cfg` | `RowMappingProofs` |
| `SchemaRegistry` | the schema registry and the slices it shares | `MCSchemaRegistry`, `Registry.cfg` | `SchemaRegistryProofs` |
| `FuzzyMatch` | the fuzzy suggester | `MCFuzzyMatch`, `Fuzzy.cfg` | `FuzzyMatchProofs` |
| `SuggestMappings` | the suggestion request and the Jev suggester | `MCSuggestMappings`, `Suggest*.cfg` | `SuggestMappingsProofs` |

How they fit: `MapperApi` EXTENDS `ImportRun` and `SourceAdapters` and has their
variables, and the property `ImportIsOneRun` says that it does to an import what
`ImportRun` alone does. It sees the TUS handler and the store as their
specifications promise: an upload is one file that appears at one moment
(`CompleteUpload`), an `Open` finds a whole file or none. Why it may: `TusHandler`
implements `ResumableUpload` and `TempStore` implements `FileStore`, both proved.

### TusHandler

A request goroutine is an element `r` of `Requests`; `pc[r]` is where it is
between two critical sections, `req[r]` its method and upload, `io[r]` the
append in progress, `ans[r]` its answer. `live` is the key set of `h.uploads`,
`session`, `completed` the two maps, `staged[u]` the bytes of the staging file,
`onDisk[u]` whether its path still names it, `stored` what the `FileWriter`
holds. Each critical section of `tus.go` is one action:

| Code | Actions |
| --- | --- |
| `create` 172-194, then 196-223 | `CreateEmpty`, `CreateWithContent`, `CreateWrongType` (all through `Register`) |
| `patch` 270-289, 274-279, 300-321 | `PatchAccept`, `PatchConflict`, `PatchNotLive`; `PatchMissing`; `PatchResult` |
| `append` 344-349, 351-354, 355-360, 361-366 | `AppendLookup`; `CopyRead`, `CopyWrite`, `CopyCut`; `CopyEnd`; `Credit` |
| `finish` 370-391, 397-402, 403-411, 412-415, deferred | `FinishClaim`; `FinishOpen`; `FinishSave`; `FinishPublish`; `FinishCleanup` |
| `abort`, `head`, `terminate`, `Close` | `Abort`, `Status`, `Terminate`, `Close` |
| every early return without effect | `Refuse` |

The body of a chunk is read and written a byte at a time, because two `io.Copy`
into one file interleave by blocks. A byte is named by its position in the
client's data, so that a lost byte can be told from a repeated one. `FatalMapRace`
is the unlocked read of `h.completed` (274) meeting its write (413): the Go runtime
may stop the process. Abstracted: headers and metadata, `MaxSize`, error texts, the
id syntax. The `FileWriter` is taken by its contract (a fresh id and a whole copy,
or an error); `TempStore` models the implementation.

Clients differ from upload to upload. An upload in `Patient` has one request in
flight at a time; the bodies of one in `Steady` come as declared, and its staging
file syncs (`MayFail`). The others race and break as they like, in the same
handler. `Ownership` says whether the staging directory may be the handler's own,
the caller's, or either.

Two `PATCH`es accepted at one offset are both credited (tus.go:286 checks under the
lock, 362 credits after a copy outside it), so the offset of an upload that is not
in `Patient` can pass its length; `finish` then refuses it, and it stays in the
table until `Close`. No doc, comment or test says what is promised to a client that
sends a `PATCH` twice at once, so it is no finding; the two properties it would
break name it. `OffsetWithinLength` is asked of `Patient` uploads, and
`FullyReceived`, the condition of the liveness property, leaves out an upload while
a `PATCH` that was accepted before the last byte was credited is still copying.

`DELETE` of an upload that is completed, or in `finish`, answers 204 and changes
nothing. The model has it; no property speaks of it, because nothing in the
repository does.

### ResumableUpload

An upload without goroutines, tables or staging files: its `life` (absent,
receiving, finishing, then done or gone), the `length` it declared, its `offset`,
the stored files and the upload each is from, and `told`, the pairs of an upload
and a file id some client was given. A life only goes forward, an offset never
goes back and only an upload that has received all it declared is finished;
`Complete` makes one file of it, under an id no other file has; and nobody is
told of a file that is not of that upload. The refinement mapping (`Promise` in
`TusHandler`) reads `life` off the table, the requests in `finish` and the stored
files (`Life`), `offset` off the session while it is live, and `told` off the
answers. That an upload is saved once and never comes back is part of it.

### TempStore

An element of `Ops` is one call. `disk` is the directory (who wrote a file, and
whether the copy is complete), `root` the directory itself, `metadata` and
`closed` the fields under the mutex. Each system call and each critical section
is an action; `CloseClear` and `CloseRmdir` are the two halves of
`os.RemoveAll`. `CrashAndRestart` kills every call under way and starts a store
on the same directory, as `New(directory)` does; an owned directory is never
found again, so it is only offered to `~owned`. Two behaviours of the store are in
the model and in no property: a crash in `Save` leaves a partial file under a valid
name, which a restarted store would serve to whoever knows the id (nobody was told
it), and a `Save` that creates its file inside `os.RemoveAll` makes `Close` fail
once and leaves the empty directory behind, because every further `Close` returns
at once (store.go:213-219).

### FileStore

The store as its callers may think of it: a map of files, and calls that are
pending, take effect at one moment (`Save`, `Open`, `Delete`, `Close`) or `Fail`
without any, and return. `Open` yields the whole file as its save made it, and with
it the metadata of that save (store.go:153), which it finds in a step of its own
(`Describe`). `described` are the files whose metadata the store still has: when it
no longer does, because a `Delete` or a `Close` came in between or the process was
restarted, `Open` may make metadata up from the file (store.go:181) or fail, and it
may at no other time.
`Clear` removes the files of an owned store after the first `Close`; `Restart`
loses calls and keeps files. Under the mapping (`Promise` in `TempStore`) a file
exists from the moment its `Save` has registered it, under the lock, until
`os.Remove`; a partial file, a save that fails in the middle and the map entry
that outlives its file are invisible, which is the point of the proof.

### ImportRun

One call of `Import`. The source is a sequence of rows, each `good`, `bad` (the
plan refuses it) or `broken` (the reader returns an error); the processor
accepts or refuses; `Cancel` may come at any moment. `delivered`, `accepted` and
`refused` record what the processor saw, against which the counters are judged.
`Setup` is everything before the loop, in one step; `MapperApi` has it check by
check.

A row the processor refuses under a cancelled context ends the import
(executor.go:218) counted in `Processed`, and neither in `Succeeded` nor in
`Failed`. `CountersAreHonest` says what the code guarantees, this row included;
`CountersCoverEveryRow` is what mapper/import.go:31-32 says, and the run
`ImportCounters` refutes it.

### SourceAdapters

A file is a sequence of sheets, a sheet a sequence of rows: blank, unreadable,
or with values. `Open` finds the first row that is not blank and makes it the
header; `Analyze` finds the headers of all sheets, counts rows and numbers the
samples. CSV analyzes through its own reader; XLSX has a second search of its own,
which looks at every sheet and fails if any row of any of them is unreadable; an
analysis has a summary for each sheet with a header, under the sheet's number.
How the cells of a row are named is in `RowMapping`.

### MapperApi

One analysis (`probe`) and one import (`job`) of one file, each in its goroutine
step by step, while the application registers the schema, an upload completes,
the file is deleted, and the importing client hangs up, at any moment. A step is a
list of checks in the order of the code, each with what it answers; `FirstOf` is
the first that fails. Whether a request has the flaw a check looks for is chosen
by the step that looks.

| Code | Actions |
| --- | --- |
| `handleImport` (mapperhttp/import.go), `Service.Import` | `HandleImport` |
| `Executor.Import` (executor.go:108-177), up to the loop | `LoadSchema`, `OpenFile`, `FindColumns`, `OpenRows`, all through `Prepare` |
| its loop | `RunImport`: the actions of `ImportRun` |
| `writeError`, `StatusCode`, `ErrorCode` (mapperhttp/errors.go) | `AnswerImport`, `Replies` |
| `handleAnalyze`, `Service.AnalyzeFile` | `HandleAnalysis`, `SaveUpload`, `AnalyzeFile`, all through `Inspect` |
| `Service.RegisterSchema`, `Schema` | `RegisterSchema`, `Served` |

An error is the set of causes `errors.Is` finds in it, and the code of a
`MappingError`. `StatusCodes` has one status for each cause, because `StatusCode`
ranges over a map; only the application's own hooks can return an error with two
causes (`HookErrors`), and then either status may be answered. `SharedRegistry` is
whether the service was given the registry of the executor.

`Settings` is what an instance may start with: the adapter, whether its reader
seeks, the set of parts that are `missing`, what the file holds, whether a blank row
passes the plan (`blank`: it does when no required field is mapped), `FailFast` and
the hooks. The module asks of it only that a CSV file is one sheet, so a theorem
about every `Settings` is one about any deployment; what TLC takes of them stands in
`MCMapperApi`. `SaveUpload` has every way a multipart save can end, among them an
error after the `Save` itself succeeded (the close of the body, or an empty id),
which leaves the file stored; `FindColumns` has the rewind that fails.

The answer of an import that fails after some rows has no counters
(mapperhttp/import.go:35 writes the error alone): the client that hung up is the
one it would inform, and after a hook's or a reader's error it knows by the
status only that rows may have been delivered. A multipart analysis that fails
after its save leaves the file and tells nobody its id. Both are in the model.

### RowMapping

What decides whether a row is good, and what the processor gets. `Open`
(`columnsFromSource`, `openRows`), `Compile` (`ValidateMapping`,
`CompilePlan`), then `Row` for any row. Cells carry their position, so that a
record shows which column each slot came from. `SourceValues` and its two cases,
`ByIndex` and `ByName`, return a set: it has one element, except where the code
leaves the choice to the order of a Go map. `Aligned` names what the last two properties of `Rows` need: the file was
analyzed, its first sheet was asked for, and no column name repeats. Without the
first, `sourceValues` takes the columns in alphabetical order (executor.go:352);
without the second, rows and header come from different sheets
(`RowsSecondSheet`); without the third, `values` (csv.go:132) keeps the last of
two cells and both indices read it. No code enforces any of the three.

### SchemaRegistry

`Register`, `Get` and `List` by concurrent goroutines. What could go wrong is not
the map, which the lock guards, but the slices: a Go schema is a struct with a
reference to an array of fields, and the application keeps the slices it passed
in and got back. So fields live in a `heap` of arrays, `owned` is what the
application can reach and `Overwrite`s at any time, `local[c]` is the array a
call has in its hands between two steps. `Register` reads the caller's slice twice
without a lock: `RegisterValidate` is `validateSchema` (registry.go:37),
`RegisterClone` is `cloneSchema` (41), and an `Overwrite` may come before, between or
after. `raced` are the calls whose slice the application wrote to while `Register`
was reading it: a data race, so what such a call finds valid and what it copies is
any of the contents an application writes. `RegisteredIsValid` leaves those calls
out (the application broke Go's rules there, and an invalid schema may be stored);
`RegisteredNeverChanges` and `OneWinner` hold of them too. `RegisterInsert` is the
critical section; `GetRead` and `GetClone` are the two halves of `Get`, which clones
after unlocking.

### FuzzyMatch

`FuzzySuggester.SuggestResult` loop by loop, and `LevenshteinDistance` cell by
cell with its two row buffers, `previous` and `current`, which change roles.
`EachColumnItsClosest` judges the outcome against `EditDistance`, which is defined
without a table: the cost of the cheapest of all `Alignments` of two names. Names
are sequences of characters; `NormalizeName` is its loop, `Written`, one character
at a time, with `Write`, and what is trimmed after it. A confidence is a fraction,
kept as a pair.
A context that is done drops every suggestion (`Cancelled`).

### SuggestMappings

`POST /mappings/suggest` with either strategy. The Jev suggester asks the
upstream once per column; `ColumnAnswered` reads any reply of `Replies` through
`ParseReply`, which has every reading where several odds are equal (a Go map
decides); all that is assumed of a reply is that what the code takes for a number
is one (`RepliesAssumption`). A call that fails, times out, is cancelled or says nothing starts the
fallback: fuzzy matching of every column, taken by its contract. `Filter` is
`filterSuggestions`, with its loop as `Kept`. A request may be refused before all
that with any of `Refusals`. `FailsOnlyIfCancelled` states what the comment at
suggest.go:278-279 says, that an upstream failure falls back to fuzzy matching;
api/openapi.yaml:67-76 documents a 502 for it, which `SuggestUpstreamFails` refutes.

## 3. Runs

Passing runs:

| Run | Question | Bounds and why they are enough |
| --- | --- | --- |
| `Tus` | do racing requests on two uploads keep every safety property, look like an upload each (`ResumableUpload`), and finish what is fully received, with failing saves and a `Close` that finds a directory of either kind? | 3 requests (a creation and two writers that race, or a creation, a writer and a `DELETE` or `HEAD`, or creations of both uploads and a writer), length 2, so that chunks split and bytes of two requests interleave; two uploads, `u1` with every fault and racing clients and `u2` in `Patient` and `Steady`, and two file ids, so that one upload could get the bytes or the id of the other |
| `Store` | do four concurrent calls keep the store's promises, and look atomic to their callers (`FileStore`), in an owned directory, and in a given one with a crash? | 4 calls (save, open, delete and a second save or close), 3 ids, 2 attempts for an id, one crash |
| `Api` | is an import over HTTP one run of `Executor.Import`, with honest counters, an answer the client can act on, and the rows the analysis showed? | one analysis and one import of one file; tables of up to 3 rows under a header that is first or second, with a limit of 2 details, so that details overflow, files without a header, workbooks whose first sheet is empty or whose second cannot be read, all with a complete deployment and both hooks or none; a file of one good row with any hooks, and with any one or two parts missing |
| `Rows` | is a required target ever nil, does each target get its own column, and is a row refused for a cell of its mapping only? | every schema, mapping, header and row of width 2, rows one cell longer than the header, an index one beyond it, names that repeat and that spell the same index, readers that seek or not |
| `Registry` | do registered schemas stay valid and unchanged under concurrent calls and an application that writes to every slice it holds? | 3 calls (two claims and a reader), 4 arrays: one of the application and a copy for each claim and the reader; 2 ids and 2 names, so that claims collide by either. A `List` of two schemas would take a fifth array and is left to the theorems |
| `Fuzzy` | does each column get the first of its closest fields, by the edit distance and not by what the two-row computation makes of it? | names of up to 4 characters, so that the buffers swap several times; capitals, separators at both ends and between, empty names, fields without an id |
| `Suggest` | is every answer of one strategy, made of known fields and columns, filtered as asked, and does it always come? | 2 columns, so that the second can fail after the first was answered; replies whose parts agree, disagree, exceed 1 or name unknown fields |

`NilMeansAllRows` covers `FailFast` too: a nil error is returned there after the
first rejected row, and means that everything before it was dealt with.
`RefusedMeansUntouched` and `AnswersAreStable` leave the errors of the
application's hooks out: what those wrap is up to the application.
`FullyReceivedLeaves` leaves out the upload that a second `PATCH` may still push past
its length, see `TusHandler` above.
`AnalysisMatchesImport` speaks of an import without a sheet index, whose rows are
those of the first sheet with a header; `RowsSecondSheet` has the other case.

Runs that find a violation, each a disagreement between the code and what the
repository says of it (`findings` in `PROJECT.json` quotes the line):

| Run | What the code does |
| --- | --- |
| `TusResumeAfterCut` | a body that breaks off leaves its bytes in the staging file and not in the offset; the resumed upload has them twice |
| `ReadmeRegistry` | wired as README.md:8-14 shows, service and executor have registries of their own: `GET /schemas/{id}` serves a schema that every import of it calls not found |
| `RowsSecondSheet` | an import of sheet 1, which exists and was analyzed, reads the rows of sheet 0 under the header of sheet 1 |
| `ImportCounters` | a row whose `Process` fails under a cancelled context is in `Processed` and in no other counter |
| `SuggestUpstreamFails` | a failure of the upstream is answered 200 with fuzzy suggestions, where the API description has 502 |

Every property of a passing run has a mutant (`Slip...` operators, before the
definitions they stand in for): a definition changed the way a plausible mistake
would change it, under which TLC finds that property violated.

**Symmetry** is used in `Store` and `Registry`, over sets of model values the modules
never order or choose from, and in no run with a liveness property. The two runs of
`MCTusHandler` have the constraint `FirstUseInOrder` instead: goroutines are first
used in the order `r1`, `r2`, `r3`, and so are file ids. Every behaviour is such a
one with other names, and no fairness is asked of an arrival or for one id rather
than another, so that it loses nothing of the liveness property either.

**Fairness.** `TusHandler` has `WF_vars(Step(r))` for the steps that wait for
nobody (lock sections, local file calls, `Save`). A goroutine that can run is
scheduled, and a `sync.Mutex` does not starve its waiters. Nothing is assumed of
clients: an arrival, more of a body and its end are never fair, and neither is
`Close`. `FullyReceivedLeaves` therefore holds for the right reason: the request
that credits the last byte finishes the upload by itself, while every other client
may stall. `SuggestMappings` has
`WF_vars(Server)`: the goroutine runs, and a call to the upstream ends at the
latest by its timeout (suggest.go:379). Nothing is assumed of the upstream, and
the client may stay for ever. The other modules state safety only; an import ends
when its processor and its reader do, of which the code assumes nothing.

**Deadlock** is checked in every run; the modules have a `Terminated` (or
`Failed`) action for the states in which there is nothing left to do.

## 4. Proofs

### TusHandlerProofs

For every set of requests, uploads and file ids, every length and every set of
faults, whatever uploads are in `Patient` and `Steady`:

| Theorem | States |
| --- | --- |
| `TypeCorrect` | `Spec => []TypeOK` |
| `SavedOnce` | `Spec => []SavedAtMostOnce` |
| `AnswersAreStored` | `Spec => []AnsweredFileIsStored` |
| `RetiresForGood` | `Spec => RetiredForGood` |
| `NothingLeftBehind` | `Spec => []StagingReclaimed`, if `"open" \notin Faults` |
| `UploadsAreAtomic` | `Spec => ImplementsUpload` |
| `CreditedIsStaged` | `Spec => []AckedBytesStaged` |
| `StoredIsWhole` | `Spec => []NeverTruncated` |
| `OffsetStaysWithin` | `Spec => []OffsetWithinLength` |
| `StoredIsFaithful` | `Spec => []SteadyContentFaithful` |

None of these is inductive alone. `SavedAtMostOnce` needs to know why a second
`Save` cannot start: `finish` takes the upload out of `h.uploads` in the
critical section in which it decides to save, so at most one request per upload
is between `open` and `publish` (`OneClaimer`), such a request's upload is not
live (`ClaimedIsNotLive`) and, until it saves, has no stored file
(`ClaimedIsUnsaved`, `LiveIsUnsaved`); an id is drawn once (`FreshIsUntouched`).
For the answers, what is prepared for publication is stored (`PublishedIsSaved`),
what is published is stored (`CompletedIsSaved`), and every answer that names a
file is that of the table (`ResponseIsPublished`). The conjunction `Claims` of
these parts with `Typing` is the inductive invariant `IInv`; one lemma per
group of actions shows that a step keeps it. `StagingReclaimed` has a second
invariant, `FileIsHeld`: a staging file on disk belongs to a live upload or to a
request that will remove it. That is false when `os.Open` of an existing file
fails (tus.go:398 returns before the `os.Remove` is deferred), whence the
assumption.

`UploadsAreAtomic`: each action of `TusHandler` is a step of one upload or a stutter. A
step that a client or the store can see has a lemma of its own: `Register`
creates, `Credit` receives, `FinishClaim` finishes, `FinishSave` completes or
fails, an answer tells. All others are `Silent`: they neither create nor hand
over nor answer with a file, so that no life changes (`SilentStays`). The
invariants of `TusHandlerProofs` say why a visible step is allowed: the upload
`FinishSave` stores has no file yet, and the id in an answer is that of its file.

For the bytes, `Effect` sorts the steps by what they do to them (a chunk begins,
a byte is written, a chunk is credited, a complete upload is taken and stored, or
nothing), and every action has a lemma that says which it is. Each of the three
invariants that follow then has one lemma per effect:

* `BytesInv`, for any client and any fault. A goroutine whose copy got to its end
  has bytes in the file that it has yet to credit, and so may others. `Uncredited`
  is the set of all those bytes, and `Covered` says that the offset and their
  number together are at most what the file has: appends of two requests may
  interleave, but no byte is counted twice. Cardinality stands for the sum over
  requests, which no induction over data is needed for.
* `SerialInv`, for the uploads in `Patient`, whatever others do: the room an
  append was given is still there when it is used (`RoomIsLeft`), and only a chunk
  that fits is credited (`CreditFits`). That is the reading of `remaining` under
  the lock at tus.go:286 and its use after it.
* `FaithfulInv`, for those that are in `Steady` too, adds what the staging file holds
  while the client's chunk is copied: the client's data up to the offset, then up to the byte being written
  (`PrefixStaged`, `PrefixWritten`). A fault `cut` or `sync` leaves bytes behind the
  offset, `overlong` makes a chunk that is not credited: with either the property
  fails (`TusResumeAfterCut`), whence `Steady`. Every other failure, `Close` and
  `DELETE` are allowed, and every fault on other uploads.

### TempStoreProofs

For every number of calls, every set of file ids, every bound on attempts and
crashes, an owned and a given directory:

| Theorem | States |
| --- | --- |
| `TypeCorrect` | `Spec => []TypeOK` |
| `SavedFilesStay` | `Spec => []SavedFileAvailable` |
| `FailuresLeaveNothing` | `Spec => []FailedSaveLeavesNothing` |
| `MapAndDirectoryAgree` | `Spec => []MapMatchesDirectory` |
| `OpensAreWhole` | `Spec => []OpenedIsWhole` |
| `ClosedStoresAreEmpty` | `Spec => []ClosedStoreIsEmpty` |
| `StoreIsAtomic` | `Spec => ImplementsFileStore` |

The properties speak of calls that have returned; the inductive invariant `IInv`
has to say what a call in the middle guarantees. `O_EXCL` makes the file of a
`Save` its own (`OneSaver`), so a file on disk is that of a save that has not
failed, whole once copied and registered once returned (`FileIsSaved`); the
other way round, such a save's file is there unless a `Delete` or a `Close` of
the owned directory has begun (`FileIsKept`). An id reaches `Open` or `Delete`
only after its save has returned it (`UsersKnow`), so a `Delete` removes no file
that is still being written and what `Open` reads is whole (`ReadIsWhole`).
Between `os.Remove` and the second lock of `Delete` the map has an entry without
a file, and only then (`RemovedIsGone`, `EntryHasFile`, `EntryIsSaved`). The bytes
`Open` has read are of a save of that id that succeeded (`ReadIsOfItsFile`), and so
is an entry: the metadata it finds belongs to the bytes. And
after `Close` of an owned store, either the removal is still to come or a file on
disk belongs to a `Save` that has not yet reached its second look at `closed`
(`ClosedIsCleared`): that look (store.go:140) is what makes the directory end
empty. `LabelsFit` ties each label to its operation.

`StoreIsAtomic` names the moments at which a call takes effect: a `Save` when it registers its file under the lock, an `Open` at
`os.Open`, a `Delete` at `os.Remove`, a failing call where it gives up; the lookup
of the metadata is an abstract step of its own. A lemma
each shows that step to be the abstract one (`DecideShows`, `ReturnShows`), and
that every other step shows nothing (`NothingShows`); the inductive invariant
says that what an `Open` reads is whole, that a fresh id is not
one a save has returned, and that `Close` of an owned store still has to clear.

### SchemaRegistryProofs

For any number of calls, any ids, names and contents:

| Theorem | States |
| --- | --- |
| `TypeCorrect` | `Spec => []TypeOK` |
| `RegisteredStaysValid` | `Spec => []RegisteredIsValid` |
| `OneRegisterWins` | `Spec => []OneWinner` |
| `RegisteredIsImmutable` | `Spec => RegisteredNeverChanges` |

The invariant is about who can reach which array. The array of a registered
schema is not the application's (`StoredIsOwn`), and neither is the clone of a
`Register` that waits for the lock (`ClaimIsOwn`): otherwise a schema validated
before the lock could be invalid by the time it is stored. A `Register` before its
clone, and a `Get` between its two steps, still have an array to read
(`SourceIsThere`, `CloneHasSource`). `RegisteredStaysValid` adds what a call that is
not in `raced` knows: between `validateSchema` and `cloneSchema` its caller's array
is valid, and after it the clone is (`ClaimIsValid`).
`AnswersAreFinal` and `WinnerIsThere` carry `OneWinner`. Every step then either
adds one entry, or leaves the map alone and writes to arrays that are free or the
application's (`Untouched`), one lemma each.

### ImportRunProofs

For every source, every limit of details, hooks, flags and a cancellation at any
moment:

| Theorem | States |
| --- | --- |
| `TypeCorrect` | `Spec => []TypeOK` |
| `CountersHonest` | `Spec => []CountersAreHonest` |
| `CountersCover` | `CountersCoverEveryRow` holds unless `Import` returns the context's error, and lacks one row at most if it does |
| `FirstErrorsStay` | `Spec => []FirstErrorsKept` |
| `OneLateRow` | `Spec => []AtMostOneLateRow` |
| `NilIsComplete` | `Spec => []NilMeansAllRows` |

The counters are judged against sets of rows, so the invariant keeps those sets
apart and complete: every row read is accepted, rejected or in the processor's
hands, and only one of these (`EachRowOnce`). `StopsAtFirst`
says that under `FailFast` nothing is read after a rejection, `WholeSource` that
the loop is left without an error only at the end of the source or there,
`EndsLast` that `EndImport` sees the result that is returned, and `LateIsLast`
that a row given after the cancellation is the one in the processor's hands.

### MapperApiProofs

For every set of `Settings` (deployments, files, options) and every limit:

| Theorem | States |
| --- | --- |
| `ImportIsOne` | `ApiSpec => ImportIsOneRun` |
| `AnswersAreComplete` | `ApiSpec => [](NilMeansAllRows /\ CountersAreHonest)` |
| `RefusalsAreClean` | `ApiSpec => []RefusedMeansUntouched` |
| `HandedOutIsFound` | `SharedRegistry /\ ApiSpec => []HandedOutWorks` |
| `ApiTypeCorrect` | `ApiSpec => []ApiTypeOK` |
| `AnswersStay` | `ApiSpec => []AnswersAreStable` |
| `AnalysisIsImported` | `ApiSpec => []AnalysisMatchesImport` |

`ImportIsOne` is the composition: a stage of the import is `Setup` or stutters in
`ImportRun` (`SetupFirst`: the loop starts after the checks), and the steps of
everybody else leave `ImportRun`'s variables alone. Through it the theorems of
`ImportRunProofs` hold of each request (`AnswersAreComplete`). `RefusalsAreClean`
follows because a status that blames the request can only come from a check
before the loop (`ReplyFits`), when nothing has been delivered (`NothingYet`).
`HandedOutIsFound` adds what the client was told (`StillThere`: a schema that is
served is in the executor's registry too, a stored file is there until deleted)
and, per stage, that the errors it may then end with have no status 404
(`StageHarmless`). Its premise is needed: `ReadmeRegistry` is the counterexample
without it.

The last three share `AnswersInv`, which follows an error from the check that made
it to the answer: `ApiTypeCorrect` says with it that a request ends before its loop
with an error its checks can make (`SetupErrors`) and that its answer has a status
and a name of this code (`ErrorNames`). An error of this code has one cause (`ErrIsOwn`, `Good`), so the
map `StatusCode` ranges over has one entry for it and every order finds the same
status; the answers are those of such errors or of a hook's (`JobAnswer`,
`ProbeAnswer`). An analysis that succeeded means that `Analyze` found no error in
the content (`ProbeAnswer`), an import reads what `Open` makes of the same content
(`ContentIs`) and its reader fails only at a row that is unreadable (`ReadFails`).
`AdaptersAgree` is the heart of it, a lemma about `SourceAdapters` alone, for every
file: where `Analyze` succeeds, `Open` succeeds with the same sheet and header, all
rows it will return can be read, and they are as many, under the numbers of the
samples. In XLSX the two look for different things, the first row that is not blank
in the first sheet that has one, and the first row with values in every sheet: they
agree because an unreadable row fails the analysis.

### RowMappingProofs

For any names and what they spell, any fields, widths and numbers of sheets:

| Theorem | States |
| --- | --- |
| `TypeCorrect` | `Spec => []TypeOK` |
| `RequiredIsThere` | `Spec => []RequiredNeverNil` |
| `CellsAreTheColumns` | `Spec => []CellsComeFromTheirColumn` |
| `VerdictIsTheCells` | `Spec => []RowVerdict` |

The invariant ties the stages together: the columns are the header of the sheet
that was asked for (`HeadersKnown`), the plan is compiled from a mapping that was
found valid for them (`PlanFits`), and the outcome is what this plan makes of the
cells of the last row (`OutcomeFits`). A valid mapping names each required field
(`ValidationFinds`), compilation gives each mapping the slot of its target and no
two the same (`CompilationFits`), an operation without an error has a cell
(`OperationHasCell`), and the slot keeps it, because no other operation writes
there (`SlotHasItsCell`). The last two theorems need the cells' places as well:
with distinct names the `i`-th cell is the one in column `i` (`AlignedCells`). The
loops stop at the first error, and of two columns of one name the last counts: that
there is a first and a last comes from the well-foundedness of `<` (`HasLeast`,
`HasGreatest`).

### SuggestMappingsProofs

For any number of columns, fields and replies, either strategy, any options and a
client that may go at any moment:

| Theorem | States |
| --- | --- |
| `SuggestTypeCorrect` | `Spec => []TypeOK` |
| `OneStrategyAnswers` | `Spec => []OneStrategy` |
| `FirstAreGiven` | `Spec => []FirstThatQualify` |
| `FailureIsTheClients` | `Spec => []FailsOnlyIfCancelled` |

The properties speak of the answer; `SuggestInv` says what must hold of the list
before there is one: while the upstream is asked there is its suggestion for each
column it has answered and nothing else (`Upstream`), suggestions are in the order
of the columns (`InOrder`), and what a suggester returned is of its strategy alone
(`Single`). That an answer keeps the first that qualify is then a lemma about
`Filter`: its loop is a recursive function, and the `n`-th value of `Kept` has, in
order, those of the first `n` suggestions that reach the minimum, as many as there
are.

### FuzzyMatchProofs

For any columns, fields, names and alphabets:

| Theorem | States |
| --- | --- |
| `FuzzyTypeCorrect` | `Spec => []TypeOK`: no index leaves the row buffers and every cell is a length of the longer name at most |
| `ClosestIsGiven` | `Spec => []EachColumnItsClosest` |
| `DistanceMeasures` | a confidence lies between 0 and 1, and is 1 for equal names only |

`EditDistance` is the cost of the cheapest of all alignments and knows no table, so
that the proof has to find the recurrence of `LevenshteinDistance` in it.
`DistanceRecurs` says that the distance of two prefixes is the least of the three
that `min3` compares: a cheapest alignment pairs the two last characters, or leaves
one of them alone (`Narrowed`), and an alignment of shorter prefixes can be extended
by such a pair (`Paired`) or a lone character (`Widened`); `DistanceOfNothing` is
the border of the table. The invariant then ties the loops to it. The two buffers
hold the row that is done and what there is of the next, of the table of whichever
name is longer (`BuffersAreRows`), and stay within the lengths (`CellsBounded`);
the best field so far is the first of the closest so far (`BestIsFirstClosest`,
with `ExceedsOrders`: confidences are ordered as fractions); and the suggestions so
far are one for each column with a name, of such a field (`SuggestedSoFar`).
`DistanceMeasures` is about the distance alone: it shows that `fuzzyConfidence`
never needs the test for a negative value that `Confidence` leaves out. What would
be an induction over prefixes, in it and for the loop of `NormalizeName`
(`WrittenUnfolds`), is an argument from a shortest counterexample (`LeastOf`).

### What the proofs assume and leave to TLC

The named assumptions on the constants, which TLC evaluates in every run, and
nothing else; `NothingLeftBehind` and `HandedOutIsFound` have their premises in
their statements, and the runs that check those properties satisfy them. The
assumptions that proofs need of data are its types: `RepliesAssumption` (numbers
are numbers), `SettingsAssumption` (a file is sheets of rows, a CSV file one sheet),
`ListsAssumption` (a name is a sequence of characters, a field an id and a name) and
`SampleLimitAssumption`.

Only model-checked: the two liveness properties, `FullyReceivedLeaves` and
`EventuallyAnswered`, because fairness is out of the prover's reach, and what the
runs that expect a violation refute. Every other property of a run is a theorem.

## 5. What is left

Worth doing next: a variant for each liveness property, that is, a theorem that no
step of a finisher, or of a suggestion, leads back but the retries, so that only
fairness itself is left to TLC.

Not modelled, and why:

* methods, routes and `handler.New` (mapperhttp/handler.go): nothing changes there
  once the server runs. Two extensions under one prefix make `http.ServeMux`
  panic at start;
* the CSV and XLSX formats, number and time parsing: libraries, one kind of row or
  cell that works and one that does not;
* `Options.SourceColumns` (executor/plan.go), nil receivers, the order of `List`:
  conveniences of single calls without a state;
* wording of errors, metadata headers of TUS, `MaxSize`;
* api/openapi.yaml, the release workflow and the end-to-end test, which are read
  as statements about the code.
