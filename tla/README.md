# otelcol-config-lint in TLA+

TLA+ modules of `otelcol-config-lint`, from the settings file to the exit code:
the worker pool, the indexes files share, the fetching and caching of schemas,
the choice of a schema, the policy of rules, the verdict on a file, the run
command, the reports, the publication of the schema registry, and the many pure
parts these rest on - versions, config documents, the rules over them, settings,
scans, the harvest of schemas. TLC checks each on a small instance; TLAPS proves
what matters most for every value of the constants. Source paths below are
relative to the repository; `PROJECT.json` maps every definition to its lines.

## The system

The linter reads OpenTelemetry Collector configs, finds out which collector
release and distribution they target, loads that release's schema from one of
several locations, runs some forty rules over each file and turns the findings
into a report and an exit code. A second program, `schemagen`, fills the
registry those schemas come from.

```
 flags + settings file ──> options.prepare ──> scanner ──> files
                                │
                                v
        Prepare/loadTarget ──> Store.Load ──> locations: directory, template, registry
                │                  └──> fetch ──> retries, disk cache, HTTP
                v
             Linter ──LintAll──> workers ──LintFile──> parse ──> rules ──> Result
                │                                       └──> VersionIndex, DistributionIndex
                v
        run command: report in path order, summary, exit code

 schemagen: manifests ──> schemas ──> prune ──> index.json ──> components.json
```

### Components

| component | code | state it keeps | operations | correct when |
|---|---|---|---|---|
| worker pool | `lint/linter.go` `LintAll` | result slice, channel, WaitGroup, context | dispatch, receive, check, cancel, wait | a delivered batch is every input's own result; no goroutine is left; the call returns |
| availability index | `lint/availability.go` | mutex, `ready`, the map | ask, build from the published document or by a walk | what it settles on is warranted and is the same for all files of a process |
| distribution index | `lint/distributions.go` | the same, for sibling distributions | ask, build | as above |
| one file's check | `lint/linter.go`, `suppression.go` | the Result being built | read, split, parse, check rules, merge | a Result that is no error is the whole verdict |
| rule selection and policy | `ruleset/selection.go`, `settings/rules.go`, `overrides.go`, `lint/policy.go` | levels, global and per file | resolve, override, view of one path | a rule runs at the documented level on every path |
| schema store | `schema/store.go`, `index.go` | ordered locations; the process's memory of remote indexes | Load, Versions, Nearest | the schema is the one asked for; earlier locations are not passed over |
| preparing the schema | `lint/prepare.go` | Target | load, fall back, refuse an empty schema | an older release stands in only where allowed and nobody has the one asked for |
| fetch and disk cache | `schema/store.go`, `cache.go`, `retry.go` | cache entries on disk, attempts | load, ask, sleep, write, rename, discard | entries are whole; an index served is current; attempts are bounded |
| run command | `cmd/otelcol-config-lint/run/run.go` | scan, results, report, summary | prepare, scan, check, report, finish | the exit code says what the files' verdicts say |
| schema registry | `cmd/schemagen` | schema files, `index.json`, `components.json` | generate, write, prune, index | indexes describe the directory; retention is kept; nothing is quietly short |
| config parsing and resolution | `config/` | the YAML node graph | parse, resolve aliases and merges, read the structure | rules read what the collector reads, and nothing of the text is passed over |
| reference rules | `rule/index.go`, `upstream.go` and the rules over them | the reference index of one file | index, walk upstream | no finding is taken back by what a provider supplies; coverage means every path |
| rules about a release | `rule/{signalsupport,unknowncomponent,deprecatedcomponent,componentstability}` | none | judge a config against a schema | a pipeline the collector could not build is told, each finding once |
| field rules and coverage | `rule/fieldwalker.go`, `lint/coverage.go` | the walk's findings and holes | walk settings and schema together | a finding holds whatever is supplied and for every decoder; "complete" leaves nothing unchecked |
| pipeline advice | `rule/{missingbatch,missingmemorylimiter,nopersistentqueue,processororder}` | none | judge pipelines, say where to move what | every unbatched way is reported; the hints can be followed and come to an end |
| number rules | `rule/{setting,memorylimiter,legacy}.go`, `quantity/`, `schema/retry.go` | none | decode, compare, multiply | an error is a config the collector refuses; no product wraps unseen |
| structure rules, secrets | `rule/*key`, `wrongnodetype`, `hardcodedsecret` ... | what was visited | judge how a config is written | what is wrong is found at its place, once |
| version order, spans, diff | `schema/store.go`, `components.go`, `diff.go` | none | compare, collapse, expand, diff | an order; expanding what was collapsed gives it back |
| scanner | `scanner/` | the files found so far | walk, exclude | every wanted file that is there, once, or an error |
| settings, options, environment | `settings/`, `cmdutil/options.go`, `lint/environment.go` | the options commands share | discover, normalise, fold, match | flags win over the file, blocks over the flat form, the first override that matches |
| output | `lint/output.go` | a formatter's buffer | Result, Finish | what failed and what was found is in the report |
| harvest | `cmd/schemagen/{builder,module,harvest,gosource,fields,decoder}.go` | none | read manifests, modules, Go types, published schemas; merge | a setting the collector takes is not reported; a misspelt one is |

They interact by calls, with four exceptions that make up most of what is hard:

* **shared memory**: the slice the workers write into, the indexes behind a
  mutex, the process-wide memory of registry documents, and the nodes an anchor is
  reached by from many places of one config;
* **one context** that an interrupt cancels between any two steps, and that each
  layer looks at in its own places;
* **the cache directory**, which runs of several processes share without a lock;
* **the registry**, which `schemagen` rewrites in place, and which changes while
  a linter reads it.

The hard behaviours are therefore interleaving, cancellation between a check
and the use of what it checked, partial failure (one location, one release, one
form, one manifest), crashes between two writes, stale or torn cache entries,
retries, long chains of policy applied over one another, and rules that judge
from half the picture: a config that providers have yet to fill in, a schema
with holes. `PROJECT.json`
lists these as hazards, each at the line where it bites.

## The modules

| module | models | proofs |
|---|---|---|
| `LintBatch` | what `LintAll` promises: one call, answered in full or refused | |
| `LintAll` | the worker pool; refines `LintBatch` | `LintAllProofs` |
| `VersionIndex` | the shared availability index, and `lintConfig`'s last look at the context | `VersionIndexProofs` |
| `Fetch` | one URL: cache, validators, attempts, temporary file and rename, several runs | `FetchProofs` |
| `SchemaStore` | `loadTarget` and `Load` over the locations | `SchemaStoreProofs` |
| `RulePolicy` | rule selection and policy, as operators | (in `LintFileProofs`) |
| `LintFile` | the files of a run one after the other, each from the flags to its `Result`; extends `RulePolicy` | `LintFileProofs` |
| `RunCommand` | one command, from `RunE` to the exit code; uses `LintBatch` for `LintAll` | `RunCommandProofs` |
| `Registry` | a sequence of `schemagen` runs over one registry directory | `RegistryProofs` |
| `Versions` | the order of versions and the spans of the component index | (in `PureProofs`) |
| `SchemaDiff` | what is recorded of a renamed component, and the diff of two schemas; extends `Versions` | `PureProofs` |
| `Resolve` | the checks and the rewriting of a config's node graph | |
| `References` | the reference index, the six rules that read it, the walk upstream, and what a provider may supply | (in `PureProofs`, `LintFileProofs`) |
| `PureParts` | a question to one of these four | |
| `Components` | the four rules that hold a config against a release; extends `References` | `PureProofs` |
| `Structure` | the File read off a resolved tree, and the nine rules about how it is written | |
| `Secrets` | the walk of `hardcoded-secret` over a graph of nodes | |
| `ConfigParts` | a question to `Structure` or `Secrets`, and what its answer should mean | |
| `Fields` | the walk of the four field rules, coverage, settings that name extensions | |
| `Pipelines` | the four rules that give advice on pipelines; extends `References` | (in `LintFileProofs`) |
| `Numbers` | settings read as numbers, the three rules that reckon, byte counts, the wait before a retry | `PureProofs` |
| `Scan` | which files the paths of a command line stand for | |
| `Settings` | from the settings file and the flags to the options, and the environment of each path; extends `Scan` | |
| `Harvest` | a component's field schema out of Go types and published schemas; extends `Fields` | |
| `Inventory` | from a builder manifest to the components of a distribution; extends `Harvest` | |
| `Hints` | the index of sibling distributions, and "did you mean"; extends `Versions` | `PureProofs` |
| `Reports` | the five formatters | (in `LintFileProofs`) |
| `Asking` | the question and the answer that the modules of pure parts share | |

`MC*` modules give the constants for TLC. The modules meet at what one promises
and the next assumes: `LintAll` implements `LintBatch`, and `RunCommand` calls
`LintBatch`; `LintAll`'s `Verdict` is what `LintFile`'s `Promised` states;
`SchemaStore`'s answers (a schema, missing, unreadable) are the outcomes of
`Fetch`; and `Registry` writes the documents that `SchemaStore` and
`VersionIndex` read. `Fairness` of `RunCommand` lets `LintAll` answer, which
`BatchSpec` of `LintAll` warrants. `Harvest` checks its schemas with the walk of
`Fields`, and `Inventory` hands it the components.

Some definitions carry a second form beside them (`LoopHeadPastEnd` beside
`LoopHead`, `VerdictAnySchema` beside `Verdict`). No specification uses it: it is
the same definition with a plausible slip, and `PROJECT.json` pairs it with the
property that fails once it is put in the other's place.

### How state and actions correspond to the code

*LintAll.* `caller` is the program counter of `LintAll` itself and `worker[w]`
those of its goroutines. A send on the unbuffered channel is one step of both
ends (`SelectSend`); `Close`, `ReceiveClosed` and `Wait` are `close(in)`, the end
of `for i := range in`, and `workers.Wait()`. `Abandon` is the context check
after a receive, `Decide` the one after the wait. `EndLint` may yield the
file's own result or, once the run is cancelled, the Error one.

*VersionIndex.* `Lock` to `Answer` is the body of `Versions` under its mutex,
each release of the walk a step. `aborted` is history only: releases that failed
because the builder's run was cancelled. `Report` is `lintConfig`'s last check,
without which a hint of a cancelled build would be let out.

*Fetch.* `pc` follows `getValidated`: `LoadNothing`/`LoadImmutable`/
`LoadRevalidated` are `cached`, the `Answer*` actions are `attempt` and
`served.read` by status class, `Sleep` is the wait before the next attempt,
`Write` and `Rename` are `diskCache.write`, and `Discard` is the removal of an
entry that failed validation. Bodies are version numbers; what no schema can be
read from is `Broken`. `since` and `asked` are history.

*SchemaStore.* `StartLoad`, `ListLocation`, `ChooseLatest`, `TryLocation`,
`NowhereHeld` and `Unknown` are `Store.Load` a location at a time, `FallBack` and
`Return` the rest of `loadTarget`. `Change` is a registry that gains or loses a
release meanwhile, in its index, its files or both.

*RulePolicy and LintFile.* The maps of levels are functions, `maps.Copy` is
`Copied`, and the five places that copy one over another are `Resolve`,
`RuleSelection`, `OverrideLevels`, `Policy` and `ForPath`. `LintFile`'s actions
follow `LintFile`, `Lint`, `lintEmbedded`, `lintConfigMap`, `lintConfig` and
`checkRules`, each look at the context where the code has it. `NextFile` goes on
to another file with the Linter the last one leaves: `OwnAfter` is what `forPath`,
which clones the levels before it writes to them, leaves of the run's own.

*RunCommand.* `pc` follows `RunE`, `run`, `runLint`, `lintAll` and
`reportResult`. `results` is the map the report looks files up in, under the
scanned name; standard input is kept under `-` and shown as `stdin`.

*Registry.* `CreateSchema`/`EncodeSchema` are `os.Create` and the write in
`writeDoc`, so a torn file is what a failure or a kill between them leaves.
`Remove` is one file of `prune`; `CreateIndex`/`EncodeIndex` and
`CreateComponents`/`EncodeComponents` the two documents. `Kill` may come at any
step, and the next `Start` finds what is on disk.

*The pure parts.* These translate functions, so each operator has its function's
name where TLA+ allows. `task` is what is asked and `answer` what came back
(`Asking`); there is one action per function a caller asks. What the answers are
held against is written from the meaning, not from the code.

* `PureParts` and what it extends: `Order` is `Compare` and `Span` is `SpansOf` and
  `Expand` (both in `Versions`), `Diff` is `DiffSchemas` (`SchemaDiff`), `Wire` is
  `NewIndex` with the rules over it (`References`), `Read` is `Parse` from the checks
  on, `Upstream` is `UpstreamCovered`. A version is its numbers and
  identifiers, an identifier its number and its place in the order of bytes, so
  that padding with zeros shows in the latter only. A YAML document is a function
  from nodes to their kind and children; rewriting in place is an update of it,
  `walked` and `sizes` are what the code remembers. A config is its declarations
  and its lists, each of which a provider may supply (`Expansion`). `Meaning` and
  `Under` read merges off the document as written, `Supplyings` are the configs a
  provider could make of one, `AllInto` and `Leaks` follow every way into a
  pipeline.
* `Components`: `Judge` is the rules about a release, asked with the release's whole
  schema and with one generated with gaps. `CanBuild` is the collector's pipeline
  builder.
* `ConfigParts`: `ReadStructure` is what `Parse` reads of the resolved tree,
  `SearchSecrets` the walk for credentials; `RoleOf` says what a place may hold.
* `Fields`: `CheckSettings` is the walk over every config of a file and the merge
  of their coverage. A schema is a tree of fields; a field that says nothing is a
  hole. The answer is held against those of other values, less schema and another
  decoder.
* `Pipelines`: `Advise` judges a config; `Arrange` and `Move` follow the hints of
  `processor-order` one after another.
* `Numbers`: `JudgeLimiter`, `JudgeBatch`, `Measure` (`quantity.Parse`) and `Wait`
  (`retryDelay`). An `int64` has `MaxInt`, and products wrap. `DecodedUint`,
  `LimiterStarts` and `BatchStarts` are the collector's side.
* `Settings`: `Start` is `Prepare` by each command of an invocation in turn and then
  `prepare` of the run; `Discover` is the scan. Keys treated alike are one or two.
* `Harvest` and `Inventory`: `HarvestComponent` is one component of `build`,
  `HarvestDistribution` is `generate`, reading modules in any order, as the code
  ranges over a map. `Accepted` lists settings a collector built of the same types
  takes.
* `Hints`: `AskSiblings` is one call of `Distributions`, with a context that may end
  at any point of its walk; `Suggest` is `bestMatch`.
* `Reports`: `Report` hands the results to each formatter, a result at a time
  (`Reporting`, by `ReportResult`) and then the summary (`Finish`). `IsReport` says what a
  run may report: a file that was skipped or could not be checked has no findings.

## The runs

| run | instance | shows |
|---|---|---|
| `LintAll` | 3 inputs, two of them one path; a worker count of 0 (clamped) and 3 | delivered in full, nothing outlives the call, one writer per slot, the call returns, `LintBatch` is implemented |
| `VersionIndex` | 3 files of 2 runs, 5 releases, walk limit 4 | the settled index is warranted, never rebuilt, quoted alike and oldest first; every file settles |
| `Fetch` | 2 runs, 3 calls between them, 2 attempts; a schema published once, from an endpoint that answers anything, and an index published twice, from one that conforms | what is served is readable and, of an index, was current during the call (`ServedIsGood`); entries are published whole, body and validator together; requests are bounded, calls end |
| `SchemaStore` | every store of one or two locations of every kind, 8 contents, one location changing | the right schema, earlier locations first, latest is no older than what is listed all along, fallback only when missing |
| `LintFile` | two rules; every file and flag naming of one of them with up to two overrides; streams of up to two documents and three configs; a plain file after any of them | levels as documented, of every file in turn; a Result that is no error is the whole verdict |
| `RunCommand` | every set of two files and standard input, every verdict, both modes | exit code, report and end of the command |
| `Registry` | 3 releases of one distribution, retention 1, one milestone, 3 runs, two format lists | retention, the two indexes, nothing quietly short |
| `PureParts` | 380,000 questions to the pure parts, as below | each of the ten properties is about one subject |

The properties of `PureParts`, with what is asked:

| property | asked of | says |
|---|---|---|
| `ReleasesAreComparedRight` | 14 spellings of a version, three at a time; all pairs of 194 schemas | an order; a diff tells every change once and is empty only for equals |
| `ReferencesAreJudgedRight` | 2,700 configs; 6,000 more against a release | no finding is taken back by what a provider supplies; what could not be built is told; stability once each |
| `ConfigIsReadWhole` | 8,000 documents of three anchors; 370 trees wrong in one or two places; 4,000 graphs of settings | rules read what the collector reads, within bounds; no key, item or id is passed over; each credential found once |
| `FieldsAreJudgedRight` | 48,000 schemas and settings, for eight decoders | findings hold whatever is supplied and whoever decodes; complete coverage means checked; each named extension once |
| `AdviceHolds` | 26,000 graphs and 55,000 configs; every list of up to four of eight processors | coverage is every path, every unbatched way is reported, hints can be followed, moves end in order |
| `NumbersAreRight` | 16,000 settings, sizes and waits at the edges of a narrow integer | an error is a refusal, a sizing warning is true, quantities survive formatting, waits are bounded |
| `RunStartsAsWritten` | 10,000 settings files, flags and disks; 3,000 walks over trees that change, with links | flags, then blocks, then the flat form, then defaults; one environment per path; every wanted file or an error |
| `SchemaIsWhatIsBuilt` | 69,000 sources with what is published of them; 11,000 manifests with their modules | valid settings stay silent, misspelt ones do not; what a manifest declares is there, under its release, with its decoder |
| `HintsAreRight` | every set of 5 releases; all calls on two siblings, three in a row; 16,000 names | spans mean what they stand for; a hint is whole or withheld; the nearest name within two slips |
| `ReportsSayWhatWasFound` | 55,000 sequences of up to three results | every report that has a place for it says which files failed and shows each finding; annotations are spread over the files |

Four more runs each find one disagreement of the code with a line of the
documentation or a comment:

* `RegistryRejected`: `schemagen.go:324` says a rejected run must leave the
  registry untouched, but a first form written whole stays when the second cannot
  be created, the manifest is skipped and the run, with nothing made, is rejected.
* `SchemaStoreFallback`: `prepare.go:26` permits the nearest *older* schema, but
  the nearest listed one may be the very release that was just not found. A
  registry whose index lists v1 and v2 and which holds only v1 is asked for v2: the
  run falls back to v2 and ends with no schema, v1 listed and there
  (`FallbackReachesOlder`).
* `HarvestSquashed`: `gosource.go:270` says the keys of a type that cannot be
  resolved are left unchecked, but a squashed field of such a type leaves the
  component closed over the others, and its keys are reported as unknown.
* `ComponentSignals`: `componentstability/rule.go:72` says a component's stability is
  reported for the signals it is wired into, but a receiver and an exporter of
  one id are each taken to be wired into the pipelines of both.

### Bounds, and why they are enough

* `LintAll`: three indices and three workers give every overlap of a dispatch
  with a worker in each of its states, two results out of order, and two slots
  of one path; the clamp is met at 0, and the proof covers all counts.
* `VersionIndex`: five releases with a limit of four make the walk drop the
  oldest; among four, none, one, two or more may fail, on both sides of the
  half. Three callers are a builder, one of the same run and one of another.
* `Fetch`: two runs are enough for one to overwrite or remove what the other has
  just published, three calls between them for one to come back to its own entry,
  two attempts for a first, a last and the sleep between. `Documents` bounds what
  is published, `MaxCalls` the calls; the runs may stop after that, so deadlock
  is not checked there.
* `SchemaStore`: the loop looks at one location at a time and carries only
  `names` and `at` to the next, so two locations show every hand-over;
  `MaxChanged` is 1. The proofs cover any number of both.
* `LintFile`: rules do not interact except by order, so one rule under every
  naming beside one that is left alone shows the policy; two documents show the
  loop carrying a Result over, and two configs in one the merge. Two paths, one with
  exceptions and one without, show what a file leaves to the next; each call of
  `forPath` clones for itself, so files in turn stand for files at once.
* `RunCommand`: a file, standard input and a file called `stdin` are the names
  that can be confused.
* `Registry`: three releases with a retention of one leave two to drop, one of
  them a milestone; three runs allow a kill, a repair and a later publication.
* `PureParts`, documents and graphs: 36 nodes stand for the limit of 100,000,
  exceeded by documents with
  an anchor used twice over another used twice; 1,500 documents are within it,
  the others refused as cyclic, invalid or too large. Three anchors allow a merge
  of a merge, a list of both, and a cycle at any of them. Three pipelines
  with two connectors are the least with two ways into one pipeline of which one
  is batched. A provider supplies one of three names, one item of a list or one
  pipeline. A component's old name may be another's name, but no two share an
  old name. A mapping with one key twice is for `Structure`, which has no aliases:
  duplicates are collected before they are resolved. Each question is answered
  once, or a few times in a row (`MaxHintCalls`, the moves of `Arrange`), so
  deadlock is not checked.
* `PureParts`, the rest: an `int64` of 16 bits (`MaxInt`) with 16 bytes to a `Mib`
  and a `uint32` of 8 bits (`MaxUint`) put every product on both sides of the
  point where it wraps. A link to a directory is named like a config file or not,
  named as it is or with `./`, alone and beside the directory. `Second` 100 and `MaxDelay` 1000 do so for `Retry-After`.
  `AnnotationLimit` 3 stands for ten, so that three files with three findings of a
  level exceed it. `SampleDepth` 3 follows a recursive type round once, and
  `MaxFieldDepth` and `MaxAliasHops` are left beyond it, as in the code they only
  stop a runaway. `MaxSettingsDepth` 4 is deeper than any settings tried. Names of
  one to four letters are up to four slips apart, on both sides of the threshold
  of three.

### Fairness

Safety is checked without it. For liveness, each module asks for what the code
justifies and no more:

* `LintAll`, `VersionIndex`: weak fairness of each goroutine - the Go scheduler
  runs what can run, and reading a file or a schema ends, as the HTTP client has
  a timeout. Nobody is obliged to cancel. A caller asks the index once, so
  weak fairness is enough at the mutex.
* `Fetch`: weak fairness of a call's own steps, never of a kill, a cancellation
  or a publication.
* `RunCommand`: weak fairness of the command. `CommandEnds` assumes that standard
  input ends at some point, because nothing interrupts a read of it.
* `Registry`, `SchemaStore`, `LintFile` and the pure parts claim no liveness: they are
  sequential and end after a number of steps their input bounds.

## The proofs

A theorem is of the form `Spec => []Inv`, or an action property or a refinement
from the same invariant, or a fact about operators, for all constants that meet the
named assumptions. Those say what the Go types and the callers guarantee: a path
has a verdict (`PathsAssumption`), releases are numbered (`IndexAssumption`,
`RegistryAssumption`), scans hold no file twice (`ScansAssumption`), normalising a
name twice is normalising it once, an integer has a greatest value and units are
positive (`NumbersAssumption`), a component's releases are
listed oldest first (`ShipListAssumption`), a release ships something, with signals for what goes
into a pipeline (`FactoriesAssumption`), pipelines are written in some order
(`PipelineOrderAssumption`), a registry lists each distribution once and letters have a
lower case (`HintsAssumption`), rules are finitely many and in an order, as are their names
(`ReportsAssumption`). TLC evaluates each of them on the instances of the runs.

* **LintAllProofs** - `DeliveryIsComplete`, `PoolIsDrained`, `SlotsAreUnshared`,
  `TypeCorrect`, `ImplementsBatch`. `DeliveredInFull` speaks of the end only. What
  carries it there is `SlotsSettle`: below `next`, a slot holds its own result, or is in some
  worker's hands, or the run is cancelled. With `JobsAreSlots` (an index is in
  one worker's hands), `LoopEnds` and `WorkersLeave`, no hands are left at
  `Decide`, so an uncancelled batch is complete. `ImplementsBatch` is the
  initial states and the steps of `LintBatch`; its fairness is TLC's.
* **VersionIndexProofs** - `SettledIndexIsWarranted`, `ReportsAgree`,
  `ReadyIsForever`, `TypeCorrect`. `MutexHeld` ties the mutex to the one caller that builds and
  says nobody builds a ready index; `BuildIsTrue` says what a build has so far,
  and that only a cancelled run has aborted releases; `AnswerStands` that a live
  caller with an answer has the settled one. `HintsAreOrdered` rests
  on the walk going through ever newer releases and each list built so far being
  in that order, whether it is published or counted.
* **FetchProofs** - `ServedStaysGood`, `EntriesAreWhole`, `TypeCorrect`. A torn or
  unreadable entry may be on the disk at any time, as an older version of the
  program may have left it; so what is invariant is that no entry is mixed from two
  answers (`DiskIsUnmixed`, and `OffersAreUnmixed` for what a call loaded),
  and that a temporary file on its way to the disk is sound and no older than its
  call (`FilesAreSound`). A 304 then speaks of the body under that very validator.
  `AttemptsAreCounted` bounds the requests; `CallsBeganEarlier` orders a call and the
  registry's publications.
* **RegistryProofs** - `IndexesStayTrue`, `NeverShort`, `RetentionHolds`, `TypeCorrect`.
  The hard case is a run after a killed one. `ManifestsAreMade` follows each manifest
  asked for from waiting to made to spared or leaving, through a failure of one form
  (`FormsAreWritten`, where a format listed twice is written over and is torn
  meanwhile). `WindowIsLeft` says of each doomed file that enough newer releases are spared,
  whatever is removed first, so that pruning may be cut short anywhere.
  `IndexesAreOfDirectory` carries the two documents from the step that lists the
  directory to the end. Largest and smallest elements of finite sets, on which
  retention rests, come from the well-foundedness of strict inclusion.
* **PureProofs** is about the pure parts that do not recurse over graphs and trees.
  * *Numbers* - `NumbersStayRight`. `NumberIInv` is that the answer is the one its
    question has, so that the work is in the functions, for every `MaxInt`, every unit and
    every number written: what is an error is what the decoder or `Validate` refuses,
    by cases on what is read; a warning about a container speaks of the limit
    enforced, also where a product wraps; what `Format` writes reads back as the
    number, as it picks a unit that divides it; a wait is positive and capped.
    A retry waits at most twice, so `2^attempt` is taken at two places only.
  * *Versions and schemas* - `VersionsAreOrdered`, `ReleasesStayComparedRight`. Two lists
    of identifiers, or of segments, are compared at the first place they part, which
    exists if they part at all; transitivity is by where the three of them do. Then
    the diff, report by report: each is a set of changes that no other report holds,
    and all empty means the schemas carry the same. What the harvest builds keeps
    `WellNamed` (no two components share an old name), by one step of `Add`.
  * *Judging a config* - `ReferencesStayJudgedRight`. What a provider supplies leaves
    alone is stated first (`Supplyings` written out: names, lists, pipelines and
    sections that are not supplied stay), then for each of the reference rules that a
    finding survives. That a misfit is told is by cases on the kind behind a reference,
    of which there is one as ids are unambiguous. That a stability is told once rests on findings of
    two rules being different and on the earliest pipeline with one worth telling.
  * *Hints* - `HintsStayRight`, `DistanceIsSlips`. `HintIInv` is the answer for a span or
    a suggestion; for the distribution index it is `CallsKept`: a ready index
    is the listing of the one call that settled it, and no call that settles comes before
    that one. A walk over a sequence (a fold, or a function
    defined by its previous value) is brought back to its steps by `FoldExists` and
    `RecursionExists`: the function exists on every prefix, so the one the definition
    chooses has its equations, and induction over 0..n (`UpTo`, from the least counterexample)
    does the rest. Spans are followed release by release (`WalkKept`: what the spans so
    far cover of the releases so far is what is present). The matrix of
    `editDistance` is met from both sides: a small entry is reached
    by that many slips (`Sound`), and one slip in the one name moves the entries of a
    row by one at most (`Sideways`, `Same`, `Close`), so that two are never called three.
  * *A run's start* - `RunsStartAsWritten`. `StartIInv` is that the answer is the one its
    question has: a fold over the nested commands' preparations never gets past the first
    (`PreparedOnce`). `Find` is the one place `SettingsPaths` allows (`FoundIs`);
    from there the options are what is written key by key, and a path's place is the
    first override that matches, as both are least elements of one set. For the scan,
    what a walk comes to is said without recursion (`Walked`: stuck if it reaches a
    directory it cannot list, else what it reaches and wants) and shown to be a solution of the walk's
    own equation (`LookIs`), by what is reached through the names of a directory
    (`VisitedIs`); it is the only one by induction on how far a path is from
    the deepest (`WalkIs`).
* **RunCommandProofs** - `ExitCodeIsHonest`, `ReportsAreTrue`,
  `ReportsAreComplete`, `TypeCorrect`. `ResultsAreThere` says that what the report loop will look up
  is under the key it uses; `SummaryIsTrue` ties the count to what was reported;
  `EndIsTrue` how the loop was left.
* **LintFileProofs** - `LevelsHold`, `VerdictHolds`, `TypeCorrect`. Lemmas first show that the
  five copies of `RulePolicy` give the documented level, for any selection. Then
  `PlaceInv` (where the run is in the documents), `LevelInv` (the Linter, whatever
  files it checked before, and the file's view are the promised ones), `CurInv` (what the rules run so far have
  found) and `ResultInv` (what the configs before this one came to): a verdict is built rule by rule and config by config, so
  the promise for the whole has to be stated for every prefix.
  What becomes of the results is proved in the same module, from `Reports`: `ReportsAreWhole`. `ReportIInv` is that the answer is what the
  formatters make of the results. `Tells` is what they hold after the first k of them, a part to each
  formatter with one step lemma (`TallyStep`, `TextStep`, `JsonStep`, `JunitStep`, `TapStep`):
  the lines of findings are those of all findings so far, whatever
  stands between them, as selecting lines goes through a concatenation (`LinesConcat`).
  Annotations of a level in order are each of its places once (`SortedIs`: in a finite strict order
  everything has a rank of its own). What `pickAnnotations` does is
  followed place by place: a pass leaves each place picked, or standing back for one of its kind
  or for want of room (`PassIs`), and what is picked stays and is a beginning of what the
  next pass picks. So a second annotation of one file means that the first pass had
  room for every file, and a second of one rule in a file that the second had (`PickedIs`).
  Last what some of the findings say, from `Pipelines`: `AdviceStaysGood`. `PipelineIInv` is that
  the answer is the one its question has and, of a list whose processors are being moved, that it is
  `Arranged`: nothing was moved twice, and whatever was moved is where no later move disturbs it.
  So the moves end, and a list without findings is in order. The lists asked about name nothing twice and
  have one limiter and one batch at most (`OnceEach`): of two limiters each would be sent in front of the other.
  The walk upstream is the hard part, as it remembers a visit under way as failed and never takes
  that back. A set of visits is `Covering` if each visit in it leads back to visits in
  it only, and none of its subsets leads back into itself all over, so that there is no circle.
  A visit is covered exactly if it is in such a set (`UpstreamCoveredIs`): those remembered as
  covered make one up, and what was remembered as failed while a visit was under way need not be asked
  again, since a visit of a covering set is not behind itself (`CoveringBehind`). That is
  the invariant of the walk (`Walks`), by induction on how many visits are left to make. It is brought
  together with the ways in by their least fixed point (`AllFromIs`, `CoveringIsEveryPath`). Coverage
  only grows with processors (`CoverageGrows`), so that following one hint begins no other finding.
* **SchemaStoreProofs** - `IdentityHolds`, `EarlierFirst`, `LatestHolds`,
  `FallbackHolds`, `TypeCorrect`. `AskedInv` says of the locations already asked that they have
  not held the release all along; `WantedInv` what is being loaded and why;
  `LatestInv` that everything a directory lists from the start on and still lists is
  among what was chosen from. Of what a changed location holds nothing is promised,
  hence `changed`. Missing means, of a directory, that the file cannot be stat'ed:
  `readLocal` and `loadFlat` take every error of `Stat` for that (see below).

Proving corrected the models in places TLC had not. `ServedIsGood` promised currency
of an index whatever the endpoint; it now says of which endpoints. `Numbers` took
literals beyond `int64` for numbers, a percentage of a size that does not fit for
a limit, and a rounded display for one that always fits. `StabilityIsToldOnce` held only where
no two kinds of component share an id, and now says so (`ComponentSignals` shows the
other case). A path of a scan may be written `./-`, which `Clean` spells like the
marker of standard input. A judged config could have a section that both was supplied and
declared something, a state `Parse` never leaves. The choice of a JUnit case's failures had two
alternatives that both held of a valid file without findings.

Only model-checked:

* liveness under fairness, and anything with `ENABLED`, which the prover does not
  handle;
* what RECURSIVE operators compute: `Resolve`,
  `Fields`, `Harvest`, `Structure` and `Secrets` carry what was visited
  along in an argument, and with such a declaration in reach the SMT backend is lost. So no
  theorem is about `ConfigIsReadWhole`, `FieldsAreJudgedRight` and `SchemaIsWhatIsBuilt`.
  What folds over a sequence, or recurses as a function, is proved (*Hints*, *A run's start*,
  the reports, the walk upstream). Operators of the standard modules that the prover does not expand
  (`SelectSeq`, `SortSeq`) are avoided where something is proved.

## What is not modelled

* YAML parsing, Go parsing, the go command, HTTP and TLS: I/O and libraries. The
  models take their outcomes.
* The rules that match one written value against a list or split an address
  (`insecure-tls`, `receiver-binds-all-interfaces` and their like): what could be
  wrong in them is text.
* Which YAML documents are Kubernetes manifests or embed a collector config, and
  the position of a finding in one.
* Two goroutines of one process reading one registry document at the same time
  (`docMemo`), of which the later answer is kept.
* The generation summary's choice of a release to compare with, and the printing
  commands.
* Layout, colours, wording, the JSON schemas of settings and output, the text of
  hints beyond the name in them.
* The leading `v` of a version, and build metadata. `SchemaStore`, `VersionIndex`
  and `Registry` number the releases rather than compare their names.
* A schema file's forms are one in `SchemaStore`; they are apart in `Registry`.

### Where code and text part without a run

Met while modelling, and not among the four runs above:

* An exporter's settings given wholly as an expansion are read by `missing-batch` as
  no batching, where `missingbatch/rule.go:241` speaks of an unknown.
* The two forms of a schema may differ after a distribution was skipped between
  them (`write.go:217` relies on their being the same).
* A 304 is accepted for an entry that had no validator to offer (`store.go:793`).
  `Fetch` has it, and claims the currency of an index of conforming endpoints only.
* An entry that failed validation is removed by name (`store.go:757`), by when it may
  be the valid one of another run. `Fetch` has it; it costs a request and breaks no
  promise, so no property forbids it.
* Any error of `Stat` on a local schema passes for its absence (`store.go:531`, `543`),
  and on an `index.json` for the flat layout (`store.go:401`): with a directory that
  may not be searched the next location, or an older release, stands in for it.
  `SchemaStore` has one answer for all of these, `missing`.
* A setting whose type reads itself from text, behind an alias, takes the kind of
  the type it is an alias of; a struct read by hand that contains itself is cut
  off, and a published schema with tags only closes it.
* Of a module checked out inside another's directory, the files are read for the
  outer one as well; an old name recorded before a component of that name drops the
  component.
* `settings.go:434` says a run adds to a repository's lists and never throws them
  away; a list given by a flag takes the place of the file's.
* A subdirectory that cannot be looked at when the walk gets to it is passed over
  in silence; one that cannot be listed is an error, and a config file that cannot
  be looked at is kept and reported as unreadable.
* A link to a directory named on the command line is a directory to `Stat`
  (`scanner.go:64`) and none to the walk (`scanner.go:98`): nothing below it is linted,
  without a word, unless the link's name is a config file's. `Scan` has it. With a
  slash at its end the system follows the link; that spelling is not modelled, nor
  are file systems without an `Lstat` of their own.
* `index.go:91` leaves a connector in a processor's slot to `signal-support`; it is
  `undefined-reference` that reports it.
* The text and GitHub reports say nothing of an invalid file all of whose
  findings were filtered out; JUnit and TAP do.
* A file named `-` can only be given as `./-`; the scanner cleans that to `-`, and the
  run reads standard input.
* A large `Retry-After` wraps; `WaitsAreBounded` shows that the limits around it
  hold all the same. `quantity.Parse` reckons in `float64`, so byte counts above 2^53
  are not kept to the byte; `Numbers` takes them for whole. A container limit above some 102 Pi wraps in
  `memory-limiter-sizing`.
* When the newest older release cannot be read, the generation summary compares
  with nothing rather than with the next older, and a distribution whose write
  failed afterwards keeps its entry.

## Plan

1. `Summary`: what a generation run says it changed, and its place among
   `Registry`'s writes; `docMemo`, two goroutines reading one document; the
   detection of manifests and the positions of findings in an embedded config.
2. A registry reader's view as an abstract specification, which `Registry`
   implements between two publications, and a memoised document ("answered once,
   then always the same"), which `VersionIndex` and `Hints` both implement.
3. Theorems to prove next: that the operators with RECURSIVE solve their equations,
   where they can be written as functions of what was visited, as `UpstreamCovered` is;
   `ConfigIsReadWhole` first.
