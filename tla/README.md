# A verification development for the exam-generation pipeline

This directory holds TLA+ modules that model the parts of the pipeline whose
correctness depends on the order in which things happen (commands that are
interrupted and resumed, answers that come late, two processes on one store),
the TLC configurations that check them on small instances, and TLAPS proofs of
the properties that matter most for every size of instance.  Paths are relative
to the repository's root.

`PROJECT.json` is the index: components, runs, the source lines behind every
definition, the hazards each property is for, a mutant per property and the
theorems.  Run a check with `tlc -config <cfg> <module>`, a proof with
`tlapm <module>_proofs.tla`.

## 1. The system

Everything is synchronous Python; concurrency comes from processes (CLI
commands, the HTTP API, scripts) that share files.  State survives in JSON files
that are rewritten whole and in one SQLite index.  Nothing locks a file.

| Component | State it keeps | Operations | What is hard | What makes it correct |
|---|---|---|---|---|
| Exam state machine, `src/orchestrator/state_machine.py`, `stages.py` | `orchestrator_state.json` per run: status, output, stage status, attempt and prompt per stage key, history of execution records, bundle | `run_plan`, `run_item_draft`, `run_exam`, `import_manual_exchange` | resumption after a crash anywhere, two commands on one run, late and repeated answers | ids resolve, an output matches its latest record, only validated items reach the bundle, resuming ends in a bundle |
| Manual exchange, `manual_mode.py` | packet and response files | export, import | a packet written and the state not | a waiting stage can be answered |
| API executor, `api_mode.py`; provider adapters, `src/providers` | none | invoke, normalize, HTTP retry | failure after the answer was paid for; retry of what may not be retried | one record per attempt |
| Exam assembly, `src/assembly/exam_assembler.py`, `orderer.py` | writes into the run's state | assemble on demand or forced | runs beside a run that is unfinished | item paired with its own validator suite |
| Artifact store, `src/core/storage.py` | one file per artifact, SQLite index | save, load, list, rebuild index | file and row are two writes; a rebuild reads first and replaces last | rows lead to readable files; nothing promised is forgotten; rebuilding converges |
| Real-item gauntlet, `src/orchestrator/real_item_gauntlet.py` | `real_item_state.json`, output directory | `run` (create, resume, retry, import, validate, render) | retries counted across commands, rendering interrupted, blocked items | attempts logged once, bundle = state, a blocked item is not bundled |
| Real-item families, `src/orchestrator/families` | registry (constant) | select for an atom, classify support | ambiguity | one family or an explicit refusal |
| Candidate pool, `src/assembly/candidate_pool.py` | bundle and pool manifests | build: one gauntlet run per slot | partial failure, rebuild over reviewed candidates | a manifest lists what is eligible |
| Mini-alpha, `src/assembly/mini_alpha.py` | manifest | select one candidate per slot | branch and bound with a memo, review penalties, similarity | the selection is optimal and takes no blocked candidate |
| Review feedback and operations, `src/eval/review_feedback.py`, `review_ops.py` | label files, review summaries copied into bundles and manifests | ingest, merge, sync | duplicates, latest verdict, crash between files | the latest review of a candidate decides everywhere |
| Generated-exam pipeline, `src/pipeline/generated_exam.py` | exam manifest | load pool, run mini-alpha | works from copies of the pool | only accepted candidates are used |
| Benchmark runner, `src/eval/benchmark_runner.py` | one report per directory, and the runs of its cases | `run_dataset` (run, retry, compare, gate, report) | run ids repeat, so an earlier benchmark's runs are resumed; faults inside a call | the report lists and rolls back to complete runs only, the gate is earned, requests are accounted for |
| Distillation and curation, `src/distill` | batches (items file and manifest each), distilled files and their manifest | initialize, edit, validate, report coverage; load, dedupe, distill | three readers of one tree that decide by rules of their own; files of two runs after a crash | what validates is distilled, but for trees of three kinds (section 5), the newest version is kept, a manifest that fits its files vouches for them |
| Evaluation reports, `src/eval/scorecard.py`, `cost_logger.py`, `discard_rate.py`, `review_sheet.py` | none | read artifacts, summarize | truncated listings | every artifact is counted once |
| Validator suite, `src/validators` | none | one report per item | one failing validator of many | one blocking finding blocks the item |
| Renderer, schemas, settings, secrets, plugin, CLI, HTTP API | none of their own | formatting, configuration, dispatch | - | - |

How they interact: a command creates a `StateMachine` or a `RealItemGauntlet`
over an `ArtifactStore`; every artifact goes through `save_model`; state files
name artifacts by id.  The candidate pool calls the gauntlet once per slot and
copies what its bundle says into manifests; mini-alpha and the generated-exam
pipeline select from these copies; review operations write verdicts back into
the same bundles and manifests.

## 2. Plan

In order of importance; 1 to 8 are done, but for the slot plan.

1. `Orchestrator` (with `ExamPipeline`, what it promises), composed with the
   manual exchange, the API executor and on-demand assembly; safety proved.
2. `ArtifactStore`, the two-step writes that `Orchestrator` and
   `RealItemGauntlet` treat as one; safety proved.
3. `RealItemGauntlet`, the second implementation of `ExamPipeline`; safety and
   the refinement proved.
4. `ReviewLoop`: the candidate pool's build, the generated exam and both label
   imports in one module, because they write one another's files; a crash
   between any two files heals when an import is repeated.
5. `MiniAlphaSelection`: the branch-and-bound search against the definition of
   an optimal selection, over all small pools; proved.
6. `DistillDedup`: `_dedupe_source_records` and the workbench's
   `_retain_latest_occurrences` as functions of the records loaded.
7. `BenchmarkRunner`, with the retry loop of `OpenAIProvider`: two benchmarks
   over one directory.
8. `CuratedBatches`, over `DistillDedup` and `FamilyRegistry`: a tree of batches
   from authoring to the atoms that generation asks for, and the support that is
   reported for them; all its properties proved.  Left: the slot plan of the
   candidate pool.
9. Proofs: done for every safety property of 1 to 8; liveness stays with the runs.

No module that is to be proved about declares a `RECURSIVE` operator; bounds
appear in guards only and are named.

## 3. The modules

### ExamPipeline

The abstract specification: a set of delivered stages that only grows, each
stage after the stages it is computed from, a bundle published after everything
it is made of.  Both `Orchestrator` (for one process) and `RealItemGauntlet`
are shown to implement it, through `Pipeline == INSTANCE ExamPipeline WITH ...`.

### Orchestrator

`disk` is `orchestrator_state.json`, `mem[p]` the copy a command works on,
`store` the artifacts in the order they were saved (an artifact's id is its
position, 0 is `None`), `packets` the exported files.  One action per durable
step: `Invoke` (`_create_or_load_state`), `Bootstrap`, `ExportManual`,
`CallProvider` / `ProviderAnswers` / `ProviderFails` (the three parts of an API
stage), `ValidateItem` and `AssembleExam` (`_execute_local_stage`),
`FinishCommand`, `ImportManual`, `AssembleOnDemand` (`assemble_from_run`), and
`WriteState`, the whole-file rewrite that follows each of them, as a step of its
own so that a crash or another command may come first.

Abstractions: an answer is `sound`, `flawed` (a validator blocks the item) or
`misfit` (validation passes and `order_validated_items` rejects the item); texts,
prompts and costs are left out; consecutive saves that nothing refers to yet are
one step; a state write is atomic (a torn state file makes every later command
raise, so there is nothing further to check).

### ArtifactStore

A save is `OpenFile` (the file exists, unreadable), `WriteFile`, `UpsertRow`; a
load is `FetchRow`, `ReadFile`; a rebuild is `StartRebuild`, `WalkFinds` /
`WalkEnds` (`rglob` may or may not meet files made meanwhile), `ReadListed` per
file, `ReplaceRows` in one transaction.  `Crash`, `SqliteRaises` and `LoseIndex`
may come between any two.  `promised` and `present` are history variables: what a
caller may rely on to be indexed, and what was whole when a rebuild began.  A
rebuild that began before a save returned may drop its row; the module makes this
precise instead of assuming it away, and `IndexConverges` says that the next
rebuild repairs it.

### RealItemGauntlet

The same shape as `Orchestrator` for one process: `responses` are the operator's
files, `outdir` what the files in the output directory were made from.  The retry
loop is `CallProvider` followed by `ProviderAnswers`, `ProviderMalformed` (tried
again while attempts remain) or `ProviderRaises`.  Rendering is two steps,
`RenderItem` and `RenderLineage`, so that a crash can fall between the files.

### ReviewLoop

`files` maps each file of the pool's and the exam's directories to `Absent`,
`Torn` (rewritten when the process died) or its content.  A command (`Build`,
`RunExam`, `ImportPool`, `ImportExam`) reads the files and settles its plan, the
list of files it will write and what with; `WriteNext` carries out the head of the
plan, `Crash` drops the rest and may tear the file being written.  Nothing else
runs between two writes of a command, so nothing is lost by settling the plan
first; the plans follow the functions of the code, one operator per function
that writes files.  The exam import ends in the pool's import, as in
`sync_generated_exam_reviews`.  A torn label log reads as empty:
`_load_review_payload` skips blank lines of a `.jsonl` file.

Abstractions: a summary is the latest verdict; which clean candidates are
selected is a free choice (`MiniAlphaSelection` is about that choice); the
content of a bundle other than its review never changes.

### MiniAlphaSelection

`_select_candidates` as a machine: `chosen`, `costs` and `ranked` are the stack
of open calls of `dfs`, `best` and `seen` its two non-local results, and a step
is one turn of the innermost loop.  A pool is all the search can see: profiles,
overlap penalties, item numbers, review penalties.  Overlaps have a direction,
because `SequenceMatcher.ratio` does.

### OpenAIProvider and BenchmarkRunner

`OpenAIProvider` is one `invoke`: `Request` sends a request, again while the
fault is one to retry and retries are left, and `Return` answers or raises.
`BenchmarkRunner` instantiates it for the call in progress.  `runs` is what a
benchmark can tell of each generation run (the prompts of one stage, what was
recorded of them, local validation, assembly records; `Orchestrator` has runs in
full), `report` is `benchmark_report.json`, the rest are the locals of
`run_dataset` and `_run_case`.  One action per durable step of a try: `Prompt`,
`SendRequest`, `FileResponse` and `SaveAnswer` (API) or `ExportPacket` and
`ImportAnswer` (manual), `ValidateBlocks` or `RunCompletes`, `AssembleAgain`,
`Render`, `Score`; then `WriteReport`.  `requests` and `lost` are history
variables that keep the books the code does not keep.  `EditTemplate` changes a
prompt template between two prompts.

Abstractions: an answer is one of three values, of which one fails validation;
costs are numbers of responses, all of a run's being listed (`load_and_summarize`
lists at most 1000 artifacts of it); the comparisons look at what the signatures of
`_compare_runs` are made of; of a run's artifacts all are where they were saved.

### DistillDedup, FamilyRegistry and CuratedBatches

`DistillDedup` and `FamilyRegistry` have no state.  The first says which version
of an item survives, from the set of records that were loaded, each with the place
it was read at: `Distilled` (exact duplicates out, equal contents merged,
the highest-ranked version of each item kept), `DedupStats`, and `Counted` for
the coverage report.  The second says which family an atom gets: `SelectForAtom`
for generation, `ClassifyAtomSupport` and `CoverageReport` for the report.

`CuratedBatches` has the files: `tree` maps each place to an items file and a
manifest, `outputs` each generated file to the run that wrote it.  Its actions
are `InitializeBatch`, `WriteItemsFile`, `WriteManifestFile`, an author's
`AuthorEdits`, `RunBatches` up to the first write and `WriteOutput` for each of
its files, and a crash before or inside any write.  The three readers are
operators over the tree: the workbench's scan (`WorkbenchValid`,
`SoundOccurrences`, `CoverageAtoms`), the pipeline (`LoadFails`, `DatesClash`,
`RunRaises`, `DistilledAtoms`) and the candidate pool (`AtomsOfBatchId`,
`AtomsOfBatchVersion`, `AtomsOfPath`).

Abstractions: a text stands for an item entry and for its hash, the list of texts
for the hash of a file; a constant table says what of a text matters (its item,
whether it passes the schema, the lints and the construction of its graph, its
topic, answer forms and steps).  A creation time is a number, 0 for none, and
whether it was given with a time zone: ranks compare the numbers, as
`timestamp()` makes them comparable, while `max` over the dates of one content
raises when only some have a zone (`DatesClash`).  A manifest is absent, torn, or a
record that may not fit its schema (`fits`): the workbench then reports an error
but still scans its items, undated, and the pipeline loads nothing.

## 4. Runs

| Run | Instance | Shows |
|---|---|---|
| `one_item` | 1 item, 1 process, both modes, 2 disturbances | lineage stays closed, outputs match their latest record, the history is append-only, every resumption reaches a bundle |
| `two_items` | 2 items, 1 process, API mode, 2 disturbances | only sound bundles are published; a blocked item never becomes an output and an item keeps its own suite; the run implements `ExamPipeline` |
| `concurrent` | 1 item, 2 processes, both modes, 1 disturbance, 7 artifacts | what survives two commands that overwrite each other's state, in the first stages |
| `artifact_store` | 2 processes, 2 artifacts, 1 crash, 1 loss of the index | rows and loads stay readable, promises are kept, rebuilding converges |
| `gauntlet_resume` | 2 families, both modes, 2 attempts, 3 disturbances | attempt log, retry limit, interrupted rendering, resumption |
| `gauntlet_blocked` | 1 family, API mode, 1 disturbance | a violation, see section 5 |
| `review_sync` | 2 candidates, 2 verdicts, 2 builds, 2 imports, 1 exam, 1 crash | every copy of a verdict agrees after a completed import, and a rejected candidate is in no exam |
| `review_latest` | 2 candidates, 3 verdicts, 3 imports, no crash | a violation, see section 5 |
| `selection_optimal` | 3 candidates, 3 slots, 12,688 pools | the search finds legal assignments at their cost, ends with a least penalty, and raises only when nothing fits |
| `benchmark` | the 3 cases of `release_smoke`, 2 prompts, 2 tries, 1 retry, 2 benchmarks, 3 disturbances | the report tells the truth, the gate is earned, requests are accounted for, every benchmark ends |
| `curation` | 2 places, 6 texts of 3 items, 2 ids, 2 versions, 3 dates, 3 families, 1 edit, 1 run over an earlier one | which valid trees are refused, that the readers of a tree of batches agree where they should, and that a manifest vouches for its files |
| `dedup_retained` | 3 batches: a text, its revision, the text again | a violation, see section 5 |

Why the bounds are enough.  A *disturbance* is a crash, a provider error, a bad
or replaced answer or a forced assembly.  Two of them reach a failure of a
recovery; the gauntlet gets three so that a stage can use up its two attempts and
be disturbed again.  One item has every kind of stage and every dependency
between stages; a second item adds the boundary between items and the chance to
mix them up; further items repeat it.  Two processes are all that a lost update
needs.  `concurrent` follows interleavings until seven artifacts are saved, by the
two processes together: the exam spec and the three artifacts of each of at most
two stages.  So it reaches lost updates, overwritten outputs and orphan packets, but
no item is validated and no exam assembled by two processes.  What
`LatestRecordExplainsOutput` says of validated items, their suites and repeated
validations is checked by `one_item` and `two_items`, where runs go to the bundle,
and with any number of processes it is a theorem (section 6).
`MaxAttempts` only keeps commands from being issued for ever.

In `review_sync` two builds and two imports are one command of each kind over the
files of another, one crash is enough for each import to meet every half-written
state an earlier command can leave, and two candidates for one slot make a
selection possible that leaves somebody out.  Three candidates for three slots are
the least with which the search meets a set of used candidates by two ways before
the last slot.  `benchmark` is the dataset the repository ships (`data/benchmarks`), which
has every kind of comparison, with PDFs required for its last case; the second
benchmark resumes what any three disturbances left of the first.  Two prompts are
the least between which a run can stop or the template change.

`curation` has two batches, since every question about two readers is a question
about two records: the same content twice, two versions of one item, two batches
with one id, an atom of two items.  The second may be empty JSON lines, or have
a date without a time zone.  The texts are one of each kind a reader may
treat differently.  One authoring step reaches every half-written or edited tree,
and one run over the files of an earlier one every mixture of two runs.  Three
output files stand for eight.  `dedup_retained` needs a third batch.

Deadlock is checked for `ArtifactStore` and `RealItemGauntlet`.  The others stop:
`Orchestrator`, `ReviewLoop`, `BenchmarkRunner` and `CuratedBatches` when nobody
issues another command (their bounds), `MiniAlphaSelection` when the search ends;
hence `CHECK_DEADLOCK FALSE`.

### Fairness

A command, once started, goes on by itself unless it dies: weak fairness of
`Proceed`, and of `Work` in `BenchmarkRunner`.  It is sequential code without waiting, so this is what the operating
system gives.  That a run is resumed, a waiting packet answered and the index
rebuilt again is what people do (`README.md`: "rebuild it with ..."); the
liveness properties say that doing it suffices, so it is assumed: strong
fairness, because other commands may come first.  Crashes, errors and bad answers
are not fair and are bounded.

## 5. Disagreements between the code and its texts

`gauntlet_blocked`: `_validate` (`src/orchestrator/real_item_gauntlet.py:1120`)
returns `True` when the state names a validate output and a validation artifact.
It stores both, and saves the state, also when the verdict is a hard failure,
and then returns `False` with `last_error` "real_item_001 validation blocked the
bundle".  Running the same `run_id` again skips validation, renders `item.json`,
`solution.json` and the PDF, and marks the run COMPLETED, with the docstring of
`RealItemBundleManifest` saying "Materialized bundle paths after a successful
run."

`review_latest`: `merge_human_review_records`
(`src/eval/review_feedback.py:231`) appends the imported labels and keeps the first
of equal ones.  A label equal to an earlier one therefore does not become the
latest: after reject, accept and the same rejection again (same reviewer and notes,
no `reviewed_at`) the candidate counts as accepted, although
`candidate_blocked_from_selection` is to tell "whether the latest review blocks the
candidate from selection".

`dedup_retained`: `_source_record_rank` (`src/distill/pipeline.py:543`) takes a
merged version's date from the newest of its batches but version and id from the
batch loaded last; the workbench ranks each occurrence by its own batch.  With equal
or missing dates they keep different versions of an item, so that "Coverage counts
are computed from the retained latest version" (`docs/curation_workflow.md`) is
about another version than the one distilled.  `NewestIsKept` of `curation` is
what does hold: where dates decide, both keep the newest.

### Observations

These came up while modelling.  Those on benchmarks, and the last two on curation,
contradict no text of the repository; the models have them, and the properties are
stated so that they hold all the same.  The first two on curation do contradict
texts.  They have no run of their own: `RefusalsOfValidTrees`, checked by `curation`
and proved, states them exactly, as the cases in which the code refuses what it
has validated.

Benchmarks:

- A failed try leaves attempts and FAILED records in its run's history, and a
  resumed run gets a further assembly record.  Both are part of the lineage
  signature, so one transient fault or crash makes every later benchmark in the
  directory compare unequal.  `GateIsEarned` promises a pass only when nothing
  went wrong.
- The error counts in the gate are sums over the scorecards of successful
  attempts, which are 0; cases outside the comparison groups do not count.
- The cost of a failed API attempt is reported as zero, of a resumed manual run
  only for the answers of this process; a request that timed out may have been
  served, and is in no summary.
- A template edited in the middle of a run makes the run fail its prompt audit
  under that run id ever after.
- A rollback target may be the very run that failed: run ids repeat.
- A torn `benchmark_report.json` makes every later benchmark in the directory
  raise before it runs anything.

Curation:

- The workbench warns of an empty batch "distillation will skip it"
  (`src/distill/curation_workbench.py:558`); `load_curated_items` raises for an
  empty `.jsonl` file (`src/distill/curated_batch.py:124`), and with it the whole
  tree is refused.  (An empty batch in JSON is skipped, unless no batch has an item.)
- Dates with and without a time zone for one content make the pipeline's `max`
  raise `TypeError` (`src/distill/pipeline.py:528`) on a tree that validates,
  although "Validation is intended to fail early before `distill run-batches`"
  (`docs/curation_workflow.md`).  The workbench itself ranks by `timestamp()` and
  does not raise.
- A reference by path takes every atom that shares the id, the version or the hash
  of a batch there, so batches of one version are found together, and `id@version`
  matches id and version from different batches.  `RefsFindTheirAtoms` therefore
  says what is found at least, and exactly for a bare id.
- Nothing reads the hashes of `generated_files` back.  `ManifestVouches` says that
  they would tell: a mixture of two runs never fits its manifest.

## 6. What is proved

`Orchestrator_proofs`, `OrchestratorRuns_proofs`: for every number of items,
set of processes and bound (assumptions: `N` is a positive natural number, modes
are `manual` and `api`, bounds are natural numbers)

- `TypeCorrect`, `AuditAlwaysPasses`, `OutputsAlwaysExplained`,
  `BundleAlwaysSound`, `WaitingAlwaysAnswerable`.

None of the properties is inductive: they speak of `disk`, and the next state of
`disk` is whatever copy a process has in memory.  `IInv` therefore demands
`Coherent` of every copy: each id it mentions resolves, each output fits its key
and is explained by its latest SUCCEEDED record.  `StoreIsSound` says that
artifacts are computed from earlier ones, carry the verdict their inputs deserve
and that a saved bundle is sound; since artifacts never change, it outlives any
lost update.  `ControlOK` and `PacketsOK` tie positions and packets to it.  The
proof goes action by action, through lemmas about what saving artifacts, changing
one stage of a state and replacing one process's copy leave alone.
`WaitingAlwaysAnswerable` has an invariant of its own: in every copy, a waiting
stage has a packet of the attempt that copy counts.

With one command at a time (`Alone`: there is at most one process), for every number of
items and any number of crashes, errors and replaced answers

- `LineageAlwaysClosed`, `HistoryOnlyGrows`, `RunImplementsPipeline`: the persisted
  state and the bundle it names are a behaviour of `ExamPipeline`.

`Alone` is needed: of two commands on one run the later save takes the other's
records away, and `concurrent` runs without these three properties.  The invariant
`SInv` adds to `IInv` what a lone command knows: its copy is the state file, but
for the progress it is about to save (`OnlyCommand`); every record of the file has
its inputs delivered by SUCCEEDED records before it (`Closed`, a property of each
prefix of the history, which is why appending keeps it); and the inputs listed in
a packet are such outputs too (`PacketsBacked`), since an answer may be imported
long after its packet was written, and after some of its inputs were replaced.
Every write of the file is then a `Successor`: the history extends the old one, and
the outputs are the old ones, or one more whose prerequisites were there.

`ArtifactStore_proofs`: for every set of processes and artifacts (assumption: the
bounds are natural numbers)

- `StoreTypeCorrect`, `RowsAlwaysReadable`, `LoadsAlwaysWhole`,
  `PromisedAlwaysIndexed`.

The invariant says what each process may rely on where it is: an upsert and a
fetched row have a whole file, and a rebuild's unread listing and what it has
read cover everything that was whole when it began.  It rests on one fact: no step
takes a whole file away (`WholeStaysWhole`).

`RealItemGauntlet_proofs`: for every set of families, attempt limit and number of disturbances, that is crashes, provider
errors and malformed answers (assumptions: the supported families are families,
`any` and `none` are not, modes are `manual` and `api`, the attempt limit is a
positive natural number and the bound a natural one)

- `GauntletTypeCorrect`, `WaitingAlwaysHasPacket`, `BlueprintAlwaysFits`,
  `OnlySpentRunsGiveUp`, `AttemptsAlwaysLogged`, `BundleAlwaysMatches`;
- `GauntletImplementsPipeline`: every behaviour of the gauntlet, seen through
  `real_item_state.json` and the bundle it names, is one of `ExamPipeline` with
  the stages of an item, the bundle published with its last one.

A command is long and touches few fields at a time.  `StepMoves` classifies every
step once by its effect on the state (it marks a stage, counts an attempt, ends a
stage with a record, saves, loads, dies...), and each invariant below is shown to
survive each effect, not each action.

- `CInv` demands of both copies of the state, the saved one and the command's,
  what the theorems say of the saved one: the next save may be of any copy.
- `LInv` is the ledger of attempts.  In every copy the counter of a remote stage
  equals the number of records of how an attempt ended, plus one while its packet
  waits; in the command's copy the stage being asked is one ahead, and a save
  happens only when the two agree.
- `PInv` says how far the command's copy may be ahead of the file: not at all, by
  one delivered stage, or by the publication.  With the stages delivered in order
  that is one step of `ExamPipeline` per save; a crash and everything between two
  saves map to a stutter.
- `BInv` says that a copy which names a bundle describes the output directory and a
  saved lineage, and that between the item files and the lineage the saved state
  names no bundle yet.  So whatever an interrupted rendering left behind, a second
  manifest and a second set of files included, is never what the state points to.

`ReviewLoop_proofs`: for every number of candidates and slots, set of marks and
number of commands and crashes (assumptions: there is a candidate, the approved
ones are candidates, verdicts are accept, revise or reject, there is a slot, bounds
are natural numbers)

- `ReviewFilesWellFormed`, `CopiesAlwaysAgree`, `ExamVerdictsAlwaysReachPool`,
  `RejectedIsNeverSelected`, `ManifestIsAlwaysLast`, `VerdictsAreHistory`.

A property of finished imports says nothing of the dozen writes of a running one.
What makes it inductive is that a plan writes no file twice (`Once`): what the disk
will hold when the plan is through, `Later`, is then known when the command starts,
and no write changes it (`OneLess`).  `Promises` says of `Later` what a command
promises of the files, and is proved where the command starts, from what its plan
writes (`PoolSyncWrites`, `ExamSyncWrites`, `RunWrites`, `BuildWrites`) and what each
file then says (`PoolAgreesAfter`, `ExamAgreesAfter`); when nothing is left to write
`Later` is the disk.  `Remains` keeps what was promised while other commands run:
an exam run writes no file of the pool, and everything else starts by settling
nothing.  `ManifestQueued` covers a crash anywhere in a plan: every file the pool's
manifest points to is there or comes before it.  `LogsExtend` says that a log is a
prefix of what it will be.

The label logs need facts about lists that filters and deduplication leave, such
as that a merge keeps the existing labels in place (`MergeGrows`).  The module
defines these lists by the numbers that stay (`InOrder`, `Kept`) and not by a fold;
that such a listing exists for every set of numbers is proved by a least
counterexample (`LeastNumber`, from the library's theorems on well-founded
relations that take no operator), which replaces induction.

`BenchmarkRunner_proofs`: for every dataset, number of prompts, retries, tries and
benchmarks (assumptions: each case has a mode, there is at least one prompt, and
limits are natural numbers)

- `BenchmarkTypeCorrect`, `ReportIsAlwaysTrue`, `AccountsAlwaysBalance`;
- `GateIsAlwaysEarned`, if `CasesAreCompared`: the dataset has one compare group with
  a case of each mode and one replay group of two cases, which share a case and leave
  none out, as `release_smoke.json` has (the run's dataset is assumed to satisfy it,
  so TLC evaluates it).  Without it the property need not hold: the gate asks for one
  comparison of each kind, so with a second group a failed case can go unnoticed.

`Positions` says what the run in progress has reached at each point of a try.
`Truths` demands of the report being made and of the rollback targets read at the
start what the property says of the finished report; it is inductive because no
step takes anything from a run that is certified: a benchmark that resumes it finds
it complete and only assembles it again.  `Books` is a ledger per run: the requests
sent are at most `MaxRetries + 1` for each answer, failure or lost call, plus those of
the call in progress, and in API runs receipts lie between answers and requests.
The gate is judged once and read later, so one half of `GateIsEarned` is what it
meant when it was judged (`GateMeansAgreed`) and that no step changes the answers of
a run that is sound (`AgreedStays`).  The other half is `Smooth`, the invariant of
benchmarks in which nothing has gone wrong: runs differ only in how far they are, and
`AssembledNow` gives the number of assembly records of each, one more for every
benchmark whose turn it has had, so the lineages that are compared are equal however
often the directory is used again.

`CuratedBatches_proofs`: for any trees, contents, edits, runs and crashes
(assumptions: places are finitely many positive numbers; texts, ids, versions and
dates are numbered in the order the code compares them; files list texts; the
manifest is not one of the generated files; what is linted or built passes the
schema, which is where the code's checks begin; a hand-written manifest declares
its items; and of the registry that every family names a topic and a form)

- `ManifestAlwaysVouches`, from `OutputsOK`: what a run has still to write ends in
  the manifest and names every file that is not yet of this run;
- `ValidTreesRefusedAreThese`, `NewestIsAlwaysKept`, `CoverageAlwaysIgnoresOrder`,
  `RefsAlwaysFindTheirAtoms`, `ReportedSupportAlwaysHolds`,
  `EveryRecordIsAlwaysCounted`, from `TreeOK`, the type of the files; the last is
  about sequential arithmetic and is proved only, without a run;
- `CoverageReportHolds`: for every finite registry of families whose matchers may
  overlap, the report counts an atom as supported exactly when generation finds a
  family for it, and the same one.

All but the first hold of any tree of the right type, so the argument is about
functions of finite sets of records and not about steps.  `RanksOrdered` says that
ranks are compared by a strict total order, `MaximalExists` that a finite set then
has a greatest element, `DistilledFacts` and `CountedFacts` what each of the two
readers therefore keeps.  `RefusalsOfValidTrees` is an equivalence: each of the three
kinds is refused whatever else holds (`ThreeAreRefused`), and in a tree without error
that is of none of them nothing else can raise (`ValidIsDistilled`).  `NewestIsKept`
compares the two readers on the dates, where dates can be compared.  Coverage
does not depend on places because a rank, with the text in it, says all of a record
but its place (`CountedAlike`).  `RefsFindTheirAtoms` needs that a merged atom has
the union of what the atoms of its key had (`MergedAtomFacts`), and the last part of
`ReportedSupportHolds` that merging looks at nothing provenance adds (`MergeIsBare`).
The statistics are two sums, each over the classes of a partition, of their sizes
less one: `ClassesCount` gives the size of the whole less the number of classes.

Python's `max` and `sum` are a `CHOOSE` and a recursive function here, which would
ask for induction over data.  `SmallestExists` replaces it: among the subsets of a
finite set that are of some kind is a smallest.  Taken for the set of greater
elements it gives a maximum, for the sets on which a sum differs from what it
should be, the sum.

`MiniAlphaSelection_proofs`: for every number of candidates and slots and every pool
(assumptions: there is a candidate and a slot, pools are of their type, and a
candidate collides with itself, as equal texts do)

- `SearchIsAlwaysExact`.

`PenaltyIsSpent` turns the penalty of an assignment, a sum over slots, into what the
search spends choice by choice.  What a call may still spend (`Rest`) depends on the
set of candidates chosen before it and not on their slots or their order, since the
slots are always taken in the same order; a memo by set therefore forgets nothing
that matters.  `SearchInv` says that open calls stand on legal choices at their
costs, and that what was found is legal at its cost.  `ExactInv` says that a set in
the memo is that of an open call or `Closed`, that is every completion from it at the
recorded penalty is `Beaten` by what was found, and that an open call has beaten what
it has already tried.  A legal choice of k candidates has k of them, so a set that
enters the memo is never that of another open call.  Pruning on an equal set or an
equal penalty then only leaves out what is beaten, and when the first call returns,
everything is.

Every invariant and every action property that a passing run checks is so a theorem.
Only model-checked is all liveness (`EndsInBundle`, `IndexConverges`,
`BenchmarkEnds`), which is out of the prover's reach.

## 7. What is not modelled

- Contents: whether an item is a good item, similarity scores, prompt texts,
  LaTeX, PDF, cost figures, the content heuristics of the single validators.  A
  model distinguishes answers only as far as control flow does.
- Torn `orchestrator_state.json` and `real_item_state.json` (see section 3); torn
  artifact files, reports, manifests, batches and the torn files of the review
  loop are modelled.
- The slot plan of the candidate pool: the build takes its profiles as given.
- Directory moves and legacy absolute paths in the index, list filters and
  ordering; `scripts/reset_runtime_state.py`, which removes everything.
- Components marked `not_modelled` in `PROJECT.json`, each with its reason or its
  place in the plan.
