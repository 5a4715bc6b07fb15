# CodeSmell in TLA+

A verification project for CodeSmell, a service that fetches Python, Java and
JavaScript projects, finds code smells with threshold rules and trained
models, and serves the results over a REST API. The modules here are
translated from the source; paths below are relative to the repository, and
`jobs/queue.py` and the like are short for `src/codesmell/jobs/queue.py`.
`PROJECT.json` lists the runs, the mutants that show each property can be
broken, the lines every definition stands for, and the hazards.

    tlc -config QueueSafety.cfg MCJobQueue     model-checks one run
    tlapm JobQueueProofs.tla                   checks the proofs

## 1. The system

API processes (FastAPI, `api/`) and worker processes (`codesmell worker run`,
`jobs/service.py`) share one SQL database and one storage directory. They do
not talk to each other in any other way: a request writes a row, a worker polls
for it. There are no messages, and no lock outlives a database statement.

| Component | Keeps | Operations | Talks to |
|---|---|---|---|
| Job queue, `jobs/queue.py` | `analysis_jobs`, `job_events` | enqueue, claim, recover stale jobs, cancel, retry | database only |
| Worker, `jobs/service.py` | a claimed job, a heartbeat thread, a workspace | poll, run the pipeline, report progress, check for cancellation, mark the outcome | queue, ingestion, metrics, detectors, models |
| Result tables, `jobs/service.py`, `db/models.py` | `source_files`, `entity_metrics`, `findings`, `ml_predictions` and what hangs off it | persist and clear, per stage | written by workers, read by API and reports |
| Projects, uploads, `api/routes/projects.py`, `api/storage.py` | `projects`, `storage/uploads` | upload, register, delete | cascades to jobs and reports |
| Reports, `api/routes/reports.py`, `reports/service.py` | `generated_reports`, `storage/reports` | generate, download, delete | result tables |
| Model registry, `explain/registry.py`, `api/routes/models.py` | `model_artifacts`, `storage/models` | register, verify, enable, disable, delete | workers load the models |
| Accounts, `auth/`, `api/routes/users.py` | `users` | log in, create, change, disable | every request |
| Ingestion, `ingestion/` | a workspace directory per execution | extract or clone, filter, scan, fingerprint | called by the worker |
| Parsers and metrics, `languages/`, `metrics/` | nothing | text to entities, entities to numbers | called by the worker |
| Detectors, `detectors/` | thresholds | rules over metric values | called by the worker |
| Dataset, `dataset/` | a sheet of review tasks, labels | create, review, finalize | by files, from the command line |
| Machine learning, `ml/` | a dataset, models with their cards, reports | prepare, split, tune, train, evaluate, predict | by files; registry |
| Explanations, research, front end, deployment, configuration | nothing the others rely on | | |

What is hard, and what makes each component correct:

- **Queue.** Several workers poll one table, on SQLite without row locks. A
  claim is one conditional `UPDATE`, but every other change reads a row, decides
  and commits later. SQLAlchemy then sends `UPDATE ... WHERE id = :id` with the
  columns whose value differs from the loaded one: a late commit neither fails
  nor overwrites the row, it *merges* with it. Workers die and are suspended;
  heartbeats are late. Correct means: no job is executed without having been
  put in the queue for it, nor twice at a time; cancelled jobs are not started;
  every job ends, whoever dies; a row never mixes two outcomes.
- **Results.** One execution writes its results in many transactions and may
  die between any two; the next one writes over what is left. Two jobs of one
  project replace the same inventory. Nothing but the
  job's status keeps two executions of one job apart, and that may be written by a
  recovery that comes too late. Correct means: a succeeded job shows what one
  execution computed, from one snapshot of the source.
- **Files beside rows.** No transaction spans the database and a directory.
  Correct means: a row that promises a file has it, and a file nobody promises
  is removed, under failing commits, crashes and overlapping requests.
- **Models.** Registration copies before it inserts, deletion removes before it
  deletes, and a worker commits predictions for a model it loaded minutes ago.
- **Ingestion** gives up at budgets (members, bytes, ratio, depth, time) in the
  middle of its work and must leave nothing, while git is a process of its own.
- **Accounts.** Every request makes sure of the administrator before it is served,
  so the commonest write races with itself; whether an administrator is the last
  is decided before the commit; a login writes the hash it verified minutes ago.
  Correct means: a person has one account, somebody can administrate, and a
  password that was reset stays so.
- **Parsers, metrics and detectors** are pure, and their hazards are boundaries,
  names that clash, nesting, and the order in which a tree is visited or a cache
  filled. Correct means: a metric is what the text and the class graph say, and a
  worse class is never reported milder.
- **Labels and learning.** Days pass between the commands of a study, and the
  projects change meanwhile. Correct means: a label only meets the code that was
  reviewed; no estimator is fitted on a project it is judged by; a report tells
  what is in the directory, also after an interruption.

## 2. The modules

| Module | Models | State and actions |
|---|---|---|
| `JobRow` | one row of `analysis_jobs` | an operator per handler from the row read to the row wanted; `Flush` is the `UPDATE` |
| `JobQueue` | `jobs/queue.py`, `jobs/service.py`, `api/routes/analyses.py` | the table, the threads of every worker, the open session of every actor |
| `WorkLedger` | abstract: work is started only against a ticket | `JobQueue` implements it (`IsALedger`) |
| `JobLifecycle` | abstract: the state diagram of `M6_EXECUTION_GUIDE.md:176-178` and the limit on attempts | `JobQueue` does not implement it (`FollowsLifecycle` is violated): a retry raises a limit that is used up |
| `JobQueueProofs` | theorems about `JobQueue` | |
| `RestrictedQueueProofs` | theorems about `JobQueue` in restricted circumstances | |
| `ResultStore` | the persisting stages of `jobs/service.py` | the result tables and every execution's place in its pipeline |
| `ResultStoreProofs` | theorems about `ResultStore` | |
| `AtomicResults` | abstract: results appear at once and stay | `ResultStore` implements it as far as executions of a job do not overlap (`PublishedAtomically`) |
| `ArtifactStore` | `api/routes/projects.py`, `api/routes/reports.py`, `api/storage.py`, `reports/service.py` | rows, files, and the label each request has reached |
| `ArtifactStoreProofs` | theorems about `ArtifactStore` | |
| `ModelRegistry` | `explain/registry.py`, `api/routes/models.py`, `_run_ml_models` | rows, directories, predictions, and the label of each process |
| `ModelRegistryProofs` | theorems about `ModelRegistry` | |
| `Workspace` | `ingestion/sandbox.py` | the directory of an execution: its entries and who wrote them |
| `ArchiveExtraction` | `ingestion/archive.py` | the member at hand, the chunks written, the budget used |
| `RepositoryFetch` | `ingestion/git.py` | the attempt, the clock, and git as a process beside the worker |
| `Ingestion` | `ingestion/service.py`, `ingestion/inventory.py`, the part of `_run_pipeline` inside the workspace | composes the three; adds the inventory and the executions of a job |
| `IngestionProofs` | theorems about `Ingestion` and the modules it composes | |
| `Accounts` | `auth/service.py`, `api/routes/users.py` and `auth.py`, `api/dependencies.py`, the bootstrap in `api/app.py`, `codesmell user` | `users`, and the place each request has reached with what it has read |
| `AccountsProofs` | theorems about `Accounts` | |
| `SourceText` | `languages/python/parser.py`, `metrics/complexity.py`, `metrics/halstead.py`, the functions in `metrics/oo.py` | no state: operators over a text, from its statements to the metrics of its functions, and to the code base that `ProjectMetrics` reads |
| `ProjectMetrics` | `metrics/context.py`, `metrics/oo.py`, `metrics/engine.py` | no state: operators over a code base, from the index of names to feature vectors |
| `RuleDetection` | `detectors/` | no state: thresholds, rules, severities |
| `Training` | `ml/splitting.py`, `ml/tuning.py`, `ml/logo.py` | no state: which rows an estimator is fitted on and which it scores |
| `Study` | `cli.py`, `dataset/`, `ml/features.py`, `ml/training.py` | composes the four: a file that is being written, the projects, and the files of a study, one after another |
| `StudyProofs` | theorems about `Study` and the operators of the modules it composes | |
| `MC*` | instances for TLC | |

**JobQueue.** A step is one statement or one commit. `claim_next_job` is
`CandidateFound`/`NoCandidate` (the query) and `ClaimWon`/`ClaimLost` (the
conditional `UPDATE`, one step). `recover_stale_jobs` is `ScanStale` (the query
for ids), `LoadStale` per id (`session.get`, which sees the row as it is *now*),
and `CommitRecovery`. A request is its read (`EnqueueJob`, `RequestCancel`,
`RetryJob`) and `CommitRequest`. `process` is `Progress`, `CheckCancel` and
`RaiseError` in any order the pipeline allows, then `LoadFinish` and
`CommitFinish`. The heartbeat thread is `ReadHeartbeat` and `WriteHeartbeat`,
which write without looking again. Between its read and its commit an actor
holds a unit of work `[old, new, stamped, event]` in `pending`; `Flush` applies
the columns in which `old` and `new` differ, and those in `stamped`, whose new
value is a timestamp that always differs. `heartbeat_at` is "none", "fresh" or
"stale", which is all recovery asks of it; `Expire` makes it stale.
`Stages` and `CheckedStages` stand for the calls of `_progress` in
`_run_pipeline` and for those followed by `_check_cancel`. `Hangs` says that a worker
stays in the pipeline for ever, which nothing in the code excludes. The history
variables `tickets` and `starts` count the events the code adds to
`job_events`. Worker ids are unique, as they are unless `--worker-id` is reused;
a restarted process is a new worker. Requests start no worker:
`_trigger_bg_worker` reads `settings.db`, which `Settings` does not have, and
its thread swallows the error.

**ResultStore.** An execution goes through the transactions of `_run_pipeline`
in order: inventory, metrics in batches, findings, predictions per model,
success. Between two of them it may stop (`Stop`: an error or a cancellation)
or die (`Crash`). Whether its job is executed again depends on the status alone, as in
`claim_next_job`; an earlier execution may still be under way. `Decree` is any commit that
writes the status meanwhile: a recovery, a retry, a cancellation. The history variable
`crowded` holds the jobs whose last executions overlapped. The inventory is replaced in
the three statements of `_persist_inventory`: `LoadProject` reads the fingerprint,
`DeleteInventory` sees the rows of that moment, `CommitInventory` inserts, or fails by the
unique constraint (`Violates`). A row carries the execution and the snapshot it was
computed from.

**ArtifactStore** and **ModelRegistry.** A request is a record in `calls`: the
label of the point it has reached, and what it holds. Each action goes from one
label to the next with one commit or one file operation. `Faults` says which of
them may fail; `Crash` ends a request anywhere.

**Ingestion.** `Ingestion` extends `ArchiveExtraction` and `RepositoryFetch`, which
both extend `Workspace` and share its tree `disk` and the worker's place `at`.
Extraction is a step per member and per chunk, with a file in the way of a
directory, a broken member, and real sizes that differ from the declared ones.
A fetch is `StartClone`, then `WatchClock` (the time is compared) and
`ReadProgress` (the blocking `read(128)`) in turn, until `EndAttempt`; git writes,
exits, gives up by itself, or falls silent. The progress callback writes to the database
and may raise in `StartClone` and `ReadProgress`; in the second the error passes the
`except` clauses of `git.py` and nobody kills git (`LeaveGit`): it becomes one of the
`strays`, which write into the workspace (`StrayWrites`) while it is removed, made again by
the next execution, and read. `astray` says that an execution has had one in its
directory. The `rmtree` that ends a session ignores its errors and may be undone by a stray;
the one before the next attempt to clone is modelled as complete, since git was killed
then, although nothing waits for its death. `BuildInventory` is one step, since without a
stray nothing else works in the directory: `Wrapper` is `resolve_root`, `Kept` and `KeptAnyway`
are what the scan and the fallback scan accept, `Refusals` what is listed as
rejected. `Turn` is the order in which `os.walk`, sorted, comes to the paths, and
`FirstOf` what it has found when the limit on source files stops it. The patterns
behind the filters are given as sets of paths.

**Accounts.** A step is one statement or one commit. `BeginAsAdmin` is the check of
a request (`require_roles`), which shares its session with the handler: a session
reads a row once, so an administrator who edits the own account decides on the
row that the check has read. Then `ReadExisting` (is the email taken?) or
`ReadTarget`, `CountAdmins` if the change takes an administrator away, and
`CommitInsert` or `CommitUpdate`, which writes the columns that were assigned
another value than the one read. `Fail` ends a request anywhere. A token only
names its account; `legacy` says that a hash was made with older parameters.

**SourceText.** A text is a sequence of statements, each with the statement and
the block it belongs to, and the expressions it has itself; that is the tree that
`ast` gives the parser, and `Places` says where a statement can follow. `Statement`,
`Block` and `IfChain` are the visitor of cognitive complexity, `Nesting` that of
depth, `Inner` the children they are given. `Recorded` says that of two
definitions with one path the later one's facts count. In `Study`, `Write` adds a
statement to a file, and `Detect` parses, measures and screens it.

**Study.** A command is one action, except `ml train`, whose files appear one by
one: `BeginTraining` empties the directory, `TakeSmell` splits the projects,
`DumpModel` and `WriteCard` write `model.joblib` and `model_card.json`,
`EndTraining` the report, and `Interrupt` ends it anywhere. A command that
refuses changes nothing and has no step. A code base is what the parser reports:
classes with names, modules, bases, references, fields and methods, and the
imports; a *version* of a project stands for its fingerprint, and `FileHash` for
the SHA-256 of a file: what it declares. Features are rationals. The estimators
are left out; a fit is the pair of the rows fitted on and the rows scored.
Random draws, of the controls and of the shuffles, are some draw (`CHOOSE`, for the
seeded sample) and any draw (`\E`, for the attempts of a split).
`RulesAssumption` says of the constant `Rules` what `detectors/config.py` checks
when it loads a file, and `StudyAssumption` what the parser and the options of the
commands guarantee of the others: a code base is finite and every class in it has its turn
(`IsCodeBase`), and so are the expressions of a statement (`IsStatement`).

## 3. The runs

| Run | Bounds | Shows |
|---|---|---|
| `QueueSafety` | 1 job, 2 workers at a time, 1 request, 1 crash, 1 retry, heartbeats in time | `ClaimsAreTicketed`, `TerminalRecord`, `LockIsHeld`, `NoClaimAfterCancel`, `IsALedger`, `EventuallyDone`, under every interleaving |
| `QueueTimely` | 2 jobs, 2 workers, heartbeats in time, no crash, no retry | `ExclusiveExecution`, `OldestFirst` |
| `QueueRetry` | 1 job, 1 worker, 1 retry | `FollowsLifecycle` is violated |
| `QueueCancelLost` | 1 job, a worker that dies, one that replaces it | `CancelHonoured` is violated |
| `QueueTwoRecoveries` | 1 job, 2 workers at a time, 1 crash | `ExclusiveExecution` is violated |
| `Results` | a rule job run once, a hybrid job run twice, 2 paths, 2 snapshots, 2 models, 2 executions at a time | `ResultsOfOneRun`, `PublishedAtomically`, `InventoryOfOneTree` |
| `Artifacts` | 2 projects with a job and a report each, 2 requests, failing commits and writers, 1 crash | `FilesAreThere`, `UploadHasOwner`, `RowsHaveOwners` |
| `ReportsLeft` | the same, 1 request, failing writers only | `DirsOfDeletedAreGone` is violated |
| `Models` | 3 ids for 2 models, 2 processes, failing copies and commits, 1 crash | `OneRowPerModel`, `PredictionsHaveModel`, `FilesAreWhole`, `DeletedForGood` |
| `Ingest` | 7 paths, archives of up to 3 members out of 12, 3 repositories, 2 executions, 1 crash, a git left running by either | `BudgetKept`, `SourcesAreWhole`, `NothingLost`, `WorkspaceGone`, `EventuallyOver` |
| `Study` | every text of up to 4 out of 12 statements; 9,648 detections in 4,824 code bases (4 classes with names that clash, cycles, a path beyond the limit, broken files and a failing calculator; 3 classes of 6 shapes); a study of 3 projects, 4 versions, every labelling, 1 edit or repeated command | `MetricsFollowSource` (`BurdenIsByDepth`, `NestingIsDeepest`, `MethodsCountOnce` of texts; `DepthIsLongestPath`, `CouplingIsBalanced` of code bases), `MoreCodeIsNotSimpler`, `DetectionFollowsValues` (`WorseIsNotMilder`, `PercentileFlagsAShare`); `RowsAreAsReviewed`, `EvaluationIsSound` (`NoLeakage`, `FitsSeeBothClasses`, `SplitsAreProper`, `HeldOutOnce`), `ReportMatchesModels` |
| `Accounts` | 3 ids, 2 emails, 2 passwords; 23 kinds of request, command and login, 2 at a time, 4 in all | `OneAccountPerEmail`, `FinalAdminGoesByTwo`, `ResetsStick` |

**Why the bounds are enough.** The rules of the queue are per row: jobs meet
only in the candidate query and in the list one recovery loads, which two jobs
show. A conflict takes two sessions on one row; a third party, the request,
makes it three in `QueueSafety`. One crash is what it takes to make a row
stale, one retry to start the attempts again. What the bounded runs show of the
safety properties the proofs show without bounds, and for late heartbeats as well, which
no passing run has. In `Results` two paths in one
snapshot with `BatchSize = 1` is the smallest instance with a crash between two
batches, and two executions that of one writing over another. In `Artifacts` and
`Models` a conflict takes two requests; a second project or a second model is
there to be confused with the first, and a second id for one model makes the
duplicate. In
`Ingest` three members are what it takes for one to overwrite another, or to be in
its way, and for a third to meet what is left of the budget; the limits are small
enough for every one of them to be met, and two executions with a crash show what
the first leaves to the second. In `Study` three projects are what it takes for a
split to leave two to tune on, and for a fold to be skipped beside one that is
not; two versions of a project differ in a file that a labelled class is only
referenced from. One change is enough for the edit between review and join, and
for a training over what an interrupted one has left; `MaxDepth` is 1 so that four
classes exceed it (32 in the code), `MinEntities` 3 for three classes to have
percentiles (20), `MinSamples` 3 (10), `MaxAttempts` 2 (256). A text of four statements
(`MaxText`) has a function, a branch, what is in it and what is chained to it; its first
statement defines something and no class is defined twice, so that there is something
to measure and a class of a file is told by its name. In `Accounts` a conflict takes two
requests, and what one leaves behind meets the third and fourth. Further bounds are
named in the module: a detection is the first step or none, in the absolute mode only
for the file that is written, whose one class has no percentiles, rows are filled in in
one order, labels are final once, and either a training or an evaluation by
projects follows, since they share nothing but the dataset. `RetryGrant` is 3, as in the code.

**Deadlock** is checked in the queue runs: workers poll for ever. It is not in
the others, whose identifiers run out.

**Fairness.** Only the `FairSpec` of `JobQueue` and of `Ingestion` assume any. A thread that can run
does (the scheduler); a dead worker is replaced (`restart: unless-stopped` in
`docker-compose.yml`); a request that is being served completes; and time
passes, so that a heartbeat nobody renews becomes stale. It is weak fairness
throughout: each step named stays enabled until it is taken. Nothing makes a
request arrive, a worker die, a stage fail or a heartbeat be late; and nothing makes a
stage of a pipeline end (`Outside` leaves them out): no limit is set to the time of one,
and while the worker waits in it the heartbeat thread keeps the row from being recovered.
`EventuallyDone` and `CancelHonoured` therefore have the exception `Hangs`; in
`QueueCancelLost` the second is violated although nothing hangs. In `Ingestion` the
worker runs and time passes; nothing makes git go on, and `EventuallyOver` says what
that leaves: an execution ends, or waits for a git that has fallen silent.

**Scope of the conditional properties.** `ExclusiveExecution` and `OldestFirst`
hold while heartbeats are in time and nothing is recovered or retried; with
recoveries the first does not (`QueueTwoRecoveries`), and a retry that commits
late may be overtaken: `queued_at` is set before the commit
(`jobs/queue.py:170`), so a younger job can be claimed first. `EventuallyDone` is about
jobs whose cancellation is not requested and stages that end, while heartbeats are in
time. `ResultsOfOneRun` and `PublishedAtomically` leave out the jobs whose last executions
overlapped (`crowded`), and `WorkspaceGone`, `SourcesAreWhole` and `NothingLost` the
executions in whose directory a git was left running (`astray`), and the first also those
that died. `FilesAreThere` excludes a connection lost
at `session.refresh` right after the commit. `InventoryOfOneTree` needs
snapshots that share a path: only then the unique constraint stops the second
of two transactions. `DepthIsLongestPath` leaves out code bases with a cycle and
those with a path beyond the limit, where the depth depends on the class that is
asked for first. In `DetectionFollowsValues`, `WorseIsNotMilder` is about rules that need all conditions: under
`any`, a class that meets one more condition, barely, is reported with a *milder*
severity, the weakest of those met; and a class all of whose values are zero and
below their thresholds has infinite excess only, which counts as none.
`NestingIsDeepest` is about the statements outside of any `case`, and
`MethodsCountOnce` about classes that define no name twice (see below).
`FinalAdminGoesByTwo` does not say that an administrator remains: if none does, a
command did it, which asks nothing, or the request that did it was not alone.
`ResetsStick` is about accounts whose hash is up to date and no login is about to
renew.

## 4. Where code and documentation disagree

Shown by a run:

1. `QueueCancelLost`: a job cancelled while running whose worker then dies goes
   back to the queue with `cancel_requested` set (`jobs/queue.py:134`), where
   no claim may take it (`:64`) and no recovery looks: it stays queued for ever.
2. `QueueTwoRecoveries`: recovery loads a row again but does not check that it
   is still stale (`jobs/queue.py:124`), so the second of two recoveries can
   requeue a job that is being executed again already.
3. `ReportsLeft`: `delete_project` removes the directories of reports with a
   `stored_path` (`api/routes/projects.py:138`), which a report that failed does
   not have; `docs/SECURITY.md:44` promises the directories are removed.
4. `QueueRetry`: `retry_job` raises `max_attempts` when the attempts are used up
   (`jobs/queue.py:168`). `M6_EXECUTION_GUIDE.md:194` says "Retry a failed job when
   attempts remain", and `tests/jobs/test_queue.py:127-131` expects `ValueError` with
   "maximum" there. `OnlyRetriesLeaveTheDiagram` shows that without cancellations and
   overlapping sessions this is the only departure.

Met while modelling, and not shown by a run:

- The same double recovery lets a row be claimed beyond `max_attempts`, and a
  job that was requeued with its attempts used up (`jobs/queue.py:135` after a
  concurrent commit) is never eligible again.
- Two executions of one job at a time (2 above) write one set of result rows: each
  deletes what the other has inserted, and either may mark the job "succeeded" while the
  other still writes, so that a succeeded job can show rows of both. A recovery that
  commits late also puts a succeeded job back in the queue.
- A late heartbeat may date a row that waits in the queue again. A second recovery that
  has read the date clears it after the next claim, and `recover_stale_jobs` never finds a
  running row without a date (`jobs/queue.py:115`).
- A cancel request whose read saw "queued" may commit "cancelled" after the job
  was claimed, or has ended (`jobs/queue.py:153`): off the diagram.
- `session.refresh` failing after the commit of an upload makes the except
  branch remove the file of a row that is there (`api/routes/projects.py:47`).
- A report whose publishing commit fails stays "generating" for ever: the
  commit in the except branch fails too (`api/routes/reports.py:79`).
- `delete_model` removes the files before it deletes the row
  (`api/routes/models.py:94`). If a worker that has loaded the model commits
  predictions after the check, the foreign key refuses the deletion, and the
  row stays enabled without its files.
- After the third attempt the size of the tree decides and not git's exit status
  (`ingestion/git.py:258`): a clone whose checkout failed half way is analysed.
- The fallback scan ignores `max_source_file_bytes` and what the first scan has
  rejected; its files stay listed as rejected, as does the file at which the
  limit on source files was reached (`ingestion/inventory.py:225`).
- A workspace is named by the job and opened with overwrite, so two executions of
  one job at a time (2 above) remove each other's files.
- Two jobs replace the inventory of one project, the first between the second's reading
  of the project and its `DELETE`: the second sends a fingerprint only if it differs from
  the one it has read (`jobs/service.py:247`), and the row may keep that of the first beside
  the files of the second.
- The progress callback commits to the database between two reads of git's output
  (`ingestion/git.py:204-214`). If that raises, git runs on, and `rmtree` with
  `ignore_errors` works against it: the workspace may stay, against "workspace leak | context
  manager tears down on success *and* exception" (`README.md:442`), or the next execution
  may read what it writes.
- A base is looked up by its last name, in its own module first (`metrics/context.py:191`):
  `class Handler(logging.Handler)` resolves to itself, and has depth 1 and a
  subclass, against "a class ... whose bases all live outside the project, has
  depth 0" (`metrics/context.py:212-220`).
- `except Exception: pass` around a calculator (`metrics/engine.py:224`) hides the
  `MetricComputationError` that the same file raises for a value that is not
  finite, and that `tests/test_metrics_engine.py:549` and `:576` expect.
- Two versions of a project have two fingerprints and count as two projects: a
  dataset that labels both has the code of one on both sides of a split.
- `--models` accepts `gradient_boosting` and `decision_tree` (`ml/models.py:17`), for
  which `candidate_parameters` raises (`ml/tuning.py:30`) after the output
  directory was emptied and earlier models were written.
- The check for the final enabled administrator (`api/routes/users.py:71-81`)
  and its commit are two steps: two requests can disable the last two, against
  `M9_EXECUTION_GUIDE.md:100`; `user set-enabled` does not check at all.
- A login that renews an old hash may commit after a reset and put the old
  password back, once (`auth/service.py:57`).
- Audit events are written for requests whose token names an account, and a
  failure to write one is swallowed (`api/app.py:121-149`): registrations and logins
  leave none, against "Successful mutating API calls generate audit events"
  (`docs/SECURITY.md:61`).
- The clone's timeout is compared only between two reads of git's output, and
  `proc.stderr.read(128)` waits (`ingestion/git.py:191-195`). A clone that falls
  silent is never killed; the heartbeat thread goes on, so the job is not recovered
  either, and nothing asks for a cancellation meanwhile. `README.md:440` promises a
  hard timeout, and `tests/test_cli_and_git_clone.py:254` expects one of a silent git,
  which in that test ends by itself after 30 seconds; `EventuallyOver` and `EventuallyDone` have the
  exception.
- The visitor of nesting does not look into the cases of a `match`
  (`metrics/complexity.py:242-251`), which the visitor of cognitive complexity does:
  an `if` in a `case` does not count for "deepest run of nested control structures".
- A property's getter and setter have one path, and so one entity id
  (`languages/python/parser.py:158-183`): the last definition's complexity counts twice
  in WMC, the first one's not at all, against "sum of the cyclomatic complexity of the
  class's direct methods" (`metrics/oo.py:215`).
- A report takes the project's fingerprint and inventory as they are when it is
  generated (`reports/service.py`), which another job of the project may have
  replaced since the job it is about.

## 5. Proofs

`JobQueueProofs` proves about `JobQueue`, for every set of jobs, workers and
requests, and every limit:

| Theorem | States |
|---|---|
| `TypeCorrect` | `[]TypeOK` |
| `Invariance` | `[]IInv`, the inductive invariant |
| `Ticketed` | `[]ClaimsAreTicketed` |
| `Recorded` | `[]TerminalRecord` |
| `LocksAreHeld` | `[]LockIsHeld` |
| `CancelledStaysUnclaimed` | `NoClaimAfterCancel` |
| `ImplementsLedger` | `Spec => IsALedger`, the refinement |

They assume `JobRowAssumption` and `JobQueueAssumption`, which the runs
evaluate: the null values are not members of the sets they complete, workers and
requests are distinct, limits are positive, and the last stage is followed by a
cancellation check, as in the code.

The argument. No invariant of the table alone is inductive, because a commit
writes what was computed from a row that may be gone. `PendingIsSound` therefore
says of every open unit of work what its commit may do *whatever the row has
become*: it never writes "running"; it writes "queued" only together with a
ticket; it writes a terminal status only with a stamped completion date, and
clears the date only when it writes "queued"; and it never writes a name into
`locked_by`. With it, `CommitRow` bounds what any commit does to any row, and
the steps of `Next` fall into four kinds (`TableStep`): those that leave the
table alone, those that write `heartbeat_at` alone, the claim, and commits.
`ClaimsAreTicketed`, `TerminalRecord`, `NoClaimAfterCancel` and the refinement
follow by these kinds. `LockIsHeld` needs more: that the last commit of an
execution really clears the lock. `FinishReleases` says why: the unit of work
was read after the claim, and nobody else can write this worker's name, so if
the row names the worker now, it did then. `StagesLeft` bounds the stage counter
for `TypeOK`.

`RestrictedQueueProofs` proves about `JobQueue` what needs restricted circumstances, for
any jobs, limits and stages. `Quiet`: heartbeats are in time, no worker dies and no
request retries a job. `Serial`: one worker process and one request at a time, and
nobody cancels. `QueueTwoRecoveries` and `QueueCancelLost` show that some such
conditions are needed.

| Theorem | States |
|---|---|
| `ExecutionIsExclusive` | `Quiet => (Spec => []ExclusiveExecution)` |
| `NothingIsStale` | `Quiet => (Spec => [](StaleJobs = {}))` |
| `ClaimsAreInOrder` | `Quiet /\ OneClient => (Spec => OldestFirst)` |
| `OnlyRetriesLeaveTheDiagram` | `Serial => (Spec => ...)`: every job begins and moves as `JobLifecycle` has it, or by a retry with its attempts used up (`RaisesLimit`) |

The argument. Every running row has an owner whose heartbeat thread lives
(`RunningIsAttended`): the claim sets both, the thread returns only when the row is
no longer its own, and the main thread stops it only after a commit that leaves the row
terminal (`FinishEnds`). So no row is ever stale and nothing is recovered. Requests
then only insert rows and cancel (`RequestsAreMild`), so that a job that is executed
does not wait in the queue again (`StartedIsOut`), and a claim cannot meet another
execution of its job. The order of claims needs one request at a time (`OneClient`),
because `queued_at` is set before the commit. Then rows enter the queue in the
order of their dates (`WritesAreDated`), what enters after a worker's query is younger
than its candidate, no other commit makes a row eligible (`RowMoves`), and the
candidate is still the oldest when it is claimed (`OldestAtClaim`).

For the state diagram, workers may die, heartbeats stop and jobs be recovered and
retried; but then what an actor has read is still true when it commits.
At most one worker lives at a time (`OneAlive`), so what a recovery has listed is still
running (`ScannedRuns`), a candidate waits (`CandidateWaits`), the job that is
executed is running (`ExecutedRuns`), and a row that is not there yet has no attempts
(`AbsentIsBlank`). `WritesFit` says of every open unit of work that it was read from the
row as it is now; so each commit takes its row along one arrow of the diagram, or raises
the limit of one whose attempts are used up, as `QueueRetry` shows it can.

`ModelRegistryProofs` proves about `ModelRegistry`, for any ids, models,
processes, faults and number of crashes, assuming `ModelRegistryAssumption` (an
id is made for one model, and the null value is no id):

| Theorem | States |
|---|---|
| `InvariantHolds` | `[]IInv`, the inductive invariant |
| `TypesHold` | `[]TypeOK` |
| `ModelsAreRegisteredOnce` | `[]OneRowPerModel` |
| `PredictionsKeepTheirModel` | `[]PredictionsHaveModel` |
| `RegisteredFilesAreWhole` | `[]FilesAreWhole` |
| `DeletionIsFinal` | `DeletedForGood` |

The argument. What the processes read before they commit is worth nothing for
the first two promises: the unique column and the foreign key keep them by
themselves. `FilesAreWhole` is not inductive: a copy that fails could spoil the
directory of a row. `Arrangement` excludes it. While an id is being registered,
its row is not there and nobody else names it (`RegistersAlone`); a row is only
there after its directory (`DirsComeFirst`), so that an id with a directory is
not registered again; what a worker has on its list has been registered
(`LoadsRegistered`), so it cannot stumble over an id in the making; and files
are removed by deletions alone, before the row (`ClearsDoomed`). The same
arrangement shows that an insertion never meets a deleted row, which with the
`WHERE id = :id` of the update gives `DeletionIsFinal`.

`AccountsProofs` proves about `Accounts`, for any accounts, requests and initial
tables, assuming `AccountsAssumption` ("admin" is a role, the null row is no row,
accounts are finitely many, and the service begins with one account per email):

| Theorem | States |
|---|---|
| `InvariantHolds` | `[]IInv`, the inductive invariant |
| `TypesHold` | `[]TypeOK` |
| `AccountsAreUnique` | `[]OneAccountPerEmail` |
| `FinalAdminIsKept` | `FinalAdminGoesByTwo` |
| `PasswordsStick` | `ResetsStick` |

The argument. A commit writes what was decided on a row and on a count that may
both be out of date, so the invariant speaks of what a call *saw*. `DecidedOnSight`
says that a call which is about to commit either counted two administrators or
takes none away as far as it has read; `RowsStay`, that the row it read is still
there, since nothing deletes an account. If then an administrator goes and none is
left, what the call saw differs from what is there, and another call has changed it.
For the email the unique column alone is enough, whatever `ReadExisting` has seen.

`ResultStoreProofs` proves about `ResultStore`, for any jobs, paths, snapshots and
models, any size of a batch and any number of executions, assuming
`ResultStoreAssumption` (there are finitely many paths and jobs, the kinds are the
three of the code, and a batch is not empty):

| Theorem | States |
|---|---|
| `TypesHold` | `[]TypeOK` |
| `ResultsAreOfOneRun` | `[]ResultsOfOneRun` |
| `ImplementsAtomicResults` | `Spec => PublishedAtomically`, the refinement |
| `InventoryIsOfOneTree` | `[]InventoryOfOneTree` |

The argument. An execution that succeeds does not look at the tables again; that
they are whole then is a matter of what every stage before has left. `Progress` says
so stage by stage: while the metrics are inserted, those of the paths that are done;
afterwards all of them, and of the findings; of the predictions, all entities of each
model that has run. Nothing in the code keeps a second execution of the job from writing
them too: recoveries, retries and cancellations may write any status at any time, and
the claim asks for no more. So `Progress` is about the jobs outside of `crowded`; of those
`OneAtATime` says that a start which met no other execution is followed by none while it
lives, and `ShownRests` that a job which shows results has no execution under way: an
execution that succeeds was the only one, and the next one first makes the job "running".
The refinement follows, since only the step to "succeeded" makes anything visible. The
inventory has an invariant of its own, if any two snapshots share a path: what a
transaction has seen is the inventory of one snapshot (`Sighted`), and so is what is
there; a commit that does not meet a path of its own there, and fail, has seen all of
that, and replaces it.

`ArtifactStoreProofs` proves about `ArtifactStore`, for any projects, analyses,
reports and requests and any number of crashes, assuming `ArtifactStoreAssumption`
(the null target is none of them):

| Theorem | States |
|---|---|
| `TypesHold` | `[]TypeOK` |
| `UploadsHaveOwners` | `[]UploadHasOwner` |
| `OwnersOfRows` | `[]RowsHaveOwners` |
| `FilesStay` | `[]FilesAreThere`, if the connection is not lost at `session.refresh` |

The argument. A request decides once, and acts later on files that others act on too.
The invariant says of each label what may still be relied on there. An upload without
a row is known to one request (`UploadsAlone`), which has it whole when it inserts the
row, and removes it otherwise (`Tended`); the files of a project are only removed when
its row is deleted (`RowsGoFirst`), and so are the directories on a list of paths
(`PathsGoToo`). A report is rendered by one request (`RendersAlone`), and is not ready
before its directory is whole (`Rendered`). The lost `refresh` after the commit is the
one step that breaks this: the except branch then removes a file whose row is there.

`IngestionProofs` proves about `Ingestion`, and so about `Workspace`,
`ArchiveExtraction` and `RepositoryFetch`, for any tree of paths, archives and
repositories, any filters and limits, and any number of executions and crashes:

| Theorem | States |
|---|---|
| `TypesHold` | `[]TypeOK` |
| `AnalysedFilesAreWhole` | `[]SourcesAreWhole` |
| `NoFileIsLost` | `[]NothingLost` |
| `WorkspacesGo` | `[]WorkspaceGone` |
| `BudgetIsKept` | `[]BudgetKept` |

They assume `WorkspaceAssumption`, `ArchiveAssumption`, `FetchAssumption` and
`IngestionAssumption`: paths are finitely many, none is above itself and each is in
one that is in none; no file of a repository is above another; the limits per file and
per archive are within the total; the walk comes to one path at a time.

The argument. What is on the disk is explained by the place the worker has reached:
when it begins, nothing is there, whatever an execution that died has left
(`BeginsEmpty`); while it extracts, every file but the one that is open is the last
member of its name among those behind the worker, complete (`Extracted`, `CopyIsOpen`);
while it fetches, every file is of the repository, and when git is done all of it is
there (`Cloning`, `GitIsWatched`). The tree does not change between the inventory and
the analysis (`Inventoried`). All that is off once a raising callback has left a git
running, which writes where it likes, into the directory of the next execution too
(`Undisturbed` is what holds without one); what is then still known is that the source is
a repository (`StraysAreKnown`), so that the budget, which is about archives, stands, and
the types. The limit on source files is an argument about ranks: two
paths of which as many come before would be one, so that no more than the limit are
taken (`FirstAreFew`), and if fewer are, no path was passed over (`FewAreAll`: the
first one left out would have all those taken before it). The budget is an argument
about sums: the sizes of the files that are closed add up to no more than `total`, and
the open one has `written` (`InBudget`); a file that is written a second time counts
twice in `total` and once on the disk. That the sum over a set is the sum over a part
and the rest is proved by induction over finite sets.

`StudyProofs` proves about `Study`, and so about `SourceText`, `ProjectMetrics`,
`RuleDetection` and `Training`, for any code bases, texts, rules, limits, reviews and
shuffles:

| Theorem | States |
|---|---|
| `SplitIsProper` | of two or more projects, neither partition is empty, no row is lost, no project is in both, and the training partition has both classes |
| `FitsAreSound` | an estimator is fitted on both classes, and on no project it or the test scores |
| `LogoIsSound` | the same of leave-one-project-out, and that the inner folds it takes exist |
| `LogoIsComplete` | each project is held out once per kind of model, or skipped once |
| `StudyIsSound` | `[]StudyInv`, the inductive invariant of the study |
| `LabelsMeetTheirCode` | `[]RowsAreAsReviewed` |
| `ReportIsOfModels` | `[]ReportMatchesModels` |
| `EvaluationsAreSound` | `[]EvaluationIsSound` |
| `MetricsAreNumbers` | `[]TypeOK` |
| `MetricsFollowTheSource` | `[]MetricsFollowSource` |
| `MoreIsNotSimpler` | `MoreCodeIsNotSimpler` |
| `DetectionIsByValue` | `(\A rule \in Rules : BandsRise(rule)) => (Spec => []DetectionFollowsValues)` |

They assume `RulesAssumption` and `StudyAssumption` (section 2). `BandsRise` says that
a higher severity asks for a larger excess. `detectors/config.py` (281-304) does not
check it; the multipliers in use (1, 1.5, 2.5 and 4, `detectors/rules.py:177-182`,
which `default_rules.yaml` leaves as they are) satisfy it.

The argument for a training is by counting: `TestCount` is between one and all but one
whatever the share rounds to, so that both partitions have a project; partitions by
projects share none; and three parts of two or more projects can be made without an
empty one. For a study, `StudyInv` says what each file owes to the one before: the
models on the disk are those of the results so far, each with its own card
(`ModelsAreSound`), the training that runs has split and fitted as its operators say
(`JobIsSound`), and the report of leave-one-project-out is that of some rows
(`LogoIsOfRows`). A row of the dataset is of the version reviewed because the join
takes a source only if its fingerprint is that of the label, which is one of the whole
project; the hash of the class's own file would not do.

For the metrics, `TypeInv` says that a report is of a code base (`FoundIsAnalysed`),
that a text is one the grammar allows, however it was written (`IsText`), and that
labels are what the validation passes (`LabelsAreTyped`). What has to be shown is then
that the operators have values. Sums are folds over finite sets. The cached walk over
the base classes recurs on itself through its cache: `WalkExists` is by induction on
what is left of it, the classes not on the path times one more than the most bases of
any class, plus the bases left at hand. A cache never forgets (`WalksSettle`), so that
every class has a depth after the last. Lack of cohesion is at most one since no field
is touched by more methods than there are.

That the metrics say what the source says (`MetricsFollowSource`) compares visitors of
a tree with counts over it. `TextInv` adds that what is written is a tree, each
statement in a block that the one around it has (`IsTree`), and that the report is of
this text. A function defined by recursion is one when its values are made of those at
a lower rank (`RecursionExists`); so are the paths, the nesting and the costs, and the
rest is by induction from the last statement to the first, on the way back that a
visitor takes. What a walk adds up is what the statement adds and what the walks of its
children do (`WalkSplits`, `OverParts`). The cost of a statement, at the number of
blocks around it, is then the sum of the burdens in it (`AllAreCosted`): what the
visitor says when it comes to an `if` is one of an "elif" just when the statement is
alone in its "else" (`ElifIsAlone`), and the handlers of a `try` add a level that the
`try` does not. The depth that a visitor finds at each statement is the greatest of the
runs in it (`WalkFindsDeepest`). For the depth of inheritance: where no class inherits
from itself a path meets no class twice, so the walk is never stopped by a class it has
seen; where none is longer than the limit, the class at which it is cut short is a
root; hence all that the cache holds is true (`IsTrue`), in whatever order the classes
are asked for (`DepthsAreHeights`). Coupling is balanced since either count is that of
the same pairs of classes (`CouplingBalances`).

That more code is not simpler (`MoreCodeIsNotSimpler`) is an argument about two texts,
one of which goes on where the other ends (`Extends`): the lines from a statement up to
the file are the same in both (`PlacesStay`), so that counts, sums and maxima are over
more (`WalkAdds`, `CountGrows`, `GreatestGrows`). Only the cognitive complexity is not
one of those: an `if` that was an "elif" may be one of several statements in the "else"
after the next is written. Then it pays for its depth, and the "else" for itself, and
what is in it is one deeper, since a statement is never an "elif" in the longer text
and not in the shorter (`DeepeningGrows`). With `BlockOfFunction`, which
`MetricsFollowTheSource` rests on too, each burden is then no less (`WeightGrows`); on
the visitor itself the induction would have to compare calls at different depths.

For the detector, the weakest excess of the class further out is no smaller, and
neither is the greatest band it reaches. A percentile lies between the values at the
ranks around it; those above it are none of the values up to the lower rank
(`FewAreAbove`), which is the bound on how many it flags.

**Not proved**, only model-checked: liveness under fairness (`EventuallyDone`,
`EventuallyOver`), which is out of the prover's reach. Every other property that a run
expects to hold is stated by a theorem.

## 6. What is not modelled

Reading is not: queries, paging, downloads, exports, the front end. Texts are
not: messages, report formats, explanations, audit entries. Estimators are
scikit-learn's; git, the database and the file system are modelled by what the
code relies on. Migrations run before everything else. `PROJECT.json` has the
reason for each component that has no module.

## 7. Plan

The order of work was the order of this table. What is left is in its last column.

| Modules | Abstract specification | Runs | Proved | Left |
|---|---|---|---|---|
| `JobRow`, `JobQueue` | `WorkLedger`, `JobLifecycle` | `Queue*` | eleven theorems | liveness while heartbeats are late |
| `ResultStore` | `AtomicResults` | `Results` | four theorems | |
| `ArtifactStore` | | `Artifacts`, `ReportsLeft` | four theorems | the contents of reports |
| `ModelRegistry` | | `Models` | six theorems | the check of a stored model before it is loaded |
| `Workspace`, `ArchiveExtraction`, `RepositoryFetch`, `Ingestion` | | `Ingest` | five theorems | directories and single files as sources |
| `Accounts` | | `Accounts` | five theorems | tokens |
| `SourceText`, `ProjectMetrics`, `RuleDetection`, `Training`, `Study` | | `Study` | twelve theorems | other languages |
