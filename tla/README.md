# Verification of the credit risk service

TLA+ models of `creditriskapi`, the runs that check them with TLC, and theorems
about them that TLAPS proves. Paths are relative to the root of the repository,
which sits in `src/` here; the Python package is `src/src/credit_risk/`.

## The system

The repository is a pipeline that ends in a service.

1. **Acquisition and preparation.** `data/download.py` fetches one pinned XLS
   file and writes its manifest. `features/prepare.py` splits it into train,
   validation and test, fits a preprocessor and writes three manifests.
2. **Modelling.** `modeling/baseline.py`, `modeling/xgboost_challenger.py` and
   `modeling/calibration.py` fit models on train, compare them on validation and
   publish artifacts, metrics and manifests; `explainability/run.py` adds SHAP
   aggregates and the internal score. Every stage verifies the files of the
   stages before it by digests.
3. **The service.** `service/runtime.py` loads the frozen chain, `api/` serves
   predictions and explanations, `persistence/` writes an audit event for every
   success before it is returned, `ops/` reads the events back and compares their
   scores with a baseline made of the published deciles.
4. **Final evaluation.** `evaluation/final.py` opens the sealed TEST partition
   once and publishes the result for ever.

Stages talk through files only; the service talks to its clients over HTTP and
to PostgreSQL through a connection pool.

### Inventory

| Component | State | Operations | What makes it correct |
|---|---|---|---|
| Rate limiter, `api/rate_limit.py` | a deque of stamps per key, a lock | `acquire` | no window holds more than the limit; quota is not lost; `Retry-After` is honest; the lock is released |
| Request guard, `api/middleware.py` | id, key id, persistence status of a request; body so far | reject (503, 401, 429, 415, 400, 413), receive, delegate, log | checks in order; exactly one answer and one log record; the log tells the truth |
| Routes and lifespan, `api/main.py` | `app.state`: settings, runtime, service, database, limiter | startup, shutdown, ready, model-info, predict, explain | commit before success; one error code per failure; nothing served without a runtime |
| Inference service, `service/inference.py` | the explainer and its lock | predict, explain | one explanation at a time |
| Audit persistence, `persistence/` | table `prediction_events`, pool of connections | connect, check_ready, save_prediction, close | all or nothing; no connection leaks |
| Final evaluation, `evaluation/final.py` | snapshot and bundle of result files | evaluate, verify existing, snapshot only | sealed until the snapshot, one author, immutable, honest report |
| Acquisition, `data/download.py` | raw file, manifest, temporary files | acquire, write_json | never overwrites bytes it did not verify; atomic publication |
| Frozen runtime, `service/runtime.py` | none; reads nine files | load_runtime | accepts one consistent chain only |
| Preparation, `features/`, `modeling/contract.py` | three manifests, one artifact per fit | run_preparation, load_modeling_data | models see reviewed data only; published artifacts stay loadable |
| Training, `modeling/baseline.py`, `xgboost_challenger.py`, `search.py` | an artifact named by its digest; reports, search table, manifest | fit, search, save, load back, publish_experiment | an experiment is recorded once, whole, and reproduced or refused after; the candidate is the best one |
| Calibration, `modeling/calibration.py` | manifest, metrics, selection, two tables | choose a method and a threshold, publish | what is selected was evaluated; ties go to the simpler method |
| Explainability, `explainability/` | aggregates, score manifest, deciles | verify the chain, aggregate, rank drivers, score, publish | explains the model that is served; sums are kept on every level; the strongest drivers are named; deciles follow the risk |
| Operations, `ops/` | the baseline; reads the table of events | audit, summary, build and publish the baseline | counts agree with the rows; one release per summary |
| API manifest, `api/manifest.py` | one file | generate | written for a chain that loads |
| Schemas, settings, configuration, loading, quality | none | validate | inputs are refused or used as they are |

Hard behaviours, with the lines where they bite, are the `hazards` of
`PROJECT.json`. The main ones: the event loop, handler threads, the database and
the supervisor interleave; COMMIT may be applied although its answer is lost;
shutdown takes the runtime from under a running handler; processes share a
directory and may be killed between creating a file and filling it; a chain of
files is replaced one by one while its readers trust it; a monitoring job reads
rows, manifests and a baseline that all change under it; tolerances and ties
make choices that no ordering explains.

## Modules

| Module | Models | Composes |
|---|---|---|
| `AtomicLimiter` | what a caller of the limiter may rely on, abstractly | |
| `RateLimiter` | `acquire` step by step, threads and clock | refines `AtomicLimiter` by `INSTANCE ... WITH` |
| `AuditedInference` | what the service promises about its audit trail, abstractly | |
| `ApiServer` | one API process with limiter, guard, handlers, explainer, repository, pool, database, supervisor | refines `AuditedInference` by `INSTANCE ... WITH` |
| `FinalEvaluation` | `evaluation/final.py` run by any number of processes over one directory | |
| `Acquisition` | `acquire` and `write_json` likewise | |
| `Preparation` | `run_preparation` and `load_modeling_data` in the same directory | `Acquisition`, whose processes and files it extends |
| `ExperimentPublication` | a training stage: save under the digest, load back, `publish_experiment` | |
| `FrozenLineage` | the files from training to the service, their writers, and `load_runtime` | takes from `ExperimentPublication` that a record is reproduced or refused |
| `Monitoring` | `ops/run.py` beside a service, releases and the baseline | takes from `ApiServer` that an event is committed or not |
| `Task` | an input and its answer | |
| `Selection` | the choices of a candidate, a method and a threshold | extends `Task` |
| `ScoreTables` | reliability bins, deciles, ranking table, baseline bins | extends `Task` |
| `Explanation` | aggregation, importances, drivers, points of the score | extends `Task` |
| `MC*` | instances of the above for TLC | |
| `RateLimiterProofs`, `ApiServerProofs`, `FinalEvaluationProofs`, `PreparationProofs`, `ExperimentPublicationProofs`, `FrozenLineageProofs`, `MonitoringProofs`, `AlgorithmProofs` | theorems | extend their module; `PreparationProofs` is about `Acquisition` too, `AlgorithmProofs` about `Selection`, `ScoreTables` and `Explanation` |

Every action that a definition with "Faulty" in its comment describes is not
part of any `Next`. These are the mutants of `PROJECT.json`: plausible bugs that
each property is shown to catch.

### RateLimiter

`history` is `_requests`, `owner` the lock, `stamp` the local `now`, `reply` the
return value (0 for `None`). One call is `Enter`, `ReadClock`, any number of
`PopLeft`, then `Deny` or `Grant`; `Tick` moves the clock between any two steps.
Time is in ticks, `Second` of them to a second, so that a stamp may fall between
whole seconds and `ceil` matters. Floating point rounding of the clock is not
modelled. `grants` and `promise` are history variables.

`AtomicLimiter` is the limiter without deque, lock and arithmetic: a call is
answered as of one instant, it is denied exactly when the window that ends there
holds `Limit` grants, and the wait it announces is described and not computed, as
the fewest whole seconds after which there is room. In the mapping a call of
`RateLimiter` is open from `Enter` to its answer. The instant is the one at which
the clock was read: it is past when the answer comes, but no grant of the same
key can have been made after it, which is what the lock is for.

### ApiServer

A request goes through places `pc[r]`. The code between two awaits of the guard
is one action, since the event loop is one thread: `Reject*`, `OpenBody`, `Pass*`
from arrival to the first await, then `BodyComplete`, `BodyTooLarge` or
`ClientDisconnects`, `Dispatch`, `Respond` and `LogRequest`. A handler runs in a
thread of its own and every access to shared state is an action: `CheckRuntime`,
`LockExplainer`, `Predict` or `Explain`, `BeginSave` (which reads
`app.state.runtime` again), `CheckOut`, `SendCommit`, `CommitSucceeds` or
`CommitFails`. `kind` is the route, `keyValid` the credential, `outcome` the
status and code decided on, `answered` who was sent `http.response.start`.

`commits` holds COMMITs that the database has received and not decided; it may
decide (`DbApplies`, `DbDiscards`) before or after the API gave up on them, or
died. `server` is the life of the process. `Shutdown` sets the runtime to `None`
and `DisposePool` replaces the pool while requests are in flight: uvicorn normally drains
first, but nothing in the repository relies on it or configures it, and the
properties hold without it. The limiter is the one of `RateLimiter`; the
middleware calls it from the event loop only, so a call is one step here.

Requests share one API key, as the service has one. Header contents are a choice
among the outcomes of the checks. `/v1/health/live` and unknown routes touch no
state and are left out. A response whose body fails to send after its start was
sent is not told apart from one that is complete.

### FinalEvaluation

`frozen` is one version of all frozen files, which `Edit` may change at any time.
An identity has two parts because `frozen_contract` loads objects first and
hashes files afterwards. A file is `Absent`, `Partial` (created by `open("xb")`,
not yet written) or content. Content is a function of the identity, of the run
that took `generated_at`, of the snapshot, and of what is read again for the file
(`MadeOf`): `evaluate` reads configuration and split manifest, `run` the
operations manifest for the release manifest and the calibration metrics for the
report. `read` has the versions of these reads, which are steps of their own
(`Evaluate`, `ReadOperations`, `ReadValidation`), so that an edit may come between
any two. `Crash` may come before any step. `creator` and `unseen` are history
variables.

`assert_readonly` compares hashes once, between the first of these reads and the
other two. It therefore does not see a file that was changed and put back around
the first read, nor an edit that comes later and reaches line 238 or 249. What the
code does promise, and no more, is `BundleMatchesSnapshot`: every published file
is made of what the snapshot recorded, except for a read that such an edit may
have reached (`unseen`); an edit after the comparison never reaches the metrics
and the tables. Where the objects were loaded from one version and hashed in
another, the identity says so by having two parts, and the snapshot records it as
it is.

`Preflight` looks at all files of the bundle in one step where `publish` looks at
one after another: files only ever appear, in one order, so each outcome of the
sequential look is the outcome of looking at once at some moment of it.

### Acquisition

A file either has the pinned digest or not; a time is named by the process that
read it from the clock. `SomebodyWrites` is the foreign writer of
`test_publication_race_does_not_overwrite`. Failing writes and failing renames
are disjuncts of the steps they belong to.

### Preparation

Runs prepare or load, in the directory in which the processes of `Acquisition`
acquire: `BothNext` is a step of either. `VerifyRawDigest`, `VerifyDataset` and
`ReadSource` are common to both kinds of run, since both read the raw file twice
and the manifest once. A preparation then finds, creates or loads the artifact of
its fit, hashes its own code on disk, and writes three manifests; the time of the
third is read from the old one before the new one replaces it. A load reads the
three manifests one after another and compares each with its pinned hash
(`IsReviewed`). What comes after uses what it has read (`held`), not the pinned
values: configuration and split, code and implementation, artifact and names of
the features are compared with one another. So it is the comparison with the
pinned hashes alone that keeps an unreviewed but consistent preparation out. Any
step may raise and any run may be killed (`Stop`).

Configuration and code are versions, one of which is `Reviewed`. The owner may
edit both at any time, so that a run may find any version whenever it looks:
`conf` and `memory` when it begins, `hashed` when it takes the hashes. What a
split or a fit computes is named by what it is computed from. The split and the
names of the features are taken to be the same for all versions of the code, so
that only its hashes tell two versions apart, which is the harder case. The
manifests are in the repository, the artifacts are not (`PrepInit`).

Two things the code does not promise and the properties do not claim. A module
that is edited after it was imported and before it is hashed is not the code that
ran, which is why `DataIsReviewed` speaks of the code under
`memory[p] = hashed[p]`. And overlapping preparations can lose a generation time
in the way of finding 2; `TimeIsOfTheContent` says that a time never passes to a
content it is not of.

### ExperimentPublication

One run fits (`computed` is the outcome, fixed for its code and configuration),
then `FindArtifact`, `CreateArtifact`, `FillArtifact`, `LoadArtifact`, then
`FindManifest` and either the comparisons or the writes, in the order of
`publish_experiment`: reports, table, manifest. A run may be killed at any place
and every write may fail. Only `to_csv` tears: reports and manifest go through
`write_json`, which renames, and whose temporary files are the subject of
`Acquisition`. The temporary file of `save_native`, which nobody else sees, is
left out.

`OneAtATime` is TRUE where the stages run one after another, as the command line
means them to: nothing in the code enforces it, and what depends on it is stated
with it. `Earlier` is the run whose record the repository carries; artifacts are
not under version control, so that its artifact may be missing. The owner who
removes a record is in `FrozenLineage`.

### FrozenLineage

A process is idle or runs one stage, and reads and replaces each file on its own.
Files are named by what tells them apart: the reports and the manifest by their
model, the calibration and the selection by model and settings, the explanation
by the model, the options it was computed with, the options that were hashed, and
the model whose gain it was compared with. `seen` is what a run has read.

The configuration is edited at any time, also between the lines of a run. The
explainer uses the options it read when it began and hashes the file much later
(`HashOptions`); `load_runtime` reads its options and hashes the file after that
(`CheckHash`). An edit in either gap is invisible to both, and `edited` notes it:
`ServedIsOneChain` says that the options served are those explained with, but for
such an edit, and so that no edit at another time goes unnoticed.

What the model relies on, and where the code has it:

- two models have different validation metrics, which is what
  `verify_metrics` and the explainer's comparison tell them apart by; versions
  and names are the same for all models of a configuration;
- `reports` is metrics and importances together; their torn writing is the
  subject of `ExperimentPublication`;
- the baseline model is part of `Settings`, since calibration reads both once;
- the score's parameters are constants on which `settings()` insists, so that two
  score manifests that `load_runtime` reads can only differ by their model;
- manifests of the preparation are pinned by hash in `modeling/contract.py`, and
  everything else that is compared with a constant is the refusal `Stop`.

Nothing compares the threshold or the settings of the selection with those of the
calibration, beyond the version both name. A calibration that is killed between
the two files therefore leaves a mixture of two configurations that `load_runtime`
accepts; the repository claims nothing else, so `ServedWasSelected` speaks of the
model only.

### Monitoring

Events arrive with a stamp and the served release, and are committed later or
lost, by the database's decision also after the service that sent them has ended.
A release replaces the model manifest and the other frozen manifests, in either
order, and the API manifest and a restart of the service follow at any time, when
`load_runtime` accepts the files (`Consistent`). One run of the command is
`ReadApi`, `ReadModel`, `ReadOthers`, `TakeWindow`, `Collect` and a report, with a
failure possible at each. `contracts` compares a digest of the model manifest only;
the manifests of calibration, score and explanation, of which it compares versions,
are one variable `others`. `SummaryIsOfOneVersion` needs that comparison (`Agree`):
without it, a summary could be of a release that the API manifest does not describe.
The clock does not run backwards; an event is invalid
if it is of another release, since what else `audit_rows` counts cannot pass
`save_prediction` and the constraints of the table.

`publish_baseline` compares what it built with the file, or finds none
(`BuildBaseline`), and then truncates and fills it (`WriteBaseline`), without
exclusion: any number of publishers may be between the two (`drafts`), may meet
while they write, and may be killed, which leaves a file that cannot be read
(`Torn`). `BuildBaseline` is one step: that the metadata changes while the deciles
are read only makes the value older, and a draft may be of any age. `RemoveBaseline`
is the owner, who begins a new baseline so.

### Selection, ScoreTables and Explanation

Pure algorithms: the initial state is one input out of all inputs of the bounds,
one step computes the answer, and the properties compare it with what the
function is for, not with another copy of it. Metrics are integers, in units of
which `Tolerance` make the tolerance of the code. In `ScoreTables` probabilities
and scores are floats counted in units in the last place, so that the middle of
two neighbours, which float arithmetic rounds to one of them, is modelled by what
it does. Sequences of `numpy` and `pandas` calls are sets and functions of rows.
In `Explanation` contributions are integers, whose sums do not depend on their
order as those of floats do within the tolerance of the code; features are
numbers in the order of their names; the score is linear in the margin up to
where the probability is clipped. A check that raises gives the answer `Refused`,
and `ExplanationAddsUp` says when that happens.
`Task` has the two variables that the three modules share, so that one run visits
the inputs of all, and `Ordered`, the sort by a strict order: each member is where
as many others are before it.

## Runs

| Run | Instance | Distinct states | Shows |
|---|---|---|---|
| `limiter` | 2 threads, 2 keys, limit 2, window 2 s of 2 ticks, clock to 6 | 1.14 million | `SlidingWindow`; refinement of `AtomicLimiter` |
| `server` | 2 requests of 5 kinds, limit 1, pool of 1, clock to 1 | 619,970 | the audit, the answers and the log agree; refinement |
| `server_live` | 2 requests, explain and ready, limit 2 | 115,204 | `AcceptedIsFinished` |
| `server_contract` | 2 predict requests | - | violated: see Findings |
| `evaluation` | 3 runs, 2 versions, 3 files, 2 edits | 1.44 million | one author, made of the recorded files, sealed, immutable, truthfully reported, untouched by runs that only read |
| `preparation` | 3 acquisitions, 2 runs, 2 versions of configuration and code | 1.25 million | raw bytes kept and verified; models are made of reviewed data; artifacts stay loadable; times stay with their content |
| `acquisition_rerun` | 2 processes | - | violated: see Findings |
| `experiment` | 3 runs one at a time, 2 models, 2 contexts, 2 outcomes, 2 reports and a table | 397,900 | a record is whole, kept, and reproduced or refused for a reason; what is published can be loaded |
| `experiment_once` | 2 runs that overlap, with the table | - | violated: see Findings |
| `lineage` | 1 process, 2 models, settings and options, at most 2 calibrations that are the identity, edits at any time | 2.06 million | the service serves one chain of a selected model, with the options it was checked with |
| `algorithms` | 3 candidates, 3 methods, 4 rows and 7 probabilities for the threshold; up to 5 rows, 3 groups, 4 bins for the tables; 3 columns, sources and families, 2 rows for the explanations | 479,844 | the choices of `Selection`, the tables of `ScoreTables`, the sums and drivers of `Explanation` |
| `monitoring` | 2 events, 1 run, 3 releases of 2 versions, 2 replaced manifests, clock to 2 | 2.42 million | `MissedOnlyInFlight`, `SummaryIsOfOneVersion` |

Why the bounds are enough for what they show:

- *limiter*: with limit 2 and a window of 4 ticks a clock up to 6 lets the first
  stamps expire, a third and a fourth call be granted, and a denial be followed
  by the retry it announced. A second key shows that keys do not share quota; a
  second thread waits for the lock while the clock moves.
- *server*: two requests are the smallest number that competes for the limit, the
  pool, the explainer and the shutdown; a pool of one and a limit of one make
  every conflict happen. A clock up to 1 with a window of 1 lets a stamp expire.
  Restarts, outages and database decisions are unbounded. Requests are
  interchangeable, so the run uses symmetry.
- *evaluation*: two runs race and a third verifies what they left; three files
  are the metrics, the release manifest and the report, which differ in what they
  are made of (a table is made of what the metrics are made of). Two edits change
  a file and put it back, around a read or around the comparison.
- *preparation*: of three acquisitions there is a winner, a loser and a latecomer;
  of two runs one publishes what the other is reading or publishing. `Bounded`
  leaves out states where more than two processes are under way once a run has
  begun, or where more than one acquisition has: three acquisitions race before
  any run begins, and every pair of runs and acquisitions races after. One
  changed version is enough to be told from the reviewed one.
- *experiment*: one run leaves something, a second continues or is cut short
  too, a third judges what both left. Two values of each kind are enough to be
  equal or different; two reports have one before and one after a kill. Two
  overlapping runs are the pair that collides in `experiment_once`.
- *lineage*: two values of each kind, and any number of runs of any stage by one
  process, since a run forgets what it read. At most two of the four calibrations
  leave the probabilities alone (`MaxIdentity`): of one model or of both, and in
  neither, one or both is the challenger selected. What holds for runs that overlap, too,
  is proved: `ServedWasSelected`, `ServedIsOneChain`, and `PublishedIsLoadable`
  and `ArtifactsAreKept` of the previous module.
- *algorithms*: three candidates are the least for ties that are not transitive
  (a near b, b near c, a not near c), and a tolerance of one in four values allows
  them. Four rows with seven probabilities have ties within and across classes.
  Five rows in up to three groups leave remainders of 1 and 2;
  probabilities beyond the clipping at both ends and five between them allow
  neighbours, gaps and shared scores; more bins than distinct values occur. Three
  columns with contributions from -2 to 2 cancel within a source and within a
  family, tie between sources, and leave more drivers of one direction than are
  listed; two rows of contributions from -1 to 1 cancel over rows, which only a
  sum taken before the magnitude keeps apart; the margins reach beyond the
  clipping on both sides.
- *monitoring*: one event may be inside the window and one outside, or both of
  different releases; two releases under one version are what a comparison of
  versions confuses; windows of 1 and 2 hours within a clock of 2 have an event
  on either end. Two replacements (`MaxReplaced`) are one release in either order,
  or half of two; any number of publishers write baselines. For releases without
  end there is the proof.

`Next` of `ApiServer`, `FrozenLineage` and `Monitoring` always has a step. The
runs of `FinalEvaluation`, `Acquisition`, `Preparation` and
`ExperimentPublication` end (in the first, edits do, too: `MaxEdits`), and so do
the behaviours of the algorithms after their one answer: their configurations
turn the deadlock check off.

### Fairness

- `ApiServer`: weak fairness of the event loop's steps, of the handlers' steps
  and of the database's decision of a COMMIT, per request. The event loop and the
  threads run on by themselves; `pool_timeout=5` ends a wait for a connection
  (`CheckOutFails`) and a broken connection ends a wait for COMMIT. Clients,
  operators, outages and the supervisor owe nothing. Weak fairness suffices for
  the explanation lock because every request takes it at most once and there are
  finitely many. Liveness runs without symmetry.
- The other modules have no liveness property: a killed run is not resumed by
  anything, and an operator owes no command.

## Theorems

Proved by TLAPS for every value of the constants, under the `ASSUME`s of the
modules: sets of threads, requests, runs, models and configurations of any size,
any limit, window and pool size that is a positive natural number, at least three
files of the evaluation, any number of reports, candidates, rows, groups, bins and
columns, any tolerance, and markers such as `Nobody`,
`Absent` and `Partial` that are not mistaken for what they mark. TLC evaluates
these assumptions in the runs.

- `RateLimiterProofs`: types, `SlidingWindow`, `RetryAfterInRange`,
  `NoSpuriousDenial`, `RetryAfterHonoured`. The inductive invariant says that
  `history[k]` is a suffix of the sorted `grants[k]` from which only expired
  stamps have been popped. Without it a denial could not be traced to real grants.
  `LimiterImplementsAtomicLimiter` is the refinement: only `Deny` and `Grant` are
  not stutters or calls and ticks, and for them the invariant gives that the
  `Limit`-th youngest grant of the key, which the deque still has, decides.
- `ApiServerProofs`: types, the safety invariants of the run `server`,
  `ExplainerExclusive` (the explanation lock and who is inside the explainer), and
  `ServerImplementsAuditedInference`, the refinement. `IInv` is a conjunction over
  requests: who is past the quota check is admitted (`AdmissionInv`), COMMITs and
  rows belong to requests that reached the repository and whose answer, if any,
  says OK or PERSISTENCE_ERROR (`CommitInv`), a decided success has a row
  (`SuccessInv`), the log repeats what was decided (`LogInv`), and locks and
  connections are held exactly by those at the places that use them (`HoldInv`).
  The invariants alone are not inductive because they speak of `answered` requests
  only, while the decision is taken before the answer is sent.
- `FinalEvaluationProofs`: types, the five invariants and `Immutable`. The
  invariant says that the snapshot has one author, that whoever is past the
  snapshot check has its identity, that who created a file created all files
  before it, and what a run inside `publish` has written so far. `ReadInv` follows
  the reads: before the comparison of hashes a read of other content would be told,
  unless an edit was put back; behind it only an edit changes what is read next.
- `PreparationProofs`: about `Acquisition` alone its types, `DoneMeansVerified`,
  `TimeIsOfTheDownload` and `RawIsKept`, from `AInv`: whoever has verified saw the
  pinned bytes, which are still there, and a manifest of a run that is done is only
  ever replaced by another one of pinned bytes. `Composition` says that the
  processes of a directory in which runs prepare and load behave as `Spec` of
  `Acquisition`, so that these theorems hold there, too. About the runs: their
  types, `DataIsReviewed`, `ReportedIsLoadable` and `TimeIsOfTheContent`, from
  `PInv`: what a run has verified stays verified although the files it has read
  change under it (`SourceInv`, `ContractInv`), and a time that a run has taken
  for its content is in no manifest of another content (`DateInv`).
- `ExperimentPublicationProofs`: types, `PublishedIsLoadable` and
  `ArtifactsAreKept` for runs that overlap as they like; `RecordIsWhole`,
  `SuccessMeansRecorded`, `RefusalHasACause` and `RecordIsKept` for runs that wait
  for each other, which `OneAtATime` states in the theorem. `SavedInv` follows the
  artifact from its exclusive creation to the publication. `Sequential` says that
  at most one run is under way, what each place of it has already written or
  compared (`Progress`), that torn files have a run that was cut short
  (`TornInv`), and that a verdict stays true afterwards because a record, once
  there, is the same for ever.
- `FrozenLineageProofs`: types, `ServedWasSelected` and `ServedIsOneChain` without
  any assumption on how runs and edits overlap; `GainIsOfTheModel` for runs that
  wait for each other, and false otherwise. `ReadInv` says what a run's reads
  have in common with one another, `SelectionInv` that an explanation is of a
  model that was selected, `ConfigInv` that options which were read and not edited
  since are those of the configuration, so that the hash taken later is theirs.
  `Sequential` adds that at most one process is busy (`Exclusive`), and that
  reports beside a manifest are its model's and were written while there was no
  manifest (`RecordInv`).
- `MonitoringProofs`: types, `MissedOnlyInFlight` and `SummaryIsOfOneVersion`, for
  any number of commands beside a service whose events, releases, manifests and
  baseline change. `WindowInv` says that the window of a run is past before its
  rows are read, `ContractInv` that the model it read is the one that the API
  manifest describes, `SeenInv` that the rows and what was in flight at the time
  are all events of the window, for ever, and `RowsInv` what a report has
  established about the rows it is of.
- `AlgorithmProofs`: `NobodyDominatesTheCandidate`, `ComplexityIsPaidFor` and
  `ThresholdIsTheLargestBest` of `Selection`, all four invariants of `ScoreTables`
  and both of `Explanation`, for tables of any size, any tolerance and any lineage.
  The invariant of each module says that an answer is what the algorithm computes
  of its task (`SelectionAnswers`, `ScoreTablesInv`, `ExplanationInv`), and lemmas
  say what that is. What they need:
  - Least members of sets of numbers come from the order of `Nat` being
    well-founded (`LeastNat`), and induction over a finite set from those
    (`FiniteInduction`, `SubsetInduction`). The property is given as the set of the
    sets that have it, since the library's theorems take it as an operator, which
    the provers cannot instantiate.
  - *Sorting.* `OrderFacts` and `KeyOrder`: `Ordered` gives every member a place of
    its own, in order, if the key decides or the tie is broken by the row.
  - *Threshold.* Any number that selects somebody selects the same rows as the
    least prediction it selects (`SameRowsAtAPrediction`), and the least prediction
    separates by 0, so that the best separation is not negative.
  - *Groups.* `CutFacts` and `PartFacts` are `array_split`: parts are disjoint, in
    order, and differ by at most one in size. For `TablesMirror`, descending order
    is ascending order turned round when there are no ties (`TurnedOrder`), and so
    are its cuts (`TurnedPart`).
  - *Baseline.* The boundaries rise strictly unless two groups are one float apart,
    the exception that the property names (`BoundariesRise`); then a score has
    reached as many boundaries as there are groups below its own (`ReachedFacts`).
  - *Bins.* An interpolated quantile lies between two neighbours of the sorted
    column (`QuantilePlace`). So without ties every quantile is an edge of its own
    (`DistinctEdges`), the label of a row depends only on its rank and on the
    numbers of rows and bins (`CoveredLabel`), and the ranks of two labels differ
    by at most one in number (`PlacesFacts`, `BinSizes`).
  - *Sums.* `SumUnfold` takes one member off a fold over a set; sums by label
    (`SumByLabel`), in two stages (`SumTwice`) and over renamed rows
    (`SumRename`) follow. `SumAbs` and `ApartFacts` say when the magnitude of a sum
    is less than the sum of the magnitudes: exactly when members cancel.

Proved and in no run: the types of all of these, `RetryAfterInRange`,
`NoSpuriousDenial`, `RetryAfterHonoured`, `ExplainerExclusive` and
`ArtifactsAreKept`; the three of the limiter say of its deque what `AtomicLimiter`
says of the log. The runs are
left to what is not proved, or to what a reader will want to see fail when the
code is changed.

The steps of each proof follow the actions; facts about several actions are
lemmas. TLC checked the inductive invariants on small instances before they were
proved.

Model-checked only: `AcceptedIsFinished`, since liveness under fairness is out of
the prover's reach, and the violations of the three runs below. Every other
property that a passing run checks is a theorem.

## Findings

1. **VALIDATION_ERROR with 400.** `docs/api.md:126` gives the code the status 422
   and `api/main.py:59` declares no 400, but the guard answers a malformed or
   repeated `Content-Length` with `VALIDATION_ERROR` and 400
   (`api/middleware.py:61`). Run `server_contract`.
2. **A retrieval time can be lost.** `data/download.py:110` wants reruns to
   preserve the acquisition time. `acquire` reads the manifest once and renames
   over it later. If a second run starts after the first one linked the raw file
   and before it wrote the manifest, the second finds raw bytes and no manifest,
   carries `retrieved_at = None`, and its rename replaces the record of the first.
   Run `acquisition_rerun`. What does hold is `TimeIsOfTheDownload`: a time that
   is recorded is the right one.

3. **An experiment can be published twice.** `modeling/experiment_metadata.py:27`
   promises to publish once and never to overwrite a changed experiment, but
   whether there is a record is decided before the first of several writes. Two
   first runs that overlap both decide to write, and the second replaces reports,
   table and manifest of the first. Run `experiment_once`. It does hold for runs
   that wait for each other (`PublicationRecordIsKept`).

Not findings, since the documentation says so: the limiter forgets at a restart
(`docs/api.md:116`), and a COMMIT whose answer is lost leaves the client in doubt
(`docs/persistence.md`, "Fail-Closed Audit Policy"); `RefusalMeansUnaudited`
states precisely which answers leave no doubt.

## Not modelled

Numbers: fitting, SHAP values, probabilities, metrics and bootstrap are library
or floating point computations with no state; of the score its order, its
clipping, its groups and its points are modelled, not its logarithm. The
verdicts of `modeling/comparison.py` are thresholds on bootstrap intervals and say
no more than each comparison in them. Texts: error messages, reports, log
wording. One-time validation: settings and schemas of the API, `config.py`,
`data/schema.py` and `data/quality.py` each refuse an input or accept it, keep
nothing, and are a choice in the models that call them; the quality report is
replaced as a whole by `write_json`, whose steps are in `Acquisition`. Deployment
files and the integration script start and stop processes, which `ApiServer` has
as the supervisor's actions; the downgrade migration has no caller.

## Plan

The most consequential first. Done, in this order: `RateLimiter`,
`AuditedInference`, `ApiServer`, `FinalEvaluation`, `Acquisition`,
`ExperimentPublication`, `FrozenLineage`, `Selection`, `ScoreTables`, `Monitoring`,
`AtomicLimiter`, `Preparation`, `Explanation`, with proofs about all of them. To do:

1. `ExperimentPublication` for sequential runs as a refinement of a write-once
   register, and `FinalEvaluation` for racing ones as a refinement of the same.
2. A call of `ApiServer` to the limiter as a step of `AtomicLimiter`, so that one
   abstract limiter stands between both modules.
3. Preparation within the chain of `FrozenLineage`: there the manifests are pinned
   and a stage that finds others stops.
