# Memory-Split: the verification project

TLA+ models of this repository: of the protocols that keep a training run, a
corpus, a pair of runs and an evaluation consistent while processes race, die,
lose answers and start again, and of the algorithms that build the corpora, pose
the questions and decide the study; TLC configurations that check both on small
instances; and proofs for every size.

The repository is a study in two tiers. `src/160m-farmshare` (below: *160m*)
trains small models on a Slurm farm from a frozen relational corpus, with a
ledger for each run, evaluates them and decides the study. `src/1b-b200` (below:
*1b*) builds larger corpora in parallel, trains 1b and 135m cohorts on B200
machines under shell supervisors or msctl, and evaluates through AWS. Nothing
here is a server. The concurrency is that of processes that share a directory, a
GPU or a bucket, and the hard cases are the ones that show only when one of them
stops half way; beside it there is much exact computation over files that a
later step must recompute, or refuse.

## 1. Inventory

Sources are listed with each component in `PROJECT.json`.

| Component | State it keeps | Operations | Interacts with |
|---|---|---|---|
| Run ledger (160m `experiment/ledger.py`) | a directory of `<sequence>-<id>.json`, a lock file, staging files | append, events, summary | the trainer and scripts that record a run's life |
| 160m trainer (`train/trainer.py`) | `ckpt.pt`, `log.jsonl`, snapshots, config, the ledger | start, resume, step, checkpoint, complete, fail | ledger, readers, `submit_chain.sh`, `run_local_gpus.py` |
| Packed-stream readers (`train/data.py`, both tiers) | a cursor (and epoch) in the checkpoint | next batch, save, restore, migrate | trainers; the corpora below |
| Corpus task workspaces (1b `corpusgen/parallel`) | a directory per plan with an ownership marker, results, temporaries; retained tombstones | publish, load, clean up | many Slurm array tasks; publication |
| Corpus publication (same) | a stage directory, its mark, its artifacts and receipt, the output | build, resume, verify, publish | workspaces, rival builders |
| Corpus schedule and packing (same) | none between calls | partition, reduce, schedule, assign, pack | workspaces give it records, publication its shards |
| 1b cohort supervisors (`launch/`) | process ids, log rows, S3 copies, marker objects | rounds, retries, deadline, final sync | two supervisors, one daemon, one watchdog, the trainers |
| 135m pair run (`scripts/run_135m_pair.py`, `cluster/slurm`) | two arms' checkpoints, status, receipts, evidence | canary, preflight, run, resume, finalize | msctl, Slurm |
| msctl (1b `msctl/`) | profiles, manifests, preflight receipts, job ids | instantiate, submit, resume, evaluate, status, collect | pair run, AWS |
| Reasoning-v3 evaluation release (1b `evals/reasoning_v3`) | versioned S3 objects under fixed keys | materialize, publish manifest, evaluate, infer, put checkpoint | evaluators, trainers, the contract's administrator |
| Reasoning-v3 corpus generation (1b `corpusgen/reasoning_*`) | a source tree, a record manifest, an extension of packed shards | clean, compile, verify, publish | the puzzle generators, corpus staging |
| Reasoning-v3 corpus staging (1b `cluster/aws/reasoning_v3.py`) | objects in a bucket, a temporary tree, a published tree | upload, stage, verify | training jobs on several nodes |
| Relational corpus build (160m `corpusgen/`) | files written once: stream, weights, manifests, audit spools | worlds, splits, plan, write, mask, verify | study chain, evaluation |
| Organizer stores (160m `organizer/`) | index, rows and texts, memory-mapped | build, load, look up | corpus build, evaluation |
| Wikidata inputs (160m `corpusgen/wikidata*`) | SQLite spools, a package, a graph and its questions | select, render, validate; walk, replay, audit | corpus build, robustness evaluation |
| Relational evaluation lifecycle (160m `scripts/run_relational_evals.py`) | publication locks, checkpoint trees, pairing receipts, guardrail reports | decode, publish, promote, pair, report | stores, trainer's snapshots, analysis |
| Relational metrics and statistics (160m `evals/`) | rows, summaries, estimates | accumulate, verify, estimate | evaluation, analysis |
| Relational study chain (160m `scripts/`) | gate receipts, freeze, plan, bundle, analysis | evaluate gates, freeze, plan, package, verify, analyse | everything above |
| Legacy corpora and scorers, models, cluster scripts | none, or one final file | | |

What is hard in them, and what must hold:

* **Ledger.** Appenders race; readers take no lock; a kill or power cut falls
  between the staging file, its sync, the link and the sync of the directory.
  The events must always be one legal chain, no acknowledged event may be lost,
  a read must be a prefix of it.
* **Trainer.** Log, snapshots, checkpoint and ledger are written one after the
  other by processes that are killed at any of them. A run that finishes must
  have the history of one that was never interrupted; restarts must end.
* **Readers.** Wraps, segment ends, old cursors. A killed and resumed run must
  see the targets, and their weights, of an uninterrupted one.
* **Workspaces and publication.** Directories are made first and marked as owned
  second; deletion is a rename to a shared, bounded directory. Acknowledged
  results must stay; the output must appear whole, once, and stay.
* **Schedule.** Rounding, ties, remainders. The shards must hold every record,
  whole and in order; lanes must keep level.
* **Cohorts.** Shell loops with sleeps check, then act, and a supervisor may be
  killed and started again. A GPU should have one trainer; a sync that reported no error must have copied everything; the
  supervisors must end.
* **Pair run.** Preemption leaves the arms at different steps. The protected run
  must train both from one step, and its receipt must be true.
* **Evaluation release.** Everything is published once, by whoever comes first,
  and an answer may be lost after the write. Whoever is told that something is
  published must be told of the same thing; a report must stand on one release.
* **Corpus staging.** Look, then copy; download, verify, rename; a power cut
  tears what was never synced. What is published must be the frozen corpus.
* **Corpus generation.** Quotas and rejections, and a horizon of tokens that must
  be hit exactly by whole rows; answers that an independent oracle must confirm.
* **Relational build.** Each fact must be rendered whole, every payload masked
  and none leaked, every question answered by its world, no split sharing with
  another; a mixture met to within a record.
* **Relational evaluation.** A lock made with O_EXCL outlives a kill; promotion,
  receipt and report are separate steps; evaluator or data may change between
  two calls. Batched decoding must answer as unbatched decoding, and what a
  control promises must be what it does to the answer.
* **Study.** Six gates, a freeze, a plan, bundles, runs, estimates and a verdict,
  each with digests of what came before: nothing of another freeze may get in,
  and nothing genuine may be refused.

`PROJECT.json` lists the hazards at their lines with the properties that cover
them. Those without one say why.

## 2. Modules

Protocols: processes that interleave, with kills and lost answers.

| Module | Models | State and actions in the code |
|---|---|---|
| `LedgerEvents` | the event types and which may follow which | `EVENT_TYPES`, `_TRANSITIONS` |
| `AbstractLedger` | what a ledger promises: one legal sequence, extended at its end | `append`, as its caller sees it |
| `RunLedger` | `experiment/ledger.py`, one action per system call | `published` and `synced` are the directory now and at its last fsync, `dots` the staging entries, `lock` the flock; `pc` follows `append`; `rpc`, `listing`, `view` follow `events` |
| `ExactResume` | `Trainer`, from validation to `completed` | `made`, `temps`, `ckpt`, `log`, `snaps` are the run directory; `plan` is what `_prepare_training_ledger` decided to append; an append is one step, as `RunLedger` justifies |
| `TaskWorkspace` | `workspace.py` on `safeio.py` | inodes with entries and locks, paths that lead to them, descriptors held by processes |
| `AbstractPublication` | what publication promises | the rename |
| `CorpusPublication` | `publication.py` | one stage per build id: files, temporaries, mark; `at` is the artifact in hand; `holder` the flock |
| `Cohort` | the four scripts of `launch/` and their trainers | `sup[s].pc` is the line a supervisor is at, `life` the process the lead is, a trainer is one of such a process, `daemon`, `watchdog`, `syncer` the background loops, `stale` what S3 has not |
| `PairRun` | msctl's submission, the batch script, `run_135m_pair.py` | `pc` is the job's, `runner` and `trainer` the two processes of an arm, `ckpt`, `receipt`, `status`, `evidence` the files |
| `ReasoningRelease` | `evals/reasoning_v3` over versioned S3 | `store[key]` is the sequence of a key's versions; `own[e]` the local variables of an evaluator's call; `acks` what callers were told |
| `AbstractStudy` | what the evaluation of a paired study promises: each checkpoint once and in order, one receipt after both arms, one report after it, one verdict about it | the renames and links |
| `RelationalEvaluation` | `run_relational_evals.py`, `relational_pairing.py`, the loading in `analyze_relational.py` | `trees`, `receipts`, `reports`, `verdicts` are what is published, `locks` the O_EXCL files, `own[e]` a call's staging directory, `env` the sources and the data |
| `CorpusStaging` | `cluster/aws/reasoning_v3.py` upload and stage | `bucket` has the digest each object claims beside its content, `temp` the temporary trees by process id, `dest` the published one, `synced` whether the rename is |

Machines of one process, checked step by step:

| Module | Models |
|---|---|
| `PackedShards` | both tiers' readers: cursor, epoch, wrap, weights, save and restore, migration of old cursors |
| `CorpusSchedule` | `tasks.py`, `schedule.py` and the packing loop of `publication.py` |

Algorithms: operators, each checked against what it promises over bounded inputs.
Each has one variable, `input`.

| Module | Models | Promise |
|---|---|---|
| `RelationalDecoding` | `relational_generate.py`: constrained decoding, forced returns, batches that split by action and by length of return | a batch answers as its items decoded alone; an item marked `bad` stands for a call that raises, and then nothing is returned of its batch |
| `RelationalControls` | `relational_controls.py`: the causal controls; the row contract of `relational_contracts.py` | each control changes the answer, or leaves it, as it says |
| `CheckpointMetrics` | `relational_metrics.py` and the summaries | what is added up pair by pair is what is computed from all rows |
| `RelationalMasks` | the writer's sidecars, `mask_ledger.py`, `payload_inventory.py` | exact weights of a corpus with a payload are accepted, any other refused, and so is a corpus without one; leaks are found, no other thing is |
| `RelationalWorlds`, `RelationalSplits` | `srgm_worlds.py`, `world_splits.py` | worlds have their shape, paths end, counterfactuals flip; splits share nothing |
| `RelationalMixture` | the plan of `relational_build.py` | components meet their shares, worlds their sizes, questions their strata |
| `PackedGraphs` | `packed_graph_store.py` against `graph_store.py` | lookups answer as the graph, whatever index loads |
| `ReasoningOracles` | `reasoning_oracles.py`: fourteen kinds of puzzle | each answer is the one the puzzle's definition has |
| `ReasoningExpansion` | `reasoning_expansion.py` | the horizon and quotas are met exactly, the replay accepts that and nothing else, cleaning removes bytecode alone |
| `WikidataHashmap`, `WikidataPaths` | `wikidata5m_hashmap.py`; `wikidata_paths.py` with its replay | quotas by smallest hash, no member of the package can change; every path replays and every candidate is accounted for |
| `RelationalGates` | `relational_gates.py`, `freeze_relational_study.py` | a freeze is of one evaluation, by the frozen rules |
| `RelationalStudyPlan` | `make_relational_manifest.py`, assets, package and bundle verification | what was built for a freeze verifies, nothing of another does |
| `RelationalEstimates` | `relational_stats.py`, `relational_design.py` | arms are compared on the same pairs in every replicate; the blinded gate cannot tell the arms |
| `RelationalAnalysis` | `analyze_relational.py`, `relational_reporting.py` | complete runs of the plan only; the verdict read is the verdict decided |
| `RelationalGuardrails` | the guardrail measurements of `run_relational_evals.py` and `relational_metrics.py`, `GuardrailReport` of `relational_contracts.py` | six guards hold when their measurements say so, and the report's second reading decides the same |
| `ReasoningReport` | `evals/reasoning_v3/runner.py`, `inference.py`, `reporting.py` on results already fetched | nothing counts that does not replay; the verdict is the one that answers, draws and gates support |

`MC*` modules give the constants that a configuration cannot write down;
`MCComputations` also enumerates the inputs of the algorithms, part by part, and
composes the two machines and `CorpusStaging` with them. A definition carries the
name of the function it translates, in TLA+ case, where there is one;
`PROJECT.json` gives the lines of each. `*Proofs` modules are section 5.

How the parts fit: `ExactResume` takes an append as atomic because `RunLedger`
implements `AbstractLedger`. `CorpusPublication` takes the loaded results and the
packed bytes as given, which `TaskWorkspace` and `CorpusSchedule` look at.
`PackedShards` reads what `CorpusSchedule` packs. `Cohort` and `PairRun` keep of a
trainer its log, its checkpoint and its death, which `ExactResume` opens up for
the 160m tier. `CheckpointMetrics` extends `RelationalControls`, which extends
`RelationalDecoding`: a decoded item becomes a row, a row a summary, in one chain
of definitions; `RelationalSplits` extends `RelationalWorlds`, whose questions the
same controls change; `RelationalAnalysis` extends `RelationalStudyPlan`. A tree of
`RelationalEvaluation` is what those compute for one checkpoint, and its verdict
the one `RelationalAnalysis` decides. `ReasoningReport` is what an evaluation and a
report of `ReasoningRelease` compute between their reads and writes.

Data is abstracted to what the properties tell apart: a hash chain is the list
of events it commits to, a digest is what it is a digest of, a checkpoint is its
step, a shard's bytes are a function of the build, a signed object is its
payload. Control is kept: early returns, failures, order of effects, what is done
under which lock.

## 3. Runs

Passing runs explore their state space to the end.

| Run | Asks | Bounds |
|---|---|---|
| `ledger_crash` | do racing appenders keep one legal chain, and every acknowledged event, through failures, a kill and a power cut, and so implement `AbstractLedger`? | 2 appenders, 2 events, 1 kill, 1 power cut, 1 caller-given id |
| `ledger_readers` | is a lock-free read a prefix, does every append return? | 2 appenders, 1 reader, a directory that does not exist yet |
| `resume` | does a ledgered run, resumed after faults, reach the history of an uninterrupted one, and come to an end? | 4 steps, rows every 2, snapshots every 3, 3 faults |
| `task_workspace` | what survives publishers that disagree, a loader, a cleaner, a kill? | 2 publishers of one task, 1 loader, 1 cleaner of another workspace, 3 tombstones, 1 kill |
| `publication` | is the output whole, kept, and honestly reported, and does everyone get an answer? | 2 builders of one build, 1 of another, 2 foundations, 2 shards, 2 kills |
| `cohort` | when do two trainers share a GPU, are syncs durable, is there an end? | 1 GPU, 2 and 1 rounds, a clock of 4 instants, 1 kill, 1 restart of the lead |
| `pair` | is a completed pair paired, does the pair complete? | canaries of 1 and 2 updates, a run of 2, 2 interruptions |
| `release` | do evaluators agree on what is published, and is a report published? | 2 evaluators, 1 cell, 2 generations, 2 decodings, 1 fault, 2 uploads of the record |
| `study` | do trees come in order, do receipt, report and verdict stand on them, does every checkpoint get its tree, does all of it implement `AbstractStudy`? | 2 evaluators, 1 analyst, 2 multiples, 2 controls, 1 kill, 1 change of sources or data |
| `computations` | do the algorithms keep their promises, and the reader, the schedule and the staging theirs? | one part of `MCComputations` for each module, its inputs below |

Why the bounds are enough. A race in these protocols is between two actors at a
time, since a lock or a conditional write serialises the rest; the third builder
and the cleaner are there because they contend for something else (the
destination, the tombstones). A chain of two events has a first, a next, and
what a power cut can take from it. Four steps with rows every two and snapshots
every three put a row, a snapshot, both and neither after a checkpoint. One cell
is enough for a report over results that disagree because what a cell can
disagree about (record, activation, manifest, checkpoint) is independent of the
other cells. A tick of the cohort's clock separates "before", "at" and "after"
each of the two deadlines. Two frozen multiples, the later one in the manifest,
have an order, and a checkpoint whose receipt is the wrong one. Every fault
budget is a guard on a named constant. Symmetry is used in `ledger_crash` alone,
which checks no liveness.

The inputs of `computations`, and what they reach:

* *Decoding.* Batches of three out of a chain of two rows, with and without a
  store, gold returns and forced actions, models that stray in five ways, groups
  of two or three: every split of a batch happens. *Controls and metrics.* Worlds
  of four rows beside one of another world, cycles and literals among them, items
  of one and two hops and of two slots, every control in both modes, every way to
  shuffle and to remap; two pairs in every order with right, wrong and blank
  answers.
* *Masks.* One or two records of up to two facts, or of none: runs at the end of a file, runs
  that touch; four-span records over three inventories in which texts nest and
  overlap. *Worlds.* Six entities, two relations of all statistics, paths of up to
  five hops. *Splits.* Four entities, five buckets in every order. *Mixture.*
  Targets of 40 to 140 tokens over records of 1 to 9, world sizes from 6 to 40,
  six facts with ties in every order. *Store.* Up to three rows, every index that
  could be on the disk for two, hashes that collide, wrap and leave holes.
* *Oracles.* All puzzles of each kind in small sizes. *Expansion.* Rows of two to
  four lengths with rejections, one or two tasks, batches of one to three, every
  extra file beside the source tree.
* *Hashmap and paths.* Three subjects, two relations and a seldom used one, labels
  and aliases missing, doubled or ambiguous, rows in several orders and batches;
  every set of seven edges with cycles and ambiguous rows.
* *Gates and plan.* Two evaluations that differ in one part, in every mixture of
  their receipts; two freezes, and in every place of plan, assets and bundle the
  thing of the other one. *Estimates.* Two or three seeds, pairs in unequal
  clusters, eight faults of a panel, replicates of 7 and 41. *Analysis.* Fifteen
  faults of a run directory, estimates at and beside each bound of the verdict.
* *Guardrails.* Two arms with counts at and beside the bound of each guard, five
  ledgers, each shared field different, each artifact lost or exchanged; the report
  of each read again with any check, reference or flag changed. *Report.* Five
  seeds, so that an effect can be significant, two families of ten items, three
  checkpoints; answers in every form, each gate failed in one cell or two, each
  pairing identity different, a result of another release, code, manifest or cell;
  four scripts of draws. All five labels are reached.
* *Schedule.* Catalogs of up to 4 records of up to 2 tokens in 2 lanes, with all
  weights, tasks and shard counts within small bounds. *Reader.* Both tiers, 1 or 2
  segments of up to 8 tokens, up to 2 rows of 3, 3 batches: a window wraps more
  than once, at every alignment. *Staging.* Two objects, two stagers with an
  uploader, or a stager with two, one fault (a kill, a rebuild, a failed call or a
  power cut).

Smaller than the code, by a constant or an input: seeds, tasks, hops of a split,
pairs of a task, hashmap quotas, puzzle sizes.

Some properties state their own limits, and the limits are what the code does:

* `PublishedUnlessWedged`, `AnsweredUnlessOrphaned`: a kill between `mkdir` and
  the ownership marker leaves a directory that every later call refuses. It is
  the one thing that keeps a publisher from succeeding, apart from a full
  tombstone directory and other bytes for the same task.
* `TreesUnlessWedged`: a killed call leaves its lock, and every later call fails on
  it; a tree evaluated under other sources or data does not count as an earlier
  milestone, so a change between two evaluations stops the order for good.
* `PairCompletes`: the pair is wedged when its arms saved different steps, or
  when the receipt was written and the evidence not.
* `EvaluationCompletes`: a trainer whose answer is lost is never told of its
  checkpoint, because its retry is refused; a release activated under an older
  version of the authority record is never loaded, though the bytes are the same.
* `OneTrainerPerGpu`: a restarted lead launches its rounds whatever runs, so its
  trainers join those the killed one left, and the chained trainers if the chained
  supervisor has begun. Its one look at the running trainers passes while the lead
  is between two rounds.
* `DurableIfSynced` takes the status of the last copy as its premise, which the
  scripts do not look at before they say that all is durable, and says nothing of a
  restarted lead's: what the killed one left may go on writing.
* `StagedIsWhole` holds until a power cut: downloads are never synced, so a
  published tree may be torn, and is refused from then on. Stagers that run at
  once are taken to have distinct process ids; two hosts that share a file system
  and an id would remove each other's temporary tree (`reasoning_v3.py:713`), and
  the one a killed stager left stops a later process of the same id. An
  uploader looks at metadata only, so a source rebuilt under it is found by the
  stager's verification.

Each property of a passing run has a mutant in `PROJECT.json`: a plausible bug in
a translated definition, which makes that property fail in that run.

### Disagreements found

* `gold_returns`: the gold-returns control gives the rows of the gold path to
  whatever reads the model makes. The row recorded of a model that strays has
  returned addresses of another relation than its actions, and
  `EvalRow.from_dict` refuses it (`relational_contracts.py:660`): the evaluation
  stops at the first such model, though a test asserts that the control scores
  actions of the model's own.
* `study_receipt`: each Split evaluation publishes the receipt of its pair at one
  place of the run, never replaced, and the milestone order makes the smallest
  multiple come first; the analysis then asks for the frozen pair's receipt, which
  is a larger one (`run_relational_evals.py:1880`, `analyze_relational.py:494`).

Seen while reading or modelling, without a run:

* The local launcher's `launcher.log` makes the trainer refuse every run it starts
  (`scripts/run_local_gpus.py:73`). A link of a chain of jobs is refused when a log
  row or snapshot is newer than the checkpoint, which is usual after a time limit,
  though `cluster/submit_chain.sh:4` says that each link resumes.
* `train/data.py:95` (160m) says that an overlap of one keeps every target trained.
  The rows of a batch share no token, so with two rows or more some tokens are
  targets twice and others never.
* The chained supervisor's look at the running trainers is said to prevent a
  collision with a restarted lead (`run_cohort_135m.sh:71`). It is taken once, and a
  lead that has no trainer at that moment has one at its next round: `cohort`
  reaches the state.
* An `events()` call raises when an append removes the staging entry it has listed
  (`experiment/ledger.py:273`); the process that did not create a ledger directory
  does not sync its parent (`:344`).
* A builder that is killed again and again retires each time the shards it finds,
  to retained storage (`publication.py:414`). A completed pair submitted again
  rewrites its checkpoints under a receipt with the digests of the old ones
  (`run_135m_pair.py:386`).
* The load that is called high may be the smaller one in a freeze that can be
  launched (`relational_gates.py`, `_select_loads`; it wants a harder load, not a
  larger one).
* An estimate whose percentile interval does not contain its mean makes the
  analysis fail (`relational_stats.py`); `EstimatesArePaired` shows that this is the
  only refusal. A design receipt's variance is not checked against its deltas.
* A kill between the rename of the reasoning corpus and
  that of its pointer leaves a directory that every later build refuses
  (`reasoning_expansion.py:1912`); a killed hashmap build leaves its work directory
  (`wikidata5m_hashmap.py:1970`).

## 4. Fairness

* `RunLedger`: a process in a call goes on (weak); one that waits for the lock gets
  it if it is free again and again (strong), which is what flock gives short of
  starvation. Nobody must call.
* `ExactResume`: the scheduler starts the next process, and a process goes on.
  Faults are finitely many, by their bound.
* `TaskWorkspace`, `CorpusPublication`: every process goes on, and calls again after
  a failure, as a requeued Slurm task does; strong for the lock.
* `Cohort`: time passes, the supervisors, the daemon's stop and the watchdog go on.
  Trainers and copies have no fairness: a trainer may hang. Nobody must restart the
  lead. A supervisor's commands
  between two waits take no time.
* `PairRun`: job and arms go on; an unfinished mode is submitted again as often as
  it can be (strong: a job in the queue disables submission for a while).
* `ReasoningRelease`: a call that has begun goes on, trainers put their checkpoints,
  and each task is called again and again by some evaluator (strong, since a busy
  evaluator cannot call). The code has no such loop: the operator is the one who
  runs the commands until the report is there.
* `RelationalEvaluation`: a call that has begun goes on (weak), and the evaluation
  of a checkpoint without a tree is called again and again (strong: evaluators may
  be busy). Again the operator is the loop.
* `MCComputations` checks no liveness.

## 5. Proofs

Eleven machines, their three refinements, the causal controls and the batched
decoding have proofs, for every value of the constants. A theorem rests on the assumptions its module
states about its constants (`ConstantsAssumption`, `ResumeAssumption` and so on, each of
them evaluated by a run) and on nothing else but what this table names.

| Module | Theorem | States | Beyond the constants |
|---|---|---|---|
| `RunLedgerProofs` | `TypeCorrect` | `[]TypeOK` | |
| | `ChainAlwaysIntact` | `[]ChainIntact`: what is published, and what a power cut would leave of it, is a legal chain | |
| | `AckedAlwaysKept` | `[]AckedKept` | `Provisioned`: the run directory is durable from the start |
| | `ReadersAlwaysSeePrefix` | `[]ReadersSeePrefix`: a lock-free read is a prefix | |
| | `LedgerImplementsAbstract` | `ImplementsAbstractLedger` | `Provisioned` |
| `ExactResumeProofs` | `TypeCorrect` | `[]TypeOK` | |
| | `HistoryAlwaysExact` | `[]ExactHistory`: the history of a run that finished is that of an uninterrupted one; the ledger takes every event and is never ahead of the checkpoint | |
| `TaskWorkspaceProofs` | `TypeCorrect` | `[]TypeOK` | |
| | `AckedAlwaysThere` | `[]AckedIsThere` | |
| `CorpusPublicationProofs` | `TypeCorrect` | `[]TypeOK` | |
| | `OkAlwaysMine` | `[]OkIsMine`: the output is whole, and ok is said of one's own build only | |
| | `PublicationImplementsAbstract` | `ImplementsAbstractPublication` | |
| | `PackedAlwaysStream` | `[]PackedIsStream`, of `CorpusSchedule`: for any catalog, lanes and weights the shards hold every record whole and in schedule order, level to one update, and less than an update of padding | |
| | `TargetsAlwaysInOrder` | `[]TargetsInOrder`, of `PackedShards`: for any segments and batch shapes a run killed and resumed trains the targets of an uninterrupted one | |
| `CohortProofs` | `TypeCorrect` | `[]TypeOK` | |
| | `OneTrainerAlways` | `[]OneTrainerPerGpu` | |
| | `DurableAlways` | `[]DurableIfSynced` | |
| `PairRunProofs` | `TypeCorrect` | `[]TypeOK` | |
| | `CompletedAlwaysPaired` | `[]CompletedIsPaired` | |
| `ReasoningProofs` | `TypeCorrect` | `[]TypeOK` | |
| | `AcksAlwaysAgree` | `[]AcksAgree` | |
| | `ReportAlwaysStands` | `[]ReportStands` | |
| | `StagingTypeCorrect` | `[]StagingTypeOK`, of `CorpusStaging` | `StagingAssumption` |
| | `StagedAlwaysWhole` | `[]StagedIsWhole` | `StagingAssumption` |
| | `IdentitiesAlwaysStay` | `IdentitiesStay`, an action property: no step changes the digest an uploaded object claims | `StagingAssumption` |
| `RelationalEvaluationProofs` | `ReceiptAlwaysStands` | `[]ReceiptStands` | |
| | `StudyImplementsAbstract` | `ImplementsAbstractStudy` | |
| | `ControlsAlwaysKeep` | `ControlsKeepTheirPromise`, of `RelationalControls`: on any sound graph and item, whatever the seed draws, every control has the effect it promises on the oracle and none on other worlds | `IsSound`: the input is sound |
| | `DecodedAlwaysAlone` | `DecodedAlone`, of `RelationalDecoding`: for any items, batch size and steps, every item comes out of the batches once and as if decoded by itself, and a replay of sealed returns leaves what reading them leaves | `DecodingIsSound`: the input is well formed |

`StagingAssumption` (some objects; no process is uploader and stager; no process id
is 0) is a hypothesis of the theorems, and `MCComputations`, which extends
`CorpusStaging`, assumes it of its constants (`StagingIsGiven`). `IsSound` is what the code
checks or builds before a control is made: an address has one row, the item's path
resolves to what its task reads, and no row of another world starts at an entity of
the item's world. `DecodingIsSound` gives items and plans the types they are parsed to,
a batch size that is not zero and replays that the two validators accept; the proof
uses the types and the batch size. `Computations.cfg` enumerates just such inputs.
Three modules
hold the proofs about a second part beside the one they are named after:
`ReasoningProofs` about the staging of the corpus of the release,
`CorpusPublicationProofs` about the packing and the reading of what is published,
and `RelationalEvaluationProofs` about the controls it evaluates under and the
decoding that feeds it.

None of the properties is inductive. What each proof adds, and why:

*Run ledger.* That a link extends the chain depends on what happened between
the load and the link. `ChainInv` adds that a live append holds the lock
(`LockHeld`), that the event in its hands extends what is published
(`NextIsLegal`), that by the time it links, everything published is synced
(`LinkFromSynced`), and hence that at most one published event is not
(`OneUnsynced`). `NextEventExtends` is the lemma about `append`'s arithmetic: the
event built under the lock continues the chain by one. A power cut then leaves
either the published chain or the synced one, each legal. `AckedKept` needs that
an append that is going to succeed has its event synced when it unlocks
(`AckedInv`), and that the directory itself is durable, which is why `Provisioned`
is assumed: without it the claim is false (hazard at `experiment/ledger.py:344`).

A reader takes no lock, and the proof says what stands in for it: events only
leave the directory with the power (`PublishedGrows`), and what `_load_events`
accepts is a chain, so that a part of the ledger without a hole is a prefix of it
(`ReadInv`, `ChainPrefix`). The refinement turns the set of files into a sequence
(`HistoryOfChain`, `HistoryAppend`, `HistoryPrefix`): the link is the abstract append
(`LinkMaps`), the unlock of a synced event the acknowledgement (`UnlockMaps`), and a
power cut takes back at most the last event, never an acknowledged one
(`PowerCutMaps`); all else stutters. `RequestInv` adds that an append stages what its
caller asked for and that there is room for it, which the abstract append demands.

*Exact resume.* The claim is about a process that finished, and everything that
made it true was done by earlier ones. `Kept` is what no crash takes away: rows
increase, none is there that is not due, and the checkpoint has behind it every row
and snapshot due up to it. `Running` is what the resume inventory then gives a
process it lets in: log and snapshots are exactly those of an uninterrupted run at
its step. `Planned` and `Course` follow the ledger: a plan is a path of legal
transitions from the latest event to one where training may start (`GoodPlan`), and
while a process works the latest event is the one its place in the code calls for.
`Closing` and `Prepared` say that the last checkpoint is the last step's, and that a
directory is there before what is put into it. The plan's construction
(`_prepare_training_ledger`) is one lemma for each of its branches.

*Task workspaces.* A loader refuses a complete set that has a temporary beside it,
and a killed publisher leaves one. `Tidy` says why no complete set ever has one:
there is at most one temporary in a directory, and its task has no result. That is
inductive because a publisher, once it has the lock, cleans away the others'
before it makes its own, and because two processes never hold the lock of one
directory (`Place`). `Kept` ties the directory that a process has opened to the one
its path leads to, as long as no cleaner is called.

*Publication.* Whoever is between the flock and its return holds the flock
(`FlockHeld`), so nobody else moves a stage or the output, and a stage that is
about to be renamed verifies without its mark (`InHand`). The rename is then the one
step of `AbstractPublication`, and every other one stutters.

*Schedule and packing.* The claim is about shards that are complete, and the loop
works on one shard and one chunk. `OrderInv` says that no record is emitted twice
and that what was emitted has the tokens of its records, so that the schedule ends
with each record once; `PackInv` that every shard already closed, and the open one
up to the position, hold exactly the padded stream between their bounds
(`Content`). The bounds are division with remainder, twice (`UpdateFacts`,
`ShardFacts`: the shards tile the updates and differ by one update). That the lanes
stay level rests on the choice: the drawn lane has the largest deficit
(`ChosenIsLargest`), and a draw lowers its own by at most a record and raises the
others by their weight.

*Readers.* `TrainedInv` ties the cursor and the epoch to the number of targets so
far, which is what `Nth` counts by: in the 160m tier that is two divisions with
remainder, by the batch and by the epoch; `SavedInv` says the same of the
checkpoint, after the migration of an old 1b cursor, and that a checkpoint is
never one that a restore refuses.

*Induction over data.* Sums, flattened sequences and minima are recursive in the
community modules, and the induction theorems of the library take an operator as a
parameter, which the provers cannot instantiate. The proofs state induction over
sets instead: a set of naturals that is not empty has a least element (`WFMin`),
hence a set that holds 0 and with each number the next holds all of them (`Induct`),
and likewise over the subsets of a finite set (`SetInduct`). From these follow what a
sum is (`SumOfSome`, `SumWith`), what a flattened sequence has at each place
(`FlattenContent`) and the minimum of a set (`LeastOf`).

*Cohorts.* No lock protects a GPU: it is what two scripts have waited for. `Awaited`
says that the trainers which the present process of a supervisor started are gone
unless it waits for them, `OneRound` that those of one process, one that was killed
too, are of one round, hence on different GPUs, `Handover` that the chained
supervisor begins when no trainer is left and the lead's first process is gone, so
that the lead trains beside it only if a restarted one has launched since
(`intruded`, a history variable), and `Enforced` what the clock was when a deadline
was enforced: a round or a retry that the deadline refuses stays refused since time
does not go back. The durability needs that what is stale can only shrink while
nothing trains (`NothingWritten`).

*Pair run.* Each arm starts from the checkpoint it finds, at a time of its own, and
the other may have been trained, killed or preempted meanwhile. `CommonStart` is the
step the check saw in both checkpoints: an arm that has begun began there, and one
that has not still has that checkpoint, because only its own trainer writes to it
and a job's processes are gone before the next check (`Stages`). The receipt is made
of two checkpoints at the last step when no trainer runs; so a later job's trainers
start at the last step, where all they write is what is there (`Receipted`).

*Evaluation release.* Every key but the record's has at most one version
(`OneVersion`), which is what the conditional puts give; so what a call has read is
what is there when it acts, however many steps later. `CallInv` says what a call
has in hand before each of its puts, `PublishedFits` that the activation, the
manifest and the report that were put are about things that are there. Versions
of the record may come and go meanwhile: each call goes by the one it has read.

*Staging.* A stager verifies its temporary tree and renames it in different steps;
in between nobody writes to it because no two stagers have one process id
(`OwnNumber`, `InHand`), the assumption that section 3 names. An uploader's answer
adds up what it saw at each object while others wrote; `Seen` holds because an
object once named by the manifest stays so (`IdentitiesStay` is the step form of it).

*Relational evaluation.* `ReceiptStands` says nothing of the calls, and what a call
publishes was decided many steps before. `StudyInv` adds, for each call (`CallInv`):
since its first control it has seen a tree of its identity for every smaller
multiple, which trees never being taken away makes true for good (`Ordered`); from
the manifest on its staging directory is complete; once promoted its own tree is
there, and once it has built a receipt the dense one too. The locks are not in the
invariant: the last look and the creation are one step, as a link or rename that
does not replace, or both under the lock, which nobody takes from its holder.
`PairInv` says that there is at most one receipt, `LoadInv` that what an analyst has
loaded is a reported pair of the frozen multiple, which is what `Decide` of the
abstract specification asks for. The refinement has one lemma for each of the four
steps that publish something (`PromoteMaps`, `LinkReceiptMaps`, `RenameReportMaps`,
`PublishAnalysisMaps`); the others stutter (`QuietMaps`).

*Controls.* The trace of an item is recursive, so the proof speaks of the table of
its steps (`Table`), which `Induct` makes exist. `TraceKeeps` says that the slots of a
trace name entities of the world and its rows are of the world. Three simulations
follow. Without a row of the path, the trace is the same until it reads that row's
address, and then misses for good (`StepMisses`, `TraceMisses`). Under a renaming,
trace and renamed trace stay images of each other, with equal values
(`TraceStepMaps`, `TraceMaps`), so the answer stays; that both kinds of mapping are
renamings, injective and onto no source of another world, is `RotationRenames` (the
rotation stays inside the world) and `FreshRenames` (the shift goes past every
identity of store and item). Shuffled returns need a counting argument: equal
payloads are contiguous in the order, so if the row one largest group further had
the same payload, a run longer than the largest group would have one payload
(`RunIsShort`, `DonorDiffers`); that the largest group is at most half of the kind is
what closes the case where the donor wraps around.

*Decoding.* An item decoded by itself has a table of its steps (`Course`), a chunk of
items has a table of the batches it has become (`Split`), and the invariant between
them is `BatchKeeps`: whatever its batch, a row after s steps is where its item's
course is after s. A step keeps it because each row acts, takes its return and is fed
from its own lists alone (`ReturnIs`, `FinishIs`), and because a part of a split batch
selects the same rows from every list (`SubgroupIs`, which the mutant that cuts the
list of taken returns breaks). That no item is lost or added is a matter of places:
every row is in the part of its own key (`PartsCover`), the cuts of a bucket tile it
(`CutOf`, `CutIs`) and every item is in the bucket of its prompt length (`ChunksAre`). For
the replay, a state not yet marked bad is the state of the item that reads its store
(`ForcedStep`): the only place where the two could part is a read from an empty slot,
where reading looks nothing up and forcing accepts only a miss, which the model has as
a lookup at an address that no row has (`NoRowNowhere`). A wrong return marks the state for good, so that it need
be shown only up to the first.

Writing these proofs changed the models in a few places. `ExactResume`: the plan for
a ledger without its log had branches that overlapped, and the type of an event
was wider than the code can write; both are now as tight as `trainer.py` has them,
and `ExactHistory` says in terms of sets what it said by filtering a sequence.
`CorpusStaging` names what it assumes of its constants (`StagingAssumption`), and
counts its objects instead of taking any set of them. The type invariant of
`PairRun` covers all its variables. `RelationalControls`: `OracleTrace` is a recursive
function over the actions, as the loop of `_oracle_trace` is, instead of a fold over
the reads, an answer is a name of a residue instead of a printed number, and fresh
identities go past those of the item too, as `max(entities)` in `_entity_mapping` has
it, which the model had left out. `RelationalDecoding`: the loops over the steps are
recursive functions instead of folds, and the batches of a step are a set, since
parts of a batch never meet again. `RunLedger`: `Acknowledged` and
`PossibleIds` name parts of the refinement mapping.

Only model-checked, and why:

* All liveness: `AppendReturns`, `Settles`, `PublishedUnlessWedged`,
  `AnsweredUnlessOrphaned`, `SupervisorsEnd`, `PairCompletes`, `EvaluationCompletes`,
  `TreesUnlessWedged`. Fairness and ENABLED are outside the proof system.
* The other algorithms of `computations`: each promise is about one call on one input, and
  relates definitions that filter, sort and recurse over whole files; a proof would
  have to carry every one of them through an induction of its own, as above for
  sums. `ReasoningExpansion`, `ReasoningOracles`, `RelationalEstimates` and
  `RelationalMixture` use RECURSIVE operators besides, which the prover does not
  expand.

`TypeOK` is proved for each module above; most are listed by no run.

## 6. Not modelled

* Bytes, digests and formats; JSON; floating point: numbers are exact ratios where
  the code has doubles. Effect sizes; models, losses, RNG states. numpy's random
  streams are abstracted to the noise or the draws they give.
* S3 and the file system beyond what the code relies on: rename and link are
  atomic, fsync is what makes entries durable, a conditional put succeeds once.
  Directory fsyncs and power cuts are in `RunLedger` and `CorpusStaging` only;
  elsewhere a kill loses nothing already written.
* Cohorts: a restart of the chained supervisor, of a lead that was done, or of one
  killed after its deadline. Two trainers of one run write the same files and the
  last write counts; a temporary file that both write at once is not torn. What
  S3 lacks is kept for each run, not for each file: which files a pass of the daemon
  leaves out is open.
* Two jobs of one pair at a time; the orphaned trainer of a killed arm outside its
  Slurm job; msctl's admission, status and AWS paths; the local cache of a workspace.
* Corpora: the text of records and puzzles, the legacy fixture worlds, the split
  audit's regeneration of its splits, the bed snapshot, the audit of a finished
  build, the probes and composite hashes of the reasoning expansion and the
  publication of its corpus and pointer.
* Wikidata: download, extraction and the external sort; archive metadata; the
  README member of the hashmap package beyond the contract that admits it; the
  robustness source and its metrics.
* Study: archives and their extraction, the publication of assets, the platform
  preflight, tables and figures; the 1b confirmatory statistics; site admission and
  readiness of the staged corpus.
* The components marked `not_modelled`, with reasons, in `PROJECT.json`: code that
  runs once, in one process, by hand or from a seed, and tensor arithmetic.

## 7. Plan

Proofs: the other algorithms of `computations`, first the rules of `RelationalGates`, on
the induction lemmas of `CorpusPublicationProofs`.

Models: msctl's admission and status, composed with `PairRun` so that two jobs of
one pair meet; the publication of reasoning corpus and pointer; the evaluation job
of a pair.

## 8. Running

    tlc -config RunLedgerCrash.cfg MCRunLedger
    tlc -config Computations.cfg MCComputations
    for m in *Proofs.tla; do tlapm $m; done

`PROJECT.json` names the module and configuration of each run.
