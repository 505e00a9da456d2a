# Verification of DatasetRT

TLA+ models of the DatasetRT cache library (a Rust core with a Python API), checked with
TLC on small instances and, where marked, proved with TLAPS for every value of the
constants.  The code is the reference: `PROJECT.json` names, under `map`, the lines each
definition stands for.  A path such as `channel.rs` below is `src/src/dataset_rt/channel.rs`
there, and `writer.py` is `src/dataset_rt/writer.py`.

Run a model with `tlc -config <cfg> <MC module>` and check a proof with `tlapm <module>`.

## The system and its parts

DatasetRT writes samples (fields plus metadata) into immutable cache directories and reads
them back, in order or sampled by weight, through a fixed pool of native threads.

| part | code | what it does | model |
| --- | --- | --- | --- |
| bounded channel | `channel.rs` | mutex, queue, two condition variables; used for jobs and results | `Channel`, `BoundedFifo` |
| worker pool | `worker_pool.rs`, `dataset_runtime.rs` | fixed threads over one job channel | `ReaderRuntime`, `SourceListWriter` |
| reader runtime | `runtime.rs` | iterators and `get_item` over the pool | `ReaderRuntime` |
| dataset state | `dataset.rs`, `dataset.py`, `sampling.rs`, `samples_metadata.rs` | active table, cursors, epoch windows, snapshots | `CachedDataset`, `EpochPlan` |
| cache storage | `storage.rs`, `storage/index.rs` | shards, index, metadata table, load checks, reads | `CacheStorage` |
| source-list writer | `writer/pipeline.rs`, `writer.rs` | many sources through one window of jobs | `SourceListWriter` |
| parallel writer | `writer.py` | a supervisor and child processes, one source at a time each | `ParallelWriter` |
| manifest upgrade | `storage/migration.rs`, `storage/manifest.rs` | stores positional identities in legacy manifests | `ManifestMigration` |
| loader plans | `integrations/loader.py`, `loading.py` | divides rows and samples among ranks and workers | `LoaderPlan`, `ReaderLoader` |
| loader construction | `integrations/loader.py`, `loader_options.py`, `resources.py` | options, counts, seeds, artifacts; copies of the adapter in processes | `LoaderSettings`, `LoaderProcesses` |
| reconstruction | `reconstruction.py`, `dataset.py` | exports a dataset into a directory and rebuilds it | `DatasetExport`; row selection in `LoaderPlan` |

They interact as follows.  The channel carries jobs to the pool and results back.  A dataset
hands an iterator a window of its plan; the reader schedules at most a bounded number of its
samples on the pool and returns the results in plan order.  The writer numbers its events,
lets the pool serialise samples in any order, commits events in number order, builds each
cache in a temporary directory and publishes it by a rename.  The parallel writer runs the
single-source form of that in child processes.  The Torch loader gives every consumer a
selection of rows, a quota and a dataset of its own, which the consumer rebuilds from a
directory that the constructing process has exported.

## Modules

**Channel** has one step per critical section of `send`, `recv`, `recv_timeout`, clone and
drop: from taking the mutex to releasing it by return or wait.  A thread is `in` (it
competes for the mutex), `wait` (parked), `out` of any call, or without a handle.  Spurious
wakeups, deadlines and threads that overtake a notified one are steps.  `BoundedFifo` is what
it promises: a queue with put, get and close.

**ReaderRuntime** models several iterators and point reads over one pool, the interpreter
lock that a call holds, scheduling, reordering, failing samples, cancellation, drops and the
end of the pool's threads.  The job channel is used by its contract (a bounded queue), which
is what `ChannelImplementsFifo` proves of it.

**SourceListWriter** models a whole `write_cache` call: the scan of the names, the choice per
source (reuse, error, write), ingestion, the window of jobs, receipt, commit in number order,
the drain after an interrupt and the cleanup.  File operations can fail, interrupts arrive at
the signal checks, the process can be killed, and a later call finds what it left.

**ParallelWriter** models the supervisor's loop (start, poll of pipe, exit code and deadline,
dispatch, shutdown) and its children.  A child may hang, die, raise or be interrupted at any
step; the native write inside it is reduced to its effect on the temporary and final path.
A child is spawned in one step and enters the supervisor's list in the next, because an
interrupt may come in between.

**ManifestMigration** models loads and upgrades by several datasets: preflight, temporary
file, flush, recheck, rename, directory sync, and what of it survives a power loss.  A load
reads all manifests of its list in one step, where the code reads one after the other.  The
report is what Python's `update_manifests` returns or attaches to its error.

**CacheStorage** holds, as operators, what the builder writes (records, rotation of shards,
index entries, the metadata schema) and what the loader and the reader check.  A sample is
its identity, encoded size, columns and what JSON does to its floats.  NaN and infinities
become null, so such a record does not decode.  Some finite floats are read back one unit in
the last place off, since `serde_json` is used without `float_roundtrip`: the record differs
from the metadata table, is refused when `validate_cache` is set and returned changed when not.

**EpochPlan** is the arithmetic of windows: the cursor that wraps without forming a sum
beyond the machine word, the checked draw counter, the row of a position.

**CachedDataset** composes both: caches are built and published, opened in any order, the
table replaced, the epoch length set, single samples read with `get_item`, and iterators
created, started and read to the end.
`iter()` and the first `next()` are separate steps because `CachedDataset.__iter__` is a
Python generator.

**LoaderPlan** holds the budgets, spans and plans every rank computes for itself.
**ReaderLoader** is one consumer of any rank: its passes, abandoned passes, failures of the
transform and of reads, windows refused because the draws have run out, and the replacement
of a worker that is not persistent.

**DatasetExport** is the Python face of a dataset: the native state, the recipe kept beside it,
`dump_config` and `from_config`.  An export writes two files under temporary names, syncs
each, renames the metadata first and the configuration last, and removes them in the
opposite order.  Every file operation is a step; exports and updates are interrupted, fail,
are killed or lose power between any two of them.  After a power loss the directory is what
it was at some earlier moment, and a file that was not synced may be torn.  One thread uses
the dataset: nothing updates it between the two reads of its state in `dump_configuration`
(`reconstruction.py:175` and `180`), which no lock protects.

**LoaderSettings** holds, as operators, what `make_dataloader` decides first: which options it
accepts, how many CPUs affinity and cgroups (both versions, namespaced mounts included) leave
the process, and the numbers of workers and threads that follow.  **LoaderProcesses** is
`make_dataloader` in every rank (options, common seed, directory, export, loader, and the
cleanup after a failure) and then the processes of one rank: the training process, workers
forked or spawned for each pass, and a process the user forks.  `ReaderAdapter.__iter__` is a
generator: it calls `setup` once, when it starts (`Iterate`), and every later sample comes
without (`Resume`), also in a process that was forked in between.

`MC*` modules give the constants of the runs.  Operators introduced as "a variant of" an
action change it the way a plausible mistake would; the specifications do not use them, and
each makes one property fail (`mutants` in `PROJECT.json`).

## Runs

Distinct states are given for the complete search; every passing run finishes within a few
minutes on two cores.

| run | instance | states | properties |
| --- | --- | --- | --- |
| `channel` | 2 senders, 2 receivers, 3 values, capacity 2 | 64,912 | `FifoOrder`, `NoLostWakeup`, `NoValueAbandoned`, `DeliversEventually` (refinement of the fair FIFO), `CallsReturn` |
| `reader` | 2 iterators (3 and 1 samples) and a point read, 2 threads, job queue 2, window 2 | 98,717 | `PlanOrder`, `DeliveryNeverBlocks`, `HonestEnd`, `CallsReturn`, `PoolDrains` |
| `writer_crash` | 2 sources of up to 2 samples, 1 fault, kill and second call | 1,666,508 | `PublishedComplete`, `CommitterProtocol`, `PublishedImmutable` |
| `writer_faults` | 2 sources, 2 faults, 2 interrupts | 195,892 | `TempCleaned`, `InterruptPropagates`, `HonestResults`, `WriteReturns` |
| `migration` | 2 datasets listing 2 caches in opposite orders, 1 fault, 1 death or power loss, 1 outside edit | 256,255 | `NeverTorn`, `SuccessIsDurable`, `HonestReport`, `OnlyLoadedReplaced`, `RetrySucceeds` |
| `parallel` | 2 children, 2 sources, six kinds of call, 1 trouble | 685,770 | `HonestOutcomes`, `NothingLeft`, `Agreement`, `CallReturns` |
| `dataset` | 2 caches of up to 2 samples, shards of 4 bytes, 4 tables, 2 iterators | 863,042 | `ReadsBack`, `WindowsTile` |
| `loader` | all requests with up to 4 rows, 2 ranks, 2 workers per rank, batches of 2, 5 samples; 2 passes | 188,543 | `PlansTile`, `LengthExact`, `CyclicOrder` |
| `export` | 3 tables, 2 path lists, 2 exports, 2 troubles | 336,552 | `RebuildsExport`, `ReturnedStays` |
| `loader_processes` | 899 calls: options, machines, 1 or 2 ranks; 2 workers, 2 passes, 1 failure | 101,574 | `TorchAccepts`, `CpuBudget`, `SeedsAgree`, `ArtifactsReleased`, `OwnNativeState`, `WorkersStart`, `ConstructionEnds` |

The comment above each property says what it means for the code.

Why the bounds are enough for the questions asked:

- *channel*: two threads per side give barging and stolen notifications; three values over a
  queue of two make it full and empty.  The proofs below remove the bound for safety.
- *reader*: the window is shorter than the long iterator, so it slides; the pool has fewer
  threads than jobs, so iterators compete; a sample in the middle fails, so an error can
  overtake.
- *writer*: two sources share one window, so their events are reordered across the border
  between sources; a second fault hits the cleanup after the first, a second interrupt the
  drain after the first.  The proofs below remove these bounds for safety.
- *migration*: opposite orders make the positional identities of the two datasets disagree.
- *parallel*: two children and two sources make dispatch, handover and shutdown overlap.
- *dataset*: two small records overflow a shard, one of 5 bytes exceeds it alone, a table with a
  repeated row is longer than a cache, an epoch of 3 wraps a table of 1, and the draw counter
  (limit 6) runs out.
- *loader*: rows fewer than ranks, batches fewer than workers and unequal worker counts on
  the ranks all occur, and the draw counter (limit 7) runs out.  The proofs below remove the
  bounds.
- *export*: two calls into one directory make the second start from what the first, whole or
  broken, has left; two troubles interrupt the cleanup after the first failure or lose power
  after it; two of the tables have the same number of rows, so the row check of `from_config`
  cannot tell them apart.  The proofs below remove the bounds.
- *loader_processes*: quotas above, at and below the process, fractions of a CPU, CPU sets and
  unreadable files all occur; the options that interact are combined, the others are wrong
  one at a time.  Seeds have 4 bits instead of 64, with the same steps of mixing.

Deadlock is checked except in `migration` and `loader_processes`, where every caller may have
finished; the other models have an explicit final step, and TLC finds every other state able
to go on.

Two runs show where the code departs from what the repository says of it (`findings`):

| run | shows |
| --- | --- |
| `parallel_interrupt` | a child reports an interrupt and exits between the supervisor's look at the pipe and at the exit code; the interrupt becomes source errors |
| `dataset_snapshot` | `iter()` takes no snapshot until the first `next()`, so an update in between changes an existing iterator |

## Observations

Met while translating the code; the models contain the behaviour, and no run is about it.

- `complete_one` in `writer/pipeline.rs` frees the credit of a job on receipt, not on commit,
  so more than `prefetch_size` results are buffered for reordering when an early job is slow
  (`config.py:199` and `docs/runtime.md:57` describe the bound otherwise).
- `writer/pipeline.rs:82` goes on after any error while it scans names for duplicates, an
  interrupt included, although `writer.rs:95` wants interrupts to come out.
- The parallel writer's shutdown catches `Exception` only (`writer.py:478`): an interrupt
  while children are stopped one by one leaves the rest running.  An interrupt after
  `process.start()` (`writer.py:281`) and before the child is in the list (`writer.py:459`)
  leaves a child without a job that no shutdown reaches.  `writer.py:440` says that interrupts
  "propagate after children stop".  `NothingLeft` states that these two are the only ways.
- A pool that fails after a child has published and before its answer is read reports an error
  for a cache that exists; a second call finds it.  `HonestOutcomes` allows just this.
- `ReaderAdapter.setup` compares PIDs when an iterator starts.  A process that the user forks
  while the training process is iterating the adapter goes on with the inherited iterator and
  reads from the inherited native stream, although `integrations/loader.py:100` says that
  inherited reuse is rejected (and line 62 likewise).  `OwnNativeState` states that there is
  no other way.
- A single worker that is forked after the training process has iterated `loader.dataset`
  itself inherits native state and is refused.  `WorkersStart` states that workers fail to
  start for no other reason.
- The writer accepts NaN, infinities and finite floats that its JSON reader does not return
  exactly (`storage.rs:891` and `923`).  `ReadsBack` says what comes back for each.
- `dataset.py:193` updates native state and recipe one after the other.  An interrupt between
  them leaves a stale recipe; an export after it is still consistent, but the sample budget
  that `make_dataloader` inherits (`integrations/loader.py:457`) is the old one.
- A rank that refuses its options does so before the broadcast of the seed; the other ranks
  then wait in it for as long as the process group lets them.  `ConstructionEnds` excuses it.
- An interrupt between the creation of the artifact directory and the `try` after it leaves an
  empty directory in `work_dir`; one between `mkdtemp` and the object that owns its directory
  (`reconstruction.py:62`) leaves an empty temporary directory.
- A view made by `to_torch_iterable_dataset` forwards to the dataset itself.  Unlike the
  adapter of `make_dataloader` it does not notice that it is in a process forked by the user.

## Fairness

- *Channel*: a thread inside a call gets the mutex eventually (critical sections are finite),
  producers give up their handle eventually, consumers keep receiving as the pool's loop
  does.  No thread is promised a turn, a notification, a timeout or a spurious wakeup.
- *ReaderRuntime*: pool threads run, and a call that can go on goes on.  Python may abandon
  an iterator for ever.
- *SourceListWriter*: the calling thread goes on, the pool runs its jobs.
- *ParallelWriter*: the supervisor runs, deadlines pass, a killed process dies (SIGKILL).
  Children are promised nothing; `process_timeout_seconds` bounds every start and source.
- *ManifestMigration*: an upgrade goes on, its caller reloads after a death and retries until
  it succeeds; strong fairness is needed because other upgrades exclude it in between, as
  the documented single-writer rule does.

- *LoaderProcesses*: each rank goes on with its construction.  Passes and forks are
  the user's and are promised nothing.

The other runs (`writer_crash`, `dataset`, `loader`, `export`) assume no fairness.

## Proofs

All proofs are for arbitrary constants, under the named assumptions of the modules.

**ChannelProofs** (from `ChannelAssumption`: a positive capacity, finitely many threads, and
a `NoValue` that is not a value).

- `TypeCorrect`: the type invariant, which bounds the queue and ties the open flags to the
  handles that remain.
- `FifoOrderHolds`: what was pushed is what was popped, then what is queued or was discarded,
  in push order.  The inductive invariant `OrderInv` adds that nothing is discarded while a
  receiver exists and nothing is queued afterwards.
- `WakeupsHold`: `NoLostWakeup`.  The argument counts: while a receiver is parked, there are
  at least as many runnable receivers as queued values, and dually for senders and free slots.
  The weaker "some receiver is runnable" is not inductive, since one `notify_one` answers one
  push.  The lemmas on `NotifyOne` say how each signal changes the count.
- `NoValueAbandonedHolds`: a receive that ends without a value leaves an empty queue.
- `ChannelImplementsFifo`: every step is a step of `BoundedFifo` or a stutter.

**CachedDatasetProofs** (`DatasetAssumption`: typed tables and samples; a stored record is
not empty, since `encode_sample_record` puts a length and the metadata before the payload).

- `AdvanceIsCyclicAddition`: the overflow-free formula of the cursors is addition modulo the
  population, for every cursor and step.  `WindowsContinueTheCycle`: a window taken where the
  samples handed out lead reads the cycle from there and leaves the cursor where the next one
  starts.
- `CursorsFollowHistory`: under any interleaving of iterators, replacements of the table and
  epoch lengths the cursors stand where the samples handed out lead: `CursorContinues`, the
  first part of `WindowsTile`.  The inductive invariant adds the types of the table and
  the epoch length, because the modulus must be positive, and uses the lemma on cyclic
  addition for the step that starts an iterator.
- `StoredSamplesReadBack`: `ReadsBack`, for every shard limit, record size, number of caches
  and order of paths.  The inductive invariant speaks of the files byte by byte: `Laid` says
  that behind every index entry the bytes of its row's record stand in one file, the open
  shard counted as the last one.  A push only extends files at their ends (`Extends`), by a
  rotation (`RotatedExtends`) and then a record (`RecordAppended`), so earlier records stay
  where the index says; `StoredReads` cuts the record out again and decodes it, and
  `ReturnedIs` says what the check of the redundant metadata makes of it.
- `IteratorsTile`: `WindowsTile`, for every number of caches, iterators, tables and draws.
  What has to be shown is that two computations of a sample agree: the running totals of
  `cache_offsets` with the partition point of `locate_physical_sample` on one side, the
  concatenation of what callers wrote on the other.  Both are recursive; `IterationExists`
  and `Induction` (from the well-foundedness of `<`) say what they compute (`TotalsRise`,
  `JoinedAt`), `SequenceFound` that the partition point is the cache that covers the index,
  and `LoadsWritten` that the read returns what the record written there decodes to.  `WindowContinues` says
  that the rows of a new plan are the ones after the issued samples.  The invariant
  `IterInv` then keeps, for each open iterator, that every position of its plan leads to the
  promised sample, whatever happens to the table afterwards.

**ReaderRuntimeProofs** (`ReaderAssumption`: finitely many workers and at least one, positive
window and queue sizes, no empty plan).

- `PlanOrderHolds`, `EndsAreHonest` and `DeliveryNeverWaits`: the three safety properties of
  the `reader` run, for any number of iterators, point reads, workers and samples.
- None of them is inductive.  The invariant `Inv` says that every sequence that was scheduled
  and not returned is in one place only: the job queue, a worker, the result channel or the
  reorder set.  `Reserved` is the link: a queued or running job names a slot inside the window
  that no result has taken.  `Counts` ties window, output, error and end of one operation
  together; `Slots` describes its results.
- `DeliveryNeverWaits` then is a count.  The waiting results and the one to be delivered have
  different sequence numbers in a window not longer than the channel (`RoomForOneMore`), so
  the channel has room.
- Calls that change one operation share the lemma `CallFrame`; steps of workers have one lemma
  each.

**SourceListWriterProofs** (`WriterAssumption`: natural bounds, at least one worker and a
positive window; names are arbitrary, duplicates included).

- `PublishedCompleteHolds`, `CommitterProtocolHolds`, `PublishedImmutableHolds`,
  `TempCleanedHolds`, `InterruptPropagatesHolds`, `HonestResultsHolds`: the six safety
  properties of the two writer runs, for any number of sources, samples, workers, faults,
  interrupts and calls.
- The argument is about the *backlog*: the events that were numbered and not yet committed,
  wherever they are (offered by the calling thread, with a worker, in the result channel, or
  waiting for their turn).  `Backlog` says that it holds one event for every number between
  the committer's and the ingestion's, in the order of the sources, so the event whose number
  comes up is the first of the backlog.
- `Control` ties the backlog to both ends: a source has a begin in the backlog or is being
  written by the committer before anything else of it comes, its last event settles it, and
  slots of what is still to come are empty.  `CommitterProtocol` says only that the event at
  the committer fits, which no step can show without knowing the events behind it.
- `Tally` counts samples: those committed and those in the backlog are all that the source
  has yielded, without a gap, unless the source has failed or the call was given up in the
  middle of it (`Whole`).  At the end event, committed is therefore yielded, which is
  `PublishedComplete`.
- `Explained` carries the reasons: whatever will be reported as an error is blamed on its own
  source, and a source that is not to blame has its paths for itself, even when an ignored
  error lets two sources of one name past the scan (`Apart`).
- `Counted` bounds the jobs by `in_flight`: when it is zero nothing is left with a worker, so
  the call cannot return with an event uncommitted.
- `Backlog`, `Control` and `Tally` have the backlog as a parameter.  Each has lemmas for what
  a step can do to it: append an event, commit the first, drop the last (an interrupted
  submit), or leave it alone.  The steps of the model are then reduced to these.

**ParallelWriterProofs** (`ParallelAssumption`: at least one source and one process, typed
inputs; names are arbitrary, bad and equal ones included).

- `PoolReportsHonestly`, `PoolAgrees`, `PoolLeavesNothing`: the three safety properties of the
  `parallel` run, for any number of sources, children and troubles.
- `Agreement` speaks of the moment at which a job is put or a directory removed; the invariant
  says what each child is doing at all times.  `Tasked`: a child works on what the supervisor
  has it down for, and the mailbox is empty once it was read.  `Talk`: which messages can be
  in the pipe in each state of the conversation.  At most one answer is on its way, and only
  interrupts follow it; without that a late answer could be taken for that of the next source.
  It holds until the pool is stopped, after which nobody reads the pipes.
- `Ledger` ties the outcomes to the paths: an outcome, or an answer on its way (`Truthful`),
  tells the truth about the cache path, and a source without an outcome at the end is
  explained by a failure.  `Apart` and the preflight check (`Roster`) give every source a
  path of its own, so that one child cannot make another's report wrong.
- `Tidy` says which child will be reaped for a temporary directory, until the last is, and
  that children already passed by the shutdown are gone unless their own stop failed or was
  cut short.  `Roster` and `OneStarts` keep at most one child unregistered, the last that was
  spawned; `Tasked` says that it has no job.
- `SuccessfulPaths` is a filter over the sources, shown by induction to hold the paths of the
  successes in their order.

**ManifestMigrationProofs** (`MigrationAssumption`: path lists are not empty).
`ManifestsNeverTorn`, `SuccessStaysDurable`, `ReportsAreHonest` and `OnlyLoadedIsReplaced` are
the four safety properties of the `migration` run, for any datasets, lists and numbers of
faults, deaths and edits.  The invariant adds: what is durable is legacy or still in place
(no upgrade replaces a manifest that has an identity, so power loss can only undo an upgrade
to the legacy form); between the recheck and the rename the file is what the preflight saw
(`Prepared`); a target that is passed is settled for good (`Progress`); and a rename that is
not in the report yet is the only difference between the report and what was replaced
(`Owed`).  It rests on the documented rule that one upgrade runs at a time (`Exclusive`).

**DatasetExportProofs** (`ExportAssumption`).  `RebuildsWhatWasSaved` and `ReturnedExportStays`
are the properties of the `export` run.  The properties are about what `from_config` reads;
the invariant is about every directory that is, or that power loss can bring back: a
configuration in it stands beside the whole and synced table of its own export
(`Consistent`).  `Stage` says what the running call has on disk at each step.

**ReaderLoaderProofs** (`ReaderLoaderAssumption`: requests that the option checks let through,
with at least one row, rank, sample and batch element and any number of workers per rank).

- `PlansAlwaysTile`, `LengthAlwaysExact`, `WalkKeepsOrder`: the three properties of the
  `loader` run, for every number of rows, ranks, workers, samples and passes.
- The plans are sums: offsets are running totals of population sizes, budgets are spread over
  workers.  `Total` is a recursive function; `TotalIs` and `TotalOf` say what it computes,
  `SumsLocate` that consecutive spans with these totals cover an interval, each position once.
- `BudgetsSound` is the heart of both plan theorems: what `worker_budgets` returns adds up to
  the rank's budget, goes to the first workers and to no more of them than there are rows, and
  forms as many batches as the undivided budget would, since all incomplete batches but one are
  empty (`WholeBatches`, `BatchesOfTail`).  That is what its docstring claims: "Keeping one tail
  makes Torch's ordinary length calculation exact for either drop_last setting".
- `RankNumbers` and `RankBudgets` show that a rank with a budget has rows, so the error
  "samples_per_epoch requires a nonempty population" of that function is never raised.
- `RankTiles` places the consumers of one rank, `RanksTile` the ranks, `SpansTile` combines
  them.  Whether the two meet depends on `PopulationSize`: a full pass takes the budgets as
  sizes, another epoch divides the rows among the busy workers only.
- `WalkInv` is the invariant of the walk: the dataset's cursor stands where whole windows
  lead, the open window starts where the last one did, and `position` is the windows before
  it and what was taken from it.  `CyclicOrder` alone says nothing of a half-read window that
  the next pass continues.

Only model-checked: everything else.  Liveness under fairness and `ENABLED` are outside what
TLAPS proves here.  Recursion is written as recursive functions, and induction over numbers
goes through `WFMin`, since the library's induction rules take an operator that the provers
cannot instantiate.  `LoaderProcesses` mixes seeds with bitwise operators, which the prover
does not handle.
No module of the project declares RECURSIVE operators.

## Hazards

`PROJECT.json` lists, at the line where each bites, what a test would hardly reach in this
code and which property would catch it.  Those without a property say why.

## Assumptions about the environment

- A rename within a directory is atomic, and directory operations reach the disk in order.
- Nobody else writes into an export directory, and it is read only while no export runs in it,
  as `dump_config` demands.
- Removing a directory tree succeeds in the loader's cleanup (`shutil.rmtree`, which is told
  to ignore errors).
- One thread at a time calls methods of a Python dataset and `dump_config` on it.
- The broadcast of the seed delivers one value to every rank that takes part in it.
- A killed process dies.

## What is not modelled

- Compression codecs, checksums and byte layouts: pure transformations; a record is its size.
- Power loss for caches: published directories are renamed without a sync, so nothing holds
  of them after it.  Manifests and exports are modelled with a durable copy.
- The per-thread cache of shard handles and the lazily built copy of the original table: both
  are caches of immutable data.
- The distribution of weighted sampling: a draw is a function of its number.
- Arrow import and export: tables are sequences of identities and weights.  `update_metadata`
  is refused for an empty table, unknown rows and bad weights; its refusals of columns, of
  types and of a total weight that is not finite leave the state alone in the same way and
  are left out.
- An interrupt that user code raises while `extract_data` takes a sample apart
  (`writer.rs:656`): it becomes an error of the source, which `IterationFails` covers;
  `InterruptPropagates` is about the signal checks and the calls that propagate.
- The branch for a duplicate sequence number in `runtime.rs:223`: every number is scheduled
  once, so no state reaches it (`Reserved` in the proof).
- Extra keyword arguments of `make_dataloader` other than the ones it reserves: passed to Torch.
- Pickling and pipe transport: they succeed or fail.
- Failure to start a pool thread: the constructor returns an error before there is any state.
- The text of `/proc` files: the CPU budget starts from parsed records.
- `to_torch_iterable_dataset`, `worker_rows` and `select_population`: thin forwards, or without
  a caller in the library.
- Configuration and data classes, newtypes and error conversion (declarative checks, which
  appear as guards where they matter), progress bars, profiling, logging, benchmarks, scripts.
