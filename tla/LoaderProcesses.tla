-------------------------- MODULE LoaderProcesses --------------------------
(***************************************************************************)
(* make_dataloader in every data-parallel rank, and the life of the loader *)
(* it returns: the common seed of the ranks, the exported directory, and   *)
(* the processes that hold a copy of the ReaderAdapter.                    *)
(*                                                                         *)
(* Each rank validates its options, agrees on a seed with the others,      *)
(* makes a directory, exports its dataset into it and builds the           *)
(* DataLoader.  Afterwards ranks share nothing, so the processes of one    *)
(* rank, Watched, are followed: the training process (Main), its loading   *)
(* workers, which Torch forks or spawns for each pass, and a process       *)
(* (Child) the user forks.  A forked process inherits the adapter with its *)
(* native state and its ConstructionArtifacts; a spawned one gets what     *)
(* __reduce__ passes.  The iterator of an adapter is a generator: it       *)
(* checks once, when its first sample is asked for, whose state it reads   *)
(* from, and a fork copies a generator that is running.  A process is      *)
(* followed with the last one it started.                                  *)
(***************************************************************************)
EXTENDS LoaderSettings, LoaderPlan, Bitwise

CONSTANTS
  Launches,     \* [world, options, hosts]: a call of make_dataloader in every rank
  Rows,         \* rows of the dataset's table, and its inherited epoch length
  Draws,        \* what secrets.randbits may return
  Multipliers, Shifts, SeedDomain,   \* constants of the seed derivation
  Main, Child,
  Watched,      \* the rank whose processes are followed
  MaxWorkers,   \* bound: its loading workers
  MaxPasses,    \* bound: passes over its loader
  MaxFailures   \* bound: constructions that fail after validation

ASSUME LaunchAssumption ==
  /\ \A l \in Launches : l.world \in Nat \ {0} /\ DOMAIN l.hosts = 0..(l.world - 1)
  /\ Draws \subseteq 0..(2^SeedBits - 1) /\ Draws /= {}
  /\ \A i \in DOMAIN Multipliers : (Multipliers[i] % 2) = 1

VARIABLES
  world,
  stage,        \* stage[r]: where make_dataloader is in rank r
  call,         \* call[r]: its options, its machine and what follows from them;
                \* neither changes before the rank has resolved its options
  settings,     \* settings[r]: what it resolved
  seed, sent,   \* seed[r]: resolved_seed; sent: what rank 0 broadcasts
  artifacts,    \* artifacts[r]: the directory and its ConstructionArtifacts
  plans,        \* plans[r]: sample_count in the WorkerPlan of each consumer
  adapter,      \* the ReaderAdapter in each process of Watched
  pass, passes, \* whether a pass over the loader runs, and how many have begun
  failures,
  used          \* history: the last sample, [by, owner, started]: the process that took
                \* it, the one its stream belongs to, the one that started the iterator

construction == <<stage, call, settings, seed, sent, artifacts, plans, failures>>
consumption == <<adapter, pass, passes, used>>
vars == <<world, construction, consumption>>

AllRanks == 0..(world - 1)
WorkerIds == 0..(MaxWorkers - 1)
Processes == {Main, Child} \cup WorkerIds

NoArtifacts == [files |-> "none", owned |-> FALSE]

Init ==
  \E l \in Launches :
    LET each(x) == [r \in 0..(l.world - 1) |-> x] IN
    /\ world = l.world
    /\ stage = each("call")
    /\ call = [r \in 0..(l.world - 1) |->
         LET ranks == LocalRankCount(l.world, l.hosts[r]) IN
         [options |-> l.options, ranks |-> ranks, granted |-> l.hosts[r].granted,
          resolved |-> Resolved(l.options, AvailableCpuCount(l.hosts[r]), ranks, Rows)]]
    /\ settings = each(None) /\ seed = each(None) /\ sent = None
    /\ artifacts = each(NoArtifacts) /\ plans = each(None)
    /\ adapter = [p \in Processes |-> None]
    /\ pass = FALSE /\ passes = 0 /\ failures = 0 /\ used = None

-----------------------------------------------------------------------------
(* Seeds *)

\* _mix_u64, in SeedBits bits.
MixStep(v, i) == ((v ^^ shiftR(v, Shifts[i])) * Multipliers[i]) % 2^SeedBits

Mix ==
  LET once == [v \in 0..(2^SeedBits - 1) |-> MixStep(v, 1)]
      twice == [v \in DOMAIN once |-> MixStep(once[v], 2)]
  IN [v \in DOMAIN once |-> twice[v] ^^ shiftR(twice[v], Shifts[3])]

\* A variant of DeriveSeed that adds the identities to the seed.
DeriveSeedAdding(base, rank, worker) == (base + rank + worker) % 2^SeedBits

\* derive_seed: a slot for each rank and worker, permuted with a key.
DeriveSeed(base, rank, worker) ==
  Mix[(rank * 2^(SeedBits \div 2) + worker) ^^ Mix[base ^^ SeedDomain]]

\* reader_seed: the seed in the WorkerPlan of a consumer.
ReaderSeed(r, worker) == IF settings[r].shuffle THEN DeriveSeed(seed[r], r, worker) ELSE 0

-----------------------------------------------------------------------------
(* make_dataloader *)

Goes(r, from, to) == stage[r] = from /\ stage' = [stage EXCEPT ![r] = to]

\* What the later steps need of the arguments.
Kept(o, resolved) ==
  [persistent |-> resolved.workers.persistent, context |-> resolved.workers.context,
   seed |-> ResolvedSeed(o), temporary |-> o.workDir = None,
   processes |-> resolved.workers.counts.processes, samples |-> resolved.samples,
   batch |-> o.batchSize, dropLast |-> o.dropLast, shuffle |-> o.shuffle,
   split |-> ResolvedPartition(o) = "split"]

\* Up to capture_replica, resolve_workers and the checks that follow.
Resolve(r) ==
  /\ stage[r] = "call"
  /\ LET resolved == call[r].resolved IN
       IF resolved = None
         THEN Goes(r, "call", "refused") /\ UNCHANGED settings
         ELSE /\ Goes(r, "call", "seed")
              /\ settings' = [settings EXCEPT ![r] = Kept(call[r].options, resolved)]
  /\ call' = [call EXCEPT ![r] = None]
  /\ UNCHANGED <<world, seed, sent, artifacts, plans, failures, consumption>>

Agree(r, s) == seed' = [seed EXCEPT ![r] = s]

\* A variant of CommonSeed in which rank 0 draws like a single rank.
CommonSeedUnsent(r) ==
  /\ Goes(r, "seed", "create")
  /\ IF ~settings[r].shuffle THEN Agree(r, None) /\ UNCHANGED sent
     ELSE IF settings[r].seed /= None THEN Agree(r, settings[r].seed) /\ UNCHANGED sent
     ELSE \/ r = 0 /\ UNCHANGED sent /\ \E s \in Draws : Agree(r, s)
          \/ r /= 0 /\ sent /= None /\ Agree(r, sent) /\ UNCHANGED sent
  /\ UNCHANGED <<world, call, settings, artifacts, plans, failures, consumption>>

\* common_seed: rank 0 draws a random seed, the others wait for its broadcast.
CommonSeed(r) ==
  /\ Goes(r, "seed", "create")
  /\ IF ~settings[r].shuffle THEN Agree(r, None) /\ UNCHANGED sent
     ELSE IF settings[r].seed /= None THEN Agree(r, settings[r].seed) /\ UNCHANGED sent
     ELSE \/ r = 0 /\ \E s \in Draws : Agree(r, s) /\ sent' = s
          \/ r /= 0 /\ sent /= None /\ Agree(r, sent) /\ UNCHANGED sent
  /\ UNCHANGED <<world, call, settings, artifacts, plans, failures, consumption>>

\* ConstructionArtifacts.create: mkdtemp returns a directory, which belongs to no
\* object yet.
MakeDirectory(r) ==
  /\ Goes(r, "create", "made")
  /\ artifacts' = [artifacts EXCEPT ![r].files = "empty"]
  /\ UNCHANGED <<world, call, settings, seed, sent, plans, failures, consumption>>

\* The object that owns the directory is returned; the try block has not begun.
Create(r) ==
  /\ Goes(r, "made", "created")
  /\ artifacts' = [artifacts EXCEPT ![r].owned = TRUE]
  /\ UNCHANGED <<world, call, settings, seed, sent, plans, failures, consumption>>

\* The request of LoaderPlan: a rank knows its own number of workers only.
Request(r) ==
  [rows |-> Rows, world |-> world, batch |-> settings[r].batch, samples |-> settings[r].samples,
   dropLast |-> settings[r].dropLast, split |-> settings[r].split,
   shuffle |-> settings[r].shuffle, workers |-> [q \in {r} |-> settings[r].processes]]

\* _prepare_adapter: export, plan, row order.
Prepare(r) ==
  /\ Goes(r, "created", "build")
  /\ artifacts' = [artifacts EXCEPT ![r].files = "export"]
  /\ plans' = [plans EXCEPT ![r] = Budgets(Request(r), r)]
  /\ UNCHANGED <<world, call, settings, seed, sent, failures, consumption>>

\* An adapter in process p that has made no native state; initialized is what
\* became of its WorkerInitializer, reading the process that started its iterator.
Pending(p) == [pid |-> p, state |-> "pending", owner |-> None, holds |-> FALSE,
               initialized |-> "no", reading |-> None]

\* DataLoader(adapter, ...) returns.
Build(r) ==
  /\ Goes(r, "build", "ready")
  /\ adapter' = IF r = Watched
                  THEN [adapter EXCEPT ![Main] = [Pending(<<Main, 0>>) EXCEPT !.holds = TRUE]]
                  ELSE adapter
  /\ UNCHANGED <<world, call, settings, seed, sent, artifacts, plans, failures, pass,
                 passes, used>>

\* A variant of Discarded without the comparison of PIDs.
DiscardedAnywhere(a, p) == IF a.owned THEN [a EXCEPT !.files = "gone"] ELSE a

\* ConstructionArtifacts.discard called in process p; Main made the directory.
Discarded(a, p) == IF p = <<Main, 0>> /\ a.owned THEN [a EXCEPT !.files = "gone"] ELSE a

\* ConstructionArtifacts.__del__ in process p.
Deleted(r, a, p) == IF settings[r].temporary THEN Discarded(a, p) ELSE a

\* mkdtemp fails, or an interrupt comes before the try block: the object, if
\* there is one, is only deleted.  In the try block the handler discards.
ConstructionFails(r) ==
  /\ failures < MaxFailures /\ failures' = failures + 1
  /\ \/ /\ stage[r] \in {"create", "made", "created"}
        /\ artifacts' = [artifacts EXCEPT ![r] = Deleted(r, @, <<Main, 0>>)]
     \/ /\ stage[r] \in {"created", "build"}
        /\ artifacts' = [artifacts EXCEPT ![r] = Discarded(@, <<Main, 0>>)]
  /\ stage' = [stage EXCEPT ![r] = "failed"]
  /\ UNCHANGED <<world, call, settings, seed, sent, plans, consumption>>

-----------------------------------------------------------------------------
(* Processes of the watched rank *)

Ready == stage[Watched] = "ready"
Loading == settings[Watched].processes
Serial == Loading = 0
Alive(p) == adapter[p] /= None

\* A variant of Identity that does not ask get_worker_info.
IdentityOfMain(p) == <<0, 1>>

\* _worker_plan: get_worker_info is None outside of workers.
Identity(p) == IF p \in WorkerIds THEN <<p, Loading>> ELSE <<0, 1>>

\* A variant of OwnState that takes inherited state for its own.
OwnStateAlways(a) == TRUE

\* The comparison of setup: native state belongs to the process that made it.
OwnState(a) == a.owner = a.pid

\* ReaderAdapter.setup in process p, with _worker_plan and _create_dataset, which
\* reads the export: the adapter afterwards, None for an exception.
Setup(p) ==
  LET a == adapter[p]
      id == Identity(p)
  IN IF a.state /= "pending" THEN (IF OwnState(a) THEN a ELSE None)
     ELSE IF id[2] /= Cardinality(DOMAIN plans[Watched]) THEN None
     ELSE IF plans[Watched][id[1]] = 0 THEN [a EXCEPT !.state = "empty", !.owner = a.pid]
     ELSE IF artifacts[Watched].files /= "export" THEN None
     ELSE [a EXCEPT !.state = "local", !.owner = a.pid]

\* The workers of Watched and their end: their copies of the adapter go.
Workers == {w \in WorkerIds : w < Loading}

WithoutWorkers == [p \in Processes |-> IF p \in WorkerIds THEN None ELSE adapter[p]]

\* A copy of ConstructionArtifacts goes with each process in ps that holds one.
Released(ps) ==
  LET holders == {p \in ps : Alive(p) /\ adapter[p].holds} IN
  FoldSet(LAMBDA p, a : Deleted(Watched, a, adapter[p].pid), artifacts[Watched], holders)

\* iter(loader) with workers: Torch starts them, or keeps persistent ones.  A
\* forked worker has a copy of Main's adapter, a spawned one what __reduce__
\* passes (external: the start methods of multiprocessing).  No worker goes on
\* with an iterator it inherits: Torch has it make its own for each pass.
Started(w) ==
  IF settings[Watched].context = "fork"
    THEN [adapter[Main] EXCEPT !.pid = <<w, passes + 1>>, !.reading = None]
    ELSE Pending(<<w, passes + 1>>)

BeginPass ==
  /\ Ready /\ ~pass /\ ~Serial /\ Loading <= MaxWorkers /\ passes < MaxPasses
  /\ pass' = TRUE /\ passes' = passes + 1
  /\ adapter' = [p \in Processes |->
       IF p \notin Workers THEN adapter[p]
       ELSE IF Alive(p) THEN [adapter[p] EXCEPT !.reading = None] ELSE Started(p)]
  /\ UNCHANGED <<world, construction, used>>

\* A pass ends; workers that are not persistent exit.
EndPass ==
  /\ pass /\ pass' = FALSE
  /\ IF settings[Watched].persistent THEN UNCHANGED <<adapter, artifacts>>
     ELSE /\ adapter' = WithoutWorkers
          /\ artifacts' = [artifacts EXCEPT ![Watched] = Released(WorkerIds)]
  /\ UNCHANGED <<world, stage, call, settings, seed, sent, plans, failures, passes, used>>

\* WorkerInitializer.__call__: setup before anything else in the worker.
Initialize(w) ==
  /\ pass /\ w \in Workers /\ adapter[w].initialized = "no"
  /\ adapter' = [adapter EXCEPT ![w] =
       IF Setup(w) = None THEN [@ EXCEPT !.initialized = "failed"]
                          ELSE [Setup(w) EXCEPT !.initialized = "done"]]
  /\ UNCHANGED <<world, construction, pass, passes, used>>

\* A worker takes samples in a pass; Main and Child may iterate the adapter directly.
MayRead(p) == Alive(p) /\ (p \in WorkerIds => pass /\ adapter[p].initialized = "done")

\* Process p takes a sample from the stream in its adapter a, with an iterator
\* that process `starter` started; the iterator goes on, or this was its last.
Sample(p, a, starter) ==
  /\ \E reading \in {starter, None} :
       adapter' = [adapter EXCEPT ![p] = [a EXCEPT !.reading = reading]]
  /\ used' = [by |-> a.pid, owner |-> a.owner, started |-> starter]

\* A new iterator of ReaderAdapter.__iter__, up to its first sample: setup, and
\* next on the retained stream.  An exception changes nothing.
Iterate(p) ==
  /\ MayRead(p) /\ Setup(p) /= None
  /\ IF Setup(p).state = "local" THEN Sample(p, Setup(p), Setup(p).pid)
     ELSE adapter' = [adapter EXCEPT ![p] = Setup(p)] /\ UNCHANGED used
  /\ UNCHANGED <<world, construction, pass, passes>>

\* The next sample of a running iterator: its loop does not call setup again.
Resume(p) ==
  /\ MayRead(p) /\ adapter[p].reading /= None
  /\ Sample(p, adapter[p], adapter[p].reading)
  /\ UNCHANGED <<world, construction, pass, passes>>

\* The user forks the training process.
ForkChild ==
  /\ Ready /\ ~Alive(Child)
  /\ adapter' = [adapter EXCEPT ![Child] = [adapter[Main] EXCEPT !.pid = <<Child, 0>>]]
  /\ UNCHANGED <<world, construction, pass, passes, used>>

ChildExits ==
  /\ Alive(Child)
  /\ artifacts' = [artifacts EXCEPT ![Watched] = Released({Child})]
  /\ adapter' = [adapter EXCEPT ![Child] = None]
  /\ UNCHANGED <<world, stage, call, settings, seed, sent, plans, failures,
                 pass, passes, used>>

\* The last reference to the loader goes; Torch joins or ends its workers first.
DropLoader ==
  /\ Ready /\ ~pass
  /\ stage' = [stage EXCEPT ![Watched] = "dropped"]
  /\ adapter' = [WithoutWorkers EXCEPT ![Main] = None]
  /\ artifacts' = [artifacts EXCEPT ![Watched] = Released(WorkerIds \cup {Main})]
  /\ UNCHANGED <<world, call, settings, seed, sent, plans, failures, pass, passes, used>>

Construct(r) ==
  /\ r \in AllRanks
  /\ Resolve(r) \/ CommonSeed(r) \/ MakeDirectory(r) \/ Create(r) \/ Prepare(r) \/ Build(r)

Next ==
  \/ \E r \in AllRanks : Construct(r) \/ ConstructionFails(r)
  \/ BeginPass \/ EndPass \/ ForkChild \/ ChildExits \/ DropLoader
  \/ \E w \in WorkerIds : Initialize(w)
  \/ \E p \in Processes : Iterate(p) \/ Resume(p)

\* A rank that can go on with make_dataloader does.
Spec ==
  /\ Init /\ [][Next]_vars
  /\ \A r \in 0..(Max({l.world : l \in Launches}) - 1) : WF_vars(Construct(r))

-----------------------------------------------------------------------------
(* Properties *)

\* Whatever make_dataloader accepts, Torch accepts: zero workers, also when
\* they are the outcome of "auto" on a small machine, come without prefetch,
\* context, persistence and timeout.  The defaults of to_torch_dataloader are
\* accepted on every host with a usable LOCAL_WORLD_SIZE.
TorchAccepts ==
  \A r \in AllRanks : stage[r] = "call" =>
    LET o == call[r].options
        resolved == call[r].resolved
        w == resolved.workers
    IN /\ resolved /= None =>
            TorchAllows(w.counts.processes, o.timeout, w.prefetch, w.persistent, w.context, o.extra)
       /\ o = Defaults /\ call[r].ranks /= None => resolved /= None

\* Automatic counts fit what the machine grants, which the code pieces together
\* from affinity and from the quotas and CPU sets of its cgroup and of every
\* visible one above it: with the rank's own process all loading processes of
\* the host's ranks have a CPU each, and so has every native thread of theirs,
\* unless there is one thread at all.
CpuBudget ==
  \A r \in AllRanks : stage[r] = "call" =>
    LET o == call[r].options
        resolved == call[r].resolved
        counts == resolved.workers.counts
        ranks == call[r].ranks
        fits(n) == n * call[r].granted[2] <= call[r].granted[1]
    IN resolved /= None =>
         /\ o.numWorkers = Auto => counts.processes = 0 \/ fits(ranks * (counts.processes + 1))
         /\ o.nativeNumWorkers = Auto =>
              counts.threads = 1 \/ fits(ranks * Max({1, counts.processes}) * counts.threads)

\* Every rank that shuffles works with one seed, the requested one if there is
\* one, though only rank 0 draws it; and no two consumers of any ranks get the
\* same reader seed.
SeedsAgree ==
  LET seeded == {r \in AllRanks : stage[r] \notin {"call", "refused", "seed"} /\ settings[r].shuffle}
      consumers == UNION {{<<r, w>> : w \in DOMAIN plans[r]} : r \in {q \in seeded : plans[q] /= None}}
  IN /\ \A r, q \in seeded : seed[r] = seed[q]
     /\ \A r \in seeded : seed[r] \in {settings[r].seed, sent} \ {None}
     /\ \A k \in consumers, l \in consumers : stage[k[1]] = "build" =>
          (ReaderSeed(k[1], k[2]) = ReaderSeed(l[1], l[2]) => k = l)

\* While the loader exists its export does, whichever copies of the adapter
\* forked processes drop.  A temporary directory goes with the loader, or with
\* the construction that fails once an object owns it; a directory in work_dir
\* outlives the loader.  What a failed construction leaves is at most an empty
\* directory, in work_dir or one that mkdtemp had made and no object owned.
ArtifactsReleased ==
  \A r \in AllRanks :
    LET a == artifacts[r]
        managed == settings[r].temporary /\ a.owned
    IN /\ stage[r] \in {"build", "ready"} => a.files = "export"
       /\ stage[r] = "failed" =>
            a.files \in {"none", "gone"} \cup (IF managed THEN {} ELSE {"empty"})
       /\ stage[r] = "dropped" => a.files = IF settings[r].temporary THEN "gone" ELSE "export"

\* No iterator is started over another process's native state: what a process
\* inherits through a fork is refused when it begins to iterate, in workers and
\* in processes the user forks.  So a worker reads only from a stream it has
\* opened itself.  A user's fork may read from the training process's stream, and
\* only with an iterator that was running when it was forked.
OwnNativeState ==
  used /= None =>
    used.started = used.owner /\ used.by \in {used.owner, <<Child, 0>>}

\* A worker's initialization fails for one reason only: it is the only worker
\* and was forked from a training process that had iterated the adapter itself,
\* which _worker_plan lets that process do.  In any pass and under either start
\* method, whatever other copies of the adapter have been dropped, the plan has a
\* part for each worker and the export is still there.
WorkersStart ==
  \A w \in WorkerIds :
    Alive(w) /\ adapter[w].initialized = "failed" =>
      /\ settings[Watched].context = "fork" /\ Loading = 1
      /\ adapter[w].owner = <<Main, 0>> /\ adapter[Main].owner = <<Main, 0>>

\* If validation refuses the call in no rank, it returns or raises in each: no
\* rank waits for ever for the seed of another.
ConstructionEnds ==
  [](\A r \in AllRanks : stage[r] /= "refused") =>
    <>(\A r \in AllRanks : stage[r] \in {"ready", "dropped", "failed"})

=============================================================================
