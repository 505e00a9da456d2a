--------------------------- MODULE LoaderSettings ---------------------------
(***************************************************************************)
(* What make_dataloader decides before it exports anything: which options  *)
(* it accepts, how many CPUs the process may use, and the numbers of       *)
(* loading processes and native threads that follow.                       *)
(*                                                                         *)
(* A host is what the code can read of the machine:                        *)
(*   cpus        os.cpu_count, 0 when undetermined                         *)
(*   affinity    size of the affinity mask; 0 where there is no such call, *)
(*               Unknown when it fails                                     *)
(*   linux       whether /proc is looked at                                *)
(*   localRanks  LOCAL_WORLD_SIZE: a number, None or Unknown (no number)   *)
(*   groups      records of /proc/self/cgroup: controllers and path        *)
(*   mounts      records of /proc/self/mountinfo: type, root, path,        *)
(*               controllers                                               *)
(*   files       the files of each cgroup directory there is               *)
(*   garbled     whether a record of the two lists cannot be parsed        *)
(* A path is the sequence of its names.  The content of a file is None when*)
(* it is missing and Unknown when it cannot be read or parsed.             *)
(***************************************************************************)
EXTENDS Integers, Sequences, FiniteSetsExt, SequencesExt

CONSTANTS
  Auto, Random, None,
  Unknown,        \* a value of the wrong type, a file that cannot be read
  Unlimited,      \* "max" in cpu.max
  StartMethods,   \* multiprocessing.get_all_start_methods
  DefaultMethod,  \* the start method of get_context()
  MaxSize,        \* sys.maxsize
  MaxProcesses,   \* the largest u32
  MaxBudget,      \* MAX_SAMPLE_BUDGET
  SeedBits        \* 64

-----------------------------------------------------------------------------
(* CPU limits *)

\* A limit is a fraction <<numerator, denominator>>.
RoundedDown(limit) == limit[1] \div limit[2]

\* _absolute_path
ValidPath(path) == ".." \notin Range(path)

\* _memberships and _mounts parse every record, and raise at the first bad one.
ValidGroups(host) == \A g \in host.groups : ValidPath(g.path)

GroupMounts(host) == {m \in host.mounts : m.type \in {"cgroup", "cgroup2"}}

ValidMounts(host) == \A m \in GroupMounts(host) : ValidPath(m.root) /\ ValidPath(m.path)

\* _mounts: the records that concern the CPU.
Relevant(mount) ==
  \/ mount.type = "cgroup2"
  \/ mount.type = "cgroup" /\ mount.controllers \cap {"cpu", "cpuset"} /= {}

\* _cpuset_limit: ascending ranges that do not overlap; an empty set says nothing.
CpusetLimit(ranges) ==
  LET previous(i) == IF i = 1 THEN -1 ELSE ranges[i - 1][2]
      size(i) == ranges[i][2] - ranges[i][1] + 1
  IN IF ranges \in {None, <<>>} THEN {}
     ELSE IF ranges = Unknown THEN {Unknown}
     ELSE IF \E i \in DOMAIN ranges : ranges[i][1] <= previous(i) \/ size(i) < 1
       THEN {Unknown}
       ELSE {<<MapThenSumSet(size, DOMAIN ranges), 1>>}

\* cpu.max of version 2: a quota, or "max", and a period.
QuotaV2(file) ==
  IF file.cpuMax = None THEN {}
  ELSE IF file.cpuMax = Unknown THEN {Unknown}
  ELSE IF file.cpuMax[2] <= 0 THEN {Unknown}
  ELSE IF file.cpuMax[1] = Unlimited THEN {}
  ELSE IF file.cpuMax[1] <= 0 THEN {Unknown} ELSE {file.cpuMax}

\* cpu.cfs_quota_us and cpu.cfs_period_us of version 1; a quota of -1 is none.
QuotaV1(file) ==
  IF file.quota = None /\ file.period = None THEN {}
  ELSE IF {file.quota, file.period} \cap {None, Unknown} /= {} THEN {Unknown}
  ELSE IF file.period <= 0 \/ file.quota = 0 \/ file.quota < -1 THEN {Unknown}
  ELSE IF file.quota > 0 THEN {<<file.quota, file.period>>} ELSE {}

NoFiles == [cpuMax |-> None, quota |-> None, period |-> None, cpuset |-> None]

\* _directory_limits, Unknown among them for an exception.
DirectoryLimits(file, mount) ==
  IF mount.type = "cgroup2" THEN QuotaV2(file) \cup CpusetLimit(file.cpuset)
  ELSE (IF "cpu" \in mount.controllers THEN QuotaV1(file) ELSE {})
       \cup (IF "cpuset" \in mount.controllers THEN CpusetLimit(file.cpuset) ELSE {})

\* Whether a mount shows the hierarchy of a membership.
Shows(mount, group) ==
  IF mount.type = "cgroup2" THEN group.controllers = {}
                            ELSE group.controllers \cap mount.controllers /= {}

\* The process's directory below a mount: its path may be relative to the root
\* of the mounted subtree.
Relative(mount, group) ==
  IF IsPrefix(mount.root, group.path)
    THEN SubSeq(group.path, Len(mount.root) + 1, Len(group.path)) ELSE group.path

\* A variant of Visited that looks at the process's own directory only.
VisitedLeaf(mount, group) == {mount.path \o Relative(mount, group)}

\* The directories from the process's own up to the mount.
Visited(mount, group) ==
  {mount.path \o SubSeq(Relative(mount, group), 1, n) : n \in 0..Len(Relative(mount, group))}

\* _linux_limits: every directory of every hierarchy the process is in.
LinuxLimits(host) ==
  LET content(d) == IF d \in DOMAIN host.files THEN host.files[d] ELSE NoFiles
      shown == {x \in GroupMounts(host) \X host.groups : Relevant(x[1]) /\ Shows(x[1], x[2])}
  IN IF host.garbled \/ ~ValidGroups(host) \/ ~ValidMounts(host) THEN {Unknown}
     ELSE UNION {UNION {DirectoryLimits(content(d), x[1]) : d \in Visited(x[1], x[2])} : x \in shown}

\* available_cpu_count.  Rounding down commutes with taking the least limit.
AvailableCpuCount(host) ==
  LET limits == {<<Max({host.cpus, 1}), 1>>}
                \cup (IF host.affinity \in {0, Unknown} THEN {} ELSE {<<host.affinity, 1>>})
                \cup (IF host.linux THEN LinuxLimits(host) ELSE {})
  IN IF host.affinity = Unknown \/ Unknown \in limits THEN 1
     ELSE Max({1, Min({RoundedDown(l) : l \in limits})})

-----------------------------------------------------------------------------
(* Worker counts *)

\* loading_worker_count
LoadingWorkerCount(cpus, ranks) == Min({4, Max({0, cpus \div ranks - 1})})

\* native_worker_count
NativeWorkerCount(cpus, workers, ranks) ==
  Max({1, Min({4, cpus \div (Max({1, workers}) * ranks)})})

\* local_rank_count, None for an exception.
LocalRankCount(world, host) ==
  IF world = 1 \/ host.localRanks = None THEN world
  ELSE IF host.localRanks = Unknown THEN None
  ELSE IF host.localRanks \in 1..world THEN host.localRanks ELSE None

\* resolve_worker_counts: two explicit numbers need neither CPUs nor ranks.
ResolveWorkerCounts(o, cpus, ranks) ==
  LET processes == IF o.numWorkers = Auto THEN LoadingWorkerCount(cpus, ranks) ELSE o.numWorkers
  IN IF Auto \notin {o.numWorkers, o.nativeNumWorkers}
       THEN [processes |-> o.numWorkers, threads |-> o.nativeNumWorkers]
     ELSE IF ranks = None THEN None
     ELSE [processes |-> processes,
           threads |-> IF o.nativeNumWorkers = Auto
                         THEN NativeWorkerCount(cpus, processes, ranks) ELSE o.nativeNumWorkers]

-----------------------------------------------------------------------------
(* Options *)

\* The defaults of to_torch_dataloader.
Defaults ==
  [shuffle |-> TRUE, seed |-> Random, samplesPerEpoch |-> None, partition |-> None,
   workDir |-> None, batchSize |-> 1, numWorkers |-> Auto, pickles |-> TRUE, dropLast |-> FALSE,
   timeout |-> 0, nativeNumWorkers |-> Auto, context |-> [kind |-> "method", method |-> "spawn"],
   prefetch |-> Auto, persistent |-> Auto, extra |-> {}]

\* _validate_count
ValidCount(value, least, most) == value = Auto \/ value \in least..most

\* _validate_seed
ValidSeed(o) == o.seed = Random \/ (o.shuffle /\ o.seed \in 0..(2^SeedBits - 1))

\* _validate_context: "inherit", a BaseContext or an available start method.
ValidContext(context) ==
  context.kind \in {"inherit", "object"} \/ (context.kind = "method" /\ context.method \in StartMethods)

\* LoaderOptions.__post_init__; pin_memory and verbose, which nothing here
\* depends on, are left out.
PostInit(o) ==
  /\ ValidCount(o.numWorkers, 0, MaxProcesses)
  /\ ValidCount(o.nativeNumWorkers, 1, MaxSize)
  /\ {o.shuffle, o.dropLast} \subseteq BOOLEAN
  /\ o.batchSize \in 1..MaxSize
  /\ o.samplesPerEpoch = None \/ o.samplesPerEpoch \in 1..MaxBudget
  /\ o.timeout \in Nat
  /\ ValidCount(o.prefetch, 1, MaxSize)
  /\ o.persistent \in BOOLEAN \cup {Auto}
  /\ ValidSeed(o)
  /\ ValidContext(o.context)
  /\ o.partition \in {None, "split", "replicate"}

\* A variant of ResolveContext that captures a context for serial loading too.
ResolveContextAlways(o, processes) ==
  IF o.context.kind = "inherit" THEN DefaultMethod ELSE o.context.method

\* _resolve_context: the start method; serial loading has no context.
ResolveContext(o, processes) ==
  IF processes = 0 THEN None
  ELSE IF o.context.kind = "inherit" THEN DefaultMethod ELSE o.context.method

\* _resolve_persistence and _resolve_prefetch, Unknown for an exception.
ResolvePersistence(o, processes) ==
  IF o.persistent = Auto THEN processes > 0
  ELSE IF o.persistent /\ processes = 0 THEN Unknown ELSE o.persistent

ResolvePrefetch(o, processes) ==
  IF o.prefetch = Auto THEN (IF processes > 0 THEN 2 ELSE None)
  ELSE IF processes = 0 THEN Unknown ELSE o.prefetch

\* resolve_workers, None for an exception.
ResolveWorkers(o, cpus, ranks) ==
  LET counts == ResolveWorkerCounts(o, cpus, ranks)
      n == counts.processes
  IN IF counts = None THEN None
     ELSE IF n = 0 /\ o.timeout /= 0 THEN None
     ELSE IF ResolvePersistence(o, n) = Unknown \/ ResolvePrefetch(o, n) = Unknown THEN None
     ELSE [counts |-> counts, persistent |-> ResolvePersistence(o, n),
           prefetch |-> ResolvePrefetch(o, n), context |-> ResolveContext(o, n)]

\* resolved_partition: shuffled loading replicates, sequential loading splits.
ResolvedPartition(o) ==
  IF o.partition = None THEN (IF o.shuffle THEN "replicate" ELSE "split") ELSE o.partition

\* The keywords make_dataloader keeps to itself.
Reserved ==
  {"dataset", "sampler", "batch_sampler", "shuffle", "seed", "samples_per_epoch",
   "worker_partition", "work_dir", "batch_size", "num_workers", "sample_transform_fn",
   "collate_fn", "drop_last", "pin_memory", "timeout", "native_num_workers",
   "multiprocessing_context", "worker_init_fn", "prefetch_factor", "persistent_workers",
   "verbose", "dataloader_kwargs"}

\* _validate_transform
ValidTransform(o, processes) == o.pickles \/ processes = 0

\* resolved_seed: None stands for a seed to be drawn.
ResolvedSeed(o) == IF o.seed = Random THEN None ELSE o.seed

\* samples_per_epoch, or what the dataset's recipe says.
SampleCount(o, inherited) == IF o.samplesPerEpoch = None THEN inherited ELSE o.samplesPerEpoch

\* make_dataloader up to its common seed: reserved keywords, options, worker
\* counts, the transform's pickle and the epoch's length; None for an exception.
Resolved(o, cpus, ranks, inherited) ==
  LET workers == ResolveWorkers(o, cpus, ranks)
      samples == SampleCount(o, inherited)
  IN IF o.extra \cap Reserved /= {} \/ ~PostInit(o) THEN None
     ELSE IF workers = None THEN None
     ELSE IF ~ValidTransform(o, workers.counts.processes) THEN None
     ELSE IF samples \notin 1..MaxBudget THEN None
     ELSE [workers |-> workers, samples |-> samples]

\* What DataLoader checks when it is made and when it is iterated (external).
TorchAllows(processes, timeout, prefetch, persistent, context, keywords) ==
  /\ processes = 0 => prefetch = None /\ context = None /\ ~persistent /\ timeout = 0
  /\ processes > 0 => prefetch /= None /\ context \in StartMethods
  /\ keywords \cap {"dataset", "batch_size", "num_workers", "collate_fn", "drop_last",
                    "pin_memory", "timeout", "multiprocessing_context", "worker_init_fn",
                    "prefetch_factor", "persistent_workers",
                    "sampler", "batch_sampler", "shuffle"} = {}

=============================================================================
