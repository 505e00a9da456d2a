------------------------- MODULE MCLoaderProcesses -------------------------
(* LoaderProcesses for TLC: the options that interact, on a set of small    *)
(* machines, and the life of the loaders that result.                       *)
EXTENDS LoaderProcesses

Least(limits) == CHOOSE l \in limits : \A k \in limits : l[1] * k[2] <= k[1] * l[2]

Bare(cpus) ==
  [cpus |-> cpus, affinity |-> 0, linux |-> FALSE, localRanks |-> None, groups |-> {},
   mounts |-> {}, files |-> <<>>, garbled |-> FALSE, granted |-> <<cpus, 1>>]

\* Version 2: the process in a/b of a tree mounted at sys, a quota on each of
\* b, a and the root, and a CPU set on a.  A namespaced mount shows the subtree
\* n, and the process's path starts with n or does not.
Quotas == {<<Unlimited, 2>>, <<3, 2>>, <<9, 2>>, <<8, 1>>}

V2(leaf, parent, top, ranges, root, path) ==
  [Bare(8) EXCEPT
     !.linux = TRUE,
     !.groups = {[controllers |-> {}, path |-> path], [controllers |-> {"cpu"}, path |-> <<"z">>]},
     !.mounts = {[type |-> "cgroup2", root |-> root, path |-> <<"sys">>, controllers |-> {}],
                 [type |-> "ext4", root |-> <<"..">>, path |-> <<>>, controllers |-> {}]},
     !.files = <<"sys", "a", "b">> :> [NoFiles EXCEPT !.cpuMax = leaf]
               @@ <<"sys", "a">> :> [NoFiles EXCEPT !.cpuMax = parent, !.cpuset = ranges]
               @@ <<"sys">> :> [NoFiles EXCEPT !.cpuMax = top],
     !.granted = Least({q \in {leaf, parent, top} : q[1] /= Unlimited} \cup {<<8, 1>>}
                       \cup (IF ranges = <<>> THEN {} ELSE {<<3, 1>>}))]

\* Version 1: a quota above the process and a CPU set beside it.
V1(quota, period, ranges) ==
  [Bare(8) EXCEPT
     !.linux = TRUE, !.affinity = 6,
     !.groups = {[controllers |-> {"cpu", "cpuacct"}, path |-> <<"a">>],
                 [controllers |-> {"cpuset"}, path |-> <<"c">>]},
     !.mounts = {[type |-> "cgroup", root |-> <<>>, path |-> <<"cpu">>, controllers |-> {"cpu"}],
                 [type |-> "cgroup", root |-> <<>>, path |-> <<"set">>, controllers |-> {"cpuset"}],
                 [type |-> "cgroup", root |-> <<>>, path |-> <<"m">>, controllers |-> {"memory"}]},
     !.files = <<"cpu">> :> [NoFiles EXCEPT !.quota = quota, !.period = period]
               @@ <<"set", "c">> :> [NoFiles EXCEPT !.cpuset = ranges],
     !.granted = Least({<<6, 1>>, <<3, 1>>} \cup {q \in {<<quota, period>>} : quota /= -1})]

ThreeCpus == << <<0, 1>>, <<4, 4>> >>

Readable ==
  {Bare(n) : n \in {1, 2, 3, 5, 6}}
  \cup {V2(l, p, t, s, <<>>, <<"a", "b">>) : l, p, t \in Quotas, s \in {<<>>, ThreeCpus}}
  \cup {V2(<<3, 2>>, p, <<8, 1>>, ThreeCpus, <<"n">>, path) :
          p \in Quotas, path \in {<<"n", "a", "b">>, <<"a", "b">>}}
  \cup {V1(q, 2, ThreeCpus) : q \in {-1, 1, 5}}

\* What cannot be read or parsed; nothing says what these machines grant.
Unreadable ==
  LET v1 == V1(5, 2, ThreeCpus) IN
  {[v1 EXCEPT !.affinity = Unknown], [v1 EXCEPT !.garbled = TRUE],
   [v1 EXCEPT !.groups = {[controllers |-> {"cpu"}, path |-> <<"..">>]}],
   [v1 EXCEPT !.mounts = {[type |-> "cgroup", root |-> <<"..">>, path |-> <<>>,
                           controllers |-> {"memory"}]}]}
  \cup {[v1 EXCEPT !.files = <<"cpu">> :> [NoFiles EXCEPT !.quota = q[1], !.period = q[2]]] :
          q \in {<<5, None>>, <<Unknown, 2>>, <<5, 0>>, <<0, 2>>, <<-2, 2>>}}
  \cup {[v1 EXCEPT !.files = <<"set", "c">> :> [NoFiles EXCEPT !.cpuset = ranges]] :
          ranges \in {Unknown, << <<0, 1>>, <<1, 4>> >>, << <<2, 1>> >>}}
  \cup {V2(<<8, 1>>, p, <<8, 1>>, <<>>, <<>>, <<"a", "b">>) : p \in {<<3, 0>>, <<-1, 2>>}}

One(o, h) == [world |-> 1, options |-> o, hosts |-> (0 :> h)]

\* The options that decide counts and worker lifetime.
Counts ==
  {[Defaults EXCEPT !.numWorkers = n, !.nativeNumWorkers = t, !.persistent = p, !.timeout = s,
                    !.prefetch = f, !.context = c] :
     n \in {Auto, 0, 2}, t \in {Auto, 1}, p \in {Auto, TRUE, FALSE}, s \in {0, 1},
     f \in {Auto, 1},
     c \in {[kind |-> "method", method |-> "fork"], [kind |-> "inherit", method |-> None],
            [kind |-> "object", method |-> "spawn"]}}

\* The options that decide seeds, quotas and the directory.
Lives ==
  {[Defaults EXCEPT !.numWorkers = n, !.persistent = p, !.context.method = m, !.shuffle = s[1],
                    !.seed = s[2], !.workDir = d, !.samplesPerEpoch = e, !.partition = q] :
     n \in {1, 2}, p \in BOOLEAN, m \in {"fork", "spawn"},
     s \in {<<TRUE, Random>>, <<TRUE, 5>>, <<FALSE, Random>>}, d \in {None, "dir"},
     e \in {None, 1}, q \in {None, "split"}}
  \cup {[Defaults EXCEPT !.numWorkers = 0, !.workDir = d, !.batchSize = 2, !.dropLast = l,
                         !.samplesPerEpoch = 1] : d \in {None, "dir"}, l \in BOOLEAN}

\* One thing wrong with the call, or nearly so.
Doubtful ==
  {[Defaults EXCEPT !.numWorkers = Unknown], [Defaults EXCEPT !.numWorkers = -1],
   [Defaults EXCEPT !.nativeNumWorkers = 0], [Defaults EXCEPT !.shuffle = Unknown],
   [Defaults EXCEPT !.batchSize = 0], [Defaults EXCEPT !.samplesPerEpoch = 0],
   [Defaults EXCEPT !.timeout = Unknown], [Defaults EXCEPT !.prefetch = 0],
   [Defaults EXCEPT !.persistent = Unknown], [Defaults EXCEPT !.seed = Unknown],
   [Defaults EXCEPT !.shuffle = FALSE, !.seed = 5], [Defaults EXCEPT !.seed = 2^SeedBits],
   [Defaults EXCEPT !.context.method = "other"], [Defaults EXCEPT !.partition = "other"],
   [Defaults EXCEPT !.pickles = FALSE], [Defaults EXCEPT !.pickles = FALSE, !.numWorkers = 0],
   [Defaults EXCEPT !.extra = {"sampler"}], [Defaults EXCEPT !.extra = {"generator"}]}

\* Two ranks, on one host or on two of different sizes.
Distributed ==
  {[world |-> 2, options |-> o, hosts |-> (0 :> g @@ 1 :> h)] :
     o \in {Defaults, [Defaults EXCEPT !.seed = 5], [Defaults EXCEPT !.shuffle = FALSE],
            [Defaults EXCEPT !.timeout = 1]},
     g \in {Bare(6)},
     h \in {Bare(1), Bare(6), V1(1, 2, ThreeCpus)}
           \cup {[Bare(4) EXCEPT !.localRanks = n] : n \in {1, 2, 3, Unknown}}}

MCLaunches ==
  {One(Defaults, h) : h \in Readable \cup Unreadable}
  \cup {One(o, h) : o \in Counts,
                    h \in {Bare(1), Bare(3), V2(<<9, 2>>, <<8, 1>>, <<8, 1>>, <<>>, <<>>, <<"a", "b">>)}}
  \cup {One(o, Bare(2)) : o \in Lives \cup Doubtful}
  \cup Distributed

MCRowOrder == << <<0>>, <<1, 0>> >>
MCMultipliers == <<5, 11>>
MCShifts == <<2, 1, 2>>

=============================================================================
