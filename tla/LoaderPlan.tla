----------------------------- MODULE LoaderPlan -----------------------------
(***************************************************************************)
(* How make_dataloader divides the rows of a dataset and the samples of an *)
(* epoch among the consumers: the loading workers of every data-parallel   *)
(* rank.  Every rank computes its own plans from the same request c:       *)
(*   c.rows        rows of the active metadata table                       *)
(*   c.world       ranks                     c.workers[r]  DataLoader      *)
(*   c.batch       batch size                              workers of r    *)
(*   c.samples     samples_per_epoch         c.dropLast, c.split, c.shuffle*)
(***************************************************************************)
EXTENDS Integers, Sequences, FiniteSetsExt

CONSTANT RowOrder   \* RowOrder[n]: the permutation of 0..n-1 the seed yields

Ranks(c) == 0..(c.world - 1)

\* What the option checks, ReplicaIdentity and DatasetConfiguration let through.
IsRequest(c) ==
  /\ c.rows \in Nat \ {0} /\ c.world \in Nat \ {0}
  /\ c.batch \in Nat \ {0} /\ c.samples \in Nat \ {0}
  /\ c.workers \in [Ranks(c) -> Nat]
  /\ c.dropLast \in BOOLEAN /\ c.split \in BOOLEAN /\ c.shuffle \in BOOLEAN

\* max(1, num_workers): without workers the rank itself is the one consumer.
RankWorkers(c, rank) == Max({1, c.workers[rank]})
Consumers(c, rank) == 0..(RankWorkers(c, rank) - 1)

\* The running sum f[0] + ... + f[n - 1].
Total(f, n) ==
  LET total[k \in 0..n] == IF k = 0 THEN 0 ELSE total[k - 1] + f[k - 1] IN total[n]

\* partition_rows: contiguous spans, the first ones a row longer.
PartitionRows(count, parts, part) ==
  LET size == count \div parts
      extra == count % parts
  IN [offset |-> part * size + Min({part, extra}),
      length |-> IF part < extra THEN size + 1 ELSE size]

\* rank_budget: the same number of samples for every rank, whole batches of all
\* ranks when the last batch is dropped.
RankBudget(c) ==
  IF c.dropLast THEN (c.samples \div (c.world * c.batch)) * c.batch
                ELSE (c.samples + c.world - 1) \div c.world

\* A variant of WorkerBudgets that divides samples instead of batches.
WorkerBudgetsBySample(samples, workers, populations, batch) ==
  [w \in 0..(workers - 1) |-> PartitionRows(samples, workers, w).length]

\* worker_budgets: whole batches, the tail to the last busy worker, and no
\* budget for a worker without rows.
WorkerBudgets(samples, workers, populations, batch) ==
  LET batches == samples \div batch
      busy == Min({workers, populations, Max({1, batches})})
  IN [w \in 0..(workers - 1) |->
       IF samples = 0 \/ w >= busy THEN 0
       ELSE PartitionRows(batches, busy, w).length * batch
            + (IF w = busy - 1 THEN samples % batch ELSE 0)]

\* The rows a split divides among the ranks: padded or cut to the epoch when
\* the epoch is one pass over the rows, padded when there are fewer rows than
\* ranks.
SplitPopulation(c) ==
  IF c.samples = c.rows THEN RankBudget(c) * c.world
  ELSE IF c.rows < c.world THEN c.world ELSE c.rows

RankSpan(c, rank) ==
  IF c.split THEN PartitionRows(SplitPopulation(c), c.world, rank)
             ELSE [offset |-> 0, length |-> c.rows]

Budgets(c, rank) ==
  WorkerBudgets(RankBudget(c), RankWorkers(c, rank),
                IF c.split THEN RankSpan(c, rank).length ELSE RankWorkers(c, rank), c.batch)

\* A variant of PopulationSize that divides the rows among all workers.
PopulationSizeAllWorkers(c, rank, worker) ==
  IF Budgets(c, rank)[worker] = 0 THEN 0
  ELSE IF ~c.split THEN c.rows
  ELSE PartitionRows(RankSpan(c, rank).length, RankWorkers(c, rank), worker).length

PopulationSize(c, rank, worker) ==
  LET budgets == Budgets(c, rank)
      busy == Total([w \in DOMAIN budgets |-> IF budgets[w] > 0 THEN 1 ELSE 0], RankWorkers(c, rank))
      fullPass == Total(budgets, RankWorkers(c, rank)) = RankSpan(c, rank).length
  IN IF budgets[worker] = 0 THEN 0
     ELSE IF ~c.split THEN c.rows
     ELSE IF fullPass THEN budgets[worker]
     ELSE PartitionRows(RankSpan(c, rank).length, busy, worker).length

PopulationSizes(c, rank) == [w \in Consumers(c, rank) |-> PopulationSize(c, rank, w)]

\* prepare_partitions: the plan of one consumer.
WorkerPlan(c, rank, worker) ==
  [offset |-> IF c.split
                THEN RankSpan(c, rank).offset + Total(PopulationSizes(c, rank), worker) ELSE 0,
   populationSize |-> PopulationSize(c, rank, worker),
   sampleCount |-> Budgets(c, rank)[worker]]

\* population_selection: the rows of a consumer, cyclic past the last row, of
\* the table or of its shared permutation.
PopulationSelection(c, plan) ==
  [k \in 1..plan.populationSize |->
     LET position == (plan.offset + k - 1) % c.rows IN
     IF c.shuffle /\ c.split THEN RowOrder[c.rows][position + 1] ELSE position]

=============================================================================
