---------------------------- MODULE ReaderLoader ----------------------------
(***************************************************************************)
(* One consumer of a Torch DataLoader made by make_dataloader: the         *)
(* ReaderAdapter in a loading worker (or in the rank itself), its native   *)
(* dataset over the consumer's rows, and the passes Torch makes over it.   *)
(* A pass may be abandoned, a read or the transform may fail, and workers  *)
(* that are not persistent are replaced between passes.                    *)
(*                                                                         *)
(* position is a history variable: how many positions of the consumer's    *)
(* endless sequence have been used up.  A sample uses one position; a read *)
(* error ends the Python generator and uses up the rest of its window.     *)
(***************************************************************************)
EXTENDS EpochPlan, LoaderPlan

CONSTANTS
  Requests,    \* what callers ask of make_dataloader (see LoaderPlan)
  MaxPasses    \* passes of one process over the loader

ASSUME ReaderLoaderAssumption ==
  MaxPasses \in Nat /\ \A request \in Requests : IsRequest(request)

VARIABLES
  c, consumer,      \* the request, and the consumer's <<rank, worker>>
  reader,           \* adapter._state: "pending", "empty" or "local"
  stream,           \* state.stream: the generator and the window it reads
  sequentialOffset, shuffledDrawOffset,   \* of the consumer's dataset
  remaining,        \* samples left in the running pass
  passes, position, last

vars == <<c, consumer, reader, stream, sequentialOffset, shuffledDrawOffset,
          remaining, passes, position, last>>

Plan == WorkerPlan(c, consumer[1], consumer[2])
Population == PopulationSelection(c, Plan)

\* iter(dataset): a generator that has not taken its window yet.
FreshStream == [status |-> "created", start |-> 0, taken |-> 0]

NoRow == -1

Init ==
  /\ c \in Requests
  /\ consumer \in {<<r, w>> : r \in Ranks(c), w \in UNION {Consumers(c, q) : q \in Ranks(c)}}
  /\ consumer[2] \in Consumers(c, consumer[1])
  /\ reader = "pending" /\ stream = FreshStream
  /\ sequentialOffset = 0 /\ shuffledDrawOffset = 0
  /\ remaining = 0 /\ passes = 0 /\ position = 0 /\ last = NoRow

\* A variant of BeginPass that opens a new iterator for every pass.
BeginPassAnew ==
  /\ remaining = 0 /\ passes < MaxPasses
  /\ passes' = passes + 1
  /\ reader' = IF Plan.sampleCount = 0 THEN "empty" ELSE "local"
  /\ stream' = FreshStream
  /\ remaining' = Plan.sampleCount
  /\ UNCHANGED <<c, consumer, sequentialOffset, shuffledDrawOffset, position, last>>

\* ReaderAdapter.__iter__ with setup: the first pass of a process creates the
\* dataset and its stream, a later one keeps both.
BeginPass ==
  /\ remaining = 0 /\ passes < MaxPasses
  /\ passes' = passes + 1
  /\ reader' = IF Plan.sampleCount = 0 THEN "empty" ELSE "local"
  /\ stream' = IF reader = "pending" THEN FreshStream ELSE stream
  /\ remaining' = Plan.sampleCount
  /\ UNCHANGED <<c, consumer, sequentialOffset, shuffledDrawOffset, position, last>>

\* The stream the next sample comes from: the retained one, or a new one after
\* StopIteration; a new one takes the next window of the dataset.
NeedsWindow == stream.status /= "open" \/ stream.taken = Plan.sampleCount

\* The window it would take lies beyond the last draw number.
WindowRefused ==
  NeedsWindow /\ c.shuffle /\ AdvanceDrawOffset(shuffledDrawOffset, Plan.sampleCount) = Overflow

WindowStart == IF c.shuffle THEN shuffledDrawOffset ELSE sequentialOffset

Drawn ==
  LET start == IF NeedsWindow THEN WindowStart ELSE stream.start
      taken == IF NeedsWindow THEN 0 ELSE stream.taken
  IN [status |-> "open", start |-> start, taken |-> taken + 1]

TakeWindow ==
  LET n == Len(Population) IN
  /\ sequentialOffset' = IF NeedsWindow /\ ~c.shuffle
                           THEN AdvanceCyclicOffset(sequentialOffset, Plan.sampleCount, n)
                           ELSE sequentialOffset
  /\ shuffledDrawOffset' = IF NeedsWindow /\ c.shuffle
                             THEN AdvanceDrawOffset(shuffledDrawOffset, Plan.sampleCount)
                             ELSE shuffledDrawOffset

\* next(state.stream) and the transform succeed.
Deliver ==
  /\ remaining > 0 /\ ~WindowRefused
  /\ stream' = Drawn /\ TakeWindow
  /\ remaining' = remaining - 1
  /\ position' = position + 1
  /\ last' = LET plan == [shuffled |-> c.shuffle, start |-> Drawn.start,
                          populationLen |-> Len(Population)]
             IN Population[PlannedRow(plan, Drawn.taken - 1) + 1]
  /\ UNCHANGED <<c, consumer, reader, passes>>

\* The transform raises: the sample is gone, the stream is not.
TransformFails ==
  /\ remaining > 0 /\ ~WindowRefused
  /\ stream' = Drawn /\ TakeWindow
  /\ remaining' = 0
  /\ position' = position + 1 /\ last' = NoRow
  /\ UNCHANGED <<c, consumer, reader, passes>>

\* The native read raises: the error also ends the generator, and the rest of
\* its window is never read.
ReadFails ==
  /\ remaining > 0 /\ ~WindowRefused
  /\ stream' = [Drawn EXCEPT !.status = "dead"] /\ TakeWindow
  /\ remaining' = 0
  /\ position' = (position \div Plan.sampleCount + 1) * Plan.sampleCount /\ last' = NoRow
  /\ UNCHANGED <<c, consumer, reader, passes>>

\* epoch_plan fails: the pass gets the error, the generator ends and the cursors
\* stay where they are.
PlanFails ==
  /\ remaining > 0 /\ WindowRefused
  /\ stream' = [FreshStream EXCEPT !.status = "dead"]
  /\ remaining' = 0 /\ last' = NoRow
  /\ UNCHANGED <<c, consumer, reader, sequentialOffset, shuffledDrawOffset, passes, position>>

\* The caller leaves the loop before the pass ends.
Abandon ==
  /\ remaining > 0
  /\ remaining' = 0
  /\ UNCHANGED <<c, consumer, reader, stream, sequentialOffset, shuffledDrawOffset,
                 passes, position, last>>

\* Without persistent workers Torch starts a new process for the next pass.
ReplaceProcess ==
  /\ remaining = 0 /\ passes > 0
  /\ reader' = "pending" /\ stream' = FreshStream
  /\ sequentialOffset' = 0 /\ shuffledDrawOffset' = 0
  /\ passes' = 0 /\ position' = 0 /\ last' = NoRow
  /\ UNCHANGED <<c, consumer, remaining>>

Next ==
  \/ BeginPass \/ Deliver \/ TransformFails \/ ReadFails \/ PlanFails
  \/ Abandon \/ ReplaceProcess

Spec == Init /\ [][Next]_vars

-----------------------------------------------------------------------------
(* Properties *)

\* The plans of all consumers of all ranks, which no process ever sees
\* together, fit each other: with "split" their row spans are disjoint and
\* leave no gap, and they cover every row unless the epoch is one pass whose
\* incomplete last batches are dropped; padding repeats rows only when the
\* ranks do not divide them; whoever has samples to deliver has rows to deliver
\* them from.
PlansTile ==
  reader = "pending" =>
    LET all == UNION {{<<r, w>> : w \in Consumers(c, r)} : r \in Ranks(c)}
        plan == [k \in all |-> WorkerPlan(c, k[1], k[2])]
        span(k) == plan[k].offset..(plan[k].offset + plan[k].populationSize - 1)
        covered == UNION {span(k) : k \in all}
    IN /\ \A k \in all : plan[k].sampleCount > 0 <=> plan[k].populationSize > 0
       /\ c.split =>
            /\ \A k, l \in all : k /= l => span(k) \cap span(l) = {}
            /\ RankBudget(c) > 0 =>
                 \E n \in 1..(c.rows + c.world - 1) :
                   covered = 0..(n - 1) /\ (n < c.rows => c.dropLast /\ c.samples = c.rows)

\* Torch computes len(loader) from the adapter's length alone, yet batches are
\* formed by each worker from its own quota.  Both counts agree, with and
\* without drop_last, and they are the same on every rank whatever its number
\* of workers, so no rank waits for a batch another one does not have.
LengthExact ==
  reader = "pending" =>
    LET batches(n) == IF c.dropLast THEN n \div c.batch ELSE (n + c.batch - 1) \div c.batch
        total(r) == Total(Budgets(c, r), RankWorkers(c, r))
        formed(r) == Total([w \in Consumers(c, r) |-> batches(Budgets(c, r)[w])], RankWorkers(c, r))
    IN \A r \in Ranks(c) : formed(r) = batches(total(r)) /\ formed(r) = formed(0)

\* A consumer walks one endless sequence.  Across passes, abandoned passes,
\* failed transforms and read errors, the sample at a position is the row the
\* cyclic order of the consumer's rows (or its stream of draws) has there; no
\* window is restarted and, but for the rest of a window that failed to read,
\* none is skipped.
CyclicOrder ==
  last /= NoRow =>
    LET index == (IF c.shuffle THEN Draws[position - 1] ELSE position - 1) % Len(Population) IN
    last = Population[index + 1]

=============================================================================
