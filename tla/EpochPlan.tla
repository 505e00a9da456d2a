----------------------------- MODULE EpochPlan -----------------------------
(***************************************************************************)
(* The arithmetic of the epoch windows: how the sequential cursor and the  *)
(* draw offset move from one iterator to the next, and which active row a  *)
(* position of a window stands for.  Both cyclic operations are written    *)
(* so that no intermediate sum leaves the machine word.                    *)
(***************************************************************************)
EXTENDS Integers, Sequences

CONSTANTS
  MaxDraw,   \* the largest draw number (u64::MAX in the code)
  Draws      \* Draws[d]: what the generator seeded with draw d picks

ASSUME EpochPlanAssumption == MaxDraw \in Nat /\ Draws \in [0..MaxDraw -> Nat]

Overflow == -1

\* advance_cyclic_offset and wrapping_add_mod: (start + step) % populationLen,
\* for a start below populationLen, without forming start + step unless it fits.
AdvanceCyclicOffset(start, step, populationLen) ==
  LET distanceToWrap == populationLen - (step % populationLen) IN
  IF start >= distanceToWrap THEN start - distanceToWrap ELSE start + (step % populationLen)

\* advance_draw_offset: a checked addition.
AdvanceDrawOffset(start, step) == IF start + step > MaxDraw THEN Overflow ELSE start + step

\* EpochSampler::next: the draw number alone, with the seed and the weights of
\* the snapshot, decides the row.
Sampled(draw, populationLen) == Draws[draw] % populationLen

\* EpochPlan::next_physical_index: the active row (from 0) of the sequence-th
\* sample of a window.
PlannedRow(plan, sequence) ==
  IF plan.shuffled THEN Sampled(plan.start + sequence, plan.populationLen)
                   ELSE AdvanceCyclicOffset(plan.start, sequence, plan.populationLen)

=============================================================================
