-------------------------- MODULE MCCachedDataset --------------------------
(* CachedDataset for TLC: two caches of at most two samples in shards of   *)
(* four bytes, draws that repeat rows, and tables that filter, reorder and repeat. *)
EXTENDS CachedDataset

CONSTANTS ColumnsA, ColumnsB

Kind(size, columns, floats) == [id |-> 0, size |-> size, columns |-> columns, floats |-> floats]

\* The second one is longer than a shard and has a float that JSON moves.
MCKinds == {Kind(3, ColumnsA, "exact"), Kind(5, ColumnsA, "inexact"),
            Kind(1, ColumnsB, "nonfinite"), Kind(1, NoColumns, "exact")}

Row(cache, sample, weight) == [cache |-> cache, sample |-> sample, weight |-> weight]

\* The last row is unknown (a sample past the end) or has no weight: refused.
MCTables == {<<Row(2, 0, 1), Row(1, 1, 1), Row(2, 0, 1)>>, <<Row(1, 0, 2)>>,
             <<Row(1, 0, 1), Row(1, 7, 1)>>, <<Row(1, 0, 1), Row(1, 0, 0)>>}

MCEpochLens == {0, 3}

MCDraws == [d \in 0..MaxDraw |-> <<3, 0, 2, 2, 1, 0, 3, 1>>[1 + (d % 8)]]

=============================================================================
