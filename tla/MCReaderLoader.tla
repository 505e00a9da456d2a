-------------------------- MODULE MCReaderLoader --------------------------
(* ReaderLoader for TLC: every request over at most MaxRows rows, two ranks *)
(* with up to MaxWorkers workers each, batches of up to MaxBatch samples.   *)
EXTENDS ReaderLoader

CONSTANTS MaxRows, MaxWorld, MaxWorkers, MaxBatch, MaxSamplesPerEpoch

MCRequests ==
  UNION {[rows : 1..MaxRows, world : {n}, workers : [0..(n - 1) -> 0..MaxWorkers],
          batch : 1..MaxBatch, samples : 1..MaxSamplesPerEpoch,
          dropLast : BOOLEAN, split : BOOLEAN, shuffle : BOOLEAN] : n \in 1..MaxWorld}

\* A permutation of 0..n-1 without a fixed structure for n <= 5.
MCRowOrder == << <<0>>, <<1, 0>>, <<1, 2, 0>>, <<2, 0, 3, 1>>, <<3, 1, 4, 0, 2>> >>

MCDraws == [d \in 0..MaxDraw |-> <<3, 0, 2, 2, 1, 0, 3, 1>>[1 + (d % 8)]]

=============================================================================
