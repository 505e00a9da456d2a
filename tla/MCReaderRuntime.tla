-------------------------- MODULE MCReaderRuntime --------------------------
(* Instances of the reader runtime for TLC. *)
EXTENDS ReaderRuntime, TLC

CONSTANTS i1, i2, g1

\* One iterator longer than its window, whose second read may fail, beside a
\* shorter one and a point read that may fail.
LongAndShort == (i1 :> 3) @@ (i2 :> 1)
Faults == {<<i1, 1>>, <<g1, 0>>}

=============================================================================
