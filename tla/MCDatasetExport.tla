-------------------------- MODULE MCDatasetExport --------------------------
(* Three tables, two of them of one size, and two lists of paths. *)
EXTENDS DatasetExport, TLC

CONSTANTS t1, t2, t3

MCRows == (t1 :> 1) @@ (t2 :> 2) @@ (t3 :> 2) @@ (Torn :> 2)

============================================================================
