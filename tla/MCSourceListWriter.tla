------------------------ MODULE MCSourceListWriter ------------------------
(* Instances of the source-list writer for TLC. *)
EXTENDS SourceListWriter, TLC

\* Names are interchangeable.
Interchangeable == Permutations(Paths)

===========================================================================
