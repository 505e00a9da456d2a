-------------------------- MODULE MCParallelWriter --------------------------
(* Instances of the parallel writer for TLC. *)
EXTENDS ParallelWriter, TLC

CONSTANTS a, b

Call(names, again, cacheA, tempA) ==
  [name |-> names, reuse |-> again,
   final |-> (a :> cacheA) @@ (b :> "absent"), temp |-> (a :> tempA) @@ (b :> "absent")]

\* Two new caches; one that exists, to be reused or refused; a temporary path of
\* somebody else; a bad name; one destination twice.
Calls ==
  {Call(<<a, b>>, FALSE, "absent", "absent"), Call(<<a, b>>, TRUE, "old", "absent"),
   Call(<<b, a>>, FALSE, "old", "absent"), Call(<<a, b>>, FALSE, "absent", "stale"),
   Call(<<BadName, b>>, TRUE, "absent", "absent"), Call(<<a, a>>, FALSE, "absent", "absent")}

=============================================================================
