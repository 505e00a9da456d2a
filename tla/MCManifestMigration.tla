------------------------ MODULE MCManifestMigration ------------------------
(* An instance of ManifestMigration for TLC. *)
EXTENDS ManifestMigration, TLC

CONSTANTS x, y, A, B

\* Two datasets that list the same caches in opposite orders.
Opposite == (A :> <<x, y>>) @@ (B :> <<y, x>>)

=============================================================================
