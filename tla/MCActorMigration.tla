------------------------- MODULE MCActorMigration -------------------------
(* Instances of ActorMigration for TLC. *)
EXTENDS ActorMigration

\* Sessions are interchangeable: every one starts alike.
Symmetry == Permutations(Sessions)
=============================================================================
