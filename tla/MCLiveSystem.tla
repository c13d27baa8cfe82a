---------------------------- MODULE MCLiveSystem ----------------------------
(***************************************************************************)
(* Two supervisors, two packages.  The first package has two versions, one *)
(* of which drops the service that the second package also offers, so that *)
(* activation and rollback can meet a service owned elsewhere.             *)
(***************************************************************************)
EXTENDS LiveSystem, TLC

CONSTANTS s1, s2, editor, shell, editor1, editor2, shell1

MCManifest ==
  (editor1 :> [name |-> editor, services |-> {1}]) @@
  (editor2 :> [name |-> editor, services |-> {}]) @@
  (shell1 :> [name |-> shell, services |-> {1}])

MCSymmetry == Permutations(Supervisors)
=============================================================================
