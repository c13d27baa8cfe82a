-------------------------- MODULE MCFabricProvider --------------------------
(***************************************************************************)
(* Instances of FabricProvider with two handlers that may serve the same   *)
(* binding.  Safety: a competing binding with the same nonce, and one that *)
(* is addressed to the incarnation after a restart and reuses the attempt  *)
(* coordinate.  Liveness: two competing bindings of two principals, so     *)
(* that a request may also come from the wrong peer.                       *)
(***************************************************************************)
EXTENDS FabricProvider, TLC

Binding(attempt, nonce, principal, incarnation) ==
    [issuer |-> "issuer", attempt |-> attempt, nonce |-> nonce,
     principal |-> principal, incarnation |-> incarnation]

MCBindings ==
    {Binding("a1", "n1", "client", 1), Binding("a2", "n1", "client", 1),
     Binding("a1", "n2", "client", 2)}

LiveBindings == {Binding("a1", "n1", "client", 1), Binding("a2", "n1", "other", 1)}

MCReasons == {"expired", "stale", "unreconstructed", "unrealized"}

HandlerSymmetry == Permutations(Callers)
=============================================================================
