--------------------------- MODULE MCFabricClient ---------------------------
(* An attempt, and the same attempt signed again with a new nonce. *)
EXTENDS FabricClient

MCCompetes(b, c) == b # c /\ {b, c} = {"first", "again"}

MCVerdicts == {"value", "failed", "late", "rejected", "abandoned"}

MCCompleted(v) == v \in {"value", "failed", "late"}
=============================================================================
