------------------------- MODULE MCGraphCoordinator -------------------------
(***************************************************************************)
(* Instances of GraphCoordinator.                                          *)
(***************************************************************************)
EXTENDS GraphCoordinator

Op(adapter, group, batch, deps) ==
    [adapter |-> adapter, group |-> group, batch |-> batch, deps |-> deps]

\* Two scope loads, a renderer that needs neither, a batch member on a worker, an effect
\* that needs a load and the renderer, and what follows from it.
StrictPlan ==
    <<Op("load", 0, FALSE, {}), Op("load", 0, TRUE, {}), Op("renderer", 0, FALSE, {}),
      Op("native", 0, FALSE, {2}), Op("coordinator", 0, TRUE, {1, 3}), Op("renderer", 0, FALSE, {5})>>

\* A scope load, then a group of two shims, one with a derived rendering, a rendering
\* outside the group that follows it, and an effect.
AutonomousPlan ==
    <<Op("load", 0, FALSE, {}), Op("shim", 1, TRUE, {}), Op("shim", 1, FALSE, {}),
      Op("renderer", 1, FALSE, {3}), Op("renderer", 0, FALSE, {4}), Op("coordinator", 0, FALSE, {2})>>

MCPlans == {StrictPlan, AutonomousPlan}
=============================================================================
