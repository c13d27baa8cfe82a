---------------------------- MODULE MCHostedStore ----------------------------
(***************************************************************************)
(* Instances of HostedStore for model checking.                            *)
(***************************************************************************)
EXTENDS HostedStore, TLC

MCPayload == [s \in Sessions |-> 1]

=============================================================================
