------------------------- MODULE MCHostedSession -------------------------
(* Instances of HostedSession for TLC. *)
EXTENDS HostedSession
=============================================================================
