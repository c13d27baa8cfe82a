----------------------- MODULE MCRemoteAttemptDriver -----------------------
(***************************************************************************)
(* An instance of RemoteAttemptDriver: two logical tasks with up to three  *)
(* generations each, three tokens, and fewer slots than attempts.          *)
(***************************************************************************)
EXTENDS RemoteAttemptDriver
=============================================================================
