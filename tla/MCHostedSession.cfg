\* One session through every operation, recovery, reset, panic, crash and
\* isolation.  A session that is recovered while isolated is not followed
\* further (RecoverIsolated): it has no next state.
CONSTANTS
  Sessions = {s1}
  MaxHead = 20
  Panics = TRUE
SPECIFICATION FairSpec
INVARIANTS
  ReplayIsLive
  ActorIsCheckpoint
  OneActorPerGeneration
PROPERTY
  Settles
CHECK_DEADLOCK FALSE
