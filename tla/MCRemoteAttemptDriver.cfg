SPECIFICATION FairSpec
CONSTANTS
    Tokens = {t1, t2, t3}
    Tasks = {k1, k2}
    MaxGeneration = 3
    Capacity = 3
    NoToken = NoToken
    Local = Local
INVARIANTS
    DeliveredOnce
    NewestWins
    ReceiptsAreSound
PROPERTY
    EveryTokenCompletes
CHECK_DEADLOCK FALSE
