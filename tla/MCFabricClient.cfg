SPECIFICATION FairClientSpec
CONSTANTS
    Bindings = {"first", "again"}
    Competes <- MCCompetes
    Verdicts <- MCVerdicts
    Completed <- MCCompleted
INVARIANT
    AcceptedIsRecorded
PROPERTY
    AttemptsReturn
CHECK_DEADLOCK FALSE
