SPECIFICATION ProviderSpec
CONSTANTS
    Bindings <- MCBindings
    Callers = {h1, h2}
    Opener = Opener
    Reasons <- MCReasons
    Payloads = {bytes}
    RestartReason = RestartReason
    NoDetail = NoDetail
    MaxEntries = 2
    MaxIncarnation = 2
    ClockReadable = FALSE
SYMMETRY HandlerSymmetry
INVARIANTS
    AtMostOneGrant
    GrantFence
    AnswersAreDurable
    ExecutionIsExclusive
PROPERTIES
    TerminalIsFinal
    ImplementsAttempt
