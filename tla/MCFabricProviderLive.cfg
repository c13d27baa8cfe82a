SPECIFICATION FairProviderSpec
CONSTANTS
    Bindings <- LiveBindings
    Callers = {h1, h2}
    Opener = Opener
    Reasons <- MCReasons
    Payloads = {bytes}
    RestartReason = RestartReason
    NoDetail = NoDetail
    MaxEntries = 2
    MaxIncarnation = 1
    ClockReadable = TRUE
PROPERTIES
    AttemptsConclude
