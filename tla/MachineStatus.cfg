SPECIFICATION FairSpec
CONSTANTS
    a1 = a1
    NoAddress = NoAddress
    Addresses = {a1}
    MaxRetries = 2
    MaxFaults = 1
INVARIANT ConditionPerFailure
PROPERTIES
    RunningIsReported
    ConfigFailureIsReported
    ErrorEventsAreReported
    StatusSettles
