SPECIFICATION FairSpec
CONSTANTS
    Requested = 2
    Budgets = {1, 2}
    MaxImages = 1
    Requests <- MCRequests
    Envelopes <- MCEnvelopes
    MaxFaults = 1
INVARIANTS
    ProxySound
    OutcomeReported
PROPERTIES
    TurnEnds
CHECK_DEADLOCK FALSE
