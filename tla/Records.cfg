SPECIFICATION FairSpec
CONSTANTS
    Components = {"final", "verdict", "route"}
    Items <- MCItems
    Payloads <- MCPayloads
    Reports <- MCReports
    MaxSection <- MCSection
    MaxClaims = 2
    MaxRefs = 2
    MaxSummary = 2
    MaxExplanations = 4
    MaxRows = 3
    LongerRetry = TRUE
    Composer = TRUE
    MaxFaults = 1
    Tasks = {t1}
    NoTask = NoTask
    MaxSaves = 7
    Faults = TRUE
    MaxStaleRounds = 2
    MaxItems = 1
    MaxTurns = 3

    
    
PROPERTIES
    VerdictsForward
    
CHECK_DEADLOCK FALSE
