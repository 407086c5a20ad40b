SPECIFICATION Spec
CONSTANTS
    Components = {"feed"}
    read = read
    card = card
    Separator = TRUE
    MaxRequests = 2
    MaxUser = 1
    MaxAppendFaults = 1
    MaxEvents = 2
    MaxCalls = 2
    MaxFailures = 1
    Runs = {r1}
    MaxRefreshes = 3
    MaxReads = 2
INVARIANT AppendedIsReadable
CHECK_DEADLOCK FALSE
