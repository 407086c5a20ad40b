SPECIFICATION FairSpec
CONSTANTS
    Components = {"feed", "task page", "board", "panels"}
    read = read
    card = card
    Separator = FALSE
    MaxRequests = 2
    MaxUser = 1
    MaxAppendFaults = 1
    MaxEvents = 2
    MaxCalls = 2
    MaxFailures = 1
    Runs = {r1}
    MaxRefreshes = 3
    MaxReads = 2
INVARIANTS
    
    PagesShown
PROPERTIES
    PagesCatchUp
CHECK_DEADLOCK FALSE
