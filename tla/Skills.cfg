SPECIFICATION Spec
CONSTANTS
    Programs = {"encoder", "tools", "host"}
    Streams = {"application", "raw"}
    MaxMovements = 3
    TopEvents = 3
    TopEpisodes = 1
    Hour = 2
    MaxTime = 3
    MaxLines = 5
    MaxRestarts = 1
    Counts = {3, 5}
    Full = 4
    WindowStarts = {1, 2}
    WindowEnds = {3, 4}
    Samples = {1, 3}
    HourLimit = 2
    FileLimit = 3
    LinesBefore = {2}
    LinesAfter = {1}
    MaxShown = {1, 3}
    SizeShown = {2, 5}
    HostTime = 4
INVARIANTS
    EncoderEventsSound
    EncoderReportTrue
    ToolsSound
    
CHECK_DEADLOCK FALSE
