SPECIFICATION Spec
CONSTANTS
    Components = {"packages", "files", "list", "starts", "docker", "evidence"}
    Callers = {c1, c2}
    Images = {1, 2}
    Logs = {3}
    MaxBytes = 4
    MaxFiles = 2
    MaxChanges = 2
    MaxFaults = 1
    Requests = {r1, r2, r3}
    NoOne = NoOne
    Ids = {1, 2, 3}
    Scheduled = {2}
    States = {"CREATED", "RUNNING", "PAUSING", "FAILED"}
    MaxEvents = 1
    MaxTime = 2
    PageSize = 1
    DayLength = 2
    Servers = {"s1", "s2"}
    Served = {"t1"}
    Owners = {"t1", "t2"}
    Agents = {"a", "b"}
    MaxContainers = 2
    MaxReadLines = 3
    MaxLineChars = 4
    MaxExecLines = 2
    MaxExecChars = 5
    MaxClaimImages = 1
    MaxImages = 1
    MaxStaleRounds = 2
    MaxTurns = 2
    MaxCalls = 2
    MaxTouched = 1
SYMMETRY Symmetric
INVARIANTS
    PackagesSound
    EvidenceSound
    TaskRecordsSound
    StartsSound
    DockerSound
PROPERTIES
    NothingReplaced
CHECK_DEADLOCK FALSE
