\* One client that sends two commands, one server process, whose log thread may end.
SPECIFICATION FairSpec
CONSTANTS
    u1 = u1
    d1 = d1
    f1 = f1
    None = None
    Units <- OneUnit
    Known <- MCKnown
    Installed <- MCInstalled
    Releases = {}
    Dirs = {d1}
    Files = {f1}
    MaxJobs = 0
    Pids <- MCPids
    Clients <- OneClient
    Leavers = {}
    Bodies <- MCBodies
    Echoes = {}
    MaxEchoes = 0
    Unreadable = {1}
    AutostartLists <- MCAutostart
    Requests <- EndRequests
    MaxRequests = 2
    MaxRefusals = 0
INVARIANTS
    TypeOK
PROPERTIES
    RequestIsAnswered
    WaiterHears
    SweepEnds
\* The system is idle when the bounds are used up.
CHECK_DEADLOCK FALSE
