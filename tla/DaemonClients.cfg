\* Two clients, one of which may leave or be refused, two commands, and a server
\* that is started at the start.
SPECIFICATION Spec
CONSTANTS
    u1 = u1
    d1 = d1
    f1 = f1
    None = None
    Units <- OneUnit
    Known <- MCKnown
    Installed <- MCInstalled
    Releases = {}
    Dirs = {d1}
    Files = {f1}
    MaxJobs = 0
    Pids <- MCPids
    Clients <- TwoClients
    Leavers <- TheSecond
    Bodies <- MCBodies
    Echoes = {}
    MaxEchoes = 0
    Unreadable = {}
    AutostartLists <- AtStart
    Requests <- EventRequests
    MaxRequests = 2
    MaxRefusals = 1
INVARIANTS
    RegisteredTargets
    AnsweredInOrder
    EventsFollowTheirOk
    ListsFollowEvents
\* The system is idle when the bounds are used up.
CHECK_DEADLOCK FALSE
