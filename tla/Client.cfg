\* One client with any subcommand.
SPECIFICATION ManFairSpec
CONSTANTS
    u1 = u1
    u2 = u2
    d1 = d1
    d2 = d2
    f1 = f1
    f2 = f2
    None = None
    Units <- MCUnits
    Known <- MCKnown
    Installed <- MCInstalled
    Releases <- MCReleases
    Dirs <- MCDirs
    Files <- MCFiles
    MaxJobs = 2
    Pids <- MCPids
    Clients <- MCClients
    Leavers = {}
    Bodies <- MCBodies
    Echoes = {}
    MaxEchoes = 0
    Unreadable = {1}
    AutostartLists <- MCAutostart
    Requests <- MCRequests
    MaxRequests = 2
    MaxRefusals = 0
    Scenarios <- MCScenarios
INVARIANTS
    ManTypeOK
    DoneIsThere
    PanicsOnlyIf
PROPERTIES
    ClientEnds
\* The system is idle when the bounds are used up.
CHECK_DEADLOCK FALSE
