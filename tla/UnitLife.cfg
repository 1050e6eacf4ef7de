\* Two processes, one known unit, one more that may be added, two commands, and
\* one line that repeats the phrase of a server that has come up.
SPECIFICATION FairSpec
CONSTANTS
    u1 = u1
    u2 = u2
    None = None
    Units <- MCUnits
    Known <- MCKnown
    Pids <- MCPids
    Clients = {}
    Bodies <- MCBodies
    Echoes = {"Done"}
    MaxEchoes = 1
    Unreadable = {}
    AutostartLists <- MCAutostart
    MaxCommands = 2
INVARIANTS
    TypeOK
    NoOrphan
    StatusNotAhead
    EventImpliesStatus
    SweptAreGone
PROPERTIES
    SweepEnds
\* The system is idle when the bounds are used up.
CHECK_DEADLOCK FALSE
