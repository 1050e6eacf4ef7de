\* Two processes, one known unit, one more that may be added, two commands.
SPECIFICATION Spec
CONSTANTS
    u1 = u1
    u2 = u2
    None = None
    Units <- MCUnits
    Known <- MCKnown
    Pids <- MCPids
    Clients = {}
    Bodies <- MCBodies
    Echoes = {}
    MaxEchoes = 0
    Unreadable = {}
    AutostartLists <- MCAutostart
    MaxCommands = 2
INVARIANTS
    StopsGracefully
\* The system is idle when the bounds are used up.
CHECK_DEADLOCK FALSE
