\* A chat line that holds the phrase of a server without an accepted eula.
SPECIFICATION Spec
CONSTANTS
    u1 = u1
    u2 = u2
    None = None
    Units <- MCUnits
    Known <- MCKnown
    Pids <- MCPids
    Clients = {}
    Bodies <- MCBodies
    Echoes = {"Eula"}
    MaxEchoes = 1
    Unreadable = {}
    AutostartLists <- MCAutostart
    MaxCommands = 2
PROPERTIES
    ErroredIsFinal
\* The system is idle when the bounds are used up.
CHECK_DEADLOCK FALSE
