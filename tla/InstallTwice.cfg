\* Two jobs that install a unit of one name.
SPECIFICATION Spec
CONSTANTS
    u1 = u1
    u2 = u2
    d1 = d1
    d2 = d2
    f1 = f1
    f2 = f2
    None = None
    Units <- MCUnits
    Clients = {}
    Bodies <- MCBodies
    Dirs <- MCDirs
    Files <- MCFiles
    UnitFiles <- MCFiles
    Inventories <- NoInventory
    Repositories <- OnlyPatched
    Requests <- SameName
    MaxJobs = 2
    MaxStarts = 0
    MaxWaiting = 1
INVARIANTS
    NameIsTakenOnce
\* The system is idle when the bounds are used up.
CHECK_DEADLOCK FALSE
