\* One job, asked for a build.
SPECIFICATION Spec
CONSTANTS
    u1 = u1
    u2 = u2
    d1 = d1
    d2 = d2
    f1 = f1
    f2 = f2
    None = None
    Units <- MCUnits
    Clients = {}
    Bodies <- MCBodies
    Dirs <- MCDirs
    Files <- MCFiles
    UnitFiles <- MCFiles
    Inventories <- MCInventories
    Repositories <- MCRepositories
    Requests <- BuildRequests
    MaxJobs = 1
    MaxStarts = 0
    MaxWaiting = 1
INVARIANT
    AskedBuildIsFound
\* The system is idle when the bounds are used up.
CHECK_DEADLOCK FALSE
