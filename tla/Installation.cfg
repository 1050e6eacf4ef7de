\* Two jobs, one of two units installed, one restart.
SPECIFICATION FairSpec
CONSTANTS
    u1 = u1
    u2 = u2
    d1 = d1
    d2 = d2
    f1 = f1
    f2 = f2
    None = None
    Units <- MCUnits
    Clients = {}
    Bodies <- MCBodies
    Dirs <- MCDirs
    Files <- MCFiles
    UnitFiles <- MCFiles
    Inventories <- MCInventories
    Repositories <- MCRepositories
    Requests <- MCRequests
    MaxJobs = 2
    MaxStarts = 1
    MaxWaiting = 1
INVARIANTS
    TypeOK
    UnitIsWhole
    FileAgrees
    CompletedIsThere
    ChosenAsAsked
    EulaOnlyIfAsked
PROPERTIES
    JobIsHeard
\* The system is idle when the bounds are used up.
CHECK_DEADLOCK FALSE
