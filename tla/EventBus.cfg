\* Two clients, two event types of one server, two events, two subscriptions.
SPECIFICATION FairSpec
CONSTANTS
    c1 = c1
    c2 = c2
    u1 = u1
    None = None
    Clients <- MCClients
    Units <- MCUnits
    Keys <- MCKeys
    Bodies <- MCBodies
    MaxSubscribes = 2
    MaxRemoves = 1
    Leavers <- MCLeavers
INVARIANTS
    TypeOK
    OnlyAskedFor
    InOrder
PROPERTIES
    ImplementsPubSub
    OwedIsHanded
    DispatchCompletes
\* The system is idle when every bounded action is used up.
CHECK_DEADLOCK FALSE
