\* The smallest instance in which one client leaves and another stays.
SPECIFICATION Spec
CONSTANTS
    c1 = c1
    c2 = c2
    u1 = u1
    None = None
    Clients <- MCClients
    Units <- MCUnits
    Keys <- MCKeys
    Bodies <- MCBodies
    MaxSubscribes = 2
    MaxRemoves = 0
    Leavers <- MCLeavers
PROPERTIES
    RemovesOnlyThatClient
CHECK_DEADLOCK FALSE
