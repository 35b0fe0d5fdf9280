CONSTANTS
    h1 = h1
    h2 = h2
    h3 = h3
    owner = owner
    bob = bob
    Handlers = {h1}
    Owner = owner
    Others = {bob}
    GoCollaborators = {bob}
    MayOverlap <- MCAll
    MaxRequests = 2
    MaxFaults = 1
SPECIFICATION Spec
CHECK_DEADLOCK FALSE
INVARIANTS RevocationLasts
