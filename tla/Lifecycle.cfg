CONSTANTS
    h1 = h1
    h2 = h2
    h3 = h3
    owner = owner
    bob = bob
    Handlers = {h1, h2, h3}
    Owner = owner
    Others = {bob}
    GoCollaborators = {}
    MayOverlap <- MCOverlap
    MaxRequests = 7
    MaxFaults = 2
SPECIFICATION Spec
CHECK_DEADLOCK FALSE
INVARIANTS TypeOK ContentIsGoverned DiskAndRowsAgree InitialVisibilityHolds
PROPERTIES FreshRepoIsClean
