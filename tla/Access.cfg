CONSTANTS
    h1 = h1
    h2 = h2
    h3 = h3
    owner = owner
    admin = admin
    bob = bob
    nobody = nobody
    Handlers = {h1, h2, h3}
    Dids = {owner, admin, bob}
    Owner = owner
    Admin = admin
    Starts <- MCStarts
    Nobody = nobody
    Wishes <- MCWishes
    MaxBans = 1
    MaxFaults = 1
SPECIFICATION Spec
CHECK_DEADLOCK FALSE
INVARIANTS TypeOK
PROPERTIES NobodyBarredIsServed NobodyEntitledIsRefused
