CONSTANTS
    main = main
    dev = dev
    c1 = c1
    c2 = c2
    c3 = c3
    Names = {main, dev}
    Commits = {c1, c2, c3}
    Absent = Absent
    Malformed = Malformed
    Pushers = {p1}
    Maintainers = {m1}
    Anc <- MCAnc
    StartRefs <- MCStart
    Wishes <- MCWishes
    MaxRequests = 2
    MaxFaults = 0
SPECIFICATION Spec
CHECK_DEADLOCK FALSE
PROPERTIES FastForwardsOnly
