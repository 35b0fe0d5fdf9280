CONSTANTS
    main = main
    dev = dev
    c1 = c1
    c2 = c2
    c3 = c3
    Names = {main, dev}
    Commits = {c1, c2, c3}
    Absent = Absent
    Malformed = Malformed
    Pushers = {p1, p2}
    Maintainers = {m1, m2}
    Anc <- MCAnc
    StartRefs <- MCStart
    Wishes <- MCMalformed
    MaxRequests = 2
    MaxFaults = 1
SPECIFICATION FairSpec
CHECK_DEADLOCK FALSE
INVARIANTS TypeOK HistoryIsStored
PROPERTIES CommitsLostOnlyToStaleReads DefaultDeletedOnlyByStaleCheck ImplementsJournal ImplementsStore ChangesAreEmitted
