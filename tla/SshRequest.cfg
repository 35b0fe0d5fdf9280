CONSTANTS
    Requests <- MCRequests
    LineUnits = 2
    MagicUnits = 2
    ReadUnits = 4
    MaxUnits = 12
    Window = 2
SPECIFICATION FairSpec
CHECK_DEADLOCK FALSE
INVARIANTS TypeOK CutPushUsesNoPack SteadyPushTakesEffect FetchAnsweredWhole
PROPERTIES FlushedRequestEnds ShortFetchEnds
