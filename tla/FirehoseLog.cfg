CONSTANTS
    e1 = e1
    e2 = e2
    r1 = r1
    r2 = r2
    refUpdate = refUpdate
    memberUpdate = memberUpdate
    Emitters = {e1}
    Readers = {r1}
    Nsids = {refUpdate, memberUpdate}
    Batch = 1
    MaxBatches = 2
    ChannelCap = 1
    NanosPerTid = 1
    ClockStepsBack = FALSE
    HandlersCancelled = FALSE
    MaxNanos = 1
    MaxEmits = 3
    MaxFaults = 2
SPECIFICATION FairSpec
CHECK_DEADLOCK FALSE
PROPERTY ImplementsLog
