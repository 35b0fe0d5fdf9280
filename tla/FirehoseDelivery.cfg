CONSTANTS
    e1 = e1
    e2 = e2
    r1 = r1
    r2 = r2
    refUpdate = refUpdate
    memberUpdate = memberUpdate
    Emitters = {e1, e2}
    Readers = {r1}
    Nsids = {refUpdate}
    Batch = 2
    MaxBatches = 1
    ChannelCap = 1
    NanosPerTid = 1
    ClockStepsBack = FALSE
    HandlersCancelled = TRUE
    MaxNanos = 1
    MaxEmits = 2
    MaxFaults = 1
SPECIFICATION FairSpec
CHECK_DEADLOCK FALSE
INVARIANTS TypeOK AtMostOnce Ascending EmitterOrder
PROPERTIES ImplementsLateLog NoWakeupIsLost OnlyLateInsertsAreMissed EveryRowSettles
