SPECIFICATION FairSpec
CONSTANTS
    Events = {1, 2}
    Workers = {w1, w2}
    BatchSize = 2
    MaxRetries = 2
    MaxFaults = 2
INVARIANTS RowsHold ProcessedWasHandled
PROPERTIES OutcomesAreFinal ImplementsAtLeastOnce EveryEventEnds
CHECK_DEADLOCK FALSE
