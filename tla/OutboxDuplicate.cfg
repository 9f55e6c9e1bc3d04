SPECIFICATION Spec
CONSTANTS
    Events = {1, 2}
    Workers = {w1, w2}
    BatchSize = 2
    MaxRetries = 2
    MaxFaults = 2
INVARIANTS NoDuplicateProcessing
CHECK_DEADLOCK FALSE
