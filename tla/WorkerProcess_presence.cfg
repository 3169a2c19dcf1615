SPECIFICATION WorkerSpec
CONSTANTS
    Slots = {s1}
    MaxBatches = 1
PROPERTY PresenceProgresses
CHECK_DEADLOCK FALSE
