CONSTANTS
    Zones = {z1}
    Runs = {1, 2}
    None = None
    Capacity = 1
    Batch = 2
SPECIFICATION Spec
CHECK_DEADLOCK FALSE
INVARIANTS ShutdownLosesNothing
