CONSTANTS
    Zones = {z1}
    Runs = {1, 2}
    None = None
    Capacity = 1
    Batch = 2
SPECIFICATION FairSpec
CHECK_DEADLOCK FALSE
INVARIANTS TypeOK OneStream SessionDrained
PROPERTIES ZoneIsStreamed CancelledEnds
