CONSTANTS
    Zones = {z1}
    Schedulers = {s1}
    Plans = {"enterprise", "business", "free_pro"}
    Intervals = {1}
    Never = Never
    StartTime = 1
    MaxTime = 3
SPECIFICATION FairSpec
INVARIANTS TypeOK NoGap NoOverlap ConflictNeedsLoss
PROPERTIES CursorNeverSkips CommitsWhatItOffered DueIsScheduled
