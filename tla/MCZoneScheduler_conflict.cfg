CONSTANTS
    Zones = {z1}
    Schedulers = {s1}
    Plans = {"enterprise"}
    Intervals = {1}
    Never = Never
    StartTime = 1
    MaxTime = 3
SPECIFICATION FairSpec
PROPERTIES ConflictIsSafe
