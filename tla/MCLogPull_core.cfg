CONSTANTS
    t1 = t1
    t2 = t2
    t3 = t3
    z1 = z1
    Tasks <- Two
    ZoneOf <- SameZone
    Kind <- BothKinds
    TooLong = {}
    Contents = {d1}
    Nothing = Nothing
    Genesis = Genesis
    Blank = Blank
    Quotas <- LimitOrNone
    Concurrency = 2
    MaxRetry = 1
SPECIFICATION FairSpec
INVARIANTS TypeOK ChainWellFounded DoneIsStored AckedIsArchived QuotaOvershoot RowsAreCounted ForkNeedsOverlap
PROPERTIES TaskEnds IsWrittenOnce
