CONSTANTS
    r1 = r1
    r2 = r2
    r3 = r3
    w1 = w1
    w2 = w2
    primary = primary
    secondary = secondary
    Windows = {w1}
    APIOrder <- Single
    Rows <- Two
    ListLimit = 1
    t1 = t1
    t2 = t2
    t3 = t3
    Tasks = {t1}
    IntAsText = FALSE
    WindowOf <- Shared
    Providers <- OneProvider
    WorkerOrder <- Single
SPECIFICATION FairSpec
PROPERTIES OldIsExpired
