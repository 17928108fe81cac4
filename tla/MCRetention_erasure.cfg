CONSTANTS
    r1 = r1
    r2 = r2
    r3 = r3
    w1 = w1
    w2 = w2
    primary = primary
    secondary = secondary
    Windows = {w1, w2}
    APIOrder <- Single
    Rows <- Two
    ListLimit = 2
    t1 = t1
    t2 = t2
    t3 = t3
    Tasks = {t1}
    IntAsText = FALSE
    WindowOf <- Distinct
    Providers <- TwoProviders
    WorkerOrder <- Failover
SPECIFICATION Spec
INVARIANTS ErasureErases
