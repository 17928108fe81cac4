CONSTANTS
    t1 = t1
    t2 = t2
    t3 = t3
    z1 = z1
    Tasks <- Two
    ZoneOf <- SameZone
    Kind <- AllPull
    TooLong = {}
    Contents = {d1}
    Nothing = Nothing
    Genesis = Genesis
    Blank = Blank
    Quotas <- Unlimited
    Concurrency = 1
    MaxRetry = 0
SPECIFICATION FairSpec
PROPERTIES VerifyStamps
