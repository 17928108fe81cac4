CONSTANTS
    Keys = {k1, k2}
    Requests = {q1, q2}
    Limiters = {l1, l2, l3}
    Burst = 2
    TTL = 2
    Stall = 1
    Metered = k1
    MaxCredit = 3
    None = None
    c1 = c1
    c2 = c2
    a1 = a1
    a2 = a2
    b1 = b1
    interval = interval
    active = active
    new = new
    Customers = {c1, c2}
    APIKeys = {a1, a2, b1}
    Owner <- Owners
    Issued = {a1, b1}
    Zoned = {c2}
    Nothing = Nothing
    Fields = {interval, active}
    Values = {old, new}
    Default = old
    Patches <- EachField
    Slots = {s1, s2}
    MaxSent <- AFew
SPECIFICATION MCSpec
INVARIANTS TypeOK RateBound DeadKeyIsRefused ErasedIsSilent AuditIsTrue ChangesAreTraced
PROPERTIES NeverForgets IdleIsDropped PatchKeepsOthers TenantsApart
