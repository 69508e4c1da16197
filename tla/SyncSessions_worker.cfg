\* The background worker alone, at the bandwidth where the two thresholds meet.
CONSTANTS
    o1 = o1
    o2 = o2
    Op = {o1, o2}
    Workers = {worker}
    Callers = {}
    Priorities <- MCUrgentAndAny
    Bandwidths = {16}
    BatchSize = 2
    MediumCap = 2
    SmallCap = 2
    TinyCap = 1
    MaxBoots = 1
SPECIFICATION FairSpec
INVARIANT TypeOK
INVARIANT SyncedWasProcessed
INVARIANT NothingVanishes
INVARIANT SyncingMeansSession
INVARIANT BatchIsStable
PROPERTY SyncedIsFinal
PROPERTY DeliverySpec
PROPERTY LockReleased
PROPERTY UrgentLeaves
