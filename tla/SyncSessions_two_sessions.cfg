\* The worker and an application thread in sync_now at the same time.
CONSTANTS
    o1 = o1
    o2 = o2
    Op = {o1, o2}
    Workers = {worker}
    Callers = {caller}
    Priorities <- MCNormal
    Bandwidths = {2000}
    BatchSize = 1
    MediumCap = 2
    SmallCap = 2
    TinyCap = 1
    MaxBoots = 0
SPECIFICATION Spec
PROPERTY SyncedIsFinal
