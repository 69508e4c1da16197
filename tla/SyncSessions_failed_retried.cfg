\* Failed operations and a worker that polls forever.
CONSTANTS
    o1 = o1
    o2 = o2
    Op = {o1, o2}
    Workers = {worker}
    Callers = {}
    Priorities <- MCNormal
    Bandwidths = {2000}
    BatchSize = 2
    MediumCap = 2
    SmallCap = 2
    TinyCap = 1
    MaxBoots = 0
SPECIFICATION FairSpec
PROPERTY FailedIsRetried
