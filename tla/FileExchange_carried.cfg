\* Two edges, one of them with a single directory, and an HQ that admits
\* registered nodes.
CONSTANTS
    e = e
    f = f
    o1 = o1
    o2 = o2
    Edge = {e, f}
    HQ = hq
    Shared = {f}
    Op = {o1, o2}
    Owner <- MCOwner
    Known = {e}
    Required = TRUE
    MaxSyncs = 2
    MaxCopies = 2
    MaxCrashes = 1
SPECIFICATION FairSpec
INVARIANT TypeOK
INVARIANT CountsCoverSettled
INVARIANT OnlyAdmitted
PROPERTY DeliverySpec
PROPERTY RegistryKeeps
PROPERTY TornNeverBlocks
