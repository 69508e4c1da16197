\* Two application threads write while one thread synchronises.
CONSTANTS
    Node = {1, 2}
    Self = 1
    Peer = 2
    Field = {"f"}
    Value = {1}
    Tolerance = 1
    Callers = {a, b}
    Syncers = {s}
    Nobody = nobody
    WriteTypes = {"update"}
    Payloads <- MCOnePayload
    Times = {1, 3}
    MaxWrites = 3
    MaxPeerWrites = 1
    MaxBoots = 1
SYMMETRY CallerSymmetry
SPECIFICATION Spec
INVARIANT TypeOK
INVARIANT DistinctClocks
INVARIANT StoredBeforeQueued
INVARIANT SettledAgreement
PROPERTY RowNeverGoesBack
