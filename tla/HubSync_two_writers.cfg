\* Two edges write the same record; either may restart or fail while it pulls.
CONSTANTS
    Node = {0, 1, 2}
    HQ = 0
    Edge = {1, 2}
    Key = {k1}
    CollectionOf <- MCOneCollection
    Field = {"f", "g"}
    Value = {1, 2}
    Tolerance = 1
    Writers = {1, 2}
    WriteTypes = {"update"}
    Payloads <- MCOnePayload
    Times = {1, 3}
    Tiers <- MCNormal
    MaxWrites <- MCTwoAndOne
    BatchLimit = 2
    Cutoffs = {4}
    Faults = {"restart", "pull"}
SPECIFICATION Spec
INVARIANT TypeOK
INVARIANT AckedIsReflected
INVARIANT SettledAgreement
PROPERTY LiveRecordsOnlyMoveForward
