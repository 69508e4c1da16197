\* Two records and a reader that has only one of them.
CONSTANTS
    Node = {0, 1, 2}
    HQ = 0
    Edge = {1, 2}
    Key = {k1, k2}
    CollectionOf <- MCOneCollection
    Field = {"f", "g"}
    Value = {1, 2}
    Tolerance = 1
    Writers = {1}
    WriteTypes = {"update"}
    Payloads <- MCOnePayload
    Times = {1}
    Tiers <- MCNormal
    MaxWrites <- MCTwoWrites
    BatchLimit = 2
    Cutoffs = {4}
    Faults = {}
SPECIFICATION Spec
INVARIANT SettledAgreement
