\* A create that is repeated after the delete of its record.
CONSTANTS
    Node = {0, 1}
    HQ = 0
    Edge = {1}
    Key = {k1}
    CollectionOf <- MCOneCollection
    Field = {"f", "g"}
    Value = {1, 2}
    Tolerance = 1
    Writers = {1}
    WriteTypes = {"create", "delete"}
    Payloads <- MCOnePayload
    Times = {1}
    Tiers <- MCNormal
    MaxWrites <- MCTwoWrites
    BatchLimit = 1
    Cutoffs = {4}
    Faults = {"redelivery", "stragglers"}
SPECIFICATION Spec
INVARIANT RepeatIsIdempotent
