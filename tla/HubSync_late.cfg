\* Answers and retried requests that outlive their session; restarts and crashes.
CONSTANTS
    Node = {0, 1}
    HQ = 0
    Edge = {1}
    Key = {k1}
    CollectionOf <- MCOneCollection
    Field = {"f", "g"}
    Value = {1, 2}
    Tolerance = 1
    Writers = {1}
    WriteTypes = {"update", "delete"}
    Payloads <- MCOnePayload
    Times = {1}
    Tiers <- MCUrgentToo
    MaxWrites <- MCTwoWrites
    BatchLimit = 2
    Cutoffs = {4}
    Faults = {"restart", "redelivery", "late"}
SPECIFICATION Spec
INVARIANT AckedIsReflected
PROPERTY LiveRecordsOnlyMoveForward
