\* Three edges and the tolerance of one second.
CONSTANTS
    Node = {0, 1, 2, 3}
    Writers = {1, 2, 3}
    Field <- MCFields
    Value = {0, 1, 2}
    Tolerance = 1
    WriteTypes = {"update"}
    Payloads <- MCOnePayload
    Times = {1, 2, 3}
    BaseRecords <- MCLiveBase
SPECIFICATION Spec
INVARIANT SameResultInEveryOrder
