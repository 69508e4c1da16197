\* Two edges, every order and redelivery, full-record writes.
CONSTANTS
    Node = {0, 1, 2}
    Writers = {1, 2}
    Field <- MCFields
    Value = {0, 1, 2}
    Tolerance = 1
    WriteTypes = {"create", "update"}
    Payloads <- MCPayloads
    Times = {1, 2, 3}
    BaseRecords <- MCBases
SPECIFICATION Spec
INVARIANT TypeOK
INVARIANT UndominatedWriteStands
INVARIANT SameResultInEveryOrder
