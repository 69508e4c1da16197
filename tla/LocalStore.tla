----------------------------- MODULE LocalStore ------------------------------
(***************************************************************************)
(* One row of the "records" table and what LocalStore.apply_operation of   *)
(* src/store.py does to it.  The data of a record is a partial function    *)
(* from field names to values.  The version counter, which no decision of  *)
(* the program reads, is left out.                                         *)
(***************************************************************************)
EXTENDS VectorClock

CONSTANTS Field, Value

OpType == {"create", "update", "merge", "delete"}

Data == UNION {[F -> Value] : F \in SUBSET Field}

NoData == [f \in {} |-> {}]

Operation ==
    [type : OpType, node : Node, payload : Data, ts : Nat, vc : Clock]

Record ==
    [data : Data, vc : Clock, ts : Nat, by : Node, deleted : BOOLEAN]

\* What a lookup of a key without a row answers: None.
NoRecord == [absent |-> TRUE]

\* dict.update: the fields of the payload replace those of the base.
Overlay(base, payload) ==
    [f \in DOMAIN base \cup DOMAIN payload |->
        IF f \in DOMAIN payload THEN payload[f] ELSE base[f]]

BaseData(rec) == IF rec = NoRecord THEN NoData ELSE rec.data

DataAfter(rec, op) ==
    CASE op.type \in {"create", "update"} -> op.payload
      [] op.type = "merge"  -> Overlay(BaseData(rec), op.payload)
      [] op.type = "delete" -> BaseData(rec)

\* The clock of a row, tombstones included.
RecordClock(rec) == IF rec = NoRecord THEN EmptyClock ELSE rec.vc

\* Mutant: the clock is not started from a copy of the one of the row.
NewOperation_OwnEntry(rec, n, type, payload, ts) ==
    [type    |-> type,
     node    |-> n,
     payload |-> payload,
     ts      |-> ts,
     vc      |-> [m \in {n} |-> RecordClock(rec)[n] + 1]]

\* The operation that a local create, update, merge or delete of node n builds
\* from the row it finds.
NewOperation(rec, n, type, payload, ts) ==
    [type    |-> type,
     node    |-> n,
     payload |-> IF type = "delete" THEN NoData ELSE payload,
     ts      |-> ts,
     vc      |-> Increment(RecordClock(rec), n)]

\* The row after the operation: its clock is the clock of the operation, the
\* clock the row had before is forgotten.
ApplyOperation(rec, op) ==
    [data    |-> DataAfter(rec, op),
     vc      |-> op.vc,
     ts      |-> op.ts,
     by      |-> op.node,
     deleted |-> op.type = "delete"]

=============================================================================
