---------------------- MODULE ConflictResolverProofs -------------------------
(***************************************************************************)
(* The lemmas the proofs of the other modules rest on.  For the clocks:    *)
(* merge is the least upper bound and compare the partial order it claims  *)
(* to be.  For one record: rows stay rows, and no operation, local or      *)
(* remote, takes a live row back in causality.                             *)
(***************************************************************************)
EXTENDS ConflictResolver, TLAPS, WellFoundedInduction

-----------------------------------------------------------------------------
(* Vector clocks.                                                          *)

\* The clock operations of src/vector_clock.py return clocks.
LEMMA ClockType ==
    /\ EmptyClock \in Clock
    /\ \A v \in Clock, n \in Node : Increment(v, n) \in Clock
    /\ \A v, w \in Clock : Merge(v, w) \in Clock
  BY DEF Clock, EmptyClock, Increment, Merge

\* Leq, which compare is built on, is a partial order.
LEMMA LeqOrder ==
    /\ \A v \in Clock : Leq(v, v)
    /\ \A u, v, w \in Clock : Leq(u, v) /\ Leq(v, w) => Leq(u, w)
    /\ \A v, w \in Clock : Leq(v, w) /\ Leq(w, v) => v = w
  <1>1. \A v \in Clock : Leq(v, v)
    BY DEF Clock, Leq
  <1>2. ASSUME NEW u \in Clock, NEW v \in Clock, NEW w \in Clock,
               Leq(u, v), Leq(v, w)
        PROVE  Leq(u, w)
    <2> SUFFICES ASSUME NEW n \in Node
                 PROVE  u[n] =< w[n]
      BY DEF Leq
    <2>1. u[n] =< v[n] /\ v[n] =< w[n]
      BY <1>2 DEF Leq
    <2>2. u[n] \in Nat /\ v[n] \in Nat /\ w[n] \in Nat
      BY DEF Clock
    <2> QED
      BY <2>1, <2>2
  <1>3. ASSUME NEW v \in Clock, NEW w \in Clock, Leq(v, w), Leq(w, v)
        PROVE  v = w
    <2>1. ASSUME NEW n \in Node
          PROVE  v[n] = w[n]
      <3>1. v[n] =< w[n] /\ w[n] =< v[n]
        BY <1>3 DEF Leq
      <3>2. v[n] \in Nat /\ w[n] \in Nat
        BY DEF Clock
      <3> QED
        BY <3>1, <3>2
    <2> QED
      BY <2>1 DEF Clock
  <1> QED
    BY <1>1, <1>2, <1>3

\* merge is the least upper bound of its arguments: it loses nothing either
\* clock has seen, and knows nothing neither has seen.
THEOREM MergeIsLeastUpperBound ==
    \A v, w \in Clock :
        /\ Leq(v, Merge(v, w))
        /\ Leq(w, Merge(v, w))
        /\ \A u \in Clock : Leq(v, u) /\ Leq(w, u) => Leq(Merge(v, w), u)
  BY DEF Clock, Leq, Merge

\* compare answers 'equal' for identical clocks only, which is what lets the
\* resolver discard such an operation as a duplicate, and the two directions
\* of a comparison agree.
THEOREM CompareIsExact ==
    \A v, w \in Clock :
        /\ Compare(v, w) = "equal" <=> v = w
        /\ Compare(v, w) = "before" <=> Leq(v, w) /\ v # w
        /\ Compare(v, w) = "after" <=> Compare(w, v) = "before"
        /\ Compare(v, w) = "concurrent" <=> Compare(w, v) = "concurrent"
  BY LeqOrder DEF Compare

\* The clock of a local write is after the clock of the row it was made on.
LEMMA IncrementIsAfter ==
    \A v \in Clock, n \in Node :
        /\ Compare(v, Increment(v, n)) = "before"
        /\ Compare(Increment(v, n), v) = "after"
  <1> SUFFICES ASSUME NEW v \in Clock, NEW n \in Node
               PROVE  /\ Leq(v, Increment(v, n))
                      /\ ~Leq(Increment(v, n), v)
    BY DEF Compare
  <1>1. Leq(v, Increment(v, n))
    BY DEF Clock, Increment, Leq
  <1>2. ~(Increment(v, n)[n] =< v[n])
    BY DEF Clock, Increment
  <1> QED
    BY <1>1, <1>2 DEF Leq

\* Two nodes that write on the same row are seen as concurrent.
LEMMA SiblingsAreConcurrent ==
    \A v \in Clock, m, n \in Node :
        m # n => Compare(Increment(v, m), Increment(v, n)) = "concurrent"
  <1> SUFFICES ASSUME NEW v \in Clock, NEW m \in Node, NEW n \in Node, m # n
               PROVE  /\ ~Leq(Increment(v, m), Increment(v, n))
                      /\ ~Leq(Increment(v, n), Increment(v, m))
    BY DEF Compare
  <1>1. ~(Increment(v, m)[m] =< Increment(v, n)[m])
    BY DEF Clock, Increment
  <1>2. ~(Increment(v, n)[n] =< Increment(v, m)[n])
    BY DEF Clock, Increment
  <1> QED
    BY <1>1, <1>2 DEF Leq

-----------------------------------------------------------------------------
(* Rows and operations.                                                    *)

LEMMA NoDataType == NoData \in Data
  <1>1. NoData \in [{} -> Value]
    BY DEF NoData
  <1> QED
    BY <1>1 DEF Data

LEMMA OverlayType ==
    ASSUME NEW old \in Data, NEW new \in Data
    PROVE  Overlay(old, new) \in Data
  <1>1. PICK F \in SUBSET Field : old \in [F -> Value]
    BY DEF Data
  <1>2. PICK G \in SUBSET Field : new \in [G -> Value]
    BY DEF Data
  <1>3. Overlay(old, new) \in [F \cup G -> Value]
    BY <1>1, <1>2 DEF Overlay
  <1> QED
    BY <1>3 DEF Data

LEMMA NoRecordIsNoRow == NoRecord \notin Record
  BY DEF NoRecord, Record

\* apply_operation turns a row or a missing row into a row.
LEMMA ApplyType ==
    ASSUME NEW rec \in Record \cup {NoRecord}, NEW op \in Operation
    PROVE  ApplyOperation(rec, op) \in Record
  <1>1. BaseData(rec) \in Data
    BY NoDataType DEF BaseData, Record
  <1>2. op.payload \in Data /\ op.type \in OpType
    BY DEF Operation
  <1>3. DataAfter(rec, op) \in Data
    BY <1>1, <1>2, OverlayType DEF DataAfter, OpType
  <1> QED
    BY <1>3 DEF ApplyOperation, Record, Operation

LEMMA IntegrateType ==
    ASSUME NEW rec \in Record \cup {NoRecord}, NEW op \in Operation
    PROVE  Integrate(rec, op) \in Record \cup {NoRecord}
  BY ApplyType DEF Integrate

LEMMA RecordClockType ==
    ASSUME NEW rec \in Record \cup {NoRecord}
    PROVE  RecordClock(rec) \in Clock
  BY ClockType DEF RecordClock, Record

LEMMA NewOperationType ==
    ASSUME NEW rec \in Record \cup {NoRecord}, NEW n \in Node,
           NEW type \in OpType, NEW payload \in Data, NEW ts \in Nat
    PROVE  NewOperation(rec, n, type, payload, ts) \in Operation
  <1>1. Increment(RecordClock(rec), n) \in Clock
    BY ClockType, RecordClockType
  <1> QED
    BY <1>1, NoDataType DEF NewOperation, Operation

\* What two rows at different times say about the progress of a record.
MovesForward(old, new) ==
    Compare(new.vc, old.vc) \in {"after", "concurrent"}

\* A local write (LocalStore and the methods of the engine) yields a row that
\* is causally after the one it replaces, tombstones included.
LEMMA LocalWriteMovesForward ==
    ASSUME NEW rec \in Record, NEW n \in Node,
           NEW type \in OpType, NEW payload \in Data, NEW ts \in Nat
    PROVE  MovesForward(rec, ApplyOperation(rec,
                                NewOperation(rec, n, type, payload, ts)))
  <1>1. rec.vc \in Clock /\ RecordClock(rec) = rec.vc
    BY NoRecordIsNoRow DEF Record, RecordClock
  <1>2. Compare(Increment(rec.vc, n), rec.vc) = "after"
    BY <1>1, IncrementIsAfter
  <1> QED
    BY <1>1, <1>2 DEF MovesForward, ApplyOperation, NewOperation

\* A remote operation leaves a live row as it is or replaces it by a row that
\* is not causally before it ("before" and "concurrent" in resolve).
THEOREM IntegrateMovesForward ==
    ASSUME NEW rec \in Record, ~rec.deleted, NEW op \in Operation
    PROVE  \/ Integrate(rec, op) = rec
           \/ MovesForward(rec, Integrate(rec, op))
  <1>1. Comparison(rec, op) = Compare(rec.vc, op.vc)
    BY NoRecordIsNoRow DEF Comparison
  <1>2. rec.vc \in Clock /\ op.vc \in Clock
    BY DEF Record, Operation
  <1>3. CASE Accepts(rec, op)
    <2>1. Compare(rec.vc, op.vc) \in {"before", "concurrent"}
      BY <1>1, <1>3 DEF Accepts, Compare
    <2>2. Compare(op.vc, rec.vc) \in {"after", "concurrent"}
      BY <1>2, <2>1, CompareIsExact
    <2>3. Integrate(rec, op) = ApplyOperation(rec, op)
      BY <1>3 DEF Integrate, Resolve
    <2> QED
      BY <2>2, <2>3 DEF MovesForward, ApplyOperation
  <1>4. CASE ~Accepts(rec, op)
    BY <1>4 DEF Integrate, Resolve
  <1> QED
    BY <1>3, <1>4

-----------------------------------------------------------------------------
(* Induction over a sequence of integrations, by the set of the steps that *)
(* have what is to be shown.                                               *)

Less == {p \in Nat \X Nat : p[1] < p[2]}

LEMMA LessIsWellFounded == IsWellFoundedOn(Less, Nat)
  <1>1. Less = OpToRel(<, Nat)
    BY DEF Less, OpToRel
  <1> QED
    BY <1>1, NatLessThanWellFounded

\* A set of numbers that holds 0 and the successor of each of its elements
\* below last holds all numbers up to last.
LEMMA CountUp ==
    ASSUME NEW last \in Nat, NEW T, 0 \in T,
           \A n \in 0 .. last : n \in T /\ n < last => n + 1 \in T
    PROVE  \A n \in 0 .. last : n \in T
  <1> DEFINE missing == {n \in 0 .. last : n \notin T}
  <1> SUFFICES ASSUME missing # {}
               PROVE  FALSE
    OBVIOUS
  <1>1. missing \subseteq Nat
    OBVIOUS
  <1>2. PICK m \in missing : \A n \in missing : <<n, m>> \notin Less
    <2> HIDE DEF missing
    <2> QED
      BY <1>1, LessIsWellFounded, WFMin
  <1>3. m \in 0 .. last /\ m # 0 /\ m - 1 \in 0 .. last /\ m - 1 < m
    OBVIOUS
  <1>4. <<m - 1, m>> \in Less
    BY <1>3 DEF Less
  <1>5. m - 1 \in T
    BY <1>2, <1>3, <1>4
  <1>6. (m - 1) + 1 \in T
    BY <1>3, <1>5
  <1> QED
    BY <1>3, <1>6

=============================================================================
