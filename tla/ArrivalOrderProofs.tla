------------------------- MODULE ArrivalOrderProofs --------------------------
(***************************************************************************)
(* For which deployments the outcome of concurrent writes at the HQ does   *)
(* not depend on the order in which they arrive: whenever at most two      *)
(* edges write, and for any number of edges when the clock skew tolerance  *)
(* is zero.  (With three edges and a tolerance it does depend on it: TLC   *)
(* shows a counterexample.)                                                *)
(***************************************************************************)
EXTENDS ArrivalOrder, ConflictResolverProofs, FiniteSetTheorems

\* Every write replaces the whole record: no merge, no delete.
FullRecordWrites == WriteTypes \subseteq {"create", "update"}

AtMostTwoWriters ==
    \A u, v, w \in Writers : u = v \/ v = w \/ u = w

-----------------------------------------------------------------------------
(* Type correctness, for every value of the constants.                     *)

LEMMA NoWriteIsNoOperation == NoWrite \notin Operation
  BY DEF NoWrite, Operation

\* The variables of ArrivalOrder keep their types.
THEOREM TypeCorrect == Spec => []TypeOK
  <1>1. Init => TypeOK
    BY ArrivalAssumption DEF Init, TypeOK
  <1>2. TypeOK /\ [Next]_vars => TypeOK'
    <2> SUFFICES ASSUME TypeOK, [Next]_vars
                 PROVE  TypeOK'
      OBVIOUS
    <2>1. ASSUME NEW w \in Writers, Write(w)
          PROVE  TypeOK'
      <3>1. PICK type \in WriteTypes, payload \in Payloads, ts \in Times :
               writes' = [writes EXCEPT ![w] =
                             NewOperation(base, w, type, payload, ts)]
        BY <2>1 DEF Write
      <3>2. NewOperation(base, w, type, payload, ts) \in Operation
        BY NewOperationType, ArrivalAssumption DEF TypeOK
      <3> QED
        BY <2>1, <3>1, <3>2 DEF TypeOK, Write
    <2>2. ASSUME NEW w \in Writers, Arrive(w)
          PROVE  TypeOK'
      <3>1. writes[w] \in Operation
        BY <2>2 DEF TypeOK, Arrive
      <3> QED
        BY <2>2, <3>1, IntegrateType DEF TypeOK, Arrive
    <2>3. CASE UNCHANGED vars
      BY <2>3 DEF vars, TypeOK
    <2> QED
      BY <2>1, <2>2, <2>3 DEF Next
  <1> QED
    BY <1>1, <1>2, PTL DEF Spec

-----------------------------------------------------------------------------
(* The documented order of concurrent writes.                              *)

\* The writer whose operation the row at the HQ holds.
Holder(w) == hq = ApplyOperation(base, writes[w])

\* Every queued operation is a full-record write on the base version.
WritesAreSiblings ==
    \A w \in Writers :
        writes[w] # NoWrite =>
            /\ writes[w].type \in {"create", "update"}
            /\ writes[w].node = w
            /\ writes[w].ts \in Nat
            /\ writes[w].vc = Increment(RecordClock(base), w)

\* The inductive invariant: what UndominatedWriteStands says of all the
\* writers holds at any time of those whose write has arrived.
HolderIsUndominated ==
    /\ \A w \in arrived : writes[w] # NoWrite
    /\ arrived = {} => hq = base
    /\ arrived # {} => \E w \in arrived : Holder(w) /\ Undominated(w, arrived)

Inv == TypeOK /\ WritesAreSiblings /\ HolderIsUndominated

\* Of two concurrent writes exactly one beats the other.
LEMMA BeatsIsTotal ==
    ASSUME TypeOK, WritesAreSiblings,
           NEW v \in Writers, NEW w \in Writers, v # w,
           writes[v] # NoWrite, writes[w] # NoWrite
    PROVE  Beats(writes[v], writes[w]) <=> ~Beats(writes[w], writes[v])
  BY ArrivalAssumption, ResolverAssumption DEF WritesAreSiblings, Beats

\* Without a tolerance the order of concurrent writes is transitive.
LEMMA BeatsIsTransitive ==
    ASSUME Tolerance = 0, WritesAreSiblings,
           NEW u \in Writers, NEW v \in Writers, NEW w \in Writers,
           writes[u] # NoWrite, writes[v] # NoWrite, writes[w] # NoWrite,
           Beats(writes[u], writes[v]), Beats(writes[v], writes[w])
    PROVE  Beats(writes[u], writes[w])
  BY ArrivalAssumption, ResolverAssumption DEF WritesAreSiblings, Beats

\* The first write to arrive at the HQ is applied on the base version.
LEMMA FirstArrivalApplies ==
    ASSUME TypeOK, WritesAreSiblings,
           NEW w \in Writers, writes[w] # NoWrite
    PROVE  Integrate(base, writes[w]) = ApplyOperation(base, writes[w])
  <1>1. base = NoRecord \/ base \in Record
    BY ArrivalAssumption DEF TypeOK
  <1>2. writes[w].type \in {"create", "update"}
    BY DEF WritesAreSiblings
  <1>3. CASE Comparison(base, writes[w]) = "non_existent"
    BY <1>2, <1>3 DEF Integrate, Resolve, Accepts
  <1>4. CASE Comparison(base, writes[w]) # "non_existent"
    <2>1. base \in Record
      BY <1>1, <1>4 DEF Comparison
    <2>2. base # NoRecord /\ base.vc \in Clock
      BY <2>1, NoRecordIsNoRow DEF Record
    <2>3. writes[w].vc = Increment(base.vc, w)
      BY <2>2 DEF WritesAreSiblings, RecordClock
    <2>4. Comparison(base, writes[w]) = "before"
      BY <1>4, <2>2, <2>3, IncrementIsAfter, ArrivalAssumption DEF Comparison
    <2> QED
      BY <1>2, <2>4 DEF Integrate, Resolve, Accepts
  <1> QED
    BY <1>3, <1>4

\* A write that arrives at a row another write is held in replaces it exactly
\* when it beats it.
LEMMA ArrivalDecides ==
    ASSUME TypeOK, WritesAreSiblings,
           NEW v \in Writers, NEW w \in Writers, v # w,
           writes[v] # NoWrite, writes[w] # NoWrite,
           NEW row, row = ApplyOperation(base, writes[w])
    PROVE  Integrate(row, writes[v]) =
              IF Beats(writes[v], writes[w])
              THEN ApplyOperation(base, writes[v])
              ELSE row
  <1> DEFINE a == writes[v]
             b == writes[w]
  <1>1. /\ a \in Operation /\ b \in Operation
        /\ a.node = v /\ b.node = w /\ a.ts \in Nat /\ b.ts \in Nat
        /\ a.type \in {"create", "update"} /\ b.type \in {"create", "update"}
    BY DEF TypeOK, WritesAreSiblings
  <1>2. /\ row.vc = b.vc /\ row.ts = b.ts /\ row.by = w /\ row.deleted = FALSE
    BY <1>1 DEF ApplyOperation
  <1>3. row # NoRecord
    <2>1. row \in Record
      BY <1>1, ApplyType, ArrivalAssumption DEF TypeOK
    <2> QED
      BY <2>1, NoRecordIsNoRow
  <1>4. Comparison(row, a) = "concurrent"
    <2>1. RecordClock(base) \in Clock
      BY RecordClockType, ArrivalAssumption DEF TypeOK
    <2>2. /\ a.vc = Increment(RecordClock(base), v)
          /\ b.vc = Increment(RecordClock(base), w)
      BY DEF WritesAreSiblings
    <2> QED
      BY <1>2, <1>3, <2>1, <2>2, SiblingsAreConcurrent, ArrivalAssumption
      DEF Comparison
  <1>5. RemoteWins(row, a) <=> Beats(a, b)
    <2>1. v \in Nat /\ w \in Nat /\ Tolerance \in Nat
      BY ArrivalAssumption, ResolverAssumption
    <2> HIDE DEF a, b
    <2> QED
      BY <1>1, <1>2, <2>1 DEF RemoteWins, Beats
  <1>6. Integrate(row, a) = IF RemoteWins(row, a) THEN ApplyOperation(row, a) ELSE row
    BY <1>1, <1>4 DEF Integrate, Resolve, Accepts
  <1>7. ApplyOperation(row, a) = ApplyOperation(base, a)
    BY <1>1 DEF ApplyOperation, DataAfter
  <1> QED
    BY <1>5, <1>6, <1>7

-----------------------------------------------------------------------------
(* The invariant is inductive.                                             *)

LEMMA InitEstablishesInv == Init => Inv
  BY ArrivalAssumption
  DEF Init, Inv, TypeOK, WritesAreSiblings, HolderIsUndominated

\* A further offline write keeps the invariant.
LEMMA WriteKeepsInv ==
    ASSUME FullRecordWrites, Inv, TypeOK', NEW w \in Writers, Write(w)
    PROVE  Inv'
  <1>1. PICK type \in WriteTypes, payload \in Payloads, ts \in Times :
           writes' = [writes EXCEPT ![w] =
                         NewOperation(base, w, type, payload, ts)]
    BY DEF Write
  <1>2. writes[w] = NoWrite /\ UNCHANGED <<base, hq, arrived>>
    BY DEF Write
  <1>3. \A v \in Writers \ {w} : writes'[v] = writes[v]
    BY <1>1 DEF Inv, TypeOK
  <1>4. w \notin arrived
    BY <1>2 DEF Inv, HolderIsUndominated
  <1>5. WritesAreSiblings'
    <2>1. writes'[w] = NewOperation(base, w, type, payload, ts)
      BY <1>1 DEF Inv, TypeOK
    <2>2. type \in {"create", "update"} /\ ts \in Nat
      BY ArrivalAssumption DEF FullRecordWrites
    <2> QED
      BY <1>2, <1>3, <2>1, <2>2 DEF WritesAreSiblings, NewOperation, Inv
  <1>6. HolderIsUndominated'
    <2>1. arrived \subseteq Writers \ {w}
      BY <1>4 DEF Inv, TypeOK
    <2>2. \A v \in arrived : writes'[v] = writes[v]
      BY <1>3, <2>1
    <2> QED
      BY <1>2, <2>2 DEF Inv, HolderIsUndominated, Holder, Undominated
  <1> QED
    BY <1>5, <1>6 DEF Inv

\* A write that beats the one the HQ holds beats all that arrived before.
LEMMA WinnerBeatsAll ==
    ASSUME AtMostTwoWriters \/ Tolerance = 0, WritesAreSiblings,
           NEW W \in SUBSET Writers, \A u \in W : writes[u] # NoWrite,
           NEW v \in Writers, NEW w \in W, v # w, writes[v] # NoWrite,
           Undominated(w, W), Beats(writes[v], writes[w])
    PROVE  Undominated(v, W \cup {v})
  <1> SUFFICES ASSUME NEW u \in W, u # v
               PROVE  Beats(writes[v], writes[u])
    BY DEF Undominated
  <1>1. CASE u = w
    BY <1>1
  <1>2. CASE u # w
    <2>1. Tolerance = 0
      BY <1>2 DEF AtMostTwoWriters
    <2>2. Beats(writes[w], writes[u])
      BY <1>2 DEF Undominated
    <2> QED
      BY <2>1, <2>2, BeatsIsTransitive
  <1> QED
    BY <1>1, <1>2

\* A delivery, first or repeated, keeps the invariant.
LEMMA ArriveKeepsInv ==
    ASSUME AtMostTwoWriters \/ Tolerance = 0, Inv, TypeOK',
           NEW v \in Writers, Arrive(v)
    PROVE  Inv'
  <1> USE DEF Inv
  <1>1. /\ writes[v] # NoWrite
        /\ hq' = Integrate(hq, writes[v])
        /\ arrived' = arrived \cup {v}
        /\ base' = base /\ writes' = writes
    BY DEF Arrive
  <1>2. WritesAreSiblings'
    BY <1>1 DEF WritesAreSiblings
  <1>3. \A u \in arrived' : writes'[u] # NoWrite
    BY <1>1 DEF HolderIsUndominated
  <1>4. ASSUME NEW u \in arrived', hq' = ApplyOperation(base, writes[u]),
               Undominated(u, arrived \cup {v})
        PROVE  HolderIsUndominated'
    BY <1>1, <1>3, <1>4 DEF HolderIsUndominated, Holder, Undominated
  <1>5. CASE arrived = {}
    <2>1. hq = base
      BY <1>5 DEF HolderIsUndominated
    <2>2. hq' = ApplyOperation(base, writes[v])
      BY <1>1, <2>1, FirstArrivalApplies
    <2>3. Undominated(v, arrived \cup {v})
      BY <1>5 DEF Undominated
    <2> QED
      BY <1>1, <1>2, <1>4, <2>2, <2>3
  <1>6. CASE arrived # {}
    <2>1. PICK w \in arrived : Holder(w) /\ Undominated(w, arrived)
      BY <1>6 DEF HolderIsUndominated
    <2>2. w \in Writers /\ writes[w] # NoWrite /\ w \in arrived'
      BY <1>1 DEF TypeOK, HolderIsUndominated
    <2>3. CASE v = w
      <3>1. arrived \cup {v} = arrived
        BY <2>3
      <3>2. Integrate(hq, writes[w]) = hq
        <4>1. writes[w] \in Operation
          BY <2>2 DEF TypeOK
        <4>2. hq \in Record /\ hq.vc = writes[w].vc /\ writes[w].vc \in Clock
          BY <2>1, <4>1, ApplyType, ArrivalAssumption
          DEF TypeOK, Holder, ApplyOperation, Operation
        <4>3. hq.deleted = FALSE
          BY <2>1, <2>2 DEF Holder, ApplyOperation, WritesAreSiblings
        <4>4. Comparison(hq, writes[w]) = "equal"
          BY <4>2, <4>3, NoRecordIsNoRow, CompareIsExact DEF Comparison
        <4> QED
          BY <4>4 DEF Integrate, Resolve, Accepts
      <3> QED
        BY <1>1, <1>2, <1>4, <2>1, <2>2, <2>3, <3>1, <3>2 DEF Holder
    <2>4. CASE v # w /\ Beats(writes[v], writes[w])
      <3>1. hq' = ApplyOperation(base, writes[v])
        BY <1>1, <2>1, <2>2, <2>4, ArrivalDecides DEF Holder
      <3>2. Undominated(v, arrived \cup {v})
        BY <1>1, <2>1, <2>2, <2>4, WinnerBeatsAll DEF TypeOK, HolderIsUndominated
      <3> QED
        BY <1>1, <1>2, <1>4, <3>1, <3>2
    <2>5. CASE v # w /\ ~Beats(writes[v], writes[w])
      <3>1. hq' = hq
        BY <1>1, <2>1, <2>2, <2>5, ArrivalDecides DEF Holder
      <3>2. Beats(writes[w], writes[v])
        BY <1>1, <2>2, <2>5, BeatsIsTotal
      <3>3. Undominated(w, arrived \cup {v})
        BY <2>1, <3>2 DEF Undominated
      <3> QED
        BY <1>2, <1>4, <2>1, <2>2, <3>1, <3>3 DEF Holder
    <2> QED
      BY <2>3, <2>4, <2>5
  <1> QED
    BY <1>2, <1>5, <1>6

THEOREM InvHolds ==
    ASSUME FullRecordWrites, AtMostTwoWriters \/ Tolerance = 0
    PROVE  Spec => []Inv
  <1>1. Inv /\ TypeOK' /\ [Next]_vars => Inv'
    <2>1. ASSUME Inv, UNCHANGED vars
          PROVE  Inv'
      BY <2>1 DEF vars, Inv, TypeOK, WritesAreSiblings, HolderIsUndominated,
                  Holder, Undominated
    <2> QED
      BY <2>1, WriteKeepsInv, ArriveKeepsInv DEF Next
  <1> QED
    BY <1>1, InitEstablishesInv, TypeCorrect, PTL DEF Spec

\* With at most two offline writers, or without a clock skew tolerance, the HQ
\* ends with the write that beats all others, in whatever order and however
\* often the pushes arrive.
THEOREM ConcurrentWritesAreOrdered ==
    ASSUME FullRecordWrites, AtMostTwoWriters \/ Tolerance = 0
    PROVE  Spec => []UndominatedWriteStands
  <1>1. Inv => UndominatedWriteStands
    BY DEF Inv, HolderIsUndominated, Holder, UndominatedWriteStands
  <1> QED
    BY <1>1, InvHolds, PTL

-----------------------------------------------------------------------------
(* The outcome of one delivery of every write.                             *)

\* The rows of the HQ after the first n writes of an order.
Run(order, last, f) ==
    f = [n \in 0 .. last |->
            IF n = 0 THEN base ELSE Integrate(f[n - 1], writes[order[n]])]

LEMMA RunExists ==
    ASSUME NEW order, NEW last \in Nat
    PROVE  \E f : Run(order, last, f)
  <1> DEFINE T == {n \in Nat : \E f : Run(order, n, f)}
  <1>1. 0 \in T
    <2> DEFINE f == [n \in 0 .. 0 |-> base]
    <2>1. Run(order, 0, f)
      BY DEF Run
    <2> QED
      BY <2>1
  <1>2. ASSUME NEW n \in 0 .. last, n \in T, n < last
        PROVE  n + 1 \in T
    <2>1. PICK f : Run(order, n, f)
      BY <1>2
    <2> DEFINE new == Integrate(f[n], writes[order[n + 1]])
               g == [m \in 0 .. n + 1 |-> IF m = n + 1 THEN new ELSE f[m]]
    <2>2. f = [m \in 0 .. n |->
                 IF m = 0 THEN base ELSE Integrate(f[m - 1], writes[order[m]])]
      BY <2>1 DEF Run
    <2> HIDE DEF new
    <2>3. ASSUME NEW m \in 0 .. n + 1
          PROVE  g[m] = IF m = 0 THEN base
                        ELSE Integrate(g[m - 1], writes[order[m]])
      <3>1. CASE m = n + 1
        <4>1. g[m] = new /\ g[m - 1] = f[n] /\ m # 0
          BY <3>1
        <4> QED
          BY <3>1, <4>1 DEF new
      <3>2. CASE m # n + 1 /\ m # 0
        <4>1. m \in 0 .. n /\ m - 1 \in 0 .. n + 1 /\ m - 1 # n + 1
          BY <3>2
        <4>2. g[m] = f[m] /\ g[m - 1] = f[m - 1]
          BY <3>2, <4>1
        <4> HIDE DEF g
        <4> QED
          BY <2>2, <3>2, <4>1, <4>2
      <3>3. CASE m = 0
        BY <2>2, <3>3
      <3> QED
        BY <3>1, <3>2, <3>3
    <2>4. Run(order, n + 1, g)
      BY <2>3 DEF Run
    <2> QED
      BY <2>4
  <1> HIDE DEF T
  <1>3. last \in T
    BY <1>1, <1>2, CountUp
  <1> QED
    BY <1>3 DEF T

LEMMA OutcomeIsARun ==
    ASSUME NEW order, Len(order) \in Nat
    PROVE  \E f : Run(order, Len(order), f) /\ Outcome(order) = f[Len(order)]
  <1> DEFINE f == CHOOSE g : Run(order, Len(order), g)
  <1>1. Outcome(order) = f[Len(order)]
    BY DEF Outcome, Run
  <1>2. Run(order, Len(order), f)
    BY RunExists
  <1> QED
    BY <1>1, <1>2

\* An order of a finite set of writers names each of them once.
LEMMA OrdersAreComplete ==
    ASSUME IsFiniteSet(Writers), NEW order \in SetToSeqs(Writers)
    PROVE  /\ Len(order) \in Nat
           /\ Writers # {} => Len(order) # 0
           /\ order \in [1 .. Len(order) -> Writers]
           /\ \A i, j \in 1 .. Len(order) : order[i] = order[j] => i = j
           /\ Writers = {order[m] : m \in 1 .. Len(order)}
  <1> DEFINE N == Cardinality(Writers)
  <1>1. N \in Nat /\ (Writers # {} => N # 0)
    BY FS_CardinalityType, FS_EmptySet
  <1>2. /\ order \in [1 .. N -> Writers]
        /\ \A i, j \in 1 .. N : i # j => order[i] # order[j]
    BY DEF SetToSeqs
  <1> HIDE DEF N
  <1>3. order \in Seq(Writers) /\ Len(order) = N
    BY <1>1, <1>2
  <1>4. order \in Injection(1 .. N, Writers)
    BY <1>2 DEF Injection, IsInjective
  <1>5. Cardinality(1 .. N) = N
    BY <1>1, FS_Interval
  <1>6. order \in Surjection(1 .. N, Writers)
    BY <1>4, <1>5, FS_Injection DEF N
  <1>7. Writers = {order[m] : m \in 1 .. N}
    BY <1>2, <1>6 DEF Surjection
  <1> QED
    BY <1>1, <1>2, <1>3, <1>7

\* Step by step the HQ holds the write that beats all it has seen.
LEMMA OutcomeIsUndominated ==
    ASSUME AtMostTwoWriters \/ Tolerance = 0, TypeOK, WritesAreSiblings,
           IsFiniteSet(Writers), Writers # {},
           \A u \in Writers : writes[u] # NoWrite,
           NEW order \in SetToSeqs(Writers)
    PROVE  \E w \in Writers : /\ Outcome(order) = ApplyOperation(base, writes[w])
                              /\ Undominated(w, Writers)
  <1> DEFINE Seen(n) == {order[m] : m \in 1 .. n}
             last == Len(order)
  <1>1. /\ last \in Nat /\ last # 0 /\ Writers = Seen(last)
        /\ \A i \in 1 .. last : order[i] \in Writers
        /\ \A i, j \in 1 .. last : order[i] = order[j] => i = j
    BY OrdersAreComplete
  <1>2. PICK f : Run(order, last, f) /\ Outcome(order) = f[last]
    BY <1>1, OutcomeIsARun
  <1> HIDE DEF last
  <1>3. f = [n \in 0 .. last |->
               IF n = 0 THEN base ELSE Integrate(f[n - 1], writes[order[n]])]
    BY <1>2 DEF Run
  <1> DEFINE Holds(n) == \E w \in Seen(n) :
                            /\ f[n] = ApplyOperation(base, writes[w])
                            /\ Undominated(w, Seen(n))
             T == {n \in 0 .. last : n = 0 \/ Holds(n)}
  <1>4. 0 \in T
    BY <1>1
  <1>5. ASSUME NEW n \in 0 .. last, n \in T, n < last
        PROVE  n + 1 \in T
    <2> DEFINE v == order[n + 1]
    <2>1. /\ n + 1 \in 1 .. last /\ n + 1 \in 0 .. last /\ n + 1 # 0
          /\ (n + 1) - 1 = n /\ v \in Writers
      BY <1>1, <1>5
    <2>2. f[n + 1] = Integrate(f[n], writes[v])
      BY <1>3, <2>1
    <2>3. Seen(n + 1) = Seen(n) \cup {v}
      <3>1. \A m : m \in 1 .. n + 1 <=> m \in 1 .. n \/ m = n + 1
        BY <2>1
      <3> QED
        BY <3>1
    <2>4. Seen(n) \subseteq Writers /\ v \notin Seen(n)
      <3>1. \A m \in 1 .. n : m \in 1 .. last /\ m # n + 1
        BY <1>1, <1>5
      <3> QED
        BY <1>1, <2>1, <3>1
    <2>5. CASE n = 0
      <3>1. f[n] = base /\ Seen(n) = {}
        BY <1>1, <1>3, <2>5
      <3>2. f[n + 1] = ApplyOperation(base, writes[v])
        BY <2>1, <2>2, <3>1, FirstArrivalApplies
      <3>3. Undominated(v, Seen(n + 1)) /\ v \in Seen(n + 1)
        BY <2>3, <3>1 DEF Undominated
      <3> HIDE DEF Seen, v
      <3> QED
        BY <2>1, <3>2, <3>3
    <2>6. CASE n # 0
      <3>1. PICK w \in Seen(n) : /\ f[n] = ApplyOperation(base, writes[w])
                                 /\ Undominated(w, Seen(n))
        BY <1>5, <2>6
      <3> HIDE DEF Seen, v
      <3>2. w \in Writers /\ v # w /\ w \in Seen(n + 1) /\ v \in Seen(n + 1)
        BY <2>3, <2>4, <3>1
      <3>3. f[n + 1] = IF Beats(writes[v], writes[w])
                       THEN ApplyOperation(base, writes[v]) ELSE f[n]
        BY <2>1, <2>2, <3>1, <3>2, ArrivalDecides
      <3>4. CASE Beats(writes[v], writes[w])
        <4>1. Undominated(v, Seen(n + 1))
          BY <2>1, <2>3, <2>4, <3>1, <3>2, <3>4, WinnerBeatsAll
        <4> QED
          BY <2>1, <3>2, <3>3, <3>4, <4>1
      <3>5. CASE ~Beats(writes[v], writes[w])
        <4>1. Beats(writes[w], writes[v])
          BY <2>1, <3>2, <3>5, BeatsIsTotal
        <4>2. Undominated(w, Seen(n + 1))
          BY <2>3, <3>1, <4>1 DEF Undominated
        <4> QED
          BY <2>1, <3>1, <3>2, <3>3, <3>5, <4>2
      <3> QED
        BY <3>4, <3>5
    <2> QED
      BY <2>5, <2>6
  <1> HIDE DEF T
  <1>6. last \in Nat
    BY <1>1
  <1>7. \A n \in 0 .. last : n \in T
    BY <1>4, <1>5, <1>6, CountUp
  <1>8. last \in T
    BY <1>6, <1>7
  <1> QED
    BY <1>1, <1>2, <1>8 DEF T

\* With at most two offline writers, or without a clock skew tolerance, the row
\* that any one order of the writes leaves is the row the HQ has ended with:
\* resolve is deterministic.
THEOREM OrderDoesNotMatter ==
    ASSUME FullRecordWrites, AtMostTwoWriters \/ Tolerance = 0,
           IsFiniteSet(Writers)
    PROVE  Spec => []SameResultInEveryOrder
  <1>1. Inv => SameResultInEveryOrder
    <2>1. SUFFICES ASSUME Inv, arrived = Writers, NEW order \in SetToSeqs(Writers)
                   PROVE  Outcome(order) = hq
      BY DEF SameResultInEveryOrder
    <2>2. \A w \in Writers : writes[w] # NoWrite
      BY <2>1 DEF Inv, HolderIsUndominated
    <2>3. CASE Writers = {}
      <3>1. Len(order) = 0 /\ hq = base
        <4>1. Len(order) \in Nat /\ Writers = {order[m] : m \in 1 .. Len(order)}
          BY <2>1, OrdersAreComplete
        <4>2. 1 \notin 1 .. Len(order)
          BY <2>3, <4>1
        <4> QED
          BY <2>1, <2>3, <4>1, <4>2 DEF Inv, HolderIsUndominated
      <3>2. PICK f : Run(order, Len(order), f) /\ Outcome(order) = f[Len(order)]
        BY <3>1, OutcomeIsARun
      <3> QED
        BY <3>1, <3>2 DEF Run
    <2>4. CASE Writers # {}
      <3>1. PICK v \in Writers : /\ Outcome(order) = ApplyOperation(base, writes[v])
                                 /\ Undominated(v, Writers)
        BY <2>1, <2>2, <2>4, OutcomeIsUndominated DEF Inv
      <3>2. PICK w \in Writers : Holder(w) /\ Undominated(w, Writers)
        BY <2>1, <2>4 DEF Inv, HolderIsUndominated
      <3>3. v = w
        BY <2>1, <2>2, <3>1, <3>2, BeatsIsTotal DEF Undominated, Inv
      <3> QED
        BY <3>1, <3>2, <3>3 DEF Holder
    <2> QED
      BY <2>3, <2>4
  <1> QED
    BY <1>1, InvHolds, PTL

=============================================================================
