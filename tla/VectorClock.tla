----------------------------- MODULE VectorClock -----------------------------
(***************************************************************************)
(* The vector clocks of src/vector_clock.py.  The code keeps a dictionary  *)
(* without zero entries; here a clock is a total function and a node that  *)
(* the dictionary does not hold counts 0.                                  *)
(***************************************************************************)
EXTENDS Naturals

CONSTANT Node       \* every site that writes records: the edges and the HQ

Clock == [Node -> Nat]

EmptyClock == [n \in Node |-> 0]

Increment(vc, n) == [vc EXCEPT ![n] = @ + 1]

Merge(v, w) == [n \in Node |-> IF v[n] >= w[n] THEN v[n] ELSE w[n]]

Leq(v, w) == \A n \in Node : v[n] =< w[n]

Compare(v, w) ==
    IF Leq(v, w) /\ Leq(w, v) THEN "equal"
    ELSE IF Leq(v, w) THEN "before"
    ELSE IF Leq(w, v) THEN "after"
    ELSE "concurrent"

=============================================================================
