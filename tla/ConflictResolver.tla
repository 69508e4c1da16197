-------------------------- MODULE ConflictResolver ---------------------------
(***************************************************************************)
(* ConflictResolver.resolve of src/conflict.py and the pair of calls that  *)
(* the engine and the server both make with it: resolve, then apply when   *)
(* the remote operation is accepted.  Node ids are strings compared by     *)
(* Python's >; a natural stands for the rank of an id in that order.       *)
(***************************************************************************)
EXTENDS LocalStore

CONSTANT Tolerance      \* clock_skew_tolerance, in the unit of timestamps

ASSUME ResolverAssumption == Node \subseteq Nat /\ Tolerance \in Nat

Comparison(local, op) ==
    IF local = NoRecord \/ local.deleted
    THEN "non_existent"
    ELSE Compare(local.vc, op.vc)

\* Mutant: within the tolerance, whatever arrives last wins.
RemoteWins_LastArrival(local, op) == local.ts =< op.ts + Tolerance

\* Last-Write-Wins between two concurrent versions.
RemoteWins(local, op) ==
    \/ op.ts > local.ts + Tolerance
    \/ /\ local.ts =< op.ts + Tolerance
       /\ op.node > local.by

\* Mutant: a causally older operation is not discarded.
Accepts_Stale(local, op) ==
    LET c == Comparison(local, op)
    IN  \/ c = "non_existent" /\ op.type # "delete"
        \/ c \in {"before", "after"}
        \/ c = "concurrent" /\ RemoteWins(local, op)

\* Mutant: wall clocks decide before causality does.
Accepts_ByTime(local, op) ==
    LET c == Comparison(local, op)
    IN  \/ c = "non_existent" /\ op.type # "delete"
        \/ c \in {"before", "after", "concurrent"} /\ RemoteWins(local, op)

Accepts(local, op) ==
    LET c == Comparison(local, op)
    IN  \/ c = "non_existent" /\ op.type # "delete"
        \/ c = "before"
        \/ c = "concurrent" /\ RemoteWins(local, op)

Resolve(local, op) ==
    IF ~Accepts(local, op) THEN "discard_remote"
    ELSE IF op.type = "merge" THEN "merge_fields"
    ELSE "apply_remote"

\* get, resolve and apply_operation, in the order both callers have them.
Integrate(local, op) ==
    IF Resolve(local, op) \in {"apply_remote", "merge_fields"}
    THEN ApplyOperation(local, op)
    ELSE local

=============================================================================
