---------------------------- MODULE ArrivalOrder -----------------------------
(***************************************************************************)
(* Several edges write the same record while they are offline, each on the *)
(* same base version of it, and their operations reach the HQ in any order *)
(* and any number of times.  The module isolates the question that the     *)
(* Last-Write-Wins rule of src/conflict.py has to answer: does the record  *)
(* the HQ ends with depend on the order of arrival?                        *)
(***************************************************************************)
EXTENDS ConflictResolver, Sequences, SequencesExt

CONSTANTS
    Writers,        \* the edges that write, each once
    WriteTypes,     \* the kinds of operation they perform
    Payloads,       \* what they write
    Times,          \* what their wall clocks may show
    BaseRecords     \* what all of them held before they lost the link

ASSUME ArrivalAssumption ==
    /\ Writers \subseteq Node
    /\ WriteTypes \subseteq OpType
    /\ Payloads \subseteq Data
    /\ Times \subseteq Nat
    /\ BaseRecords \subseteq Record \cup {NoRecord}

VARIABLES
    base,           \* the version every writer starts from
    writes,         \* the operation each writer queued, NoWrite before that
    hq,             \* the row of the record at the HQ
    arrived         \* the writers whose operation has reached the HQ

vars == <<base, writes, hq, arrived>>

NoWrite == [unwritten |-> TRUE]

TypeOK ==
    /\ base \in BaseRecords
    /\ writes \in [Writers -> Operation \cup {NoWrite}]
    /\ hq \in Record \cup {NoRecord}
    /\ arrived \subseteq Writers

Init ==
    /\ base \in BaseRecords
    /\ writes = [w \in Writers |-> NoWrite]
    /\ hq = base
    /\ arrived = {}

\* An edge writes while it is disconnected.
Write(w) ==
    /\ writes[w] = NoWrite
    /\ \E type \in WriteTypes, payload \in Payloads, ts \in Times :
          writes' = [writes EXCEPT ![w] =
                        NewOperation(base, w, type, payload, ts)]
    /\ UNCHANGED <<base, hq, arrived>>

\* A push of w reaches the HQ, for the first time or again.
Arrive(w) ==
    /\ writes[w] # NoWrite
    /\ hq' = Integrate(hq, writes[w])
    /\ arrived' = arrived \cup {w}
    /\ UNCHANGED <<base, writes>>

Next == \E w \in Writers : Write(w) \/ Arrive(w)

Spec == Init /\ [][Next]_vars

-----------------------------------------------------------------------------
(* The documented order between two concurrent writes: the later one wins, *)
(* and within the tolerance the one of the greater node.                   *)
Beats(a, b) ==
    \/ a.ts > b.ts + Tolerance
    \/ /\ a.ts =< b.ts + Tolerance
       /\ b.ts =< a.ts + Tolerance
       /\ a.node > b.node

Undominated(w, W) == \A v \in W \ {w} : Beats(writes[w], writes[v])

\* Once every write has arrived the HQ holds, unmodified, the one write that
\* beats all the others, whatever the order the pushes came in (the outcome
\* of the concurrent branch of ConflictResolver.resolve).
UndominatedWriteStands ==
    arrived = Writers /\ Writers # {} =>
        \E w \in Writers :
            /\ hq = ApplyOperation(base, writes[w])
            /\ Undominated(w, Writers)

\* The row that one delivery of every write, in the given order, leaves.
Outcome(order) ==
    LET after[n \in 0 .. Len(order)] ==
          IF n = 0 THEN base ELSE Integrate(after[n - 1], writes[order[n]])
    IN  after[Len(order)]

\* Conflict resolution is deterministic: the HQ that has received every write
\* holds what it would hold had they come in any other order (resolve and
\* apply_operation, called once per operation of a push).
SameResultInEveryOrder ==
    arrived = Writers =>
        \A order \in SetToSeqs(Writers) : Outcome(order) = hq

=============================================================================
