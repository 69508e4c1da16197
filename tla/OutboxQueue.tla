---------------------------- MODULE OutboxQueue ------------------------------
(***************************************************************************)
(* The outbox table of src/outbox.py and the in-memory sync lock of the    *)
(* OutboxQueue object.  Every method runs under the queue's own lock and   *)
(* in one database transaction, so each is one atomic operator here.  The  *)
(* columns that no query of the sync path reads (attempts, last_error,     *)
(* enqueued_at) are left out; mark_conflicted has no caller.               *)
(***************************************************************************)
EXTENDS Naturals, FiniteSets

CONSTANT Op             \* operations an application may ever perform

Tier == 0 .. 4          \* Priority.P0 .. Priority.P4
SyncState == {"pending", "synced", "failed"}

VARIABLES
    syncState,          \* sync_state of the row of an operation, "none": no row
    tier,               \* priority of the row
    stamp,              \* timestamp of the row
    syncLocked          \* _sync_locked

queueVars == <<syncState, tier, stamp, syncLocked>>

QueueTypeOK ==
    /\ syncState \in [Op -> SyncState \cup {"none"}]
    /\ tier \in [Op -> Tier]
    /\ stamp \in [Op -> Nat]
    /\ syncLocked \in BOOLEAN

QueueInit ==
    /\ syncState = [o \in Op |-> "none"]
    /\ tier = [o \in Op |-> 0]
    /\ stamp = [o \in Op |-> 0]
    /\ syncLocked = FALSE

InState(state) == {o \in Op : syncState[o] = state}

\* The result of UPDATE outbox SET sync_state = state WHERE op_id IN ops.
Marked(ops, state) ==
    [o \in Op |-> IF o \in ops /\ syncState[o] # "none"
                  THEN state ELSE syncState[o]]

enqueue(o, priority, time) ==
    /\ syncState' = [syncState EXCEPT ![o] = "pending"]
    /\ tier' = [tier EXCEPT ![o] = priority]
    /\ stamp' = [stamp EXCEPT ![o] = time]
    /\ UNCHANGED syncLocked

\* No state is excluded: a row that is synced can be marked failed.
mark_synced(ops) ==
    syncState' = Marked(ops, "synced") /\ UNCHANGED <<tier, stamp, syncLocked>>

\* Mutant: a state that get_pending and reset_in_flight do not know.
mark_failed_Requeue(ops) ==
    syncState' = Marked(ops, "retrying") /\ UNCHANGED <<tier, stamp, syncLocked>>

mark_failed(ops) ==
    syncState' = Marked(ops, "failed") /\ UNCHANGED <<tier, stamp, syncLocked>>

\* Mutant: every row is reset, acknowledged or not.
reset_in_flight_All == syncState' = Marked(Op, "pending")

reset_in_flight == syncState' = Marked(InState("failed"), "pending")

\* Mutant: the purge goes by age alone.
purge_synced_AnyState(old) ==
    /\ syncState' = Marked(old, "none")
    /\ UNCHANGED <<tier, stamp, syncLocked>>

\* Which synced rows are older than the retention period is left open.
purge_synced(old) ==
    /\ old \subseteq InState("synced")
    /\ syncState' = Marked(old, "none")
    /\ UNCHANGED <<tier, stamp, syncLocked>>

\* lock answers FALSE when the lock is held; its only caller ignores that.
lock == syncLocked' = TRUE
unlock == syncLocked' = FALSE

\* The order of get_pending: by tier, then oldest timestamp first.
Before(a, b) ==
    \/ tier[a] < tier[b]
    \/ tier[a] = tier[b] /\ stamp[a] < stamp[b]

\* Mutant: rows in any state but synced are picked.
get_pending_NotSynced(limit, maxPriority) ==
    LET allowed == {o \in InState("pending") \cup InState("failed") :
                       tier[o] =< maxPriority}
    IN  {batch \in SUBSET allowed :
            /\ \/ batch = allowed /\ Cardinality(batch) =< limit
               \/ Cardinality(batch) = limit
            /\ \A b \in batch, o \in allowed \ batch : ~Before(o, b)}

\* The possible results of get_pending(limit, max_priority): the first rows
\* of that order, ties broken either way.
get_pending(limit, maxPriority) ==
    LET allowed == {o \in InState("pending") : tier[o] =< maxPriority}
    IN  {batch \in SUBSET allowed :
            /\ \/ batch = allowed /\ Cardinality(batch) =< limit
               \/ Cardinality(batch) = limit
            /\ \A b \in batch, o \in allowed \ batch : ~Before(o, b)}

=============================================================================
