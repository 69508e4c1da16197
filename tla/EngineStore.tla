---------------------------- MODULE EngineStore ------------------------------
(***************************************************************************)
(* One record of one edge while application threads write it and a thread  *)
(* in sync_now pulls it (src/engine.py over LocalStore and OutboxQueue).   *)
(* A write holds the engine lock from the read of the row to the audit     *)
(* entry; the pull does not take it.  Every step ends where another thread *)
(* may come in between or the process may die: at each transaction, and    *)
(* between the read and the write of the global vector clock.              *)
(*                                                                         *)
(* The other edge writes the record too, queues what it writes, and its    *)
(* pushes come to the HQ late, in any order and repeatedly; its pull is    *)
(* one step.  A push of this edge is lost, answered or integrated without  *)
(* an answer; one that arrives after a restart is a matter of HubSync.     *)
(***************************************************************************)
EXTENDS ConflictResolver, Sequences

CONSTANTS
    Self, Peer,     \* this edge and the other one
    Callers,        \* threads of the application
    Syncers,        \* threads in sync_now
    Nobody,         \* the owner of a free lock
    WriteTypes, Payloads, Times,    \* what the two edges write
    MaxWrites, MaxPeerWrites,       \* bounds on the writes they begin
    MaxBoots                        \* bound on crashes

Thread == Callers \cup Syncers

ASSUME EngineStoreAssumption ==
    /\ Self \in Node /\ Peer \in Node \ {Self}
    /\ Callers \cap Syncers = {} /\ Nobody \notin Thread
    /\ WriteTypes \subseteq OpType /\ Payloads \subseteq Data
    /\ Times \subseteq Nat
    /\ {MaxWrites, MaxPeerWrites, MaxBoots} \subseteq Nat

VARIABLES
    row,            \* the record in the local store
    outbox,         \* the queued operations with their sync_state
    known,          \* _global_vector_clock
    engineLock,     \* owner of _lock of the engine
    pc,             \* where each thread is
    op,             \* the operation each thread has in hand
    clockRead,      \* the global clock it merges into
    rowRead,        \* the record a pull resolves against
    sent,           \* the push of each thread in sync_now
    hq, peerRow,    \* the record at the HQ and at the other edge
    peerOutbox,     \* what the other edge has queued and not seen acknowledged
    writes, peerWrites, boots,      \* writes and crashes so far
    lastTime,       \* the wall clock of each edge when it last wrote
    torn,           \* a write was interrupted between its two transactions
    overtaken,      \* a pull left another row than resolving against it leaves
    counted,        \* the highest own count of a write that was stored
    recounted       \* a write was stored with no higher count than another

localVars == <<row, outbox, known, engineLock>>
threadVars == <<pc, op, clockRead, rowRead, sent>>
remoteVars == <<hq, peerRow, peerOutbox>>
inputs == <<writes, peerWrites, boots, lastTime>>
history == <<torn, overtaken, counted, recounted>>
vars == <<localVars, threadVars, remoteVars, inputs, history>>

Row == Record \cup {NoRecord}
NoOperation == [none |-> TRUE]
NoPush == [ids |-> {}, vc |-> EmptyClock]
Push == [ids : SUBSET Nat, vc : Clock]
Queued == [body : Operation, state : {"pending", "synced", "failed"}]

TypeOK ==
    /\ row \in Row /\ hq \in Row /\ peerRow \in Row
    /\ peerOutbox \subseteq Operation
    /\ outbox \in Seq(Queued)
    /\ known \in Clock
    /\ engineLock \in Callers \cup {Nobody}
    /\ pc \in [Thread -> {"idle", "batch", "sent", "load", "merge", "get",
                          "resolve", "apply", "enqueue"}]
    /\ op \in [Thread -> Operation \cup {NoOperation}]
    /\ clockRead \in [Thread -> Clock]
    /\ rowRead \in [Thread -> Row]
    /\ sent \in [Thread -> Push]
    /\ {writes, peerWrites, boots} \subseteq Nat
    /\ lastTime \in [{Self, Peer} -> Nat]
    /\ torn \in BOOLEAN /\ overtaken \in BOOLEAN /\ recounted \in BOOLEAN
    /\ counted \in Nat
    \* a thread past the read of its row or its answer has an operation
    /\ \A t \in Thread :
          pc[t] \notin {"idle", "batch", "sent"} => op[t] \in Operation

Init ==
    /\ row = NoRecord /\ hq = NoRecord /\ peerRow = NoRecord
    /\ peerOutbox = {}
    /\ outbox = <<>>
    /\ known = EmptyClock
    /\ engineLock = Nobody
    /\ pc = [t \in Thread |-> "idle"]
    /\ op = [t \in Thread |-> NoOperation]
    /\ clockRead = [t \in Thread |-> EmptyClock]
    /\ rowRead = [t \in Thread |-> NoRecord]
    /\ sent = [t \in Thread |-> NoPush]
    /\ writes = 0 /\ peerWrites = 0 /\ boots = 0
    /\ lastTime = [e \in {Self, Peer} |-> 0]
    /\ torn = FALSE /\ overtaken = FALSE /\ recounted = FALSE
    /\ counted = 0

\* A write carries time.time() of its edge; no clock is set back here.
Stamp(e, ts) == lastTime[e] =< ts /\ lastTime' = [lastTime EXCEPT ![e] = ts]

Goto(t, place) == pc' = [pc EXCEPT ![t] = place]

InState(state) == {i \in DOMAIN outbox : outbox[i].state = state}

Mark(ids, state) ==
    outbox' = [i \in DOMAIN outbox |->
                 IF i \in ids THEN [outbox[i] EXCEPT !.state = state]
                              ELSE outbox[i]]

\* _global_vector_clock = _global_vector_clock.merge(...): a read, then a write.
LoadClock(t) ==
    /\ pc[t] = "load"
    /\ clockRead' = [clockRead EXCEPT ![t] = known]
    /\ Goto(t, "merge")
    /\ UNCHANGED <<localVars, op, rowRead, sent, remoteVars, inputs, history>>

StoreClock(t, next) ==
    /\ pc[t] = "merge"
    /\ known' = Merge(clockRead[t], op[t].vc)
    /\ Goto(t, next)
    /\ UNCHANGED <<row, outbox, engineLock, op, clockRead, rowRead, sent,
                   remoteVars, inputs, history>>

-----------------------------------------------------------------------------
(* create, update, merge and delete of an application thread.              *)

\* Mutant: the lock is not waited for.
BeginWrite_Unlocked(c, type, payload, ts) ==
    /\ pc[c] = "idle"
    /\ writes < MaxWrites
    /\ writes' = writes + 1
    /\ Stamp(Self, ts)
    /\ engineLock' = c
    /\ op' = [op EXCEPT ![c] = NewOperation(row, Self, type, payload, ts)]
    /\ Goto(c, "load")
    /\ UNCHANGED <<row, outbox, known, clockRead, rowRead, sent, remoteVars,
                   peerWrites, boots, history>>

\* The lock is taken, the clock of the row read, the operation made.
BeginWrite(c, type, payload, ts) ==
    /\ pc[c] = "idle"
    /\ writes < MaxWrites
    /\ writes' = writes + 1
    /\ Stamp(Self, ts)
    /\ engineLock = Nobody
    /\ engineLock' = c
    /\ op' = [op EXCEPT ![c] = NewOperation(row, Self, type, payload, ts)]
    /\ Goto(c, "load")
    /\ UNCHANGED <<row, outbox, known, clockRead, rowRead, sent, remoteVars,
                   peerWrites, boots, history>>

\* Mutant: the operation is queued before it is applied.
ApplyLocal_QueueFirst(c) ==
    /\ pc[c] = "apply"
    /\ outbox' = Append(outbox, [body |-> op[c], state |-> "pending"])
    /\ Goto(c, "enqueue")
    /\ UNCHANGED <<row, known, engineLock, op, clockRead, rowRead, sent,
                   remoteVars, inputs, history>>

\* The first transaction: local_store.apply_operation.
ApplyLocal(c) ==
    /\ pc[c] = "apply"
    /\ row' = ApplyOperation(row, op[c])
    /\ recounted' = (recounted \/ op[c].vc[Self] =< counted)
    /\ counted' = IF op[c].vc[Self] > counted THEN op[c].vc[Self] ELSE counted
    /\ Goto(c, "enqueue")
    /\ UNCHANGED <<outbox, known, engineLock, op, clockRead, rowRead, sent,
                   remoteVars, inputs, torn, overtaken>>

\* The thread leaves the with block of the lock.
Leave(c) ==
    /\ engineLock' = Nobody
    /\ op' = [op EXCEPT ![c] = NoOperation]
    /\ clockRead' = [clockRead EXCEPT ![c] = EmptyClock]
    /\ Goto(c, "idle")

\* The second transaction, outbox.enqueue, and the audit entry.
Enqueue(c) ==
    /\ pc[c] = "enqueue"
    /\ outbox' = Append(outbox, [body |-> op[c], state |-> "pending"])
    /\ Leave(c)
    /\ UNCHANGED <<row, known, rowRead, sent, remoteVars, inputs, history>>

\* A transaction of the write raises: the exception passes through to the
\* caller and the with statement gives the lock back.
WriteRaises(c) ==
    /\ pc[c] \in {"apply", "enqueue"}
    /\ torn' = (torn \/ pc[c] = "enqueue")
    /\ Leave(c)
    /\ UNCHANGED <<row, outbox, known, rowRead, sent, remoteVars, inputs,
                   overtaken, counted, recounted>>

-----------------------------------------------------------------------------
(* sync_now, without the lock.                                             *)

\* The batch of the push: outbox.get_pending.
ReadBatch(s) ==
    /\ pc[s] = "idle"
    /\ sent' = [sent EXCEPT ![s].ids = InState("pending")]
    /\ Goto(s, "batch")
    /\ UNCHANGED <<localVars, op, clockRead, rowRead, remoteVars, inputs,
                   history>>

\* The request carries the global clock as it is when the request is made.
SendPush(s) ==
    /\ pc[s] = "batch"
    /\ sent' = [sent EXCEPT ![s].vc = known]
    /\ Goto(s, "sent")
    /\ UNCHANGED <<localVars, op, clockRead, rowRead, remoteVars, inputs,
                   history>>

\* The record at the HQ after the operations of a push, in their order.
AtHQ(ids) ==
    LET after[n \in 0 .. Len(outbox)] ==
          IF n = 0 THEN hq
          ELSE IF n \in ids THEN Integrate(after[n - 1], outbox[n].body)
          ELSE after[n - 1]
    IN  after[Len(outbox)]

\* What the HQ makes of a record for the delta.
AsChange(rec) ==
    [type    |-> IF rec.deleted THEN "delete" ELSE "update",
     node    |-> rec.by,
     payload |-> rec.data,
     ts      |-> rec.ts,
     vc      |-> rec.vc]

\* A collection of one record is listed while the record is live.
InDelta(rec, peer, vc) ==
    /\ rec # NoRecord /\ ~rec.deleted
    /\ rec.by # peer
    /\ Compare(vc, rec.vc) \in {"before", "concurrent"}

\* Mutant: an answer without changes is unpacked like any other.
Answer_UnpacksNothing(s) ==
    /\ pc[s] = "sent"
    /\ hq' = AtHQ(sent[s].ids)
    /\ Mark(sent[s].ids, "synced")
    /\ Goto(s, "load")
    /\ op' = IF InDelta(hq', Self, sent[s].vc)
               THEN [op EXCEPT ![s] = AsChange(hq')] ELSE op
    /\ sent' = [sent EXCEPT ![s] = NoPush]
    /\ UNCHANGED <<row, known, engineLock, clockRead, rowRead, peerRow,
                   peerOutbox, inputs, history>>

\* The HQ integrates the push and answers; the batch is acknowledged.
Answer(s) ==
    /\ pc[s] = "sent"
    /\ hq' = AtHQ(sent[s].ids)
    /\ Mark(sent[s].ids, "synced")
    /\ IF InDelta(hq', Self, sent[s].vc)
       THEN /\ op' = [op EXCEPT ![s] = AsChange(hq')]
            /\ Goto(s, "load")
       ELSE /\ Goto(s, "idle")
            /\ UNCHANGED op
    /\ sent' = [sent EXCEPT ![s] = NoPush]
    /\ UNCHANGED <<row, known, engineLock, clockRead, rowRead, peerRow,
                   peerOutbox, inputs, history>>

\* No answer: the HQ has the push or not.
ExchangeFails(s) ==
    /\ pc[s] = "sent"
    /\ hq' \in {hq, AtHQ(sent[s].ids)}
    /\ Mark(sent[s].ids, "failed")
    /\ sent' = [sent EXCEPT ![s] = NoPush]
    /\ Goto(s, "idle")
    /\ UNCHANGED <<row, known, engineLock, op, clockRead, rowRead, peerRow,
                   peerOutbox, inputs, history>>

\* local_store.get.
GetLocal(s) ==
    /\ pc[s] = "get"
    /\ rowRead' = [rowRead EXCEPT ![s] = row]
    /\ Goto(s, "resolve")
    /\ UNCHANGED <<localVars, op, clockRead, sent, remoteVars, inputs, history>>

\* Mutant: the pulled version is applied whatever the resolver says.
ApplyPulled_Unresolved(s) ==
    /\ pc[s] = "resolve"
    /\ row' = ApplyOperation(row, op[s])
    /\ overtaken' = (overtaken \/ row # rowRead[s])
    /\ op' = [op EXCEPT ![s] = NoOperation]
    /\ clockRead' = [clockRead EXCEPT ![s] = EmptyClock]
    /\ rowRead' = [rowRead EXCEPT ![s] = NoRecord]
    /\ Goto(s, "idle")
    /\ UNCHANGED <<outbox, known, engineLock, sent, remoteVars, inputs, torn,
                   counted, recounted>>

\* resolve against what was read, apply_operation to what is there now.
ApplyPulled(s) ==
    /\ pc[s] = "resolve"
    /\ row' = IF Accepts(rowRead[s], op[s]) THEN ApplyOperation(row, op[s])
                                            ELSE row
    /\ overtaken' = (overtaken \/ row' # Integrate(row, op[s]))
    /\ op' = [op EXCEPT ![s] = NoOperation]
    /\ clockRead' = [clockRead EXCEPT ![s] = EmptyClock]
    /\ rowRead' = [rowRead EXCEPT ![s] = NoRecord]
    /\ Goto(s, "idle")
    /\ UNCHANGED <<outbox, known, engineLock, sent, remoteVars, inputs, torn,
                   counted, recounted>>

\* The store raises on the pulled change; the session fails, the batch stays
\* acknowledged and the clock merged.
PullRaises(s) ==
    /\ pc[s] \in {"get", "resolve"}
    /\ op' = [op EXCEPT ![s] = NoOperation]
    /\ clockRead' = [clockRead EXCEPT ![s] = EmptyClock]
    /\ rowRead' = [rowRead EXCEPT ![s] = NoRecord]
    /\ Goto(s, "idle")
    /\ UNCHANGED <<localVars, sent, remoteVars, inputs, history>>

-----------------------------------------------------------------------------
(* Crashes and the other edge.                                             *)

\* The process dies anywhere; the next engine starts on the same database.
Restart ==
    /\ boots < MaxBoots
    /\ boots' = boots + 1
    /\ torn' = (torn \/ \E c \in Callers : pc[c] = "enqueue")
    /\ known' = EmptyClock
    /\ Mark(InState("failed"), "pending")
    /\ engineLock' = Nobody
    /\ pc' = [t \in Thread |-> "idle"]
    /\ op' = [t \in Thread |-> NoOperation]
    /\ clockRead' = [t \in Thread |-> EmptyClock]
    /\ rowRead' = [t \in Thread |-> NoRecord]
    /\ sent' = [t \in Thread |-> NoPush]
    /\ UNCHANGED <<row, remoteVars, writes, peerWrites, lastTime, overtaken,
                   counted, recounted>>

\* The other edge writes.
PeerWrites(type, payload, ts) ==
    LET write == NewOperation(peerRow, Peer, type, payload, ts)
    IN  /\ peerWrites < MaxPeerWrites
        /\ peerWrites' = peerWrites + 1
        /\ Stamp(Peer, ts)
        /\ peerRow' = ApplyOperation(peerRow, write)
        /\ peerOutbox' = peerOutbox \cup {write}
        /\ UNCHANGED <<localVars, threadVars, hq, writes, boots, history>>

\* The HQ integrates a queued operation of the other edge, in whatever order
\* tiers, failures and restarts let them leave; the answer arrives or it is sent
\* again.
PeerPushes(o) ==
    /\ hq' = Integrate(hq, o)
    /\ peerOutbox' \in {peerOutbox, peerOutbox \ {o}}
    /\ UNCHANGED <<localVars, threadVars, peerRow, inputs, history>>

\* The other edge pulls.
PeerPulls ==
    /\ InDelta(hq, Peer, RecordClock(peerRow))
    /\ peerRow' = Integrate(peerRow, AsChange(hq))
    /\ UNCHANGED <<localVars, threadVars, hq, peerOutbox, inputs, history>>

-----------------------------------------------------------------------------

WriteStep(c) ==
    \/ \E type \in WriteTypes, payload \in Payloads, ts \in Times :
          BeginWrite(c, type, payload, ts)
    \/ LoadClock(c) \/ StoreClock(c, "apply")
    \/ ApplyLocal(c) \/ Enqueue(c) \/ WriteRaises(c)

SyncStep(s) ==
    \/ ReadBatch(s) \/ SendPush(s) \/ Answer(s) \/ ExchangeFails(s)
    \/ LoadClock(s) \/ StoreClock(s, "get")
    \/ GetLocal(s) \/ ApplyPulled(s) \/ PullRaises(s)

Others ==
    \/ \E type \in WriteTypes, payload \in Payloads, ts \in Times :
          PeerWrites(type, payload, ts)
    \/ \E o \in peerOutbox : PeerPushes(o)
    \/ PeerPulls

Next ==
    \/ \E c \in Callers : WriteStep(c)
    \/ \E s \in Syncers : SyncStep(s)
    \/ Restart
    \/ Others

Spec == Init /\ [][Next]_vars

-----------------------------------------------------------------------------
(* Properties.                                                             *)

\* No two operations this edge queued on the record carry the same clock: the
\* resolver of the HQ takes a version whose clock is "equal" for a repetition and
\* discards it, so it would discard a write of the application.
EqualIsDuplicate ==
    \A i, j \in DOMAIN outbox :
        outbox[i].body.vc = outbox[j].body.vc => i = j

\* While no pull replaced another row than it had read, a clock stands for one
\* write: also when the row loses to a version of the other edge and its own
\* count starts again below, under a write that is in hand, with any number of
\* pulls, crashes and errors in between.
DistinctClocks == ~overtaken => EqualIsDuplicate

\* While no own count is given twice, or no pull replaced another row than it had
\* read, the row is never causally older than an operation in the outbox, also
\* after a crash or an error between the two transactions of a write: what this
\* edge pushed would never come back to it, for a delta leaves out what the peer
\* wrote itself.
StoredBeforeQueued ==
    ~recounted \/ ~overtaken =>
        \A i \in DOMAIN outbox :
            Compare(RecordClock(row), outbox[i].body.vc) # "before"

\* On the same condition no step takes the row back to a causally older version,
\* although a pull may resolve against a row that has been replaced since, and a
\* write replaces the row a pull has stored after the write read its own.
RowNeverGoesBack ==
    [][row # NoRecord /\ (~recounted' \/ ~overtaken')
         => Compare(RecordClock(row'), row.vc) # "before"]_vars

Visible(rec) == IF rec = NoRecord \/ rec.deleted THEN <<>>
                                                 ELSE <<rec.data, rec.vc>>

\* Nothing is left to push and no thread is at work.
Settled ==
    /\ \A t \in Thread : pc[t] = "idle"
    /\ InState("synced") = DOMAIN outbox

\* What the edge has after it pulled what the HQ would send it now.
AfterPull ==
    IF InDelta(hq, Self, known) THEN Integrate(row, AsChange(hq)) ELSE row

\* An edge that settled, and whose global clock claims no more than its row
\* shows, agrees with the HQ, whatever updates of that clock were lost, whatever
\* was pulled or pushed twice and whatever write replaced a row it had not read.
\* The ways out are a write that was interrupted between its two transactions,
\* and a pull that replaced another row than it had read.
SettledAgreement ==
    /\ Settled /\ Leq(known, RecordClock(row))
    /\ ~torn /\ ~overtaken
    => Visible(AfterPull) = Visible(hq)

=============================================================================
