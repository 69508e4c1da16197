------------------------------ MODULE HubSync --------------------------------
(***************************************************************************)
(* Edges that write offline and synchronise through the HQ: the record     *)
(* stores of all sites, the outbox and the global clock of each edge, the  *)
(* push of pending operations, their integration at the HQ one by one, the *)
(* delta the HQ computes for the sender, and its integration at the edge   *)
(* one by one (src/engine.py, src/server.py, over LocalStore and           *)
(* ConflictResolver).  Threads and the states of the engine are the        *)
(* business of SyncSessions.                                               *)
(***************************************************************************)
EXTENDS ConflictResolver, Sequences, SequencesExt

CONSTANTS
    HQ,             \* the server's node id
    Edge,           \* the edges' node ids
    Key,            \* collection and record id of a record
    CollectionOf,   \* the collection of each key
    Writers,        \* the edges whose applications write
    WriteTypes, Payloads, Times,          \* and what they write
    Tiers,          \* the priorities each edge gives to its writes
    MaxWrites,      \* bound on the writes of each edge
    BatchLimit,     \* what _calculate_batch_size answers
    Cutoffs,        \* what _calculate_priority_cutoff may answer
    Faults          \* which of "restart", "redelivery", "stragglers", "late",
                    \* "pull" and "clock" happen

ASSUME HubAssumption ==
    /\ HQ \in Node \ Edge /\ Edge \subseteq Node /\ Writers \subseteq Edge
    /\ WriteTypes \subseteq OpType /\ Payloads \subseteq Data
    /\ Times \subseteq Nat /\ Cutoffs \subseteq 0 .. 4
    /\ Tiers \in [Edge -> SUBSET (0 .. 4)]
    /\ MaxWrites \in [Edge -> Nat] /\ BatchLimit \in Nat

Site == Edge \cup {HQ}

VARIABLES
    store,          \* the records table of each site
    known,          \* _global_vector_clock of each edge, in memory only
    outbox,         \* the operations of each edge, in the order of the writes
    status,         \* sync_state of each of them
    pc,             \* where each edge is in sync_now
    sent,           \* the operations of its batch
    pulled,         \* the delta it still has to integrate
    requests,       \* pushes that may still reach the HQ
    replies,        \* answers that may still reach an edge
    task            \* the request the HQ is working on, under its lock

edgeVars == <<known, outbox, status, pc, sent, pulled>>
vars == <<store, edgeVars, requests, replies, task>>

NoTask == [free |-> TRUE]

\* A queued operation: an operation of LocalStore on a key, with its priority.
Queued == [key : Key, tier : 0 .. 4, body : Operation]
Change == [key : Key, body : Operation]
Request == [from : Edge, ids : Seq(Nat), vc : Clock]
Reply == [to : Edge, ok : BOOLEAN, acked : SUBSET Nat, delta : SUBSET Change]

TypeOK ==
    /\ store \in [Site -> [Key -> Record \cup {NoRecord}]]
    /\ known \in [Edge -> Clock]
    /\ outbox \in [Edge -> Seq(Queued)]
    /\ status \in [Edge -> Seq({"pending", "synced", "failed"})]
    /\ \A e \in Edge : Len(status[e]) = Len(outbox[e])
    /\ pc \in [Edge -> {"idle", "sent", "pulling"}]
    /\ sent \in [Edge -> SUBSET Nat]
    /\ pulled \in [Edge -> SUBSET Change]
    /\ requests \subseteq Request
    /\ replies \subseteq Reply
    /\ task \in [request : Request, done : Nat] \cup {NoTask}
    /\ task # NoTask => task.done =< Len(task.request.ids)

Init ==
    /\ store = [s \in Site |-> [k \in Key |-> NoRecord]]
    /\ known = [e \in Edge |-> EmptyClock]
    /\ outbox = [e \in Edge |-> <<>>]
    /\ status = [e \in Edge |-> <<>>]
    /\ pc = [e \in Edge |-> "idle"]
    /\ sent = [e \in Edge |-> {}]
    /\ pulled = [e \in Edge |-> {}]
    /\ requests = {}
    /\ replies = {}
    /\ task = NoTask

InState(e, state) == {i \in DOMAIN status[e] : status[e][i] = state}

\* Mutant: a state that no query of the outbox knows.
Mark_InFlight(e, ids, state) ==
    status' = [status EXCEPT ![e] =
                 [i \in DOMAIN @ |-> IF i \in ids THEN "in_flight" ELSE @[i]]]

Mark(e, ids, state) ==
    status' = [status EXCEPT ![e] =
                 [i \in DOMAIN @ |-> IF i \in ids THEN state ELSE @[i]]]

\* Mutant: what comes over the link is applied unresolved.
IntegrateAt_Unresolved(s, change) ==
    store' = [store EXCEPT ![s][change.key] = ApplyOperation(@, change.body)]

\* A site resolves and applies one remote operation.
IntegrateAt(s, change) ==
    store' = [store EXCEPT ![s][change.key] = Integrate(@, change.body)]

-----------------------------------------------------------------------------
(* The application on an edge: create, update, merge, delete.  The record, *)
(* the global clock and the outbox change under the engine's lock.         *)

\* time.time(): unless it is set back, the clock of an edge never decreases.
MayShow(e, ts) ==
    "clock" \in Faults \/ \A i \in DOMAIN outbox[e] : outbox[e][i].body.ts =< ts

Write(e, k, type, payload, ts, priority) ==
    LET old == store[e][k]
        op  == NewOperation(old, e, type, payload, ts)
    IN  /\ Len(outbox[e]) < MaxWrites[e]
        /\ MayShow(e, ts)
        /\ store' = [store EXCEPT ![e][k] = ApplyOperation(old, op)]
        /\ known' = [known EXCEPT ![e] = Merge(@, op.vc)]
        /\ outbox' = [outbox EXCEPT ![e] =
                        Append(@, [key |-> k, tier |-> priority, body |-> op])]
        /\ status' = [status EXCEPT ![e] = Append(@, "pending")]
        /\ UNCHANGED <<pc, sent, pulled, requests, replies, task>>

-----------------------------------------------------------------------------
(* The edge in sync_now.                                                   *)

\* get_pending: by tier, then timestamp, then the order of insertion.
Earlier(e, i, j) ==
    LET q == outbox[e]
    IN  \/ q[i].tier < q[j].tier
        \/ /\ q[i].tier = q[j].tier
           /\ \/ q[i].body.ts < q[j].body.ts
              \/ q[i].body.ts = q[j].body.ts /\ i < j

\* The first rows of that order among the pending ones the bandwidth allows.
IsPendingBatch(e, cutoff, ids) ==
    LET due  == {i \in InState(e, "pending") : outbox[e][i].tier =< cutoff}
        left == due \ ToSet(ids)
    IN  /\ ToSet(ids) \subseteq due
        /\ left # {} => Len(ids) = BatchLimit
        /\ \A n \in DOMAIN ids :
              /\ \A m \in DOMAIN ids : m < n => Earlier(e, ids[m], ids[n])
              /\ \A i \in left : Earlier(e, ids[n], i)

BeginSync(e, cutoff) ==
    /\ pc[e] = "idle"
    /\ \E n \in 0 .. BatchLimit : \E ids \in [1 .. n -> DOMAIN outbox[e]] :
          /\ IsPendingBatch(e, cutoff, ids)
          /\ sent' = [sent EXCEPT ![e] = ToSet(ids)]
          /\ requests' = requests \cup
                {[from |-> e, ids |-> ids, vc |-> known[e]]}
    /\ pc' = [pc EXCEPT ![e] = "sent"]
    /\ UNCHANGED <<store, known, outbox, status, pulled, replies, task>>

\* The requests that stay under way when the session of e ends: none of its own
\* unless an attempt of the transport can be overtaken by the next one.
Outlasting(e) ==
    {request \in requests : "stragglers" \in Faults \/ request.from # e}

\* Unless answers may be late, a session ends without its answer only when
\* the request or the answer was lost.
Abandonable(e) ==
    \/ "late" \in Faults
    \/ /\ \A request \in requests : request.from # e
       /\ \A reply \in replies : reply.to # e
       /\ task # NoTask => task.request.from # e

\* No answer in time, or an answer that refuses the push.
PushFails(e) ==
    /\ pc[e] = "sent"
    /\ Mark(e, sent[e], "failed")
    /\ pc' = [pc EXCEPT ![e] = "idle"]
    /\ sent' = [sent EXCEPT ![e] = {}]
    /\ requests' = Outlasting(e)
    /\ UNCHANGED <<store, known, outbox, pulled, task>>

Timeout(e) == Abandonable(e) /\ PushFails(e) /\ UNCHANGED replies

RefusedByHQ(e, reply) ==
    /\ PushFails(e)
    /\ ~reply.ok
    /\ replies' = replies \ {reply}

\* Mutant: the answer is taken to acknowledge the batch of this session.
Receive_WholeBatch(e, reply) ==
    /\ pc[e] = "sent"
    /\ reply.ok
    /\ Mark(e, sent[e], "synced")
    /\ pulled' = [pulled EXCEPT ![e] = reply.delta]
    /\ pc' = [pc EXCEPT ![e] = "pulling"]
    /\ sent' = [sent EXCEPT ![e] = {}]
    /\ replies' = replies \ {reply}
    /\ requests' = Outlasting(e)
    /\ UNCHANGED <<store, known, outbox, task>>

Receive(e, reply) ==
    /\ pc[e] = "sent"
    /\ reply.ok
    /\ Mark(e, reply.acked, "synced")
    /\ pulled' = [pulled EXCEPT ![e] = reply.delta]
    /\ pc' = [pc EXCEPT ![e] = "pulling"]
    /\ sent' = [sent EXCEPT ![e] = {}]
    /\ replies' = replies \ {reply}
    /\ requests' = Outlasting(e)
    /\ UNCHANGED <<store, known, outbox, task>>

\* One turn of the loop over the pulled operations.
ApplyPulled(e, change) ==
    /\ change \in pulled[e]
    /\ known' = [known EXCEPT ![e] = Merge(@, change.body.vc)]
    /\ IntegrateAt(e, change)
    /\ pulled' = [pulled EXCEPT ![e] = @ \ {change}]
    /\ UNCHANGED <<outbox, status, pc, sent, requests, replies, task>>

EndSync(e) ==
    /\ pc[e] = "pulling" /\ pulled[e] = {}
    /\ pc' = [pc EXCEPT ![e] = "idle"]
    /\ UNCHANGED <<store, known, outbox, status, sent, pulled, requests,
                   replies, task>>

\* The turn raises after the clock was merged: the rest of the delta is dropped.
PullRaises(e, change) ==
    /\ "pull" \in Faults
    /\ change \in pulled[e]
    /\ known' = [known EXCEPT ![e] = Merge(@, change.body.vc)]
    /\ pulled' = [pulled EXCEPT ![e] = {}]
    /\ pc' = [pc EXCEPT ![e] = "idle"]
    /\ UNCHANGED <<store, outbox, status, sent, requests, replies, task>>

\* The process dies; the next engine starts with an empty global clock.
Restart(e) ==
    /\ "restart" \in Faults
    /\ Abandonable(e)
    /\ known' = [known EXCEPT ![e] = EmptyClock]
    /\ Mark(e, InState(e, "failed"), "pending")
    /\ pc' = [pc EXCEPT ![e] = "idle"]
    /\ sent' = [sent EXCEPT ![e] = {}]
    /\ pulled' = [pulled EXCEPT ![e] = {}]
    /\ UNCHANGED <<store, outbox, requests, replies, task>>

-----------------------------------------------------------------------------
(* The HQ in handle_sync_request.                                          *)

\* A transport that retries delivers the same request again; unless answers
\* may be late, it has then given up the answer to the first attempt.
HQTakes(request) ==
    /\ task = NoTask
    /\ task' = [request |-> request, done |-> 0]
    /\ \/ requests' = requests \ {request}
       \/ "redelivery" \in Faults /\ UNCHANGED requests
    /\ replies' = {reply \in replies :
                     "late" \in Faults \/ reply.to # request.from}
    /\ UNCHANGED <<store, edgeVars>>

\* The next operation of the request; its content is that of the outbox row.
HQApplies ==
    /\ task # NoTask
    /\ task.done < Len(task.request.ids)
    /\ IntegrateAt(HQ, outbox[task.request.from][task.request.ids[task.done + 1]])
    /\ task' = [task EXCEPT !.done = @ + 1]
    /\ UNCHANGED <<edgeVars, requests, replies>>

\* get_all_collections: a collection without a live record is not listed.
Listed(k) ==
    \E j \in Key : /\ CollectionOf[j] = CollectionOf[k]
                   /\ store[HQ][j] # NoRecord
                   /\ ~store[HQ][j].deleted

\* Mutant: the two clocks are compared the wrong way round.
Delta_Swapped(e, vc) ==
    {[key  |-> k,
      body |-> [type    |-> IF store[HQ][k].deleted THEN "delete" ELSE "update",
                node    |-> store[HQ][k].by,
                payload |-> store[HQ][k].data,
                ts      |-> store[HQ][k].ts,
                vc      |-> store[HQ][k].vc]] :
        k \in {j \in Key : /\ store[HQ][j] # NoRecord
                           /\ Listed(j)
                           /\ store[HQ][j].by # e
                           /\ Compare(store[HQ][j].vc, vc)
                                 \in {"before", "concurrent"}}}

\* _get_operations_for_peer: the clock of the peer as a whole is compared with
\* the clock of each record.
Delta(e, vc) ==
    LET missing ==
          {k \in Key :
              /\ store[HQ][k] # NoRecord
              /\ Listed(k)
              /\ store[HQ][k].by # e
              /\ Compare(vc, store[HQ][k].vc) \in {"before", "concurrent"}}
        change(k, rec) ==
          [key  |-> k,
           body |-> [type    |-> IF rec.deleted THEN "delete" ELSE "update",
                     node    |-> rec.by,
                     payload |-> rec.data,
                     ts      |-> rec.ts,
                     vc      |-> rec.vc]]
    IN  {change(k, store[HQ][k]) : k \in missing}

\* Every operation of the request is acknowledged, applied or discarded.
HQAnswers ==
    /\ task # NoTask
    /\ task.done = Len(task.request.ids)
    /\ replies' = replies \cup
          {[to    |-> task.request.from,
            ok    |-> TRUE,
            acked |-> ToSet(task.request.ids),
            delta |-> Delta(task.request.from, task.request.vc)]}
    /\ task' = NoTask
    /\ UNCHANGED <<store, edgeVars, requests>>

\* The HQ refuses the request, or some operation of it raises; what was applied
\* before stays applied.
HQRefuses ==
    /\ task # NoTask
    /\ replies' = replies \cup
          {[to |-> task.request.from, ok |-> FALSE, acked |-> {}, delta |-> {}]}
    /\ task' = NoTask
    /\ UNCHANGED <<store, edgeVars, requests>>

\* The HQ dies: its lock and the request are gone, its records are not.
HQCrashes ==
    /\ "restart" \in Faults
    /\ task # NoTask
    /\ task' = NoTask
    /\ UNCHANGED <<store, edgeVars, requests, replies>>

LoseRequest(request) ==
    /\ requests' = requests \ {request}
    /\ UNCHANGED <<store, edgeVars, replies, task>>

LoseReply(reply) ==
    /\ replies' = replies \ {reply}
    /\ UNCHANGED <<store, edgeVars, requests, task>>

-----------------------------------------------------------------------------

Application ==
    \E e \in Writers, k \in Key, type \in WriteTypes, payload \in Payloads,
       ts \in Times :
          \E priority \in Tiers[e] : Write(e, k, type, payload, ts, priority)

Sync(e) ==
    \/ \E cutoff \in Cutoffs : BeginSync(e, cutoff)
    \/ Timeout(e)
    \/ \E reply \in replies :
          reply.to = e /\ (RefusedByHQ(e, reply) \/ Receive(e, reply))
    \/ \E change \in pulled[e] : ApplyPulled(e, change) \/ PullRaises(e, change)
    \/ EndSync(e)
    \/ Restart(e)

Server ==
    \/ \E request \in requests : HQTakes(request) \/ LoseRequest(request)
    \/ HQApplies \/ HQAnswers \/ HQRefuses \/ HQCrashes
    \/ \E reply \in replies : LoseReply(reply)

Next == Application \/ (\E e \in Edge : Sync(e)) \/ Server

Spec == Init /\ [][Next]_vars

-----------------------------------------------------------------------------
(* Properties.                                                             *)

Live(rec) == rec # NoRecord /\ ~rec.deleted

\* What a reader of a site sees of a record, and which version it is.
Visible(rec) == IF Live(rec) THEN <<rec.data, rec.vc>> ELSE <<>>

\* No step of any site, local or remote, takes a live record back to a version
\* that causally precedes it (the "after" and "equal" branches of resolve).
LiveRecordsOnlyMoveForward ==
    [][\A s \in Site, k \in Key :
          Live(store[s][k]) =>
             \/ store'[s][k] = store[s][k]
             \/ /\ store'[s][k] # NoRecord
                /\ Compare(store'[s][k].vc, store[s][k].vc)
                      \in {"after", "concurrent"}]_vars

\* The places in the outboxes of the edges of the deletes of a record.
Deletes(k) ==
    UNION {{i \in DOMAIN outbox[e] : /\ outbox[e][i].key = k
                                     /\ outbox[e][i].body.type = "delete"} :
              e \in Edge}

\* The edges whose applications have written a record.
AuthorsOf(k) ==
    {e \in Edge : \E i \in DOMAIN outbox[e] : outbox[e][i].key = k}

\* The record at the HQ is no version older than an acknowledged operation on it.
ReflectsAcked(k) ==
    \A e \in Edge : \A i \in InState(e, "synced") :
        outbox[e][i].key = k =>
           Compare(RecordClock(store[HQ][k]), outbox[e][i].body.vc) # "before"

\* An acknowledged operation on a record nobody deleted is reflected by the
\* record at the HQ, which is never, then or later, a version older than the
\* operation (the acknowledgements of handle_sync_request, mark_synced, and the
\* "after" branch of resolve).  A third author can take the HQ back to such a
\* version: what it writes beats the operation by its timestamp and then loses,
\* by its node id and within the tolerance, to the version the operation was
\* made on, which its own author sends again.
AckedIsReflected ==
    \A k \in Key :
        Deletes(k) = {} /\ Cardinality(AuthorsOf(k)) =< 2 => ReflectsAcked(k)

\* tests/test_server.py:56: the same request again, after its answer was lost,
\* is "idempotent": the HQ does not go back to an acknowledged version that the
\* same edge has deleted since, with an acknowledged delete.
RepeatIsIdempotent ==
    \A e \in Edge : \A i, j \in InState(e, "synced") :
        LET old == outbox[e][i]
            new == outbox[e][j]
        IN  i < j /\ old.key = new.key /\ new.body.type = "delete"
               => store[HQ][old.key] # ApplyOperation(NoRecord, old.body)

\* The record of edge e after it integrated what the HQ would send it now.
AfterPull(e, k) ==
    LET changes == {c \in Delta(e, known[e]) : c.key = k}
    IN  IF changes = {} THEN store[e][k]
        ELSE Integrate(store[e][k], (CHOOSE c \in changes : TRUE).body)

\* The edges whose applications have written anything.
Authors == {e \in Edge : outbox[e] # <<>>}

\* The global clock of an edge claims no version its records do not show.
ShowsWhatItKnows(e) ==
    \A n \in Node : \E k \in Key : known[e][n] =< RecordClock(store[e][k])[n]

\* server.py:168: the delta holds the "operations on server that sender does
\* not have": as long as one edge writes, an edge without unsent writes whose
\* pulls did not raise half way sees what the HQ has once it pulls.
SettledAgreement ==
    Cardinality(Authors) =< 1 =>
        \A e \in Edge :
            /\ pc[e] = "idle"
            /\ InState(e, "synced") = DOMAIN status[e]
            /\ ShowsWhatItKnows(e)
            => \A k \in Key :
                  Visible(AfterPull(e, k)) = Visible(store[HQ][k])

=============================================================================
