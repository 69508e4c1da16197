---------------------------- MODULE FileExchange -----------------------------
(***************************************************************************)
(* Sessions over FileTransport (src/transports/file.py): the push and the  *)
(* answer are bundle files that somebody carries, once, more often, late,  *)
(* half copied or to the wrong site.  At the other end a process of the HQ *)
(* takes a bundle, calls handle_sync_request of src/server.py and exports  *)
(* the answer; its registry of nodes is part of the model.  The records    *)
(* and the batches are the business of other modules.                      *)
(***************************************************************************)
EXTENDS Naturals, Sequences, FiniteSets, SequencesExt

CONSTANTS
    Edge, HQ,       \* the sites
    Shared,         \* edges without an import_dir: it is their export_dir
    Op, Owner,      \* the operations, and the edge that queues each
    Known,          \* the edges an operator registers
    Required,       \* ServerConfig.node_registration_required
    MaxSyncs, MaxCopies, MaxCrashes     \* bounds

Site == Edge \cup {HQ}

ASSUME FileAssumption ==
    /\ HQ \notin Edge /\ Shared \subseteq Edge
    /\ IsFiniteSet(Op) /\ Owner \in [Op -> Edge]
    /\ Known \subseteq Edge
    /\ Required \in BOOLEAN
    /\ {MaxSyncs, MaxCopies, MaxCrashes} \subseteq Nat

VARIABLES
    dir,            \* the bundles of each directory, oldest first
    syncState,      \* sync_state of the row of an operation, "none": no row
    session, batch, \* where each edge is in sync_now, and its pending_ops
    hand,           \* the request the HQ is working on
    processed,      \* operations the HQ has resolved and applied
    registered, keyed, total,
                    \* sync_nodes: the rows, those with a public key, and
                    \* total_ops_synced; the metadata are left out
    syncs, copies, crashes

queue == <<syncState, session, batch>>
registry == <<registered, keyed, total>>
bounds == <<syncs, copies, crashes>>
vars == <<dir, queue, hand, processed, registry, bounds>>

In(site) == IF site \in Shared THEN <<site, "out">> ELSE <<site, "in">>
Out(site) == <<site, "out">>
Directory == Site \X {"in", "out"}

Push == [kind : {"push"}, from : Site, ops : SUBSET Op]
Answer == [kind : {"answer"}, ok : BOOLEAN, acked : SUBSET Op]
File == [whole : BOOLEAN, body : Push \cup Answer]
NoRequest == [stage |-> "none"]

TypeOK ==
    /\ dir \in [Directory -> Seq(File)]
    /\ syncState \in [Op -> {"none", "pending", "synced", "failed"}]
    /\ session \in [Edge -> {"idle", "sent"}]
    /\ batch \in [Edge -> SUBSET Op]
    /\ hand \in {NoRequest}
                \cup [stage : {"push", "applied"}, request : Push]
                \cup [stage : {"answer"}, answer : Answer]
    /\ processed \subseteq Op
    /\ registered \subseteq Site /\ keyed \subseteq Site
    /\ total \in [Site -> Nat]
    /\ {syncs, copies, crashes} \subseteq Nat

Init ==
    /\ dir = [d \in Directory |-> <<>>]
    /\ syncState = [o \in Op |-> "none"]
    /\ session = [e \in Edge |-> "idle"]
    /\ batch = [e \in Edge |-> {}]
    /\ hand = NoRequest
    /\ processed = {}
    /\ registered = {} /\ keyed = {}
    /\ total = [s \in Site |-> 0]
    /\ syncs = 0 /\ copies = 0 /\ crashes = 0

-----------------------------------------------------------------------------
(* FileTransport.                                                          *)

\* send: the framed bundle appears under its name at once.
Written(d, body) ==
    dir' = [dir EXCEPT ![d] = Append(@, [whole |-> TRUE, body |-> body])]

\* Mutant: an unreadable bundle ends the search.
Oldest_StopsAtTorn(d) == {i \in DOMAIN dir[d] : i = 1 /\ dir[d][i].whole}

\* receive: the oldest bundle that unframes, or none.
Oldest(d) ==
    {i \in DOMAIN dir[d] : dir[d][i].whole /\ \A j \in 1 .. i - 1 : ~dir[d][j].whole}

\* It moves to .processed and its payload is returned.
Consumed(d, i) == dir' = [dir EXCEPT ![d] = RemoveAt(@, i)]

-----------------------------------------------------------------------------
(* The edges: sync_now with send_receive of a file link.                   *)

Mark(ops, state) ==
    syncState' = [o \in Op |-> IF o \in ops /\ syncState[o] # "none"
                               THEN state ELSE syncState[o]]

EndSession(e) ==
    /\ session' = [session EXCEPT ![e] = "idle"]
    /\ batch' = [batch EXCEPT ![e] = {}]

Enqueue(o) ==
    /\ syncState[o] = "none"
    /\ syncState' = [syncState EXCEPT ![o] = "pending"]
    /\ UNCHANGED <<dir, session, batch, hand, processed, registry, bounds>>

Pending(e) == {o \in Op : Owner[o] = e /\ syncState[o] = "pending"}

Export(e) ==
    /\ session[e] = "idle"
    /\ syncs < MaxSyncs
    /\ syncs' = syncs + 1
    /\ batch' = [batch EXCEPT ![e] = Pending(e)]
    /\ session' = [session EXCEPT ![e] = "sent"]
    /\ Written(Out(e), [kind |-> "push", from |-> e, ops |-> Pending(e)])
    /\ UNCHANGED <<syncState, hand, processed, registry, copies, crashes>>

\* The medium cannot be written: no answer, the whole batch is failed.
ExportFails(e) ==
    /\ session[e] = "idle"
    /\ syncs < MaxSyncs
    /\ syncs' = syncs + 1
    /\ Mark(Pending(e), "failed")
    /\ UNCHANGED <<dir, session, batch, hand, processed, registry,
                   copies, crashes>>

\* Mutant: the batch is left in a state of its own.
NoAnswer_InFlight(e) ==
    /\ session[e] = "sent"
    /\ Oldest(In(e)) = {}
    /\ Mark(batch[e], "in_flight")
    /\ EndSession(e)
    /\ UNCHANGED <<dir, hand, processed, registry, bounds>>

NoAnswer(e) ==
    /\ session[e] = "sent"
    /\ Oldest(In(e)) = {}
    /\ Mark(batch[e], "failed")
    /\ EndSession(e)
    /\ UNCHANGED <<dir, hand, processed, registry, bounds>>

\* Mutant: the answer is taken to acknowledge the batch of this session.
ReadsAnswer_WholeBatch(e) ==
    /\ session[e] = "sent"
    /\ \E i \in Oldest(In(e)) :
          LET answer == dir[In(e)][i].body
          IN  /\ answer.kind = "answer"
              /\ Consumed(In(e), i)
              /\ Mark(batch[e], IF answer.ok THEN "synced" ELSE "failed")
    /\ EndSession(e)
    /\ UNCHANGED <<hand, processed, registry, bounds>>

\* Whatever push the answer belongs to: it acknowledges the rows it names.
ReadsAnswer(e) ==
    /\ session[e] = "sent"
    /\ \E i \in Oldest(In(e)) :
          LET answer == dir[In(e)][i].body
          IN  /\ answer.kind = "answer"
              /\ Consumed(In(e), i)
              /\ IF answer.ok
                 THEN Mark({o \in answer.acked : Owner[o] = e}, "synced")
                 ELSE Mark(batch[e], "failed")
    /\ EndSession(e)
    /\ UNCHANGED <<hand, processed, registry, bounds>>

\* A push, its own or another's, has no status: SyncPullResponse.deserialize
\* raises, the bundle is gone and the batch stays pending.
ReadsPush(e) ==
    /\ session[e] = "sent"
    /\ \E i \in Oldest(In(e)) :
          /\ dir[In(e)][i].body.kind = "push"
          /\ Consumed(In(e), i)
    /\ EndSession(e)
    /\ UNCHANGED <<syncState, hand, processed, registry, bounds>>

\* The process of an edge dies and starts again: reset_in_flight.
Restart(e) ==
    /\ crashes < MaxCrashes
    /\ crashes' = crashes + 1
    /\ Mark({o \in Op : Owner[o] = e /\ syncState[o] = "failed"}, "pending")
    /\ EndSession(e)
    /\ UNCHANGED <<dir, hand, processed, registry, syncs, copies>>

-----------------------------------------------------------------------------
(* The HQ.                                                                 *)

\* Mutant: the row is replaced.
RegisterNode_Replaces(node, key) ==
    /\ registered' = registered \cup {node}
    /\ keyed' = IF key THEN keyed \cup {node} ELSE keyed \ {node}

\* register_node: a row that exists keeps its count, and its key when no other
\* is given.
RegisterNode(node, key) ==
    /\ registered' = registered \cup {node}
    /\ keyed' = IF key THEN keyed \cup {node} ELSE keyed

OperatorRegisters(e) ==
    /\ e \in Known
    /\ \E key \in BOOLEAN : RegisterNode(e, key)
    /\ UNCHANGED <<dir, queue, hand, processed, total, bounds>>

\* The process of the HQ takes a bundle.  An answer has all the fields of a
\* push and is taken for a push of the HQ itself.
HQReceives ==
    /\ hand = NoRequest
    /\ \E i \in Oldest(In(HQ)) :
          LET body == dir[In(HQ)][i].body
          IN  /\ Consumed(In(HQ), i)
              /\ hand' = [stage |-> "push", request |->
                    IF body.kind = "push" THEN body
                    ELSE [kind |-> "push", from |-> HQ, ops |-> {}]]
    /\ UNCHANGED <<queue, processed, registry, bounds>>

Responds(ok, acked) ==
    hand' = [stage |-> "answer",
             answer |-> [kind |-> "answer", ok |-> ok, acked |-> acked]]

\* Mutant: the telemetry of the refused node is recorded all the same.
HQRefuses_Records ==
    /\ hand.stage = "push"
    /\ Required /\ hand.request.from \notin registered
    /\ RegisterNode(hand.request.from, FALSE)
    /\ Responds(FALSE, {})
    /\ UNCHANGED <<dir, queue, processed, total, bounds>>

HQRefuses ==
    /\ hand.stage = "push"
    /\ Required /\ hand.request.from \notin registered
    /\ Responds(FALSE, {})
    /\ UNCHANGED <<dir, queue, processed, registry, bounds>>

Admits(request) == Required => request.from \in registered

HQApplies ==
    /\ hand.stage = "push"
    /\ Admits(hand.request)
    /\ processed' = processed \cup hand.request.ops
    /\ hand' = [hand EXCEPT !.stage = "applied"]
    /\ UNCHANGED <<dir, queue, registry, bounds>>

\* Some operation raises: those before it are applied.
HQFails ==
    /\ hand.stage = "push"
    /\ Admits(hand.request)
    /\ \E done \in SUBSET hand.request.ops : processed' = processed \cup done
    /\ Responds(FALSE, {})
    /\ UNCHANGED <<dir, queue, registry, bounds>>

\* Mutant: the row is counted first and then registered as a new one.
HQCounts_Replaced ==
    /\ hand.stage = "applied"
    /\ RegisterNode(hand.request.from, FALSE)
    /\ total' = [total EXCEPT ![hand.request.from] = 0]
    /\ Responds(TRUE, hand.request.ops)
    /\ UNCHANGED <<dir, queue, processed, bounds>>

\* _update_node_sync_telemetry, before the answer is made.
HQCounts ==
    /\ hand.stage = "applied"
    /\ RegisterNode(hand.request.from, FALSE)
    /\ total' = [total EXCEPT ![hand.request.from] =
                    @ + Cardinality(hand.request.ops)]
    /\ Responds(TRUE, hand.request.ops)
    /\ UNCHANGED <<dir, queue, processed, bounds>>

HQAnswers ==
    /\ hand.stage = "answer"
    /\ Written(Out(HQ), hand.answer)
    /\ hand' = NoRequest
    /\ UNCHANGED <<queue, processed, registry, bounds>>

\* The process of the HQ dies: the request in hand is lost.
HQCrashes ==
    /\ hand # NoRequest
    /\ crashes < MaxCrashes
    /\ crashes' = crashes + 1
    /\ hand' = NoRequest
    /\ UNCHANGED <<dir, queue, processed, registry, syncs, copies>>

-----------------------------------------------------------------------------
(* Whoever carries the files.                                              *)

\* A bundle is copied to the import directory of another site, to the end or
\* not; the original stays.
Carry(source, target) ==
    /\ source # target
    /\ copies < MaxCopies
    /\ copies' = copies + 1
    /\ \E i \in DOMAIN dir[Out(source)], whole \in BOOLEAN :
          dir' = [dir EXCEPT ![In(target)] =
                    Append(@, [dir[Out(source)][i] EXCEPT !.whole = whole])]
    /\ UNCHANGED <<queue, hand, processed, registry, syncs, crashes>>

\* A copy is completed, and with it the time the file was modified.
FinishCopy(target) ==
    /\ \E i \in DOMAIN dir[In(target)] :
          /\ ~dir[In(target)][i].whole
          /\ dir' = [dir EXCEPT ![In(target)] =
                       Append(RemoveAt(@, i), [@[i] EXCEPT !.whole = TRUE])]
    /\ UNCHANGED <<queue, hand, processed, registry, bounds>>

-----------------------------------------------------------------------------

EdgeStep(e) ==
    \/ Export(e) \/ ExportFails(e) \/ NoAnswer(e) \/ ReadsAnswer(e)
    \/ ReadsPush(e) \/ Restart(e)

HQStep == HQReceives \/ HQRefuses \/ HQApplies \/ HQFails \/ HQCounts \/ HQAnswers

Next ==
    \/ \E o \in Op : Enqueue(o)
    \/ \E e \in Edge : EdgeStep(e) \/ OperatorRegisters(e)
    \/ HQStep \/ HQCrashes
    \/ \E source, target \in Site : Carry(source, target)
    \/ \E target \in Site : FinishCopy(target)

Spec == Init /\ [][Next]_vars

\* The process of the HQ keeps working; nobody else has to do anything.
FairSpec == Spec /\ WF_vars(HQStep)

-----------------------------------------------------------------------------
(* Properties.                                                             *)

Settled == {o \in Op : syncState[o] = "synced"}

Delivery == INSTANCE ReliableDelivery
    WITH accepted <- {o \in Op : syncState[o] # "none"},
         delivered <- processed, settled <- Settled

\* The carried sessions implement the abstract ReliableDelivery: an operation
\* is settled only after the HQ has it, also when the answer that names it is
\* to another push, comes twice or was carried to another edge.
DeliverySpec == Delivery!Spec

\* What the HQ reports as total_ops_synced covers all operations a node may
\* consider synced, whatever the HQ lost in a crash (it counts before it
\* answers); carried twice, a push is counted twice.
CountsCoverSettled ==
    \A e \in Edge : Cardinality({o \in Settled : Owner[o] = e}) =< total[e]

\* Where registration is required, no operation of a node that no operator
\* registers is applied: syncing again does not make a node known.
OnlyAdmitted == Required => \A o \in processed : Owner[o] \in Known

\* Neither a sync nor another registration takes the public key of a node or
\* lowers its count.
RegistryKeeps ==
    [][keyed \subseteq keyed' /\ \A s \in Site : total[s] =< total'[s]]_vars

\* A bundle the HQ can read is read, an unreadable older one notwithstanding.
TornNeverBlocks ==
    (\E i \in DOMAIN dir[In(HQ)] : dir[In(HQ)][i].whole)
        ~> (\A i \in DOMAIN dir[In(HQ)] : ~dir[In(HQ)][i].whole)

=============================================================================
