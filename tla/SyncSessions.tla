---------------------------- MODULE SyncSessions -----------------------------
(***************************************************************************)
(* The life of an operation between the outbox of an edge and the HQ:      *)
(* DDILSyncEngine.sync_now and _background_loop of src/engine.py, run by   *)
(* the background worker and by application threads, over the outbox of    *)
(* OutboxQueue, a network that loses, delays and repeats messages, and the *)
(* acknowledgement logic of handle_sync_request of src/server.py.  What    *)
(* the operations do to records is the business of other modules.          *)
(***************************************************************************)
EXTENDS OutboxQueue

CONSTANTS
    Workers,            \* the background thread, or none
    Callers,            \* application threads that call sync_now
    Priorities,         \* the tiers the application may give each operation
    Bandwidths,         \* what estimate_bandwidth may answer, in kbit/s
    BatchSize,          \* EngineConfig.batch_size
    MediumCap, SmallCap, TinyCap,   \* 50, 20 and 5 in _calculate_batch_size
    MaxBoots            \* bound on restarts and console starts

Thread == Workers \cup Callers

LowThreshold == 128     \* low_bandwidth_threshold_bps
HighThreshold == 1000   \* high_bandwidth_threshold_bps
RadioThreshold == 16    \* the literal of both functions below

ASSUME SessionAssumption ==
    /\ Workers \cap Callers = {}
    /\ Priorities \in [Op -> SUBSET Tier]
    /\ Bandwidths \subseteq Nat
    /\ {BatchSize, MediumCap, SmallCap, TinyCap} \subseteq Nat
    /\ MaxBoots \in Nat

VARIABLES
    created,            \* operations the application has enqueued
    clock,              \* the wall clock the operations are stamped with
    engineState,        \* _state
    pc,                 \* where each thread is in sync_now
    batch,              \* pending_ops of its session
    requests,           \* pushes that may still reach the HQ
    replies,            \* answers that may still reach the edge
    processed,          \* operations the HQ has resolved and applied
    boots               \* restarts so far

hqVars == <<requests, replies, processed>>
vars == <<queueVars, created, clock, engineState, pc, batch, hqVars, boots>>

Place == {"idle", "starting", "begun", "sent", "pulling", "closing"}

TypeOK ==
    /\ QueueTypeOK
    /\ created \subseteq Op
    /\ clock \in Nat
    /\ engineState \in {"disconnected", "connected", "syncing", "error"}
    /\ pc \in [Thread -> Place]
    /\ batch \in [Thread -> SUBSET Op]
    /\ requests \subseteq SUBSET Op
    /\ replies \subseteq [ok : BOOLEAN, acked : SUBSET Op]
    /\ processed \subseteq Op
    /\ boots \in Nat

Init ==
    /\ QueueInit
    /\ created = {}
    /\ clock = 0
    /\ engineState = "disconnected"
    /\ pc = [t \in Thread |-> "idle"]
    /\ batch = [t \in Thread |-> {}]
    /\ requests = {}
    /\ replies = {}
    /\ processed = {}
    /\ boots = 0

Goto(t, place) == pc' = [pc EXCEPT ![t] = place]

-----------------------------------------------------------------------------
(* The application.                                                        *)

\* create, update, merge or delete queues its operation; the clock may or may
\* not have moved since the last one.
Enqueue(o, priority) ==
    /\ o \notin created
    /\ created' = created \cup {o}
    /\ clock' \in {clock, clock + 1}
    /\ enqueue(o, priority, clock')
    /\ UNCHANGED <<engineState, pc, batch, hqVars, boots>>

-----------------------------------------------------------------------------
(* sync_now.                                                               *)

BatchLimit(bandwidth) ==
    LET cap(n) == IF BatchSize < n THEN BatchSize ELSE n
    IN  IF bandwidth > HighThreshold THEN BatchSize
        ELSE IF bandwidth > LowThreshold THEN cap(MediumCap)
        ELSE IF bandwidth > RadioThreshold THEN cap(SmallCap)
        ELSE cap(TinyCap)

PriorityCutoff(bandwidth) ==
    IF bandwidth >= HighThreshold THEN 4
    ELSE IF bandwidth >= LowThreshold THEN 3
    ELSE IF bandwidth >= RadioThreshold THEN 2
    ELSE 0

\* An application thread calls sync_now at any time; the worker calls it from
\* its loop.  No lock keeps two calls apart.
Calling(t) == pc[t] = IF t \in Workers THEN "starting" ELSE "idle"

\* No transport answers the probe.
SyncOffline(t) ==
    /\ Calling(t)
    /\ engineState' = "disconnected"
    /\ Goto(t, "idle")
    /\ UNCHANGED <<queueVars, created, clock, batch, hqVars, boots>>

Begin(t) ==
    /\ Calling(t)
    /\ engineState' = "syncing"
    /\ Goto(t, "begun")
    /\ UNCHANGED <<queueVars, created, clock, batch, hqVars, boots>>

\* The lock is taken, the batch is read and the request handed to the network.
SendAt(t, bandwidth) ==
    /\ pc[t] = "begun"
    /\ lock
    /\ \E ops \in get_pending(BatchLimit(bandwidth), PriorityCutoff(bandwidth)) :
          /\ batch' = [batch EXCEPT ![t] = ops]
          /\ requests' = requests \cup {ops}
    /\ Goto(t, "sent")
    /\ UNCHANGED <<syncState, tier, stamp, created, clock, engineState,
                   replies, processed, boots>>

Send(t) == \E bandwidth \in Bandwidths : SendAt(t, bandwidth)

\* Mutant: the early return leaves the reported state alone.
ExchangeFails_StillSyncing(t) ==
    /\ pc[t] = "sent"
    /\ mark_failed(batch[t])
    /\ Goto(t, "closing")
    /\ UNCHANGED <<created, clock, engineState, batch, hqVars, boots>>

\* The exchange fails or times out; the HQ may have got the request all the same.
ExchangeFails(t) ==
    /\ pc[t] = "sent"
    /\ mark_failed(batch[t])
    /\ engineState' = "connected"
    /\ Goto(t, "closing")
    /\ UNCHANGED <<created, clock, batch, hqVars, boots>>

\* An answer arrives.  Neither its session_id nor the operations it names are
\* compared with what was sent, and a file or serial link may deliver the
\* answer to an earlier request.
Answered(t, reply) ==
    /\ pc[t] = "sent"
    /\ reply \in replies
    /\ replies' = replies \ {reply}
    /\ UNCHANGED <<created, clock, batch, requests, processed, boots>>

\* Mutant: the answer is taken to acknowledge the batch of this session.
AcceptReply_WholeBatch(t) ==
    \E reply \in replies :
        /\ Answered(t, reply)
        /\ reply.ok
        /\ mark_synced(batch[t])
        /\ Goto(t, "pulling")
        /\ UNCHANGED engineState

AcceptReply(t) ==
    \E reply \in replies :
        /\ Answered(t, reply)
        /\ reply.ok
        /\ mark_synced(reply.acked)
        /\ Goto(t, "pulling")
        /\ UNCHANGED engineState

RefusedByHQ(t) ==
    \E reply \in replies :
        /\ Answered(t, reply)
        /\ ~reply.ok
        /\ mark_failed(batch[t])
        /\ engineState' = "connected"
        /\ Goto(t, "closing")

\* All pulled operations have been integrated.
FinishPull(t) ==
    /\ pc[t] = "pulling"
    /\ engineState' = "connected"
    /\ Goto(t, "closing")
    /\ UNCHANGED <<queueVars, created, clock, batch, hqVars, boots>>

\* The except branch: the probe of the bandwidth, the database, the decoding
\* of the answer or the decryption of its payload raises.
SyncRaises(t) ==
    /\ pc[t] \in {"begun", "sent", "pulling"}
    /\ engineState' = "error"
    /\ Goto(t, "closing")
    /\ UNCHANGED <<queueVars, created, clock, batch, hqVars, boots>>

\* Mutant: the lock is not given back.
Close_StillLocked(t) ==
    /\ pc[t] = "closing"
    /\ batch' = [batch EXCEPT ![t] = {}]
    /\ Goto(t, "idle")
    /\ UNCHANGED <<queueVars, created, clock, engineState, hqVars, boots>>

\* The finally branch.
Close(t) ==
    /\ pc[t] = "closing"
    /\ unlock
    /\ batch' = [batch EXCEPT ![t] = {}]
    /\ Goto(t, "idle")
    /\ UNCHANGED <<syncState, tier, stamp, created, clock, engineState,
                   hqVars, boots>>

-----------------------------------------------------------------------------
(* _background_loop.                                                       *)

\* Mutant: after an error the worker waits for somebody to reconnect.
PollUp_OnlyConnected(w) ==
    /\ pc[w] = "idle"
    /\ engineState' = IF engineState = "disconnected" THEN "connected"
                                                      ELSE engineState
    /\ Goto(w, IF engineState' = "connected" /\ InState("pending") # {}
               THEN "starting" ELSE "idle")
    /\ UNCHANGED <<queueVars, created, clock, batch, hqVars, boots>>

\* A transport is up: the worker starts a session when something is pending.
PollUp(w) ==
    /\ pc[w] = "idle"
    /\ engineState' = IF engineState = "disconnected" THEN "connected"
                                                      ELSE engineState
    /\ Goto(w, IF InState("pending") # {} THEN "starting" ELSE "idle")
    /\ UNCHANGED <<queueVars, created, clock, batch, hqVars, boots>>

PollDown(w) ==
    /\ pc[w] = "idle"
    /\ engineState' = "disconnected"
    /\ UNCHANGED <<queueVars, created, clock, pc, batch, hqVars, boots>>

\* The hourly retention purge, between two polls.
Purge(w) ==
    /\ pc[w] = "idle"
    /\ \E old \in SUBSET Op : purge_synced(old)
    /\ UNCHANGED <<created, clock, engineState, pc, batch, hqVars, boots>>

-----------------------------------------------------------------------------
(* The network and the HQ.  A lost message is one that is never delivered. *)

\* The request is kept: a transport that retries delivers it again.
HQProcesses(request) ==
    /\ processed' = processed \cup request
    /\ replies' = replies \cup {[ok |-> TRUE, acked |-> request]}
    /\ UNCHANGED <<queueVars, created, clock, engineState, pc, batch,
                   requests, boots>>

\* Mutant: a push that raised half way is acknowledged as a whole.
HQRefuses_Acknowledged(request) ==
    /\ \E done \in SUBSET request :
          /\ \A a \in done, b \in request \ done : ~Before(b, a)
          /\ processed' = processed \cup done
    /\ replies' = replies \cup {[ok |-> TRUE, acked |-> request]}
    /\ UNCHANGED <<queueVars, created, clock, engineState, pc, batch,
                   requests, boots>>

\* The HQ refuses the request or raises at some operation of it: the ones
\* before it, in the order of the batch, are applied and not acknowledged.
HQRefuses(request) ==
    /\ \E done \in SUBSET request :
          /\ \A a \in done, b \in request \ done : ~Before(b, a)
          /\ processed' = processed \cup done
    /\ replies' = replies \cup {[ok |-> FALSE, acked |-> {}]}
    /\ UNCHANGED <<queueVars, created, clock, engineState, pc, batch,
                   requests, boots>>

-----------------------------------------------------------------------------
(* Crashes and other processes.                                            *)

\* The process dies and a new engine is constructed on its database.
Restart ==
    /\ boots < MaxBoots
    /\ boots' = boots + 1
    /\ reset_in_flight
    /\ syncLocked' = FALSE
    /\ engineState' = "disconnected"
    /\ pc' = [t \in Thread |-> "idle"]
    /\ batch' = [t \in Thread |-> {}]
    /\ UNCHANGED <<tier, stamp, created, clock, hqVars>>

\* A command of the console constructs a second engine on the same database.
OpenConsole ==
    /\ boots < MaxBoots
    /\ boots' = boots + 1
    /\ reset_in_flight
    /\ UNCHANGED <<tier, stamp, syncLocked, created, clock, engineState, pc,
                   batch, hqVars>>

-----------------------------------------------------------------------------

Application ==
    \E o \in Op : \E priority \in Priorities[o] : Enqueue(o, priority)

SessionStep(t) ==
    \/ SyncOffline(t) \/ Begin(t) \/ Send(t)
    \/ ExchangeFails(t) \/ AcceptReply(t) \/ RefusedByHQ(t)
    \/ FinishPull(t) \/ SyncRaises(t) \/ Close(t)

WorkerStep(w) == PollUp(w) \/ PollDown(w) \/ Purge(w)

Network ==
    \E request \in requests : HQProcesses(request) \/ HQRefuses(request)

Next ==
    \/ Application
    \/ \E t \in Thread : SessionStep(t)
    \/ \E w \in Workers : WorkerStep(w)
    \/ Network
    \/ Restart
    \/ OpenConsole

Spec == Init /\ [][Next]_vars

-----------------------------------------------------------------------------
(* Safety, for any number of threads.                                      *)

\* The edge stops sending an operation only after the HQ has it: a row is
\* synced (mark_synced) only for an operation the HQ processed, also when the
\* answer that acknowledges it is late or belongs to another session.
SyncedWasProcessed ==
    \A o \in Op : syncState[o] = "synced" => o \in processed

\* An operation the application queued is in the outbox until the HQ has it:
\* no step of purge_synced, mark_failed or reset_in_flight loses it.
NothingVanishes ==
    \A o \in created : syncState[o] = "none" => o \in processed

-----------------------------------------------------------------------------
(* Safety when a single thread runs sync_now.                              *)

InSession(t) == pc[t] \in {"begun", "sent", "pulling"}

\* engine.py:35: SYNCING means "Sync session actively executing".
SyncingMeansSession ==
    engineState = "syncing" <=> \E t \in Thread : InSession(t)

\* An acknowledged operation stays acknowledged: it leaves the synced state
\* only through the retention purge ("in-flight transaction isolation").
SyncedIsFinal ==
    [][\A o \in Op : syncState[o] = "synced"
                        => syncState'[o] \in {"synced", "none"}]_vars

Settled == {o \in created : syncState[o] \in {"synced", "none"}}

Delivery == INSTANCE ReliableDelivery
    WITH accepted <- created, delivered <- processed, settled <- Settled

\* The outbox and its sessions implement the abstract ReliableDelivery.
DeliverySpec == Delivery!Spec

\* The batch of a session stays pending while the session is running, so that
\* its outcome is recorded for rows nobody else has moved.
BatchIsStable ==
    \A t \in Thread : pc[t] = "sent" => batch[t] \subseteq InState("pending")

-----------------------------------------------------------------------------
(* Liveness.                                                               *)

\* The worker keeps running, is not kept from the link forever, and of the
\* sessions that reach the network not all end in an undecodable answer or
\* in the answer to another request.
OwnReply(w) ==
    /\ AcceptReply(w)
    /\ batch[w] \cap InState("pending")' = {}

WorkerFairness(w) ==
    /\ WF_vars(SessionStep(w))
    /\ WF_vars(PollUp(w))
    /\ SF_vars(PollUp(w) /\ pc'[w] = "starting")
    /\ SF_vars(Begin(w))
    /\ SF_vars(Send(w))
    /\ SF_vars(ExchangeFails(w) \/ RefusedByHQ(w) \/ OwnReply(w))

FairSpec == Spec /\ \A w \in Workers : WorkerFairness(w)

\* The finally branch of sync_now always gives the outbox lock back.
LockReleased == syncLocked ~> ~syncLocked

\* A pending P0 operation is not starved by lower tiers, bandwidth or batch
\* limits: it is transmitted and leaves the pending state.
UrgentLeaves ==
    \A o \in Op : (syncState[o] = "pending" /\ tier[o] = 0)
                     ~> syncState[o] # "pending"

-----------------------------------------------------------------------------
(* What documents and comments say of the outbox and the engine.           *)

\* models.py:59: FAILED is "Transmission failed, pending retry".
FailedIsRetried ==
    \A o \in Op : syncState[o] = "failed" ~> syncState[o] # "failed"

=============================================================================
