------------------------- MODULE SyncSessionsProofs --------------------------
(***************************************************************************)
(* The promises of the outbox for any number of operations, threads and    *)
(* restarts, and for a network that loses, repeats and delays messages;    *)
(* and the stronger ones that hold when no two threads run sync_now.       *)
(***************************************************************************)
EXTENDS SyncSessions, TLAPS

USE DEF Thread, Tier, SyncState, Place

\* get_pending answers with pending rows only.
LEMMA PendingOnly ==
    \A limit, maxPriority :
        \A ops \in get_pending(limit, maxPriority) : ops \subseteq InState("pending")
  BY DEF get_pending, InState

\* The UPDATEs of the outbox keep the type of sync_state and create no row.
LEMMA MarkedType ==
    ASSUME syncState \in [Op -> SyncState \cup {"none"}],
           NEW ops, NEW state \in SyncState \cup {"none"}
    PROVE  /\ Marked(ops, state) \in [Op -> SyncState \cup {"none"}]
           /\ \A o \in Op : Marked(ops, state)[o] =
                 IF o \in ops /\ syncState[o] # "none" THEN state ELSE syncState[o]
  BY DEF Marked

-----------------------------------------------------------------------------
(* Type correctness.                                                       *)

\* The variables of SyncSessions keep their types.
THEOREM TypeCorrect == Spec => []TypeOK
  <1> USE SessionAssumption DEF TypeOK, QueueTypeOK
  <1>1. Init => TypeOK
    <2> SUFFICES ASSUME Init
                 PROVE  TypeOK
      OBVIOUS
    <2>1. QueueTypeOK
      <3>1. syncState \in [Op -> SyncState \cup {"none"}]
        BY DEF Init, QueueInit
      <3>2. tier \in [Op -> Tier] /\ stamp \in [Op -> Nat]
        BY DEF Init, QueueInit
      <3> QED
        BY <3>1, <3>2 DEF Init, QueueInit
    <2>2. pc \in [Thread -> Place] /\ batch \in [Thread -> SUBSET Op]
      BY DEF Init
    <2> QED
      BY <2>1, <2>2 DEF Init
  <1>2. TypeOK /\ [Next]_vars => TypeOK'
    <2> SUFFICES ASSUME TypeOK, [Next]_vars
                 PROVE  TypeOK'
      OBVIOUS
    <2> USE DEF queueVars, hqVars, Goto, InState
    <2>1. ASSUME Application
          PROVE  TypeOK'
      BY <2>1 DEF Application, Enqueue, enqueue
    <2>2. ASSUME NEW t \in Thread, SessionStep(t)
          PROVE  TypeOK'
      <3>1. CASE SyncOffline(t)
        BY <3>1 DEF SyncOffline
      <3>2. CASE Begin(t)
        BY <3>2 DEF Begin
      <3>3. CASE Send(t)
        BY <3>3, PendingOnly DEF Send, SendAt, lock
      <3>4. CASE ExchangeFails(t)
        BY <3>4, MarkedType DEF ExchangeFails, mark_failed
      <3>5. CASE AcceptReply(t)
        BY <3>5, MarkedType DEF AcceptReply, Answered, mark_synced
      <3>6. CASE RefusedByHQ(t)
        BY <3>6, MarkedType DEF RefusedByHQ, Answered, mark_failed
      <3>7. CASE FinishPull(t)
        BY <3>7 DEF FinishPull
      <3>8. CASE SyncRaises(t)
        BY <3>8 DEF SyncRaises
      <3>9. CASE Close(t)
        BY <3>9 DEF Close, unlock
      <3> QED
        BY <2>2, <3>1, <3>2, <3>3, <3>4, <3>5, <3>6, <3>7, <3>8, <3>9
        DEF SessionStep
    <2>3. ASSUME NEW w \in Workers, WorkerStep(w)
          PROVE  TypeOK'
      <3>1. CASE PollUp(w)
        BY <3>1 DEF PollUp
      <3>2. CASE PollDown(w)
        BY <3>2 DEF PollDown
      <3>3. CASE Purge(w)
        BY <3>3, MarkedType DEF Purge, purge_synced
      <3> QED
        BY <2>3, <3>1, <3>2, <3>3 DEF WorkerStep
    <2>4. ASSUME Network
          PROVE  TypeOK'
      <3>1. ASSUME NEW request \in requests, HQProcesses(request)
            PROVE  TypeOK'
        <4>1. [ok |-> TRUE, acked |-> request] \in [ok : BOOLEAN, acked : SUBSET Op]
          OBVIOUS
        <4> QED
          BY <3>1, <4>1 DEF HQProcesses
      <3>2. ASSUME NEW request \in requests, HQRefuses(request)
            PROVE  TypeOK'
        <4>1. [ok |-> FALSE, acked |-> {}] \in [ok : BOOLEAN, acked : SUBSET Op]
          OBVIOUS
        <4> QED
          BY <3>2, <4>1 DEF HQRefuses
      <3> QED
        BY <2>4, <3>1, <3>2 DEF Network
    <2>5. ASSUME Restart \/ OpenConsole
          PROVE  TypeOK'
      <3>1. syncState' \in [Op -> SyncState \cup {"none"}]
        BY <2>5, MarkedType DEF Restart, OpenConsole, reset_in_flight
      <3>2. CASE Restart
        <4>1. pc' \in [Thread -> Place] /\ batch' \in [Thread -> SUBSET Op]
          BY <3>2 DEF Restart
        <4>2. syncLocked' \in BOOLEAN /\ boots' \in Nat
          <5>1. syncLocked' \in BOOLEAN
            BY <3>2, Zenon DEF Restart
          <5>2. boots' = boots + 1
            BY <3>2 DEF Restart
          <5>3. boots' \in Nat
            BY <5>2
          <5> QED
            BY <5>1, <5>3
        <4>3. QueueTypeOK'
          BY <3>1, <3>2, <4>2 DEF Restart
        <4> QED
          BY <3>2, <4>1, <4>2, <4>3 DEF Restart
      <3>3. CASE OpenConsole
        BY <3>1, <3>3 DEF OpenConsole
      <3> QED
        BY <2>5, <3>2, <3>3
    <2>6. CASE UNCHANGED vars
      BY <2>6 DEF vars
    <2> QED
      BY <2>1, <2>2, <2>3, <2>4, <2>5, <2>6 DEF Next
  <1> QED
    BY <1>1, <1>2, PTL DEF Spec

-----------------------------------------------------------------------------
(* Nothing is dropped and nothing is acknowledged that the HQ has not got. *)

\* Whatever the network or the HQ holds comes from the outbox.
OnlyCreatedTravels ==
    /\ processed \subseteq created
    /\ \A request \in requests : request \subseteq created

\* An answer acknowledges only what the HQ has processed.
AcksAreHonest == \A reply \in replies : reply.acked \subseteq processed

RowsAreCreated == \A o \in Op : syncState[o] # "none" => o \in created

DeliveryInv ==
    /\ OnlyCreatedTravels
    /\ AcksAreHonest
    /\ RowsAreCreated
    /\ SyncedWasProcessed
    /\ NothingVanishes

\* A step that leaves the HQ and the network alone, and by which rows neither
\* appear nor vanish nor become synced unless acknowledged.
LEMMA QuietStep ==
    ASSUME TypeOK, DeliveryInv, NEW ops \in SUBSET processed,
           created' = created, processed' = processed,
           requests' \subseteq requests, replies' \subseteq replies,
           \A o \in Op : /\ syncState'[o] = "none" <=> syncState[o] = "none"
                         /\ syncState'[o] = "synced" =>
                               syncState[o] = "synced" \/ o \in ops
    PROVE  DeliveryInv'
  <1>1. created \subseteq Op /\ processed \subseteq Op
    BY DEF TypeOK
  <1> QED
    BY <1>1 DEF DeliveryInv, OnlyCreatedTravels, AcksAreHonest, RowsAreCreated,
                SyncedWasProcessed, NothingVanishes

LEMMA SessionKeepsDeliveryInv ==
    ASSUME TypeOK, DeliveryInv, NEW t \in Thread, SessionStep(t)
    PROVE  DeliveryInv'
  <1> USE DEF queueVars, hqVars
  <1>1. CASE Send(t)
    <2>1. PICK ops \in SUBSET InState("pending") :
             requests' = requests \cup {ops}
      BY <1>1, PendingOnly DEF Send, SendAt
    <2>2. ops \subseteq created
      BY <2>1 DEF DeliveryInv, RowsAreCreated, InState
    <2>3. UNCHANGED <<syncState, created, replies, processed>>
      BY <1>1 DEF Send, SendAt
    <2> QED
      BY <2>1, <2>2, <2>3
      DEF DeliveryInv, OnlyCreatedTravels, AcksAreHonest, RowsAreCreated,
          SyncedWasProcessed, NothingVanishes
  <1>2. CASE ExchangeFails(t)
    <2>1. \A o \in Op :
             /\ syncState'[o] = "none" <=> syncState[o] = "none"
             /\ syncState'[o] = "synced" => syncState[o] = "synced"
      BY <1>2, MarkedType DEF ExchangeFails, mark_failed, TypeOK, QueueTypeOK
    <2> QED
      BY <1>2, <2>1, QuietStep DEF ExchangeFails
  <1>3. CASE AcceptReply(t)
    <2>1. PICK reply \in replies : Answered(t, reply) /\ mark_synced(reply.acked)
      BY <1>3 DEF AcceptReply
    <2>2. reply.acked \subseteq processed
      BY DEF DeliveryInv, AcksAreHonest
    <2>3. \A o \in Op :
             /\ syncState'[o] = "none" <=> syncState[o] = "none"
             /\ syncState'[o] = "synced" =>
                   syncState[o] = "synced" \/ o \in reply.acked
      BY <2>1, MarkedType DEF mark_synced, TypeOK, QueueTypeOK
    <2> QED
      BY <2>1, <2>2, <2>3, QuietStep DEF Answered
  <1>4. CASE RefusedByHQ(t)
    <2>1. PICK reply \in replies : Answered(t, reply) /\ mark_failed(batch[t])
      BY <1>4 DEF RefusedByHQ
    <2>2. \A o \in Op :
             /\ syncState'[o] = "none" <=> syncState[o] = "none"
             /\ syncState'[o] = "synced" => syncState[o] = "synced"
      BY <2>1, MarkedType DEF mark_failed, TypeOK, QueueTypeOK
    <2> QED
      BY <2>1, <2>2, QuietStep DEF Answered
  <1>5. CASE SyncOffline(t) \/ Begin(t) \/ FinishPull(t) \/ SyncRaises(t) \/ Close(t)
    <2>1. UNCHANGED <<syncState, created, requests, replies, processed>>
      BY <1>5 DEF SyncOffline, Begin, FinishPull, SyncRaises, Close
    <2> QED
      BY <2>1, QuietStep
  <1> QED
    BY <1>1, <1>2, <1>3, <1>4, <1>5 DEF SessionStep

LEMMA NetworkKeepsDeliveryInv ==
    ASSUME TypeOK, DeliveryInv, Network
    PROVE  DeliveryInv'
  <1> USE DEF queueVars, DeliveryInv, OnlyCreatedTravels, AcksAreHonest,
              RowsAreCreated, SyncedWasProcessed, NothingVanishes
  <1>1. ASSUME NEW request \in requests, HQProcesses(request)
        PROVE  DeliveryInv'
    BY <1>1 DEF HQProcesses
  <1>2. ASSUME NEW request \in requests, HQRefuses(request)
        PROVE  DeliveryInv'
    BY <1>2 DEF HQRefuses
  <1> QED
    BY <1>1, <1>2 DEF Network

LEMMA DeliveryInvInductive ==
    TypeOK /\ DeliveryInv /\ [Next]_vars => DeliveryInv'
  <1> SUFFICES ASSUME TypeOK, DeliveryInv, [Next]_vars
               PROVE  DeliveryInv'
    OBVIOUS
  <1> USE DEF queueVars, hqVars
  <1>1. ASSUME NEW o \in Op, NEW priority \in Priorities[o],
               Enqueue(o, priority)
        PROVE  DeliveryInv'
    <2>1. /\ created' = created \cup {o}
          /\ syncState' = [syncState EXCEPT ![o] = "pending"]
          /\ UNCHANGED hqVars
      BY <1>1 DEF Enqueue, enqueue
    <2> QED
      BY <2>1
      DEF TypeOK, QueueTypeOK, DeliveryInv, OnlyCreatedTravels, AcksAreHonest,
          RowsAreCreated, SyncedWasProcessed, NothingVanishes
  <1>2. ASSUME NEW w \in Workers, WorkerStep(w)
        PROVE  DeliveryInv'
    <2>1. CASE PollUp(w) \/ PollDown(w)
      <3>1. UNCHANGED <<syncState, created, requests, replies, processed>>
        BY <2>1 DEF PollUp, PollDown
      <3> QED
        BY <3>1, QuietStep
    <2>2. CASE Purge(w)
      <3>1. PICK old \in SUBSET Op : purge_synced(old)
        BY <2>2 DEF Purge
      <3>2. \A o \in Op : \/ syncState'[o] = syncState[o]
                          \/ syncState[o] = "synced" /\ syncState'[o] = "none"
        BY <3>1, MarkedType DEF purge_synced, InState, TypeOK, QueueTypeOK
      <3>3. UNCHANGED <<created, hqVars>>
        BY <2>2 DEF Purge
      <3> QED
        BY <3>2, <3>3
        DEF TypeOK, DeliveryInv, OnlyCreatedTravels, AcksAreHonest,
            RowsAreCreated, SyncedWasProcessed, NothingVanishes
    <2> QED
      BY <1>2, <2>1, <2>2 DEF WorkerStep
  <1>3. CASE Restart \/ OpenConsole
    <2>1. \A o \in Op : \/ syncState'[o] = syncState[o]
                        \/ syncState[o] = "failed" /\ syncState'[o] = "pending"
      BY <1>3, MarkedType
      DEF Restart, OpenConsole, reset_in_flight, InState, TypeOK, QueueTypeOK
    <2>2. UNCHANGED <<created, requests, replies, processed>>
      BY <1>3 DEF Restart, OpenConsole
    <2> QED
      BY <2>1, <2>2, QuietStep
  <1>4. CASE UNCHANGED vars
    BY <1>4, QuietStep DEF vars
  <1> QED
    BY <1>1, <1>2, <1>3, <1>4, SessionKeepsDeliveryInv, NetworkKeepsDeliveryInv
    DEF Next, Application

\* The inductive invariant behind the two theorems below.
THEOREM DeliveryInvariant == Spec => [](TypeOK /\ DeliveryInv)
  <1>1. Init => DeliveryInv
    BY DEF Init, QueueInit, DeliveryInv, OnlyCreatedTravels, AcksAreHonest,
           RowsAreCreated, SyncedWasProcessed, NothingVanishes
  <1> QED
    BY <1>1, DeliveryInvInductive, TypeCorrect, PTL DEF Spec

\* However many threads sync at once and whatever the network does, an operation
\* is marked synced only when the HQ has processed it.
THEOREM SyncedOnlyWhenProcessed == Spec => []SyncedWasProcessed
  BY DeliveryInvariant, PTL DEF DeliveryInv

\* No operation leaves the outbox before the HQ has processed it.
THEOREM OutboxLosesNothing == Spec => []NothingVanishes
  BY DeliveryInvariant, PTL DEF DeliveryInv

-----------------------------------------------------------------------------
(* One thread at a time in sync_now: an acknowledgement is never undone.   *)

AtMostOneThread == \A s, t \in Thread : s = t

\* The inductive invariant needs the batch of a running session to be pending:
\* mark_failed, which looks at no state, would demote a synced row otherwise.
LEMMA BatchIsStableInductive ==
    ASSUME AtMostOneThread
    PROVE  TypeOK /\ DeliveryInv /\ BatchIsStable /\ [Next]_vars => BatchIsStable'
  <1> SUFFICES ASSUME TypeOK, DeliveryInv, BatchIsStable, [Next]_vars,
                      NEW t \in Thread, pc'[t] = "sent", NEW o \in batch'[t]
               PROVE  o \in Op /\ syncState'[o] = "pending"
    BY DEF BatchIsStable, InState
  <1> USE DEF TypeOK, QueueTypeOK, queueVars, hqVars, Goto
  <1>1. ASSUME pc[t] = "sent", o \in batch[t]
        PROVE  o \in Op /\ syncState[o] = "pending"
    BY <1>1 DEF BatchIsStable, InState
  <1>2. ASSUME NEW p \in Op, NEW priority \in Priorities[p],
               Enqueue(p, priority)
        PROVE  o \in Op /\ syncState'[o] = "pending"
    BY <1>1, <1>2 DEF Enqueue, enqueue
  <1>3. ASSUME NEW s \in Thread, SessionStep(s)
        PROVE  o \in Op /\ syncState'[o] = "pending"
    <2>1. s = t
      BY DEF AtMostOneThread
    <2>2. CASE Send(s)
      <3>1. PICK ops \in SUBSET InState("pending") :
               batch' = [batch EXCEPT ![s] = ops]
        BY <2>2, PendingOnly DEF Send, SendAt
      <3>2. o \in InState("pending") /\ syncState' = syncState
        BY <2>1, <2>2, <3>1 DEF Send, SendAt
      <3> QED
        BY <3>2 DEF InState
    <2>3. CASE ~Send(s)
      <3>1. pc'[s] # "sent"
        BY <1>3, <2>3
        DEF SessionStep, SyncOffline, Begin, ExchangeFails, AcceptReply,
            RefusedByHQ, FinishPull, SyncRaises, Close
      <3> QED
        BY <2>1, <3>1
    <2> QED
      BY <2>2, <2>3
  <1>4. ASSUME NEW w \in Workers, WorkerStep(w)
        PROVE  o \in Op /\ syncState'[o] = "pending"
    <2>1. w = t /\ pc[w] = "idle"
      BY <1>4 DEF AtMostOneThread, WorkerStep, PollUp, PollDown, Purge
    <2>2. pc'[w] # "sent"
      BY <1>4, <2>1 DEF WorkerStep, PollUp, PollDown, Purge
    <2> QED
      BY <2>1, <2>2
  <1>5. CASE Network
    <2>1. UNCHANGED <<syncState, pc, batch>>
      BY <1>5 DEF Network, HQProcesses, HQRefuses
    <2> QED
      BY <1>1, <2>1
  <1>6. CASE Restart
    BY <1>6 DEF Restart
  <1>7. CASE OpenConsole
    BY <1>1, <1>7, MarkedType DEF OpenConsole, reset_in_flight, InState
  <1>8. CASE UNCHANGED vars
    BY <1>1, <1>8 DEF vars
  <1> QED
    BY <1>2, <1>3, <1>4, <1>5, <1>6, <1>7, <1>8 DEF Next, Application

\* A running session finds its batch as it left it.
THEOREM BatchStaysPending ==
    ASSUME AtMostOneThread
    PROVE  Spec => []BatchIsStable
  <1>1. Init => BatchIsStable
    BY DEF Init, BatchIsStable
  <1> QED
    BY <1>1, BatchIsStableInductive, DeliveryInvariant, PTL DEF Spec

\* With one thread in sync_now, every way into and out of the try block sets the
\* reported state: it is SYNCING exactly while a session is running.
THEOREM StateIsTrue ==
    ASSUME AtMostOneThread
    PROVE  Spec => []SyncingMeansSession
  <1> USE DEF InSession
  <1>1. Init => SyncingMeansSession
    BY DEF Init, SyncingMeansSession
  <1>2. TypeOK /\ SyncingMeansSession /\ [Next]_vars => SyncingMeansSession'
    <2> SUFFICES ASSUME TypeOK, SyncingMeansSession, [Next]_vars
                 PROVE  SyncingMeansSession'
      OBVIOUS
    <2>1. ASSUME UNCHANGED <<engineState, pc>>
          PROVE  SyncingMeansSession'
      BY <2>1 DEF SyncingMeansSession
    <2>2. ASSUME NEW t \in Thread, SessionStep(t)
          PROVE  SyncingMeansSession'
      <3>1. pc[t] \in Place /\ \A s \in Thread : s = t
        BY DEF TypeOK, AtMostOneThread
      <3>2. engineState = "syncing" <=> InSession(t)
        BY <3>1 DEF SyncingMeansSession
      <3>3. engineState' = "syncing" <=> InSession(t)'
        BY <2>2, <3>2
        DEF SessionStep, SyncOffline, Begin, Send, SendAt, ExchangeFails,
            AcceptReply, RefusedByHQ, Answered, FinishPull, SyncRaises, Close,
            Calling, Goto, TypeOK
      <3> QED
        BY <3>1, <3>3 DEF SyncingMeansSession
    <2>3. ASSUME NEW w \in Workers, WorkerStep(w)
          PROVE  SyncingMeansSession'
      <3>1. \A s \in Thread : s = w
        BY DEF AtMostOneThread
      <3>2. engineState = "syncing" <=> InSession(w)
        BY <3>1 DEF SyncingMeansSession
      <3>3. engineState' = "syncing" <=> InSession(w)'
        BY <2>3, <3>2 DEF WorkerStep, PollUp, PollDown, Purge, Goto, TypeOK
      <3> QED
        BY <3>1, <3>3 DEF SyncingMeansSession
    <2>4. CASE Application \/ Network \/ OpenConsole \/ UNCHANGED vars
      BY <2>1, <2>4
      DEF Application, Enqueue, Network, HQProcesses, HQRefuses,
          OpenConsole, vars
    <2>5. CASE Restart
      BY <2>5 DEF Restart, SyncingMeansSession
    <2> QED
      BY <2>2, <2>3, <2>4, <2>5 DEF Next
  <1> QED
    BY <1>1, <1>2, TypeCorrect, PTL DEF Spec

\* Every step but an acknowledgement leaves the settled operations alone.
SettledKept ==
    \A o \in created :
        syncState'[o] \in {"synced", "none"} <=> syncState[o] \in {"synced", "none"}

LEMMA FailureSettlesNothing ==
    ASSUME TypeOK, BatchIsStable, NEW t \in Thread, pc[t] = "sent",
           mark_failed(batch[t])
    PROVE  /\ SettledKept
           /\ \A o \in Op : syncState[o] = "synced" => syncState'[o] = "synced"
  <1>1. \A o \in batch[t] : syncState[o] = "pending"
    BY DEF BatchIsStable, InState
  <1>2. \A o \in Op : syncState'[o] =
           IF o \in batch[t] /\ syncState[o] # "none" THEN "failed" ELSE syncState[o]
    BY MarkedType DEF mark_failed, TypeOK, QueueTypeOK
  <1> QED
    BY <1>1, <1>2 DEF SettledKept, TypeOK

\* What a step does to the settled operations, when the batches are stable.
LEMMA StepSettles ==
    ASSUME TypeOK, DeliveryInv, BatchIsStable, Next
    PROVE  /\ \A o \in Op : syncState[o] = "synced" =>
                               syncState'[o] \in {"synced", "none"}
           /\ Delivery!Next \/ UNCHANGED Delivery!vars
  <1> USE DEF queueVars, hqVars
  <1>1. ASSUME created' = created, processed' = processed, SettledKept
        PROVE  UNCHANGED Delivery!vars
    BY <1>1 DEF SettledKept, Settled, Delivery!vars
  <1>2. ASSUME created' = created, processed' = processed, syncState' = syncState
        PROVE  UNCHANGED Delivery!vars
    BY <1>2 DEF Settled, Delivery!vars
  <1>3. ASSUME NEW o \in Op, NEW priority \in Priorities[o],
               Enqueue(o, priority)
        PROVE  /\ \A p \in Op : syncState[p] = "synced" => syncState'[p] = "synced"
               /\ Delivery!Next
    <2>1. /\ o \notin created /\ created' = created \cup {o}
          /\ syncState' = [syncState EXCEPT ![o] = "pending"]
          /\ processed' = processed
      BY <1>3 DEF Enqueue, enqueue
    <2>2. syncState[o] = "none"
      BY <2>1 DEF DeliveryInv, RowsAreCreated
    <2>3. Settled' = Settled
      BY <2>1 DEF Settled, TypeOK, QueueTypeOK
    <2>4. Delivery!Accept(o)
      BY <2>1, <2>3 DEF Delivery!Accept
    <2> QED
      BY <2>1, <2>2, <2>4 DEF Delivery!Next, TypeOK, QueueTypeOK
  <1>4. ASSUME NEW t \in Thread, SessionStep(t)
        PROVE  /\ \A p \in Op : syncState[p] = "synced" => syncState'[p] = "synced"
               /\ Delivery!Next \/ UNCHANGED Delivery!vars
    <2>1. CASE ExchangeFails(t) \/ RefusedByHQ(t)
      <3>1. /\ pc[t] = "sent" /\ mark_failed(batch[t])
            /\ UNCHANGED <<created, processed>>
        BY <2>1 DEF ExchangeFails, RefusedByHQ, Answered
      <3> QED
        BY <1>1, <3>1, FailureSettlesNothing
    <2>2. CASE AcceptReply(t)
      <3>1. PICK reply \in replies : Answered(t, reply) /\ mark_synced(reply.acked)
        BY <2>2 DEF AcceptReply
      <3>2. reply.acked \subseteq processed /\ processed \subseteq created
        BY DEF DeliveryInv, AcksAreHonest, OnlyCreatedTravels
      <3>3. \A o \in Op : syncState'[o] =
               IF o \in reply.acked /\ syncState[o] # "none"
               THEN "synced" ELSE syncState[o]
        BY <3>1, MarkedType DEF mark_synced, TypeOK, QueueTypeOK
      <3>4. created' = created /\ processed' = processed /\ created \subseteq Op
        BY <3>1 DEF Answered, TypeOK
      <3>5. Settled' = Settled \cup reply.acked
        BY <3>2, <3>3, <3>4 DEF Settled
      <3>6. Delivery!Settle(reply.acked) /\ reply.acked \in SUBSET Op
        BY <3>2, <3>4, <3>5 DEF Delivery!Settle
      <3> QED
        BY <3>3, <3>6 DEF Delivery!Next
    <2>3. CASE \/ SyncOffline(t) \/ Begin(t) \/ Send(t)
               \/ FinishPull(t) \/ SyncRaises(t) \/ Close(t)
      <3>1. UNCHANGED <<created, processed, syncState>>
        BY <2>3
        DEF SyncOffline, Begin, Send, SendAt, FinishPull, SyncRaises, Close
      <3> QED
        BY <1>2, <3>1
    <2> QED
      BY <1>4, <2>1, <2>2, <2>3 DEF SessionStep
  <1>5. ASSUME NEW w \in Workers, WorkerStep(w)
        PROVE  /\ \A p \in Op : syncState[p] = "synced" =>
                                   syncState'[p] \in {"synced", "none"}
               /\ UNCHANGED Delivery!vars
    <2>1. CASE PollUp(w) \/ PollDown(w)
      <3>1. UNCHANGED <<created, processed, syncState>>
        BY <2>1 DEF PollUp, PollDown
      <3> QED
        BY <1>2, <3>1
    <2>2. CASE Purge(w)
      <3>1. PICK old \in SUBSET Op : purge_synced(old)
        BY <2>2 DEF Purge
      <3>2. \A o \in Op : \/ syncState'[o] = syncState[o]
                          \/ syncState[o] = "synced" /\ syncState'[o] = "none"
        BY <3>1, MarkedType DEF purge_synced, InState, TypeOK, QueueTypeOK
      <3>3. UNCHANGED <<created, processed>>
        BY <2>2 DEF Purge
      <3>4. SettledKept
        BY <3>2 DEF SettledKept, TypeOK
      <3> QED
        BY <1>1, <3>2, <3>3, <3>4
    <2> QED
      BY <1>5, <2>1, <2>2 DEF WorkerStep
  <1>6. CASE Network
    <2>1. created' = created /\ syncState' = syncState /\ Settled' = Settled
      BY <1>6
      DEF Network, HQProcesses, HQRefuses, Settled
    <2>2. PICK ops \in SUBSET created : processed' = processed \cup ops
      <3>1. \A request \in requests : request \subseteq created
        BY DEF DeliveryInv, OnlyCreatedTravels
      <3>2. ASSUME NEW request \in requests, HQProcesses(request)
            PROVE  processed' = processed \cup request
        BY <3>2 DEF HQProcesses
      <3>3. ASSUME NEW request \in requests, HQRefuses(request)
            PROVE  \E ops \in SUBSET created : processed' = processed \cup ops
        BY <3>1, <3>3 DEF HQRefuses
      <3> QED
        BY <1>6, <3>1, <3>2, <3>3 DEF Network
    <2>3. Delivery!Deliver(ops) /\ ops \in SUBSET Op
      BY <2>1, <2>2 DEF Delivery!Deliver, TypeOK
    <2> QED
      BY <2>1, <2>3 DEF Delivery!Next
  <1>7. CASE Restart \/ OpenConsole
    <2>1. \A o \in Op : \/ syncState'[o] = syncState[o]
                        \/ syncState[o] = "failed" /\ syncState'[o] = "pending"
      BY <1>7, MarkedType
      DEF Restart, OpenConsole, reset_in_flight, InState, TypeOK, QueueTypeOK
    <2>2. UNCHANGED <<created, processed>>
      BY <1>7 DEF Restart, OpenConsole
    <2>3. SettledKept
      BY <2>1 DEF SettledKept, TypeOK
    <2> QED
      BY <1>1, <2>1, <2>2, <2>3
  <1> QED
    BY <1>3, <1>4, <1>5, <1>6, <1>7 DEF Next, Application

\* With one thread in sync_now, a synced row is only ever purged.
THEOREM AcknowledgementIsFinal ==
    ASSUME AtMostOneThread
    PROVE  Spec => SyncedIsFinal
  <1>1. TypeOK /\ DeliveryInv /\ BatchIsStable /\ [Next]_vars =>
           [\A o \in Op : syncState[o] = "synced"
                             => syncState'[o] \in {"synced", "none"}]_vars
    BY StepSettles
  <1> QED
    BY <1>1, BatchStaysPending, DeliveryInvariant, PTL DEF Spec, SyncedIsFinal

\* With one thread in sync_now, the outbox, its sessions and the HQ's
\* acknowledgements implement ReliableDelivery.
THEOREM ImplementsReliableDelivery ==
    ASSUME AtMostOneThread
    PROVE  Spec => DeliverySpec
  <1>1. Init => Delivery!Init
    BY DEF Init, Delivery!Init, Settled
  <1>2. TypeOK /\ DeliveryInv /\ BatchIsStable /\ [Next]_vars =>
           [Delivery!Next]_Delivery!vars
    <2> SUFFICES ASSUME TypeOK, DeliveryInv, BatchIsStable, [Next]_vars
                 PROVE  Delivery!Next \/ UNCHANGED Delivery!vars
      OBVIOUS
    <2>1. CASE Next
      BY <2>1, StepSettles
    <2>2. CASE UNCHANGED vars
      BY <2>2 DEF vars, queueVars, hqVars, Settled, Delivery!vars
    <2> QED
      BY <2>1, <2>2
  <1> QED
    BY <1>1, <1>2, BatchStaysPending, DeliveryInvariant, PTL
    DEF Spec, DeliverySpec, Delivery!Spec

=============================================================================
