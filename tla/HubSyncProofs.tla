--------------------------- MODULE HubSyncProofs -----------------------------
(***************************************************************************)
(* Type correctness of HubSync and the proofs that no site ever replaces a *)
(* live record by a version that causally precedes it and that the HQ and  *)
(* the readers follow the author of a record that only one edge writes,    *)
(* for any number of sites, records and writes and with every fault.       *)
(***************************************************************************)
EXTENDS HubSync, ConflictResolverProofs, FiniteSetTheorems

\* A push names rows of the outbox it was read from.
NamesRows(request) ==
    \A n \in DOMAIN request.ids : request.ids[n] \in DOMAIN outbox[request.from]

\* The inductive strengthening of TypeOK: HQApplies reads the content of an
\* operation from the outbox of the sender, so a push has to name rows of it
\* for as long as it may still reach the HQ.
PushesNameRows ==
    /\ \A request \in requests : NamesRows(request)
    /\ task # NoTask => NamesRows(task.request)

Inv == TypeOK /\ PushesNameRows

-----------------------------------------------------------------------------
(* Facts about the operators of HubSync.                                   *)

LEMMA SitesAreNodes == Site \subseteq Node /\ HQ \in Site /\ Edge \subseteq Site
  BY HubAssumption DEF Site

LEMMA NoTaskIsNoWork == NoTask \notin [request : Request, done : Nat]
  BY DEF NoTask

\* The UPDATE statements of the outbox neither add rows nor remove any.
LEMMA MarkType ==
    ASSUME TypeOK, NEW e \in Edge, NEW ids,
           NEW state \in {"pending", "synced", "failed"}, Mark(e, ids, state)
    PROVE  /\ status' \in [Edge -> Seq({"pending", "synced", "failed"})]
           /\ \A f \in Edge : Len(status'[f]) = Len(outbox[f])
  <1> DEFINE States == {"pending", "synced", "failed"}
             row == [i \in DOMAIN status[e] |->
                        IF i \in ids THEN state ELSE status[e][i]]
  <1>1. status[e] \in Seq(States) /\ Len(status[e]) = Len(outbox[e])
    BY DEF TypeOK
  <1>2. row \in [1 .. Len(status[e]) -> States]
    BY <1>1
  <1>3. row \in Seq(States) /\ Len(row) = Len(status[e])
    BY <1>1, <1>2
  <1>4. status' = [status EXCEPT ![e] = row]
    BY DEF Mark, TypeOK
  <1> QED
    BY <1>1, <1>3, <1>4 DEF TypeOK

\* A site that integrates a change still holds rows.
LEMMA IntegrateAtType ==
    ASSUME TypeOK, NEW s \in Site, NEW change, change.key \in Key,
           change.body \in Operation, IntegrateAt(s, change)
    PROVE  store' \in [Site -> [Key -> Record \cup {NoRecord}]]
  <1>1. store[s][change.key] \in Record \cup {NoRecord}
    BY DEF TypeOK
  <1>2. Integrate(store[s][change.key], change.body) \in Record \cup {NoRecord}
    BY <1>1, IntegrateType
  <1> QED
    BY <1>2 DEF IntegrateAt, TypeOK

\* The HQ answers with operations on records.
LEMMA DeltaType ==
    ASSUME TypeOK, NEW e \in Edge, NEW vc \in Clock
    PROVE  Delta(e, vc) \subseteq Change
  <1>1. ASSUME NEW k \in Key, store[HQ][k] # NoRecord
        PROVE  store[HQ][k] \in Record
    BY <1>1, SitesAreNodes DEF TypeOK
  <1>2. ASSUME NEW rec \in Record
        PROVE  [type    |-> IF rec.deleted THEN "delete" ELSE "update",
                node    |-> rec.by,
                payload |-> rec.data,
                ts      |-> rec.ts,
                vc      |-> rec.vc] \in Operation
    BY DEF Record, Operation, OpType
  <1> QED
    BY <1>1, <1>2 DEF Delta, Change

-----------------------------------------------------------------------------
(* The inductive invariant.                                                *)

LEMMA InitEstablishesInv == Init => Inv
  <1> SUFFICES ASSUME Init
               PROVE  Inv
    OBVIOUS
  <1>1. EmptyClock \in Clock
    BY ClockType
  <1>2. <<>> \in Seq(Queued) /\ <<>> \in Seq({"pending", "synced", "failed"})
    OBVIOUS
  <1> QED
    BY <1>1, <1>2 DEF Init, Inv, TypeOK, PushesNameRows

\* The application only appends to the outbox.
LEMMA WriteKeepsInv ==
    ASSUME Inv, NEW e \in Writers, NEW k \in Key, NEW type \in WriteTypes,
           NEW payload \in Payloads, NEW ts \in Times, NEW priority \in Tiers[e],
           Write(e, k, type, payload, ts, priority)
    PROVE  Inv'
  <1> DEFINE op == NewOperation(store[e][k], e, type, payload, ts)
             row == [key |-> k, tier |-> priority, body |-> op]
  <1>1. e \in Edge /\ e \in Site /\ e \in Node
    BY HubAssumption, SitesAreNodes
  <1>2. store[e][k] \in Record \cup {NoRecord}
    BY <1>1 DEF Inv, TypeOK
  <1>3. op \in Operation
    BY <1>1, <1>2, NewOperationType, HubAssumption
  <1>4. store' \in [Site -> [Key -> Record \cup {NoRecord}]]
    <2>1. ApplyOperation(store[e][k], op) \in Record
      BY <1>2, <1>3, ApplyType
    <2>2. store' = [store EXCEPT ![e][k] = ApplyOperation(store[e][k], op)]
      BY DEF Write
    <2> QED
      BY <1>1, <2>1, <2>2 DEF Inv, TypeOK
  <1>5. known' \in [Edge -> Clock]
    <2>1. Merge(known[e], op.vc) \in Clock
      BY <1>1, <1>3, ClockType DEF Inv, TypeOK, Operation
    <2>2. known' = [known EXCEPT ![e] = Merge(known[e], op.vc)]
      BY DEF Write, Inv, TypeOK
    <2> QED
      BY <2>1, <2>2 DEF Inv, TypeOK
  <1>6. outbox' = [outbox EXCEPT ![e] = Append(outbox[e], row)]
    BY DEF Write, Inv, TypeOK
  <1>7. row \in Queued
    BY <1>3, HubAssumption DEF Queued
  <1>8. outbox' \in [Edge -> Seq(Queued)]
    BY <1>1, <1>6, <1>7 DEF Inv, TypeOK
  <1>9. status' = [status EXCEPT ![e] = Append(status[e], "pending")]
    BY DEF Write, Inv, TypeOK
  <1>10. /\ status' \in [Edge -> Seq({"pending", "synced", "failed"})]
         /\ \A f \in Edge : Len(status'[f]) = Len(outbox'[f])
    <2>1. Append(status[e], "pending") \in Seq({"pending", "synced", "failed"})
      BY <1>1 DEF Inv, TypeOK
    <2>2. /\ Len(Append(status[e], "pending")) = Len(status[e]) + 1
          /\ Len(Append(outbox[e], row)) = Len(outbox[e]) + 1
      BY <1>1, <1>7 DEF Inv, TypeOK
    <2> QED
      BY <1>1, <1>6, <1>9, <2>1, <2>2 DEF Inv, TypeOK
  <1>11. \A f \in Edge : DOMAIN outbox[f] \subseteq DOMAIN outbox'[f]
    <2>1. DOMAIN outbox[e] \subseteq DOMAIN Append(outbox[e], row)
      BY <1>1, <1>7 DEF Inv, TypeOK
    <2> QED
      BY <1>1, <1>6, <2>1 DEF Inv, TypeOK
  <1>12. UNCHANGED <<pc, sent, pulled, requests, replies, task>>
    BY DEF Write
  <1>13. TypeOK'
    BY <1>4, <1>5, <1>8, <1>10, <1>12 DEF Inv, TypeOK
  <1>14. PushesNameRows'
    <2>1. \A request \in requests : request.from \in Edge
      BY DEF Inv, TypeOK, Request
    <2>2. task # NoTask => task.request.from \in Edge
      BY DEF Inv, TypeOK, Request
    <2> QED
      BY <1>11, <1>12, <2>1, <2>2 DEF Inv, PushesNameRows, NamesRows
  <1> QED
    BY <1>13, <1>14 DEF Inv

\* A session starts: the push names rows of the outbox it was read from.
LEMMA BeginKeepsInv ==
    ASSUME Inv, NEW e \in Edge, NEW cutoff \in Cutoffs, BeginSync(e, cutoff)
    PROVE  Inv'
  <1>1. PICK n \in 0 .. BatchLimit : \E ids \in [1 .. n -> DOMAIN outbox[e]] :
           /\ sent' = [sent EXCEPT ![e] = ToSet(ids)]
           /\ requests' = requests \cup
                 {[from |-> e, ids |-> ids, vc |-> known[e]]}
    BY DEF BeginSync
  <1>2. PICK ids \in [1 .. n -> DOMAIN outbox[e]] :
           /\ sent' = [sent EXCEPT ![e] = ToSet(ids)]
           /\ requests' = requests \cup
                 {[from |-> e, ids |-> ids, vc |-> known[e]]}
    BY <1>1
  <1>3. n \in Nat /\ DOMAIN outbox[e] \subseteq Nat
    BY HubAssumption DEF Inv, TypeOK
  <1>4. ids \in Seq(Nat)
    BY <1>2, <1>3
  <1>5. ToSet(ids) \subseteq Nat
    BY <1>2, <1>3 DEF ToSet
  <1>6. [from |-> e, ids |-> ids, vc |-> known[e]] \in Request
    BY <1>4 DEF Inv, TypeOK, Request
  <1>7. UNCHANGED <<store, known, outbox, status, pulled, replies, task>>
    BY DEF BeginSync
  <1>8. pc' \in [Edge -> {"idle", "sent", "pulling"}]
    BY DEF BeginSync, Inv, TypeOK
  <1>9. TypeOK'
    BY <1>2, <1>5, <1>6, <1>7, <1>8 DEF Inv, TypeOK
  <1>10. PushesNameRows'
    BY <1>2, <1>7 DEF Inv, PushesNameRows, NamesRows
  <1> QED
    BY <1>9, <1>10 DEF Inv

\* A session that fails or is refused.
LEMMA PushFailsKeepsInv ==
    ASSUME Inv, NEW e \in Edge, PushFails(e), replies' \subseteq replies
    PROVE  Inv'
  <1>1. /\ status' \in [Edge -> Seq({"pending", "synced", "failed"})]
        /\ \A f \in Edge : Len(status'[f]) = Len(outbox[f])
    BY MarkType DEF PushFails, Inv
  <1>2. requests' \subseteq requests
    BY DEF PushFails, Outlasting
  <1>3. /\ pc' \in [Edge -> {"idle", "sent", "pulling"}]
        /\ sent' \in [Edge -> SUBSET Nat]
    BY DEF PushFails, Inv, TypeOK
  <1>4. UNCHANGED <<store, known, outbox, pulled, task>>
    BY DEF PushFails
  <1> QED
    BY <1>1, <1>2, <1>3, <1>4 DEF Inv, TypeOK, PushesNameRows, NamesRows

\* An answer brings a delta of operations.
LEMMA ReceiveKeepsInv ==
    ASSUME Inv, NEW e \in Edge, NEW reply \in replies, Receive(e, reply)
    PROVE  Inv'
  <1>1. /\ status' \in [Edge -> Seq({"pending", "synced", "failed"})]
        /\ \A f \in Edge : Len(status'[f]) = Len(outbox[f])
    BY MarkType DEF Receive, Inv
  <1>2. requests' \subseteq requests /\ replies' \subseteq replies
    BY DEF Receive, Outlasting
  <1>3. reply.delta \subseteq Change
    BY DEF Inv, TypeOK, Reply
  <1>4. /\ pc' \in [Edge -> {"idle", "sent", "pulling"}]
        /\ sent' \in [Edge -> SUBSET Nat]
        /\ pulled' \in [Edge -> SUBSET Change]
    BY <1>3 DEF Receive, Inv, TypeOK
  <1>5. UNCHANGED <<store, known, outbox, task>>
    BY DEF Receive
  <1> QED
    BY <1>1, <1>2, <1>4, <1>5 DEF Inv, TypeOK, PushesNameRows, NamesRows

\* One turn of the loop over the delta, whether it raises or not.
LEMMA PullKeepsInv ==
    ASSUME Inv, NEW e \in Edge, NEW change \in pulled[e],
           ApplyPulled(e, change) \/ PullRaises(e, change)
    PROVE  Inv'
  <1>1. change \in Change
    BY DEF Inv, TypeOK
  <1>2. change.key \in Key /\ change.body \in Operation
    BY <1>1 DEF Change
  <1>3. known' \in [Edge -> Clock]
    <2>1. Merge(known[e], change.body.vc) \in Clock
      BY <1>2, ClockType DEF Inv, TypeOK, Operation
    <2>2. known' = [known EXCEPT ![e] = Merge(known[e], change.body.vc)]
      BY DEF ApplyPulled, PullRaises, Inv, TypeOK
    <2> QED
      BY <2>1, <2>2 DEF Inv, TypeOK
  <1>4. store' \in [Site -> [Key -> Record \cup {NoRecord}]]
    <2>1. CASE ApplyPulled(e, change)
      BY <1>2, <2>1, IntegrateAtType, SitesAreNodes DEF ApplyPulled, Inv
    <2>2. CASE PullRaises(e, change)
      BY <2>2 DEF PullRaises, Inv, TypeOK
    <2> QED
      BY <2>1, <2>2
  <1>5. pulled' \in [Edge -> SUBSET Change]
    <2>1. \E rest \in SUBSET Change : pulled' = [pulled EXCEPT ![e] = rest]
      <3>1. CASE ApplyPulled(e, change)
        BY <3>1 DEF ApplyPulled, Inv, TypeOK
      <3>2. CASE PullRaises(e, change)
        BY <3>2 DEF PullRaises
      <3> QED
        BY <3>1, <3>2
    <2> QED
      BY <2>1 DEF Inv, TypeOK
  <1>6. pc' \in [Edge -> {"idle", "sent", "pulling"}]
    BY DEF ApplyPulled, PullRaises, Inv, TypeOK
  <1>7. UNCHANGED <<outbox, status, sent, requests, replies, task>>
    BY DEF ApplyPulled, PullRaises
  <1> QED
    BY <1>3, <1>4, <1>5, <1>6, <1>7 DEF Inv, TypeOK, PushesNameRows, NamesRows

\* A pull that is over, and a process that starts again.
LEMMA EndAndRestartKeepInv ==
    ASSUME Inv, NEW e \in Edge, EndSync(e) \/ Restart(e)
    PROVE  Inv'
  <1>1. CASE EndSync(e)
    BY <1>1 DEF EndSync, Inv, TypeOK, PushesNameRows, NamesRows
  <1>2. CASE Restart(e)
    <2>1. /\ status' \in [Edge -> Seq({"pending", "synced", "failed"})]
          /\ \A f \in Edge : Len(status'[f]) = Len(outbox[f])
      BY <1>2, MarkType DEF Restart, Inv
    <2>2. /\ known' \in [Edge -> Clock]
          /\ pc' \in [Edge -> {"idle", "sent", "pulling"}]
          /\ sent' \in [Edge -> SUBSET Nat]
          /\ pulled' \in [Edge -> SUBSET Change]
      BY <1>2, ClockType DEF Restart, Inv, TypeOK
    <2>3. UNCHANGED <<store, outbox, requests, replies, task>>
      BY <1>2 DEF Restart
    <2> QED
      BY <2>1, <2>2, <2>3 DEF Inv, TypeOK, PushesNameRows, NamesRows
  <1> QED
    BY <1>1, <1>2

\* The HQ takes a request, which keeps naming rows while it works on it.
LEMMA HQTakesKeepsInv ==
    ASSUME Inv, NEW request \in requests, HQTakes(request)
    PROVE  Inv'
  <1>1. request \in Request /\ NamesRows(request)
    BY DEF Inv, TypeOK, PushesNameRows
  <1>2. task' = [request |-> request, done |-> 0]
    BY DEF HQTakes
  <1>3. requests' \subseteq requests /\ replies' \subseteq replies
    BY DEF HQTakes
  <1>4. UNCHANGED <<store, edgeVars>>
    BY DEF HQTakes
  <1>5. Len(request.ids) \in Nat
    BY <1>1 DEF Request
  <1> QED
    BY <1>1, <1>2, <1>3, <1>4, <1>5
       DEF Inv, TypeOK, PushesNameRows, NamesRows, edgeVars

\* The operation the HQ is about to integrate exists.
LEMMA NextOperationExists ==
    ASSUME Inv, HQApplies
    PROVE  outbox[task.request.from][task.request.ids[task.done + 1]] \in Queued
  <1>1. /\ task.request \in Request
        /\ task.done \in Nat
        /\ task.done < Len(task.request.ids)
        /\ NamesRows(task.request)
    BY DEF Inv, TypeOK, PushesNameRows, HQApplies
  <1>2. task.done + 1 \in DOMAIN task.request.ids
    BY <1>1 DEF Request
  <1>3. task.request.from \in Edge
    BY <1>1 DEF Request
  <1> QED
    BY <1>1, <1>2, <1>3 DEF NamesRows, Inv, TypeOK

\* One turn of the loop over the operations of a push.
LEMMA HQAppliesKeepsInv ==
    ASSUME Inv, HQApplies
    PROVE  Inv'
  <1> DEFINE row == outbox[task.request.from]
                          [task.request.ids[task.done + 1]]
  <1>1. row.key \in Key /\ row.body \in Operation
    BY NextOperationExists DEF Queued
  <1>2. store' \in [Site -> [Key -> Record \cup {NoRecord}]]
    BY <1>1, IntegrateAtType, SitesAreNodes DEF HQApplies, Inv
  <1>3. /\ task' = [task EXCEPT !.done = @ + 1]
        /\ task \in [request : Request, done : Nat]
        /\ task.done < Len(task.request.ids)
    BY DEF HQApplies, Inv, TypeOK
  <1>4. Len(task.request.ids) \in Nat
    BY <1>3 DEF Request
  <1>5. /\ task' \in [request : Request, done : Nat]
        /\ task'.request = task.request
        /\ task'.done =< Len(task'.request.ids)
    BY <1>3, <1>4
  <1>6. UNCHANGED <<edgeVars, requests, replies>>
    BY DEF HQApplies
  <1> QED
    BY <1>2, <1>3, <1>5, <1>6, NoTaskIsNoWork
       DEF Inv, TypeOK, PushesNameRows, NamesRows, edgeVars

\* The HQ answers, refuses or dies.
LEMMA HQEndsKeepInv ==
    ASSUME Inv, HQAnswers \/ HQRefuses \/ HQCrashes
    PROVE  Inv'
  <1>1. task' = NoTask /\ UNCHANGED <<store, edgeVars, requests>>
    BY DEF HQAnswers, HQRefuses, HQCrashes
  <1>2. task.request \in Request
    BY DEF HQAnswers, HQRefuses, HQCrashes, Inv, TypeOK
  <1>3. /\ task.request.from \in Edge
        /\ task.request.vc \in Clock
        /\ ToSet(task.request.ids) \subseteq Nat
    BY <1>2 DEF Request, ToSet
  <1>4. replies' \subseteq Reply
    <2>1. CASE HQAnswers
      <3>1. Delta(task.request.from, task.request.vc) \subseteq Change
        BY <1>3, DeltaType DEF Inv
      <3>2. [to    |-> task.request.from,
             ok    |-> TRUE,
             acked |-> ToSet(task.request.ids),
             delta |-> Delta(task.request.from, task.request.vc)] \in Reply
        BY <1>3, <3>1 DEF Reply
      <3> QED
        BY <2>1, <3>2 DEF HQAnswers, Inv, TypeOK
    <2>2. CASE HQRefuses
      <3>1. [to    |-> task.request.from,
             ok    |-> FALSE,
             acked |-> {},
             delta |-> {}] \in Reply
        BY <1>3 DEF Reply
      <3> QED
        BY <2>2, <3>1 DEF HQRefuses, Inv, TypeOK
    <2>3. CASE HQCrashes
      BY <2>3 DEF HQCrashes, Inv, TypeOK
    <2> QED
      BY <2>1, <2>2, <2>3
  <1> QED
    BY <1>1, <1>4 DEF Inv, TypeOK, PushesNameRows, NamesRows, edgeVars

\* Messages are lost.
LEMMA LossKeepsInv ==
    ASSUME Inv,
           \/ \E request \in requests : LoseRequest(request)
           \/ \E reply \in replies : LoseReply(reply)
    PROVE  Inv'
  <1>1. /\ requests' \subseteq requests /\ replies' \subseteq replies
        /\ UNCHANGED <<store, edgeVars, task>>
    BY DEF LoseRequest, LoseReply
  <1> QED
    BY <1>1 DEF Inv, TypeOK, PushesNameRows, NamesRows, edgeVars

LEMMA NextKeepsInv == Inv /\ [Next]_vars => Inv'
  <1> SUFFICES ASSUME Inv, [Next]_vars
               PROVE  Inv'
    OBVIOUS
  <1>1. CASE Application
    BY <1>1, WriteKeepsInv DEF Application
  <1>2. ASSUME NEW e \in Edge, Sync(e)
        PROVE  Inv'
    <2>1. ASSUME Timeout(e)
          PROVE  Inv'
      BY <2>1, PushFailsKeepsInv DEF Timeout
    <2>2. ASSUME NEW reply \in replies, RefusedByHQ(e, reply)
          PROVE  Inv'
      BY <2>2, PushFailsKeepsInv DEF RefusedByHQ
    <2> QED
      BY <1>2, <2>1, <2>2, BeginKeepsInv, ReceiveKeepsInv, PullKeepsInv,
         EndAndRestartKeepInv DEF Sync
  <1>3. CASE Server
    BY <1>3, HQTakesKeepsInv, HQAppliesKeepsInv, HQEndsKeepInv, LossKeepsInv
       DEF Server
  <1>4. CASE UNCHANGED vars
    BY <1>4 DEF vars, edgeVars, Inv, TypeOK, PushesNameRows, NamesRows
  <1> QED
    BY <1>1, <1>2, <1>3, <1>4 DEF Next

THEOREM InvHolds == Spec => []Inv
  BY InitEstablishesInv, NextKeepsInv, PTL DEF Spec

\* The variables of HubSync keep their types.
THEOREM TypeCorrect == Spec => []TypeOK
  <1>1. Inv => TypeOK
    BY DEF Inv
  <1> QED
    BY <1>1, InvHolds, PTL

-----------------------------------------------------------------------------
(* No live record goes back.                                               *)

\* What LiveRecordsOnlyMoveForward says of one step.
RecordsMoveForward ==
    \A s \in Site, k \in Key :
        Live(store[s][k]) =>
           \/ store'[s][k] = store[s][k]
           \/ /\ store'[s][k] # NoRecord
              /\ Compare(store'[s][k].vc, store[s][k].vc)
                    \in {"after", "concurrent"}

\* A local write is made on the row it replaces.
LEMMA WriteMovesForward ==
    ASSUME Inv, NEW e \in Writers, NEW k \in Key, NEW type \in WriteTypes,
           NEW payload \in Payloads, NEW ts \in Times, NEW priority \in Tiers[e],
           Write(e, k, type, payload, ts, priority)
    PROVE  RecordsMoveForward
  <1> DEFINE op == NewOperation(store[e][k], e, type, payload, ts)
             new == ApplyOperation(store[e][k], op)
  <1>1. e \in Site /\ e \in Node
    BY HubAssumption, SitesAreNodes
  <1>2. store' = [store EXCEPT ![e][k] = new]
    BY DEF Write
  <1>3. ASSUME Live(store[e][k])
        PROVE  /\ new # NoRecord
               /\ Compare(new.vc, store[e][k].vc) \in {"after", "concurrent"}
    <2>1. store[e][k] \in Record
      BY <1>1, <1>3 DEF Live, Inv, TypeOK
    <2>2. MovesForward(store[e][k], new)
      BY <1>1, <2>1, HubAssumption, LocalWriteMovesForward
    <2>3. new \in Record
      BY <1>1, <2>1, HubAssumption, NewOperationType, ApplyType
    <2> QED
      BY <2>2, <2>3, NoRecordIsNoRow DEF MovesForward
  <1> QED
    BY <1>1, <1>2, <1>3 DEF RecordsMoveForward, Inv, TypeOK

\* A remote operation is resolved against the row it would replace.
LEMMA IntegrateAtMovesForward ==
    ASSUME Inv, NEW s \in Site, NEW change, change.key \in Key,
           change.body \in Operation, IntegrateAt(s, change)
    PROVE  RecordsMoveForward
  <1> DEFINE k == change.key
             new == Integrate(store[s][k], change.body)
  <1>1. store' = [store EXCEPT ![s][k] = new]
    BY DEF IntegrateAt, Inv, TypeOK
  <1>2. ASSUME Live(store[s][k]), new # store[s][k]
        PROVE  /\ new # NoRecord
               /\ Compare(new.vc, store[s][k].vc) \in {"after", "concurrent"}
    <2>1. store[s][k] \in Record /\ ~store[s][k].deleted
      BY <1>2 DEF Live, Inv, TypeOK
    <2>2. MovesForward(store[s][k], new)
      BY <1>2, <2>1, IntegrateMovesForward
    <2>3. new = ApplyOperation(store[s][k], change.body)
      BY <1>2 DEF Integrate
    <2>4. new \in Record
      BY <2>1, <2>3, ApplyType
    <2> QED
      BY <2>2, <2>4, NoRecordIsNoRow DEF MovesForward
  <1> QED
    BY <1>1, <1>2 DEF RecordsMoveForward, Inv, TypeOK

\* Only writes and integrations touch a record.
LEMMA StepMovesForward == Inv /\ [Next]_vars => RecordsMoveForward
  <1> SUFFICES ASSUME Inv, [Next]_vars
               PROVE  RecordsMoveForward
    OBVIOUS
  <1>1. CASE UNCHANGED store
    BY <1>1 DEF RecordsMoveForward
  <1>2. CASE Application
    BY <1>2, WriteMovesForward DEF Application
  <1>3. ASSUME NEW e \in Edge, NEW change \in pulled[e], ApplyPulled(e, change)
        PROVE  RecordsMoveForward
    <2>1. change.key \in Key /\ change.body \in Operation
      BY DEF Inv, TypeOK, Change
    <2> QED
      BY <1>3, <2>1, SitesAreNodes, IntegrateAtMovesForward DEF ApplyPulled
  <1>4. CASE HQApplies
    <2>1. HQ \in Site
      BY SitesAreNodes
    <2> QED
      BY <1>4, <2>1, NextOperationExists, IntegrateAtMovesForward
         DEF HQApplies, Queued
  <1>5. ASSUME NEW e \in Edge, Sync(e)
        PROVE  UNCHANGED store \/ \E change \in pulled[e] : ApplyPulled(e, change)
    BY <1>5 DEF Sync, BeginSync, Timeout, RefusedByHQ, PushFails, Receive,
                PullRaises, EndSync, Restart
  <1>6. CASE Server
    <2>1. UNCHANGED store \/ HQApplies
      BY <1>6 DEF Server, HQTakes, LoseRequest, HQAnswers, HQRefuses, HQCrashes,
                  LoseReply
    <2> QED
      BY <1>1, <1>4, <2>1
  <1> QED
    BY <1>1, <1>2, <1>3, <1>5, <1>6 DEF Next, vars

\* Whatever the messages, the crashes and the order of the writes, no site
\* takes a live record back to a version that precedes it (resolve of
\* src/conflict.py and the local writes of src/engine.py).
THEOREM NoLiveRecordGoesBack == Spec => LiveRecordsOnlyMoveForward
  BY InvHolds, StepMovesForward, PTL
     DEF Spec, LiveRecordsOnlyMoveForward, RecordsMoveForward

-----------------------------------------------------------------------------
(* A record that one edge writes and nobody deletes.                       *)

\* Of the clock of such a record only the writer counts.
SoloClock(a) == {v \in Clock : v[a] >= 1 /\ \A n \in Node \ {a} : v[n] = 0}

LEMMA SoloOrder ==
    ASSUME NEW a \in Node, NEW v \in SoloClock(a), NEW w \in SoloClock(a)
    PROVE  /\ v[a] \in Nat /\ w[a] \in Nat
           /\ Leq(v, w) <=> v[a] =< w[a]
           /\ v[a] = w[a] => v = w
  <1>1. /\ v \in Clock /\ w \in Clock
        /\ \A n \in Node \ {a} : v[n] = 0 /\ w[n] = 0
    BY DEF SoloClock
  <1>2. v[a] \in Nat /\ w[a] \in Nat
    BY <1>1 DEF Clock
  <1>3. Leq(v, w) <=> v[a] =< w[a]
    BY <1>1, <1>2 DEF Leq
  <1>4. ASSUME v[a] = w[a]
        PROVE  v = w
    BY <1>1, <1>4 DEF Clock
  <1> QED
    BY <1>2, <1>3, <1>4

\* The resolver keeps the greater count.
LEMMA IntegrateSolo ==
    ASSUME NEW a \in Node, NEW rec, NEW c,
           rec # NoRecord => ~rec.deleted /\ rec.vc \in SoloClock(a),
           c.vc \in SoloClock(a), c.type # "delete"
    PROVE  Integrate(rec, c) = IF rec = NoRecord \/ rec.vc[a] < c.vc[a]
                               THEN ApplyOperation(rec, c) ELSE rec
  <1>1. CASE rec = NoRecord
    <2>1. Accepts(rec, c)
      BY <1>1 DEF Accepts, Comparison
    <2> QED
      BY <1>1, <2>1 DEF Integrate, Resolve
  <1>2. CASE rec # NoRecord
    <2>1. /\ rec.vc[a] \in Nat /\ c.vc[a] \in Nat
          /\ Leq(rec.vc, c.vc) <=> rec.vc[a] =< c.vc[a]
          /\ Leq(c.vc, rec.vc) <=> c.vc[a] =< rec.vc[a]
      BY <1>2, SoloOrder
    <2>2. Comparison(rec, c) = Compare(rec.vc, c.vc)
      BY <1>2 DEF Comparison
    <2>3. CASE rec.vc[a] < c.vc[a]
      <3>1. Compare(rec.vc, c.vc) = "before"
        BY <2>1, <2>3 DEF Compare
      <3>2. Accepts(rec, c)
        BY <2>2, <3>1 DEF Accepts
      <3> QED
        BY <2>3, <3>2 DEF Integrate, Resolve
    <2>4. CASE ~(rec.vc[a] < c.vc[a])
      <3>1. Compare(rec.vc, c.vc) \in {"equal", "after"}
        BY <2>1, <2>4 DEF Compare
      <3>2. ~Accepts(rec, c)
        BY <2>2, <3>1 DEF Accepts
      <3> QED
        BY <1>2, <2>4, <3>2 DEF Integrate, Resolve
    <2> QED
      BY <2>3, <2>4
  <1> QED
    BY <1>1, <1>2

Body(a, i) == outbox[a][i].body

\* The operations on record k in the outbox of edge a, and that they are the
\* only ones on it and none of them a delete.
OpsOn(a, k) == {i \in DOMAIN outbox[a] : outbox[a][i].key = k}

Solo(a, k) ==
    \A e \in Edge : \A i \in OpsOn(e, k) : e = a /\ Body(e, i).type # "delete"

\* The row is the version the operation made; an operation is that operation or
\* what the HQ makes of its version for a delta.
Shows(rec, o) ==
    /\ rec.vc = o.vc /\ rec.by = o.node /\ ~rec.deleted
    /\ o.type # "merge" => rec.data = o.payload

Carries(c, o) ==
    /\ c.vc = o.vc /\ c.node = o.node /\ c.type # "delete"
    /\ o.type # "merge" => c.type # "merge" /\ c.payload = o.payload

\* The HQ has the version or a later one.
Reached(a, k, v) == store[HQ][k] # NoRecord /\ v[a] =< store[HQ][k].vc[a]

Sendable(a, k, e, c) ==
    /\ e # a
    /\ \E i \in OpsOn(a, k) : Carries(c.body, Body(a, i))
    /\ Reached(a, k, c.body.vc)

\* All rows and changes of record k are versions of edge a, the row of a is the
\* last one, the row of the HQ is not behind those of the other edges, nor
\* behind what is on its way to them, nor behind what was acknowledged.
OpsAreOrdered(a, k) ==
    /\ \A i \in OpsOn(a, k) :
          /\ Body(a, i).vc \in SoloClock(a)
          /\ Body(a, i).node = a
          /\ Body(a, i).type # "delete"
          /\ store[a][k] # NoRecord
          /\ Body(a, i).vc[a] =< store[a][k].vc[a]
    /\ \A i, j \in OpsOn(a, k) : i < j => Body(a, i).vc[a] < Body(a, j).vc[a]

RowsAreVersions(a, k) ==
    /\ \A s \in Site : \/ store[s][k] = NoRecord
                       \/ \E i \in OpsOn(a, k) : Shows(store[s][k], Body(a, i))
    /\ \A e \in Edge \ {a} :
          store[e][k] # NoRecord => Reached(a, k, store[e][k].vc)

ChangesAreVersions(a, k) ==
    /\ \A e \in Edge : \A c \in pulled[e] : c.key = k => Sendable(a, k, e, c)
    /\ \A reply \in replies : \A c \in reply.delta :
          c.key = k => Sendable(a, k, reply.to, c)

AckedIsReached(a, k) ==
    /\ task # NoTask /\ task.request.from = a =>
          \A m \in 1 .. task.done :
             task.request.ids[m] \in OpsOn(a, k) =>
                Reached(a, k, Body(a, task.request.ids[m]).vc)
    /\ \A reply \in replies : reply.to = a =>
          \A i \in reply.acked : i \in OpsOn(a, k) => Reached(a, k, Body(a, i).vc)
    /\ \A i \in OpsOn(a, k) :
          status[a][i] = "synced" => Reached(a, k, Body(a, i).vc)

Chain(a, k) ==
    /\ OpsAreOrdered(a, k)
    /\ RowsAreVersions(a, k)
    /\ ChangesAreVersions(a, k)
    /\ AckedIsReached(a, k)

\* An answer acknowledges rows of the outbox.
AcksNameRows ==
    \A reply \in replies : reply.acked \subseteq DOMAIN outbox[reply.to]

SoloInv ==
    /\ Inv
    /\ AcksNameRows
    /\ \A a \in Edge, k \in Key : Solo(a, k) => Chain(a, k)

\* A row is a version, so the facts about it are those of its operation.
LEMMA RowIsSolo ==
    ASSUME NEW a \in Edge, NEW k \in Key, Chain(a, k), NEW s \in Site,
           store[s][k] # NoRecord
    PROVE  /\ store[s][k].vc \in SoloClock(a) /\ ~store[s][k].deleted
           /\ store[s][k].by = a /\ store[s][k].vc[a] \in Nat
  <1>1. PICK i \in OpsOn(a, k) : Shows(store[s][k], Body(a, i))
    BY DEF Chain, RowsAreVersions
  <1>2. Body(a, i).vc \in SoloClock(a) /\ Body(a, i).node = a
    BY DEF Chain, OpsAreOrdered
  <1>3. a \in Node
    BY HubAssumption
  <1> QED
    BY <1>1, <1>2, <1>3, SoloOrder DEF Shows

LEMMA AppliedShows ==
    ASSUME NEW rec, NEW c, NEW o \in Operation, Carries(c, o),
           c.type \in OpType
    PROVE  Shows(ApplyOperation(rec, c), o)
  <1>1. o.type # "merge" => DataAfter(rec, c) = o.payload
    BY DEF Carries, DataAfter, OpType
  <1> QED
    BY <1>1 DEF Carries, Shows, ApplyOperation

\* Steps that neither write nor integrate a version of the record.
LEMMA ChainStays ==
    ASSUME NEW a \in Edge, NEW k \in Key, Chain(a, k),
           OpsOn(a, k)' = OpsOn(a, k),
           \A i \in OpsOn(a, k) : outbox'[a][i] = outbox[a][i],
           \A s \in Site : store'[s][k] = store[s][k],
           \A e \in Edge : \A c \in pulled'[e] :
              c.key = k => c \in pulled[e] \/ Sendable(a, k, e, c),
           \A reply \in replies' :
              \/ reply \in replies
              \/ /\ \A c \in reply.delta : c.key = k => Sendable(a, k, reply.to, c)
                 /\ reply.to = a => \A i \in reply.acked :
                       i \in OpsOn(a, k) => Reached(a, k, Body(a, i).vc),
           task' = task \/ task' = NoTask \/ task'.done = 0,
           \A i \in OpsOn(a, k) : status'[a][i] = "synced" =>
              status[a][i] = "synced" \/ Reached(a, k, Body(a, i).vc)
    PROVE  Chain(a, k)'
  <1>1. a \in Site /\ HQ \in Site /\ Edge \subseteq Site
    BY SitesAreNodes
  <1>2. \A i \in OpsOn(a, k) : Body(a, i)' = Body(a, i)
    BY DEF Body
  <1>3. ASSUME NEW v
        PROVE  Reached(a, k, v)' <=> Reached(a, k, v)
    BY <1>1 DEF Reached
  <1>4. OpsAreOrdered(a, k)'
    BY <1>1, <1>2 DEF Chain, OpsAreOrdered
  <1>5. RowsAreVersions(a, k)'
    BY <1>1, <1>2 DEF Chain, RowsAreVersions, Reached
  <1>6. ChangesAreVersions(a, k)'
    BY <1>2, <1>3 DEF Chain, ChangesAreVersions, Sendable
  <1>7. AckedIsReached(a, k)'
    BY <1>1, <1>2 DEF Chain, AckedIsReached, Reached
  <1> QED
    BY <1>4, <1>5, <1>6, <1>7 DEF Chain

\* What a write appends to the tables of the outbox.
LEMMA WriteAppends ==
    ASSUME Inv, NEW e \in Edge, NEW k \in Key, NEW type, NEW payload, NEW ts,
           NEW priority, Write(e, k, type, payload, ts, priority)
    PROVE  LET n  == Len(outbox[e]) + 1
               op == NewOperation(store[e][k], e, type, payload, ts)
           IN  /\ DOMAIN outbox'[e] = DOMAIN outbox[e] \cup {n}
               /\ \A i \in DOMAIN outbox[e] : i < n
               /\ \A i \in DOMAIN outbox[e] : /\ outbox'[e][i] = outbox[e][i]
                                              /\ status'[e][i] = status[e][i]
               /\ outbox'[e][n] = [key |-> k, tier |-> priority, body |-> op]
               /\ status'[e][n] = "pending"
               /\ \A f \in Edge \ {e} : /\ outbox'[f] = outbox[f]
                                        /\ status'[f] = status[f]
               /\ DOMAIN outbox[e] \subseteq Nat /\ n \in Nat
  <1> DEFINE n  == Len(outbox[e]) + 1
             op == NewOperation(store[e][k], e, type, payload, ts)
             new == [key |-> k, tier |-> priority, body |-> op]
             States == {"pending", "synced", "failed"}
  <1>1. /\ outbox[e] \in Seq(Queued) /\ status[e] \in Seq(States)
        /\ Len(status[e]) = Len(outbox[e])
    BY DEF Inv, TypeOK
  <1>2. /\ outbox' = [outbox EXCEPT ![e] = Append(outbox[e], new)]
        /\ status' = [status EXCEPT ![e] = Append(status[e], "pending")]
    BY DEF Write, Inv, TypeOK
  <1>3. outbox'[e] = Append(outbox[e], new) /\ status'[e] = Append(status[e], "pending")
    BY <1>2 DEF Inv, TypeOK
  <1>4. \A f \in Edge \ {e} : outbox'[f] = outbox[f] /\ status'[f] = status[f]
    BY <1>2 DEF Inv, TypeOK
  <1> HIDE DEF new
  <1>5. /\ DOMAIN outbox'[e] = DOMAIN outbox[e] \cup {n}
        /\ \A i \in DOMAIN outbox[e] : i < n /\ outbox'[e][i] = outbox[e][i]
        /\ outbox'[e][n] = new
        /\ DOMAIN outbox[e] \subseteq Nat /\ n \in Nat
    BY <1>1, <1>3
  <1>6. /\ \A i \in DOMAIN outbox[e] : status'[e][i] = status[e][i]
        /\ status'[e][n] = "pending"
    BY <1>1, <1>3
  <1> QED
    BY <1>4, <1>5, <1>6 DEF new

\* The outbox only grows, so who is alone with a record has been so.
LEMMA SoloWasSolo ==
    ASSUME NEW a, NEW k, Solo(a, k)',
           \A e \in Edge : /\ DOMAIN outbox[e] \subseteq DOMAIN outbox'[e]
                           /\ \A i \in DOMAIN outbox[e] :
                                 outbox'[e][i] = outbox[e][i]
    PROVE  Solo(a, k)
  BY DEF Solo, OpsOn, Body

LEMMA WriteKeepsChain ==
    ASSUME SoloInv, NEW e \in Writers, NEW j \in Key, NEW type \in WriteTypes,
           NEW payload \in Payloads, NEW ts \in Times, NEW priority \in Tiers[e],
           Write(e, j, type, payload, ts, priority),
           NEW a \in Edge, NEW k \in Key, Solo(a, k)'
    PROVE  Chain(a, k)'
  <1> DEFINE old == store[e][j]
             op == NewOperation(old, e, type, payload, ts)
  <1>1. e \in Edge /\ e \in Site /\ e \in Node /\ a \in Site /\ a \in Node
        /\ HQ \in Site /\ HQ # e
    BY HubAssumption, SitesAreNodes
  <1>2. PICK n \in Nat :
        /\ DOMAIN outbox'[e] = DOMAIN outbox[e] \cup {n}
        /\ \A i \in DOMAIN outbox[e] : i < n
        /\ \A i \in DOMAIN outbox[e] : /\ outbox'[e][i] = outbox[e][i]
                                       /\ status'[e][i] = status[e][i]
        /\ outbox'[e][n] = [key |-> j, tier |-> priority, body |-> op]
        /\ status'[e][n] = "pending"
        /\ \A f \in Edge \ {e} : outbox'[f] = outbox[f] /\ status'[f] = status[f]
        /\ DOMAIN outbox[e] \subseteq Nat
    BY <1>1, WriteAppends DEF SoloInv
  <1>3. Solo(a, k)
    <2>1. \A f \in Edge : /\ DOMAIN outbox[f] \subseteq DOMAIN outbox'[f]
                          /\ \A i \in DOMAIN outbox[f] :
                                outbox'[f][i] = outbox[f][i]
      BY <1>2
    <2> QED
      BY <2>1, SoloWasSolo
  <1>4. Chain(a, k)
    BY <1>3 DEF SoloInv
  <1>5. /\ store' = [store EXCEPT ![e][j] = ApplyOperation(old, op)]
        /\ UNCHANGED <<pc, sent, pulled, requests, replies, task>>
    BY DEF Write
  <1>6. \A s \in Site, l \in Key :
           store'[s][l] = IF s = e /\ l = j THEN ApplyOperation(old, op)
                                            ELSE store[s][l]
    BY <1>1, <1>5 DEF SoloInv, Inv, TypeOK
  <1>7. CASE j # k
    <2>1. OpsOn(a, k)' = OpsOn(a, k)
      BY <1>2, <1>7 DEF OpsOn
    <2>2. OpsOn(a, k) \subseteq DOMAIN outbox[a]
      BY DEF OpsOn
    <2>3. \A i \in OpsOn(a, k) : /\ outbox'[a][i] = outbox[a][i]
                                 /\ status'[a][i] = status[a][i]
      BY <1>2, <2>2
    <2>4. \A s \in Site : store'[s][k] = store[s][k]
      BY <1>6, <1>7
    <2> QED
      BY <1>4, <1>5, <2>1, <2>3, <2>4, ChainStays
  <1>8. CASE j = k
    <2>1. e = a /\ type # "delete"
      <3>1. n \in OpsOn(e, k)' /\ Body(e, n)' = op
        BY <1>2, <1>8 DEF OpsOn, Body
      <3>2. op.type = type
        BY DEF NewOperation
      <3> QED
        BY <1>1, <3>1, <3>2 DEF Solo
    <2>2. OpsOn(a, k)' = OpsOn(a, k) \cup {n} /\ n \notin OpsOn(a, k)
      BY <1>2, <1>8, <2>1 DEF OpsOn
    <2>3. /\ \A i \in OpsOn(a, k) : /\ Body(a, i)' = Body(a, i)
                                    /\ status'[a][i] = status[a][i]
                                    /\ i < n
          /\ Body(a, n)' = op /\ status'[a][n] = "pending"
      BY <1>2, <2>1 DEF OpsOn, Body
    <2>4. old # NoRecord => /\ old.vc \in SoloClock(a) /\ old.vc[a] \in Nat
                            /\ RecordClock(old) = old.vc
      BY <1>1, <1>4, <1>8, <2>1, RowIsSolo DEF RecordClock
    <2>5. /\ op \in Operation /\ op.type = type /\ op.node = a
          /\ op.vc = Increment(RecordClock(old), a)
      <3>1. old \in Record \cup {NoRecord}
        BY <1>1 DEF SoloInv, Inv, TypeOK
      <3>2. op \in Operation
        BY <1>1, <3>1, NewOperationType, HubAssumption
      <3> QED
        BY <2>1, <3>2 DEF NewOperation
    <2>6. /\ op.vc \in SoloClock(a)
          /\ op.vc[a] = 1 + RecordClock(old)[a]
          /\ RecordClock(old)[a] \in Nat
      <3>1. /\ RecordClock(old) \in Clock
            /\ \A m \in Node \ {a} : RecordClock(old)[m] = 0
        <4>1. CASE old = NoRecord
          BY <4>1, ClockType DEF RecordClock, EmptyClock
        <4>2. CASE old # NoRecord
          BY <2>4, <4>2 DEF SoloClock
        <4> QED
          BY <4>1, <4>2
      <3>2. Increment(RecordClock(old), a) \in Clock
        BY <1>1, <3>1, ClockType
      <3> HIDE DEF old, op
      <3> QED
        BY <1>1, <2>5, <3>1, <3>2 DEF Increment, SoloClock, Clock
    <2>7. \A i \in OpsOn(a, k) : /\ old # NoRecord
                                 /\ Body(a, i).vc \in SoloClock(a)
                                 /\ Body(a, i).vc[a] =< old.vc[a]
                                 /\ Body(a, i).vc[a] < op.vc[a]
      <3>1. ASSUME NEW i \in OpsOn(a, k)
            PROVE  /\ old # NoRecord
                   /\ Body(a, i).vc \in SoloClock(a)
                   /\ Body(a, i).vc[a] =< old.vc[a]
                   /\ Body(a, i).vc[a] < op.vc[a]
        <4>1. /\ old # NoRecord /\ Body(a, i).vc \in SoloClock(a)
              /\ Body(a, i).vc[a] =< old.vc[a]
          BY <1>4, <1>8, <2>1 DEF Chain, OpsAreOrdered
        <4>2. Body(a, i).vc[a] \in Nat
          BY <1>1, <4>1 DEF SoloClock, Clock
        <4> HIDE DEF op, old
        <4> QED
          BY <2>4, <2>6, <4>1, <4>2
      <3> QED
        BY <3>1
    <2>8. /\ store'[a][k] = ApplyOperation(old, op)
          /\ store'[a][k] # NoRecord
          /\ store'[a][k].vc = op.vc
          /\ Shows(store'[a][k], op)
          /\ \A s \in Site \ {a} : store'[s][k] = store[s][k]
      <3>1. store'[a][k] = ApplyOperation(old, op)
            /\ \A s \in Site \ {a} : store'[s][k] = store[s][k]
        BY <1>1, <1>6, <1>8, <2>1
      <3>2. Carries(op, op) /\ op.type \in OpType
        BY <2>1, <2>5 DEF Carries, Operation
      <3>3. Shows(ApplyOperation(old, op), op)
        BY <2>5, <3>2, AppliedShows
      <3>4. ApplyOperation(old, op) # NoRecord /\ ApplyOperation(old, op).vc = op.vc
        BY DEF ApplyOperation, NoRecord
      <3> QED
        BY <3>1, <3>3, <3>4
    <2> HIDE DEF old, op
    <2>9. store'[HQ][k] = store[HQ][k]
      BY <1>1, <2>1, <2>8
    <2>10. OpsAreOrdered(a, k)'
      <3>1. \A i \in OpsOn(a, k)' :
               /\ Body(a, i)'.vc \in SoloClock(a)
               /\ Body(a, i)'.node = a
               /\ Body(a, i)'.type # "delete"
               /\ Body(a, i)'.vc[a] =< op.vc[a]
        <4>1. ASSUME NEW i \in OpsOn(a, k)
              PROVE  /\ Body(a, i).vc \in SoloClock(a)
                     /\ Body(a, i).node = a
                     /\ Body(a, i).type # "delete"
                     /\ Body(a, i).vc[a] =< op.vc[a]
          <5>1. Body(a, i).vc \in SoloClock(a) /\ Body(a, i).vc[a] < op.vc[a]
            BY <2>7
          <5>2. Body(a, i).vc[a] =< op.vc[a]
            BY <1>1, <2>6, <5>1, SoloOrder
          <5> QED
            BY <1>4, <5>1, <5>2 DEF Chain, OpsAreOrdered
        <4>2. op.vc[a] =< op.vc[a]
          BY <2>6
        <4> QED
          BY <2>1, <2>2, <2>3, <2>5, <2>6, <4>1, <4>2
      <3>2. \A i, l \in OpsOn(a, k)' :
               i < l => Body(a, i)'.vc[a] < Body(a, l)'.vc[a]
        <4>1. \A i, l \in OpsOn(a, k) :
                 i < l => Body(a, i).vc[a] < Body(a, l).vc[a]
          BY <1>4 DEF Chain, OpsAreOrdered
        <4>2. \A i \in OpsOn(a, k) : ~(n < i)
          <5>1. \A i \in OpsOn(a, k) : i \in Nat
            BY <1>2, <2>1 DEF OpsOn
          <5> QED
            BY <1>2, <2>3, <5>1
        <4>3. ~(n < n)
          BY <1>2
        <4> QED
          BY <2>2, <2>3, <2>7, <4>1, <4>2, <4>3
      <3> QED
        BY <2>8, <3>1, <3>2 DEF OpsAreOrdered
    <2>11. RowsAreVersions(a, k)'
      <3>1. ASSUME NEW s \in Site
            PROVE  \/ store'[s][k] = NoRecord
                   \/ \E i \in OpsOn(a, k)' : Shows(store'[s][k], Body(a, i)')
        <4>1. CASE s = a
          BY <2>2, <2>3, <2>8, <4>1
        <4>2. CASE s # a
          BY <1>4, <2>2, <2>3, <2>8, <4>2 DEF Chain, RowsAreVersions
        <4> QED
          BY <4>1, <4>2
      <3>2. \A f \in Edge \ {a} :
               store'[f][k] # NoRecord => Reached(a, k, store[f][k].vc)'
        BY <1>1, <1>4, <2>1, <2>8, SitesAreNodes
        DEF Chain, RowsAreVersions, Reached
      <3> QED
        BY <3>1, <3>2 DEF RowsAreVersions
    <2>12. ChangesAreVersions(a, k)'
      <3>1. ASSUME NEW f, NEW c, Sendable(a, k, f, c)
            PROVE  Sendable(a, k, f, c)'
        BY <2>2, <2>3, <2>9, <3>1 DEF Sendable, Reached
      <3> QED
        BY <1>4, <1>5, <3>1 DEF Chain, ChangesAreVersions
    <2>13. AckedIsReached(a, k)'
      <3>1. task # NoTask /\ task.request.from = a =>
               \A m \in 1 .. task.done :
                  /\ task.request.ids[m] \in DOMAIN outbox[a]
                  /\ task.request.ids[m] \in OpsOn(a, k) =>
                        Reached(a, k, Body(a, task.request.ids[m]).vc)
        <4>1. SUFFICES ASSUME task # NoTask, task.request.from = a,
                              NEW m \in 1 .. task.done
                       PROVE  task.request.ids[m] \in DOMAIN outbox[a]
          BY <1>4 DEF Chain, AckedIsReached
        <4>2. /\ task.done \in Nat /\ task.request.ids \in Seq(Nat)
              /\ task.done =< Len(task.request.ids)
              /\ NamesRows(task.request)
          BY <4>1 DEF SoloInv, Inv, TypeOK, PushesNameRows, Request
        <4>3. m \in DOMAIN task.request.ids
          BY <4>2
        <4> QED
          BY <4>1, <4>2, <4>3 DEF NamesRows
      <3>2. \A reply \in replies : reply.to = a =>
               \A i \in reply.acked : i \in DOMAIN outbox[a]
        BY DEF SoloInv, AcksNameRows
      <3>3. \A i \in OpsOn(a, k)' : i \in DOMAIN outbox[a] =>
               i \in OpsOn(a, k) /\ Body(a, i)' = Body(a, i)
        BY <1>2, <2>1, <2>2, <2>3
      <3>4. \A i \in OpsOn(a, k)' :
               status'[a][i] = "synced" => Reached(a, k, Body(a, i).vc)'
        <4>1. SUFFICES ASSUME NEW i \in OpsOn(a, k)', status'[a][i] = "synced"
                       PROVE  Reached(a, k, Body(a, i).vc)'
          OBVIOUS
        <4>2. i \in OpsOn(a, k) /\ Body(a, i)' = Body(a, i)
              /\ status[a][i] = "synced"
          BY <2>2, <2>3, <4>1
        <4>3. Reached(a, k, Body(a, i).vc)
          BY <1>4, <4>2 DEF Chain, AckedIsReached
        <4> QED
          BY <2>9, <4>2, <4>3 DEF Reached
      <3>5. ASSUME task' # NoTask, task'.request.from = a,
                   NEW m \in 1 .. task'.done,
                   task'.request.ids[m] \in OpsOn(a, k)'
            PROVE  Reached(a, k, Body(a, task.request.ids[m]).vc)'
        <4> DEFINE i == task.request.ids[m]
        <4>1. i \in OpsOn(a, k) /\ Body(a, i)' = Body(a, i)
              /\ Reached(a, k, Body(a, i).vc)
          BY <1>5, <3>1, <3>3, <3>5
        <4>2. task' = task
          BY <1>5
        <4> QED
          BY <2>9, <4>1, <4>2 DEF Reached
      <3>6. ASSUME NEW reply \in replies', reply.to = a, NEW i \in reply.acked,
                   i \in OpsOn(a, k)'
            PROVE  Reached(a, k, Body(a, i).vc)'
        <4>1. i \in OpsOn(a, k) /\ Body(a, i)' = Body(a, i)
          BY <1>5, <3>2, <3>3, <3>6
        <4>2. Reached(a, k, Body(a, i).vc)
          BY <1>4, <1>5, <3>6, <4>1 DEF Chain, AckedIsReached
        <4> QED
          BY <2>9, <4>1, <4>2 DEF Reached
      <3> QED
        BY <3>4, <3>5, <3>6 DEF AckedIsReached
    <2> QED
      BY <2>10, <2>11, <2>12, <2>13 DEF Chain
  <1> QED
    BY <1>7, <1>8

LEMMA MarkSets ==
    ASSUME TypeOK, NEW e \in Edge, NEW ids, NEW state, Mark(e, ids, state),
           NEW a \in Edge, NEW i \in DOMAIN outbox[a]
    PROVE  status'[a][i] = IF a = e /\ i \in ids THEN state ELSE status[a][i]
  <1>1. /\ outbox[a] \in Seq(Queued)
        /\ status[a] \in Seq({"pending", "synced", "failed"})
        /\ Len(status[a]) = Len(outbox[a])
    BY DEF TypeOK
  <1>2. i \in DOMAIN status[a]
    BY <1>1
  <1> QED
    BY <1>2 DEF Mark, TypeOK

\* An edge integrates a change of its delta.
LEMMA PullKeepsChain ==
    ASSUME SoloInv, NEW e \in Edge, NEW c \in pulled[e], ApplyPulled(e, c),
           NEW a \in Edge, NEW k \in Key, Chain(a, k)
    PROVE  Chain(a, k)'
  <1>1. e \in Site /\ a \in Site /\ a \in Node /\ HQ \in Site /\ HQ # e
    BY HubAssumption, SitesAreNodes
  <1>2. /\ outbox' = outbox /\ status' = status /\ replies' = replies
        /\ task' = task
        /\ \A f \in Edge : pulled'[f] \subseteq pulled[f]
    BY DEF ApplyPulled, SoloInv, Inv, TypeOK
  <1>3. OpsOn(a, k)' = OpsOn(a, k) /\ \A i : Body(a, i)' = Body(a, i)
    BY <1>2 DEF OpsOn, Body
  <1>4. c.key \in Key /\ c.body \in Operation
    BY DEF SoloInv, Inv, TypeOK, Change
  <1> DEFINE old == store[e][k]
  <1>5. \A s \in Site : store'[s][k] = IF s = e /\ c.key = k
                                       THEN Integrate(old, c.body)
                                       ELSE store[s][k]
    BY <1>1, <1>4 DEF ApplyPulled, IntegrateAt, SoloInv, Inv, TypeOK
  <1>6. CASE c.key # k
    BY <1>2, <1>3, <1>5, <1>6, ChainStays
  <1>7. CASE c.key = k
    <2>1. Sendable(a, k, e, c)
      BY <1>7 DEF Chain, ChangesAreVersions
    <2>2. PICK i \in OpsOn(a, k) : Carries(c.body, Body(a, i))
      BY <2>1 DEF Sendable
    <2>3. /\ Body(a, i) \in Operation /\ Body(a, i).vc \in SoloClock(a)
      <3>1. outbox[a][i] \in Queued
        BY DEF OpsOn, SoloInv, Inv, TypeOK
      <3> QED
        BY <3>1 DEF Queued, Body, Chain, OpsAreOrdered
    <2>4. e # a /\ Reached(a, k, c.body.vc)
      BY <2>1 DEF Sendable
    <2>5. \/ store'[e][k] = old
          \/ store'[e][k] = ApplyOperation(old, c.body)
      BY <1>1, <1>5 DEF Integrate
    <2>6. /\ Shows(ApplyOperation(old, c.body), Body(a, i))
          /\ ApplyOperation(old, c.body).vc = c.body.vc
      BY <1>4, <2>2, <2>3, AppliedShows DEF Operation, ApplyOperation
    <2>7. \A s \in Site \ {e} : store'[s][k] = store[s][k]
      BY <1>5
    <2> HIDE DEF old
    <2>8. OpsAreOrdered(a, k)'
      BY <1>1, <1>3, <2>4, <2>7 DEF Chain, OpsAreOrdered
    <2>9. RowsAreVersions(a, k)'
      <3>1. ASSUME NEW s \in Site
            PROVE  \/ store'[s][k] = NoRecord
                   \/ \E l \in OpsOn(a, k) : Shows(store'[s][k], Body(a, l))
        BY <2>5, <2>6, <2>7 DEF Chain, RowsAreVersions, old
      <3>2. ASSUME NEW f \in Edge \ {a}, store'[f][k] # NoRecord
            PROVE  Reached(a, k, store'[f][k].vc)
        <4>1. CASE f # e
          BY <2>7, <3>2, <4>1, SitesAreNodes DEF Chain, RowsAreVersions
        <4>2. CASE f = e /\ store'[e][k] = old
          BY <3>2, <4>2 DEF Chain, RowsAreVersions, old
        <4>3. CASE f = e /\ store'[e][k] = ApplyOperation(old, c.body)
          BY <2>4, <2>6, <4>3
        <4> QED
          BY <2>5, <4>1, <4>2, <4>3
      <3> QED
        BY <1>1, <1>3, <2>7, <3>1, <3>2 DEF RowsAreVersions, Reached
    <2>10. ChangesAreVersions(a, k)'
      BY <1>1, <1>2, <1>3, <2>7
      DEF Chain, ChangesAreVersions, Sendable, Reached
    <2>11. AckedIsReached(a, k)'
      BY <1>1, <1>2, <1>3, <2>7 DEF Chain, AckedIsReached, Reached
    <2> QED
      BY <2>8, <2>9, <2>10, <2>11 DEF Chain
  <1> QED
    BY <1>6, <1>7

LEMMA SyncKeepsChain ==
    ASSUME SoloInv, NEW e \in Edge, Sync(e),
           NEW a \in Edge, NEW k \in Key, Chain(a, k)
    PROVE  Chain(a, k)'
  <1> USE DEF SoloInv, Inv
  <1>1. outbox' = outbox
    BY DEF Sync, BeginSync, Timeout, RefusedByHQ, PushFails, Receive, ApplyPulled,
           PullRaises, EndSync, Restart
  <1>2. OpsOn(a, k)' = OpsOn(a, k) /\ OpsOn(a, k) \subseteq DOMAIN outbox[a]
    BY <1>1 DEF OpsOn
  <1>3. ASSUME NEW cutoff \in Cutoffs, BeginSync(e, cutoff)
        PROVE  Chain(a, k)'
    BY <1>1, <1>2, <1>3, ChainStays DEF BeginSync
  <1>4. ASSUME PushFails(e), replies' \subseteq replies
        PROVE  Chain(a, k)'
    <2>1. Mark(e, sent[e], "failed") /\ store' = store /\ pulled' = pulled
          /\ task' = task
      BY <1>4 DEF PushFails
    <2>2. \A i \in OpsOn(a, k) :
             status'[a][i] = "synced" => status[a][i] = "synced"
      BY <1>2, <2>1, MarkSets
    <2> QED
      BY <1>1, <1>2, <1>4, <2>1, <2>2, ChainStays
  <1>5. ASSUME NEW reply \in replies, reply.to = e, Receive(e, reply)
        PROVE  Chain(a, k)'
    <2>1. /\ Mark(e, reply.acked, "synced") /\ store' = store /\ task' = task
          /\ replies' \subseteq replies
      BY <1>5 DEF Receive
    <2>2. \A i \in OpsOn(a, k) : status'[a][i] = "synced" =>
             status[a][i] = "synced" \/ Reached(a, k, Body(a, i).vc)
      BY <1>2, <1>5, <2>1, MarkSets DEF Chain, AckedIsReached
    <2>3. \A f \in Edge : pulled'[f] = IF f = e THEN reply.delta ELSE pulled[f]
      BY <1>5 DEF Receive, TypeOK
    <2>4. \A f \in Edge : \A c \in pulled'[f] :
             c.key = k => c \in pulled[f] \/ Sendable(a, k, f, c)
      BY <1>5, <2>3 DEF Chain, ChangesAreVersions
    <2> QED
      BY <1>1, <1>2, <2>1, <2>2, <2>4, ChainStays
  <1>6. ASSUME NEW c \in pulled[e], PullRaises(e, c)
        PROVE  Chain(a, k)'
    <2>1. \A f \in Edge : pulled'[f] \subseteq pulled[f]
      BY <1>6 DEF PullRaises, TypeOK
    <2>2. store' = store /\ status' = status /\ replies' = replies /\ task' = task
      BY <1>6 DEF PullRaises
    <2> QED
      BY <1>1, <1>2, <2>1, <2>2, ChainStays
  <1>7. CASE EndSync(e)
    BY <1>1, <1>2, <1>7, ChainStays DEF EndSync
  <1>8. CASE Restart(e)
    <2>1. \A f \in Edge : pulled'[f] \subseteq pulled[f]
      BY <1>8 DEF Restart, TypeOK
    <2>2. /\ Mark(e, InState(e, "failed"), "pending") /\ store' = store
          /\ replies' = replies /\ task' = task
      BY <1>8 DEF Restart
    <2>3. \A i \in OpsOn(a, k) :
             status'[a][i] = "synced" => status[a][i] = "synced"
      BY <1>2, <2>2, MarkSets
    <2> QED
      BY <1>1, <1>2, <2>1, <2>2, <2>3, ChainStays
  <1>9. ASSUME Timeout(e)
        PROVE  Chain(a, k)'
    BY <1>4, <1>9 DEF Timeout
  <1>10. ASSUME NEW reply \in replies, RefusedByHQ(e, reply)
         PROVE  Chain(a, k)'
    BY <1>4, <1>10 DEF RefusedByHQ
  <1> QED
    BY <1>3, <1>5, <1>6, <1>7, <1>8, <1>9, <1>10, PullKeepsChain DEF Sync

\* The HQ integrates an operation: its count for the writer never decreases.
LEMMA HQAppliesKeepsChain ==
    ASSUME SoloInv, HQApplies, NEW a \in Edge, NEW k \in Key, Solo(a, k)
    PROVE  Chain(a, k)'
  <1>1. /\ a \in Site /\ a \in Node /\ HQ \in Site /\ HQ # a /\ HQ \notin Edge
        /\ Edge \subseteq Site
    BY HubAssumption, SitesAreNodes
  <1>2. PICK from, id : /\ from = task.request.from
                        /\ id = task.request.ids[task.done + 1]
    OBVIOUS
  <1>3. PICK row : row = outbox[from][id]
    OBVIOUS
  <1>4. /\ task \in [request : Request, done : Nat]
        /\ task.done < Len(task.request.ids)
        /\ NamesRows(task.request)
    BY DEF HQApplies, SoloInv, Inv, TypeOK, PushesNameRows
  <1>5. /\ from \in Edge /\ task.done \in Nat /\ task.request.ids \in Seq(Nat)
        /\ id \in DOMAIN outbox[from]
    BY <1>2, <1>4 DEF Request, NamesRows
  <1>6. row.key \in Key /\ row.body \in Operation
    BY <1>2, <1>3, NextOperationExists DEF SoloInv, Queued
  <1>7. /\ task' = [task EXCEPT !.done = @ + 1]
        /\ outbox' = outbox /\ status' = status /\ pulled' = pulled
        /\ replies' = replies
    BY DEF HQApplies, edgeVars
  <1>8. /\ task'.request = task.request /\ task'.done = task.done + 1
        /\ task # NoTask
    BY <1>4, <1>7 DEF HQApplies
  <1>9. Chain(a, k)
    BY DEF SoloInv
  <1>10. OpsOn(a, k)' = OpsOn(a, k) /\ \A i : Body(a, i)' = Body(a, i)
    BY <1>7 DEF OpsOn, Body
  <1> DEFINE old == store[HQ][k]
  <1>11. /\ store'[HQ][k] = IF row.key = k THEN Integrate(old, row.body) ELSE old
         /\ \A s \in Site \ {HQ} : store'[s][k] = store[s][k]
    BY <1>1, <1>2, <1>3, <1>6 DEF HQApplies, IntegrateAt, SoloInv, Inv, TypeOK
  <1>12. row.key = k => from = a /\ id \in OpsOn(a, k) /\ row.body = Body(a, id)
    BY <1>3, <1>5 DEF Solo, OpsOn, Body
  <1>13. /\ \/ store'[HQ][k] = old
            \/ \E i \in OpsOn(a, k) : Shows(store'[HQ][k], Body(a, i))
         /\ \A v \in SoloClock(a) : Reached(a, k, v) => Reached(a, k, v)'
         /\ from = a /\ id \in OpsOn(a, k) => Reached(a, k, Body(a, id).vc)'
    <2>1. CASE row.key # k
      <3>1. store'[HQ][k] = old
        BY <1>11, <2>1
      <3>2. ~(from = a /\ id \in OpsOn(a, k))
        BY <1>3, <2>1 DEF OpsOn
      <3> QED
        BY <3>1, <3>2 DEF Reached
    <2>2. CASE row.key = k
      <3>1. /\ from = a /\ id \in OpsOn(a, k) /\ row.body = Body(a, id)
            /\ row.body.vc \in SoloClock(a) /\ row.body.type # "delete"
            /\ row.body.vc[a] \in Nat
        BY <1>1, <1>9, <1>12, <2>2, SoloOrder DEF Chain, OpsAreOrdered
      <3>2. old # NoRecord => /\ old.vc \in SoloClock(a) /\ ~old.deleted
                              /\ old.vc[a] \in Nat
        BY <1>1, <1>9, RowIsSolo
      <3>3. store'[HQ][k] = IF old = NoRecord \/ old.vc[a] < row.body.vc[a]
                            THEN ApplyOperation(old, row.body) ELSE old
        BY <1>1, <1>11, <2>2, <3>1, <3>2, IntegrateSolo
      <3>4. /\ Shows(ApplyOperation(old, row.body), Body(a, id))
            /\ ApplyOperation(old, row.body).vc = row.body.vc
            /\ ApplyOperation(old, row.body) # NoRecord
        <4>1. Carries(row.body, Body(a, id)) /\ row.body.type \in OpType
          BY <1>6, <3>1 DEF Carries, Operation
        <4> QED
          BY <1>6, <3>1, <4>1, AppliedShows DEF ApplyOperation, NoRecord
      <3> HIDE DEF old
      <3>5. /\ store'[HQ][k] # NoRecord
            /\ row.body.vc[a] =< store'[HQ][k].vc[a]
            /\ old # NoRecord => old.vc[a] =< store'[HQ][k].vc[a]
            /\ store'[HQ][k].vc[a] \in Nat
        BY <3>1, <3>2, <3>3, <3>4
      <3>6. \/ store'[HQ][k] = old
            \/ \E i \in OpsOn(a, k) : Shows(store'[HQ][k], Body(a, i))
        BY <3>1, <3>3, <3>4
      <3>7. ASSUME NEW v \in SoloClock(a), Reached(a, k, v)
            PROVE  Reached(a, k, v)'
        <4>1. old # NoRecord /\ v[a] =< old.vc[a]
          BY <3>7 DEF Reached, old
        <4>2. v[a] \in Nat
          BY <1>1, SoloOrder
        <4>3. v[a] =< store'[HQ][k].vc[a]
          BY <3>2, <3>5, <4>1, <4>2
        <4> QED
          BY <3>5, <4>3 DEF Reached
      <3>8. Reached(a, k, Body(a, id).vc)'
        <4>1. Body(a, id)' = Body(a, id)
          BY <1>10
        <4> QED
          BY <3>1, <3>5, <4>1 DEF Reached
      <3> QED
        BY <3>6, <3>7, <3>8
    <2> QED
      BY <2>1, <2>2
  <1> HIDE DEF old
  <1>14. OpsAreOrdered(a, k)'
    BY <1>1, <1>9, <1>10, <1>11 DEF Chain, OpsAreOrdered
  <1>15. RowsAreVersions(a, k)'
    <2>1. ASSUME NEW s \in Site
          PROVE  \/ store'[s][k] = NoRecord
                 \/ \E i \in OpsOn(a, k) : Shows(store'[s][k], Body(a, i))
      BY <1>1, <1>9, <1>11, <1>13 DEF Chain, RowsAreVersions, old
    <2>2. ASSUME NEW e \in Edge \ {a}, store'[e][k] # NoRecord
          PROVE  Reached(a, k, store[e][k].vc)'
      <3>1. store'[e][k] = store[e][k] /\ e \in Site
        BY <1>1, <1>11
      <3>2. store[e][k].vc \in SoloClock(a)
        BY <1>9, <2>2, <3>1, RowIsSolo
      <3>3. Reached(a, k, store[e][k].vc)
        BY <1>9, <2>2, <3>1 DEF Chain, RowsAreVersions
      <3>4. PICK v \in SoloClock(a) : v = store[e][k].vc
        BY <3>2
      <3>5. Reached(a, k, v)' /\ v = store'[e][k].vc
        BY <1>13, <3>1, <3>3, <3>4
      <3> QED
        BY <3>1, <3>5 DEF Reached
    <2> QED
      BY <1>1, <1>10, <1>11, <2>1, <2>2 DEF RowsAreVersions, Reached
  <1>16. ASSUME NEW e, NEW c, Sendable(a, k, e, c)
         PROVE  Sendable(a, k, e, c)'
    <2>1. c.body.vc \in SoloClock(a)
      BY <1>9, <1>16 DEF Sendable, Carries, Chain, OpsAreOrdered
    <2>2. Reached(a, k, c.body.vc)'
      BY <1>13, <1>16, <2>1 DEF Sendable
    <2> QED
      BY <1>10, <1>16, <2>2 DEF Sendable
  <1>17. ChangesAreVersions(a, k)'
    BY <1>7, <1>9, <1>16 DEF Chain, ChangesAreVersions
  <1>18. ASSUME NEW i \in OpsOn(a, k), Reached(a, k, Body(a, i).vc)
         PROVE  Reached(a, k, Body(a, i).vc)'
    <2>1. PICK v \in SoloClock(a) : v = Body(a, i).vc
      BY <1>9 DEF Chain, OpsAreOrdered
    <2>2. Reached(a, k, v)'
      BY <1>13, <1>18, <2>1
    <2> QED
      BY <1>10, <2>1, <2>2 DEF Reached
  <1>19. AckedIsReached(a, k)'
    <2>1. ASSUME from = a, NEW m \in 1 .. task.done + 1,
                 task.request.ids[m] \in OpsOn(a, k)
          PROVE  Reached(a, k, Body(a, task.request.ids[m]).vc)'
      <3>1. PICK i : i = task.request.ids[m]
        OBVIOUS
      <3>2. task'.request.ids[m] = i
        BY <1>8, <3>1
      <3>3. Reached(a, k, Body(a, i).vc)'
        <4>1. CASE m = task.done + 1
          BY <1>2, <1>13, <2>1, <3>1, <4>1
        <4>2. CASE m # task.done + 1
          <5>1. m \in 1 .. task.done
            BY <1>5, <4>2
          <5>2. Reached(a, k, Body(a, i).vc)
            BY <1>2, <1>8, <1>9, <2>1, <3>1, <5>1 DEF Chain, AckedIsReached
          <5> QED
            BY <1>18, <2>1, <3>1, <5>2
        <4> QED
          BY <4>1, <4>2
      <3>4. Body(a, task.request.ids[m])' = Body(a, i)'
        BY <1>10, <3>2
      <3> QED
        BY <3>3, <3>4 DEF Reached
    <2>2. ASSUME NEW reply \in replies, reply.to = a, NEW i \in reply.acked,
                 i \in OpsOn(a, k)
          PROVE  Reached(a, k, Body(a, i).vc)'
      BY <1>9, <1>18, <2>2 DEF Chain, AckedIsReached
    <2>3. ASSUME NEW i \in OpsOn(a, k), status[a][i] = "synced"
          PROVE  Reached(a, k, Body(a, i).vc)'
      BY <1>9, <1>18, <2>3 DEF Chain, AckedIsReached
    <2> QED
      BY <1>2, <1>7, <1>8, <1>10, <2>1, <2>2, <2>3 DEF AckedIsReached
  <1> QED
    BY <1>14, <1>15, <1>17, <1>19 DEF Chain

\* The answer acknowledges what was integrated and carries the row of the HQ.
LEMMA HQAnswersKeepsChain ==
    ASSUME SoloInv, HQAnswers, NEW a \in Edge, NEW k \in Key, Chain(a, k)
    PROVE  Chain(a, k)'
  <1> DEFINE from == task.request.from
             delta == Delta(from, task.request.vc)
             answer == [to    |-> from,
                        ok    |-> TRUE,
                        acked |-> ToSet(task.request.ids),
                        delta |-> delta]
  <1>1. HQ \in Site
    BY SitesAreNodes
  <1>2. /\ task # NoTask /\ task.done = Len(task.request.ids)
        /\ task.request.ids \in Seq(Nat)
    BY DEF HQAnswers, SoloInv, Inv, TypeOK, Request
  <1>3. \A c \in delta : c.key = k => Sendable(a, k, from, c)
    <2>1. SUFFICES ASSUME NEW c \in delta, c.key = k
                   PROVE  Sendable(a, k, from, c)
      OBVIOUS
    <2> DEFINE rec == store[HQ][k]
    <2>2. /\ rec # NoRecord /\ rec.by # from
          /\ c.body.vc = rec.vc /\ c.body.node = rec.by
          /\ c.body.payload = rec.data
          /\ c.body.type = IF rec.deleted THEN "delete" ELSE "update"
      BY <2>1 DEF Delta
    <2>3. /\ ~rec.deleted /\ rec.by = a /\ rec.vc[a] \in Nat
      BY <1>1, <2>2, RowIsSolo
    <2>4. PICK i \in OpsOn(a, k) : Shows(rec, Body(a, i))
      BY <1>1, <2>2 DEF Chain, RowsAreVersions
    <2>5. Carries(c.body, Body(a, i))
      BY <2>2, <2>3, <2>4 DEF Shows, Carries
    <2>6. Reached(a, k, c.body.vc)
      BY <2>2, <2>3 DEF Reached
    <2> QED
      BY <2>2, <2>3, <2>5, <2>6 DEF Sendable
  <1>4. from = a => \A i \in ToSet(task.request.ids) :
                       i \in OpsOn(a, k) => Reached(a, k, Body(a, i).vc)
    <2>1. SUFFICES ASSUME from = a, NEW m \in DOMAIN task.request.ids,
                          task.request.ids[m] \in OpsOn(a, k)
                   PROVE  Reached(a, k, Body(a, task.request.ids[m]).vc)
      BY DEF ToSet
    <2>2. m \in 1 .. task.done
      BY <1>2, <2>1
    <2> QED
      BY <1>2, <2>1, <2>2 DEF Chain, AckedIsReached
  <1>5. /\ replies' = replies \cup {answer} /\ task' = NoTask
        /\ UNCHANGED <<store, edgeVars, requests>>
    BY DEF HQAnswers
  <1>6. OpsOn(a, k)' = OpsOn(a, k)
    BY <1>5 DEF OpsOn, edgeVars
  <1>7. ASSUME NEW reply \in replies'
        PROVE  \/ reply \in replies
               \/ /\ \A c \in reply.delta : c.key = k => Sendable(a, k, reply.to, c)
                  /\ reply.to = a => \A i \in reply.acked :
                        i \in OpsOn(a, k) => Reached(a, k, Body(a, i).vc)
    BY <1>3, <1>4, <1>5
  <1> QED
    BY <1>5, <1>6, <1>7, ChainStays DEF edgeVars

LEMMA ServerKeepsChain ==
    ASSUME SoloInv, Server, NEW a \in Edge, NEW k \in Key, Solo(a, k)
    PROVE  Chain(a, k)'
  <1>1. Chain(a, k)
    BY DEF SoloInv
  <1>2. OpsOn(a, k)' = OpsOn(a, k) /\ outbox' = outbox
    BY DEF Server, HQTakes, LoseRequest, HQApplies, HQAnswers, HQRefuses,
           HQCrashes, LoseReply, edgeVars, OpsOn
  <1>3. CASE HQRefuses
    <2>1. \A reply \in replies' :
             \/ reply \in replies
             \/ reply.delta = {} /\ reply.acked = {}
      BY <1>3 DEF HQRefuses
    <2>2. task' = NoTask /\ UNCHANGED <<store, edgeVars>>
      BY <1>3 DEF HQRefuses
    <2> QED
      BY <1>1, <1>2, <2>1, <2>2, ChainStays DEF edgeVars
  <1>4. ASSUME NEW request \in requests, HQTakes(request)
        PROVE  Chain(a, k)'
    <2>1. /\ task'.done = 0 /\ replies' \subseteq replies
          /\ UNCHANGED <<store, edgeVars>>
      BY <1>4 DEF HQTakes
    <2> QED
      BY <1>1, <1>2, <2>1, ChainStays DEF edgeVars
  <1>5. ASSUME UNCHANGED <<store, edgeVars>>, replies' \subseteq replies,
               task' = task \/ task' = NoTask
        PROVE  Chain(a, k)'
    BY <1>1, <1>2, <1>5, ChainStays DEF edgeVars
  <1>6. ASSUME \/ HQCrashes
               \/ \E request \in requests : LoseRequest(request)
               \/ \E reply \in replies : LoseReply(reply)
        PROVE  Chain(a, k)'
    BY <1>5, <1>6 DEF HQCrashes, LoseRequest, LoseReply
  <1> QED
    BY <1>1, <1>3, <1>4, <1>6, HQAppliesKeepsChain, HQAnswersKeepsChain DEF Server

-----------------------------------------------------------------------------

LEMMA InitSolo == Init => SoloInv
  <1> SUFFICES ASSUME Init
               PROVE  SoloInv
    OBVIOUS
  <1>1. AcksNameRows
    BY DEF Init, AcksNameRows
  <1>2. ASSUME NEW a \in Edge, NEW k \in Key
        PROVE  Chain(a, k)
    <2>1. OpsOn(a, k) = {}
      BY DEF Init, OpsOn
    <2>2. \A s \in Site : store[s][k] = NoRecord
      BY DEF Init
    <2>3. replies = {} /\ task = NoTask /\ \A e \in Edge : pulled[e] = {}
      BY DEF Init
    <2> QED
      BY <2>1, <2>2, <2>3, SitesAreNodes
      DEF Chain, OpsAreOrdered, RowsAreVersions, ChangesAreVersions, AckedIsReached
  <1> QED
    BY <1>1, <1>2, InitEstablishesInv DEF SoloInv

\* The outbox only grows.
LEMMA OutboxGrows ==
    ASSUME Inv, [Next]_vars, NEW e \in Edge
    PROVE  /\ DOMAIN outbox[e] \subseteq DOMAIN outbox'[e]
           /\ \A i \in DOMAIN outbox[e] : outbox'[e][i] = outbox[e][i]
  <1>1. CASE outbox' = outbox
    BY <1>1
  <1>2. ASSUME NEW f \in Writers, NEW k \in Key, NEW type \in WriteTypes,
               NEW payload \in Payloads, NEW ts \in Times,
               NEW priority \in Tiers[f], Write(f, k, type, payload, ts, priority)
        PROVE  /\ DOMAIN outbox[e] \subseteq DOMAIN outbox'[e]
               /\ \A i \in DOMAIN outbox[e] : outbox'[e][i] = outbox[e][i]
    <2>1. f \in Edge
      BY HubAssumption
    <2> QED
      BY <1>2, <2>1, WriteAppends
  <1>3. Application \/ outbox' = outbox
    BY DEF Next, vars, edgeVars, Sync, BeginSync, Timeout, RefusedByHQ, PushFails,
           Receive, ApplyPulled, PullRaises, EndSync, Restart, Server, HQTakes,
           LoseRequest, HQApplies, HQAnswers, HQRefuses, HQCrashes, LoseReply
  <1> QED
    BY <1>1, <1>2, <1>3 DEF Application

LEMMA AcksKeepNaming ==
    ASSUME SoloInv, [Next]_vars
    PROVE  AcksNameRows'
  <1>1. ASSUME NEW reply \in replies' \ replies
        PROVE  reply.to \in Edge /\ reply.acked \subseteq DOMAIN outbox[reply.to]
    <2>1. HQAnswers \/ HQRefuses
      <3>1. Application => replies' = replies
        BY DEF Application, Write
      <3>2. ASSUME NEW e \in Edge, Sync(e)
            PROVE  replies' \subseteq replies
        BY <3>2 DEF Sync, BeginSync, Timeout, RefusedByHQ, Receive, ApplyPulled,
                    PullRaises, EndSync, Restart
      <3>3. Server => HQAnswers \/ HQRefuses \/ replies' \subseteq replies
        BY DEF Server, HQTakes, LoseRequest, HQApplies, HQCrashes, LoseReply
      <3>4. UNCHANGED vars => replies' = replies
        BY DEF vars
      <3> QED
        BY <1>1, <3>1, <3>2, <3>3, <3>4 DEF Next
    <2>2. task.request.from \in Edge /\ NamesRows(task.request)
      BY <2>1 DEF HQAnswers, HQRefuses, SoloInv, Inv, TypeOK, PushesNameRows, Request
    <2>3. CASE HQAnswers
      BY <1>1, <2>2, <2>3 DEF HQAnswers, NamesRows, ToSet
    <2>4. CASE HQRefuses
      BY <1>1, <2>2, <2>4 DEF HQRefuses
    <2> QED
      BY <2>1, <2>3, <2>4
  <1>2. ASSUME NEW reply \in replies
        PROVE  reply.to \in Edge /\ reply.acked \subseteq DOMAIN outbox[reply.to]
    BY DEF SoloInv, AcksNameRows, Inv, TypeOK, Reply
  <1>3. \A e \in Edge : DOMAIN outbox[e] \subseteq DOMAIN outbox'[e]
    BY OutboxGrows DEF SoloInv
  <1> QED
    BY <1>1, <1>2, <1>3 DEF AcksNameRows

LEMMA NextKeepsSolo == SoloInv /\ [Next]_vars => SoloInv'
  <1> SUFFICES ASSUME SoloInv, [Next]_vars
               PROVE  SoloInv'
    OBVIOUS
  <1>1. Inv'
    BY NextKeepsInv DEF SoloInv
  <1>2. AcksNameRows'
    BY AcksKeepNaming
  <1>3. ASSUME NEW a \in Edge, NEW k \in Key, Solo(a, k)'
        PROVE  Chain(a, k)'
    <2>1. Solo(a, k) /\ Chain(a, k)
      BY <1>3, OutboxGrows, SoloWasSolo DEF SoloInv
    <2>2. CASE Application
      BY <1>3, <2>2, WriteKeepsChain DEF Application
    <2>3. CASE \E e \in Edge : Sync(e)
      BY <2>1, <2>3, SyncKeepsChain
    <2>4. CASE Server
      BY <2>1, <2>4, ServerKeepsChain
    <2>5. CASE UNCHANGED vars
      BY <2>1, <2>5, ChainStays DEF vars, edgeVars, OpsOn
    <2> QED
      BY <2>2, <2>3, <2>4, <2>5 DEF Next
  <1> QED
    BY <1>1, <1>2, <1>3 DEF SoloInv

THEOREM SoloHolds == Spec => []SoloInv
  BY InitSolo, NextKeepsSolo, PTL DEF Spec

\* No record has two authors; the readers may be any number.
OneAuthorPerRecord ==
    \A k \in Key : \A e, f \in AuthorsOf(k) : e = f

\* As long as every record has one author and whatever is lost, repeated, late
\* or dies, the HQ never holds a version of a record that precedes an operation
\* it has acknowledged (handle_sync_request and mark_synced).
THEOREM AcknowledgedStays == Spec => [](OneAuthorPerRecord => AckedIsReflected)
  <1>1. SoloInv => (OneAuthorPerRecord => AckedIsReflected)
    <2>1. SUFFICES ASSUME SoloInv, OneAuthorPerRecord,
                          NEW k \in Key, Deletes(k) = {},
                          NEW e \in Edge, NEW i \in InState(e, "synced"),
                          outbox[e][i].key = k
                   PROVE  Compare(RecordClock(store[HQ][k]), outbox[e][i].body.vc)
                             # "before"
      BY DEF AckedIsReflected, ReflectsAcked
    <2>2. /\ i \in OpsOn(e, k) /\ status[e][i] = "synced"
          /\ Body(e, i) = outbox[e][i].body
      <3>1. DOMAIN status[e] = DOMAIN outbox[e]
        BY <2>1 DEF SoloInv, Inv, TypeOK
      <3> QED
        BY <2>1, <3>1 DEF InState, OpsOn, Body
    <2>3. Solo(e, k)
      <3>1. SUFFICES ASSUME NEW f \in Edge, NEW j \in OpsOn(f, k)
                     PROVE  f = e /\ Body(f, j).type # "delete"
        BY DEF Solo
      <3>2. f \in AuthorsOf(k) /\ e \in AuthorsOf(k)
        BY <2>2, <3>1 DEF OpsOn, AuthorsOf
      <3>3. Body(f, j).type # "delete"
        BY <2>1, <3>1 DEF Deletes, OpsOn, Body
      <3> QED
        BY <2>1, <3>2, <3>3 DEF OneAuthorPerRecord
    <2>4. Chain(e, k) /\ HQ \in Site /\ e \in Node
      BY <2>1, <2>3, SitesAreNodes, HubAssumption DEF SoloInv
    <2>5. Reached(e, k, Body(e, i).vc)
      BY <2>2, <2>4 DEF Chain, AckedIsReached
    <2>6. /\ store[HQ][k].vc \in SoloClock(e) /\ Body(e, i).vc \in SoloClock(e)
          /\ store[HQ][k] # NoRecord
      BY <2>2, <2>4, <2>5, RowIsSolo DEF Reached, Chain, OpsAreOrdered
    <2>7. Leq(Body(e, i).vc, store[HQ][k].vc)
      BY <2>4, <2>5, <2>6, SoloOrder DEF Reached
    <2> QED
      BY <2>2, <2>6, <2>7 DEF Compare, RecordClock
  <1> QED
    BY <1>1, SoloHolds, PTL

-----------------------------------------------------------------------------
(* What a reader sees when it has pulled.                                  *)

\* The outbox holds what the applications may write.
WrittenTypes ==
    \A e \in Edge : \A i \in DOMAIN outbox[e] : outbox[e][i].body.type \in WriteTypes

LEMMA OnlyWrittenTypes == Spec => [](SoloInv /\ WrittenTypes)
  <1>1. Init => WrittenTypes
    BY DEF Init, WrittenTypes
  <1>2. SoloInv /\ WrittenTypes /\ [Next]_vars => WrittenTypes'
    <2> SUFFICES ASSUME SoloInv, WrittenTypes, [Next]_vars
                 PROVE  WrittenTypes'
      OBVIOUS
    <2>1. CASE outbox' = outbox
      BY <2>1 DEF WrittenTypes
    <2>2. ASSUME NEW f \in Writers, NEW k \in Key, NEW type \in WriteTypes,
                 NEW payload \in Payloads, NEW ts \in Times,
                 NEW priority \in Tiers[f],
                 Write(f, k, type, payload, ts, priority)
          PROVE  WrittenTypes'
      <3>1. f \in Edge
        BY HubAssumption
      <3>2. NewOperation(store[f][k], f, type, payload, ts).type \in WriteTypes
        BY DEF NewOperation
      <3> DEFINE op == NewOperation(store[f][k], f, type, payload, ts)
      <3>3. PICK n \in Nat :
               /\ DOMAIN outbox'[f] = DOMAIN outbox[f] \cup {n}
               /\ \A i \in DOMAIN outbox[f] : outbox'[f][i] = outbox[f][i]
               /\ outbox'[f][n] = [key |-> k, tier |-> priority, body |-> op]
               /\ \A e \in Edge \ {f} : outbox'[e] = outbox[e]
        BY <2>2, <3>1, WriteAppends DEF SoloInv
      <3> QED
        BY <3>2, <3>3 DEF WrittenTypes
    <2>3. Application \/ outbox' = outbox
      BY DEF Next, vars, edgeVars, Sync, BeginSync, Timeout, RefusedByHQ, PushFails,
             Receive, ApplyPulled, PullRaises, EndSync, Restart, Server, HQTakes,
             LoseRequest, HQApplies, HQAnswers, HQRefuses, HQCrashes, LoseReply
    <2> QED
      BY <2>1, <2>2, <2>3 DEF Application
  <1> QED
    BY <1>1, <1>2, InitSolo, NextKeepsSolo, PTL DEF Spec

\* Two rows of the record with the same count show the same version.
LEMMA SameCountSameVersion ==
    ASSUME NEW a \in Edge, NEW k \in Key, Chain(a, k),
           \A i \in OpsOn(a, k) : Body(a, i).type # "merge",
           OpsOn(a, k) \subseteq Nat,
           NEW s \in Site, NEW t \in Site,
           store[s][k] # NoRecord, store[t][k] # NoRecord,
           store[s][k].vc[a] = store[t][k].vc[a]
    PROVE  /\ Live(store[s][k]) /\ Live(store[t][k])
           /\ store[s][k].vc = store[t][k].vc
           /\ store[s][k].data = store[t][k].data
  <1>1. PICK i \in OpsOn(a, k), j \in OpsOn(a, k) :
           Shows(store[s][k], Body(a, i)) /\ Shows(store[t][k], Body(a, j))
    BY DEF Chain, RowsAreVersions
  <1>2. /\ Body(a, i).vc[a] = Body(a, j).vc[a]
        /\ Body(a, i).vc[a] \in Nat /\ Body(a, j).vc[a] \in Nat
    BY <1>1, SoloOrder, HubAssumption DEF Shows, Chain, OpsAreOrdered
  <1>3. ~(i < j) /\ ~(j < i)
    BY <1>2 DEF Chain, OpsAreOrdered
  <1>4. i \in Nat /\ j \in Nat
    OBVIOUS
  <1>5. i = j
    BY <1>3, <1>4
  <1> QED
    BY <1>1, <1>5 DEF Shows, Live

\* The author of the record, whose writes are all acknowledged.
LEMMA AuthorAgrees ==
    ASSUME SoloInv, NEW a \in Edge, NEW k \in Key, Chain(a, k),
           \A i \in OpsOn(a, k) : Body(a, i).type # "merge",
           InState(a, "synced") = DOMAIN status[a]
    PROVE  Visible(AfterPull(a, k)) = Visible(store[HQ][k])
  <1>1. /\ a \in Site /\ HQ \in Site
        /\ OpsOn(a, k) \subseteq Nat
    BY SitesAreNodes DEF OpsOn, SoloInv, Inv, TypeOK
  <1>2. AfterPull(a, k) = store[a][k]
    <2>1. ASSUME NEW c \in Delta(a, known[a]), c.key = k
          PROVE  FALSE
      <3>1. store[HQ][k] # NoRecord /\ store[HQ][k].by # a
        BY <2>1 DEF Delta
      <3> QED
        BY <1>1, <3>1, RowIsSolo
    <2> QED
      BY <2>1 DEF AfterPull
  <1>3. \A i \in OpsOn(a, k) : Reached(a, k, Body(a, i).vc)
    <2>1. \A i \in OpsOn(a, k) : status[a][i] = "synced"
      BY DEF OpsOn, InState, SoloInv, Inv, TypeOK
    <2> QED
      BY <2>1 DEF Chain, AckedIsReached
  <1>4. CASE store[HQ][k] = NoRecord
    <2>1. store[a][k] = NoRecord
      BY <1>1, <1>3, <1>4 DEF Chain, RowsAreVersions, Reached
    <2> QED
      BY <1>2, <1>4, <2>1 DEF Visible, Live
  <1>5. CASE store[HQ][k] # NoRecord
    <2>1. PICK i \in OpsOn(a, k) : Shows(store[HQ][k], Body(a, i))
      BY <1>1, <1>5 DEF Chain, RowsAreVersions
    <2>2. store[a][k] # NoRecord /\ store[HQ][k].vc[a] =< store[a][k].vc[a]
      BY <2>1 DEF Shows, Chain, OpsAreOrdered
    <2>3. PICK j \in OpsOn(a, k) : Shows(store[a][k], Body(a, j))
      BY <1>1, <2>2 DEF Chain, RowsAreVersions
    <2>4. store[a][k].vc[a] =< store[HQ][k].vc[a]
      BY <1>3, <2>3 DEF Shows, Reached
    <2>5. store[a][k].vc[a] \in Nat /\ store[HQ][k].vc[a] \in Nat
      BY <1>1, <1>5, <2>2, RowIsSolo
    <2>6. store[a][k].vc[a] = store[HQ][k].vc[a]
      BY <2>2, <2>4, <2>5
    <2>7. /\ Live(store[a][k]) /\ Live(store[HQ][k])
          /\ store[a][k].vc = store[HQ][k].vc
          /\ store[a][k].data = store[HQ][k].data
      BY <1>1, <1>5, <2>2, <2>6, SameCountSameVersion
    <2> QED
      BY <1>2, <2>7 DEF Visible
  <1> QED
    BY <1>4, <1>5

\* A reader whose global clock claims no more than its row shows.
LEMMA ReaderAgrees ==
    ASSUME SoloInv, NEW a \in Edge, NEW k \in Key, Key = {k}, Chain(a, k),
           \A i \in OpsOn(a, k) : Body(a, i).type # "merge",
           NEW e \in Edge, e # a, ShowsWhatItKnows(e)
    PROVE  Visible(AfterPull(e, k)) = Visible(store[HQ][k])
  <1> DEFINE row == store[e][k]
             rec == store[HQ][k]
             sent_now == {c \in Delta(e, known[e]) : c.key = k}
             c0 == [key  |-> k,
                    body |-> [type    |-> IF rec.deleted THEN "delete" ELSE "update",
                              node    |-> rec.by,
                              payload |-> rec.data,
                              ts      |-> rec.ts,
                              vc      |-> rec.vc]]
  <1>1. /\ e \in Site /\ HQ \in Site /\ a \in Node /\ HQ # e
        /\ OpsOn(a, k) \subseteq Nat
    BY SitesAreNodes, HubAssumption DEF OpsOn, SoloInv, Inv, TypeOK
  <1>2. \A n \in Node : known[e][n] =< RecordClock(row)[n]
    BY DEF ShowsWhatItKnows
  <1>3. known[e] \in Clock
    BY DEF SoloInv, Inv, TypeOK
  <1>4. row # NoRecord => /\ rec # NoRecord
                          /\ row.vc[a] =< rec.vc[a]
                          /\ row.vc \in SoloClock(a) /\ ~row.deleted
                          /\ row.vc[a] \in Nat /\ RecordClock(row) = row.vc
    BY <1>1, RowIsSolo DEF Chain, RowsAreVersions, Reached, RecordClock
  <1>5. CASE rec = NoRecord
    <2>1. sent_now = {}
      BY <1>5 DEF Delta
    <2>2. AfterPull(e, k) = row /\ row = NoRecord
      BY <1>4, <1>5, <2>1 DEF AfterPull
    <2> QED
      BY <1>5, <2>2 DEF Visible, Live
  <1>6. CASE rec # NoRecord
    <2>1. /\ rec.vc \in SoloClock(a) /\ ~rec.deleted /\ rec.by = a
          /\ rec.vc[a] \in Nat /\ rec.vc \in Clock /\ rec.vc[a] >= 1
      BY <1>1, <1>6, RowIsSolo DEF SoloClock
    <2>2. CASE row # NoRecord /\ row.vc[a] = rec.vc[a]
      <3>1. /\ Live(row) /\ Live(rec) /\ row.vc = rec.vc /\ row.data = rec.data
        BY <1>1, <1>6, <2>2, SameCountSameVersion
      <3>2. AfterPull(e, k) = row
        <4>1. ASSUME NEW c \in sent_now
              PROVE  Integrate(row, c.body) = row
          <5>1. c.body.vc = rec.vc /\ c.body.type # "delete"
            BY <2>1, <4>1 DEF Delta
          <5>2. ~(row.vc[a] < c.body.vc[a])
            BY <1>4, <2>1, <2>2, <5>1
          <5> HIDE DEF row, rec
          <5> QED
            BY <1>1, <1>4, <2>1, <2>2, <5>1, <5>2, IntegrateSolo
        <4>2. AfterPull(e, k) = row
              \/ \E c \in sent_now : AfterPull(e, k) = Integrate(row, c.body)
          BY DEF AfterPull
        <4> QED
          BY <4>1, <4>2
      <3> QED
        BY <3>1, <3>2 DEF Visible
    <2>3. CASE row = NoRecord \/ row.vc[a] < rec.vc[a]
      <3>1. Compare(known[e], rec.vc) \in {"before", "concurrent"}
        <4>1. ~(rec.vc[a] =< known[e][a])
          <5>1. known[e][a] =< RecordClock(row)[a] /\ known[e][a] \in Nat
            BY <1>1, <1>2, <1>3 DEF Clock
          <5>2. RecordClock(row)[a] \in Nat /\ RecordClock(row)[a] < rec.vc[a]
            BY <1>1, <1>4, <2>1, <2>3 DEF RecordClock, EmptyClock
          <5> QED
            BY <2>1, <5>1, <5>2
        <4>2. ~Leq(rec.vc, known[e])
          BY <1>1, <4>1 DEF Leq
        <4> QED
          BY <4>2 DEF Compare
      <3>2. Listed(k)
        BY <1>6, <2>1 DEF Listed
      <3>3. c0 \in sent_now
        BY <1>6, <2>1, <3>1, <3>2 DEF Delta
      <3>4. \A c \in sent_now : c = c0
        BY DEF Delta
      <3>5. AfterPull(e, k) = Integrate(row, c0.body)
        <4>1. (CHOOSE c \in sent_now : TRUE) = c0
          BY <3>3, <3>4
        <4> HIDE DEF c0
        <4> QED
          BY <3>3, <4>1 DEF AfterPull
      <3>6. /\ c0.body.type = "update" /\ c0.body.vc = rec.vc
            /\ c0.body.payload = rec.data
        BY <2>1
      <3> HIDE DEF c0, row, rec, sent_now
      <3>7. Integrate(row, c0.body) = ApplyOperation(row, c0.body)
        BY <1>1, <1>4, <2>1, <2>3, <3>6, IntegrateSolo
      <3>8. /\ ApplyOperation(row, c0.body).data = rec.data
            /\ ApplyOperation(row, c0.body).vc = rec.vc
            /\ ~ApplyOperation(row, c0.body).deleted
            /\ ApplyOperation(row, c0.body) # NoRecord
        BY <3>6 DEF ApplyOperation, DataAfter, NoRecord
      <3> QED
        BY <1>6, <2>1, <3>5, <3>7, <3>8 DEF Visible, Live, rec
    <2> QED
      BY <1>4, <2>1, <2>2, <2>3
  <1> QED
    BY <1>5, <1>6

\* Finite sets of at most one element.
LEMMA AtMostOne ==
    ASSUME NEW S, IsFiniteSet(S), Cardinality(S) =< 1
    PROVE  \A x, y \in S : x = y
  <1>1. Cardinality(S) = 0 \/ Cardinality(S) = 1
    BY FS_CardinalityType
  <1> QED
    BY <1>1, FS_EmptySet, FS_Singleton

\* A record that one edge creates and updates is, at every edge that has
\* nothing unsent and whose pulls did not raise half way, what the HQ holds as
\* soon as it pulls, whatever was lost, repeated, late or died before
\* (_get_operations_for_peer sends what the sender does not have).
THEOREM ReadersAgree ==
    ASSUME IsFiniteSet(Edge), WriteTypes \subseteq {"create", "update"},
           NEW k0, Key = {k0}
    PROVE  Spec => []SettledAgreement
  <1>1. SoloInv /\ WrittenTypes => SettledAgreement
    <2>1. SUFFICES ASSUME SoloInv, WrittenTypes, Cardinality(Authors) =< 1,
                          NEW e \in Edge, ShowsWhatItKnows(e),
                          InState(e, "synced") = DOMAIN status[e],
                          NEW k \in Key
                   PROVE  Visible(AfterPull(e, k)) = Visible(store[HQ][k])
      BY DEF SettledAgreement
    <2>2. \A f, g \in Authors : f = g
      <3>1. IsFiniteSet(Authors)
        BY FS_Subset DEF Authors
      <3> QED
        BY <2>1, <3>1, AtMostOne
    <2>3. PICK a \in Edge : \A f \in Authors : f = a
      BY <2>2 DEF Authors
    <2>4. \A f \in Edge : \A i \in DOMAIN outbox[f] :
             f = a /\ outbox[f][i].body.type \notin {"merge", "delete"}
      <3>1. SUFFICES ASSUME NEW f \in Edge, NEW i \in DOMAIN outbox[f]
                     PROVE  f \in Authors /\ outbox[f][i].body.type \in WriteTypes
        BY <2>3
      <3> QED
        BY <2>1 DEF Authors, WrittenTypes
    <2>5. /\ Solo(a, k)
          /\ \A i \in OpsOn(a, k) : Body(a, i).type # "merge"
      BY <2>4 DEF Solo, OpsOn, Body
    <2>6. Chain(a, k) /\ Key = {k}
      BY <2>1, <2>5 DEF SoloInv
    <2> QED
      BY <2>1, <2>5, <2>6, AuthorAgrees, ReaderAgrees
  <1> QED
    BY <1>1, OnlyWrittenTypes, PTL

=============================================================================
