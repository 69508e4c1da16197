-------------------------- MODULE FileExchangeProofs --------------------------
(***************************************************************************)
(* The promises of the carried sessions and of the registry for any number *)
(* of edges, operations, copies and crashes.                               *)
(***************************************************************************)
EXTENDS FileExchange, FiniteSetTheorems, TLAPS

-----------------------------------------------------------------------------
(* The directories hold bundles with bodies of a set, whatever is carried. *)

Files(Bodies) == [whole : BOOLEAN, body : Bodies]
Held(d, Bodies) == d \in [Directory -> Seq(Files(Bodies))]

LEMMA RemovedIsSeq ==
    ASSUME NEW S, NEW s \in Seq(S), NEW i \in DOMAIN s
    PROVE  RemoveAt(s, i) \in Seq(S)
  <1>1. i \in 1 .. Len(s) /\ Len(s) \in Nat
    OBVIOUS
  <1>2. SubSeq(s, 1, i - 1) \in Seq(S)
    BY <1>1
  <1>3. SubSeq(s, i + 1, Len(s)) \in Seq(S)
    BY <1>1
  <1> QED
    BY <1>2, <1>3 DEF RemoveAt

LEMMA WiderSeq ==
    ASSUME NEW S, NEW T, S \subseteq T, NEW s \in Seq(S)
    PROVE  s \in Seq(T)
  OBVIOUS

LEMMA WiderFiles ==
    ASSUME NEW A, NEW B, A \subseteq B, NEW d, Held(d, A)
    PROVE  Held(d, B)
  <1>1. Files(A) \subseteq Files(B)
    BY DEF Files
  <1> QED
    BY <1>1, WiderSeq DEF Held

LEMMA WrittenHeld ==
    ASSUME NEW A, Held(dir, A), NEW d \in Directory, NEW b \in A, Written(d, b)
    PROVE  Held(dir', A)
  <1>1. [whole |-> TRUE, body |-> b] \in Files(A)
    BY DEF Files
  <1> QED
    BY <1>1 DEF Held, Written

LEMMA ConsumedHeld ==
    ASSUME NEW A, Held(dir, A), NEW d \in Directory, NEW i \in DOMAIN dir[d],
           Consumed(d, i)
    PROVE  Held(dir', A)
  <1>1. dir[d] \in Seq(Files(A))
    BY DEF Held
  <1>2. RemoveAt(dir[d], i) \in Seq(Files(A))
    BY <1>1, RemovedIsSeq
  <1> QED
    BY <1>2 DEF Held, Consumed

LEMMA CarriedHeld ==
    ASSUME NEW A, Held(dir, A), NEW source \in Site, NEW target \in Site,
           Carry(source, target) \/ FinishCopy(target)
    PROVE  Held(dir', A)
  <1>0. In(target) \in Directory /\ Out(source) \in Directory
    BY DEF In, Out, Directory
  <1>1. CASE Carry(source, target)
    <2>1. PICK i \in DOMAIN dir[Out(source)], whole \in BOOLEAN :
            dir' = [dir EXCEPT ![In(target)] =
                      Append(@, [dir[Out(source)][i] EXCEPT !.whole = whole])]
      BY <1>1 DEF Carry
    <2>2. dir[Out(source)][i] \in Files(A)
      BY <1>0 DEF Held
    <2>3. [dir[Out(source)][i] EXCEPT !.whole = whole] \in Files(A)
      BY <2>2 DEF Files
    <2> QED
      BY <1>0, <2>1, <2>3 DEF Held
  <1>2. CASE FinishCopy(target)
    <2>1. PICK i \in DOMAIN dir[In(target)] :
            dir' = [dir EXCEPT ![In(target)] =
                      Append(RemoveAt(@, i), [@[i] EXCEPT !.whole = TRUE])]
      BY <1>2 DEF FinishCopy
    <2>2. dir[In(target)] \in Seq(Files(A))
      BY <1>0 DEF Held
    <2>3. RemoveAt(dir[In(target)], i) \in Seq(Files(A))
      BY <2>2, RemovedIsSeq
    <2>4. dir[In(target)][i] \in Files(A)
      BY <2>2
    <2>5. [dir[In(target)][i] EXCEPT !.whole = TRUE] \in Files(A)
      BY <2>4 DEF Files
    <2> QED
      BY <1>0, <2>1, <2>3, <2>5 DEF Held
  <1> QED
    BY <1>1, <1>2

\* The bundle a site reads has a body of the set.
LEMMA OldestHeld ==
    ASSUME NEW A, Held(dir, A), NEW d \in Directory, NEW i \in Oldest(d)
    PROVE  i \in DOMAIN dir[d] /\ dir[d][i].body \in A
  <1>1. i \in DOMAIN dir[d]
    BY DEF Oldest
  <1>2. dir[d] \in Seq(Files(A))
    BY DEF Held
  <1>3. dir[d][i] \in Files(A)
    BY <1>1, <1>2
  <1> QED
    BY <1>1, <1>3 DEF Files

-----------------------------------------------------------------------------
(* Type correctness.                                                       *)

\* A body is a push or an answer.
Body == Push \cup Answer

LEMMA FilesTyped == TypeOK => Held(dir, Body)
  BY DEF TypeOK, Held, Files, File, Body

\* The UPDATEs of the outbox keep the type of sync_state and create no row.
LEMMA MarkType ==
    ASSUME syncState \in [Op -> {"none", "pending", "synced", "failed"}],
           NEW ops, NEW state \in {"pending", "synced", "failed"},
           Mark(ops, state)
    PROVE  /\ syncState' \in [Op -> {"none", "pending", "synced", "failed"}]
           /\ \A o \in Op : syncState'[o] =
                 IF o \in ops /\ syncState[o] # "none" THEN state ELSE syncState[o]
  BY DEF Mark

\* What the HQ has in hand at each stage.
LEMMA HandType ==
    ASSUME TypeOK
    PROVE  /\ hand.stage \in {"push", "applied"} => hand.request \in Push
           /\ hand.stage = "answer" => hand.answer \in Answer
           /\ hand # NoRequest => hand.stage \in {"push", "applied", "answer"}
  BY DEF TypeOK, NoRequest

\* A request that was applied is the request that came.
LEMMA AppliedHand ==
    ASSUME TypeOK, HQApplies
    PROVE  /\ hand.request \in Push
           /\ hand' \in [stage : {"applied"}, request : Push]
           /\ hand'.request = hand.request
  <1>1. hand \in [stage : {"push", "applied"}, request : Push]
    BY DEF TypeOK, HQApplies, NoRequest
  <1> QED
    BY <1>1 DEF HQApplies

\* The variables keep their types, whatever is carried.
THEOREM TypeCorrect == Spec => []TypeOK
  <1>1. Init => TypeOK
    BY FileAssumption
    DEF Init, TypeOK, NoRequest, Directory
  <1>2. TypeOK /\ [Next]_vars => TypeOK'
    <2> SUFFICES ASSUME TypeOK, [Next]_vars
                 PROVE  TypeOK'
      OBVIOUS
    <2>0. Held(dir', Body) => dir' \in [Directory -> Seq(File)]
      BY DEF Held, Files, File, Body
    <2>1. ASSUME NEW o \in Op, Enqueue(o)
          PROVE  TypeOK'
      BY <2>1 DEF Enqueue, TypeOK, registry, bounds
    <2>2. ASSUME NEW e \in Edge, EdgeStep(e)
          PROVE  TypeOK'
      <3>1. CASE Export(e)
        <4>1. [kind |-> "push", from |-> e, ops |-> Pending(e)] \in Body
          BY DEF Body, Push, Pending, Site
        <4>2. Held(dir', Body)
          BY <3>1, <4>1, FilesTyped, WrittenHeld DEF Export, Out, Directory, Site
        <4> QED
          BY <3>1, <4>2, <2>0 DEF Export, TypeOK, registry, Pending
      <3>2. CASE ExportFails(e)
        BY <3>2, MarkType DEF ExportFails, TypeOK, registry
      <3>3. CASE NoAnswer(e)
        BY <3>3, MarkType DEF NoAnswer, EndSession, TypeOK, registry, bounds
      <3>4. CASE ReadsAnswer(e)
        <4>1. Held(dir', Body)
          BY <3>4, FilesTyped, OldestHeld, ConsumedHeld
          DEF ReadsAnswer, In, Directory, Site
        <4>2. syncState' \in [Op -> {"none", "pending", "synced", "failed"}]
          BY <3>4, MarkType DEF ReadsAnswer, TypeOK
        <4> QED
          BY <3>4, <4>1, <4>2, <2>0
          DEF ReadsAnswer, EndSession, TypeOK, registry, bounds
      <3>5. CASE ReadsPush(e)
        <4>1. Held(dir', Body)
          BY <3>5, FilesTyped, OldestHeld, ConsumedHeld
          DEF ReadsPush, In, Directory, Site
        <4> QED
          BY <3>5, <4>1, <2>0 DEF ReadsPush, EndSession, TypeOK, registry, bounds
      <3>6. CASE Restart(e)
        BY <3>6, MarkType DEF Restart, EndSession, TypeOK, registry
      <3> QED
        BY <2>2, <3>1, <3>2, <3>3, <3>4, <3>5, <3>6 DEF EdgeStep
    <2>3. ASSUME NEW e \in Edge, OperatorRegisters(e)
          PROVE  TypeOK'
      BY <2>3 DEF OperatorRegisters, RegisterNode, TypeOK, queue, bounds, Site
    <2>4. CASE HQReceives
      <3>1. PICK i \in Oldest(In(HQ)) :
              LET body == dir[In(HQ)][i].body
              IN  /\ Consumed(In(HQ), i)
                  /\ hand' = [stage |-> "push", request |->
                        IF body.kind = "push" THEN body
                        ELSE [kind |-> "push", from |-> HQ, ops |-> {}]]
        BY <2>4 DEF HQReceives
      <3>2. In(HQ) \in Directory
        BY DEF In, Directory, Site
      <3>3. Held(dir', Body) /\ dir[In(HQ)][i].body \in Body
        BY <3>1, <3>2, FilesTyped, OldestHeld, ConsumedHeld
      <3>4. hand' \in [stage : {"push", "applied"}, request : Push]
        BY <3>1, <3>3 DEF Body, Push, Answer, Site
      <3> QED
        BY <2>4, <3>3, <3>4, <2>0 DEF HQReceives, TypeOK, queue, registry, bounds
    <2>5. CASE HQRefuses
      BY <2>5 DEF HQRefuses, Responds, Answer, TypeOK, queue, registry, bounds
    <2>6. CASE HQApplies
      <3>1. hand.request \in Push /\ hand' \in [stage : {"applied"}, request : Push]
        BY <2>6, AppliedHand DEF HQApplies
      <3> QED
        BY <2>6, <3>1 DEF HQApplies, Push, TypeOK, queue, registry, bounds
    <2>7. CASE HQFails
      <3>1. processed' \subseteq Op
        BY <2>7, HandType DEF HQFails, Push, TypeOK
      <3> QED
        BY <2>7, <3>1 DEF HQFails, Responds, Answer, TypeOK, queue, registry, bounds
    <2>8. CASE HQCounts
      <3>1. hand.request \in Push
        BY <2>8, HandType DEF HQCounts
      <3>2. Cardinality(hand.request.ops) \in Nat
        BY <3>1, FileAssumption, FS_Subset, FS_CardinalityType DEF Push
      <3>3. total' \in [Site -> Nat]
        BY <2>8, <3>1, <3>2 DEF HQCounts, Push, TypeOK
      <3> QED
        BY <2>8, <3>1, <3>3
        DEF HQCounts, RegisterNode, Responds, Push, Answer, TypeOK, queue, bounds
    <2>9. CASE HQAnswers
      <3>1. hand.answer \in Body
        BY <2>9, HandType DEF HQAnswers, Body
      <3>2. Held(dir', Body)
        BY <2>9, <3>1, FilesTyped, WrittenHeld DEF HQAnswers, Out, Directory, Site
      <3> QED
        BY <2>9, <3>2, <2>0 DEF HQAnswers, TypeOK, queue, registry, bounds
    <2>10. CASE HQCrashes
      BY <2>10 DEF HQCrashes, TypeOK, queue, registry
    <2>11. ASSUME NEW source \in Site, NEW target \in Site,
                  Carry(source, target) \/ FinishCopy(target)
           PROVE  TypeOK'
      <3>1. Held(dir', Body)
        BY <2>11, FilesTyped, CarriedHeld
      <3> QED
        BY <2>11, <3>1, <2>0 DEF Carry, FinishCopy, TypeOK, queue, registry, bounds
    <2>12. CASE UNCHANGED vars
      BY <2>12 DEF vars, TypeOK, queue, registry, bounds
    <2> QED
      BY <2>1, <2>2, <2>3, <2>4, <2>5, <2>6, <2>7, <2>8, <2>9, <2>10, <2>11,
         <2>12 DEF Next, HQStep
  <1> QED
    BY <1>1, <1>2, PTL DEF Spec

-----------------------------------------------------------------------------
(* What is carried is true.                                                *)

Accepted == {o \in Op : syncState[o] # "none"}
Own(s) == {o \in Op : Owner[o] = s}

\* A push names queued operations of its sender, an answer processed ones.
TruePush == {p \in Push : p.ops \subseteq Accepted \cap Own(p.from)}
TrueAnswer == {a \in Answer : a.acked \subseteq processed}
TrueBody == TruePush \cup TrueAnswer

TrueHand ==
    /\ hand.stage \in {"push", "applied"} => hand.request \in TruePush
    /\ hand.stage = "applied" => hand.request.ops \subseteq processed
    /\ hand.stage = "answer" => hand.answer \in TrueAnswer

\* The batch of a session stays pending until its outcome is recorded.
Sending(e) == IF session[e] = "sent" THEN Pending(e) ELSE {}

DeliveryInv ==
    /\ Held(dir, TrueBody)
    /\ TrueHand
    /\ processed \subseteq Accepted
    /\ Settled \subseteq processed
    /\ \A e \in Edge : batch[e] \subseteq Sending(e)

\* What was true stays true while operations are queued and processed.
LEMMA TruthStays ==
    ASSUME Accepted \subseteq Accepted', processed \subseteq processed'
    PROVE  /\ TruePush \subseteq TruePush' /\ TrueAnswer \subseteq TrueAnswer'
           /\ TrueBody \subseteq TrueBody'
  BY DEF TruePush, TrueAnswer, TrueBody

\* The requests in hand stay what they were unless the HQ works on them.
LEMMA HandStays ==
    ASSUME TrueHand, UNCHANGED hand,
           Accepted \subseteq Accepted', processed \subseteq processed'
    PROVE  TrueHand'
  BY TruthStays DEF TrueHand

\* A Mark makes no row and takes none away.
LEMMA MarkAccepts ==
    ASSUME TypeOK, NEW ops, NEW state \in {"pending", "synced", "failed"},
           Mark(ops, state)
    PROVE  Accepted' = Accepted
  BY MarkType DEF TypeOK, Accepted

\* A step of ReliableDelivery, or none.
DeliveryStep == Delivery!Next \/ UNCHANGED Delivery!vars

LEMMA StutterStep ==
    ASSUME Accepted' = Accepted, processed' = processed, Settled' = Settled
    PROVE  DeliveryStep
  BY DEF DeliveryStep, Delivery!vars, Accepted, Settled

\* The steps of an edge.
LEMMA EdgeDelivers ==
    ASSUME TypeOK, DeliveryInv, NEW e \in Edge, EdgeStep(e)
    PROVE  DeliveryInv' /\ DeliveryStep
  <1> USE DEF DeliveryInv
  <1>1. UNCHANGED <<hand, processed>>
    BY DEF EdgeStep, Export, ExportFails, NoAnswer, ReadsAnswer, ReadsPush,
           Restart
  <1>2. SUFFICES /\ Accepted' = Accepted /\ Held(dir', TrueBody)
                 /\ Settled' \subseteq processed
                 /\ \A f \in Edge : batch'[f] \subseteq Sending(f)'
                 /\ DeliveryStep
    <2>1. TrueHand' /\ TrueBody \subseteq TrueBody'
      BY <1>1, <1>2, HandStays, TruthStays
    <2> QED
      BY <1>1, <1>2, <2>1, WiderFiles
  <1>3. CASE Export(e)
    <2>1. Accepted' = Accepted /\ Settled' = Settled
      BY <1>3 DEF Export, Accepted, Settled
    <2>2. [kind |-> "push", from |-> e, ops |-> Pending(e)] \in TrueBody
      BY DEF TrueBody, TruePush, Push, Site, Pending, Accepted, Own
    <2>3. Held(dir', TrueBody)
      BY <1>3, <2>2, WrittenHeld DEF Export, Out, Directory, Site
    <2>4. \A f \in Edge : batch'[f] \subseteq Sending(f)'
      BY <1>3 DEF Export, TypeOK, Pending, Sending
    <2> QED
      BY <1>1, <2>1, <2>3, <2>4, StutterStep
  <1>4. CASE ExportFails(e)
    <2>1. Accepted' = Accepted
      BY <1>4, MarkAccepts DEF ExportFails
    <2>2. Settled' = Settled
      BY <1>4, MarkType DEF ExportFails, TypeOK, Settled, Pending
    <2>3. \A f \in Edge : batch'[f] \subseteq Sending(f)'
      BY <1>4, MarkType DEF ExportFails, TypeOK, Pending, Sending
    <2> QED
      BY <1>1, <1>4, <2>1, <2>2, <2>3, StutterStep DEF ExportFails
  <1>5. CASE NoAnswer(e)
    <2>1. Accepted' = Accepted
      BY <1>5, MarkAccepts DEF NoAnswer
    <2>2. Settled' = Settled
      BY <1>5, MarkType DEF NoAnswer, TypeOK, Settled, Pending, Sending
    <2>3. \A f \in Edge : batch'[f] \subseteq Sending(f)'
      BY <1>5, MarkType DEF NoAnswer, EndSession, TypeOK, Pending, Sending
    <2> QED
      BY <1>1, <1>5, <2>1, <2>2, <2>3, StutterStep DEF NoAnswer
  <1>6. CASE ReadsAnswer(e)
    <2>1. PICK i \in Oldest(In(e)) :
            /\ dir[In(e)][i].body.kind = "answer"
            /\ Consumed(In(e), i)
            /\ IF dir[In(e)][i].body.ok
               THEN Mark({o \in dir[In(e)][i].body.acked : Owner[o] = e}, "synced")
               ELSE Mark(batch[e], "failed")
      BY <1>6 DEF ReadsAnswer
    <2>2. In(e) \in Directory
      BY DEF In, Directory, Site
    <2>3. /\ Held(dir', TrueBody)
          /\ dir[In(e)][i].body \in TrueAnswer
      BY <2>1, <2>2, OldestHeld, ConsumedHeld DEF TrueBody, TruePush, Push
    <2>4. Accepted' = Accepted
      BY <2>1, MarkAccepts
    <2>5. /\ batch' = [batch EXCEPT ![e] = {}]
          /\ session' = [session EXCEPT ![e] = "idle"]
      BY <1>6 DEF ReadsAnswer, EndSession
    <2>6. CASE dir[In(e)][i].body.ok
      <3>1. PICK ops \in SUBSET processed :
              Mark({o \in ops : Owner[o] = e}, "synced")
        BY <2>1, <2>3, <2>6 DEF TrueAnswer
      <3>2. /\ syncState' \in [Op -> {"none", "pending", "synced", "failed"}]
            /\ \A o \in Op : syncState'[o] =
                  IF o \in {p \in ops : Owner[p] = e} /\ syncState[o] # "none"
                  THEN "synced" ELSE syncState[o]
        BY <3>1, MarkType DEF TypeOK
      <3>3. processed \subseteq {o \in Op : syncState[o] # "none"}
        BY DEF Accepted
      <3>4. Settled' = Settled \cup {o \in ops : Owner[o] = e}
        BY <3>1, <3>2, <3>3 DEF Settled, TypeOK
      <3>5. \A f \in Edge : batch'[f] \subseteq Sending(f)'
        BY <2>5, <3>2 DEF TypeOK, Pending, Sending
      <3>6. Delivery!Settle({o \in ops : Owner[o] = e})
        BY <1>1, <2>4, <3>1, <3>4 DEF Delivery!Settle, Accepted, Settled
      <3>7. {o \in ops : Owner[o] = e} \in SUBSET Op
        BY <3>1 DEF TypeOK
      <3> QED
        BY <2>3, <2>4, <3>1, <3>4, <3>5, <3>6, <3>7 DEF DeliveryStep, Delivery!Next
    <2>7. CASE ~dir[In(e)][i].body.ok
      <3>1. Mark(batch[e], "failed")
        BY <2>1, <2>7
      <3>2. /\ syncState' \in [Op -> {"none", "pending", "synced", "failed"}]
            /\ \A o \in Op : syncState'[o] =
                  IF o \in batch[e] /\ syncState[o] # "none"
                  THEN "failed" ELSE syncState[o]
        BY <3>1, MarkType DEF TypeOK
      <3>3. Settled' = Settled
        BY <3>2 DEF Settled, TypeOK, Pending, Sending
      <3>4. \A f \in Edge : batch'[f] \subseteq Sending(f)'
        BY <2>5, <3>2 DEF TypeOK, Pending, Sending
      <3> QED
        BY <1>1, <2>3, <2>4, <3>3, <3>4, StutterStep
    <2> QED
      BY <2>6, <2>7
  <1>7. CASE ReadsPush(e)
    <2>1. Held(dir', TrueBody)
      BY <1>7, OldestHeld, ConsumedHeld DEF ReadsPush, In, Directory, Site
    <2>2. Accepted' = Accepted /\ Settled' = Settled
      BY <1>7 DEF ReadsPush, Accepted, Settled
    <2>3. \A f \in Edge : batch'[f] \subseteq Sending(f)'
      BY <1>7 DEF ReadsPush, EndSession, TypeOK, Pending, Sending
    <2> QED
      BY <1>1, <2>1, <2>2, <2>3, StutterStep
  <1>8. CASE Restart(e)
    <2>1. Accepted' = Accepted
      BY <1>8, MarkAccepts DEF Restart
    <2>2. Settled' = Settled
      BY <1>8, MarkType DEF Restart, TypeOK, Settled
    <2>3. \A f \in Edge : batch'[f] \subseteq Sending(f)'
      BY <1>8, MarkType DEF Restart, EndSession, TypeOK, Pending, Sending
    <2> QED
      BY <1>1, <1>8, <2>1, <2>2, <2>3, StutterStep DEF Restart
  <1> QED
    BY <1>3, <1>4, <1>5, <1>6, <1>7, <1>8 DEF EdgeStep

\* The steps of the HQ.
LEMMA HQDelivers ==
    ASSUME TypeOK, DeliveryInv, HQStep \/ HQCrashes
    PROVE  DeliveryInv' /\ DeliveryStep
  <1> USE DEF DeliveryInv
  <1>1. /\ UNCHANGED <<syncState, session, batch>>
        /\ Accepted' = Accepted /\ Settled' = Settled
        /\ \A e \in Edge : Sending(e)' = Sending(e)
    <2>1. UNCHANGED queue
      BY DEF HQStep, HQReceives, HQRefuses, HQApplies, HQFails, HQCounts,
             HQAnswers, HQCrashes
    <2> QED
      BY <2>1 DEF queue, Accepted, Settled, Sending, Pending
  <1>2. SUFFICES /\ Held(dir', TrueBody)
                 /\ processed \subseteq processed' /\ processed' \subseteq Accepted
                 /\ TrueHand'
    <2>1. TrueBody \subseteq TrueBody'
      BY <1>1, <1>2, TruthStays
    <2>2. DeliveryInv'
      BY <1>1, <1>2, <2>1, WiderFiles
    <2>3. Delivery!Deliver(processed')
      BY <1>1, <1>2 DEF Delivery!Deliver, Accepted, Settled
    <2>4. processed' \in SUBSET Op
      BY <1>2 DEF Accepted
    <2> QED
      BY <2>2, <2>3, <2>4 DEF DeliveryStep, Delivery!Next
  <1>3. CASE HQReceives
    <2>1. PICK i \in Oldest(In(HQ)) :
            LET body == dir[In(HQ)][i].body
            IN  /\ Consumed(In(HQ), i)
                /\ hand' = [stage |-> "push", request |->
                      IF body.kind = "push" THEN body
                      ELSE [kind |-> "push", from |-> HQ, ops |-> {}]]
      BY <1>3 DEF HQReceives
    <2>2. In(HQ) \in Directory
      BY DEF In, Directory, Site
    <2>3. Held(dir', TrueBody) /\ dir[In(HQ)][i].body \in TrueBody
      BY <2>1, <2>2, OldestHeld, ConsumedHeld
    <2>4. [kind |-> "push", from |-> HQ, ops |-> {}] \in TruePush
      BY DEF TruePush, Push, Site
    <2>5. hand'.stage = "push" /\ hand'.request \in TruePush
      BY <2>1, <2>3, <2>4 DEF TrueBody, TrueAnswer, Answer
    <2>6. processed' = processed
      BY <1>3 DEF HQReceives
    <2>7. TruePush \subseteq TruePush'
      BY <1>1, <2>6, TruthStays
    <2> QED
      BY <2>3, <2>5, <2>6, <2>7 DEF TrueHand
  <1>4. CASE HQRefuses
    <2>1. hand' = [stage |-> "answer",
                   answer |-> [kind |-> "answer", ok |-> FALSE, acked |-> {}]]
      BY <1>4 DEF HQRefuses, Responds
    <2>2. hand'.stage = "answer" /\ hand'.answer \in TrueAnswer'
      BY <2>1 DEF TrueAnswer, Answer
    <2> QED
      BY <1>4, <2>2 DEF HQRefuses, TrueHand
  <1>5. CASE HQApplies
    <2>1. /\ hand'.request = hand.request /\ hand'.stage = "applied"
          /\ hand.request \in TruePush
      BY <1>5, AppliedHand DEF HQApplies, TrueHand
    <2>2. processed' = processed \cup hand.request.ops /\ dir' = dir
      BY <1>5 DEF HQApplies
    <2>3. processed' \subseteq Accepted
      BY <2>1, <2>2 DEF TruePush
    <2>4. TruePush \subseteq TruePush'
      BY <1>1, <2>2, TruthStays
    <2> QED
      BY <2>1, <2>2, <2>3, <2>4 DEF TrueHand
  <1>6. CASE HQFails
    <2>1. PICK done \in SUBSET hand.request.ops : processed' = processed \cup done
      BY <1>6 DEF HQFails
    <2>2. processed' \subseteq Accepted
      BY <1>6, <2>1 DEF HQFails, TrueHand, TruePush
    <2>3. hand' = [stage |-> "answer",
                   answer |-> [kind |-> "answer", ok |-> FALSE, acked |-> {}]]
      BY <1>6 DEF HQFails, Responds
    <2>4. hand'.stage = "answer" /\ hand'.answer \in TrueAnswer'
      BY <2>3 DEF TrueAnswer, Answer
    <2> QED
      BY <1>6, <2>1, <2>2, <2>4 DEF HQFails, TrueHand
  <1>7. CASE HQCounts
    <2>1. hand' = [stage |-> "answer", answer |->
                     [kind |-> "answer", ok |-> TRUE, acked |-> hand.request.ops]]
      BY <1>7 DEF HQCounts, Responds
    <2>2. /\ hand.request.ops \in SUBSET Op
          /\ hand.request.ops \subseteq processed /\ processed' = processed
      BY <1>7 DEF HQCounts, TrueHand, TruePush, Push
    <2>3. hand'.stage = "answer" /\ hand'.answer \in TrueAnswer'
      BY <2>1, <2>2 DEF TrueAnswer, Answer
    <2> QED
      BY <1>7, <2>2, <2>3 DEF HQCounts, TrueHand
  <1>8. CASE HQAnswers
    <2>1. hand.answer \in TrueBody
      BY <1>8 DEF HQAnswers, TrueHand, TrueBody
    <2>2. Held(dir', TrueBody)
      BY <1>8, <2>1, WrittenHeld DEF HQAnswers, Out, Directory, Site
    <2> QED
      BY <1>8, <2>2 DEF HQAnswers, TrueHand, NoRequest
  <1>9. CASE HQCrashes
    BY <1>9 DEF HQCrashes, TrueHand, NoRequest
  <1> QED
    BY <1>3, <1>4, <1>5, <1>6, <1>7, <1>8, <1>9 DEF HQStep

\* The steps of the application, the operator and whoever carries the files.
LEMMA OthersDeliver ==
    ASSUME TypeOK, DeliveryInv,
           \/ \E o \in Op : Enqueue(o)
           \/ \E e \in Edge : OperatorRegisters(e)
           \/ \E source, target \in Site :
                 Carry(source, target) \/ FinishCopy(target)
           \/ UNCHANGED vars
    PROVE  DeliveryInv' /\ DeliveryStep
  <1> USE DEF DeliveryInv
  <1>1. ASSUME NEW o \in Op, Enqueue(o)
        PROVE  DeliveryInv' /\ DeliveryStep
    <2>1. /\ Accepted' = Accepted \cup {o} /\ o \notin Accepted
          /\ Settled' = Settled
          /\ \A e \in Edge : Sending(e) \subseteq Sending(e)'
      BY <1>1 DEF Enqueue, TypeOK, Accepted, Settled, Sending, Pending
    <2>2. UNCHANGED <<dir, session, batch, hand, processed>>
      BY <1>1 DEF Enqueue
    <2>3. TrueBody \subseteq TrueBody' /\ TrueHand'
      BY <2>1, <2>2, TruthStays, HandStays
    <2>4. DeliveryInv'
      BY <2>1, <2>2, <2>3, WiderFiles
    <2>5. Delivery!Accept(o)
      BY <2>1, <2>2 DEF Delivery!Accept, Accepted, Settled
    <2> QED
      BY <2>4, <2>5 DEF DeliveryStep, Delivery!Next
  <1>2. ASSUME UNCHANGED <<queue, hand, processed>>, Held(dir', TrueBody)
        PROVE  DeliveryInv' /\ DeliveryStep
    <2>1. /\ Accepted' = Accepted /\ Settled' = Settled
          /\ \A e \in Edge : Sending(e)' = Sending(e)
      BY <1>2 DEF queue, Accepted, Settled, Sending, Pending
    <2>2. TrueBody \subseteq TrueBody' /\ TrueHand'
      BY <1>2, <2>1, TruthStays, HandStays
    <2>3. DeliveryInv'
      BY <1>2, <2>1, <2>2, WiderFiles DEF queue
    <2> QED
      BY <1>2, <2>1, <2>3, StutterStep
  <1>3. ASSUME NEW e \in Edge, OperatorRegisters(e)
        PROVE  DeliveryInv' /\ DeliveryStep
    BY <1>2, <1>3 DEF OperatorRegisters
  <1>4. ASSUME NEW source \in Site, NEW target \in Site,
               Carry(source, target) \/ FinishCopy(target)
        PROVE  DeliveryInv' /\ DeliveryStep
    <2>1. Held(dir', TrueBody)
      BY <1>4, CarriedHeld
    <2> QED
      BY <1>2, <1>4, <2>1 DEF Carry, FinishCopy
  <1>5. CASE UNCHANGED vars
    BY <1>2, <1>5 DEF vars
  <1> QED
    BY <1>1, <1>3, <1>4, <1>5

LEMMA DeliveryInvHolds == Spec => [](TypeOK /\ DeliveryInv)
  <1>1. Init => DeliveryInv
    BY DEF Init, DeliveryInv, Held, TrueHand, NoRequest, Accepted, Settled,
           Sending
  <1>2. TypeOK /\ DeliveryInv /\ [Next]_vars => DeliveryInv'
    BY EdgeDelivers, HQDelivers, OthersDeliver DEF Next
  <1> QED
    BY <1>1, <1>2, TypeCorrect, PTL DEF Spec

\* The sessions over carried files implement ReliableDelivery: an operation is
\* settled only after the HQ has it, for any number of edges and copies.
THEOREM ImplementsReliableDelivery == Spec => DeliverySpec
  <1>1. Init => Delivery!Init
    BY DEF Init, Delivery!Init, Settled
  <1>2. TypeOK /\ DeliveryInv /\ [Next]_vars => [Delivery!Next]_Delivery!vars
    BY EdgeDelivers, HQDelivers, OthersDeliver DEF Next, DeliveryStep
  <1> QED
    BY <1>1, <1>2, DeliveryInvHolds, PTL DEF Spec, DeliverySpec, Delivery!Spec

-----------------------------------------------------------------------------
(* The registry.                                                           *)

\* A step of the registry adds rows and keys.
LEMMA RegistrySteps ==
    ASSUME TypeOK, [Next]_vars
    PROVE  /\ UNCHANGED registry
           \/ HQCounts
           \/ \E e \in Edge : OperatorRegisters(e)
  BY DEF Next, EdgeStep, HQStep, Enqueue, Export, ExportFails, NoAnswer,
         ReadsAnswer, ReadsPush, Restart, HQReceives, HQRefuses, HQApplies,
         HQFails, HQAnswers, HQCrashes, Carry, FinishCopy, vars

\* Neither a sync nor another registration takes a key or lowers a count.
THEOREM RegistryOnlyGrows == Spec => RegistryKeeps
  <1>1. TypeOK /\ [Next]_vars =>
           [keyed \subseteq keyed' /\ \A s \in Site : total[s] =< total'[s]]_vars
    <2> SUFFICES ASSUME TypeOK, [Next]_vars
                 PROVE  keyed \subseteq keyed' /\ \A s \in Site : total[s] =< total'[s]
      OBVIOUS
    <2>0. \A s \in Site : total[s] \in Nat
      BY DEF TypeOK
    <2>1. CASE UNCHANGED registry
      BY <2>0, <2>1 DEF registry
    <2>2. CASE HQCounts
      <3>1. hand.request \in Push
        BY <2>2, HandType DEF HQCounts
      <3>2. Cardinality(hand.request.ops) \in Nat
        BY <3>1, FileAssumption, FS_Subset, FS_CardinalityType DEF Push
      <3>3. \A s \in Site : total[s] =< total'[s]
        BY <2>0, <2>2, <3>1, <3>2 DEF HQCounts, TypeOK, Push
      <3> QED
        BY <2>2, <3>3 DEF HQCounts, RegisterNode
    <2>3. ASSUME NEW e \in Edge, OperatorRegisters(e)
          PROVE  keyed \subseteq keyed' /\ \A s \in Site : total[s] =< total'[s]
      BY <2>0, <2>3 DEF OperatorRegisters, RegisterNode
    <2> QED
      BY <2>1, <2>2, <2>3, RegistrySteps
  <1> QED
    BY <1>1, TypeCorrect, PTL DEF Spec, RegistryKeeps

\* Where registration is required, the rows are those an operator made, and
\* the request being applied is from one of them.
AdmissionInv ==
    Required => /\ registered \subseteq Known
                /\ hand.stage = "applied" => hand.request.from \in registered
                /\ \A o \in processed : Owner[o] \in registered

\* AdmissionInv is inductive, given that pushes name operations of their sender.
LEMMA AdmissionStep ==
    ASSUME TypeOK, DeliveryInv, AdmissionInv, [Next]_vars
    PROVE  AdmissionInv'
  <1> SUFFICES ASSUME Required
               PROVE  /\ registered' \subseteq Known
                      /\ hand'.stage = "applied" =>
                            hand'.request.from \in registered'
                      /\ \A o \in processed' : Owner[o] \in registered'
    BY DEF AdmissionInv
  <1> USE DEF AdmissionInv
  <1>1. ASSUME UNCHANGED <<hand, processed>>,
               UNCHANGED registered \/ \E e \in Known : registered' = registered \cup {e}
        PROVE  AdmissionInv'
    BY <1>1
  <1>2. ASSUME hand.stage = "push"
        PROVE  \A o \in hand.request.ops : Owner[o] = hand.request.from
    BY <1>2 DEF DeliveryInv, TrueHand, TruePush, Own
  <1>3. CASE \E o \in Op : Enqueue(o)
    BY <1>1, <1>3 DEF Enqueue, registry
  <1>4. CASE \E e \in Edge : EdgeStep(e)
    BY <1>1, <1>4
    DEF EdgeStep, Export, ExportFails, NoAnswer, ReadsAnswer, ReadsPush, Restart,
        registry
  <1>5. CASE \E e \in Edge : OperatorRegisters(e)
    BY <1>1, <1>5 DEF OperatorRegisters, RegisterNode
  <1>6. CASE HQReceives
    BY <1>6 DEF HQReceives, registry
  <1>7. CASE HQRefuses
    BY <1>7 DEF HQRefuses, Responds, registry
  <1>8. CASE HQApplies
    <2>1. hand.stage = "push" /\ hand.request.from \in registered
      BY <1>8 DEF HQApplies, Admits
    <2>2. hand'.request = hand.request
      BY <1>8, AppliedHand
    <2> QED
      BY <1>2, <1>8, <2>1, <2>2 DEF HQApplies, registry
  <1>9. CASE HQFails
    <2>1. hand.stage = "push" /\ hand.request.from \in registered
      BY <1>9 DEF HQFails, Admits
    <2> QED
      BY <1>2, <1>9, <2>1 DEF HQFails, Responds, registry
  <1>10. CASE HQCounts
    BY <1>10 DEF HQCounts, RegisterNode, Responds
  <1>11. CASE HQAnswers
    BY <1>11 DEF HQAnswers, NoRequest, registry
  <1>12. CASE HQCrashes
    BY <1>12 DEF HQCrashes, NoRequest, registry
  <1>13. ASSUME NEW source \in Site, NEW target \in Site,
                Carry(source, target) \/ FinishCopy(target)
         PROVE  AdmissionInv'
    BY <1>1, <1>13 DEF Carry, FinishCopy, registry
  <1>14. CASE UNCHANGED vars
    BY <1>1, <1>14 DEF vars, registry
  <1> QED
    BY <1>3, <1>4, <1>5, <1>6, <1>7, <1>8, <1>9, <1>10, <1>11, <1>12, <1>13,
       <1>14 DEF Next, HQStep

\* No operation of an edge that no operator registers is applied where
\* registration is required.
THEOREM OnlyAdmittedApplied == Spec => []OnlyAdmitted
  <1>1. Init => AdmissionInv
    BY DEF Init, AdmissionInv, NoRequest
  <1>2. TypeOK /\ DeliveryInv /\ AdmissionInv /\ [Next]_vars => AdmissionInv'
    BY AdmissionStep
  <1>3. AdmissionInv => OnlyAdmitted
    BY DEF AdmissionInv, OnlyAdmitted
  <1> QED
    BY <1>1, <1>2, <1>3, DeliveryInvHolds, PTL DEF Spec

-----------------------------------------------------------------------------
(* The counts.                                                             *)

\* Bodies that acknowledge nothing but counted operations.
CountedBody(counted) == Push \cup {a \in Answer : a.acked \subseteq counted}

\* The operations in the set are covered by the counts of their nodes, and
\* nothing else was acknowledged or is about to be.
Covers(counted) ==
    /\ \A e \in Edge : Cardinality(counted \cap Own(e)) =< total[e]
    /\ Held(dir, CountedBody(counted))
    /\ hand.stage = "answer" => hand.answer.acked \subseteq counted
    /\ Settled \subseteq counted

CountInv == \E counted \in SUBSET Op : Covers(counted)

\* Nothing but HQCounts makes a bundle acknowledge more.
LEMMA CoverStays ==
    ASSUME TypeOK, DeliveryInv, [Next]_vars, ~HQCounts,
           NEW counted \in SUBSET Op, Covers(counted)
    PROVE  Covers(counted)'
  <1>1. UNCHANGED total
    BY DEF Next, EdgeStep, HQStep, Enqueue, Export, ExportFails, NoAnswer,
           ReadsAnswer, ReadsPush, Restart, OperatorRegisters, HQReceives,
           HQRefuses, HQApplies, HQFails, HQAnswers, HQCrashes, Carry,
           FinishCopy, registry, vars
  <1>2. SUFFICES /\ Held(dir', CountedBody(counted))
                 /\ hand'.stage = "answer" => hand'.answer.acked \subseteq counted
                 /\ Settled' \subseteq counted
    BY <1>1, <1>2 DEF Covers, Own
  <1> USE DEF Covers
  <1>3. ASSUME UNCHANGED <<dir, hand>>, Settled' = Settled
        PROVE  /\ Held(dir', CountedBody(counted))
               /\ hand'.stage = "answer" => hand'.answer.acked \subseteq counted
               /\ Settled' \subseteq counted
    BY <1>3
  <1>4. ASSUME NEW o \in Op, Enqueue(o)
        PROVE  UNCHANGED <<dir, hand>> /\ Settled' = Settled
    BY <1>4 DEF Enqueue, TypeOK, Settled
  <1>5. ASSUME NEW e \in Edge, EdgeStep(e)
        PROVE  /\ UNCHANGED hand
               /\ Held(dir', CountedBody(counted))
               /\ Settled' \subseteq counted
    <2>1. CASE Export(e)
      <3>1. [kind |-> "push", from |-> e, ops |-> Pending(e)]
                \in CountedBody(counted)
        BY DEF CountedBody, Push, Site, Pending
      <3>2. Held(dir', CountedBody(counted))
        BY <2>1, <3>1, WrittenHeld DEF Export, Out, Directory, Site
      <3> QED
        BY <2>1, <3>2 DEF Export, Settled
    <2>2. CASE ExportFails(e) \/ NoAnswer(e) \/ Restart(e)
      <3>1. PICK ops \in SUBSET Op, state \in {"pending", "failed"} : Mark(ops, state)
        BY <2>2 DEF ExportFails, NoAnswer, Restart, Pending, TypeOK
      <3>2. Settled' \subseteq Settled
        BY <3>1, MarkType DEF TypeOK, Settled
      <3> QED
        BY <2>2, <3>2 DEF ExportFails, NoAnswer, Restart
    <2>3. CASE ReadsAnswer(e)
      <3>1. PICK i \in Oldest(In(e)) :
              /\ dir[In(e)][i].body.kind = "answer"
              /\ Consumed(In(e), i)
              /\ IF dir[In(e)][i].body.ok
                 THEN Mark({o \in dir[In(e)][i].body.acked : Owner[o] = e}, "synced")
                 ELSE Mark(batch[e], "failed")
        BY <2>3 DEF ReadsAnswer
      <3>2. In(e) \in Directory
        BY DEF In, Directory, Site
      <3>3. /\ Held(dir', CountedBody(counted))
            /\ dir[In(e)][i].body.acked \subseteq counted
        BY <3>1, <3>2, OldestHeld, ConsumedHeld DEF CountedBody, Push
      <3>4. PICK ops \in SUBSET Op, state \in {"synced", "failed"} :
              Mark(ops, state) /\ (state = "synced" => ops \subseteq counted)
        <4>1. CASE dir[In(e)][i].body.ok
          <5>1. dir[In(e)][i].body.acked \in SUBSET counted
            BY <3>3
          <5>2. PICK acked \in SUBSET counted :
                  Mark({o \in acked : Owner[o] = e}, "synced")
            BY <3>1, <4>1, <5>1
          <5>3. {o \in acked : Owner[o] = e} \in SUBSET counted
            OBVIOUS
          <5> QED
            BY <5>2, <5>3
        <4>2. CASE ~dir[In(e)][i].body.ok
          <5>1. Mark(batch[e], "failed") /\ batch[e] \in SUBSET Op
            BY <3>1, <4>2 DEF TypeOK
          <5> QED
            BY <5>1
        <4> QED
          BY <4>1, <4>2
      <3>5. Settled' \subseteq Settled \cup counted
        BY <3>4, MarkType DEF TypeOK, Settled
      <3> QED
        BY <2>3, <3>3, <3>5 DEF ReadsAnswer
    <2>4. CASE ReadsPush(e)
      <3>1. Held(dir', CountedBody(counted))
        BY <2>4, OldestHeld, ConsumedHeld DEF ReadsPush, In, Directory, Site
      <3> QED
        BY <2>4, <3>1 DEF ReadsPush, Settled
    <2> QED
      BY <1>5, <2>1, <2>2, <2>3, <2>4 DEF EdgeStep
  <1>6. ASSUME NEW e \in Edge, OperatorRegisters(e)
        PROVE  UNCHANGED <<dir, hand>> /\ Settled' = Settled
    BY <1>6 DEF OperatorRegisters, queue, Settled
  <1>7. ASSUME HQStep \/ HQCrashes
        PROVE  /\ Held(dir', CountedBody(counted))
               /\ hand'.stage = "answer" => hand'.answer.acked \subseteq counted
               /\ Settled' = Settled
    <2>1. Settled' = Settled
      BY <1>7 DEF HQStep, HQReceives, HQRefuses, HQApplies, HQFails, HQCounts,
                  HQAnswers, HQCrashes, queue, Settled
    <2>2. CASE HQReceives
      <3>1. Held(dir', CountedBody(counted))
        BY <2>2, OldestHeld, ConsumedHeld DEF HQReceives, In, Directory, Site
      <3>2. hand'.stage = "push"
        BY <2>2 DEF HQReceives
      <3> QED
        BY <2>1, <3>1, <3>2
    <2>3. CASE HQRefuses \/ HQFails
      <3>1. hand' = [stage |-> "answer",
                     answer |-> [kind |-> "answer", ok |-> FALSE, acked |-> {}]]
        BY <2>3 DEF HQRefuses, HQFails, Responds
      <3> QED
        BY <2>1, <2>3, <3>1 DEF HQRefuses, HQFails
    <2>4. CASE HQApplies
      <3>1. hand'.stage = "applied"
        BY <2>4, AppliedHand
      <3> QED
        BY <2>1, <2>4, <3>1 DEF HQApplies
    <2>5. CASE HQAnswers
      <3>1. hand.answer \in CountedBody(counted)
        BY <2>5, HandType DEF HQAnswers, CountedBody
      <3>2. Held(dir', CountedBody(counted))
        BY <2>5, <3>1, WrittenHeld DEF HQAnswers, Out, Directory, Site
      <3> QED
        BY <2>1, <2>5, <3>2 DEF HQAnswers, NoRequest
    <2>6. CASE HQCrashes
      BY <2>1, <2>6 DEF HQCrashes, NoRequest
    <2> QED
      BY <1>7, <2>2, <2>3, <2>4, <2>5, <2>6 DEF HQStep
  <1>8. ASSUME NEW source \in Site, NEW target \in Site,
               Carry(source, target) \/ FinishCopy(target)
        PROVE  /\ Held(dir', CountedBody(counted))
               /\ UNCHANGED hand /\ Settled' = Settled
    BY <1>8, CarriedHeld DEF Carry, FinishCopy, queue, Settled
  <1>9. CASE UNCHANGED vars
    BY <1>3, <1>9 DEF vars, queue, Settled
  <1> QED
    BY <1>3, <1>4, <1>5, <1>6, <1>7, <1>8, <1>9 DEF Next

\* HQCounts covers the operations of the request before it acknowledges them.
LEMMA CountCovers ==
    ASSUME TypeOK, DeliveryInv, HQCounts,
           NEW counted \in SUBSET Op, Covers(counted)
    PROVE  CountInv'
  <1> DEFINE from == hand.request.from
             ops  == hand.request.ops
  <1>1. /\ from \in Site /\ ops \in SUBSET Op
        /\ \A o \in ops : Owner[o] = from
    BY DEF HQCounts, DeliveryInv, TrueHand, TruePush, Push, Own
  <1>2. /\ total' = [total EXCEPT ![from] = @ + Cardinality(ops)]
        /\ UNCHANGED <<dir, syncState>>
        /\ hand' = [stage |-> "answer",
                    answer |-> [kind |-> "answer", ok |-> TRUE, acked |-> ops]]
    BY DEF HQCounts, Responds, queue
  <1>3. ASSUME NEW e \in Edge
        PROVE  Cardinality((counted \cup ops) \cap Own(e)) =< total'[e]
    <2>1. /\ IsFiniteSet(counted \cap Own(e)) /\ IsFiniteSet(ops)
          /\ Cardinality(counted \cap Own(e)) \in Nat /\ Cardinality(ops) \in Nat
      BY <1>1, FileAssumption, FS_Subset, FS_CardinalityType
    <2>2. Cardinality(counted \cap Own(e)) =< total[e] /\ total[e] \in Nat
      BY DEF Covers, TypeOK, Site
    <2>3. CASE e = from
      <3>1. (counted \cup ops) \cap Own(e) = (counted \cap Own(e)) \cup ops
        BY <1>1, <2>3 DEF Own
      <3>2. Cardinality((counted \cap Own(e)) \cup ops)
                =< Cardinality(counted \cap Own(e)) + Cardinality(ops)
        <4>1. /\ Cardinality((counted \cap Own(e)) \cup ops)
                   = Cardinality(counted \cap Own(e)) + Cardinality(ops)
                       - Cardinality((counted \cap Own(e)) \cap ops)
              /\ IsFiniteSet((counted \cap Own(e)) \cap ops)
          BY <2>1, FS_Union, FS_Intersection
        <4>2. Cardinality((counted \cap Own(e)) \cap ops) \in Nat
          BY <4>1, FS_CardinalityType
        <4> QED
          BY <2>1, <4>1, <4>2
      <3>3. total'[e] = total[e] + Cardinality(ops)
        BY <1>1, <1>2, <2>3 DEF TypeOK
      <3>4. Cardinality((counted \cap Own(e)) \cup ops) \in Nat
        BY <2>1, FS_Union, FS_CardinalityType
      <3> HIDE DEF ops, from
      <3> QED
        BY <2>1, <2>2, <3>1, <3>2, <3>3, <3>4
    <2>4. CASE e # from
      <3>1. (counted \cup ops) \cap Own(e) = counted \cap Own(e)
        BY <1>1, <2>4 DEF Own
      <3>2. total'[e] = total[e]
        BY <1>1, <1>2, <2>4 DEF TypeOK
      <3> QED
        BY <2>2, <3>1, <3>2
    <2> QED
      BY <2>3, <2>4
  <1>4. Held(dir, CountedBody(counted \cup ops))
    <2>1. CountedBody(counted) \subseteq CountedBody(counted \cup ops)
      BY DEF CountedBody
    <2> QED
      BY <2>1, WiderFiles DEF Covers
  <1>5. Settled \subseteq counted
    BY DEF Covers
  <1>6. PICK c \in SUBSET Op : c = counted \cup ops
    BY <1>1
  <1>7. Covers(c)'
    <2>1. \A e \in Edge : Cardinality(c \cap Own(e)) =< total'[e]
      BY <1>3, <1>6
    <2>2. Held(dir', CountedBody(c))
      BY <1>2, <1>4, <1>6
    <2>3. hand'.answer.acked \subseteq c
      BY <1>2, <1>6
    <2>4. Settled' \subseteq c
      BY <1>2, <1>5, <1>6 DEF Settled
    <2> QED
      BY <2>1, <2>2, <2>3, <2>4 DEF Covers, Own
  <1> QED
    BY <1>7 DEF CountInv

\* What is counted covers what the nodes consider synced, for any number of
\* edges, operations, crashes of the HQ and copies of a bundle.
THEOREM CountsCover == Spec => []CountsCoverSettled
  <1>1. Init /\ TypeOK => CountInv
    <2> SUFFICES ASSUME Init
                 PROVE  Covers({})
      BY DEF CountInv
    <2>1. \A e \in Edge : Cardinality({} \cap Own(e)) =< total[e]
      BY FS_EmptySet DEF Init, Site
    <2>2. Held(dir, CountedBody({}))
      BY DEF Init, Held
    <2> QED
      BY <2>1, <2>2 DEF Init, Covers, NoRequest, Settled
  <1>2. TypeOK /\ DeliveryInv /\ CountInv /\ [Next]_vars => CountInv'
    <2> SUFFICES ASSUME TypeOK, DeliveryInv, [Next]_vars,
                        NEW counted \in SUBSET Op, Covers(counted)
                 PROVE  CountInv'
      BY DEF CountInv
    <2>1. CASE HQCounts
      BY <2>1, CountCovers
    <2>2. CASE ~HQCounts
      BY <2>2, CoverStays DEF CountInv
    <2> QED
      BY <2>1, <2>2
  <1>3. TypeOK /\ CountInv => CountsCoverSettled
    <2> SUFFICES ASSUME TypeOK, NEW counted \in SUBSET Op, Covers(counted),
                        NEW e \in Edge
                 PROVE  Cardinality({o \in Settled : Owner[o] = e}) =< total[e]
      BY DEF CountInv, CountsCoverSettled
    <2>1. {o \in Settled : Owner[o] = e} \subseteq counted \cap Own(e)
      BY DEF Covers, Settled, Own
    <2>2. /\ IsFiniteSet(counted \cap Own(e))
          /\ Cardinality(counted \cap Own(e)) \in Nat
      BY FileAssumption, FS_Subset, FS_CardinalityType
    <2>3. /\ Cardinality({o \in Settled : Owner[o] = e})
                =< Cardinality(counted \cap Own(e))
          /\ Cardinality({o \in Settled : Owner[o] = e}) \in Nat
      BY <2>1, <2>2, FS_Subset, FS_CardinalityType
    <2>4. Cardinality(counted \cap Own(e)) =< total[e] /\ total[e] \in Nat
      BY DEF Covers, TypeOK, Site
    <2> QED
      BY <2>2, <2>3, <2>4
  <1> QED
    BY <1>1, <1>2, <1>3, DeliveryInvHolds, PTL DEF Spec

=============================================================================
